----------------------------- MODULE UsbTopology -----------------------------
(***************************************************************************)
(* What is plugged in: the tree of the USB devices with the pairing of     *)
(* phones and BattOrs, the descriptors that lsusb prints, and the two      *)
(* looks for a BattOr. Each has variables, Init and Next of its own.       *)
(***************************************************************************)
EXTENDS Naturals, Sequences, FiniteSets, SequencesExt

----------------------------------------------------------------------------
(***************************************************************************)
(* Which BattOr measures which phone: find_usb_devices.py builds the tree  *)
(* of the USB devices from what lsusb, usb-devices and udevadm print,      *)
(* usb_hubs.py knows which physical port of a hub a device of the tree is  *)
(* in, and battor_device_mapping.py pairs the phones and the BattOrs that  *)
(* are in the same physical port of two hubs, and later looks for the tty  *)
(* of the one that belongs to a phone.                                     *)
(*                                                                         *)
(* A device is a record: its number, the number of its parent (0: the      *)
(* bus), the port of the parent it is in, its kind, its serial number and, *)
(* for a BattOr, its tty.  All are on one bus.  Between the commands a     *)
(* device may come loose and come back in its port with another number.    *)
(***************************************************************************)

CONSTANTS Worlds,            \* what may be plugged in
          Nums, Ttys,        \* device numbers and names of ttys
          HubTypes,          \* the hub types that are looked for
          MaxMoves

NoTty == "-"
NoSerial == "-"
NotAvailable == "not available"

VARIABLES world, moves,
          use,               \* what the tree is for: the map, or the tty of a phone
          pc, info, lines, tree,
          ttys, battors,     \* ttys still to be asked about; those of BattOrs, as records
          serial_map, result

vars == <<world, moves, use, pc, info, lines, tree, ttys, battors, serial_map, result>>

None == "none"

----------------------------------------------------------------------------

(* The hubs: a port of the tree, as a path from the hub, to a physical one *)
Nested(outer, at, inner) ==
  [path \in {<<p>> : p \in DOMAIN outer} \cup {<<at, q>> : q \in DOMAIN inner} |->
     IF Len(path) = 1 THEN outer[path[1]] ELSE inner[path[2]]]

Ports3 == [p \in 1..3 |-> p]
Layout ==
  [plugable |-> Nested([p \in 1..3 |-> 8 - p], 4, [p \in 1..4 |-> 5 - p]),
   plugable_usb3 |-> Nested([p \in 2..4 |-> p + 3], 1, [p \in 1..4 |-> p]),
   keedox |-> Nested(Ports3, 4, [p \in 1..4 |-> p + 3]),
   via |-> Nested(Ports3, 4, [p \in 1..4 |-> p + 3])]

Inner(type) == IF type = "plugable_usb3" THEN 1 ELSE 4

(* USBNode: the children of a node, by port. *)
Children(t, n) == {d \in t : d.parent = n.num}
ChildAt(t, n, port) == {d \in Children(t, n) : d.port = port}

(* HubType.IsType(): two chips of one kind, the second in a known port.    *)
IsType(t, type, n) ==
  /\ n.kind = type
  /\ \E d \in ChildAt(t, n, Inner(type)) : d.kind = type

RECURSIVE At(_, _, _)

At(t, n, path) ==
  IF path = <<>> THEN {n}
  ELSE UNION {At(t, d, Tail(path)) : d \in ChildAt(t, n, Head(path))}

PhysicalPorts(t, n, type) ==
  {pd \in (1..7) \X t : \E path \in DOMAIN Layout[type] :
     Layout[type][path] = pd[1] /\ pd[2] \in At(t, n, path)}

(* CollectHubMaps() with GetPhysicalPortToSerialMap(): a set of pairs for  *)
(* each hub of the tree.                                                   *)
PortToSerial(t) ==
  {<<n.num, {<<pd[1], pd[2].serial>> : pd \in {x \in PhysicalPorts(t, n, type) : x[2].serial # NoSerial}}>> :
     <<n, type>> \in {nt \in t \X HubTypes : IsType(t, nt[2], nt[1])}}

----------------------------------------------------------------------------

Init ==
  /\ world \in Worlds /\ moves = 0
  /\ use = "map" /\ pc = "lsusb"
  /\ info = <<>> /\ lines = {} /\ tree = {}
  /\ ttys = {} /\ battors = {}
  /\ serial_map = {} /\ result = None

Scan == <<use, pc, info, lines, tree, ttys, battors, serial_map, result>>

(* A phone or a BattOr comes loose and back. *)
Replug(d) ==
  /\ moves < MaxMoves /\ d.serial # NoSerial /\ ~(pc = "done" /\ use # "map")
  /\ \E num \in Nums \ {e.num : e \in world}, tty \in Ttys :
       /\ (d.kind = "battor") => (\A e \in world \ {d} : e.tty # tty)
       /\ world' = (world \ {d}) \cup
            {[d EXCEPT !.num = num, !.tty = IF d.kind = "battor" THEN tty ELSE NoTty]}
  /\ moves' = moves + 1
  /\ UNCHANGED Scan

Same == <<world, moves, use>>

(* GetBusNumberToDeviceTreeMap(): lsusb says what each number is.          *)
ReadLsusb ==
  /\ pc = "lsusb"
  /\ info' = [n \in {d.num : d \in world} |-> (CHOOSE d \in world : d.num = n).kind]
  /\ pc' = "usb-devices"
  /\ UNCHANGED <<Same, lines, tree, ttys, battors, serial_map, result>>

ReadUsbDevices ==
  /\ pc = "usb-devices"
  /\ lines' = world /\ tree' = {}
  /\ pc' = "lines"
  /\ UNCHANGED <<Same, info, ttys, battors, serial_map, result>>

(* FindDeviceNumber() *)
Find(num) == {n \in tree : n.num = num}

(* USBDeviceNode: what the tree keeps of a device. *)
Node(d) == [d EXCEPT !.kind = IF d.num \in DOMAIN info THEN info[d.num] ELSE NotAvailable,
                     !.tty = NoTty]

(* A T line and the S line below it: the node goes under its parent, which *)
(* comes before it in the output.                                          *)
Line(d) ==
  /\ pc = "lines" /\ d \in lines
  /\ \A e \in lines : e.num # d.parent
  /\ lines' = lines \ {d}
  /\ tree' = tree \cup {Node(d)}
  /\ UNCHANGED <<Same, pc, info, ttys, battors, serial_map, result>>

(* GetBattOrList() and GetBattOrSerialNumbers(): "ls /dev", then udevadm   *)
(* for each tty; the node with that number is looked up.                   *)
ListTtys ==
  /\ pc = "lines" /\ lines = {}
  /\ ttys' = {d.tty : d \in world} \ {NoTty}
  /\ battors' = {}
  /\ pc' = "ttys"
  /\ UNCHANGED <<Same, info, lines, tree, serial_map, result>>

Stops(outcome) == pc' = "done" /\ result' = outcome

AskTty(tty) ==
  /\ pc = "ttys" /\ tty \in ttys
  /\ ttys' = ttys \ {tty}
  /\ LET owner == {d \in world : d.tty = tty}
         node == UNION {Find(d.num) : d \in owner}
     IN IF node = {}
        THEN Stops("error") /\ UNCHANGED battors       \* ValueError, or None has no desc
        ELSE /\ battors' = battors \cup
                  {[tty |-> tty, num |-> n.num, serial |-> n.serial] : n \in {m \in node : m.kind = "battor"}}
             /\ UNCHANGED <<pc, result>>
  /\ UNCHANGED <<Same, info, lines, tree, serial_map>>

Serials == {b.serial : b \in battors}
Entries == UNION {hub[2] : hub \in PortToSerial(tree)}
Twice(of) ==      \* two hubs have one of these in the same port
  \E h, g \in PortToSerial(tree) : h # g /\ \E x \in h[2], y \in g[2] :
     x[1] = y[1] /\ {x[2], y[2]} \subseteq of
Phones == {e[2] : e \in Entries} \ Serials

(* GenerateSerialMap(): with one BattOr no map is needed. *)
GenerateSerialMap ==
  /\ pc = "ttys" /\ ttys = {} /\ use = "map"
  /\ LET pairs == {<<p[2], b[2]>> : <<p, b>> \in
                     {pb \in Entries \X Entries : /\ pb[1][1] = pb[2][1]
                                                  /\ pb[1][2] \in Phones /\ pb[2][2] \in Serials}}
     IN IF Cardinality(battors) = 1 THEN serial_map' = {} /\ Stops("map")
        ELSE IF \/ Twice(Phones) \/ Twice(Serials)
                \/ \E p \in Phones : \A pair \in pairs : pair[1] # p
        THEN Stops("error") /\ UNCHANGED serial_map
        ELSE serial_map' = pairs /\ Stops("map")
  /\ UNCHANGED <<Same, info, lines, tree, ttys, battors>>

(* GetBattOrPathFromPhoneSerial(), with a tree of its own. *)
AskForPath(phone) ==
  /\ pc = "done" /\ result = "map"
  /\ use' = phone /\ pc' = "lsusb" /\ result' = None
  /\ UNCHANGED <<world, moves, info, lines, tree, ttys, battors, serial_map>>

(* Mutant: the first BattOr that was found.                                *)
GetBattOrPathFirst ==
  /\ pc = "ttys" /\ ttys = {} /\ use # "map"
  /\ IF battors = {} THEN Stops("error") ELSE \E b \in battors : Stops(b.tty)
  /\ UNCHANGED <<Same, info, lines, tree, ttys, battors, serial_map>>

GetBattOrPath ==
  /\ pc = "ttys" /\ ttys = {} /\ use # "map"
  /\ LET mine == {pair[2] : pair \in {q \in serial_map : q[1] = use}}
         node == {n \in tree : n.serial \in mine}
         now == {d.tty : d \in {e \in world : e.kind = "battor" /\ \E n \in node : e.num = n.num}}
     IN IF Cardinality(battors) = 1 THEN \E b \in battors : Stops(b.tty)
        ELSE IF now = {} \/ \E n \in node : n.kind # "battor" THEN Stops("error")
        ELSE \E tty \in now : Stops(tty)
  /\ UNCHANGED <<Same, info, lines, tree, ttys, battors, serial_map>>

Next == \/ \E d \in world : Replug(d)
        \/ ReadLsusb \/ ReadUsbDevices \/ ListTtys \/ GenerateSerialMap \/ GetBattOrPath
        \/ \E d \in lines : Line(d)
        \/ \E tty \in ttys : AskTty(tty)
        \/ \E d \in world : d.kind = "phone" /\ AskForPath(d.serial)

Spec == Init /\ [][Next]_vars

----------------------------------------------------------------------------

(* Types of the tree and of the map. *)
TypeOK ==
  /\ {n.num : n \in tree} \subseteq Nums
  /\ \A n, m \in tree : n.num = m.num => n = m
  /\ \A pair \in serial_map : Len(pair) = 2

(* The physical port of a device: where one would look for it.  Worlds say *)
(* it of each device.                                                      *)
Partners(d) == {e.serial : e \in {f \in world : f.kind = "battor" /\ f.physical = d.physical}}
Battors == {d \in world : d.kind = "battor"}

(* A map that was made with two BattOrs or more gives each phone the one   *)
(* in the same physical port, and no BattOr to two phones.                 *)
PairedByPort ==
  (use = "map" /\ result = "map" /\ Cardinality(Battors) > 1 /\ moves = 0) =>
    /\ \A d \in world : d.kind = "phone" => \E b \in Partners(d) : <<d.serial, b>> \in serial_map
    /\ \A p, q \in serial_map : p[2] = q[2] => p = q

(* The tty that is answered for a phone is the one of its BattOr.          *)
Answered == pc = "done" /\ use # "map" /\ result # "error"
PathIsPaired ==
  Answered => \E b \in Battors : /\ b.tty = result
                                 /\ <<use, b.serial>> \in serial_map \/ Cardinality(Battors) = 1

(* What is taken for a BattOr is one. *)
BattorsAre == \A b \in battors : \E d \in world : d.serial = b.serial /\ d.kind = "battor"

----------------------------------------------------------------------------
(***************************************************************************)
(* lsusb.py: each device that lsusb lists is asked for its descriptor with *)
(* lsusb -v, whose lines make a tree by their indentation.  A device that  *)
(* does not answer within ten seconds is left out.                         *)
(*                                                                         *)
(* A node is the path of names that leads to it; depth_stack is the path   *)
(* of the node that was made last.  Blank lines, errors and the line that  *)
(* names the bus are of the kind "noise"; a line is "other" if it is       *)
(* neither a group nor an entry.                                           *)
(***************************************************************************)

CONSTANTS Lines,             \* what lsusb -v may print
          MaxLines, MaxListed

VARIABLES listed,            \* devices that are still to be asked
          printed,           \* the lines of this one up to here
          listingTree, depth_stack,
          serials            \* of the Android devices among those asked

listingVars == <<listed, printed, listingTree, depth_stack, serials>>

NoDesc == "-"
Done == listed = 0

ListingInit ==
  /\ listed \in 1..MaxListed
  /\ printed = <<>> /\ listingTree = <<>> /\ depth_stack = <<>>
  /\ serials = <<>>

(* depth: an odd blank does not count. *)
Depth(line) == 1 + line.indent \div 2

(* cur[name] = ... puts a new dictionary in the place of an older one.     *)
Put(path, node) ==
  [p \in {q \in DOMAIN listingTree : ~IsPrefix(path, q)} \cup {path} |-> IF p = path THEN node ELSE listingTree[p]]

(* Everything is popped that is no parent of this line. *)
Parents(line) == SubSeq(depth_stack, 1, Depth(line) - 1)

Skips(line) == line.kind = "noise" \/ Depth(line) > Len(depth_stack) + 1

(* _lsusbv_on_device(): one line. *)
ReadLine(line) ==
  /\ ~Done /\ Len(printed) < MaxLines
  /\ printed' = Append(printed, line)
  /\ IF Skips(line) THEN UNCHANGED <<listingTree, depth_stack>>
     ELSE LET path == Append(Parents(line), line.name)
          IN IF line.kind = "other" THEN depth_stack' = Parents(line) /\ UNCHANGED listingTree
             ELSE depth_stack' = path /\ listingTree' = Put(path, [value |-> line.value, desc |-> line.desc])
  /\ UNCHANGED <<listed, serials>>

Says(path, field) == IF path \in DOMAIN listingTree THEN listingTree[path][field] ELSE NoDesc

(* get_lsusb_serial(), _is_android_device() *)
Serial == Says(<<"Device Descriptor", "iSerial">>, "desc")
IsAndroid == Says(<<"Device Descriptor", "bDeviceClass">>, "value") # "9" /\ Serial # NoDesc

NextDevice ==
  /\ listed' = listed - 1
  /\ printed' = <<>> /\ listingTree' = <<>> /\ depth_stack' = <<>>

(* lsusb() and get_android_devices(): one device. *)
Listed ==
  /\ ~Done /\ printed # <<>>
  /\ serials' = IF IsAndroid THEN Append(serials, Serial) ELSE serials
  /\ NextDevice

TimesOut == ~Done /\ NextDevice /\ UNCHANGED serials

ListingNext == (\E line \in Lines : ReadLine(line)) \/ Listed \/ TimesOut

ListingSpec == ListingInit /\ [][ListingNext]_listingVars

----------------------------------------------------------------------------

(* The nearest line before that is indented less; 0 if there is none.      *)
Looked == {i \in DOMAIN printed : printed[i].kind # "noise"}
Above(i) == {j \in Looked : j < i /\ Depth(printed[j]) < Depth(printed[i])}
Superior(i) == IF Above(i) = {} THEN 0 ELSE CHOOSE j \in Above(i) : \A k \in Above(i) : k <= j

(* The path of each line; <<>> if it has no place. *)
Place[i \in 0..MaxLines] ==
  IF i = 0 \/ i \notin Looked \/ printed[i].kind = "other" THEN <<>>
  ELSE LET s == Superior(i)
       IN IF Depth(printed[i]) = 1 THEN <<printed[i].name>>
          ELSE IF Place[s] # <<>> /\ Depth(printed[i]) = Depth(printed[s]) + 1
          THEN Append(Place[s], printed[i].name) ELSE <<>>

(* A line is in the tree under the nearest line before it that is indented *)
(* less, if that is one level less, and only the last one of a name stays. *)
PlacedByIndentation ==
  /\ DOMAIN listingTree = {Place[i] : i \in {j \in DOMAIN printed :
       /\ Place[j] # <<>>
       /\ \A k \in (j + 1)..Len(printed) : Place[k] = <<>> \/ ~IsPrefix(Place[k], Place[j])}}
  /\ \A path \in DOMAIN listingTree : \E i \in DOMAIN printed :
       /\ Place[i] = path /\ listingTree[path].desc = printed[i].desc
       /\ \A k \in (i + 1)..Len(printed) : Place[k] # path

----------------------------------------------------------------------------
(***************************************************************************)
(* battor_wrapper.py looks for a BattOr twice: IsBattOrConnected() before  *)
(* an agent is chosen, and _GetBattOrPath() when its wrapper is made.  Of  *)
(* the bus each look sees the BattOrs, by tty and port, and of the serial  *)
(* ports the descriptions; phones and BattOrs of one port are paired (see  *)
(* UsbTopology).  Something may be plugged in or out between the looks.    *)
(***************************************************************************)

CONSTANTS LookupPhones, BattOrs,  \* a BattOr is named like its tty
          PortOf,               \* of a phone or a BattOr
          MaxPlugs

VARIABLES bus,                  \* what is plugged in
          args,                 \* platform, phone, path and map that were given
          asked,                \* what was plugged in when the first look was made
          plugs, connected, path

lookupVars == <<bus, args, asked, plugs, connected, path>>

LookupNone == "none"
NoMap == {}
Platforms == {"android", "linux", "win", "mac"}

(* GetBattOrList() *)
BattOrList(b) == b \cap BattOrs

(* GenerateSerialMap() has no map if there is one BattOr, and raises if a  *)
(* phone has none in its port.                                             *)
PairsOf(b) == {pb \in (b \cap LookupPhones) \X BattOrList(b) : PortOf[pb[1]] = PortOf[pb[2]]}
MapRaises(b) == Cardinality(BattOrList(b)) # 1 /\ \E p \in b \cap LookupPhones : \A q \in PairsOf(b) : q[1] # p
GenerateMap(b) == IF Cardinality(BattOrList(b)) = 1 THEN NoMap ELSE PairsOf(b)

LookupInit ==
  /\ bus \in SUBSET (LookupPhones \cup BattOrs)
  /\ args \in [platform : Platforms, phone : LookupPhones \cup {LookupNone}, path : BattOrs \cup {LookupNone},
               map : {NoMap} \cup {PairsOf(b) : b \in SUBSET (LookupPhones \cup BattOrs)}]
  /\ asked = {} /\ plugs = 0
  /\ connected = LookupNone /\ path = LookupNone

Plug(x) ==
  /\ plugs < MaxPlugs /\ path = LookupNone
  /\ plugs' = plugs + 1
  /\ bus' = IF x \in bus THEN bus \ {x} ELSE bus \cup {x}
  /\ UNCHANGED <<args, asked, connected, path>>

(* _IsBattOrConnected() on Android. *)
OnAndroid ==
  IF args.phone = LookupNone THEN "raised"
  ELSE IF args.map # NoMap
       THEN IF \E q \in args.map : q[1] = args.phone THEN "yes" ELSE "no"
  ELSE IF Cardinality(BattOrList(bus)) = 1 THEN "yes"
  ELSE IF ~MapRaises(bus) /\ \E q \in GenerateMap(bus) : q[1] = args.phone THEN "yes" ELSE "no"

IsBattOrConnected ==
  /\ connected = LookupNone
  /\ asked' = bus
  /\ connected' = IF args.platform = "android" THEN OnAndroid
                  ELSE IF BattOrList(bus) # {} THEN "yes" ELSE "no"
  /\ UNCHANGED <<bus, args, plugs, path>>

Raises == path' = "raised"

(* GetBattOrPathFromPhoneSerial() *)
PathFromPhone(given) ==
  LET mine == {q[2] : q \in {r \in given : r[1] = args.phone}} \cap bus
  IN IF Cardinality(BattOrList(bus)) = 1 THEN \E b \in BattOrList(bus) : path' = b
     ELSE IF mine = {} THEN Raises
     ELSE \E b \in mine : path' = b

(* _GetBattOrPath() *)
LookupGetBattOrPath ==
  /\ connected # LookupNone /\ path = LookupNone
  /\ CASE args.platform \in {"win", "mac"} ->
            IF BattOrList(bus) = {} THEN Raises ELSE \E b \in BattOrList(bus) : path' = b
       [] args.platform \notin {"win", "mac"} /\ args.path # LookupNone -> path' = args.path
       [] args.platform = "android" /\ args.path = LookupNone ->
            IF args.phone = LookupNone \/ (args.map = NoMap /\ MapRaises(bus)) THEN Raises
            ELSE PathFromPhone(IF args.map # NoMap THEN args.map ELSE GenerateMap(bus))
       [] args.platform = "linux" /\ args.path = LookupNone ->
            IF Cardinality(BattOrList(bus)) # 1 THEN Raises
            ELSE \E b \in BattOrList(bus) : path' = b
  /\ UNCHANGED <<bus, args, asked, plugs, connected>>

LookupNext == (\E x \in LookupPhones \cup BattOrs : Plug(x)) \/ IsBattOrConnected \/ LookupGetBattOrPath

LookupSpec == LookupInit /\ [][LookupNext]_lookupVars

----------------------------------------------------------------------------

Found == path \notin {LookupNone, "raised"}

(* What was said to be connected is found, if nothing was plugged meanwhile *)
(* and the map that was given is that of the bus; but not on Linux with    *)
(* two or more BattOrs, of which none is taken.                            *)
ConnectedIsFound ==
  (connected = "yes" /\ path # LookupNone /\ asked = bus /\ plugs = 0) =>
    \/ Found
    \/ args.platform = "linux" /\ Cardinality(BattOrList(bus)) > 1
    \/ args.map # NoMap /\ args.map # PairsOf(bus)

(* With two BattOrs or more the path that is taken for a phone is of its   *)
(* port, unless one was given.                                             *)
OfThePhone ==
  (Found /\ args.platform = "android" /\ args.path = LookupNone /\ Cardinality(BattOrList(bus)) > 1) =>
    PortOf[path] = PortOf[args.phone]
==============================================================================
