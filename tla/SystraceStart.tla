---------------------------- MODULE SystraceStart ----------------------------
(***************************************************************************)
(* From systrace's command line to its tracing agents: the options, the    *)
(* choice of the device, and the agents that each module creates, one      *)
(* after the other, for the options that are left.  The atrace agent asks  *)
(* the device for the version of its SDK, and to know which device that is *)
(* it parses the command line once more, with a parser that knows one      *)
(* option only.  Devices come and go meanwhile.                            *)
(***************************************************************************)
EXTENDS Naturals, Sequences, FiniteSets, SequencesExt

CONSTANTS
  Devices, Sdk,  \* the devices and the SDK of each
  Words,         \* what a command line may be made of, see Word
  MaxWords,
  SerialFirst,   \* TRUE: the serial option comes first, if at all
  Hotplug        \* TRUE: devices come and go

None == "none"

Fields == {"serial", "target", "from_file", "list_categories", "trace_time", "buf_size",
           "process_dump", "walt", "battor", "atrace_categories", "ftrace_categories"}

(* An option with its value, or a category.                                *)
Word == [k : Fields \cup {"category"}, v : STRING]

StartAssumption ==
  /\ Sdk \in [Devices -> Nat] /\ None \notin Devices
  /\ Words \subseteq Word
  /\ MaxWords \in Nat /\ {SerialFirst, Hotplug} \subseteq BOOLEAN

VARIABLES
  argv,
  env,           \* ANDROID_SERIAL
  adb,           \* TRUE: adb is in the path
  attached,      \* the devices that adb sees
  options, categories,
  pc,
  agents         \* what was created: [module, device, sdk]

user == <<argv, env, adb>>
vars == <<user, attached, options, categories, pc, agents>>

JellyBeanMR2 == 18

(* The modules in the order of AGENT_MODULES.                              *)
Modules == <<"process_data", "atrace", "atrace_from_file", "process_dump", "battor", "ftrace",
             "walt">>

Over == {"ready", "listed", "usage", "error", "exit"}

TypeOK ==
  /\ attached \subseteq Devices
  /\ DOMAIN options = Fields
  /\ pc \in {"parse", "override", "device", "choose", "list"} \cup ToSet(Modules) \cup Over
  /\ \A a \in agents : /\ a.module \in ToSet(Modules)
                       /\ a.module = "atrace" => a.sdk >= JellyBeanMR2

SerialOrder(s) == \A i \in DOMAIN s : s[i].k = "serial" => i = 1

Init ==
  /\ argv \in {s \in SeqOf(Words, MaxWords) : SerialFirst => SerialOrder(s)}
  /\ env \in Devices \cup {None}
  /\ adb \in BOOLEAN
  /\ attached \in SUBSET Devices
  /\ options = [f \in Fields |-> None] /\ categories = {}
  /\ pc = "parse"
  /\ agents = {}

----------------------------------------------------------------------------

(* The last of the options of a kind counts.                               *)
Parsed(f, words, default) ==
  LET given == SelectSeq(words, LAMBDA w : w.k = f)
  IN IF given = <<>> THEN default ELSE Last(given).v

(* get_main_options() and the modules' add_options(): the defaults.        *)
Default(f) == CASE f = "serial" -> env [] f = "target" -> "android" [] OTHER -> None

(* parse_options().                                                        *)
ParseOptions ==
  /\ pc = "parse"
  /\ options' = [f \in Fields |-> Parsed(f, argv, Default(f))]
  /\ categories' = {w.v : w \in {x \in ToSet(argv) : x.k = "category"}}
  /\ pc' = IF options'.trace_time = "negative" \/ options'.buf_size = "0" THEN "usage"
           ELSE "override"
  /\ UNCHANGED <<user, attached, agents>>

(* main_impl(): categories on the command line override those of the       *)
(* options; without any, android has a default.                            *)
Override ==
  /\ pc = "override"
  /\ IF categories # {} /\ options.target \notin {"android", "linux"}
     THEN pc' = "error" /\ UNCHANGED options
     ELSE /\ pc' = "device"
          /\ options' =
               CASE options.target = "android" /\ categories # {} ->
                      [options EXCEPT !.atrace_categories = "named"]
                 [] options.target = "android" /\ options.atrace_categories = None ->
                      [options EXCEPT !.atrace_categories = "default"]
                 [] options.target = "linux" /\ categories # {} ->
                      [options EXCEPT !.ftrace_categories = "named"]
                 [] OTHER -> options
  /\ UNCHANGED <<user, attached, categories, agents>>

LiveAndroid == options.target = "android" /\ options.from_file = None

Chosen == IF options.list_categories # None THEN "list" ELSE Head(Modules)

(* initialize_devil(): adb must be in the path.                            *)
InitializeDevil ==
  /\ pc = "device"
  /\ pc' = IF ~LiveAndroid THEN "choose" ELSE IF adb THEN "choose" ELSE "exit"
  /\ UNCHANGED <<user, attached, options, categories, agents>>

(* The version that adb answers: of the device with the serial; without    *)
(* one, of the device that adb's own environment names, or of the only one.*)
Asked(serial) ==
  LET named == IF serial # None THEN serial ELSE env
  IN {d \in attached : IF named # None THEN d = named ELSE attached = {d}}

(* get_device_sdk_version() parses the command line with a parser that     *)
(* knows the serial option alone, and stops at the first it does not know. *)
SerialOfCommandLine ==
  LET unknown == {i \in DOMAIN argv : argv[i].k \notin {"serial", "category"}}
      n == IF unknown = {} THEN Len(argv) ELSE (CHOOSE i \in unknown : \A j \in unknown : i <= j) - 1
  IN Parsed("serial", SubSeq(argv, 1, n), None)

SdkAsked == {Sdk[d] : d \in IF adb THEN Asked(SerialOfCommandLine) ELSE {}}

(* The device that is attached, if no serial was given.                    *)
ChooseDevice ==
  /\ pc = "choose"
  /\ IF ~LiveAndroid \/ options.serial # None
     THEN /\ pc' = Chosen
          /\ UNCHANGED options
     ELSE \/ \E d \in attached : /\ attached = {d}
                                 /\ options' = [options EXCEPT !.serial = d]
                                 /\ pc' = Chosen
          \/ Cardinality(attached) # 1 /\ pc' = "error" /\ UNCHANGED options
  /\ UNCHANGED <<user, attached, categories, agents>>

(* list_categories(): the device lists them, and the version tells which   *)
(* of them to leave out.                                                   *)
ListCategories ==
  /\ pc = "list"
  /\ pc' = IF options.target # "android" THEN "listed"
           ELSE IF options.serial \notin attached \/ ~adb THEN "error"
           ELSE IF SdkAsked = {} THEN "exit" ELSE "listed"
  /\ UNCHANGED <<user, attached, options, categories, agents>>

----------------------------------------------------------------------------

(* try_create_agent() of each module, and its get_config().                *)
ProcessData == LiveAndroid /\ options.process_dump = None

FromFile == options.from_file # None

ProcessDump == options.process_dump # None /\ LiveAndroid

Battor == options.from_file = None /\ options.battor # None

Ftrace == options.target = "linux"

Walt == options.walt # None

Creates(m) ==
  CASE m = "process_data" -> ProcessData [] m = "atrace_from_file" -> FromFile
    [] m = "process_dump" -> ProcessDump [] m = "battor" -> Battor
    [] m = "ftrace" -> Ftrace [] m = "walt" -> Walt

After(m) ==
  LET i == CHOOSE i \in DOMAIN Modules : Modules[i] = m
  IN IF i = Len(Modules) THEN "ready" ELSE Modules[i + 1]

(* CreateAgentsWithConfig(): one module after the other.                   *)
CreateAgent ==
  /\ pc \in ToSet(Modules) \ {"atrace"}
  /\ agents' = agents \cup
       IF Creates(pc) THEN {[module |-> pc, device |-> options.serial, sdk |-> 0]} ELSE {}
  /\ pc' = After(pc)
  /\ UNCHANGED <<user, attached, options, categories>>

(* atrace's try_create_agent() asks for the version.                       *)
CreateAtrace ==
  /\ pc = "atrace"
  /\ IF LiveAndroid /\ options.atrace_categories # None
     THEN \/ \E sdk \in SdkAsked :
               /\ pc' = After(pc)
               /\ agents' = agents \cup
                    IF sdk < JellyBeanMR2 THEN {}
                    ELSE {[module |-> "atrace", device |-> options.serial, sdk |-> sdk]}
          \/ SdkAsked = {} /\ pc' = "exit" /\ UNCHANGED agents
     ELSE pc' = After(pc) /\ UNCHANGED agents
  /\ UNCHANGED <<user, attached, options, categories>>

(* A device is attached or taken away.                                     *)
Plug(d) ==
  /\ Hotplug /\ pc \notin Over
  /\ attached' = IF d \in attached THEN attached \ {d} ELSE attached \cup {d}
  /\ UNCHANGED <<user, options, categories, pc, agents>>

Next ==
  \/ ParseOptions \/ Override \/ InitializeDevil \/ ChooseDevice \/ ListCategories
  \/ CreateAgent \/ CreateAtrace
  \/ \E d \in Devices : Plug(d)

Spec == Init /\ [][Next]_vars

----------------------------------------------------------------------------

(* The version that the atrace agent goes by is the version of the device  *)
(* it traces.                                                              *)
SameDevice ==
  \A a \in agents : a.module = "atrace" => a.device \in Devices /\ a.sdk = Sdk[a.device]

(* Systrace leaves without a word only when there is no adb, or not the    *)
(* device that was asked for.                                              *)
ExitsWithoutDevice == pc = "exit" => ~adb \/ options.serial \notin attached

(* A file is read instead of a live trace.                                 *)
NoLiveFromFile ==
  options.from_file # None => \A a \in agents : a.module = "atrace_from_file"

(* The names of processes come from the process dump or from ps, never     *)
(* from both or from neither.                                              *)
OneProcessSource ==
  pc = "ready" /\ LiveAndroid =>
    Cardinality({a \in agents : a.module \in {"process_data", "process_dump"}}) = 1

(* What asks a device is not there when the host is traced, or no file is  *)
(* read there.                                                             *)
TargetOnly ==
  options.target # "android" =>
    \A a \in agents : a.module \notin {"process_data", "atrace", "process_dump"}
==============================================================================
