--------------------------- MODULE DeviceProcesses ---------------------------
(***************************************************************************)
(* Processes and apps of a device: killing and stopping them, and          *)
(* replacing a system app for a while. Each has variables, Init and Next   *)
(* of its own.                                                             *)
(***************************************************************************)
EXTENDS Naturals, FiniteSets

----------------------------------------------------------------------------
(***************************************************************************)
(* KillAll(), ForceStop() and GetApplicationPids() of DeviceUtils: what    *)
(* runs is listed with ps by one command and signalled by its pid with the *)
(* next; in between processes exit, start, and take pids that were free.   *)
(* Part is a process of the application besides its own.                   *)
(***************************************************************************)

CONSTANTS Pids, Ops,
          Names,            \* some of "app", "app:part" and "other"
          MaxSpawns, MaxExits,
          Reuse,            \* a pid that was freed is given again
          Deaf,             \* a process may ignore the signal
          Retries, None

VARIABLES run,              \* [Pids -> the process that has the pid]
          used, spawns, exits,
          dying,            \* signalled, and not gone yet
          pc, op, left, pids, targets, hit, result

device == <<run, used, spawns, exits, dying>>
caller == <<pc, op, left, pids, targets, hit, result>>
vars == <<device, caller>>

Contains(name) == {"app", "app:part"} \cap {name} # {}      \* "app" in name
Alive == {run[p] : p \in Pids} \ {None}
NoOp == [kind |-> "none", exact |-> FALSE, blocking |-> FALSE, quiet |-> FALSE]

Init ==
  /\ run \in [Pids -> {None} \cup [name : Names, gen : {0}, pid : Pids]]
  /\ \A p \in Pids : run[p] # None => run[p].pid = p
  /\ used = {p \in Pids : run[p] # None} /\ spawns = 0 /\ exits = 0 /\ dying = {}
  /\ pc = "idle" /\ op = NoOp /\ left = 0 /\ pids = {} /\ targets = {} /\ hit = {}
  /\ result = "none"

----------------------------------------------------------------------------

(* The device. *)
Exits(p) ==
  /\ run[p] # None
  /\ \/ run[p] \in dying /\ UNCHANGED exits
     \/ run[p] \notin dying /\ exits < MaxExits /\ exits' = exits + 1
  /\ run' = [run EXCEPT ![p] = None] /\ dying' = dying \ {run[p]}
  /\ UNCHANGED <<used, spawns, caller>>

Spawns(p, n) ==
  /\ run[p] = None /\ spawns < MaxSpawns /\ (Reuse \/ p \notin used)
  /\ spawns' = spawns + 1 /\ used' = used \cup {p}
  /\ run' = [run EXCEPT ![p] = [name |-> n, gen |-> spawns', pid |-> p]]
  /\ UNCHANGED <<exits, dying, caller>>

----------------------------------------------------------------------------

(* The calls. *)
Call(o) ==
  /\ pc = "idle" /\ op = NoOp
  /\ op' = o /\ pc' = "list" /\ left' = Retries
  /\ UNCHANGED <<device, pids, targets, hit, result>>

Returns(what) == pc' = "idle" /\ result' = what /\ UNCHANGED left
Raises(what) ==
  IF left > 0 THEN pc' = "list" /\ left' = left - 1 /\ UNCHANGED result
  ELSE Returns(what)

(* ListProcesses(): the lines of ps that grep lets through and whose name  *)
(* contains the one asked for.                                             *)
ListProcesses == {p \in Pids : run[p] # None /\ Contains(run[p].name)}
Exactly(ps) == {p \in ps : run[p].name = "app"}

(* Mutant: exact is not looked at.                                         *)
KillAllListsLoose ==
  /\ pc = "list" /\ op.kind = "KillAll"
  /\ pids' = ListProcesses
  /\ targets' = {run[p] : p \in pids'}
  /\ CASE pids' # {} -> pc' = "kill" /\ UNCHANGED <<left, result>>
       [] pids' = {} /\ op.quiet -> Returns("zero")
       [] OTHER -> Raises("no processes")
  /\ UNCHANGED <<device, op, hit>>

KillAllLists ==
  /\ pc = "list" /\ op.kind = "KillAll"
  /\ pids' = IF op.exact THEN Exactly(ListProcesses) ELSE ListProcesses
  /\ targets' = {run[p] : p \in pids'}
  /\ CASE pids' # {} -> pc' = "kill" /\ UNCHANGED <<left, result>>
       [] pids' = {} /\ op.quiet -> Returns("zero")
       [] OTHER -> Raises("no processes")
  /\ UNCHANGED <<device, op, hit>>

(* kill signals each pid that there is, and fails if there is one less.    *)
Kill ==
  /\ pc = "kill"
  /\ LET there == {run[p] : p \in pids} \ {None} IN
     /\ hit' = hit \cup there
     /\ \E deaf \in SUBSET (IF Deaf THEN there ELSE {}) : dying' = dying \cup (there \ deaf)
  /\ CASE \E p \in pids : run[p] = None -> Raises("kill failed")
       [] op.blocking /\ \A p \in pids : run[p] # None -> pc' = "wait" /\ UNCHANGED <<left, result>>
       [] OTHER -> Returns("ok")
  /\ UNCHANGED <<run, used, spawns, exits, op, pids, targets>>

AllPidsKilled ==
  /\ pc = "wait" /\ pids \cap ListProcesses = {}
  /\ Returns("ok")
  /\ UNCHANGED <<device, op, pids, targets, hit>>

TimesOut ==
  /\ pc = "wait" /\ pids \cap ListProcesses # {}
  /\ Raises("timeout")
  /\ UNCHANGED <<device, op, pids, targets, hit>>

(* GetApplicationPids(): what is named exactly so. *)
ForceStopLists ==
  /\ pc = "list" /\ op.kind = "ForceStop"
  /\ targets' = {r \in Alive : r.name \in {"app", "app:part"}}
  /\ IF Exactly(ListProcesses) = {} THEN Returns("ok") ELSE pc' = "force" /\ UNCHANGED <<left, result>>
  /\ UNCHANGED <<device, op, pids, hit>>

(* am force-stop ends all processes of the application, and waits for none.*)
ForceStop ==
  /\ pc = "force"
  /\ LET stopped == {r \in Alive : r.name \in {"app", "app:part"}} IN
       hit' = hit \cup stopped /\ dying' = dying \cup stopped
  /\ Returns("ok")
  /\ UNCHANGED <<run, used, spawns, exits, op, pids, targets>>

GetOnePid ==
  /\ pc = "list" /\ op.kind = "GetOnePid"
  /\ pids' = Exactly(ListProcesses)
  /\ IF Cardinality(pids') > 1 THEN Raises("more than one") ELSE Returns("ok")
  /\ UNCHANGED <<device, op, targets, hit>>

Caller == KillAllLists \/ Kill \/ AllPidsKilled \/ TimesOut \/ ForceStopLists \/ ForceStop \/ GetOnePid

Next == Caller \/ (\E o \in Ops : Call(o)) \/ (\E p \in Pids : Exits(p) \/ \E n \in Names : Spawns(p, n))

Spec == Init /\ [][Next]_vars /\ WF_vars(Caller)

----------------------------------------------------------------------------

TypeOK ==
  /\ \A p \in Pids : run[p] # None => run[p].pid = p /\ run[p].name \in Names
  /\ dying \subseteq Alive /\ pids \subseteq Pids
  /\ left \in 0..Retries

(* No process is signalled that the call does not name.                    *)
OthersAreLeft ==
  \A r \in hit : Contains(r.name) /\ (op.exact => r.name = "app")

(* A blocking KillAll() that returns outlives what it had listed.          *)
GoneWhenBlocking ==
  (pc = "idle" /\ op.blocking /\ result = "ok") => targets \cap Alive = {}

(* A KillAll() that returns has signalled all it listed last.              *)
AllAreHit == (pc = "idle" /\ op.kind = "KillAll" /\ result = "ok") => targets # {} /\ targets \subseteq hit

(* What of the application ran is stopped. *)
ApplicationStops == (pc = "idle" /\ op.kind = "ForceStop" /\ result = "ok") => targets \cap Alive \subseteq dying

(* A pid that is returned alone is that of the only one of its name.       *)
OnlyOne ==
  (pc = "list" /\ op.kind = "GetOnePid" /\ result' = "ok") =>
       Cardinality({r \in Alive : r.name = "app"}) <= 1

(* A call runs, though processes ignore the signal. *)
CallRuns == pc # "idle"

----------------------------------------------------------------------------
(***************************************************************************)
(* ReplaceSystemApp() and RemoveSystemApps() of system_app: nested context *)
(* managers that make a temporary directory, move the parts of an app      *)
(* there, install another, and undo it all in the reverse order.  To move  *)
(* anything the device is made modifiable, and rebooted afterwards; a      *)
(* property of the device tells whether it is.                             *)
(***************************************************************************)

CONSTANTS Parts, AppOps, MaxCalls, MaxFaults

VARIABLES place,            \* of each part: system, storage, removed, lost
          storage, deleting,          \* the directory; its thread is to run
          replaced,                   \* the other app is installed
          modifiable,                 \* the property
          writable, running,          \* /system; the framework
          appPc, appOp, phase, raised,  \* what is being moved, and why it ends
          appLeft, calls, faults, appResult

appDevice == <<place, storage, deleting, replaced, modifiable, writable, running>>
appVars == <<appDevice, appPc, appOp, phase, raised, appLeft, calls, faults, appResult>>

AppInit ==
  /\ place = [p \in Parts |-> "system"] /\ storage = FALSE /\ deleting = FALSE
  /\ replaced = FALSE /\ modifiable = FALSE /\ writable = FALSE /\ running = TRUE
  /\ appPc = "idle" /\ appOp = "none" /\ phase = "none" /\ raised = FALSE
  /\ appLeft = {} /\ calls = 0 /\ faults = 0 /\ appResult = "none"

Fault == faults < MaxFaults /\ faults' = faults + 1
Goes(p) == appPc' = p /\ UNCHANGED <<phase, raised>>
NoFault == UNCHANGED faults
Same == <<appOp, calls>>

----------------------------------------------------------------------------

AppCall(o) ==
  /\ appPc = "idle" /\ ~deleting /\ calls < MaxCalls
  /\ appOp' = o /\ calls' = calls + 1 /\ raised' = FALSE /\ appResult' = "none"
  /\ IF o = "Replace" THEN appPc' = "enter" /\ phase' = "out" /\ UNCHANGED appLeft
     ELSE appPc' = "check" /\ phase' = "remove" /\ appLeft' = {p \in Parts : place[p] = "system"}
  /\ UNCHANGED <<appDevice, faults>>

Ends ==
  /\ appPc = "end"
  /\ appPc' = "idle" /\ appResult' = (IF raised THEN "raised" ELSE "ok")
  /\ UNCHANGED <<appDevice, Same, phase, raised, appLeft, faults>>

FindSystemPackagePaths == {p \in Parts : place[p] = "system"}
TemporaryDirectory == storage' = TRUE

(* The storage directory is entered, and the paths of the app are found.   *)
Enter ==
  /\ appPc = "enter"
  /\ \/ /\ TemporaryDirectory /\ NoFault /\ appLeft' = FindSystemPackagePaths
        /\ Goes(IF appLeft' = {} THEN "install" ELSE "check")
     \/ Fault /\ appPc' = "end" /\ raised' = TRUE /\ UNCHANGED <<storage, appLeft, phase>>
  /\ UNCHANGED <<place, deleting, replaced, modifiable, writable, running, Same, appResult>>

(* EnableSystemAppModification(): nothing is to do within another one.     *)
Check ==
  /\ appPc = "check"
  /\ Goes(IF modifiable THEN "inside" ELSE "root")
  /\ UNCHANGED <<appDevice, Same, appLeft, faults, appResult>>

After(p) == CASE p = "out" -> "install" [] p = "back" -> "close" [] OTHER -> "end"
Fails(p) == IF p = "remove" THEN "end" ELSE "close"

(* What is raised before the try statement reaches the caller at once.     *)
AppRaises == appPc' = Fails(phase) /\ raised' = TRUE /\ UNCHANGED phase

EnableRoot ==
  /\ appPc = "root"
  /\ \/ Goes("prepare") /\ NoFault
     \/ Fault /\ AppRaises
  /\ UNCHANGED <<appDevice, Same, appLeft, appResult>>

(* DisableVerity(), a reboot, Remount(), stop, and the property.           *)
Prepare ==
  /\ appPc = "prepare"
  /\ \/ writable' = TRUE /\ running' = FALSE /\ modifiable' = TRUE /\ Goes("modify") /\ NoFault
     \/ Fault /\ appPc' = "disable" /\ raised' = TRUE /\ UNCHANGED <<phase, modifiable>>
        /\ \/ UNCHANGED <<writable, running>>
           \/ writable' = TRUE /\ UNCHANGED running
           \/ writable' = TRUE /\ running' = FALSE
  /\ UNCHANGED <<place, storage, deleting, replaced, Same, appLeft, appResult>>

To == CASE phase = "out" -> "storage" [] phase = "back" -> "system" [] OTHER -> "removed"

(* mv && mv, or rm: one after another, up to the one that fails.           *)
Modify ==
  /\ appPc \in {"modify", "inside"}
  /\ \/ /\ appLeft = {} /\ NoFault
        /\ IF appPc = "modify" THEN Goes("disable") ELSE Goes(After(phase))
        /\ UNCHANGED <<place, appLeft>>
     \/ \E p \in appLeft : /\ place' = [place EXCEPT ![p] = To] /\ appLeft' = appLeft \ {p}
                           /\ NoFault /\ UNCHANGED <<appPc, phase, raised>>
     \/ /\ appLeft # {} /\ Fault /\ UNCHANGED <<place, appLeft>>
        /\ IF appPc = "modify" THEN appPc' = "disable" /\ raised' = TRUE /\ UNCHANGED phase ELSE AppRaises
  /\ UNCHANGED <<storage, deleting, replaced, modifiable, writable, running, Same, appResult>>

(* The finally clause: the property first, and then a reboot.              *)
Disable ==
  /\ appPc = "disable"
  /\ \/ modifiable' = FALSE /\ Goes("reboot") /\ NoFault
     \/ Fault /\ AppRaises /\ UNCHANGED modifiable
  /\ UNCHANGED <<place, storage, deleting, replaced, writable, running, Same, appLeft, appResult>>

Reboot ==
  /\ appPc = "reboot"
  /\ \/ /\ running' = TRUE /\ writable' = FALSE /\ modifiable' = FALSE /\ NoFault
        /\ Goes(IF raised /\ phase = "out" THEN "close" ELSE After(phase))
     \/ Fault /\ AppRaises /\ UNCHANGED <<running, writable, modifiable>>
  /\ UNCHANGED <<place, storage, deleting, replaced, Same, appLeft, appResult>>

(* Once relocated, whatever happens is followed by the way back.           *)
WayBack ==
  /\ phase' = "back" /\ appLeft' = {p \in Parts : place[p] = "storage"}
  /\ appPc' = IF appLeft' = {} THEN "close" ELSE "check"

Install ==
  /\ appPc = "install"
  /\ \/ replaced' = TRUE /\ Goes("body") /\ NoFault /\ UNCHANGED appLeft
     \/ Fault /\ raised' = TRUE /\ WayBack /\ UNCHANGED replaced
  /\ UNCHANGED <<place, storage, deleting, modifiable, writable, running, Same, appResult>>

Body ==
  /\ appPc = "body"
  /\ \/ Goes("uninstall") /\ NoFault
     \/ Fault /\ appPc' = "uninstall" /\ raised' = TRUE /\ UNCHANGED phase
  /\ UNCHANGED <<appDevice, Same, appLeft, appResult>>

(* Mutant: the parts are moved back before the other app is uninstalled,   *)
(* which then stays.                                                       *)
UninstallNot ==
  /\ appPc = "uninstall"
  /\ WayBack
  /\ NoFault /\ UNCHANGED <<replaced, raised>>
  /\ UNCHANGED <<place, storage, deleting, modifiable, writable, running, Same, appResult>>

Uninstall ==
  /\ appPc = "uninstall"
  /\ WayBack
  /\ \/ replaced' = FALSE /\ NoFault /\ UNCHANGED raised
     \/ Fault /\ raised' = TRUE /\ UNCHANGED replaced
  /\ UNCHANGED <<place, storage, deleting, modifiable, writable, running, Same, appResult>>

(* The directory is closed by a thread, which removes what it holds.       *)
Close ==
  /\ appPc = "close"
  /\ deleting' = TRUE /\ Goes("end") /\ NoFault
  /\ UNCHANGED <<place, storage, replaced, modifiable, writable, running, Same, appLeft, appResult>>

DeleteTemporaryDir ==
  /\ deleting
  /\ deleting' = FALSE /\ storage' = FALSE
  /\ place' = [p \in Parts |-> IF place[p] = "storage" THEN "lost" ELSE place[p]]
  /\ UNCHANGED <<replaced, modifiable, writable, running, appPc, Same, phase, raised, appLeft, faults, appResult>>

Steps == Ends \/ Enter \/ Check \/ EnableRoot \/ Prepare \/ Modify \/ Disable \/ Reboot
         \/ Install \/ Body \/ Uninstall \/ Close

AppNext == Steps \/ DeleteTemporaryDir \/ \E o \in AppOps : AppCall(o)

AppSpec == AppInit /\ [][AppNext]_appVars /\ WF_appVars(Steps) /\ WF_appVars(DeleteTemporaryDir)

----------------------------------------------------------------------------

AppTypeOK ==
  /\ \A p \in Parts : place[p] \in {"system", "storage", "removed", "lost"}
  /\ phase \in {"none", "out", "back", "remove"} /\ appLeft \subseteq Parts
  /\ (deleting => storage) /\ (modifiable => writable)

(* Within the scope of a replacement nothing of the app is in /system, the *)
(* other is installed, and the framework runs.                             *)
ReplacedInScope ==
  appPc = "body" => replaced /\ (faults = 0 => running) /\ \A p \in Parts : place[p] # "system"

(* A call that ends without an exception leaves the device as it was, but  *)
(* for what it was to remove.                                              *)
Restored ==
  (appPc = "idle" /\ ~deleting /\ appResult = "ok") =>
       /\ running /\ ~modifiable /\ ~replaced
       /\ appOp = "Replace" => \A p \in Parts : place[p] \in {"system", "removed"}

(* No part of the app is lost as long as no step fails; a step that fails  *)
(* may lose one, and then the call ends by an exception (Restored).        *)
NothingLost == \A p \in Parts : place[p] # "lost"

(* A part is moved only while /system is writable, and the framework does  *)
(* not run.                                                                *)
MovedWhenStopped == place' # place => deleting \/ (writable /\ ~running)

(* The temporary directory is there. *)
Stored == storage
==============================================================================
