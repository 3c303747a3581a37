----------------------------- MODULE DeviceSetup -----------------------------
(***************************************************************************)
(* Devices made ready: provisioning, the unlocking of their bootloaders,   *)
(* and the setting of the date. Each has variables, Init and Next of its   *)
(* own.                                                                    *)
(***************************************************************************)
EXTENDS Naturals, Sequences, FiniteSets, Integers

----------------------------------------------------------------------------
(***************************************************************************)
(* ProvisionDevices() of provision_devices: the devices are picked by      *)
(* HealthyDevices(), a thread for each takes it through the steps, waiting *)
(* for it to boot before every one and rebooting it after some, and those  *)
(* that fail are blacklisted.                                              *)
(***************************************************************************)

CONSTANTS Devices, Steps,   \* a step: its name, and whether it reboots
          Serials,          \* what ANDROID_SERIAL may be
          MaxFaults,        \* commands that raise or devices that do not boot
          Others,           \* exceptions that ProvisionDevice() does not know
          None

VARIABLES attached, requested, serial,
          up, authorized,             \* of each device; the adb keys it has
          before, held,               \* the keys it had, and those that were read
          pc, index, listed, faults,
          main, picked, output

picks == <<attached, requested, serial, picked>>
vars == <<picks, up, authorized, before, held, pc, index, listed, faults, main, output>>

Init ==
  /\ attached \in SUBSET Devices /\ requested \in SUBSET Devices /\ serial \in Serials
  /\ up = [d \in Devices |-> "booted"]
  /\ authorized \in [Devices -> BOOLEAN] /\ before = authorized
  /\ held = [d \in Devices |-> FALSE]
  /\ pc = [d \in Devices |-> "none"] /\ index = [d \in Devices |-> 1]
  /\ listed \in {{}} \cup {{d} : d \in Devices}
  /\ faults = 0 /\ main = "pick" /\ picked = {} /\ output = {}

----------------------------------------------------------------------------

(* HealthyDevices(): a serial in the environment is taken as it is.        *)
HealthyDevices == (IF serial # None THEN {serial} ELSE attached) \ listed

(* GetDevices() of script_common. *)
GetDevices ==
  /\ main = "pick"
  /\ LET healthy == HealthyDevices IN
     CASE healthy = {} -> main' = "NoDevicesError" /\ UNCHANGED <<picked, pc>>
       [] healthy # {} /\ ~(requested \subseteq healthy) -> main' = "DeviceUnreachableError" /\ UNCHANGED <<picked, pc>>
       [] OTHER -> /\ picked' = (IF requested = {} THEN healthy ELSE requested)
                   /\ main' = "run"
                   /\ pc' = [d \in Devices |-> IF d \in picked' THEN "wait" ELSE "none"]
  /\ UNCHANGED <<attached, requested, serial, up, authorized, before, held, index, listed, faults, output>>

----------------------------------------------------------------------------

(* ProvisionDevice(). *)
Fault == faults < MaxFaults /\ faults' = faults + 1
At(d, p) == pc' = [pc EXCEPT ![d] = p]
Step(d) == Steps[index[d]]

(* All that it knows of ends the thread and blacklists the device.         *)
Raises(d) ==
  /\ Fault
  /\ \/ At(d, "end") /\ listed' = listed \cup {d}
     \/ Others /\ At(d, "died") /\ UNCHANGED listed

NextStep(d) ==
  /\ index' = [index EXCEPT ![d] = @ + 1]
  /\ At(d, IF index[d] = Len(Steps) THEN "end" ELSE "wait")
Finished(d) == IF Step(d).reboot THEN At(d, "reboot") /\ UNCHANGED index ELSE NextStep(d)

Boots(d) ==
  /\ up[d] = "booting"
  /\ \/ up' = [up EXCEPT ![d] = "booted"] /\ UNCHANGED faults
     \/ Fault /\ up' = [up EXCEPT ![d] = "hung"]
  /\ UNCHANGED <<picks, authorized, before, held, pc, index, listed, main, output>>

WaitUntilFullyBooted(d) ==
  /\ pc[d] = "wait"
  /\ \/ up[d] = "booted" /\ At(d, "cmd") /\ UNCHANGED <<faults, listed>>
     \/ up[d] = "hung" /\ At(d, "again") /\ UNCHANGED <<faults, listed>>
     \/ Raises(d)
  /\ UNCHANGED <<picks, up, authorized, before, held, index, main, output>>

(* One that does not boot in time is rebooted, and waited for.             *)
RebootAgain(d) ==
  /\ pc[d] = "again"
  /\ \/ up' = [up EXCEPT ![d] = "booted"] /\ At(d, "cmd") /\ UNCHANGED <<faults, listed>>
     \/ Raises(d) /\ UNCHANGED up
  /\ UNCHANGED <<picks, authorized, before, held, index, main, output>>

(* Some steps log the failure of a command and go on. *)
Forgives(d) == Step(d).name \in {"wipe", "temperature"}

Command(d) ==
  /\ pc[d] = "cmd" /\ Step(d).name # "wipe"
  /\ \/ Finished(d) /\ UNCHANGED <<faults, listed>>
     \/ Forgives(d) /\ Fault /\ Finished(d) /\ UNCHANGED listed
     \/ Raises(d) /\ UNCHANGED index
  /\ UNCHANGED <<picks, up, authorized, before, held, main, output>>

(* WipeDevice(): the keys are read, the data erased, the keys written.     *)
ReadAdbKeys(d) ==
  /\ pc[d] = "cmd" /\ Step(d).name = "wipe"
  /\ \/ At(d, "erase") /\ held' = [held EXCEPT ![d] = authorized[d]] /\ UNCHANGED <<faults, listed, index>>
     \/ Fault /\ Finished(d) /\ UNCHANGED <<held, listed>>
     \/ Raises(d) /\ UNCHANGED <<held, index>>
  /\ UNCHANGED <<picks, up, authorized, before, main, output>>

WipeData(d) ==
  /\ pc[d] = "erase"
  /\ authorized' = [authorized EXCEPT ![d] = FALSE]
  /\ \/ (IF held[d] THEN At(d, "keys") /\ UNCHANGED index ELSE Finished(d)) /\ UNCHANGED <<faults, listed>>
     \/ Fault /\ Finished(d) /\ UNCHANGED listed
     \/ Raises(d) /\ UNCHANGED index
  /\ UNCHANGED <<picks, up, before, held, main, output>>

WriteAdbKeysFile(d) ==
  /\ pc[d] = "keys"
  /\ \/ authorized' = [authorized EXCEPT ![d] = TRUE] /\ Finished(d) /\ UNCHANGED <<faults, listed>>
     \/ Fault /\ Finished(d) /\ UNCHANGED <<authorized, listed>>
     \/ Raises(d) /\ UNCHANGED <<authorized, index>>
  /\ UNCHANGED <<picks, up, before, held, main, output>>

(* Reboot(block=False), and then adb's wait-for-device. *)
Reboot(d) ==
  /\ pc[d] = "reboot"
  /\ \/ up' = [up EXCEPT ![d] = "booting"] /\ At(d, "online") /\ UNCHANGED <<faults, listed>>
     \/ Raises(d) /\ up' \in {up, [up EXCEPT ![d] = "booting"]}
  /\ UNCHANGED <<picks, authorized, before, held, index, main, output>>

WaitForDevice(d) ==
  /\ pc[d] = "online"
  /\ \/ NextStep(d) /\ UNCHANGED <<faults, listed>>
     \/ Raises(d) /\ UNCHANGED index
  /\ UNCHANGED <<picks, up, authorized, before, held, main, output>>

(* pMap() joins all, and then raises what one of them raised. *)
Join ==
  /\ main = "run" /\ \A d \in picked : pc[d] \in {"end", "died"}
  /\ IF \E d \in picked : pc[d] = "died" THEN main' = "raised" /\ UNCHANGED output
     ELSE main' = "ok" /\ output' = listed
  /\ UNCHANGED <<picks, up, authorized, before, held, pc, index, listed, faults>>

OfDevice(d) == Boots(d) \/ WaitUntilFullyBooted(d) \/ RebootAgain(d) \/ Command(d) \/ ReadAdbKeys(d) \/ WipeData(d)
               \/ WriteAdbKeysFile(d) \/ Reboot(d) \/ WaitForDevice(d)

Next == GetDevices \/ Join \/ \E d \in Devices : OfDevice(d)

Spec == Init /\ [][Next]_vars /\ WF_vars(GetDevices \/ Join) /\ \A d \in Devices : WF_vars(OfDevice(d))

----------------------------------------------------------------------------

TypeOK ==
  /\ picked \subseteq Devices /\ listed \subseteq Devices /\ output \subseteq listed
  /\ \A d \in Devices : up[d] \in {"booted", "booting", "hung"} /\ index[d] \in 1..(Len(Steps) + 1)

(* When it returns, each device is through all its steps or is listed.     *)
ProvisionedOrListed ==
  main = "ok" => \A d \in picked : d \in output \/ index[d] > Len(Steps)

(* No step begins before the device has booted. *)
StepsOnBooted == \A d \in Devices : pc[d] = "cmd" => up[d] = "booted"

(* A device that was authorized still is, unless it is listed. *)
KeysAreKept ==
  main = "ok" => \A d \in picked \ listed : before[d] => authorized[d]

(* The devices that are picked are attached, and not blacklisted.          *)
PickedAreAttached == picked \subseteq attached
PickedAreHealthy == main = "pick" => picked' \cap listed = {}

(* The tool goes on. *)
Provisions == main \in {"pick", "run"}

----------------------------------------------------------------------------
(***************************************************************************)
(* unlock_bootloader: devices are rebooted into their bootloader, waited   *)
(* for, and then unlocked, all at once.  Which of two commands a device    *)
(* knows is not known, so both are begun and fight for the device; one     *)
(* that has reached it hangs until somebody confirms on its screen, and    *)
(* the other hangs for the device.                                         *)
(***************************************************************************)

CONSTANTS
  LockedDevices,
  Chosen,        \* the devices named on the command line, or none for all
  Confirming,    \* TRUE: somebody may confirm before the result is looked at
  Leaving,       \* TRUE: a device may leave while it is unlocked
  MaxPolls       \* polls of fastboot within the 60 seconds

Commands == {"oem", "flashing"}

UnlockAssumption ==
  /\ Chosen \subseteq LockedDevices
  /\ {Confirming, Leaving} \subseteq BOOLEAN /\ MaxPolls \in Nat

VARIABLES
  place,         \* where a device is: "adb", "reboots", "fastboot", "gone"
  knows,         \* the command a device knows
  lock,          \* "locked", "unlocked", "oem_locked"
  todo,          \* the devices still to be looked at by adb
  rebooted,      \* rebooted_devices
  polls,
  unlockMain,    \* "reboots", "waits", "unlocks"
  unlockPc,      \* of the unlocking of each device
  process,       \* of each device and command: "none", "runs", "prompts", "waits", "ok", "failed"
  holds,         \* of each device, the command that has it
  leftover,      \* the commands that are told to be left over
  verdict        \* what the log says of the device

unlockVars == <<place, knows, lock, todo, rebooted, polls, unlockMain, unlockPc, process, holds, leftover, verdict>>
device == <<place, knows, lock>>
reboot == <<todo, rebooted, polls, unlockMain>>

UnlockNone == "none"
Hanging == {"runs", "prompts", "waits"}

UnlockTypeOK ==
  /\ place \in [LockedDevices -> {"adb", "reboots", "fastboot", "gone"}]
  /\ knows \in [LockedDevices -> Commands]
  /\ lock \in [LockedDevices -> {"locked", "unlocked", "oem_locked"}]
  /\ todo \subseteq LockedDevices /\ rebooted \subseteq LockedDevices /\ polls \in 0..MaxPolls
  /\ unlockMain \in {"reboots", "waits", "unlocks"}
  /\ unlockPc \in [LockedDevices -> {"none", "begins", "oem", "flashing", "done"}]
  /\ process \in [LockedDevices -> [Commands -> Hanging \cup {"none", "ok", "failed"}]]
  /\ holds \in [LockedDevices -> Commands \cup {UnlockNone}]
  /\ \A d \in LockedDevices : \A c \in Commands : process[d][c] = "prompts" => holds[d] = c
  /\ leftover \in [LockedDevices -> SUBSET Commands]
  /\ verdict \in [LockedDevices -> {UnlockNone, "waiting", "already", "not_allowed", "hanging", "unknown"}]

UnlockInit ==
  /\ place \in [LockedDevices -> {"adb", "fastboot"}]
  /\ knows \in [LockedDevices -> Commands]
  /\ lock \in [LockedDevices -> {"locked", "unlocked", "oem_locked"}]
  /\ todo = {d \in LockedDevices : place[d] = "adb"} /\ rebooted = {} /\ polls = 0
  /\ unlockMain = "reboots"
  /\ unlockPc = [d \in LockedDevices |-> "none"]
  /\ process = [d \in LockedDevices |-> [c \in Commands |-> "none"]]
  /\ holds = [d \in LockedDevices |-> UnlockNone]
  /\ leftover = [d \in LockedDevices |-> {}]
  /\ verdict = [d \in LockedDevices |-> UnlockNone]

----------------------------------------------------------------------------

IsChosen(d) == Chosen = {} \/ d \in Chosen

(* reboot_into_bootloader(): the devices that adb sees and that were asked *)
(* for; a reboot may fail.                                                 *)
UnlockReboot(d) ==
  /\ unlockMain = "reboots" /\ d \in todo
  /\ todo' = todo \ {d}
  /\ \/ /\ IsChosen(d)
        /\ place' = [place EXCEPT ![d] = "reboots"] /\ rebooted' = rebooted \cup {d}
     \/ UNCHANGED <<place, rebooted>>
  /\ UNCHANGED <<knows, lock, polls, unlockMain, unlockPc, process, holds, leftover, verdict>>

WaitForReboots ==
  /\ unlockMain = "reboots" /\ todo = {}
  /\ unlockMain' = "waits"
  /\ UNCHANGED <<device, todo, rebooted, polls, unlockPc, process, holds, leftover, verdict>>

InFastboot == {d \in LockedDevices : place[d] = "fastboot"}

(* Fastboot is polled until all are there, or the time is up; then what is *)
(* there is unlocked.                                                      *)
PollAgain ==
  /\ unlockMain = "waits" /\ ~(rebooted \subseteq InFastboot) /\ polls < MaxPolls
  /\ polls' = polls + 1
  /\ UNCHANGED <<device, todo, rebooted, unlockMain, unlockPc, process, holds, leftover, verdict>>

UnlockDevices ==
  /\ unlockMain = "waits" /\ (rebooted \subseteq InFastboot \/ polls = MaxPolls)
  /\ unlockMain' = "unlocks"
  /\ unlockPc' = [d \in LockedDevices |-> IF d \in InFastboot /\ IsChosen(d) THEN "begins" ELSE "none"]
  /\ UNCHANGED <<device, todo, rebooted, polls, process, holds, leftover, verdict>>

(* unlock_bootloader(): both commands are begun.                           *)
Begin(d) ==
  /\ unlockPc[d] = "begins"
  /\ process' = [process EXCEPT ![d] = [c \in Commands |-> "runs"]]
  /\ unlockPc' = [unlockPc EXCEPT ![d] = "oem"]
  /\ UNCHANGED <<device, reboot, holds, leftover, verdict>>

Looked(d, c, more) == unlockPc' = [unlockPc EXCEPT ![d] = IF more /\ c = "oem" THEN "flashing" ELSE "done"]

(* Its output is waited for.  No return code, or none that tells of an     *)
(* error: it is left over.                                                 *)
LookAtHanging(d, c) ==
  /\ unlockPc[d] = c /\ process[d][c] \in {"prompts", "waits", "ok"}
  /\ leftover' = [leftover EXCEPT ![d] = @ \cup {c}]
  /\ verdict' = [verdict EXCEPT ![d] = IF process[d][c] = "ok" THEN "hanging" ELSE "waiting"]
  /\ Looked(d, c, FALSE)
  /\ UNCHANGED <<device, reboot, process, holds>>

(* A command that the device does not know is passed over.                 *)
LookAtFailed(d, c) ==
  /\ unlockPc[d] = c /\ process[d][c] = "failed"
  /\ IF knows[d] # c
     THEN Looked(d, c, TRUE) /\ UNCHANGED verdict
     ELSE /\ verdict' = [verdict EXCEPT ![d] = IF lock[d] = "oem_locked" THEN "not_allowed"
                                               ELSE "already"]
          /\ Looked(d, c, FALSE)
  /\ UNCHANGED <<device, reboot, process, holds, leftover>>

----------------------------------------------------------------------------

Is(d, c, from, to) ==
  process[d][c] = from /\ process' = [process EXCEPT ![d][c] = to]

(* A command gets hold of the device, which does not know it, or has       *)
(* nothing to unlock, or asks on its screen.                               *)
Reach(d, c) ==
  /\ process[d][c] \in {"runs", "waits"} /\ place[d] = "fastboot" /\ holds[d] = UnlockNone
  /\ \/ /\ knows[d] # c \/ lock[d] # "locked"
        /\ process' = [process EXCEPT ![d][c] = "failed"]
        /\ UNCHANGED holds
     \/ /\ knows[d] = c /\ lock[d] = "locked"
        /\ process' = [process EXCEPT ![d][c] = "prompts"]
        /\ holds' = [holds EXCEPT ![d] = c]
  /\ UNCHANGED <<device, reboot, unlockPc, leftover, verdict>>

(* It says that it waits for the device.                                   *)
UnlockWaitForDevice(d, c) ==
  /\ place[d] # "fastboot" \/ holds[d] # UnlockNone
  /\ Is(d, c, "runs", "waits")
  /\ UNCHANGED <<device, reboot, unlockPc, holds, leftover, verdict>>

Confirm(d, c) ==
  /\ Confirming \/ unlockPc[d] = "done"
  /\ Is(d, c, "prompts", "ok")
  /\ lock' = [lock EXCEPT ![d] = "unlocked"]
  /\ holds' = [holds EXCEPT ![d] = UnlockNone]
  /\ UNCHANGED <<place, knows, reboot, unlockPc, leftover, verdict>>

Arrive(d) ==
  /\ place[d] = "reboots"
  /\ place' = [place EXCEPT ![d] = "fastboot"]
  /\ UNCHANGED <<knows, lock, reboot, unlockPc, process, holds, leftover, verdict>>

Leave(d) ==
  /\ Leaving /\ place[d] = "fastboot" /\ holds[d] = UnlockNone
  /\ place' = [place EXCEPT ![d] = "gone"]
  /\ UNCHANGED <<knows, lock, reboot, unlockPc, process, holds, leftover, verdict>>

Main == (\E d \in LockedDevices : UnlockReboot(d)) \/ WaitForReboots \/ PollAgain \/ UnlockDevices

Unlock(d) == Begin(d) \/ \E c \in Commands : LookAtHanging(d, c) \/ LookAtFailed(d, c)

Runs(d, c) == Reach(d, c) \/ UnlockWaitForDevice(d, c)

UnlockNext ==
  \/ Main
  \/ \E d \in LockedDevices :
       \/ Unlock(d) \/ Arrive(d) \/ Leave(d)
       \/ \E c \in Commands : Runs(d, c) \/ Confirm(d, c)

(* The program and the commands go on; no device has to arrive, nobody has *)
(* to confirm.                                                             *)
UnlockSpec == UnlockInit /\ [][UnlockNext]_unlockVars /\ WF_unlockVars(Main)
        /\ \A d \in LockedDevices : WF_unlockVars(Unlock(d)) /\ \A c \in Commands : WF_unlockVars(Runs(d, c))

----------------------------------------------------------------------------

(* One command at most is told to be left over.                            *)
OneLeftover == \A d \in LockedDevices : Cardinality(leftover[d]) <= 1

(* The log says of a device what is the case: it waits for somebody, or it *)
(* is unlocked, or it cannot be.                                           *)
TellsTruth ==
  \A d \in LockedDevices : verdict'[d] # verdict[d] =>
       CASE verdict'[d] = "waiting" -> holds[d] # UnlockNone
         [] verdict'[d] = "already" -> lock[d] = "unlocked"
         [] verdict'[d] = "not_allowed" -> lock[d] = "oem_locked"
         [] OTHER -> FALSE

(* Only devices that were asked for are touched.                           *)
OnlyChosen ==
  Chosen # {} => \A d \in LockedDevices \ Chosen : unlockPc[d] = "none" /\ place[d] # "reboots"

(* A device is being unlocked, whether or not somebody confirms. *)
Unlocks == \E d \in LockedDevices : unlockPc[d] \notin {"none", "done"}

----------------------------------------------------------------------------
(***************************************************************************)
(* SetDate() of provision_devices on a device of Android M or later: the   *)
(* host's date is set, the device's is read back, and the difference in    *)
(* seconds decides.  That difference is the field `seconds' of a           *)
(* timedelta: what is left when whole days are taken away, never negative. *)
(***************************************************************************)

CONSTANTS
  Day,           \* the seconds of a day (86400)
  Offs,          \* how far the device's clock may be off at first
  Ignoring,      \* TRUE: a device may keep its date
  Slow,          \* TRUE: a second may pass between the two commands
  MaxTime        \* bound on the seconds that pass

MaxTries == 2

DateAssumption ==
  /\ Day \in Nat /\ Day > 2 /\ Offs \subseteq Int /\ MaxTime \in Nat
  /\ {Ignoring, Slow} \subseteq BOOLEAN

VARIABLES datePc, now, dateDevice, correct, tries, ignored, told

dateVars == <<datePc, now, dateDevice, correct, tries, ignored, told>>

DateTypeOK ==
  /\ datePc \in {"start", "try", "get", "wait", "set", "failed", "user", "broadcast", "done"}
  /\ now \in 0..MaxTime /\ correct \in 0..now
  /\ dateDevice \in Int /\ (datePc \in {"set", "broadcast", "done"} => tries \in 1..MaxTries)
  /\ tries \in 0..MaxTries
  /\ ignored \in 0..tries
  /\ told \in BOOLEAN /\ (datePc = "done" <=> told)

DateInit ==
  /\ datePc = "start"
  /\ now = 0
  /\ dateDevice \in Offs
  /\ correct = 0 /\ tries = 0 /\ ignored = 0
  /\ told = FALSE

----------------------------------------------------------------------------

(* A user build keeps its date.                                            *)
UserBuild ==
  /\ datePc = "start"
  /\ datePc' \in {"user", "try"}
  /\ UNCHANGED <<now, dateDevice, correct, tries, ignored, told>>

(* The host's date is taken and set on the device, which may keep its own. *)
SetOnDevice ==
  /\ datePc = "try"
  /\ correct' = now
  /\ tries' = tries + 1
  /\ \/ dateDevice' = now /\ UNCHANGED ignored
     \/ Ignoring /\ UNCHANGED dateDevice /\ ignored' = ignored + 1
  /\ datePc' = "get"
  /\ UNCHANGED <<now, told>>

Seconds == (correct - dateDevice) % Day

(* The device's date is read; WaitFor() tries twice.                       *)
Verify ==
  /\ datePc = "get"
  /\ datePc' = IF Seconds <= 1 THEN "set" ELSE IF tries < MaxTries THEN "wait" ELSE "failed"
  /\ UNCHANGED <<now, dateDevice, correct, tries, ignored, told>>

WaitPeriod ==
  /\ datePc = "wait"
  /\ datePc' = "try"
  /\ UNCHANGED <<now, dateDevice, correct, tries, ignored, told>>

(* EnableRoot() and the intent TIME_SET.                                   *)
EnableRoot ==
  /\ datePc = "set"
  /\ datePc' = "broadcast"
  /\ UNCHANGED <<now, dateDevice, correct, tries, ignored, told>>

Broadcast ==
  /\ datePc = "broadcast"
  /\ datePc' = "done" /\ told' = TRUE
  /\ UNCHANGED <<now, dateDevice, correct, tries, ignored>>

(* A second passes for both.                                               *)
Tick ==
  /\ now < MaxTime
  /\ Slow \/ datePc # "get"
  /\ now' = now + 1 /\ dateDevice' = dateDevice + 1
  /\ UNCHANGED <<datePc, correct, tries, ignored, told>>

DateNext ==
  \/ UserBuild \/ SetOnDevice \/ Verify \/ WaitPeriod \/ EnableRoot \/ Broadcast
  \/ Tick

DateSpec == DateInit /\ [][DateNext]_dateVars

----------------------------------------------------------------------------

(* A date that was accepted is right to a second.                          *)
DateIsRight ==
  datePc \in {"set", "broadcast", "done"} => now - dateDevice \in -1..1

(* Setting the date fails only when the device did not set it in one of    *)
(* the tries.                                                              *)
FailsOnlyWhenIgnored == datePc = "failed" => ignored > 0
==============================================================================
