----------------------------- MODULE DeviceStart -----------------------------
(***************************************************************************)
(* Devices that restart: the reboots and root restarts of DeviceUtils, and *)
(* the flashing of a build. Each has variables, Init and Next of its own.  *)
(***************************************************************************)
EXTENDS Naturals, Sequences, SequencesExt

----------------------------------------------------------------------------
(***************************************************************************)
(* Reboot(), WaitUntilFullyBooted(), EnableRoot() and NeedsSU() of         *)
(* DeviceUtils: calls that restart the device or its adbd, wait for what   *)
(* comes up again by polling, and keep in a cache whether su is needed.    *)
(* An attempt that is late is abandoned, not stopped: one that asked       *)
(* whether su is needed (any call with as_root does) still writes down     *)
(* what it was told.                                                       *)
(***************************************************************************)

CONSTANTS Ops, MaxCalls, Retries,
          MaxCrashes,       \* the device reboots by itself
          Slow,             \* attempts may be late, not only while it boots
          EarlyProp         \* adbd shows service.adb.root before it restarts

VARIABLES build, hassu,             \* of the device: user or debug, su is there
          up,                       \* how far it has booted
          leaving, restarting,      \* about to go down; adbd about to restart
          online, adbroot, rootprop,
          boots, crashes,
          su,                       \* the cached answer of NeedsSU()
          ghost,                    \* what an abandoned NeedsSU() does next
          pc, op, left, calls, asked, result, since

device == <<build, hassu, up, leaving, restarting, online, adbroot, rootprop, boots, crashes>>
host == <<su, ghost, pc, op, left, calls, asked, result, since>>
vars == <<device, host>>

None == "none"
Phases == <<"off", "adbd", "sd", "pm", "booted">>
Past(p) == IndexFirstSubSeq(<<p>>, Phases) <= IndexFirstSubSeq(<<up>>, Phases)

(* The device's own answers, asked over adb. *)
IsOnline == online
IsUserBuild == build = "user"
YesNo(b) == IF b THEN "yes" ELSE "no"

Init ==
  /\ build \in {"user", "debug"} /\ hassu \in BOOLEAN
  /\ up = "booted" /\ leaving = FALSE /\ restarting = FALSE
  /\ online = TRUE /\ adbroot = FALSE /\ rootprop = FALSE
  /\ boots = 0 /\ crashes = 0
  /\ su = None /\ ghost = None
  /\ pc = "idle" /\ op = None /\ left = 0 /\ calls = 0 /\ asked = None /\ result = None
  /\ since = 0

----------------------------------------------------------------------------

(* The device. *)
GoesDown ==
  /\ up # "off" /\ \/ leaving /\ UNCHANGED crashes
                   \/ ~leaving /\ crashes < MaxCrashes /\ crashes' = crashes + 1
  /\ up' = "off" /\ online' = FALSE /\ leaving' = FALSE /\ restarting' = FALSE
  /\ boots' = boots + 1
  /\ UNCHANGED <<build, hassu, adbroot, rootprop, host>>

ComesUp ==
  /\ up # "booted" /\ ~leaving
  /\ up' = Phases[IndexFirstSubSeq(<<up>>, Phases) + 1]
  /\ IF up = "off" THEN online' = TRUE /\ adbroot' = FALSE /\ rootprop' = FALSE
     ELSE UNCHANGED <<online, adbroot, rootprop>>
  /\ UNCHANGED <<build, hassu, leaving, restarting, boots, crashes, host>>

AdbdLeaves ==
  /\ restarting /\ online
  /\ online' = FALSE
  /\ UNCHANGED <<build, hassu, up, leaving, restarting, adbroot, rootprop, boots, crashes, host>>

AdbdReturns ==
  /\ restarting /\ ~online
  /\ online' = TRUE /\ restarting' = FALSE /\ adbroot' = TRUE /\ rootprop' = TRUE
  /\ UNCHANGED <<build, hassu, up, leaving, boots, crashes, host>>

SuNeeded == hassu /\ ~adbroot

----------------------------------------------------------------------------

(* The calls.  One that raises is tried again from its beginning.          *)
Start == CASE op = "Reboot" -> "reboot" [] op = "EnableRoot" -> "root" [] OTHER -> "su"

Call(o) ==
  /\ pc = "idle" /\ calls < MaxCalls
  /\ op' = o /\ calls' = calls + 1 /\ left' = Retries /\ result' = None /\ since' = boots
  /\ pc' = CASE o = "Reboot" -> "reboot" [] o = "EnableRoot" -> "root" [] OTHER -> "su"
  /\ UNCHANGED <<device, su, ghost, asked>>

Same == <<op, calls, since>>
Returns == pc' = "idle" /\ result' = "ok" /\ UNCHANGED left

Raises(what) ==
  IF left > 0 THEN pc' = Start /\ left' = left - 1 /\ UNCHANGED result
  ELSE pc' = "idle" /\ result' = what /\ UNCHANGED left

(* Reboot(): the caches are cleared before the device has gone. *)
Reboot ==
  /\ pc = "reboot"
  /\ IF online
     THEN /\ leaving' = TRUE /\ su' = None
          /\ pc' = "offline" /\ UNCHANGED <<left, result>>
     ELSE Raises("unreachable") /\ UNCHANGED <<leaving, su>>
  /\ UNCHANGED <<build, hassu, up, restarting, online, adbroot, rootprop, boots, crashes,
                 ghost, asked, Same>>

(* Mutant: the device is not seen to go.                                 *)
OfflineNotAwaited ==
  /\ pc = "offline"
  /\ pc' = "adbd"
  /\ UNCHANGED <<device, su, ghost, left, asked, result, Same>>

(* device_offline() *)
DeviceOffline ==
  /\ pc = "offline" /\ ~IsOnline
  /\ pc' = "adbd"
  /\ UNCHANGED <<device, su, ghost, left, asked, result, Same>>

Then(p) == CASE p = "adbd" -> "sd" [] p = "sd" -> "pm" [] p = "pm" -> "booted" [] OTHER -> "idle"

(* WaitUntilFullyBooted(): each is looked for once the one before is there.*)
Ready ==
  /\ pc \in {"adbd", "sd", "pm", "booted"} /\ online /\ Past(pc)
  /\ IF pc = "booted" THEN Returns ELSE pc' = Then(pc) /\ UNCHANGED <<left, result>>
  /\ UNCHANGED <<device, su, ghost, asked, Same>>

(* DeviceUnreachableError is not one of those that the polls expect.       *)
Lost ==
  /\ pc \in {"sd", "pm", "booted"} /\ ~online
  /\ Raises("unreachable")
  /\ UNCHANGED <<device, su, ghost, asked, Same>>

(* EnableRoot(): adbd restarts. *)
EnableRoot ==
  /\ pc = "root"
  /\ su' = None
  /\ IF ~IsOnline \/ IsUserBuild
     THEN Raises("failed") /\ UNCHANGED <<restarting, online, rootprop>>
     ELSE /\ restarting' = ~adbroot
          /\ online' = (adbroot \/ EarlyProp)
          /\ rootprop' = (rootprop \/ EarlyProp)
          /\ pc' = "rooted" /\ UNCHANGED <<left, result>>
  /\ UNCHANGED <<build, hassu, up, leaving, adbroot, boots, crashes, ghost, asked, Same>>

DeviceOnlineWithRoot ==
  /\ pc = "rooted" /\ IsOnline /\ rootprop
  /\ Returns
  /\ UNCHANGED <<device, su, ghost, asked, Same>>

(* NeedsSU(): asked once, and remembered. *)
NeedsSU ==
  /\ pc = "su"
  /\ CASE su # None -> Returns /\ UNCHANGED asked
       [] su = None /\ online -> asked' = YesNo(SuNeeded) /\ pc' = "remember" /\ UNCHANGED <<left, result>>
       [] OTHER -> Raises("unreachable") /\ UNCHANGED asked
  /\ UNCHANGED <<device, su, ghost, Same>>

Remember ==
  /\ pc = "remember"
  /\ su' = asked /\ Returns
  /\ UNCHANGED <<device, ghost, asked, Same>>

(* The watchdog: what the abandoned thread goes on with. *)
TimesOut ==
  /\ pc # "idle" /\ (Slow \/ pc \in {"adbd", "sd", "pm", "booted"})
  /\ ghost' = IF pc = "remember" THEN asked ELSE ghost
  /\ Raises("timeout")
  /\ UNCHANGED <<device, su, asked, Same>>

GhostRemembers ==
  /\ ghost # None
  /\ su' = ghost /\ ghost' = None
  /\ UNCHANGED <<device, pc, op, left, calls, asked, result, since>>

Caller == Reboot \/ DeviceOffline \/ Ready \/ Lost \/ EnableRoot \/ DeviceOnlineWithRoot
          \/ NeedsSU \/ Remember \/ TimesOut

Next == GoesDown \/ ComesUp \/ AdbdLeaves \/ AdbdReturns \/ Caller \/ GhostRemembers
        \/ \E o \in Ops : Call(o)

Spec == Init /\ [][Next]_vars /\ WF_vars(Caller)

----------------------------------------------------------------------------

(* The device, the cache and the call. *)
TypeOK ==
  /\ up \in Range(Phases) /\ (online => up # "off")
  /\ su \in {None, "yes", "no"} /\ ghost \in {None, "yes", "no"}
  /\ left \in 0..Retries
  /\ result \in {None, "ok", "failed", "unreachable", "timeout"}

(* What is remembered of su is so, on a device that does not reboot by     *)
(* itself.                                                                 *)
SuIsRight == (su # None /\ online /\ ~leaving /\ ~restarting /\ crashes = 0) => su = YesNo(SuNeeded)

(* A Reboot() that returns was followed by a boot, which is complete.      *)
BootedAnew ==
  (pc = "idle" /\ op = "Reboot" /\ result = "ok") =>
    boots > since /\ (crashes = 0 => up = "booted" \/ restarting)

(* An EnableRoot() that returns leaves an adbd that is root, if the device *)
(* has not booted since.                                                   *)
RootedAfterEnable ==
  (pc = "idle" /\ op = "EnableRoot" /\ result = "ok" /\ boots = since) => adbroot

(* A call runs. *)
CallRuns == pc # "idle"

----------------------------------------------------------------------------
(***************************************************************************)
(* FastbootUtils.FlashDevice(): a device is rebooted into its bootloader,  *)
(* a build is verified, its partitions are flashed one after the other,    *)
(* and the device is rebooted, whatever was raised in between.             *)
(***************************************************************************)

CONSTANTS Partitions,                  \* in their order, a sequence
          Restart, WipeOnly, Optional, \* attributes of partitions
          FlashRetries,                \* of the commands that are retried
          Serials,                     \* Devices() tells serials, not objects
          MaxFaults

Attributed == Restart \cup WipeOnly \cup Optional

Assumption == Attributed \subseteq ToSet(Partitions) /\ Serials \in BOOLEAN

VARIABLES mode, offModeCharge, written,        \* the device
          archive, images, wipe,               \* the build, and the call
          flashPc, todo, tries, raised, flashResult, faults

flashDevice == <<mode, offModeCharge, written>>
flashBuild == <<archive, images, wipe>>
flashVars == <<flashDevice, flashBuild, flashPc, todo, tries, raised, flashResult, faults>>

FlashInit ==
  /\ mode = "android" /\ offModeCharge = TRUE /\ written = <<>>
  /\ archive \in [info : {"ours", "another", "none"}, named : BOOLEAN]
  /\ images \in SUBSET ToSet(Partitions) /\ wipe \in BOOLEAN
  /\ flashPc = "root" /\ todo = <<>> /\ tries = 0 /\ raised = FALSE /\ flashResult = "none" /\ faults = 0

Fault == faults < MaxFaults /\ faults' = faults + 1
Goes(p) == flashPc' = p /\ UNCHANGED <<raised, flashResult>>
Ends == flashPc' = "done" /\ flashResult' = (IF raised' THEN "raised" ELSE "ok")
FlashRaises == raised' = TRUE /\ Ends

(* A command of fastboot waits until the device is in its bootloader.      *)
Waits == mode = "bootloader"
SetOemOffModeCharge(value) == Waits /\ offModeCharge' = value

(* A device that was told to comes up. *)
BootsUp ==
  /\ mode \in {"to bootloader", "to android"}
  /\ mode' = IF mode = "to bootloader" THEN "bootloader" ELSE "android"
  /\ UNCHANGED <<offModeCharge, written, flashBuild, flashPc, todo, tries, raised, flashResult, faults>>

----------------------------------------------------------------------------

(* EnableFastbootMode(): an attempt roots the device and reboots it.  The  *)
(* next one begins again, wherever the device is by then.                  *)
Retried == IF tries < FlashRetries THEN tries' = tries + 1 /\ Goes("root") ELSE UNCHANGED tries /\ FlashRaises

FlashEnableRoot ==
  /\ flashPc = "root"
  /\ \/ mode = "android" /\ mode' = "to bootloader" /\ Goes("wait") /\ UNCHANGED <<tries, faults>>
     \/ mode = "android" /\ Fault /\ Retried /\ UNCHANGED mode
     \/ mode # "android" /\ Retried /\ UNCHANGED <<mode, faults>>
  /\ UNCHANGED <<offModeCharge, written, flashBuild, todo>>

(* WaitForFastbootMode(): the serial is looked for among what Devices()    *)
(* returns, until the time is over.                                        *)
Found == Serials /\ mode = "bootloader"

WaitForFastbootMode ==
  /\ flashPc = "wait"
  /\ Found /\ Goes("charge off")
  /\ UNCHANGED <<flashDevice, flashBuild, todo, tries, faults>>

WaitTimesOut ==
  /\ flashPc = "wait"
  /\ IF Serials THEN Fault ELSE UNCHANGED faults
  /\ Retried
  /\ UNCHANGED <<flashDevice, flashBuild, todo>>

ChargeOff ==
  /\ flashPc = "charge off"
  /\ \/ SetOemOffModeCharge(FALSE) /\ Goes("verify") /\ UNCHANGED faults
     \/ Fault /\ FlashRaises /\ UNCHANGED offModeCharge
  /\ UNCHANGED <<mode, written, flashBuild, todo, tries>>

----------------------------------------------------------------------------

(* What is raised while the partitions are flashed is raised again after   *)
(* the finally clause.                                                     *)
Fails == raised' = TRUE /\ flashPc' = "charge on" /\ UNCHANGED flashResult

(* android-info.txt says for which board the build is; when it is missing  *)
(* or says nothing, a .zip that is named after the board will do.          *)
VerifyBoard == archive.info = "ours" \/ (archive.info = "none" /\ archive.named)

Missing == {p \in ToSet(Partitions) : p \notin images \cup Optional}

(* _VerifyBoard(), and then all images, before anything is flashed.        *)
Verify ==
  /\ flashPc = "verify"
  /\ IF ~VerifyBoard \/ Missing # {} THEN Fails /\ UNCHANGED todo
     ELSE todo' = SelectSeq(Partitions, LAMBDA p : p \in images) /\ Goes("flash")
  /\ UNCHANGED <<flashDevice, flashBuild, tries, faults>>

Skipped(p) == p \in WipeOnly /\ ~wipe

Flash ==
  /\ flashPc = "flash"
  /\ CASE todo = <<>> -> Goes("charge on") /\ UNCHANGED <<mode, written, todo, faults>>
       [] todo # <<>> /\ Skipped(Head(todo)) ->
            todo' = Tail(todo) /\ UNCHANGED <<flashPc, raised, flashResult, mode, written, faults>>
       [] todo # <<>> /\ ~Skipped(Head(todo)) ->
            \/ /\ Waits /\ Head(todo) \in images
               /\ written' = Append(written, Head(todo)) /\ todo' = Tail(todo)
               /\ IF Head(todo) \in Restart THEN mode' = "to bootloader" /\ Goes("restart")
                  ELSE UNCHANGED <<mode, flashPc, raised, flashResult>>
               /\ UNCHANGED faults
            \/ Head(todo) \notin images /\ Fails /\ UNCHANGED <<mode, written, todo, faults>>
            \/ Fault /\ Fails /\ UNCHANGED <<mode, written, todo>>
  /\ UNCHANGED <<offModeCharge, flashBuild, tries>>

(* Reboot(bootloader=True), which looks for the serial as before.          *)
RestartBootloader ==
  /\ flashPc = "restart"
  /\ \/ Found /\ Goes("flash") /\ UNCHANGED faults
     \/ Fault /\ Fails
  /\ UNCHANGED <<flashDevice, flashBuild, todo, tries>>

----------------------------------------------------------------------------

(* The finally clause; what is raised in it leaves the rest undone.        *)
ChargeOn ==
  /\ flashPc = "charge on"
  /\ \/ SetOemOffModeCharge(TRUE) /\ Goes("reboot") /\ UNCHANGED faults
     \/ Fault /\ FlashRaises /\ UNCHANGED offModeCharge
  /\ UNCHANGED <<mode, written, flashBuild, todo, tries>>

FlashReboot ==
  /\ flashPc = "reboot"
  /\ \/ Waits /\ mode' = "to android" /\ Goes("booted") /\ UNCHANGED faults
     \/ Fault /\ FlashRaises /\ UNCHANGED mode
  /\ UNCHANGED <<offModeCharge, written, flashBuild, todo, tries>>

(* A device that was wiped is not waited for: it has no keys for adb.      *)
WaitUntilFullyBooted ==
  /\ flashPc = "booted"
  /\ \/ (wipe \/ mode = "android") /\ UNCHANGED <<raised, faults>> /\ Ends
     \/ ~wipe /\ Fault /\ FlashRaises
  /\ UNCHANGED <<flashDevice, flashBuild, todo, tries>>

Steps == FlashEnableRoot \/ WaitForFastbootMode \/ WaitTimesOut \/ ChargeOff \/ Verify \/ Flash
         \/ RestartBootloader \/ ChargeOn \/ FlashReboot \/ WaitUntilFullyBooted

FlashNext == Steps \/ BootsUp

FlashSpec == FlashInit /\ [][FlashNext]_flashVars /\ WF_flashVars(Steps) /\ WF_flashVars(BootsUp)

----------------------------------------------------------------------------

FlashTypeOK ==
  /\ IsInjective(written) /\ ToSet(written) \subseteq images
  /\ tries \in 0..Retries
  /\ flashPc \in {"flash", "verify", "restart"} => mode # "android" /\ ~offModeCharge

(* Something is flashed only when the build is verified and complete.      *)
WholeOrNothing == written # <<>> => VerifyBoard /\ Missing = {}

(* The user's data are flashed only to wipe them, and a call that returns  *)
(* has flashed all the rest, in the order of the partitions.               *)
FlashedAsAsked ==
  /\ ~wipe => ToSet(written) \cap WipeOnly = {}
  /\ flashResult = "ok" => written = SelectSeq(Partitions, LAMBDA p : p \in images /\ (wipe \/ p \notin WipeOnly))

(* After the call the device is on its way to Android, and charges when    *)
(* off.                                                                    *)
LeftAsFound ==
  flashPc = "done" => mode \in {"android", "to android"} /\ offModeCharge

(* A verified and complete build is not flashed yet. *)
StillToFlash == VerifyBoard /\ Missing = {} /\ flashResult # "ok"

(* The device is being flashed. *)
FlashCallRuns == flashPc # "done"
==============================================================================
