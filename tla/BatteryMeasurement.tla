------------------------- MODULE BatteryMeasurement --------------------------
(***************************************************************************)
(* devil.android.battery_utils: the context managers PowerMeasurement()    *)
(* and BatteryMeasurement(), which make the device stop charging, or       *)
(* appear to, for the time of a block, and let it charge again after it.   *)
(*                                                                         *)
(* The battery service of the device shows the power sources that are      *)
(* connected; `dumpsys battery set` freezes what it shows and changes it,  *)
(* `dumpsys battery reset` lets it go.  "wired" stands for AC and USB,     *)
(* which the code always sets together.  A device whose profile has a      *)
(* command for it can be stopped from charging by its charger as well.     *)
(*                                                                         *)
(* Every WaitFor() ends because its condition holds or because the timeout *)
(* of the method is up; the decorator of the method then tries again.      *)
(***************************************************************************)
EXTENDS Naturals

CONSTANTS
  Kind,       \* "power" or "battery": which of the two context managers
  Hardware,   \* TRUE when the profile of the device has an enable_command
  Sources,    \* the power sources that may be connected
  Retries,    \* of the decorated methods
  Failing     \* TRUE when a command may raise, with its effect or without

BatteryMeasurementAssumption ==
  /\ Kind \in {"power", "battery"}
  /\ Sources \subseteq {"wired", "wireless"}
  /\ Retries \in Nat
  /\ Hardware \in BOOLEAN /\ Failing \in BOOLEAN

VARIABLES
  phase,     \* "idle", "disable", "block", "enable", "done"
  step,      \* where the method is that the phase has called
  tries,     \* its attempts that have failed
  pending,   \* TRUE while the finally of _ClearPowerData() has an exception
  failed,    \* the phases whose method has raised
  software,  \* history: DisableBatteryUpdates() has been tried
  cleared,   \* history: the power data have been seen cleared
  wireless,  \* history: a wireless source was shown without updates
  plugged,   \* the sources that are connected
  stopped,   \* TRUE while the battery service gets no updates
  shown,     \* what it shows meanwhile
  charger    \* FALSE while the charger has been told not to charge

vars == <<phase, step, tries, pending, failed, software, cleared, wireless, plugged, stopped, shown, charger>>
history == <<software, cleared, wireless>>
device == <<stopped, shown, charger>>

Init ==
  /\ phase = "idle" /\ step = "none"
  /\ tries = 0 /\ pending = FALSE /\ failed = {}
  /\ software = FALSE /\ cleared = FALSE /\ wireless = FALSE
  /\ plugged \in SUBSET Sources
  /\ stopped = FALSE /\ shown = {} /\ charger = TRUE

(* GetBatteryInfo() and GetCharging().                                     *)
BatteryInfo == IF stopped THEN shown ELSE plugged
GetCharging == BatteryInfo # {}

Enabled == phase = "enable"

(* The first step of SetCharging(), DisableBatteryUpdates() and            *)
(* EnableBatteryUpdates().                                                 *)
First(p) ==
  IF Kind = "power" THEN "check" ELSE IF p = "disable" THEN "clear" ELSE "reset"

To(s) == step' = s /\ UNCHANGED <<phase, tries, failed>>

Return ==
  /\ phase' = IF phase = "disable" THEN "block" ELSE "done"
  /\ step' = "none" /\ tries' = 0
  /\ UNCHANGED failed

(* An exception of the method: the next attempt, or the finally.           *)
(* Mutant: one attempt more than the retries allow.                        *)
RaiseOnceMore ==
  IF tries <= Retries
  THEN tries' = tries + 1 /\ step' = First(phase) /\ UNCHANGED <<phase, failed>>
  ELSE /\ IF phase = "disable" THEN phase' = "enable" /\ step' = First("enable")
          ELSE phase' = "done" /\ step' = "none"
       /\ tries' = 0 /\ failed' = failed \cup {phase}

Raise ==
  IF tries < Retries
  THEN tries' = tries + 1 /\ step' = First(phase) /\ UNCHANGED <<phase, failed>>
  ELSE /\ IF phase = "disable" THEN phase' = "enable" /\ step' = First("enable")
          ELSE phase' = "done" /\ step' = "none"
       /\ tries' = 0 /\ failed' = failed \cup {phase}

Enter ==
  /\ phase = "idle"
  /\ phase' = "disable" /\ step' = First("disable")
  /\ UNCHANGED <<tries, pending, failed, history, plugged, device>>

(* The block ends, or raises: the finally comes in both cases.             *)
Leave ==
  /\ phase = "block"
  /\ phase' = "enable" /\ step' = First("enable")
  /\ UNCHANGED <<tries, pending, failed, history, plugged, device>>

(* The cable is somebody else's.                                           *)
Replug ==
  /\ phase # "done"
  /\ plugged' \in SUBSET Sources
  /\ UNCHANGED <<phase, step, tries, pending, failed, history, device>>

----------------------------------------------------------------------------

(* SetCharging(enabled)                                                    *)
Check ==
  /\ step = "check"
  /\ IF GetCharging = Enabled THEN Return
     ELSE To(CASE Hardware /\ Enabled -> "command"
               [] ~Hardware /\ Enabled -> "reset"
               [] OTHER -> "clear")
  /\ UNCHANGED <<pending, history, plugged, device>>

(* The shell commands, and what each does to the device.                   *)
Set(values) == stopped' = TRUE /\ shown' = values
ResetBattery == stopped' = FALSE /\ shown' = {}

Commanded(s) ==
  CASE s = "clear"   -> Set(BatteryInfo \cup {"wired"}) /\ UNCHANGED charger
    [] s = "set 0"   -> Set(BatteryInfo \ {"wired"}) /\ UNCHANGED charger
    [] s = "command" /\ Enabled -> charger' = TRUE /\ ResetBattery
    [] s = "command" /\ ~Enabled -> charger' = FALSE /\ Set(BatteryInfo \ {"wired"})
    [] OTHER         -> ResetBattery /\ UNCHANGED charger

Effect(s) == Commanded(s) /\ wireless' = (wireless \/ "wireless" \in shown')

(* _ClearPowerData() before it waits.                                      *)
Clear ==
  /\ step = "clear"
  /\ Effect(step)
  /\ To("cleared?")
  /\ software' = (software \/ ~Hardware \/ Kind = "battery")
  /\ UNCHANGED <<pending, cleared, plugged>>

(* test_if_clear() is true, or false until the timeout.                    *)
Cleared ==
  /\ step = "cleared?"
  /\ cleared' = TRUE
  /\ To("unclear")
  /\ UNCHANGED <<pending, software, wireless, plugged, device>>

NotCleared ==
  /\ step = "cleared?"
  /\ pending' = TRUE
  /\ To("unclear")
  /\ UNCHANGED <<history, plugged, device>>

(* The finally of _ClearPowerData(); then the device stops charging.       *)
Unclear ==
  /\ step = "unclear"
  /\ Effect(step)
  /\ pending' = FALSE
  /\ IF pending THEN Raise
     ELSE To(IF Hardware /\ Kind = "power" THEN "command" ELSE "set 0")
  /\ UNCHANGED <<software, cleared, plugged>>

(* The last command of each method.                                        *)
Command ==
  /\ step \in {"set 0", "command", "reset"}
  /\ Effect(step)
  /\ To(CASE step = "set 0" -> "disabled?" [] step = "command" -> "verify" [] OTHER -> "enabled?")
  /\ UNCHANGED <<pending, software, cleared, plugged>>

(* A command raises.  Of the two parts of a charging command it may have   *)
(* done the one for the charger.                                           *)
CommandRaises ==
  /\ Failing
  /\ step \in {"clear", "unclear", "set 0", "command", "reset"}
  /\ \/ Effect(step)
     \/ UNCHANGED <<device, wireless>>
     \/ step = "command" /\ charger' = Enabled /\ UNCHANGED <<stopped, shown, wireless>>
  /\ pending' = FALSE
  /\ Raise
  /\ UNCHANGED <<software, cleared, plugged>>

(* The three conditions.  battery_updates_enabled() looks for a text among *)
(* whole lines, never finds it and is always true.                         *)
Condition ==
  CASE step = "disabled?" -> ~GetCharging
    [] step = "verify" -> GetCharging = Enabled
    [] OTHER -> TRUE

Waited ==
  /\ step \in {"disabled?", "verify", "enabled?"}
  /\ Condition
  /\ Return
  /\ UNCHANGED <<pending, history, plugged, device>>

TimesOut ==
  /\ step \in {"disabled?", "verify", "enabled?"}
  /\ ~Condition
  /\ Raise
  /\ UNCHANGED <<pending, history, plugged, device>>

Step ==
  \/ Check
  \/ Clear
  \/ Cleared
  \/ NotCleared
  \/ Unclear
  \/ Command
  \/ CommandRaises
  \/ Waited
  \/ TimesOut

Next ==
  \/ Enter
  \/ Leave
  \/ Replug
  \/ Step

Spec == Init /\ [][Next]_vars

(* The method goes on, the block ends.                                     *)
FairSpec == Spec /\ WF_vars(Step) /\ WF_vars(Leave)

----------------------------------------------------------------------------

TypeOK ==
  /\ phase \in {"idle", "disable", "block", "enable", "done"}
  /\ tries \in 0..Retries
  /\ failed \subseteq {"disable", "enable"}
  /\ plugged \subseteq Sources
  /\ shown \subseteq Sources \cup {"wired"}
  /\ (step = "none") = (phase \in {"idle", "block", "done"})
  /\ pending => step = "unclear"
  /\ shown # {} => stopped

(* The block is measured: the device shows no power source all through it  *)
(* (DisableBatteryUpdates(): "makes device appear like it is not charging  *)
(* so that it will collect power data since last charge").                 *)
NotCharging == phase = "block" => ~GetCharging

(* What is measured begins with the block: the data were cleared before.   *)
BeginsCleared == phase = "block" => cleared

(* Once the block is exited, charging is resumed, also by way of the       *)
(* finally after a wait that timed out, as far as no command fails: the    *)
(* charger charges and the battery service gets its updates.  Not so where *)
(* a wireless source was shown without updates: such a device is taken for *)
(* one that charges already, and left as the block made it.                *)
Resumed == phase = "done" /\ ~wireless => charger /\ ~stopped

(* A measurement goes on, whatever the cable does. *)
Measures == phase \notin {"idle", "done"}
==============================================================================
