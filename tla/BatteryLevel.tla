---------------------------- MODULE BatteryLevel -----------------------------
(***************************************************************************)
(* What BatteryUtils waits for and tells: the level and the temperature,   *)
(* and the power a package has used. Each has variables, Init and Next of  *)
(* its own.                                                                *)
(***************************************************************************)
EXTENDS Integers, Naturals, FiniteSets

----------------------------------------------------------------------------
(***************************************************************************)
(* BatteryUtils waits for the battery: ChargeDeviceToLevel() polls the     *)
(* level with charging enabled and gives up when it no longer rises,       *)
(* LetBatteryCoolToTemperature() polls the temperature and, on a Nexus 5,  *)
(* discharges the device by one percent after every look that is too warm. *)
(* While it discharges, charging is enabled for the length of a look.      *)
(***************************************************************************)

CONSTANTS Top,                         \* 100
          Reserve,                     \* 10
          MaxChargeError,              \* 20
          Nexus5,
          MaxUnknown, MaxFaults        \* looks that tell nothing, commands that fail

Assumption == Reserve \in 0..Top /\ Nexus5 \in BOOLEAN

VARIABLES level, warm, charging,       \* the device
          op, target, pc, result,
          read,                        \* what the last look told
          last_charge_value, failures,
          start,                       \* battery_level of _DischargeDevice()
          unknown, faults

device == <<level, warm, charging>>
vars == <<device, op, target, pc, result, read, last_charge_value, failures, start, unknown, faults>>
Unknown == -1

Init ==
  /\ level \in 0..Top /\ warm \in BOOLEAN /\ charging \in BOOLEAN
  /\ op = "none" /\ target = 0 /\ pc = "idle" /\ result = "none" /\ read = Unknown
  /\ last_charge_value = 0 /\ failures = 0 /\ start = 0 /\ unknown = 0 /\ faults = 0

(* The profile whose name the product has, or one that says nothing. *)
DiscoverDeviceProfile == IF Nexus5 THEN "Nexus 5" ELSE "none"

(* GetBatteryInfo(): the level, or nothing. *)
Looks(r) ==
  /\ read' = r
  /\ \/ r = level /\ UNCHANGED unknown
     \/ r = Unknown /\ unknown < MaxUnknown /\ unknown' = unknown + 1

Returns(r) == pc' = "idle" /\ result' = r
Goes(p) == pc' = p /\ UNCHANGED result

(* _HardwareSetCharging(): it has its effect, or raises with or without.   *)
HardwareSetCharging(on, next) ==
  \/ charging' = on /\ Goes(next) /\ UNCHANGED faults
  \/ charging' \in {charging, on} /\ faults < MaxFaults /\ faults' = faults + 1 /\ Returns("raised")

----------------------------------------------------------------------------

(* Between two looks the device rests, and its battery changes.            *)
Rest ==
  /\ pc \in {"rest charge", "rest cool", "rest discharge"}
  /\ warm' \in BOOLEAN
  /\ level' \in {level - 1, level} \cup (IF charging THEN {level + 1} ELSE {})
  /\ level' \in 0..Top
  /\ Goes(CASE pc = "rest charge" -> "charge" [] pc = "rest cool" -> "cool" [] OTHER -> "discharge on")
  /\ UNCHANGED <<charging, op, target, read, last_charge_value, failures, start, unknown, faults>>

ChargeDeviceToLevel(l) ==
  /\ pc = "idle" /\ result = "none"
  /\ op' = "charge" /\ target' = l
  /\ HardwareSetCharging(TRUE, "charge")
  /\ last_charge_value' = 0 /\ failures' = 0
  /\ UNCHANGED <<level, warm, read, start, unknown>>

(* A level that is not known is taken for full; only a level above all     *)
(* those before is progress.                                               *)
device_charged ==
  /\ pc = "charge"
  /\ \E r \in {level, Unknown} :
       LET battery_level == IF r = Unknown THEN Top ELSE r IN
       /\ Looks(r)
       /\ last_charge_value' = IF battery_level > last_charge_value THEN battery_level ELSE last_charge_value
       /\ failures' = IF battery_level > last_charge_value THEN 0 ELSE failures + 1
       /\ CASE battery_level >= target -> Returns("ok")
            [] battery_level < target /\ failures' >= MaxChargeError -> Returns("not charging")
            [] OTHER -> Goes("rest charge")
  /\ UNCHANGED <<device, op, target, start, faults>>

----------------------------------------------------------------------------

LetBatteryCoolToTemperature ==
  /\ pc = "idle" /\ result = "none"
  /\ op' = "cool" /\ Goes("cool")
  /\ UNCHANGED <<device, target, read, last_charge_value, failures, start, unknown, faults>>

cool_device ==
  /\ pc = "cool"
  /\ CASE ~warm           -> Returns("ok") /\ UNCHANGED unknown
       [] warm /\ DiscoverDeviceProfile = "Nexus 5" -> Goes("discharge") /\ UNCHANGED unknown
       [] OTHER -> Goes("rest cool") /\ UNCHANGED unknown
  /\ UNCHANGED <<device, op, target, read, last_charge_value, failures, start, faults>>

(* _DischargeDevice(1): int() is applied before the level is compared with *)
(* None.  The first look comes with the charging disabled just before.     *)
DischargeDevice ==
  /\ pc = "discharge"
  /\ \E r \in {level, Unknown} :
       /\ Looks(r)
       /\ CASE r = Unknown -> Returns("type error") /\ UNCHANGED <<charging, faults, start>>
            [] r # Unknown /\ 1 >= r - Reserve -> Goes("rest cool") /\ UNCHANGED <<charging, faults, start>>
            [] r # Unknown /\ 1 < r - Reserve -> start' = r /\ HardwareSetCharging(FALSE, "discharge on")
  /\ UNCHANGED <<level, warm, op, target, last_charge_value, failures>>

DischargeOn ==
  /\ pc = "discharge on"
  /\ HardwareSetCharging(TRUE, "measure")
  /\ UNCHANGED <<level, warm, op, target, read, last_charge_value, failures, start, unknown>>

device_discharged ==
  /\ pc = "measure"
  /\ \E r \in {level, Unknown} :
       /\ Looks(r)
       /\ CASE r = Unknown -> Returns("type error")
            [] r # Unknown /\ start - r >= 1 -> Goes("rest cool")
            [] r # Unknown /\ start - r < 1 -> Goes("discharge off")
  /\ UNCHANGED <<device, op, target, last_charge_value, failures, start, faults>>

DischargeOff ==
  /\ pc = "discharge off"
  /\ HardwareSetCharging(FALSE, "rest discharge")
  /\ UNCHANGED <<level, warm, op, target, read, last_charge_value, failures, start, unknown>>

Steps == Rest \/ device_charged \/ cool_device \/ DischargeDevice \/ DischargeOn
         \/ device_discharged \/ DischargeOff

Next == \/ \E l \in 0..Top : ChargeDeviceToLevel(l)
        \/ LetBatteryCoolToTemperature \/ Steps

Cools == Rest /\ pc = "rest cool" /\ ~warm'
Drains == Rest /\ pc = "rest discharge" /\ level' < level

Spec == Init /\ [][Next]_vars /\ WF_vars(Steps) /\ SF_vars(Cools) /\ SF_vars(Drains)

----------------------------------------------------------------------------

TypeOK ==
  /\ level \in 0..Top /\ last_charge_value \in 0..Top /\ failures \in 0..MaxChargeError
  /\ pc = "measure" => charging

(* A device that was charged to a level was seen to have it. *)
ChargedAsAsked == op = "charge" /\ result = "ok" => read >= target

(* A call that sets the charging leaves it enabled, also when it ends by   *)
(* an exception, unless a charging command was what failed.                *)
ChargingAfter ==
  pc = "idle" /\ result \notin {"none", "raised"} /\ (op = "charge" \/ start > 0) => charging

(* Charging is off only above the reserve. *)
NotDrained == start > 0 /\ ~charging => level > Reserve

(* A wait for a level or a temperature; it ends by the level or by the     *)
(* exception, and by the temperature on a device that can cool and drain.  *)
WaitsForBattery == op \in {"charge", "cool"} /\ pc # "idle"

----------------------------------------------------------------------------
(***************************************************************************)
(* BatteryUtils.GetPowerData() and GetNetworkData(): what the battery      *)
(* statistics and /proc tell of a package, found by the uid that was seen  *)
(* first and is kept until the cache of the device is cleared.             *)
(***************************************************************************)

CONSTANTS Packages, Uids, Again,       \* packages that may be installed again
          MaxInstalls, MaxClears

NoUid == "none"

VARIABLES uid,                         \* the packages of the device
          uids,                        \* self._cache['uids']
          installs, clears,
          asked, answer,               \* the package of the last question, its answer
          left                         \* history: uninstalled since they were cached

powerVars == <<uid, uids, installs, clears, asked, answer, left>>
NoAnswer == [of |-> NoUid, raised |-> FALSE]

PowerInit ==
  /\ uid = [p \in Packages |-> NoUid] /\ uids = [p \in Packages |-> NoUid]
  /\ installs = [p \in Packages |-> 0] /\ clears = 0 /\ left = {}
  /\ asked = "none" /\ answer = NoAnswer

(* The device gives a new package a uid that is free.                      *)
Install(p, u) ==
  /\ uid[p] = NoUid /\ \A q \in Packages : uid[q] # u
  /\ installs[p] < (IF p \in Again THEN MaxInstalls ELSE 1)
  /\ installs' = [installs EXCEPT ![p] = @ + 1]
  /\ uid' = [uid EXCEPT ![p] = u]
  /\ asked' = "none" /\ answer' = NoAnswer /\ UNCHANGED <<uids, clears, left>>

Uninstall(p) ==
  /\ uid[p] # NoUid /\ p \in Again
  /\ uid' = [uid EXCEPT ![p] = NoUid]
  /\ left' = IF uids[p] = NoUid THEN left ELSE left \cup {p}
  /\ asked' = "none" /\ answer' = NoAnswer /\ UNCHANGED <<uids, installs, clears>>

(* DeviceUtils clears the cache, after a reboot for one.                   *)
ClearCache ==
  /\ clears < MaxClears /\ clears' = clears + 1
  /\ uids' = [p \in Packages |-> NoUid] /\ left' = {}
  /\ asked' = "none" /\ answer' = NoAnswer /\ UNCHANGED <<uid, installs>>

Listed == {p \in Packages : uid[p] # NoUid}
Conflicts == {p \in Listed : uids[p] \notin {NoUid, uid[p]}}

(* The rows of the packages, in their order: all that come before the one  *)
(* that conflicts are noted.                                               *)
Noted(seen) == [p \in Packages |-> IF p \in seen THEN uid[p] ELSE uids[p]]

GetPowerData(p) ==
  /\ asked' = p
  /\ \E seen \in SUBSET (Listed \ Conflicts) :
       /\ Conflicts = {} => seen = Listed
       /\ uids' = Noted(seen)
  /\ answer' = [of |-> uids'[p], raised |-> Conflicts # {}]
  /\ UNCHANGED <<uid, installs, clears, left>>

GetNetworkData(p) ==
  IF uids[p] = NoUid THEN GetPowerData(p)
  ELSE /\ asked' = p /\ answer' = [of |-> uids[p], raised |-> FALSE]
       /\ UNCHANGED <<uid, uids, installs, clears, left>>

PowerNext == \/ \E p \in Packages : \/ \E u \in Uids : Install(p, u)
                                    \/ Uninstall(p) \/ GetPowerData(p) \/ GetNetworkData(p)
             \/ ClearCache

PowerSpec == PowerInit /\ [][PowerNext]_powerVars

----------------------------------------------------------------------------

Asked == asked # "none"

(* What is told of a package is read under the uid it has now, unless it   *)
(* was uninstalled since its uid was cached: the cache outlives a package. *)
ToldOfPackage == Asked /\ ~answer.raised /\ asked \notin left => answer.of = uid[asked]

(* The statistics name each package once: that one is "found multiple      *)
(* times with different UIDs" is said only after one was uninstalled.      *)
NeverTwice == answer.raised => left # {}

(* Two packages that are cached with one uid are not both still those that *)
(* were cached.                                                            *)
UidsApart ==
  \A p, q \in Packages \ left : uids[p] # NoUid /\ uids[p] = uids[q] => p = q
==============================================================================
