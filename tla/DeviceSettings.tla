--------------------------- MODULE DeviceSettings ----------------------------
(***************************************************************************)
(* Settings of a device: a property that is kept in three places, the mode *)
(* of its CPUs, and whether heat has throttled them. Each has variables,   *)
(* Init and Next of its own.                                               *)
(***************************************************************************)
EXTENDS Naturals, FiniteSets, Sequences

----------------------------------------------------------------------------
(***************************************************************************)
(* GetProp(), SetProp() and SetJavaAsserts() of DeviceUtils, for the one   *)
(* property that SetJavaAsserts() is about.  It is in three places: the    *)
(* running device, the file /data/local.prop that the next boot reads, and *)
(* the cache of the host, which is filled with all properties at once.  A  *)
(* command may be late: the call is tried again from its beginning, and    *)
(* what was asked for has been done or will be.                            *)
(***************************************************************************)

CONSTANTS Ops,               \* calls: a set of <<operation, argument>>
          Retries, MaxCalls,
          Slow,              \* commands may be late
          Unreadable         \* reading the file may fail

VARIABLES prop, file,        \* of the device; the file has the property and the others'
          late,              \* values that late commands are still to set
          token, cache,      \* of the host
          pc, op, left, calls,
          lines, result, before

dev == <<prop, file, late>>
vars == <<dev, token, cache, pc, op, left, calls, lines, result, before>>

Values == {"", "all"}
NoEntry == "no entry"
NoOp == <<"none", "">>
None == "none"

Init ==
  /\ prop \in Values
  /\ file \in [java : Values, others : BOOLEAN] /\ late = {}
  /\ token = FALSE /\ cache = NoEntry
  /\ pc = "idle" /\ op = NoOp /\ left = 0 /\ calls = 0
  /\ lines = file /\ result = None
  /\ before = [prop |-> prop, file |-> file]

First(name) == CASE name = "SetProp" -> "set" [] name = "SetJavaAsserts" -> "read" [] OTHER -> "get"

Call(o) ==
  /\ pc = "idle" /\ calls < MaxCalls
  /\ op' = o /\ pc' = First(o[1]) /\ left' = Retries /\ calls' = calls + 1
  /\ result' = None /\ before' = [prop |-> prop, file |-> file]
  /\ UNCHANGED <<dev, token, cache, lines>>

Same == <<op, calls, before>>
Returns(value) == pc' = "idle" /\ result' = value /\ UNCHANGED left

(* _EnsureCacheInitialized() *)
EnsureCacheInitialized ==
  IF token THEN UNCHANGED <<token, cache>> ELSE token' = TRUE /\ cache' = prop

(* GetProp(): an entry that the cache lacks counts as empty. *)
GetProp ==
  /\ pc = "get" /\ op[1] \in {"GetProp", "GetProp cached"}
  /\ IF op[1] = "GetProp cached" THEN EnsureCacheInitialized
     ELSE cache' = prop /\ UNCHANGED token
  /\ Returns(IF cache' = NoEntry THEN "" ELSE cache')
  /\ UNCHANGED <<dev, Same, lines>>

(* SetProp(): the entry leaves the cache. *)
SetProp ==
  /\ pc = "set"
  /\ prop' = op[2] /\ cache' = NoEntry
  /\ Returns(IF op[1] = "SetProp" THEN "set" ELSE "True")
  /\ UNCHANGED <<file, late, token, Same, lines>>

(* SetJavaAsserts(): the file first.  One that cannot be read is taken for *)
(* empty.                                                                  *)
ReadProperties ==
  /\ pc = "read"
  /\ lines' \in {file} \cup (IF Unreadable THEN {[java |-> "", others |-> FALSE]} ELSE {})
  /\ pc' = "write"
  /\ UNCHANGED <<dev, token, cache, Same, left, result>>

(* WriteFile(): only if the lines that were read say another value.       *)
WriteProperties ==
  /\ pc = "write"
  /\ file' = IF lines.java = op[2] THEN file ELSE [lines EXCEPT !.java = op[2]]
  /\ pc' = "compare"
  /\ UNCHANGED <<prop, late, token, cache, Same, left, lines, result>>

CompareProp ==
  /\ pc = "compare"
  /\ cache' = prop
  /\ IF prop # op[2] THEN pc' = "set" /\ UNCHANGED <<left, result>> ELSE Returns("False")
  /\ UNCHANGED <<dev, token, Same, lines>>

Again(outcome) ==
  IF left > 0 THEN left' = left - 1 /\ pc' = First(op[1]) /\ UNCHANGED result
  ELSE pc' = "idle" /\ result' = outcome /\ UNCHANGED left

(* setprop is late: done now, or by and by. *)
TimesOut ==
  /\ Slow /\ pc = "set"
  /\ \/ prop' = op[2] /\ UNCHANGED late
     \/ late' = late \cup {op[2]} /\ UNCHANGED prop
  /\ Again("timeout")
  /\ UNCHANGED <<file, token, cache, Same, lines>>

LateSet(v) ==
  /\ v \in late
  /\ prop' = v /\ late' = late \ {v}
  /\ UNCHANGED <<file, token, cache, pc, Same, left, lines, result>>

Next == \/ \E o \in Ops : Call(o)
        \/ GetProp \/ SetProp \/ ReadProperties \/ WriteProperties \/ CompareProp \/ TimesOut
        \/ \E v \in late : LateSet(v)

Spec == Init /\ [][Next]_vars

----------------------------------------------------------------------------

(* The property in its three places. *)
TypeOK ==
  /\ prop \in Values /\ file \in [java : Values, others : BOOLEAN] /\ late \subseteq Values
  /\ cache \in Values \cup {NoEntry} /\ left \in 0..Retries
  /\ result \in Values \cup {None, "set", "True", "False", "timeout"}

Idle == pc = "idle" /\ late = {}

(* GetProp() returns the device's value. *)
GetPropIsTrue == (Idle /\ op[1] \in {"GetProp", "GetProp cached"}) => result = prop

(* After SetJavaAsserts() the running device and the next boot agree.      *)
AssertsAgree ==
  (Idle /\ op[1] = "SetJavaAsserts" /\ result \in {"True", "False"}) =>
    prop = op[2] /\ file.java = op[2]

(* It returns True exactly when the property was changed by it.            *)
ChangedIsTold ==
  (Idle /\ op[1] = "SetJavaAsserts" /\ result \in {"True", "False"}) =>
    (result = "True") = (before.prop # op[2])

(* The other lines of the file stay. *)
OthersStay == file.others = before.file.others

----------------------------------------------------------------------------
(***************************************************************************)
(* PerfControl: a device is told to run all its CPUs, under the governor   *)
(* "performance", for a measurement, and told back afterwards, while       *)
(* mpdecision takes CPUs off line and brings them back.                    *)
(***************************************************************************)

CONSTANTS CPUs, Boot,      \* the first of them is never off line
          Model,           \* "Nexus 4", "Nexus 5" or "other"
          MpDecision,      \* the device has it
          Held,            \* CPUs the kernel may refuse to bring up (heat)
          MayRoot,         \* EnableRoot() succeeds
          PerfMaxCalls

Assumption == Boot \in CPUs /\ Held \subseteq CPUs \ {Boot} /\ MpDecision \in BOOLEAN /\ MayRoot \in BOOLEAN

VARIABLES online, governor, capped, gpuCapped, mpdecision, root,  \* the device
          perfPc, call, mode, warned, seen, info, perfCalls

device == <<online, governor, capped, gpuCapped, mpdecision, root>>
perfVars == <<device, perfPc, call, mode, warned, seen, info, perfCalls>>

PerfInit ==
  /\ online \in {o \in SUBSET CPUs : Boot \in o /\ (~MpDecision => o = CPUs)}
  /\ governor = [c \in CPUs |-> "default"] /\ capped = {} /\ gpuCapped = FALSE
  /\ mpdecision = (IF MpDecision THEN "running" ELSE "absent") /\ root = FALSE
  /\ perfPc = "idle" /\ call = "none" /\ mode = "default" /\ warned = FALSE
  /\ seen = {} /\ info = {} /\ perfCalls = 0

(* mpdecision plugs CPUs as it likes.                                      *)
HotPlug ==
  /\ mpdecision = "running"
  /\ \E c \in CPUs \ {Boot} : online' = IF c \in online THEN online \ {c} ELSE online \cup {c}
  /\ UNCHANGED <<governor, capped, gpuCapped, mpdecision, root, perfPc, call, mode, warned, seen, info, perfCalls>>

----------------------------------------------------------------------------

Goes(p) == perfPc' = p /\ UNCHANGED mode
PerfReturns(m) == perfPc' = "idle" /\ mode' = m

Begin(c, p) ==
  /\ perfPc = "idle" /\ perfCalls < PerfMaxCalls
  /\ perfCalls' = perfCalls + 1 /\ call' = c /\ perfPc' = p
  /\ UNCHANGED <<device, seen>>

SetHighPerfMode ==
  Begin("high", "root") /\ mode' = "between" /\ warned' = FALSE /\ info' = {}

SetPerfProfilingMode ==
  Begin("profiling", "stop") /\ mode' = "between" /\ warned' = FALSE /\ info' = {}

SetDefaultPerfMode ==
  /\ Begin("default", IF ~root THEN "idle" ELSE IF Model = "Nexus 5" THEN "uncap" ELSE "governor")
  /\ mode' = (IF root THEN "between" ELSE mode) /\ UNCHANGED warned /\ info' = {}

GetCpuInfo == Begin("info", "online") /\ UNCHANGED <<mode, warned, info>>

(* Without root a high mode is a warning. *)
EnableRoot ==
  /\ perfPc = "root"
  /\ IF root \/ MayRoot
     THEN root' = TRUE /\ Goes(IF Model = "other" THEN "governor" ELSE "stop") /\ UNCHANGED warned
     ELSE UNCHANGED root /\ warned' = TRUE /\ PerfReturns("unset")
  /\ UNCHANGED <<online, governor, capped, gpuCapped, mpdecision, call, seen, info, perfCalls>>

(* _ForceAllCpusOnline(True).  "stop" without root is an error.            *)
StopMpdecision ==
  /\ perfPc = "stop"
  /\ IF MpDecision /\ ~root THEN PerfReturns("raised") /\ UNCHANGED mpdecision
     ELSE Goes("force") /\ mpdecision' = IF MpDecision THEN "stopped" ELSE "absent"
  /\ UNCHANGED <<online, governor, capped, gpuCapped, root, call, warned, seen, info, perfCalls>>

ForceAllCpusOnline ==
  /\ perfPc = "force"
  /\ IF root THEN \E off \in SUBSET (Held \ online) : online' = CPUs \ off ELSE UNCHANGED online
  /\ Goes(IF call = "high" THEN "check" ELSE "governor")
  /\ UNCHANGED <<governor, capped, gpuCapped, mpdecision, root, call, warned, seen, info, perfCalls>>

AllCpusAreOnline == online = CPUs

(* _AllCpusAreOnline(): a warning in one mode, an exception in the other.  *)
Check ==
  /\ perfPc = "check"
  /\ CASE call = "high" -> warned' = (warned \/ ~AllCpusAreOnline) /\ Goes("governor")
       [] call = "profiling" ->
            PerfReturns(IF AllCpusAreOnline THEN "profiling" ELSE "raised") /\ UNCHANGED warned
  /\ UNCHANGED <<device, call, seen, info, perfCalls>>

(* A script writes the file of each CPU that has one; root alone may.      *)
WriteEachCpuFile(old, value) == [c \in CPUs |-> IF root /\ c \in online THEN value ELSE old[c]]

Governor == IF call = "default" THEN "default" ELSE "performance"

(* The files of cpufreq exist for a CPU that is on line, and only root may *)
(* write them; a CPU that refuses is told in the log.                      *)
SetScalingGovernor ==
  /\ perfPc = "governor"
  /\ governor' = WriteEachCpuFile(governor, Governor)
  /\ Goes(CASE call = "high" /\ Model = "Nexus 5" -> "cap" [] call = "high" /\ Model # "Nexus 5" -> "end"
            [] call = "profiling" -> "check" [] call = "default" -> "start")
  /\ UNCHANGED <<online, capped, gpuCapped, mpdecision, root, call, warned, seen, info, perfCalls>>

(* Nexus 5: a lower frequency, for the CPUs and the GPU.                   *)
SetMaxima ==
  /\ perfPc = "cap" /\ capped' = capped \cup online /\ gpuCapped' = TRUE /\ Goes("end")
  /\ UNCHANGED <<online, governor, mpdecision, root, call, warned, seen, info, perfCalls>>

HighIsSet ==
  /\ perfPc = "end" /\ PerfReturns("high")
  /\ UNCHANGED <<device, call, warned, seen, info, perfCalls>>

ResetMaxima ==
  /\ perfPc = "uncap" /\ Goes("governor")
  /\ IF AllCpusAreOnline THEN capped' = {} /\ gpuCapped' = FALSE ELSE UNCHANGED <<capped, gpuCapped>>
  /\ UNCHANGED <<online, governor, mpdecision, root, call, warned, seen, info, perfCalls>>

(* _ForceAllCpusOnline(False). *)
StartMpdecision ==
  /\ perfPc = "start" /\ PerfReturns("default")
  /\ mpdecision' = IF MpDecision THEN "running" ELSE "absent"
  /\ UNCHANGED <<online, governor, capped, gpuCapped, root, call, warned, seen, info, perfCalls>>

(* GetCpuInfo() reads who is on line, and then the governors: an off-line  *)
(* CPU has no file to read its governor from.                              *)
ReadOnline ==
  /\ perfPc = "online" /\ seen' = online /\ Goes("governors")
  /\ UNCHANGED <<device, call, warned, info, perfCalls>>

ReadGovernors ==
  /\ perfPc = "governors" /\ Goes("idle")
  /\ info' = {<<c, c \in seen, IF c \in online THEN governor[c] ELSE "None">> : c \in CPUs}
  /\ UNCHANGED <<device, call, warned, seen, perfCalls>>

Steps ==
  \/ EnableRoot \/ StopMpdecision \/ ForceAllCpusOnline \/ Check \/ SetScalingGovernor
  \/ SetMaxima \/ HighIsSet \/ ResetMaxima \/ StartMpdecision \/ ReadOnline \/ ReadGovernors

PerfNext == SetHighPerfMode \/ SetPerfProfilingMode \/ SetDefaultPerfMode \/ GetCpuInfo \/ Steps \/ HotPlug

PerfSpec == PerfInit /\ [][PerfNext]_perfVars

----------------------------------------------------------------------------

(* The types of the variables; the first CPU is on line.                   *)
PerfTypeOK ==
  /\ online \subseteq CPUs /\ Boot \in online /\ capped \subseteq CPUs /\ gpuCapped \in BOOLEAN
  /\ governor \in [CPUs -> {"default", "performance"}]
  /\ mpdecision \in {"absent", "running", "stopped"} /\ root \in BOOLEAN /\ warned \in BOOLEAN
  /\ mode \in {"default", "between", "high", "profiling", "unset", "raised"}

(* A mode that was set without a warning stays for the whole measurement:  *)
(* every CPU is on line, and none scales its frequency, because mpdecision *)
(* is stopped before the CPUs are brought up and the governor is written.  *)
QuietWhileMeasured ==
  root /\ ~warned /\ (mode = "profiling" \/ (mode = "high" /\ Model # "other"))
    => online = CPUs /\ \A c \in CPUs : governor[c] = "performance"

(* The default mode is the one the device was found in.                    *)
DefaultAsFound ==
  mode = "default" =>
    /\ \A c \in CPUs : governor[c] = "default"
    /\ capped = {} /\ ~gpuCapped
    /\ MpDecision => mpdecision = "running"

(* GetCpuInfo() in a mode that was set tells the same of every CPU, though *)
(* it reads the device twice.                                              *)
InfoTellsMode ==
  info # {} /\ root /\ mode = "profiling" => info = {<<c, TRUE, "performance">> : c \in CPUs}

----------------------------------------------------------------------------
(***************************************************************************)
(* ThermalThrottle: whether a device is, or has been, throttled because it *)
(* is hot, told from the lines of the kernel's log, which reading clears.  *)
(***************************************************************************)

CONSTANTS Observers,      \* ThermalThrottle objects of one device
          LogSize,        \* lines the kernel keeps
          MaxChanges, HeatMaxCalls

VARIABLES hot, log,                     \* the device
          throttled,                    \* _throttled, of each observer
          been, held,                   \* the device since each one's last call
          told, changes, heatCalls

heatVars == <<hot, log, throttled, been, held, told, changes, heatCalls>>

HeatInit ==
  /\ hot \in BOOLEAN /\ log = (IF hot THEN <<"throttle">> ELSE <<>>)
  /\ throttled = [o \in Observers |-> FALSE]
  /\ been = [o \in Observers |-> hot] /\ held = [o \in Observers |-> FALSE]
  /\ told = [what |-> "nothing"] /\ changes = 0 /\ heatCalls = 0

(* The ring of the kernel keeps the last lines.                            *)
Logged(line) == LET l == Append(log, line) IN IF Len(l) > LogSize THEN Tail(l) ELSE l

Throttles ==
  /\ ~hot /\ hot' = TRUE /\ log' = Logged("throttle")
  /\ been' = [o \in Observers |-> TRUE]

Unthrottles == hot /\ hot' = FALSE /\ log' = Logged("unthrottle") /\ UNCHANGED been

OtherLine == log' = Logged("other") /\ UNCHANGED <<hot, been>>

Changes ==
  /\ changes < MaxChanges /\ changes' = changes + 1
  /\ Throttles \/ Unthrottles \/ OtherLine
  /\ UNCHANGED <<throttled, held, told, heatCalls>>

----------------------------------------------------------------------------

BecameThrottled(line) == line = "throttle"
BecameUnthrottled(line) == line = "unthrottle"

(* What the lines of the log make of _throttled: the last that tells.      *)
After(was) ==
  LET tells == {i \in DOMAIN log : BecameThrottled(log[i]) \/ BecameUnthrottled(log[i])}
  IN IF tells = {} THEN was ELSE BecameThrottled(log[CHOOSE i \in tells : \A j \in tells : j <= i])

HasBeen == \E i \in DOMAIN log : BecameThrottled(log[i]) \/ BecameUnthrottled(log[i])

(* _ReadLog(): "dmesg -c" prints the log and clears it.                    *)
ReadLog(o, answer) ==
  /\ heatCalls < HeatMaxCalls /\ heatCalls' = heatCalls + 1
  /\ throttled' = [throttled EXCEPT ![o] = After(@)]
  /\ log' = <<>>
  /\ been' = [been EXCEPT ![o] = hot] /\ held' = [held EXCEPT ![o] = hot]
  /\ told' = [what |-> answer[1], is |-> answer[2], hot |-> hot, been |-> been[o], held |-> held[o]]
  /\ UNCHANGED <<hot, changes>>

HasBeenThrottled(o) == ReadLog(o, <<"been", HasBeen>>)
IsThrottled(o) == ReadLog(o, <<"is", After(throttled[o])>>)

HeatNext == Changes \/ \E o \in Observers : HasBeenThrottled(o) \/ IsThrottled(o)

HeatSpec == HeatInit /\ [][HeatNext]_heatVars

----------------------------------------------------------------------------

(* The types of the variables; the log never outgrows its ring.            *)
HeatTypeOK ==
  /\ hot \in BOOLEAN /\ throttled \in [Observers -> BOOLEAN] /\ Len(log) <= LogSize
  /\ \A i \in DOMAIN log : log[i] \in {"throttle", "unthrottle", "other"}

(* IsThrottled() tells the state of the device, as long as nobody else     *)
(* clears the log it is told by.                                           *)
IsTold == told.what = "is" => told.is = told.hot

(* HasBeenThrottled() answers no only when the device is in the state that *)
(* the last call left it in: no measurement that was disturbed is kept.    *)
NoChangeMissed == told.what = "been" /\ ~told.is => told.hot = told.held
==============================================================================
