---------------------------- MODULE ProfileChrome ----------------------------
(***************************************************************************)
(* profile_chrome: what the agents of a profile do to a device and to its  *)
(* browser, between CaptureProfile() and its file.  The calls come from    *)
(* the controller, one after the other; its timeouts and its clock sync    *)
(* marker are those of TracingSession.  The browser answers in its own     *)
(* time, by a line in the log.                                             *)
(***************************************************************************)
EXTENDS Naturals, Sequences, FiniteSets, SequencesExt

CONSTANTS
  Orders,       \* sequences of agents, each in the controller's order
  MaxProfiles, MaxFaults

Agents == {"chrome", "startup", "ddms", "perf", "atrace"}

Assumption == Orders \subseteq Seq(Agents) \ {<<>>}

VARIABLES
  tracing, heap, performance, flags,  \* the device: who records, and what was set
  granted, running, converts,         \* what the profile meets: not chosen by it
  order, memory, profile,             \* the agents, trace_memory, and how many profiles
  log, writes,                        \* the lines of the log, and those still to come
  flagsFound,                         \* by the FlagChanger of the startup agent
  monitors,                           \* the logcat monitors that record
  isTracing, traceFile,               \* _is_tracing of chrome, _trace_file or _output_file
  pc, at, step, results, outcome, faults

meets == <<granted, running, converts, order, memory, profile>>
device == <<tracing, heap, performance, flags, meets>>
lines == <<log, writes>>
agents == <<flagsFound, monitors, isTracing, traceFile>>
control == <<pc, at, step, results, outcome>>
vars == <<device, lines, agents, control, faults>>

(* A line tells whose trace it is about, and of which profile.             *)
Line(a, kind) == <<a, kind, profile>>

(* A browser that runs, may write to the storage, and samples that can be  *)
(* converted, or not.                                                      *)
Init ==
  /\ tracing = {} /\ heap = FALSE /\ performance = FALSE /\ flags = FALSE
  /\ granted \in BOOLEAN /\ running \in BOOLEAN /\ converts \in BOOLEAN /\ memory \in BOOLEAN
  /\ order \in Orders /\ profile = 1
  /\ log = {} /\ writes = {} /\ flagsFound = FALSE /\ monitors = {} /\ isTracing = FALSE
  /\ traceFile = [a \in Agents |-> 0]
  /\ pc = "start" /\ at = 1 /\ step = 1 /\ results = {} /\ outcome = "none" /\ faults = 0

(* A FlagChanger is made, and reads the flags that are set.                *)
NewAgents ==
  /\ flagsFound' = flags /\ monitors' = {} /\ isTracing' = FALSE
  /\ traceFile' = [a \in Agents |-> 0]

(* CaptureProfile() again, with new agents. *)
CaptureProfile ==
  /\ pc = "done" /\ profile < MaxProfiles
  /\ profile' = profile + 1 /\ order' \in Orders
  /\ pc' = "start" /\ at' = 1 /\ step' = 1 /\ results' = {} /\ outcome' = "none"
  /\ NewAgents
  /\ UNCHANGED <<tracing, heap, performance, flags, granted, running, converts, memory, lines, faults>>

Agent == order[at]
Is(p, a, n) == pc = p /\ Agent = a /\ step = n
Stay == pc' = pc /\ at' = at /\ step' = step + 1 /\ UNCHANGED <<results, outcome>>

(* The controller's loops: start, stop, collect.                           *)
After(p) == CASE p = "start" -> "stop" [] p = "stop" -> "collect" [] p = "collect" -> "done"

Advance ==
  /\ IF at < Len(order) THEN pc' = pc /\ at' = at + 1 ELSE pc' = After(pc) /\ at' = 1
  /\ step' = 1
  /\ outcome' = IF pc' = "done" THEN "ok" ELSE outcome
Returned == Advance /\ UNCHANGED results
Raised == pc' = "done" /\ outcome' = "raised" /\ UNCHANGED <<at, step, results>>
NoFault == UNCHANGED faults
Fault == faults < MaxFaults /\ faults' = faults + 1

(* Any command to the device may fail.                                     *)
CommandFails ==
  /\ pc # "done" /\ Fault /\ Raised
  /\ ~(pc = "stop" /\ Agent = "startup")
  /\ UNCHANGED <<device, lines, agents>>

(* What was begun on the device is written to the log, later.              *)
BrowserWrites ==
  /\ \E l \in writes : writes' = writes \ {l} /\ log' = log \cup {l}
                       /\ tracing' = IF l[2] = "finish" THEN tracing \ {l[1]} ELSE tracing
  /\ UNCHANGED <<heap, performance, flags, meets, agents, control, faults>>

(* LogcatMonitor.Start() clears the log.                                   *)
StartMonitor(a) ==
  /\ monitors' = monitors \cup {a} /\ log' = {}
  /\ UNCHANGED <<device, writes, flagsFound, isTracing, traceFile, faults>> /\ Stay

----------------------------------------------------------------------------

(* ChromeTracingAgent.                                                     *)
ChromeMonitor == Is("start", "chrome", 1) /\ StartMonitor("chrome")

ChromeBroadcast ==
  /\ Is("start", "chrome", 2) /\ Stay
  /\ IF running
     THEN tracing' = tracing \cup {"chrome"} /\ writes' = writes \cup {Line("chrome", "start")}
     ELSE UNCHANGED <<tracing, writes>>
  /\ UNCHANGED <<heap, performance, flags, meets, log, agents, faults>>

ChromeHeap ==
  /\ Is("start", "chrome", 3) /\ Stay
  /\ heap' = (heap \/ memory)
  /\ UNCHANGED <<tracing, performance, flags, meets, lines, agents, faults>>

(* The marker is waited for, and its absence is an error.                  *)
Seen(a, kind) == {l \in log : l[1] = a /\ l[2] = kind}

ChromeStarted ==
  /\ Is("start", "chrome", 4)
  /\ \/ Seen("chrome", "start") # {} /\ isTracing' = TRUE /\ Returned /\ NoFault
     \/ Seen("chrome", "start") = {} /\ Raised /\ UNCHANGED isTracing
        /\ IF running THEN Fault ELSE NoFault
  /\ UNCHANGED <<device, lines, flagsFound, monitors, traceFile>>

ChromeStop ==
  /\ Is("stop", "chrome", 1) /\ Stay
  /\ IF isTracing THEN writes' = writes \cup {Line("chrome", "finish")} ELSE UNCHANGED writes
  /\ UNCHANGED <<device, log, agents, faults>>

ChromeFinished ==
  /\ Is("stop", "chrome", 2)
  /\ \/ /\ isTracing /\ NoFault /\ Stay /\ isTracing' = FALSE
        /\ \E l \in Seen("chrome", "finish") : traceFile' = [traceFile EXCEPT !["chrome"] = l[3]]
     \/ isTracing /\ Seen("chrome", "finish") = {} /\ Fault /\ Raised /\ UNCHANGED <<isTracing, traceFile>>
  /\ UNCHANGED <<device, lines, flagsFound, monitors>>

ChromeHeapOff ==
  /\ Is("stop", "chrome", 3) /\ Returned
  /\ heap' = (heap /\ ~memory)
  /\ UNCHANGED <<tracing, performance, flags, meets, lines, agents, faults>>

ChromeSteps ==
  ChromeMonitor \/ ChromeBroadcast \/ ChromeHeap \/ ChromeStarted \/ ChromeStop \/ ChromeFinished \/ ChromeHeapOff

----------------------------------------------------------------------------

(* ChromeStartupTracingAgent: the browser is stopped and started with a    *)
(* flag, and ends its trace by itself.                                     *)
StartupFlags ==
  /\ Is("start", "startup", 1) /\ Stay
  /\ flags' = TRUE
  /\ UNCHANGED <<tracing, heap, performance, meets, lines, agents, faults>>

(* ForceStop(): what the browser was about to write is lost.               *)
ForceStop ==
  /\ Is("start", "startup", 2) /\ Stay
  /\ tracing' = tracing \ {"chrome", "startup"} /\ writes' = {}
  /\ UNCHANGED <<heap, performance, flags, meets, log, agents, faults>>

StartupMonitor == Is("start", "startup", 3) /\ StartMonitor("startup")

StartActivity ==
  /\ Is("start", "startup", 4) /\ Returned
  /\ tracing' = tracing \cup {"startup"} /\ writes' = writes \cup {Line("startup", "finish")}
  /\ UNCHANGED <<heap, performance, flags, meets, log, agents, faults>>

(* The flags are restored whether the trace has ended or not.              *)
StartupFinished ==
  /\ Is("stop", "startup", 1)
  /\ flags' = flagsFound
  /\ \/ /\ Returned /\ NoFault
        /\ \E l \in Seen("startup", "finish") : traceFile' = [traceFile EXCEPT !["startup"] = l[3]]
     \/ Seen("startup", "finish") = {} /\ Fault /\ Raised /\ UNCHANGED traceFile
  /\ UNCHANGED <<tracing, heap, performance, meets, lines, flagsFound, monitors, isTracing>>

StartupSteps == StartupFlags \/ ForceStop \/ StartupMonitor \/ StartActivity \/ StartupFinished

----------------------------------------------------------------------------

(* DdmsAgent, and atrace's: a command starts, another stops.               *)
CommandStarts ==
  /\ pc = "start" /\ Agent \in {"ddms", "atrace"} /\ Returned
  /\ tracing' = tracing \cup {Agent} /\ traceFile' = [traceFile EXCEPT ![Agent] = profile]
  /\ UNCHANGED <<heap, performance, flags, meets, lines, flagsFound, monitors, isTracing, faults>>

CommandStops ==
  /\ pc = "stop" /\ Agent \in {"ddms", "atrace"} /\ Returned
  /\ tracing' = tracing \ {Agent}
  /\ UNCHANGED <<heap, performance, flags, meets, lines, agents, faults>>

(* _PerfProfiler: the mode is set before perf is there, and set back after *)
(* perf has ended.                                                         *)
PerfMode ==
  /\ Is("start", "perf", 1) /\ Stay
  /\ performance' = TRUE
  /\ UNCHANGED <<tracing, heap, flags, meets, lines, agents, faults>>

PerfStarts ==
  /\ Is("start", "perf", 2) /\ Returned
  /\ tracing' = tracing \cup {"perf"} /\ traceFile' = [traceFile EXCEPT !["perf"] = profile]
  /\ UNCHANGED <<heap, performance, flags, meets, lines, flagsFound, monitors, isTracing, faults>>

SignalAndWait ==
  /\ Is("stop", "perf", 1) /\ Stay
  /\ tracing' = tracing \ {"perf"}
  /\ UNCHANGED <<heap, performance, flags, meets, lines, agents, faults>>

PerfModeBack ==
  /\ Is("stop", "perf", 2) /\ Returned
  /\ performance' = FALSE
  /\ UNCHANGED <<tracing, heap, flags, meets, lines, agents, faults>>

PerfSteps == PerfMode \/ PerfStarts \/ SignalAndWait \/ PerfModeBack

----------------------------------------------------------------------------

(* GetResults(): the file is pulled from the device.  A browser that may   *)
(* not write to the storage has none; _PullTrace() of perf returns None    *)
(* when the samples cannot be converted, and open(None) raises.            *)
BrowserHasFile == granted
SamplesConvert == converts
HasOutputFile(a) == traceFile[a] # 0

CanPull(a) ==
  CASE a \in {"chrome", "startup"} -> BrowserHasFile
    [] a = "perf" -> SamplesConvert
    [] a \in {"ddms", "atrace"} -> HasOutputFile(a)

GetResults ==
  /\ pc = "collect"
  /\ IF CanPull(Agent)
     THEN results' = results \cup {<<Agent, traceFile[Agent]>>} /\ Advance
     ELSE Raised
  /\ UNCHANGED <<device, lines, agents, faults>>

Steps ==
  ChromeSteps \/ StartupSteps \/ CommandStarts \/ CommandStops \/ PerfSteps \/ GetResults

Next == CaptureProfile \/ Steps \/ CommandFails \/ BrowserWrites

Fairness == WF_vars(Steps) /\ WF_vars(BrowserWrites)
Spec == Init /\ [][Next]_vars /\ Fairness

----------------------------------------------------------------------------

(* The types of the variables.                                             *)
TypeOK ==
  /\ tracing \cup monitors \subseteq Agents
  /\ {heap, performance, flags, granted, running, converts, memory, isTracing} \subseteq BOOLEAN
  /\ pc \in {"start", "stop", "collect", "done"} /\ at \in DOMAIN order /\ step \in 1..4
  /\ traceFile \in [Agents -> 0..MaxProfiles] /\ outcome \in {"none", "ok", "raised"}

(* A profile that was taken leaves the device as it was found: nothing     *)
(* records any more, and what was set for it is set back.                  *)
LeftAsFound ==
  outcome = "ok" =>
    /\ tracing \cap ToSet(order) = {}
    /\ "chrome" \in ToSet(order) /\ memory => ~heap
    /\ "perf" \in ToSet(order) => ~performance
    /\ "startup" \in ToSet(order) => flags = flagsFound

(* The files that are pulled are those of this profile, and complete:      *)
(* their agent has ended recording.                                        *)
FreshAndWhole ==
  \A r \in results : r[2] = profile /\ r[1] \notin tracing

(* The CPUs stay in their mode for as long as perf records.                *)
ModeWhileRecording == "perf" \in tracing => performance

(* The flag of the startup trace goes with StopAgentTracing(), however     *)
(* that ends.                                                              *)
FlagsTakenBack ==
  pc = "stop" /\ Agent = "startup" /\ (pc' # pc \/ at' # at) => flags' = flagsFound

(* A profile is taken. *)
Profiles == pc # "done"
==============================================================================
