--------------------------- MODULE TracingSession ----------------------------
(***************************************************************************)
(* Traces in the making: a session of several tracing agents, and two      *)
(* agents from within, one that dumps the processes of a device and one    *)
(* that traces the kernel of the host. Each has variables, Init and Next   *)
(* of its own.                                                             *)
(***************************************************************************)
EXTENDS Naturals, Sequences, FiniteSets, SequencesExt

----------------------------------------------------------------------------
(***************************************************************************)
(* systrace: one trace of a device by several tracing agents.  The         *)
(* TracingController starts the agents one after another, lets the user    *)
(* wait, writes a clock sync marker into every trace that can take one,    *)
(* stops the agents and collects what they have recorded.                  *)
(*                                                                         *)
(* Starting, stopping and collecting run under py_utils.Timeout: when it   *)
(* is up the call answers False, and the thread that makes it goes on.     *)
(* The atrace and WALT agents fetch their trace from the device in a       *)
(* thread of their own, which StopAgentTracing() only starts.  The marker  *)
(* is not under a timeout: it goes through a shell on the device that is   *)
(* read until it ends, and the status of the command is not looked at.     *)
(***************************************************************************)

CONSTANTS
  Order,        \* the agents, in the order of the controller's list
  Syncs,        \* those that support explicit clock sync
  Threaded,     \* those that collect in a thread of their own
  Slow,         \* TRUE when a call may time out
  Raising,      \* TRUE when a call, or a collecting thread, may fail
  Refusing,     \* TRUE when the controller's own agent may time out
  MarkerFails   \* TRUE when the shell of a marker may hang, raise or not write

Agents == ToSet(Order)

TracingSessionAssumption ==
  /\ Order \in Seq(Agents)
  /\ Syncs \subseteq Agents /\ Threaded \subseteq Agents
  /\ "controller" \notin Agents
  /\ {Slow, Raising, Refusing, MarkerFails} \subseteq BOOLEAN

VARIABLES
  pc, at,       \* where the controller is, and at which agent
  inProgress,   \* _trace_in_progress
  children,     \* _child_agents: those that take part, or NoAgents
  passed,       \* succ_agents of the loop at hand
  tracing,      \* the agents whose trace is being recorded
  late,         \* calls whose thread goes on after the timeout
  thread,       \* thread[a]: the collecting thread of a
  marked,       \* the agents whose trace has the marker
  unwritten,    \* history: those whose marker's command failed unseen
  log,          \* the markers the controller has recorded
  logging,      \* TRUE while its own trace is enabled
  results,      \* the agents that have given a result, and whether with data
  outcome

vars == <<pc, at, inProgress, children, passed, tracing, late, thread, marked, unwritten,
          log, logging, results, outcome>>
markers == <<marked, unwritten>>
device == <<tracing, late, thread, markers>>

NoAgents == <<"None">>

Init ==
  /\ pc = "idle" /\ at = 1
  /\ inProgress = FALSE
  /\ children = NoAgents
  /\ passed = <<>>
  /\ tracing = {} /\ late = {}
  /\ thread = [a \in Agents |-> "none"]
  /\ marked = {} /\ unwritten = {} /\ log = {} /\ logging = FALSE
  /\ results = {}
  /\ outcome = "none"

(* The next agent of the list, with ok appended to those that passed.      *)
NextAgent(ok) == at' = at + 1 /\ passed' = passed \o ok

(* A loop over the agents is over, the next one begins at the first.       *)
Loop(from, n, to) == pc = from /\ at > n /\ pc' = to /\ at' = 1 /\ passed' = <<>>

Raised == pc' = "idle" /\ at' = 1 /\ passed' = <<>> /\ outcome' = "raised"

----------------------------------------------------------------------------

(* StartTracing(): the controller's own agent comes first.                 *)
StartTracing ==
  /\ pc = "idle" /\ outcome = "none" /\ ~inProgress
  /\ inProgress' = TRUE
  /\ pc' = "start" /\ logging' = TRUE
  /\ UNCHANGED <<at, children, passed, device, log, results, outcome>>

StartRefused ==
  /\ Refusing
  /\ pc = "idle" /\ outcome = "none" /\ ~inProgress
  /\ inProgress' = TRUE
  /\ outcome' = "not started"
  /\ UNCHANGED <<pc, at, children, passed, device, log, logging, results>>

StartAgent ==
  /\ pc = "start" /\ at <= Len(Order)
  /\ tracing' = tracing \cup {Order[at]}
  /\ NextAgent(<<Order[at]>>)
  /\ UNCHANGED <<pc, inProgress, children, late, thread, markers, log, logging, results, outcome>>

StartTimesOut ==
  /\ Slow
  /\ pc = "start" /\ at <= Len(Order)
  /\ late' = late \cup {<<Order[at], "start">>}
  /\ NextAgent(<<>>)
  /\ UNCHANGED <<pc, inProgress, children, tracing, thread, markers, log, logging, results, outcome>>

StartRaises ==
  /\ Raising
  /\ pc = "start" /\ at <= Len(Order)
  /\ Raised
  /\ UNCHANGED <<inProgress, children, device, log, logging, results>>

Started ==
  /\ Loop("start", Len(Order), "running")
  /\ children' = passed
  /\ UNCHANGED <<inProgress, device, log, logging, results, outcome>>

----------------------------------------------------------------------------

(* The thread of a call that has timed out comes to the end of it, or dies *)
(* on the way.                                                             *)
Late(a, op) ==
  /\ <<a, op>> \in late
  /\ late' = late \ {<<a, op>>}
  /\ tracing' = IF op = "start" THEN tracing \cup {a}
                ELSE IF a \in Threaded THEN tracing ELSE tracing \ {a}
  /\ thread' = IF op = "stop" /\ a \in Threaded
               THEN [thread EXCEPT ![a] = "running"] ELSE thread
  /\ UNCHANGED <<pc, at, inProgress, children, passed, markers, log, logging, results, outcome>>

LateDies(a, op) ==
  /\ <<a, op>> \in late
  /\ late' = late \ {<<a, op>>}
  /\ UNCHANGED <<pc, at, inProgress, children, passed, tracing, thread, markers, log, logging,
                 results, outcome>>

----------------------------------------------------------------------------

(* StopTracing(), as main_impl() calls it whatever StartTracing() has      *)
(* answered.                                                               *)
StopTracing ==
  /\ pc = "running" \/ outcome = "not started"
  /\ inProgress
  /\ inProgress' = FALSE
  /\ IF children = NoAgents THEN Raised
     ELSE pc' = "sync" /\ UNCHANGED <<at, passed, outcome>>
  /\ UNCHANGED <<children, device, log, logging, results>>

(* _IssueClockSyncMarker(): the agent writes the marker, if the command    *)
(* does not fail, and calls back all the same.                             *)
Write(a) ==
  \/ /\ marked' = IF a \in tracing THEN marked \cup {a} ELSE marked
     /\ UNCHANGED unwritten
  \/ MarkerFails /\ unwritten' = unwritten \cup {a} /\ UNCHANGED marked

Sync ==
  /\ pc = "sync" /\ at <= Len(children)
  /\ IF children[at] \in Syncs
     THEN Write(children[at]) /\ log' = IF logging THEN log \cup {children[at]} ELSE log
     ELSE UNCHANGED <<markers, log>>
  /\ at' = at + 1
  /\ UNCHANGED <<pc, inProgress, children, passed, tracing, late, thread, logging, results, outcome>>

(* RunCommand() has read no line, or one that is no number: no call back,  *)
(* whether or not the marker was written, and StopTracing() raises.        *)
SyncRaises ==
  /\ MarkerFails
  /\ pc = "sync" /\ at <= Len(children) /\ children[at] \in Syncs
  /\ Write(children[at])
  /\ Raised
  /\ UNCHANGED <<inProgress, children, tracing, late, thread, log, logging, results>>

(* The shell neither answers nor ends, and nothing ends the wait for it.   *)
SyncHangs ==
  /\ MarkerFails
  /\ pc = "sync" /\ at <= Len(children) /\ children[at] \in Syncs
  /\ pc' = "hung"
  /\ UNCHANGED <<at, inProgress, children, passed, device, log, logging, results, outcome>>

Synced ==
  /\ Loop("sync", Len(children), "stop")
  /\ UNCHANGED <<inProgress, children, device, log, logging, results, outcome>>

(* An agent with a thread only starts it; the others stop.                 *)
StopAgent ==
  /\ pc = "stop" /\ at <= Len(children)
  /\ IF children[at] \in Threaded
     THEN thread' = [thread EXCEPT ![children[at]] = "running"] /\ UNCHANGED tracing
     ELSE tracing' = tracing \ {children[at]} /\ UNCHANGED thread
  /\ NextAgent(<<children[at]>>)
  /\ UNCHANGED <<pc, inProgress, children, late, markers, log, logging, results, outcome>>

StopTimesOut ==
  /\ Slow
  /\ pc = "stop" /\ at <= Len(children)
  /\ late' = late \cup {<<children[at], "stop">>}
  /\ NextAgent(<<>>)
  /\ UNCHANGED <<pc, inProgress, children, tracing, thread, markers, log, logging, results, outcome>>

StopRaises ==
  /\ Raising
  /\ pc = "stop" /\ at <= Len(children)
  /\ Raised
  /\ UNCHANGED <<inProgress, children, device, log, logging, results>>

(* The controller's own agent is stopped last.  Agents that were not       *)
(* stopped are asked for nothing.                                          *)
Stopped ==
  /\ Loop("stop", Len(children), "collect")
  /\ logging' = FALSE
  /\ children' = passed
  /\ UNCHANGED <<inProgress, device, log, results, outcome>>

StopRefused ==
  /\ Refusing
  /\ pc = "stop" /\ at > Len(children)
  /\ pc' = "idle" /\ at' = 1 /\ passed' = <<>> /\ outcome' = "not stopped"
  /\ UNCHANGED <<inProgress, children, device, log, logging, results>>

----------------------------------------------------------------------------

(* The collecting threads: the trace is read, and stopped by it.           *)
ThreadEnds(a) ==
  /\ thread[a] = "running"
  /\ thread' = [thread EXCEPT ![a] = "done"]
  /\ tracing' = tracing \ {a}
  /\ UNCHANGED <<pc, at, inProgress, children, passed, late, markers, log, logging, results, outcome>>

ThreadFails(a) ==
  /\ Raising
  /\ thread[a] = "running"
  /\ thread' = [thread EXCEPT ![a] = "failed"]
  /\ tracing' \in {tracing, tracing \ {a}}
  /\ UNCHANGED <<pc, at, inProgress, children, passed, late, markers, log, logging, results, outcome>>

(* GetResults(): the thread is joined; what it has left is the result.     *)
Collect ==
  /\ pc = "collect" /\ at <= Len(children)
  /\ children[at] \in Threaded => thread[children[at]] \in {"done", "failed"}
  /\ results' = results \cup {[agent |-> children[at],
                  data |-> children[at] \in Threaded => thread[children[at]] = "done"]}
  /\ NextAgent(<<>>)
  /\ UNCHANGED <<pc, inProgress, children, device, log, logging, outcome>>

CollectTimesOut ==
  /\ Slow
  /\ pc = "collect" /\ at <= Len(children)
  /\ NextAgent(<<>>)
  /\ UNCHANGED <<pc, inProgress, children, device, log, logging, results, outcome>>

Collected ==
  /\ Loop("collect", Len(children), "own")
  /\ UNCHANGED <<inProgress, children, device, log, logging, results, outcome>>

(* The controller's own agent gives its log last.                          *)
CollectOwn ==
  /\ pc = "own"
  /\ pc' = "idle" /\ outcome' = "results"
  /\ \/ results' = results \cup {[agent |-> "controller", data |-> TRUE]}
     \/ Slow /\ UNCHANGED results
  /\ UNCHANGED <<at, inProgress, children, passed, device, log, logging>>

(* An exception of a GetResults() goes through StopTracing(), and what the *)
(* others have given is lost with it.                                      *)
CollectRaises ==
  /\ Raising
  /\ pc = "own" \/ (pc = "collect" /\ at <= Len(children))
  /\ Raised
  /\ results' = {}
  /\ UNCHANGED <<inProgress, children, device, log, logging>>

Next ==
  \/ StartTracing
  \/ StartRefused
  \/ StartAgent
  \/ StartTimesOut
  \/ StartRaises
  \/ Started
  \/ \E a \in Agents, op \in {"start", "stop"} : Late(a, op)
  \/ \E a \in Agents, op \in {"start", "stop"} : LateDies(a, op)
  \/ StopTracing
  \/ Sync
  \/ SyncRaises
  \/ SyncHangs
  \/ Synced
  \/ StopAgent
  \/ StopTimesOut
  \/ StopRaises
  \/ Stopped
  \/ StopRefused
  \/ \E a \in Agents : ThreadEnds(a)
  \/ \E a \in Agents : ThreadFails(a)
  \/ Collect
  \/ CollectTimesOut
  \/ Collected
  \/ CollectOwn
  \/ CollectRaises

Spec == Init /\ [][Next]_vars

(* The controller goes on; where it waits for an agent, its timeout comes, *)
(* but for a marker, whose shell may hang.  Nothing is assumed of the      *)
(* agents' threads.                                                        *)
Controller ==
  \/ StartAgent \/ StartTimesOut \/ StartRaises \/ Started
  \/ Sync \/ SyncRaises \/ SyncHangs \/ Synced
  \/ StopAgent \/ StopTimesOut \/ StopRaises \/ Stopped
  \/ Collect \/ CollectTimesOut \/ Collected \/ CollectOwn \/ CollectRaises

FairSpec == Spec /\ WF_vars(Controller)

----------------------------------------------------------------------------

TypeOK ==
  /\ children = NoAgents \/ ToSet(children) \subseteq Agents
  /\ ToSet(passed) \subseteq Agents
  /\ at \in 1..(Len(Order) + 1)
  /\ tracing \subseteq Agents /\ log \subseteq Syncs
  /\ marked \subseteq Syncs /\ unwritten \subseteq Syncs
  /\ late \subseteq Agents \X {"start", "stop"}
  /\ thread \in [Agents -> {"none", "running", "done", "failed"}]
  /\ results \subseteq [agent : Agents \cup {"controller"}, data : BOOLEAN]
  /\ logging => inProgress \/ pc # "idle" \/ outcome \in {"raised", "not stopped"}

(* The traces can be put on one clock, as far as the device has obeyed: of *)
(* a trace that can take a marker the controller has recorded one, and the *)
(* trace has it unless the command that writes it has failed, which nobody *)
(* looks at; after a marker that raised or hung nothing is collected       *)
(* (StopTracing()).                                                        *)
Synchronised ==
  /\ \A r \in results : r.data /\ r.agent \in Syncs => r.agent \in log \cap (marked \cup unwritten)
  /\ results # {} => \A i \in DOMAIN children : children[i] \in Syncs => children[i] \in log

(* A result is one of an agent that has been stopped: no trace is read     *)
(* while it is recorded (GetResults(): "Call only after StopAgentTracing   *)
(* is done").                                                              *)
StoppedFirst ==
  \A r \in results : r.data => r.agent \notin tracing

(* When no call times out and no thread fails, nothing is left on.         *)
NothingLeftOn ==
  outcome = "results" /\ (\A a \in Agents : thread[a] # "failed") => tracing = {}

(* StartTracing() or StopTracing() runs, and no marker hangs: though an    *)
(* agent hang when it is started, stopped or collected from, it ends.      *)
CallRuns == pc \notin {"idle", "running", "hung"}

----------------------------------------------------------------------------
(***************************************************************************)
(* AtraceProcessDumpAgent and atrace_helper, the program it runs on the    *)
(* device: the helper goes into the background, writes to a temporary      *)
(* file, and on SIGTERM writes the end of it and gives it its name; the    *)
(* agent sends the signal, looks for the file, reads and removes it.       *)
(* Sessions of the agent follow each other on one device.                  *)
(***************************************************************************)

CONSTANTS
  MaxSessions,   \* bound: sessions
  Settled,       \* TRUE: a session lasts until its helper has begun
  Patient        \* TRUE: a session begins when no helper is left

ProcessDumpAssumption ==
  /\ MaxSessions \in Nat
  /\ Settled \in BOOLEAN /\ Patient \in BOOLEAN

VARIABLES
  session,       \* the session, counted from 1
  dumpPc,        \* where the agent is
  helper,        \* helper[n]: where the helper of session n is
  tmp, out,      \* the file that each of the two names stands for, or 0
  opened,        \* opened[n]: the file that helper n writes to
  writers,       \* writers[f]: the helpers whose text is in file f
  finished,      \* finished[f]: those that have written the end of it
  dump           \* the text the agent has read: of whom, and how much

files == <<tmp, out, opened, writers, finished>>
dumpVars == <<session, dumpPc, helper, files, dump>>

Sessions == 1..MaxSessions
NoDump == [of |-> {}, whole |-> {}]
Alive(n) == helper[n] \notin {"none", "ended"}

DumpTypeOK ==
  /\ session \in 0..MaxSessions
  /\ dumpPc \in {"idle", "traces", "killed", "tested", "read", "removed", "notStopped", "raised"}
  /\ helper \in [Sessions -> {"none", "main", "handles", "runs", "stops", "wrote", "ended"}]
  /\ tmp \in 0..MaxSessions /\ out \in 0..MaxSessions
  /\ opened \in [Sessions -> 0..MaxSessions]
  /\ \A f \in Sessions : finished[f] \subseteq Sessions /\ writers[f] \subseteq Sessions
  /\ dump.of \subseteq Sessions /\ dump.whole \subseteq dump.of
  /\ (dumpPc \in {"read", "removed"}) => dump # NoDump

DumpInit ==
  /\ session = 0 /\ dumpPc = "idle"
  /\ helper = [n \in Sessions |-> "none"]
  /\ tmp = 0 /\ out = 0
  /\ opened = [n \in Sessions |-> 0]
  /\ writers = [f \in Sessions |-> {}]
  /\ finished = [f \in Sessions |-> {}]
  /\ dump = NoDump

----------------------------------------------------------------------------

(* The helper.                                                             *)
(***************************************************************************)
(* main(), before daemon(): the dump of an earlier session is unlinked,    *)
(* and the temporary file opened for writing, which empties the one that   *)
(* another helper may still be writing.                                    *)
OpenFiles(n) ==
  LET f == IF tmp = 0 THEN n ELSE tmp IN
  /\ out' = 0
  /\ tmp' = f
  /\ opened' = [opened EXCEPT ![n] = f]
  /\ writers' = [writers EXCEPT ![f] = {}]
  /\ finished' = [finished EXCEPT ![f] = {}]

(* signal(SIGTERM, on_exit).                                               *)
InstallHandler(n) ==
  /\ helper[n] = "main"
  /\ helper' = [helper EXCEPT ![n] = "handles"]
  /\ UNCHANGED <<session, dumpPc, files, dump>>

(* RunAndPrintJson(): the first text, and snapshot_timer_->Start(), which  *)
(* forgets a Stop() before it.                                             *)
StartTimer(n) ==
  /\ helper[n] = "handles"
  /\ helper' = [helper EXCEPT ![n] = "runs"]
  /\ writers' = [writers EXCEPT ![opened[n]] = @ \cup {n}]
  /\ UNCHANGED <<session, dumpPc, tmp, out, opened, finished, dump>>

(* Wait() finds the timer closed: the end of the text.                     *)
Finish(n) ==
  /\ helper[n] = "stops"
  /\ helper' = [helper EXCEPT ![n] = "wrote"]
  /\ writers' = [writers EXCEPT ![opened[n]] = @ \cup {n}]
  /\ finished' = [finished EXCEPT ![opened[n]] = @ \cup {n}]
  /\ UNCHANGED <<session, dumpPc, tmp, out, opened, dump>>

(* rename(): whatever file has the temporary name now, if any has.         *)
Rename(n) ==
  /\ helper[n] = "wrote"
  /\ helper' = [helper EXCEPT ![n] = "ended"]
  /\ out' = IF tmp = 0 THEN out ELSE tmp
  /\ tmp' = 0
  /\ UNCHANGED <<session, dumpPc, opened, writers, finished, dump>>

(* The system may end it at any time; the temporary file stays.            *)
Dies(n) ==
  /\ Alive(n)
  /\ helper' = [helper EXCEPT ![n] = "ended"]
  /\ UNCHANGED <<session, dumpPc, files, dump>>

(* What SIGTERM does: it ends a helper that has no handler yet; on_exit()  *)
(* closes the timer, of which there may be none yet.                       *)
Signalled(stage) ==
  CASE stage = "main" -> "ended"
    [] stage = "runs" -> "stops"
    [] OTHER -> stage

----------------------------------------------------------------------------

(* The agent.                                                              *)
(***************************************************************************)
(* StartAgentTracing(): the shell command returns when the helper has gone *)
(* into the background.                                                    *)
StartAgentTracing ==
  /\ dumpPc \in {"idle", "removed", "notStopped", "raised"}
  /\ session < MaxSessions
  /\ Patient => \A n \in Sessions : ~Alive(n)
  /\ session' = session + 1
  /\ helper' = [helper EXCEPT ![session + 1] = "main"]
  /\ OpenFiles(session + 1)
  /\ dumpPc' = "traces"
  /\ dump' = NoDump

(* StopAgentTracing(): kill -TERM `pidof atrace_helper`, an error when     *)
(* there is none.                                                          *)
Kill ==
  /\ dumpPc = "traces"
  /\ Settled => helper[session] \notin {"main", "handles"}
  /\ dumpPc' = IF \A n \in Sessions : ~Alive(n) THEN "raised" ELSE "killed"
  /\ helper' = [n \in Sessions |-> Signalled(helper[n])]
  /\ UNCHANGED <<session, files, dump>>

(* test -f, at once.                                                       *)
TestFile ==
  /\ dumpPc = "killed"
  /\ dumpPc' = IF out = 0 THEN "notStopped" ELSE "tested"
  /\ UNCHANGED <<session, helper, files, dump>>

(* ReadFile(), of whatever has the name by now; a command that fails is    *)
(* taken for a full device, as is a missing file.                          *)
ReadFile ==
  /\ dumpPc = "tested"
  /\ \/ /\ dump' = [of |-> writers[out], whole |-> finished[out]]
        /\ dumpPc' = "read"
     \/ dumpPc' = "notStopped" /\ UNCHANGED dump
  /\ UNCHANGED <<session, helper, files>>

RemoveFile ==
  /\ dumpPc = "read"
  /\ dumpPc' = "removed"
  /\ out' = 0
  /\ UNCHANGED <<session, helper, tmp, opened, writers, finished, dump>>

Helper(n) == InstallHandler(n) \/ StartTimer(n) \/ Finish(n) \/ Rename(n)
Agent == StartAgentTracing \/ Kill \/ TestFile \/ ReadFile \/ RemoveFile

DumpNext == Agent \/ \E n \in Sessions : Helper(n) \/ Dies(n)

DumpSpec == DumpInit /\ [][DumpNext]_dumpVars

----------------------------------------------------------------------------

(* What the agent has read is the whole dump of this session, and nothing  *)
(* of another's.                                                           *)
WholeDump ==
  dumpPc \in {"read", "removed"} => dump = [of |-> {session}, whole |-> {session}]

----------------------------------------------------------------------------
(***************************************************************************)
(* systrace's FtraceAgent: tracing of the host's own kernel through the    *)
(* files of debugfs, one write after another, each of which may fail.  A   *)
(* category stands for events that it needs and events it takes if it can  *)
(* write to their files.                                                   *)
(***************************************************************************)

CONSTANTS
  Categories,    \* the names of all_categories
  Req, Opt,      \* the events of a category
  Events,
  Sched,         \* the category that is taken when none is given
  AsString,      \* TRUE: the categories come from --ftrace-categories
  Failing        \* TRUE: a write may fail that was allowed

FtraceAssumption ==
  /\ Sched \in Categories /\ "not stored" \notin Categories
  /\ IsFiniteSet(Events)
  /\ Req \in [Categories -> SUBSET Events] /\ Opt \in [Categories -> SUBSET Events]
  /\ {AsString, Failing} \subseteq BOOLEAN

VARIABLES
  writable,      \* the events whose files may be written
  given,         \* the categories the user named
  ftracePc,
  todo,          \* the events still to be written to, in order
  categories,    \* _categories
  enabled,       \* the events that are enabled in the kernel
  tracingOn,     \* tracing_on
  bufferSize,    \* buffer_size_kb: what it was, "big" or "1"
  trace,         \* when the events in the kernel's trace happened
  result

kernel == <<enabled, tracingOn, bufferSize, trace>>
ftraceVars == <<writable, given, ftracePc, todo, categories, kernel, result>>

NotStored == {"not stored"}

FtraceTypeOK ==
  /\ writable \subseteq Events /\ given \subseteq Categories
  /\ ftracePc \in {"idle", "enables", "enabled", "cleared", "traces", "disables", "stopped",
                   "collected", "failed"}
  /\ ToSet(todo) \subseteq Events
  /\ categories \subseteq Categories \/ categories = NotStored
  /\ (ftracePc \in {"traces", "disables", "stopped"}) => categories # NotStored
  /\ enabled \subseteq Events
  /\ tracingOn \in BOOLEAN
  /\ bufferSize \in {"was", "big", "1"}
  /\ trace \subseteq {"before", "during"} /\ result \subseteq {"before", "during"}

FtraceInit ==
  /\ writable \in SUBSET Events
  /\ given \in SUBSET Categories
  /\ ftracePc = "idle"
  /\ todo = <<>>
  /\ categories = NotStored
  /\ enabled = {}
  /\ tracingOn \in BOOLEAN
  /\ bufferSize = "was"
  /\ trace \in SUBSET {"before"}
  /\ result = {}

----------------------------------------------------------------------------

IsCategoryAvailable(c) == c \in Categories /\ Req[c] \subseteq writable

(* _fix_categories(): without a category, sched; of those that were given, *)
(* the ones that are available.  What the option gives is one string, and  *)
(* its members are characters, of which none is a category.                *)
FixCategories ==
  {c \in IF given = {} THEN {Sched} ELSE IF AsString THEN {} ELSE given : IsCategoryAvailable(c)}

(* _category_enable_paths(): asked again when they are disabled.           *)
Paths(cs) == SetToSeq(UNION {Req[c] \cup (Opt[c] \cap writable) : c \in cs})

Fails == Failing /\ ftracePc' = "failed" /\ UNCHANGED <<writable, given, todo, categories, kernel, result>>

(* StartAgentTracing(): the buffer's size, the clock, no tracer, no        *)
(* overwriting; then the categories.                                       *)
FtraceStartAgentTracing ==
  /\ ftracePc = "idle"
  /\ \/ /\ ftracePc' = "enables"
        /\ bufferSize' = "big"
        /\ todo' = Paths(FixCategories)
        /\ UNCHANGED <<writable, given, categories, enabled, tracingOn, trace, result>>
     \/ Fails

CategoryEnable ==
  /\ ftracePc = "enables" /\ todo # <<>>
  /\ \/ /\ enabled' = enabled \cup {Head(todo)}
        /\ todo' = Tail(todo)
        /\ UNCHANGED <<writable, given, ftracePc, categories, tracingOn, bufferSize, trace, result>>
     \/ Fails

(* The list is stored for StopAgentTracing() when all were enabled.        *)
StoreCategories ==
  /\ ftracePc = "enables" /\ todo = <<>>
  /\ categories' = FixCategories
  /\ ftracePc' = "enabled"
  /\ UNCHANGED <<writable, given, todo, kernel, result>>

(* trace is written to, which empties it.                                  *)
Clear ==
  /\ ftracePc = "enabled"
  /\ \/ /\ trace' = {}
        /\ ftracePc' = "cleared"
        /\ UNCHANGED <<writable, given, todo, categories, enabled, tracingOn, bufferSize, result>>
     \/ Fails

TraceOn ==
  /\ ftracePc = "cleared"
  /\ \/ /\ tracingOn' = TRUE
        /\ ftracePc' = "traces"
        /\ UNCHANGED <<writable, given, todo, categories, enabled, bufferSize, trace, result>>
     \/ Fails

(* StopAgentTracing(): tracing_on, then the events.                        *)
StopAgentTracing ==
  /\ ftracePc = "traces"
  /\ \/ /\ tracingOn' = FALSE
        /\ todo' = Paths(categories)
        /\ ftracePc' = "disables"
        /\ UNCHANGED <<writable, given, categories, enabled, bufferSize, trace, result>>
     \/ Fails

CategoryDisable ==
  /\ ftracePc = "disables"
  /\ \/ /\ IF todo = <<>>
           THEN ftracePc' = "stopped" /\ UNCHANGED <<todo, enabled>>
           ELSE /\ enabled' = enabled \ {Head(todo)}
                /\ todo' = Tail(todo)
                /\ UNCHANGED ftracePc
        /\ UNCHANGED <<writable, given, categories, tracingOn, bufferSize, trace, result>>
     \/ todo # <<>> /\ Fails

(* GetResults(): the trace is read and the buffer made as small as can be. *)
GetResults ==
  /\ ftracePc = "stopped"
  /\ result' = trace
  /\ bufferSize' = "1"
  /\ ftracePc' = "collected"
  /\ UNCHANGED <<writable, given, todo, categories, enabled, tracingOn, trace>>

(* The kernel records while tracing is on, whoever turned it on.           *)
Records ==
  /\ tracingOn
  /\ ftracePc # "idle" => enabled # {}
  /\ trace' = trace \cup {IF ftracePc \in {"idle", "enables", "enabled"} THEN "before" ELSE "during"}
  /\ UNCHANGED <<writable, given, ftracePc, todo, categories, enabled, tracingOn, bufferSize, result>>

FtraceNext ==
  \/ FtraceStartAgentTracing \/ CategoryEnable \/ StoreCategories \/ Clear \/ TraceOn
  \/ StopAgentTracing \/ CategoryDisable \/ GetResults \/ Records

FtraceSpec == FtraceInit /\ [][FtraceNext]_ftraceVars

----------------------------------------------------------------------------

(* When a trace has been collected the kernel is not left tracing: every   *)
(* event the agent enabled, needed or optional, is disabled.               *)
LeftAsItWas == ftracePc \in {"stopped", "collected"} => enabled = {} /\ ~tracingOn

(* What is collected happened since the start, even when somebody had left *)
(* tracing on.                                                             *)
FreshTrace == "before" \notin result
==============================================================================
