------------------------------ MODULE TraceLog -------------------------------
(***************************************************************************)
(* The log of py_trace_event: processes that buffer their events and       *)
(* append them to one file, forks that inherit the buffer, the lock and    *)
(* the descriptor, and the spans that the decorators record.               *)
(*                                                                         *)
(* Every function of log.py runs under the lock of its module; a fork      *)
(* copies that lock as it is.  The file is locked with flock(), which      *)
(* excludes descriptors that were opened apart, not the two ends of a      *)
(* descriptor that a fork has shared.                                      *)
(***************************************************************************)
EXTENDS Naturals, Sequences, SequencesExt, FiniteSets

CONSTANTS Procs, Roots, Threads,       \* Roots are started, others are forked
          Main,                        \* the thread that a fork leaves
          Kinds,                       \* of forks: "os", "mp"
          Styles,                      \* of spans: "trace", "traced"
          MaxEvents, MaxToggles, MaxKills

Assumption == Roots \subseteq Procs /\ Main \in Threads /\ "none" \notin Procs

Actors == Procs \X Threads
NoFile == "none"

VARIABLES file,                        \* what has been written, token by token
          flocked,                     \* the opening that holds the flock
          status, kind, allowed,       \* of each process
          _enabled, _cur_events, noted, atexit, logOpened, mutex,
          logPc, closing, span,        \* of each thread
          counts, toggles, kills

perProcess == <<status, kind, allowed, _enabled, _cur_events, noted, atexit, logOpened, mutex>>
logVars == <<file, flocked, perProcess, logPc, closing, span, counts, toggles, kills>>

LogInit ==
  /\ file = <<>> /\ flocked = NoFile
  /\ status = [p \in Procs |-> IF p \in Roots THEN "run" ELSE "unborn"]
  /\ kind = [p \in Procs |-> "root"] /\ allowed = [p \in Procs |-> TRUE]
  /\ _enabled = [p \in Procs |-> FALSE] /\ _cur_events = [p \in Procs |-> <<>>]
  /\ noted = [p \in Procs |-> FALSE] /\ atexit = [p \in Procs |-> FALSE]
  /\ logOpened = [p \in Procs |-> NoFile] /\ mutex = [p \in Procs |-> "free"]
  /\ logPc = [a \in Actors |-> "idle"] /\ closing = [a \in Actors |-> FALSE]
  /\ span = [a \in Actors |-> "none"]
  /\ counts = [a \in Actors |-> 0] /\ toggles = 0 /\ kills = 0

LogAlive(a) == status[a[1]] = "run" /\ (a[1] \in Roots \/ a[2] = Main)
Idle(a) == LogAlive(a) /\ logPc[a] = "idle"
Free(a) == Idle(a) /\ mutex[a[1]] = "free"
Calls(a) == Free(a) /\ span[a] # "begin"

Event(e) == [t |-> "event", e |-> e]
Comma == [t |-> "comma", e |-> <<>>]
Bracket == [t |-> "bracket", e |-> <<>>]

(* The events of a buffer, written at once with commas between them.       *)
Joined(buf) ==
  [i \in 1..(IF buf = <<>> THEN 0 ELSE 2 * Len(buf) - 1) |->
     IF i % 2 = 1 THEN Event(buf[(i + 1) \div 2]) ELSE Comma]

----------------------------------------------------------------------------

(* trace_enable(): the flag is set, the file opened, and begun by whoever  *)
(* finds it empty.                                                         *)
Enable(a) ==
  LET p == a[1] IN
  /\ Calls(a) /\ ~_enabled[p] /\ allowed[p] /\ toggles < MaxToggles
  /\ toggles' = toggles + 1
  /\ _enabled' = [_enabled EXCEPT ![p] = TRUE]
  /\ logOpened' = [logOpened EXCEPT ![p] = p]
  /\ mutex' = [mutex EXCEPT ![p] = "held"] /\ logPc' = [logPc EXCEPT ![a] = "begin"]
  /\ UNCHANGED <<file, flocked, status, kind, allowed, _cur_events, noted, atexit, closing, span, counts, kills>>

BeginFile(a) ==
  LET p == a[1] IN
  /\ logPc[a] = "begin" /\ flocked \in {NoFile, logOpened[p]}
  /\ flocked' = NoFile
  /\ file' = IF file = <<>> THEN <<Bracket>> ELSE file
  /\ mutex' = [mutex EXCEPT ![p] = "free"] /\ logPc' = [logPc EXCEPT ![a] = "idle"]
  /\ UNCHANGED <<status, kind, allowed, _enabled, _cur_events, noted, atexit, logOpened, closing, span, counts, toggles, kills>>

(* The first event of a process clears what it has inherited.              *)
add_trace_event(a, ph) ==
  LET p == a[1]
      before == IF noted[p] THEN _cur_events[p] ELSE <<>> IN
  /\ counts' = [counts EXCEPT ![a] = @ + 1]
  /\ noted' = [noted EXCEPT ![p] = TRUE] /\ atexit' = [atexit EXCEPT ![p] = TRUE]
  /\ _cur_events' = [_cur_events EXCEPT ![p] = Append(before, <<p, a[2], counts[a], ph>>)]

Ignored == UNCHANGED <<counts, noted, atexit, _cur_events>>

AddIfEnabled(a, ph) == IF _enabled[a[1]] THEN add_trace_event(a, ph) ELSE Ignored

Entered(a) ==
  /\ Idle(a) /\ span[a] = "none" /\ counts[a] + 1 < MaxEvents
  /\ span' = [span EXCEPT ![a] = "begin"]
  /\ UNCHANGED <<file, flocked, perProcess, logPc, closing, counts, toggles, kills>>

(* A span: trace() records its two ends as they come, @traced looks once,  *)
(* before the first, whether tracing is enabled.                           *)
logTrace(a) == "trace" \in Styles /\ Entered(a)
traced_function(a) == "traced" \in Styles /\ _enabled[a[1]] /\ Entered(a)

SpanBegins(a) ==
  /\ Free(a) /\ span[a] = "begin"
  /\ AddIfEnabled(a, "B")
  /\ span' = [span EXCEPT ![a] = "inside"]
  /\ UNCHANGED <<file, flocked, status, kind, allowed, _enabled, logOpened, mutex, logPc, closing, toggles, kills>>

SpanEnds(a) ==
  /\ Free(a) /\ span[a] = "inside"
  /\ AddIfEnabled(a, "E")
  /\ span' = [span EXCEPT ![a] = "none"]
  /\ UNCHANGED <<file, flocked, status, kind, allowed, _enabled, logOpened, mutex, logPc, closing, toggles, kills>>

----------------------------------------------------------------------------

Flushes(a, close) ==
  /\ mutex' = [mutex EXCEPT ![a[1]] = "held"] /\ logPc' = [logPc EXCEPT ![a] = "flock"]
  /\ closing' = [closing EXCEPT ![a] = close]

trace_flush(a) ==
  /\ Calls(a) /\ _enabled[a[1]] /\ Flushes(a, FALSE)
  /\ UNCHANGED <<file, flocked, status, kind, allowed, _enabled, _cur_events, noted, atexit, logOpened, span, counts, toggles, kills>>

trace_disable(a) ==
  /\ Calls(a) /\ allowed[a[1]] /\ _enabled[a[1]] /\ toggles < MaxToggles
  /\ toggles' = toggles + 1
  /\ _enabled' = [_enabled EXCEPT ![a[1]] = FALSE]
  /\ Flushes(a, TRUE)
  /\ UNCHANGED <<file, flocked, status, kind, allowed, _cur_events, noted, atexit, logOpened, span, counts, kills>>

(* Mutant: the file is not locked. *)
FlockNot(a) ==
  /\ logPc[a] = "flock"
  /\ logPc' = [logPc EXCEPT ![a] = IF _cur_events[a[1]] = <<>> THEN "unlock" ELSE "comma"]
  /\ UNCHANGED <<file, flocked, perProcess, closing, span, counts, toggles, kills>>

Flock(a) ==
  /\ logPc[a] = "flock" /\ flocked \in {NoFile, logOpened[a[1]]}
  /\ flocked' = logOpened[a[1]]
  /\ logPc' = [logPc EXCEPT ![a] = IF _cur_events[a[1]] = <<>> THEN "unlock" ELSE "comma"]
  /\ UNCHANGED <<file, perProcess, closing, span, counts, toggles, kills>>

WriteComma(a) ==
  /\ logPc[a] = "comma"
  /\ file' = Append(file, Comma) /\ logPc' = [logPc EXCEPT ![a] = "events"]
  /\ UNCHANGED <<flocked, perProcess, closing, span, counts, toggles, kills>>

WriteEvents(a) ==
  /\ logPc[a] = "events"
  /\ file' = file \o Joined(_cur_events[a[1]])
  /\ _cur_events' = [_cur_events EXCEPT ![a[1]] = <<>>]
  /\ logPc' = [logPc EXCEPT ![a] = "unlock"]
  /\ UNCHANGED <<flocked, status, kind, allowed, _enabled, noted, atexit, logOpened, mutex, closing, span, counts, toggles, kills>>

Unlock(a) ==
  LET p == a[1] IN
  /\ logPc[a] = "unlock"
  /\ flocked' = IF flocked = logOpened[p] THEN NoFile ELSE flocked
  /\ logOpened' = IF closing[a] THEN [logOpened EXCEPT ![p] = NoFile] ELSE logOpened
  /\ mutex' = [mutex EXCEPT ![p] = "free"] /\ logPc' = [logPc EXCEPT ![a] = "idle"]
  /\ status' = [status EXCEPT ![p] = IF @ = "ends" THEN "ended" ELSE @]
  /\ UNCHANGED <<file, kind, allowed, _enabled, _cur_events, noted, atexit, closing, span, counts, toggles, kills>>

----------------------------------------------------------------------------

(* A fork copies the state of the process, its lock as it is at the time.  *)
Fork(a, c, k) ==
  LET p == a[1]
      d == <<c, Main>> IN
  /\ Idle(a) /\ span[a] # "begin" /\ status[c] = "unborn"
  /\ status' = [status EXCEPT ![c] = "run"] /\ kind' = [kind EXCEPT ![c] = k]
  /\ allowed' = [allowed EXCEPT ![c] = allowed[p] /\ k # "mp"]
  /\ _enabled' = [_enabled EXCEPT ![c] = _enabled[p]]
  /\ _cur_events' = [_cur_events EXCEPT ![c] = _cur_events[p]]
  /\ atexit' = [atexit EXCEPT ![c] = atexit[p]] /\ logOpened' = [logOpened EXCEPT ![c] = logOpened[p]]
  /\ mutex' = [mutex EXCEPT ![c] = mutex[p]]
  /\ span' = [span EXCEPT ![d] = IF k = "os" THEN span[a] ELSE "none"]
  /\ UNCHANGED <<file, flocked, noted, logPc, closing, counts, toggles, kills>>

Quiet(p) == \A t \in Threads : logPc[<<p, t>>] = "idle" /\ (p \in Roots \/ t = Main => span[<<p, t>>] = "none")

(* A process of multiprocessing flushes and leaves by _exit(); any other   *)
(* disables tracing at its exit, if it, or who forked it, has registered   *)
(* that.                                                                   *)
Ends(p) ==
  LET a == <<p, Main>>
      looks == kind[p] = "mp" \/ (atexit[p] /\ allowed[p]) IN
  /\ status[p] = "run" /\ Quiet(p)
  /\ looks => mutex[p] = "free"
  /\ IF looks /\ _enabled[p]
     THEN status' = [status EXCEPT ![p] = "ends"] /\ Flushes(a, kind[p] # "mp")
     ELSE status' = [status EXCEPT ![p] = "ended"] /\ UNCHANGED <<mutex, logPc, closing>>
  /\ _enabled' = [_enabled EXCEPT ![p] = @ /\ kind[p] = "mp"]
  /\ UNCHANGED <<file, flocked, kind, allowed, _cur_events, noted, atexit, logOpened, span, counts, toggles, kills>>

(* terminate(): a process of multiprocessing is killed wherever it is; the *)
(* quarter of a second it was given is no bound.                           *)
Terminate(p) ==
  /\ kind[p] = "mp" /\ status[p] \in {"run", "ends"} /\ kills < MaxKills
  /\ kills' = kills + 1
  /\ status' = [status EXCEPT ![p] = "ended"]
  /\ logPc' = [logPc EXCEPT ![<<p, Main>>] = "idle"] /\ span' = [span EXCEPT ![<<p, Main>>] = "none"]
  /\ UNCHANGED <<file, flocked, kind, allowed, _enabled, _cur_events, noted, atexit, logOpened, mutex, closing, counts, toggles>>

Writing(a) == BeginFile(a) \/ WriteComma(a) \/ WriteEvents(a) \/ Unlock(a)
SpanSteps(a) == SpanBegins(a) \/ SpanEnds(a)

LogNext ==
  \/ \E a \in Actors : \/ Enable(a) \/ logTrace(a) \/ traced_function(a) \/ SpanSteps(a)
                       \/ trace_flush(a) \/ trace_disable(a) \/ Flock(a) \/ Writing(a)
                       \/ \E c \in Procs \ Roots, k \in Kinds : Fork(a, c, k)
  \/ \E p \in Procs : Ends(p) \/ Terminate(p)

LogSpec == LogInit /\ [][LogNext]_logVars

----------------------------------------------------------------------------

LogTypeOK ==
  /\ \A i \in DOMAIN file : file[i].t \in {"event", "comma", "bracket"}
  /\ flocked \in Procs \cup {NoFile}
  /\ \A p \in Procs : _enabled[p] => logOpened[p] # NoFile
  /\ \A a \in Actors : logPc[a] # "idle" => mutex[a[1]] = "held" /\ logOpened[a[1]] # NoFile

(* While nobody is writing, the file is a list that only lacks its last    *)
(* bracket, which ParsedTraceEvents adds: values and commas take turns.    *)
WellFormed ==
  (\A a \in Actors : logPc[a] # "events") =>
    \A i \in DOMAIN file :
      /\ file[i].t = "bracket" <=> i = 1
      /\ i > 1 => (file[i].t = "comma" <=> i % 2 = 0)
      /\ i = Len(file) => file[i].t # "comma"

(* No event is in the file twice. *)
EachOnce ==
  \A i, j \in DOMAIN file : file[i].t = "event" /\ file[i] = file[j] => i = j

(* A process that has added an event buffers only its own. *)
OwnOnly ==
  \A p \in Procs : noted[p] => \A i \in DOMAIN _cur_events[p] : _cur_events[p][i][1] = p

Written(e) == \E i \in DOMAIN file : file[i] = Event(e)
Buffered(e) == \E p \in Procs : \E i \in DOMAIN _cur_events[p] : _cur_events[p][i] = e

(* The end of a span is in the log only with its beginning. *)
EndHasBegin ==
  \A p \in Procs, t \in Threads, n \in 0..MaxEvents :
    LET known(e) == Written(e) \/ Buffered(e) IN
    known(<<p, t, n, "E">>) => n > 0 /\ known(<<p, t, n - 1, "B">>)
==============================================================================
