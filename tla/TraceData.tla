------------------------------ MODULE TraceData ------------------------------
(***************************************************************************)
(* What has been traced: the traces of several agents, the report made of  *)
(* them, and the text of an atrace. Each has variables, Init and Next of   *)
(* its own.                                                                *)
(***************************************************************************)
EXTENDS Naturals, Sequences, FiniteSets, SequencesExt

----------------------------------------------------------------------------
(***************************************************************************)
(* trace_data: the traces of several agents are put together by a          *)
(* TraceDataBuilder, sealed as TraceData, read, written as HTML and at     *)
(* last cleaned up.  A trace of the browser may be a TraceFileHandle: it   *)
(* is on disk until it is read, and whoever reads it takes the file away.  *)
(***************************************************************************)

CONSTANTS
  Handles,       \* TraceFileHandles
  Parts,         \* TraceDataParts, Chrome one of them
  Chrome, None,
  Unlisted,      \* the parts that ALL_TRACE_PARTS leaves out
  ClosedFirst,   \* the callers add handles that are closed
  MaxTraces, MaxFaults

Assumption == Chrome \in Parts /\ Unlisted \subseteq Parts /\ ClosedFirst \in BOOLEAN

VARIABLES
  file,      \* file[h]: "none", "open", "closed", "cleaned" of the handle
  whole,     \* the handles whose file holds JSON
  disk,      \* the handles whose backing file is on disk
  builder,   \* _raw_data of the builder, or None
  data,      \* _raw_data of the TraceData, or None
  temporary, \* files in the temporary directory of Serialize()
  pc, todo, result, faults

handle == <<file, whole, disk>>
call == <<pc, todo, result>>
vars == <<handle, builder, data, temporary, call, faults>>

TraceFileHandle == "none"              \* neither open nor a path
TraceDataBuilder == <<>>
SetFromBuilder(d) == data' = d

Trace(p, t) == [part |-> p, trace |-> t]

Init ==
  /\ file = [h \in Handles |-> TraceFileHandle] /\ whole \in SUBSET Handles /\ disk = {}
  /\ builder = TraceDataBuilder /\ data = None /\ temporary = {}
  /\ pc = "idle" /\ todo = <<>> /\ result = "none" /\ faults = 0

Held(traces) == IF traces = None THEN {} ELSE {traces[i].trace : i \in DOMAIN traces} \cap Handles

----------------------------------------------------------------------------

(* TraceFileHandle.                                                        *)
Open(h) ==
  /\ pc = "idle" /\ file[h] = "none"
  /\ file' = [file EXCEPT ![h] = "open"] /\ disk' = disk \cup {h}
  /\ UNCHANGED <<whole, builder, data, temporary, call, faults>>

Close(h) ==
  /\ pc = "idle" /\ file[h] = "open"
  /\ file' = [file EXCEPT ![h] = "closed"]
  /\ UNCHANGED <<whole, disk, builder, data, temporary, call, faults>>

(* Clean(): only a handle that is closed, and has its file, can be.        *)
CanClean(h) == file[h] = "closed"

----------------------------------------------------------------------------

(* AddTraceFor(): only the browser's part takes a handle.                  *)
AddTraceFor(p, t) ==
  /\ pc = "idle" /\ builder # None /\ Len(builder) < MaxTraces
  /\ t \in Handles => p = Chrome /\ t \notin Held(builder)
                      /\ file[t] \in (IF ClosedFirst THEN {"closed"} ELSE {"open", "closed"})
  /\ builder' = Append(builder, Trace(p, t))
  /\ UNCHANGED <<handle, data, temporary, call, faults>>

AsData ==
  /\ pc = "idle" /\ builder # None
  /\ SetFromBuilder(builder) /\ builder' = None
  /\ UNCHANGED <<handle, temporary, call, faults>>

HasTracesFor(p) == data # None /\ \E i \in DOMAIN data : data[i].part = p

----------------------------------------------------------------------------

(* GetTracesFor(): every handle of the part becomes what it holds, in the  *)
(* list itself, and its file is removed.                                   *)
GetTracesFor(p) ==
  /\ pc = "idle" /\ HasTracesFor(p)
  /\ pc' = "get" /\ result' = "none"
  /\ todo' = SelectSeq([i \in DOMAIN data |-> i], LAMBDA i : data[i].part = p /\ data[i].trace \in Handles)
  /\ UNCHANGED <<handle, builder, data, temporary, faults>>

Ends(r) == pc' = "idle" /\ todo' = <<>> /\ result' = r

(* Mutant: the file stays. *)
AsTraceDataKeeps ==
  /\ pc = "get" /\ todo # <<>>
  /\ data' = [data EXCEPT ![Head(todo)].trace = "json"] /\ todo' = Tail(todo)
  /\ UNCHANGED <<file, disk, whole, builder, temporary, pc, result, faults>>

AsTraceData ==
  /\ pc = "get" /\ todo # <<>>
  /\ LET h == data[Head(todo)].trace IN
     IF CanClean(h) /\ h \in whole
     THEN /\ file' = [file EXCEPT ![h] = "cleaned"] /\ disk' = disk \ {h}
          /\ data' = [data EXCEPT ![Head(todo)].trace = "json"] /\ todo' = Tail(todo)
          /\ UNCHANGED <<pc, result>>
     ELSE Ends("raised") /\ UNCHANGED <<file, disk, data>>
  /\ UNCHANGED <<whole, builder, temporary, faults>>

Got ==
  /\ pc = "get" /\ todo = <<>> /\ Ends("got")
  /\ UNCHANGED <<handle, builder, data, temporary, faults>>

----------------------------------------------------------------------------

(* CleanUpAllTraces(). *)
CleanUpAllTraces ==
  /\ pc = "idle" /\ data \notin {None, <<>>}
  /\ pc' = "clean" /\ result' = "none"
  /\ todo' = SelectSeq([i \in DOMAIN data |-> i], LAMBDA i : data[i].trace \in Handles)
  /\ UNCHANGED <<handle, builder, data, temporary, faults>>

Clean ==
  /\ pc = "clean" /\ todo # <<>>
  /\ LET h == data[Head(todo)].trace IN
     IF CanClean(h)
     THEN /\ file' = [file EXCEPT ![h] = "cleaned"] /\ disk' = disk \ {h}
          /\ todo' = Tail(todo) /\ UNCHANGED <<pc, result>>
     ELSE Ends("raised") /\ UNCHANGED <<file, disk>>
  /\ UNCHANGED <<whole, builder, data, temporary, faults>>

CleanedUp ==
  /\ pc = "clean" /\ todo = <<>>
  /\ data' = <<>> /\ Ends("cleaned")
  /\ UNCHANGED <<handle, builder, temporary, faults>>

----------------------------------------------------------------------------

(* Serialize(): what is not in a file yet is written to one in a temporary *)
(* directory, all files are given to trace2html, and the directory goes.   *)
Serialize ==
  /\ pc = "idle" /\ data \notin {None, <<>>}
  /\ pc' = "write" /\ todo' = [i \in DOMAIN data |-> i] /\ result' = "none"
  /\ UNCHANGED <<handle, builder, data, temporary, faults>>

GetFilePathForTrace ==
  /\ pc = "write" /\ todo # <<>>
  /\ LET t == data[Head(todo)].trace IN
     IF t \notin Handles
     THEN temporary' = temporary \cup {Head(todo)} /\ todo' = Tail(todo) /\ UNCHANGED <<pc, result>>
     ELSE IF CanClean(t) THEN todo' = Tail(todo) /\ UNCHANGED <<temporary, pc, result>>
     ELSE pc' = "failed" /\ todo' = <<>> /\ UNCHANGED <<temporary, result>>
  /\ UNCHANGED <<handle, builder, data, faults>>

(* A disk that is full, or trace2html, may fail.                           *)
SerializeFails ==
  /\ pc = "write" /\ faults < MaxFaults /\ faults' = faults + 1
  /\ pc' = "failed" /\ todo' = <<>>
  /\ UNCHANGED <<handle, builder, data, temporary, result>>

Serialized ==
  /\ \/ pc = "write" /\ todo = <<>> /\ Ends("written")
     \/ pc = "failed" /\ Ends("raised")
  /\ temporary' = {}
  /\ UNCHANGED <<handle, builder, data, faults>>

Next ==
  \/ \E h \in Handles : Open(h) \/ Close(h)
  \/ \E p \in Parts, t \in Handles \cup {"json"} : AddTraceFor(p, t)
  \/ AsData \/ \E p \in Parts : GetTracesFor(p)
  \/ AsTraceData \/ Got \/ CleanUpAllTraces \/ Clean \/ CleanedUp
  \/ Serialize \/ GetFilePathForTrace \/ SerializeFails \/ Serialized

Spec == Init /\ [][Next]_vars

----------------------------------------------------------------------------

(* The types of the variables. *)
TypeOK ==
  /\ file \in [Handles -> {"none", "open", "closed", "cleaned"}]
  /\ disk = {h \in Handles : file[h] \in {"open", "closed"}}
  /\ temporary # {} => pc \in {"write", "failed"}
  /\ pc \in {"idle", "get", "clean", "write", "failed"}

(* TraceData is what the builder held when it was sealed: nothing is added *)
(* to it, and a trace changes only by being read.                          *)
Sealed ==
  data # None => data' = <<>> \/ (Len(data') = Len(data) /\ \A i \in DOMAIN data :
       data'[i].part = data[i].part /\ (data'[i].trace # data[i].trace => data'[i].trace = "json"))

(* Whatever was read, written or raised before: what the data still hold a *)
(* handle to can be read, until it is all cleaned up.                      *)
StillThere == data # None /\ pc # "clean" /\ ClosedFirst => Held(data) \subseteq disk

(* A handle that was added to the data, and is not there any more, has     *)
(* left no file.                                                           *)
FilesGoWithTheirHandles ==
  data # None => \A h \in Held(data) \ Held(data') : h \notin disk'

----------------------------------------------------------------------------
(***************************************************************************)
(* output_generator and profiler._GetResults(): what becomes of the        *)
(* results of the agents: those that are JSON are merged, and all of them  *)
(* are written as HTML, as one JSON file, or as files in an archive.       *)
(***************************************************************************)

CONSTANTS
  Names,       \* source names of results
  Mapped,      \* those that _SYSTRACE_TO_TRACE_DATA_NAME_MAPPING has
  Repeated,    \* two agents may have one name
  Forms,       \* what a result may be: JSON, text, or nothing
  Keys,        \* keys of the JSON objects
  MaxResults

ReportAssumption == Mapped \subseteq Names /\ Forms \subseteq {"json", "text", "empty"} /\ Repeated \in BOOLEAN

Values == {"absent", "empty", "full"}
AResult == {[name |-> n, form |-> "json", has |-> c] : n \in Names, c \in [Keys -> Values]}
           \cup {[name |-> n, form |-> f, has |-> [k \in Keys |-> "absent"]] : n \in Names, f \in Forms \ {"json"}}

Inputs == {r \in UNION {[1..n -> AResult] : n \in 0..MaxResults} :
             Repeated \/ \A i, j \in DOMAIN r : r[i].name = r[j].name => i = j}

VARIABLES all_results, mode, reportPc, merged, others, output

reportVars == <<all_results, mode, reportPc, merged, others, output>>

(* systrace writes HTML or JSON; profile_chrome merges first, and writes   *)
(* HTML, or one file, compressed or not, or an archive.                    *)
ReportInit ==
  /\ all_results \in Inputs /\ mode \in {"systrace html", "systrace json", "html", "gzip", "plain"}
  /\ reportPc = "collected" /\ merged = <<>> /\ others = <<>> /\ output = <<>>

Indices == [i \in DOMAIN all_results |-> i]
Raises == reportPc' = "raised" /\ UNCHANGED <<all_results, mode, merged, others, output>>

----------------------------------------------------------------------------

(* MergeTraceResultsIfNeeded().                                            *)
Candidates == SelectSeq(Indices, LAMBDA i : all_results[i].form = "json")
HasName(n) == \E i \in ToSet(Candidates) : all_results[i].name = n

(* The value of a key comes from the first candidate, until a later one    *)
(* has the key and what is there is missing or empty.                      *)
Merged ==
  LET Put(m, i) == [k \in Keys |-> IF all_results[i].has[k] # "absent" /\ m[k][1] # "full"
                                   THEN <<all_results[i].has[k], i>> ELSE m[k]]
  IN FoldLeft(Put, [k \in Keys |-> <<"absent", 0>>], Candidates)

(* raw_data[0] of a result with nothing in it is an error.                 *)
MergeTraceResultsIfNeeded ==
  /\ reportPc = "collected" /\ mode \in {"html", "gzip", "plain"} /\ all_results # <<>>
  /\ IF Len(all_results) > 1 /\ \E i \in DOMAIN all_results : all_results[i].form = "empty" THEN Raises
     ELSE /\ IF Len(Candidates) <= 1 THEN merged' = <<>> /\ others' = Indices
             ELSE /\ merged' = Candidates
                  /\ others' = SelectSeq(Indices, LAMBDA i : ~HasName(all_results[i].name))
          /\ reportPc' = "merged" /\ UNCHANGED <<all_results, mode, output>>

NoResults ==
  /\ reportPc = "collected" /\ mode \in {"html", "gzip", "plain"} /\ all_results = <<>>
  /\ reportPc' = "done" /\ UNCHANGED <<all_results, mode, merged, others, output>>

Unmerged ==
  /\ reportPc = "collected" /\ mode \in {"systrace html", "systrace json"}
  /\ merged' = <<>> /\ others' = Indices /\ reportPc' = "merged"
  /\ UNCHANGED <<all_results, mode, output>>

----------------------------------------------------------------------------

(* What is written: the traces, each the set of the results it stands for. *)
Written(o) == output' = o /\ reportPc' = "done" /\ UNCHANGED <<all_results, mode, merged, others>>
Traces == (IF merged = <<>> THEN <<>> ELSE <<ToSet(merged)>>) \o [i \in DOMAIN others |-> {others[i]}]

(* Up to three results have a section of their own.                        *)
GenerateHTMLOutput ==
  /\ reportPc = "merged" /\ mode \in {"systrace html", "html"} /\ Len(Traces) <= 3
  /\ Written(Traces)

HasPart(n) == n \in Mapped

(* More are added to a TraceDataBuilder, by the part their name stands     *)
(* for: "merged-data" stands for none.                                     *)
NewGenerateHTMLOutput ==
  /\ reportPc = "merged" /\ mode \in {"systrace html", "html"} /\ Len(Traces) > 3
  /\ IF merged = <<>> /\ \A i \in DOMAIN all_results : HasPart(all_results[i].name)
     THEN Written(Traces) ELSE Raises

(* A dictionary by name. *)
GenerateJSONOutput ==
  /\ reportPc = "merged" /\ mode = "systrace json"
  /\ Written(SelectSeq(Traces, LAMBDA t : \A i \in t : \A j \in DOMAIN all_results :
                                            all_results[j].name = all_results[i].name => j <= i))

WriteFile ==
  /\ reportPc = "merged" /\ mode \in {"gzip", "plain"} /\ Len(Traces) = 1
  /\ Written(Traces)

ArchiveData ==
  /\ reportPc = "merged" /\ mode \in {"gzip", "plain"} /\ Len(Traces) > 1
  /\ Written(Traces)

ReportNext ==
  \/ MergeTraceResultsIfNeeded \/ NoResults \/ Unmerged
  \/ GenerateHTMLOutput \/ NewGenerateHTMLOutput \/ GenerateJSONOutput \/ WriteFile \/ ArchiveData

ReportSpec == ReportInit /\ [][ReportNext]_reportVars

----------------------------------------------------------------------------

(* What the steps may be at. *)
ReportTypeOK ==
  /\ reportPc \in {"collected", "merged", "done", "raised"}
  /\ ToSet(merged) \cap ToSet(others) = {} /\ Len(merged) # 1
  /\ \A i \in ToSet(merged) : all_results[i].form = "json"

(* Every result is in the file once, merged with others or for itself,     *)
(* whatever the way the file is written.                                   *)
EveryResultOnce ==
  reportPc = "done" => \A i \in DOMAIN all_results : Cardinality({t \in DOMAIN output : i \in output[t]}) = 1

(* A key of the merged object has the first value that is not empty, and   *)
(* it has every key that any of them had.                                  *)
FirstFullValue ==
  \A k \in Keys :
    LET full == {i \in ToSet(Candidates) : all_results[i].has[k] = "full"}
    IN /\ full # {} => \E i \in full : Merged[k] = <<"full", i>> /\ \A j \in full : i <= j
       /\ full = {} => (Merged[k][1] = "absent" <=> \A i \in ToSet(Candidates) : all_results[i].has[k] = "absent")

----------------------------------------------------------------------------
(***************************************************************************)
(* The trace of an AtraceAgent, from the kernel's buffers, one ring for    *)
(* each CPU, to the text that is handed on: the agent stops atrace and     *)
(* takes its output, asks the device which process each thread belongs to, *)
(* fills in the processes that the kernel did not know, and throws away    *)
(* what comes before the point where every buffer has begun.               *)
(***************************************************************************)

CONSTANTS
  Cpus,
  Tids, Tgids,
  BufferSize,    \* events that the ring of one CPU holds
  MaxEvents,     \* bound: events while the trace is on
  MaxChanges,    \* bound: threads that end or begin
  AtraceNone

AtraceTextAssumption ==
  /\ BufferSize \in Nat \ {0} /\ MaxEvents \in Nat /\ MaxChanges \in Nat
  /\ AtraceNone \notin Tgids

VARIABLES
  old,           \* the device is older than Marshmallow
  tracing,       \* tracing_on
  log,           \* every event while the trace was on
  ring,          \* ring[c]: the indices in log that CPU c still has
  owner,         \* owner[t]: the process of thread t, or None
  born,          \* born[t]: events there had been when t last began
  changes,
  atracePc,
  text,          \* the lines of the trace, without its header
  pid2_tgid      \* what extract_tgids() made of the dump of /proc

device == <<old, log, ring, owner, born, changes>>
atraceVars == <<device, tracing, atracePc, text, pid2_tgid>>

Events == [cpu : Cpus, tid : Tids, tgid : Tgids, shown : BOOLEAN]
Dropped(c) == {i \in DOMAIN log : log[i].cpu = c} \ ToSet(ring[c])
Marker == [event |-> 0, tgid |-> AtraceNone]

AtraceTypeOK ==
  /\ old \in BOOLEAN /\ tracing \in BOOLEAN
  /\ log \in Seq(Events)
  /\ \A c \in Cpus : ring[c] \in Seq(DOMAIN log) /\ Len(ring[c]) <= BufferSize
  /\ owner \in [Tids -> Tgids \cup {AtraceNone}]
  /\ born \in [Tids -> 0..MaxEvents]
  /\ changes \in 0..MaxChanges
  /\ atracePc \in {"idle", "started", "stopped", "read", "dumped", "fixed", "died"}
  /\ text \in Seq([event : 0..Len(log), tgid : Tgids \cup {AtraceNone}])
  /\ pid2_tgid \in [Tids -> Tgids \cup {AtraceNone}]

AtraceInit ==
  /\ old \in BOOLEAN
  /\ tracing = FALSE
  /\ log = <<>>
  /\ ring = [c \in Cpus |-> <<>>]
  /\ owner \in [Tids -> Tgids]
  /\ born = [t \in Tids |-> 0]
  /\ changes = 0
  /\ atracePc = "idle"
  /\ text = <<>>
  /\ pid2_tgid = [t \in Tids |-> AtraceNone]

----------------------------------------------------------------------------

(* The device.                                                             *)
(***************************************************************************)
(* An event of thread t on CPU c; a full ring drops its oldest.  The       *)
(* kernel knows the process of a thread or it does not.                    *)
Event(c, t, shown) ==
  /\ tracing /\ Len(log) < MaxEvents /\ atracePc = "started"
  /\ owner[t] # AtraceNone
  /\ log' = Append(log, [cpu |-> c, tid |-> t, tgid |-> owner[t], shown |-> shown])
  /\ ring' = [ring EXCEPT ![c] = Append(IF Len(@) = BufferSize THEN Tail(@) ELSE @, Len(log) + 1)]
  /\ UNCHANGED <<old, owner, born, changes, tracing, atracePc, text, pid2_tgid>>

AtraceEnds(t) ==
  /\ changes < MaxChanges /\ owner[t] # AtraceNone
  /\ owner' = [owner EXCEPT ![t] = AtraceNone]
  /\ changes' = changes + 1
  /\ UNCHANGED <<old, log, ring, born, tracing, atracePc, text, pid2_tgid>>

(* The number of a thread that has ended is given to another.              *)
Begins(t, g) ==
  /\ changes < MaxChanges /\ owner[t] = AtraceNone
  /\ owner' = [owner EXCEPT ![t] = g]
  /\ born' = [born EXCEPT ![t] = Len(log)]
  /\ changes' = changes + 1
  /\ UNCHANGED <<old, log, ring, tracing, atracePc, text, pid2_tgid>>

----------------------------------------------------------------------------

(* The agent.                                                              *)
(***************************************************************************)
(* StartAgentTracing(): atrace --async_start with the categories that the  *)
(* device has.                                                             *)
StartAgentTracing ==
  /\ atracePc = "idle"
  /\ atracePc' = "started"
  /\ tracing' = TRUE
  /\ UNCHANGED <<device, text, pid2_tgid>>

(* The lines of atrace: the events that the rings have, by time.  When a   *)
(* ring has dropped any, the kernel writes a marker before the first event *)
(* of a CPU: of those whose ring has dropped some, but for the CPU of the  *)
(* very first event, and perhaps of others.                                *)
Kept == UNION {ToSet(ring[c]) : c \in Cpus}
FirstOf(c) == CHOOSE i \in ToSet(ring[c]) : \A j \in ToSet(ring[c]) : i <= j
First == CHOOSE i \in Kept : \A j \in Kept : i <= j
MayMark ==
  {m \in SUBSET {c \in Cpus : ring[c] # <<>>} :
     IF \A c \in Cpus : Dropped(c) = {} THEN m = {}
     ELSE \A c \in Cpus : Dropped(c) # {} => c \in m \/ FirstOf(c) = First}
Line(i) == [event |-> i, tgid |-> IF log[i].shown THEN log[i].tgid ELSE AtraceNone]
Lines(marked) ==
  FlattenSeq([k \in 1..Cardinality(Kept) |->
    LET i == SetToSortSeq(Kept, <)[k] IN
      IF \E c \in marked : FirstOf(c) = i THEN <<Marker, Line(i)>> ELSE <<Line(i)>>])

(* _stop_collect_trace(): atrace --async_stop; an old device may not stop. *)
AsyncStop(marked, stops) ==
  /\ atracePc = "started"
  /\ stops \/ old
  /\ text' = Lines(marked)
  /\ tracing' = ~stops
  /\ atracePc' = "stopped"
  /\ UNCHANGED <<device, pid2_tgid>>

(* An old device is asked whether it still traces, and made to stop by a   *)
(* trace of no length.                                                     *)
EnsureStopped ==
  /\ atracePc = "stopped"
  /\ tracing' = (IF old THEN FALSE ELSE tracing)
  /\ atracePc' = "read"
  /\ UNCHANGED <<device, text, pid2_tgid>>

(* No TRACE: in the output, or no line after it: the thread that collects  *)
(* ends with an IOError, or with the SystemExit of sys.exit().             *)
NoData ==
  /\ atracePc = "read"
  /\ atracePc' = "died"
  /\ UNCHANGED <<device, tracing, text, pid2_tgid>>

(* /proc is listed now, whenever the events were: each thread under the    *)
(* process it belongs to.                                                  *)
ExtractTgids ==
  /\ atracePc = "read" /\ text # <<>>
  /\ pid2_tgid' = owner
  /\ atracePc' = "dumped"
  /\ UNCHANGED <<device, tracing, text>>

(* fix_missing_tgids(): a process in place of (-----), where the dump has  *)
(* the thread.                                                             *)
FixMissingTgids(lines) ==
  [k \in DOMAIN lines |->
     IF lines[k].event # 0 /\ lines[k].tgid = AtraceNone
     THEN [lines[k] EXCEPT !.tgid = pid2_tgid[log[lines[k].event].tid]]
     ELSE lines[k]]

(* fix_circular_traces(): the lines from the last marker, or all.  (The    *)
(* header ends at the first line that does not begin with #: a marker      *)
(* right below it stays with the header.)                                  *)
FixCircularTraces(lines) ==
  LET i == SelectLastInSeq(lines, LAMBDA l : l = Marker)
  IN  IF i = 0 THEN lines ELSE SubSeq(lines, i, Len(lines))

Preprocess ==
  /\ atracePc = "dumped"
  /\ text' = FixCircularTraces(FixMissingTgids(text))
  /\ atracePc' = "fixed"
  /\ UNCHANGED <<device, tracing, pid2_tgid>>

AtraceNext ==
  \/ \E c \in Cpus, t \in Tids, shown \in BOOLEAN : Event(c, t, shown)
  \/ \E t \in Tids : AtraceEnds(t) \/ \E g \in Tgids : Begins(t, g)
  \/ StartAgentTracing \/ EnsureStopped \/ NoData \/ ExtractTgids \/ Preprocess
  \/ \E marked \in SUBSET Cpus, stops \in BOOLEAN :
       marked \in MayMark /\ AsyncStop(marked, stops)

AtraceSpec == AtraceInit /\ [][AtraceNext]_atraceVars

----------------------------------------------------------------------------

Shown == {l \in ToSet(text) : l.event # 0}

(* What is handed on has no hole: every event after one that is there is   *)
(* there, so no slice lacks its end, nor a beginning that comes after the  *)
(* first line.                                                             *)
NoHole ==
  atracePc = "fixed" => \A l \in Shown : \A j \in DOMAIN log :
                          j > l.event => \E k \in Shown : k.event = j

(* Without an overflow nothing is thrown away, and with one there is       *)
(* something left.                                                         *)
NothingLostInVain ==
  atracePc = "fixed" => /\ Shown # {}
                        /\ (\A c \in Cpus : Dropped(c) = {}) => {l.event : l \in Shown} = DOMAIN log

(* A process the kernel knew stays; one that is filled in is wrong only    *)
(* when the number of the thread was given again after the event.          *)
WrongOnlyWhenReused ==
  \A l \in Shown : LET e == log[l.event] IN
    /\ e.shown => l.tgid = e.tgid
    /\ l.tgid # AtraceNone /\ l.tgid # e.tgid => born[e.tid] >= l.event

(* The device does not trace any more when its trace has been collected.   *)
TracingOff == atracePc \in {"read", "dumped", "fixed"} => ~tracing
==============================================================================
