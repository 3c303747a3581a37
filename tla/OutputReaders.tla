---------------------------- MODULE OutputReaders ----------------------------
(***************************************************************************)
(* Readers of what a process prints: a command of the host, the log of a   *)
(* device, and a command of the host on Windows. Each has variables, Init  *)
(* and Next of its own.                                                    *)
(***************************************************************************)
EXTENDS Naturals, SequencesExt, Sequences, FiniteSets

----------------------------------------------------------------------------
(***************************************************************************)
(* A command on the host and the one who reads its output (cmd_helper.py): *)
(* IterCmdOutputLines() yields it line by line,                            *)
(* GetCmdStatusAndOutputWithTimeout() collects it; both run                *)
(* _IterProcessStdoutFcntl(), which polls the pipe, looks at two clocks    *)
(* and at the process, and kills the process when it is through.           *)
(*                                                                         *)
(* The output is a sequence of characters: "x" is any one that ends no     *)
(* line.  A read takes what is in the pipe, however little that is.  The   *)
(* command may leave a child of its own behind that keeps the pipe open,   *)
(* and may close its output before it ends.  Time is a count of ticks up   *)
(* to MaxTime; 0 as a timeout is None.                                     *)
(***************************************************************************)

CONSTANTS Outputs,          \* what the command may write
          Lines,            \* read line by line, or collected
          IterTimeout, Timeout, MaxTime,
          Child,            \* "none", "silent" or "talks": left behind with the pipe
          MayClose          \* the command may close its output and go on

VARIABLES output, written,      \* what it writes, and how much it has written
          proc, closed, pipe,
          returncode,           \* None until it is polled or waited for
          now, iter_end, iter_end_time,
          pc, data, buffer,
          out,                  \* the lines that were yielded; the text that was collected
          result

command == <<output, written, proc, closed>>
clocks == <<now, iter_end, iter_end_time>>
reader == <<returncode, iter_end, iter_end_time, pc, data, buffer, out, result>>
vars == <<command, pipe, returncode, clocks, pc, data, buffer, out, result>>

None == "none"
Own == "own status"        \* the status the command ends with
Killed == "killed"

IsEnd(c) == c \in {"\r", "\n"}

(* str.splitlines(): \r\n is one end of a line. *)
LineEnds(s) == {i \in DOMAIN s : IsEnd(s[i]) /\ ~(s[i] = "\r" /\ i < Len(s) /\ s[i + 1] = "\n")}
SplitLines(s) ==
  LET ends == SetToSortSeq(LineEnds(s) \cup ({Len(s)} \ {0}), LAMBDA i, j : i < j)
      From(n) == IF n = 1 THEN 1 ELSE ends[n - 1] + 1
  IN [n \in DOMAIN ends |-> SelectSeq(SubSeq(s, From(n), ends[n]), LAMBDA c : ~IsEnd(c))]

Init ==
  /\ output \in Outputs /\ written = 0
  /\ proc = "runs" /\ closed = FALSE
  /\ pipe = <<>>
  /\ returncode = None
  /\ now = 0 /\ iter_end = IterTimeout /\ iter_end_time = 0
  /\ pc = "start" /\ data = <<>> /\ buffer = <<>> /\ out = <<>>
  /\ result = None

----------------------------------------------------------------------------

(* The command, its child and the clock. *)
Write ==
  /\ proc = "runs" /\ ~closed /\ written < Len(output)
  /\ written' = written + 1
  /\ pipe' = Append(pipe, output[written + 1])
  /\ UNCHANGED <<output, proc, closed, now, reader>>

Close ==
  /\ MayClose /\ proc = "runs" /\ ~closed /\ written = Len(output)
  /\ closed' = TRUE
  /\ UNCHANGED <<output, written, proc, pipe, now, reader>>

Exit ==
  /\ proc = "runs" /\ written = Len(output)
  /\ proc' = Own /\ closed' = TRUE
  /\ UNCHANGED <<output, written, pipe, now, reader>>

ChildTalks ==
  /\ Child = "talks" /\ proc = Own /\ pipe = <<>>
  /\ pipe' = <<"\n">>
  /\ UNCHANGED <<command, now, reader>>

Tick ==
  /\ now < MaxTime
  /\ now' = now + 1
  /\ UNCHANGED <<command, pipe, reader>>

Eof == closed /\ pipe = <<>> /\ Child = "none"

----------------------------------------------------------------------------

(* _IterProcessStdoutFcntl() *)
Goto(l) == pc' = l

Start ==
  /\ pc = "start"
  /\ iter_end_time' = now + IterTimeout
  /\ Goto("loop")
  /\ UNCHANGED <<command, pipe, returncode, now, iter_end, data, buffer, out, result>>

TimedOut ==
  /\ pc = "loop" /\ Timeout > 0 /\ now > Timeout
  /\ result' = "timeout"
  /\ Goto("finally")
  /\ UNCHANGED <<command, pipe, returncode, clocks, data, buffer, out>>

Late == Timeout > 0 /\ now > Timeout

(* None is yielded, and the interval begins when the consumer comes back.  *)
IterTimedOut ==
  /\ pc = "loop" /\ ~Late /\ IterTimeout > 0 /\ now > iter_end_time
  /\ Goto("none")
  /\ UNCHANGED <<command, pipe, returncode, clocks, data, buffer, out, result>>

AfterNone ==
  /\ pc = "none"
  /\ iter_end' = now + IterTimeout
  /\ Goto("restart")
  /\ UNCHANGED <<command, pipe, returncode, now, iter_end_time, data, buffer, out, result>>

Restart ==
  /\ pc = "restart"
  /\ iter_end_time' = now + IterTimeout
  /\ Goto("select")
  /\ UNCHANGED <<command, pipe, returncode, now, iter_end, data, buffer, out, result>>

Select ==
  /\ pc = "loop" /\ ~Late /\ (IterTimeout > 0 => now <= iter_end_time)
  /\ Goto("select")
  /\ UNCHANGED <<command, pipe, returncode, clocks, data, buffer, out, result>>

ReadIn(at, then) ==
  /\ pc = at /\ pipe # <<>>
  /\ data' = pipe /\ pipe' = <<>>
  /\ Goto(then)
  /\ UNCHANGED <<command, returncode, clocks, buffer, out, result>>

Read == ReadIn("select", "data")

EndOfFile ==
  /\ pc = "select" /\ Eof
  /\ Goto("finally")
  /\ UNCHANGED <<command, pipe, returncode, clocks, data, buffer, out, result>>

(* select() gives nothing, or the consumer has come back: process.poll().  *)
Poll ==
  /\ pc = "poll" \/ (pc = "select" /\ pipe = <<>> /\ ~Eof)
  /\ returncode' = IF proc = "runs" THEN None ELSE proc
  /\ Goto(IF proc = "runs" THEN "loop" ELSE "drain")
  /\ UNCHANGED <<command, pipe, clocks, data, buffer, out, result>>

(* The process has ended: what is left in the pipe, without a look at the  *)
(* clocks.                                                                 *)
Drain == ReadIn("drain", "drained")

Drained ==
  /\ pc = "drain" /\ pipe = <<>>
  /\ Goto("finally")
  /\ UNCHANGED <<command, pipe, returncode, clocks, data, buffer, out, result>>

Finally ==
  /\ pc = "finally"
  /\ proc' = IF returncode = None /\ proc = "runs" THEN Killed ELSE proc
  /\ closed' = TRUE
  /\ Goto("wait")
  /\ UNCHANGED <<output, written, pipe, returncode, clocks, data, buffer, out, result>>

Wait ==
  /\ pc = "wait" /\ proc # "runs"
  /\ returncode' = proc
  /\ Goto("end")
  /\ UNCHANGED <<command, pipe, clocks, data, buffer, out, result>>

----------------------------------------------------------------------------

(* The consumers. *)
Back == Goto(IF pc = "data" THEN "poll" ELSE "drain")

(* What a child says that is left behind is not kept here. *)
Yield(more) == out' = IF Child = "talks" THEN out ELSE out \o more

(* _IterCmdOutputLines(): with iter_timeout, data that comes after the end *)
(* of the interval counts as None.                                         *)
TooLate ==
  /\ pc \in {"data", "drained"} /\ Lines /\ IterTimeout > 0 /\ now > iter_end
  /\ iter_end' = now + IterTimeout
  /\ Back
  /\ UNCHANGED <<command, pipe, returncode, now, iter_end_time, data, buffer, out, result>>

NewLines ==
  /\ pc \in {"data", "drained"} /\ Lines /\ ~(IterTimeout > 0 /\ now > iter_end)
  /\ LET text == buffer \o data
         lines == SplitLines(text)
         partial == ~IsEnd(text[Len(text)])
         whole == IF partial THEN SubSeq(lines, 1, Len(lines) - 1) ELSE lines
     IN /\ buffer' = IF partial THEN lines[Len(lines)] ELSE <<>>
        /\ Yield(whole)
        /\ iter_end' = IF whole # <<>> /\ IterTimeout > 0 THEN now + IterTimeout ELSE iter_end
  /\ Back
  /\ UNCHANGED <<command, pipe, returncode, now, iter_end_time, data, result>>

(* GetCmdStatusAndOutputWithTimeout() *)
Collect ==
  /\ pc \in {"data", "drained"} /\ ~Lines
  /\ Yield(data)
  /\ Back
  /\ UNCHANGED <<command, pipe, returncode, clocks, data, buffer, result>>

End ==
  /\ pc = "end"
  /\ out' = IF result = None /\ buffer # <<>> THEN Append(out, buffer) ELSE out
  /\ buffer' = <<>>
  /\ result' = IF result = None THEN "ended" ELSE result
  /\ Goto("done")
  /\ UNCHANGED <<command, pipe, returncode, clocks, data>>

Reader == \/ Start \/ TimedOut \/ IterTimedOut \/ AfterNone \/ Restart \/ Select \/ Read \/ EndOfFile
          \/ Poll \/ Drain \/ Drained \/ Finally \/ Wait \/ TooLate \/ NewLines \/ Collect \/ End
Stopped == pc = "done" /\ UNCHANGED vars
Next == Write \/ Close \/ Exit \/ ChildTalks \/ Tick \/ Reader \/ Stopped

Spec == Init /\ [][Next]_vars

(* The reader goes on, and so do the clock and the talking child; nothing  *)
(* is said of when the command writes or exits.                            *)
FairSpec == Spec /\ WF_vars(Reader) /\ WF_vars(Tick) /\ WF_vars(ChildTalks)

----------------------------------------------------------------------------

Clocks == 0..(MaxTime + IterTimeout)

(* Types of the clocks and of the command's state. *)
TypeOK ==
  /\ now \in 0..MaxTime /\ iter_end \in Clocks /\ iter_end_time \in Clocks
  /\ proc \in {"runs", Own, Killed} /\ returncode \in {None, Own, Killed}
  /\ written \in 0..Len(output) /\ pipe \in Seq({"x", "\r", "\n"})

Complete == IF Lines THEN SplitLines(output) ELSE output

(* A command whose output ended by itself has given all of its output, the *)
(* lines as they are in the text, however the reads cut it.                *)
WholeOutput == (result = "ended" /\ proc = Own) => out = Complete

(* However the reader ends, the process is gone and its status was taken.  *)
ProcessGone == result \in {"ended", "timeout"} /\ pc = "done" => /\ proc # "runs"
                                                                 /\ returncode = proc

(* Without a timeout the command ends by itself, and its own status is the *)
(* one that is reported.                                                   *)
OwnStatus == (pc = "done" /\ result = "ended") => returncode = Own

(* The command is read from. *)
CommandRuns == pc # "done"

----------------------------------------------------------------------------
(***************************************************************************)
(* The logcat monitor (android/logcat_monitor.py): Start() clears the log  *)
(* of the device and starts a thread that copies what "adb logcat" prints  *)
(* to a file; WaitFor() reads the file until it finds a line; Stop() tells *)
(* the thread to stop, waits for it for five seconds and copies the file;  *)
(* Close() closes it.  Several threads may be there after each other, one  *)
(* for each time _StartRecording() made one.                               *)
(*                                                                         *)
(* The log is a sequence of lines, "s" those that WaitFor() looks for; a   *)
(* recorded line is its place in the log.  The thread gets None from the   *)
(* iteration several times a second, so it always comes to look at the     *)
(* event, unless it is slow: in transform_func or on a device that hangs.  *)
(***************************************************************************)

CONSTANTS MaxLog, MaxThreads, MaxStarts,
          Slow,             \* a thread may be slower than the five seconds
          Fails             \* "adb logcat" may fail

VARIABLES log, cleared,          \* the device's log; what clear has removed
          thread,                \* thread[t]: what each thread is doing
          next, held,            \* the line it reads next, and the one it has
          record_file,           \* the lines, or None
          record_thread, stop_event,
          output_file,
          logcatPc, starts, waited  \* the caller; WaitFor()'s place in the file

dev == <<log, cleared>>
rec == <<thread, next, held>>
logcatVars == <<dev, rec, record_file, record_thread, stop_event, output_file, logcatPc, starts, waited>>

Threads == 1..MaxThreads
LogcatNone == <<0>>        \* no file: the lines of a file are numbered from 1
NoThread == 0
Alive(t) == thread[t] \in {"iterating", "got", "writing"}

LogcatInit ==
  /\ log = <<>> /\ cleared = 0
  /\ thread = [t \in Threads |-> "new"]
  /\ next = [t \in Threads |-> 0] /\ held = [t \in Threads |-> 0]
  /\ record_file = LogcatNone /\ record_thread = NoThread /\ stop_event = FALSE
  /\ output_file = LogcatNone
  /\ logcatPc = "idle" /\ starts = 0 /\ waited = 0

Logs(line) ==
  /\ Len(log) < MaxLog
  /\ log' = Append(log, line)
  /\ UNCHANGED <<cleared, rec, record_file, record_thread, stop_event, output_file, logcatPc, starts, waited>>

----------------------------------------------------------------------------

(* record_to_file() *)
Now(t, s) == thread' = [thread EXCEPT ![t] = s]
NotRec == <<dev, record_thread, stop_event, output_file, logcatPc, starts, waited>>

(* The next line of the log, or None (0) after the interval. *)
Iterate(t) ==
  /\ thread[t] = "iterating"
  /\ IF next[t] < Len(log)
     THEN held' = [held EXCEPT ![t] = next[t] + 1] /\ next' = [next EXCEPT ![t] = @ + 1]
     ELSE stop_event /\ held' = [held EXCEPT ![t] = 0] /\ UNCHANGED next
  /\ Now(t, "got")
  /\ UNCHANGED <<record_file, NotRec>>

CheckEvent(t) ==
  /\ thread[t] = "got"
  /\ Now(t, IF stop_event THEN "ended" ELSE IF held[t] = 0 THEN "iterating" ELSE "writing")
  /\ UNCHANGED <<next, held, record_file, NotRec>>

(* Mutant: a line that comes with the file locked is dropped.              *)
WriteLineDropped(t) ==
  /\ thread[t] = "writing"
  /\ record_file' = IF record_file \in {LogcatNone, <<1>>} THEN record_file ELSE Append(record_file, held[t])
  /\ Now(t, "iterating")
  /\ UNCHANGED <<next, held, NotRec>>

WriteLine(t) ==
  /\ thread[t] = "writing"
  /\ record_file' = IF record_file = LogcatNone THEN LogcatNone ELSE Append(record_file, held[t])
  /\ Now(t, "iterating")
  /\ UNCHANGED <<next, held, NotRec>>

IterationFails(t) ==
  /\ Fails /\ thread[t] = "iterating"
  /\ Now(t, "failed")
  /\ UNCHANGED <<next, held, record_file, NotRec>>

----------------------------------------------------------------------------

StartClears ==
  /\ logcatPc = "idle" /\ starts < MaxStarts
  /\ starts' = starts + 1
  /\ cleared' = Len(log)
  /\ logcatPc' = "start"
  /\ UNCHANGED <<log, rec, record_file, record_thread, stop_event, output_file, waited>>

Fresh == {t \in Threads : thread[t] = "new"}

StartRecording ==
  /\ logcatPc = "start"
  /\ record_file' = IF record_file = LogcatNone THEN <<>> ELSE record_file
  /\ stop_event' = FALSE
  /\ IF record_thread = NoThread
     THEN \E t \in Fresh : /\ \A u \in Fresh : t <= u
                           /\ record_thread' = t
                           /\ Now(t, "iterating")
                           /\ next' = [next EXCEPT ![t] = cleared]
     ELSE UNCHANGED <<record_thread, thread, next>>
  /\ logcatPc' = "recording"
  /\ UNCHANGED <<dev, held, output_file, starts, waited>>

(* Mutant: WaitFor() begins where the file ends.                           *)
WaitForTheEnd ==
  /\ logcatPc = "recording"
  /\ logcatPc' = "waiting" /\ waited' = Len(record_file)
  /\ UNCHANGED <<dev, rec, record_file, record_thread, stop_event, output_file, starts>>

(* WaitFor() reads the file from its first line on, line after line. *)
WaitFor ==
  /\ logcatPc = "recording"
  /\ logcatPc' = "waiting" /\ waited' = 0
  /\ UNCHANGED <<dev, rec, record_file, record_thread, stop_event, output_file, starts>>

ReadLine ==
  /\ logcatPc = "waiting" /\ waited < Len(record_file)
  /\ waited' = waited + 1
  /\ logcatPc' = IF log[record_file[waited + 1]] = "s" THEN "recording" ELSE logcatPc
  /\ UNCHANGED <<dev, rec, record_file, record_thread, stop_event, output_file, starts>>

WaitTimesOut ==
  /\ logcatPc = "waiting" /\ waited = Len(record_file)
  /\ logcatPc' = "recording"
  /\ UNCHANGED <<dev, rec, record_file, record_thread, stop_event, output_file, starts, waited>>

StopSetsEvent ==
  /\ logcatPc = "recording"
  /\ stop_event' = TRUE
  /\ logcatPc' = "joining"
  /\ UNCHANGED <<dev, rec, record_file, record_thread, output_file, starts, waited>>

(* join() and ReraiseIfException(): the exception leaves Stop(). *)
Join ==
  /\ logcatPc = "joining"
  /\ ~Alive(record_thread) \/ Slow
  /\ IF thread[record_thread] = "failed"
     THEN logcatPc' = "idle" /\ UNCHANGED record_thread
     ELSE logcatPc' = "copy" /\ record_thread' = NoThread
  /\ UNCHANGED <<dev, rec, record_file, stop_event, output_file, starts, waited>>

Copy ==
  /\ logcatPc = "copy"
  /\ output_file' = record_file
  /\ logcatPc' = "idle"
  /\ UNCHANGED <<dev, rec, record_file, record_thread, stop_event, starts, waited>>

CloseFile ==
  /\ logcatPc = "idle" /\ record_file # LogcatNone
  /\ record_file' = LogcatNone
  /\ UNCHANGED <<dev, rec, record_thread, stop_event, output_file, logcatPc, starts, waited>>

Recorder(t) == Iterate(t) \/ CheckEvent(t) \/ WriteLine(t)
Caller == \/ StartClears \/ StartRecording \/ WaitFor \/ ReadLine \/ WaitTimesOut
          \/ StopSetsEvent \/ Join \/ Copy \/ CloseFile
LogcatNext == \/ \E line \in {"s", "x"} : Logs(line)
              \/ \E t \in Threads : Recorder(t) \/ IterationFails(t)
              \/ Caller

LogcatSpec == LogcatInit /\ [][LogcatNext]_logcatVars

(* The threads run; the caller goes on with a call it has begun, and       *)
(* WaitFor() reads what there is to read.                                  *)
LogcatFairSpec == /\ LogcatSpec
                  /\ \A t \in Threads : WF_logcatVars(Recorder(t))
                  /\ WF_logcatVars(StartRecording \/ ReadLine \/ Join \/ Copy)

----------------------------------------------------------------------------

(* Types of the file and of the threads. *)
LogcatTypeOK ==
  /\ record_file = LogcatNone \/ record_file \in Seq(1..MaxLog)
  /\ record_thread \in {NoThread} \cup Threads
  /\ cleared \in 0..MaxLog /\ waited \in 0..(MaxLog * MaxThreads)

(* The file has lines of the log in their order, none of them twice, over  *)
(* all the times it was recorded to.                                       *)
InOrder ==
  record_file # LogcatNone =>
    \A i, j \in DOMAIN record_file : i < j => record_file[i] < record_file[j]

(* While it is recording with a thread that lives, no line between the     *)
(* clear and the one the thread is at is missing.                          *)
NothingMissed ==
  (logcatPc \in {"recording", "waiting"} /\ Alive(record_thread)) =>
          \A i \in (cleared + 1)..next[record_thread] :
             (thread[record_thread] \in {"got", "writing"} /\ i = held[record_thread])
             \/ \E k \in DOMAIN record_file : record_file[k] = i

(* After Stop() the copy is the file: nothing is recorded any more.        *)
CopyIsFile ==
  (logcatPc = "idle" /\ record_thread = NoThread /\ record_file # LogcatNone) => output_file = record_file

(* After Start() has returned there is a thread that records, until its    *)
(* own "adb logcat" fails.                                                 *)
Recording == record_thread # NoThread /\ Alive(record_thread)
StartStarts == StartRecording => Recording'

(* A line that is logged while WaitFor() waits is found, if nothing fails. *)
Matches == \E i \in (cleared + 1)..Len(log) : log[i] = "s"

(* WaitFor() waits, and the line it waits for is in the log. *)
WaitsForLogged == logcatPc = "waiting" /\ Matches

(* Stop() joins the recorder. *)
Stops == logcatPc = "joining"

----------------------------------------------------------------------------
(***************************************************************************)
(* _IterProcessStdoutQueue(), the variant of Windows: a thread reads the   *)
(* output of the process and puts it into a queue; the iterator takes it   *)
(* out, with a look at its clock between two pieces, and in the end kills  *)
(* the process, waits for it and joins the thread.  <<>> in the queue is   *)
(* an empty read, that is the end of the file.                             *)
(***************************************************************************)

CONSTANTS Amount,            \* of the output
          QueueIterTimeout,  \* an iter_timeout was given
          QueueTimeout,      \* a timeout was given
          QueueFails,        \* a read may fail
          MaxQueue           \* bounds the pieces in the queue

VARIABLES queueWritten, queueProc, queueClosed, queuePipe,
          queueThread, stdout_queue,
          queueReturncode,   \* it was polled or waited for
          late, queuePc, queueOut, queueResult

child == <<queueWritten, queueProc, queueClosed>>
iterator == <<queuePc, queueOut, queueResult>>
queueVars == <<child, queuePipe, queueThread, stdout_queue, queueReturncode, late, iterator>>

QueueInit ==
  /\ queueWritten = 0 /\ queueProc = "runs" /\ queueClosed = FALSE /\ queuePipe = <<>>
  /\ queueThread = "reads" /\ stdout_queue = <<>>
  /\ queueReturncode = FALSE
  /\ late = FALSE /\ queuePc = "loop" /\ queueOut = <<>> /\ queueResult = "none"

(* The process; it may close its output before it ends. *)
QueueWrite ==
  /\ queueProc = "runs" /\ ~queueClosed /\ queueWritten < Amount
  /\ queueWritten' = queueWritten + 1
  /\ queuePipe' = Append(queuePipe, queueWritten')
  /\ UNCHANGED <<queueProc, queueClosed, queueThread, stdout_queue, queueReturncode, late, iterator>>

QueueClose ==
  /\ queueProc = "runs" /\ ~queueClosed /\ queueClosed' = TRUE
  /\ UNCHANGED <<queueWritten, queueProc, queuePipe, queueThread, stdout_queue, queueReturncode, late, iterator>>

QueueExit ==
  /\ queueProc = "runs" /\ queueProc' = "ended" /\ queueClosed' = TRUE
  /\ UNCHANGED <<queueWritten, queuePipe, queueThread, stdout_queue, queueReturncode, late, iterator>>

(* read_process_stdout(): a read gives some of what is in the pipe. *)
ReadChunk(n) ==
  /\ queueThread = "reads" /\ n \in 1..Len(queuePipe) /\ Len(stdout_queue) < MaxQueue
  /\ stdout_queue' = Append(stdout_queue, SubSeq(queuePipe, 1, n))
  /\ queuePipe' = SubSeq(queuePipe, n + 1, Len(queuePipe))
  /\ UNCHANGED <<child, queueThread, queueReturncode, late, iterator>>

(* The end of the file: it is put, and put again while the process runs.   *)
ReadNothing ==
  /\ queueThread = "reads" /\ queueClosed /\ queuePipe = <<>> /\ Len(stdout_queue) < MaxQueue
  /\ stdout_queue' = Append(stdout_queue, <<>>)
  /\ queueThread' = IF queueProc = "runs" THEN "reads" ELSE "ended"
  /\ queueReturncode' = (queueReturncode \/ queueProc # "runs")
  /\ UNCHANGED <<child, queuePipe, late, iterator>>

ReadFails ==
  /\ QueueFails /\ queueThread = "reads" /\ queueThread' = "ended"
  /\ UNCHANGED <<child, queuePipe, stdout_queue, queueReturncode, late, iterator>>

Elapse ==
  /\ QueueTimeout /\ ~late /\ late' = TRUE
  /\ UNCHANGED <<child, queuePipe, queueThread, stdout_queue, queueReturncode, iterator>>

LooksAtClock ==
  /\ queuePc = "loop"
  /\ IF late THEN queuePc' = "finally" /\ queueResult' = "timeout"
     ELSE queuePc' = "get" /\ UNCHANGED queueResult
  /\ UNCHANGED <<child, queuePipe, queueThread, stdout_queue, queueReturncode, late, queueOut>>

(* stdout_queue.get(): a piece is yielded, an empty one ends the loop.      *)
Get ==
  /\ queuePc = "get" /\ stdout_queue # <<>>
  /\ LET s == Head(stdout_queue)
     IN IF s = <<>> THEN queuePc' = "finally" /\ queueResult' = "ended" /\ UNCHANGED queueOut
        ELSE queuePc' = "loop" /\ queueOut' = queueOut \o s /\ UNCHANGED queueResult
  /\ stdout_queue' = Tail(stdout_queue)
  /\ UNCHANGED <<child, queuePipe, queueThread, queueReturncode, late>>

(* Queue.Empty: None is yielded.  Without iter_timeout get() waits on, also *)
(* beyond the timeout.                                                     *)
YieldsNone ==
  /\ QueueIterTimeout /\ queuePc = "get" /\ stdout_queue = <<>>
  /\ queuePc' = "loop"
  /\ UNCHANGED <<child, queuePipe, queueThread, stdout_queue, queueReturncode, late, queueOut, queueResult>>

Kill ==
  /\ queuePc = "finally" /\ queuePc' = "join"
  /\ queueProc' = IF ~queueReturncode /\ queueProc = "runs" THEN "killed" ELSE queueProc
  /\ queueClosed' = TRUE
  /\ UNCHANGED <<queueWritten, queuePipe, queueThread, stdout_queue, queueReturncode, late, queueOut, queueResult>>

QueueJoin ==
  /\ queuePc = "join" /\ queueProc # "runs" /\ queueThread = "ended"
  /\ queueReturncode' = TRUE /\ queuePc' = "done"
  /\ UNCHANGED <<child, queuePipe, queueThread, stdout_queue, late, queueOut, queueResult>>

QueueNext == \/ QueueWrite \/ QueueClose \/ QueueExit
             \/ (\E n \in 1..Amount : ReadChunk(n)) \/ ReadNothing \/ ReadFails
             \/ Elapse \/ LooksAtClock \/ Get \/ YieldsNone \/ Kill \/ QueueJoin

QueueSpec == QueueInit /\ [][QueueNext]_queueVars

----------------------------------------------------------------------------

(* What was yielded is the beginning of what was written, in its order; if *)
(* the file has ended it is all of it.                                     *)
YieldsWhole ==
  /\ queueOut = [i \in 1..Len(queueOut) |-> i]
  /\ queueResult = "ended" => Len(queueOut) = queueWritten

(* When the iterator is through there is no process and no thread.         *)
NothingRuns == queuePc = "done" => queueProc # "runs" /\ queueThread = "ended" /\ queueReturncode
==============================================================================
