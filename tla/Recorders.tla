------------------------------ MODULE Recorders ------------------------------
(***************************************************************************)
(* Recorders of the display that run in a thread: frames, and a video.     *)
(* Each has variables, Init and Next of its own.                           *)
(***************************************************************************)
EXTENDS Naturals, Sequences, FiniteSets, SequencesExt

----------------------------------------------------------------------------
(***************************************************************************)
(* SurfaceStatsCollector: a thread that asks SurfaceFlinger every second   *)
(* for the last frames it remembers, and the main thread, which sets an    *)
(* event to get what was collected and waits for it at a queue.  Frames    *)
(* are numbered by the order in which they are presented.                  *)
(***************************************************************************)

CONSTANTS
  MaxFrames,     \* bound on the frames of a run
  Remembered,    \* the frames that SurfaceFlinger keeps (128)
  MaxStops,      \* how often the main thread asks in vain to stop
  Closes,        \* TRUE: the app may be closed and opened: no data
  Failing        \* TRUE: the command may fail

Limit == 3       \* of retries

SurfaceAssumption ==
  /\ {MaxFrames, Remembered, MaxStops} \subseteq Nat \ {0}
  /\ {Closes, Failing} \subseteq BOOLEAN

VARIABLES
  main,          \* "idle", "asks", "waits", "joins", "returned", "raised", "refused"
  thread,        \* _CollectorThread()
  getData, stop, \* the two events
  queue,         \* _data_queue
  timestamps, lastTimestamp, retries,
  frames,        \* presented since the start
  completed,     \* those whose fence was signalled
  open,          \* the app is there
  ret,           \* what Stop() returned
  stops,
  asked          \* the frames that were completed when Stop() was called

events == <<getData, stop>>
collector == <<timestamps, lastTimestamp, retries>>
device == <<frames, completed, open>>
vars == <<main, thread, events, queue, collector, device, ret, stops, asked>>

NoData == [kind |-> "none", times |-> <<>>]
Error == [kind |-> "error", times |-> <<>>]
Data(s) == [kind |-> "data", times |-> s]

TypeOK ==
  /\ main \in {"idle", "asks", "waits", "joins", "returned", "raised"}
  /\ thread \in {"none", "tests", "waits", "reads", "parked", "dead"}
  /\ {getData, stop, open} \subseteq BOOLEAN
  /\ \A i \in DOMAIN queue : queue[i].kind \in {"none", "error", "data"}
  /\ ToSet(timestamps) \subseteq 1..completed /\ lastTimestamp \in 0..completed
  /\ retries \in 0..Limit
  /\ completed \in 0..frames /\ frames \in 0..MaxFrames
  /\ stops \in 0..MaxStops /\ asked \in 0..completed

Init ==
  /\ main = "idle" /\ thread = "none"
  /\ getData = FALSE /\ stop = FALSE
  /\ queue = <<>>
  /\ timestamps = <<>> /\ lastTimestamp = 0 /\ retries = 0
  /\ frames = 0 /\ completed = 0 /\ open = TRUE
  /\ ret = NoData
  /\ stops = 0 /\ asked = 0

----------------------------------------------------------------------------

(* Start(): the latency data is cleared, the thread is started.            *)
Start ==
  /\ main = "idle" /\ thread = "none"
  /\ thread' = "tests"
  /\ UNCHANGED <<main, events, queue, collector, device, ret, stops, asked>>

(* Stop() is called, as it may again be when it raised: the thread is      *)
(* still there as far as it knows.                                         *)
CallStop ==
  /\ main \in {"idle", "raised"} /\ thread # "none" /\ stops < MaxStops
  /\ main' = "asks"
  /\ stops' = stops + 1 /\ asked' = completed
  /\ UNCHANGED <<thread, events, queue, collector, device, ret>>

(* _GetDataFromThread(): the event, then the queue.                        *)
AskForData ==
  /\ main = "asks"
  /\ getData' = TRUE
  /\ main' = "waits"
  /\ UNCHANGED <<thread, stop, queue, collector, device, ret, stops, asked>>

GetDataFromThread ==
  /\ main = "waits" /\ queue # <<>>
  /\ ret' = Head(queue) /\ queue' = Tail(queue)
  /\ main' = IF ret'.kind = "error" THEN "raised" ELSE "joins"
  /\ stop' = IF main' = "joins" THEN TRUE ELSE stop
  /\ UNCHANGED <<thread, getData, collector, device, stops, asked>>

Join ==
  /\ main = "joins" /\ thread = "dead"
  /\ main' = "returned"
  /\ UNCHANGED <<thread, events, queue, collector, device, ret, stops, asked>>

----------------------------------------------------------------------------

TestStop ==
  /\ thread = "tests"
  /\ thread' = IF stop THEN "dead" ELSE "waits"
  /\ UNCHANGED <<main, events, queue, collector, device, ret, stops, asked>>

(* The event or a second.                                                  *)
WaitForEvent ==
  /\ thread = "waits"
  /\ thread' = "reads"
  /\ UNCHANGED <<main, events, queue, collector, device, ret, stops, asked>>

(* _GetSurfaceFlingerFrameData(): of the frames that are remembered those  *)
(* whose fence is not pending.                                             *)
Shown ==
  LET n == IF frames > Remembered THEN frames - Remembered ELSE 0
  IN [i \in 1..(IF completed > n THEN completed - n ELSE 0) |-> n + i]

(* Three answers without data in all, or an error, end the thread, and the *)
(* main thread is told.                                                    *)
(* Mutant: it is not told of an error.                                     *)
ReadNothingSilently ==
  /\ thread = "reads" /\ ~open
  /\ retries' = retries + 1
  /\ IF retries' < Limit THEN thread' = "tests" /\ UNCHANGED queue
     ELSE IF lastTimestamp # 0
     THEN thread' = "parked" /\ queue' = Append(queue, NoData)
     ELSE thread' = "dead" /\ UNCHANGED queue
  /\ UNCHANGED <<main, events, timestamps, lastTimestamp, device, ret, stops, asked>>

ReadNothing ==
  /\ thread = "reads" /\ ~open
  /\ retries' = retries + 1
  /\ IF retries' < Limit THEN thread' = "tests" /\ UNCHANGED queue
     ELSE IF lastTimestamp # 0
     THEN thread' = "parked" /\ queue' = Append(queue, NoData)
     ELSE thread' = "dead" /\ queue' = Append(queue, Error)
  /\ UNCHANGED <<main, events, timestamps, lastTimestamp, device, ret, stops, asked>>

Collect == timestamps \o SelectSeq(Shown, LAMBDA t : t > lastTimestamp)

ReadFrames ==
  /\ thread = "reads" /\ open
  /\ lastTimestamp' = IF Collect = <<>> THEN lastTimestamp ELSE Last(Collect)
  /\ timestamps' = IF getData THEN <<>> ELSE Collect
  /\ getData' = FALSE
  /\ queue' = IF getData THEN Append(queue, Data(Collect)) ELSE queue
  /\ thread' = "tests"
  /\ UNCHANGED <<main, stop, retries, device, ret, stops, asked>>

ReadFails ==
  /\ thread = "reads" /\ Failing
  /\ queue' = Append(queue, Error)
  /\ thread' = "dead"
  /\ UNCHANGED <<main, events, collector, device, ret, stops, asked>>

(* The thread that has no more data waits to be stopped.                   *)
Parked ==
  /\ thread = "parked" /\ stop
  /\ thread' = "dead"
  /\ UNCHANGED <<main, events, queue, collector, device, ret, stops, asked>>

----------------------------------------------------------------------------

(* The device presents a frame, and later signals its fence; the thread    *)
(* asks before frames are forgotten.  The app is closed and opened.        *)
Present ==
  /\ open /\ frames < MaxFrames /\ thread # "none"
  /\ frames - lastTimestamp < Remembered
  /\ frames' = frames + 1
  /\ UNCHANGED <<main, thread, events, queue, collector, completed, open, ret, stops, asked>>

Complete ==
  /\ completed < frames
  /\ completed' = completed + 1
  /\ UNCHANGED <<main, thread, events, queue, collector, frames, open, ret, stops, asked>>

OpenOrClose ==
  /\ Closes /\ thread # "none"
  /\ open' = ~open
  /\ UNCHANGED <<main, thread, events, queue, collector, frames, completed, ret, stops, asked>>

Thread ==
  TestStop \/ WaitForEvent \/ ReadNothing \/ ReadFrames \/ ReadFails \/ Parked

Main == AskForData \/ GetDataFromThread \/ Join

Next ==
  \/ Start \/ CallStop \/ Main \/ Thread
  \/ Present \/ Complete \/ OpenOrClose

(* Both threads run; nobody has to stop.                                   *)
Spec == Init /\ [][Next]_vars /\ WF_vars(Main) /\ WF_vars(Thread)

----------------------------------------------------------------------------

(* Every frame that was completed when Stop() was called is in what it     *)
(* returns, once and in order.                                             *)
EveryFrameOnce ==
  main = "returned" /\ ret.kind = "data" =>
    /\ \A i \in DOMAIN ret.times : ret.times[i] = i
    /\ Len(ret.times) >= asked

(* Stop() runs, whatever happens to the thread. *)
Stops == main \in {"asks", "waits", "joins"}

----------------------------------------------------------------------------
(***************************************************************************)
(* VideoRecorder: a thread of the host reads what screenrecord says on the *)
(* device until it ends; Start() waits until it runs and until it has said *)
(* that it records, Stop() signals every screenrecord and joins the        *)
(* thread, and Pull() takes the one file that they all write.              *)
(***************************************************************************)

CONSTANTS
  Recorders,     \* VideoRecorders of one device
  MaxRounds,     \* bound on the recordings of each
  Impatient,     \* TRUE: Start() has a timeout
  VideoFailing   \* TRUE: screenrecord may fail when it is started

VideoAssumption == MaxRounds \in Nat /\ {Impatient, VideoFailing} \subseteq BOOLEAN

VARIABLES
  pc,            \* of the caller of each recorder
  round,         \* its recordings so far
  videoThread,   \* _Record(): "none", "calls", "reads", "ended"
  started,       \* the event _started
  process,       \* screenrecord: "none", "runs", "records", "signalled", "gone"
  file,          \* what is on the device: whose, of which recording, whether whole
  pulled         \* what each recorder has pulled

videoVars == <<pc, round, videoThread, started, process, file, pulled>>

None == "none"
NoFile == [of |-> None, round |-> 0, whole |-> FALSE]
Files == [of : Recorders \cup {"before", None}, round : 0..MaxRounds, whole : BOOLEAN]

Alive == {"runs", "records", "signalled"}

VideoTypeOK ==
  /\ pc \in [Recorders -> {"new", "starts", "waits", "with", "joins", "stopped",
                           "pulled", "refused", "failed", "done"}]
  /\ round \in [Recorders -> 0..MaxRounds]
  /\ videoThread \in [Recorders -> {"none", "calls", "reads", "ended"}]
  /\ started \in [Recorders -> BOOLEAN]
  /\ process \in [Recorders -> Alive \cup {"none", "gone"}]
  /\ \A r \in Recorders : /\ (process[r] \in Alive) => videoThread[r] = "reads"
                          /\ pc[r] = "stopped" => videoThread[r] = "ended"
  /\ file \in Files /\ pulled \in [Recorders -> Files]

VideoInit ==
  /\ pc = [r \in Recorders |-> "new"]
  /\ round = [r \in Recorders |-> 0]
  /\ videoThread = [r \in Recorders |-> "none"]
  /\ started = [r \in Recorders |-> FALSE]
  /\ process = [r \in Recorders |-> "none"]
  /\ file \in {NoFile, [of |-> "before", round |-> 0, whole |-> TRUE]}
  /\ pulled = [r \in Recorders |-> NoFile]

Go(r, from, to) == pc[r] = from /\ pc' = [pc EXCEPT ![r] = to]

ScreenrecordStarted == \E r \in Recorders : process[r] \in Alive

----------------------------------------------------------------------------

(* Start(): none may run.                                                  *)
VideoStart(r) ==
  /\ \/ ~ScreenrecordStarted /\ Go(r, "new", "starts")
     \/ ScreenrecordStarted /\ Go(r, "new", "refused")
  /\ UNCHANGED <<round, videoThread, started, process, file, pulled>>

StartThread(r) ==
  /\ videoThread[r] = "none" /\ Go(r, "starts", "starts")
  /\ started' = [started EXCEPT ![r] = FALSE]
  /\ videoThread' = [videoThread EXCEPT ![r] = "calls"]
  /\ UNCHANGED <<round, process, file, pulled>>

(* WaitFor(): some screenrecord runs; what it returns is not looked at.    *)
WaitFor(r) ==
  /\ videoThread[r] # "none" /\ (ScreenrecordStarted \/ Impatient)
  /\ Go(r, "starts", "waits")
  /\ UNCHANGED <<round, videoThread, started, process, file, pulled>>

WaitStarted(r) ==
  /\ started[r] \/ Impatient
  /\ Go(r, "waits", "with")
  /\ UNCHANGED <<round, videoThread, started, process, file, pulled>>

(* Stop(): KillAll() signals all there are.                                *)
Stop(r) ==
  /\ Go(r, "with", "joins")
  /\ process' = [q \in Recorders |-> IF process[q] \in Alive THEN "signalled" ELSE process[q]]
  /\ UNCHANGED <<round, videoThread, started, file, pulled>>

VideoJoin(r) ==
  /\ videoThread[r] = "ended"
  /\ Go(r, "joins", "stopped")
  /\ UNCHANGED <<round, videoThread, started, process, file, pulled>>

(* Pull(): the file is copied, which fails without one, and removed.       *)
Pull(r) ==
  /\ \/ /\ file # NoFile /\ Go(r, "stopped", "pulled")
        /\ pulled' = [pulled EXCEPT ![r] = file]
     \/ /\ file = NoFile /\ Go(r, "stopped", "failed")
        /\ UNCHANGED pulled
  /\ UNCHANGED <<round, videoThread, started, process, file>>

RemoveHostFile(r) ==
  /\ Go(r, "pulled", "done")
  /\ file' = NoFile
  /\ UNCHANGED <<round, videoThread, started, process, pulled>>

(* The recorder is used again.                                             *)
Again(r) ==
  /\ Go(r, "done", "new") /\ round[r] < MaxRounds
  /\ round' = [round EXCEPT ![r] = @ + 1]
  /\ videoThread' = [videoThread EXCEPT ![r] = "none"]
  /\ process' = [process EXCEPT ![r] = "none"]
  /\ pulled' = [pulled EXCEPT ![r] = NoFile]
  /\ UNCHANGED <<started, file>>

----------------------------------------------------------------------------

(* _Record(): the command begins on the device, or fails there.            *)
Record(r) ==
  /\ videoThread[r] = "calls"
  /\ \/ /\ videoThread' = [videoThread EXCEPT ![r] = "reads"]
        /\ process' = [process EXCEPT ![r] = "runs"]
     \/ /\ VideoFailing
        /\ videoThread' = [videoThread EXCEPT ![r] = "ended"]
        /\ UNCHANGED process
  /\ UNCHANGED <<pc, round, started, file, pulled>>

(* screenrecord empties the file and says what it records.                 *)
ContentArea(r) ==
  /\ process[r] = "runs"
  /\ process' = [process EXCEPT ![r] = "records"]
  /\ file' = [of |-> r, round |-> round[r], whole |-> FALSE]
  /\ UNCHANGED <<pc, round, videoThread, started, pulled>>

ReadLine(r) ==
  /\ videoThread[r] = "reads" /\ process[r] \in {"records", "signalled", "gone"} /\ ~started[r]
  /\ file.of = r
  /\ started' = [started EXCEPT ![r] = TRUE]
  /\ UNCHANGED <<pc, round, videoThread, process, file, pulled>>

(* It is signalled: the video is completed, and the output ends.           *)
Finish(r) ==
  /\ process[r] = "signalled"
  /\ process' = [process EXCEPT ![r] = "gone"]
  /\ file' = IF file.of = r THEN [file EXCEPT !.whole = TRUE] ELSE file
  /\ UNCHANGED <<pc, round, videoThread, started, pulled>>

EndOfOutput(r) ==
  /\ videoThread[r] = "reads" /\ process[r] = "gone"
  /\ videoThread' = [videoThread EXCEPT ![r] = "ended"]
  /\ UNCHANGED <<pc, round, started, process, file, pulled>>

Caller(r) ==
  \/ VideoStart(r) \/ StartThread(r) \/ WaitFor(r) \/ WaitStarted(r)
  \/ VideoJoin(r) \/ Pull(r) \/ RemoveHostFile(r)

OfDevice(r) == Record(r) \/ ContentArea(r) \/ ReadLine(r) \/ Finish(r) \/ EndOfOutput(r)

VideoNext == \E r \in Recorders : Caller(r) \/ Stop(r) \/ Again(r) \/ OfDevice(r)

(* The callers and the device go on; nobody has to stop a recording.       *)
VideoSpec == VideoInit /\ [][VideoNext]_videoVars
       /\ \A r \in Recorders : WF_videoVars(Caller(r)) /\ WF_videoVars(OfDevice(r))

----------------------------------------------------------------------------

(* What is pulled is the whole video of this recording.                    *)
PulledOwn ==
  \A r \in Recorders : pulled[r] # NoFile => pulled[r] = [of |-> r, round |-> round[r], whole |-> TRUE]

(* A recorder was asked to start and is not started, refused or failed, or *)
(* was told to stop and its video is not pulled.                           *)
Waits(r) == pc[r] \in {"starts", "waits", "joins"}

(* A recorder that was started has something to pull.                      *)
NeverEmptyHanded == \A r \in Recorders : pc[r] # "failed"
==============================================================================
