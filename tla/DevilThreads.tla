---------------------------- MODULE DevilThreads -----------------------------
(***************************************************************************)
(* The threads of devil: a call with a timeout and retries, a group of     *)
(* threads inside such a call, and a call on all devices at once. Each has *)
(* variables, Init and Next of its own.                                    *)
(***************************************************************************)
EXTENDS Integers, Naturals

----------------------------------------------------------------------------
(***************************************************************************)
(* devil.utils.timeout_retry: Run() calls a function in a thread of its    *)
(* own, watches the clock from the calling thread, abandons the thread     *)
(* when the watchdog has run out and tries again.  An abandoned thread is  *)
(* not stopped: it runs on beside the next attempt.  What stops it is that *)
(* WaitFor(), in which device methods spend their time, asks the watchdog  *)
(* of its own group before it sleeps.                                      *)
(*                                                                         *)
(* The function called here is a WaitFor() whose condition the device      *)
(* answers with yes, no or an exception, and may never answer.             *)
(*                                                                         *)
(* Clock: one Tick at a time; ages saturate one tick beyond the last value *)
(* they are compared with, so time has no bound.                           *)
(***************************************************************************)

CONSTANTS
  Timeout,     \* of each attempt, in ticks; 0 for None: no deadline
  Retries,     \* attempts after the first one
  Period,      \* wait_period of the WaitFor() in the function
  MaxTries,    \* max_tries of that WaitFor(); 0 for None: no limit
  Slice,       \* the 60 seconds after which Run() leaves JoinAll()
  Retried,     \* the exceptions for which retry_if_func is true
  Hangs        \* TRUE when condition() may never return

TimeoutRetryAssumption ==
  /\ Timeout \in Nat
  /\ Retries \in Nat
  /\ Period \in Nat \ {0}
  /\ MaxTries \in Nat
  /\ Slice \in Nat \ {0}
  /\ Retried \subseteq {"timeout", "error"}
  /\ Hangs \in BOOLEAN

VARIABLES
  num_try,     \* the attempt that Run() watches
  run,         \* where Run() is
  slice,       \* ticks until JoinAll(timeout=60) gives the loop back
  thread,      \* thread[i]: what the thread of attempt i does or did
  age,         \* age[i]: ticks since the watchdog of attempt i was set
  nap,         \* nap[i]: ticks that thread i still sleeps
  tries,       \* tries[i]: conditions asked by WaitFor() in thread i
  verdict,     \* what Run() caught, returned or raised last
  late         \* history: late[i], conditions asked after the deadline, up to 2

vars == <<num_try, run, slice, thread, age, nap, tries, verdict, late>>
caller == <<num_try, run, slice, verdict>>
threads == <<thread, nap, tries, late>>

Attempts == 1..(Retries + 1)
Exceptions == {"timeout", "error"}
Results == {"value", "nothing"}

(* Thread.isAlive(): started and not yet through run().                    *)
IsAlive(i) == thread[i] \in {"asks", "sleeps"}

(* WatchdogTimer.GetRemaining() < required, which is never true without a  *)
(* timeout; IsTimedOut() is its case of nothing required.                  *)
RemainingBelow(i, required) == Timeout # 0 /\ Timeout - age[i] < required

IsTimedOut(i) == RemainingBelow(i, 0)

Init ==
  /\ num_try = 1
  /\ run = "start"
  /\ slice = 0
  /\ thread = [i \in Attempts |-> "none"]
  /\ age = [i \in Attempts |-> 0]
  /\ nap = [i \in Attempts |-> 0]
  /\ tries = [i \in Attempts |-> 0]
  /\ verdict = "none"
  /\ late = [i \in Attempts |-> 0]

----------------------------------------------------------------------------

(* The calling thread.                                                     *)

(* A new thread, a new group with its watchdog, StartAll(), JoinAll().     *)
StartAttempt ==
  /\ run = "start"
  /\ thread' = [thread EXCEPT ![num_try] = "asks"]
  /\ age' = [age EXCEPT ![num_try] = 0]
  /\ slice' = Slice
  /\ run' = "watch"
  /\ UNCHANGED <<num_try, verdict, nap, tries, late>>

(* The head of the loop in _JoinAll() and its look at the watchdog.        *)
Watch ==
  /\ run = "watch"
  /\ slice > 0
  /\ IF IsTimedOut(num_try)
     THEN run' = "caught" /\ verdict' = "timeout"
     ELSE run' = "join" /\ UNCHANGED verdict
  /\ UNCHANGED <<num_try, slice, age, threads>>

(* The sixty seconds are over: _JoinAll() reraises what the thread threw,  *)
(* if it has, and otherwise goes back to Run().                            *)
LeaveJoin ==
  /\ run = "watch"
  /\ slice = 0
  /\ IF thread[num_try] \in Exceptions
     THEN run' = "caught" /\ verdict' = thread[num_try]
     ELSE run' = "alive?" /\ UNCHANGED verdict
  /\ UNCHANGED <<num_try, slice, age, threads>>

(* thread.join(0.1), then isAlive(); once it is not, the exception.        *)
Join ==
  /\ run = "join"
  /\ CASE IsAlive(num_try) -> run' = "watch" /\ UNCHANGED verdict
       [] thread[num_try] \in Exceptions ->
            run' = "caught" /\ verdict' = thread[num_try]
       [] OTHER -> run' = "alive?" /\ UNCHANGED verdict
  /\ UNCHANGED <<num_try, slice, age, threads>>

(* thread_group.IsAlive(): join again, or GetAllReturnValues()[0], which   *)
(* reraises what the thread threw since.                                   *)
AskAlive ==
  /\ run = "alive?"
  /\ \/ IsAlive(num_try) /\ run' = "watch" /\ slice' = Slice /\ UNCHANGED verdict
     \/ /\ ~IsAlive(num_try)
        /\ verdict' = thread[num_try]
        /\ run' = IF thread[num_try] \in Exceptions THEN "caught" ELSE "returned"
        /\ UNCHANGED slice
  /\ UNCHANGED <<num_try, age, threads>>

(* The two except clauses: raise, or the next attempt.                     *)
RetryOrRaise ==
  /\ run = "caught"
  /\ IF num_try > Retries \/ verdict \notin Retried
     THEN run' = "raised" /\ UNCHANGED num_try
     ELSE run' = "start" /\ num_try' = num_try + 1
  /\ UNCHANGED <<slice, verdict, age, threads>>

----------------------------------------------------------------------------

(* The thread of an attempt, in WaitFor().                                 *)
Asked(i) ==
  /\ thread[i] = "asks"
  /\ tries' = [tries EXCEPT ![i] = IF MaxTries = 0 THEN 0 ELSE @ + 1]
  /\ late' = [late EXCEPT ![i] = IF Timeout # 0 /\ age[i] > Timeout /\ @ < 2
                                 THEN @ + 1 ELSE @]
  /\ UNCHANGED <<caller, age>>

(* condition() is true: its value is returned.                             *)
Met(i) ==
  /\ Asked(i)
  /\ thread' = [thread EXCEPT ![i] = "value"]
  /\ UNCHANGED nap

(* condition() throws.                                                     *)
Throws(i) ==
  /\ Asked(i)
  /\ thread' = [thread EXCEPT ![i] = "error"]
  /\ UNCHANGED nap

(* condition() is false: GetRemainingTime(wait_period) raises TimeoutError *)
(* or WaitFor() sleeps for wait_period.                                    *)
NotMet(i) ==
  /\ Asked(i)
  /\ IF RemainingBelow(i, Period)
     THEN thread' = [thread EXCEPT ![i] = "timeout"] /\ UNCHANGED nap
     ELSE /\ thread' = [thread EXCEPT ![i] = "sleeps"]
          /\ nap' = [nap EXCEPT ![i] = Period]

(* Awake: the next round, or None after max_tries.                         *)
Wakes(i) ==
  /\ thread[i] = "sleeps"
  /\ nap[i] = 0
  /\ thread' = [thread EXCEPT ![i] = IF MaxTries # 0 /\ tries[i] >= MaxTries
                                     THEN "nothing" ELSE "asks"]
  /\ UNCHANGED <<caller, age, nap, tries, late>>

----------------------------------------------------------------------------

Less(n) == IF n > 0 THEN n - 1 ELSE 0

Tick ==
  /\ age' = [i \in Attempts |-> IF thread[i] = "none" \/ age[i] > Timeout
                                THEN age[i] ELSE age[i] + 1]
  /\ nap' = [i \in Attempts |-> Less(nap[i])]
  /\ slice' = Less(slice)
  /\ UNCHANGED <<num_try, run, verdict, thread, tries, late>>

Caller == StartAttempt \/ Watch \/ LeaveJoin \/ Join \/ AskAlive \/ RetryOrRaise
Thread(i) == Met(i) \/ Throws(i) \/ NotMet(i) \/ Wakes(i)

Next ==
  \/ StartAttempt
  \/ Watch
  \/ LeaveJoin
  \/ Join
  \/ AskAlive
  \/ RetryOrRaise
  \/ \E i \in Attempts : Met(i) \/ Throws(i) \/ NotMet(i) \/ Wakes(i)
  \/ Tick

Spec == Init /\ [][Next]_vars

(* Time passes and the calling thread runs; it is not for ever sixty       *)
(* seconds late for its look at the watchdog (strong fairness of Watch).   *)
(* A thread runs too, unless the device leaves it without an answer.       *)
Fairness ==
  /\ WF_vars(Tick)
  /\ WF_vars(Caller)
  /\ SF_vars(Watch)
  /\ \A i \in Attempts : WF_vars(Wakes(i)) /\ (~Hangs => WF_vars(Thread(i)))

----------------------------------------------------------------------------

TypeOK ==
  /\ num_try \in Attempts
  /\ run \in {"start", "watch", "join", "alive?", "caught", "returned", "raised"}
  /\ slice \in 0..Slice
  /\ thread \in [Attempts -> {"none", "asks", "sleeps"} \cup Exceptions \cup Results]
  /\ age \in [Attempts -> 0..(Timeout + 1)]
  /\ nap \in [Attempts -> 0..Period]
  /\ tries \in [Attempts -> 0..MaxTries]
  /\ verdict \in {"none"} \cup Exceptions \cup Results
  /\ late \in [Attempts -> 0..2]

(* A second attempt runs beside an earlier one only when the deadline of   *)
(* the earlier one has passed (the except clauses of Run()): short of      *)
(* that, an action on the device is never under way twice.                 *)
OverlapOnlyWhenLate ==
  \A i \in Attempts :
    (i # num_try /\ IsAlive(i)) => (Timeout # 0 /\ age[i] > Timeout)

(* An attempt that has been abandoned meddles no longer than one question: *)
(* WaitFor() asks the device at most once after the deadline.              *)
AbandonedAsksOnce == \A i \in Attempts : late[i] <= 1

(* Run() has the last word of the last attempt: what it returns is the     *)
(* value of the attempt it watched, no attempt was started after one that  *)
(* returned in time, and what it raises was not to be retried or was the   *)
(* last.                                                                   *)
LastWord ==
  /\ run = "returned" => /\ verdict = thread[num_try]
                         /\ verdict \in Results
  /\ run = "raised" => /\ verdict \in Exceptions
                       /\ num_try = Retries + 1 \/ verdict \notin Retried
  /\ \A i \in Attempts : (i < num_try /\ thread[i] \in Results) => age[i] > Timeout

(* Run() has not come to an end; with a timeout it does even if the device *)
(* never answers.                                                          *)
StillRuns == run \notin {"returned", "raised"}

(* No thread is left behind for ever: as long as the device answers, an    *)
(* abandoned attempt ends too, whatever the answers are.                   *)
ThreadsEnd == \A i \in Attempts : IsAlive(i) ~> ~IsAlive(i)

----------------------------------------------------------------------------
(***************************************************************************)
(* A ReraiserThreadGroup of devil.utils.reraiser_thread inside a thread    *)
(* that already has a deadline: the body of a device method that was       *)
(* called with a timeout starts threads of its own, by RunAsync() or by a  *)
(* Parallelizer, and each of them calls another method that is decorated   *)
(* with a timeout and retries.  The decorator asks for the timeout group   *)
(* that owns, or is blocked on, the thread it runs in, and wraps the call  *)
(* in a timeout of its own only when there is none.                        *)
(***************************************************************************)

CONSTANTS
  N,           \* threads in the group
  GroupRetries,  \* of the decorated method
  Kinds,       \* ways the group may be started: of {"async", "map"}
  GroupHangs   \* TRUE when the method may never return

ThreadGroupAssumption ==
  /\ N \in Nat \ {0}
  /\ GroupRetries \in Nat
  /\ Kinds \subseteq {"async", "map"}
  /\ GroupHangs \in BOOLEAN

VARIABLES
  kind,        \* how the group was started, or "none"
  link,        \* blocked_parent_thread_group of the group
  groupCaller,  \* where the thread that owns the group is
  joined,      \* the threads _JoinAll() has taken from its list
  groupThread,  \* thread[i]: what thread i does or how it ended
  attempts,    \* attempts[i]: times the method was called in thread i
  expired,     \* the deadline of the outer group has passed
  groupVerdict  \* what the owner got

groupVars == <<kind, link, groupCaller, joined, groupThread, attempts, expired, groupVerdict>>
owner == <<kind, link, groupCaller, joined, groupVerdict>>

Threads == 1..N
GroupExceptions == {"error", "timeout"}
Ended(i) == groupThread[i] \in {"value"} \cup GroupExceptions

(* The exception that a loop over the threads in their order reraises, or  *)
(* "value" when there is none: the tail of _JoinAll().                     *)
Reraised ==
  LET thrown == {i \in Threads : groupThread[i] \in GroupExceptions}
  IN  IF thrown = {} THEN "value"
      ELSE groupThread[CHOOSE i \in thrown : \A j \in thrown : i <= j]

GroupInit ==
  /\ kind = "none"
  /\ link = "none"
  /\ groupCaller = "idle"
  /\ joined = {}
  /\ groupThread = [i \in Threads |-> "new"]
  /\ attempts = [i \in Threads |-> 0]
  /\ expired = FALSE
  /\ groupVerdict = "none"

----------------------------------------------------------------------------

(* RunAsync() starts the threads with will_block and joins them at once;   *)
(* pMap() and the calls of a Parallelizer start them without will_block.   *)
StartAll(k) ==
  /\ groupCaller = "idle"
  /\ kind' = k
  /\ link' = IF k = "async" THEN "outer" ELSE link
  /\ groupThread' = [i \in Threads |-> "begins"]
  /\ groupCaller' = IF k = "async" THEN "joins" ELSE "started"
  /\ UNCHANGED <<joined, attempts, expired, groupVerdict>>

(* pFinish(timeout): JoinAll() with neither watcher nor timeout.           *)
PFinish ==
  /\ groupCaller = "started"
  /\ groupCaller' = "joins"
  /\ UNCHANGED <<kind, link, joined, groupThread, attempts, expired, groupVerdict>>

(* thread.join(0.1) finds thread i ended.                                  *)
GroupJoin(i) ==
  /\ groupCaller = "joins"
  /\ i \notin joined
  /\ Ended(i)
  /\ joined' = joined \cup {i}
  /\ UNCHANGED <<kind, link, groupCaller, groupThread, attempts, expired, groupVerdict>>

(* No thread is left: the first exception, or the values, and the link is  *)
(* cut.                                                                    *)
JoinedAll ==
  /\ groupCaller = "joins"
  /\ joined = Threads
  /\ groupVerdict' = Reraised
  /\ groupCaller' = IF Reraised = "value" THEN "returned" ELSE "raised"
  /\ link' = "none"
  /\ UNCHANGED <<kind, joined, groupThread, attempts, expired>>

----------------------------------------------------------------------------

(* CurrentTimeoutThreadGroup() in a thread of the group: the group has no  *)
(* timeout; the group it is linked to has.                                 *)
CurrentTimeoutThreadGroup == link

(* timeout_retry_wrapper(): the method itself when a timeout group is      *)
(* found, a Run() of its own otherwise.                                    *)
Calls(i) ==
  /\ groupThread[i] = "begins"
  /\ groupThread' = [groupThread EXCEPT ![i] = IF CurrentTimeoutThreadGroup = "outer"
                                               THEN "governed" ELSE "alone"]
  /\ attempts' = [attempts EXCEPT ![i] = 1]
  /\ UNCHANGED <<owner, expired>>

Returns(i) ==
  /\ groupThread[i] \in {"governed", "alone"}
  /\ groupThread' = [groupThread EXCEPT ![i] = "value"]
  /\ UNCHANGED <<owner, attempts, expired>>

(* The method throws, or runs out of time: alone, Run() tries again.       *)
GroupThrows(i, e) ==
  /\ IF groupThread[i] = "alone" /\ attempts[i] <= GroupRetries
     THEN /\ attempts' = [attempts EXCEPT ![i] = @ + 1]
          /\ UNCHANGED groupThread
     ELSE /\ groupThread' = [groupThread EXCEPT ![i] = e]
          /\ UNCHANGED attempts
  /\ UNCHANGED <<owner, expired>>

Fails(i) == groupThread[i] \in {"governed", "alone"} /\ GroupThrows(i, "error")

(* Mutant: only a thread with a watchdog of its own is timed out.          *)
GovernedTimesOutAlone(i) == groupThread[i] = "alone" /\ expired /\ GroupThrows(i, "timeout")

(* The deadline: of the outer group for a governed thread, whose WaitFor() *)
(* raises; of its own watchdog for one that is alone, which needs no       *)
(* answer of the method.                                                   *)
GovernedTimesOut(i) == groupThread[i] = "governed" /\ expired /\ GroupThrows(i, "timeout")
AloneTimesOut(i) == groupThread[i] = "alone" /\ GroupThrows(i, "timeout")

Expires ==
  /\ ~expired
  /\ expired' = TRUE
  /\ UNCHANGED <<owner, groupThread, attempts>>

Finished ==
  /\ groupCaller \in {"returned", "raised"}
  /\ UNCHANGED groupVars

GroupNext ==
  \/ \E k \in Kinds : StartAll(k)
  \/ PFinish
  \/ \E i \in Threads : GroupJoin(i)
  \/ JoinedAll
  \/ \E i \in Threads : \/ Calls(i)
                        \/ Returns(i)
                        \/ Fails(i)
                        \/ GovernedTimesOut(i)
                        \/ AloneTimesOut(i)
  \/ Expires
  \/ Finished

GroupSpec == GroupInit /\ [][GroupNext]_groupVars

(* The owner runs, threads run, deadlines pass; a hanging method leaves    *)
(* its thread where it is, unless it spends its time in WaitFor().         *)
GroupFairness ==
  /\ WF_groupVars(PFinish)
  /\ WF_groupVars(\E i \in Threads : GroupJoin(i))
  /\ WF_groupVars(JoinedAll)
  /\ WF_groupVars(Expires)
  /\ \A i \in Threads : /\ WF_groupVars(Calls(i))
                        /\ ~GroupHangs => /\ WF_groupVars(GovernedTimesOut(i))
                                          /\ WF_groupVars(AloneTimesOut(i))

----------------------------------------------------------------------------

GroupTypeOK ==
  /\ kind \in {"none", "async", "map"}
  /\ link \in {"none", "outer"}
  /\ groupCaller \in {"idle", "started", "joins", "returned", "raised"}
  /\ joined \subseteq Threads
  /\ groupThread \in [Threads -> {"new", "begins", "governed", "alone", "value"} \cup GroupExceptions]
  /\ attempts \in [Threads -> 0..(GroupRetries + 1)]
  /\ expired \in BOOLEAN
  /\ groupVerdict \in {"none", "value"} \cup GroupExceptions

(* "All threads are allowed to complete before reraising exceptions"       *)
(* (_JoinAll()): whoever got a result of the group shares the device with  *)
(* none of its threads any more, and has the first exception by order.     *)
AllCompleteFirst ==
  groupCaller \in {"returned", "raised"} =>
         /\ \A i \in Threads : Ended(i)
         /\ \A i \in Threads :
              (groupThread[i] \in GroupExceptions /\ \A j \in 1..(i - 1) : groupThread[j] = "value")
                     => groupVerdict = groupThread[i]

(* Timeouts do not nest: what RunAsync() runs below a timeout group is     *)
(* never retried on its own, whenever it looks for that group              *)
(* (timeout_retry_wrapper() and CurrentTimeoutThreadGroup()).              *)
NoRetryInside ==
  kind = "async" => \A i \in Threads : attempts[i] <= 1 /\ groupThread[i] # "alone"

(* The outer deadline has passed and the owner is in RunAsync(). *)
OwnerOverdue == expired /\ groupCaller = "joins"

----------------------------------------------------------------------------
(***************************************************************************)
(* devil.utils.parallelizer: one caller who treats a list of devices as if *)
(* it were one device.  A call on a Parallelizer starts a thread for each  *)
(* device and gives back another Parallelizer, which holds the group of    *)
(* threads until somebody asks it for anything.  The synchronous kind      *)
(* joins the group before it returns, and is also a context manager.       *)
(***************************************************************************)

CONSTANTS
  Devices,     \* the objects, 1 .. n, in the order of the list
  Sync,        \* TRUE: a SyncParallelizer
  Chains,      \* TRUE: the caller always goes on with what the last call gave
  MaxCalls     \* bound: calls in all

ParallelizerAssumption ==
  /\ Sync \in BOOLEAN /\ Chains \in BOOLEAN
  /\ MaxCalls \in Nat \ {0}

VARIABLES
  pc,          \* where the caller is
  calls,       \* groups started so far
  op,          \* op[g]: what group g calls
  parThread,   \* thread[g][d]: what the thread of device d does, or how it ended
  objs,        \* _objs of the Parallelizer the caller holds: a group, or 0
  next,        \* the call that waits for pGet(None)
  entered,     \* the devices whose context is entered
  told,        \* what was raised to the caller: a group, or 0
  failed       \* the body of the with statement raised

parVars == <<pc, calls, op, parThread, objs, next, entered, told, failed>>

Groups == 1..MaxCalls
Ops == {"__enter__", "call", "pMap", "__exit__"}
Alive(g) == \E d \in Devices : parThread[g][d] = "runs"
Threw(g) == \E d \in Devices : parThread[g][d] = "threw"

ParTypeOK ==
  /\ pc \in {"out", "waits", "joins", "in", "typeError", "ended"}
  /\ calls \in 0..MaxCalls
  /\ op \in [Groups -> Ops \cup {"none"}]
  /\ parThread \in [Groups -> [Devices -> {"none", "runs", "value", "threw"}]]
  /\ objs \in 0..calls /\ told \in 0..calls
  /\ next \in Ops \cup {"none"}
  /\ entered \subseteq Devices
  /\ failed \in BOOLEAN
  /\ Sync => objs = 0 \/ pc \in {"joins", "ended"}

ParInit ==
  /\ pc = IF Sync THEN "out" ELSE "in"
  /\ calls = 0
  /\ op = [g \in Groups |-> "none"]
  /\ parThread = [g \in Groups |-> [d \in Devices |-> "none"]]
  /\ objs = 0
  /\ next = "none"
  /\ entered = {}
  /\ told = 0
  /\ failed = FALSE

----------------------------------------------------------------------------

(* A ReraiserThreadGroup of one thread for each device is made and         *)
(* started; the Parallelizer that is returned holds it.  The synchronous   *)
(* kind goes on to pFinish(None).                                          *)
ParStartAll(o) ==
  /\ calls < MaxCalls
  /\ calls' = calls + 1
  /\ op' = [op EXCEPT ![calls + 1] = o]
  /\ parThread' = [parThread EXCEPT ![calls + 1] = [d \in Devices |-> "runs"]]
  /\ objs' = calls + 1
  /\ next' = "none"
  /\ pc' = IF Sync THEN "joins" ELSE "in"

(* __enter__(): the bound methods of the original objects are called.      *)
Enter ==
  /\ pc = "out"
  /\ ParStartAll("__enter__")
  /\ UNCHANGED <<entered, told, failed>>

(* A call in the body, of an attribute of the Parallelizer h, the original *)
(* one or what the last call gave: __getattr__() and __call__() both begin *)
(* with pGet(None), which waits for the group that h holds.                *)
Call(h) ==
  /\ pc = "in"
  /\ Chains => h = objs
  /\ h \in {0, objs}
  /\ calls < IF Sync THEN MaxCalls - 1 ELSE MaxCalls
  /\ IF h = 0
     THEN ParStartAll("call")
     ELSE /\ pc' = "waits"
          /\ next' = "call"
          /\ UNCHANGED <<calls, op, parThread, objs>>
  /\ UNCHANGED <<entered, told, failed>>

(* pMap(f) zips the objects that h holds without pGet(): a group of        *)
(* threads cannot be iterated over.                                        *)
PMap(h) ==
  /\ pc = "in"
  /\ Chains => h = objs
  /\ h \in {0, objs}
  /\ calls < IF Sync THEN MaxCalls - 1 ELSE MaxCalls
  /\ IF h = 0
     THEN ParStartAll("pMap")
     ELSE /\ pc' = "typeError"
          /\ UNCHANGED <<calls, op, parThread, objs, next>>
  /\ UNCHANGED <<entered, told, failed>>

(* pGet(None): pFinish() joins every thread, reraises the first exception, *)
(* and replaces the group by its values; then the call that waited starts. *)
(* The first thread that threw is the first of the list, not of the clock. *)
PGet ==
  /\ pc = "waits"
  /\ ~Alive(objs)
  /\ IF Threw(objs)
     THEN /\ told' = objs
          /\ pc' = "ended"
          /\ UNCHANGED <<calls, op, parThread, objs, next>>
     ELSE ParStartAll(next) /\ UNCHANGED told
  /\ UNCHANGED <<entered, failed>>

(* SyncParallelizer: pFinish(None) before the call returns.  An exception  *)
(* of a call in the body makes the with statement call __exit__(); one of  *)
(* __enter__() does not, and one of __exit__() ends the statement.         *)
ParPFinish ==
  /\ pc = "joins"
  /\ ~Alive(objs)
  /\ told' = IF Threw(objs) /\ told = 0 THEN objs ELSE told
  /\ IF op[objs] = "__exit__" \/ (Threw(objs) /\ op[objs] = "__enter__")
     THEN pc' = "ended" ELSE pc' = "in"
  /\ objs' = 0
  /\ failed' = (failed \/ (Threw(objs) /\ op[objs] \in {"call", "pMap"}))
  /\ UNCHANGED <<calls, op, parThread, next, entered>>

(* __exit__(): of the original objects, with the exception of the body.    *)
Exit ==
  /\ pc = "in" /\ Sync
  /\ ParStartAll("__exit__")
  /\ UNCHANGED <<entered, told, failed>>

(* The caller of the asynchronous kind is done; nothing makes him ask for  *)
(* the results of the last group.                                          *)
Leave ==
  /\ pc = "in" /\ ~Sync
  /\ pc' = "ended"
  /\ UNCHANGED <<calls, op, parThread, objs, next, entered, told, failed>>

----------------------------------------------------------------------------

(* ReraiserThread.run() of device d in group g: a value or an exception is *)
(* kept.  What throws in __enter__() is not entered; what throws in        *)
(* __exit__() is left nevertheless.                                        *)
Run(g, d, how) ==
  /\ parThread[g][d] = "runs"
  /\ parThread' = [parThread EXCEPT ![g][d] = how]
  /\ entered' = CASE op[g] = "__enter__" /\ how = "value" -> entered \cup {d}
                  [] op[g] = "__exit__" -> entered \ {d}
                  [] OTHER -> entered
  /\ UNCHANGED <<pc, calls, op, objs, next, told, failed>>

ParCaller ==
  \/ Enter
  \/ pc = "in" /\ ~failed /\ \E h \in {0, objs} : Call(h) \/ PMap(h)
  \/ PGet \/ ParPFinish \/ Exit \/ Leave

ParNext ==
  \/ ParCaller
  \/ \E g \in Groups, d \in Devices, how \in {"value", "threw"} : Run(g, d, how)

(* The methods that are called end; the caller goes on.                    *)
ParSpec == ParInit /\ [][ParNext]_parVars /\ WF_parVars(ParCaller)
           /\ \A g \in Groups, d \in Devices : WF_parVars(\E how \in {"value", "threw"} : Run(g, d, how))

----------------------------------------------------------------------------

(* A call begins on any device only when the calls before it have ended on *)
(* every device: the list moves in step, as one device would.              *)
InStep ==
  calls' > calls => \A g \in Groups : ~Alive(g)

(* Nothing that was raised on a device is lost: when the caller is done,   *)
(* an exception of any thread was raised to him.                           *)
ErrorsTold ==
  pc = "ended" => ((\E g \in Groups : Threw(g)) => told # 0)

(* What the with statement entered it leaves, if every device could be     *)
(* entered, whatever the body raised.                                      *)
LeftWhenBodyRan ==
  (pc = "ended" /\ \A g \in Groups : op[g] = "__enter__" => ~Threw(g)) => entered = {}

(* The with statement has not ended; no join is to wait for a thread that  *)
(* the failure of another device has stopped.                              *)
InStatement == Sync /\ pc # "ended"
==============================================================================
