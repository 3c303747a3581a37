------------------------- MODULE DevilThreads_proofs -------------------------
(***************************************************************************)
(* Proofs about DevilThreads and HostLocks: threads, retries and groups,   *)
(* ports, the lock of a path and the clock, for any number of each, any    *)
(* limits, deaths, resets and failures, and every width of the word.       *)
(***************************************************************************)
EXTENDS DevilThreads, HostLocks, WellFoundedInduction, TLAPS

Overdue(i) == Timeout # 0 /\ age[i] > Timeout

(* Attempts are started one after the other.                               *)
StartedInv ==
  /\ \A i \in Attempts : i > num_try => thread[i] = "none"
  /\ thread[num_try] = "none" <=> run = "start"

(* An attempt is left behind when it has thrown or is overdue.             *)
PastInv ==
  /\ \A i \in Attempts : i < num_try => thread[i] \in Exceptions \/ Overdue(i)
  /\ run \in {"caught", "raised"} =>
       /\ thread[num_try] \in Exceptions \/ Overdue(num_try)
       /\ verdict \in Exceptions

(* What WaitFor() has asked: the last question allowed is the last, and    *)
(* the first one after the deadline is.                                    *)
AskedInv ==
  \A i \in Attempts :
    /\ thread[i] = "none" => tries[i] = 0
    /\ thread[i] = "asks" /\ MaxTries # 0 => tries[i] < MaxTries
    /\ thread[i] = "none" \/ IsAlive(i) => late[i] = 0

RetryInv ==
  TypeOK /\ StartedInv /\ PastInv /\ AskedInv /\ AbandonedAsksOnce /\ LastWord

LEMMA InitRetry == ASSUME TimeoutRetryAssumption PROVE Init => RetryInv
  BY DEF TimeoutRetryAssumption, Init, RetryInv, TypeOK, StartedInv, PastInv, AskedInv,
     AbandonedAsksOnce, LastWord, Overdue, IsAlive, Attempts, Exceptions, Results

(* The calling thread leaves the threads of the attempts as they are.      *)
LEMMA CallerStep ==
  ASSUME TimeoutRetryAssumption, RetryInv,
         Watch \/ LeaveJoin \/ Join \/ AskAlive \/ RetryOrRaise
  PROVE  RetryInv'
<1> USE DEF TimeoutRetryAssumption, RetryInv, Overdue, IsAlive, Exceptions, Results
<1>1. UNCHANGED <<age, thread, nap, tries, late>>
  BY DEF Watch, LeaveJoin, Join, AskAlive, RetryOrRaise, threads
<1>2. AskedInv' /\ AbandonedAsksOnce'
  BY <1>1 DEF AskedInv, AbandonedAsksOnce
<1>3. /\ thread[num_try] \in {"none", "asks", "sleeps"} \cup Exceptions \cup Results
      /\ age[num_try] \in 0..(Timeout + 1)
      /\ run # "start" => thread[num_try] # "none"
  BY DEF TypeOK, StartedInv
<1>4. CASE Watch \/ LeaveJoin \/ Join \/ AskAlive
  <2>1. UNCHANGED num_try
    BY <1>4 DEF Watch, LeaveJoin, Join, AskAlive
  <2>2. slice' \in 0..Slice
    BY <1>4 DEF Watch, LeaveJoin, Join, AskAlive, TypeOK
  <2>3. /\ run # "start" /\ run' \in {"watch", "join", "alive?", "caught", "returned"}
        /\ verdict' \in {"none"} \cup Exceptions \cup Results
        /\ run' = "caught" => /\ thread[num_try] \in Exceptions \/ Overdue(num_try)
                              /\ verdict' \in Exceptions
        /\ run' = "returned" => verdict' = thread[num_try] /\ verdict' \in Results
    <3>1. CASE Watch
      BY <1>3, <3>1 DEF Watch, IsTimedOut, RemainingBelow, TypeOK
    <3>2. CASE LeaveJoin
      BY <3>2 DEF LeaveJoin, TypeOK
    <3>3. CASE Join
      BY <3>3 DEF Join, TypeOK
    <3>4. CASE AskAlive
      BY <1>3, <3>4 DEF AskAlive, TypeOK
    <3> QED
      BY <1>4, <3>1, <3>2, <3>3, <3>4
  <2>4. TypeOK'
    BY <1>1, <2>1, <2>2, <2>3 DEF TypeOK
  <2>5. StartedInv' /\ PastInv' /\ LastWord'
    BY <1>1, <2>1, <2>3 DEF StartedInv, PastInv, LastWord
  <2> QED
    BY <1>2, <2>4, <2>5
<1>5. CASE RetryOrRaise
  <2>1. run = "caught" /\ UNCHANGED <<slice, verdict>>
    BY <1>5 DEF RetryOrRaise
  <2>2. Retries \in Nat /\ num_try \in 1..(Retries + 1) /\ Attempts = 1..(Retries + 1)
    BY DEF TypeOK, Attempts
  <2>3. CASE num_try > Retries \/ verdict \notin Retried
    <3>1. run' = "raised" /\ UNCHANGED num_try
      BY <1>5, <2>3 DEF RetryOrRaise
    <3> QED
      <4>1. TypeOK' /\ StartedInv' /\ PastInv'
        BY <1>1, <2>1, <3>1 DEF TypeOK, StartedInv, PastInv
      <4>2. num_try > Retries => num_try = Retries + 1
        BY <2>2
      <4>3. LastWord'
        BY <1>1, <2>1, <2>3, <3>1, <4>2 DEF PastInv, LastWord
      <4> QED
        BY <1>2, <4>1, <4>3
  <2>4. CASE ~(num_try > Retries \/ verdict \notin Retried)
    <3>1. run' = "start" /\ num_try' = num_try + 1 /\ num_try' \in Attempts
      BY <1>5, <2>2, <2>4 DEF RetryOrRaise
    <3>2. TypeOK'
      BY <1>1, <2>1, <3>1 DEF TypeOK
    <3>3. StartedInv'
      BY <1>1, <2>2, <3>1 DEF StartedInv
    <3>4. PastInv'
      BY <1>1, <2>1, <2>2, <3>1 DEF PastInv
    <3>5. LastWord'
      <4>1. \A i \in Attempts : i < num_try' => i < num_try \/ i = num_try
        BY <2>2, <3>1
      <4> QED
        BY <1>1, <2>1, <3>1, <4>1 DEF LastWord, PastInv
    <3> QED
      BY <1>2, <3>2, <3>3, <3>4, <3>5
  <2> QED
    BY <2>3, <2>4
<1> QED
  BY <1>4, <1>5

(* A question is counted, and at most one is asked too late.               *)
LEMMA AskedStep ==
  ASSUME TimeoutRetryAssumption, RetryInv, NEW i \in Attempts, Asked(i)
  PROVE  /\ tries' \in [Attempts -> 0..MaxTries]
         /\ late' \in [Attempts -> 0..2]
         /\ late'[i] <= 1
         /\ \A j \in Attempts \ {i} : tries'[j] = tries[j] /\ late'[j] = late[j]
         /\ late'[i] = 1 => Overdue(i)
         /\ UNCHANGED <<num_try, run, slice, verdict, age>>
<1> USE DEF TimeoutRetryAssumption, RetryInv, TypeOK, AskedInv, IsAlive, Overdue
<1>1. thread[i] = "asks" /\ late[i] = 0 /\ tries[i] \in 0..MaxTries
  BY DEF Asked
<1>2. PICK n \in 0..MaxTries : tries' = [tries EXCEPT ![i] = n]
  <2>1. CASE MaxTries = 0
    BY <1>1, <2>1 DEF Asked
  <2>2. CASE MaxTries # 0
    <3>1. tries' = [tries EXCEPT ![i] = tries[i] + 1]
      BY <2>2 DEF Asked
    <3>2. tries[i] + 1 \in 0..MaxTries
      BY <1>1, <2>2
    <3> QED
      BY <3>1, <3>2
  <2> QED
    BY <2>1, <2>2
<1>3. PICK m \in 0..1 : late' = [late EXCEPT ![i] = m] /\ (m = 1 => Overdue(i))
  <2>1. CASE Overdue(i)
    <3>1. late' = [late EXCEPT ![i] = 1]
      BY <1>1, <2>1 DEF Asked
    <3> QED
      BY <2>1, <3>1
  <2>2. CASE ~Overdue(i)
    <3>1. late' = [late EXCEPT ![i] = 0]
      BY <1>1, <2>2 DEF Asked
    <3> QED
      BY <3>1
  <2> QED
    BY <2>1, <2>2
<1>4. UNCHANGED <<num_try, run, slice, verdict, age>>
  BY DEF Asked, caller
<1> QED
  BY <1>2, <1>3, <1>4

(* A question ends the thread, or lets it sleep when it is not overdue.    *)
LEMMA AnswerStep ==
  ASSUME TimeoutRetryAssumption, RetryInv, NEW i \in Attempts, Asked(i),
         NEW w \in {"sleeps", "value", "error", "timeout"},
         thread' = [thread EXCEPT ![i] = w], nap' \in [Attempts -> 0..Period],
         w = "sleeps" => ~Overdue(i)
  PROVE  RetryInv'
<1> USE DEF TimeoutRetryAssumption, RetryInv, Exceptions, Results, IsAlive, Overdue
<1>1. /\ thread[i] = "asks" /\ thread'[i] = w
      /\ \A j \in Attempts \ {i} : thread'[j] = thread[j]
      /\ thread' \in [Attempts -> {"none", "asks", "sleeps"} \cup Exceptions \cup Results]
  BY DEF Asked, TypeOK
<1>2. /\ tries' \in [Attempts -> 0..MaxTries] /\ late' \in [Attempts -> 0..2] /\ late'[i] <= 1
      /\ \A j \in Attempts \ {i} : tries'[j] = tries[j] /\ late'[j] = late[j]
      /\ late'[i] = 1 => Overdue(i)
      /\ UNCHANGED <<num_try, run, slice, verdict, age>>
  BY AskedStep
<1>3. TypeOK'
  BY <1>1, <1>2 DEF TypeOK
<1>4. StartedInv'
  BY <1>1, <1>2 DEF StartedInv, TypeOK
<1>5. PastInv'
  BY <1>1, <1>2 DEF PastInv, TypeOK
<1>6. AskedInv'
  BY <1>1, <1>2 DEF AskedInv, TypeOK
<1>7. AbandonedAsksOnce'
  BY <1>1, <1>2 DEF AbandonedAsksOnce
<1>8. LastWord'
  BY <1>1, <1>2 DEF LastWord, PastInv, TypeOK
<1> QED
  BY <1>3, <1>4, <1>5, <1>6, <1>7, <1>8

LEMMA WakeStep ==
  ASSUME TimeoutRetryAssumption, RetryInv, NEW i \in Attempts, Wakes(i)
  PROVE  RetryInv'
<1> USE DEF TimeoutRetryAssumption, RetryInv, Exceptions, Results, IsAlive, Overdue
<1>1. PICK w \in {"nothing", "asks"} :
        /\ thread' = [thread EXCEPT ![i] = w]
        /\ w = "asks" /\ MaxTries # 0 => tries[i] < MaxTries
  <2>1. tries[i] \in 0..MaxTries
    BY DEF TypeOK
  <2>2. CASE MaxTries # 0 /\ tries[i] >= MaxTries
    BY <2>2 DEF Wakes
  <2>3. CASE ~(MaxTries # 0 /\ tries[i] >= MaxTries)
    <3>1. thread' = [thread EXCEPT ![i] = "asks"]
      BY <2>3 DEF Wakes
    <3>2. MaxTries # 0 => tries[i] < MaxTries
      BY <2>1, <2>3
    <3> QED
      BY <3>1, <3>2
  <2> QED
    BY <2>2, <2>3
<1>2. /\ thread[i] = "sleeps" /\ thread'[i] = w
      /\ \A j \in Attempts \ {i} : thread'[j] = thread[j]
      /\ thread' \in [Attempts -> {"none", "asks", "sleeps"} \cup Exceptions \cup Results]
      /\ UNCHANGED <<num_try, run, slice, verdict, age, nap, tries, late>>
  BY <1>1 DEF Wakes, TypeOK, caller
<1>3. TypeOK'
  BY <1>2 DEF TypeOK
<1>4. StartedInv'
  BY <1>2 DEF StartedInv, TypeOK
<1>5. PastInv'
  BY <1>2 DEF PastInv, TypeOK
<1>6. AskedInv'
  BY <1>1, <1>2 DEF AskedInv, TypeOK
<1>7. AbandonedAsksOnce'
  BY <1>2 DEF AbandonedAsksOnce
<1>8. LastWord'
  BY <1>2 DEF LastWord, PastInv, TypeOK
<1> QED
  BY <1>3, <1>4, <1>5, <1>6, <1>7, <1>8

(* What is overdue stays so.                                               *)
LEMMA TickStep == ASSUME TimeoutRetryAssumption, RetryInv, Tick PROVE RetryInv'
<1> USE DEF TimeoutRetryAssumption, RetryInv, Exceptions, Results, IsAlive, Overdue
<1>1. age' \in [Attempts -> 0..(Timeout + 1)] /\ \A i \in Attempts : age'[i] >= age[i]
  <2>1. \A i \in Attempts : age[i] \in 0..(Timeout + 1)
    BY DEF TypeOK
  <2> QED
    BY <2>1 DEF Tick
<1>2. nap' \in [Attempts -> 0..Period] /\ slice' \in 0..Slice
  BY DEF Tick, Less, TypeOK
<1>3. UNCHANGED <<num_try, run, verdict, thread, tries, late>>
  BY DEF Tick
<1>4. TypeOK'
  BY <1>1, <1>2, <1>3 DEF TypeOK
<1>5. StartedInv' /\ AskedInv' /\ AbandonedAsksOnce'
  BY <1>3 DEF StartedInv, AskedInv, AbandonedAsksOnce
<1>6. PastInv' /\ LastWord'
  BY <1>1, <1>3 DEF PastInv, LastWord, TypeOK
<1> QED
  BY <1>4, <1>5, <1>6

LEMMA StepRetry ==
  ASSUME TimeoutRetryAssumption PROVE RetryInv /\ [Next]_vars => RetryInv'
<1> SUFFICES ASSUME RetryInv, [Next]_vars PROVE RetryInv'
  OBVIOUS
<1> USE DEF TimeoutRetryAssumption
<1>1. CASE UNCHANGED vars
  BY <1>1 DEF vars, RetryInv, TypeOK, StartedInv, PastInv, AskedInv, AbandonedAsksOnce,
     LastWord, Overdue, IsAlive
<1>2. CASE StartAttempt
  BY <1>2 DEF StartAttempt, RetryInv, TypeOK, StartedInv, PastInv, AskedInv,
     AbandonedAsksOnce, LastWord, Overdue, IsAlive, Attempts, Exceptions, Results
<1>3. CASE Watch \/ LeaveJoin \/ Join \/ AskAlive \/ RetryOrRaise
  BY <1>3, CallerStep
<1>4. ASSUME NEW i \in Attempts, Met(i) \/ Throws(i) \/ NotMet(i) PROVE RetryInv'
  <2>1. age[i] \in 0..(Timeout + 1) /\ nap \in [Attempts -> 0..Period] /\ Period \in Nat \ {0}
    BY DEF RetryInv, TypeOK
  <2>2. CASE Met(i) \/ Throws(i)
    BY <2>1, <2>2, AnswerStep DEF Met, Throws
  <2>3. CASE NotMet(i) /\ RemainingBelow(i, Period)
    BY <2>1, <2>3, AnswerStep DEF NotMet
  <2>4. CASE NotMet(i) /\ ~RemainingBelow(i, Period)
    <3>1. ~Overdue(i)
      BY <2>1, <2>4 DEF RemainingBelow, Overdue
    <3> QED
      BY <2>1, <2>4, <3>1, AnswerStep DEF NotMet
  <2> QED
    BY <1>4, <2>2, <2>3, <2>4
<1>5. ASSUME NEW i \in Attempts, Wakes(i) PROVE RetryInv'
  BY <1>5, WakeStep
<1>6. CASE Tick
  BY <1>6, TickStep
<1> QED
  BY <1>1, <1>2, <1>3, <1>4, <1>5, <1>6 DEF Next

LEMMA RetryIsInvariant == ASSUME TimeoutRetryAssumption PROVE Spec => []RetryInv
  BY InitRetry, StepRetry, PTL DEF Spec

(* A second attempt runs beside an earlier one only when the deadline of   *)
(* the earlier one has passed (Run()), for any timeout, number of retries  *)
(* and wait period.                                                        *)
THEOREM OverlapsAreLate ==
  ASSUME TimeoutRetryAssumption PROVE Spec => []OverlapOnlyWhenLate
<1>1. ASSUME RetryInv PROVE OverlapOnlyWhenLate
  <2> SUFFICES ASSUME NEW i \in Attempts, i # num_try, IsAlive(i)
               PROVE  Overdue(i)
    BY DEF OverlapOnlyWhenLate, Overdue
  <2>1. thread[i] # "none" /\ thread[i] \notin Exceptions
    BY DEF IsAlive, Exceptions
  <2>2. i < num_try
    BY <1>1, <2>1 DEF TimeoutRetryAssumption, RetryInv, TypeOK, StartedInv, Attempts
  <2> QED
    BY <1>1, <2>1, <2>2 DEF RetryInv, PastInv
<1> QED
  BY <1>1, RetryIsInvariant, PTL

(* An abandoned attempt asks the device at most once more: WaitFor() looks *)
(* at the watchdog of its own group before it sleeps.                      *)
THEOREM AbandonedAsksNoMore ==
  ASSUME TimeoutRetryAssumption PROVE Spec => []AbandonedAsksOnce
<1>1. RetryInv => AbandonedAsksOnce
  BY DEF RetryInv
<1> QED
  BY <1>1, RetryIsInvariant, PTL

(* Run() returns the value of the attempt it watched last, and raises only *)
(* after the last attempt or what is not to be retried.                    *)
THEOREM LastWordIsHad == ASSUME TimeoutRetryAssumption PROVE Spec => [](TypeOK /\ LastWord)
<1>1. RetryInv => TypeOK /\ LastWord
  BY DEF RetryInv
<1> QED
  BY <1>1, RetryIsInvariant, PTL

----------------------------------------------------------------------------

LessThan == {pair \in Nat \X Nat : pair[1] < pair[2]}

(* Numbers that are not none have a least one.                             *)
LEMMA Least ==
  ASSUME NEW S \in SUBSET Nat, S # {}
  PROVE  \E i \in S : \A j \in S : i <= j
<1>1. IsWellFoundedOn(LessThan, Nat)
  BY NatLessThanWellFounded DEF OpToRel, LessThan
<1>2. PICK i \in S : \A j \in S : ~(<<j, i>> \in LessThan)
  BY <1>1, WFMin
<1>3. ASSUME NEW j \in S PROVE i <= j
  <2>1. <<j, i>> \in Nat \X Nat /\ ~(<<j, i>> \in LessThan)
    BY <1>2
  <2>2. ~(j < i)
    BY <2>1 DEF LessThan
  <2> QED
    BY <2>2
<1> QED
  BY <1>3

(* What the tail of _JoinAll() reraises is the first exception in the      *)
(* order of the threads, if there is one.                                  *)
LEMMA ReraisedIsFirst ==
  ASSUME ThreadGroupAssumption, GroupTypeOK
  PROVE  /\ Reraised \in {"value"} \cup GroupExceptions
         /\ \A i \in Threads :
              (groupThread[i] \in GroupExceptions /\ \A j \in 1..(i - 1) : groupThread[j] = "value")
                => Reraised = groupThread[i]
<1> DEFINE thrown == {i \in Threads : groupThread[i] \in GroupExceptions}
<1>1. thrown \in SUBSET Nat
  BY DEF ThreadGroupAssumption, Threads
<1>2. CASE thrown = {}
  BY <1>2 DEF Reraised
<1>3. CASE thrown # {}
  <2> DEFINE first == CHOOSE i \in thrown : \A j \in thrown : i <= j
  <2>1. first \in thrown /\ \A j \in thrown : first <= j
    BY <1>1, <1>3, Least
  <2>2. Reraised = groupThread[first]
    BY <1>3 DEF Reraised
  <2> HIDE DEF first
  <2>3. ASSUME NEW i \in Threads, groupThread[i] \in GroupExceptions,
               \A j \in 1..(i - 1) : groupThread[j] = "value"
        PROVE  i = first
    <3>1. first <= i /\ first \in Nat /\ i \in Nat /\ first >= 1
      BY <1>1, <2>1, <2>3 DEF ThreadGroupAssumption, Threads
    <3>2. groupThread[first] # "value"
      BY <2>1 DEF GroupExceptions
    <3> QED
      BY <2>3, <3>1, <3>2
  <2> QED
    BY <2>1, <2>2, <2>3
<1> QED
  BY <1>2, <1>3

(* Where the owner is tells what has been started and joined.              *)
OwnerInv ==
  /\ groupCaller = "idle" <=> kind = "none"
  /\ link = "outer" <=> (kind = "async" /\ groupCaller = "joins")
  /\ \A i \in joined : Ended(i)
  /\ groupCaller \in {"returned", "raised"} => joined = Threads
  /\ groupCaller = "idle" => \A i \in Threads : groupThread[i] = "new"
  /\ groupCaller # "idle" => \A i \in Threads : groupThread[i] # "new"
  /\ kind = "async" => groupCaller \in {"joins", "returned", "raised"}

(* A thread that has not called yet has made no attempt.                   *)
AttemptsInv ==
  \A i \in Threads : groupThread[i] \in {"new", "begins"} => attempts[i] = 0

GroupInv == GroupTypeOK /\ OwnerInv /\ AttemptsInv /\ AllCompleteFirst /\ NoRetryInside

LEMMA InitGroup == ASSUME ThreadGroupAssumption PROVE GroupInit => GroupInv
<1> SUFFICES ASSUME GroupInit PROVE GroupInv
  OBVIOUS
<1>1. 0 \in 0..(GroupRetries + 1)
  BY DEF ThreadGroupAssumption
<1>2. GroupTypeOK
  BY <1>1 DEF GroupInit, GroupTypeOK
<1>3. OwnerInv /\ AttemptsInv /\ AllCompleteFirst /\ NoRetryInside
  BY DEF GroupInit, OwnerInv, AttemptsInv, AllCompleteFirst, NoRetryInside
<1> QED
  BY <1>2, <1>3 DEF GroupInv

(* Threads that have not ended may do what they like as long as what is    *)
(* governed makes one attempt.                                             *)
LEMMA MemberStep ==
  ASSUME ThreadGroupAssumption, GroupInv, NEW i \in Threads, ~Ended(i), groupThread[i] # "new",
         NEW w \in {"governed", "alone", "value"} \cup GroupExceptions,
         NEW n \in 0..(GroupRetries + 1),
         groupThread' = [groupThread EXCEPT ![i] = w], attempts' = [attempts EXCEPT ![i] = n],
         UNCHANGED <<kind, link, groupCaller, joined, groupVerdict, expired>>,
         kind = "async" => n <= 1 /\ w # "alone"
  PROVE  GroupInv'
<1> USE DEF GroupInv
<1>1. /\ groupThread' \in [Threads -> {"new", "begins", "governed", "alone", "value"} \cup GroupExceptions]
      /\ attempts' \in [Threads -> 0..(GroupRetries + 1)]
      /\ groupThread'[i] = w /\ attempts'[i] = n
      /\ \A j \in Threads \ {i} : groupThread'[j] = groupThread[j] /\ attempts'[j] = attempts[j]
  BY DEF GroupTypeOK, ThreadGroupAssumption
<1>2. i \notin joined /\ joined \subseteq Threads
  BY DEF OwnerInv, GroupTypeOK
<1>3. groupCaller \notin {"returned", "raised"}
  BY <1>2 DEF OwnerInv
<1>4. GroupTypeOK'
  BY <1>1 DEF GroupTypeOK
<1>5. OwnerInv'
  BY <1>1, <1>2 DEF OwnerInv, Ended, GroupExceptions
<1>6. AttemptsInv'
  BY <1>1 DEF AttemptsInv, GroupExceptions
<1>7. AllCompleteFirst'
  BY <1>3 DEF AllCompleteFirst
<1>8. NoRetryInside'
  BY <1>1 DEF NoRetryInside
<1> QED
  BY <1>4, <1>5, <1>6, <1>7, <1>8

LEMMA StepGroup ==
  ASSUME ThreadGroupAssumption PROVE GroupInv /\ [GroupNext]_groupVars => GroupInv'
<1> SUFFICES ASSUME GroupInv, [GroupNext]_groupVars PROVE GroupInv'
  OBVIOUS
<1> USE DEF ThreadGroupAssumption
<1>1. CASE UNCHANGED groupVars
  BY <1>1 DEF groupVars, GroupInv, GroupTypeOK, OwnerInv, AttemptsInv, AllCompleteFirst,
     NoRetryInside, Ended
<1>2. ASSUME NEW k \in Kinds, StartAll(k) PROVE GroupInv'
  BY <1>2 DEF StartAll, GroupInv, GroupTypeOK, OwnerInv, AttemptsInv, AllCompleteFirst,
     NoRetryInside, Ended, GroupExceptions
<1>3. CASE PFinish
  BY <1>3 DEF PFinish, GroupInv, GroupTypeOK, OwnerInv, AttemptsInv, AllCompleteFirst,
     NoRetryInside, Ended
<1>4. ASSUME NEW i \in Threads, GroupJoin(i) PROVE GroupInv'
  BY <1>4 DEF GroupJoin, GroupInv, GroupTypeOK, OwnerInv, AttemptsInv, AllCompleteFirst,
     NoRetryInside, Ended
<1>5. CASE JoinedAll
  <2>1. Reraised \in {"value"} \cup GroupExceptions
    BY ReraisedIsFirst DEF GroupInv
  <2>2. AllCompleteFirst'
    BY <1>5, ReraisedIsFirst DEF JoinedAll, GroupInv, OwnerInv, AllCompleteFirst, Ended
  <2> HIDE DEF ThreadGroupAssumption
  <2>3. GroupTypeOK' /\ OwnerInv' /\ AttemptsInv' /\ NoRetryInside'
    BY <1>5, <2>1 DEF JoinedAll, GroupInv, GroupTypeOK, OwnerInv, AttemptsInv, NoRetryInside, Ended
  <2> QED
    BY <2>2, <2>3 DEF GroupInv
<1>6. ASSUME NEW i \in Threads, Calls(i) PROVE GroupInv'
  <2>1. ~Ended(i) /\ groupThread[i] = "begins" /\ 1 \in 0..(GroupRetries + 1)
    BY <1>6 DEF Calls, Ended, GroupExceptions
  <2>2. kind = "async" => link = "outer"
    BY <2>1 DEF GroupInv, OwnerInv, GroupTypeOK
  <2>3. PICK w \in {"governed", "alone"} :
          groupThread' = [groupThread EXCEPT ![i] = w] /\ (kind = "async" => w # "alone")
    BY <1>6, <2>2 DEF Calls, CurrentTimeoutThreadGroup
  <2>4. /\ attempts' = [attempts EXCEPT ![i] = 1]
        /\ UNCHANGED <<kind, link, groupCaller, joined, groupVerdict, expired>>
    BY <1>6 DEF Calls, owner
  <2>5. w \in {"governed", "alone", "value"} \cup GroupExceptions /\ 1 <= 1 /\ groupThread[i] # "new"
    BY <2>1
  <2> QED
    BY <2>1, <2>3, <2>4, <2>5, MemberStep
<1>7. ASSUME NEW i \in Threads, NEW e \in GroupExceptions,
             groupThread[i] \in {"governed", "alone"}, GroupThrows(i, e) \/ Returns(i)
      PROVE  GroupInv'
  <2>1. /\ ~Ended(i) /\ attempts[i] \in 0..(GroupRetries + 1) /\ groupThread[i] # "new"
        /\ kind = "async" => attempts[i] <= 1 /\ groupThread[i] # "alone"
    BY <1>7 DEF Ended, GroupExceptions, GroupInv, GroupTypeOK, NoRetryInside
  <2>2. CASE Returns(i)
    <3>1. attempts' = [attempts EXCEPT ![i] = attempts[i]]
      BY <2>2 DEF Returns, GroupInv, GroupTypeOK
    <3> QED
      BY <2>1, <2>2, <3>1, MemberStep DEF Returns, owner
  <2>3. CASE GroupThrows(i, e) /\ groupThread[i] = "alone" /\ attempts[i] <= GroupRetries
    <3>1. /\ groupThread' = [groupThread EXCEPT ![i] = "alone"]
          /\ attempts' = [attempts EXCEPT ![i] = attempts[i] + 1]
          /\ attempts[i] + 1 \in 0..(GroupRetries + 1)
      BY <2>1, <2>3 DEF GroupThrows, GroupInv, GroupTypeOK
    <3> QED
      BY <2>1, <2>3, <3>1, MemberStep DEF GroupThrows, owner
  <2>4. CASE GroupThrows(i, e) /\ ~(groupThread[i] = "alone" /\ attempts[i] <= GroupRetries)
    <3>1. /\ groupThread' = [groupThread EXCEPT ![i] = e]
          /\ attempts' = [attempts EXCEPT ![i] = attempts[i]]
      BY <2>4 DEF GroupThrows, GroupInv, GroupTypeOK
    <3>2. e # "alone"
      BY DEF GroupExceptions
    <3> QED
      BY <2>1, <2>4, <3>1, <3>2, MemberStep DEF GroupThrows, owner
  <2> QED
    BY <1>7, <2>2, <2>3, <2>4
<1>8. CASE Expires
  BY <1>8 DEF Expires, owner, GroupInv, GroupTypeOK, OwnerInv, AttemptsInv, AllCompleteFirst,
     NoRetryInside, Ended
<1>9. CASE Finished
  BY <1>1, <1>9 DEF Finished
<1> QED
  BY <1>1, <1>2, <1>3, <1>4, <1>5, <1>6, <1>7, <1>8, <1>9
     DEF GroupNext, Fails, GovernedTimesOut, AloneTimesOut, Returns, GroupExceptions

LEMMA GroupIsInvariant == ASSUME ThreadGroupAssumption PROVE GroupSpec => []GroupInv
  BY InitGroup, StepGroup, PTL DEF GroupSpec

(* All threads of a group complete before an exception is reraised, and it *)
(* is the first one in the order of the threads (_JoinAll()), for any      *)
(* number of threads.                                                      *)
THEOREM GroupCompletes ==
  ASSUME ThreadGroupAssumption PROVE GroupSpec => [](GroupTypeOK /\ AllCompleteFirst)
<1>1. GroupInv => GroupTypeOK /\ AllCompleteFirst
  BY DEF GroupInv
<1> QED
  BY <1>1, GroupIsInvariant, PTL

(* Whenever a thread of RunAsync() looks for the group it is governed by,  *)
(* the link to it is there: no timeout is nested in the outer one.         *)
THEOREM NeverNested == ASSUME ThreadGroupAssumption PROVE GroupSpec => []NoRetryInside
<1>1. GroupInv => NoRetryInside
  BY DEF GroupInv
<1> QED
  BY <1>1, GroupIsInvariant, PTL

----------------------------------------------------------------------------

(* Where the caller is tells what it holds: the synchronous kind holds a   *)
(* group only while it joins it, the other kind knows no contexts.         *)
HeldInv ==
  /\ \A g \in Groups : g > calls => op[g] = "none" /\ \A d \in Devices : parThread[g][d] = "none"
  /\ Sync => (objs # 0 <=> pc = "joins") /\ pc \notin {"waits", "typeError"}
  /\ ~Sync => /\ pc \notin {"out", "joins"} /\ entered = {}
              /\ \A g \in Groups : op[g] \in {"none", "call", "pMap"}
              /\ pc = "waits" => next = "call" /\ objs # 0

(* Threads run in the group that is held, and in no other.                 *)
AliveInv == Sync \/ Chains => \A g \in Groups : Alive(g) => g = objs

(* What a group threw that has been joined was told.                       *)
ToldInv == Sync => \A g \in Groups : Threw(g) /\ g # objs => told # 0

(* While the devices are left, what is still entered still runs.           *)
LeftInv ==
  Sync => /\ pc = "joins" /\ op[objs] = "__exit__" =>
               \A d \in entered : parThread[objs][d] = "runs"
          /\ pc = "ended" =>
               entered = {} \/ \E g \in Groups : op[g] = "__enter__" /\ Threw(g)

ParInv == ParTypeOK /\ HeldInv /\ AliveInv /\ ToldInv /\ LeftInv

LEMMA InitPar == ASSUME ParallelizerAssumption PROVE ParInit => ParInv
<1> SUFFICES ASSUME ParInit PROVE ParInv
  OBVIOUS
<1>1. \A g \in Groups : ~Alive(g) /\ ~Threw(g)
  BY DEF ParInit, Alive, Threw
<1>2. ParTypeOK
  <2>1. parThread \in [Groups -> [Devices -> {"none", "runs", "value", "threw"}]]
    BY DEF ParInit
  <2>2. 0 \in 0..MaxCalls /\ 0 \in 0..0
    BY DEF ParallelizerAssumption
  <2> QED
    BY <2>1, <2>2 DEF ParInit, ParTypeOK
<1>3. HeldInv
  BY DEF ParallelizerAssumption, ParInit, HeldInv
<1> QED
  BY <1>1, <1>2, <1>3 DEF ParInit, ParInv, AliveInv, ToldInv, LeftInv

(* A group is started on all devices when no other runs.                   *)
LEMMA StartStep ==
  ASSUME ParallelizerAssumption, ParInv, NEW o \in Ops, ParStartAll(o),
         UNCHANGED <<entered, told, failed>>,
         Sync => objs = 0 /\ pc \in {"out", "in"},
         Sync \/ Chains => \A g \in Groups : ~Alive(g),
         ~Sync => o \in {"call", "pMap"}
  PROVE  ParInv'
<1> DEFINE n == calls + 1
<1> USE DEF ParallelizerAssumption, ParInv
<1>1. /\ n \in Groups /\ calls \in 0..MaxCalls /\ n \in Nat /\ n # 0 /\ calls' = n /\ objs' = n /\ next' = "none"
      /\ pc' = IF Sync THEN "joins" ELSE "in"
  BY DEF ParStartAll, ParTypeOK, Groups
<1>2. /\ op'[n] = o /\ \A d \in Devices : parThread'[n][d] = "runs"
      /\ \A g \in Groups \ {n} : op'[g] = op[g] /\ parThread'[g] = parThread[g]
      /\ op' \in [Groups -> Ops \cup {"none"}]
      /\ parThread' \in [Groups -> [Devices -> {"none", "runs", "value", "threw"}]]
  BY <1>1 DEF ParStartAll, ParTypeOK
<1> HIDE DEF n
<1>3. ~\E d \in Devices : parThread'[n][d] = "threw"
  BY <1>2
<1>4. \A g \in Groups \ {n} : (Alive(g)' <=> Alive(g)) /\ (Threw(g)' <=> Threw(g))
  BY <1>2 DEF Alive, Threw
<1>5. ParTypeOK'
  <2>1. told' \in 0..calls' /\ objs' \in 0..calls' /\ calls' \in 0..MaxCalls
    BY <1>1 DEF ParTypeOK, Groups, n
  <2> QED
    BY <1>1, <1>2, <2>1 DEF ParTypeOK
<1>6. HeldInv'
  <2>1. \A g \in Groups : g > n => g > calls /\ g # n
    BY <1>1 DEF Groups, n
  <2>2. \A g \in Groups : g > calls' =>
          op'[g] = "none" /\ \A d \in Devices : parThread'[g][d] = "none"
    BY <1>1, <1>2, <2>1 DEF HeldInv
  <2>3. ~Sync => entered' = {} /\ \A g \in Groups : op'[g] \in {"none", "call", "pMap"}
    BY <1>2 DEF HeldInv
  <2> QED
    BY <1>1, <2>2, <2>3 DEF HeldInv
<1>7. AliveInv'
  BY <1>1, <1>4 DEF AliveInv
<1>8. ToldInv'
  <2> SUFFICES ASSUME Sync, NEW g \in Groups, Threw(g)', g # n PROVE told' # 0
    BY <1>1 DEF ToldInv
  <2>1. Threw(g) /\ g # objs
    BY <1>4 DEF Groups
  <2> QED
    BY <2>1 DEF ToldInv
<1>9. LeftInv'
  <2>1. entered' \subseteq Devices
    BY DEF ParTypeOK
  <2> QED
    BY <1>1, <1>2, <2>1 DEF LeftInv
<1> QED
  BY <1>5, <1>6, <1>7, <1>8, <1>9

(* Whoever starts a group has no other that runs, unless the asynchronous  *)
(* kind is not chained.                                                    *)
LEMMA NoneRuns ==
  ASSUME ParallelizerAssumption, ParInv, Sync \/ Chains,
         \/ objs = 0
         \/ ~Alive(objs)
  PROVE  \A g \in Groups : ~Alive(g)
  BY DEF ParInv, AliveInv, Groups

LEMMA RunStep ==
  ASSUME ParallelizerAssumption, ParInv, NEW g \in Groups, NEW d \in Devices,
         NEW how \in {"value", "threw"}, Run(g, d, how)
  PROVE  ParInv'
<1> USE DEF ParallelizerAssumption, ParInv
<1>1. /\ parThread[g][d] = "runs" /\ parThread'[g][d] = how
      /\ \A h \in Groups, e \in Devices :
           h # g \/ e # d => parThread'[h][e] = parThread[h][e]
      /\ parThread' \in [Groups -> [Devices -> {"none", "runs", "value", "threw"}]]
      /\ UNCHANGED <<pc, calls, op, objs, next, told, failed>>
  BY DEF Run, ParTypeOK
<1>2. g <= calls 
  <2>1. g \in Nat /\ calls \in Nat
    BY DEF Groups, ParTypeOK
  <2>2. ~(g > calls)
    BY <1>1 DEF HeldInv
  <2> QED
    BY <2>1, <2>2
<1>3. Alive(g)
  BY <1>1 DEF Alive
<1>4. \A h \in Groups : /\ Alive(h)' => Alive(h)
                        /\ Threw(h) => Threw(h)'
                        /\ h # g => (Threw(h)' <=> Threw(h))
  BY <1>1 DEF Alive, Threw
<1>5. entered' \subseteq Devices /\ (op[g] # "__enter__" => entered' \subseteq entered)
      /\ (op[g] = "__exit__" => d \notin entered')
  BY DEF Run, ParTypeOK
<1>6. ParTypeOK'
  BY <1>1, <1>5 DEF ParTypeOK
<1>7. HeldInv'
  <2>1. \A h \in Groups : h > calls => h # g
    BY <1>2 DEF Groups, ParTypeOK
  <2>2. ~Sync => entered' = {}
    BY <1>5 DEF HeldInv
  <2> QED
    BY <1>1, <2>1, <2>2 DEF HeldInv
<1>8. AliveInv'
  BY <1>1, <1>4 DEF AliveInv
<1>9. Sync => g = objs /\ pc = "joins"
  BY <1>3 DEF AliveInv, HeldInv, Groups
<1>10. ToldInv'
  BY <1>1, <1>4, <1>9 DEF ToldInv
<1>11. LeftInv'
  BY <1>1, <1>5, <1>9 DEF LeftInv, ParTypeOK
<1> QED
  BY <1>6, <1>7, <1>8, <1>10, <1>11

(* The group has been joined: it is no longer held, and its first          *)
(* exception is told.                                                      *)
LEMMA FinishStep ==
  ASSUME ParallelizerAssumption, ParInv, ParPFinish PROVE ParInv'
<1> USE DEF ParallelizerAssumption, ParInv
<1>1. /\ pc = "joins" /\ ~Alive(objs) /\ objs' = 0 /\ pc' \in {"in", "ended"}
      /\ UNCHANGED <<calls, op, parThread, next, entered>>
      /\ told' = IF Threw(objs) /\ told = 0 THEN objs ELSE told
      /\ failed' \in BOOLEAN
      /\ pc' = "ended" => op[objs] = "__exit__" \/ (Threw(objs) /\ op[objs] = "__enter__")
  BY DEF ParPFinish, ParTypeOK
<1>2. Sync /\ objs # 0 /\ objs \in Groups
  BY <1>1 DEF HeldInv, ParTypeOK, Groups
<1>3. \A g \in Groups : (Alive(g)' <=> Alive(g)) /\ (Threw(g)' <=> Threw(g))
  BY <1>1 DEF Alive, Threw
<1>4. ParTypeOK'
  BY <1>1 DEF ParTypeOK
<1>5. HeldInv'
  BY <1>1, <1>2 DEF HeldInv
<1>6. AliveInv'
  BY <1>1, <1>2, <1>3 DEF AliveInv
<1>7. ToldInv'
  BY <1>1, <1>2, <1>3 DEF ToldInv
<1>8. LeftInv'
  <2>1. op[objs] = "__exit__" => entered = {}
    <3> SUFFICES ASSUME op[objs] = "__exit__", NEW d \in entered PROVE FALSE
      OBVIOUS
    <3>1. parThread[objs][d] = "runs" /\ d \in Devices
      BY <1>1, <1>2 DEF LeftInv, ParTypeOK
    <3> QED
      BY <1>1, <3>1 DEF Alive
  <2> QED
    BY <1>1, <1>2, <1>3, <2>1 DEF LeftInv
<1> QED
  BY <1>4, <1>5, <1>6, <1>7, <1>8

(* The steps of the caller that start nothing: it waits, is told, or goes. *)
LEMMA PauseStep ==
  ASSUME ParallelizerAssumption, ParInv, UNCHANGED <<calls, op, parThread, objs, entered, failed>>,
         ~Sync, pc' \in {"waits", "typeError", "ended"}, told' \in {told, objs},
         next' \in {next, "call"}, pc' = "waits" => next' = "call" /\ objs # 0
  PROVE  ParInv'
<1> USE DEF ParInv
<1>1. \A g \in Groups : Alive(g)' <=> Alive(g)
  BY DEF Alive
<1>2. ParTypeOK'
  BY DEF ParTypeOK, Ops
<1>3. HeldInv'
  BY DEF HeldInv
<1> QED
  BY <1>1, <1>2, <1>3 DEF AliveInv, ToldInv, LeftInv

LEMMA StepPar ==
  ASSUME ParallelizerAssumption PROVE ParInv /\ [ParNext]_parVars => ParInv'
<1> SUFFICES ASSUME ParInv, [ParNext]_parVars PROVE ParInv'
  OBVIOUS
<1> USE DEF ParallelizerAssumption
<1>0. {"call", "pMap", "__enter__", "__exit__"} \subseteq Ops
  BY DEF Ops
<1>a. /\ pc \in {"out", "in", "ended"} /\ Sync => objs = 0
      /\ pc = "out" => Sync
      /\ pc = "waits" => ~Sync /\ next = "call"
  BY DEF ParInv, HeldInv
<1>1. CASE UNCHANGED parVars
  <2>1. \A g \in Groups : (Alive(g)' <=> Alive(g)) /\ (Threw(g)' <=> Threw(g))
    BY <1>1 DEF parVars, Alive, Threw
  <2> QED
    BY <1>1, <2>1 DEF parVars, ParInv, ParTypeOK, HeldInv, AliveInv, ToldInv, LeftInv
<1>2. CASE Enter
  <2>1. Sync \/ Chains => \A g \in Groups : ~Alive(g)
    BY <1>2, <1>a, NoneRuns DEF Enter
  <2> QED
    BY <1>0, <1>2, <1>a, <2>1, StartStep DEF Enter
<1>3. ASSUME NEW h \in {0, objs}, pc = "in", Call(h) \/ PMap(h) PROVE ParInv'
  <2>1. Sync \/ Chains => h = objs
    BY <1>3, <1>a DEF Call, PMap
  <2>2. CASE h = 0
    <3>1. Sync \/ Chains => \A g \in Groups : ~Alive(g)
      BY <2>1, <2>2, NoneRuns
    <3>2. PICK o \in {"call", "pMap"} : ParStartAll(o) /\ UNCHANGED <<entered, told, failed>>
      BY <1>3, <2>2 DEF Call, PMap
    <3> QED
      BY <1>0, <1>3, <1>a, <3>1, <3>2, StartStep
  <2>3. CASE h # 0
    <3>1. ~Sync /\ h = objs
      BY <1>3, <1>a, <2>1, <2>3
    <3> QED
      BY <1>3, <2>3, <3>1, PauseStep DEF Call, PMap
  <2> QED
    BY <2>2, <2>3
<1>4. CASE PGet
  <2>1. ~Sync /\ next = "call"
    BY <1>4, <1>a DEF PGet
  <2>2. CASE Threw(objs)
    BY <1>4, <2>1, <2>2, PauseStep DEF PGet
  <2>3. CASE ~Threw(objs)
    <3>1. Sync \/ Chains => \A g \in Groups : ~Alive(g)
      BY <1>4, NoneRuns DEF PGet
    <3> QED
      BY <1>0, <1>4, <2>1, <2>3, <3>1, StartStep DEF PGet
  <2> QED
    BY <2>2, <2>3
<1>5. CASE ParPFinish
  BY <1>5, FinishStep
<1>6. CASE Exit
  <2>1. \A g \in Groups : ~Alive(g)
    BY <1>6, <1>a, NoneRuns DEF Exit
  <2> QED
    BY <1>0, <1>6, <1>a, <2>1, StartStep DEF Exit
<1>7. CASE Leave
  BY <1>7, PauseStep DEF Leave
<1>8. ASSUME NEW g \in Groups, NEW d \in Devices, NEW how \in {"value", "threw"}, Run(g, d, how)
      PROVE  ParInv'
  BY <1>8, RunStep
<1> QED
  BY <1>1, <1>2, <1>3, <1>4, <1>5, <1>6, <1>7, <1>8 DEF ParNext, ParCaller

LEMMA ParIsInvariant == ASSUME ParallelizerAssumption PROVE ParSpec => []ParInv
  BY InitPar, StepPar, PTL DEF ParSpec

(* Nothing that is raised on a device is lost to the caller of a           *)
(* SyncParallelizer, for any number of devices and calls.                  *)
THEOREM ErrorsAreTold ==
  ASSUME ParallelizerAssumption, Sync PROVE ParSpec => []ErrorsTold
<1>1. ParInv => ErrorsTold
  BY DEF ParInv, HeldInv, ToldInv, ErrorsTold, Groups
<1> QED
  BY <1>1, ParIsInvariant, PTL

(* What a with statement has entered on every device it leaves on every    *)
(* device, whatever the calls in the body raised.                          *)
THEOREM EnteredIsLeft ==
  ASSUME ParallelizerAssumption PROVE ParSpec => []LeftWhenBodyRan
<1>1. ParInv => LeftWhenBodyRan
  BY DEF ParInv, HeldInv, LeftInv, LeftWhenBodyRan
<1> QED
  BY <1>1, ParIsInvariant, PTL

(* A call begins on any device only when the calls before it have ended on *)
(* every device, for the synchronous kind and for calls that are chained.  *)
THEOREM DevicesInStep ==
  ASSUME ParallelizerAssumption, Sync \/ Chains PROVE ParSpec => [][InStep]_parVars
<1>1. ParInv /\ [ParNext]_parVars => [InStep]_parVars
  <2> SUFFICES ASSUME ParInv, ParNext, calls' > calls PROVE \A g \in Groups : ~Alive(g)
    BY DEF InStep
  <2>1. calls \in Nat /\ ~(calls > calls) /\ (Sync /\ pc \in {"out", "in"} => objs = 0) /\ (pc = "out" => Sync)
    BY DEF ParInv, ParTypeOK, HeldInv, ParallelizerAssumption
  <2>2. calls' # calls
    BY <2>1
  <2>3. objs = 0 \/ ~Alive(objs)
    BY <2>1, <2>2 DEF ParNext, ParCaller, Enter, Call, PMap, PGet, ParPFinish, Exit, Leave, Run
  <2> QED
    BY <2>3, NoneRuns
<1> QED
  BY <1>1, ParIsInvariant, PTL DEF ParSpec

----------------------------------------------------------------------------
(* Proofs, for any number of processes, any limits and any faults.         *)

Locked == {"read", "probe", "write", "unlock"}

(* The flock belongs to the process that is at work on the file.           *)
LockInv == \A p \in Procs : lock = p <=> portPc[p] \in Locked

(* What is probed is a port; what is given is within the limits.           *)
LimitsInv ==
  /\ Top \notin bound
  /\ \A p \in Procs :
       /\ portPc[p] = "read" => port[p] = 0
       /\ portPc[p] \in {"probe", "write"} => port[p] # 0
       /\ portPc[p] = "unlock" => port[p] \in {0} \cup FIRST..LAST
       /\ portPc[p] \in {"given", "serves"} => port[p] \in FIRST..LAST

(* Ports are given below the file and probed from it on.                   *)
BelowInv ==
  ~spoiled =>
    /\ file # Empty
    /\ \A p \in Procs :
         /\ portPc[p] \in {"probe", "write"} => file # Missing /\ file <= port[p]
         /\ portPc[p] \in {"unlock", "given"} => port[p] = 0 \/ (file # Missing /\ port[p] < file)

PortInv == PortTypeOK /\ LockInv /\ LimitsInv /\ BelowInv /\ OwnPort

LEMMA InitPort == ASSUME PortAssumption PROVE PortInit => PortInv
  BY DEF PortAssumption, PortInit, PortInv, PortTypeOK, LockInv, Locked, LimitsInv, BelowInv, OwnPort, Ports, Missing, Empty

LEMMA StepPort == ASSUME PortAssumption PROVE PortInv /\ [PortNext]_portVars => PortInv'
<1> SUFFICES ASSUME PortInv, [PortNext]_portVars PROVE PortInv'
  OBVIOUS
<1> USE DEF PortAssumption, PortInv, PortTypeOK, LockInv, Locked, LimitsInv, BelowInv, OwnPort, Ports, Missing, Empty
<1>1. CASE UNCHANGED portVars
  BY <1>1 DEF portVars
<1>2. ASSUME NEW p \in Procs, Lock(p) PROVE PortInv'
  BY <1>2 DEF Lock
<1>3. ASSUME NEW p \in Procs, Read(p) PROVE PortInv'
  <2> USE <1>3 DEF Read
  <2>1. PortTypeOK'
    OBVIOUS
  <2>2. LockInv'
    OBVIOUS
  <2>3. LimitsInv'
    <3>1. CASE file' = Empty
      BY <3>1
    <3>2. CASE file' # Empty
      <4>1. port' = [port EXCEPT ![p] = file'] /\ portPc' = [portPc EXCEPT ![p] = "probe"]
        BY <3>2
      <4> QED
        BY <3>2, <4>1
    <3> QED
      BY <3>1, <3>2
  <2>4. BelowInv'
    OBVIOUS
  <2>5. OwnPort'
    OBVIOUS
  <2> QED
    BY <2>1, <2>2, <2>3, <2>4, <2>5
<1>4. ASSUME NEW p \in Procs, Probe(p) PROVE PortInv'
  BY <1>4 DEF Probe
<1>5. ASSUME NEW p \in Procs, Write(p) PROVE PortInv'
  BY <1>5 DEF Write
<1>6. ASSUME NEW p \in Procs, WriteFails(p) PROVE PortInv'
  BY <1>6 DEF WriteFails
<1>7. ASSUME NEW p \in Procs, NoneLeft(p) PROVE PortInv'
  BY <1>7 DEF NoneLeft
<1>8. ASSUME NEW p \in Procs, Unlock(p) PROVE PortInv'
  BY <1>8 DEF Unlock
<1>9. ASSUME NEW p \in Procs, Serves(p) PROVE PortInv'
  <2> USE <1>9 DEF Serves
  <2>1. PortTypeOK'
    <3>1. port[p] \in FIRST..LAST /\ port[p] \in Ports
      OBVIOUS
    <3>2. bound' \subseteq Ports
      BY <3>1
    <3> QED
      BY <3>2
  <2>2. LockInv'
    OBVIOUS
  <2>3. LimitsInv'
    OBVIOUS
  <2>4. BelowInv'
    OBVIOUS
  <2>5. OwnPort'
    OBVIOUS
  <2> QED
    BY <2>1, <2>2, <2>3, <2>4, <2>5
<1>10. ASSUME NEW p \in Procs, Ends(p) PROVE PortInv'
  BY <1>10 DEF Ends
<1>11. CASE ResetOpens
  BY <1>11 DEF ResetOpens
<1>12. CASE ResetWrites
  BY <1>12 DEF ResetWrites
<1>13. ASSUME NEW n \in Ports, OthersTake(n) PROVE PortInv'
  BY <1>13 DEF OthersTake
<1>14. ASSUME NEW n \in Ports, OthersLeave(n) PROVE PortInv'
  BY <1>14 DEF OthersLeave
<1> QED
  BY <1>1, <1>2, <1>3, <1>4, <1>5, <1>6, <1>7, <1>8, <1>9, <1>10, <1>11, <1>12, <1>13, <1>14
  DEF PortNext

LEMMA PortIsInvariant == ASSUME PortAssumption PROVE PortSpec => []PortInv
  BY InitPort, StepPort, PTL DEF PortSpec

(* The file and the ports stay what AllocateTestServerPort() takes them    *)
(* for, whoever resets the file and whatever fails.                        *)
THEOREM PortTypeCorrect == ASSUME PortAssumption PROVE PortSpec => []PortTypeOK
<1>1. PortInv => PortTypeOK
  BY DEF PortInv
<1> QED
  BY <1>1, PortIsInvariant, PTL

(* AllocateTestServerPort() gives a port within the limits or none, even   *)
(* when the file is reset without the lock or not written.                 *)
THEOREM LimitsKept == ASSUME PortAssumption PROVE PortSpec => []WithinLimits
<1>1. PortInv => WithinLimits
  BY DEF PortInv, LimitsInv, WithinLimits
<1> QED
  BY <1>1, PortIsInvariant, PTL

(* Two processes are never given the same port, though neither has bound   *)
(* it yet, as long as the file is neither reset nor left unwritten.        *)
THEOREM PortsDistinct == ASSUME PortAssumption PROVE PortSpec => []OwnPort
<1>1. PortInv => OwnPort
  BY DEF PortInv
<1> QED
  BY <1>1, PortIsInvariant, PTL

----------------------------------------------------------------------------
(* Proofs, for any number of processes and any death of one.  What makes   *)
(* SameLock inductive is what the global flock protects: whoever is        *)
(* between opening the file and locking it, or between unlocking it and    *)
(* removing it, is alone there.                                            *)

(* The global flock belongs to the one who is at work on the file.         *)
GlobalInv ==
  \A p \in PathProcs : global = p <=> pathPc[p] \in {"open", "lock", "unlock", "remove"}

(* Who has which file open.                                                *)
FdInv ==
  \A p \in PathProcs : /\ fd[p] # NoInode <=> (Holds(p) \/ pathPc[p] = "lock")
                       /\ fd[p] # NoInode => fd[p] = name

(* A flock is a holder's, on the file it has open.                         *)
FlockInv ==
  /\ \A p \in PathProcs : Holds(p) => flock[fd[p]] = p
  /\ \A i \in Inodes : \A p \in PathProcs : flock[i] = p => Holds(p) /\ fd[p] = i

(* Whoever removes the file has unlocked it, and nobody could lock it.     *)
RemoveInv == \A p, q \in PathProcs : pathPc[p] = "remove" => ~Holds(q)

PathInv == PathTypeOK /\ GlobalInv /\ FdInv /\ FlockInv /\ RemoveInv

LEMMA InitPath == ASSUME PseudoLockAssumption PROVE PathInit => PathInv
  BY DEF PseudoLockAssumption, PathInit, PathInv, PathTypeOK, GlobalInv, FdInv, FlockInv, RemoveInv, Holds

LEMMA InvSameLock == ASSUME PseudoLockAssumption PROVE PathInv => SameLock
  BY DEF PseudoLockAssumption, PathInv, PathTypeOK, FdInv, FlockInv, SameLock, Holds

LEMMA StepPath == ASSUME PseudoLockAssumption PROVE PathInv /\ [PathNext]_pathVars => PathInv'
<1> SUFFICES ASSUME PathInv, [PathNext]_pathVars PROVE PathInv'
  OBVIOUS
<1> USE DEF PseudoLockAssumption, PathInv, PathTypeOK, GlobalInv, FdInv, FlockInv, RemoveInv, Holds
<1>1. CASE UNCHANGED pathVars
  BY <1>1 DEF pathVars
<1>2. ASSUME NEW p \in PathProcs, Begin(p) PROVE PathInv'
  BY <1>2 DEF Begin, Goto
<1>3. ASSUME NEW p \in PathProcs, AcquireGlobal(p) PROVE PathInv'
  BY <1>3 DEF AcquireGlobal, Goto
<1>4. ASSUME NEW p \in PathProcs, OpenPseudo(p) PROVE PathInv'
  BY <1>4 DEF OpenPseudo, Goto
<1>5. ASSUME NEW p \in PathProcs, LockPseudo(p) PROVE PathInv'
  BY <1>5 DEF LockPseudo, Goto
<1>6. ASSUME NEW p \in PathProcs, LockPseudoFails(p) PROVE PathInv'
  BY <1>6 DEF LockPseudoFails, Goto
<1>7. ASSUME NEW p \in PathProcs, AcquireTimesOut(p) PROVE PathInv'
  BY <1>7 DEF AcquireTimesOut, Goto
<1>8. ASSUME NEW p \in PathProcs, PathLeave(p) PROVE PathInv'
  BY <1>8 DEF PathLeave, Goto
<1>9. ASSUME NEW p \in PathProcs, ReleaseGlobal(p) PROVE PathInv'
  BY <1>9 DEF ReleaseGlobal, Goto
<1>10. ASSUME NEW p \in PathProcs, UnlockPseudo(p) PROVE PathInv'
  BY <1>10 DEF UnlockPseudo, Unlocked, Goto
<1>11. ASSUME NEW p \in PathProcs, RemovePseudo(p) PROVE PathInv'
  BY <1>11 DEF RemovePseudo, Goto
<1>12. ASSUME NEW p \in PathProcs, ReleaseTimesOut(p) PROVE PathInv'
  BY <1>12 DEF ReleaseTimesOut, Unlocked, Goto
<1>13. ASSUME NEW p \in PathProcs, Dies(p) PROVE PathInv'
  BY <1>13 DEF Dies
<1> QED
  BY <1>1, <1>2, <1>3, <1>4, <1>5, <1>6, <1>7, <1>8, <1>9, <1>10, <1>11, <1>12, <1>13 DEF PathNext

(* The file a holder of the lock has locked is the one that has the name,  *)
(* and there is one holder at most: no two calls of GetIfChanged() work on *)
(* one file (_FileLock()), whoever dies where.                             *)
THEOREM SameLockHolds == ASSUME PseudoLockAssumption PROVE PathSpec => []SameLock
<1>1. PathInit => PathInv
  BY InitPath
<1>2. PathInv /\ [PathNext]_pathVars => PathInv'
  BY StepPath
<1>3. PathInv => SameLock
  BY InvSameLock
<1> QED
  BY <1>1, <1>2, <1>3, PTL DEF PathSpec

----------------------------------------------------------------------------
(* Proofs, for every width of the word, every set of threads and however   *)
(* rarely the clock is sampled.                                            *)

(* No thread was told more than the clock says now. *)
Ahead == \A t \in TickThreads : now[t] <= Clock

(* The strengthening: types, mutual exclusion, and that no thread was told *)
(* more than the clock says now.                                           *)
TickInv == TickTypeOK /\ OneSamples /\ Ahead

(* One more wraparound outweighs the sample that is less. *)
LEMMA WrapOutweighs ==
  ASSUME NEW w \in Nat, NEW m \in Nat, NEW l \in 0..(m - 1), NEW c \in 0..(m - 1)
  PROVE  /\ w * m + l \in Nat
         /\ c < l => (w + 1) * m + c >= w * m + l
         /\ ~(c < l) => w * m + c >= w * m + l
<1>1. w * m \in Nat /\ (w + 1) * m = w * m + m
  BY SMT
<1> QED
  BY <1>1, SMT

(* The initial states satisfy the strengthening. *)
LEMMA InitTick == ASSUME ModulusAssumption PROVE TickInit => TickInv
<1>1. 0 \in 0..(Modulus - 1) /\ 0 * Modulus + 0 = 0
  BY SMT DEF ModulusAssumption
<1> SUFFICES ASSUME TickInit PROVE TickInv
  OBVIOUS
<1>2. TickTypeOK /\ OneSamples
  BY <1>1 DEF TickInit, TickTypeOK, OneSamples
<1>3. Ahead
  <2>1. Clock = 0
    BY <1>1 DEF TickInit, Clock
  <2> QED
    BY <2>1 DEF TickInit, Ahead
<1> QED
  BY <1>2, <1>3 DEF TickInv

(* An answer is what the clock then says, which is no less than before. *)
LEMMA TellAdvances ==
  ASSUME ModulusAssumption, TickInv, NEW t \in TickThreads, Tell(t)
  PROVE  /\ Clock \in Nat /\ Clock' \in Nat /\ Clock' >= Clock
         /\ now' = [now EXCEPT ![t] = Clock']
<1>1. current_sample[t] \in 0..(Modulus - 1) /\ LAST_NOW \in 0..(Modulus - 1)
      /\ WRAPAROUNDS \in Nat /\ Modulus \in Nat
  BY DEF ModulusAssumption, TickInv, TickTypeOK
<1>2. Clock \in Nat
  BY <1>1, WrapOutweighs DEF Clock
<1>3. CASE current_sample[t] < LAST_NOW
  <2>1. WRAPAROUNDS' = WRAPAROUNDS + 1 /\ LAST_NOW' = current_sample[t]
    BY <1>3 DEF Tell
  <2>2. WRAPAROUNDS + 1 \in Nat
    BY <1>1
  <2>3. (WRAPAROUNDS + 1) * Modulus + current_sample[t] \in Nat
    BY <1>1, <2>2, WrapOutweighs
  <2>4. (WRAPAROUNDS + 1) * Modulus + current_sample[t] >= WRAPAROUNDS * Modulus + LAST_NOW
    BY <1>1, <1>3, WrapOutweighs
  <2> QED
    BY <1>2, <2>1, <2>3, <2>4 DEF Tell, Clock
<1>4. CASE ~(current_sample[t] < LAST_NOW)
  <2>1. WRAPAROUNDS' = WRAPAROUNDS /\ LAST_NOW' = current_sample[t]
    BY <1>4 DEF Tell
  <2>2. WRAPAROUNDS * Modulus + current_sample[t] \in Nat
    BY <1>1, WrapOutweighs
  <2>3. WRAPAROUNDS * Modulus + current_sample[t] >= WRAPAROUNDS * Modulus + LAST_NOW
    BY <1>1, <1>4, WrapOutweighs
  <2> QED
    BY <1>2, <2>1, <2>2, <2>3 DEF Tell, Clock
<1> QED
  BY <1>3, <1>4

(* A step of the clock, of a sample or of an answer keeps the strengthening. *)
LEMMA StepTick == ASSUME ModulusAssumption PROVE TickInv /\ [TickNext]_tickVars => TickInv'
<1> SUFFICES ASSUME TickInv, [TickNext]_tickVars PROVE TickInv'
  OBVIOUS
<1> USE DEF TickInv
<1>1. CASE Passes
  BY <1>1 DEF Passes, TickTypeOK, OneSamples, Ahead, Clock
<1>2. ASSUME NEW t \in TickThreads, Sample(t) PROVE TickInv'
  <2>1. GetTickCount \in 0..(Modulus - 1)
    BY SMT DEF ModulusAssumption, GetTickCount, TickTypeOK
  <2>2. TickTypeOK'
    BY <1>2, <2>1 DEF Sample, TickTypeOK
  <2>3. OneSamples'
    BY <1>2 DEF Sample, TickTypeOK, OneSamples
  <2>4. Ahead'
    BY <1>2 DEF Sample, Ahead, Clock
  <2> QED
    BY <2>2, <2>3, <2>4
<1>3. ASSUME NEW t \in TickThreads, Tell(t) PROVE TickInv'
  <2>1. Clock \in Nat /\ Clock' \in Nat /\ Clock' >= Clock /\ now' = [now EXCEPT ![t] = Clock']
    BY <1>3, TellAdvances
  <2>2. TickTypeOK'
    <3>1. now' \in [TickThreads -> Nat]
      BY <2>1 DEF TickTypeOK
    <3>2. WRAPAROUNDS' \in Nat /\ LAST_NOW' \in 0..(Modulus - 1)
      BY <1>3 DEF Tell, TickTypeOK
    <3> QED
      BY <1>3, <3>1, <3>2 DEF Tell, TickTypeOK
  <2>3. OneSamples'
    BY <1>3 DEF Tell, TickTypeOK, OneSamples
  <2>4. Ahead'
    <3> SUFFICES ASSUME NEW u \in TickThreads PROVE now'[u] <= Clock'
      BY DEF Ahead
    <3>1. now[u] \in Nat /\ now[u] <= Clock
      BY DEF TickTypeOK, Ahead
    <3> QED
      BY <2>1, <3>1 DEF TickTypeOK
  <2> QED
    BY <2>2, <2>3, <2>4
<1>4. CASE UNCHANGED tickVars
  BY <1>4 DEF tickVars, TickTypeOK, OneSamples, Ahead, Clock
<1> QED
  BY <1>1, <1>2, <1>3, <1>4 DEF TickNext, Now

(* The clock of trace_time is typed, and sampled by one thread at a time. *)
THEOREM ClockSafe == ASSUME ModulusAssumption PROVE TickSpec => [](TickTypeOK /\ OneSamples)
<1>1. TickInv => TickTypeOK /\ OneSamples
  BY DEF TickInv
<1> QED
  BY InitTick, StepTick, <1>1, PTL DEF TickSpec

(* No answer of Now() is less than an earlier one, to any thread. *)
THEOREM ClockNeverBack ==
  ASSUME ModulusAssumption PROVE TickSpec => [][NeverBack]_tickVars
<1>1. TickInv /\ [TickNext]_tickVars => [NeverBack]_tickVars
  <2> SUFFICES ASSUME TickInv, [TickNext]_tickVars, tickVars' # tickVars, NEW u \in TickThreads
               PROVE  now'[u] >= now[u] /\ Clock' >= Clock
    BY DEF NeverBack
  <2>1. WRAPAROUNDS \in Nat /\ Modulus \in Nat /\ LAST_NOW \in 0..(Modulus - 1) /\ now[u] \in Nat
    BY DEF ModulusAssumption, TickInv, TickTypeOK
  <2>2. Clock \in Nat
    BY <2>1, WrapOutweighs DEF Clock
  <2>3. CASE Passes \/ \E t \in TickThreads : Sample(t)
    BY <2>1, <2>2, <2>3 DEF Passes, Sample, Clock
  <2>4. ASSUME NEW t \in TickThreads, Tell(t) PROVE now'[u] >= now[u] /\ Clock' >= Clock
    <3>1. Clock' \in Nat /\ Clock' >= Clock /\ now' = [now EXCEPT ![t] = Clock']
      BY <2>4, TellAdvances
    <3>2. now[u] <= Clock
      BY DEF TickInv, Ahead
    <3> QED
      BY <2>1, <2>2, <3>1, <3>2 DEF TickInv, TickTypeOK
  <2> QED
    BY <2>3, <2>4 DEF TickNext, Now
<1> QED
  BY InitTick, StepTick, <1>1, PTL DEF TickSpec
==============================================================================
