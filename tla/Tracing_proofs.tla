-------------------------- MODULE Tracing_proofs --------------------------
(***************************************************************************)
(* Proofs about TracingSession and TraceLog: for any list of agents, any   *)
(* categories of events, any number of sessions, processes and threads.    *)
(***************************************************************************)
EXTENDS TracingSession, TraceLog, FiniteSetTheorems, FunctionTheorems, TLAPS

----------------------------------------------------------------------------
(***************************************************************************)
(* The session of the agents.                                              *)
(***************************************************************************)

(* Until an agent is stopped no trace is taken from one, and the agents    *)
(* that passed are those that record.                                      *)
Ending == pc \in {"stop", "collect", "own"} \/ outcome \in {"results", "raised", "not stopped"}

(* Where the controller is.                                                *)
ControlInv ==
  /\ pc \in {"idle", "start", "running", "sync", "hung", "stop", "collect", "own"}
  /\ at \in Nat \ {0} /\ Len(passed) < at
  /\ passed \in Seq(Agents)
  /\ children = NoAgents \/ (children \in Seq(Agents) /\ Len(children) <= Len(Order))
  /\ pc = "start" => at <= Len(Order) + 1
  /\ pc \in {"idle", "running", "own"} => at = 1
  /\ pc \in {"running", "sync", "hung", "stop", "collect", "own"} =>
       children \in Seq(Agents) /\ Len(children) <= Len(Order) /\ at <= Len(children) + 1
  /\ pc # "idle" => outcome = "none"
  /\ pc = "idle" /\ outcome \in {"none", "not started"} => children = NoAgents
  /\ pc \in {"start", "running", "sync", "hung", "stop"} => logging
  /\ pc \in {"collect", "own"} => ~logging
  /\ outcome = "none" /\ pc = "idle" => /\ ~logging /\ results = {} /\ ~inProgress
                                        /\ tracing = {} /\ late = {}

(* What the agents do, as long as none was told to stop.                   *)
RecordingInv ==
  /\ ~Ending => /\ results = {}
                /\ \A a \in Agents : <<a, "stop">> \notin late /\ thread[a] = "none"
  /\ pc = "start" => ToSet(passed) \subseteq tracing
  /\ pc \in {"running", "sync"} => ToSet(children) \subseteq tracing

(* The markers of the agents that the loop has come by.                    *)
Recorded(a) == a \in log \cap (marked \cup unwritten)

MarkedInv ==
  /\ pc = "sync" => \A i \in DOMAIN children : i < at /\ children[i] \in Syncs => Recorded(children[i])
  /\ pc \in {"stop", "collect", "own"} => \A i \in DOMAIN children : children[i] \in Syncs => Recorded(children[i])
  /\ outcome = "results" => \A i \in DOMAIN children : children[i] \in Syncs => Recorded(children[i])
  /\ results # {} => pc \in {"collect", "own"} \/ outcome = "results"
  /\ pc = "stop" => ToSet(passed) \subseteq ToSet(children)

(* When no call times out, whoever still records is still to be stopped, or *)
(* collects, or has failed to.                                             *)
CollectsStill(a) == a \in Threaded /\ (thread[a] = "running" \/ thread[a] = "failed")

StoppingInv ==
  /\ late = {}
  /\ pc = "start" => tracing \subseteq ToSet(passed)
  /\ pc = "running" \/ pc = "sync" => tracing \subseteq ToSet(children)
  /\ pc = "stop" =>
       /\ \A a \in tracing : (\E i \in DOMAIN children : i >= at /\ children[i] = a)
                             \/ (CollectsStill(a) /\ a \in ToSet(passed))
  /\ pc = "collect" =>
       /\ \A a \in tracing : CollectsStill(a) /\ a \in ToSet(children)
       /\ \A i \in DOMAIN children : i < at /\ children[i] \in Threaded => thread[children[i]] # "running"
  /\ pc = "own" => \A a \in tracing : thread[a] = "failed"
  /\ outcome = "results" => \A a \in tracing : thread[a] = "failed"

SessionInv == TypeOK /\ ControlInv /\ RecordingInv /\ MarkedInv /\ Synchronised

LEMMA AppendOne ==
  ASSUME NEW S, NEW s \in Seq(S), NEW x \in S
  PROVE  /\ s \o <<x>> \in Seq(S) /\ Len(s \o <<x>>) = Len(s) + 1
         /\ ToSet(s \o <<x>>) = ToSet(s) \cup {x}
<1> DEFINE t == s \o <<x>>
<1>1. t \in Seq(S) /\ Len(t) = Len(s) + 1 /\ t[Len(s) + 1] = x
  OBVIOUS
<1>2. \A i \in 1..Len(s) : t[i] = s[i]
  OBVIOUS
<1> HIDE DEF t
<1>3. DOMAIN t = 1..(Len(s) + 1) /\ DOMAIN s = 1..Len(s) /\ Len(s) \in Nat
  BY <1>1
<1>4. ToSet(t) = ToSet(s) \cup {x}
  BY <1>1, <1>2, <1>3 DEF ToSet
<1> QED
  BY <1>1, <1>4 DEF t

LEMMA AppendNone ==
  ASSUME NEW S, NEW s \in Seq(S) PROVE s \o <<>> = s
OBVIOUS

LEMMA NoneIn == ASSUME NEW S PROVE <<>> \in Seq(S) /\ Len(<<>>) = 0 /\ ToSet(<<>>) = {}
  BY DEF ToSet

LEMMA InitSession == ASSUME TracingSessionAssumption PROVE Init => SessionInv
<1> SUFFICES ASSUME Init PROVE SessionInv
  OBVIOUS
<1> USE DEF Init
<1>1. TypeOK
  BY DEF TracingSessionAssumption, TypeOK, ToSet
<1>2. ControlInv
  BY DEF ControlInv
<1>3. RecordingInv /\ MarkedInv /\ Synchronised
  BY DEF RecordingInv, MarkedInv, Synchronised, Ending
<1> QED
  BY <1>1, <1>2, <1>3 DEF SessionInv

LEMMA NextSession == ASSUME TracingSessionAssumption PROVE SessionInv /\ [Next]_vars => SessionInv'
<1> SUFFICES ASSUME SessionInv, [Next]_vars PROVE SessionInv'
  OBVIOUS
<1> USE DEF SessionInv, device, markers, NextAgent, Loop, Raised, Recorded
<1>0. Order \in Seq(Agents) /\ Len(Order) \in Nat /\ Syncs \subseteq Agents /\ \A i \in 1..Len(Order) : Order[i] \in Agents
  BY DEF TracingSessionAssumption
<1>e. \A s : s = <<>> => s \in Seq(Agents) /\ Len(s) = 0 /\ ToSet(s) = {}
  BY NoneIn

<1>1. CASE StartTracing
  BY <1>0, <1>1 DEF StartTracing, TypeOK, ControlInv, RecordingInv, MarkedInv, Synchronised, Ending, ToSet, NoAgents
<1>2. CASE StartRefused
  BY <1>0, <1>2 DEF StartRefused, TypeOK, ControlInv, RecordingInv, MarkedInv, Synchronised, Ending, ToSet, NoAgents
<1>3. CASE StartAgent
  BY <1>0, <1>3, AppendOne DEF StartAgent, TypeOK, ControlInv, RecordingInv, MarkedInv, Synchronised, Ending, ToSet, NoAgents
<1>4. CASE StartTimesOut
  BY <1>0, <1>4, AppendNone DEF StartTimesOut, TypeOK, ControlInv, RecordingInv, MarkedInv, Synchronised, Ending, ToSet, NoAgents
<1>5. CASE StartRaises
  BY <1>0, <1>5, <1>e DEF StartRaises, TypeOK, ControlInv, RecordingInv, MarkedInv, Synchronised, Ending, ToSet, NoAgents
<1>6. CASE Started
  BY <1>0, <1>6, <1>e DEF Started, TypeOK, ControlInv, RecordingInv, MarkedInv, Synchronised, Ending, ToSet, NoAgents
<1>7. CASE StopTracing
  <2>1. inProgress' = FALSE /\ UNCHANGED <<children, device, log, logging, results>>
    BY <1>7 DEF StopTracing
  <2>2. CASE children = NoAgents
    <3>1. pc' = "idle" /\ at' = 1 /\ passed' = <<>> /\ outcome' = "raised"
      BY <1>7, <2>2 DEF StopTracing
    <3>2. TypeOK'
      <4>1. at' = 1 /\ passed' = <<>> /\ UNCHANGED <<children, log, tracing, late, thread, markers, results>>
        BY <2>1, <3>1 
      <4>2. at' \in 1..(Len(Order) + 1) /\ ToSet(passed') \subseteq Agents
        BY <4>1, <1>0, <1>e
      <4>3. (logging => inProgress \/ pc # "idle" \/ outcome \in {"raised", "not stopped"})'
        BY <2>1, <3>1 DEF TypeOK
      <4> QED
        BY <4>1, <4>2, <4>3 DEF TypeOK
    <3>3. ControlInv'
      <4>1. pc' = "idle" /\ outcome' # "none" /\ outcome' # "not started" /\ UNCHANGED children
        BY <2>1, <3>1 
      <4>2. at' = 1 /\ passed' = <<>>
        BY <2>1, <3>1 
      <4>3. at' \in Nat \ {0} /\ Len(passed') < at' /\ passed' \in Seq(Agents)
        BY <4>2
      <4> QED
        BY <4>1, <4>2, <4>3 DEF ControlInv
    <3>4. RecordingInv'
      BY <1>0, <2>1, <3>1 DEF RecordingInv, Ending
    <3>5. MarkedInv' /\ Synchronised'
      <4>1. results = {}
        BY <1>7 DEF StopTracing, ControlInv, RecordingInv, Ending
      <4>2. results' = {} /\ pc' = "idle" /\ outcome' = "raised"
        BY <2>1, <3>1, <4>1
      <4> QED
        BY <4>2 DEF MarkedInv, Synchronised
    <3> QED
      BY <3>2, <3>3, <3>4, <3>5
  <2>3. CASE children # NoAgents
    <3>1. pc = "running" /\ pc' = "sync" /\ UNCHANGED <<at, passed, outcome>>
      BY <1>7, <2>3 DEF StopTracing, ControlInv
    <3> QED
      BY <1>0, <2>1, <3>1 DEF TypeOK, ControlInv, RecordingInv, MarkedInv, Synchronised, Ending
  <2> QED
    BY <2>2, <2>3
<1>8. CASE Sync
  BY <1>0, <1>8 DEF Sync, Write, TypeOK, ControlInv, RecordingInv, MarkedInv, Synchronised, Ending, ToSet, NoAgents
<1>23. CASE SyncRaises
  <2>1. pc = "sync" /\ results = {} /\ results' = {} /\ outcome' = "raised" /\ pc' = "idle"
    BY <1>23 DEF SyncRaises, RecordingInv, Ending, ControlInv
  <2>2. children[at] \in Syncs /\ UNCHANGED <<children, log, tracing, late, thread, logging, inProgress>>
    BY <1>23 DEF SyncRaises
  <2>3. marked' \subseteq Syncs /\ unwritten' \subseteq Syncs
    BY <1>23, <2>2 DEF SyncRaises, Write, TypeOK
  <2>4. at' = 1 /\ passed' = <<>>
    BY <1>23 DEF SyncRaises
  <2>5. at' \in 1..(Len(Order) + 1) /\ at' \in Nat \ {0} /\ Len(passed') < at' /\ passed' \in Seq(Agents) /\ ToSet(passed') \subseteq Agents
    BY <2>4, <1>0, <1>e
  <2>6. TypeOK'
    BY <2>1, <2>2, <2>3, <2>5 DEF TypeOK
  <2>7. ControlInv'
    BY <2>1, <2>2, <2>4, <2>5 DEF ControlInv
  <2> QED
    BY <2>1, <2>2, <2>6, <2>7 DEF RecordingInv, MarkedInv, Synchronised, Ending
<1>24. CASE SyncHangs
  <2>1. pc = "sync" /\ pc' = "hung" /\ UNCHANGED <<at, inProgress, children, passed, device, log, logging, results, outcome>>
    BY <1>24 DEF SyncHangs
  <2>2. results = {}
    BY <2>1 DEF RecordingInv, Ending, ControlInv
  <2>3. TypeOK' /\ ControlInv'
    BY <2>1 DEF TypeOK, ControlInv
  <2> QED
    BY <2>1, <2>2, <2>3 DEF RecordingInv, MarkedInv, Synchronised, Ending, ControlInv
<1>9. CASE Synced
  BY <1>0, <1>9, <1>e DEF Synced, TypeOK, ControlInv, RecordingInv, MarkedInv, Synchronised, Ending, ToSet, NoAgents
<1>10. CASE StopAgent
  <2>1. TypeOK'
    <3>1. children \in Seq(Agents) /\ at \in 1..Len(children) /\ Len(children) <= Len(Order) /\ pc = "stop"
      BY <1>0, <1>10 DEF StopAgent, ControlInv
    <3>2. children[at] \in Agents
      BY <3>1
    <3>3. ToSet(passed') = ToSet(passed) \cup {children[at]}
      BY <1>10, <3>2, AppendOne DEF StopAgent, ControlInv
    <3>4. at' \in 1..(Len(Order) + 1)
      BY <1>0, <1>10, <3>1 DEF StopAgent
    <3>5. tracing' \subseteq Agents /\ thread' \in [Agents -> {"none", "running", "done", "failed"}]
      BY <1>10, <3>2 DEF StopAgent, TypeOK
    <3>6. UNCHANGED <<pc, inProgress, children, late, markers, log, logging, results, outcome>>
      BY <1>10 DEF StopAgent
    <3> QED
      BY <3>1, <3>2, <3>3, <3>4, <3>5, <3>6 DEF TypeOK
  <2>2. ControlInv'
    BY <1>0, <1>10, AppendOne DEF StopAgent, TypeOK, ControlInv, NoAgents
  <2>3. RecordingInv'
    BY <1>0, <1>10, AppendOne DEF StopAgent, TypeOK, ControlInv, RecordingInv, Ending
  <2>4. MarkedInv'
    <3>1. pc = "stop" /\ pc' = "stop" /\ UNCHANGED <<children, markers, log, results, outcome>>
      BY <1>10 DEF StopAgent
    <3>2. children[at] \in Agents /\ children[at] \in ToSet(children)
      BY <1>0, <1>10 DEF StopAgent, TypeOK, ControlInv, ToSet
    <3>3. ToSet(passed') = ToSet(passed) \cup {children[at]}
      BY <1>10, <3>2, AppendOne DEF StopAgent, ControlInv
    <3> QED
      BY <3>1, <3>2, <3>3 DEF MarkedInv
  <2>5. Synchronised'
    BY <1>0, <1>10, AppendOne DEF StopAgent, TypeOK, ControlInv, RecordingInv, MarkedInv, Ending, Synchronised, ToSet
  <2> QED
    BY <2>1, <2>2, <2>3, <2>4, <2>5
<1>11. CASE StopTimesOut
  <2>1. TypeOK'
    BY <1>0, <1>11, AppendNone DEF StopTimesOut, TypeOK, ControlInv, ToSet, NoAgents
  <2>2. ControlInv'
    BY <1>0, <1>11, AppendNone DEF StopTimesOut, TypeOK, ControlInv, NoAgents
  <2>3. RecordingInv'
    BY <1>0, <1>11, AppendNone DEF StopTimesOut, TypeOK, ControlInv, RecordingInv, Ending
  <2>4. MarkedInv'
    <3>1. pc = "stop" /\ pc' = "stop" /\ UNCHANGED <<children, passed, markers, log, results, outcome>>
      BY <1>11, AppendNone DEF StopTimesOut, ControlInv
    <3> QED
      BY <3>1 DEF MarkedInv
  <2>5. Synchronised'
    BY <1>0, <1>11, AppendNone DEF StopTimesOut, TypeOK, ControlInv, RecordingInv, MarkedInv, Ending, Synchronised, ToSet
  <2> QED
    BY <2>1, <2>2, <2>3, <2>4, <2>5
<1>12. CASE StopRaises
  BY <1>0, <1>12, <1>e DEF StopRaises, TypeOK, ControlInv, RecordingInv, MarkedInv, Synchronised, Ending, ToSet, NoAgents
<1>13. CASE Stopped
  <2>1. TypeOK'
    BY <1>0, <1>13, <1>e DEF Stopped, TypeOK, ControlInv, ToSet, NoAgents
  <2>2. ControlInv'
    BY <1>0, <1>13, <1>e DEF Stopped, TypeOK, ControlInv, NoAgents
  <2>3. RecordingInv'
    BY <1>0, <1>13, <1>e DEF Stopped, TypeOK, ControlInv, RecordingInv, Ending
  <2>4. MarkedInv'
    <3>1. pc = "stop" /\ pc' = "collect" /\ children' = passed /\ outcome' = "none" /\ UNCHANGED <<markers, log, results>>
      BY <1>13 DEF Stopped, ControlInv
    <3>2. \A i \in DOMAIN passed : \E j \in DOMAIN children : children[j] = passed[i]
      BY <3>1 DEF MarkedInv, ToSet
    <3> QED
      BY <3>1, <3>2 DEF MarkedInv
  <2>5. Synchronised'
    BY <1>0, <1>13, <1>e DEF Stopped, TypeOK, ControlInv, RecordingInv, MarkedInv, Ending, Synchronised, ToSet
  <2> QED
    BY <2>1, <2>2, <2>3, <2>4, <2>5
<1>14. CASE StopRefused
  <2>1. TypeOK'
    <3>1. at' = 1 /\ passed' = <<>> /\ UNCHANGED <<children, log, tracing, late, thread, markers, results>>
      BY <1>14 DEF StopRefused
    <3>2. at' \in 1..(Len(Order) + 1) /\ ToSet(passed') \subseteq Agents
      BY <3>1, <1>0, <1>e
    <3>3. (logging => inProgress \/ pc # "idle" \/ outcome \in {"raised", "not stopped"})'
      BY <1>14 DEF StopRefused, TypeOK
    <3> QED
      BY <3>1, <3>2, <3>3 DEF TypeOK
  <2>2. ControlInv'
    <3>1. pc' = "idle" /\ outcome' # "none" /\ outcome' # "not started" /\ UNCHANGED children
      BY <1>14 DEF StopRefused
    <3>2. at' = 1 /\ passed' = <<>>
      BY <1>14 DEF StopRefused
    <3>3. at' \in Nat \ {0} /\ Len(passed') < at' /\ passed' \in Seq(Agents)
      BY <3>2
    <3> QED
      BY <3>1, <3>2, <3>3 DEF ControlInv
  <2>3. RecordingInv'
    BY <1>0, <1>14, <1>e DEF StopRefused, TypeOK, ControlInv, RecordingInv, Ending
  <2>4. MarkedInv'
    BY <1>0, <1>14, <1>e DEF StopRefused, TypeOK, ControlInv, MarkedInv, ToSet
  <2>5. Synchronised'
    BY <1>0, <1>14, <1>e DEF StopRefused, TypeOK, ControlInv, RecordingInv, MarkedInv, Ending, Synchronised, ToSet
  <2> QED
    BY <2>1, <2>2, <2>3, <2>4, <2>5
<1>15. CASE Collect
  <2>1. TypeOK'
    <3>1. pc = "collect" /\ pc' = "collect" /\ at' = at + 1 /\ UNCHANGED <<children, tracing, late, thread, markers, log, passed>>
      BY <1>15, AppendNone DEF Collect, ControlInv
    <3>2. children[at] \in Agents /\ at' \in 1..(Len(Order) + 1)
      BY <1>0, <1>15 DEF Collect, TypeOK, ControlInv
    <3> DEFINE whole == children[at] \in Threaded => thread[children[at]] = "done"
    <3>3. results' = results \cup {[agent |-> children[at], data |-> whole]}
      BY <1>15 DEF Collect
    <3>4. whole \in BOOLEAN
      OBVIOUS
    <3> HIDE DEF whole
    <3>5. [agent |-> children[at], data |-> whole] \in [agent : Agents \cup {"controller"}, data : BOOLEAN]
      BY <3>2, <3>4, Zenon
    <3>6. results' \subseteq [agent : Agents \cup {"controller"}, data : BOOLEAN]
      BY <3>3, <3>5 DEF TypeOK
    <3> QED
      BY <3>1, <3>2, <3>6 DEF TypeOK
  <2>2. ControlInv'
    BY <1>0, <1>15, AppendNone DEF Collect, TypeOK, ControlInv, NoAgents
  <2>3. RecordingInv'
    BY <1>0, <1>15, AppendNone DEF Collect, TypeOK, ControlInv, RecordingInv, Ending
  <2>4. MarkedInv'
    BY <1>0, <1>15, AppendNone DEF Collect, TypeOK, ControlInv, MarkedInv, ToSet
  <2>5. Synchronised'
    BY <1>0, <1>15, AppendNone DEF Collect, TypeOK, ControlInv, RecordingInv, MarkedInv, Ending, Synchronised, ToSet
  <2> QED
    BY <2>1, <2>2, <2>3, <2>4, <2>5
<1>16. CASE CollectTimesOut
  BY <1>0, <1>16, AppendNone DEF CollectTimesOut, TypeOK, ControlInv, RecordingInv, MarkedInv, Synchronised, Ending, ToSet, NoAgents
<1>17. CASE Collected
  <2>1. TypeOK'
    <3>1. pc = "collect" /\ UNCHANGED <<logging, children, tracing, late, thread, markers, log, results, outcome>>
      BY <1>17 DEF Collected
    <3>4. ~logging
      BY <3>1 DEF ControlInv
    <3>2. at' = 1 /\ passed' = <<>>
      BY <1>17 DEF Collected
    <3>3. at' \in 1..(Len(Order) + 1) /\ ToSet(passed') \subseteq Agents
      BY <3>2, <1>0, <1>e
    <3> QED
      BY <3>1, <3>3, <3>4 DEF TypeOK
  <2>2. ControlInv'
    BY <1>0, <1>17, <1>e DEF Collected, TypeOK, ControlInv, NoAgents
  <2>3. RecordingInv'
    BY <1>0, <1>17, <1>e DEF Collected, TypeOK, ControlInv, RecordingInv, Ending
  <2>4. MarkedInv'
    BY <1>0, <1>17, <1>e DEF Collected, TypeOK, ControlInv, MarkedInv, ToSet
  <2>5. Synchronised'
    BY <1>0, <1>17, <1>e DEF Collected, TypeOK, ControlInv, RecordingInv, MarkedInv, Ending, Synchronised, ToSet
  <2> QED
    BY <2>1, <2>2, <2>3, <2>4, <2>5
<1>25. CASE CollectOwn
  <2>1. pc = "own" /\ pc' = "idle" /\ outcome' = "results"
        /\ UNCHANGED <<at, inProgress, children, passed, device, log, logging>>
    BY <1>25 DEF CollectOwn
  <2>2. \A r \in results' : r \in results \/ r = [agent |-> "controller", data |-> TRUE]
    BY <1>25 DEF CollectOwn
  <2>3. TypeOK'
    <3>1. [agent |-> "controller", data |-> TRUE] \in [agent : Agents \cup {"controller"}, data : BOOLEAN]
      BY Zenon
    <3>2. results' \subseteq [agent : Agents \cup {"controller"}, data : BOOLEAN]
      BY <2>2, <3>1 DEF TypeOK
    <3> QED
      BY <2>1, <3>2 DEF TypeOK, ControlInv
  <2>4. ControlInv'
    BY <2>1 DEF ControlInv
  <2>5. RecordingInv' /\ MarkedInv'
    BY <2>1 DEF RecordingInv, MarkedInv, Ending
  <2>6. Synchronised'
    <3>1. "controller" \notin Syncs
      BY <1>0 DEF TracingSessionAssumption
    <3>2. \A i \in DOMAIN children : children[i] \in Syncs => Recorded(children[i])
      BY <2>1 DEF MarkedInv
    <3>3. \A r \in results' : r.data /\ r.agent \in Syncs => r \in results
      BY <2>2, <3>1
    <3> QED
      BY <2>1, <3>2, <3>3 DEF Synchronised
  <2> QED
    BY <2>3, <2>4, <2>5, <2>6
<1>26. CASE CollectRaises
  <2>1. pc' = "idle" /\ outcome' = "raised" /\ results' = {} /\ at' = 1 /\ passed' = <<>>
        /\ UNCHANGED <<inProgress, children, device, log, logging>>
    BY <1>26 DEF CollectRaises
  <2>2. at' \in 1..(Len(Order) + 1) /\ at' \in Nat \ {0} /\ Len(passed') < at' /\ passed' \in Seq(Agents) /\ ToSet(passed') \subseteq Agents
    BY <2>1, <1>0, <1>e
  <2>3. TypeOK'
    BY <2>1, <2>2 DEF TypeOK
  <2>4. ControlInv'
    BY <2>1, <2>2 DEF ControlInv
  <2> QED
    BY <2>1, <2>3, <2>4 DEF RecordingInv, MarkedInv, Synchronised, Ending
<1>18. ASSUME NEW a \in Agents, NEW op \in {"start", "stop"}, Late(a, op) PROVE SessionInv'
  <2>1. UNCHANGED <<pc, at, inProgress, children, passed, markers, log, logging, results, outcome>>
    BY <1>18 DEF Late
  <2>2. ControlInv' /\ MarkedInv' /\ Synchronised'
    <3>0. ~(outcome = "none" /\ pc = "idle")
      BY <1>18 DEF Late, ControlInv, RecordingInv, Ending
    <3>1. ControlInv'
      BY <2>1, <3>0 DEF ControlInv
    <3>2. MarkedInv'
      BY <2>1 DEF MarkedInv
    <3>3. Synchronised'
      BY <2>1 DEF Synchronised
    <3> QED
      BY <3>1, <3>2, <3>3
  <2>3. TypeOK'
    <3>1. tracing' \subseteq Agents
      BY <1>18 DEF Late, TypeOK
    <3>2. late' \subseteq Agents \X {"start", "stop"}
      BY <1>18 DEF Late, TypeOK
    <3>3. thread' \in [Agents -> {"none", "running", "done", "failed"}]
      BY <1>18 DEF Late, TypeOK
    <3> QED
      BY <2>1, <3>1, <3>2, <3>3 DEF TypeOK
  <2>4. RecordingInv'
    BY <1>18, <2>1 DEF Late, TypeOK, ControlInv, RecordingInv, Ending
  <2> QED
    BY <2>2, <2>3, <2>4
<1>19. ASSUME NEW a \in Agents, NEW op \in {"start", "stop"}, LateDies(a, op) PROVE SessionInv'
  <2>1. UNCHANGED <<pc, at, inProgress, children, passed, markers, log, logging, results, outcome>>
    BY <1>19 DEF LateDies
  <2>2. ControlInv' /\ MarkedInv' /\ Synchronised'
    <3>0. ~(outcome = "none" /\ pc = "idle")
      BY <1>19 DEF LateDies, ControlInv, RecordingInv, Ending
    <3>1. ControlInv'
      BY <2>1, <3>0 DEF ControlInv
    <3>2. MarkedInv'
      BY <2>1 DEF MarkedInv
    <3>3. Synchronised'
      BY <2>1 DEF Synchronised
    <3> QED
      BY <3>1, <3>2, <3>3
  <2>3. TypeOK'
    <3>1. tracing' \subseteq Agents
      BY <1>19 DEF LateDies, TypeOK
    <3>2. late' \subseteq Agents \X {"start", "stop"}
      BY <1>19 DEF LateDies, TypeOK
    <3>3. thread' \in [Agents -> {"none", "running", "done", "failed"}]
      BY <1>19 DEF LateDies, TypeOK
    <3> QED
      BY <2>1, <3>1, <3>2, <3>3 DEF TypeOK
  <2>4. RecordingInv'
    BY <1>19, <2>1 DEF LateDies, TypeOK, ControlInv, RecordingInv, Ending
  <2> QED
    BY <2>2, <2>3, <2>4
<1>20. ASSUME NEW a \in Agents, ThreadEnds(a) PROVE SessionInv'
  <2>1. UNCHANGED <<pc, at, inProgress, children, passed, markers, log, logging, results, outcome>>
    BY <1>20 DEF ThreadEnds
  <2>2. ControlInv' /\ MarkedInv' /\ Synchronised'
    <3>0. ~(outcome = "none" /\ pc = "idle")
      BY <1>20 DEF ThreadEnds, ControlInv, RecordingInv, Ending
    <3>1. ControlInv'
      BY <2>1, <3>0 DEF ControlInv
    <3>2. MarkedInv'
      BY <2>1 DEF MarkedInv
    <3>3. Synchronised'
      BY <2>1 DEF Synchronised
    <3> QED
      BY <3>1, <3>2, <3>3
  <2>3. TypeOK'
    <3>1. tracing' \subseteq Agents
      BY <1>20 DEF ThreadEnds, TypeOK
    <3>2. late' \subseteq Agents \X {"start", "stop"}
      BY <1>20 DEF ThreadEnds, TypeOK
    <3>3. thread' \in [Agents -> {"none", "running", "done", "failed"}]
      BY <1>20 DEF ThreadEnds, TypeOK
    <3> QED
      BY <2>1, <3>1, <3>2, <3>3 DEF TypeOK
  <2>4. RecordingInv'
    BY <1>20, <2>1 DEF ThreadEnds, TypeOK, ControlInv, RecordingInv, Ending
  <2> QED
    BY <2>2, <2>3, <2>4
<1>21. ASSUME NEW a \in Agents, ThreadFails(a) PROVE SessionInv'
  <2>1. UNCHANGED <<pc, at, inProgress, children, passed, markers, log, logging, results, outcome>>
    BY <1>21 DEF ThreadFails
  <2>2. ControlInv' /\ MarkedInv' /\ Synchronised'
    <3>0. ~(outcome = "none" /\ pc = "idle")
      BY <1>21 DEF ThreadFails, ControlInv, RecordingInv, Ending
    <3>1. ControlInv'
      BY <2>1, <3>0 DEF ControlInv
    <3>2. MarkedInv'
      BY <2>1 DEF MarkedInv
    <3>3. Synchronised'
      BY <2>1 DEF Synchronised
    <3> QED
      BY <3>1, <3>2, <3>3
  <2>3. TypeOK'
    <3>1. tracing' \subseteq Agents
      BY <1>21 DEF ThreadFails, TypeOK
    <3>2. late' \subseteq Agents \X {"start", "stop"}
      BY <1>21 DEF ThreadFails, TypeOK
    <3>3. thread' \in [Agents -> {"none", "running", "done", "failed"}]
      BY <1>21 DEF ThreadFails, TypeOK
    <3> QED
      BY <2>1, <3>1, <3>2, <3>3 DEF TypeOK
  <2>4. RecordingInv'
    BY <1>21, <2>1 DEF ThreadFails, TypeOK, ControlInv, RecordingInv, Ending
  <2> QED
    BY <2>2, <2>3, <2>4
<1>22. CASE UNCHANGED vars
  BY <1>22 DEF vars, TypeOK, ControlInv, RecordingInv, MarkedInv, Synchronised, Ending
<1> QED
  BY <1>1, <1>2, <1>3, <1>4, <1>5, <1>6, <1>7, <1>8, <1>9, <1>10, <1>11, <1>12, <1>13, <1>14, <1>15, <1>16, <1>17, <1>18, <1>19, <1>20, <1>21, <1>22, <1>23, <1>24, <1>25, <1>26 DEF Next

SafeInv == SessionInv /\ StoppingInv /\ StoppedFirst

LEMMA InitSafe == ASSUME TracingSessionAssumption PROVE Init => SafeInv
<1> SUFFICES ASSUME Init PROVE SafeInv
  OBVIOUS
<1>1. SessionInv
  BY InitSession
<1>2. late = {} /\ tracing = {} /\ pc = "idle" /\ outcome = "none" /\ results = {}
  BY DEF Init
<1> QED
  BY <1>1, <1>2 DEF SafeInv, StoppingInv, StoppedFirst

LEMMA NextSafe == ASSUME TracingSessionAssumption, ~Slow PROVE SafeInv /\ [Next]_vars => SafeInv'
<1> SUFFICES ASSUME SafeInv, [Next]_vars PROVE StoppingInv' /\ StoppedFirst'
  BY NextSession DEF SafeInv
<1>0. TypeOK /\ ControlInv /\ RecordingInv /\ StoppingInv /\ StoppedFirst
  BY DEF SafeInv, SessionInv
<1> USE DEF device, markers, NextAgent, Loop, Raised
<1>1. CASE StartTracing
  BY <1>0, <1>1 DEF StartTracing, TypeOK, ControlInv, RecordingInv, Ending, StoppingInv, StoppedFirst, ToSet, CollectsStill
<1>2. CASE StartRefused
  BY <1>0, <1>2 DEF StartRefused, TypeOK, ControlInv, RecordingInv, Ending, StoppingInv, StoppedFirst, ToSet, CollectsStill
<1>3. CASE StartAgent
  <2>1. pc = "start" /\ pc' = "start" /\ outcome' = "none" /\ results' = {} /\ late' = {}
    BY <1>0, <1>3 DEF StartAgent, ControlInv, RecordingInv, Ending, StoppingInv
  <2>2. at \in 1..Len(Order) /\ Order[at] \in Agents
    BY <1>0, <1>3 DEF StartAgent, ControlInv, TracingSessionAssumption
  <2>3. ToSet(passed') = ToSet(passed) \cup {Order[at]}
    BY <1>0, <1>3, <2>2, AppendOne DEF StartAgent, ControlInv
  <2>4. tracing' \subseteq ToSet(passed')
    BY <1>0, <1>3, <2>3 DEF StartAgent, StoppingInv
  <2> QED
    BY <2>1, <2>4 DEF StoppingInv, StoppedFirst
<1>4. CASE StartTimesOut
  BY <1>4 DEF StartTimesOut
<1>5. CASE StartRaises
  BY <1>0, <1>5 DEF StartRaises, TypeOK, ControlInv, RecordingInv, Ending, StoppingInv, StoppedFirst, ToSet, CollectsStill
<1>6. CASE Started
  BY <1>0, <1>6 DEF Started, TypeOK, ControlInv, RecordingInv, Ending, StoppingInv, StoppedFirst, ToSet, CollectsStill
<1>7. CASE StopTracing
  <2>1. UNCHANGED <<children, tracing, late, thread, results>>
    BY <1>7 DEF StopTracing
  <2>2. CASE pc' = "idle" /\ outcome' = "raised"
    BY <1>0, <2>1, <2>2 DEF StoppingInv, StoppedFirst
  <2>3. CASE pc = "running" /\ pc' = "sync" /\ outcome' = outcome
    BY <1>0, <2>1, <2>3 DEF StoppingInv, StoppedFirst, ControlInv
  <2> QED
    BY <1>0, <1>7, <2>2, <2>3 DEF StopTracing, ControlInv
<1>8. CASE Sync
  BY <1>0, <1>8 DEF Sync, Write, TypeOK, ControlInv, RecordingInv, Ending, StoppingInv, StoppedFirst, ToSet, CollectsStill
<1>9. CASE Synced
  BY <1>0, <1>9 DEF Synced, TypeOK, ControlInv, RecordingInv, Ending, StoppingInv, StoppedFirst, ToSet, CollectsStill
<1>10. CASE StopAgent
  <2>1. /\ pc = "stop" /\ pc' = "stop" /\ outcome' = "none" /\ late' = {} /\ at' = at + 1
        /\ UNCHANGED <<children, results>>
    BY <1>0, <1>10 DEF StopAgent, ControlInv, StoppingInv
  <2>2. /\ children \in Seq(Agents) /\ at \in 1..Len(children) /\ children[at] \in Agents
    BY <1>0, <1>10 DEF StopAgent, ControlInv
  <2>3. ToSet(passed') = ToSet(passed) \cup {children[at]}
    BY <1>0, <1>10, <2>2, AppendOne DEF StopAgent, ControlInv
  <2>4. tracing' \subseteq tracing /\ tracing \subseteq Agents
    BY <1>0, <1>10 DEF StopAgent, TypeOK
  <2>5. ASSUME NEW b \in tracing'
        PROVE (\E i \in DOMAIN children : i >= at + 1 /\ children[i] = b) \/ (CollectsStill(b)' /\ b \in ToSet(passed'))
    <3>1. CASE b = children[at]
      <4>1. b \in Threaded /\ thread' = [thread EXCEPT ![b] = "running"]
        BY <1>10, <2>5, <3>1 DEF StopAgent
      <4>2. thread'[b] = "running"
        BY <1>0, <2>2, <3>1, <4>1 DEF TypeOK
      <4> QED
        BY <2>3, <3>1, <4>1, <4>2 DEF CollectsStill
    <3>2. CASE b # children[at]
      <4>1. thread'[b] = thread[b]
        BY <1>0, <1>10, <2>2, <2>4, <3>2 DEF StopAgent, TypeOK
      <4>2. CASE CollectsStill(b) /\ b \in ToSet(passed)
        BY <2>3, <4>1, <4>2 DEF CollectsStill
      <4>3. ASSUME NEW i \in DOMAIN children, i >= at, children[i] = b
            PROVE i >= at + 1
        BY <2>2, <3>2, <4>3
      <4> QED
        BY <1>0, <2>1, <2>4, <4>2, <4>3 DEF StoppingInv
    <3> QED
      BY <3>1, <3>2
  <2>6. StoppingInv'
    BY <2>1, <2>5 DEF StoppingInv
  <2> QED
    BY <1>0, <2>1, <2>4, <2>6 DEF StoppedFirst
<1>11. CASE StopTimesOut
  BY <1>11 DEF StopTimesOut
<1>12. CASE StopRaises
  BY <1>0, <1>12 DEF StopRaises, TypeOK, ControlInv, RecordingInv, Ending, StoppingInv, StoppedFirst, ToSet, CollectsStill
<1>13. CASE Stopped
  BY <1>0, <1>13 DEF Stopped, TypeOK, ControlInv, RecordingInv, Ending, StoppingInv, StoppedFirst, ToSet, CollectsStill
<1>14. CASE StopRefused
  BY <1>0, <1>14 DEF StopRefused, TypeOK, ControlInv, RecordingInv, Ending, StoppingInv, StoppedFirst, ToSet, CollectsStill
<1>15. CASE Collect
  <2>1. /\ pc = "collect" /\ pc' = "collect" /\ at' = at + 1 /\ outcome' = "none"
        /\ UNCHANGED <<children, tracing, late, thread>>
    BY <1>0, <1>15 DEF Collect, ControlInv
  <2>2. /\ children \in Seq(Agents) /\ at \in 1..Len(children)
        /\ children[at] \in Threaded => thread[children[at]] = "done" \/ thread[children[at]] = "failed"
    BY <1>0, <1>15 DEF Collect, ControlInv
  <2>3. \A i \in DOMAIN children : i < at + 1 => i < at \/ i = at
    BY <2>2
  <2>4. StoppingInv'
    BY <1>0, <2>1, <2>2, <2>3 DEF StoppingInv, CollectsStill
  <2>5. ASSUME NEW r \in results', r.data PROVE r.agent \notin tracing
    <3>1. CASE r \in results
      BY <1>0, <2>5, <3>1 DEF StoppedFirst
    <3>2. CASE r \notin results
      <4> DEFINE whole == children[at] \in Threaded => thread[children[at]] = "done"
      <4>1. results' = results \cup {[agent |-> children[at], data |-> whole]}
        BY <1>15 DEF Collect
      <4> HIDE DEF whole
      <4>2. r.agent = children[at] /\ r.data = whole
        BY <3>2, <4>1
      <4>3. whole
        BY <2>5, <4>2
      <4> QED
        BY <1>0, <2>1, <4>2, <4>3 DEF StoppingInv, CollectsStill, whole
    <3> QED
      BY <3>1, <3>2
  <2> QED
    BY <2>1, <2>4, <2>5 DEF StoppedFirst
<1>16. CASE CollectTimesOut
  BY <1>16 DEF CollectTimesOut
<1>17. CASE Collected
  BY <1>0, <1>17 DEF Collected, TypeOK, ControlInv, RecordingInv, Ending, StoppingInv, StoppedFirst, ToSet, CollectsStill
<1>23. CASE SyncRaises
  BY <1>0, <1>23 DEF SyncRaises, ControlInv, RecordingInv, Ending, StoppingInv, StoppedFirst
<1>24. CASE SyncHangs
  BY <1>0, <1>24 DEF SyncHangs, ControlInv, RecordingInv, Ending, StoppingInv, StoppedFirst
<1>25. CASE CollectOwn
  <2>1. UNCHANGED <<tracing, late, thread>> /\ pc = "own" /\ pc' = "idle"
    BY <1>25 DEF CollectOwn
  <2>2. "controller" \notin tracing
    BY <1>0 DEF TypeOK, TracingSessionAssumption
  <2>3. \A r \in results' : r \in results \/ r.agent = "controller"
    BY <1>25 DEF CollectOwn
  <2>4. StoppingInv'
    BY <1>0, <2>1 DEF StoppingInv
  <2> QED
    BY <1>0, <2>1, <2>2, <2>3, <2>4 DEF StoppedFirst
<1>26. CASE CollectRaises
  BY <1>0, <1>26 DEF CollectRaises, StoppingInv, StoppedFirst
<1>18. ASSUME NEW a \in Agents, NEW op \in {"start", "stop"}, Late(a, op) PROVE FALSE
  BY <1>0, <1>18 DEF Late, StoppingInv
<1>19. ASSUME NEW a \in Agents, NEW op \in {"start", "stop"}, LateDies(a, op) PROVE FALSE
  BY <1>0, <1>19 DEF LateDies, StoppingInv
<1>20. ASSUME NEW a \in Agents, ThreadEnds(a) PROVE StoppingInv' /\ StoppedFirst'
  <2>1. tracing' \subseteq tracing /\ UNCHANGED <<pc, at, children, passed, late, results, outcome>>
    BY <1>20 DEF ThreadEnds
  <2>2. thread[a] = "running" /\ \A b \in Agents : thread'[b] = IF b = a THEN "done" ELSE thread[b]
    BY <1>0, <1>20 DEF ThreadEnds, TypeOK
  <2>3. tracing \subseteq Agents /\ a \notin tracing'
    BY <1>0, <1>20 DEF ThreadEnds, TypeOK
  <2>4. \A b \in tracing' : (CollectsStill(b) => CollectsStill(b)') /\ (thread[b] = "failed" => thread'[b] = "failed")
    BY <2>1, <2>2, <2>3 DEF CollectsStill
  <2>5. pc = "collect" => \A i \in DOMAIN children : thread[children[i]] # "running" => thread'[children[i]] # "running"
    BY <1>0, <2>2 DEF ControlInv
  <2>6. StoppingInv'
    BY <1>0, <2>1, <2>4, <2>5 DEF StoppingInv
  <2> QED
    BY <1>0, <2>1, <2>6 DEF StoppedFirst
<1>21. ASSUME NEW a \in Agents, ThreadFails(a) PROVE StoppingInv' /\ StoppedFirst'
  <2>1. tracing' \subseteq tracing /\ UNCHANGED <<pc, at, children, passed, late, results, outcome>>
    BY <1>21 DEF ThreadFails
  <2>2. thread[a] = "running" /\ \A b \in Agents : thread'[b] = IF b = a THEN "failed" ELSE thread[b]
    BY <1>0, <1>21 DEF ThreadFails, TypeOK
  <2>3. tracing \subseteq Agents
    BY <1>0, <1>21 DEF ThreadFails, TypeOK
  <2>4. \A b \in tracing' : (CollectsStill(b) => CollectsStill(b)') /\ (thread[b] = "failed" => thread'[b] = "failed")
    BY <2>1, <2>2, <2>3 DEF CollectsStill
  <2>5. pc = "collect" => \A i \in DOMAIN children : thread[children[i]] # "running" => thread'[children[i]] # "running"
    BY <1>0, <2>2 DEF ControlInv
  <2>6. StoppingInv'
    BY <1>0, <2>1, <2>4, <2>5 DEF StoppingInv
  <2> QED
    BY <1>0, <2>1, <2>6 DEF StoppedFirst
<1>22. CASE UNCHANGED vars
  BY <1>0, <1>22 DEF vars, StoppingInv, StoppedFirst, CollectsStill
<1> QED
  BY <1>1, <1>2, <1>3, <1>4, <1>5, <1>6, <1>7, <1>8, <1>9, <1>10, <1>11, <1>12, <1>13, <1>14, <1>15, <1>16, <1>17, <1>18, <1>19, <1>20, <1>21, <1>22, <1>23, <1>24, <1>25, <1>26 DEF Next

(* Whatever times out, fails, hangs or is refused, the marker included:    *)
(* nothing is collected before the controller has recorded a marker for    *)
(* each agent that takes one, and the trace of such an agent has it unless *)
(* the command that writes it failed, which nobody looks at                *)
(* (StopTracing(), RecordClockSyncMarker()).                               *)
THEOREM TracesOnOneClock == ASSUME TracingSessionAssumption PROVE Spec => [](TypeOK /\ Synchronised)
<1>1. SessionInv => TypeOK /\ Synchronised
  BY DEF SessionInv
<1> QED
  BY InitSession, NextSession, <1>1, PTL DEF Spec

(* While no call times out, no trace is read while it is still recorded,   *)
(* and no agent is left recording when all have been collected, unless     *)
(* its collecting thread failed (GetResults()).                            *)
THEOREM AgentsAreStopped ==
  ASSUME TracingSessionAssumption, ~Slow PROVE Spec => [](StoppedFirst /\ NothingLeftOn)
<1>1. SafeInv => StoppedFirst /\ NothingLeftOn
  BY DEF SafeInv, SessionInv, TypeOK, StoppingInv, NothingLeftOn
<1> QED
  BY InitSafe, NextSafe, <1>1, PTL DEF Spec

----------------------------------------------------------------------------
(***************************************************************************)
(* The dump of the processes.                                              *)
(***************************************************************************)

(* The file of the session at hand, at each stage of its helper.           *)
DumpInv ==
  /\ DumpTypeOK
  /\ writers \in [Sessions -> SUBSET Sessions] /\ finished \in [Sessions -> SUBSET Sessions]
  /\ dumpPc = "idle" <=> session = 0
  /\ \A n \in Sessions : n # session => ~Alive(n)
  /\ session # 0 /\ Alive(session) =>
       /\ tmp = opened[session] /\ tmp # 0 /\ out = 0
       /\ writers[tmp] = IF helper[session] \in {"main", "handles"} THEN {} ELSE {session}
       /\ finished[tmp] = IF helper[session] = "wrote" THEN {session} ELSE {}
  /\ out # 0 => session # 0 /\ writers[out] = {session} /\ finished[out] = {session}
  /\ dumpPc = "tested" => out # 0
  /\ WholeDump

LEMMA InitDump == ASSUME ProcessDumpAssumption PROVE DumpInit => DumpInv
<1> SUFFICES ASSUME DumpInit PROVE DumpInv
  OBVIOUS
<1>1. DumpTypeOK
  BY DEF DumpInit, DumpTypeOK, ProcessDumpAssumption, NoDump, Sessions
<1> QED
  BY <1>1 DEF DumpInit, DumpInv, Sessions, Alive, WholeDump

LEMMA NextDump == ASSUME ProcessDumpAssumption, Patient PROVE DumpInv /\ [DumpNext]_dumpVars => DumpInv'
<1> SUFFICES ASSUME DumpInv, [DumpNext]_dumpVars PROVE DumpInv'
  OBVIOUS
<1> USE DEF files, Alive, Sessions
<1>0. MaxSessions \in Nat
  BY DEF ProcessDumpAssumption
<1>1. CASE StartAgentTracing
  BY <1>1, <1>0 DEF StartAgentTracing, OpenFiles, DumpInv, DumpTypeOK, WholeDump, NoDump
<1>2. CASE Kill
  BY <1>2, <1>0 DEF Kill, Signalled, DumpInv, DumpTypeOK, WholeDump, NoDump
<1>3. CASE TestFile
  BY <1>3, <1>0 DEF TestFile, DumpInv, DumpTypeOK, WholeDump, NoDump
<1>4. CASE ReadFile
  <2>1. /\ dumpPc = "tested" /\ out # 0 /\ session \in Sessions
        /\ UNCHANGED <<session, helper, tmp, out, opened, writers, finished>>
    BY <1>4, <1>0 DEF ReadFile, DumpInv, DumpTypeOK
  <2>2. CASE dump' = [of |-> writers[out], whole |-> finished[out]] /\ dumpPc' = "read"
    <3>1. dump' = [of |-> {session}, whole |-> {session}]
      BY <2>1, <2>2 DEF DumpInv
    <3>2. dump'.of = {session} /\ dump'.whole = {session} /\ dump' # NoDump
      BY <3>1 DEF NoDump
    <3>3. DumpTypeOK'
      BY <2>1, <2>2, <3>2 DEF DumpInv, DumpTypeOK
    <3> QED
      BY <2>1, <2>2, <3>1, <3>3 DEF DumpInv, WholeDump
  <2>3. CASE dumpPc' = "notStopped" /\ UNCHANGED dump
    <3>1. DumpTypeOK'
      BY <2>1, <2>3 DEF DumpInv, DumpTypeOK
    <3> QED
      BY <2>1, <2>3, <3>1 DEF DumpInv, WholeDump
  <2> QED
    BY <1>4, <2>2, <2>3 DEF ReadFile
<1>5. CASE RemoveFile
  BY <1>5, <1>0 DEF RemoveFile, DumpInv, DumpTypeOK, WholeDump, NoDump
<1>6. ASSUME NEW n \in Sessions, InstallHandler(n) PROVE DumpInv'
  <2>1. n = session /\ session # 0 /\ Alive(session)
    BY <1>6 DEF InstallHandler, DumpInv
  <2> QED
    BY <1>6, <1>0, <2>1 DEF InstallHandler, DumpInv, DumpTypeOK, WholeDump, NoDump
<1>7. ASSUME NEW n \in Sessions, StartTimer(n) PROVE DumpInv'
  <2>1. n = session /\ session # 0 /\ Alive(session)
    BY <1>7 DEF StartTimer, DumpInv
  <2> QED
    BY <1>7, <1>0, <2>1 DEF StartTimer, DumpInv, DumpTypeOK, WholeDump, NoDump
<1>8. ASSUME NEW n \in Sessions, Finish(n) PROVE DumpInv'
  <2>1. n = session /\ session # 0 /\ Alive(session)
    BY <1>8 DEF Finish, DumpInv
  <2> QED
    BY <1>8, <1>0, <2>1 DEF Finish, DumpInv, DumpTypeOK, WholeDump, NoDump
<1>9. ASSUME NEW n \in Sessions, Rename(n) PROVE DumpInv'
  <2>1. n = session /\ session # 0 /\ Alive(session)
    BY <1>9 DEF Rename, DumpInv
  <2> QED
    BY <1>9, <1>0, <2>1 DEF Rename, DumpInv, DumpTypeOK, WholeDump, NoDump
<1>10. ASSUME NEW n \in Sessions, Dies(n) PROVE DumpInv'
  <2>1. n = session /\ session # 0 /\ Alive(session)
    BY <1>10 DEF Dies, DumpInv
  <2> QED
    BY <1>10, <1>0, <2>1 DEF Dies, DumpInv, DumpTypeOK, WholeDump, NoDump
<1>11. CASE UNCHANGED dumpVars
  BY <1>11 DEF dumpVars, DumpInv, DumpTypeOK, WholeDump, NoDump
<1> QED
  BY <1>1, <1>2, <1>3, <1>4, <1>5, <1>6, <1>7, <1>8, <1>9, <1>10, <1>11 DEF DumpNext, Agent, Helper

(* When a session begins only after the helpers of the earlier ones have   *)
(* ended, what the agent has read is the whole dump of its own session.    *)
THEOREM DumpIsWhole == ASSUME ProcessDumpAssumption, Patient PROVE DumpSpec => [](DumpTypeOK /\ WholeDump)
<1>1. DumpInv => DumpTypeOK /\ WholeDump
  BY DEF DumpInv
<1> QED
  BY InitDump, NextDump, <1>1, PTL DEF DumpSpec

----------------------------------------------------------------------------
(***************************************************************************)
(* The trace of the host's kernel.                                         *)
(***************************************************************************)

(* SetToSeq() lists the elements of a finite set.                          *)
LEMMA ListsTheSet ==
  ASSUME NEW S, IsFiniteSet(S)
  PROVE  SetToSeq(S) \in Seq(S) /\ ToSet(SetToSeq(S)) = S
<1> DEFINE f == SetToSeq(S)
<1>1. Cardinality(S) \in Nat /\ Injection(1..Cardinality(S), S) # {}
  <2>1. PICK g \in Bijection(1..Cardinality(S), S) : TRUE
    BY FS_CardinalityType, Fun_ExistsBij
  <2> QED
    BY <2>1, FS_CardinalityType, Fun_BijectionProperties
<1>2. f \in Injection(1..Cardinality(S), S)
  BY <1>1 DEF SetToSeq, Injection
<1>3. f \in Surjection(1..Cardinality(S), S)
  <2>1. Cardinality(1..Cardinality(S)) = Cardinality(S) /\ IsFiniteSet(1..Cardinality(S))
    BY <1>1, FS_Interval
  <2> QED
    BY <1>2, <2>1, FS_Injection
<1>4. f \in [1..Cardinality(S) -> S] /\ \A x \in S : \E i \in 1..Cardinality(S) : f[i] = x
  BY <1>3 DEF Surjection
<1> HIDE DEF f
<1>5. ToSet(f) = S
  BY <1>4 DEF ToSet
<1> QED
  BY <1>1, <1>4, <1>5 DEF f

LEMMA HeadAndTail ==
  ASSUME NEW S, NEW s \in Seq(S), s # <<>>
  PROVE  /\ Head(s) \in S /\ Tail(s) \in Seq(S)
         /\ ToSet(s) = {Head(s)} \cup ToSet(Tail(s))
<1>1. Len(s) \in Nat \ {0} /\ DOMAIN s = 1..Len(s) /\ Head(s) = s[1]
  OBVIOUS
<1> DEFINE t == Tail(s)
<1>2. t \in Seq(S) /\ Len(t) = Len(s) - 1 /\ DOMAIN t = 1..Len(t) /\ \A i \in 1..Len(t) : t[i] = s[i + 1]
  OBVIOUS
<1> HIDE DEF t
<1>3. \A i \in DOMAIN t : i + 1 \in DOMAIN s /\ t[i] = s[i + 1]
  BY <1>1, <1>2
<1>4. \A i \in DOMAIN s : i = 1 \/ (i - 1 \in DOMAIN t /\ t[i - 1] = s[i])
  BY <1>1, <1>2
<1>5. ToSet(s) = {s[1]} \cup ToSet(t)
  BY <1>1, <1>3, <1>4 DEF ToSet
<1> QED
  BY <1>1, <1>2, <1>5 DEF t

(* The files of the events that the categories at hand need or take.       *)
Wanted == UNION {Req[c] \cup (Opt[c] \cap writable) : c \in FixCategories}

FtraceInv ==
  /\ FtraceTypeOK
  /\ todo \in Seq(Events)
  /\ ftracePc = "idle" => enabled = {} /\ categories = NotStored
  /\ ftracePc # "failed" => enabled \subseteq Wanted
  /\ ftracePc = "enables" => ToSet(todo) \subseteq Wanted /\ categories = NotStored
  /\ ftracePc \in {"enabled", "cleared", "traces", "disables", "stopped", "collected"} => categories = FixCategories
  /\ ftracePc = "disables" => enabled \subseteq ToSet(todo) /\ ~tracingOn
  /\ ftracePc \in {"cleared", "traces", "disables", "stopped", "collected"} => "before" \notin trace
  /\ ftracePc # "collected" => result = {}
  /\ LeftAsItWas /\ FreshTrace

LEMMA WantedIsListed ==
  ASSUME FtraceAssumption, writable \subseteq Events, given \subseteq Categories
  PROVE  /\ FixCategories \subseteq Categories /\ Wanted \subseteq Events
         /\ Paths(FixCategories) \in Seq(Events) /\ ToSet(Paths(FixCategories)) = Wanted
<1>1. FixCategories \subseteq Categories
  BY DEF FixCategories, IsCategoryAvailable
<1>2. Wanted \subseteq Events
  BY <1>1 DEF Wanted, FtraceAssumption
<1>3. IsFiniteSet(Wanted)
  BY <1>2, FS_Subset DEF FtraceAssumption
<1>4. Paths(FixCategories) = SetToSeq(Wanted)
  BY DEF Paths, Wanted
<1>5. SetToSeq(Wanted) \in Seq(Wanted) /\ ToSet(SetToSeq(Wanted)) = Wanted
  BY <1>3, ListsTheSet
<1> QED
  BY <1>1, <1>2, <1>4, <1>5

LEMMA InitFtrace == ASSUME FtraceAssumption PROVE FtraceInit => FtraceInv
<1> SUFFICES ASSUME FtraceInit PROVE FtraceInv
  OBVIOUS
<1>1. FtraceTypeOK
  BY DEF FtraceInit, FtraceTypeOK, ToSet
<1> QED
  BY <1>1 DEF FtraceInit, FtraceInv, LeftAsItWas, FreshTrace

LEMMA NextFtrace == ASSUME FtraceAssumption PROVE FtraceInv /\ [FtraceNext]_ftraceVars => FtraceInv'
<1> SUFFICES ASSUME FtraceInv, [FtraceNext]_ftraceVars PROVE FtraceInv'
  OBVIOUS
<1> USE DEF kernel, Fails, LeftAsItWas, FreshTrace
<1>0. UNCHANGED <<writable, given>>
  BY DEF FtraceNext, ftraceVars, FtraceStartAgentTracing, CategoryEnable, StoreCategories, Clear, TraceOn, StopAgentTracing, CategoryDisable, GetResults, Records
<1>w. FixCategories' = FixCategories /\ Wanted' = Wanted
  BY <1>0 DEF FixCategories, IsCategoryAvailable, Wanted
<1>l. /\ FixCategories \subseteq Categories /\ Wanted \subseteq Events
      /\ Paths(FixCategories) \in Seq(Events) /\ ToSet(Paths(FixCategories)) = Wanted
  BY WantedIsListed DEF FtraceInv, FtraceTypeOK
<1>f. CASE Fails /\ ftracePc # "collected"
  BY <1>f, <1>0, <1>w DEF FtraceInv, FtraceTypeOK
<1>t. todo # <<>> => /\ Head(todo) \in Events /\ Tail(todo) \in Seq(Events)
                    /\ ToSet(todo) = {Head(todo)} \cup ToSet(Tail(todo))
  BY HeadAndTail DEF FtraceInv
<1>e. todo = <<>> => ToSet(todo) = {}
  BY DEF ToSet
<1>1. CASE FtraceStartAgentTracing
  BY <1>1, <1>0, <1>w, <1>l DEF FtraceStartAgentTracing, FtraceInv, FtraceTypeOK, NotStored
<1>2. CASE CategoryEnable
  <2>1. CASE /\ enabled' = enabled \cup {Head(todo)} /\ todo' = Tail(todo)
             /\ UNCHANGED <<ftracePc, categories, tracingOn, bufferSize, trace, result>>
    <3>1. Head(todo) \in Events /\ todo' \in Seq(Events) /\ ToSet(todo) = {Head(todo)} \cup ToSet(todo')
      BY <1>2, <1>t, <2>1 DEF CategoryEnable
    <3>2. ftracePc = "enables" /\ Head(todo) \in Wanted /\ ToSet(todo') \subseteq Wanted
      BY <1>2, <3>1 DEF CategoryEnable, FtraceInv
    <3>3. FtraceTypeOK'
      BY <1>0, <1>l, <2>1, <3>1, <3>2 DEF FtraceInv, FtraceTypeOK
    <3> QED
      BY <1>0, <1>w, <2>1, <3>1, <3>2, <3>3 DEF FtraceInv
  <2> QED
    BY <1>2, <1>f, <2>1 DEF CategoryEnable
<1>3. CASE StoreCategories
  BY <1>3, <1>0, <1>w, <1>l DEF StoreCategories, FtraceInv, FtraceTypeOK, NotStored
<1>4. CASE Clear
  BY <1>4, <1>0, <1>w, <1>l DEF Clear, FtraceInv, FtraceTypeOK, NotStored
<1>5. CASE TraceOn
  <2>1. CASE /\ tracingOn' = TRUE /\ ftracePc' = "traces"
             /\ UNCHANGED <<todo, categories, enabled, bufferSize, trace, result>>
    <3>1. categories # NotStored
      BY <1>5, <1>l DEF TraceOn, FtraceInv, NotStored, FtraceAssumption
    <3> QED
      BY <3>1, <1>5, <1>0, <1>w, <2>1 DEF TraceOn, FtraceInv, FtraceTypeOK, NotStored
  <2> QED
    BY <1>5, <1>f, <2>1 DEF TraceOn
<1>6. CASE StopAgentTracing
  BY <1>6, <1>0, <1>w, <1>l DEF StopAgentTracing, FtraceInv, FtraceTypeOK, NotStored
<1>7. CASE CategoryDisable
  <2>1. CASE todo = <<>> /\ ftracePc' = "stopped" /\ UNCHANGED <<todo, enabled, categories, tracingOn, bufferSize, trace, result>>
    <3>1. ftracePc = "disables" /\ enabled = {} /\ ~tracingOn
      BY <1>7, <1>e, <2>1 DEF CategoryDisable, FtraceInv
    <3> QED
      BY <1>0, <1>w, <2>1, <3>1 DEF FtraceInv, FtraceTypeOK, NotStored
  <2>2. CASE /\ todo # <<>> /\ enabled' = enabled \ {Head(todo)} /\ todo' = Tail(todo)
             /\ UNCHANGED <<ftracePc, categories, tracingOn, bufferSize, trace, result>>
    <3>1. todo' \in Seq(Events) /\ ToSet(todo) = {Head(todo)} \cup ToSet(todo')
      BY <1>t, <2>2
    <3>2. ftracePc = "disables" /\ enabled' \subseteq ToSet(todo') /\ ~tracingOn
      BY <1>7, <2>2, <3>1 DEF CategoryDisable, FtraceInv
    <3>3. FtraceTypeOK'
      BY <1>0, <1>l, <2>2, <3>1, <3>2 DEF FtraceInv, FtraceTypeOK, ToSet
    <3> QED
      BY <1>0, <1>w, <2>2, <3>1, <3>2, <3>3 DEF FtraceInv
  <2> QED
    BY <1>7, <1>f, <2>1, <2>2 DEF CategoryDisable
<1>8. CASE GetResults
  BY <1>8, <1>0, <1>w, <1>l DEF GetResults, FtraceInv, FtraceTypeOK, NotStored
<1>9. CASE Records
  BY <1>9, <1>0, <1>w, <1>l DEF Records, FtraceInv, FtraceTypeOK, NotStored
<1>10. CASE UNCHANGED ftraceVars
  BY <1>10, <1>0, <1>w DEF ftraceVars, FtraceInv, FtraceTypeOK
<1> QED
  BY <1>1, <1>2, <1>3, <1>4, <1>5, <1>6, <1>7, <1>8, <1>9, <1>10 DEF FtraceNext

(* Whatever write fails: when a trace has been collected, the kernel is    *)
(* not left tracing and no event is left enabled, and nothing is in the    *)
(* trace that happened before the start.                                   *)
THEOREM KernelIsLeftAsItWas ==
  ASSUME FtraceAssumption PROVE FtraceSpec => [](FtraceTypeOK /\ LeftAsItWas /\ FreshTrace)
<1>1. FtraceInv => FtraceTypeOK /\ LeftAsItWas /\ FreshTrace
  BY DEF FtraceInv
<1> QED
  BY InitFtrace, NextFtrace, <1>1, PTL DEF FtraceSpec

----------------------------------------------------------------------------
(***************************************************************************)
(* The log of py_trace_event.                                              *)
(***************************************************************************)

LogSetting == Assumption /\ NoFile \notin Procs

LogEvents == Procs \X Threads \X Nat \X {"B", "E"}
Tokens == {Event(e) : e \in LogEvents} \cup {Comma, Bracket}
LogPcs == {"idle", "begin", "flock", "comma", "events", "unlock"}

LogTypes ==
  /\ file \in Seq(Tokens) /\ flocked \in Procs \cup {NoFile}
  /\ status \in [Procs -> {"unborn", "run", "ends", "ended"}]
  /\ kind \in [Procs -> {"root"} \cup Kinds] /\ allowed \in [Procs -> BOOLEAN]
  /\ _enabled \in [Procs -> BOOLEAN] /\ _cur_events \in [Procs -> Seq(LogEvents)]
  /\ noted \in [Procs -> BOOLEAN] /\ atexit \in [Procs -> BOOLEAN]
  /\ logOpened \in [Procs -> Procs \cup {NoFile}] /\ mutex \in [Procs -> {"free", "held"}]
  /\ logPc \in [Actors -> LogPcs] /\ closing \in [Actors -> BOOLEAN]
  /\ span \in [Actors -> {"none", "begin", "inside"}] /\ counts \in [Actors -> Nat]

(* Whoever is in a function of the log holds the lock of its process, and  *)
(* nobody else of the process is in one; what is being closed is disabled. *)
LockInv ==
  /\ \A a \in Actors : logPc[a] # "idle" => mutex[a[1]] = "held" /\ logOpened[a[1]] # NoFile
  /\ \A a, b \in Actors : logPc[a] # "idle" /\ logPc[b] # "idle" /\ a[1] = b[1] => a = b
  /\ \A a \in Actors : logPc[a] # "idle" /\ logPc[a] # "begin" /\ closing[a] => ~_enabled[a[1]]
  /\ \A p \in Procs : _enabled[p] => logOpened[p] # NoFile
  /\ \A a \in Actors : status[a[1]] = "unborn" => logPc[a] = "idle"

OwnInv == OwnOnly /\ \A p \in Procs : status[p] = "unborn" => ~noted[p]

(* What add_trace_event() leaves in the buffer.                            *)
Kept(p) == IF noted[p] THEN _cur_events[p] ELSE <<>>
NewEvent(a, ph) == <<a[1], a[2], counts[a], ph>>

LEMMA Added ==
  ASSUME LogTypes, NEW a \in Actors, NEW ph \in {"B", "E"}, add_trace_event(a, ph)
  PROVE  /\ NewEvent(a, ph) \in LogEvents /\ Kept(a[1]) \in Seq(LogEvents)
         /\ _cur_events' = [_cur_events EXCEPT ![a[1]] = Append(Kept(a[1]), NewEvent(a, ph))]
         /\ _cur_events' \in [Procs -> Seq(LogEvents)] /\ counts' \in [Actors -> Nat]
         /\ noted' \in [Procs -> BOOLEAN] /\ atexit' \in [Procs -> BOOLEAN]
<1>1. a[1] \in Procs /\ a[2] \in Threads /\ counts[a] \in Nat
  BY DEF LogTypes, Actors
<1>2. NewEvent(a, ph) \in LogEvents
  BY <1>1 DEF NewEvent, LogEvents
<1>3. _cur_events[a[1]] \in Seq(LogEvents)
  BY <1>1 DEF LogTypes
<1>4. Kept(a[1]) \in Seq(LogEvents)
  BY <1>3 DEF Kept
<1>5. _cur_events' = [_cur_events EXCEPT ![a[1]] = Append(Kept(a[1]), NewEvent(a, ph))]
  BY DEF add_trace_event, Kept, NewEvent
<1>6. Append(Kept(a[1]), NewEvent(a, ph)) \in Seq(LogEvents)
  BY <1>2, <1>4
<1>7. counts' \in [Actors -> Nat] /\ noted' \in [Procs -> BOOLEAN] /\ atexit' \in [Procs -> BOOLEAN]
  BY <1>1 DEF add_trace_event, LogTypes
<1>8. _cur_events' \in [Procs -> Seq(LogEvents)]
  BY <1>5, <1>6 DEF LogTypes
<1> QED
  BY <1>2, <1>4, <1>5, <1>7, <1>8

LEMMA JoinedTokens ==
  ASSUME NEW buf \in Seq(LogEvents)
  PROVE  /\ Joined(buf) \in Seq(Tokens)
         /\ Len(Joined(buf)) = IF buf = <<>> THEN 0 ELSE 2 * Len(buf) - 1
         /\ \A i \in 1..Len(Joined(buf)) :
              /\ i % 2 = 1 => (i + 1) \div 2 \in 1..Len(buf) /\ Joined(buf)[i] = Event(buf[(i + 1) \div 2])
              /\ i % 2 # 1 => Joined(buf)[i] = Comma
<1> DEFINE n == IF buf = <<>> THEN 0 ELSE 2 * Len(buf) - 1
<1>1. n \in Nat /\ Len(buf) \in Nat
  OBVIOUS
<1>2. \A i \in 1..n : i % 2 = 1 => (i + 1) \div 2 \in 1..Len(buf)
  OBVIOUS
<1> DEFINE tok(i) == IF i % 2 = 1 THEN Event(buf[(i + 1) \div 2]) ELSE Comma
<1>3. Joined(buf) = [i \in 1..n |-> tok(i)]
  BY DEF Joined
<1>4. ASSUME NEW i \in 1..n PROVE tok(i) \in Tokens
  <2>1. CASE i % 2 = 1
    <3>1. buf[(i + 1) \div 2] \in LogEvents
      BY <1>2, <2>1
    <3> QED
      BY <2>1, <3>1 DEF Tokens
  <2> QED
    BY <2>1 DEF Tokens
<1>5. \A i \in 1..n : (i % 2 = 1 => tok(i) = Event(buf[(i + 1) \div 2])) /\ (i % 2 # 1 => tok(i) = Comma)
  OBVIOUS
<1> HIDE DEF n, tok
<1>6. Joined(buf) \in Seq(Tokens) /\ Len(Joined(buf)) = n /\ \A i \in 1..n : Joined(buf)[i] = tok(i)
  BY <1>1, <1>3, <1>4
<1> QED
  BY <1>2, <1>5, <1>6 DEF n

LEMMA NextLogTypes == ASSUME LogSetting PROVE LogTypes /\ [LogNext]_logVars => LogTypes'
<1> SUFFICES ASSUME LogTypes, [LogNext]_logVars PROVE LogTypes'
  OBVIOUS
<1> USE DEF perProcess
<1>1. ASSUME NEW a \in Actors, Enable(a) PROVE LogTypes'
  BY <1>1 DEF Enable, Calls, Free, Idle, LogAlive, LogSetting, Assumption, LogTypes, Actors, LogPcs
<1>2. ASSUME NEW a \in Actors, logTrace(a) PROVE LogTypes'
  BY <1>2 DEF logTrace, Entered, LogSetting, Assumption, LogTypes, Actors, LogPcs
<1>3. ASSUME NEW a \in Actors, traced_function(a) PROVE LogTypes'
  BY <1>3 DEF traced_function, Entered, LogSetting, Assumption, LogTypes, Actors, LogPcs
<1>4. ASSUME NEW a \in Actors, SpanBegins(a) PROVE LogTypes'
  <2>1. CASE add_trace_event(a, "B")
    BY <1>4, <2>1, Added DEF SpanBegins, Free, Idle, LogAlive, LogSetting, Assumption, LogTypes, Actors, LogPcs
  <2>2. CASE Ignored
    BY <1>4, <2>2 DEF SpanBegins, Free, Idle, LogAlive, Ignored, LogSetting, Assumption, LogTypes, Actors, LogPcs
  <2> QED
    BY <1>4, <2>1, <2>2 DEF SpanBegins, AddIfEnabled
<1>5. ASSUME NEW a \in Actors, SpanEnds(a) PROVE LogTypes'
  <2>1. CASE add_trace_event(a, "E")
    BY <1>5, <2>1, Added DEF SpanEnds, Free, Idle, LogAlive, LogSetting, Assumption, LogTypes, Actors, LogPcs
  <2>2. CASE Ignored
    BY <1>5, <2>2 DEF SpanEnds, Free, Idle, LogAlive, Ignored, LogSetting, Assumption, LogTypes, Actors, LogPcs
  <2> QED
    BY <1>5, <2>1, <2>2 DEF SpanEnds, AddIfEnabled
<1>6. ASSUME NEW a \in Actors, trace_flush(a) PROVE LogTypes'
  BY <1>6 DEF trace_flush, Calls, Free, Idle, LogAlive, Flushes, LogSetting, Assumption, LogTypes, Actors, LogPcs
<1>7. ASSUME NEW a \in Actors, trace_disable(a) PROVE LogTypes'
  BY <1>7 DEF trace_disable, Calls, Free, Idle, LogAlive, Flushes, LogSetting, Assumption, LogTypes, Actors, LogPcs
<1>8. ASSUME NEW a \in Actors, Flock(a) PROVE LogTypes'
  BY <1>8 DEF Flock, LogSetting, Assumption, LogTypes, Actors, LogPcs
<1>9. ASSUME NEW a \in Actors, BeginFile(a) PROVE LogTypes'
  <2>1. file' \in Seq(Tokens)
    <3>1. Bracket \in Tokens
      BY DEF Tokens
    <3> QED
      BY <1>9, <3>1 DEF BeginFile, LogTypes
  <2> QED
    BY <1>9, <2>1 DEF BeginFile, LogSetting, Assumption, LogTypes, Actors, LogPcs
<1>10. ASSUME NEW a \in Actors, WriteComma(a) PROVE LogTypes'
  <2>1. Comma \in Tokens
    BY DEF Tokens
  <2>2. file' \in Seq(Tokens)
    BY <1>10, <2>1 DEF WriteComma, LogTypes
  <2> QED
    BY <1>10, <2>2 DEF WriteComma, LogSetting, Assumption, LogTypes, Actors, LogPcs
<1>11. ASSUME NEW a \in Actors, WriteEvents(a) PROVE LogTypes'
  <2>1. a[1] \in Procs /\ _cur_events[a[1]] \in Seq(LogEvents)
    BY DEF LogTypes, Actors
  <2>2. Joined(_cur_events[a[1]]) \in Seq(Tokens)
    BY <2>1, JoinedTokens
  <2>3. file' \in Seq(Tokens)
    BY <1>11, <2>2 DEF WriteEvents, LogTypes
  <2>4. _cur_events' \in [Procs -> Seq(LogEvents)] /\ logPc' \in [Actors -> LogPcs]
    BY <1>11, <2>1 DEF WriteEvents, LogTypes, LogPcs
  <2> QED
    BY <1>11, <2>3, <2>4 DEF WriteEvents, LogTypes
<1>12. ASSUME NEW a \in Actors, Unlock(a) PROVE LogTypes'
  BY <1>12 DEF Unlock, LogSetting, Assumption, LogTypes, Actors, LogPcs
<1>13. ASSUME NEW a \in Actors, NEW c \in Procs \ Roots, NEW k \in Kinds, Fork(a, c, k) PROVE LogTypes'
  BY <1>13 DEF Fork, Idle, LogAlive, LogSetting, Assumption, LogTypes, Actors, LogPcs
<1>14. ASSUME NEW p \in Procs, Ends(p) PROVE LogTypes'
  <2>1. status' \in [Procs -> {"unborn", "run", "ends", "ended"}]
    <3>1. \E w \in {"ends", "ended"} : status' = [status EXCEPT ![p] = w]
      BY <1>14 DEF Ends
    <3> QED
      BY <3>1 DEF LogTypes
  <2>2. _enabled' \in [Procs -> BOOLEAN]
    BY <1>14, Zenon DEF Ends, LogTypes
  <2>3. \/ UNCHANGED <<mutex, logPc, closing>>
        \/ \E close \in BOOLEAN : Flushes(<<p, Main>>, close)
    BY <1>14 DEF Ends
  <2>4. ASSUME NEW close \in BOOLEAN, Flushes(<<p, Main>>, close)
        PROVE  /\ mutex' \in [Procs -> {"free", "held"}] /\ logPc' \in [Actors -> LogPcs]
               /\ closing' \in [Actors -> BOOLEAN]
    BY <2>4 DEF Flushes, LogTypes, LogPcs
  <2>5. /\ mutex' \in [Procs -> {"free", "held"}] /\ logPc' \in [Actors -> LogPcs]
        /\ closing' \in [Actors -> BOOLEAN]
    BY <2>3, <2>4 DEF LogTypes
  <2>6. UNCHANGED <<file, flocked, kind, allowed, _cur_events, noted, atexit, logOpened, span, counts>>
    BY <1>14 DEF Ends
  <2> QED
    BY <2>1, <2>2, <2>5, <2>6 DEF LogTypes
<1>15. ASSUME NEW p \in Procs, Terminate(p) PROVE LogTypes'
  BY <1>15 DEF Terminate, LogTypes, Actors, LogPcs
<1>16. CASE UNCHANGED logVars
  BY <1>16 DEF logVars, LogSetting, Assumption, LogTypes, Actors, LogPcs
<1> QED
  BY <1>1, <1>2, <1>3, <1>4, <1>5, <1>6, <1>7, <1>8, <1>9, <1>10, <1>11, <1>12, <1>13, <1>14, <1>15, <1>16 DEF LogNext, SpanSteps, Writing

LEMMA NextLock == ASSUME LogSetting PROVE LogTypes /\ LockInv /\ [LogNext]_logVars => LockInv'
<1> SUFFICES ASSUME LogTypes /\ LockInv, [LogNext]_logVars PROVE LockInv'
  OBVIOUS
<1> USE DEF perProcess
<1>1. ASSUME NEW a \in Actors, Enable(a) PROVE LockInv'
  <2>1. (\A b \in Actors : logPc[b] # "idle" => mutex[b[1]] = "held" /\ logOpened[b[1]] # NoFile)'
    BY <1>1 DEF Enable, Calls, Free, Idle, LogAlive, LogSetting, LogTypes, LockInv, Actors
  <2>2. (\A b, c \in Actors : logPc[b] # "idle" /\ logPc[c] # "idle" /\ b[1] = c[1] => b = c)'
    BY <1>1 DEF Enable, Calls, Free, Idle, LogAlive, LogSetting, LogTypes, LockInv, Actors
  <2>3. (\A b \in Actors : logPc[b] # "idle" /\ logPc[b] # "begin" /\ closing[b] => ~_enabled[b[1]])'
    BY <1>1 DEF Enable, Calls, Free, Idle, LogAlive, LogSetting, LogTypes, LockInv, Actors
  <2>4. (\A p \in Procs : _enabled[p] => logOpened[p] # NoFile)'
    BY <1>1 DEF Enable, Calls, Free, Idle, LogAlive, LogSetting, LogTypes, LockInv, Actors
  <2>5. (\A b \in Actors : status[b[1]] = "unborn" => logPc[b] = "idle")'
    BY <1>1 DEF Enable, Calls, Free, Idle, LogAlive, LogSetting, LogTypes, LockInv, Actors
  <2> QED
    BY <2>1, <2>2, <2>3, <2>4, <2>5 DEF LockInv
<1>2. ASSUME NEW a \in Actors, logTrace(a) PROVE LockInv'
  BY <1>2 DEF logTrace, Entered, LogTypes, LockInv, Actors
<1>3. ASSUME NEW a \in Actors, traced_function(a) PROVE LockInv'
  BY <1>3 DEF traced_function, Entered, LogTypes, LockInv, Actors
<1>4. ASSUME NEW a \in Actors, SpanBegins(a) PROVE LockInv'
  BY <1>4 DEF SpanBegins, Free, Idle, LogAlive, AddIfEnabled, add_trace_event, Ignored, LogTypes, LockInv, Actors
<1>5. ASSUME NEW a \in Actors, SpanEnds(a) PROVE LockInv'
  BY <1>5 DEF SpanEnds, Free, Idle, LogAlive, AddIfEnabled, add_trace_event, Ignored, LogTypes, LockInv, Actors
<1>6. ASSUME NEW a \in Actors, trace_flush(a) PROVE LockInv'
  BY <1>6 DEF trace_flush, Calls, Free, Idle, LogAlive, Flushes, LogTypes, LockInv, Actors
<1>7. ASSUME NEW a \in Actors, trace_disable(a) PROVE LockInv'
  BY <1>7 DEF trace_disable, Calls, Free, Idle, LogAlive, Flushes, LogTypes, LockInv, Actors
<1>8. ASSUME NEW a \in Actors, Flock(a) PROVE LockInv'
  BY <1>8 DEF Flock, LogTypes, LockInv, Actors
<1>9. ASSUME NEW a \in Actors, BeginFile(a) PROVE LockInv'
  BY <1>9 DEF BeginFile, LogTypes, LockInv, Actors
<1>10. ASSUME NEW a \in Actors, WriteComma(a) PROVE LockInv'
  BY <1>10 DEF WriteComma, LogTypes, LockInv, Actors
<1>11. ASSUME NEW a \in Actors, WriteEvents(a) PROVE LockInv'
  BY <1>11 DEF WriteEvents, LogTypes, LockInv, Actors
<1>12. ASSUME NEW a \in Actors, Unlock(a) PROVE LockInv'
  <2>1. (\A b \in Actors : logPc[b] # "idle" => mutex[b[1]] = "held" /\ logOpened[b[1]] # NoFile)'
    BY <1>12 DEF Unlock, LogTypes, LockInv, Actors
  <2>2. (\A b, c \in Actors : logPc[b] # "idle" /\ logPc[c] # "idle" /\ b[1] = c[1] => b = c)'
    BY <1>12 DEF Unlock, LogTypes, LockInv, Actors
  <2>3. (\A b \in Actors : logPc[b] # "idle" /\ logPc[b] # "begin" /\ closing[b] => ~_enabled[b[1]])'
    BY <1>12 DEF Unlock, LogTypes, LockInv, Actors
  <2>4. (\A p \in Procs : _enabled[p] => logOpened[p] # NoFile)'
    <3>1. /\ logPc[a] = "unlock" /\ _enabled' = _enabled
          /\ logOpened' = IF closing[a] THEN [logOpened EXCEPT ![a[1]] = NoFile] ELSE logOpened
      BY <1>12 DEF Unlock
    <3>2. closing[a] => ~_enabled[a[1]]
      BY <3>1 DEF LockInv
    <3>3. /\ logOpened \in [Procs -> Procs \cup {NoFile}]
          /\ \A p \in Procs : _enabled[p] => logOpened[p] # NoFile
      BY DEF LogTypes, LockInv
    <3> QED
      BY <3>1, <3>2, <3>3
  <2>5. (\A b \in Actors : status[b[1]] = "unborn" => logPc[b] = "idle")'
    BY <1>12 DEF Unlock, LogTypes, LockInv, Actors
  <2> QED
    BY <2>1, <2>2, <2>3, <2>4, <2>5 DEF LockInv
<1>13. ASSUME NEW a \in Actors, NEW c \in Procs \ Roots, NEW k \in Kinds, Fork(a, c, k) PROVE LockInv'
  BY <1>13 DEF Fork, Idle, LogAlive, LogTypes, LockInv, Actors
<1>14. ASSUME NEW p \in Procs, Ends(p) PROVE LockInv'
  <2>0. <<p, Main>> \in Actors /\ <<p, Main>>[1] = p
    BY DEF LogSetting, Assumption, Actors
  <2>1. Quiet(p) /\ status[p] = "run" /\ UNCHANGED <<kind, logOpened>>
    BY <1>14 DEF Ends
  <2>2. \A b \in Actors : b[1] = p => logPc[b] = "idle"
    BY <2>1 DEF Quiet, Actors
  <2>3. \A q \in Procs : _enabled'[q] => _enabled[q] /\ (q = p => kind[p] = "mp")
    BY <1>14 DEF Ends, LogTypes
  <2>4. \A q \in Procs : (status'[q] = "unborn" <=> status[q] = "unborn")
    BY <1>14, <2>1 DEF Ends, LogTypes
  <2>5. CASE UNCHANGED <<mutex, logPc, closing>>
    <3>1. \A b \in Actors : b[1] \in Procs
      BY DEF Actors
    <3> QED
      BY <2>1, <2>3, <2>4, <2>5, <3>1 DEF LockInv
  <2>6. CASE _enabled[p] /\ Flushes(<<p, Main>>, kind[p] # "mp")
    <3>1. \A b \in Actors : b[1] \in Procs /\ logPc'[b] = IF b = <<p, Main>> THEN "flock" ELSE logPc[b]
      BY <2>0, <2>6 DEF Flushes, LogTypes, Actors
    <3>2. \A b \in Actors : b = <<p, Main>> /\ closing'[b] => kind[p] # "mp"
      BY <2>0, <2>6 DEF Flushes, LogTypes
    <3>3. \A b \in Actors : b # <<p, Main>> /\ closing'[b] => closing[b]
      BY <2>0, <2>6 DEF Flushes, LogTypes
    <3>4. \A q \in Procs : mutex'[q] = IF q = p THEN "held" ELSE mutex[q]
      BY <2>0, <2>6 DEF Flushes, LogTypes
    <3>5. (\A b \in Actors : logPc[b] # "idle" => mutex[b[1]] = "held" /\ logOpened[b[1]] # NoFile)'
      BY <2>0, <2>1, <2>6, <3>1, <3>4 DEF LockInv
    <3>6. (\A b, c \in Actors : logPc[b] # "idle" /\ logPc[c] # "idle" /\ b[1] = c[1] => b = c)'
      BY <2>0, <2>2, <3>1 DEF LockInv
    <3>7. (\A b \in Actors : logPc[b] # "idle" /\ logPc[b] # "begin" /\ closing[b] => ~_enabled[b[1]])'
      BY <2>0, <2>3, <3>1, <3>2, <3>3 DEF LockInv
    <3>8. (\A q \in Procs : _enabled[q] => logOpened[q] # NoFile)'
      BY <2>1, <2>3 DEF LockInv
    <3>9. (\A b \in Actors : status[b[1]] = "unborn" => logPc[b] = "idle")'
      BY <2>0, <2>1, <2>4, <3>1 DEF LockInv
    <3> QED
      BY <3>5, <3>6, <3>7, <3>8, <3>9 DEF LockInv
  <2> QED
    BY <1>14, <2>5, <2>6 DEF Ends
<1>15. ASSUME NEW p \in Procs, Terminate(p) PROVE LockInv'
  BY <1>15 DEF Terminate, LogTypes, LockInv, Actors
<1>16. CASE UNCHANGED logVars
  BY <1>16 DEF logVars, LogTypes, LockInv, Actors
<1> QED
  BY <1>1, <1>2, <1>3, <1>4, <1>5, <1>6, <1>7, <1>8, <1>9, <1>10, <1>11, <1>12, <1>13, <1>14, <1>15, <1>16 DEF LogNext, SpanSteps, Writing

LEMMA NextOwn == ASSUME LogSetting PROVE LogTypes /\ OwnInv /\ [LogNext]_logVars => OwnInv'
<1> SUFFICES ASSUME LogTypes /\ OwnInv, [LogNext]_logVars PROVE OwnInv'
  OBVIOUS
<1> USE DEF perProcess
<1>1. ASSUME NEW a \in Actors, Enable(a) PROVE OwnInv'
  BY <1>1 DEF Enable, Calls, Free, Idle, LogAlive, LogTypes, OwnInv, OwnOnly, Actors
<1>2. ASSUME NEW a \in Actors, logTrace(a) PROVE OwnInv'
  BY <1>2 DEF logTrace, Entered, LogTypes, OwnInv, OwnOnly, Actors
<1>3. ASSUME NEW a \in Actors, traced_function(a) PROVE OwnInv'
  BY <1>3 DEF traced_function, Entered, LogTypes, OwnInv, OwnOnly, Actors
<1>4. ASSUME NEW a \in Actors, SpanBegins(a) PROVE OwnInv'
  <2>1. a[1] \in Procs /\ status[a[1]] = "run" /\ status' = status
    BY <1>4 DEF SpanBegins, Free, Idle, LogAlive, Actors
  <2>2. CASE add_trace_event(a, "B")
    <3>1. _cur_events' = [_cur_events EXCEPT ![a[1]] = Append(Kept(a[1]), NewEvent(a, "B"))] /\ Kept(a[1]) \in Seq(LogEvents) /\ NewEvent(a, "B") \in LogEvents
      BY <2>2, Added
    <3>2. noted' = [noted EXCEPT ![a[1]] = TRUE]
      BY <2>2 DEF add_trace_event
    <3>3. \A i \in 1..Len(Kept(a[1])) : Kept(a[1])[i][1] = a[1]
      BY <2>1 DEF Kept, OwnInv, OwnOnly, LogTypes
    <3>4. NewEvent(a, "B")[1] = a[1]
      BY DEF NewEvent
    <3> DEFINE buf == Append(Kept(a[1]), NewEvent(a, "B"))
    <3>5. \A i \in DOMAIN buf : buf[i][1] = a[1]
      BY <3>1, <3>3, <3>4
    <3>6. \A p \in Procs : _cur_events'[p] = IF p = a[1] THEN buf ELSE _cur_events[p]
      BY <2>1, <3>1 DEF LogTypes
    <3>7. \A p \in Procs : p # a[1] /\ noted'[p] => noted[p]
      BY <2>1, <3>2 DEF LogTypes
    <3> HIDE DEF buf
    <3>8. OwnOnly'
      BY <3>5, <3>6, <3>7 DEF OwnInv, OwnOnly
    <3> QED
      BY <2>1, <3>7, <3>8 DEF OwnInv
  <2>3. CASE Ignored
    BY <2>1, <2>3 DEF Ignored, OwnInv, OwnOnly
  <2> QED
    BY <1>4, <2>2, <2>3 DEF SpanBegins, AddIfEnabled
<1>5. ASSUME NEW a \in Actors, SpanEnds(a) PROVE OwnInv'
  <2>1. a[1] \in Procs /\ status[a[1]] = "run" /\ status' = status
    BY <1>5 DEF SpanEnds, Free, Idle, LogAlive, Actors
  <2>2. CASE add_trace_event(a, "E")
    <3>1. _cur_events' = [_cur_events EXCEPT ![a[1]] = Append(Kept(a[1]), NewEvent(a, "E"))] /\ Kept(a[1]) \in Seq(LogEvents) /\ NewEvent(a, "E") \in LogEvents
      BY <2>2, Added
    <3>2. noted' = [noted EXCEPT ![a[1]] = TRUE]
      BY <2>2 DEF add_trace_event
    <3>3. \A i \in 1..Len(Kept(a[1])) : Kept(a[1])[i][1] = a[1]
      BY <2>1 DEF Kept, OwnInv, OwnOnly, LogTypes
    <3>4. NewEvent(a, "E")[1] = a[1]
      BY DEF NewEvent
    <3> DEFINE buf == Append(Kept(a[1]), NewEvent(a, "E"))
    <3>5. \A i \in DOMAIN buf : buf[i][1] = a[1]
      BY <3>1, <3>3, <3>4
    <3>6. \A p \in Procs : _cur_events'[p] = IF p = a[1] THEN buf ELSE _cur_events[p]
      BY <2>1, <3>1 DEF LogTypes
    <3>7. \A p \in Procs : p # a[1] /\ noted'[p] => noted[p]
      BY <2>1, <3>2 DEF LogTypes
    <3> HIDE DEF buf
    <3>8. OwnOnly'
      BY <3>5, <3>6, <3>7 DEF OwnInv, OwnOnly
    <3> QED
      BY <2>1, <3>7, <3>8 DEF OwnInv
  <2>3. CASE Ignored
    BY <2>1, <2>3 DEF Ignored, OwnInv, OwnOnly
  <2> QED
    BY <1>5, <2>2, <2>3 DEF SpanEnds, AddIfEnabled
<1>6. ASSUME NEW a \in Actors, trace_flush(a) PROVE OwnInv'
  BY <1>6 DEF trace_flush, Calls, Free, Idle, LogAlive, Flushes, LogTypes, OwnInv, OwnOnly, Actors
<1>7. ASSUME NEW a \in Actors, trace_disable(a) PROVE OwnInv'
  BY <1>7 DEF trace_disable, Calls, Free, Idle, LogAlive, Flushes, LogTypes, OwnInv, OwnOnly, Actors
<1>8. ASSUME NEW a \in Actors, Flock(a) PROVE OwnInv'
  BY <1>8 DEF Flock, LogTypes, OwnInv, OwnOnly, Actors
<1>9. ASSUME NEW a \in Actors, BeginFile(a) PROVE OwnInv'
  BY <1>9 DEF BeginFile, LogTypes, OwnInv, OwnOnly, Actors
<1>10. ASSUME NEW a \in Actors, WriteComma(a) PROVE OwnInv'
  BY <1>10 DEF WriteComma, LogTypes, OwnInv, OwnOnly, Actors
<1>11. ASSUME NEW a \in Actors, WriteEvents(a) PROVE OwnInv'
  BY <1>11 DEF WriteEvents, LogTypes, OwnInv, OwnOnly, Actors
<1>12. ASSUME NEW a \in Actors, Unlock(a) PROVE OwnInv'
  BY <1>12 DEF Unlock, LogTypes, OwnInv, OwnOnly, Actors
<1>13. ASSUME NEW a \in Actors, NEW c \in Procs \ Roots, NEW k \in Kinds, Fork(a, c, k) PROVE OwnInv'
  BY <1>13 DEF Fork, Idle, LogAlive, LogTypes, OwnInv, OwnOnly, Actors
<1>14. ASSUME NEW p \in Procs, Ends(p) PROVE OwnInv'
  BY <1>14 DEF Ends, Quiet, Flushes, LogTypes, OwnInv, OwnOnly, Actors
<1>15. ASSUME NEW p \in Procs, Terminate(p) PROVE OwnInv'
  BY <1>15 DEF Terminate, LogTypes, OwnInv, OwnOnly, Actors
<1>16. CASE UNCHANGED logVars
  BY <1>16 DEF logVars, LogTypes, OwnInv, OwnOnly, Actors
<1> QED
  BY <1>1, <1>2, <1>3, <1>4, <1>5, <1>6, <1>7, <1>8, <1>9, <1>10, <1>11, <1>12, <1>13, <1>14, <1>15, <1>16 DEF LogNext, SpanSteps, Writing

(***************************************************************************)
(* The file, while no process forks.                                       *)
(***************************************************************************)

InFile(a) == logPc[a] = "comma" \/ logPc[a] = "events" \/ logPc[a] = "unlock"

(* The flock is held by the one process that writes; a process that has    *)
(* something to write has begun the file.                                  *)
FlockInv ==
  /\ \A p \in Procs : logOpened[p] = NoFile \/ logOpened[p] = p
  /\ \A a \in Actors : InFile(a) => flocked = a[1]
  /\ flocked # NoFile => \E a \in Actors : InFile(a) /\ a[1] = flocked
  /\ \A a \in Actors : logPc[a] = "comma" \/ logPc[a] = "events" => _cur_events[a[1]] # <<>>
  /\ \A a \in Actors : logPc[a] = "flock" \/ InFile(a) => file # <<>>
  /\ \A p \in Procs : _enabled[p] /\ file = <<>> => \E a \in Actors : a[1] = p /\ logPc[a] = "begin"

(* Values and commas take turns, and a comma is last while events follow.  *)
TakeTurns ==
  \A i \in DOMAIN file : /\ file[i].t = "bracket" <=> i = 1
                         /\ i > 1 => (file[i].t = "comma" <=> i % 2 = 0)

TurnsInv ==
  /\ TakeTurns
  /\ \A a \in Actors : logPc[a] = "events" => Len(file) % 2 = 0
  /\ (\A a \in Actors : logPc[a] # "events") => file = <<>> \/ Len(file) % 2 = 1

(* Every event has a number of its own, and is in one place.               *)
BufferNumbered ==
  \A p \in Procs : \A i \in DOMAIN _cur_events[p] :
    /\ _cur_events[p][i][1] = p
    /\ _cur_events[p][i][3] < counts[<<p, _cur_events[p][i][2]>>]

FileNumbered ==
  \A i \in DOMAIN file : file[i].t = "event" => file[i].e[3] < counts[<<file[i].e[1], file[i].e[2]>>]

BufferedOnce ==
  \A p \in Procs : \A i, j \in DOMAIN _cur_events[p] : _cur_events[p][i] = _cur_events[p][j] => i = j

Apart ==
  \A i \in DOMAIN file, p \in Procs : \A j \in DOMAIN _cur_events[p] :
    file[i].t = "event" => file[i].e # _cur_events[p][j]

OnceInv == BufferNumbered /\ FileNumbered /\ BufferedOnce /\ Apart /\ EachOnce

(* The beginning of the span that each thread is in.                       *)
Known(e) == Written(e) \/ Buffered(e)

Begun ==
  \A p \in Procs, t \in Threads, n \in 0..MaxEvents :
    Known(<<p, t, n, "E">>) => n > 0 /\ Known(<<p, t, n - 1, "B">>)

SpanInv ==
  /\ \A p \in Procs : ~noted[p] => _cur_events[p] = <<>>
  /\ \A a \in Actors : span[a] = "begin" => _enabled[a[1]]
  /\ \A a \in Actors : span[a] = "inside" => counts[a] > 0 /\ Known(<<a[1], a[2], counts[a] - 1, "B">>)
  /\ Begun

LEMMA NextFlock == ASSUME LogSetting, Kinds = {} PROVE LogTypes /\ LockInv /\ FlockInv /\ [LogNext]_logVars => FlockInv'
<1> SUFFICES ASSUME LogTypes /\ LockInv /\ FlockInv, [LogNext]_logVars PROVE FlockInv'
  OBVIOUS
<1> USE DEF perProcess
<1>1. ASSUME NEW a \in Actors, Enable(a) PROVE FlockInv'
  <2>1. (\A q \in Procs : logOpened[q] = NoFile \/ logOpened[q] = q)'
    BY <1>1 DEF Enable, Calls, Free, Idle, LogAlive, LogSetting, LogTypes, LockInv, FlockInv, InFile, Actors
  <2>2. (\A b \in Actors : InFile(b) => flocked = b[1])'
    BY <1>1 DEF Enable, Calls, Free, Idle, LogAlive, LogSetting, LogTypes, LockInv, FlockInv, InFile, Actors
  <2>3. (flocked # NoFile => \E b \in Actors : InFile(b) /\ b[1] = flocked)'
    BY <1>1 DEF Enable, Calls, Free, Idle, LogAlive, LogSetting, LogTypes, LockInv, FlockInv, InFile, Actors
  <2>4. (\A b \in Actors : logPc[b] = "comma" \/ logPc[b] = "events" => _cur_events[b[1]] # <<>>)'
    BY <1>1 DEF Enable, Calls, Free, Idle, LogAlive, LogSetting, LogTypes, LockInv, FlockInv, InFile, Actors
  <2>5. (\A b \in Actors : logPc[b] = "flock" \/ InFile(b) => file # <<>>)'
    BY <1>1 DEF Enable, Calls, Free, Idle, LogAlive, LogSetting, LogTypes, LockInv, FlockInv, InFile, Actors
  <2>6. (\A q \in Procs : _enabled[q] /\ file = <<>> => \E b \in Actors : b[1] = q /\ logPc[b] = "begin")'
    BY <1>1 DEF Enable, Calls, Free, Idle, LogAlive, LogSetting, LogTypes, LockInv, FlockInv, InFile, Actors
  <2> QED
    BY <2>1, <2>2, <2>3, <2>4, <2>5, <2>6 DEF FlockInv
<1>2. ASSUME NEW a \in Actors, logTrace(a) PROVE FlockInv'
  <2>1. (\A q \in Procs : logOpened[q] = NoFile \/ logOpened[q] = q)'
    BY <1>2 DEF logTrace, Entered, LogSetting, LogTypes, LockInv, FlockInv, InFile, Actors
  <2>2. (\A b \in Actors : InFile(b) => flocked = b[1])'
    BY <1>2 DEF logTrace, Entered, LogSetting, LogTypes, LockInv, FlockInv, InFile, Actors
  <2>3. (flocked # NoFile => \E b \in Actors : InFile(b) /\ b[1] = flocked)'
    BY <1>2 DEF logTrace, Entered, LogSetting, LogTypes, LockInv, FlockInv, InFile, Actors
  <2>4. (\A b \in Actors : logPc[b] = "comma" \/ logPc[b] = "events" => _cur_events[b[1]] # <<>>)'
    BY <1>2 DEF logTrace, Entered, LogSetting, LogTypes, LockInv, FlockInv, InFile, Actors
  <2>5. (\A b \in Actors : logPc[b] = "flock" \/ InFile(b) => file # <<>>)'
    BY <1>2 DEF logTrace, Entered, LogSetting, LogTypes, LockInv, FlockInv, InFile, Actors
  <2>6. (\A q \in Procs : _enabled[q] /\ file = <<>> => \E b \in Actors : b[1] = q /\ logPc[b] = "begin")'
    BY <1>2 DEF logTrace, Entered, LogSetting, LogTypes, LockInv, FlockInv, InFile, Actors
  <2> QED
    BY <2>1, <2>2, <2>3, <2>4, <2>5, <2>6 DEF FlockInv
<1>3. ASSUME NEW a \in Actors, traced_function(a) PROVE FlockInv'
  <2>1. (\A q \in Procs : logOpened[q] = NoFile \/ logOpened[q] = q)'
    BY <1>3 DEF traced_function, Entered, LogSetting, LogTypes, LockInv, FlockInv, InFile, Actors
  <2>2. (\A b \in Actors : InFile(b) => flocked = b[1])'
    BY <1>3 DEF traced_function, Entered, LogSetting, LogTypes, LockInv, FlockInv, InFile, Actors
  <2>3. (flocked # NoFile => \E b \in Actors : InFile(b) /\ b[1] = flocked)'
    BY <1>3 DEF traced_function, Entered, LogSetting, LogTypes, LockInv, FlockInv, InFile, Actors
  <2>4. (\A b \in Actors : logPc[b] = "comma" \/ logPc[b] = "events" => _cur_events[b[1]] # <<>>)'
    BY <1>3 DEF traced_function, Entered, LogSetting, LogTypes, LockInv, FlockInv, InFile, Actors
  <2>5. (\A b \in Actors : logPc[b] = "flock" \/ InFile(b) => file # <<>>)'
    BY <1>3 DEF traced_function, Entered, LogSetting, LogTypes, LockInv, FlockInv, InFile, Actors
  <2>6. (\A q \in Procs : _enabled[q] /\ file = <<>> => \E b \in Actors : b[1] = q /\ logPc[b] = "begin")'
    BY <1>3 DEF traced_function, Entered, LogSetting, LogTypes, LockInv, FlockInv, InFile, Actors
  <2> QED
    BY <2>1, <2>2, <2>3, <2>4, <2>5, <2>6 DEF FlockInv
<1>4. ASSUME NEW a \in Actors, SpanBegins(a) PROVE FlockInv'
  <2>1. (\A q \in Procs : logOpened[q] = NoFile \/ logOpened[q] = q)'
    BY <1>4 DEF SpanBegins, Free, Idle, LogAlive, AddIfEnabled, add_trace_event, Ignored, LogSetting, LogTypes, LockInv, FlockInv, InFile, Actors
  <2>2. (\A b \in Actors : InFile(b) => flocked = b[1])'
    BY <1>4 DEF SpanBegins, Free, Idle, LogAlive, AddIfEnabled, add_trace_event, Ignored, LogSetting, LogTypes, LockInv, FlockInv, InFile, Actors
  <2>3. (flocked # NoFile => \E b \in Actors : InFile(b) /\ b[1] = flocked)'
    BY <1>4 DEF SpanBegins, Free, Idle, LogAlive, AddIfEnabled, add_trace_event, Ignored, LogSetting, LogTypes, LockInv, FlockInv, InFile, Actors
  <2>4. (\A b \in Actors : logPc[b] = "comma" \/ logPc[b] = "events" => _cur_events[b[1]] # <<>>)'
    BY <1>4 DEF SpanBegins, Free, Idle, LogAlive, AddIfEnabled, add_trace_event, Ignored, LogSetting, LogTypes, LockInv, FlockInv, InFile, Actors
  <2>5. (\A b \in Actors : logPc[b] = "flock" \/ InFile(b) => file # <<>>)'
    BY <1>4 DEF SpanBegins, Free, Idle, LogAlive, AddIfEnabled, add_trace_event, Ignored, LogSetting, LogTypes, LockInv, FlockInv, InFile, Actors
  <2>6. (\A q \in Procs : _enabled[q] /\ file = <<>> => \E b \in Actors : b[1] = q /\ logPc[b] = "begin")'
    BY <1>4 DEF SpanBegins, Free, Idle, LogAlive, AddIfEnabled, add_trace_event, Ignored, LogSetting, LogTypes, LockInv, FlockInv, InFile, Actors
  <2> QED
    BY <2>1, <2>2, <2>3, <2>4, <2>5, <2>6 DEF FlockInv
<1>5. ASSUME NEW a \in Actors, SpanEnds(a) PROVE FlockInv'
  <2>1. (\A q \in Procs : logOpened[q] = NoFile \/ logOpened[q] = q)'
    BY <1>5 DEF SpanEnds, Free, Idle, LogAlive, AddIfEnabled, add_trace_event, Ignored, LogSetting, LogTypes, LockInv, FlockInv, InFile, Actors
  <2>2. (\A b \in Actors : InFile(b) => flocked = b[1])'
    BY <1>5 DEF SpanEnds, Free, Idle, LogAlive, AddIfEnabled, add_trace_event, Ignored, LogSetting, LogTypes, LockInv, FlockInv, InFile, Actors
  <2>3. (flocked # NoFile => \E b \in Actors : InFile(b) /\ b[1] = flocked)'
    BY <1>5 DEF SpanEnds, Free, Idle, LogAlive, AddIfEnabled, add_trace_event, Ignored, LogSetting, LogTypes, LockInv, FlockInv, InFile, Actors
  <2>4. (\A b \in Actors : logPc[b] = "comma" \/ logPc[b] = "events" => _cur_events[b[1]] # <<>>)'
    BY <1>5 DEF SpanEnds, Free, Idle, LogAlive, AddIfEnabled, add_trace_event, Ignored, LogSetting, LogTypes, LockInv, FlockInv, InFile, Actors
  <2>5. (\A b \in Actors : logPc[b] = "flock" \/ InFile(b) => file # <<>>)'
    BY <1>5 DEF SpanEnds, Free, Idle, LogAlive, AddIfEnabled, add_trace_event, Ignored, LogSetting, LogTypes, LockInv, FlockInv, InFile, Actors
  <2>6. (\A q \in Procs : _enabled[q] /\ file = <<>> => \E b \in Actors : b[1] = q /\ logPc[b] = "begin")'
    BY <1>5 DEF SpanEnds, Free, Idle, LogAlive, AddIfEnabled, add_trace_event, Ignored, LogSetting, LogTypes, LockInv, FlockInv, InFile, Actors
  <2> QED
    BY <2>1, <2>2, <2>3, <2>4, <2>5, <2>6 DEF FlockInv
<1>6. ASSUME NEW a \in Actors, trace_flush(a) PROVE FlockInv'
  <2>1. (\A q \in Procs : logOpened[q] = NoFile \/ logOpened[q] = q)'
    BY <1>6 DEF trace_flush, Calls, Free, Idle, LogAlive, Flushes, LogSetting, LogTypes, LockInv, FlockInv, InFile, Actors
  <2>2. (\A b \in Actors : InFile(b) => flocked = b[1])'
    BY <1>6 DEF trace_flush, Calls, Free, Idle, LogAlive, Flushes, LogSetting, LogTypes, LockInv, FlockInv, InFile, Actors
  <2>3. (flocked # NoFile => \E b \in Actors : InFile(b) /\ b[1] = flocked)'
    BY <1>6 DEF trace_flush, Calls, Free, Idle, LogAlive, Flushes, LogSetting, LogTypes, LockInv, FlockInv, InFile, Actors
  <2>4. (\A b \in Actors : logPc[b] = "comma" \/ logPc[b] = "events" => _cur_events[b[1]] # <<>>)'
    BY <1>6 DEF trace_flush, Calls, Free, Idle, LogAlive, Flushes, LogSetting, LogTypes, LockInv, FlockInv, InFile, Actors
  <2>5. (\A b \in Actors : logPc[b] = "flock" \/ InFile(b) => file # <<>>)'
    <3>1. a[1] \in Procs /\ _enabled[a[1]] /\ mutex[a[1]] = "free" /\ file' = file
      BY <1>6 DEF trace_flush, Calls, Free, Idle, LogAlive, Flushes, Actors
    <3>2. file # <<>>
      BY <3>1 DEF FlockInv, LockInv
    <3> QED
      BY <3>1, <3>2
  <2>6. (\A q \in Procs : _enabled[q] /\ file = <<>> => \E b \in Actors : b[1] = q /\ logPc[b] = "begin")'
    BY <1>6 DEF trace_flush, Calls, Free, Idle, LogAlive, Flushes, LogSetting, LogTypes, LockInv, FlockInv, InFile, Actors
  <2> QED
    BY <2>1, <2>2, <2>3, <2>4, <2>5, <2>6 DEF FlockInv
<1>7. ASSUME NEW a \in Actors, trace_disable(a) PROVE FlockInv'
  <2>1. (\A q \in Procs : logOpened[q] = NoFile \/ logOpened[q] = q)'
    BY <1>7 DEF trace_disable, Calls, Free, Idle, LogAlive, Flushes, LogSetting, LogTypes, LockInv, FlockInv, InFile, Actors
  <2>2. (\A b \in Actors : InFile(b) => flocked = b[1])'
    BY <1>7 DEF trace_disable, Calls, Free, Idle, LogAlive, Flushes, LogSetting, LogTypes, LockInv, FlockInv, InFile, Actors
  <2>3. (flocked # NoFile => \E b \in Actors : InFile(b) /\ b[1] = flocked)'
    BY <1>7 DEF trace_disable, Calls, Free, Idle, LogAlive, Flushes, LogSetting, LogTypes, LockInv, FlockInv, InFile, Actors
  <2>4. (\A b \in Actors : logPc[b] = "comma" \/ logPc[b] = "events" => _cur_events[b[1]] # <<>>)'
    BY <1>7 DEF trace_disable, Calls, Free, Idle, LogAlive, Flushes, LogSetting, LogTypes, LockInv, FlockInv, InFile, Actors
  <2>5. (\A b \in Actors : logPc[b] = "flock" \/ InFile(b) => file # <<>>)'
    <3>1. a[1] \in Procs /\ _enabled[a[1]] /\ mutex[a[1]] = "free" /\ file' = file
      BY <1>7 DEF trace_disable, Calls, Free, Idle, LogAlive, Flushes, Actors
    <3>2. file # <<>>
      BY <3>1 DEF FlockInv, LockInv
    <3> QED
      BY <3>1, <3>2
  <2>6. (\A q \in Procs : _enabled[q] /\ file = <<>> => \E b \in Actors : b[1] = q /\ logPc[b] = "begin")'
    BY <1>7 DEF trace_disable, Calls, Free, Idle, LogAlive, Flushes, LogSetting, LogTypes, LockInv, FlockInv, InFile, Actors
  <2> QED
    BY <2>1, <2>2, <2>3, <2>4, <2>5, <2>6 DEF FlockInv
<1>8. ASSUME NEW a \in Actors, Flock(a) PROVE FlockInv'
  <2>1. (\A q \in Procs : logOpened[q] = NoFile \/ logOpened[q] = q)'
    BY <1>8 DEF Flock, LogSetting, LogTypes, LockInv, FlockInv, InFile, Actors
  <2>2. (\A b \in Actors : InFile(b) => flocked = b[1])'
    <3>1. a[1] \in Procs /\ logPc[a] = "flock" /\ (flocked = NoFile \/ flocked = a[1])
      BY <1>8 DEF Flock, FlockInv, LockInv, Actors
    <3>2. \A b \in Actors : ~InFile(b)
      BY <3>1 DEF FlockInv, LockInv, InFile, LogSetting, Actors
    <3>3. \A b \in Actors : InFile(b)' => b = a /\ flocked' = a[1]
      BY <1>8, <3>1, <3>2 DEF Flock, InFile, LogTypes, FlockInv, LockInv
    <3> QED
      BY <3>3
  <2>3. (flocked # NoFile => \E b \in Actors : InFile(b) /\ b[1] = flocked)'
    BY <1>8 DEF Flock, LogSetting, LogTypes, LockInv, FlockInv, InFile, Actors
  <2>4. (\A b \in Actors : logPc[b] = "comma" \/ logPc[b] = "events" => _cur_events[b[1]] # <<>>)'
    BY <1>8 DEF Flock, LogSetting, LogTypes, LockInv, FlockInv, InFile, Actors
  <2>5. (\A b \in Actors : logPc[b] = "flock" \/ InFile(b) => file # <<>>)'
    BY <1>8 DEF Flock, LogSetting, LogTypes, LockInv, FlockInv, InFile, Actors
  <2>6. (\A q \in Procs : _enabled[q] /\ file = <<>> => \E b \in Actors : b[1] = q /\ logPc[b] = "begin")'
    BY <1>8 DEF Flock, LogSetting, LogTypes, LockInv, FlockInv, InFile, Actors
  <2> QED
    BY <2>1, <2>2, <2>3, <2>4, <2>5, <2>6 DEF FlockInv
<1>9. ASSUME NEW a \in Actors, BeginFile(a) PROVE FlockInv'
  <2>1. (\A q \in Procs : logOpened[q] = NoFile \/ logOpened[q] = q)'
    BY <1>9 DEF BeginFile, LogSetting, LogTypes, LockInv, FlockInv, InFile, Actors
  <2>2. (\A b \in Actors : InFile(b) => flocked = b[1])'
    <3>1. a[1] \in Procs /\ logPc[a] = "begin" /\ (flocked = NoFile \/ flocked = a[1])
      BY <1>9 DEF BeginFile, FlockInv, LockInv, Actors
    <3>2. \A b \in Actors : ~InFile(b)
      BY <3>1 DEF FlockInv, LockInv, InFile, LogSetting, Actors
    <3>3. \A b \in Actors : InFile(b)' => b = a /\ FALSE
      BY <1>9, <3>1, <3>2 DEF BeginFile, InFile, LogTypes, FlockInv, LockInv
    <3> QED
      BY <3>3
  <2>3. (flocked # NoFile => \E b \in Actors : InFile(b) /\ b[1] = flocked)'
    BY <1>9 DEF BeginFile, LogSetting, LogTypes, LockInv, FlockInv, InFile, Actors
  <2>4. (\A b \in Actors : logPc[b] = "comma" \/ logPc[b] = "events" => _cur_events[b[1]] # <<>>)'
    BY <1>9 DEF BeginFile, LogSetting, LogTypes, LockInv, FlockInv, InFile, Actors
  <2>5. (\A b \in Actors : logPc[b] = "flock" \/ InFile(b) => file # <<>>)'
    BY <1>9 DEF BeginFile, LogSetting, LogTypes, LockInv, FlockInv, InFile, Actors
  <2>6. (\A q \in Procs : _enabled[q] /\ file = <<>> => \E b \in Actors : b[1] = q /\ logPc[b] = "begin")'
    BY <1>9 DEF BeginFile, LogSetting, LogTypes, LockInv, FlockInv, InFile, Actors
  <2> QED
    BY <2>1, <2>2, <2>3, <2>4, <2>5, <2>6 DEF FlockInv
<1>10. ASSUME NEW a \in Actors, WriteComma(a) PROVE FlockInv'
  <2>1. (\A q \in Procs : logOpened[q] = NoFile \/ logOpened[q] = q)'
    BY <1>10 DEF WriteComma, LogSetting, LogTypes, LockInv, FlockInv, InFile, Actors
  <2>2. (\A b \in Actors : InFile(b) => flocked = b[1])'
    BY <1>10 DEF WriteComma, LogSetting, LogTypes, LockInv, FlockInv, InFile, Actors
  <2>3. (flocked # NoFile => \E b \in Actors : InFile(b) /\ b[1] = flocked)'
    BY <1>10 DEF WriteComma, LogSetting, LogTypes, LockInv, FlockInv, InFile, Actors
  <2>4. (\A b \in Actors : logPc[b] = "comma" \/ logPc[b] = "events" => _cur_events[b[1]] # <<>>)'
    BY <1>10 DEF WriteComma, LogSetting, LogTypes, LockInv, FlockInv, InFile, Actors
  <2>5. (\A b \in Actors : logPc[b] = "flock" \/ InFile(b) => file # <<>>)'
    BY <1>10 DEF WriteComma, LogSetting, LogTypes, LockInv, FlockInv, InFile, Actors
  <2>6. (\A q \in Procs : _enabled[q] /\ file = <<>> => \E b \in Actors : b[1] = q /\ logPc[b] = "begin")'
    <3>1. file # <<>> /\ file \in Seq(Tokens)
      BY <1>10 DEF WriteComma, FlockInv, InFile, LogTypes
    <3>2. file' # <<>>
      BY <1>10, <3>1 DEF WriteComma
    <3> QED
      BY <3>2
  <2> QED
    BY <2>1, <2>2, <2>3, <2>4, <2>5, <2>6 DEF FlockInv
<1>11. ASSUME NEW a \in Actors, WriteEvents(a) PROVE FlockInv'
  <2>1. (\A q \in Procs : logOpened[q] = NoFile \/ logOpened[q] = q)'
    BY <1>11 DEF WriteEvents, LogSetting, LogTypes, LockInv, FlockInv, InFile, Actors
  <2>2. (\A b \in Actors : InFile(b) => flocked = b[1])'
    BY <1>11 DEF WriteEvents, LogSetting, LogTypes, LockInv, FlockInv, InFile, Actors
  <2>3. (flocked # NoFile => \E b \in Actors : InFile(b) /\ b[1] = flocked)'
    BY <1>11 DEF WriteEvents, LogSetting, LogTypes, LockInv, FlockInv, InFile, Actors
  <2>4. (\A b \in Actors : logPc[b] = "comma" \/ logPc[b] = "events" => _cur_events[b[1]] # <<>>)'
    <3>1. /\ \A b \in Actors : logPc'[b] = IF b = a THEN "unlock" ELSE logPc[b]
          /\ \A q \in Procs : q # a[1] => _cur_events'[q] = _cur_events[q]
      BY <1>11 DEF WriteEvents, LogTypes
    <3>2. \A b \in Actors : b[1] \in Procs /\ (b # a /\ b[1] = a[1] => logPc[b] = "idle")
      BY <1>11 DEF WriteEvents, LockInv, Actors
    <3> QED
      BY <3>1, <3>2 DEF FlockInv
  <2>5. (\A b \in Actors : logPc[b] = "flock" \/ InFile(b) => file # <<>>)'
    BY <1>11 DEF WriteEvents, LogSetting, LogTypes, LockInv, FlockInv, InFile, Actors
  <2>6. (\A q \in Procs : _enabled[q] /\ file = <<>> => \E b \in Actors : b[1] = q /\ logPc[b] = "begin")'
    <3>1. file # <<>> /\ file \in Seq(Tokens)
      BY <1>11 DEF WriteEvents, FlockInv, InFile, LogTypes
    <3>3. Joined(_cur_events[a[1]]) \in Seq(Tokens)
      BY JoinedTokens DEF LogTypes, Actors
    <3>2. file' # <<>>
      BY <1>11, <3>1, <3>3 DEF WriteEvents
    <3> QED
      BY <3>2
  <2> QED
    BY <2>1, <2>2, <2>3, <2>4, <2>5, <2>6 DEF FlockInv
<1>12. ASSUME NEW a \in Actors, Unlock(a) PROVE FlockInv'
  <2>1. (\A q \in Procs : logOpened[q] = NoFile \/ logOpened[q] = q)'
    BY <1>12 DEF Unlock, LogSetting, LogTypes, LockInv, FlockInv, InFile, Actors
  <2>2. (\A b \in Actors : InFile(b) => flocked = b[1])'
    BY <1>12 DEF Unlock, LogSetting, LogTypes, LockInv, FlockInv, InFile, Actors
  <2>3. (flocked # NoFile => \E b \in Actors : InFile(b) /\ b[1] = flocked)'
    <3>1. a[1] \in Procs /\ logPc[a] = "unlock" /\ flocked = logOpened[a[1]]
      BY <1>12 DEF Unlock, FlockInv, LockInv, InFile, Actors
    <3> QED
      BY <1>12, <3>1 DEF Unlock
  <2>4. (\A b \in Actors : logPc[b] = "comma" \/ logPc[b] = "events" => _cur_events[b[1]] # <<>>)'
    BY <1>12 DEF Unlock, LogSetting, LogTypes, LockInv, FlockInv, InFile, Actors
  <2>5. (\A b \in Actors : logPc[b] = "flock" \/ InFile(b) => file # <<>>)'
    BY <1>12 DEF Unlock, LogSetting, LogTypes, LockInv, FlockInv, InFile, Actors
  <2>6. (\A q \in Procs : _enabled[q] /\ file = <<>> => \E b \in Actors : b[1] = q /\ logPc[b] = "begin")'
    BY <1>12 DEF Unlock, LogSetting, LogTypes, LockInv, FlockInv, InFile, Actors
  <2> QED
    BY <2>1, <2>2, <2>3, <2>4, <2>5, <2>6 DEF FlockInv
<1>13. ASSUME NEW a \in Actors, NEW c \in Procs \ Roots, NEW k \in Kinds, Fork(a, c, k) PROVE FlockInv'
  BY <1>13
<1>14. ASSUME NEW p \in Procs, Ends(p) PROVE FlockInv'
  <2>1. (\A q \in Procs : logOpened[q] = NoFile \/ logOpened[q] = q)'
    BY <1>14 DEF Ends, Quiet, Flushes, LogSetting, LogTypes, LockInv, FlockInv, InFile, Actors
  <2>2. (\A b \in Actors : InFile(b) => flocked = b[1])'
    <3>1. \A b \in Actors : (InFile(b)' => InFile(b)) /\ flocked' = flocked
      BY <1>14 DEF Ends, Flushes, InFile, LogTypes
    <3> QED
      BY <3>1 DEF FlockInv
  <2>3. (flocked # NoFile => \E b \in Actors : InFile(b) /\ b[1] = flocked)'
    BY <1>14 DEF Ends, Quiet, Flushes, LogSetting, LogTypes, LockInv, FlockInv, InFile, Actors
  <2>4. (\A b \in Actors : logPc[b] = "comma" \/ logPc[b] = "events" => _cur_events[b[1]] # <<>>)'
    <3>1. \A b \in Actors : logPc'[b] = logPc[b] \/ logPc'[b] = "flock"
      BY <1>14 DEF Ends, Flushes, LogTypes
    <3>2. _cur_events' = _cur_events
      BY <1>14 DEF Ends
    <3> QED
      BY <3>1, <3>2 DEF FlockInv
  <2>5. (\A b \in Actors : logPc[b] = "flock" \/ InFile(b) => file # <<>>)'
    BY <1>14 DEF Ends, Quiet, Flushes, LogSetting, LogTypes, LockInv, FlockInv, InFile, Actors
  <2>6. (\A q \in Procs : _enabled[q] /\ file = <<>> => \E b \in Actors : b[1] = q /\ logPc[b] = "begin")'
    BY <1>14 DEF Ends, Quiet, Flushes, LogSetting, LogTypes, LockInv, FlockInv, InFile, Actors
  <2> QED
    BY <2>1, <2>2, <2>3, <2>4, <2>5, <2>6 DEF FlockInv
<1>15. ASSUME NEW p \in Procs, Terminate(p) PROVE FlockInv'
  BY <1>15 DEF Terminate, LogTypes
<1>16. CASE UNCHANGED logVars
  BY <1>16 DEF logVars, LogSetting, LogTypes, LockInv, FlockInv, InFile, Actors
<1> QED
  BY <1>1, <1>2, <1>3, <1>4, <1>5, <1>6, <1>7, <1>8, <1>9, <1>10, <1>11, <1>12, <1>13, <1>14, <1>15, <1>16 DEF LogNext, SpanSteps, Writing

LEMMA Parity ==
  ASSUME NEW n \in Nat, n % 2 = 0, NEW i \in Nat, i > n PROVE (i - n) % 2 = i % 2
OBVIOUS

LEMMA Odd == ASSUME NEW n \in Nat \ {0} PROVE 2 * n - 1 \in Nat /\ (2 * n - 1) % 2 = 1
OBVIOUS

LEMMA NextTurns == ASSUME LogSetting, Kinds = {} PROVE LogTypes /\ LockInv /\ FlockInv /\ TurnsInv /\ [LogNext]_logVars => TurnsInv'
<1> SUFFICES ASSUME LogTypes /\ LockInv /\ FlockInv /\ TurnsInv, [LogNext]_logVars PROVE TurnsInv'
  OBVIOUS
<1> USE DEF perProcess
<1>1. ASSUME NEW a \in Actors, Enable(a) PROVE TurnsInv'
  <2>1. file' = file /\ \A b \in Actors : logPc'[b] = "events" <=> logPc[b] = "events"
    BY <1>1 DEF Enable, Calls, Free, Idle, LogAlive, LogTypes
  <2> QED
    BY <2>1 DEF TurnsInv, TakeTurns
<1>2. ASSUME NEW a \in Actors, logTrace(a) PROVE TurnsInv'
  <2>1. file' = file /\ \A b \in Actors : logPc'[b] = "events" <=> logPc[b] = "events"
    BY <1>2 DEF logTrace, Entered, LogTypes
  <2> QED
    BY <2>1 DEF TurnsInv, TakeTurns
<1>3. ASSUME NEW a \in Actors, traced_function(a) PROVE TurnsInv'
  <2>1. file' = file /\ \A b \in Actors : logPc'[b] = "events" <=> logPc[b] = "events"
    BY <1>3 DEF traced_function, Entered, LogTypes
  <2> QED
    BY <2>1 DEF TurnsInv, TakeTurns
<1>4. ASSUME NEW a \in Actors, SpanBegins(a) PROVE TurnsInv'
  <2>1. file' = file /\ \A b \in Actors : logPc'[b] = "events" <=> logPc[b] = "events"
    BY <1>4 DEF SpanBegins, Free, Idle, LogAlive, AddIfEnabled, add_trace_event, Ignored, LogTypes
  <2> QED
    BY <2>1 DEF TurnsInv, TakeTurns
<1>5. ASSUME NEW a \in Actors, SpanEnds(a) PROVE TurnsInv'
  <2>1. file' = file /\ \A b \in Actors : logPc'[b] = "events" <=> logPc[b] = "events"
    BY <1>5 DEF SpanEnds, Free, Idle, LogAlive, AddIfEnabled, add_trace_event, Ignored, LogTypes
  <2> QED
    BY <2>1 DEF TurnsInv, TakeTurns
<1>6. ASSUME NEW a \in Actors, trace_flush(a) PROVE TurnsInv'
  <2>1. file' = file /\ \A b \in Actors : logPc'[b] = "events" <=> logPc[b] = "events"
    BY <1>6 DEF trace_flush, Calls, Free, Idle, LogAlive, Flushes, LogTypes
  <2> QED
    BY <2>1 DEF TurnsInv, TakeTurns
<1>7. ASSUME NEW a \in Actors, trace_disable(a) PROVE TurnsInv'
  <2>1. file' = file /\ \A b \in Actors : logPc'[b] = "events" <=> logPc[b] = "events"
    BY <1>7 DEF trace_disable, Calls, Free, Idle, LogAlive, Flushes, LogTypes
  <2> QED
    BY <2>1 DEF TurnsInv, TakeTurns
<1>8. ASSUME NEW a \in Actors, Flock(a) PROVE TurnsInv'
  <2>1. file' = file /\ \A b \in Actors : logPc'[b] = "events" <=> logPc[b] = "events"
    BY <1>8 DEF Flock, LogTypes
  <2> QED
    BY <2>1 DEF TurnsInv, TakeTurns
<1>9. ASSUME NEW a \in Actors, BeginFile(a) PROVE TurnsInv'
  <2>1. \A b \in Actors : logPc'[b] = "events" <=> logPc[b] = "events"
    BY <1>9 DEF BeginFile, LogTypes
  <2>2. CASE file # <<>>
    BY <1>9, <2>1, <2>2 DEF BeginFile, TurnsInv, TakeTurns
  <2>3. CASE file = <<>>
    <3>1. file' = <<Bracket>> /\ \A b \in Actors : logPc[b] # "events"
      BY <1>9, <2>3 DEF BeginFile, FlockInv, InFile
    <3>2. Len(file') = 1 /\ DOMAIN file' = {1} /\ file'[1].t = "bracket"
      BY <3>1 DEF Bracket
    <3> QED
      BY <2>1, <3>1, <3>2 DEF TurnsInv, TakeTurns
  <2> QED
    BY <2>2, <2>3
<1>10. ASSUME NEW a \in Actors, WriteComma(a) PROVE TurnsInv'
  <2>1. logPc[a] = "comma" /\ InFile(a) /\ \A b \in Actors : logPc'[b] = IF b = a THEN "events" ELSE logPc[b]
    BY <1>10 DEF WriteComma, InFile, LogTypes
  <2>2. file \in Seq(Tokens) /\ Comma \in Tokens /\ file # <<>>
    BY <2>1 DEF LogTypes, FlockInv, Tokens
  <2>3. \A b \in Actors : logPc[b] # "events"
    <3>1. \A b \in Actors : InFile(b) => b[1] = a[1]
      BY <2>1 DEF FlockInv
    <3> QED
      BY <2>1, <3>1 DEF LockInv, InFile
  <2>4. Len(file) \in Nat /\ Len(file) % 2 = 1
    BY <2>2, <2>3 DEF TurnsInv, TakeTurns
  <2>5. Len(file') = Len(file) + 1 /\ file'[Len(file) + 1] = Comma /\ \A i \in 1..Len(file) : file'[i] = file[i]
    BY <1>10, <2>2 DEF WriteComma
  <2>6. file' \in Seq(Tokens) /\ DOMAIN file = 1..Len(file) /\ DOMAIN file' = 1..(Len(file) + 1)
    BY <1>10, <2>2 DEF WriteComma
  <2>7. Comma.t = "comma"
    BY DEF Comma
  <2>8. TakeTurns'
    BY <2>2, <2>4, <2>5, <2>6, <2>7 DEF TurnsInv, TakeTurns
  <2>9. Len(file') % 2 = 0
    BY <2>4, <2>5
  <2>10. (\A b \in Actors : logPc[b] = "events" => Len(file) % 2 = 0)'
    BY <2>9
  <2>11. ((\A b \in Actors : logPc[b] # "events") => file = <<>> \/ Len(file) % 2 = 1)'
    BY <2>1
  <2> QED
    BY <2>8, <2>10, <2>11 DEF TurnsInv
<1>11. ASSUME NEW a \in Actors, WriteEvents(a) PROVE TurnsInv'
  <2> DEFINE new == Joined(_cur_events[a[1]])
  <2>1. logPc[a] = "events" /\ InFile(a) /\ \A b \in Actors : logPc'[b] = IF b = a THEN "unlock" ELSE logPc[b]
    BY <1>11 DEF WriteEvents, InFile, LogTypes
  <2>2. file \in Seq(Tokens) /\ file # <<>> /\ _cur_events[a[1]] \in Seq(LogEvents) /\ _cur_events[a[1]] # <<>>
    BY <2>1 DEF LogTypes, FlockInv, Actors
  <2>3. /\ new \in Seq(Tokens) /\ Len(new) % 2 = 1 /\ Len(new) \in Nat
        /\ \A i \in 1..Len(new) : new[i].t = IF i % 2 = 1 THEN "event" ELSE "comma"
    <3>1. new \in Seq(Tokens) /\ Len(new) = 2 * Len(_cur_events[a[1]]) - 1 /\ Len(_cur_events[a[1]]) \in Nat \ {0}
      BY <2>2, JoinedTokens
    <3>2. Len(new) \in Nat /\ Len(new) % 2 = 1
      BY <3>1, Odd
    <3>3. ASSUME NEW i \in 1..Len(new) PROVE new[i].t = IF i % 2 = 1 THEN "event" ELSE "comma"
      <4>1. /\ i % 2 = 1 => new[i] = Event(_cur_events[a[1]][(i + 1) \div 2])
            /\ i % 2 # 1 => new[i] = Comma
        BY <2>2, JoinedTokens
      <4>2. (\A e : Event(e).t = "event") /\ Comma.t = "comma"
        BY DEF Event, Comma
      <4> QED
        BY <4>1, <4>2
    <3> QED
      BY <3>1, <3>2, <3>3
  <2>4. Len(file) \in Nat /\ Len(file) % 2 = 0
    BY <2>1, <2>2 DEF TurnsInv, TakeTurns
  <2>5. file' = file \o new
    BY <1>11 DEF WriteEvents
  <2> HIDE DEF new
  <2>6. /\ Len(file') = Len(file) + Len(new)
        /\ DOMAIN file = 1..Len(file) /\ DOMAIN file' = 1..(Len(file) + Len(new))
        /\ \A i \in 1..Len(file) : file'[i] = file[i]
        /\ \A i \in DOMAIN file' : i > Len(file) => i - Len(file) \in 1..Len(new) /\ file'[i] = new[i - Len(file)]
    BY <2>2, <2>3, <2>5
  <2>7. \A i \in DOMAIN file' : i > Len(file) => file'[i].t = IF i % 2 = 1 THEN "event" ELSE "comma"
    <3> SUFFICES ASSUME NEW i \in DOMAIN file', i > Len(file)
                 PROVE  file'[i].t = IF i % 2 = 1 THEN "event" ELSE "comma"
      OBVIOUS
    <3>1. i \in Nat /\ i - Len(file) \in 1..Len(new) /\ file'[i] = new[i - Len(file)]
      BY <2>3, <2>4, <2>6
    <3>2. (i - Len(file)) % 2 = i % 2
      BY <2>4, <3>1, Parity
    <3> QED
      BY <2>3, <3>1, <3>2
  <2>8. TakeTurns'
    <3>1. Len(file) >= 1
      BY <2>2, <2>4
    <3> QED
      BY <2>4, <2>6, <2>7, <3>1 DEF TurnsInv, TakeTurns
  <2>9. \A b \in Actors : logPc'[b] # "events"
    <3>1. \A b \in Actors : InFile(b) => b[1] = a[1]
      BY <2>1 DEF FlockInv
    <3> QED
      BY <2>1, <3>1 DEF LockInv, InFile
  <2>10. Len(file') % 2 = 1
    BY <2>3, <2>4, <2>6
  <2>11. (\A b \in Actors : logPc[b] = "events" => Len(file) % 2 = 0)'
    BY <2>9
  <2>12. ((\A b \in Actors : logPc[b] # "events") => file = <<>> \/ Len(file) % 2 = 1)'
    BY <2>10
  <2> QED
    BY <2>8, <2>11, <2>12 DEF TurnsInv
<1>12. ASSUME NEW a \in Actors, Unlock(a) PROVE TurnsInv'
  <2>1. file' = file /\ \A b \in Actors : logPc'[b] = "events" <=> logPc[b] = "events"
    BY <1>12 DEF Unlock, LogTypes
  <2> QED
    BY <2>1 DEF TurnsInv, TakeTurns
<1>13. ASSUME NEW a \in Actors, NEW c \in Procs \ Roots, NEW k \in Kinds, Fork(a, c, k) PROVE TurnsInv'
  BY <1>13
<1>14. ASSUME NEW p \in Procs, Ends(p) PROVE TurnsInv'
  <2>1. file' = file /\ Quiet(p)
    BY <1>14 DEF Ends
  <2>2. \A b \in Actors : logPc'[b] = logPc[b] \/ (b = <<p, Main>> /\ logPc'[b] = "flock")
    BY <1>14 DEF Ends, Flushes, LogTypes
  <2>3. <<p, Main>> \in Actors /\ logPc[<<p, Main>>] = "idle"
    BY <2>1 DEF Quiet, Actors, LogSetting, Assumption
  <2>4. \A b \in Actors : logPc'[b] = "events" <=> logPc[b] = "events"
    BY <2>2, <2>3
  <2> QED
    BY <2>1, <2>4 DEF TurnsInv, TakeTurns
<1>15. ASSUME NEW p \in Procs, Terminate(p) PROVE TurnsInv'
  BY <1>15 DEF Terminate, LogTypes
<1>16. CASE UNCHANGED logVars
  BY <1>16 DEF logVars, TurnsInv, TakeTurns
<1> QED
  BY <1>1, <1>2, <1>3, <1>4, <1>5, <1>6, <1>7, <1>8, <1>9, <1>10, <1>11, <1>12, <1>13, <1>14, <1>15, <1>16 DEF LogNext, SpanSteps, Writing

LEMMA EventTokens ==
  ASSUME NEW k \in Tokens
  PROVE  k.t = "event" => k.e \in LogEvents /\ k = Event(k.e)
<1>1. Comma.t = "comma" /\ Bracket.t = "bracket"
  BY DEF Comma, Bracket
<1>2. \A e : Event(e).e = e
  BY DEF Event
<1> QED
  BY <1>1, <1>2 DEF Tokens

LEMMA OldNumber ==
  ASSUME LogTypes, NEW a \in Actors, NEW ph, NEW x \in LogEvents, x[3] < counts[<<x[1], x[2]>>]
  PROVE  x # NewEvent(a, ph)
<1> SUFFICES ASSUME x = NewEvent(a, ph) PROVE FALSE
  OBVIOUS
<1>1. x[1] = a[1] /\ x[2] = a[2] /\ x[3] = counts[a]
  BY DEF NewEvent
<1>2. <<a[1], a[2]>> = a /\ counts[a] \in Nat
  BY DEF LogTypes, Actors
<1> QED
  BY <1>1, <1>2

LEMMA AddedOnce ==
  ASSUME LogTypes, OnceInv, NEW a \in Actors, NEW ph \in {"B", "E"}, add_trace_event(a, ph), file' = file
  PROVE  OnceInv'
<1> DEFINE p == a[1]
           e == NewEvent(a, ph)
           kept == Kept(p)
           buf == Append(kept, e)
<1>1. p \in Procs /\ a = <<p, a[2]>> /\ counts[a] \in Nat
  BY DEF LogTypes, Actors
<1>2. e \in LogEvents /\ kept \in Seq(LogEvents) /\ _cur_events' = [_cur_events EXCEPT ![p] = buf]
  BY Added
<1>3. e[1] = p /\ e[2] = a[2] /\ e[3] = counts[a]
  BY DEF NewEvent
<1>4. Len(kept) \in Nat /\ DOMAIN kept = 1..Len(kept) /\ \A i \in DOMAIN kept : i \in DOMAIN _cur_events[p] /\ kept[i] = _cur_events[p][i]
  BY <1>1, <1>2 DEF Kept
<1>5. \A q \in Procs : _cur_events'[q] = IF q = p THEN buf ELSE _cur_events[q]
  BY <1>1, <1>2 DEF LogTypes
<1>6. \A x \in Actors : counts[x] \in Nat /\ counts'[x] = IF x = a THEN counts[x] + 1 ELSE counts[x]
  BY <1>1 DEF add_trace_event, LogTypes
<1>7. /\ DOMAIN buf = 1..(Len(kept) + 1) /\ buf[Len(kept) + 1] = e
      /\ \A i \in DOMAIN kept : buf[i] = kept[i]
      /\ \A i \in DOMAIN buf : i \in DOMAIN kept \/ i = Len(kept) + 1
  BY <1>2, <1>4
<1>8. \A q \in Procs : \A i \in DOMAIN _cur_events[q] :
        /\ _cur_events[q][i] \in LogEvents /\ _cur_events[q][i] # e
        /\ <<q, _cur_events[q][i][2]>> \in Actors
  <2> SUFFICES ASSUME NEW q \in Procs, NEW i \in DOMAIN _cur_events[q]
               PROVE  /\ _cur_events[q][i] \in LogEvents /\ _cur_events[q][i] # e
                      /\ <<q, _cur_events[q][i][2]>> \in Actors
    OBVIOUS
  <2>1. _cur_events[q][i] \in LogEvents
    BY DEF LogTypes
  <2>2. _cur_events[q][i][1] = q /\ _cur_events[q][i][2] \in Threads
    BY <2>1 DEF LogEvents, OnceInv, BufferNumbered
  <2> QED
    BY <2>1, <2>2, OldNumber DEF OnceInv, BufferNumbered, Actors
<1>9. \A i \in DOMAIN file : file[i].t = "event" =>
        file[i].e \in LogEvents /\ file[i].e # e /\ <<file[i].e[1], file[i].e[2]>> \in Actors
  <2> SUFFICES ASSUME NEW i \in DOMAIN file, file[i].t = "event"
               PROVE  file[i].e \in LogEvents /\ file[i].e # e /\ <<file[i].e[1], file[i].e[2]>> \in Actors
    OBVIOUS
  <2>1. file[i].e \in LogEvents
    BY EventTokens DEF LogTypes
  <2>2. file[i].e[1] \in Procs /\ file[i].e[2] \in Threads
    BY <2>1 DEF LogEvents
  <2> QED
    BY <2>1, <2>2, OldNumber DEF OnceInv, FileNumbered, Actors
<1> HIDE DEF p, e, kept, buf
<1>10. BufferNumbered'
  <2> SUFFICES ASSUME NEW q \in Procs, NEW i \in DOMAIN _cur_events'[q]
               PROVE  _cur_events'[q][i][1] = q /\ _cur_events'[q][i][3] < counts'[<<q, _cur_events'[q][i][2]>>]
    BY DEF BufferNumbered
  <2>1. CASE q = p /\ i = Len(kept) + 1
    <3>1. _cur_events'[q][i] = e
      BY <1>5, <1>7, <2>1
    <3>2. counts'[a] = e[3] + 1 /\ e[3] \in Nat
      BY <1>1, <1>3, <1>6
    <3> QED
      BY <1>1, <1>3, <2>1, <3>1, <3>2
  <2>2. CASE i \in DOMAIN _cur_events[q] /\ _cur_events'[q][i] = _cur_events[q][i]
    <3>1. _cur_events[q][i][3] \in Nat /\ <<q, _cur_events[q][i][2]>> \in Actors
      BY <1>8, <2>2 DEF LogEvents
    <3> QED
      BY <1>6, <2>2, <3>1 DEF OnceInv, BufferNumbered
  <2> QED
    BY <1>4, <1>5, <1>7, <2>1, <2>2
<1>11. BufferedOnce'
  <2> SUFFICES ASSUME NEW q \in Procs, NEW i \in DOMAIN _cur_events'[q], NEW j \in DOMAIN _cur_events'[q],
                      _cur_events'[q][i] = _cur_events'[q][j]
               PROVE  i = j
    BY DEF BufferedOnce
  <2>1. CASE q # p
    BY <1>5, <2>1 DEF OnceInv, BufferedOnce
  <2>2. CASE q = p
    <3>1. /\ i = Len(kept) + 1 \/ (i \in DOMAIN _cur_events[p] /\ buf[i] = _cur_events[p][i])
          /\ j = Len(kept) + 1 \/ (j \in DOMAIN _cur_events[p] /\ buf[j] = _cur_events[p][j])
      BY <1>1, <1>4, <1>5, <1>7, <2>2
    <3>2. buf[i] = buf[j]
      BY <1>1, <1>5, <2>2
    <3>3. \A k \in DOMAIN _cur_events[p] : _cur_events[p][k] # e
      BY <1>1, <1>8
    <3>4. buf[Len(kept) + 1] = e
      BY <1>7
    <3> QED
      BY <1>1, <3>1, <3>2, <3>3, <3>4 DEF OnceInv, BufferedOnce
  <2> QED
    BY <2>1, <2>2
<1>12. FileNumbered'
  <2> SUFFICES ASSUME NEW i \in DOMAIN file, file[i].t = "event"
               PROVE  file[i].e[3] < counts'[<<file[i].e[1], file[i].e[2]>>]
    BY DEF FileNumbered
  <2>1. file[i].e[3] \in Nat /\ <<file[i].e[1], file[i].e[2]>> \in Actors
    BY <1>9 DEF LogEvents
  <2> QED
    BY <1>6, <2>1 DEF OnceInv, FileNumbered
<1>13. Apart'
  <2> SUFFICES ASSUME NEW i \in DOMAIN file, NEW q \in Procs, NEW j \in DOMAIN _cur_events'[q], file[i].t = "event"
               PROVE  file[i].e # _cur_events'[q][j]
    BY DEF Apart
  <2>1. CASE q = p /\ j = Len(kept) + 1
    BY <1>5, <1>7, <1>9, <2>1
  <2>2. CASE j \in DOMAIN _cur_events[q] /\ _cur_events'[q][j] = _cur_events[q][j]
    BY <2>2 DEF OnceInv, Apart
  <2> QED
    BY <1>4, <1>5, <1>7, <2>1, <2>2
<1>14. EachOnce'
  BY DEF OnceInv, EachOnce
<1> QED
  BY <1>10, <1>11, <1>12, <1>13, <1>14 DEF OnceInv

LEMMA OddHalf ==
  ASSUME NEW i \in Nat, NEW j \in Nat, i % 2 = 1, j % 2 = 1, (i + 1) \div 2 = (j + 1) \div 2
  PROVE  i = j
OBVIOUS

LEMMA WrittenOnce ==
  ASSUME LogTypes, OnceInv, NEW a \in Actors, WriteEvents(a)
  PROVE  OnceInv'
<1> DEFINE p == a[1]
           buf == _cur_events[p]
           new == Joined(buf)
<1>1. p \in Procs /\ buf \in Seq(LogEvents) /\ file \in Seq(Tokens)
  BY DEF LogTypes, Actors
<1>2. file' = file \o new /\ _cur_events' = [_cur_events EXCEPT ![p] = <<>>] /\ counts' = counts
  BY DEF WriteEvents
<1>3. \A q \in Procs : _cur_events'[q] = IF q = p THEN <<>> ELSE _cur_events[q]
  BY <1>1, <1>2 DEF LogTypes
<1>4. /\ new \in Seq(Tokens)
      /\ \A i \in 1..Len(new) :
           /\ i % 2 = 1 => (i + 1) \div 2 \in 1..Len(buf) /\ new[i] = Event(buf[(i + 1) \div 2])
           /\ i % 2 # 1 => new[i] = Comma
  BY <1>1, JoinedTokens
<1>5. DOMAIN buf = 1..Len(buf) /\ Len(file) \in Nat /\ DOMAIN file = 1..Len(file)
  BY <1>1
<1>6. Comma.t = "comma" /\ \A e : Event(e).t = "event" /\ Event(e).e = e
  BY DEF Comma, Event
<1> HIDE DEF new
<1>7. /\ DOMAIN file' = 1..(Len(file) + Len(new)) /\ Len(new) \in Nat
      /\ \A i \in DOMAIN file : i \in DOMAIN file' /\ file'[i] = file[i]
      /\ \A i \in DOMAIN file' : i \in DOMAIN file \/ (i - Len(file) \in 1..Len(new) /\ file'[i] = new[i - Len(file)])
  BY <1>1, <1>2, <1>4, <1>5
<1> DEFINE from(i) == (i - Len(file) + 1) \div 2
<1>8. ASSUME NEW i \in DOMAIN file', file'[i].t = "event", i \notin DOMAIN file
      PROVE  from(i) \in DOMAIN buf /\ file'[i] = Event(buf[from(i)]) /\ (i - Len(file)) % 2 = 1
  BY <1>4, <1>5, <1>6, <1>7, <1>8
<1>9. BufferNumbered' /\ BufferedOnce'
  <2>1. \A q \in Procs : _cur_events'[q] = _cur_events[q] \/ DOMAIN _cur_events'[q] = {}
    BY <1>3
  <2>2. BufferNumbered'
    BY <1>2, <2>1 DEF OnceInv, BufferNumbered
  <2>3. BufferedOnce'
    BY <2>1 DEF OnceInv, BufferedOnce
  <2> QED
    BY <2>2, <2>3
<1>10. FileNumbered'
  <2> SUFFICES ASSUME NEW i \in DOMAIN file', file'[i].t = "event"
               PROVE  file'[i].e[3] < counts[<<file'[i].e[1], file'[i].e[2]>>]
    BY <1>2 DEF FileNumbered
  <2>1. CASE i \in DOMAIN file
    BY <1>7, <2>1 DEF OnceInv, FileNumbered
  <2>2. CASE i \notin DOMAIN file
    <3>1. from(i) \in DOMAIN buf /\ file'[i].e = buf[from(i)]
      BY <1>6, <1>8, <2>2
    <3>2. buf[from(i)][1] = p /\ buf[from(i)][3] < counts[<<p, buf[from(i)][2]>>]
      BY <1>1, <3>1 DEF OnceInv, BufferNumbered
    <3> QED
      BY <3>1, <3>2
  <2> QED
    BY <2>1, <2>2
<1>11. Apart'
  <2> SUFFICES ASSUME NEW i \in DOMAIN file', NEW q \in Procs, NEW j \in DOMAIN _cur_events'[q], file'[i].t = "event"
               PROVE  file'[i].e # _cur_events'[q][j]
    BY DEF Apart
  <2>1. q # p /\ _cur_events'[q] = _cur_events[q]
    BY <1>3
  <2>2. CASE i \in DOMAIN file
    BY <1>7, <2>1, <2>2 DEF OnceInv, Apart
  <2>3. CASE i \notin DOMAIN file
    <3>1. from(i) \in DOMAIN buf /\ file'[i].e = buf[from(i)]
      BY <1>6, <1>8, <2>3
    <3>2. file'[i].e[1] = p /\ _cur_events'[q][j][1] = q
      BY <1>1, <2>1, <3>1 DEF OnceInv, BufferNumbered
    <3> QED
      BY <2>1, <3>2
  <2> QED
    BY <2>2, <2>3
<1>12. EachOnce'
  <2> SUFFICES ASSUME NEW i \in DOMAIN file', NEW j \in DOMAIN file', file'[i].t = "event", file'[i] = file'[j]
               PROVE  i = j
    BY DEF EachOnce
  <2>1. CASE i \in DOMAIN file /\ j \in DOMAIN file
    BY <1>7, <2>1 DEF OnceInv, EachOnce
  <2>2. CASE i \in DOMAIN file /\ j \notin DOMAIN file
    <3>1. from(j) \in DOMAIN buf /\ file'[j].e = buf[from(j)]
      BY <1>6, <1>8, <2>2
    <3> QED
      BY <1>1, <1>7, <2>2, <3>1 DEF OnceInv, Apart
  <2>3. CASE i \notin DOMAIN file /\ j \in DOMAIN file
    <3>1. from(i) \in DOMAIN buf /\ file'[i].e = buf[from(i)]
      BY <1>6, <1>8, <2>3
    <3> QED
      BY <1>1, <1>7, <2>3, <3>1 DEF OnceInv, Apart
  <2>4. CASE i \notin DOMAIN file /\ j \notin DOMAIN file
    <3>1. /\ from(i) \in DOMAIN buf /\ file'[i].e = buf[from(i)] /\ (i - Len(file)) % 2 = 1
          /\ from(j) \in DOMAIN buf /\ file'[j].e = buf[from(j)] /\ (j - Len(file)) % 2 = 1
      BY <1>6, <1>8, <2>4
    <3>2. from(i) = from(j)
      BY <1>1, <3>1 DEF OnceInv, BufferedOnce
    <3>3. i \in Nat /\ j \in Nat
      BY <1>5, <1>7
    <3>4. i - Len(file) \in Nat /\ j - Len(file) \in Nat
      BY <1>5, <1>7, <2>4
    <3>5. i - Len(file) = j - Len(file)
      BY <3>1, <3>2, <3>4, OddHalf
    <3> QED
      BY <1>5, <3>3, <3>5
  <2> QED
    BY <2>1, <2>2, <2>3, <2>4
<1> QED
  BY <1>9, <1>10, <1>11, <1>12 DEF OnceInv

LEMMA NextOnce == ASSUME LogSetting, Kinds = {} PROVE LogTypes /\ OnceInv /\ [LogNext]_logVars => OnceInv'
<1> SUFFICES ASSUME LogTypes /\ OnceInv, [LogNext]_logVars PROVE OnceInv'
  OBVIOUS
<1> USE DEF perProcess
<1>1. ASSUME NEW a \in Actors, Enable(a) PROVE OnceInv'
  <2>1. UNCHANGED <<file, _cur_events, counts>>
    BY <1>1 DEF Enable, Calls, Free, Idle, LogAlive
  <2> QED
    BY <2>1 DEF OnceInv, BufferNumbered, FileNumbered, BufferedOnce, Apart, EachOnce
<1>2. ASSUME NEW a \in Actors, logTrace(a) PROVE OnceInv'
  <2>1. UNCHANGED <<file, _cur_events, counts>>
    BY <1>2 DEF logTrace, Entered
  <2> QED
    BY <2>1 DEF OnceInv, BufferNumbered, FileNumbered, BufferedOnce, Apart, EachOnce
<1>3. ASSUME NEW a \in Actors, traced_function(a) PROVE OnceInv'
  <2>1. UNCHANGED <<file, _cur_events, counts>>
    BY <1>3 DEF traced_function, Entered
  <2> QED
    BY <2>1 DEF OnceInv, BufferNumbered, FileNumbered, BufferedOnce, Apart, EachOnce
<1>4. ASSUME NEW a \in Actors, SpanBegins(a) PROVE OnceInv'
  <2>1. CASE add_trace_event(a, "B")
    BY <1>4, <2>1, AddedOnce DEF SpanBegins
  <2>2. CASE Ignored
    BY <1>4, <2>2 DEF SpanBegins, Ignored, OnceInv, BufferNumbered, FileNumbered, BufferedOnce, Apart, EachOnce
  <2> QED
    BY <1>4, <2>1, <2>2 DEF SpanBegins, AddIfEnabled
<1>5. ASSUME NEW a \in Actors, SpanEnds(a) PROVE OnceInv'
  <2>1. CASE add_trace_event(a, "E")
    BY <1>5, <2>1, AddedOnce DEF SpanEnds
  <2>2. CASE Ignored
    BY <1>5, <2>2 DEF SpanEnds, Ignored, OnceInv, BufferNumbered, FileNumbered, BufferedOnce, Apart, EachOnce
  <2> QED
    BY <1>5, <2>1, <2>2 DEF SpanEnds, AddIfEnabled
<1>6. ASSUME NEW a \in Actors, trace_flush(a) PROVE OnceInv'
  <2>1. UNCHANGED <<file, _cur_events, counts>>
    BY <1>6 DEF trace_flush, Calls, Free, Idle, LogAlive, Flushes
  <2> QED
    BY <2>1 DEF OnceInv, BufferNumbered, FileNumbered, BufferedOnce, Apart, EachOnce
<1>7. ASSUME NEW a \in Actors, trace_disable(a) PROVE OnceInv'
  <2>1. UNCHANGED <<file, _cur_events, counts>>
    BY <1>7 DEF trace_disable, Calls, Free, Idle, LogAlive, Flushes
  <2> QED
    BY <2>1 DEF OnceInv, BufferNumbered, FileNumbered, BufferedOnce, Apart, EachOnce
<1>8. ASSUME NEW a \in Actors, Flock(a) PROVE OnceInv'
  <2>1. UNCHANGED <<file, _cur_events, counts>>
    BY <1>8 DEF Flock
  <2> QED
    BY <2>1 DEF OnceInv, BufferNumbered, FileNumbered, BufferedOnce, Apart, EachOnce
<1>9. ASSUME NEW a \in Actors, BeginFile(a) PROVE OnceInv'
  <2>1. UNCHANGED <<_cur_events, counts>> /\ file \in Seq(Tokens)
    BY <1>9 DEF BeginFile, LogTypes
  <2>2. \A i \in DOMAIN file' : file'[i].t = "event" => i \in DOMAIN file /\ file'[i] = file[i]
    BY <1>9, <2>1 DEF BeginFile, Comma, Bracket
  <2> QED
    BY <2>1, <2>2 DEF OnceInv, BufferNumbered, FileNumbered, BufferedOnce, Apart, EachOnce
<1>10. ASSUME NEW a \in Actors, WriteComma(a) PROVE OnceInv'
  <2>1. UNCHANGED <<_cur_events, counts>> /\ file \in Seq(Tokens)
    BY <1>10 DEF WriteComma, LogTypes
  <2>2. \A i \in DOMAIN file' : file'[i].t = "event" => i \in DOMAIN file /\ file'[i] = file[i]
    BY <1>10, <2>1 DEF WriteComma, Comma, Bracket
  <2> QED
    BY <2>1, <2>2 DEF OnceInv, BufferNumbered, FileNumbered, BufferedOnce, Apart, EachOnce
<1>11. ASSUME NEW a \in Actors, WriteEvents(a) PROVE OnceInv'
  BY <1>11, WrittenOnce
<1>12. ASSUME NEW a \in Actors, Unlock(a) PROVE OnceInv'
  <2>1. UNCHANGED <<file, _cur_events, counts>>
    BY <1>12 DEF Unlock
  <2> QED
    BY <2>1 DEF OnceInv, BufferNumbered, FileNumbered, BufferedOnce, Apart, EachOnce
<1>13. ASSUME NEW a \in Actors, NEW c \in Procs \ Roots, NEW k \in Kinds, Fork(a, c, k) PROVE OnceInv'
  BY <1>13
<1>14. ASSUME NEW p \in Procs, Ends(p) PROVE OnceInv'
  <2>1. UNCHANGED <<file, _cur_events, counts>>
    BY <1>14 DEF Ends, Quiet, Flushes
  <2> QED
    BY <2>1 DEF OnceInv, BufferNumbered, FileNumbered, BufferedOnce, Apart, EachOnce
<1>15. ASSUME NEW p \in Procs, Terminate(p) PROVE OnceInv'
  BY <1>15 DEF Terminate, LogTypes
<1>16. CASE UNCHANGED logVars
  BY <1>16 DEF logVars, OnceInv, BufferNumbered, FileNumbered, BufferedOnce, Apart, EachOnce
<1> QED
  BY <1>1, <1>2, <1>3, <1>4, <1>5, <1>6, <1>7, <1>8, <1>9, <1>10, <1>11, <1>12, <1>13, <1>14, <1>15, <1>16 DEF LogNext, SpanSteps, Writing

LEMMA Half == ASSUME NEW n \in Nat \ {0} PROVE ((2 * n - 1) + 1) \div 2 = n
OBVIOUS

LEMMA AddedIsKnown ==
  ASSUME LogTypes, SpanInv, NEW a \in Actors, NEW ph \in {"B", "E"}, add_trace_event(a, ph), file' = file
  PROVE  /\ \A x : Known(x)' <=> Known(x) \/ x = NewEvent(a, ph)
         /\ \A q \in Procs : ~noted'[q] => _cur_events'[q] = <<>>
         /\ \A b \in Actors : counts'[b] = IF b = a THEN counts[b] + 1 ELSE counts[b]
<1> DEFINE p == a[1]
           e == NewEvent(a, ph)
           buf == Append(_cur_events[p], e)
<1>1. p \in Procs /\ _cur_events[p] \in Seq(LogEvents)
  BY DEF LogTypes, Actors
<1>2. Kept(p) = _cur_events[p]
  BY <1>1 DEF Kept, SpanInv
<1>3. _cur_events' = [_cur_events EXCEPT ![p] = buf] /\ e \in LogEvents
  BY <1>2, Added
<1>4. \A q \in Procs : _cur_events'[q] = IF q = p THEN buf ELSE _cur_events[q]
  BY <1>1, <1>3 DEF LogTypes
<1> HIDE DEF e
<1>5. DOMAIN buf = DOMAIN _cur_events[p] \cup {Len(_cur_events[p]) + 1}
      /\ buf[Len(_cur_events[p]) + 1] = e /\ \A i \in DOMAIN _cur_events[p] : buf[i] = _cur_events[p][i]
  BY <1>1, <1>3
<1> HIDE DEF buf
<1>6. \A x : Buffered(x)' <=> Buffered(x) \/ x = e
  BY <1>1, <1>4, <1>5 DEF Buffered
<1>7. \A x : Written(x)' <=> Written(x)
  BY DEF Written
<1>8. \A q \in Procs : noted'[q] <=> noted[q] \/ q = p
  BY <1>1 DEF add_trace_event, LogTypes
<1>9. \A b \in Actors : counts'[b] = IF b = a THEN counts[b] + 1 ELSE counts[b]
  BY DEF add_trace_event, LogTypes
<1> QED
  BY <1>4, <1>6, <1>7, <1>8, <1>9 DEF Known, SpanInv, e

LEMMA WrittenIsKnown ==
  ASSUME LogTypes, NEW a \in Actors, WriteEvents(a)
  PROVE  /\ \A x \in LogEvents : Known(x)' <=> Known(x)
         /\ \A q \in Procs : _cur_events'[q] = _cur_events[q] \/ _cur_events'[q] = <<>>
<1> DEFINE p == a[1]
           buf == _cur_events[p]
           new == Joined(buf)
<1>1. p \in Procs /\ buf \in Seq(LogEvents) /\ file \in Seq(Tokens)
  BY DEF LogTypes, Actors
<1>2. file' = file \o new /\ _cur_events' = [_cur_events EXCEPT ![p] = <<>>]
  BY DEF WriteEvents
<1>3. \A q \in Procs : _cur_events'[q] = IF q = p THEN <<>> ELSE _cur_events[q]
  BY <1>1, <1>2 DEF LogTypes
<1>4. /\ new \in Seq(Tokens) /\ Len(new) = IF buf = <<>> THEN 0 ELSE 2 * Len(buf) - 1
      /\ \A i \in 1..Len(new) :
           /\ i % 2 = 1 => (i + 1) \div 2 \in 1..Len(buf) /\ new[i] = Event(buf[(i + 1) \div 2])
           /\ i % 2 # 1 => new[i] = Comma
  BY <1>1, JoinedTokens
<1>5. (\A x : Event(x) # Comma) /\ \A x, y : Event(x) = Event(y) => x = y
  BY DEF Event, Comma
<1> HIDE DEF new
<1>6. Len(buf) \in Nat /\ DOMAIN buf = 1..Len(buf)
  BY <1>1
<1>7. ASSUME NEW j \in DOMAIN buf PROVE \E i \in 1..Len(new) : new[i] = Event(buf[j])
  <2>1. 2 * j - 1 \in 1..Len(new) /\ (2 * j - 1) % 2 = 1 /\ ((2 * j - 1) + 1) \div 2 = j
    <3>1. j \in Nat \ {0} /\ j <= Len(buf) /\ buf # <<>>
      BY <1>6
    <3>2. Len(new) = 2 * Len(buf) - 1 /\ 2 * j - 1 \in Nat /\ 2 * j - 1 >= 1
      BY <1>4, <3>1
    <3>3. 2 * j - 1 \in 1..Len(new)
      BY <1>6, <3>1, <3>2
    <3> QED
      BY <3>1, <3>3, Odd, Half
  <2> QED
    BY <1>4, <2>1
<1>8. \A x : (\E i \in 1..Len(new) : new[i] = Event(x)) => \E j \in DOMAIN buf : buf[j] = x
  BY <1>4, <1>5, <1>6
<1>9. /\ \A i \in DOMAIN file : i \in DOMAIN file' /\ file'[i] = file[i]
      /\ \A i \in 1..Len(new) : Len(file) + i \in DOMAIN file' /\ file'[Len(file) + i] = new[i]
      /\ \A i \in DOMAIN file' : i \in DOMAIN file \/ (i - Len(file) \in 1..Len(new) /\ file'[i] = new[i - Len(file)])
  BY <1>1, <1>2, <1>4
<1>10. \A x : Written(x)' <=> Written(x) \/ \E j \in DOMAIN buf : buf[j] = x
  BY <1>7, <1>8, <1>9 DEF Written
<1>11. DOMAIN <<>> = {}
  OBVIOUS
<1>12. \A x : Buffered(x) <=> Buffered(x)' \/ \E j \in DOMAIN buf : buf[j] = x
  BY <1>1, <1>3, <1>11 DEF Buffered
<1> QED
  BY <1>3, <1>10, <1>12 DEF Known

LEMMA NextSpan == ASSUME LogSetting, Kinds = {}, Threads = {Main}, "trace" \notin Styles PROVE LogTypes /\ SpanInv /\ [LogNext]_logVars => SpanInv'
<1> SUFFICES ASSUME LogTypes /\ SpanInv, [LogNext]_logVars PROVE SpanInv'
  OBVIOUS
<1> USE DEF perProcess
<1>1. ASSUME NEW a \in Actors, Enable(a) PROVE SpanInv'
  <2>1. UNCHANGED <<file, _cur_events, noted, counts>>
    BY <1>1 DEF Enable, Calls, Free, Idle, LogAlive
  <2>2. \A b \in Actors : (span'[b] = "begin" => _enabled'[b[1]]) /\ (span'[b] = "inside" => span[b] = "inside")
    BY <1>1, <2>1 DEF Enable, Calls, Free, Idle, LogAlive, LogSetting, Assumption, LogTypes, SpanInv, Actors
  <2>3. \A x : Known(x)' <=> Known(x)
    BY <2>1 DEF Known, Written, Buffered
  <2> QED
    BY <2>1, <2>2, <2>3 DEF SpanInv, Begun
<1>2. ASSUME NEW a \in Actors, logTrace(a) PROVE SpanInv'
  <2>1. UNCHANGED <<file, _cur_events, noted, counts>>
    BY <1>2 DEF logTrace, Entered
  <2>2. \A b \in Actors : (span'[b] = "begin" => _enabled'[b[1]]) /\ (span'[b] = "inside" => span[b] = "inside")
    BY <1>2, <2>1 DEF logTrace, Entered, LogSetting, Assumption, LogTypes, SpanInv, Actors
  <2>3. \A x : Known(x)' <=> Known(x)
    BY <2>1 DEF Known, Written, Buffered
  <2> QED
    BY <2>1, <2>2, <2>3 DEF SpanInv, Begun
<1>3. ASSUME NEW a \in Actors, traced_function(a) PROVE SpanInv'
  <2>1. UNCHANGED <<file, _cur_events, noted, counts>>
    BY <1>3 DEF traced_function, Entered
  <2>2. \A b \in Actors : (span'[b] = "begin" => _enabled'[b[1]]) /\ (span'[b] = "inside" => span[b] = "inside")
    BY <1>3, <2>1 DEF traced_function, Entered, LogSetting, Assumption, LogTypes, SpanInv, Actors
  <2>3. \A x : Known(x)' <=> Known(x)
    BY <2>1 DEF Known, Written, Buffered
  <2> QED
    BY <2>1, <2>2, <2>3 DEF SpanInv, Begun
<1>4. ASSUME NEW a \in Actors, SpanBegins(a) PROVE SpanInv'
  <2>0. a = <<a[1], a[2]>> /\ a[1] \in Procs /\ a[2] \in Threads /\ counts[a] \in Nat
    BY DEF LogTypes, Actors
  <2>1. CASE add_trace_event(a, "B")
    <3>1. file' = file /\ _enabled' = _enabled /\ \A b \in Actors : span'[b] = IF b = a THEN "inside" ELSE span[b]
      BY <1>4 DEF SpanBegins, LogTypes
    <3>2. /\ \A x : Known(x)' <=> Known(x) \/ x = <<a[1], a[2], counts[a], "B">>
          /\ \A q \in Procs : ~noted'[q] => _cur_events'[q] = <<>>
          /\ \A b \in Actors : counts'[b] = IF b = a THEN counts[b] + 1 ELSE counts[b]
      BY <2>1, <3>1, AddedIsKnown DEF NewEvent
    <3>3. (\A b \in Actors : span[b] = "begin" => _enabled[b[1]])'
      BY <3>1 DEF SpanInv
    <3>4. (\A b \in Actors : span[b] = "inside" => counts[b] > 0 /\ Known(<<b[1], b[2], counts[b] - 1, "B">>))'
      <4> SUFFICES ASSUME NEW b \in Actors, span'[b] = "inside"
                   PROVE  (counts[b] > 0 /\ Known(<<b[1], b[2], counts[b] - 1, "B">>))'
        OBVIOUS
      <4>1. CASE b = a
        BY <2>0, <3>2, <4>1
      <4>2. CASE b # a
        BY <3>1, <3>2, <4>2 DEF SpanInv
      <4> QED
        BY <4>1, <4>2
    <3>5. Begun'
      <4> SUFFICES ASSUME NEW p \in Procs, NEW t \in Threads, NEW n \in 0..MaxEvents, Known(<<p, t, n, "E">>)'
                   PROVE  n > 0 /\ Known(<<p, t, n - 1, "B">>)'
        BY DEF Begun
      <4>1. Known(<<p, t, n, "E">>)
        BY <3>2
      <4> QED
        BY <3>2, <4>1 DEF SpanInv, Begun
    <3> QED
      BY <3>2, <3>3, <3>4, <3>5 DEF SpanInv
  <2>2. CASE Ignored
    <3>1. span[a] = "begin" /\ ~_enabled[a[1]]
      BY <1>4, <2>2 DEF SpanBegins, AddIfEnabled, add_trace_event, Ignored, LogTypes
    <3> QED
      BY <3>1 DEF SpanInv
  <2> QED
    BY <1>4, <2>1, <2>2 DEF SpanBegins, AddIfEnabled
<1>5. ASSUME NEW a \in Actors, SpanEnds(a) PROVE SpanInv'
  <2>0. a = <<a[1], a[2]>> /\ a[1] \in Procs /\ a[2] \in Threads /\ counts[a] \in Nat
    BY DEF LogTypes, Actors
  <2>1. CASE add_trace_event(a, "E")
    <3>1. file' = file /\ _enabled' = _enabled /\ \A b \in Actors : span'[b] = IF b = a THEN "none" ELSE span[b]
      BY <1>5 DEF SpanEnds, LogTypes
    <3>2. /\ \A x : Known(x)' <=> Known(x) \/ x = <<a[1], a[2], counts[a], "E">>
          /\ \A q \in Procs : ~noted'[q] => _cur_events'[q] = <<>>
          /\ \A b \in Actors : counts'[b] = IF b = a THEN counts[b] + 1 ELSE counts[b]
      BY <2>1, <3>1, AddedIsKnown DEF NewEvent
    <3>3. (\A b \in Actors : span[b] = "begin" => _enabled[b[1]])'
      BY <3>1 DEF SpanInv
    <3>4. (\A b \in Actors : span[b] = "inside" => counts[b] > 0 /\ Known(<<b[1], b[2], counts[b] - 1, "B">>))'
      BY <3>1, <3>2 DEF SpanInv
    <3>5. Begun'
      <4> SUFFICES ASSUME NEW p \in Procs, NEW t \in Threads, NEW n \in 0..MaxEvents, Known(<<p, t, n, "E">>)'
                   PROVE  n > 0 /\ Known(<<p, t, n - 1, "B">>)'
        BY DEF Begun
      <4>1. CASE Known(<<p, t, n, "E">>)
        BY <3>2, <4>1 DEF SpanInv, Begun
      <4>2. CASE <<p, t, n, "E">> = <<a[1], a[2], counts[a], "E">>
        <5>1. span[a] = "inside" /\ p = a[1] /\ t = a[2] /\ n = counts[a]
          BY <1>5, <4>2 DEF SpanEnds
        <5> QED
          BY <3>2, <5>1 DEF SpanInv
      <4> QED
        BY <3>2, <4>1, <4>2
    <3> QED
      BY <3>2, <3>3, <3>4, <3>5 DEF SpanInv
  <2>2. CASE Ignored
    <3>1. UNCHANGED <<file, _cur_events, noted, counts, _enabled>> /\ \A b \in Actors : span'[b] = "none" \/ span'[b] = span[b]
      BY <1>5, <2>2 DEF SpanEnds, Ignored, LogTypes
    <3>2. \A x : Known(x)' <=> Known(x)
      BY <3>1 DEF Known, Written, Buffered
    <3> QED
      BY <3>1, <3>2 DEF SpanInv, Begun
  <2> QED
    BY <1>5, <2>1, <2>2 DEF SpanEnds, AddIfEnabled
<1>6. ASSUME NEW a \in Actors, trace_flush(a) PROVE SpanInv'
  <2>1. UNCHANGED <<file, _cur_events, noted, counts, _enabled, span>>
    BY <1>6 DEF trace_flush, Calls, Free, Idle, LogAlive, Flushes
  <2>2. \A x : Known(x)' <=> Known(x)
    BY <2>1 DEF Known, Written, Buffered
  <2> QED
    BY <2>1, <2>2 DEF SpanInv, Begun
<1>7. ASSUME NEW a \in Actors, trace_disable(a) PROVE SpanInv'
  <2>1. UNCHANGED <<file, _cur_events, noted, counts, span>>
    BY <1>7 DEF trace_disable
  <2>0. a[1] \in Procs /\ span[a] # "begin" /\ \A b \in Actors : b[1] \in Procs /\ (b[1] = a[1] => b = a)
    BY <1>7 DEF trace_disable, Calls, Free, Idle, LogAlive, Flushes, LogSetting, Assumption, Actors
  <2>2. \A b \in Actors : span[b] = "begin" => _enabled'[b[1]]
    BY <1>7, <2>0 DEF trace_disable, SpanInv, LogTypes
  <2>3. \A x : Known(x)' <=> Known(x)
    BY <2>1 DEF Known, Written, Buffered
  <2> QED
    BY <2>1, <2>2, <2>3 DEF SpanInv, Begun
<1>8. ASSUME NEW a \in Actors, Flock(a) PROVE SpanInv'
  <2>1. UNCHANGED <<file, _cur_events, noted, counts, _enabled, span>>
    BY <1>8 DEF Flock
  <2>2. \A x : Known(x)' <=> Known(x)
    BY <2>1 DEF Known, Written, Buffered
  <2> QED
    BY <2>1, <2>2 DEF SpanInv, Begun
<1>9. ASSUME NEW a \in Actors, BeginFile(a) PROVE SpanInv'
  <2>1. UNCHANGED <<_cur_events, noted, counts, _enabled, span>> /\ file \in Seq(Tokens)
    BY <1>9 DEF BeginFile, LogTypes
  <2>2. \A x : Event(x) # Comma /\ Event(x) # Bracket
    BY DEF Event, Comma, Bracket
  <2>3. /\ \A i \in DOMAIN file : i \in DOMAIN file' /\ file'[i] = file[i]
        /\ \A i \in DOMAIN file' : i \in DOMAIN file \/ file'[i] = Comma \/ file'[i] = Bracket
    BY <1>9, <2>1 DEF BeginFile
  <2>4. \A x : Known(x)' <=> Known(x)
    BY <2>1, <2>2, <2>3 DEF Known, Written, Buffered
  <2> QED
    BY <2>1, <2>4 DEF SpanInv, Begun
<1>10. ASSUME NEW a \in Actors, WriteComma(a) PROVE SpanInv'
  <2>1. UNCHANGED <<_cur_events, noted, counts, _enabled, span>> /\ file \in Seq(Tokens)
    BY <1>10 DEF WriteComma, LogTypes
  <2>2. \A x : Event(x) # Comma /\ Event(x) # Bracket
    BY DEF Event, Comma, Bracket
  <2>3. /\ \A i \in DOMAIN file : i \in DOMAIN file' /\ file'[i] = file[i]
        /\ \A i \in DOMAIN file' : i \in DOMAIN file \/ file'[i] = Comma \/ file'[i] = Bracket
    BY <1>10, <2>1 DEF WriteComma
  <2>4. \A x : Known(x)' <=> Known(x)
    BY <2>1, <2>2, <2>3 DEF Known, Written, Buffered
  <2> QED
    BY <2>1, <2>4 DEF SpanInv, Begun
<1>11. ASSUME NEW a \in Actors, WriteEvents(a) PROVE SpanInv'
  <2>1. UNCHANGED <<noted, counts, _enabled, span>>
    BY <1>11 DEF WriteEvents
  <2>2. /\ \A x \in LogEvents : Known(x)' <=> Known(x)
        /\ \A q \in Procs : _cur_events'[q] = _cur_events[q] \/ _cur_events'[q] = <<>>
    BY <1>11, WrittenIsKnown
  <2>3. (\A b \in Actors : span[b] = "inside" => counts[b] > 0 /\ Known(<<b[1], b[2], counts[b] - 1, "B">>))'
    <3>1. \A b \in Actors : counts[b] > 0 => <<b[1], b[2], counts[b] - 1, "B">> \in LogEvents
      BY DEF LogTypes, LogEvents, Actors
    <3> QED
      BY <2>1, <2>2, <3>1 DEF SpanInv
  <2>4. Begun'
    <3>1. \A p \in Procs, t \in Threads, n \in 0..MaxEvents :
            /\ <<p, t, n, "E">> \in LogEvents
            /\ n > 0 => <<p, t, n - 1, "B">> \in LogEvents
      BY DEF LogEvents
    <3> QED
      BY <2>2, <3>1 DEF SpanInv, Begun
  <2> QED
    BY <2>1, <2>2, <2>3, <2>4 DEF SpanInv
<1>12. ASSUME NEW a \in Actors, Unlock(a) PROVE SpanInv'
  <2>1. UNCHANGED <<file, _cur_events, noted, counts, _enabled, span>>
    BY <1>12 DEF Unlock
  <2>2. \A x : Known(x)' <=> Known(x)
    BY <2>1 DEF Known, Written, Buffered
  <2> QED
    BY <2>1, <2>2 DEF SpanInv, Begun
<1>13. ASSUME NEW a \in Actors, NEW c \in Procs \ Roots, NEW k \in Kinds, Fork(a, c, k) PROVE SpanInv'
  BY <1>13
<1>14. ASSUME NEW p \in Procs, Ends(p) PROVE SpanInv'
  <2>1. UNCHANGED <<file, _cur_events, noted, counts, span>>
    BY <1>14 DEF Ends
  <2>0. p \in Procs /\ span[<<p, Main>>] # "begin" /\ \A b \in Actors : b[1] \in Procs /\ (b[1] = p => b = <<p, Main>>)
    BY <1>14 DEF Ends, Quiet, Flushes, LogSetting, Assumption, Actors
  <2>2. \A b \in Actors : span[b] = "begin" => _enabled'[b[1]]
    BY <1>14, <2>0 DEF Ends, SpanInv, LogTypes
  <2>3. \A x : Known(x)' <=> Known(x)
    BY <2>1 DEF Known, Written, Buffered
  <2> QED
    BY <2>1, <2>2, <2>3 DEF SpanInv, Begun
<1>15. ASSUME NEW p \in Procs, Terminate(p) PROVE SpanInv'
  BY <1>15 DEF Terminate, LogTypes
<1>16. CASE UNCHANGED logVars
  <2>1. UNCHANGED <<file, _cur_events, noted, counts, _enabled, span>>
    BY <1>16 DEF logVars
  <2>2. \A x : Known(x)' <=> Known(x)
    BY <2>1 DEF Known, Written, Buffered
  <2> QED
    BY <2>1, <2>2 DEF SpanInv, Begun
<1> QED
  BY <1>1, <1>2, <1>3, <1>4, <1>5, <1>6, <1>7, <1>8, <1>9, <1>10, <1>11, <1>12, <1>13, <1>14, <1>15, <1>16 DEF LogNext, SpanSteps, Writing

LEMMA SettingOfLog == Assumption => LogSetting
  BY DEF LogSetting, Assumption, NoFile

LEMMA InitLog == ASSUME LogSetting PROVE LogInit => LogTypes /\ LockInv /\ OwnInv
<1> SUFFICES ASSUME LogInit PROVE LogTypes /\ LockInv /\ OwnInv
  OBVIOUS
<1>1. LogTypes
  BY DEF LogInit, LogTypes, LogSetting, Assumption, LogPcs
<1>2. LockInv
  BY DEF LogInit, LockInv, Actors
<1>3. OwnInv
  BY DEF LogInit, OwnInv, OwnOnly
<1> QED
  BY <1>1, <1>2, <1>3

(* With any number of forks, of both kinds, and kills: whoever is inside   *)
(* the log holds the lock of its process, and a process that has added an  *)
(* event buffers only its own (add_trace_event()).                         *)
THEOREM LogIsLocked == ASSUME Assumption PROVE LogSpec => [](LogTypeOK /\ OwnOnly)
<1>0. LogSetting
  BY SettingOfLog
<1>1. ASSUME LogTypes, LockInv PROVE LogTypeOK
  <2>1. \A i \in DOMAIN file : file[i].t \in {"event", "comma", "bracket"}
    <3>1. \A k \in Tokens : k.t \in {"event", "comma", "bracket"}
      BY DEF Tokens, Event, Comma, Bracket
    <3> QED
      BY <1>1, <3>1 DEF LogTypes
  <2> QED
    BY <1>1, <2>1 DEF LogTypeOK, LogTypes, LockInv
<1>2. OwnInv => OwnOnly
  BY DEF OwnInv
<1> QED
  BY <1>0, InitLog, NextLogTypes, NextLock, NextOwn, <1>1, <1>2, PTL DEF LogSpec

LEMMA InitFile == LogInit => FlockInv /\ TurnsInv /\ OnceInv
<1> SUFFICES ASSUME LogInit PROVE FlockInv /\ TurnsInv /\ OnceInv
  OBVIOUS
<1>1. FlockInv
  BY DEF LogInit, FlockInv, InFile, Actors
<1>2. TurnsInv
  BY DEF LogInit, TurnsInv, TakeTurns
<1>3. OnceInv
  BY DEF LogInit, OnceInv, BufferNumbered, FileNumbered, BufferedOnce, Apart, EachOnce
<1> QED
  BY <1>1, <1>2, <1>3

LEMMA TurnsMakeAList == ASSUME LogTypes, TurnsInv PROVE WellFormed
<1> SUFFICES ASSUME \A a \in Actors : logPc[a] # "events", NEW i \in DOMAIN file
             PROVE  /\ file[i].t = "bracket" <=> i = 1
                    /\ i > 1 => (file[i].t = "comma" <=> i % 2 = 0)
                    /\ i = Len(file) => file[i].t # "comma"
  BY DEF WellFormed
<1>1. i \in 1..Len(file) /\ Len(file) \in Nat /\ file # <<>>
  BY DEF LogTypes
<1>2. Len(file) % 2 = 1
  BY <1>1 DEF TurnsInv
<1>3. (file[i].t = "bracket" <=> i = 1) /\ (i > 1 => (file[i].t = "comma" <=> i % 2 = 0))
  BY DEF TurnsInv, TakeTurns
<1>4. CASE i = Len(file)
  <2>1. i % 2 # 0
    BY <1>1, <1>2, <1>4
  <2>2. CASE i = 1
    BY <1>3, <2>2
  <2>3. CASE i > 1
    BY <1>3, <2>1, <2>3
  <2> QED
    BY <1>1, <1>3, <2>2, <2>3
<1> QED
  BY <1>3, <1>4

(* While no process forks, and whatever processes and threads write to the *)
(* file, it is a list that lacks only its last bracket, and has no event   *)
(* twice (trace_flush(), ParsedTraceEvents).                               *)
THEOREM FileIsAList ==
  ASSUME Assumption, Kinds = {} PROVE LogSpec => [](WellFormed /\ EachOnce)
<1>0. LogSetting
  BY SettingOfLog
<1>1. OnceInv => EachOnce
  BY DEF OnceInv
<1> QED
  BY <1>0, <1>1, InitLog, InitFile, NextLogTypes, NextLock, NextFlock, NextTurns, NextOnce,
     TurnsMakeAList, PTL DEF LogSpec

LEMMA BegunIsInLog == Begun => EndHasBegin
  BY DEF Begun, EndHasBegin, Known

LEMMA InitSpan == LogInit => SpanInv
<1> SUFFICES ASSUME LogInit PROVE SpanInv
  OBVIOUS
<1>1. \A x : ~Known(x)
  BY DEF LogInit, Known, Written, Buffered
<1> QED
  BY <1>1 DEF LogInit, SpanInv, Begun, Actors

(* Of functions that are traced by decorator, in processes of one thread   *)
(* that do not fork, the end of a span is in the log only with its         *)
(* beginning, however often tracing is switched (traced_function()).       *)
THEOREM EndsHaveBegun ==
  ASSUME Assumption, Kinds = {}, Threads = {Main}, "trace" \notin Styles
  PROVE  LogSpec => []EndHasBegin
<1>0. LogSetting
  BY SettingOfLog
<1>1. SpanInv => EndHasBegin
  BY BegunIsInLog DEF SpanInv
<1> QED
  BY <1>0, <1>1, InitLog, InitSpan, NextLogTypes, NextSpan, PTL DEF LogSpec
==============================================================================
