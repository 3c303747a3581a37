------------------------ MODULE CatalogSync_proofs ------------------------
(***************************************************************************)
(* Theorems about CatalogSync, for any number of splashes, tables, rows    *)
(* and versions.                                                           *)
(***************************************************************************)
EXTENDS CatalogSync, TLAPS

LEMMA NoJobIsJob == NoJob \in Job
BY ConstantsAssumption DEF NoJob, Job, Tables

LEMMA JobFields ==
  ASSUME NEW j \in Job
  PROVE  /\ j.target \in 0..MaxVersion /\ j.payload \in 0..MaxVersion
         /\ j.table \in 1..NTables /\ j.row \in 0..NRows
BY DEF Job, Tables

(* What the handlers do to the refresh in hand leaves it well typed.       *)
LEMMA JobUpdates ==
  ASSUME NEW j \in Job, NEW v \in 0..MaxVersion,
         NEW t \in Tables, NEW r \in 0..NRows
  PROVE  /\ [j EXCEPT !.target = v] \in Job
         /\ [j EXCEPT !.payload = v, !.table = t, !.row = r] \in Job
         /\ [j EXCEPT !.table = t, !.row = r] \in Job
         /\ [j EXCEPT !.row = r] \in Job
BY DEF Job

(* A crash, an exception no one catches and a refused request keep types.  *)
LEMMA DyingIsTyped ==
  ASSUME TypeOK, ProcessDies
  PROVE  TypeOK'
BY NoJobIsJob DEF TypeOK, ProcessDies, durable

LEMMA GivingUpIsTyped ==
  ASSUME TypeOK, NEW s \in Splashes, GiveUp(s)
  PROVE  TypeOK'
BY NoJobIsJob DEF TypeOK, GiveUp, Goto, durable

LEMMA ContentType == Content \in 0..MaxVersion
<1>1. CASE \E v \in Versions : Whole(v)
  BY <1>1, ConstantsAssumption DEF Content, Versions
<1>2. CASE ~ \E v \in Versions : Whole(v)
  BY <1>2, ConstantsAssumption DEF Content
<1> QED BY <1>1, <1>2

(* What a step of a splash does to the type of the state.                  *)
LEMMA ProgressIsTyped ==
  ASSUME TypeOK, NEW s \in Splashes, Progress(s)
  PROVE  TypeOK'
<1> USE ConstantsAssumption, ContentType, NoJobIsJob DEF TypeOK
<1>typed. /\ job[s] \in Job
      /\ 1 \in Tables /\ 0 \in 0..NRows /\ server \in 0..MaxVersion
  BY DEF Tables, Versions
<1>fields. /\ job[s].target \in 0..MaxVersion /\ job[s].payload \in 0..MaxVersion
      /\ job[s].table \in 1..NTables /\ job[s].row \in 0..NRows
  BY <1>typed, JobFields
<1>1. CASE TimerSkipsCheck(s)
  <2>1. /\ prefs' \in [version: 0..MaxVersion, counter: 0..3]
        /\ disk' \in [version: 0..MaxVersion, counter: 0..3]
    BY <1>1 DEF TimerSkipsCheck, Apply
  <2>2. unchecked' \in 0..Untold
    BY <1>1 DEF TimerSkipsCheck, Untold
  <2> QED BY <1>1, <2>1, <2>2 DEF TimerSkipsCheck, openApp, Goto
<1>2. CASE TimerChecks(s)
  BY <1>2 DEF TimerChecks, Goto, durable
<1>3. CASE ServerTellsVersion(s)
  <2>1. [job[s] EXCEPT !.target = server] \in Job
    BY <1>typed, JobUpdates
  <2> QED BY <1>3, <2>1 DEF ServerTellsVersion, Goto, durable
<1>4. CASE VersionIsCurrent(s)
  BY <1>4 DEF VersionIsCurrent, openApp, Goto, durable, Untold
<1>5. CASE VersionIsNewer(s)
  BY <1>5 DEF VersionIsNewer, Goto, durable
<1>6. CASE ServerSendsData(s)
  <2>1. [job[s] EXCEPT !.payload = server, !.table = 1, !.row = 0] \in Job
    BY <1>typed, JobUpdates
  <2> QED BY <1>6, <2>1 DEF ServerSendsData, Goto, durable
<1>7. CASE RequestFails(s)
  BY <1>7, GivingUpIsTyped DEF RequestFails
<1>8. CASE ToastOffMainThread(s)
  BY <1>8, DyingIsTyped DEF ToastOffMainThread
<1>9. CASE DeleteRows(s)
  <2>1. job[s].table \in Tables /\ <<>> \in Seq(Row)
    BY <1>fields DEF Tables
  <2> QED BY <1>9, <2>1 DEF DeleteRows, Goto
<1>10. CASE CreateTable(s)
  BY <1>fields, <1>10 DEF CreateTable, Goto, Tables
<1>11. CASE CreateTableTwice(s)
  BY <1>11, DyingIsTyped DEF CreateTableTwice
<1>12. CASE InsertRow(s)
  <2> DEFINE t == job[s].table
             i == job[s].row + 1
             r == <<job[s].payload, i>>
  <2>1. t \in Tables /\ i \in 1..NRows
    <3>1. job[s].row < NRows
      BY <1>12 DEF InsertRow
    <3> QED BY ONLY <1>fields, <3>1, ConstantsAssumption DEF Tables
  <2> HIDE DEF i
  <2>2. r \in Row /\ i \in 0..NRows
    BY <1>fields, <2>1 DEF Row
  <2>3. [job[s] EXCEPT !.row = i] \in Job
    BY <1>typed, <2>2, JobUpdates
  <2>4. Append(rows[t], r) \in Seq(Row)
    BY <2>1, <2>2
  <2>5. rows' \in [Tables -> Seq(Row)]
    BY <1>12, <2>1, <2>4 DEF InsertRow, i
  <2>6. job' \in [Splashes -> Job]
    BY <1>12, <2>3 DEF InsertRow, i
  <2> QED BY <1>12, <2>5, <2>6 DEF InsertRow
<1>13. CASE RowIsMalformed(s)
  BY <1>13, GivingUpIsTyped DEF RowIsMalformed
<1>14. CASE TableIsFilled(s)
  <2>1. CASE job[s].table < NTables
    <3>1. job[s].table + 1 \in Tables
      BY ONLY <1>fields, <2>1, ConstantsAssumption DEF Tables
    <3>2. [job[s] EXCEPT !.table = @ + 1, !.row = 0] \in Job
      BY <1>typed, <3>1, JobUpdates
    <3> QED BY <1>14, <2>1, <3>2 DEF TableIsFilled, Goto, durable
  <2>2. CASE ~(job[s].table < NTables)
    BY <1>14, <2>2 DEF TableIsFilled, Goto, durable
  <2> QED BY <2>1, <2>2
<1>15. CASE PutVersion(s)
  BY <1>fields, <1>15 DEF PutVersion, Apply, Goto, Job
<1>16. CASE PutCounter(s)
  BY <1>16 DEF PutCounter, Apply, Goto, Untold
<1>17. CASE RefreshDone(s)
  BY <1>17 DEF RefreshDone, openApp, Goto, durable
<1> QED
  BY <1>1, <1>2, <1>3, <1>4, <1>5, <1>6, <1>7, <1>8, <1>9, <1>10, <1>11,
     <1>12, <1>13, <1>14, <1>15, <1>16, <1>17 DEF Progress

(* TypeOK is inductive.                                                    *)
LEMMA TypeStep ==
  ASSUME TypeOK, [Next]_vars
  PROVE  TypeOK'
<1>1. CASE \E s \in Splashes : Progress(s)
  BY <1>1, ProgressIsTyped
<1>2. CASE \E s \in Splashes : Launch(s)
  BY <1>2 DEF TypeOK, Launch, Goto, durable
<1>3. CASE \E s \in Splashes : Leave(s)
  BY <1>3 DEF TypeOK, Leave, durable
<1>4. CASE \E s, u \in Splashes : Recreate(s, u)
  BY <1>4 DEF TypeOK, Recreate, durable
<1>5. CASE CloseApp
  BY <1>5 DEF TypeOK, CloseApp, durable
<1>6. CASE Crash
  BY <1>6, DyingIsTyped DEF Crash
<1>7. CASE Flush
  BY <1>7 DEF TypeOK, Flush
<1>8. CASE Publish
  BY <1>8, ConstantsAssumption DEF TypeOK, Publish, durable, Versions
<1>9. CASE UNCHANGED vars
  BY <1>9 DEF TypeOK, vars
<1> QED
  BY <1>1, <1>2, <1>3, <1>4, <1>5, <1>6, <1>7, <1>8, <1>9 DEF Next

(* Every state a splash, a crash or the server reaches is well typed.      *)
THEOREM TypeCorrect == Spec => []TypeOK
<1>1. ASSUME Init PROVE TypeOK
  <2>1. 0 \in 0..MaxVersion /\ 0 \in 0..Untold /\ <<>> \in Seq(Row)
    BY ConstantsAssumption DEF Untold
  <2>2. /\ prefs \in [version: 0..MaxVersion, counter: 0..3]
        /\ disk \in [version: 0..MaxVersion, counter: 0..3]
    BY <1>1, <2>1 DEF Init
  <2>3. rows \in [Tables -> Seq(Row)]
    BY <1>1, <2>1 DEF Init
  <2>4. job \in [Splashes -> Job]
    BY <1>1, NoJobIsJob DEF Init
  <2> QED BY <1>1, <2>1, <2>2, <2>3, <2>4 DEF Init, TypeOK
<1>2. TypeOK /\ [Next]_vars => TypeOK'
  BY TypeStep
<1> QED BY <1>1, <1>2, PTL DEF Spec

----------------------------------------------------------------------------
(* Inductive invariants *)

Refreshing == {"clear", "create", "insert"}
Recording == {"putVersion", "putCounter", "open"}

(* A preferences file that may let a launch in.                            *)
LetsIn(p) == p.version > 0 \/ p.counter > 0

(* How far the refreshes are tells which tables exist.                     *)
TablesInv ==
  /\ \A s \in Splashes :
       /\ pc[s] \in {"gotVersion", "askData"} \cup Refreshing \cup Recording
            => job[s].target > 0
       /\ pc[s] \in Refreshing => 1..(job[s].table - 1) \subseteq exists
       /\ pc[s] = "insert" => job[s].table \in exists
       /\ pc[s] \in Recording => exists = Tables
  /\ app \/ LetsIn(prefs) \/ LetsIn(disk) => exists = Tables

(* The counter counts the launches let in.                                 *)
UncheckedInv ==
  /\ disk = prefs
  /\ unchecked <= IF prefs.counter = 0 THEN 3 ELSE prefs.counter - 1

----------------------------------------------------------------------------
(* The tables *)

LEMMA UpTo ==
  ASSUME NEW n \in Nat \ {0}, NEW S, 1..(n - 1) \subseteq S, n \in S
  PROVE  1..n \subseteq S
OBVIOUS

(* The refresh in hand when a fill... method hands over to the next one.   *)
LEMMA NextTable ==
  ASSUME NEW s \in Splashes, job \in [Splashes -> Job],
         TableIsFilled(s), job[s].table < NTables
  PROVE  /\ job'[s].table = job[s].table + 1
         /\ job'[s].row = 0
         /\ job'[s].target = job[s].target
         /\ job'[s].payload = job[s].payload
         /\ \A u \in Splashes \ {s} : job'[u] = job[u]
BY DEF TableIsFilled, Job

LEMMA TablesStep ==
  ASSUME TypeOK, TypeOK', TablesInv, [Next]_vars
  PROVE  TablesInv'
<1> USE ConstantsAssumption
    DEF TypeOK, TablesInv, LetsIn, Refreshing, Recording
<1>a. ASSUME ProcessDies PROVE TablesInv'
  BY <1>a DEF ProcessDies, NoJob, durable
<1>b. ASSUME NEW s \in Splashes, Progress(s) PROVE TablesInv'
  <2> USE <1>b
  <2>0. /\ job[s].target \in 0..MaxVersion
        /\ job[s].table \in 1..NTables /\ job[s].row \in 0..NRows
    BY JobFields
  <2>1. CASE TimerSkipsCheck(s)
    BY <2>1 DEF TimerSkipsCheck, Apply, openApp, Goto
  <2>2. CASE TimerChecks(s)
    BY <2>2 DEF TimerChecks, Goto, durable
  <2>3. CASE ServerTellsVersion(s)
    BY <2>3 DEF ServerTellsVersion, Goto, durable, Versions
  <2>4. CASE VersionIsCurrent(s)
    BY <2>0, <2>4 DEF VersionIsCurrent, openApp, Goto, durable
  <2>5. CASE VersionIsNewer(s)
    BY <2>5 DEF VersionIsNewer, Goto, durable
  <2>6. CASE ServerSendsData(s)
    BY <2>6 DEF ServerSendsData, Goto, durable
  <2>7. CASE RequestFails(s)
    BY <2>7 DEF RequestFails, GiveUp, Goto, durable
  <2>8. CASE ToastOffMainThread(s)
    BY <2>8, <1>a DEF ToastOffMainThread
  <2>9. CASE DeleteRows(s)
    BY <2>9 DEF DeleteRows, Goto
  <2>10. CASE CreateTable(s)
    BY <2>0, <2>10 DEF CreateTable, Goto, Tables
  <2>11. CASE CreateTableTwice(s)
    BY <2>11, <1>a DEF CreateTableTwice
  <2>12. CASE InsertRow(s)
    BY <2>12 DEF InsertRow
  <2>13. CASE RowIsMalformed(s)
    BY <2>13 DEF RowIsMalformed, GiveUp, Goto, durable
  <2>14. CASE TableIsFilled(s)
    <3>1. 1..job[s].table \subseteq exists
      <4>1. 1..(job[s].table - 1) \subseteq exists /\ job[s].table \in exists
        BY <2>14 DEF TableIsFilled
      <4> QED BY <4>1, <2>0, UpTo
    <3>2. CASE job[s].table < NTables
      <4>1. /\ job'[s].table = job[s].table + 1
            /\ job'[s].target = job[s].target
            /\ \A u \in Splashes \ {s} : job'[u] = job[u]
        BY <2>14, <3>2, NextTable
      <4>2. 1..(job'[s].table - 1) \subseteq exists
        BY <2>0, <3>1, <4>1
      <4> QED BY <2>14, <3>2, <4>1, <4>2 DEF TableIsFilled, Goto, durable
    <3>3. CASE ~(job[s].table < NTables)
      <4>1. job[s].table = NTables
        BY <2>0, <3>3
      <4>2. exists = Tables
        BY <3>1, <4>1 DEF Tables
      <4> QED BY <2>14, <3>3, <4>2 DEF TableIsFilled, Goto, durable
    <3> QED BY <3>2, <3>3
  <2>15. CASE PutVersion(s)
    BY <2>15 DEF PutVersion, Apply, Goto
  <2>16. CASE PutCounter(s)
    BY <2>16 DEF PutCounter, Apply, Goto
  <2>17. CASE RefreshDone(s)
    BY <2>17 DEF RefreshDone, openApp, Goto, durable
  <2> QED
    BY <2>1, <2>2, <2>3, <2>4, <2>5, <2>6, <2>7, <2>8, <2>9, <2>10, <2>11,
       <2>12, <2>13, <2>14, <2>15, <2>16, <2>17 DEF Progress
<1>c. CASE \E s \in Splashes : Launch(s)
  BY <1>c DEF Launch, Goto, durable
<1>d. CASE \E s \in Splashes : Leave(s)
  BY <1>d DEF Leave, durable
<1>e. CASE \E s, u \in Splashes : Recreate(s, u)
  BY <1>e DEF Recreate, durable
<1>f. CASE CloseApp
  BY <1>f DEF CloseApp, durable
<1>g. CASE Flush
  BY <1>g DEF Flush
<1>h. CASE Publish
  BY <1>h DEF Publish, durable
<1>i. CASE UNCHANGED vars
  BY <1>i DEF vars, durable
<1> QED
  BY <1>a, <1>b, <1>c, <1>d, <1>e, <1>f, <1>g, <1>h, <1>i DEF Next, Crash

(* No missing table is ever queried, whatever happens to the process, the  *)
(* network, the disk and the splashes.                                     *)
THEOREM TablesExist == Spec => []TablesExistWhenOpen
<1>1. Init => TablesInv
  BY DEF Init, TablesInv, LetsIn, Refreshing, Recording
<1>2. TypeOK /\ TypeOK' /\ TablesInv /\ [Next]_vars => TablesInv'
  BY TablesStep
<1>3. TablesInv => TablesExistWhenOpen
  BY DEF TablesInv, LetsIn, TablesExistWhenOpen
<1> QED BY <1>1, <1>2, <1>3, TypeCorrect, PTL DEF Spec

----------------------------------------------------------------------------
(* The launch counter *)

LEMMA UncheckedStep ==
  ASSUME TypeOK, UncheckedInv, [Next]_vars, "lateFlush" \notin Faults
  PROVE  UncheckedInv'
<1> USE DEF TypeOK, UncheckedInv
<1>a. ASSUME ProcessDies PROVE UncheckedInv'
  BY <1>a DEF ProcessDies, durable
<1>b. ASSUME NEW s \in Splashes, Progress(s) PROVE UncheckedInv'
  <2> USE <1>b
  <2>1. CASE TimerSkipsCheck(s)
    BY <2>1 DEF TimerSkipsCheck, Apply, Untold
  <2>2. CASE TimerChecks(s) \/ VersionIsNewer(s) \/ TableIsFilled(s)
    BY <2>2 DEF TimerChecks, VersionIsNewer, TableIsFilled, durable
  <2>3. CASE ServerTellsVersion(s) \/ ServerSendsData(s)
    BY <2>3 DEF ServerTellsVersion, ServerSendsData, durable
  <2>4. CASE VersionIsCurrent(s) \/ RefreshDone(s)
    BY <2>4 DEF VersionIsCurrent, RefreshDone, durable
  <2>5. CASE RequestFails(s) \/ RowIsMalformed(s)
    BY <2>5 DEF RequestFails, RowIsMalformed, GiveUp, durable
  <2>6. CASE ToastOffMainThread(s) \/ CreateTableTwice(s)
    BY <2>6, <1>a DEF ToastOffMainThread, CreateTableTwice
  <2>7. CASE DeleteRows(s) \/ CreateTable(s) \/ InsertRow(s)
    BY <2>7 DEF DeleteRows, CreateTable, InsertRow
  <2>8. CASE PutVersion(s) \/ PutCounter(s)
    BY <2>8 DEF PutVersion, PutCounter, Apply
  <2> QED
    BY <2>1, <2>2, <2>3, <2>4, <2>5, <2>6, <2>7, <2>8 DEF Progress
<1>c. CASE \/ \E s \in Splashes : \/ Launch(s) \/ Leave(s)
                                 \/ \E u \in Splashes : Recreate(s, u)
           \/ CloseApp \/ Flush \/ Publish
  BY <1>c DEF Launch, Leave, Recreate, CloseApp, Flush, Publish, durable
<1>d. CASE UNCHANGED vars
  BY <1>d DEF vars
<1> QED BY <1>a, <1>b, <1>c, <1>d DEF Next, Crash

(* Where apply() is not lost, no more than three launches in a row are let *)
(* in unchecked, however many splashes run at once.                        *)
THEOREM UncheckedIsBounded ==
  ASSUME "lateFlush" \notin Faults
  PROVE  Spec => []UncheckedBounded
<1>1. Init => UncheckedInv
  BY DEF Init, UncheckedInv
<1>2. TypeOK /\ UncheckedInv /\ [Next]_vars => UncheckedInv'
  BY UncheckedStep
<1>3. TypeOK /\ UncheckedInv => UncheckedBounded
  BY DEF TypeOK, UncheckedInv, UncheckedBounded
<1> QED BY <1>1, <1>2, <1>3, TypeCorrect, PTL DEF Spec

----------------------------------------------------------------------------
(***************************************************************************)
(* What the local copy of the catalogue is worth when splashes do not      *)
(* overlap, no insert is lost and apply() reaches the disk: CatalogSync    *)
(* then implements CatalogCache.  The process may die at any step, and any *)
(* request or row may fail.                                                *)
(***************************************************************************)

Calm == Faults \cap {"overlap", "lostInsert", "lateFlush"} = {}

(* The versions the tables are a copy of: one at the most.                 *)
Copies == {v \in Versions : Whole(v)}
Backed == \E v \in Copies : v >= prefs.version
Filled(n, v) == [i \in 1..n |-> <<v, i>>]

(* How far refresh s is, and what the tables hold by then.                 *)
RefreshInv(s) ==
  LET j == job[s] IN
  /\ pc[s] \in {"askVersion", "gotVersion", "askData", "putVersion",
                "putCounter"} \cup Refreshing
       => prefs.counter = 0
  /\ pc[s] \in {"gotVersion", "askData"} \cup Refreshing \cup Recording
       => j.target \in 1..server
  /\ pc[s] = "gotVersion" => Backed \/ j.target > prefs.version
  /\ pc[s] \in {"askData", "putVersion"} \cup Refreshing
       => prefs.version < j.target
  /\ pc[s] \in Refreshing \cup Recording
       => j.payload \in j.target..server /\ shown <= j.payload
  /\ pc[s] \in Refreshing
       => \A t \in 1..(j.table - 1) :
            t \in exists /\ rows[t] = Catalogue(j.payload)
  /\ pc[s] \in {"clear", "create"} => j.row = 0
  /\ pc[s] = "create" => rows[j.table] = <<>>
  /\ pc[s] = "insert"
       => j.table \in exists /\ rows[j.table] = Filled(j.row, j.payload)
  /\ pc[s] \in Recording => j.payload \in Copies
  /\ pc[s] \in {"putCounter", "open"} => prefs.version = j.target

(* One refresh at a time, and none behind an open application.             *)
OneAtATime ==
  /\ \A s, u \in Splashes : pc[s] # "idle" /\ pc[u] # "idle" => s = u
  /\ app => \A s \in Splashes : pc[s] = "idle"

(* What the tables are worth against the preferences.                      *)
CopyOK ==
  /\ disk = prefs
  /\ shown <= server
  /\ Copies \subseteq shown..server
  /\ prefs.counter > 0 \/ app => Backed
  /\ Backed \/ server > prefs.version

CopyInv ==
  /\ OneAtATime
  /\ CopyOK
  /\ \A s \in Splashes : RefreshInv(s)

----------------------------------------------------------------------------
(* Copies *)

LEMMA SameCopies ==
  ASSUME UNCHANGED <<exists, rows>>
  PROVE  Copies' = Copies
BY DEF Copies, Whole

LEMMA OneCopy ==
  ASSUME NEW v \in Copies, NEW w \in Copies
  PROVE  v = w
<1>1. 1 \in Tables /\ 1 \in 1..NRows
  BY ConstantsAssumption DEF Tables
<1>2. Catalogue(v) = Catalogue(w)
  BY <1>1 DEF Copies, Whole
<1>3. Catalogue(v)[1] = <<v, 1>> /\ Catalogue(w)[1] = <<w, 1>>
  BY <1>1 DEF Catalogue
<1> QED BY <1>2, <1>3

LEMMA ContentOfCopy ==
  ASSUME NEW v \in Copies
  PROVE  Content = v
<1>1. \E w \in Versions : Whole(w)
  BY DEF Copies
<1>2. Content \in Copies
  BY <1>1 DEF Content, Copies
<1> QED BY <1>2, OneCopy

LEMMA ContentOfNone ==
  ASSUME Copies = {}
  PROVE  Content = 0
BY DEF Copies, Content

(* A table that is not full is no part of a copy.                          *)
LEMMA PartIsNoCopy ==
  ASSUME NEW t \in Tables, NEW n \in 0..(NRows - 1), NEW v,
         rows[t] = Filled(n, v)
  PROVE  Copies = {}
<1>1. ASSUME NEW w \in Copies PROVE FALSE
  <2>1. Filled(n, v) = Catalogue(w)
    BY <1>1 DEF Copies, Whole
  <2>2. DOMAIN Filled(n, v) = 1..n /\ DOMAIN Catalogue(w) = 1..NRows
    BY DEF Filled, Catalogue
  <2>3. NRows \in 1..NRows /\ NRows \notin 1..n
    BY ConstantsAssumption
  <2> QED BY <2>1, <2>2, <2>3
<1> QED BY <1>1

(* The same facts of the next state.                                       *)
CopyFacts ==
  /\ \A v \in Copies : Content = v
  /\ Copies = {} => Content = 0
  /\ \A t \in Tables, n \in 0..(NRows - 1), v \in 0..MaxVersion :
       rows[t] = Filled(n, v) => Copies = {}

LEMMA CopyFactsHold == CopyFacts
BY ContentOfCopy, ContentOfNone, PartIsNoCopy DEF CopyFacts

LEMMA CopyFactsNext == CopyFacts'
BY CopyFactsHold, PTL

LEMMA EmptyIsPart == \A v : <<>> = Filled(0, v)
BY DEF Filled

LEMMA AppendToPart ==
  ASSUME NEW n \in Nat, NEW v
  PROVE  Append(Filled(n, v), <<v, n + 1>>) = Filled(n + 1, v)
BY DEF Filled

----------------------------------------------------------------------------
(* One refresh at a time *)

LEMMA AloneStep ==
  ASSUME TypeOK, OneAtATime, NEW s \in Splashes, pc[s] # "idle", NEW l,
         pc' = [pc EXCEPT ![s] = l], app' => l = "idle"
  PROVE  /\ OneAtATime'
         /\ ~app
         /\ \A u \in Splashes \ {s} : pc'[u] = "idle"
         /\ pc'[s] = l
BY DEF TypeOK, OneAtATime

LEMMA IdleNext ==
  ASSUME NEW s \in Splashes, pc'[s] \in {"idle", "timer", "stuck"}
  PROVE  RefreshInv(s)'
BY DEF RefreshInv, Refreshing, Recording

----------------------------------------------------------------------------
(* The steps of a splash, one lemma per phase: what they do to the copy    *)
(* and to their own refresh.                                               *)

LEMMA DyingCopy ==
  ASSUME TypeOK, CopyInv, ProcessDies
  PROVE  CopyInv'
<1>1. Copies' = Copies /\ disk' = prefs' /\ prefs' = prefs
  BY SameCopies DEF ProcessDies, durable, CopyInv, CopyOK
<1>2. CopyOK'
  BY <1>1 DEF ProcessDies, CopyInv, CopyOK, Backed
<1>3. OneAtATime'
  BY DEF ProcessDies, OneAtATime
<1>4. ASSUME NEW s \in Splashes PROVE RefreshInv(s)'
  BY IdleNext DEF ProcessDies
<1> QED BY <1>2, <1>3, <1>4 DEF CopyInv

(* A splash that lets its user in.                                         *)
LEMMA OpenCopy ==
  ASSUME TypeOK, CopyInv, NEW s \in Splashes, openApp(s), Backed,
         UNCHANGED <<exists, rows, server>>,
         prefs'.version = prefs.version, disk' = prefs'
  PROVE  CopyOK' /\ RefreshInv(s)' /\ Content > 0 /\ Content >= shown
<1>1. PICK v \in Copies : v >= prefs.version
  BY DEF Backed
<1>2. Copies' = Copies /\ Content = v /\ Copies = {v}
  BY SameCopies, ContentOfCopy, OneCopy
<1>3. v \in Versions /\ v \in shown..server
  BY <1>1 DEF CopyInv, CopyOK, Copies
<1>4. shown' = v
  BY <1>2 DEF openApp
<1>5. Backed'
  BY <1>1, <1>2 DEF Backed
<1>6. CopyOK'
  BY <1>2, <1>3, <1>4, <1>5 DEF CopyOK, TypeOK, Versions
<1>7. RefreshInv(s)'
  BY IdleNext DEF openApp, Goto, TypeOK
<1> QED BY <1>2, <1>3, <1>6, <1>7, ConstantsAssumption DEF Versions, TypeOK

(* A splash that stops where it is.                                        *)
LEMMA GiveUpCopy ==
  ASSUME TypeOK, CopyInv, NEW s \in Splashes, GiveUp(s)
  PROVE  CopyOK' /\ RefreshInv(s)'
<1>1. Copies' = Copies
  BY SameCopies DEF GiveUp, durable
<1>2. CopyOK'
  BY <1>1 DEF GiveUp, durable, CopyInv, CopyOK, Backed
<1>3. pc'[s] \in {"idle", "stuck"}
  BY DEF GiveUp, Goto, TypeOK
<1> QED BY <1>2, <1>3, IdleNext

(* The timer, the version check and the two replies.                       *)
LEMMA AskingCopy ==
  ASSUME TypeOK, CopyInv, NEW s \in Splashes,
         \/ TimerChecks(s) \/ ServerTellsVersion(s)
         \/ VersionIsNewer(s) \/ ServerSendsData(s)
  PROVE  CopyOK' /\ RefreshInv(s)'
<1>1. Copies' = Copies
  BY SameCopies
  DEF TimerChecks, ServerTellsVersion, VersionIsNewer, ServerSendsData, durable
<1>2. UNCHANGED <<prefs, disk, exists, rows, app, server, shown>>
  BY DEF TimerChecks, ServerTellsVersion, VersionIsNewer, ServerSendsData,
         durable
<1>3. CopyOK'
  BY <1>1, <1>2 DEF CopyInv, CopyOK, Backed
<1>4. Backed' = Backed
  BY <1>1, <1>2 DEF Backed
<1>5. RefreshInv(s) /\ shown <= server /\ (Backed \/ server > prefs.version)
  BY DEF CopyInv, CopyOK
<1>6. CASE TimerChecks(s)
  <2>1. pc'[s] = "askVersion" /\ prefs.counter = 0
    BY <1>6 DEF TimerChecks, Goto, TypeOK
  <2> QED BY <1>2, <1>3, <2>1 DEF RefreshInv, Refreshing, Recording
<1>7. CASE ServerTellsVersion(s)
  <2>1. /\ pc[s] = "askVersion" /\ pc'[s] = "gotVersion"
        /\ job'[s].target = server
    BY <1>7 DEF ServerTellsVersion, Goto, Job, TypeOK
  <2>2. server \in 1..server
    BY DEF TypeOK, Versions
  <2>3. prefs.counter = 0
    BY <1>5, <2>1 DEF RefreshInv
  <2> QED
    BY <1>2, <1>3, <1>4, <1>5, <2>1, <2>2, <2>3 DEF RefreshInv, Refreshing, Recording
<1>8. CASE VersionIsNewer(s)
  <2>1. /\ pc[s] = "gotVersion" /\ pc'[s] = "askData"
        /\ job' = job /\ job[s].target > prefs.version
    BY <1>8 DEF VersionIsNewer, Goto, TypeOK
  <2>2. /\ prefs.version < job[s].target /\ job[s].target \in 1..server
        /\ prefs.counter = 0
    BY <1>5, <2>1, JobFields DEF RefreshInv, Refreshing, Recording, TypeOK
  <2> QED BY <1>2, <1>3, <2>1, <2>2 DEF RefreshInv, Refreshing, Recording
<1>9. CASE ServerSendsData(s)
  <2>1. /\ pc[s] = "askData" /\ pc'[s] = "clear"
        /\ job'[s].target = job[s].target /\ job'[s].payload = server
        /\ job'[s].table = 1 /\ job'[s].row = 0
    BY <1>9 DEF ServerSendsData, Goto, Job, TypeOK
  <2>2. /\ prefs.version < job[s].target /\ job[s].target \in 1..server
        /\ prefs.counter = 0
    BY <1>5, <2>1 DEF RefreshInv, Refreshing, Recording
  <2>3. server \in job[s].target..server /\ 1..(1 - 1) = {}
    BY <2>2 DEF TypeOK, Versions
  <2> QED
    BY <1>2, <1>3, <1>5, <2>1, <2>2, <2>3 DEF RefreshInv, Refreshing, Recording
<1> QED BY <1>3, <1>6, <1>7, <1>8, <1>9

(* The tables: emptied, created, filled row by row.                        *)
LEMMA FillingCopy ==
  ASSUME TypeOK, TypeOK', CopyInv, Calm, NEW s \in Splashes,
         \/ DeleteRows(s) \/ CreateTable(s) \/ InsertRow(s)
  PROVE  /\ CopyOK' /\ RefreshInv(s)' /\ Copies' \subseteq {job[s].payload}
         /\ Copies = {} \/ Copies' = {}
<1> DEFINE t == job[s].table
           p == job[s].payload
<1>1. /\ UNCHANGED <<prefs, disk, app, server, shown>>
      /\ pc[s] \in Refreshing
  BY DEF DeleteRows, CreateTable, InsertRow, Refreshing
<1>2. /\ job[s].target \in 0..MaxVersion /\ p \in 0..MaxVersion
      /\ t \in 1..NTables /\ job[s].row \in 0..NRows
  BY JobFields DEF TypeOK
<1>3. /\ prefs.counter = 0 /\ prefs.version < job[s].target
      /\ job[s].target \in 1..server
      /\ p \in job[s].target..server /\ shown <= p
      /\ \A k \in 1..(t - 1) : k \in exists /\ rows[k] = Catalogue(p)
      /\ pc[s] \in {"clear", "create"} => job[s].row = 0
      /\ pc[s] = "create" => rows[t] = <<>>
      /\ pc[s] = "insert" => t \in exists /\ rows[t] = Filled(job[s].row, p)
  BY <1>1 DEF CopyInv, RefreshInv, Refreshing
<1>4. disk = prefs /\ shown <= server /\ ~app
  BY <1>1 DEF CopyInv, CopyOK, OneAtATime, Refreshing
<1>5. /\ prefs.version \in Nat /\ server \in Nat /\ shown \in Nat
  BY ConstantsAssumption DEF TypeOK, Versions
<1>6. server > prefs.version
  BY <1>2, <1>3, <1>5
<1>7. ASSUME Copies' \subseteq {p} PROVE CopyOK'
  <2>1. p \in shown..server
    BY <1>2, <1>3, <1>5
  <2> QED BY <1>1, <1>3, <1>4, <1>6, <1>7, <2>1 DEF CopyOK
<1>8. CASE DeleteRows(s)
  <2>1. /\ rows' = [rows EXCEPT ![t] = <<>>]
        /\ UNCHANGED <<exists, job>>
        /\ pc[s] = "clear"
        /\ pc'[s] = IF t \in exists THEN "insert" ELSE "create"
    BY <1>8 DEF DeleteRows, Goto, TypeOK
  <2>2. rows'[t] = <<>> /\ \A k \in 1..(t - 1) : rows'[k] = rows[k]
    BY <1>2, <2>1 DEF TypeOK, Tables
  <2>3. rows'[t] = Filled(0, p)
    BY <2>2, EmptyIsPart
  <2>4. Copies' = {}
    BY <1>2, <2>3, CopyFactsNext, ConstantsAssumption DEF CopyFacts, Tables
  <2>5. RefreshInv(s)'
    BY <1>1, <1>3, <2>1, <2>2, <2>3 DEF RefreshInv, Refreshing, Recording
  <2> QED BY <1>7, <1>8, <2>1, <2>4, <2>5
<1>9. CASE CreateTable(s)
  <2>1. /\ rows' = rows /\ job' = job /\ exists' = exists \cup {t}
        /\ pc[s] = "create" /\ pc'[s] \in {"clear", "insert"}
    BY <1>9 DEF CreateTable, Goto, TypeOK
  <2>2. rows'[t] = <<>> /\ rows'[t] = Filled(0, p)
    BY <1>3, <2>1, EmptyIsPart
  <2>3. Copies' = {}
    BY <1>2, <2>2, CopyFactsNext, ConstantsAssumption DEF CopyFacts, Tables
  <2>4. RefreshInv(s)'
    BY <1>1, <1>3, <2>1, <2>2 DEF RefreshInv, Refreshing, Recording
  <2> QED BY <1>7, <1>9, <2>1, <2>3, <2>4
<1>10. CASE InsertRow(s)
  <2> DEFINE n == job[s].row
  <2>1. /\ pc[s] = "insert" /\ pc'[s] = "insert" /\ n < NRows
        /\ rows' = [rows EXCEPT ![t] = Append(@, <<p, n + 1>>)]
        /\ exists' = exists
    BY <1>10 DEF InsertRow, Calm
  <2>2. /\ job'[s].row = n + 1 /\ job'[s].table = t
        /\ job'[s].payload = p /\ job'[s].target = job[s].target
    BY <1>10 DEF InsertRow, Job, TypeOK
  <2>3. rows'[t] = Append(rows[t], <<p, n + 1>>)
    BY <1>2, <2>1 DEF TypeOK, Tables
  <2>4. rows'[t] = Filled(n + 1, p)
    <3>1. n \in Nat /\ rows[t] = Filled(n, p)
      BY <1>2, <1>3, <2>1
    <3> HIDE DEF n, t, p
    <3> QED BY <2>3, <3>1, AppendToPart
  <2>5. \A k \in 1..(t - 1) : rows'[k] = rows[k]
    BY <1>2, <2>1 DEF TypeOK, Tables
  <2>6. n \in 0..(NRows - 1) /\ t \in Tables
    BY <1>2, <2>1, ConstantsAssumption DEF Tables
  <2>7. Copies = {}
    BY <1>2, <1>3, <2>1, <2>6, CopyFactsHold DEF CopyFacts
  <2>8. ASSUME NEW w \in Copies' PROVE w = p
    <3>1. Filled(n + 1, p) = Catalogue(w)
      BY <2>4, <2>6 DEF Copies, Whole, Catalogue
    <3>2. Filled(n + 1, p)[1] = <<p, 1>> /\ Catalogue(w)[1] = <<w, 1>>
      BY <2>6, ConstantsAssumption DEF Filled, Catalogue
    <3> QED BY <3>1, <3>2
  <2>9. RefreshInv(s)'
    BY <1>1, <1>3, <2>1, <2>2, <2>4, <2>5
    DEF RefreshInv, Refreshing, Recording
  <2> QED BY <1>7, <2>7, <2>8, <2>9
<1> QED BY <1>8, <1>9, <1>10

(* The end of a fill... method, and of the refresh.                        *)
LEMMA RecordingCopy ==
  ASSUME TypeOK, TypeOK', CopyInv, Calm, NEW s \in Splashes,
         TableIsFilled(s) \/ PutVersion(s) \/ PutCounter(s)
  PROVE  CopyOK' /\ RefreshInv(s)' /\ Copies' = Copies
<1> DEFINE t == job[s].table
           p == job[s].payload
<1>1. /\ UNCHANGED <<exists, rows, app, server, shown>>
      /\ Copies' = Copies
  BY SameCopies DEF TableIsFilled, PutVersion, PutCounter, durable
<1>2. /\ job[s].target \in 0..MaxVersion /\ p \in 0..MaxVersion
      /\ t \in 1..NTables /\ job[s].row \in 0..NRows
  BY JobFields DEF TypeOK
<1>3. RefreshInv(s) /\ CopyOK
  BY DEF CopyInv
<1>4. CASE TableIsFilled(s)
  <2>1. /\ UNCHANGED <<prefs, disk>>
        /\ pc[s] = "insert" /\ job[s].row = NRows
    BY <1>4 DEF TableIsFilled, durable
  <2>2. /\ prefs.counter = 0 /\ prefs.version < job[s].target
        /\ job[s].target \in 1..server
        /\ p \in job[s].target..server /\ shown <= p
        /\ \A k \in 1..(t - 1) : k \in exists /\ rows[k] = Catalogue(p)
        /\ t \in exists /\ rows[t] = Filled(NRows, p)
    BY <1>3, <2>1 DEF RefreshInv, Refreshing, Recording
  <2>3. \A k \in 1..t : k \in exists /\ rows[k] = Catalogue(p)
    BY <1>2, <2>2 DEF Filled, Catalogue
  <2>4. CopyOK'
    BY <1>1, <1>3, <2>1 DEF CopyOK, Backed
  <2>5. CASE t < NTables
    <3>1. /\ job'[s].table = t + 1 /\ job'[s].row = 0
          /\ job'[s].target = job[s].target /\ job'[s].payload = p
      BY <1>4, <2>5, NextTable DEF TypeOK
    <3>2. pc'[s] = "clear"
      BY <1>4, <2>5 DEF TableIsFilled, Goto, TypeOK
    <3>3. 1..(job'[s].table - 1) = 1..t
      BY <1>2, <3>1
    <3>4. RefreshInv(s)'
      BY <1>1, <2>1, <2>2, <2>3, <3>1, <3>2, <3>3
      DEF RefreshInv, Refreshing, Recording
    <3> QED BY <1>1, <2>4, <3>4
  <2>6. CASE ~(t < NTables)
    <3>1. pc'[s] = "putVersion" /\ job' = job
      BY <1>4, <2>6 DEF TableIsFilled, Goto, TypeOK
    <3>2. p \in Copies
      <4>1. t = NTables /\ p \in 1..MaxVersion
        BY <1>2, <2>2, <2>6, ConstantsAssumption
      <4> HIDE DEF p
      <4> QED BY <2>3, <4>1 DEF Copies, Whole, Tables, Versions
    <3>3. RefreshInv(s)'
      BY <1>1, <2>1, <2>2, <3>1, <3>2 DEF RefreshInv, Refreshing, Recording
    <3> QED BY <1>1, <2>4, <3>3
  <2> QED BY <2>5, <2>6
<1>5. CASE PutVersion(s)
  <2>1. /\ pc[s] = "putVersion" /\ pc'[s] = "putCounter" /\ job' = job
        /\ prefs'.version = job[s].target /\ prefs'.counter = prefs.counter
        /\ disk' = prefs'
    BY <1>5 DEF PutVersion, Goto, Apply, Calm, TypeOK
  <2>2. /\ p \in Copies /\ prefs.counter = 0
        /\ job[s].target \in 1..server
        /\ p \in job[s].target..server /\ shown <= p
    BY <1>3, <2>1 DEF RefreshInv, Refreshing, Recording
  <2>3. Backed'
    BY <1>1, <2>1, <2>2 DEF Backed
  <2>4. CopyOK'
    BY <1>1, <1>3, <2>1, <2>3 DEF CopyOK
  <2>5. RefreshInv(s)'
    BY <1>1, <2>1, <2>2 DEF RefreshInv, Refreshing, Recording
  <2> QED BY <1>1, <2>4, <2>5
<1>6. CASE PutCounter(s)
  <2>1. /\ pc[s] = "putCounter" /\ pc'[s] = "open" /\ job' = job
        /\ prefs'.version = prefs.version /\ disk' = prefs'
    BY <1>6 DEF PutCounter, Goto, Apply, Calm, TypeOK
  <2>2. /\ p \in Copies /\ prefs.version = job[s].target
        /\ job[s].target \in 1..server
        /\ p \in job[s].target..server /\ shown <= p
    BY <1>3, <2>1 DEF RefreshInv, Refreshing, Recording
  <2>3. Backed'
    BY <1>1, <1>2, <2>1, <2>2 DEF Backed
  <2>4. CopyOK'
    BY <1>1, <1>3, <2>1, <2>3 DEF CopyOK
  <2>5. RefreshInv(s)'
    BY <1>1, <2>1, <2>2 DEF RefreshInv, Refreshing, Recording
  <2> QED BY <1>1, <2>4, <2>5
<1> QED BY <1>4, <1>5, <1>6

(* The three ways to let a user in.                                        *)
LEMMA OpeningCopy ==
  ASSUME TypeOK, CopyInv, Calm, NEW s \in Splashes,
         TimerSkipsCheck(s) \/ VersionIsCurrent(s) \/ RefreshDone(s)
  PROVE  /\ CopyOK' /\ RefreshInv(s)' /\ Copies' = Copies
         /\ openApp(s) /\ pc[s] # "idle"
         /\ Content > 0 /\ Content >= shown
<1>1. /\ openApp(s) /\ UNCHANGED <<exists, rows, server>> /\ Copies' = Copies
      /\ pc[s] # "idle"
  BY SameCopies DEF TimerSkipsCheck, VersionIsCurrent, RefreshDone, durable
<1>2. prefs'.version = prefs.version /\ disk' = prefs'
  BY DEF TimerSkipsCheck, VersionIsCurrent, RefreshDone, durable, Apply,
         Calm, CopyInv, CopyOK, TypeOK
<1>3. RefreshInv(s) /\ CopyOK
  BY DEF CopyInv
<1>4. CASE TimerSkipsCheck(s)
  <2>1. Backed
    BY <1>3, <1>4 DEF TimerSkipsCheck, CopyOK, TypeOK
  <2> QED BY <1>1, <1>2, <2>1, OpenCopy
<1>5. CASE VersionIsCurrent(s)
  <2>1. job[s].target <= prefs.version /\ pc[s] = "gotVersion"
    BY <1>5 DEF VersionIsCurrent
  <2>2. job[s].target \in Nat /\ prefs.version \in Nat
    BY ConstantsAssumption, JobFields DEF TypeOK
  <2>3. Backed
    BY <1>3, <2>1, <2>2 DEF RefreshInv
  <2> QED BY <1>1, <1>2, <2>3, OpenCopy
<1>6. CASE RefreshDone(s)
  <2>1. pc[s] = "open"
    BY <1>6 DEF RefreshDone
  <2>2. /\ job[s].payload \in Copies /\ prefs.version = job[s].target
        /\ job[s].target \in 1..server
        /\ job[s].payload \in job[s].target..server
    BY <1>3, <2>1 DEF RefreshInv, Refreshing, Recording
  <2>3. Backed
    BY <2>2 DEF Backed
  <2> QED BY <1>1, <1>2, <2>3, OpenCopy
<1> QED BY <1>4, <1>5, <1>6

(* One step of a splash: the others are idle before it and after it.       *)
LEMMA ProgressCopy ==
  ASSUME TypeOK, TypeOK', CopyInv, Calm, NEW s \in Splashes, Progress(s)
  PROVE  CopyInv'
<1>1. CASE ToastOffMainThread(s) \/ CreateTableTwice(s)
  BY <1>1, DyingCopy DEF ToastOffMainThread, CreateTableTwice
<1>2. CASE ~(ToastOffMainThread(s) \/ CreateTableTwice(s))
  <2>1. /\ CopyOK' /\ RefreshInv(s)'
        /\ pc[s] # "idle"
        /\ \E l : pc' = [pc EXCEPT ![s] = l] /\ (app' => app \/ l = "idle")
    <3>1. CASE TimerSkipsCheck(s) \/ VersionIsCurrent(s) \/ RefreshDone(s)
      BY <3>1, OpeningCopy DEF openApp, Goto
    <3>2. CASE \/ TimerChecks(s) \/ ServerTellsVersion(s)
               \/ VersionIsNewer(s) \/ ServerSendsData(s)
      <4>1. CopyOK' /\ RefreshInv(s)'
        BY <3>2, AskingCopy
      <4> QED
        BY <3>2, <4>1
        DEF TimerChecks, ServerTellsVersion, VersionIsNewer, ServerSendsData,
            Goto
    <3>3. CASE RequestFails(s) \/ RowIsMalformed(s)
      <4>1. CopyOK' /\ RefreshInv(s)'
        BY <3>3, GiveUpCopy DEF RequestFails, RowIsMalformed
      <4> QED BY <3>3, <4>1 DEF RequestFails, RowIsMalformed, GiveUp, Goto
    <3>4. CASE DeleteRows(s) \/ CreateTable(s) \/ InsertRow(s)
      <4>1. CopyOK' /\ RefreshInv(s)'
        BY <3>4, FillingCopy
      <4>2. CASE InsertRow(s)
        <5>1. pc' = [pc EXCEPT ![s] = "insert"]
          BY <4>2 DEF InsertRow, TypeOK
        <5> QED BY <4>1, <4>2, <5>1 DEF InsertRow
      <4>3. CASE DeleteRows(s) \/ CreateTable(s)
        BY <4>1, <4>3 DEF DeleteRows, CreateTable, Goto
      <4> QED BY <3>4, <4>2, <4>3
    <3>5. CASE TableIsFilled(s) \/ PutVersion(s) \/ PutCounter(s)
      <4>1. CopyOK' /\ RefreshInv(s)'
        BY <3>5, RecordingCopy
      <4>2. pc[s] # "idle" /\ app' = app
        BY <3>5 DEF TableIsFilled, PutVersion, PutCounter
      <4>3. \E l : pc' = [pc EXCEPT ![s] = l]
        BY <3>5 DEF TableIsFilled, PutVersion, PutCounter, Goto
      <4> QED BY <4>1, <4>2, <4>3
    <3> QED BY <1>2, <3>1, <3>2, <3>3, <3>4, <3>5 DEF Progress
  <2>2. PICK l : pc' = [pc EXCEPT ![s] = l] /\ (app' => app \/ l = "idle")
    BY <2>1
  <2>3. OneAtATime /\ ~app
    BY <2>1 DEF CopyInv, OneAtATime
  <2>4. OneAtATime' /\ \A u \in Splashes \ {s} : pc'[u] = "idle"
    BY <2>1, <2>2, <2>3, AloneStep
  <2>5. \A u \in Splashes : RefreshInv(u)'
    BY <2>1, <2>4, IdleNext
  <2> QED BY <2>1, <2>4, <2>5 DEF CopyInv
<1> QED BY <1>1, <1>2

----------------------------------------------------------------------------
(* The invariant, and what follows from it *)

LEMMA CopyStep ==
  ASSUME TypeOK, TypeOK', CopyInv, Calm, [Next]_vars
  PROVE  CopyInv'
<1>1. CASE \E s \in Splashes : Progress(s)
  BY <1>1, ProgressCopy
<1>2. CASE Crash
  BY <1>2, DyingCopy DEF Crash
<1>3. CASE Flush
  BY <1>3 DEF Flush, CopyInv, CopyOK
<1>4. ASSUME UNCHANGED <<prefs, disk, exists, rows, job, server, shown>>,
             OneAtATime',
             \A s \in Splashes : \/ pc'[s] = pc[s]
                                 \/ pc'[s] \in {"idle", "timer"},
             app' => app
      PROVE  CopyInv'
  <2>1. Copies' = Copies
    BY <1>4, SameCopies
  <2>2. CopyOK' /\ (Backed' = Backed)
    BY <1>4, <2>1 DEF CopyInv, CopyOK, Backed
  <2>3. ASSUME NEW s \in Splashes PROVE RefreshInv(s)'
    <3>1. CASE pc'[s] = pc[s]
      BY <1>4, <2>1, <2>2, <3>1 DEF CopyInv, RefreshInv
    <3>2. CASE pc'[s] \in {"idle", "timer"}
      BY <3>2, IdleNext
    <3> QED BY <1>4, <3>1, <3>2
  <2> QED BY <1>4, <2>2, <2>3 DEF CopyInv
<1>5. CASE \E s \in Splashes : Launch(s)
  <2>1. OneAtATime'
    BY <1>5 DEF Launch, Goto, Calm, OneAtATime, TypeOK
  <2> QED BY <1>4, <1>5, <2>1 DEF Launch, Goto, durable, TypeOK
<1>6. CASE \E s \in Splashes : Leave(s)
  <2>1. OneAtATime'
    BY <1>6 DEF Leave, CopyInv, OneAtATime, TypeOK
  <2> QED BY <1>4, <1>6, <2>1 DEF Leave, durable, TypeOK
<1>7. CASE \E s, u \in Splashes : Recreate(s, u)
  BY <1>7 DEF Recreate, Calm
<1>8. CASE CloseApp
  <2>1. OneAtATime'
    BY <1>8 DEF CloseApp, CopyInv, OneAtATime
  <2> QED BY <1>4, <1>8, <2>1 DEF CloseApp, durable
<1>9. CASE Publish
  <2>1. /\ UNCHANGED <<prefs, disk, exists, rows, pc, job, app, shown>>
        /\ server' = server + 1 /\ Copies' = Copies /\ server \in Nat
        /\ prefs.version \in Nat /\ shown \in Nat
    BY <1>9, SameCopies, ConstantsAssumption
    DEF Publish, durable, TypeOK, Versions
  <2>2. CopyOK' /\ (Backed' = Backed)
    BY <2>1 DEF CopyInv, CopyOK, Backed, Copies, Versions
  <2>3. ASSUME NEW s \in Splashes PROVE RefreshInv(s)'
    <3>1. job[s].target \in Nat /\ job[s].payload \in Nat
      BY JobFields, ConstantsAssumption DEF TypeOK
    <3> QED BY <2>1, <2>2, <3>1 DEF CopyInv, RefreshInv
  <2>4. OneAtATime'
    BY <2>1 DEF CopyInv, OneAtATime
  <2> QED BY <2>2, <2>3, <2>4 DEF CopyInv
<1>10. CASE UNCHANGED vars
  <2>1. OneAtATime'
    BY <1>10 DEF vars, CopyInv, OneAtATime
  <2> QED BY <1>4, <1>10, <2>1 DEF vars, durable
<1> QED
  BY <1>1, <1>2, <1>3, <1>5, <1>6, <1>7, <1>8, <1>9, <1>10 DEF Next

LEMMA NoCopyAtFirst == Init => Copies = {}
<1>1. 1 \in Tables
  BY ConstantsAssumption DEF Tables
<1> QED BY <1>1 DEF Init, Copies, Whole

LEMMA CopyInit == Init => CopyInv
<1> SUFFICES ASSUME Init PROVE CopyInv
  OBVIOUS
<1>1. Copies = {}
  BY NoCopyAtFirst
<1>2. CopyOK
  BY <1>1, ConstantsAssumption DEF Init, CopyOK, Versions
<1>3. OneAtATime
  BY DEF Init, OneAtATime
<1>4. ASSUME NEW s \in Splashes PROVE RefreshInv(s)
  BY DEF Init, RefreshInv, Refreshing, Recording
<1> QED BY <1>2, <1>3, <1>4 DEF CopyInv

THEOREM CopyInvariant ==
  ASSUME Calm
  PROVE  Spec => []CopyInv
<1>1. TypeOK /\ TypeOK' /\ CopyInv /\ [Next]_vars => CopyInv'
  BY CopyStep
<1> QED BY <1>1, CopyInit, TypeCorrect, PTL DEF Spec

(* The application is never open on a torn or missing copy.                *)
THEOREM WholeWhenOpen ==
  ASSUME Calm
  PROVE  Spec => []OpensOnlyWhole
<1>1. CopyInv => OpensOnlyWhole
  BY ContentOfCopy, ConstantsAssumption
  DEF CopyInv, CopyOK, Backed, Copies, Versions, OpensOnlyWhole
<1> QED BY <1>1, CopyInvariant, PTL

(* The recorded version never claims more than the tables hold, unless the *)
(* next launch finds out.                                                  *)
THEOREM VersionBacked ==
  ASSUME Calm
  PROVE  Spec => []VersionIsBacked
<1>1. TypeOK /\ CopyInv => VersionIsBacked
  BY ContentOfCopy
  DEF CopyInv, CopyOK, Backed, VersionIsBacked, TypeOK
<1> QED BY <1>1, CopyInvariant, TypeCorrect, PTL

----------------------------------------------------------------------------
(* Refinement *)

LEMMA SameContent ==
  ASSUME UNCHANGED <<exists, rows>>
  PROVE  Content' = Content
BY DEF Content, Whole

LEMMA CacheStep ==
  ASSUME TypeOK, TypeOK', CopyInv, CopyInv', Calm, [Next]_vars
  PROVE  [Cache!Next]_(Cache!vars)
<1> USE DEF Cache!Next, Cache!vars
<1>1. ASSUME ProcessDies PROVE [Cache!Next]_(Cache!vars)
  <2>1. Content' = Content /\ shown' = shown /\ app' = FALSE
    BY <1>1, SameContent DEF ProcessDies, durable
  <2>2. CASE app
    BY <2>1, <2>2 DEF Cache!Close
  <2>3. CASE ~app
    BY <2>1, <2>3 DEF TypeOK
  <2> QED BY <2>2, <2>3
<1>2. ASSUME NEW s \in Splashes, Progress(s)
      PROVE  [Cache!Next]_(Cache!vars)
  <2>1. pc[s] # "idle" => ~app
    BY DEF CopyInv, OneAtATime
  <2>2. CASE TimerSkipsCheck(s) \/ VersionIsCurrent(s) \/ RefreshDone(s)
    <3>1. Content' = Content
      BY <2>2, SameContent
      DEF TimerSkipsCheck, VersionIsCurrent, RefreshDone, durable
    <3>2. openApp(s) /\ ~app /\ Content > 0 /\ Content >= shown
      BY <2>1, <2>2, OpeningCopy
    <3> QED BY <3>1, <3>2 DEF Cache!Open, openApp
  <2>3. CASE DeleteRows(s) \/ CreateTable(s) \/ InsertRow(s)
    <3>1. ~app /\ app' = app /\ shown' = shown
      BY <2>1, <2>3 DEF DeleteRows, CreateTable, InsertRow
    <3>2. CASE Copies' = {}
      <4>1. Content' = 0
        BY <3>2, CopyFactsNext DEF CopyFacts
      <4> QED BY <3>1, <4>1 DEF Cache!Tear
    <3>3. CASE Copies' # {}
      <4>1. PICK v \in Copies' : TRUE
        BY <3>3
      <4>2. Content' = v /\ v \in shown..MaxVersion
        BY <3>1, <4>1, CopyFactsNext
        DEF CopyFacts, CopyInv, CopyOK, Copies, Versions, TypeOK
      <4>3. Copies = {}
        BY <2>3, <3>3, FillingCopy
      <4>4. Content = 0
        BY <4>3, CopyFactsHold DEF CopyFacts
      <4> QED BY <3>1, <4>2, <4>4 DEF Cache!Install
    <3> QED BY <3>2, <3>3
  <2>4. CASE ToastOffMainThread(s) \/ CreateTableTwice(s)
    BY <1>1, <2>4 DEF ToastOffMainThread, CreateTableTwice
  <2>5. CASE \/ TimerChecks(s) \/ ServerTellsVersion(s)
             \/ VersionIsNewer(s) \/ ServerSendsData(s) \/ RequestFails(s)
             \/ RowIsMalformed(s) \/ TableIsFilled(s)
             \/ PutVersion(s) \/ PutCounter(s)
    <3>1. UNCHANGED <<exists, rows, app, shown>>
      BY <2>5
      DEF TimerChecks, ServerTellsVersion, VersionIsNewer, ServerSendsData,
          RequestFails, RowIsMalformed, GiveUp, TableIsFilled, PutVersion,
          PutCounter, durable
    <3> QED BY <3>1, SameContent
  <2> QED BY <1>2, <2>2, <2>3, <2>4, <2>5 DEF Progress
<1>3. CASE CloseApp
  <2>1. Content' = Content
    BY <1>3, SameContent DEF CloseApp, durable
  <2> QED BY <1>3, <2>1 DEF CloseApp, Cache!Close
<1>4. CASE \/ \E s \in Splashes : \/ Launch(s) \/ Leave(s)
                                  \/ \E u \in Splashes : Recreate(s, u)
           \/ Flush \/ Publish \/ UNCHANGED vars
  <2>1. UNCHANGED <<exists, rows, app, shown>>
    BY <1>4 DEF Launch, Leave, Recreate, Flush, Publish, vars, durable
  <2> QED BY <2>1, SameContent
<1> QED BY <1>1, <1>2, <1>3, <1>4 DEF Next, Crash

(* The splash, the tables and the two preferences keep the promise that    *)
(* CatalogCache makes to the screens that read the catalogue.              *)
THEOREM Implements ==
  ASSUME Calm
  PROVE  Spec => ImplementsCatalogCache
<1>1. Init => Cache!Init
  BY NoCopyAtFirst, ContentOfNone DEF Init, Cache!Init
<1>2. TypeOK /\ TypeOK' /\ CopyInv /\ CopyInv' /\ [Next]_vars
        => [Cache!Next]_(Cache!vars)
  BY CacheStep
<1> QED
  BY <1>1, <1>2, TypeCorrect, CopyInvariant, PTL
  DEF Spec, ImplementsCatalogCache, Cache!Spec
=============================================================================
