--------------------------- MODULE CatalogSync ---------------------------
(***************************************************************************)
(* The start of the application: activity Splash, the five SQLite tables   *)
(* it keeps as a local copy of the server's catalogue (countries, cities,  *)
(* areas, main services, sub-services) and the two preferences that decide *)
(* when the copy is refreshed.                                             *)
(*                                                                         *)
(* A splash waits a second, then either opens the application at once (the *)
(* launch counter) or asks the server for its version; a newer version     *)
(* makes it download the catalogue and rewrite the tables one row at a     *)
(* time on an OkHttp thread, record the version, reset the counter and     *)
(* open the application.  Any request that fails leaves the splash on the  *)
(* screen: nothing retries.                                                *)
(*                                                                         *)
(* The process may die between any two steps.  The tables are durable row  *)
(* by row; a preference written with apply() is in memory at once and on   *)
(* disk later.                                                             *)
(***************************************************************************)
EXTENDS Naturals, Sequences, TLC

CONSTANTS
  Splashes,    \* identities for Splash activities, reused once settled
  NTables,     \* tables, numbered in the order they are filled (the code: 5)
  NRows,       \* rows of a table of the catalogue
  MaxVersion,  \* bound: the newest version the server publishes
  Faults       \* what may go wrong in the environment

(* crash      : the process dies                                           *)
(* offline    : no connection, or a request that fails or is refused       *)
(* badReply   : a row of the reply that lacks a field (JSONException)      *)
(* overlap    : a second Splash starts while an earlier one is not done    *)
(*              (rotation, or back and a new launch)                       *)
(* lostInsert : SQLiteDatabase.insert swallows an SQLException             *)
(* lateFlush  : the process may die before apply() has reached the disk    *)
AllFaults ==
  {"crash", "offline", "badReply", "overlap", "lostInsert", "lateFlush"}

ASSUME ConstantsAssumption ==
  /\ NTables \in Nat \ {0}
  /\ NRows \in Nat \ {0}
  /\ MaxVersion \in Nat \ {0}
  /\ Faults \subseteq AllFaults

VARIABLES
  prefs,      \* SharedPreferences in memory: version, counter
  disk,       \* SharedPreferences on disk
  exists,     \* the tables that have been created
  rows,       \* rows[t]: the rows of table t, in the order of insertion
  pc,         \* pc[s]: what splash s waits for
  job,        \* job[s]: the refresh s has in hand
  visible,    \* Splash activities that are not finished
  app,        \* an activity beyond the splash (MainActivity, Signup) exists
  server,     \* version of the catalogue the server publishes
  unchecked,  \* history: launches let in since the server was last heeded
  shown       \* history: version of the tables when the app was last opened

durable == <<disk, exists, rows>>
vars == <<prefs, disk, exists, rows, pc, job, visible, app, server,
          unchecked, shown>>

Tables   == 1..NTables
Versions == 1..MaxVersion
Job == [target: 0..MaxVersion, payload: 0..MaxVersion,
        table: Tables, row: 0..NRows]
Row == (0..MaxVersion) \X (1..NRows)
NoJob == [target |-> 0, payload |-> 0, table |-> 1, row |-> 0]

(* What a table holds once it has been filled from catalogue v.            *)
Catalogue(v) == [i \in 1..NRows |-> <<v, i>>]

Whole(v) == \A t \in Tables : t \in exists /\ rows[t] = Catalogue(v)

(* The version of the local copy, 0 when it is missing or torn.            *)
Content == IF \E v \in Versions : Whole(v)
           THEN CHOOSE v \in Versions : Whole(v)
           ELSE 0

Untold == 4  \* bound: unchecked saturates here

Goto(s, l) == pc' = [pc EXCEPT ![s] = l]

(* shared.edit().put...().apply()                                          *)
Apply(p) == /\ prefs' = p
            /\ disk' = IF "lateFlush" \in Faults THEN disk ELSE p

Init ==
  /\ prefs = [version |-> 0, counter |-> 0]
  /\ disk = prefs
  /\ exists = {}
  /\ rows = [t \in Tables |-> <<>>]
  /\ pc = [s \in Splashes |-> "idle"]
  /\ job = [s \in Splashes |-> NoJob]
  /\ visible = {}
  /\ app = FALSE
  /\ server \in Versions
  /\ unchecked = 0
  /\ shown = 0

----------------------------------------------------------------------------
(* Activities *)

(* The user starts the application: onCreate posts the one-second timer.   *)
Launch(s) ==
  /\ visible = {} /\ ~app
  /\ pc[s] = "idle"
  /\ "overlap" \in Faults \/ \A u \in Splashes : pc[u] = "idle"
  /\ Goto(s, "timer")
  /\ visible' = {s}
  /\ UNCHANGED <<prefs, durable, job, app, server, unchecked, shown>>

(* The system recreates a visible splash (rotation): onCreate runs again   *)
(* in a new object, and nothing cancels what the old one has posted.       *)
Recreate(s, u) ==
  /\ "overlap" \in Faults
  /\ s \in visible /\ ~app
  /\ pc[u] = "idle"
  /\ pc' = [pc EXCEPT ![u] = "timer",
                      ![s] = IF @ = "stuck" THEN "idle" ELSE @]
  /\ visible' = (visible \ {s}) \cup {u}
  /\ UNCHANGED <<prefs, durable, job, app, server, unchecked, shown>>

(* Back on the splash: the activity goes, its timers and callbacks stay.   *)
Leave(s) ==
  /\ s \in visible /\ ~app
  /\ visible' = visible \ {s}
  /\ pc' = [pc EXCEPT ![s] = IF @ = "stuck" THEN "idle" ELSE @]
  /\ UNCHANGED <<prefs, durable, job, app, server, unchecked, shown>>

CloseApp ==
  /\ app
  /\ app' = FALSE
  /\ UNCHANGED <<prefs, durable, pc, job, visible, server, unchecked, shown>>

(* openApp(): start the next activity and finish the splash.               *)
openApp(s) ==
  /\ app' = TRUE
  /\ shown' = Content
  /\ visible' = visible \ {s}
  /\ Goto(s, "idle")
  /\ job' = [job EXCEPT ![s] = NoJob]

(* A request that cannot be sent or fails only shows a toast: a splash     *)
(* that is still on the screen stays there.                                *)
GiveUp(s) ==
  /\ Goto(s, IF s \in visible THEN "stuck" ELSE "idle")
  /\ job' = [job EXCEPT ![s] = NoJob]
  /\ UNCHANGED <<prefs, durable, visible, app, server, unchecked, shown>>

----------------------------------------------------------------------------
(* The launch counter and the version check *)

(* Mutant: the counter is reset to 1.                                      *)
TimerSkipsCheckResetToOne(s) ==
  /\ pc[s] = "timer" /\ prefs.counter # 0
  /\ Apply([prefs EXCEPT !.counter = IF @ = 3 THEN 1 ELSE @ + 1])
  /\ openApp(s)
  /\ unchecked' = IF unchecked < Untold THEN unchecked + 1 ELSE unchecked
  /\ UNCHANGED <<exists, rows, server>>

(* checkCounter() is false: the launch is let in without asking.           *)
TimerSkipsCheck(s) ==
  /\ pc[s] = "timer"
  /\ prefs.counter # 0
  /\ Apply([prefs EXCEPT !.counter = IF @ = 3 THEN 0 ELSE @ + 1])
  /\ openApp(s)
  /\ unchecked' = IF unchecked < Untold THEN unchecked + 1 ELSE unchecked
  /\ UNCHANGED <<exists, rows, server>>

(* checkCounter() is true: getVersion() posts a request, if connected.     *)
TimerChecks(s) ==
  /\ pc[s] = "timer"
  /\ prefs.counter = 0
  /\ Goto(s, "askVersion")
  /\ UNCHANGED <<prefs, durable, job, visible, app, server, unchecked, shown>>

(* The server answers with the version it has at that moment.              *)
ServerTellsVersion(s) ==
  /\ pc[s] = "askVersion"
  /\ Goto(s, "gotVersion")
  /\ job' = [job EXCEPT ![s].target = server]
  /\ UNCHANGED <<prefs, durable, visible, app, server, unchecked, shown>>

(* Mutated form: an equal version is neither current nor newer.            *)
VersionIsCurrentOnlyIfOlder(s) ==
  /\ pc[s] = "gotVersion"
  /\ job[s].target < prefs.version
  /\ openApp(s)
  /\ unchecked' = 0
  /\ UNCHANGED <<prefs, durable, server>>

(* checkVersion(): up to date, open the application.                       *)
VersionIsCurrent(s) ==
  /\ pc[s] = "gotVersion"
  /\ job[s].target <= prefs.version
  /\ openApp(s)
  /\ unchecked' = 0
  /\ UNCHANGED <<prefs, durable, server>>

(* checkVersion(): outdated, getSystemData() posts the second request.     *)
VersionIsNewer(s) ==
  /\ pc[s] = "gotVersion"
  /\ job[s].target > prefs.version
  /\ Goto(s, "askData")
  /\ UNCHANGED <<prefs, durable, job, visible, app, server, unchecked, shown>>

(* Mutated form: the reply may be an older one, from a cache on the way.   *)
ServerSendsOldData(s) ==
  /\ pc[s] = "askData"
  /\ Goto(s, "clear")
  /\ \E v \in 1..server :
       job' = [job EXCEPT ![s].payload = v, ![s].table = 1, ![s].row = 0]
  /\ UNCHANGED <<prefs, durable, visible, app, server, unchecked, shown>>

(* The server answers with the catalogue it has at that moment, which may  *)
(* be newer than the version it told.                                      *)
ServerSendsData(s) ==
  /\ pc[s] = "askData"
  /\ Goto(s, "clear")
  /\ job' = [job EXCEPT ![s].payload = server, ![s].table = 1, ![s].row = 0]
  /\ UNCHANGED <<prefs, durable, visible, app, server, unchecked, shown>>

(* Not connected when the first request is to be posted, or a request      *)
(* fails, or its reply is not the expected one.                            *)
RequestFails(s) ==
  /\ "offline" \in Faults
  /\ \/ pc[s] = "timer" /\ prefs.counter = 0
     \/ pc[s] \in {"askVersion", "askData"}
  /\ GiveUp(s)

----------------------------------------------------------------------------
(* The refresh, on the OkHttp thread that delivers the reply *)

(* Mutated form: a table that does not exist is not noticed.               *)
DeleteRowsBlindly(s) ==
  /\ pc[s] = "clear"
  /\ rows' = [rows EXCEPT ![job[s].table] = <<>>]
  /\ Goto(s, "insert")
  /\ UNCHANGED <<prefs, disk, exists, job, visible, app, server, unchecked,
                 shown>>

(* getWritableDatabase() and db.delete(), which throws when the table does *)
(* not exist.                                                              *)
DeleteRows(s) ==
  LET t == job[s].table IN
  /\ pc[s] = "clear"
  /\ rows' = [rows EXCEPT ![t] = <<>>]
  /\ Goto(s, IF t \in exists THEN "insert" ELSE "create")
  /\ UNCHANGED <<prefs, disk, exists, job, visible, app, server, unchecked,
                 shown>>

(* dbHelper.onCreate(db), either from getWritableDatabase(), when the      *)
(* database file is new, before the delete, or from the catch after it.    *)
CreateTable(s) ==
  LET t == job[s].table IN
  /\ pc[s] = "create"
  /\ t \notin exists
  /\ exists' = exists \cup {t}
  /\ Goto(s, IF exists = {} THEN "clear" ELSE "insert")
  /\ UNCHANGED <<prefs, disk, rows, job, visible, app, server, unchecked,
                 shown>>

(* One turn of the loop: the row is appended, or insert() swallows the     *)
(* error and returns -1, which nobody looks at.                            *)
InsertRow(s) ==
  LET t == job[s].table
      i == job[s].row + 1
  IN
  /\ pc[s] = "insert"
  /\ job[s].row < NRows
  /\ job' = [job EXCEPT ![s].row = i]
  /\ \/ rows' = [rows EXCEPT ![t] = Append(@, <<job[s].payload, i>>)]
     \/ "lostInsert" \in Faults /\ rows' = rows
  /\ UNCHANGED <<prefs, disk, exists, pc, visible, app, server, unchecked,
                 shown>>

(* A row without one of its fields ends the refresh where it is.           *)
RowIsMalformed(s) ==
  /\ "badReply" \in Faults
  /\ pc[s] = "insert"
  /\ job[s].row < NRows
  /\ GiveUp(s)

(* Mutated form: the fill of the last table is forgotten.                  *)
TableIsFilledButLast(s) ==
  /\ pc[s] = "insert"
  /\ job[s].row = NRows
  /\ IF job[s].table < NTables - 1
     THEN /\ job' = [job EXCEPT ![s].table = @ + 1, ![s].row = 0]
          /\ Goto(s, "clear")
     ELSE /\ job' = job
          /\ Goto(s, "putVersion")
  /\ UNCHANGED <<prefs, durable, visible, app, server, unchecked, shown>>

(* The next fill... method, or the preferences once all five are done.     *)
TableIsFilled(s) ==
  /\ pc[s] = "insert"
  /\ job[s].row = NRows
  /\ IF job[s].table < NTables
     THEN /\ job' = [job EXCEPT ![s].table = @ + 1, ![s].row = 0]
          /\ Goto(s, "clear")
     ELSE /\ job' = job
          /\ Goto(s, "putVersion")
  /\ UNCHANGED <<prefs, durable, visible, app, server, unchecked, shown>>

(* Mutated form: the version recorded is the server's latest.              *)
PutLatestVersion(s) ==
  /\ pc[s] = "putVersion"
  /\ Apply([prefs EXCEPT !.version = server])
  /\ Goto(s, "putCounter")
  /\ UNCHANGED <<exists, rows, job, visible, app, server, unchecked, shown>>

PutVersion(s) ==
  /\ pc[s] = "putVersion"
  /\ Apply([prefs EXCEPT !.version = job[s].target])
  /\ Goto(s, "putCounter")
  /\ UNCHANGED <<exists, rows, job, visible, app, server, unchecked, shown>>

PutCounter(s) ==
  /\ pc[s] = "putCounter"
  /\ Apply([prefs EXCEPT !.counter = 1])
  /\ unchecked' = 0
  /\ Goto(s, "open")
  /\ UNCHANGED <<exists, rows, job, visible, app, server, shown>>

RefreshDone(s) ==
  /\ pc[s] = "open"
  /\ openApp(s)
  /\ UNCHANGED <<prefs, durable, server, unchecked>>

----------------------------------------------------------------------------
(* The process, the disk and the server *)

ProcessDies ==
  /\ prefs' = disk
  /\ pc' = [s \in Splashes |-> "idle"]
  /\ job' = [s \in Splashes |-> NoJob]
  /\ visible' = {}
  /\ app' = FALSE
  /\ UNCHANGED <<durable, server, unchecked, shown>>

Crash == "crash" \in Faults /\ ProcessDies

(* CREATE TABLE of a table that another splash has created meanwhile: an   *)
(* exception no one catches.                                               *)
CreateTableTwice(s) ==
  /\ pc[s] = "create"
  /\ job[s].table \in exists
  /\ ProcessDies

(* getSystemData() runs on the OkHttp thread: when it finds no connection, *)
(* isNetworkConnected() makes a toast there, which Android refuses on a    *)
(* thread without a looper.                                                *)
ToastOffMainThread(s) ==
  /\ "offline" \in Faults
  /\ pc[s] = "gotVersion"
  /\ job[s].target > prefs.version
  /\ ProcessDies

Flush ==
  /\ disk # prefs
  /\ disk' = prefs
  /\ UNCHANGED <<prefs, exists, rows, pc, job, visible, app, server,
                 unchecked, shown>>

Publish ==
  /\ server < MaxVersion
  /\ server' = server + 1
  /\ UNCHANGED <<prefs, durable, pc, job, visible, app, unchecked, shown>>

(* What a splash does by itself, once it is launched.                      *)
Progress(s) ==
  \/ TimerSkipsCheck(s) \/ TimerChecks(s)
  \/ ServerTellsVersion(s) \/ VersionIsCurrent(s) \/ VersionIsNewer(s)
  \/ ServerSendsData(s) \/ RequestFails(s) \/ ToastOffMainThread(s)
  \/ DeleteRows(s) \/ CreateTable(s) \/ CreateTableTwice(s)
  \/ InsertRow(s) \/ RowIsMalformed(s) \/ TableIsFilled(s)
  \/ PutVersion(s) \/ PutCounter(s) \/ RefreshDone(s)

Next ==
  \/ \E s \in Splashes :
       \/ Launch(s) \/ Leave(s)
       \/ \E u \in Splashes : Recreate(s, u)
       \/ Progress(s)
  \/ CloseApp \/ Crash \/ Flush \/ Publish

Spec == Init /\ [][Next]_vars

(* Timers fire, OkHttp reports every call, and its threads run.            *)
FairSpec == Spec /\ \A s \in Splashes : WF_vars(Progress(s))

(* Besides, the user who has the application open closes it and one who    *)
(* has not starts it, again and again.                                     *)
UserSpec == /\ FairSpec
            /\ WF_vars(CloseApp)
            /\ WF_vars(\E s \in Splashes : Launch(s))

----------------------------------------------------------------------------
TypeOK ==
  /\ prefs \in [version: 0..MaxVersion, counter: 0..3]
  /\ disk \in [version: 0..MaxVersion, counter: 0..3]
  /\ exists \subseteq Tables
  /\ rows \in [Tables -> Seq(Row)]
  /\ pc \in [Splashes -> {"idle", "timer", "askVersion", "gotVersion",
                          "askData", "clear", "create", "insert",
                          "putVersion", "putCounter", "open", "stuck"}]
  /\ job \in [Splashes -> Job]
  /\ visible \subseteq Splashes
  /\ app \in BOOLEAN
  /\ server \in Versions
  /\ unchecked \in 0..Untold
  /\ shown \in 0..MaxVersion
----------------------------------------------------------------------------
(* Safety *)

(* The screens beyond the splash fill their pickers from the tables: once  *)
(* openApp() has run, and until the application is closed, the tables are  *)
(* one whole catalogue, whatever crash, lost reply or malformed row came   *)
(* before.  Relies on fillAreas..fillSubServices running to the end before *)
(* the counter lets anyone in.                                             *)
OpensOnlyWhole == app => Content > 0

(* Where the tables do not hold what the recorded version says, the next   *)
(* launch asks the server and is told of a newer version: a torn copy is   *)
(* never taken for a good one, and the version never runs ahead of data.   *)
VersionIsBacked ==
  \/ Content >= prefs.version
  \/ prefs.counter = 0 /\ server > prefs.version

(* The application never opens on a missing table (a query would throw):   *)
(* each fill... creates what it cannot delete from, and no preference that *)
(* lets a launch in is written, in memory or on disk, before all exist.    *)
TablesExistWhenOpen ==
  app \/ disk.version > 0 \/ disk.counter > 0 => exists = Tables

(* checkCounter() lets at most three launches in a row in without asking   *)
(* the server, however launches, crashes and refreshes interleave.         *)
UncheckedBounded == unchecked <= 3

(* The splashes are alike: for the runs without temporal properties.       *)
Symmetry == Permutations(Splashes)

(* The splash implements the promise of CatalogCache to the screens.       *)
Cache == INSTANCE CatalogCache WITH content <- Content, open <- app
ImplementsCatalogCache == Cache!Spec

(* Liveness *)

(* With a server that answers, a launched splash opens the application.    *)
LaunchOpens == \A s \in Splashes : pc[s] = "timer" ~> app

(* A user who keeps opening the application is shown, in the end, whatever *)
(* catalogue the server has published: counter and version let it through. *)
NewCatalogueIsShown ==
  \A v \in Versions : server >= v ~> shown >= v
==========================================================================
