----------------------------- MODULE SharedPrefs -----------------------------
(***************************************************************************)
(* The shared preferences of an app, edited from the host                  *)
(* (sdk/shared_prefs.py): Load() reads the file into an object, the        *)
(* setters, Remove() and Clear() change the object, Commit() writes the    *)
(* file, gives it the security context of the app and kills the app.  The  *)
(* app itself loads the file when it starts and writes the whole of it     *)
(* from its memory when it changes a preference.                           *)
(*                                                                         *)
(* A preference is <<type, value>>; Absent is no preference.  None is no   *)
(* document (_xml is None) and no file.  A command of Commit() may fail.   *)
(***************************************************************************)
EXTENDS Naturals

CONSTANTS Keys, Types, Values,
          Calls,          \* the calls the caller makes besides Load and Commit
          Seen,           \* the shell user may look into the app's directory
          Marshmallow,    \* build_version_sdk >= MARSHMALLOW
          AppBusy,        \* the app may write during a Commit()
          Failing, MaxCalls

Absent == <<"-", "-">>
Prefs == Types \X Values
Maps == [Keys -> Prefs \cup {Absent}]
Empty == [k \in Keys |-> Absent]
None == [k \in Keys |-> <<"none", "none">>]

VARIABLES file, labelled,      \* the file, and whether the app may read it
          app,                 \* the preferences in the app's memory, None: not running
          xml, changed,        \* _xml and _changed
          step,                \* the next command of Commit(); "new" before Load()
          wanted,              \* what the file is to hold, from Load() and the calls
          removed,             \* history: removed since the last Load() or save
          outcome,             \* of the last Commit()
          calls

object == <<xml, changed>>
device == <<file, labelled, app>>
vars == <<device, object, step, wanted, removed, outcome, calls>>

Init ==
  /\ file \in Maps \cup {None}
  /\ labelled = (file # None)
  /\ app = None
  /\ xml = None /\ changed = FALSE
  /\ step = "new"
  /\ wanted = Empty /\ removed = {}
  /\ outcome = "none"
  /\ calls = 0

Idle == step = "idle"
Doc == IF xml = None THEN Empty ELSE xml       \* the property xml
Content == IF file = None THEN Empty ELSE file

Returned == outcome \in {"ok", "skipped"}

(* FileExists() looks as the shell user, ReadFile() reads as root. *)
Load ==
  /\ step \in {"new", "idle"} /\ calls < MaxCalls
  /\ xml' = IF Seen THEN file ELSE None
  /\ changed' = FALSE
  /\ step' = "idle"
  /\ wanted' = Content /\ removed' = {}
  /\ outcome' = "none"
  /\ calls' = calls + 1
  /\ UNCHANGED device

Call(c) == /\ Idle /\ c \in Calls /\ calls < MaxCalls
           /\ calls' = calls + 1 /\ outcome' = "none"
           /\ UNCHANGED <<device, step>>

(* _SetPrefValue(): a preference of another type raises TypeError, one     *)
(* that has the value already leaves changed as it is.                     *)
Set(k, p) ==
  /\ Call("set")
  /\ Doc[k] # Absent => Doc[k][1] = p[1]
  /\ xml' = [Doc EXCEPT ![k] = p]
  /\ changed' = (changed \/ Doc[k] # p)
  /\ wanted' = [wanted EXCEPT ![k] = p]
  /\ UNCHANGED removed

(* Remove() does not mark the object as changed.                           *)
Remove(k) ==
  /\ Call("remove") /\ Doc[k] # Absent
  /\ xml' = [Doc EXCEPT ![k] = Absent]
  /\ wanted' = [wanted EXCEPT ![k] = Absent]
  /\ removed' = removed \cup {k}
  /\ UNCHANGED changed

Clear ==
  /\ Call("clear")
  /\ IF Doc # Empty THEN xml' = None /\ changed' = TRUE ELSE UNCHANGED object
  /\ wanted' = Empty /\ UNCHANGED removed

(* Commit() does nothing for an object that is not marked as changed. *)
Commit ==
  /\ Idle /\ ~Returned
  /\ IF changed THEN step' = "write" /\ outcome' = "none"
                ELSE step' = "idle" /\ outcome' = "skipped"
  /\ UNCHANGED <<device, object, wanted, removed, calls>>

Write ==
  /\ step = "write"
  /\ file' = Doc
  /\ labelled' = (labelled \/ ~Marshmallow)
  /\ xml' = Doc                     \* str(self) makes the document
  /\ step' = IF Marshmallow THEN "chcon" ELSE "kill"
  /\ UNCHANGED <<app, changed, wanted, removed, outcome, calls>>

Chcon ==
  /\ step = "chcon"
  /\ labelled' = TRUE
  /\ step' = "kill"
  /\ UNCHANGED <<file, app, object, wanted, removed, outcome, calls>>

KillAll ==
  /\ step = "kill"
  /\ app' = None
  /\ changed' = FALSE /\ removed' = {}
  /\ step' = "idle" /\ outcome' = "ok"
  /\ UNCHANGED <<file, labelled, xml, wanted, calls>>

Committing == step \in {"write", "chcon", "kill"}

(* A command fails, the security context is not found, or the context      *)
(* manager's body raises: Commit() ends, or is not called.                 *)
Fail ==
  /\ Failing /\ Committing
  /\ step' = "idle" /\ outcome' = "raised"
  /\ UNCHANGED <<device, object, wanted, removed, calls>>

(* The app. *)
AppStarts ==
  /\ app = None /\ (file = None \/ labelled)
  /\ app' = Content
  /\ UNCHANGED <<file, labelled, object, step, wanted, removed, outcome, calls>>

(* Its own changes come when no object is in use, or it is read again; and *)
(* during a Commit() when AppBusy says so.                                 *)
AppWrites(k, p) ==
  /\ app # None /\ app[k] # p
  /\ IF Committing THEN AppBusy ELSE step = "new" \/ Returned
  /\ app' = [app EXCEPT ![k] = p]
  /\ file' = app'
  /\ labelled' = TRUE
  /\ step' = IF Committing THEN step ELSE "new"
  /\ outcome' = "none"
  /\ UNCHANGED <<object, wanted, removed, calls>>

Next == \/ Load \/ Clear \/ Commit \/ Write \/ Chcon \/ KillAll \/ Fail
        \/ \E k \in Keys : \/ Remove(k)
                           \/ \E p \in Prefs : Set(k, p) \/ AppWrites(k, p)
        \/ AppStarts

Spec == Init /\ [][Next]_vars

----------------------------------------------------------------------------

(* Types of the file, the app and the object. *)
TypeOK ==
  /\ file \in Maps \cup {None} /\ app \in Maps \cup {None} /\ xml \in Maps \cup {None}
  /\ changed \in BOOLEAN /\ labelled \in BOOLEAN /\ removed \subseteq Keys

(* After a Commit() that returned, at the first attempt or after some that *)
(* failed, the file holds what was loaded with the calls made since; only  *)
(* a removal that no other call has marked as a change may be missing.     *)
Committed ==
  Returned => \A k \in Keys : \/ Content[k] = wanted[k]
                              \/ outcome = "skipped" /\ k \in removed

(* After a Commit() that had something to write and returned, no app runs  *)
(* that has other preferences in its memory, and the app may read the file.*)
AppSeesIt == (outcome = "ok" /\ app # None) => app = Content
AppMayRead == (outcome = "ok" /\ file # None) => labelled
==============================================================================
