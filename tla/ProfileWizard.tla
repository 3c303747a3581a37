-------------------------- MODULE ProfileWizard --------------------------
(***************************************************************************)
(* Activity Profile_information: a new provider fills a form, signs up and *)
(* is shown the free package; one more `next' enters the application.      *)
(*                                                                         *)
(* The main thread runs the buttons, the posted runnables and the          *)
(* animations one at a time.  The replies to the sign-up and to the        *)
(* uploads of the picture run on OkHttp threads beside it, hide the        *)
(* spinner, and move the queue of forms without a lock.                    *)
(*                                                                         *)
(* The model follows one instance of the activity: one that the system     *)
(* recreates starts again from Init.                                       *)
(***************************************************************************)
EXTENDS LIFOqueue, FiniteSets

CONSTANTS
  Calls,       \* bound: sign-up requests that may be outstanding at once
  MaxUploads,  \* bound: uploads outstanding at once
  MaxHides,    \* bound: hideLoading() runnables that wait are counted to here
  Connected    \* FALSE when a sign-up may find no connection

ASSUME WizardAssumption ==
  /\ MaxUploads \in Nat
  /\ MaxHides \in Nat \ {0}
  /\ Connected \in BOOLEAN

VARIABLES
  lifo,        \* the queue of forms
  main,        \* the activity's flag `main': back leaves the activity
  ui,          \* what the main thread is in the middle of
  visible,     \* the forms that are VISIBLE
  loading,     \* the spinner covers the forms and their buttons
  hides,       \* hideLoading() runnables that have been posted
  anims,       \* animations that have been posted: <<before, after>>
  signup,      \* signup[c]: how far request c and its callback are
  before,      \* the field `before': the form an animation will hide
  after,       \* the field `after': the form it will show, or "null"
  uploads,     \* uploads outstanding
  finished,    \* the activity has called finish()
  login,       \* preference login
  crashed,     \* an exception no one caught has ended the process
  accepted,    \* history: the server has accepted a sign-up
  garbled,     \* history: the `error' of a reply was not a number
  overlapped   \* history: two sign-ups have been outstanding at once

vars == <<lifo, main, ui, visible, loading, hides, anims, signup, before,
          after, uploads, finished, login, crashed, accepted, garbled,
          overlapped>>
fields == <<before, after>>
history == <<accepted, garbled, overlapped>>
screen == <<main, ui, visible, loading>>

Forms == {"profile", "free"}
FormList == <<"profile", "free">>

Init ==
  /\ lifo = pop(New(FormList))
  /\ main = TRUE
  /\ ui = "idle"
  /\ visible = {"profile"}
  /\ loading = FALSE
  /\ hides = 0
  /\ anims = {}
  /\ signup = [c \in Calls |-> "none"]
  /\ before = "null"
  /\ after = "null"
  /\ uploads = 0
  /\ finished = FALSE
  /\ login = FALSE
  /\ crashed = FALSE
  /\ accepted = FALSE
  /\ garbled = FALSE
  /\ overlapped = FALSE

Goto(c, l) == signup' = [signup EXCEPT ![c] = l]
Outstanding == {c \in Calls : signup[c] # "none"}

(* hideLoading() off the main thread: a runnable is posted.                *)
PostHide == hides' = IF hides < MaxHides THEN hides + 1 ELSE hides

Crash ==
  /\ crashed' = TRUE
  /\ UNCHANGED <<lifo, screen, hides, anims, signup, fields, uploads, finished, login, history>>

----------------------------------------------------------------------------
(* The main thread: buttons *)

(* The buttons are children of linear_main, which the spinner replaces.    *)
Pressable == ui = "idle" /\ ~finished /\ ~loading

(* openNextForm() with one form to come and a form that verify() accepts:  *)
(* sendProfileInfo().                                                      *)
NextSignsUp(c) ==
  /\ Pressable
  /\ Len(lifo.first) = 1
  /\ signup[c] = "none"
  /\ loading' = TRUE
  /\ Goto(c, "sent")
  /\ overlapped' = (overlapped \/ Outstanding # {})
  /\ UNCHANGED <<lifo, main, ui, visible, hides, anims, fields, uploads,
                 finished, login, crashed, accepted, garbled>>

(* The same without a connection: a toast, and nothing hides the spinner.  *)
NextIsOffline ==
  /\ ~Connected
  /\ Pressable
  /\ Len(lifo.first) = 1
  /\ loading' = TRUE
  /\ UNCHANGED <<lifo, main, ui, visible, hides, anims, signup, fields,
                 uploads, finished, login, crashed, history>>

(* Mutant: one form too early.                                             *)
NextEntersAppEarly ==
  /\ Pressable
  /\ Len(lifo.first) <= 1
  /\ login' = TRUE
  /\ finished' = TRUE
  /\ UNCHANGED <<lifo, screen, hides, anims, signup, fields, uploads,
                 crashed, history>>

(* openNextForm() with no form to come.                                    *)
NextEntersApp ==
  /\ Pressable
  /\ isEmpty(lifo)
  /\ login' = TRUE
  /\ finished' = TRUE
  /\ UNCHANGED <<lifo, screen, hides, anims, signup, fields, uploads, crashed, history>>

(* onBackPressed() on the first form.                                      *)
BackLeaves ==
  /\ ui = "idle" /\ ~finished
  /\ main
  /\ finished' = TRUE
  /\ UNCHANGED <<lifo, screen, hides, anims, signup, fields, uploads, login, crashed, history>>

(* onBackPressed() on a later form, with the key, spinner or not: scndpop  *)
(* has two halves, and a reply may come in between.                        *)
BackCopies ==
  /\ ui = "idle" /\ ~finished
  /\ ~main
  /\ ~scndisEmpty(lifo)
  /\ lifo' = scndpopCopies(lifo)
  /\ ui' = "back"
  /\ UNCHANGED <<main, visible, loading, hides, anims, signup, fields,
                 uploads, finished, login, crashed, history>>

(* Mutant: the size is compared with 0.                                    *)
BackRemovesLeavesMain ==
  LET q == scndpopRemoves(lifo) IN
  /\ ui = "back"
  /\ Len(q.scnd) > 0
  /\ lifo' = q
  /\ ui' = "idle"
  /\ visible' = (visible \cup {scndpeek(q)}) \ {scndpeek(lifo)}
  /\ main' = (main \/ Len(q.scnd) = 0)
  /\ UNCHANGED <<loading, hides, anims, signup, fields, uploads, finished,
                 login, crashed, history>>

(* Mutant: the form that is left stays on the screen.                      *)
BackRemovesHidesNothing ==
  LET q == scndpopRemoves(lifo) IN
  /\ ui = "back"
  /\ Len(q.scnd) > 0
  /\ lifo' = q
  /\ ui' = "idle"
  /\ visible' = visible \cup {scndpeek(q)}
  /\ main' = (main \/ Len(q.scnd) = 1)
  /\ UNCHANGED <<loading, hides, anims, signup, fields, uploads, finished,
                 login, crashed, history>>

BackRemoves ==
  LET q == scndpopRemoves(lifo) IN
  /\ ui = "back"
  /\ Len(q.scnd) > 0
  /\ lifo' = q
  /\ ui' = "idle"
  /\ visible' = (visible \cup {scndpeek(q)}) \ {scndpeek(lifo)}
  /\ main' = (main \/ Len(q.scnd) = 1)
  /\ UNCHANGED <<loading, hides, anims, signup, fields, uploads, finished, login, crashed, history>>

(* scndpop() or scndpeek() finds no form.  The listener of the button      *)
(* catches the exception, nothing catches it on the way from the key.      *)
BackThrows ==
  /\ \/ ui = "idle" /\ ~finished /\ ~main /\ scndisEmpty(lifo)
        /\ UNCHANGED lifo
     \/ ui = "back" /\ Len(lifo.scnd) = 1
        /\ lifo' = scndpopRemoves(lifo)
  /\ ui' = "idle"
  /\ crashed' \in IF loading THEN {TRUE} ELSE BOOLEAN
  /\ UNCHANGED <<main, visible, loading, hides, anims, signup, fields,
                 uploads, finished, login, history>>

(* A picture is chosen: uploadImage().                                     *)
ChoosePicture ==
  /\ Pressable
  /\ "profile" \in visible
  /\ uploads < MaxUploads
  /\ uploads' = uploads + 1
  /\ UNCHANGED <<lifo, screen, hides, anims, signup, fields, finished,
                 login, crashed, history>>

----------------------------------------------------------------------------
(* The main thread: what has been posted to it *)

HideRuns ==
  /\ ui = "idle"
  /\ hides > 0
  /\ hides' = hides - 1
  /\ loading' = FALSE
  /\ UNCHANGED <<lifo, main, ui, visible, anims, signup, fields, uploads,
                 finished, login, crashed, history>>

(* Mutant: the next form is never made VISIBLE.                            *)
AnimationEndsHidesOnly ==
  /\ ui = "idle"
  /\ \E m \in anims :
       /\ anims' = anims \ {m}
       /\ visible' = visible \ {m[1]}
  /\ main' = FALSE
  /\ UNCHANGED <<lifo, ui, loading, hides, signup, fields, uploads,
                 finished, login, crashed, history>>

(* onAnimationEnd(): before GONE, after VISIBLE; the exception that a null *)
(* `after' raises comes first.                                             *)
AnimationEnds ==
  /\ ui = "idle"
  /\ \E m \in anims :
       /\ anims' = anims \ {m}
       /\ IF m[2] = "null"
            THEN crashed' = TRUE /\ UNCHANGED <<visible, main>>
            ELSE /\ visible' = (visible \ {m[1]}) \cup {m[2]}
                 /\ main' = FALSE
                 /\ UNCHANGED crashed
  /\ UNCHANGED <<lifo, ui, loading, hides, signup, fields, uploads,
                 finished, login, history>>

----------------------------------------------------------------------------
(* The OkHttp threads *)

(* Mutant: hideLoading() is missing.                                       *)
SignupFailsQuietly(c) ==
  /\ signup[c] = "sent"
  /\ Goto(c, "none")
  /\ UNCHANGED <<lifo, screen, hides, anims, fields, uploads, finished,
                 login, crashed, history>>

(* onFailure(), or a reply that is not a success: hideLoading().           *)
SignupFails(c) ==
  /\ signup[c] = "sent"
  /\ PostHide
  /\ Goto(c, "none")
  /\ UNCHANGED <<lifo, screen, anims, fields, uploads, finished,
                 login, crashed, history>>

(* onResponse(): hideLoading() comes first, then the reply is read.        *)
SignupAccepted(c) ==
  /\ signup[c] = "sent"
  /\ PostHide
  /\ Goto(c, "accepted")
  /\ accepted' = TRUE
  /\ UNCHANGED <<lifo, screen, anims, fields, uploads, finished,
                 login, crashed, garbled, overlapped>>

(* before = lifo.scndpeek(); after = null                                  *)
PeekForm(c) ==
  /\ signup[c] = "accepted"
  /\ ~scndisEmpty(lifo)
  /\ before' = scndpeek(lifo)
  /\ after' = "null"
  /\ Goto(c, "peeked")
  /\ UNCHANGED <<lifo, screen, hides, anims, uploads, finished, login,
                 crashed, history>>

(* after = lifo.pop(), the first half.                                     *)
PopCopies(c) ==
  /\ signup[c] = "peeked"
  /\ ~isEmpty(lifo)
  /\ lifo' = popCopies(lifo)
  /\ Goto(c, "copied")
  /\ UNCHANGED <<screen, hides, anims, fields, uploads, finished, login,
                 crashed, history>>

(* ... and the second, whose result is what the list holds by now.         *)
PopRemoves(c) ==
  /\ signup[c] = "copied"
  /\ ~isEmpty(lifo)
  /\ after' = Head(lifo.first)
  /\ lifo' = popRemoves(lifo)
  /\ Goto(c, "popped")
  /\ UNCHANGED <<screen, hides, anims, before, uploads, finished, login,
                 crashed, history>>

(* animateLayout(before, after): a view has one animator with one listener.*)
Animate(c) ==
  /\ signup[c] = "popped"
  /\ anims' = {m \in anims : m[1] # before} \cup {<<before, after>>}
  /\ Goto(c, "none")
  /\ UNCHANGED <<lifo, screen, hides, fields, uploads, finished, login,
                 crashed, history>>

(* An `error' that is not a number: parseInt() throws a                    *)
(* NumberFormatException in the callback, after hideLoading().             *)
Garbled ==
  /\ PostHide
  /\ garbled' = TRUE
  /\ crashed' = TRUE
  /\ UNCHANGED <<lifo, screen, anims, signup, fields, uploads, finished,
                 login, accepted, overlapped>>

SignupGarbled(c) == signup[c] = "sent" /\ Garbled
UploadGarbled == uploads > 0 /\ Garbled

(* NoSuchElementException in a callback: only JSONException is caught.     *)
ReplyThrows(c) ==
  /\ \/ signup[c] = "accepted" /\ scndisEmpty(lifo)
     \/ signup[c] \in {"peeked", "copied"} /\ isEmpty(lifo)
  /\ Crash

UploadAnswered ==
  /\ uploads > 0
  /\ PostHide
  /\ uploads' = uploads - 1
  /\ UNCHANGED <<lifo, screen, anims, signup, fields, finished, login,
                 crashed, history>>

(* The clone of the call is never enqueued: the upload is given up, and    *)
(* the counter `retry', which the uploads change without a lock, only says *)
(* whether the spinner is hidden.                                          *)
UploadFails ==
  /\ uploads > 0
  /\ uploads' = uploads - 1
  /\ UNCHANGED hides \/ PostHide
  /\ UNCHANGED <<lifo, screen, anims, signup, fields, finished, login,
                 crashed, history>>

Callback(c) ==
  \/ SignupFails(c) \/ SignupAccepted(c) \/ SignupGarbled(c)
  \/ PeekForm(c) \/ PopCopies(c) \/ PopRemoves(c) \/ Animate(c)
  \/ ReplyThrows(c)

MainThread == HideRuns \/ AnimationEnds \/ BackRemoves \/ BackThrows

Next ==
  /\ ~crashed
  /\ \/ \E c \in Calls : NextSignsUp(c) \/ Callback(c)
     \/ NextIsOffline \/ NextEntersApp \/ BackLeaves \/ BackCopies
     \/ ChoosePicture \/ MainThread
     \/ UploadAnswered \/ UploadGarbled \/ UploadFails

Spec == Init /\ [][Next]_vars

(* OkHttp ends every call, its threads and the main thread go on.          *)
FairSpec ==
  /\ Spec
  /\ WF_vars(~crashed /\ HideRuns)
  /\ WF_vars(~crashed /\ AnimationEnds)
  /\ WF_vars(~crashed /\ ui = "back" /\ (BackRemoves \/ BackThrows))
  /\ \A c \in Calls : WF_vars(~crashed /\ Callback(c))

----------------------------------------------------------------------------
Stages == {"none", "sent", "accepted", "peeked", "copied", "popped"}

TypeOK ==
  /\ lifo \in Queue(Forms)
  /\ main \in BOOLEAN
  /\ ui \in {"idle", "back"}
  /\ visible \subseteq Forms
  /\ loading \in BOOLEAN
  /\ hides \in 0..MaxHides
  /\ anims \subseteq Forms \X (Forms \cup {"null"})
  /\ signup \in [Calls -> Stages]
  /\ before \in Forms \cup {"null"}
  /\ after \in Forms \cup {"null"}
  /\ uploads \in 0..MaxUploads
  /\ finished \in BOOLEAN
  /\ login \in BOOLEAN
  /\ crashed \in BOOLEAN
  /\ accepted \in BOOLEAN
  /\ garbled \in BOOLEAN
  /\ overlapped \in BOOLEAN

(* Nothing is half-way through the queue of forms.                         *)
Quiet == ui = "idle" /\ \A c \in Calls : signup[c] \notin {"copied", "popped"}

(* The process dies of an empty queue, or of an animation towards nothing, *)
(* only when a second sign-up has been sent while the first was            *)
(* outstanding: back, the uploads and one reply at a time never get there. *)
(* Beside that it dies only of a reply whose `error' is not a number.      *)
CrashOnlyOnOverlap == crashed => overlapped \/ garbled

(* While sign-ups do not overlap, the queue holds every form once, in      *)
(* order, whenever nobody is moving it.                                    *)
KeepsForms ==
  Quiet /\ ~overlapped =>
    lifo \in { [first |-> <<"free">>, scnd |-> <<"profile">>],
               [first |-> <<>>, scnd |-> <<"free", "profile">>] }

(* While sign-ups do not overlap, one form is on the screen once the       *)
(* animations are over, the one the queue says.                            *)
ShowsTop ==
  Quiet /\ anims = {} /\ ~overlapped => visible = {scndpeek(lifo)}

(* Nobody is logged in whose sign-up the server has not accepted.          *)
LoginIsEarned == login => accepted

(* The spinner goes: by the reply, by an upload's, or with the process.    *)
SpinnerEnds == loading ~> ~loading \/ crashed

(* An accepted sign-up brings the next form, or the activity has ended, or *)
(* sign-ups overlap, or the process dies of a garbled reply to an upload.  *)
AcceptedGoesOn ==
  \A c \in Calls : signup[c] = "accepted" ~>
    "free" \in visible \/ finished \/ overlapped \/ garbled
==========================================================================
