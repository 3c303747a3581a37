---------------------------- MODULE HomePanel ----------------------------
(***************************************************************************)
(* Fragment Home: asks the server for the provider and shows one of three  *)
(* panels, by the status of the subscription: the packages (none yet), the *)
(* provider (active) or a note that it is being looked at (pending).       *)
(*                                                                         *)
(* One instance of the fragment from onCreateView() on; navigation, a      *)
(* rotation or the end of the activity detach it, and the replies that are *)
(* still to come find getActivity() null.                                  *)
(*                                                                         *)
(* The main thread runs clicks and, in their order, the runnables posted   *)
(* by runOnUiThread().  A reply runs on an OkHttp thread; it reads nothing *)
(* twice that the main thread changes, except whether the fragment is      *)
(* attached, and posts everything it does to the screen: one step.         *)
(***************************************************************************)
EXTENDS Naturals, Sequences, FiniteSets

CONSTANTS
  Calls,       \* bound: requests outstanding at once
  MaxPosted,   \* bound: runnables that may wait when the user acts
  Connected,   \* FALSE when the device may be without a connection
  Drifts       \* TRUE when the status may change behind the application

ASSUME HomeAssumption ==
  /\ MaxPosted \in Nat
  /\ Connected \in BOOLEAN
  /\ Drifts \in BOOLEAN

VARIABLES
  attached,    \* the fragment has its activity
  editing,     \* edit_profile, opened from here, is in front
  loading,     \* the spinner covers the layout
  panels,      \* the panels that are VISIBLE
  picked,      \* packageType # 0
  handler,     \* the runnables posted to the main thread
  call,        \* call[c]: the kind of request c, or "none"
  retry,       \* iokihttp.retry
  login,       \* preference login
  named,       \* preferences username and job have been written
  status,      \* the status of the subscription at the server
  crashed,     \* an exception no one caught has ended the process
  failed,      \* history: a request was not sent, not granted, or its reply
               \* was of no use
  garbled,     \* history: a reply had text where Home reads a number
  drifted      \* history: the status changed and no reply told of it

vars == <<attached, editing, loading, panels, picked, handler, call, retry,
          login, named, status, crashed, failed, garbled, drifted>>
place == <<attached, editing>>
prefs == <<login, named>>

Statuses == {"none", "active", "pending"}
Kinds == {"getProfile", "getPackages", "subscribe"}

Panel(s) == CASE s = "none" -> "packages"
              [] s = "active" -> "info"
              [] s = "pending" -> "subscription"
Panels == {Panel(s) : s \in Statuses}

(* What replies post besides "hide" and "toast": what createModel() does   *)
(* with the status, fillPackages(), and the end of sendSubscribeInfo();    *)
(* createModel() also posts a status ("garbled") or ratings ("unrated")    *)
(* that are no numbers.                                                    *)
Runnables ==
  {"hide", "toast", "prices", "subscribed", "garbled", "unrated"}
    \cup Statuses

(* onCreateView(): getData().                                              *)
Init ==
  /\ attached = TRUE
  /\ editing = FALSE
  /\ panels = {}
  /\ picked = FALSE
  /\ handler = <<>>
  /\ \/ /\ \E c \in Calls :
             call = [d \in Calls |-> IF d = c THEN "getProfile" ELSE "none"]
        /\ loading = TRUE
        /\ failed = FALSE
     \/ /\ ~Connected
        /\ call = [d \in Calls |-> "none"]
        /\ loading = FALSE
        /\ failed = TRUE
  /\ retry = 0
  /\ login = TRUE
  /\ named \in BOOLEAN
  /\ status \in Statuses
  /\ crashed = FALSE
  /\ garbled = FALSE
  /\ drifted = FALSE

(* showLoading() and iokihttp.post(); a toast when there is no connection. *)
Request(kind) ==
  \/ /\ \E c \in Calls : call[c] = "none" /\ call' = [call EXCEPT ![c] = kind]
     /\ loading' = TRUE
     /\ UNCHANGED failed
  \/ /\ ~Connected
     /\ failed' = TRUE
     /\ UNCHANGED <<call, loading>>

Done(c) == call' = [call EXCEPT ![c] = "none"]

(* runOnUiThread() from an OkHttp thread, `rs' in turn.                    *)
Post(rs) == handler' = handler \o rs

----------------------------------------------------------------------------
(* The user *)

Pressable ==
  attached /\ ~editing /\ ~loading /\ Len(handler) <= MaxPosted

(* changePackageLinearBg()                                                 *)
PickPackage ==
  /\ Pressable
  /\ "packages" \in panels
  /\ picked' = TRUE
  /\ UNCHANGED <<place, loading, panels, handler, call, retry, prefs,
                 status, crashed, failed, garbled, drifted>>

(* subscribe(): with no package picked it is a toast.                      *)
Subscribe ==
  /\ Pressable
  /\ "packages" \in panels
  /\ picked
  /\ Request("subscribe")
  /\ UNCHANGED <<place, panels, picked, handler, retry, prefs, status,
                 crashed, garbled, drifted>>

(* openProfileEditor()                                                     *)
OpenEditor ==
  /\ Pressable
  /\ "info" \in panels
  /\ editing' = TRUE
  /\ UNCHANGED <<attached, loading, panels, picked, handler, call, retry,
                 prefs, status, crashed, failed, garbled, drifted>>

(* onActivityResult(): after a change, getData() again.                    *)
EditorCloses ==
  /\ attached /\ editing /\ Len(handler) <= MaxPosted
  /\ editing' = FALSE
  /\ Request("getProfile") \/ UNCHANGED <<loading, call, failed>>
  /\ UNCHANGED <<attached, panels, picked, handler, retry, prefs, status,
                 crashed, garbled, drifted>>

(* Another fragment takes the place of this one, or the activity ends.     *)
Leave ==
  /\ attached
  /\ attached' = FALSE
  /\ UNCHANGED <<editing, loading, panels, picked, handler, call, retry,
                 prefs, status, crashed, failed, garbled, drifted>>

----------------------------------------------------------------------------
(* The OkHttp threads *)

(* Mutant: what is to be shown is shown on the thread of the reply.        *)
HideAndShowHere(r) ==
  IF r # "toast" THEN crashed' = TRUE /\ UNCHANGED handler
                 ELSE Post(<<"hide", r>>) /\ UNCHANGED crashed

(* hideLoading() survives a null getActivity(), the rest of a reply that   *)
(* has something to show does not.                                         *)
HideAndShow(r) ==
  IF attached THEN Post(<<"hide", r>>) /\ UNCHANGED crashed
              ELSE crashed' = TRUE /\ UNCHANGED handler

(* Mutant: hideLoading() only where the reply has been read.               *)
HideNever == UNCHANGED <<handler, crashed>>

HideOnly ==
  /\ IF attached THEN Post(<<"hide">>) ELSE UNCHANGED handler
  /\ UNCHANGED crashed

(* createModel(): the name and the job are stored whether the fragment is  *)
(* there or not; a null getActivity() is caught around the last step.      *)
ProfileArrives(c) ==
  /\ call[c] = "getProfile"
  /\ Done(c)
  /\ named' = TRUE
  /\ IF attached THEN Post(<<"hide", status>>) ELSE UNCHANGED handler
  /\ UNCHANGED <<place, loading, panels, picked, retry, login, status,
                 crashed, failed, garbled, drifted>>

(* createModel() of a provider without a name: login is taken back and the *)
(* activity ends, or the null getContext() ends the process.               *)
ProfileHasNoName(c) ==
  /\ call[c] = "getProfile"
  /\ Done(c)
  /\ login' = FALSE
  /\ attached' = FALSE
  /\ IF attached THEN Post(<<"hide">>) /\ UNCHANGED crashed
                 ELSE crashed' = TRUE /\ UNCHANGED handler
  /\ UNCHANGED <<editing, loading, panels, picked, retry, named, status,
                 failed, garbled, drifted>>

(* getPackagePrices(): onResponse                                          *)
PackagesArrive(c) ==
  /\ call[c] = "getPackages"
  /\ Done(c)
  /\ HideAndShow("prices")
  /\ UNCHANGED <<place, loading, panels, picked, retry, prefs, status,
                 failed, garbled, drifted>>

(* The server takes the subscription of a provider who has none.           *)
Subscribed == IF status = "none" THEN "pending" ELSE status

(* sendSubscribeInfo(): onResponse                                         *)
SubscriptionGranted(c) ==
  /\ call[c] = "subscribe"
  /\ Done(c)
  /\ status' = Subscribed
  /\ HideAndShow("subscribed")
  /\ UNCHANGED <<place, loading, panels, picked, retry, prefs, failed,
                 garbled, drifted>>

(* Mutant: the error code of the reply is not looked at.                   *)
RefusedUnseen(c) ==
  /\ call[c] # "none"
  /\ Done(c)
  /\ failed' = TRUE
  /\ HideAndShow(IF call[c] = "subscribe" THEN "subscribed" ELSE "toast")
  /\ UNCHANGED <<place, loading, panels, picked, retry, prefs, status,
                 garbled, drifted>>

(* error # 1: try later.                                                   *)
Refused(c) ==
  /\ call[c] # "none"
  /\ Done(c)
  /\ failed' = TRUE
  /\ HideAndShow("toast")
  /\ UNCHANGED <<place, loading, panels, picked, retry, prefs, status,
                 garbled, drifted>>

(* Whether the server took a subscription, when its answer is lost.        *)
AnswerIsLost(c) ==
  /\ failed' = TRUE
  /\ \/ UNCHANGED <<status, drifted>>
     \/ /\ call[c] = "subscribe" /\ Drifts
        /\ status' = Subscribed
        /\ drifted' = TRUE

(* A status other than 2xx, or a reply that is not the expected JSON, the  *)
(* JSONException of which is caught: a profile may be cut off after the    *)
(* name has been stored.                                                   *)
Unreadable(c) ==
  /\ call[c] # "none"
  /\ Done(c)
  /\ AnswerIsLost(c)
  /\ HideOnly
  /\ named' \in {named, named \/ call[c] = "getProfile"}
  /\ UNCHANGED <<place, loading, panels, picked, retry, login, garbled>>

(* An `error' that is not a number: parseInt() throws a                    *)
(* NumberFormatException, which no one catches on the thread of the reply. *)
ErrorIsNoNumber(c) ==
  /\ call[c] # "none"
  /\ Done(c)
  /\ AnswerIsLost(c)
  /\ garbled' = TRUE
  /\ crashed' = TRUE
  /\ IF attached THEN Post(<<"hide">>) ELSE UNCHANGED handler
  /\ UNCHANGED <<place, loading, panels, picked, retry, prefs>>

(* createModel() reads a profile whose status_id, or one of whose ratings, *)
(* is not a number: they are kept as text, and parsed by the runnable.     *)
ProfileIsGarbled(c) ==
  /\ call[c] = "getProfile"
  /\ Done(c)
  /\ named' = TRUE
  /\ failed' = TRUE
  /\ garbled' = TRUE
  /\ IF attached
       THEN \/ Post(<<"hide", "garbled">>)
            \/ status = "active" /\ Post(<<"hide", "unrated">>)
       ELSE UNCHANGED handler
  /\ UNCHANGED <<place, loading, panels, picked, retry, login, status,
                 crashed, drifted>>

(* onFailure() of getPackages and subscribe.                               *)
RequestFails(c) ==
  /\ call[c] \in {"getPackages", "subscribe"}
  /\ Done(c)
  /\ AnswerIsLost(c)
  /\ HideAndShow("toast")
  /\ UNCHANGED <<place, loading, panels, picked, retry, prefs, garbled>>

(* onFailure() of getProfile: the clone of the call is never enqueued, and *)
(* nothing hides the spinner before the fifth failure.                     *)
ProfileFails(c) ==
  /\ call[c] = "getProfile"
  /\ Done(c)
  /\ failed' = TRUE
  /\ IF retry <= 3
       THEN retry' = retry + 1 /\ UNCHANGED <<handler, crashed>>
       ELSE UNCHANGED retry /\ HideAndShow("toast")
  /\ UNCHANGED <<place, loading, panels, picked, prefs, status, garbled,
                 drifted>>

(* The provider's status is changed by hand at the server, or expires.     *)
StatusChanges ==
  /\ Drifts
  /\ status' \in Statuses \ {status}
  /\ drifted' = TRUE
  /\ UNCHANGED <<place, loading, panels, picked, handler, call, retry,
                 prefs, crashed, failed, garbled>>

----------------------------------------------------------------------------
(* The main thread: the first runnable *)

Show(p) == panels' = panels \cup {p}

Run(r) ==
  /\ handler # <<>>
  /\ Head(handler) = r
  /\ handler' = Tail(handler)

HideRuns ==
  /\ Run("hide")
  /\ loading' = FALSE
  /\ UNCHANGED <<place, panels, picked, call, retry, prefs, status,
                 crashed, failed, garbled, drifted>>

(* Mutant: the case of no subscription is empty.                           *)
AsksForNothing ==
  /\ attached
  /\ Run("none")
  /\ UNCHANGED <<place, loading, panels, picked, call, retry, prefs,
                 status, crashed, failed, garbled, drifted>>

(* Without a subscription the prices are asked for first.                  *)
AsksForPrices ==
  /\ attached
  /\ Run("none")
  /\ Request("getPackages")
  /\ UNCHANGED <<place, panels, picked, retry, prefs, status, crashed,
                 garbled, drifted>>

(* Mutant: the packages stay under the note.                               *)
ShowsPanelToo ==
  /\ \/ attached /\ Run("active") /\ Show("info")
     \/ attached /\ Run("prices") /\ Show("packages")
     \/ (Run("pending") \/ Run("subscribed")) /\ Show("subscription")
  /\ UNCHANGED <<place, loading, picked, call, retry, prefs, status,
                 crashed, failed, garbled, drifted>>

ShowsPanel ==
  /\ \/ attached /\ Run("active") /\ Show("info")
     \/ attached /\ Run("prices") /\ Show("packages")
     \/ Run("pending") /\ Show("subscription")
     \/ /\ Run("subscribed")
        /\ panels' = (panels \ {"packages"}) \cup {"subscription"}
  /\ UNCHANGED <<place, loading, picked, call, retry, prefs, status,
                 crashed, failed, garbled, drifted>>

ToastRuns ==
  /\ attached
  /\ Run("toast")
  /\ UNCHANGED <<place, loading, panels, picked, call, retry, prefs,
                 status, crashed, failed, garbled, drifted>>

(* getActivity() is null by the time the runnable runs, or parseInt() does *)
(* not like the status or a rating; the panel of an active provider is     *)
(* shown before setData() throws.                                          *)
RunnableThrows ==
  /\ \/ /\ ~attached
        /\ \E r \in {"none", "prices", "toast"} : Run(r)
        /\ UNCHANGED panels
     \/ Run("garbled") /\ UNCHANGED panels
     \/ ~attached /\ Run("active") /\ Show("info")
     \/ Run("unrated") /\ Show("info")
  /\ crashed' = TRUE
  /\ UNCHANGED <<place, loading, picked, call, retry, prefs, status, failed,
                 garbled, drifted>>

----------------------------------------------------------------------------
Reply(c) ==
  \/ ProfileArrives(c) \/ ProfileHasNoName(c) \/ PackagesArrive(c)
  \/ SubscriptionGranted(c) \/ Refused(c) \/ Unreadable(c)
  \/ ErrorIsNoNumber(c) \/ ProfileIsGarbled(c)
  \/ RequestFails(c) \/ ProfileFails(c)

MainThread ==
  \/ HideRuns \/ AsksForPrices \/ ShowsPanel \/ ToastRuns \/ RunnableThrows

Next ==
  /\ ~crashed
  /\ \/ PickPackage \/ Subscribe \/ OpenEditor \/ EditorCloses \/ Leave
     \/ \E c \in Calls : Reply(c)
     \/ StatusChanges
     \/ MainThread

Spec == Init /\ [][Next]_vars

(* OkHttp ends every call, and the main thread goes on.                    *)
FairSpec ==
  /\ Spec
  /\ WF_vars(~crashed /\ MainThread)
  /\ \A c \in Calls : WF_vars(~crashed /\ Reply(c))

----------------------------------------------------------------------------
TypeOK ==
  /\ attached \in BOOLEAN
  /\ editing \in BOOLEAN
  /\ loading \in BOOLEAN
  /\ panels \subseteq Panels
  /\ picked \in BOOLEAN
  /\ handler \in Seq(Runnables)
  /\ call \in [Calls -> Kinds \cup {"none"}]
  /\ retry \in 0..4
  /\ login \in BOOLEAN
  /\ named \in BOOLEAN
  /\ status \in Statuses
  /\ crashed \in BOOLEAN
  /\ failed \in BOOLEAN
  /\ garbled \in BOOLEAN
  /\ drifted \in BOOLEAN

(* While the fragment is there nothing finds getActivity() null: the       *)
(* process dies only of replies and runnables that come after it has gone, *)
(* or of a reply with text where Home reads a number - which it does not   *)
(* survive wherever the user is.                                           *)
CrashOnlyWhenLeft == crashed => ~attached \/ garbled

(* The screen has one panel, and it goes from nothing to the one of the    *)
(* status, from there only from the packages to the note - unless the      *)
(* status changes unseen: nothing then takes the old panel away.           *)
PanelsAdvance ==
  [][ panels' # panels /\ ~drifted =>
        \/ panels = {} /\ panels' = {Panel(status)}
        \/ panels = {"packages"} /\ panels' = {"subscription"} ]_vars

(* Once nothing is on its way, the panel is the one of the status at the   *)
(* server, however many subscriptions were sent, refused or lost unapplied.*)
PanelTellsStatus ==
  /\ attached /\ ~drifted
  /\ handler = <<>>
  /\ \A c \in Calls : call[c] = "none"
  => panels \subseteq {Panel(status)}

(* While the process lives, only a failed getProfile can leave the spinner *)
(* on the screen.                                                          *)
SpinnerEnds == loading ~> ~loading \/ ~attached \/ retry > 0 \/ crashed

(* A Home whose requests are granted, in replies it can read, comes to     *)
(* show a panel.                                                           *)
PanelComes == <>(panels # {} \/ ~attached \/ failed)
==========================================================================
