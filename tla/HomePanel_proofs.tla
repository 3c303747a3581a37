------------------------ MODULE HomePanel_proofs -------------------------
(***************************************************************************)
(* Theorems about HomePanel, for any number of outstanding requests.       *)
(***************************************************************************)
EXTENDS HomePanel, SequenceTheorems, TLAPS

(* Runnables that are posted are added to the queue.                       *)
LEMMA PostKeepsType ==
  ASSUME NEW S, handler \in Seq(S), NEW rs \in Seq(S), Post(rs)
  PROVE  handler' \in Seq(S)
BY ConcatProperties DEF Post

(* Running the first one takes it out.                                     *)
LEMMA RunKeepsType ==
  ASSUME NEW S, handler \in Seq(S), NEW r, Run(r)
  PROVE  /\ handler' \in Seq(S)
         /\ r \in S
BY HeadTailProperties DEF Run

LEMMA ShortPosts ==
  /\ <<"hide">> \in Seq(Runnables)
  /\ \A r \in Runnables : <<"hide", r>> \in Seq(Runnables)
BY DEF Runnables

(* Each reply, whatever it posts, keeps the types.                         *)
LEMMA HideAndShowKeepsType ==
  ASSUME handler \in Seq(Runnables), crashed \in BOOLEAN,
         NEW r \in Runnables, HideAndShow(r)
  PROVE  handler' \in Seq(Runnables) /\ crashed' \in BOOLEAN
<1>1. <<"hide", r>> \in Seq(Runnables)
  BY ShortPosts
<1> QED
  BY <1>1, PostKeepsType DEF HideAndShow

LEMMA TypeStep ==
  ASSUME TypeOK, [Next]_vars
  PROVE  TypeOK'
<1> USE DEF TypeOK
<1>0. /\ "hide" \in Runnables /\ "toast" \in Runnables
      /\ "prices" \in Runnables /\ "subscribed" \in Runnables
      /\ "garbled" \in Runnables /\ "unrated" \in Runnables
      /\ status \in Runnables
  BY DEF Runnables, Statuses
<1>1. CASE UNCHANGED vars
  BY <1>1 DEF vars
<1>2. CASE PickPackage
  BY <1>2 DEF PickPackage, place, prefs
<1>3. CASE Subscribe
  BY <1>3 DEF Subscribe, Request, place, prefs, Kinds
<1>4. CASE OpenEditor
  BY <1>4 DEF OpenEditor, prefs
<1>5. CASE EditorCloses
  BY <1>5 DEF EditorCloses, Request, prefs, Kinds
<1>6. CASE Leave
  BY <1>6 DEF Leave, prefs
<1>7. CASE StatusChanges
  BY <1>7 DEF StatusChanges, place, prefs
<1>8. ASSUME NEW c \in Calls, Reply(c)
      PROVE  TypeOK'
  <2>0. ASSUME Done(c)
        PROVE  call' \in [Calls -> Kinds \cup {"none"}]
    BY <2>0 DEF Done
  <2>1. CASE ProfileArrives(c)
    <3>1. <<"hide", status>> \in Seq(Runnables)
      BY <1>0, ShortPosts
    <3>2. handler' \in Seq(Runnables)
      BY <2>1, <3>1, PostKeepsType DEF ProfileArrives
    <3> QED
      BY <2>0, <2>1, <3>2 DEF ProfileArrives, place
  <2>2. CASE ProfileHasNoName(c)
    <3>1. handler' \in Seq(Runnables)
      BY <2>2, ShortPosts, PostKeepsType DEF ProfileHasNoName
    <3> QED
      BY <2>0, <2>2, <3>1 DEF ProfileHasNoName
  <2>3. CASE PackagesArrive(c)
    <3>1. handler' \in Seq(Runnables) /\ crashed' \in BOOLEAN
      BY <1>0, <2>3, HideAndShowKeepsType DEF PackagesArrive
    <3> QED
      BY <2>0, <2>3, <3>1 DEF PackagesArrive, place, prefs
  <2>4. CASE SubscriptionGranted(c)
    <3>1. handler' \in Seq(Runnables) /\ crashed' \in BOOLEAN
      BY <1>0, <2>4, HideAndShowKeepsType DEF SubscriptionGranted
    <3> QED
      BY <2>0, <2>4, <3>1
         DEF SubscriptionGranted, Subscribed, Statuses, place, prefs
  <2>5. CASE Refused(c)
    <3>1. handler' \in Seq(Runnables) /\ crashed' \in BOOLEAN
      BY <1>0, <2>5, HideAndShowKeepsType DEF Refused
    <3> QED
      BY <2>0, <2>5, <3>1 DEF Refused, place, prefs
  <2>6. CASE Unreadable(c)
    <3>1. handler' \in Seq(Runnables) /\ crashed' \in BOOLEAN
      BY <2>6, ShortPosts, PostKeepsType DEF Unreadable, HideOnly
    <3> QED
      BY <2>0, <2>6, <3>1
         DEF Unreadable, AnswerIsLost, Subscribed, Statuses, place
  <2>7. CASE RequestFails(c)
    <3>1. handler' \in Seq(Runnables) /\ crashed' \in BOOLEAN
      BY <1>0, <2>7, HideAndShowKeepsType DEF RequestFails
    <3> QED
      BY <2>0, <2>7, <3>1
         DEF RequestFails, AnswerIsLost, Subscribed, Statuses, place, prefs
  <2>8. CASE ProfileFails(c)
    <3>1. handler' \in Seq(Runnables) /\ crashed' \in BOOLEAN
      BY <1>0, <2>8, HideAndShowKeepsType DEF ProfileFails
    <3> QED
      BY <2>0, <2>8, <3>1 DEF ProfileFails, place, prefs
  <2>9. CASE ErrorIsNoNumber(c)
    <3>1. handler' \in Seq(Runnables)
      BY <2>9, ShortPosts, PostKeepsType DEF ErrorIsNoNumber
    <3> QED
      BY <2>0, <2>9, <3>1
         DEF ErrorIsNoNumber, AnswerIsLost, Subscribed, Statuses, place, prefs
  <2>10. CASE ProfileIsGarbled(c)
    <3>1. /\ <<"hide", "garbled">> \in Seq(Runnables)
          /\ <<"hide", "unrated">> \in Seq(Runnables)
      BY <1>0, ShortPosts
    <3>2. handler' \in Seq(Runnables)
      BY <2>10, <3>1, PostKeepsType DEF ProfileIsGarbled
    <3> QED
      BY <2>0, <2>10, <3>2 DEF ProfileIsGarbled, place
  <2> QED
    BY <1>8, <2>1, <2>2, <2>3, <2>4, <2>5, <2>6, <2>7, <2>8, <2>9, <2>10
       DEF Reply
<1>9. CASE MainThread
  <2>1. CASE HideRuns
    BY <2>1, RunKeepsType DEF HideRuns, place, prefs
  <2>2. CASE AsksForPrices
    BY <2>2, RunKeepsType DEF AsksForPrices, Request, Kinds, place, prefs
  <2>3. CASE ShowsPanel
    <3>1. handler' \in Seq(Runnables)
      BY <2>3, RunKeepsType DEF ShowsPanel
    <3>2. panels' \subseteq Panels
      BY <2>3 DEF ShowsPanel, Show, Panels, Panel, Statuses
    <3> QED
      BY <2>3, <3>1, <3>2 DEF ShowsPanel, place, prefs
  <2>4. CASE ToastRuns
    BY <2>4, RunKeepsType DEF ToastRuns, place, prefs
  <2>5. CASE RunnableThrows
    <3>1. handler' \in Seq(Runnables)
      BY <2>5, RunKeepsType DEF RunnableThrows
    <3>2. panels' \subseteq Panels
      BY <2>5 DEF RunnableThrows, Show, Panels, Panel, Statuses
    <3> QED
      BY <2>5, <3>1, <3>2 DEF RunnableThrows, place, prefs
  <2> QED
    BY <1>9, <2>1, <2>2, <2>3, <2>4, <2>5 DEF MainThread
<1> QED
  BY <1>1, <1>2, <1>3, <1>4, <1>5, <1>6, <1>7, <1>8, <1>9 DEF Next

LEMMA TypeInit == ASSUME Init PROVE TypeOK
<1>1. call \in [Calls -> Kinds \cup {"none"}]
  BY DEF Init, Kinds
<1>2. handler \in Seq(Runnables)
  BY DEF Init
<1>3. loading \in BOOLEAN /\ failed \in BOOLEAN /\ garbled \in BOOLEAN
  BY DEF Init
<1>4. /\ attached \in BOOLEAN /\ editing \in BOOLEAN /\ picked \in BOOLEAN
      /\ login \in BOOLEAN /\ crashed \in BOOLEAN /\ drifted \in BOOLEAN
      /\ named \in BOOLEAN
  BY DEF Init
<1>5. panels \subseteq Panels /\ retry \in 0..4 /\ status \in Statuses
  BY DEF Init
<1> QED
  BY <1>1, <1>2, <1>3, <1>4, <1>5 DEF TypeOK

(* The variables keep their types, however many requests are outstanding.  *)
THEOREM TypeCorrect == Spec => []TypeOK
BY TypeInit, TypeStep, PTL DEF Spec

(* What can be posted while every reply has had its numbers.               *)
Readable == Runnables \ {"garbled", "unrated"}

(* A runnable that will not parse has come from such a reply.              *)
GarbledKnown == ~garbled => handler \in Seq(Readable)

LEMMA GarbledStep ==
  ASSUME TypeOK, GarbledKnown, [Next]_vars
  PROVE  GarbledKnown'
<1> SUFFICES ASSUME ~garbled' PROVE handler' \in Seq(Readable)
  BY DEF GarbledKnown
<1>0. /\ <<"hide">> \in Seq(Readable)
      /\ \A r \in Readable : <<"hide", r>> \in Seq(Readable)
      /\ status \in Readable /\ "toast" \in Readable
      /\ "prices" \in Readable /\ "subscribed" \in Readable
  BY DEF Readable, Runnables, TypeOK, Statuses
<1>1. CASE UNCHANGED vars
  BY <1>1 DEF vars, GarbledKnown
<1>2. CASE PickPackage \/ Subscribe \/ OpenEditor \/ EditorCloses \/ Leave
           \/ StatusChanges
  BY <1>2 DEF PickPackage, Subscribe, OpenEditor, EditorCloses, Leave,
              StatusChanges, GarbledKnown
<1>3. ASSUME NEW c \in Calls, Reply(c)
      PROVE  handler' \in Seq(Readable)
  <2>1. ~garbled
    BY <1>3 DEF Reply, ProfileArrives, ProfileHasNoName, PackagesArrive,
                SubscriptionGranted, Refused, Unreadable, ErrorIsNoNumber,
                ProfileIsGarbled, RequestFails, ProfileFails
  <2>2. \/ UNCHANGED handler
        \/ Post(<<"hide">>)
        \/ \E r \in Readable : Post(<<"hide", r>>)
    BY <1>0, <1>3 DEF Reply, ProfileArrives, ProfileHasNoName, PackagesArrive,
                SubscriptionGranted, Refused, Unreadable, ErrorIsNoNumber,
                ProfileIsGarbled, RequestFails, ProfileFails, HideAndShow,
                HideOnly
  <2> QED
    BY <1>0, <2>1, <2>2, PostKeepsType DEF GarbledKnown
<1>4. CASE MainThread
  <2>1. ~garbled /\ \E r : Run(r)
    BY <1>4 DEF MainThread, HideRuns, AsksForPrices, ShowsPanel, ToastRuns,
                RunnableThrows
  <2> QED
    BY <2>1, RunKeepsType DEF GarbledKnown
<1> QED
  BY <1>1, <1>2, <1>3, <1>4 DEF Next

(* Nothing but a number that does not parse brings the process down while  *)
(* the fragment is there.                                                  *)
THEOREM CrashesOnlyWhenLeft == Spec => []CrashOnlyWhenLeft
<1>1. Init => CrashOnlyWhenLeft /\ GarbledKnown
  BY DEF Init, CrashOnlyWhenLeft, GarbledKnown
<1>2. TypeOK /\ GarbledKnown /\ CrashOnlyWhenLeft /\ [Next]_vars
        => CrashOnlyWhenLeft'
  <2> SUFFICES ASSUME TypeOK, GarbledKnown, CrashOnlyWhenLeft, [Next]_vars
               PROVE  CrashOnlyWhenLeft'
    OBVIOUS
  <2> USE DEF CrashOnlyWhenLeft, place
  <2>1. CASE UNCHANGED vars
    BY <2>1 DEF vars
  <2>2. ASSUME ~crashed, PickPackage \/ Subscribe \/ OpenEditor \/ EditorCloses
                         \/ Leave \/ StatusChanges
        PROVE  CrashOnlyWhenLeft'
    BY <2>2 DEF PickPackage, Subscribe, OpenEditor, EditorCloses, Leave,
                StatusChanges
  <2>3. ASSUME ~crashed, NEW c \in Calls, Reply(c)
        PROVE  CrashOnlyWhenLeft'
    BY <2>3 DEF Reply, ProfileArrives, ProfileHasNoName, PackagesArrive,
                SubscriptionGranted, Refused, Unreadable, ErrorIsNoNumber,
                ProfileIsGarbled, RequestFails, ProfileFails, HideAndShow,
                HideOnly
  <2>4. CASE RunnableThrows
    <3>1. Run("garbled") \/ Run("unrated") => garbled
      BY RunKeepsType DEF GarbledKnown, Readable
    <3> QED
      BY <2>4, <3>1 DEF RunnableThrows
  <2>5. ASSUME ~crashed, HideRuns \/ AsksForPrices \/ ShowsPanel \/ ToastRuns
        PROVE  CrashOnlyWhenLeft'
    BY <2>5 DEF HideRuns, AsksForPrices, ShowsPanel, ToastRuns
  <2> QED
    BY <2>1, <2>2, <2>3, <2>4, <2>5 DEF Next, MainThread
<1> QED
  BY <1>1, <1>2, TypeCorrect, GarbledStep, PTL DEF Spec

----------------------------------------------------------------------------
(* Why there is one panel, the one of the status                           *)

InFlight(kinds) == \A c \in Calls : call[c] \in kinds \cup {"none"}

(* At most one request, and it is of this kind.                            *)
OneInFlight(kind) ==
  \E c \in Calls :
     /\ call[c] = kind
     /\ \A d \in Calls \ {c} : call[d] = "none"

Waiting(r) == \E i \in 1..Len(handler) : handler[i] = r

(* The provider is active, and the profile may be read again and again.    *)
ActivePhase ==
  /\ status = "active"
  /\ panels \subseteq {"info"}
  /\ InFlight({"getProfile"})
  /\ handler \in Seq({"hide", "toast", "active", "garbled", "unrated"})

(* The provider had applied before.                                        *)
PendingPhase ==
  /\ status = "pending" /\ ~editing
  /\ panels \subseteq {"subscription"}
  /\ InFlight({"getProfile"})
  /\ handler \in Seq({"hide", "toast", "pending", "garbled"})

(* What the replies on the way to the packages post.                       *)
Asked == {"toast", "none", "prices", "garbled"}

(* No subscription: the profile and then the prices are asked for, one     *)
(* thing at a time.                                                        *)
AskingPhase ==
  /\ status = "none" /\ ~editing
  /\ panels = {}
  /\ \/ /\ OneInFlight("getProfile") \/ OneInFlight("getPackages")
        /\ handler = <<>>
     \/ /\ InFlight({})
        /\ handler \in {<<>>, <<"hide">>}
                       \cup {<<r>> : r \in Asked}
                       \cup {<<"hide", r>> : r \in Asked}

(* The packages are shown, and nothing but subscriptions is sent.          *)
OfferPhase ==
  /\ status = "none" /\ ~editing
  /\ panels = {"packages"}
  /\ InFlight({"subscribe"})
  /\ handler \in Seq({"hide", "toast"})

(* One was granted: the packages give way once the main thread comes to it.*)
GrantedPhase ==
  /\ status = "pending" /\ ~editing
  /\ panels \in {{"packages"}, {"subscription"}}
  /\ InFlight({"subscribe"})
  /\ handler \in Seq({"hide", "toast", "subscribed"})
  /\ attached /\ "packages" \in panels => Waiting("subscribed")

PanelInv ==
  drifted \/ ActivePhase \/ PendingPhase \/ AskingPhase \/ OfferPhase
          \/ GrantedPhase

(* What the user can do, while the status does not drift.                  *)
UserStep ==
  PickPackage \/ Subscribe \/ OpenEditor \/ EditorCloses \/ Leave \/ StatusChanges

LEMMA UserShape ==
  ASSUME UserStep, ~drifted'
  PROVE  /\ UNCHANGED <<panels, handler, status>>
         /\ attached' => attached
         /\ \/ UNCHANGED <<editing, call>>
            \/ /\ "packages" \in panels
               /\ Request("subscribe") /\ UNCHANGED editing
            \/ "info" \in panels /\ UNCHANGED call
            \/ editing /\ (Request("getProfile") \/ UNCHANGED call)
BY DEF UserStep, PickPackage, Subscribe, OpenEditor, EditorCloses, Leave,
       StatusChanges, place

(* What a reply does, unless it is one that lets the status drift.         *)
LEMMA ReplyShape ==
  ASSUME NEW c \in Calls, Reply(c), ~drifted'
  PROVE  /\ call[c] # "none" /\ Done(c)
         /\ UNCHANGED <<panels, editing>>
         /\ \/ /\ UNCHANGED status
               /\ \/ UNCHANGED handler
                  \/ Post(<<"hide">>)
                  \/ Post(<<"hide", "toast">>)
                  \/ call[c] = "getProfile" /\ Post(<<"hide", status>>)
                  \/ call[c] = "getPackages" /\ Post(<<"hide", "prices">>)
                  \/ call[c] = "getProfile" /\ Post(<<"hide", "garbled">>)
                  \/ /\ call[c] = "getProfile" /\ status = "active"
                     /\ Post(<<"hide", "unrated">>)
            \/ /\ call[c] = "subscribe"
               /\ status' = Subscribed
               /\ IF attached THEN Post(<<"hide", "subscribed">>)
                              ELSE UNCHANGED handler
         /\ attached' => attached
<1> USE DEF place
<1>1. CASE ProfileArrives(c)
  BY <1>1 DEF ProfileArrives
<1>2. CASE ProfileHasNoName(c)
  BY <1>2 DEF ProfileHasNoName
<1>3. CASE PackagesArrive(c)
  BY <1>3 DEF PackagesArrive, HideAndShow
<1>4. CASE SubscriptionGranted(c)
  BY <1>4 DEF SubscriptionGranted, HideAndShow
<1>5. CASE Refused(c)
  BY <1>5 DEF Refused, HideAndShow
<1>6. CASE Unreadable(c)
  BY <1>6 DEF Unreadable, AnswerIsLost, HideOnly
<1>7. CASE RequestFails(c)
  BY <1>7 DEF RequestFails, AnswerIsLost, HideAndShow
<1>8. CASE ProfileFails(c)
  BY <1>8 DEF ProfileFails, HideAndShow
<1>9. CASE ErrorIsNoNumber(c)
  BY <1>9 DEF ErrorIsNoNumber, AnswerIsLost
<1>10. CASE ProfileIsGarbled(c)
  BY <1>10 DEF ProfileIsGarbled
<1> QED
  BY <1>1, <1>2, <1>3, <1>4, <1>5, <1>6, <1>7, <1>8, <1>9, <1>10 DEF Reply

(* What the main thread does with the first runnable.                      *)
LEMMA MainThreadShape ==
  ASSUME MainThread
  PROVE  /\ UNCHANGED <<place, status, drifted>>
         /\ \/ \E r \in Runnables \ {"subscribed"} :
                  Run(r) /\ UNCHANGED <<panels, call>>
            \/ Run("none") /\ Request("getPackages") /\ UNCHANGED panels
            \/ Run("active") /\ Show("info") /\ UNCHANGED call
            \/ Run("unrated") /\ Show("info") /\ UNCHANGED call
            \/ Run("prices") /\ Show("packages") /\ UNCHANGED call
            \/ Run("pending") /\ Show("subscription") /\ UNCHANGED call
            \/ /\ Run("subscribed")
               /\ panels' = (panels \ {"packages"}) \cup {"subscription"}
               /\ UNCHANGED call
<1>0. {"hide", "toast", "none", "active", "prices", "garbled"}
        \subseteq Runnables \ {"subscribed"}
  BY DEF Runnables, Statuses
<1>1. CASE HideRuns
  BY <1>0, <1>1 DEF HideRuns
<1>2. CASE AsksForPrices
  BY <1>2 DEF AsksForPrices
<1>3. CASE ShowsPanel
  BY <1>3 DEF ShowsPanel
<1>4. CASE ToastRuns
  BY <1>0, <1>4 DEF ToastRuns
<1>5. CASE RunnableThrows
  BY <1>0, <1>5 DEF RunnableThrows
<1> QED
  BY <1>1, <1>2, <1>3, <1>4, <1>5 DEF MainThread

(* The ends of requests.                                                   *)
LEMMA DoneKeepsKinds ==
  ASSUME TypeOK, NEW kinds, InFlight(kinds), NEW c \in Calls, Done(c)
  PROVE  InFlight(kinds)'
BY DEF TypeOK, InFlight, Done

LEMMA DoneEndsTheOne ==
  ASSUME TypeOK, NEW kind, OneInFlight(kind), NEW c \in Calls,
         call[c] # "none", Done(c)
  PROVE  call[c] = kind /\ InFlight({})'
BY DEF TypeOK, InFlight, OneInFlight, Done

(* And their beginning.                                                    *)
LEMMA RequestKeepsKinds ==
  ASSUME TypeOK, NEW kinds, InFlight(kinds), NEW kind \in kinds, Request(kind)
  PROVE  InFlight(kinds)'
BY DEF TypeOK, InFlight, Request

LEMMA RequestStartsOne ==
  ASSUME TypeOK, InFlight({}), NEW kind, Request(kind)
  PROVE  OneInFlight(kind)' \/ InFlight({})'
BY DEF TypeOK, InFlight, OneInFlight, Request

LEMMA DriftedForGood == ASSUME Next, drifted, TypeOK PROVE drifted'
<1>1. CASE UserStep
  BY <1>1 DEF UserStep, PickPackage, Subscribe, OpenEditor, EditorCloses,
              Leave, StatusChanges
<1>2. CASE MainThread
  BY <1>2, MainThreadShape
<1>3. ASSUME NEW c \in Calls, Reply(c)
      PROVE  drifted'
  BY <1>3 DEF Reply, ProfileArrives, ProfileHasNoName, PackagesArrive,
              SubscriptionGranted, Refused, Unreadable, ErrorIsNoNumber,
              ProfileIsGarbled, RequestFails, ProfileFails, AnswerIsLost
<1> QED
  BY <1>1, <1>2, <1>3 DEF Next, UserStep

(* Only the main thread touches the panels, and it takes away only the     *)
(* packages.                                                               *)
LEMMA PanelsOfMainThread ==
  ASSUME Next, panels' # panels
  PROVE  MainThread
<1>1. ASSUME UserStep PROVE panels' = panels
  BY <1>1 DEF UserStep, PickPackage, Subscribe, OpenEditor, EditorCloses,
              Leave, StatusChanges
<1>2. ASSUME NEW c \in Calls, Reply(c)
      PROVE  panels' = panels
  BY <1>2 DEF Reply, ProfileArrives, ProfileHasNoName, PackagesArrive,
              SubscriptionGranted, Refused, Unreadable, ErrorIsNoNumber,
              ProfileIsGarbled, RequestFails, ProfileFails
<1> QED
  BY <1>1, <1>2 DEF Next, UserStep

LEMMA PanelsGrow ==
  ASSUME MainThread
  PROVE  \/ panels \subseteq panels'
         \/ panels' = (panels \ {"packages"}) \cup {"subscription"}
BY MainThreadShape DEF Show

(* What waits for the main thread waits until it is its turn.              *)
LEMMA PostedWaits ==
  ASSUME NEW S, handler \in Seq(S), NEW r, Post(<<"hide", r>>)
  PROVE  Waiting(r)'
<1>1. Len(handler) \in Nat
  OBVIOUS
<1>2. /\ Len(handler') = Len(handler) + 2
      /\ handler'[Len(handler) + 2] = r
  BY <1>1, ConcatProperties DEF Post
<1> QED
  BY <1>1, <1>2 DEF Waiting

LEMMA PostKeepsWaiting ==
  ASSUME NEW S, handler \in Seq(S), NEW r, Waiting(r),
         NEW rs \in Seq(S), Post(rs)
  PROVE  Waiting(r)'
<1>1. PICK i \in 1..Len(handler) : handler[i] = r
  BY DEF Waiting
<1>2. Len(handler') = Len(handler) + Len(rs) /\ handler'[i] = r
  BY <1>1, ConcatProperties DEF Post
<1> QED
  BY <1>2 DEF Waiting

LEMMA RunKeepsWaiting ==
  ASSUME NEW S, handler \in Seq(S), NEW q, Run(q), NEW r, r # q, Waiting(r)
  PROVE  Waiting(r)'
<1>1. PICK i \in 1..Len(handler) : handler[i] = r
  BY DEF Waiting
<1>2. /\ handler # <<>> /\ handler[1] = q
      /\ handler' = Tail(handler)
  BY DEF Run
<1>3. i # 1 /\ i - 1 \in 1..(Len(handler) - 1)
  BY <1>1, <1>2
<1>4. Len(handler') = Len(handler) - 1 /\ handler'[i - 1] = handler[i]
  BY <1>2, <1>3
<1> QED
  BY <1>1, <1>3, <1>4 DEF Waiting

(* A step of an active provider, who can only open the editor.             *)
LEMMA ActiveStep ==
  ASSUME TypeOK, ActivePhase, Next, ~drifted'
  PROVE  ActivePhase'
<1> DEFINE S == {"hide", "toast", "active", "garbled", "unrated"}
<1>0. /\ \A r \in {"toast", "active", "garbled", "unrated"} :
           <<"hide", r>> \in Seq(S)
      /\ <<"hide">> \in Seq(S)
  OBVIOUS
<1>2. CASE UserStep
  <2>1. /\ UNCHANGED <<panels, handler, status>>
        /\ UNCHANGED call \/ Request("getProfile")
    BY <1>2, UserShape DEF ActivePhase
  <2>2. InFlight({"getProfile"})'
    BY <2>1, RequestKeepsKinds DEF ActivePhase, InFlight
  <2> QED
    BY <2>1, <2>2 DEF ActivePhase
<1>4. ASSUME NEW c \in Calls, Reply(c)
      PROVE  ActivePhase'
  <2>1. call[c] = "getProfile" /\ status' = status /\ panels' = panels
    BY <1>4, ReplyShape DEF ActivePhase, InFlight
  <2>2. InFlight({"getProfile"})'
    BY <1>4, ReplyShape, DoneKeepsKinds DEF ActivePhase
  <2>3. UNCHANGED handler \/ \E rs \in Seq(S) : Post(rs)
    BY <1>0, <1>4, <2>1, ReplyShape DEF ActivePhase
  <2>4. handler' \in Seq(S)
    BY <2>3, PostKeepsType DEF ActivePhase
  <2> QED
    BY <2>1, <2>2, <2>4 DEF ActivePhase
<1>5. CASE MainThread
  <2>1. \A r : Run(r) => handler' \in Seq(S) /\ r \in S
    BY RunKeepsType DEF ActivePhase
  <2>2. \/ UNCHANGED <<panels, call>>
        \/ panels' = panels \cup {"info"} /\ UNCHANGED call
    BY <1>5, <2>1, MainThreadShape DEF Show
  <2>3. handler' \in Seq(S) /\ UNCHANGED status
    BY <1>5, <2>1, MainThreadShape
  <2> QED
    BY <2>2, <2>3 DEF ActivePhase, InFlight
<1> QED
  BY <1>2, <1>4, <1>5 DEF Next, UserStep

(* A step of a provider who is waiting.                                    *)
LEMMA PendingStep ==
  ASSUME TypeOK, PendingPhase, Next, ~drifted'
  PROVE  PendingPhase'
<1> DEFINE S == {"hide", "toast", "pending", "garbled"}
<1>0. /\ \A r \in {"toast", "pending", "garbled"} : <<"hide", r>> \in Seq(S)
      /\ <<"hide">> \in Seq(S)
  OBVIOUS
<1>2. CASE UserStep
  <2>1. UNCHANGED <<panels, handler, status, editing, call>>
    BY <1>2, UserShape DEF PendingPhase
  <2> QED
    BY <2>1 DEF PendingPhase, InFlight
<1>3. ASSUME NEW c \in Calls, Reply(c)
      PROVE  PendingPhase'
  <2>1. call[c] = "getProfile" /\ UNCHANGED <<status, panels, editing>>
    BY <1>3, ReplyShape DEF PendingPhase, InFlight
  <2>2. InFlight({"getProfile"})'
    BY <1>3, ReplyShape, DoneKeepsKinds DEF PendingPhase
  <2>3. UNCHANGED handler \/ \E rs \in Seq(S) : Post(rs)
    BY <1>0, <1>3, <2>1, ReplyShape DEF PendingPhase
  <2>4. handler' \in Seq(S)
    BY <2>3, PostKeepsType DEF PendingPhase
  <2> QED
    BY <2>1, <2>2, <2>4 DEF PendingPhase
<1>4. CASE MainThread
  <2>1. \A r : Run(r) => handler' \in Seq(S) /\ r \in S
    BY RunKeepsType DEF PendingPhase
  <2>2. \/ UNCHANGED <<panels, call>>
        \/ panels' = panels \cup {"subscription"} /\ UNCHANGED call
    BY <1>4, <2>1, MainThreadShape DEF Show
  <2>3. handler' \in Seq(S) /\ UNCHANGED <<status, editing>>
    BY <1>4, <2>1, MainThreadShape DEF place
  <2> QED
    BY <2>2, <2>3 DEF PendingPhase, InFlight
<1> QED
  BY <1>2, <1>3, <1>4 DEF Next, UserStep

(* A step towards the packages.                                            *)
LEMMA AskingStep ==
  ASSUME TypeOK, AskingPhase, Next, ~drifted'
  PROVE  AskingPhase' \/ OfferPhase'
<1>2. CASE UserStep
  <2>1. UNCHANGED <<panels, handler, status, editing, call>>
    BY <1>2, UserShape DEF AskingPhase
  <2> QED
    BY <2>1 DEF AskingPhase, InFlight, OneInFlight
<1>3. ASSUME NEW c \in Calls, Reply(c)
      PROVE  AskingPhase'
  <2>1. /\ OneInFlight("getProfile") \/ OneInFlight("getPackages")
        /\ handler = <<>>
    BY <1>3, ReplyShape DEF AskingPhase, InFlight
  <2>2. InFlight({})' /\ call[c] \in {"getProfile", "getPackages"}
    BY <1>3, <2>1, ReplyShape, DoneEndsTheOne
  <2>3. UNCHANGED <<status, panels, editing>>
    BY <1>3, <2>2, ReplyShape
  <2>4. \/ UNCHANGED handler
        \/ Post(<<"hide">>)
        \/ \E r \in Asked : Post(<<"hide", r>>)
    BY <1>3, <2>2, ReplyShape DEF AskingPhase, Asked
  <2>5. handler' \in {<<>>, <<"hide">>}
                     \cup {<<"hide", r>> : r \in Asked}
    BY <2>1, <2>4 DEF Post
  <2> QED
    BY <2>2, <2>3, <2>5 DEF AskingPhase
<1>4. CASE MainThread
  <2>1. PICK r : Run(r)
    BY <1>4, MainThreadShape
  <2>2. /\ UNCHANGED <<status, editing>>
    BY <1>4, MainThreadShape DEF place
  <2>3. /\ InFlight({})
        /\ handler \in {<<"hide">>}
                       \cup {<<q>> : q \in Asked}
                       \cup {<<"hide", q>> : q \in Asked}
    BY <2>1 DEF AskingPhase, Run
  <2>4. CASE Len(handler) = 2
    <3>1. PICK q \in Asked : handler = <<"hide", q>>
      BY <2>3, <2>4
    <3>2. \A p : Run(p) => p = "hide" /\ handler' = <<q>>
      BY <3>1 DEF Run
    <3>3. UNCHANGED <<panels, call>> /\ handler' = <<q>>
      BY <1>4, <3>2, MainThreadShape
    <3> QED
      BY <2>2, <2>3, <3>3 DEF AskingPhase, InFlight
  <2>5. CASE Len(handler) # 2
    <3>0. \A q \in Asked : handler # <<"hide", q>>
      BY <2>5
    <3>1. PICK q \in {"hide"} \cup Asked : handler = <<q>>
      BY <2>3, <3>0
    <3>2. \A p : Run(p) => p = q /\ handler' = <<>>
      BY <3>1 DEF Run
    <3>3. handler' = <<>>
      BY <2>1, <3>2
    <3>4. \/ UNCHANGED <<panels, call>>
          \/ Request("getPackages") /\ UNCHANGED panels
          \/ Show("packages") /\ UNCHANGED call
      BY <1>4, <3>1, <3>2, MainThreadShape DEF Asked
    <3>5. CASE UNCHANGED <<panels, call>>
      BY <2>2, <2>3, <3>3, <3>5 DEF AskingPhase, InFlight
    <3>6. CASE Request("getPackages") /\ UNCHANGED panels
      BY <2>2, <2>3, <3>3, <3>6, RequestStartsOne DEF AskingPhase
    <3>7. CASE Show("packages") /\ UNCHANGED call
      <4>1. panels' = {"packages"}
        BY <3>7 DEF Show, AskingPhase
      <4>2. InFlight({"subscribe"})'
        BY <2>3, <3>7 DEF InFlight
      <4>3. handler' \in Seq({"hide", "toast"})
        BY <3>3
      <4> QED
        BY <2>2, <4>1, <4>2, <4>3 DEF AskingPhase, OfferPhase
    <3> QED
      BY <3>4, <3>5, <3>6, <3>7
  <2> QED
    BY <2>4, <2>5
<1> QED
  BY <1>2, <1>3, <1>4 DEF Next, UserStep

(* A step of a provider who looks at the packages.                         *)
LEMMA OfferStep ==
  ASSUME TypeOK, OfferPhase, Next, ~drifted'
  PROVE  OfferPhase' \/ GrantedPhase'
<1> DEFINE S == {"hide", "toast"}
<1> DEFINE G == {"hide", "toast", "subscribed"}
<1>0. /\ <<"hide">> \in Seq(S) /\ <<"hide", "toast">> \in Seq(S)
      /\ <<"hide", "subscribed">> \in Seq(G)
  OBVIOUS
<1>1. CASE UserStep
  <2>1. /\ UNCHANGED <<panels, handler, status, editing>>
        /\ UNCHANGED call \/ Request("subscribe")
    BY <1>1, UserShape DEF OfferPhase
  <2>2. InFlight({"subscribe"})'
    BY <2>1, RequestKeepsKinds DEF OfferPhase, InFlight
  <2> QED
    BY <2>1, <2>2 DEF OfferPhase
<1>2. ASSUME NEW c \in Calls, Reply(c)
      PROVE  OfferPhase' \/ GrantedPhase'
  <2>1. call[c] = "subscribe" /\ UNCHANGED <<panels, editing>>
    BY <1>2, ReplyShape DEF OfferPhase, InFlight
  <2>2. InFlight({"subscribe"})'
    BY <1>2, ReplyShape, DoneKeepsKinds DEF OfferPhase
  <2>3. CASE /\ UNCHANGED status
             /\ UNCHANGED handler \/ \E rs \in Seq(S) : Post(rs)
    <3>1. handler' \in Seq(S)
      BY <2>3, PostKeepsType DEF OfferPhase
    <3> QED
      BY <2>1, <2>2, <2>3, <3>1 DEF OfferPhase
  <2>4. CASE /\ status' = Subscribed
             /\ IF attached THEN Post(<<"hide", "subscribed">>)
                            ELSE UNCHANGED handler
    <3>1. handler \in Seq(G) /\ status' = "pending"
      BY <2>4 DEF OfferPhase, Subscribed
    <3>2. handler' \in Seq(G)
      BY <1>0, <2>4, <3>1, PostKeepsType
    <3>3. attached' => Waiting("subscribed")'
      BY <1>2, <2>4, <3>1, PostedWaits, ReplyShape
    <3> QED
      BY <2>1, <2>2, <3>1, <3>2, <3>3 DEF OfferPhase, GrantedPhase
  <2> QED
    BY <1>0, <1>2, <2>1, <2>3, <2>4, ReplyShape
<1>3. CASE MainThread
  <2>1. \A r : Run(r) => handler' \in Seq(S) /\ r \in S
    BY RunKeepsType DEF OfferPhase
  <2>2. UNCHANGED <<panels, call, status, editing>> /\ handler' \in Seq(S)
    BY <1>3, <2>1, MainThreadShape DEF place
  <2> QED
    BY <2>2 DEF OfferPhase, InFlight
<1> QED
  BY <1>1, <1>2, <1>3 DEF Next, UserStep

(* A step after a subscription was granted: the note only has to wait for  *)
(* the main thread.                                                        *)
LEMMA GrantedStep ==
  ASSUME TypeOK, GrantedPhase, Next, ~drifted'
  PROVE  GrantedPhase'
<1> DEFINE G == {"hide", "toast", "subscribed"}
<1>0. handler \in Seq(G) /\ panels \in {{"packages"}, {"subscription"}}
  BY DEF GrantedPhase
<1>g. /\ <<"hide">> \in Seq(G) /\ <<"hide", "toast">> \in Seq(G)
       /\ <<"hide", "subscribed">> \in Seq(G)
  OBVIOUS
<1>1. CASE UserStep
  <2>1. /\ UNCHANGED <<panels, handler, status, editing>>
        /\ UNCHANGED call \/ Request("subscribe")
        /\ attached' => attached
    BY <1>1, UserShape DEF GrantedPhase
  <2>2. InFlight({"subscribe"})'
    BY <2>1, RequestKeepsKinds DEF GrantedPhase, InFlight
  <2> QED
    BY <2>1, <2>2 DEF GrantedPhase, Waiting
<1>2. ASSUME NEW c \in Calls, Reply(c)
      PROVE  GrantedPhase'
  <2>1. /\ call[c] = "subscribe" /\ UNCHANGED <<panels, editing, status>>
        /\ attached' => attached
    BY <1>2, ReplyShape DEF GrantedPhase, InFlight, Subscribed
  <2>2. InFlight({"subscribe"})'
    BY <1>2, ReplyShape, DoneKeepsKinds DEF GrantedPhase
  <2>3. UNCHANGED handler \/ \E rs \in Seq(G) : Post(rs)
    BY <1>g, <1>2, <2>1, ReplyShape
  <2>4. handler' \in Seq(G)
    BY <1>0, <2>3, PostKeepsType
  <2>5. Waiting("subscribed") => Waiting("subscribed")'
    BY <1>0, <2>3, PostKeepsWaiting DEF Waiting
  <2> QED
    BY <2>1, <2>2, <2>4, <2>5 DEF GrantedPhase
<1>3. CASE MainThread
  <2>1. \A r : Run(r) => handler' \in Seq(G) /\ r \in G
    BY <1>0, RunKeepsType
  <2>2. UNCHANGED <<call, status, place>> /\ handler' \in Seq(G)
    BY <1>3, <2>1, MainThreadShape
  <2>3. CASE \E r \in Runnables \ {"subscribed"} : Run(r) /\ UNCHANGED panels
    <3>1. Waiting("subscribed") => Waiting("subscribed")'
      BY <1>0, <2>3, RunKeepsWaiting
    <3> QED
      BY <2>2, <2>3, <3>1 DEF GrantedPhase, InFlight, place
  <2>4. CASE panels' = (panels \ {"packages"}) \cup {"subscription"}
    BY <1>0, <2>2, <2>4 DEF GrantedPhase, InFlight, place
  <2> QED
    BY <1>3, <2>1, <2>3, <2>4, MainThreadShape
<1> QED
  BY <1>1, <1>2, <1>3 DEF Next, UserStep

LEMMA PanelStep ==
  ASSUME TypeOK, PanelInv, [Next]_vars
  PROVE  PanelInv'
<1>1. CASE UNCHANGED vars
  BY <1>1 DEF vars, PanelInv, ActivePhase, PendingPhase, AskingPhase,
              OfferPhase, GrantedPhase, InFlight, OneInFlight, Waiting
<1>2. CASE drifted'
  BY <1>2 DEF PanelInv
<1>3. CASE Next /\ ~drifted'
  <2>1. ~drifted
    BY <1>3, DriftedForGood
  <2> QED
    BY <1>3, <2>1, ActiveStep, PendingStep, AskingStep, OfferStep, GrantedStep
       DEF PanelInv
<1> QED
  BY <1>1, <1>2, <1>3

LEMMA PanelInit == ASSUME Init PROVE PanelInv
<1>1. OneInFlight("getProfile") \/ InFlight({})
  BY DEF Init, OneInFlight, InFlight
<1>2. InFlight({"getProfile"})
  BY <1>1 DEF OneInFlight, InFlight
<1>3. handler = <<>> /\ panels = {} /\ ~editing /\ status \in Statuses
  BY DEF Init
<1>4. /\ handler \in Seq({"hide", "toast", "active", "garbled", "unrated"})
      /\ handler \in Seq({"hide", "toast", "pending", "garbled"})
  BY <1>3
<1> QED
  BY <1>1, <1>2, <1>3, <1>4
     DEF PanelInv, ActivePhase, PendingPhase, AskingPhase, Statuses

(* Until the status changes unseen, Home is in one of the five phases: what *)
(* is shown, what the main thread will run and what is in flight fit the   *)
(* status that the server has for the provider.                            *)
THEOREM PanelsFollowPhases == Spec => []PanelInv
BY TypeCorrect, PanelInit, PanelStep, PTL DEF Spec

(* Once nothing is on its way, the panel is the one of the status, for any *)
(* number of requests and subscriptions, refused, lost or repeated.        *)
THEOREM PanelIsOfStatus == Spec => []PanelTellsStatus
<1>1. PanelInv => PanelTellsStatus
  BY DEF PanelInv, PanelTellsStatus, ActivePhase, PendingPhase, AskingPhase,
         OfferPhase, GrantedPhase, Waiting, Panel
<1> QED
  BY <1>1, PanelsFollowPhases, PTL

(* And the panels change only from nothing to that panel, or from the      *)
(* packages to the note, also after the fragment has been left.            *)
THEOREM PanelsOnlyAdvance == Spec => PanelsAdvance
<1> DEFINE Advance ==
      panels' # panels /\ ~drifted =>
        \/ panels = {} /\ panels' = {Panel(status)}
        \/ panels = {"packages"} /\ panels' = {"subscription"}
<1>1. ASSUME TypeOK, PanelInv, [Next]_vars
      PROVE  [Advance]_vars
  <2> SUFFICES ASSUME panels' # panels, ~drifted
               PROVE  Advance
    OBVIOUS
  <2>1. Next
    BY <1>1 DEF vars
  <2>2. MainThread
    BY <2>1, PanelsOfMainThread
  <2>3. ~drifted'
    BY <2>2, MainThreadShape
  <2>4. UNCHANGED status
    BY <2>2, MainThreadShape
  <2>5. ActivePhase => ActivePhase'
    BY <1>1, <2>1, <2>3, ActiveStep
  <2>6. PendingPhase => PendingPhase'
    BY <1>1, <2>1, <2>3, PendingStep
  <2>7. AskingPhase => AskingPhase' \/ OfferPhase'
    BY <1>1, <2>1, <2>3, AskingStep
  <2>8. OfferPhase => OfferPhase' \/ GrantedPhase'
    BY <1>1, <2>1, <2>3, OfferStep
  <2>9. GrantedPhase => GrantedPhase'
    BY <1>1, <2>1, <2>3, GrantedStep
  <2> QED
    BY <1>1, <2>2, <2>4, <2>5, <2>6, <2>7, <2>8, <2>9, PanelsGrow
       DEF PanelInv, ActivePhase, PendingPhase, AskingPhase, OfferPhase,
           GrantedPhase, Panel
<1> QED
  BY <1>1, TypeCorrect, PanelsFollowPhases, PTL DEF Spec, PanelsAdvance
==========================================================================
