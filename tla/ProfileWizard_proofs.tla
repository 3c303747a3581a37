---------------------- MODULE ProfileWizard_proofs -----------------------
(***************************************************************************)
(* Theorems about ProfileWizard, for any number of sign-ups and uploads:   *)
(* whatever overlaps, no login without an accepted sign-up; and while      *)
(* sign-ups do not overlap, the queue of forms, the fields of the activity *)
(* and the screen go together, and no queue is found empty.                *)
(***************************************************************************)
EXTENDS ProfileWizard, SequenceTheorems, TLAPS

(* The three forms of the queue while sign-ups do not overlap: before the  *)
(* sign-up, in the middle of pop() or scndpop(), and after.                *)
AtProfile == [first |-> <<"free">>, scnd |-> <<"profile">>]
Between == [first |-> <<"free">>, scnd |-> <<"free", "profile">>]
AtFree == [first |-> <<>>, scnd |-> <<"free", "profile">>]

(* What the sequence operators do on one and two elements.                 *)
LEMMA Short ==
  ASSUME NEW a, NEW b
  PROVE  /\ <<a>> \o <<b>> = <<a, b>>
         /\ Tail(<<a, b>>) = <<b>>
         /\ Tail(<<a>>) = <<>>
<1> DEFINE S == {a, b}
<1>1. <<a>> \in Seq(S) /\ <<b>> \in Seq(S) /\ <<a, b>> \in Seq(S)
  OBVIOUS
<1>2. <<a>> \o <<b>> = <<a, b>>
  <2>1. /\ <<a>> \o <<b>> \in Seq(S)
        /\ Len(<<a>> \o <<b>>) = 2
        /\ \A i \in 1..2 :
             (<<a>> \o <<b>>)[i] = IF i <= 1 THEN <<a>>[i] ELSE <<b>>[i - 1]
    <3> HIDE DEF S
    <3> QED
      BY <1>1, ConcatProperties
  <2>2. \A i \in 1..2 : (<<a>> \o <<b>>)[i] = <<a, b>>[i]
    BY <2>1
  <2> HIDE DEF S
  <2> QED
    BY <1>1, <2>1, <2>2, SeqEqual
<1>3. Tail(<<a, b>>) = <<b>>
  <2> HIDE DEF S
  <2>1. /\ Tail(<<a, b>>) \in Seq(S)
        /\ Len(Tail(<<a, b>>)) = 1
        /\ Tail(<<a, b>>)[1] = b
    BY <1>1, HeadTailProperties
  <2> QED
    BY <1>1, <2>1, SeqEqual
<1>4. Tail(<<a>>) = <<>>
  <2> HIDE DEF S
  <2>1. Tail(<<a>>) \in Seq(S) /\ Len(Tail(<<a>>)) = 0
    BY <1>1, HeadTailProperties
  <2> QED
    BY <2>1, EmptySeq
<1> QED
  BY <1>2, <1>3, <1>4

(* The halves of pop() lead from the first to the last, those of scndpop() *)
(* lead back, and what they read is where it should be.                    *)
LEMMA Moves ==
  /\ pop(New(FormList)) = AtProfile
  /\ popCopies(AtProfile) = Between
  /\ popRemoves(Between) = AtFree
  /\ scndpopCopies(AtFree) = Between
  /\ scndpopRemoves(Between) = AtProfile
<1>1. <<"free">> \o <<"profile">> = <<"free", "profile">>
  BY Short
<1>2. <<"free">> \o <<>> = <<"free">> /\ <<"profile">> \o <<>> = <<"profile">>
  OBVIOUS
<1>3. Tail(<<"free">>) = <<>> /\ Tail(<<"free", "profile">>) = <<"profile">>
  BY Short
<1>4. Tail(<<"profile", "free">>) = <<"free">>
  BY Short
<1>5. /\ Head(<<"free">>) = "free"
      /\ Head(<<"free", "profile">>) = "free"
      /\ Head(<<"profile", "free">>) = "profile"
  OBVIOUS
<1>6. popCopies(New(FormList)) =
        [first |-> <<"profile", "free">>, scnd |-> <<"profile">>]
  BY <1>2, <1>5 DEF popCopies, Scndpush, New, FormList
<1>7. pop(New(FormList)) = AtProfile
  BY <1>4, <1>6 DEF pop, popRemoves, AtProfile
<1>8. popCopies(AtProfile) = Between
  BY <1>1, <1>5 DEF popCopies, Scndpush, AtProfile, Between
<1>9. popRemoves(Between) = AtFree
  BY <1>3 DEF popRemoves, Between, AtFree
<1>10. scndpopCopies(AtFree) = Between
  BY <1>2, <1>5 DEF scndpopCopies, push, AtFree, Between
<1>11. scndpopRemoves(Between) = AtProfile
  BY <1>3 DEF scndpopRemoves, Between, AtProfile
<1> QED
  BY <1>7, <1>8, <1>9, <1>10, <1>11

LEMMA Reads ==
  /\ ~isEmpty(AtProfile) /\ ~isEmpty(Between) /\ isEmpty(AtFree)
  /\ ~scndisEmpty(AtProfile) /\ ~scndisEmpty(AtFree)
  /\ Len(AtProfile.first) = 1 /\ Len(AtFree.first) # 1
  /\ Len(AtProfile.scnd) = 1 /\ Len(Between.scnd) = 2
  /\ scndpeek(AtProfile) = "profile"
  /\ scndpeek(Between) = "free"
  /\ scndpeek(AtFree) = "free"
  /\ Head(Between.first) = "free"
BY DEF isEmpty, scndisEmpty, scndpeek, AtProfile, Between, AtFree

----------------------------------------------------------------------------
(* The halves keep queues of forms, and only the second of pop() can empty *)
(* the forms to come.                                                      *)
LEMMA QueueMoves ==
  ASSUME NEW q \in Queue(Forms)
  PROVE  /\ ~isEmpty(q) =>
              /\ popCopies(q) \in Queue(Forms) /\ ~isEmpty(popCopies(q))
              /\ popRemoves(q) \in Queue(Forms)
              /\ Head(q.first) \in Forms
         /\ ~scndisEmpty(q) =>
              /\ scndpopCopies(q) \in Queue(Forms) /\ ~isEmpty(scndpopCopies(q))
              /\ scndpopRemoves(q) \in Queue(Forms)
              /\ isEmpty(scndpopRemoves(q)) => isEmpty(q)
              /\ scndpeek(q) \in Forms
         /\ Len(q.scnd) > 0 => ~scndisEmpty(q)
<1>1. q.first \in Seq(Forms) /\ q.scnd \in Seq(Forms)
  BY DEF Queue
<1>2. ASSUME q.first # <<>>
      PROVE  /\ popCopies(q) \in Queue(Forms) /\ ~isEmpty(popCopies(q))
             /\ popRemoves(q) \in Queue(Forms)
             /\ Head(q.first) \in Forms
  <2>1. Head(q.first) \in Forms /\ Tail(q.first) \in Seq(Forms)
    BY <1>1, <1>2, HeadTailProperties
  <2>2. <<Head(q.first)>> \o q.scnd \in Seq(Forms)
    BY <1>1, <2>1
  <2> QED
    BY <1>1, <1>2, <2>1, <2>2
    DEF popCopies, Scndpush, popRemoves, isEmpty, Queue
<1>3. ASSUME q.scnd # <<>>
      PROVE  /\ scndpopCopies(q) \in Queue(Forms) /\ ~isEmpty(scndpopCopies(q))
             /\ scndpopRemoves(q) \in Queue(Forms)
             /\ isEmpty(scndpopRemoves(q)) => isEmpty(q)
             /\ scndpeek(q) \in Forms
  <2>1. Head(q.scnd) \in Forms /\ Tail(q.scnd) \in Seq(Forms)
    BY <1>1, <1>3, HeadTailProperties
  <2>2. /\ <<Head(q.scnd)>> \o q.first \in Seq(Forms)
        /\ Len(<<Head(q.scnd)>> \o q.first) = 1 + Len(q.first)
    BY <1>1, <2>1
  <2>3. <<Head(q.scnd)>> \o q.first # <<>>
    BY <1>1, <2>2
  <2> QED
    BY <1>1, <2>1, <2>2, <2>3
    DEF scndpopCopies, push, scndpopRemoves, isEmpty, scndpeek, Queue
<1>4. Len(q.scnd) > 0 => q.scnd # <<>>
  BY <1>1
<1> QED
  BY <1>2, <1>3, <1>4 DEF isEmpty, scndisEmpty

(* A reply that has peeked has set `before'.                               *)
FieldSet ==
  \A c \in Calls : signup[c] \in {"peeked", "copied", "popped"} => before \in Forms

(* The queue runs out only behind a reply that the server has given.       *)
Earned ==
  /\ \A c \in Calls : signup[c] \notin {"none", "sent"} => accepted
  /\ isEmpty(lifo) => accepted
  /\ login => accepted

WizardInv == TypeOK /\ FieldSet /\ Earned

LEMMA WizardInit == Init => WizardInv
<1> SUFFICES ASSUME Init PROVE WizardInv
  OBVIOUS
<1>1. lifo = AtProfile
  BY Moves DEF Init
<1>2. AtProfile \in Queue(Forms)
  BY DEF AtProfile, Queue, Forms
<1>3. TypeOK
  <2>1. hides \in 0..MaxHides /\ uploads \in 0..MaxUploads
    BY WizardAssumption DEF Init
  <2>2. signup \in [Calls -> Stages]
    BY DEF Init, Stages
  <2>3. visible \subseteq Forms /\ anims \subseteq Forms \X (Forms \cup {"null"})
    BY DEF Init, Forms
  <2> QED
    BY <1>1, <1>2, <2>1, <2>2, <2>3 DEF Init, TypeOK
<1> QED
  BY <1>1, <1>3, Reads DEF Init, WizardInv, FieldSet, Earned

LEMMA WizardStep == WizardInv /\ [Next]_vars => WizardInv'
<1> SUFFICES ASSUME WizardInv, [Next]_vars PROVE WizardInv'
  OBVIOUS
<1> USE WizardAssumption
<1>q. lifo \in Queue(Forms)
  BY DEF WizardInv, TypeOK
<1>m. ASSUME hides' = hides \/ PostHide PROVE hides' \in 0..MaxHides
  BY <1>m DEF PostHide, WizardInv, TypeOK
<1>t. ASSUME NEW c \in Calls, NEW l \in Stages, Goto(c, l)
      PROVE  /\ signup' \in [Calls -> Stages]
             /\ signup'[c] = l
             /\ \A d \in Calls : d # c => signup'[d] = signup[d]
  BY <1>t DEF Goto, WizardInv, TypeOK
<1>s. {"none", "sent", "accepted", "peeked", "copied", "popped"} \subseteq Stages
  BY DEF Stages
<1>1. ASSUME NEW c \in Calls, NextSignsUp(c) PROVE WizardInv'
  <2>1. Goto(c, "sent")
    BY <1>1 DEF NextSignsUp
  <2> QED
    BY <1>1, <1>s, <1>t, <2>1
    DEF NextSignsUp, WizardInv, TypeOK, FieldSet, Earned, fields, isEmpty
<1>2. CASE NextIsOffline
  BY <1>2 DEF NextIsOffline, WizardInv, TypeOK, FieldSet, Earned, fields,
              history, isEmpty
<1>3. CASE NextEntersApp
  BY <1>3 DEF NextEntersApp, WizardInv, TypeOK, FieldSet, Earned, fields,
              screen, history, isEmpty
<1>4. CASE BackLeaves
  BY <1>4 DEF BackLeaves, WizardInv, TypeOK, FieldSet, Earned, fields,
              screen, history, isEmpty
<1>5. CASE BackCopies
  <2>1. lifo' \in Queue(Forms) /\ ~isEmpty(lifo')
    BY <1>5, <1>q, QueueMoves DEF BackCopies
  <2> QED
    BY <1>5, <2>1 DEF BackCopies, WizardInv, TypeOK, FieldSet, Earned, fields,
                      history
<1>6. CASE BackRemoves
  <2> DEFINE q == scndpopRemoves(lifo)
  <2>1. q \in Queue(Forms) /\ (isEmpty(q) => isEmpty(lifo))
        /\ scndpeek(lifo) \in Forms /\ scndpeek(q) \in Forms
    <3>1. lifo.scnd # <<>>
      BY <1>6, <1>q, Z3 DEF BackRemoves, scndpopRemoves, Queue
    <3> QED
      BY <1>6, <1>q, <3>1, QueueMoves DEF BackRemoves, scndisEmpty
  <2>2. /\ lifo' = q /\ ui' = "idle"
        /\ visible' = (visible \cup {scndpeek(q)}) \ {scndpeek(lifo)}
        /\ main' = (main \/ Len(q.scnd) = 1)
        /\ UNCHANGED <<loading, hides, anims, signup, fields, uploads, finished,
                       login, crashed, history>>
    BY <1>6 DEF BackRemoves
  <2> HIDE DEF q
  <2> QED
    BY <2>1, <2>2 DEF WizardInv, TypeOK, FieldSet, Earned, fields, history
<1>7. CASE BackThrows
  <2>1. /\ lifo' \in Queue(Forms)
        /\ isEmpty(lifo') => isEmpty(lifo)
    <3>1. CASE lifo' = lifo
      BY <3>1, <1>q
    <3>2. CASE Len(lifo.scnd) = 1 /\ lifo' = scndpopRemoves(lifo)
      BY <3>2, <1>q, QueueMoves
    <3> QED
      BY <1>7, <3>1, <3>2 DEF BackThrows
  <2> QED
    BY <1>7, <2>1 DEF BackThrows, WizardInv, TypeOK, FieldSet, Earned, fields,
                      history
<1>8. CASE ChoosePicture
  BY <1>8 DEF ChoosePicture, WizardInv, TypeOK, FieldSet, Earned, fields,
              screen, history, isEmpty
<1>9. CASE HideRuns
  <2>1. hides' \in 0..MaxHides
    BY <1>9 DEF HideRuns, WizardInv, TypeOK
  <2> QED
    BY <1>9, <2>1 DEF HideRuns, WizardInv, TypeOK, FieldSet, Earned, fields,
                      history, isEmpty
<1>10. CASE AnimationEnds
  <2>1. PICK m \in anims :
          /\ anims' = anims \ {m}
          /\ IF m[2] = "null"
               THEN crashed' = TRUE /\ UNCHANGED <<visible, main>>
               ELSE /\ visible' = (visible \ {m[1]}) \cup {m[2]}
                    /\ main' = FALSE
                    /\ UNCHANGED crashed
    BY <1>10 DEF AnimationEnds
  <2>2. m[2] \in Forms \cup {"null"}
    BY DEF WizardInv, TypeOK
  <2>3. anims' \subseteq Forms \X (Forms \cup {"null"})
    BY <2>1 DEF WizardInv, TypeOK
  <2>4. visible' \subseteq Forms /\ main' \in BOOLEAN /\ crashed' \in BOOLEAN
    BY <2>1, <2>2 DEF WizardInv, TypeOK
  <2> QED
    BY <1>10, <2>3, <2>4 DEF AnimationEnds, WizardInv, TypeOK, FieldSet, Earned,
                             fields, history, isEmpty
<1>11. ASSUME NEW c \in Calls, SignupFails(c) PROVE WizardInv'
  <2>1. Goto(c, "none") /\ PostHide
    BY <1>11 DEF SignupFails
  <2> QED
    BY <1>11, <1>s, <1>t, <1>m, <2>1
    DEF SignupFails, WizardInv, TypeOK, FieldSet, Earned, fields, screen,
        history, isEmpty
<1>12. ASSUME NEW c \in Calls, SignupAccepted(c) PROVE WizardInv'
  <2>1. Goto(c, "accepted") /\ PostHide
    BY <1>12 DEF SignupAccepted
  <2> QED
    BY <1>12, <1>s, <1>t, <1>m, <2>1
    DEF SignupAccepted, WizardInv, TypeOK, FieldSet, Earned, fields, screen,
        isEmpty
<1>13. ASSUME NEW c \in Calls, PeekForm(c) PROVE WizardInv'
  <2>1. Goto(c, "peeked") /\ before' \in Forms
    BY <1>13, <1>q, QueueMoves DEF PeekForm
  <2> QED
    BY <1>13, <1>s, <1>t, <2>1
    DEF PeekForm, WizardInv, TypeOK, FieldSet, Earned, screen, history, isEmpty
<1>14. ASSUME NEW c \in Calls, PopCopies(c) PROVE WizardInv'
  <2>1. Goto(c, "copied") /\ lifo' \in Queue(Forms) /\ ~isEmpty(lifo')
    BY <1>14, <1>q, QueueMoves DEF PopCopies
  <2> QED
    BY <1>14, <1>s, <1>t, <2>1
    DEF PopCopies, WizardInv, TypeOK, FieldSet, Earned, fields, screen, history
<1>15. ASSUME NEW c \in Calls, PopRemoves(c) PROVE WizardInv'
  <2>1. Goto(c, "popped") /\ lifo' \in Queue(Forms) /\ after' \in Forms
    BY <1>15, <1>q, QueueMoves DEF PopRemoves
  <2>2. accepted
    BY <1>15 DEF PopRemoves, WizardInv, Earned
  <2> QED
    BY <1>15, <1>s, <1>t, <2>1, <2>2
    DEF PopRemoves, WizardInv, TypeOK, FieldSet, Earned, screen, history
<1>16. ASSUME NEW c \in Calls, Animate(c) PROVE WizardInv'
  <2>1. Goto(c, "none") /\ before \in Forms
    BY <1>16 DEF Animate, WizardInv, FieldSet
  <2>2. anims' \subseteq Forms \X (Forms \cup {"null"})
    BY <1>16, <2>1 DEF Animate, WizardInv, TypeOK
  <2> QED
    BY <1>16, <1>s, <1>t, <2>1, <2>2
    DEF Animate, WizardInv, TypeOK, FieldSet, Earned, fields, screen, history,
        isEmpty
<1>17. ASSUME NEW c \in Calls, ReplyThrows(c) PROVE WizardInv'
  BY <1>17 DEF ReplyThrows, Crash, WizardInv, TypeOK, FieldSet, Earned, fields,
               screen, history, isEmpty
<1>18. CASE UploadAnswered
  BY <1>18, <1>m DEF UploadAnswered, WizardInv, TypeOK, FieldSet, Earned,
                     fields, screen, history, isEmpty
<1>19. CASE UploadFails
  BY <1>19, <1>m DEF UploadFails, WizardInv, TypeOK, FieldSet, Earned, fields,
                     screen, history, isEmpty
<1>21. CASE Garbled
  <2>1. PostHide
    BY <1>21 DEF Garbled
  <2> QED
    BY <1>21, <1>m, <2>1 DEF Garbled, WizardInv, TypeOK, FieldSet, Earned,
                             fields, screen, isEmpty
<1>20. CASE UNCHANGED vars
  BY <1>20 DEF vars, WizardInv, TypeOK, FieldSet, Earned, isEmpty
<1> QED
  BY <1>1, <1>2, <1>3, <1>4, <1>5, <1>6, <1>7, <1>8, <1>9, <1>10, <1>11, <1>12,
     <1>13, <1>14, <1>15, <1>16, <1>17, <1>18, <1>19, <1>20, <1>21
  DEF Next, Callback, MainThread, SignupGarbled, UploadGarbled

THEOREM WizardInvariant == Spec => []WizardInv
BY WizardInit, WizardStep, PTL DEF Spec

(* The queue of forms, the fields, the screen and the requests keep their  *)
(* types, however many sign-ups overlap in whatever order.                 *)
THEOREM TypeCorrect == Spec => []TypeOK
<1>1. WizardInv => TypeOK
  BY DEF WizardInv
<1> QED
  BY <1>1, WizardInvariant, PTL

(* Nobody is logged in whose sign-up the server has not accepted, however  *)
(* many sign-ups overlap: the queue does not run out before a reply.       *)
THEOREM LoginEarned == Spec => []LoginIsEarned
<1>1. WizardInv => LoginIsEarned
  BY DEF WizardInv, Earned, LoginIsEarned
<1> QED
  BY <1>1, WizardInvariant, PTL

----------------------------------------------------------------------------
(***************************************************************************)
(* While sign-ups do not overlap, the wizard goes through the phases below *)
(* one after the other, for any number of sign-ups and uploads one after   *)
(* the other: the queue, the flag `main', the animation and the screen     *)
(* change together, and nothing is thrown but by a reply without a number. *)
(***************************************************************************)

(* What a phase says of the queue, the animations, the screen and `main'.  *)
Phase(q, a, v, m) == lifo = q /\ anims = a /\ visible = {v} /\ main = m

Turn == {<<"profile", "free">>}

OnProfile == Phase(AtProfile, {}, "profile", TRUE)
Popping   == Phase(Between, {}, "profile", TRUE)
Popped    == Phase(AtFree, {}, "profile", TRUE)
Turning   == Phase(AtFree, Turn, "profile", TRUE)
OnFree    == Phase(AtFree, {}, "free", FALSE)
Returning == Phase(Between, {}, "free", FALSE)

Stage(S) == \A c \in Calls : signup[c] \in S

(* Which phases go with which stage of the one sign-up, and with back.     *)
Phases ==
  \/ ui = "idle" /\ OnProfile /\ Stage({"none", "sent", "accepted", "peeked"})
  \/ ui = "idle" /\ Popping /\ Stage({"none", "copied"})
                 /\ \E c \in Calls : signup[c] = "copied"
  \/ ui = "idle" /\ Popped /\ Stage({"none", "popped"})
                 /\ \E c \in Calls : signup[c] = "popped"
  \/ ui = "idle" /\ (Turning \/ OnFree) /\ Stage({"none"})
  \/ ui = "back" /\ Returning /\ Stage({"none"})

Alone == \A c, d \in Calls : signup[c] # "none" /\ signup[d] # "none" => c = d

(* The fields hold what the reply has put there: nobody else writes them.  *)
Own ==
  \A c \in Calls :
    /\ signup[c] \in {"peeked", "copied", "popped"} => before = "profile"
    /\ signup[c] = "popped" => after = "free"

InOrder == ~overlapped => (crashed => garbled) /\ Alone /\ Own /\ Phases

order == <<lifo, main, ui, visible, anims, signup, before, after, crashed,
           garbled, overlapped>>

LEMMA OrderInit == Init => InOrder
<1> SUFFICES ASSUME Init PROVE InOrder
  OBVIOUS
<1>1. OnProfile
  BY Moves DEF Init, OnProfile, Phase
<1>2. Stage({"none"}) /\ Stage({"none", "sent", "accepted", "peeked"})
  BY DEF Init, Stage
<1> QED
  BY <1>1, <1>2 DEF Init, InOrder, Alone, Own, Phases, Stage

(* Steps that touch nothing of this.                                       *)
LEMMA OrderKept == InOrder /\ UNCHANGED order => InOrder'
BY DEF InOrder, order, Alone, Own, Phases, Stage, OnProfile, Popping, Popped,
       Turning, OnFree, Returning, Phase

(* A sign-up that moves from one stage to another: the others keep theirs. *)
LEMMA Moved ==
  ASSUME TypeOK, NEW c \in Calls, NEW l \in Stages, Goto(c, l)
  PROVE  /\ signup'[c] = l
         /\ \A d \in Calls : d # c => signup'[d] = signup[d]
BY DEF Goto, TypeOK

(* A sign-up that is outstanding is the only one.                          *)
LEMMA Others ==
  ASSUME Alone, NEW c \in Calls, signup[c] # "none"
  PROVE  \A d \in Calls : d # c => signup[d] = "none"
BY DEF Alone

LEMMA OrderStep == WizardInv /\ InOrder /\ Next => InOrder'
<1> SUFFICES ASSUME WizardInv, InOrder, Next, ~overlapped' PROVE InOrder'
  BY DEF InOrder
<1>0. TypeOK
  BY DEF WizardInv
<1>o. ~overlapped
  BY DEF Next, Callback, MainThread, NextSignsUp, NextIsOffline, NextEntersApp,
         BackLeaves, BackCopies, BackRemoves, BackThrows, ChoosePicture,
         HideRuns, AnimationEnds, SignupFails, SignupAccepted, PeekForm,
         PopCopies, PopRemoves, Animate, ReplyThrows, Crash, UploadAnswered,
         UploadFails, SignupGarbled, UploadGarbled, Garbled, history
<1>p. ~crashed /\ Alone /\ Own /\ Phases
  BY <1>o DEF InOrder, Next
<1>s. {"none", "sent", "accepted", "peeked", "copied", "popped"} \subseteq Stages
  BY DEF Stages
<1>k. ASSUME UNCHANGED order PROVE InOrder'
  BY <1>k, OrderKept
<1>1. ASSUME NEW c \in Calls, NextSignsUp(c) PROVE InOrder'
  <2>1. Outstanding = {}
    BY <1>1 DEF NextSignsUp
  <2>2. \A d \in Calls : signup[d] = "none"
    BY <2>1 DEF Outstanding
  <2>3. ui = "idle" /\ (OnProfile \/ Turning \/ OnFree)
    BY <1>1, <1>p, <2>2 DEF NextSignsUp, Pressable, Phases
  <2>4. OnProfile
    <3>1. Len(lifo.first) = 1
      BY <1>1 DEF NextSignsUp
    <3> QED
      BY <2>3, <3>1, Reads DEF Turning, OnFree, Phase
  <2>5. signup'[c] = "sent" /\ \A d \in Calls : d # c => signup'[d] = "none"
    BY <1>0, <1>1, <1>s, <2>2, Moved DEF NextSignsUp
  <2>6. OnProfile' /\ ui' = "idle" /\ ~crashed'
    BY <1>1, <1>p, <2>3, <2>4 DEF NextSignsUp, OnProfile, Phase
  <2>7. Alone' /\ Own' /\ Stage({"none", "sent", "accepted", "peeked"})'
    BY <2>5 DEF Alone, Own, Stage
  <2> QED
    BY <2>6, <2>7 DEF InOrder, Phases
<1>2. CASE BackCopies
  <2>1. OnFree /\ Stage({"none"})
    BY <1>2, <1>p DEF BackCopies, Phases, Phase, OnProfile, Popping, Popped,
                      Turning, OnFree
  <2>2. Returning' /\ Stage({"none"})' /\ ui' = "back"
    BY <1>2, <2>1, Moves DEF BackCopies, Phase, OnFree, Returning, Stage
  <2>3. Alone' /\ Own'
    BY <2>2 DEF Alone, Own, Stage
  <2> QED
    BY <1>2, <1>p, <2>2, <2>3 DEF BackCopies, InOrder, Phases
<1>3. CASE BackRemoves
  <2>1. Returning /\ Stage({"none"})
    BY <1>3, <1>p DEF BackRemoves, Phases
  <2>2. /\ lifo' = AtProfile /\ ui' = "idle"
        /\ visible' = ({"free"} \cup {"profile"}) \ {"free"}
        /\ main' = TRUE
        /\ UNCHANGED <<anims, signup, crashed>>
    BY <1>3, <2>1, Moves, Reads DEF BackRemoves, Phase, Returning
  <2>3. OnProfile'
    BY <2>1, <2>2 DEF OnProfile, Returning, Phase
  <2>4. /\ Stage({"none", "sent", "accepted", "peeked"})'
        /\ Alone' /\ Own'
    BY <2>1, <2>2 DEF Alone, Own, Stage
  <2> QED
    BY <1>p, <2>2, <2>3, <2>4 DEF InOrder, Phases
<1>4. ASSUME BackThrows PROVE FALSE
  <2>1. CASE ui = "idle" /\ ~main /\ scndisEmpty(lifo)
    <3>1. OnFree
      BY <1>p, <2>1 DEF Phases, Phase, OnProfile, Popping, Popped, Turning
    <3> QED
      BY <2>1, <3>1, Reads DEF OnFree, Phase
  <2>2. CASE ui = "back" /\ Len(lifo.scnd) = 1
    <3>1. lifo = Between
      BY <1>p, <2>2 DEF Phases, Returning, Phase
    <3> QED
      BY <2>2, <3>1, Reads
  <2> QED
    BY <1>4, <2>1, <2>2 DEF BackThrows
<1>5. CASE AnimationEnds
  <2>1. PICK m \in anims :
          /\ anims' = anims \ {m}
          /\ IF m[2] = "null"
               THEN crashed' = TRUE /\ UNCHANGED <<visible, main>>
               ELSE /\ visible' = (visible \ {m[1]}) \cup {m[2]}
                    /\ main' = FALSE
                    /\ UNCHANGED crashed
    BY <1>5 DEF AnimationEnds
  <2>2. Turning /\ Stage({"none"}) /\ ui = "idle"
    BY <1>5, <1>p, <2>1 DEF AnimationEnds, Phases, Phase, OnProfile, Popping,
                            Popped, OnFree, Returning
  <2>3. m = <<"profile", "free">>
    BY <2>1, <2>2 DEF Turning, Phase, Turn
  <2>4. OnFree' /\ ~crashed'
    BY <1>5, <1>p, <2>1, <2>2, <2>3 DEF AnimationEnds, Turning, OnFree, Phase,
                                        Turn
  <2>5. Stage({"none"})' /\ ui' = "idle" /\ Alone' /\ Own'
    BY <1>5, <2>2 DEF AnimationEnds, Stage, Alone, Own
  <2> QED
    BY <2>4, <2>5 DEF InOrder, Phases
<1>6. ASSUME NEW c \in Calls, signup[c] \in {"sent", "accepted", "peeked"}
      PROVE  OnProfile /\ ui = "idle"
             /\ Stage({"none", "sent", "accepted", "peeked"})
  BY <1>6, <1>p DEF Phases, Stage
<1>7. ASSUME NEW c \in Calls, NEW l \in {"none", "accepted", "peeked"},
             Goto(c, l), signup[c] \in {"sent", "accepted"},
             UNCHANGED <<lifo, screen, anims, crashed>>,
             l = "peeked" => before' = "profile"
      PROVE  InOrder'
  <2>1. OnProfile /\ ui = "idle"
    BY <1>6, <1>7
  <2>2. OnProfile' /\ ui' = "idle" /\ ~crashed'
    BY <1>7, <1>p, <2>1 DEF OnProfile, Phase, screen
  <2>3. signup'[c] = l /\ \A d \in Calls : d # c => signup'[d] = "none"
    BY <1>0, <1>7, <1>p, <1>s, Moved, Others
  <2>4. /\ Stage({"none", "sent", "accepted", "peeked"})'
        /\ Alone' /\ Own'
    BY <1>7, <2>3 DEF Alone, Own, Stage
  <2> QED
    BY <2>2, <2>4 DEF InOrder, Phases
<1>8. ASSUME NEW c \in Calls, SignupFails(c) PROVE InOrder'
  BY <1>7, <1>8 DEF SignupFails
<1>9. ASSUME NEW c \in Calls, SignupAccepted(c) PROVE InOrder'
  BY <1>7, <1>9 DEF SignupAccepted
<1>10. ASSUME NEW c \in Calls, PeekForm(c) PROVE InOrder'
  <2>1. scndpeek(lifo) = "profile"
    BY <1>6, <1>10, Reads DEF PeekForm, OnProfile, Phase
  <2> QED
    BY <1>7, <1>10, <2>1 DEF PeekForm
<1>11. ASSUME NEW c \in Calls, PopCopies(c) PROVE InOrder'
  <2>1. OnProfile /\ ui = "idle" /\ before = "profile"
    BY <1>6, <1>11, <1>p DEF PopCopies, Own
  <2>2. Popping' /\ ui' = "idle" /\ ~crashed' /\ before' = "profile"
    BY <1>11, <1>p, <2>1, Moves
    DEF PopCopies, OnProfile, Popping, Phase, screen, fields
  <2>3. signup'[c] = "copied" /\ \A d \in Calls : d # c => signup'[d] = "none"
    BY <1>0, <1>11, <1>p, <1>s, Moved, Others DEF PopCopies
  <2>4. Stage({"none", "copied"})' /\ Alone' /\ Own'
    BY <2>2, <2>3 DEF Alone, Own, Stage
  <2> QED
    BY <2>2, <2>3, <2>4 DEF InOrder, Phases
<1>12. ASSUME NEW c \in Calls, PopRemoves(c) PROVE InOrder'
  <2>1. Popping /\ ui = "idle" /\ before = "profile"
    BY <1>12, <1>p DEF PopRemoves, Own, Phases, Stage
  <2>2. /\ Popped' /\ ui' = "idle" /\ ~crashed'
        /\ before' = "profile" /\ after' = "free"
    BY <1>12, <1>p, <2>1, Moves, Reads
    DEF PopRemoves, Popping, Popped, Phase, screen
  <2>3. signup'[c] = "popped" /\ \A d \in Calls : d # c => signup'[d] = "none"
    BY <1>0, <1>12, <1>p, <1>s, Moved, Others DEF PopRemoves
  <2>4. Stage({"none", "popped"})' /\ Alone' /\ Own'
    BY <2>2, <2>3 DEF Alone, Own, Stage
  <2> QED
    BY <2>2, <2>3, <2>4 DEF InOrder, Phases
<1>13. ASSUME NEW c \in Calls, Animate(c) PROVE InOrder'
  <2>1. Popped /\ ui = "idle" /\ before = "profile" /\ after = "free"
    BY <1>13, <1>p DEF Animate, Own, Phases, Stage
  <2>2. Turning' /\ ui' = "idle" /\ ~crashed'
    BY <1>13, <1>p, <2>1 DEF Animate, Popped, Turning, Phase, screen, Turn
  <2>3. \A d \in Calls : signup'[d] = "none"
    BY <1>0, <1>13, <1>p, <1>s, Moved, Others DEF Animate
  <2>4. Stage({"none"})' /\ Alone' /\ Own'
    BY <2>3 DEF Alone, Own, Stage
  <2> QED
    BY <2>2, <2>4 DEF InOrder, Phases
<1>14. ASSUME NEW c \in Calls, ReplyThrows(c) PROVE FALSE
  <2>1. CASE signup[c] = "accepted" /\ scndisEmpty(lifo)
    BY <1>6, <2>1, Reads DEF OnProfile, Phase
  <2>2. CASE signup[c] = "peeked" /\ isEmpty(lifo)
    BY <1>6, <2>2, Reads DEF OnProfile, Phase
  <2>3. CASE signup[c] = "copied" /\ isEmpty(lifo)
    <3>1. Popping
      BY <1>p, <2>3 DEF Phases, Stage
    <3> QED
      BY <2>3, <3>1, Reads DEF Popping, Phase
  <2> QED
    BY <1>14, <2>1, <2>2, <2>3 DEF ReplyThrows
<1>22. CASE Garbled
  BY <1>o, <1>22 DEF Garbled, InOrder, Alone, Own, Phases, Stage, OnProfile,
                     Popping, Popped, Turning, OnFree, Returning, Phase,
                     fields, screen
<1>15. CASE NextIsOffline
  BY <1>k, <1>15 DEF NextIsOffline, order, fields, history
<1>16. CASE NextEntersApp
  BY <1>k, <1>16 DEF NextEntersApp, order, fields, screen, history
<1>17. CASE BackLeaves
  BY <1>k, <1>17 DEF BackLeaves, order, fields, screen, history
<1>18. CASE ChoosePicture
  BY <1>k, <1>18 DEF ChoosePicture, order, fields, screen, history
<1>19. CASE HideRuns
  BY <1>k, <1>19 DEF HideRuns, order, fields, history
<1>20. CASE UploadAnswered
  BY <1>k, <1>20 DEF UploadAnswered, order, fields, screen, history
<1>21. CASE UploadFails
  BY <1>k, <1>21 DEF UploadFails, order, fields, screen, history
<1> QED
  BY <1>1, <1>2, <1>3, <1>4, <1>5, <1>8, <1>9, <1>10, <1>11, <1>12, <1>13,
     <1>14, <1>15, <1>16, <1>17, <1>18, <1>19, <1>20, <1>21, <1>22
  DEF Next, Callback, MainThread, SignupGarbled, UploadGarbled

THEOREM OrderInvariant == Spec => []InOrder
<1>1. WizardInv /\ InOrder /\ [Next]_vars => InOrder'
  <2>1. UNCHANGED vars => UNCHANGED order
    BY DEF vars, order
  <2> QED
    BY <2>1, OrderStep, OrderKept
<1> QED
  BY <1>1, OrderInit, WizardInvariant, PTL DEF Spec

(* The process dies only of overlapping sign-ups or of a reply with no     *)
(* number in it, for any number of sign-ups and uploads: one at a time, a  *)
(* reply finds its forms.                                                  *)
THEOREM NoCrashAlone == Spec => []CrashOnlyOnOverlap
<1>1. InOrder => CrashOnlyOnOverlap
  BY DEF InOrder, CrashOnlyOnOverlap
<1> QED
  BY <1>1, OrderInvariant, PTL

(* No form is lost or doubled by pop() and scndpop() while sign-ups do not *)
(* overlap.                                                                *)
THEOREM FormsKept == Spec => []KeepsForms
<1>1. InOrder => KeepsForms
  BY DEF InOrder, KeepsForms, Quiet, Phases, OnProfile, Popping, Popped,
         Turning, OnFree, Phase, AtProfile, AtFree
<1> QED
  BY <1>1, OrderInvariant, PTL

(* The form on the screen is the one on top of the queue while sign-ups do *)
(* not overlap and no animation is to come.                                *)
THEOREM TopShown == Spec => []ShowsTop
<1>1. InOrder => ShowsTop
  BY Reads DEF InOrder, ShowsTop, Quiet, Phases, OnProfile, Popping, Popped,
               Turning, Turn, OnFree, Phase
<1> QED
  BY <1>1, OrderInvariant, PTL
=============================================================================
