-------------------------- MODULE Session_proofs --------------------------
(***************************************************************************)
(* Theorems about Session, for any providers and any number of screens and *)
(* requests: whose the session is, and the language that is spoken.        *)
(***************************************************************************)
EXTENDS Session, SequenceTheorems, TLAPS

LEMMA AnyOfIsIn == ASSUME NEW S, S # {} PROVE AnyOf(S) \in S
BY DEF AnyOf

----------------------------------------------------------------------------
(* Records *)

LEMMA RequestKinds ==
  ASSUME NEW r \in Requests
  PROVE  /\ r.kind \in {"none", "newProvider", "getProfile", "signup"}
         /\ r.kind = "none" => r = Idle
         /\ r.kind = "newProvider" => r \in SignIns
         /\ r.kind = "getProfile" => r \in ProfileGets
         /\ r.kind = "signup" => r \in SignUps
         /\ r.of \in Ids \cup {Nobody}
BY DEF Requests, Idle, SignIns, ProfileGets, SignUps

LEMMA SignInMoves ==
  ASSUME NEW r \in SignIns
  PROVE  /\ r.of \in Ids /\ r.who \in Providers /\ r.exist \in {0, 1}
         /\ r.kind = "newProvider"
         /\ \A w \in {"sent", "code", "exist", "user"} :
              /\ [r EXCEPT !.at = w] \in SignIns
              /\ [r EXCEPT !.at = w].of = r.of
              /\ [r EXCEPT !.at = w].who = r.who
              /\ [r EXCEPT !.at = w].at = w
         /\ \A e \in {0, 1} :
              /\ [r EXCEPT !.at = "code", !.exist = e] \in SignIns
              /\ [r EXCEPT !.at = "code", !.exist = e].of = r.of
              /\ [r EXCEPT !.at = "code", !.exist = e].at = "code"
BY DEF SignIns

LEMMA ProfileGetMoves ==
  ASSUME NEW r \in ProfileGets
  PROVE  /\ r.of \in Ids \cup {Nobody} /\ r.who \in Providers \cup {NoOne}
         /\ r.kind = "getProfile" /\ r.at \in {"sent", "nameless"}
         /\ [r EXCEPT !.at = "nameless"] \in ProfileGets
         /\ [r EXCEPT !.at = "nameless"].of = r.of
         /\ [r EXCEPT !.at = "nameless"].at = "nameless"
         /\ [r EXCEPT !.of = Nobody] \in ProfileGets
         /\ [r EXCEPT !.of = Nobody].of = Nobody
         /\ [r EXCEPT !.of = Nobody].at = r.at
BY DEF ProfileGets

LEMMA ScreenKinds ==
  ASSUME NEW r \in Records
  PROVE  /\ r.kind \in {"gone", "Splash", "Signup", "Profile_information",
                        "MainActivity"}
         /\ r.kind = "Signup" => r \in SignupScreens
         /\ r.kind = "Profile_information" => r \in Wizards
         /\ r.kind = "MainActivity" => r \in Mains
BY DEF Records, Gone, NewSplash, SignupScreens, Wizards, Mains

LEMMA SignupMoves ==
  ASSUME NEW r \in SignupScreens
  PROVE  /\ r.kind = "Signup"
         /\ \A l \in {"no", "yes", "cut"} :
              /\ [r EXCEPT !.loading = l] \in SignupScreens
              /\ [r EXCEPT !.exist = 0, !.loading = l] \in SignupScreens
         /\ \A e \in {0, 1} : [r EXCEPT !.exist = e] \in SignupScreens
BY DEF SignupScreens

LEMMA WizardMoves ==
  ASSUME NEW r \in Wizards
  PROVE  /\ r.kind = "Profile_information"
         /\ r.signed \in Providers \cup {NoOne}
         /\ \A p \in Providers \cup {NoOne} :
              /\ [r EXCEPT !.signed = p] \in Wizards
              /\ [r EXCEPT !.signed = p].signed = p
BY DEF Wizards

LEMMA MainMoves ==
  ASSUME NEW r \in Mains
  PROVE  /\ r.kind = "MainActivity" /\ r.told \in BOOLEAN
         /\ \A h \in {"new", "asked", "away"} :
              /\ [r EXCEPT !.home = h] \in Mains
              /\ [r EXCEPT !.home = h].told = r.told
         /\ [r EXCEPT !.told = TRUE] \in Mains
BY DEF Mains

LEMMA NewScreens ==
  /\ NewSplash \in Records /\ NewSplash.kind = "Splash"
  /\ NewSignup \in Records /\ NewSignup.kind = "Signup"
  /\ NewWizard \in Records /\ NewWizard.kind = "Profile_information"
  /\ NewWizard.signed = NoOne
  /\ NewMain \in Records /\ NewMain.kind = "MainActivity" /\ NewMain.told = FALSE
  /\ Gone \in Records
BY DEF Records, SignupScreens, Wizards, Mains, Gone, NewSplash, NewSignup,
       NewWizard, NewMain

LEMMA PutUserIsTyped ==
  ASSUME NEW p \in Preferences, NEW v \in Providers \cup {NoOne}
  PROVE  /\ [p EXCEPT !.user_id = v] \in Preferences
         /\ [p EXCEPT !.user_id = v].login = p.login
         /\ [p EXCEPT !.user_id = v].user_id = v
BY DEF Preferences

LEMMA PutNameIsTyped ==
  ASSUME NEW p \in Preferences, NEW v \in Providers \cup {NoOne}
  PROVE  /\ [p EXCEPT !.username = v] \in Preferences
         /\ [p EXCEPT !.username = v].login = p.login
         /\ [p EXCEPT !.username = v].user_id = p.user_id
         /\ [p EXCEPT !.username = v].owner = p.owner
         /\ [p EXCEPT !.username = v].username = v
BY DEF Preferences

LEMMA PutLoginIsTyped ==
  ASSUME NEW p \in Preferences, NEW v \in Providers \cup {NoOne},
         NEW b \in BOOLEAN
  PROVE  /\ [p EXCEPT !.login = b, !.owner = v] \in Preferences
         /\ [p EXCEPT !.login = b, !.owner = v].login = b
         /\ [p EXCEPT !.login = b, !.owner = v].owner = v
         /\ [p EXCEPT !.login = b, !.owner = v].user_id = p.user_id
         /\ [p EXCEPT !.login = b, !.owner = v].username = p.username
BY DEF Preferences

LEMMA PutLangIsTyped ==
  ASSUME NEW p \in Preferences, NEW l \in Langs
  PROVE  /\ [p EXCEPT !.defaultLang = l] \in Preferences
         /\ [p EXCEPT !.defaultLang = l].login = p.login
         /\ [p EXCEPT !.defaultLang = l].owner = p.owner
         /\ [p EXCEPT !.defaultLang = l].user_id = p.user_id
         /\ [p EXCEPT !.defaultLang = l].username = p.username
BY DEF Preferences

----------------------------------------------------------------------------
(* The task *)

LEMMA WhereIsIndex ==
  ASSUME NEW i \in Present
  PROVE  Where(i) \in DOMAIN stack /\ stack[Where(i)] = i
BY DEF Present, Where

LEMMA WithoutTyped ==
  ASSUME stack \in Seq(Ids), NEW i
  PROVE  Without(i) \in Seq(Ids)
<1>1. CASE i \in Present
  <2>1. Where(i) \in 1..Len(stack) /\ Len(stack) \in Nat
    BY <1>1, WhereIsIndex
  <2>2. \A n \in 1..Len(stack) : stack[n] \in Ids
    OBVIOUS
  <2>3. SubSeq(stack, 1, Where(i) - 1) \in Seq(Ids)
    <3>1. \A n \in 1..(Where(i) - 1) : stack[n] \in Ids
      BY <2>1, <2>2
    <3> QED
      BY <2>1, <3>1, SubSeqProperties
  <2>4. SubSeq(stack, Where(i) + 1, Len(stack)) \in Seq(Ids)
    <3>1. \A n \in (Where(i) + 1)..Len(stack) : stack[n] \in Ids
      BY <2>1, <2>2
    <3> QED
      BY <2>1, <3>1, SubSeqProperties
  <2> QED
    BY <1>1, <2>3, <2>4, ConcatProperties DEF Without
<1> QED
  BY <1>1 DEF Without

LEMMA WithoutOnly ==
  ASSUME stack \in Seq(Ids), Len(stack) <= 1, NEW i \in Present
  PROVE  stack = <<i>> /\ Without(i) = <<>>
<1>1. Where(i) \in 1..Len(stack) /\ stack[Where(i)] = i
  BY WhereIsIndex
<1>2. Len(stack) = 1 /\ Where(i) = 1
  <2>1. Len(stack) \in Nat
    BY LenProperties
  <2>2. Where(i) \in Int /\ 1 <= Where(i) /\ Where(i) <= Len(stack)
    BY <1>1, <2>1
  <2>3. Len(stack) = 0 \/ Len(stack) = 1
    <3>1. \A m \in Nat : m <= 1 => m = 0 \/ m = 1
      OBVIOUS
    <3> QED
      BY <2>1, <3>1
  <2> QED
    BY <2>2, <2>3
<1>3. stack = <<i>>
  BY <1>1, <1>2
<1>4. SubSeq(stack, 1, 0) = <<>> /\ SubSeq(stack, 2, 1) = <<>>
  BY SubSeqEmpty, 0 < 1, 1 < 2
<1>5. Without(i) = SubSeq(stack, 1, Where(i) - 1)
                     \o SubSeq(stack, Where(i) + 1, Len(stack))
  BY DEF Without
<1>6. Without(i) = <<>> \o <<>>
  BY <1>2, <1>4, <1>5
<1> QED
  BY <1>3, <1>6

(* What StartAndFinish() and Finish() leave: the new activity has the      *)
(* number of none of whom a reply in `cs' is still to come.                *)
LEMMA Starts ==
  ASSUME TypeOK, NEW a \in Records, NEW i, NEW cs \in SUBSET Calls,
         StartAndFinish(a, i, cs)
  PROVE  /\ stack' \in Seq(Ids)
         /\ act' \in [Ids -> Records]
         /\ \A j \in Ids \cap Heard(cs) : act'[j] = act[j]
<1> DEFINE unused == Ids \ (Heard(cs) \cup (Present \ {i}))
<1>1. PICK n : n = AnyOf(unused)
  OBVIOUS
<1>2. n \in unused /\ n \in Ids \ Heard(cs)
  BY <1>1, AnyOfIsIn DEF StartAndFinish
<1>3. stack' = <<n>> \o Without(i)
  BY <1>1 DEF StartAndFinish
<1>4. act' = [j \in Ids |-> IF j = n THEN a
                            ELSE IF j \in unused THEN Gone ELSE act[j]]
  BY <1>1 DEF StartAndFinish
<1>5. Gone \in Records
  BY NewScreens
<1>6. stack' \in Seq(Ids)
  <2>1. stack \in Seq(Ids)
    BY DEF TypeOK
  <2>2. <<n>> \in Seq(Ids)
    BY <1>2
  <2> QED
    BY <1>3, <2>1, <2>2, WithoutTyped, ConcatProperties
<1>7. act \in [Ids -> Records]
  BY DEF TypeOK
<1>8. act' \in [Ids -> Records]
  <2> SUFFICES ASSUME NEW j \in Ids
               PROVE  act'[j] \in Records
    BY <1>4
  <2>1. CASE j = n
    BY <1>4, <2>1
  <2>2. CASE j # n /\ j \in unused
    BY <1>4, <1>5, <2>2
  <2>3. CASE j # n /\ j \notin unused
    <3>1. act'[j] = act[j]
      BY <1>4, <2>3
    <3> QED
      BY <1>7, <3>1
  <2> QED
    BY <2>1, <2>2, <2>3
<1>9. ASSUME NEW j \in Ids \cap Heard(cs)
      PROVE  act'[j] = act[j]
  <2>1. j # n /\ j \notin unused /\ j \in Ids
    BY <1>2
  <2> HIDE DEF unused
  <2> QED
    BY <1>4, <2>1
<1> QED
  BY <1>6, <1>8, <1>9

LEMMA Finishes ==
  ASSUME TypeOK, NEW i \in Ids, Finish(i)
  PROVE  /\ stack' \in Seq(Ids)
         /\ act' \in [Ids -> Records]
         /\ \A j \in Ids \cap Heard(Calls) : act'[j] = act[j]
BY WithoutTyped, NewScreens DEF TypeOK, Finish

----------------------------------------------------------------------------
(* Types: a reply that is still to come finds an activity of its kind,     *)
(* whether it is in the task or not.                                       *)

KindInv ==
  \A c \in Calls :
    /\ call[c].kind = "newProvider" => act[call[c].of].kind = "Signup"
    /\ call[c].kind = "signup" =>
         act[call[c].of].kind = "Profile_information"
    /\ call[c].kind = "getProfile" /\ call[c].of # Nobody =>
         act[call[c].of].kind = "MainActivity"

TypeInv == TypeOK /\ KindInv

LEMMA OfIsHeard ==
  ASSUME NEW cs \in SUBSET Calls, NEW c \in cs
  PROVE  call[c].of \in Heard(cs)
BY DEF Heard

LEMMA KindKept ==
  ASSUME TypeInv, NEW cs \in SUBSET Calls,
         \A j \in Ids \cap Heard(cs) : act'[j].kind = act[j].kind,
         \A c \in Calls :
           \/ call'[c].kind = "none"
           \/ /\ c \in cs /\ call'[c].kind = call[c].kind
              /\ \/ call'[c].of = call[c].of
                 \/ call[c].kind = "getProfile" /\ call'[c].of = Nobody
  PROVE  KindInv'
<1> SUFFICES ASSUME NEW c \in Calls
             PROVE  /\ call'[c].kind = "newProvider" =>
                         act'[call'[c].of].kind = "Signup"
                    /\ call'[c].kind = "signup" =>
                         act'[call'[c].of].kind = "Profile_information"
                    /\ call'[c].kind = "getProfile" /\ call'[c].of # Nobody =>
                         act'[call'[c].of].kind = "MainActivity"
  BY DEF KindInv
<1>1. CASE call'[c].kind = "none"
  BY <1>1
<1>2. CASE c \in cs /\ call[c].of \in Ids /\ call'[c].kind = call[c].kind
             /\ call'[c].of = call[c].of
  <2>1. act'[call[c].of].kind = act[call[c].of].kind
    BY <1>2, OfIsHeard
  <2> QED
    BY <1>2, <2>1 DEF TypeInv, KindInv
<1>3. CASE call[c].of \notin Ids /\ call'[c].kind = call[c].kind
             /\ call'[c].of = call[c].of
  <2>1. call[c] \in Requests
    BY DEF TypeInv, TypeOK
  <2> QED
    BY <1>3, <2>1, RequestKinds, SignInMoves DEF SignUps
<1>4. CASE call'[c].kind = call[c].kind /\ call[c].kind = "getProfile"
             /\ call'[c].of = Nobody
  BY <1>4
<1> QED
  BY <1>1, <1>2, <1>3, <1>4

LEMMA Sends ==
  ASSUME TypeOK, NEW r \in Requests, Send(r)
  PROVE  \E c \in Calls :
           /\ call[c] = Idle /\ call' \in [Calls -> Requests]
           /\ call'[c] = r
           /\ \A d \in Calls : d # c => call'[d] = call[d]
<1>1. AnyOf(FreeCalls) \in FreeCalls
  BY AnyOfIsIn DEF Send
<1> QED
  BY <1>1 DEF Send, FreeCalls, TypeOK

LEMMA MovesOn ==
  ASSUME TypeOK, NEW c \in Calls, NEW r \in Requests,
         call' = [call EXCEPT ![c] = r]
  PROVE  /\ call' \in [Calls -> Requests]
         /\ call'[c] = r
         /\ \A d \in Calls : d # c => call'[d] = call[d]
BY DEF TypeOK

LEMMA IdleIsTyped == Idle \in Requests /\ Idle.kind = "none" /\ Idle.of = Nobody
BY DEF Requests, Idle

LEMMA DoneIsTyped ==
  ASSUME TypeOK, NEW c \in Calls, Done(c)
  PROVE  /\ call' \in [Calls -> Requests]
         /\ call'[c] = Idle
         /\ \A d \in Calls : d # c => call'[d] = call[d]
BY IdleIsTyped DEF Done, TypeOK

(* The two parts of TypeOK: preferences and process, screens and requests. *)
SavedOK == prefs \in Preferences /\ disk \in Preferences
ProcessOK ==
  /\ alive \in BOOLEAN
  /\ locale \in Langs \cup {NoLang} /\ alarm \in Langs \cup {NoLang}
  /\ chosen \in Langs
  /\ overlapped \in BOOLEAN /\ strayed \in BOOLEAN
  /\ named \subseteq Providers \cup {NoOne}
ScreensOK ==
  stack \in Seq(Ids) /\ act \in [Ids -> Records] /\ call \in [Calls -> Requests]

LEMMA TypeParts == TypeOK <=> SavedOK /\ ProcessOK /\ ScreensOK
BY DEF TypeOK, SavedOK, ProcessOK, ScreensOK

LEMMA TypePartsNext == TypeOK' <=> SavedOK' /\ ProcessOK' /\ ScreensOK'
BY DEF TypeOK, SavedOK, ProcessOK, ScreensOK

LEMMA OpeningTyped ==
  ASSUME TypeInv, NEW lang \in Langs, OpenSplash(lang)
  PROVE  SavedOK' /\ ScreensOK' /\ KindInv'
<1>1. StartAndFinish(NewSplash, Nobody, Calls) /\ call' = call
  BY DEF OpenSplash
<1>2. ScreensOK' /\ \A j \in Ids \cap Heard(Calls) : act'[j] = act[j]
  BY <1>1, Starts, NewScreens DEF ScreensOK, TypeInv, TypeOK
<1>3. KindInv'
  BY <1>1, <1>2, KindKept
<1>4. SavedOK'
  BY PutLangIsTyped DEF OpenSplash, Put, Apply, SavedOK, TypeInv, TypeOK
<1> QED
  BY <1>2, <1>3, <1>4

LEMMA EndingTyped ==
  ASSUME NEW d \in Preferences, EndsWith(d)
  PROVE  SavedOK' /\ ScreensOK' /\ KindInv'
<1>1. /\ stack' = <<>> /\ act' = [i \in Ids |-> Gone]
      /\ call' = [c \in Calls |-> Idle] /\ prefs' = d /\ disk' = d
  BY DEF EndsWith
<1>2. \A c \in Calls : call'[c].kind = "none"
  BY <1>1, IdleIsTyped
<1>3. KindInv'
  BY <1>2 DEF KindInv
<1> QED
  BY <1>1, <1>3, IdleIsTyped, NewScreens DEF SavedOK, ScreensOK

LEMMA DyingTyped ==
  ASSUME TypeInv, Dies, UNCHANGED history
  PROVE  TypeInv'
<1>1. PICK d \in {disk, prefs} :
        /\ EndsWith(d)
        /\ chosen' = IF alarm = NoLang THEN d.defaultLang ELSE chosen
  BY DEF Dies
<1>2. d \in Preferences
  BY DEF TypeInv, TypeOK
<1>3. SavedOK' /\ ScreensOK' /\ KindInv'
  BY <1>1, <1>2, EndingTyped
<1>4. d.defaultLang \in Langs
  BY <1>2 DEF Preferences
<1>5. ProcessOK'
  BY <1>1, <1>4 DEF Dies, EndsWith, history, ProcessOK, TypeInv, TypeOK
<1> QED
  BY <1>3, <1>5, TypePartsNext DEF TypeInv

(* The user and the main thread *)

LEMMA LaunchTyped == ASSUME TypeInv, Launch PROVE TypeInv'
<1>1. prefs.defaultLang \in Langs
  BY DEF TypeInv, TypeOK, Preferences
<1>2. SavedOK' /\ ScreensOK' /\ KindInv'
  BY <1>1, OpeningTyped DEF Launch
<1>3. ProcessOK'
  BY <1>1 DEF Launch, OpenSplash, ProcessOK, TypeInv, TypeOK
<1> QED
  BY <1>2, <1>3, TypePartsNext DEF TypeInv

LEMMA AlarmTyped == ASSUME TypeInv, AlarmRings PROVE TypeInv'
<1>1. alarm \in Langs
  BY DEF AlarmRings, TypeInv, TypeOK
<1>2. SavedOK' /\ ScreensOK' /\ KindInv'
  BY <1>1, OpeningTyped DEF AlarmRings
<1>3. ProcessOK'
  BY <1>1 DEF AlarmRings, OpenSplash, ProcessOK, TypeInv, TypeOK
<1> QED
  BY <1>2, <1>3, TypePartsNext DEF TypeInv

LEMMA ChangeLangTyped ==
  ASSUME TypeInv, NEW i \in Ids, ChangeLang(i) PROVE TypeInv'
<1> DEFINE lang == IF prefs.defaultLang = "ar" THEN "en" ELSE "ar"
<1>1. lang \in Langs
  BY SessionAssumption DEF ChangeLang
<1>2. PICK d \in Preferences : EndsWith(d)
  <2>1. [prefs EXCEPT !.defaultLang = lang] \in Preferences /\ disk \in Preferences
    BY <1>1, PutLangIsTyped DEF TypeInv, TypeOK
  <2> QED
    BY <2>1 DEF ChangeLang
<1>3. SavedOK' /\ ScreensOK' /\ KindInv'
  BY <1>2, EndingTyped
<1>4. ProcessOK'
  BY <1>1, <1>2 DEF ChangeLang, EndsWith, history, ProcessOK, TypeInv, TypeOK
<1> QED
  BY <1>3, <1>4, TypePartsNext DEF TypeInv

(* An activity that starts another: what it may do to the types.           *)
LEMMA StartingTyped ==
  ASSUME TypeInv, NEW a \in Records, NEW i,
         StartAndFinish(a, i, Calls), call' = call
  PROVE  ScreensOK' /\ KindInv'
<1>1. ScreensOK' /\ \A j \in Ids \cap Heard(Calls) : act'[j] = act[j]
  BY Starts DEF ScreensOK, TypeInv, TypeOK
<1> QED
  BY <1>1, KindKept

(* A reply that starts an activity is not waited for any longer.           *)
LEMMA AnsweringTyped ==
  ASSUME TypeInv, NEW a \in Records, NEW c \in Calls, NEW i,
         StartAndFinish(a, i, Calls \ {c}), Done(c)
  PROVE  ScreensOK' /\ KindInv'
<1>1. /\ stack' \in Seq(Ids) /\ act' \in [Ids -> Records]
      /\ \A j \in Ids \cap Heard(Calls \ {c}) : act'[j] = act[j]
  BY Starts DEF TypeInv
<1>2. /\ call' \in [Calls -> Requests]
      /\ call'[c] = Idle
      /\ \A d \in Calls : d # c => call'[d] = call[d]
  BY DoneIsTyped DEF TypeInv
<1>3. \A d \in Calls :
        \/ call'[d].kind = "none"
        \/ d \in Calls \ {c} /\ call'[d].kind = call[d].kind
                             /\ call'[d].of = call[d].of
  BY <1>2, IdleIsTyped
<1>4. KindInv'
  <2>1. Calls \ {c} \in SUBSET Calls
    OBVIOUS
  <2> QED
    BY <1>1, <1>3, <2>1, KindKept
<1> QED
  BY <1>1, <1>2, <1>4 DEF ScreensOK

(* A screen that changes and stays what it is.                             *)
LEMMA ChangingTyped ==
  ASSUME TypeInv, NEW i \in Ids, NEW r \in Records, r.kind = act[i].kind,
         act' = [act EXCEPT ![i] = r], stack' = stack,
         call' \in [Calls -> Requests],
         \A c \in Calls :
           \/ call'[c].kind = "none"
           \/ /\ call'[c].kind = call[c].kind
              /\ \/ call'[c].of = call[c].of
                 \/ call[c].kind = "getProfile" /\ call'[c].of = Nobody
  PROVE  ScreensOK' /\ KindInv'
<1>1. act' \in [Ids -> Records] /\ \A j \in Ids : act'[j].kind = act[j].kind
  BY DEF TypeInv, TypeOK
<1>2. KindInv'
  <2>1. Calls \in SUBSET Calls
    OBVIOUS
  <2> QED
    BY <1>1, <2>1, KindKept
<1> QED
  BY <1>1, <1>2 DEF ScreensOK, TypeInv, TypeOK

LEMMA ProcessStays ==
  ASSUME TypeInv, UNCHANGED process, UNCHANGED named,
         overlapped' \in BOOLEAN, strayed' \in BOOLEAN
  PROVE  ProcessOK'
BY DEF ProcessOK, process, TypeInv, TypeOK

LEMMA SavedStays == ASSUME TypeInv, UNCHANGED saved PROVE SavedOK'
BY DEF SavedOK, saved, TypeInv, TypeOK

LEMMA LeavingTyped ==
  ASSUME TypeInv, NEW i \in Ids,
         OpenApp(i) \/ BackLeaves(i) \/ SignOut(i) \/ EnterApp(i)
  PROVE  TypeInv'
<1>1. CASE OpenApp(i)
  BY <1>1, StartingTyped, ProcessStays, SavedStays, TypePartsNext, NewScreens
     DEF OpenApp, history, TypeInv, TypeOK
<1>2. CASE BackLeaves(i)
  <2>1. ScreensOK' /\ \A j \in Ids \cap Heard(Calls) : act'[j] = act[j]
    BY <1>2, Finishes DEF BackLeaves, ScreensOK, TypeInv, TypeOK
  <2>2. KindInv'
    <3>1. call' = call /\ Calls \in SUBSET Calls
      BY <1>2 DEF BackLeaves
    <3> QED
      BY <2>1, <3>1, KindKept
  <2> QED
    BY <1>2, <2>1, <2>2, ProcessStays, SavedStays, TypePartsNext
       DEF BackLeaves, history, TypeInv, TypeOK
<1>3. CASE SignOut(i)
  <2>1. SavedOK'
    BY <1>3, PutLoginIsTyped DEF SignOut, Apply, SavedOK, TypeInv, TypeOK
  <2> QED
    BY <1>3, <2>1, StartingTyped, ProcessStays, TypePartsNext, NewScreens
       DEF SignOut, history, TypeInv, TypeOK
<1>4. CASE EnterApp(i)
  <2>1. act[i].signed \in Providers \cup {NoOne}
    BY <1>4, ScreenKinds, WizardMoves DEF EnterApp, InFront, TypeInv, TypeOK
  <2>2. SavedOK'
    BY <1>4, <2>1, PutLoginIsTyped DEF EnterApp, Apply, SavedOK, TypeInv, TypeOK
  <2> QED
    BY <1>4, <2>2, StartingTyped, ProcessStays, TypePartsNext, NewScreens
       DEF EnterApp, history, TypeInv, TypeOK
<1> QED
  BY <1>1, <1>2, <1>3, <1>4

LEMMA SendNothingTyped ==
  ASSUME TypeInv, NEW i \in Ids, SendNothing(i)
  PROVE  TypeInv'
<1>1. act[i] \in SignupScreens
  BY ScreenKinds DEF SendNothing, InFront, TypeInv, TypeOK
<1>2. [act[i] EXCEPT !.exist = 0] \in SignupScreens
  BY <1>1, SignupMoves
<1>3. /\ [act[i] EXCEPT !.exist = 0] \in Records
      /\ [act[i] EXCEPT !.exist = 0].kind = act[i].kind
  BY <1>1, <1>2, SignupMoves DEF Records
<1>4. ScreensOK' /\ KindInv'
  BY <1>3, ChangingTyped DEF SendNothing, TypeInv, TypeOK
<1> QED
  BY <1>4, ProcessStays, SavedStays, TypePartsNext
     DEF SendNothing, history, TypeInv, TypeOK

(* A request that is sent for a screen of its kind.                        *)
LEMMA SendingTyped ==
  ASSUME TypeInv, NEW i \in Ids, NEW r \in Requests, Send(r), r.of = i,
         act' \in [Ids -> Records], stack' = stack,
         \A j \in Ids : act'[j].kind = act[j].kind,
         r.kind = "newProvider" => act[i].kind = "Signup",
         r.kind = "signup" => act[i].kind = "Profile_information",
         r.kind = "getProfile" => act[i].kind = "MainActivity"
  PROVE  ScreensOK' /\ KindInv'
<1>1. PICK c \in Calls :
        /\ call' \in [Calls -> Requests] /\ call'[c] = r
        /\ \A d \in Calls : d # c => call'[d] = call[d]
  BY Sends DEF TypeInv
<1>2. ASSUME NEW d \in Calls
      PROVE  /\ call'[d].kind = "newProvider" =>
                  act'[call'[d].of].kind = "Signup"
             /\ call'[d].kind = "signup" =>
                  act'[call'[d].of].kind = "Profile_information"
             /\ call'[d].kind = "getProfile" /\ call'[d].of # Nobody =>
                  act'[call'[d].of].kind = "MainActivity"
  <2>1. CASE d = c
    BY <1>1, <2>1
  <2>2. CASE d # c
    <3>1. call'[d] = call[d] /\ call[d] \in Requests
      BY <1>1, <2>2 DEF TypeInv, TypeOK
    <3>2. call[d].kind \in {"newProvider", "signup"} => call[d].of \in Ids
      BY <3>1, RequestKinds, SignInMoves DEF SignUps
    <3>3. call[d].kind = "getProfile" => call[d].of \in Ids \cup {Nobody}
      BY <3>1, RequestKinds
    <3> QED
      BY <3>1, <3>2, <3>3 DEF TypeInv, KindInv
  <2> QED
    BY <2>1, <2>2
<1> QED
  BY <1>1, <1>2 DEF ScreensOK, KindInv, TypeInv, TypeOK

LEMMA SendSignInTyped ==
  ASSUME TypeInv, NEW i \in Ids, SendSignIn(i)
  PROVE  TypeInv'
<1>1. act[i] \in SignupScreens /\ act \in [Ids -> Records]
  BY ScreenKinds DEF SendSignIn, InFront, TypeInv, TypeOK
<1>2. \A l \in {"yes", "cut"} :
        /\ [act[i] EXCEPT !.exist = 0, !.loading = l] \in Records
        /\ [act[i] EXCEPT !.exist = 0, !.loading = l].kind = "Signup"
  BY <1>1, SignupMoves DEF Records
<1>3. act[i].kind = "Signup"
  BY <1>1, SignupMoves
<1>4. ASSUME NEW p \in Providers,
             Send([kind |-> "newProvider", of |-> i, who |-> p, exist |-> 0,
                   at |-> "sent"]),
             act' = [act EXCEPT ![i].exist = 0, ![i].loading = "yes"]
      PROVE  ScreensOK' /\ KindInv'
  <2> DEFINE r == [kind |-> "newProvider", of |-> i, who |-> p, exist |-> 0,
                   at |-> "sent"]
  <2>1. r \in Requests
    BY DEF Requests, SignIns
  <2>2. act'[i] = [act[i] EXCEPT !.exist = 0, !.loading = "yes"]
    BY <1>1, <1>4
  <2>3. \A j \in Ids : j # i => act'[j] = act[j]
    BY <1>1, <1>4
  <2>4. act' \in [Ids -> Records] /\ \A j \in Ids : act'[j].kind = act[j].kind
    <3>1. act' = [j \in Ids |-> act'[j]]
      BY <1>1, <1>4
    <3>2. \A j \in Ids : act'[j] \in Records /\ act'[j].kind = act[j].kind
      BY <1>1, <1>2, <1>3, <2>2, <2>3
    <3> QED
      BY <3>1, <3>2
  <2>5. Send(r) /\ r.of = i /\ r.kind = "newProvider" /\ stack' = stack
    BY <1>4 DEF SendSignIn
  <2> QED
    BY <1>3, <2>1, <2>4, <2>5, SendingTyped
<1>5. ASSUME act' = [act EXCEPT ![i].exist = 0, ![i].loading = "cut"],
             call' = call
      PROVE  ScreensOK' /\ KindInv'
  <2>1. act' = [act EXCEPT ![i] = [act[i] EXCEPT !.exist = 0, !.loading = "cut"]]
    BY <1>5
  <2> QED
    BY <1>2, <1>3, <1>5, <2>1, ChangingTyped DEF SendSignIn, TypeInv, TypeOK
<1>6. ScreensOK' /\ KindInv'
  BY <1>4, <1>5 DEF SendSignIn
<1>7. overlapped' \in BOOLEAN /\ strayed' \in BOOLEAN
  BY DEF SendSignIn, TypeInv, TypeOK
<1> QED
  BY <1>6, <1>7, ProcessStays, SavedStays, TypePartsNext DEF SendSignIn, TypeInv

LEMMA SendProfileTyped ==
  ASSUME TypeInv, NEW i \in Ids, SendProfile(i)
  PROVE  TypeInv'
<1> DEFINE r == [kind |-> "signup", of |-> i, who |-> prefs.user_id]
<1>1. r \in Requests
  BY DEF Requests, SignUps, Preferences, TypeInv, TypeOK
<1>2. ScreensOK' /\ KindInv'
  BY <1>1, SendingTyped DEF SendProfile, InFront, TypeInv, TypeOK
<1> QED
  BY <1>2, ProcessStays, SavedStays, TypePartsNext
     DEF SendProfile, history, TypeInv, TypeOK

(* The fragment Home is put, asks, and gives way.                          *)
LEMMA HomeMoves ==
  ASSUME TypeInv, NEW i \in Ids, act[i].kind = "MainActivity",
         NEW h \in {"new", "asked", "away"},
         act' = [act EXCEPT ![i].home = h]
  PROVE  /\ act' \in [Ids -> Records]
         /\ \A j \in Ids : act'[j].kind = act[j].kind
         /\ [act[i] EXCEPT !.home = h] \in Records
         /\ [act[i] EXCEPT !.home = h].kind = "MainActivity"
         /\ act' = [act EXCEPT ![i] = [act[i] EXCEPT !.home = h]]
<1>1. act \in [Ids -> Records] /\ act[i] \in Mains
  BY ScreenKinds DEF TypeInv, TypeOK
<1>2. /\ [act[i] EXCEPT !.home = h] \in Records
      /\ [act[i] EXCEPT !.home = h].kind = "MainActivity"
  BY <1>1, MainMoves DEF Records
<1>3. act' = [act EXCEPT ![i] = [act[i] EXCEPT !.home = h]]
  OBVIOUS
<1> QED
  BY <1>1, <1>2, <1>3

LEMMA AskProfileTyped ==
  ASSUME TypeInv, NEW i \in Ids, AskProfile(i)
  PROVE  TypeInv'
<1> DEFINE r == [kind |-> "getProfile", of |-> i, at |-> "sent",
                 who |-> prefs.user_id]
<1>1. r \in Requests
  BY DEF Requests, ProfileGets, Preferences, TypeInv, TypeOK
<1>2. /\ act' \in [Ids -> Records]
      /\ \A j \in Ids : act'[j].kind = act[j].kind
      /\ act[i].kind = "MainActivity" /\ stack' = stack
  BY HomeMoves DEF AskProfile, There
<1>3. CASE Send(r)
  <2>1. ScreensOK' /\ KindInv'
    BY <1>1, <1>2, <1>3, SendingTyped
  <2> QED
    BY <2>1, ProcessStays, SavedStays, TypePartsNext
       DEF AskProfile, history, TypeInv, TypeOK
<1>4. CASE call' = call
  <2>1. KindInv'
    <3>1. Calls \in SUBSET Calls
      OBVIOUS
    <3> QED
      BY <1>2, <1>4, <3>1, KindKept
  <2>2. ScreensOK'
    BY <1>2, <1>4 DEF ScreensOK, TypeInv, TypeOK
  <2> QED
    BY <2>1, <2>2, ProcessStays, SavedStays, TypePartsNext
       DEF AskProfile, history, TypeInv, TypeOK
<1> QED
  BY <1>3, <1>4 DEF AskProfile

LEMMA HomeLeft ==
  ASSUME TypeInv, NEW i \in Ids, act[i].kind = "MainActivity", LeaveHome(i)
  PROVE  /\ call' \in [Calls -> Requests]
         /\ \A c \in Calls :
              /\ call'[c].kind = call[c].kind
              /\ IF call[c].of = i
                   THEN /\ call'[c].of = Nobody /\ call'[c].at = call[c].at
                        /\ call[c].kind = "getProfile"
                   ELSE call'[c] = call[c]
<1> SUFFICES ASSUME NEW c \in Calls
             PROVE  /\ call'[c] \in Requests
                    /\ call'[c].kind = call[c].kind
                    /\ IF call[c].of = i
                         THEN /\ call'[c].of = Nobody
                              /\ call'[c].at = call[c].at
                              /\ call[c].kind = "getProfile"
                         ELSE call'[c] = call[c]
  BY DEF LeaveHome
<1>1. call[c] \in Requests
  BY DEF TypeInv, TypeOK
<1>2. CASE call[c].of = i
  <2>1. call'[c] = [call[c] EXCEPT !.of = Nobody]
    BY <1>2 DEF LeaveHome
  <2>2. i # Nobody
    BY SessionAssumption DEF Ids, Nobody
  <2>3. call[c].kind = "getProfile" /\ call[c] \in ProfileGets
    BY <1>1, <1>2, <2>2, RequestKinds, IdleIsTyped DEF TypeInv, KindInv
  <2> QED
    BY <1>2, <2>1, <2>3, ProfileGetMoves DEF Requests
<1>3. CASE call[c].of # i
  BY <1>1, <1>3 DEF LeaveHome
<1> QED
  BY <1>2, <1>3

LEMMA SelectTyped ==
  ASSUME TypeInv, NEW i \in Ids, SelectHome(i) \/ SelectOther(i)
  PROVE  TypeInv'
<1>1. PICK h \in {"new", "away"} : act' = [act EXCEPT ![i].home = h]
  BY DEF SelectHome, SelectOther
<1>2. act[i].kind = "MainActivity" /\ LeaveHome(i) /\ stack' = stack
  BY DEF SelectHome, SelectOther, InFront
<1>3. /\ [act[i] EXCEPT !.home = h] \in Records
      /\ [act[i] EXCEPT !.home = h].kind = act[i].kind
      /\ act' = [act EXCEPT ![i] = [act[i] EXCEPT !.home = h]]
  BY <1>1, <1>2, HomeMoves
<1>4. ScreensOK' /\ KindInv'
  BY <1>2, <1>3, HomeLeft, ChangingTyped
<1> QED
  BY <1>4, ProcessStays, SavedStays, TypePartsNext
     DEF SelectHome, SelectOther, history, TypeInv, TypeOK

(* Replies *)

(* A reply that comes to its next statement.                               *)
LEMMA ReplyMoves ==
  ASSUME TypeInv, NEW c \in Calls, NEW r \in Requests,
         r.kind = call[c].kind, r.of = call[c].of,
         call' = [call EXCEPT ![c] = r]
  PROVE  /\ call' \in [Calls -> Requests]
         /\ \A d \in Calls : call'[d].kind = call[d].kind
                               /\ call'[d].of = call[d].of
BY DEF TypeInv, TypeOK

(* A reply of which a sign-in hears.                                       *)
LEMMA SignInHears ==
  ASSUME TypeInv, NEW c \in Calls, call[c].kind = "newProvider"
  PROVE  /\ call[c] \in SignIns /\ call[c].of \in Ids
         /\ act[call[c].of] \in SignupScreens
<1>1. call[c] \in Requests /\ act \in [Ids -> Records]
  BY DEF TypeInv, TypeOK
<1>2. call[c] \in SignIns /\ call[c].of \in Ids
  BY <1>1, RequestKinds, SignInMoves
<1>3. act[call[c].of].kind = "Signup"
  BY DEF TypeInv, KindInv
<1> QED
  BY <1>1, <1>2, <1>3, ScreenKinds

LEMMA HidingTyped ==
  ASSUME TypeInv, NEW c \in Calls, call[c].kind = "newProvider",
         HideLoading(call[c].of), stack' = stack,
         call' \in [Calls -> Requests],
         \A d \in Calls : \/ call'[d].kind = "none"
                          \/ /\ call'[d].kind = call[d].kind
                             /\ call'[d].of = call[d].of
  PROVE  ScreensOK' /\ KindInv'
<1> DEFINE i == call[c].of
           s == [act[i] EXCEPT !.loading = "no"]
<1>1. i \in Ids /\ act[i] \in SignupScreens
  BY SignInHears
<1>2. s \in Records /\ s.kind = act[i].kind
  <2>1. s \in SignupScreens
    BY <1>1, SignupMoves
  <2> HIDE DEF s
  <2>2. s.kind = "Signup" /\ act[i].kind = "Signup"
    BY <1>1, <2>1, SignupMoves
  <2> QED
    BY <2>1, <2>2 DEF Records
<1>3. act' = [act EXCEPT ![i] = s]
  BY DEF HideLoading
<1> HIDE DEF i, s
<1> QED
  BY <1>1, <1>2, <1>3, ChangingTyped

LEMMA SignInTyped ==
  ASSUME TypeInv, NEW c \in Calls,
         SignInFails(c) \/ SignInAccepted(c) \/ PutExist(c) \/ PutUser(c)
  PROVE  TypeInv'
<1>1. /\ call[c] \in SignIns /\ call[c].of \in Ids
      /\ act[call[c].of] \in SignupScreens
      /\ call[c].kind = "newProvider"
  BY SignInHears
     DEF SignInFails, SignInAccepted, PutExist, PutUser, SignInAt
<1>2. call[c].who \in Providers /\ call[c].exist \in {0, 1}
  BY <1>1, SignInMoves
<1>3. CASE SignInFails(c)
  <2>1. call' \in [Calls -> Requests] /\ call'[c].kind = "none"
        /\ \A d \in Calls : d # c => call'[d] = call[d]
    BY <1>3, DoneIsTyped, IdleIsTyped DEF SignInFails, TypeInv
  <2>2. ScreensOK' /\ KindInv'
    BY <1>1, <1>3, <2>1, HidingTyped DEF SignInFails
  <2> QED
    BY <1>3, <2>2, ProcessStays, SavedStays, TypePartsNext
       DEF SignInFails, history, TypeInv, TypeOK
<1>4. CASE SignInAccepted(c)
  <2>1. PICK e \in {0, 1} :
          call' = [call EXCEPT ![c].at = "code", ![c].exist = e]
    BY <1>4 DEF SignInAccepted
  <2> DEFINE r == [call[c] EXCEPT !.at = "code", !.exist = e]
  <2>2. r \in Requests /\ r.kind = call[c].kind /\ r.of = call[c].of
    BY <1>1, SignInMoves DEF Requests
  <2>3. call' = [call EXCEPT ![c] = r]
    BY <2>1 DEF TypeInv, TypeOK
  <2>4. /\ call' \in [Calls -> Requests]
        /\ \A d \in Calls : call'[d].kind = call[d].kind
                              /\ call'[d].of = call[d].of
    <3> HIDE DEF r
    <3> QED
      BY <2>2, <2>3, ReplyMoves
  <2>5. ScreensOK' /\ KindInv'
    BY <1>1, <1>4, <2>4, HidingTyped DEF SignInAccepted
  <2> QED
    BY <1>4, <2>5, ProcessStays, SavedStays, TypePartsNext
       DEF SignInAccepted, history, TypeInv, TypeOK
<1>5. ASSUME NEW w \in {"exist", "user"}, At(c, w)
      PROVE  /\ call' \in [Calls -> Requests]
             /\ \A d \in Calls : call'[d].kind = call[d].kind
                                   /\ call'[d].of = call[d].of
  <2> DEFINE r == [call[c] EXCEPT !.at = w]
  <2>1. r \in Requests /\ r.kind = call[c].kind /\ r.of = call[c].of
    <3>1. r \in SignIns /\ call[c] \in SignIns
      BY <1>1, SignInMoves
    <3>2. r.of = call[c].of
      BY <3>1 DEF SignIns
    <3> HIDE DEF r
    <3>3. r.kind = "newProvider" /\ call[c].kind = "newProvider"
      BY <3>1, SignInMoves
    <3> QED
      BY <3>1, <3>2, <3>3 DEF Requests
  <2>2. call' = [call EXCEPT ![c] = r]
    BY <1>5 DEF At, TypeInv, TypeOK
  <2> HIDE DEF r
  <2> QED
    BY <2>1, <2>2, ReplyMoves
<1>6. CASE PutExist(c)
  <2> DEFINE i == call[c].of
             s == [act[i] EXCEPT !.exist = call[c].exist]
  <2>1. s \in Records /\ s.kind = act[i].kind /\ i \in Ids
    BY <1>1, <1>2, SignupMoves DEF Records
  <2>2. act' = [act EXCEPT ![i] = s]
    BY <1>6 DEF PutExist
  <2>3. ScreensOK' /\ KindInv'
    <3> HIDE DEF i, s
    <3>1. At(c, "exist") /\ stack' = stack
      BY <1>6 DEF PutExist
    <3>2. /\ call' \in [Calls -> Requests]
          /\ \A d \in Calls : call'[d].kind = call[d].kind
                                /\ call'[d].of = call[d].of
      BY <1>5, <3>1
    <3> QED
      BY <2>1, <2>2, <3>1, <3>2, ChangingTyped
  <2> QED
    BY <1>6, <2>3, ProcessStays, SavedStays, TypePartsNext
       DEF PutExist, history, TypeInv, TypeOK
<1>7. CASE PutUser(c)
  <2>1. SavedOK'
    BY <1>2, <1>7, PutUserIsTyped DEF PutUser, Put, Apply, SavedOK, TypeInv, TypeOK
  <2>2. KindInv'
    <3>1. Calls \in SUBSET Calls
      OBVIOUS
    <3> QED
      BY <1>5, <1>7, <3>1, KindKept DEF PutUser
  <2>3. ScreensOK'
    BY <1>5, <1>7 DEF PutUser, ScreensOK, TypeInv, TypeOK
  <2> QED
    BY <1>7, <2>1, <2>2, <2>3, ProcessStays, TypePartsNext
       DEF PutUser, history, TypeInv, TypeOK
<1> QED
  BY <1>3, <1>4, <1>6, <1>7

LEMMA OpenProfileInfoTyped ==
  ASSUME TypeInv, NEW c \in Calls, OpenProfileInfo(c)
  PROVE  TypeInv'
<1>1. call[c].who \in Providers
  BY SignInHears, SignInMoves DEF OpenProfileInfo, SignInAt
<1>2. ScreensOK' /\ KindInv'
  BY AnsweringTyped, NewScreens DEF OpenProfileInfo
<1>3. SavedOK'
  <2>1. CASE act[call[c].of].exist = 1
    <3>1. [prefs EXCEPT !.login = TRUE, !.owner = call[c].who] \in Preferences
      BY <1>1, PutLoginIsTyped DEF TypeInv, TypeOK
    <3> QED
      BY <2>1, <3>1
       DEF OpenProfileInfo, Apply, SavedOK, TypeInv, TypeOK
  <2>2. CASE act[call[c].of].exist # 1
    BY <2>2, SavedStays DEF OpenProfileInfo
  <2> QED
    BY <2>1, <2>2
<1>4. strayed' \in BOOLEAN /\ overlapped' \in BOOLEAN
  BY DEF OpenProfileInfo, Left, TypeInv, TypeOK
<1> QED
  BY <1>2, <1>3, <1>4, ProcessStays, TypePartsNext DEF OpenProfileInfo, TypeInv

(* A reply after which nothing is waited for and no screen has changed.    *)
LEMMA EndedTyped ==
  ASSUME TypeInv, NEW c \in Calls, Done(c), stack' = stack,
         act' \in [Ids -> Records], \A j \in Ids : act'[j].kind = act[j].kind
  PROVE  ScreensOK' /\ KindInv'
<1>1. /\ call' \in [Calls -> Requests] /\ call'[c].kind = "none"
      /\ \A d \in Calls : d # c => call'[d] = call[d]
  BY DoneIsTyped, IdleIsTyped DEF TypeInv
<1>2. Calls \in SUBSET Calls
  OBVIOUS
<1>3. KindInv'
  BY <1>1, <1>2, KindKept
<1> QED
  BY <1>1, <1>3 DEF ScreensOK, TypeInv, TypeOK

LEMMA SignupReplyTyped ==
  ASSUME TypeInv, NEW c \in Calls, ProfileAccepted(c) \/ ProfileRefused(c)
  PROVE  TypeInv'
<1>1. call[c] \in SignUps /\ act \in [Ids -> Records]
  BY RequestKinds DEF ProfileAccepted, ProfileRefused, TypeInv, TypeOK
<1>2. call[c].of \in Ids /\ call[c].who \in Providers \cup {NoOne}
      /\ call[c].kind = "signup"
  BY <1>1 DEF SignUps
<1>3. act[call[c].of] \in Wizards
  BY <1>1, <1>2, ScreenKinds DEF TypeInv, KindInv
<1>4. act' \in [Ids -> Records] /\ \A j \in Ids : act'[j].kind = act[j].kind
  <2>1. CASE act' = act
    BY <1>1, <2>1
  <2>2. CASE act' = [act EXCEPT ![call[c].of].signed = call[c].who]
    <3> DEFINE s == [act[call[c].of] EXCEPT !.signed = call[c].who]
    <3>1. s \in Records /\ s.kind = act[call[c].of].kind
      BY <1>2, <1>3, WizardMoves DEF Records
    <3>2. act' = [act EXCEPT ![call[c].of] = s]
      BY <2>2
    <3> HIDE DEF s
    <3> QED
      BY <1>1, <1>2, <3>1, <3>2
  <2> QED
    BY <2>1, <2>2 DEF ProfileAccepted, ProfileRefused
<1>5. ScreensOK' /\ KindInv'
  BY <1>4, EndedTyped DEF ProfileAccepted, ProfileRefused
<1>6. ProcessOK'
  BY <1>2 DEF ProfileAccepted, ProfileRefused, ProcessOK, process, history,
              TypeInv, TypeOK
<1> QED
  BY <1>5, <1>6, SavedStays, TypePartsNext
     DEF ProfileAccepted, ProfileRefused, TypeInv

LEMMA GetHears ==
  ASSUME TypeInv, NEW c \in Calls, call[c].kind = "getProfile"
  PROVE  /\ call[c] \in ProfileGets
         /\ call[c].who \in Providers \cup {NoOne}
         /\ ~Left(c) => call[c].of \in Ids /\ act[call[c].of] \in Mains
<1>1. call[c] \in Requests /\ act \in [Ids -> Records] /\ stack \in Seq(Ids)
  BY DEF TypeInv, TypeOK
<1>2. call[c] \in ProfileGets /\ call[c].who \in Providers \cup {NoOne}
  BY <1>1, RequestKinds, ProfileGetMoves
<1>3. ASSUME ~Left(c)
      PROVE  call[c].of \in Ids /\ act[call[c].of] \in Mains
  <2>1. call[c].of \in Ids
    BY <1>1, <1>3 DEF Left, Present
  <2>2. call[c].of # Nobody
    BY <2>1, SessionAssumption DEF Ids, Nobody
  <2> QED
    BY <1>1, <2>1, <2>2, ScreenKinds DEF TypeInv, KindInv
<1> QED
  BY <1>2, <1>3

LEMMA GetReplyTyped ==
  ASSUME TypeInv, NEW c \in Calls,
         \/ PutName(c) \/ TakeLoginBack(c) \/ OpenSignup(c) \/ NoProfile(c)
         \/ ProfileError(c)
  PROVE  TypeInv'
<1>1. /\ call[c] \in ProfileGets /\ call[c].kind = "getProfile"
      /\ call[c].who \in Providers \cup {NoOne}
      /\ ~Left(c) => call[c].of \in Ids /\ act[call[c].of] \in Mains
      /\ act \in [Ids -> Records]
  BY GetHears
     DEF PutName, TakeLoginBack, OpenSignup, NoProfile, ProfileError, ProfileAt,
         TypeInv, TypeOK
<1>2. CASE PutName(c)
  <2>1. act' \in [Ids -> Records] /\ \A j \in Ids : act'[j].kind = act[j].kind
    <3>1. CASE act' = act
      BY <1>1, <3>1
    <3>2. CASE ~Left(c) /\ act' = [act EXCEPT ![call[c].of].told = TRUE]
      <4> DEFINE s == [act[call[c].of] EXCEPT !.told = TRUE]
      <4>1. s \in Records /\ s.kind = act[call[c].of].kind
        <5>1. s \in Mains /\ act[call[c].of] \in Mains
          BY <1>1, <3>2, MainMoves
        <5> QED
          BY <5>1, MainMoves DEF Records
      <4>2. act' = [act EXCEPT ![call[c].of] = s]
        BY <3>2
      <4> HIDE DEF s
      <4> QED
        BY <1>1, <4>1, <4>2
    <3> QED
      BY <1>2, <3>1, <3>2 DEF PutName
  <2>2. ScreensOK' /\ KindInv'
    BY <1>2, <2>1, EndedTyped DEF PutName
  <2>3. SavedOK'
    BY <1>1, <1>2, PutNameIsTyped DEF PutName, Put, Apply, SavedOK, TypeInv, TypeOK
  <2>4. strayed' \in BOOLEAN /\ overlapped' \in BOOLEAN
    BY <1>2 DEF PutName, Left, TypeInv, TypeOK
  <2> QED
    BY <1>2, <2>2, <2>3, <2>4, ProcessStays, TypePartsNext DEF PutName, TypeInv
<1>3. CASE TakeLoginBack(c)
  <2> DEFINE r == [call[c] EXCEPT !.at = "nameless"]
  <2>1. r \in Requests /\ r.kind = call[c].kind /\ r.of = call[c].of
    BY <1>1, ProfileGetMoves DEF Requests
  <2>2. call' = [call EXCEPT ![c] = r]
    BY <1>3 DEF TakeLoginBack, At, TypeInv, TypeOK
  <2>3. /\ call' \in [Calls -> Requests]
        /\ \A d \in Calls : call'[d].kind = call[d].kind
                              /\ call'[d].of = call[d].of
    <3> HIDE DEF r
    <3> QED
      BY <2>1, <2>2, ReplyMoves
  <2>4. KindInv'
    <3>1. Calls \in SUBSET Calls
      OBVIOUS
    <3> QED
      BY <1>3, <2>3, <3>1, KindKept DEF TakeLoginBack
  <2>5. ScreensOK'
    BY <1>3, <2>3 DEF TakeLoginBack, ScreensOK, TypeInv, TypeOK
  <2>6. SavedOK'
    BY <1>3, PutLoginIsTyped DEF TakeLoginBack, Apply, SavedOK, TypeInv, TypeOK
  <2>7. strayed' \in BOOLEAN /\ overlapped' \in BOOLEAN
    BY <1>3 DEF TakeLoginBack, Left, TypeInv, TypeOK
  <2> QED
    BY <1>3, <2>4, <2>5, <2>6, <2>7, ProcessStays, TypePartsNext
       DEF TakeLoginBack, TypeInv
<1>4. CASE Dies /\ UNCHANGED history
  BY <1>4, DyingTyped
<1>5. CASE OpenSignup(c) /\ ~Left(c)
  <2>1. ScreensOK' /\ KindInv'
    BY <1>5, AnsweringTyped, NewScreens DEF OpenSignup
  <2> QED
    BY <1>5, <2>1, ProcessStays, SavedStays, TypePartsNext
       DEF OpenSignup, history, TypeInv, TypeOK
<1>6. CASE Done(c) /\ UNCHANGED <<process, saved, stack, act, named, history>>
  <2>1. ScreensOK' /\ KindInv'
    BY <1>1, <1>6, EndedTyped
  <2> QED
    BY <1>6, <2>1, ProcessStays, SavedStays, TypePartsNext
       DEF history, TypeInv, TypeOK
<1> QED
  BY <1>2, <1>3, <1>4, <1>5, <1>6 DEF OpenSignup, NoProfile, ProfileError

LEMMA TypeInit == Init => TypeInv
<1> SUFFICES ASSUME Init PROVE TypeInv
  OBVIOUS
<1>1. SavedOK
  BY SessionAssumption DEF Init, SavedOK, Preferences
<1>2. ProcessOK
  BY SessionAssumption DEF Init, ProcessOK
<1>3. ScreensOK
  BY IdleIsTyped, NewScreens DEF Init, ScreensOK
<1>4. KindInv
  BY IdleIsTyped DEF Init, KindInv
<1> QED
  BY <1>1, <1>2, <1>3, <1>4, TypeParts DEF TypeInv

LEMMA TypeStep == TypeInv /\ [Next]_vars => TypeInv'
<1> SUFFICES ASSUME TypeInv, [Next]_vars PROVE TypeInv'
  OBVIOUS
<1>1. CASE Launch \/ AlarmRings
  BY <1>1, LaunchTyped, AlarmTyped
<1>2. CASE SystemKills
  BY <1>2, DyingTyped DEF SystemKills
<1>3. ASSUME NEW i \in Ids,
             \/ BackLeaves(i) \/ SendNothing(i) \/ SendSignIn(i)
             \/ SendProfile(i) \/ EnterApp(i) \/ SelectHome(i)
             \/ SelectOther(i) \/ SignOut(i) \/ ChangeLang(i)
             \/ OpenApp(i) \/ AskProfile(i)
      PROVE  TypeInv'
  BY <1>3, LeavingTyped, SendNothingTyped, SendSignInTyped, SendProfileTyped,
     SelectTyped, ChangeLangTyped, AskProfileTyped
<1>4. ASSUME NEW c \in Calls, Reply(c)
      PROVE  TypeInv'
  BY <1>4, SignInTyped, OpenProfileInfoTyped, SignupReplyTyped, GetReplyTyped
     DEF Reply
<1>5. CASE UNCHANGED vars
  BY <1>5 DEF vars, process, saved, history, TypeInv, TypeOK, KindInv
<1> QED
  BY <1>1, <1>2, <1>3, <1>4, <1>5 DEF Next, User, MainThread

(* The variables keep their types, with any number of screens and requests *)
(* and whoever is to hear of a reply.                                      *)
THEOREM TypeCorrect == Spec => []TypeOK
<1>1. TypeInv => TypeOK
  BY DEF TypeInv
<1> QED
  BY <1>1, TypeInit, TypeStep, PTL DEF Spec

----------------------------------------------------------------------------
(* What a screen or a reply does to the language: nothing.  A language is  *)
(* chosen in ChangeLang, lost in Dies, and spoken again in OpenSplash.     *)

Shape(p) == p \in [login : {p.login}, user_id : {p.user_id},
                    username : {p.username}, defaultLang : {p.defaultLang},
                    owner : {p.owner}]

(* The strengthening of LanguageKept: the language last chosen is in the   *)
(* intent of the alarm, if one is set, and else in the preferences and, of *)
(* a process that is alive, in its resources.                              *)
LangInv ==
  /\ Shape(prefs) /\ Shape(disk)
  /\ ~alive => stack = <<>> /\ \A c \in Calls : call[c] = Idle
  /\ alarm # NoLang => alarm = chosen
  /\ alarm = NoLang => prefs.defaultLang = chosen
  /\ alive /\ alarm = NoLang => locale = chosen

Quiet ==
  /\ alive /\ UNCHANGED process
  /\ Shape(prefs') /\ Shape(disk')
  /\ prefs'.defaultLang = prefs.defaultLang

LEMMA QuietKeeps == LangInv /\ Quiet => LangInv'
BY DEF LangInv, Quiet, process, Shape

(* Preferences keep their shape when another field than defaultLang is put.*)
LEMMA PutKeepsShape ==
  ASSUME Shape(prefs), NEW v, NEW w
  PROVE  /\ Shape([prefs EXCEPT !.user_id = v])
         /\ [prefs EXCEPT !.user_id = v].defaultLang = prefs.defaultLang
         /\ Shape([prefs EXCEPT !.username = v])
         /\ [prefs EXCEPT !.username = v].defaultLang = prefs.defaultLang
         /\ Shape([prefs EXCEPT !.defaultLang = v])
         /\ [prefs EXCEPT !.defaultLang = v].defaultLang = v
         /\ Shape([prefs EXCEPT !.login = v, !.owner = w])
         /\ [prefs EXCEPT !.login = v, !.owner = w].defaultLang
              = prefs.defaultLang
BY DEF Shape

LEMMA DyingKeeps == LangInv /\ Dies => LangInv'
BY DEF LangInv, Dies, EndsWith

LEMMA UserIsQuiet ==
  ASSUME LangInv, NEW i \in Ids,
         \/ BackLeaves(i) \/ SendNothing(i) \/ SendSignIn(i) \/ SendProfile(i)
         \/ EnterApp(i) \/ SelectHome(i) \/ SelectOther(i) \/ SignOut(i)
         \/ OpenApp(i) \/ AskProfile(i)
  PROVE  Quiet
<1>1. stack # <<>> => alive
  BY DEF LangInv
<1>2. alive
  BY <1>1 DEF BackLeaves, SendNothing, SendSignIn, SendProfile, EnterApp,
              SelectHome, SelectOther, SignOut, OpenApp, AskProfile,
              InFront, There, Present
<1>3. CASE UNCHANGED <<process, saved>>
  BY <1>2, <1>3 DEF Quiet, LangInv, saved
<1>4. CASE EnterApp(i)
  BY <1>2, <1>4, PutKeepsShape DEF EnterApp, Apply, Quiet, LangInv
<1>5. CASE SignOut(i)
  BY <1>2, <1>5, PutKeepsShape DEF SignOut, Apply, Quiet, LangInv
<1> QED
  BY <1>3, <1>4, <1>5 DEF BackLeaves, SendNothing, SendSignIn, SendProfile,
              SelectHome, SelectOther, OpenApp, AskProfile

LEMMA ReplyIsQuiet ==
  ASSUME LangInv, NEW c \in Calls, Reply(c)
  PROVE  Quiet \/ Dies
<1>1. alive
  BY DEF LangInv, Reply, Idle, SignInAt, ProfileAt, SignInFails,
         SignInAccepted, PutExist, PutUser, OpenProfileInfo, ProfileAccepted,
         ProfileRefused, PutName, TakeLoginBack, OpenSignup, NoProfile,
         ProfileError
<1>2. CASE UNCHANGED <<process, saved>>
  BY <1>1, <1>2 DEF Quiet, LangInv, saved
<1>3. CASE PutUser(c)
  BY <1>1, <1>3, PutKeepsShape DEF PutUser, Put, Apply, Quiet, LangInv
<1>4. CASE OpenProfileInfo(c)
  <2>1. CASE act[call[c].of].exist = 1
    <3> DEFINE w == call[c].who
    <3>1. /\ prefs' = [prefs EXCEPT !.login = TRUE, !.owner = w]
          /\ disk' = prefs /\ UNCHANGED process
      BY <1>4, <2>1 DEF OpenProfileInfo, Apply
    <3> HIDE DEF w
    <3>2. /\ Shape([prefs EXCEPT !.login = TRUE, !.owner = w])
          /\ [prefs EXCEPT !.login = TRUE, !.owner = w].defaultLang
               = prefs.defaultLang
      BY PutKeepsShape DEF LangInv
    <3> QED
      BY <1>1, <3>1, <3>2 DEF Quiet, LangInv
  <2>2. CASE act[call[c].of].exist # 1
    BY <1>2, <1>4, <2>2 DEF OpenProfileInfo
  <2> QED
    BY <2>1, <2>2
<1>5. CASE PutName(c)
  BY <1>1, <1>5, PutKeepsShape DEF PutName, Put, Apply, Quiet, LangInv
<1>6. CASE TakeLoginBack(c)
  BY <1>1, <1>6, PutKeepsShape DEF TakeLoginBack, Apply, Quiet, LangInv
<1>7. CASE OpenSignup(c)
  BY <1>2, <1>7 DEF OpenSignup
<1>8. CASE ProfileError(c)
  BY <1>2, <1>8 DEF ProfileError
<1> QED
  BY <1>2, <1>3, <1>4, <1>5, <1>6, <1>7, <1>8
     DEF Reply, SignInFails, SignInAccepted, PutExist, ProfileAccepted,
         ProfileRefused, NoProfile

LEMMA LangStep == LangInv /\ [Next]_vars => LangInv'
<1> SUFFICES ASSUME LangInv, [Next]_vars
             PROVE  LangInv'
  OBVIOUS
<1>1. CASE Launch
  BY <1>1, PutKeepsShape DEF Launch, OpenSplash, Put, Apply, LangInv
<1>2. CASE AlarmRings
  BY <1>2, PutKeepsShape DEF AlarmRings, OpenSplash, Put, Apply, LangInv
<1>3. ASSUME NEW i \in Ids, ChangeLang(i)
      PROVE  LangInv'
  <2> DEFINE lang == IF prefs.defaultLang = "ar" THEN "en" ELSE "ar"
             dead == /\ alive' = FALSE /\ stack' = <<>>
                     /\ \A c \in Calls : call'[c] = Idle
  <2>1. dead /\ alarm' = lang /\ chosen' = lang
    BY <1>3 DEF ChangeLang, EndsWith
  <2>2. /\ prefs' = disk' /\ disk' \in {disk, [prefs EXCEPT !.defaultLang = lang]}
    BY <1>3 DEF ChangeLang, EndsWith
  <2>3. Shape(prefs') /\ Shape(disk')
    BY <2>2, PutKeepsShape DEF LangInv
  <2>4. lang # NoLang
    BY DEF NoLang
  <2> QED
    BY <2>1, <2>3, <2>4 DEF LangInv
<1>4. CASE SystemKills
  BY <1>4, DyingKeeps DEF SystemKills
<1>5. ASSUME NEW c \in Calls, Reply(c)
      PROVE  LangInv'
  BY <1>5, ReplyIsQuiet, QuietKeeps, DyingKeeps
<1>6. ASSUME NEW i \in Ids,
             \/ BackLeaves(i) \/ SendNothing(i) \/ SendSignIn(i)
             \/ SendProfile(i) \/ EnterApp(i) \/ SelectHome(i)
             \/ SelectOther(i) \/ SignOut(i) \/ OpenApp(i) \/ AskProfile(i)
      PROVE  LangInv'
  BY <1>6, UserIsQuiet, QuietKeeps
<1>7. CASE UNCHANGED vars
  BY <1>7 DEF vars, process, saved, LangInv, Shape
<1> QED
  BY <1>1, <1>2, <1>3, <1>4, <1>5, <1>6, <1>7 DEF Next, User, MainThread

(* Whoever the providers are, and however many screens and requests there  *)
(* are, the application speaks the language chosen once it has restarted.  *)
THEOREM LanguageIsKept == Spec => []LanguageKept
<1>1. Init => LangInv
  BY DEF Init, LangInv, Shape, NoLang
<1>2. LangInv => LanguageKept
  BY DEF LangInv, LanguageKept
<1> QED
  BY <1>1, <1>2, LangStep, PTL DEF Spec

----------------------------------------------------------------------------
(* Whose the session is *)

OfUser(p) == p.login => p.user_id = p.owner

(* While a sign-in is under way no one is signed in, and no screen is open *)
(* from which another could come.                                          *)
AskingInv ==
  \A c \in Calls : call[c].kind = "newProvider" =>
    /\ ~prefs.login
    /\ \A i \in Present : act[i].kind \in {"Splash", "Signup"}
    /\ \A d \in Calls : call[d].kind = "newProvider" => d = c
    /\ call[c].at = "user" => prefs.user_id = call[c].who

(* The screen that is open is of user_id, or of no one.                    *)
ScreensInv ==
  \A i \in Present :
    /\ act[i].kind = "MainActivity" =>
         /\ prefs.login \/ \E c \in Calls : ProfileAt(c, "nameless")
         /\ act[i].told => prefs.username = prefs.user_id
    /\ act[i].kind \in {"Signup", "Profile_information"} => ~prefs.login
    /\ act[i].kind = "Profile_information" =>
         act[i].signed \in {NoOne, prefs.user_id}

(* So is every reply that the open screen waits for.                       *)
RepliesInv ==
  \A c \in Calls : ~Left(c) =>
    /\ ProfileAt(c, "nameless") => ~prefs.login
    /\ ProfileAt(c, "sent") \/ call[c].kind = "signup" =>
         call[c].who = prefs.user_id

(* The strengthening of SessionKept, which holds as long as no sign-ins    *)
(* overlap and nothing is done for a screen that has gone.                 *)
OwnInv ==
  /\ Len(stack) <= 1
  /\ OfUser(prefs) /\ OfUser(disk)
  /\ AskingInv /\ ScreensInv /\ RepliesInv

LEMMA HistoryGrows ==
  ASSUME TypeOK, TypeOK', [Next]_vars, Regular'
  PROVE  Regular
<1>1. CASE UNCHANGED history
  BY <1>1 DEF history, Regular
<1>2. CASE AlarmRings
  BY <1>2 DEF AlarmRings, OpenSplash, Regular, TypeOK
<1>3. ASSUME NEW i \in Ids, SendSignIn(i)
      PROVE  Regular
  BY <1>3 DEF SendSignIn, Regular, TypeOK
<1>4. ASSUME NEW c \in Calls, OpenProfileInfo(c)
      PROVE  Regular
  BY <1>4 DEF OpenProfileInfo, Regular, TypeOK
<1>5. ASSUME NEW c \in Calls, PutName(c) \/ TakeLoginBack(c)
      PROVE  Regular
  BY <1>5 DEF PutName, TakeLoginBack, Regular, TypeOK
<1>6. CASE Launch \/ SystemKills
  BY <1>1, <1>6 DEF Launch, SystemKills, OpenSplash, history
<1>7. ASSUME NEW i \in Ids,
             \/ BackLeaves(i) \/ SendNothing(i) \/ SendProfile(i)
             \/ EnterApp(i) \/ SelectHome(i) \/ SelectOther(i)
             \/ SignOut(i) \/ ChangeLang(i) \/ OpenApp(i) \/ AskProfile(i)
      PROVE  Regular
  BY <1>1, <1>7 DEF BackLeaves, SendNothing, SendProfile, EnterApp,
     SelectHome, SelectOther, SignOut, ChangeLang, OpenApp, AskProfile
<1>8. ASSUME NEW c \in Calls,
             \/ SignInFails(c) \/ SignInAccepted(c) \/ PutExist(c)
             \/ PutUser(c) \/ ProfileAccepted(c) \/ ProfileRefused(c)
             \/ OpenSignup(c) \/ NoProfile(c) \/ ProfileError(c)
      PROVE  Regular
  BY <1>1, <1>8 DEF SignInFails, SignInAccepted, PutExist, PutUser,
     ProfileAccepted, ProfileRefused, OpenSignup, NoProfile, ProfileError
<1>9. CASE UNCHANGED vars
  BY <1>1, <1>9 DEF vars, history
<1> QED
  BY <1>2, <1>3, <1>4, <1>5, <1>6, <1>7, <1>8, <1>9
     DEF Next, User, MainThread, Reply

(* The process ends: nothing is open and nothing is waited for.            *)
LEMMA EndingOwn ==
  ASSUME NEW d, EndsWith(d), OfUser(d)
  PROVE  OwnInv'
<1>1. /\ stack' = <<>> /\ prefs' = d /\ disk' = d
      /\ \A c \in Calls : call'[c] = Idle
  BY DEF EndsWith
<1>2. Present' = {} /\ Len(stack') <= 1
  BY <1>1 DEF Present
<1>3. OfUser(prefs') /\ OfUser(disk')
  BY <1>1
<1>4. AskingInv' /\ ScreensInv' /\ RepliesInv'
  BY <1>1, <1>2, IdleIsTyped DEF AskingInv, ScreensInv, RepliesInv, Left
<1> QED
  BY <1>2, <1>3, <1>4 DEF OwnInv, OfUser

LEMMA DyingOwn == OwnInv /\ Dies => OwnInv'
BY EndingOwn DEF Dies, OwnInv

LEMMA HeadIsPresent ==
  ASSUME stack \in Seq(Ids), stack # <<>>
  PROVE  Head(stack) \in Present
BY DEF Present

(* A screen that takes the place of the one that is open: of the replies   *)
(* still to come it hears none.                                            *)
LEMMA TakesPlace ==
  ASSUME TypeInv, Len(stack) <= 1, NEW a \in Records, NEW i,
         NEW cs \in SUBSET Calls, StartAndFinish(a, i, cs),
         i \in Present \/ stack = <<>>
  PROVE  \E n \in Ids \ Heard(cs) : stack' = <<n>> /\ act'[n] = a
<1> DEFINE unused == Ids \ (Heard(cs) \cup (Present \ {i}))
<1>1. PICK n : n = AnyOf(unused)
  OBVIOUS
<1>2. n \in unused /\ n \in Ids \ Heard(cs)
  BY <1>1, AnyOfIsIn DEF StartAndFinish
<1>3. stack' = <<n>> \o Without(i)
  BY <1>1 DEF StartAndFinish
<1>4. act'[n] = a
  BY <1>1, <1>2 DEF StartAndFinish
<1>5. Without(i) = <<>>
  <2>1. CASE i \in Present
    BY <2>1, WithoutOnly DEF TypeInv, TypeOK
  <2>2. CASE i \notin Present
    BY <2>2 DEF Without
  <2> QED
    BY <2>1, <2>2
<1> QED
  BY <1>2, <1>3, <1>4, <1>5

LEMMA OpeningOwn ==
  ASSUME TypeInv, OwnInv, NEW a \in Records, NEW i, NEW cs \in SUBSET Calls,
         StartAndFinish(a, i, cs), i \in Present \/ stack = <<>>,
         OfUser(prefs)', OfUser(disk)',
         \A c \in Calls : \/ call'[c].kind = "none"
                          \/ c \in cs /\ call'[c] = call[c],
         \A c \in cs : call'[c].kind = "newProvider" =>
           /\ ~prefs'.login /\ prefs'.user_id = prefs.user_id
           /\ a.kind \in {"Splash", "Signup"},
         a.kind = "MainActivity" => prefs'.login /\ ~a.told,
         a.kind \in {"Signup", "Profile_information"} => ~prefs'.login,
         a.kind = "Profile_information" => a.signed = NoOne
  PROVE  OwnInv'
<1>1. PICK n \in Ids \ Heard(cs) : stack' = <<n>> /\ act'[n] = a
  BY TakesPlace DEF OwnInv
<1>3. stack' = <<n>>
  BY <1>1
<1>4. Present' = {n} /\ Len(stack') <= 1
  BY <1>3 DEF Present
<1>5. AskingInv'
  <2> SUFFICES ASSUME NEW c \in Calls, call'[c].kind = "newProvider"
               PROVE  /\ ~prefs'.login
                      /\ a.kind \in {"Splash", "Signup"}
                      /\ \A d \in Calls : call'[d].kind = "newProvider" => d = c
                      /\ call'[c].at = "user" => prefs'.user_id = call'[c].who
    BY <1>1, <1>4 DEF AskingInv
  <2>1. \A d \in Calls : call'[d].kind = "newProvider" =>
          d \in cs /\ call'[d] = call[d]
    OBVIOUS
  <2> QED
    BY <2>1 DEF OwnInv, AskingInv
<1>6. ScreensInv'
  BY <1>1, <1>4 DEF ScreensInv
<1>7. RepliesInv'
  <2> SUFFICES ASSUME NEW c \in Calls, call'[c].of = n
               PROVE  call'[c].kind = "none"
    BY <1>4 DEF RepliesInv, Left, ProfileAt
  <2> QED
    BY OfIsHeard
<1> QED
  BY <1>4, <1>5, <1>6, <1>7 DEF OwnInv

(* What opens a screen *)

LEMMA SplashOwn ==
  ASSUME TypeInv, OwnInv, NEW lang \in Langs, stack = <<>>, OpenSplash(lang)
  PROVE  OwnInv'
<1>1. /\ prefs' = [prefs EXCEPT !.defaultLang = lang] /\ disk' = prefs
      /\ StartAndFinish(NewSplash, Nobody, Calls) /\ call' = call
  BY DEF OpenSplash, Put, Apply
<1>2. /\ prefs'.login = prefs.login /\ prefs'.owner = prefs.owner
      /\ prefs'.user_id = prefs.user_id
  BY <1>1, PutLangIsTyped DEF TypeInv, TypeOK
<1>3. OfUser(prefs)' /\ OfUser(disk)'
  BY <1>1, <1>2 DEF OwnInv, OfUser
<1>4. \A c \in Calls : call'[c].kind = "newProvider" =>
        ~prefs'.login /\ prefs'.user_id = prefs.user_id
  BY <1>1, <1>2 DEF OwnInv, AskingInv
<1> QED
  BY <1>1, <1>3, <1>4, OpeningOwn, NewScreens

LEMMA OpenAppOwn ==
  ASSUME TypeInv, OwnInv, NEW i \in Ids, OpenApp(i)
  PROVE  OwnInv'
<1> DEFINE a == IF prefs.login THEN NewMain ELSE NewSignup
<1>1. /\ StartAndFinish(a, i, Calls) /\ call' = call /\ i \in Present
      /\ prefs' = prefs /\ disk' = disk
  BY DEF OpenApp, There, saved
<1>2. prefs.login => a = NewMain
  OBVIOUS
<1>3. ~prefs.login => a = NewSignup
  OBVIOUS
<1> HIDE DEF a
<1>4. OfUser(prefs)' /\ OfUser(disk)'
  BY <1>1 DEF OwnInv, OfUser
<1>5. \A c \in Calls : call'[c].kind = "newProvider" =>
        ~prefs'.login /\ prefs'.user_id = prefs.user_id /\ a = NewSignup
  BY <1>1, <1>3 DEF OwnInv, AskingInv
<1>6. a \in Records /\ a.kind \in {"MainActivity", "Signup"}
  BY <1>2, <1>3, NewScreens
<1>7. a.kind = "MainActivity" => prefs'.login /\ ~a.told
  BY <1>1, <1>2, <1>3, NewScreens
<1>8. a.kind \in {"Signup", "Profile_information"} => ~prefs'.login
  BY <1>1, <1>2, <1>3, NewScreens
<1> QED
  BY <1>1, <1>4, <1>5, <1>6, <1>7, <1>8, OpeningOwn, NewScreens

(* A screen that is not Splash or Signup: no sign-in is under way.         *)
LEMMA NoneAsking ==
  ASSUME OwnInv, NEW i \in Present, act[i].kind \notin {"Splash", "Signup"}
  PROVE  \A c \in Calls : call[c].kind # "newProvider"
BY DEF OwnInv, AskingInv

LEMMA SignOutOwn ==
  ASSUME TypeInv, OwnInv, NEW i \in Ids, SignOut(i)
  PROVE  OwnInv'
<1>1. /\ StartAndFinish(NewSignup, i, Calls) /\ call' = call
      /\ prefs' = [prefs EXCEPT !.login = FALSE, !.owner = NoOne]
      /\ disk' = prefs
      /\ i \in Present /\ act[i].kind = "MainActivity"
  BY HeadIsPresent DEF SignOut, Apply, InFront, TypeInv, TypeOK
<1>2. ~prefs'.login
  BY <1>1, PutLoginIsTyped DEF TypeInv, TypeOK
<1>3. OfUser(prefs)' /\ OfUser(disk)'
  BY <1>1, <1>2 DEF OwnInv, OfUser
<1>4. \A c \in Calls : call'[c].kind # "newProvider"
  BY <1>1, NoneAsking
<1> QED
  BY <1>1, <1>2, <1>3, <1>4, OpeningOwn, NewScreens

LEMMA EnterAppOwn ==
  ASSUME TypeInv, OwnInv, NEW i \in Ids, EnterApp(i)
  PROVE  OwnInv'
<1> DEFINE p == act[i].signed
<1>1. /\ StartAndFinish(NewMain, i, Calls) /\ call' = call
      /\ prefs' = [prefs EXCEPT !.login = TRUE, !.owner = p]
      /\ disk' = prefs /\ p # NoOne
      /\ i \in Present /\ act[i].kind = "Profile_information"
  BY HeadIsPresent DEF EnterApp, Apply, InFront, TypeInv, TypeOK
<1>2. p \in Providers \cup {NoOne}
  BY <1>1, ScreenKinds, WizardMoves DEF TypeInv, TypeOK
<1>3. p = prefs.user_id
  BY <1>1 DEF OwnInv, ScreensInv
<1> HIDE DEF p
<1>4. prefs'.login /\ prefs'.owner = p /\ prefs'.user_id = prefs.user_id
  <2>1. prefs \in Preferences /\ prefs' = [prefs EXCEPT !.login = TRUE, !.owner = p]
    BY <1>1 DEF TypeInv, TypeOK
  <2> QED
    BY <1>2, <2>1, PutLoginIsTyped
<1>5. OfUser(prefs)' /\ OfUser(disk)'
  BY <1>1, <1>3, <1>4 DEF OwnInv, OfUser
<1>6. \A c \in Calls : call'[c].kind # "newProvider"
  BY <1>1, NoneAsking
<1> QED
  BY <1>1, <1>4, <1>5, <1>6, OpeningOwn, NewScreens

(* The answer of a sign-in whose screen is still there.                    *)
LEMMA OpenProfileInfoOwn ==
  ASSUME TypeInv, OwnInv, NEW c \in Calls, OpenProfileInfo(c), ~Left(c)
  PROVE  OwnInv'
<1> DEFINE i == call[c].of
           p == call[c].who
<1>1. i \in Present /\ Done(c) /\ call[c].kind = "newProvider"
  BY DEF Left, OpenProfileInfo, SignInAt
<1>2. prefs.user_id = p /\ ~prefs.login
  BY <1>1 DEF OpenProfileInfo, SignInAt, OwnInv, AskingInv
<1>3. p \in Providers \cup {NoOne}
  BY <1>1, SignInHears, SignInMoves
<1>4. \A d \in Calls : d # c => call'[d] = call[d]
  BY <1>1, DoneIsTyped DEF TypeInv
<1>5. call'[c].kind = "none"
  BY <1>1, DoneIsTyped, IdleIsTyped DEF TypeInv
<1>6. \A d \in Calls \ {c} : call'[d].kind # "newProvider"
  BY <1>1, <1>4 DEF OwnInv, AskingInv
<1>7. \A d \in Calls : \/ call'[d].kind = "none"
                       \/ d \in Calls \ {c} /\ call'[d] = call[d]
  BY <1>4, <1>5
<1>8. CASE act[i].exist = 1
  <2>1. /\ prefs' = [prefs EXCEPT !.login = TRUE, !.owner = p]
        /\ disk' = prefs /\ StartAndFinish(NewMain, i, Calls \ {c})
    BY <1>8 DEF OpenProfileInfo, Apply
  <2> HIDE DEF i, p
  <2>2. prefs'.login /\ prefs'.owner = p /\ prefs'.user_id = prefs.user_id
    <3>1. prefs \in Preferences /\ prefs' = [prefs EXCEPT !.login = TRUE, !.owner = p]
      BY <2>1 DEF TypeInv, TypeOK
    <3> QED
      BY <1>3, <3>1, PutLoginIsTyped
  <2>3. OfUser(prefs)' /\ OfUser(disk)'
    BY <1>2, <2>1, <2>2 DEF OwnInv, OfUser
  <2> QED
    BY <1>1, <1>6, <1>7, <2>1, <2>2, <2>3, OpeningOwn, NewScreens
<1>9. CASE act[i].exist # 1
  <2>1. prefs' = prefs /\ disk' = disk
        /\ StartAndFinish(NewWizard, i, Calls \ {c})
    BY <1>9 DEF OpenProfileInfo, saved
  <2> HIDE DEF i, p
  <2>2. OfUser(prefs)' /\ OfUser(disk)'
    BY <2>1 DEF OwnInv, OfUser
  <2> QED
    BY <1>1, <1>2, <1>6, <1>7, <2>1, <2>2, OpeningOwn, NewScreens
<1> QED
  BY <1>8, <1>9

(* Home sends a provider without a name back, or the process falls.        *)
LEMMA OpenSignupOwn ==
  ASSUME TypeInv, OwnInv, NEW c \in Calls, OpenSignup(c)
  PROVE  OwnInv'
<1> DEFINE i == call[c].of
<1>1. CASE Left(c)
  BY <1>1, DyingOwn DEF OpenSignup
<1>2. CASE ~Left(c)
  <2>1. /\ StartAndFinish(NewSignup, i, Calls \ {c}) /\ Done(c)
        /\ prefs' = prefs /\ disk' = disk
        /\ i \in Present /\ call[c].kind = "getProfile"
    BY <1>2 DEF OpenSignup, Left, saved, ProfileAt
  <2>2. act[i].kind = "MainActivity"
    BY <1>2, <2>1, GetHears, MainMoves
  <2>3. ~prefs.login
    BY <1>2 DEF OpenSignup, OwnInv, RepliesInv
  <2>4. /\ \A d \in Calls : d # c => call'[d] = call[d]
        /\ call'[c].kind = "none"
    BY <2>1, DoneIsTyped, IdleIsTyped DEF TypeInv
  <2>5. \A d \in Calls : call[d].kind # "newProvider"
    BY <2>1, <2>2, NoneAsking
  <2> HIDE DEF i
  <2>6. OfUser(prefs)' /\ OfUser(disk)'
    BY <2>1 DEF OwnInv, OfUser
  <2>7. \A d \in Calls : \/ call'[d].kind = "none"
                         \/ d \in Calls \ {c} /\ call'[d] = call[d]
    BY <2>4
  <2> QED
    BY <2>1, <2>3, <2>5, <2>6, <2>7, OpeningOwn, NewScreens
<1> QED
  BY <1>1, <1>2

(* What leaves the open screen where it is *)

PresentSame == stack' = stack /\ \A i \in Present : act'[i].kind = act[i].kind

LEMMA PresentIsTyped ==
  ASSUME TypeInv
  PROVE  Present \subseteq Ids /\ Nobody \notin Present
<1>1. stack \in Seq(Ids)
  BY DEF TypeInv, TypeOK
<1>2. Present \subseteq Ids
  BY <1>1 DEF Present
<1>3. Nobody \notin Ids
  BY SessionAssumption DEF Ids, Nobody
<1> QED
  BY <1>2, <1>3

LEMMA AskingStays ==
  ASSUME OwnInv, PresentSame, ~prefs.login => ~prefs'.login,
         \A c \in Calls : call'[c].kind = "newProvider" =>
           /\ call[c].kind = "newProvider" /\ call'[c].who = call[c].who
           /\ call'[c].at = "user" =>
                call[c].at = "user" /\ prefs'.user_id = prefs.user_id
  PROVE  AskingInv'
<1>1. Present' = Present
  BY DEF PresentSame, Present
<1> QED
  BY <1>1 DEF PresentSame, OwnInv, AskingInv

LEMMA ScreensStay ==
  ASSUME OwnInv, PresentSame, prefs'.login = prefs.login,
         \A i \in Present :
           /\ act[i].kind = "MainActivity" =>
                (act'[i].told => prefs'.username = prefs'.user_id)
           /\ act[i].kind = "Profile_information" =>
                act'[i].signed \in {NoOne, prefs'.user_id},
         \A c \in Calls : ProfileAt(c, "nameless") => ProfileAt(c, "nameless")'
  PROVE  ScreensInv'
<1>1. Present' = Present
  BY DEF PresentSame, Present
<1>2. ASSUME NEW i \in Present
      PROVE  act'[i].kind = "MainActivity" =>
               prefs'.login \/ \E c \in Calls : ProfileAt(c, "nameless")'
  BY <1>2 DEF PresentSame, OwnInv, ScreensInv
<1> QED
  BY <1>1, <1>2 DEF PresentSame, OwnInv, ScreensInv

(* A reply of which the open screen may hear.                              *)
LEMMA RepliesStay ==
  ASSUME TypeInv, OwnInv, PresentSame, ~prefs.login => ~prefs'.login,
         prefs'.user_id = prefs.user_id,
         \A c \in Calls :
           \/ call'[c] = call[c]
           \/ call'[c].kind \in {"none", "newProvider"}
           \/ call'[c].of = Nobody
           \/ /\ call'[c].who = prefs.user_id
              /\ ~ProfileAt(c, "nameless")'
  PROVE  RepliesInv'
<1>1. Present' = Present /\ Nobody \notin Present
  BY PresentIsTyped DEF PresentSame, Present
<1> SUFFICES ASSUME NEW c \in Calls, call'[c].of \in Present
             PROVE  /\ ProfileAt(c, "nameless")' => ~prefs'.login
                    /\ ProfileAt(c, "sent")' \/ call'[c].kind = "signup" =>
                         call'[c].who = prefs'.user_id
  BY <1>1 DEF RepliesInv, Left
<1>2. CASE call'[c] = call[c]
  BY <1>2 DEF OwnInv, RepliesInv, Left, ProfileAt
<1>3. CASE call'[c].kind \in {"none", "newProvider"}
  BY <1>3 DEF ProfileAt
<1>4. CASE call'[c].who = prefs.user_id /\ ~ProfileAt(c, "nameless")'
  BY <1>4
<1> QED
  BY <1>1, <1>2, <1>3, <1>4

(* A request that goes on, ends, is sent, or is not heard of any longer.   *)
GoesOn(c) ==
  \/ call'[c] = call[c]
  \/ call'[c].kind = "none" /\ ~ProfileAt(c, "nameless")
  \/ /\ call[c].kind = "newProvider" /\ call'[c].kind = "newProvider"
     /\ call'[c].who = call[c].who /\ call'[c].at # "user"
  \/ /\ call[c].kind = "getProfile" /\ call'[c].kind = "getProfile"
     /\ call'[c].of = Nobody /\ call'[c].at = call[c].at
  \/ /\ call[c].kind = "none" /\ call'[c].kind \in {"signup", "getProfile"}
     /\ call'[c].who = prefs.user_id
     /\ call'[c].kind = "getProfile" => call'[c].at = "sent"

LEMMA StayingOwn ==
  ASSUME TypeInv, OwnInv, PresentSame, UNCHANGED saved,
         \A i \in Present :
           /\ act[i].kind = "MainActivity" => (act'[i].told => act[i].told)
           /\ act[i].kind = "Profile_information" =>
                act'[i].signed \in {act[i].signed, prefs.user_id},
         \A c \in Calls : GoesOn(c)
  PROVE  OwnInv'
<1>1. prefs' = prefs /\ disk' = disk /\ stack' = stack
  BY DEF saved, PresentSame
<1>2. AskingInv'
  BY <1>1, AskingStays DEF GoesOn
<1>3. \A c \in Calls : ProfileAt(c, "nameless") => ProfileAt(c, "nameless")'
  BY DEF GoesOn, ProfileAt
<1>4. ScreensInv'
  <2>1. \A i \in Present :
          /\ act[i].kind = "MainActivity" =>
               (act'[i].told => prefs'.username = prefs'.user_id)
          /\ act[i].kind = "Profile_information" =>
               act'[i].signed \in {NoOne, prefs'.user_id}
    BY <1>1 DEF OwnInv, ScreensInv
  <2> QED
    BY <1>1, <1>3, <2>1, ScreensStay
<1>5. RepliesInv'
  <2>1. ASSUME NEW c \in Calls
        PROVE  \/ call'[c] = call[c]
               \/ call'[c].kind \in {"none", "newProvider"}
               \/ call'[c].of = Nobody
               \/ /\ call'[c].who = prefs.user_id
                  /\ ~ProfileAt(c, "nameless")'
    BY DEF GoesOn, ProfileAt
  <2> QED
    BY <1>1, <2>1, RepliesStay
<1> QED
  BY <1>1, <1>2, <1>4, <1>5 DEF OwnInv

(* One screen changes, and stays what it is.                               *)
LEMMA OneChanges ==
  ASSUME TypeInv, NEW i \in Ids, NEW r \in Records, r.kind = act[i].kind,
         stack' = stack, act' = [act EXCEPT ![i] = r]
  PROVE  /\ PresentSame
         /\ act'[i] = r
         /\ \A j \in Ids : j # i => act'[j] = act[j]
BY DEF TypeInv, TypeOK, PresentSame, Present

LEMMA NoneChanges == stack' = stack /\ act' = act => PresentSame
BY DEF PresentSame

LEMMA SignupStays ==
  ASSUME TypeInv, OwnInv, NEW i \in Ids, act[i] \in SignupScreens,
         NEW r \in SignupScreens, act' = [act EXCEPT ![i] = r],
         stack' = stack
  PROVE  /\ PresentSame
         /\ \A j \in Present :
              /\ act[j].kind = "MainActivity" => (act'[j].told => act[j].told)
              /\ act[j].kind = "Profile_information" =>
                   act'[j].signed \in {act[j].signed, prefs.user_id}
<1>1. r \in Records /\ r.kind = act[i].kind /\ act[i].kind = "Signup"
  <2>1. r.kind = "Signup" /\ act[i].kind = "Signup"
    BY SignupMoves
  <2> QED
    BY <2>1 DEF Records
<1>2. /\ PresentSame /\ \A j \in Ids : j # i => act'[j] = act[j]
  BY <1>1, OneChanges
<1> QED
  BY <1>1, <1>2, PresentIsTyped

LEMMA SendNothingOwn ==
  ASSUME TypeInv, OwnInv, NEW i \in Ids, SendNothing(i)
  PROVE  OwnInv'
<1>1. act[i] \in SignupScreens
  BY ScreenKinds DEF SendNothing, InFront, TypeInv, TypeOK
<1>2. [act[i] EXCEPT !.exist = 0] \in SignupScreens
  BY <1>1, SignupMoves
<1>3. act' = [act EXCEPT ![i] = [act[i] EXCEPT !.exist = 0]]
  BY DEF SendNothing
<1>4. stack' = stack /\ UNCHANGED saved /\ \A c \in Calls : GoesOn(c)
  BY DEF SendNothing, GoesOn
<1> QED
  BY <1>1, <1>2, <1>3, <1>4, SignupStays, StayingOwn

(* A sign-in is sent by no one who is signed in.                           *)
LEMMA SendSignInOwn ==
  ASSUME TypeInv, OwnInv, NEW i \in Ids, SendSignIn(i),
         overlapped \in BOOLEAN, ~overlapped'
  PROVE  OwnInv'
<1>1. act[i] \in SignupScreens /\ i \in Present
  BY ScreenKinds, HeadIsPresent DEF SendSignIn, InFront, TypeInv, TypeOK
<1>2. prefs' = prefs /\ disk' = disk /\ stack' = stack /\ UNCHANGED saved
  BY DEF SendSignIn, saved
<1>3. PICK l \in {"yes", "cut"} :
        act' = [act EXCEPT ![i] = [act[i] EXCEPT !.exist = 0, !.loading = l]]
  BY DEF SendSignIn
<1>4. [act[i] EXCEPT !.exist = 0, !.loading = l] \in SignupScreens
  BY <1>1, SignupMoves
<1>5. /\ PresentSame
      /\ \A j \in Present :
           /\ act[j].kind = "MainActivity" => (act'[j].told => act[j].told)
           /\ act[j].kind = "Profile_information" =>
                act'[j].signed \in {act[j].signed, prefs.user_id}
  BY <1>1, <1>2, <1>3, <1>4, SignupStays
<1>6. CASE call' = call
  BY <1>2, <1>5, <1>6, StayingOwn DEF GoesOn
<1>7. ASSUME NEW p \in Providers,
             Send([kind |-> "newProvider", of |-> i, who |-> p, exist |-> 0,
                   at |-> "sent"]),
             overlapped' = (overlapped
                            \/ \E c \in Calls : call[c].kind = "newProvider")
      PROVE  OwnInv'
  <2> DEFINE r == [kind |-> "newProvider", of |-> i, who |-> p, exist |-> 0,
                   at |-> "sent"]
  <2>1. r \in Requests /\ r.kind = "newProvider" /\ r.at = "sent"
    BY DEF Requests, SignIns
  <2> HIDE DEF r
  <2>2. PICK c \in Calls :
          /\ call[c] = Idle /\ call' \in [Calls -> Requests] /\ call'[c] = r
          /\ \A d \in Calls : d # c => call'[d] = call[d]
    BY <1>7, <2>1, Sends DEF TypeInv, r
  <2>3. \A d \in Calls : call[d].kind # "newProvider"
    BY <1>7
  <2>4. act[i].kind = "Signup" /\ Present = {i}
    <3>1. act[i].kind = "Signup"
      BY <1>1, SignupMoves
    <3>2. stack = <<i>>
      BY <1>1, WithoutOnly DEF OwnInv, TypeInv, TypeOK
    <3> QED
      BY <3>1, <3>2 DEF Present
  <2>5. ~prefs.login
    BY <2>4 DEF OwnInv, ScreensInv
  <2>6. AskingInv'
    <3>1. Present' = {i} /\ act'[i].kind = "Signup"
      BY <1>2, <1>5, <2>4 DEF PresentSame, Present
    <3>2. \A d \in Calls : call'[d].kind = "newProvider" => d = c
      BY <2>2, <2>3
    <3> QED
      BY <1>2, <2>1, <2>2, <2>5, <3>1, <3>2 DEF AskingInv
  <2>7. call[c].kind = "none"
    BY <2>2, IdleIsTyped
  <2>8. ScreensInv'
    <3>1. \A d \in Calls : ProfileAt(d, "nameless") => ProfileAt(d, "nameless")'
      BY <2>2, <2>7 DEF ProfileAt
    <3>2. \A j \in Present : act[j].kind = "Signup"
      BY <2>4
    <3> QED
      BY <1>2, <1>5, <3>1, <3>2, ScreensStay
  <2>9. RepliesInv'
    BY <1>2, <1>5, <2>1, <2>2, RepliesStay
  <2> QED
    BY <1>2, <2>6, <2>8, <2>9 DEF OwnInv
<1> QED
  BY <1>6, <1>7 DEF SendSignIn

(* The reply to a sign-in, until the id is stored.                         *)
LEMMA SignInRepliesOwn ==
  ASSUME TypeInv, OwnInv, NEW c \in Calls,
         SignInFails(c) \/ SignInAccepted(c) \/ PutExist(c)
  PROVE  OwnInv'
<1> DEFINE i == call[c].of
<1>1. /\ call[c].kind = "newProvider" /\ call[c] \in SignIns
      /\ i \in Ids /\ act[i] \in SignupScreens
  BY SignInHears DEF SignInFails, SignInAccepted, PutExist, SignInAt
<1>2. call[c].exist \in {0, 1}
  BY <1>1, SignInMoves
<1>3. stack' = stack /\ UNCHANGED saved
  BY DEF SignInFails, SignInAccepted, PutExist
<1>4. PICK s \in SignupScreens : act' = [act EXCEPT ![i] = s]
  <2>1. CASE HideLoading(i)
    <3>1. [act[i] EXCEPT !.loading = "no"] \in SignupScreens
      BY <1>1, SignupMoves
    <3>2. act' = [act EXCEPT ![i] = [act[i] EXCEPT !.loading = "no"]]
      BY <2>1 DEF HideLoading
    <3> QED
      BY <3>1, <3>2
  <2>2. CASE PutExist(c)
    <3>1. [act[i] EXCEPT !.exist = call[c].exist] \in SignupScreens
      BY <1>1, <1>2, SignupMoves
    <3>2. act' = [act EXCEPT ![i] = [act[i] EXCEPT !.exist = call[c].exist]]
      BY <2>2 DEF PutExist
    <3> QED
      BY <3>1, <3>2
  <2> QED
    BY <2>1, <2>2 DEF SignInFails, SignInAccepted
<1> HIDE DEF i
<1>5. \A d \in Calls : GoesOn(d)
  <2>1. CASE Done(c)
    <3>1. /\ call'[c].kind = "none"
          /\ \A d \in Calls : d # c => call'[d] = call[d]
      BY <2>1, DoneIsTyped, IdleIsTyped DEF TypeInv
    <3> QED
      BY <1>1, <3>1 DEF GoesOn, ProfileAt
  <2>2. ASSUME NEW r \in Requests, call' = [call EXCEPT ![c] = r],
               r.kind = "newProvider", r.who = call[c].who, r.at # "user"
        PROVE  \A d \in Calls : GoesOn(d)
    BY <1>1, <2>2, MovesOn DEF GoesOn, TypeInv
  <2>3. CASE SignInAccepted(c)
    <3>1. PICK e \in {0, 1} :
            call' = [call EXCEPT ![c] = [call[c] EXCEPT !.at = "code", !.exist = e]]
      BY <2>3 DEF SignInAccepted
    <3> DEFINE r == [call[c] EXCEPT !.at = "code", !.exist = e]
    <3>2. r \in SignIns /\ r.who = call[c].who /\ r.at = "code"
      BY <1>1 DEF SignIns
    <3>3. call' = [call EXCEPT ![c] = r]
      BY <3>1
    <3> HIDE DEF r
    <3>4. r \in Requests /\ r.kind = "newProvider"
      BY <3>2, SignInMoves DEF Requests
    <3> QED
      BY <2>2, <3>2, <3>3, <3>4
  <2>4. CASE PutExist(c)
    <3> DEFINE r == [call[c] EXCEPT !.at = "exist"]
    <3>1. call' = [call EXCEPT ![c] = r]
      BY <2>4 DEF PutExist, At
    <3>2. r \in SignIns /\ r.who = call[c].who /\ r.at = "exist"
      BY <1>1 DEF SignIns
    <3> HIDE DEF r
    <3>3. r \in Requests /\ r.kind = "newProvider"
      BY <3>2, SignInMoves DEF Requests
    <3> QED
      BY <2>2, <3>1, <3>2, <3>3
  <2> QED
    BY <2>1, <2>3, <2>4 DEF SignInFails
<1> QED
  BY <1>1, <1>3, <1>4, <1>5, SignupStays, StayingOwn

(* The id of a sign-in is stored: no screen is open to which it matters.   *)
LEMMA PutUserOwn ==
  ASSUME TypeInv, OwnInv, NEW c \in Calls, PutUser(c)
  PROVE  OwnInv'
<1> DEFINE p == call[c].who
<1>1. /\ call[c].kind = "newProvider" /\ call[c] \in SignIns
      /\ p \in Providers
  BY SignInHears, SignInMoves DEF PutUser, SignInAt
<1>2. /\ prefs' = [prefs EXCEPT !.user_id = p] /\ disk' = prefs
      /\ PresentSame
  BY NoneChanges DEF PutUser, Put, Apply
<1>3. prefs'.login = prefs.login /\ prefs'.user_id = p
  <2>1. prefs \in Preferences
    BY DEF TypeInv, TypeOK
  <2> QED
    BY <1>1, <1>2, <2>1, PutUserIsTyped
<1>4. /\ ~prefs.login
      /\ \A i \in Present : act[i].kind \in {"Splash", "Signup"}
      /\ \A d \in Calls : call[d].kind = "newProvider" => d = c
  BY <1>1 DEF OwnInv, AskingInv
<1>5. /\ call'[c].kind = "newProvider" /\ call'[c].who = p
      /\ \A d \in Calls : d # c => call'[d] = call[d]
  <2> DEFINE r == [call[c] EXCEPT !.at = "user"]
  <2>1. call' = [call EXCEPT ![c] = r]
    BY DEF PutUser, At
  <2>2. r \in SignIns /\ r.who = p
    BY <1>1 DEF SignIns
  <2> HIDE DEF r
  <2>3. r \in Requests /\ r.kind = "newProvider"
    BY <2>2, SignInMoves DEF Requests
  <2> QED
    BY <2>1, <2>2, <2>3, MovesOn DEF TypeInv
<1> HIDE DEF p
<1>6. Present' = Present /\ \A i \in Present : act'[i].kind = act[i].kind
  BY <1>2 DEF PresentSame, Present
<1>7. AskingInv'
  BY <1>3, <1>4, <1>5, <1>6 DEF AskingInv
<1>8. ScreensInv'
  BY <1>3, <1>4, <1>6 DEF ScreensInv
<1>9. RepliesInv'
  <2> SUFFICES ASSUME NEW d \in Calls, call'[d].of \in Present
               PROVE  /\ ProfileAt(d, "nameless")' => ~prefs'.login
                      /\ ~(ProfileAt(d, "sent")' \/ call'[d].kind = "signup")
    BY <1>6 DEF RepliesInv, Left
  <2>1. CASE d = c
    BY <1>5, <2>1 DEF ProfileAt
  <2>2. CASE d # c
    <3>1. call'[d] = call[d] /\ call[d].of # Nobody
      BY <1>5, <2>2, PresentIsTyped
    <3>2. act[call[d].of].kind \in {"Splash", "Signup"}
      BY <1>4, <3>1
    <3>3. call[d].kind # "signup" /\ call[d].kind # "getProfile"
      BY <3>1, <3>2 DEF TypeInv, KindInv
    <3> QED
      BY <3>1, <3>3 DEF ProfileAt
  <2> QED
    BY <2>1, <2>2
<1>10. OfUser(prefs)' /\ OfUser(disk)' /\ Len(stack') <= 1
  BY <1>2, <1>3, <1>4 DEF OwnInv, OfUser, PresentSame
<1> QED
  BY <1>7, <1>8, <1>9, <1>10 DEF OwnInv

(* What the open screen asks is asked for user_id.                         *)
LEMMA SendProfileOwn ==
  ASSUME TypeInv, OwnInv, NEW i \in Ids, SendProfile(i)
  PROVE  OwnInv'
<1> DEFINE r == [kind |-> "signup", of |-> i, who |-> prefs.user_id]
<1>1. /\ Send(r) /\ UNCHANGED saved /\ act' = act /\ PresentSame
  BY NoneChanges DEF SendProfile
<1>2. r \in Requests /\ r.kind = "signup" /\ r.who = prefs.user_id
  BY DEF Requests, SignUps, TypeInv, TypeOK, Preferences
<1> HIDE DEF r
<1>3. \A c \in Calls : GoesOn(c)
  BY <1>1, <1>2, Sends, IdleIsTyped DEF TypeInv, GoesOn
<1> QED
  BY <1>1, <1>3, StayingOwn

(* The fragment Home comes and goes: what MainActivity was told stays.     *)
LEMMA HomeStays ==
  ASSUME TypeInv, OwnInv, NEW i \in Ids, act[i].kind = "MainActivity",
         NEW h \in {"new", "asked", "away"},
         act' = [act EXCEPT ![i].home = h], stack' = stack
  PROVE  /\ PresentSame
         /\ \A j \in Present :
              /\ act[j].kind = "MainActivity" => (act'[j].told => act[j].told)
              /\ act[j].kind = "Profile_information" =>
                   act'[j].signed \in {act[j].signed, prefs.user_id}
<1> DEFINE r == [act[i] EXCEPT !.home = h]
<1>1. r \in Records /\ r.kind = "MainActivity" /\ act' = [act EXCEPT ![i] = r]
  BY HomeMoves
<1>2. act[i] \in Mains
  BY ScreenKinds DEF TypeInv, TypeOK
<1>3. r.told = act[i].told
  <2>1. PICK m \in Mains : m = act[i]
    BY <1>2
  <2>2. [m EXCEPT !.home = h].told = m.told
    BY MainMoves
  <2> QED
    BY <2>1, <2>2
<1> HIDE DEF r
<1>4. PresentSame /\ act'[i] = r /\ \A j \in Ids : j # i => act'[j] = act[j]
  <2>1. r.kind = act[i].kind
    BY <1>1
  <2> QED
    BY <1>1, <2>1, OneChanges, Zenon
<1> QED
  BY <1>1, <1>3, <1>4, PresentIsTyped

LEMMA AskProfileOwn ==
  ASSUME TypeInv, OwnInv, NEW i \in Ids, AskProfile(i)
  PROVE  OwnInv'
<1> DEFINE r == [kind |-> "getProfile", of |-> i, at |-> "sent",
                 who |-> prefs.user_id]
<1>1. /\ act[i].kind = "MainActivity" /\ UNCHANGED saved /\ stack' = stack
      /\ act' = [act EXCEPT ![i].home = "asked"]
      /\ Send(r) \/ call' = call
  BY DEF AskProfile, There
<1>2. /\ r \in Requests /\ r.kind = "getProfile" /\ r.who = prefs.user_id
      /\ r.at = "sent"
  BY DEF Requests, ProfileGets, TypeInv, TypeOK, Preferences
<1> HIDE DEF r
<1>3. \A c \in Calls : GoesOn(c)
  <2>1. CASE Send(r)
    BY <1>2, <2>1, Sends, IdleIsTyped DEF TypeInv, GoesOn
  <2>2. CASE call' = call
    BY <2>2 DEF GoesOn
  <2> QED
    BY <1>1, <2>1, <2>2
<1> QED
  BY <1>1, <1>3, HomeStays, StayingOwn

LEMMA SelectOwn ==
  ASSUME TypeInv, OwnInv, NEW i \in Ids, SelectHome(i) \/ SelectOther(i)
  PROVE  OwnInv'
<1>1. /\ act[i].kind = "MainActivity" /\ UNCHANGED saved /\ stack' = stack
      /\ LeaveHome(i)
  BY DEF SelectHome, SelectOther, InFront
<1>2. PICK h \in {"new", "asked", "away"} : act' = [act EXCEPT ![i].home = h]
  BY DEF SelectHome, SelectOther
<1>3. \A c \in Calls : GoesOn(c)
  BY <1>1, HomeLeft DEF GoesOn
<1> QED
  BY <1>1, <1>2, <1>3, HomeStays, StayingOwn

(* The wizard hears of the profile it sent for user_id.                    *)
LEMMA SignupReplyOwn ==
  ASSUME TypeInv, OwnInv, NEW c \in Calls,
         ProfileAccepted(c) \/ ProfileRefused(c)
  PROVE  OwnInv'
<1> DEFINE i == call[c].of
           p == call[c].who
<1>1. /\ call[c].kind = "signup" /\ Done(c)
      /\ UNCHANGED saved /\ stack' = stack
  BY DEF ProfileAccepted, ProfileRefused
<1>2. \A d \in Calls : GoesOn(d)
  <2>1. /\ call'[c].kind = "none"
        /\ \A d \in Calls : d # c => call'[d] = call[d]
    BY <1>1, DoneIsTyped, IdleIsTyped DEF TypeInv
  <2> QED
    BY <1>1, <2>1 DEF GoesOn, ProfileAt
<1>3. CASE act' = act
  BY <1>1, <1>2, <1>3, NoneChanges, StayingOwn
<1>4. CASE ~Left(c) /\ act' = [act EXCEPT ![i].signed = p]
  <2>1. i \in Ids /\ p = prefs.user_id
    BY <1>1, <1>4, PresentIsTyped DEF Left, OwnInv, RepliesInv
  <2>2. act[i] \in Wizards
    BY <1>1, <2>1, ScreenKinds DEF TypeInv, TypeOK, KindInv
  <2>3. p \in Providers \cup {NoOne}
    BY <2>1 DEF TypeInv, TypeOK, Preferences
  <2> DEFINE r == [act[i] EXCEPT !.signed = p]
  <2>4. act' = [act EXCEPT ![i] = r]
    BY <1>4
  <2>5. r \in Wizards /\ r.signed = p
    BY <2>2, <2>3, WizardMoves
  <2> HIDE DEF r, i, p
  <2>6. /\ r \in Records /\ r.kind = act[i].kind
        /\ act[i].kind = "Profile_information"
    <3>1. r.kind = "Profile_information" /\ act[i].kind = "Profile_information"
      BY <2>2, <2>5, WizardMoves
    <3> QED
      BY <2>5, <3>1 DEF Records
  <2>7. PresentSame /\ act'[i] = r /\ \A j \in Ids : j # i => act'[j] = act[j]
    BY <1>1, <2>1, <2>4, <2>6, OneChanges
  <2>8. \A j \in Present :
          /\ act[j].kind = "MainActivity" => (act'[j].told => act[j].told)
          /\ act[j].kind = "Profile_information" =>
               act'[j].signed \in {act[j].signed, prefs.user_id}
    BY <2>1, <2>5, <2>6, <2>7, PresentIsTyped
  <2> QED
    BY <1>1, <1>2, <2>7, <2>8, StayingOwn
<1> QED
  BY <1>3, <1>4 DEF ProfileAccepted, ProfileRefused

(* What Home is told *)

LEMMA NameAndLogin ==
  ASSUME TypeInv, OwnInv, NEW c \in Calls, call[c].kind = "getProfile"
  PROVE  /\ call[c] \in ProfileGets /\ call[c].who \in Providers \cup {NoOne}
         /\ prefs \in Preferences
BY GetHears DEF TypeInv, TypeOK

(* A reply that ends, and tells nothing.                                   *)
LEMMA NothingToldOwn ==
  ASSUME TypeInv, OwnInv, NEW c \in Calls, NoProfile(c) \/ ProfileError(c)
  PROVE  OwnInv'
<1>1. CASE Left(c) /\ ProfileError(c)
  BY <1>1, DyingOwn DEF ProfileError
<1>2. CASE Done(c) /\ UNCHANGED <<saved, stack, act>> /\ ProfileAt(c, "sent")
  <2>1. /\ call'[c].kind = "none"
        /\ \A d \in Calls : d # c => call'[d] = call[d]
    BY <1>2, DoneIsTyped, IdleIsTyped DEF TypeInv
  <2>2. \A d \in Calls : GoesOn(d)
    BY <1>2, <2>1 DEF GoesOn, ProfileAt
  <2> QED
    BY <1>2, <2>2, NoneChanges, StayingOwn
<1> QED
  BY <1>1, <1>2 DEF NoProfile, ProfileError

(* The name of a reply that is heard, or whose Home has gone while the     *)
(* session stayed the same, is the name of user_id.                        *)
LEMMA PutNameOwn ==
  ASSUME TypeInv, OwnInv, NEW c \in Calls, PutName(c),
         Left(c) => call[c].who = prefs.user_id
  PROVE  OwnInv'
<1> DEFINE p == call[c].who
           i == call[c].of
<1>1. /\ prefs' = [prefs EXCEPT !.username = p] /\ disk' = prefs
      /\ stack' = stack /\ Done(c) /\ ProfileAt(c, "sent")
      /\ \/ act' = act
         \/ ~Left(c) /\ act' = [act EXCEPT ![i].told = TRUE]
  BY DEF PutName, Put, Apply
<1>2. p = prefs.user_id
  BY <1>1 DEF OwnInv, RepliesInv
<1>3. p \in Providers \cup {NoOne} /\ prefs \in Preferences
  BY <1>1, NameAndLogin DEF ProfileAt
<1> HIDE DEF p
<1>4. /\ prefs'.login = prefs.login /\ prefs'.owner = prefs.owner
      /\ prefs'.user_id = prefs.user_id /\ prefs'.username = p
  BY <1>1, <1>3, PutNameIsTyped
<1>5. /\ call'[c].kind = "none"
      /\ \A d \in Calls : d # c => call'[d] = call[d]
  BY <1>1, DoneIsTyped, IdleIsTyped DEF TypeInv
<1>6. /\ PresentSame
      /\ \A j \in Present : act[j].kind = "Profile_information" =>
           act'[j].signed = act[j].signed
  <2>1. CASE act' = act
    BY <1>1, <2>1 DEF PresentSame
  <2>2. CASE ~Left(c) /\ act' = [act EXCEPT ![i].told = TRUE]
    <3>1. i \in Ids /\ act[i] \in Mains
      BY <1>1, <2>2, GetHears DEF ProfileAt
    <3> DEFINE r == [act[i] EXCEPT !.told = TRUE]
    <3>2. act' = [act EXCEPT ![i] = r]
      BY <2>2
    <3>3. r \in Mains
      BY <3>1, MainMoves
    <3> HIDE DEF r, i
    <3>4. r \in Records /\ r.kind = act[i].kind /\ r.kind = "MainActivity"
      <4>1. r.kind = "MainActivity" /\ act[i].kind = "MainActivity"
        BY <3>1, <3>3, MainMoves
      <4> QED
        BY <3>3, <4>1 DEF Records
    <3>5. PresentSame /\ \A j \in Ids : j # i => act'[j] = act[j]
      BY <1>1, <3>1, <3>2, <3>4, OneChanges
    <3> QED
      BY <3>4, <3>5, PresentIsTyped
  <2> QED
    BY <1>1, <2>1, <2>2
<1>7. \A d \in Calls : ProfileAt(d, "nameless") => ProfileAt(d, "nameless")'
  BY <1>1, <1>5 DEF ProfileAt
<1>8. AskingInv'
  BY <1>4, <1>5, <1>6, AskingStays
<1>9. ScreensInv'
  <2>1. \A j \in Present : act[j].kind = "Profile_information" =>
          act'[j].signed \in {NoOne, prefs'.user_id}
    BY <1>4, <1>6 DEF OwnInv, ScreensInv
  <2> QED
    BY <1>2, <1>4, <1>6, <1>7, <2>1, ScreensStay
<1>10. RepliesInv'
  BY <1>4, <1>5, <1>6, RepliesStay
<1>11. OfUser(prefs)' /\ OfUser(disk)' /\ Len(stack') <= 1
  BY <1>1, <1>4 DEF OwnInv, OfUser
<1> QED
  BY <1>8, <1>9, <1>10, <1>11 DEF OwnInv

(* login is taken back while MainActivity is open.                         *)
LEMMA TakeLoginBackOwn ==
  ASSUME TypeInv, OwnInv, NEW c \in Calls, TakeLoginBack(c), ~Left(c)
  PROVE  OwnInv'
<1> DEFINE i == call[c].of
           r == [call[c] EXCEPT !.at = "nameless"]
<1>1. /\ prefs' = [prefs EXCEPT !.login = FALSE, !.owner = NoOne]
      /\ disk' = prefs /\ act' = act /\ stack' = stack
      /\ ProfileAt(c, "sent") /\ call' = [call EXCEPT ![c] = r]
  BY DEF TakeLoginBack, Apply, At
<1>2. i \in Present /\ act[i].kind = "MainActivity"
  BY <1>1, GetHears, MainMoves DEF ProfileAt, Left
<1>3. call[c] \in ProfileGets /\ prefs \in Preferences
  BY <1>1, NameAndLogin DEF ProfileAt
<1>4. r \in ProfileGets /\ r.at = "nameless" /\ r.kind = "getProfile"
  <2>1. r \in ProfileGets /\ r.at = "nameless"
    BY <1>3, ProfileGetMoves
  <2> HIDE DEF r
  <2> QED
    BY <2>1, ProfileGetMoves
<1> HIDE DEF r
<1>5. ~prefs'.login /\ prefs'.user_id = prefs.user_id /\ prefs'.username = prefs.username
  BY <1>1, <1>3, PutLoginIsTyped
<1>6. call'[c] = r /\ \A d \in Calls : d # c => call'[d] = call[d]
  <2>1. r \in Requests
    BY <1>4 DEF Requests
  <2> QED
    BY <1>1, <2>1, MovesOn DEF TypeInv
<1>7. \A d \in Calls : call[d].kind # "newProvider"
  BY <1>2, NoneAsking
<1> HIDE DEF i
<1>8. Present' = Present
  BY <1>1 DEF Present
<1>9. AskingInv'
  BY <1>4, <1>6, <1>7 DEF AskingInv
<1>10. ScreensInv'
  <2>1. ProfileAt(c, "nameless")'
    BY <1>4, <1>6 DEF ProfileAt
  <2> QED
    BY <1>1, <1>5, <1>8, <2>1 DEF OwnInv, ScreensInv
<1>11. RepliesInv'
  <2> SUFFICES ASSUME NEW d \in Calls, call'[d].of \in Present,
                      ProfileAt(d, "sent")' \/ call'[d].kind = "signup"
               PROVE  call'[d].who = prefs.user_id
    BY <1>5, <1>8 DEF RepliesInv, Left
  <2>1. d # c
    BY <1>4, <1>6 DEF ProfileAt
  <2>2. call'[d] = call[d]
    BY <1>6, <2>1
  <2> QED
    BY <2>2 DEF OwnInv, RepliesInv, Left, ProfileAt
<1>12. OfUser(prefs)' /\ OfUser(disk)' /\ Len(stack') <= 1
  BY <1>1, <1>5 DEF OwnInv, OfUser
<1> QED
  BY <1>9, <1>10, <1>11, <1>12 DEF OwnInv

(* The process is left, ends, or changes its language.                     *)
LEMMA BackLeavesOwn ==
  ASSUME TypeInv, OwnInv, NEW i \in Ids, BackLeaves(i)
  PROVE  OwnInv'
<1>1. i \in Present /\ Finish(i) /\ UNCHANGED <<saved, call>>
  BY HeadIsPresent DEF BackLeaves, InFront, TypeInv, TypeOK
<1>2. stack' = <<>>
  BY <1>1, WithoutOnly DEF Finish, OwnInv, TypeInv, TypeOK
<1>3. Present' = {} /\ Len(stack') <= 1
  BY <1>2 DEF Present
<1>4. prefs' = prefs /\ disk' = disk /\ call' = call
  BY <1>1 DEF saved
<1>5. AskingInv' /\ ScreensInv' /\ RepliesInv'
  BY <1>3, <1>4 DEF OwnInv, AskingInv, ScreensInv, RepliesInv, Left
<1> QED
  BY <1>3, <1>4, <1>5 DEF OwnInv, OfUser

LEMMA ChangeLangOwn ==
  ASSUME TypeInv, OwnInv, NEW i \in Ids, ChangeLang(i)
  PROVE  OwnInv'
<1> DEFINE lang == IF prefs.defaultLang = "ar" THEN "en" ELSE "ar"
           d == [prefs EXCEPT !.defaultLang = lang]
<1>1. EndsWith(d) \/ EndsWith(disk)
  BY DEF ChangeLang
<1>2. lang \in Langs /\ prefs \in Preferences
  BY SessionAssumption DEF ChangeLang, TypeInv, TypeOK
<1> HIDE DEF lang
<1>3. OfUser(d)
  <2>1. d.login = prefs.login /\ d.owner = prefs.owner /\ d.user_id = prefs.user_id
    BY <1>2, PutLangIsTyped
  <2> HIDE DEF d
  <2> QED
    BY <2>1 DEF OwnInv, OfUser
<1> HIDE DEF d
<1> QED
  BY <1>1, <1>3, EndingOwn DEF OwnInv

LEMMA OwnStep ==
  ASSUME TypeInv, TypeInv', Regular', OwnInv, [Next]_vars
  PROVE  OwnInv'
<1>1. TypeOK /\ Regular /\ overlapped \in BOOLEAN /\ strayed \in BOOLEAN
  BY HistoryGrows DEF TypeInv, TypeOK
<1>2. CASE Launch
  <2>1. prefs.defaultLang \in Langs
    BY <1>1 DEF TypeOK, Preferences
  <2> QED
    BY <1>2, <2>1, SplashOwn DEF Launch
<1>3. CASE AlarmRings
  <2>1. alarm \in Langs /\ stack = <<>>
    BY <1>1, <1>3 DEF AlarmRings, TypeOK, Regular
  <2> QED
    BY <1>3, <2>1, SplashOwn DEF AlarmRings
<1>4. CASE SystemKills
  BY <1>4, DyingOwn DEF SystemKills
<1>5. ASSUME NEW i \in Ids, SendSignIn(i)
      PROVE  OwnInv'
  BY <1>1, <1>5, SendSignInOwn DEF Regular
<1>6. ASSUME NEW i \in Ids,
             \/ BackLeaves(i) \/ SendNothing(i) \/ SendProfile(i)
             \/ EnterApp(i) \/ SelectHome(i) \/ SelectOther(i)
             \/ SignOut(i) \/ ChangeLang(i) \/ OpenApp(i) \/ AskProfile(i)
      PROVE  OwnInv'
  BY <1>6, BackLeavesOwn, SendNothingOwn, SendProfileOwn, EnterAppOwn,
     SelectOwn, SignOutOwn, ChangeLangOwn, OpenAppOwn, AskProfileOwn
<1>7. ASSUME NEW c \in Calls, OpenProfileInfo(c)
      PROVE  OwnInv'
  <2>1. ~Left(c)
    BY <1>1, <1>7 DEF OpenProfileInfo, Regular
  <2> QED
    BY <1>7, <2>1, OpenProfileInfoOwn
<1>8. ASSUME NEW c \in Calls, PutName(c)
      PROVE  OwnInv'
  <2>1. Left(c) => call[c].who = prefs.user_id
    BY <1>1, <1>8 DEF PutName, Regular
  <2> QED
    BY <1>8, <2>1, PutNameOwn
<1>9. ASSUME NEW c \in Calls, TakeLoginBack(c)
      PROVE  OwnInv'
  <2>1. ~Left(c)
    BY <1>1, <1>9 DEF TakeLoginBack, Regular
  <2> QED
    BY <1>9, <2>1, TakeLoginBackOwn
<1>10. ASSUME NEW c \in Calls,
              \/ SignInFails(c) \/ SignInAccepted(c) \/ PutExist(c)
              \/ PutUser(c) \/ ProfileAccepted(c) \/ ProfileRefused(c)
              \/ OpenSignup(c) \/ NoProfile(c) \/ ProfileError(c)
       PROVE  OwnInv'
  BY <1>10, SignInRepliesOwn, PutUserOwn, SignupReplyOwn, OpenSignupOwn,
     NothingToldOwn
<1>11. CASE UNCHANGED vars
  BY <1>11 DEF vars, OwnInv, OfUser, AskingInv, ScreensInv, RepliesInv, Left,
               Present, ProfileAt
<1> QED
  BY <1>2, <1>3, <1>4, <1>5, <1>6, <1>7, <1>8, <1>9, <1>10, <1>11
     DEF Next, User, MainThread, Reply

SessionInv == TypeInv /\ (Regular => OwnInv)

(* The inductive invariant holds at first and in every step.               *)
LEMMA SessionInit == Init => SessionInv
<1> SUFFICES ASSUME Init PROVE OwnInv
  BY TypeInit DEF SessionInv
<1>1. /\ stack = <<>> /\ prefs.login = FALSE /\ disk = prefs
      /\ \A c \in Calls : call[c] = Idle
  BY DEF Init
<1>2. Present = {} /\ Len(stack) <= 1
  BY <1>1 DEF Present
<1> QED
  BY <1>1, <1>2, IdleIsTyped
     DEF OwnInv, OfUser, AskingInv, ScreensInv, RepliesInv, Left

LEMMA SessionStep == SessionInv /\ [Next]_vars => SessionInv'
BY TypeStep, HistoryGrows, OwnStep DEF SessionInv, TypeInv

LEMMA InvKeepsSession == SessionInv => SessionKept
<1> SUFFICES ASSUME SessionInv PROVE SessionKept
  OBVIOUS
<1>1. TypeOK /\ (Regular => OwnInv)
  BY DEF SessionInv, TypeInv
<1>2. LoginIsOfUser
  BY <1>1 DEF LoginIsOfUser, OwnInv, OfUser
<1>3. NameIsOfUser
  BY <1>1 DEF NameIsOfUser, OwnInv, ScreensInv, There
<1>4. ScreenTellsSession
  BY <1>1 DEF ScreenTellsSession, OwnInv, ScreensInv, There
<1> QED
  BY <1>1, <1>2, <1>3, <1>4 DEF SessionKept

(* Whoever the providers are, and however many screens and requests there  *)
(* are: login, user_id, the name and the screen are of one provider, unless*)
(* sign-ins overlapped or something was done for a screen that had gone.   *)
THEOREM SessionIsKept == Spec => []SessionKept
BY SessionInit, SessionStep, InvKeepsSession, PTL DEF Spec

============================================================================
