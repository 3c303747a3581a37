----------------------------- MODULE Session -----------------------------
(***************************************************************************)
(* Who is signed in, and in which language: Signup, MainActivity, the      *)
(* login branches of Splash, of the wizard and of the fragment Home, and   *)
(* the preferences they share.                                             *)
(*                                                                         *)
(* The main thread runs one step at a time.  The reply to a sign-in runs   *)
(* on an OkHttp thread beside it, through four statements (the code of the *)
(* answer, the field exist, user_id, openProfileInfo) between which the    *)
(* user may press again, leave, or come back.  A reply may also come to an *)
(* activity, or to a Home, that is no longer there.                        *)
(*                                                                         *)
(* CatalogSync models what Splash does before openApp(), ProfileWizard the *)
(* forms, HomePanel the panels; here each is what it does to the session.  *)
(* job is written with username; which fragment but Home is shown, and the *)
(* three seconds between two presses of back, are left out.                *)
(***************************************************************************)
EXTENDS Naturals, Sequences, FiniteSets, TLC

CONSTANTS
  Providers,   \* those who hold a phone number and its password
  NoOne,       \* no provider: a preference that was never written
  MaxAlive,    \* bound: activities there, or of which a reply is to come
  Calls,       \* bound: requests outstanding at once, numbered
  Connected,   \* FALSE when the device may be without a connection
  Langs        \* the languages the user may choose

ASSUME SessionAssumption ==
  /\ NoOne \notin Providers
  /\ MaxAlive \in Nat /\ Calls \subseteq Nat
  /\ Connected \in BOOLEAN
  /\ Langs \in {{"en"}, {"en", "ar"}}

Ids == 1..MaxAlive
Nobody == 0
NoLang == "none"

VARIABLES
  prefs,       \* com.example.service in memory
  disk,        \* without the last write, which may be lost
  alive,       \* there is a process
  locale,      \* the language of its resources
  alarm,       \* the language in the intent of the alarm that restarts it
  stack,       \* the activities of the task, the one in front first
  act,         \* what each of them holds
  call,        \* the requests outstanding
  named,       \* at the server: the providers whose profile has a name
  chosen,      \* history: the language asked for last and not lost since
  overlapped,  \* history: a sign-in was sent while another was outstanding
  strayed      \* history: a screen opened, or a preference changed, for
               \* the sake of an activity that was no longer there

vars == <<prefs, disk, alive, locale, alarm, stack, act, call, named, chosen,
          overlapped, strayed>>
process == <<alive, locale, alarm, chosen>>
saved == <<prefs, disk>>
history == <<overlapped, strayed>>

(* `owner' is no preference but their history: whose sign-in set login.    *)
Preferences ==
  [login : BOOLEAN, user_id : Providers \cup {NoOne},
   username : Providers \cup {NoOne}, defaultLang : Langs,
   owner : Providers \cup {NoOne}]

Gone == [kind |-> "gone"]
NewSplash == [kind |-> "Splash"]
NewSignup == [kind |-> "Signup", loading |-> "no", exist |-> 0]
NewWizard == [kind |-> "Profile_information", signed |-> NoOne]
NewMain == [kind |-> "MainActivity", home |-> "new", told |-> FALSE]

SignupScreens ==
  [kind : {"Signup"}, loading : {"no", "yes", "cut"}, exist : {0, 1}]
Wizards == [kind : {"Profile_information"}, signed : Providers \cup {NoOne}]
Mains ==
  [kind : {"MainActivity"}, home : {"new", "asked", "away"}, told : BOOLEAN]
Records == {Gone, NewSplash} \cup SignupScreens \cup Wizards \cup Mains

Idle == [kind |-> "none", of |-> Nobody]
SignIns ==
  [kind : {"newProvider"}, of : Ids, who : Providers, exist : {0, 1},
   at : {"sent", "code", "exist", "user"}]
ProfileGets ==
  [kind : {"getProfile"}, of : Ids \cup {Nobody}, at : {"sent", "nameless"},
   who : Providers \cup {NoOne}]
SignUps ==
  [kind : {"signup"}, of : Ids, who : Providers \cup {NoOne}]
Requests == {Idle} \cup SignIns \cup ProfileGets \cup SignUps

Init ==
  /\ prefs = [login |-> FALSE, user_id |-> NoOne, username |-> NoOne,
              defaultLang |-> "en", owner |-> NoOne]
  /\ disk = prefs
  /\ alive = FALSE
  /\ locale = NoLang
  /\ alarm = NoLang
  /\ stack = <<>>
  /\ act = [i \in Ids |-> Gone]
  /\ call = [c \in Calls |-> Idle]
  /\ named \in SUBSET Providers
  /\ chosen = "en"
  /\ overlapped = FALSE
  /\ strayed = FALSE

Present == {stack[k] : k \in DOMAIN stack}
There(i, kind) == i \in Present /\ act[i].kind = kind
InFront(i, kind) == stack # <<>> /\ Head(stack) = i /\ act[i].kind = kind
Left(c) == call[c].of \notin Present

AnyOf(S) == CHOOSE n \in S : TRUE
FreeCalls == {c \in Calls : call[c] = Idle}

(* Of an activity that is not there, what replies among `cs' may still     *)
(* read is kept.                                                           *)
Heard(cs) == {call[c].of : c \in cs}

(* The task without `i'.                                                   *)
Where(i) == CHOOSE n \in DOMAIN stack : stack[n] = i
Without(i) ==
  IF i \in Present
    THEN SubSeq(stack, 1, Where(i) - 1)
           \o SubSeq(stack, Where(i) + 1, Len(stack))
    ELSE stack

(* finish() of `i', if it is there.                                        *)
Finish(i) ==
  /\ stack' = Without(i)
  /\ act' = [act EXCEPT ![i] = IF i \in Heard(Calls) THEN @ ELSE Gone]

(* startActivity() of a new activity `a', and finish() of `i'; `cs' are    *)
(* the requests whose replies are still to come.                           *)
StartAndFinish(a, i, cs) ==
  LET unused == Ids \ (Heard(cs) \cup (Present \ {i}))
  IN /\ unused # {}
     /\ stack' = <<AnyOf(unused)>> \o Without(i)
     /\ act' = [j \in Ids |-> IF j = AnyOf(unused) THEN a
                              ELSE IF j \in unused THEN Gone ELSE act[j]]

Send(r) ==
  /\ FreeCalls # {}
  /\ call' = [call EXCEPT ![AnyOf(FreeCalls)] = r]
Done(c) == call' = [call EXCEPT ![c] = Idle]
At(c, where) == call' = [call EXCEPT ![c].at = where]

(* edit() ... apply(): what was written before is on disk by then.         *)
Apply(p) == prefs' = p /\ disk' = prefs
Put(field, v) == Apply([prefs EXCEPT ![field] = v])

----------------------------------------------------------------------------
(* The process *)

(* The process ends; the disk holds `d', and no one hears of the replies.  *)
EndsWith(d) ==
  /\ alive' = FALSE
  /\ disk' = d
  /\ prefs' = d
  /\ locale' = NoLang
  /\ stack' = <<>>
  /\ act' = [i \in Ids |-> Gone]
  /\ call' = [c \in Calls |-> Idle]

(* A crash, or the system.                                                 *)
Dies ==
  /\ \E d \in {disk, prefs} :
       /\ EndsWith(d)
       /\ chosen' = IF alarm = NoLang THEN d.defaultLang ELSE chosen
  /\ UNCHANGED <<alarm, named>>

SystemKills ==
  /\ alive
  /\ Dies
  /\ UNCHANGED history

(* Splash.onCreate() and its changeLang().                                 *)
OpenSplash(lang) ==
  /\ alive' = TRUE
  /\ locale' = lang
  /\ Put("defaultLang", lang)
  /\ StartAndFinish(NewSplash, Nobody, Calls)
  /\ UNCHANGED <<call, named, chosen, overlapped>>

Launch ==
  /\ stack = <<>>
  /\ OpenSplash(prefs.defaultLang)
  /\ UNCHANGED <<alarm, strayed>>

(* Mutant: the intent of restartApp() without its extra.                   *)
AlarmRingsBare ==
  /\ alarm # NoLang
  /\ OpenSplash(prefs.defaultLang)
  /\ alarm' = NoLang
  /\ strayed' = (strayed \/ stack # <<>>)

(* The intent of restartApp() carries the language.                        *)
AlarmRings ==
  /\ alarm # NoLang
  /\ OpenSplash(alarm)
  /\ alarm' = NoLang
  /\ strayed' = (strayed \/ stack # <<>>)

(* Splash.openApp()                                                        *)
OpenApp(i) ==
  /\ There(i, "Splash")
  /\ StartAndFinish(IF prefs.login THEN NewMain ELSE NewSignup, i, Calls)
  /\ UNCHANGED <<process, saved, call, named, history>>

(* Back, twice within three seconds, on one of the other screens.          *)
BackLeaves(i) ==
  /\ \/ InFront(i, "Signup") \/ InFront(i, "Profile_information")
     \/ InFront(i, "MainActivity") /\ act[i].home # "away"
  /\ Finish(i)
  /\ UNCHANGED <<process, saved, call, named, history>>

----------------------------------------------------------------------------
(* Signup *)

(* send() with a field left empty: exist has been reset all the same.      *)
SendNothing(i) ==
  /\ InFront(i, "Signup") /\ act[i].loading = "no"
  /\ act' = [act EXCEPT ![i].exist = 0]
  /\ UNCHANGED <<process, saved, stack, call, named, history>>

(* send(): the spinner comes before the question for a connection.         *)
SendSignIn(i) ==
  /\ InFront(i, "Signup") /\ act[i].loading = "no"
  /\ \/ /\ \E p \in Providers :
             Send([kind |-> "newProvider", of |-> i, who |-> p, exist |-> 0,
                   at |-> "sent"])
        /\ act' = [act EXCEPT ![i].exist = 0, ![i].loading = "yes"]
        /\ overlapped' = (overlapped
                          \/ \E c \in Calls : call[c].kind = "newProvider")
     \/ /\ ~Connected
        /\ act' = [act EXCEPT ![i].exist = 0, ![i].loading = "cut"]
        /\ UNCHANGED <<call, overlapped>>
  /\ UNCHANGED <<process, saved, stack, named, strayed>>

HideLoading(i) == act' = [act EXCEPT ![i].loading = "no"]

SignInAt(c, where) == call[c].kind = "newProvider" /\ call[c].at = where

(* Mutant: the spinner stays when the request fails.                       *)
SignInFailsQuietly(c) ==
  /\ SignInAt(c, "sent")
  /\ Done(c)
  /\ UNCHANGED <<process, saved, stack, act, named, history>>

(* onFailure(), and every answer but code 1.                               *)
SignInFails(c) ==
  /\ SignInAt(c, "sent")
  /\ HideLoading(call[c].of)
  /\ Done(c)
  /\ UNCHANGED <<process, saved, stack, named, history>>

(* Code 1, and whether the server knew the provider.                       *)
SignInAccepted(c) ==
  /\ SignInAt(c, "sent")
  /\ HideLoading(call[c].of)
  /\ \E e \in {0, 1} :
       /\ call[c].who \in named => e = 1
       /\ call' = [call EXCEPT ![c].at = "code", ![c].exist = e]
  /\ UNCHANGED <<process, saved, stack, named, history>>

PutExist(c) ==
  /\ SignInAt(c, "code")
  /\ act' = [act EXCEPT ![call[c].of].exist = call[c].exist]
  /\ At(c, "exist")
  /\ UNCHANGED <<process, saved, stack, named, history>>

(* Mutant: only a new provider's id is stored.                             *)
PutUserIfNew(c) ==
  /\ SignInAt(c, "exist")
  /\ IF call[c].exist = 0 THEN Put("user_id", call[c].who)
                          ELSE UNCHANGED saved
  /\ At(c, "user")
  /\ UNCHANGED <<process, stack, act, named, history>>

PutUser(c) ==
  /\ SignInAt(c, "exist")
  /\ Put("user_id", call[c].who)
  /\ At(c, "user")
  /\ UNCHANGED <<process, stack, act, named, history>>

(* openProfileInfo(): by the field, whoever set it.                        *)
OpenProfileInfo(c) ==
  /\ SignInAt(c, "user")
  /\ IF act[call[c].of].exist = 1
       THEN /\ Apply([prefs EXCEPT !.login = TRUE, !.owner = call[c].who])
            /\ StartAndFinish(NewMain, call[c].of, Calls \ {c})
       ELSE /\ StartAndFinish(NewWizard, call[c].of, Calls \ {c})
            /\ UNCHANGED saved
  /\ Done(c)
  /\ strayed' = (strayed \/ Left(c))
  /\ UNCHANGED <<process, named, overlapped>>

----------------------------------------------------------------------------
(* Profile_information *)

(* sendProfileInfo(): for whom user_id names now.                          *)
SendProfile(i) ==
  /\ InFront(i, "Profile_information") /\ act[i].signed = NoOne
  /\ \A c \in Calls : call[c].kind = "signup" => call[c].of # i
  /\ Send([kind |-> "signup", of |-> i, who |-> prefs.user_id])
  /\ UNCHANGED <<process, saved, stack, act, named, history>>

ProfileAccepted(c) ==
  /\ call[c].kind = "signup"
  /\ named' = named \cup {call[c].who}
  /\ act' = IF Left(c) THEN act
                       ELSE [act EXCEPT ![call[c].of].signed = call[c].who]
  /\ Done(c)
  /\ UNCHANGED <<process, saved, stack, history>>

ProfileRefused(c) ==
  /\ call[c].kind = "signup"
  /\ Done(c)
  /\ UNCHANGED <<process, saved, stack, act, named, history>>

(* openNextForm() after the last form.                                     *)
EnterApp(i) ==
  /\ InFront(i, "Profile_information") /\ act[i].signed # NoOne
  /\ Apply([prefs EXCEPT !.login = TRUE, !.owner = act[i].signed])
  /\ StartAndFinish(NewMain, i, Calls)
  /\ UNCHANGED <<process, call, named, history>>

----------------------------------------------------------------------------
(* MainActivity and its Home *)

(* A Home that gives way to another fragment.                              *)
LeaveHome(i) ==
  call' = [c \in Calls |-> IF call[c].of = i
                             THEN [call[c] EXCEPT !.of = Nobody] ELSE call[c]]

(* Home.getData()                                                          *)
AskProfile(i) ==
  /\ There(i, "MainActivity") /\ act[i].home = "new"
  /\ act' = [act EXCEPT ![i].home = "asked"]
  /\ \/ Send([kind |-> "getProfile", of |-> i, at |-> "sent",
              who |-> prefs.user_id])
     \/ ~Connected /\ UNCHANGED call
  /\ UNCHANGED <<process, saved, stack, named, history>>

(* onNavigationItemSelected(), or back from another fragment.              *)
SelectHome(i) ==
  /\ InFront(i, "MainActivity") /\ act[i].home # "new"
  /\ act' = [act EXCEPT ![i].home = "new"]
  /\ LeaveHome(i)
  /\ UNCHANGED <<process, saved, stack, named, history>>

SelectOther(i) ==
  /\ InFront(i, "MainActivity") /\ act[i].home = "asked"
  /\ act' = [act EXCEPT ![i].home = "away"]
  /\ LeaveHome(i)
  /\ UNCHANGED <<process, saved, stack, named, history>>

SignOut(i) ==
  /\ InFront(i, "MainActivity")
  /\ Apply([prefs EXCEPT !.login = FALSE, !.owner = NoOne])
  /\ StartAndFinish(NewSignup, i, Calls)
  /\ UNCHANGED <<process, call, named, history>>

(* onLangChangeClick(), changeLang() and restartApp(): System.exit(0) does *)
(* not wait for apply().                                                   *)
ChangeLang(i) ==
  /\ InFront(i, "MainActivity") /\ Langs # {"en"}
  /\ LET lang == IF prefs.defaultLang = "ar" THEN "en" ELSE "ar"
     IN /\ \/ EndsWith([prefs EXCEPT !.defaultLang = lang])
           \/ EndsWith(disk)
        /\ alarm' = lang
        /\ chosen' = lang
  /\ UNCHANGED <<named, history>>

ProfileAt(c, where) == call[c].kind = "getProfile" /\ call[c].at = where

(* createModel(): the name is stored whether its Home is there or not.     *)
PutName(c) ==
  /\ ProfileAt(c, "sent") /\ call[c].who \in named
  /\ Put("username", call[c].who)
  /\ act' = IF Left(c) THEN act ELSE [act EXCEPT ![call[c].of].told = TRUE]
  /\ strayed' = (strayed \/ (Left(c) /\ call[c].who # prefs.user_id))
  /\ Done(c)
  /\ UNCHANGED <<process, stack, named, overlapped>>

(* createModel() of a provider without a name takes login back ...         *)
TakeLoginBack(c) ==
  /\ ProfileAt(c, "sent") /\ call[c].who \notin named
  /\ Apply([prefs EXCEPT !.login = FALSE, !.owner = NoOne])
  /\ At(c, "nameless")
  /\ strayed' = (strayed \/ Left(c))
  /\ UNCHANGED <<process, stack, act, named, overlapped>>

(* ... and opens Signup, or falls over the null context of a Home that has *)
(* gone.                                                                   *)
OpenSignup(c) ==
  /\ ProfileAt(c, "nameless")
  /\ IF Left(c)
       THEN Dies
       ELSE /\ StartAndFinish(NewSignup, call[c].of, Calls \ {c})
            /\ Done(c)
            /\ UNCHANGED <<process, saved, named>>
  /\ UNCHANGED history

(* A request that fails, or an answer with nothing in it.                  *)
NoProfile(c) ==
  /\ ProfileAt(c, "sent")
  /\ Done(c)
  /\ UNCHANGED <<process, saved, stack, act, named, history>>

(* error # 1: the toast needs an activity.                                 *)
ProfileError(c) ==
  /\ ProfileAt(c, "sent")
  /\ IF Left(c) THEN Dies
                ELSE Done(c) /\ UNCHANGED <<process, saved, stack, act, named>>
  /\ UNCHANGED history

----------------------------------------------------------------------------
User ==
  \/ Launch
  \/ \E i \in Ids :
       \/ BackLeaves(i) \/ SendNothing(i) \/ SendSignIn(i) \/ SendProfile(i)
       \/ EnterApp(i) \/ SelectHome(i) \/ SelectOther(i) \/ SignOut(i)
       \/ ChangeLang(i)

Reply(c) ==
  \/ SignInFails(c) \/ SignInAccepted(c) \/ PutExist(c) \/ PutUser(c)
  \/ OpenProfileInfo(c) \/ ProfileAccepted(c) \/ ProfileRefused(c)
  \/ PutName(c) \/ TakeLoginBack(c) \/ OpenSignup(c) \/ NoProfile(c)
  \/ ProfileError(c)

MainThread == \E i \in Ids : OpenApp(i) \/ AskProfile(i)

Next ==
  \/ User \/ MainThread
  \/ \E c \in Calls : Reply(c)
  \/ AlarmRings \/ SystemKills

Spec == Init /\ [][Next]_vars

(* OkHttp ends every call and runs what hears of it; the main thread runs. *)
Fairness ==
  /\ \A c \in Calls : WF_vars(Reply(c))
  /\ \A i \in Ids : WF_vars(OpenApp(i)) /\ WF_vars(AskProfile(i))
  /\ WF_vars(AlarmRings)
FairSpec == Spec /\ Fairness

----------------------------------------------------------------------------
(* The providers are alike: for the run without temporal properties.       *)
Symmetry == Permutations(Providers)

TypeOK ==
  /\ prefs \in Preferences /\ disk \in Preferences
  /\ alive \in BOOLEAN
  /\ locale \in Langs \cup {NoLang} /\ alarm \in Langs \cup {NoLang}
  /\ stack \in Seq(Ids)
  /\ act \in [Ids -> Records]
  /\ call \in [Calls -> Requests]
  /\ named \subseteq Providers \cup {NoOne}
  /\ chosen \in Langs
  /\ overlapped \in BOOLEAN /\ strayed \in BOOLEAN

(* Sign-ins have not overlapped, and nothing was done for a screen that    *)
(* had gone: the code has no defence against either.                       *)
Regular == ~overlapped /\ ~strayed

(* login is set for the provider whom user_id names.                       *)
LoginIsOfUser == Regular /\ prefs.login => prefs.user_id = prefs.owner

(* The name in the preferences is the one of user_id as soon as Home has   *)
(* been told it.                                                           *)
NameIsOfUser ==
  Regular => \A i \in Present :
    There(i, "MainActivity") /\ act[i].told => prefs.username = prefs.user_id

(* MainActivity is open for who is signed in, Signup and the wizard for    *)
(* who is not - but for the moment in which Home sends a provider without  *)
(* a name back.                                                            *)
ScreenTellsSession ==
  Regular => \A i \in Present :
    /\ There(i, "MainActivity") =>
         prefs.login \/ \E c \in Calls : ProfileAt(c, "nameless")
    /\ act[i].kind \in {"Signup", "Profile_information"} => ~prefs.login

(* The session on the screen, in login, user_id and username is one        *)
(* provider's, through sign-outs, kills, lost writes and late replies.     *)
SessionKept ==
  TypeOK /\ LoginIsOfUser /\ NameIsOfUser /\ ScreenTellsSession

(* The language chosen is the one the application speaks after the restart,*)
(* although System.exit() may come before defaultLang is on disk.          *)
LanguageKept == stack # <<>> /\ alarm = NoLang => locale = chosen

Spinning(i) == There(i, "Signup") /\ act[i].loading = "yes"
Inside == \E i \in Present :
            act[i].kind \in {"Profile_information", "MainActivity"}

(* With a connection, a press of the button of Signup ends: the spinner    *)
(* goes, and who is accepted gets in, as a new provider or a known one.    *)
SignInEnds ==
  /\ \A i \in Ids : Spinning(i) ~> ~Spinning(i)
  /\ \A c \in Calls : SignInAt(c, "code") ~> (Inside \/ ~alive)
==========================================================================
