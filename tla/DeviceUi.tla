------------------------------ MODULE DeviceUi -------------------------------
(***************************************************************************)
(* SetScreen(), GoHome() and DismissCrashDialogIfNeeded() of DeviceUtils:  *)
(* calls that look at the screen, press keys and look again, on a device   *)
(* that obeys late and whose dialogs come and go by themselves.  windows   *)
(* holds what lies over the launcher, the last one on top.                 *)
(***************************************************************************)
EXTENDS Naturals, Sequences, SequencesExt

CONSTANTS Ops, Retries,
          MaxWindows,       \* that open by themselves
          MaxCloses,        \* that close by themselves
          MaxFails,         \* commands that fail
          Lazy              \* the screen obeys later than an attempt waits

VARIABLES screen, toggles,            \* on or off; presses not obeyed yet
          windows, button,            \* the button of a crash dialog that is chosen
          opens, closes, fails,
          pc, op, left, found, result,
          ended, missed               \* what this call's ENTER ended, or missed

world == <<screen, toggles, windows, button>>
counts == <<opens, closes, fails>>
vars == <<world, counts, pc, op, left, found, result, ended, missed>>

Dialogs == {"crash", "backonly", "enteronly", "stuck"}
Top == IF windows = <<>> THEN "launcher" ELSE Last(windows)
NoOp == [kind |-> "none"]

Init ==
  /\ screen \in {"on", "off"} /\ toggles = 0
  /\ windows \in {<<>>, <<"app">>, <<"crash">>, <<"app", "crash">>, <<"backonly", "enteronly">>} /\ button = 0
  /\ opens = 0 /\ closes = 0 /\ fails = 0
  /\ pc = "idle" /\ op = NoOp /\ left = 0 /\ found = FALSE /\ result = "none"
  /\ ended = {} /\ missed = {}

----------------------------------------------------------------------------

(* The device. *)
Obeys ==
  /\ toggles > 0
  /\ toggles' = toggles - 1 /\ screen' = (IF screen = "on" THEN "off" ELSE "on")
  /\ UNCHANGED <<windows, button, counts, pc, op, left, found, result, ended, missed>>

Opens(w) ==
  /\ opens < MaxWindows /\ opens' = opens + 1
  /\ windows' = Append(windows, w) /\ button' = 0
  /\ UNCHANGED <<screen, toggles, closes, fails, pc, op, left, found, result, ended, missed>>

Closes ==
  /\ closes < MaxCloses /\ windows # <<>> /\ closes' = closes + 1
  /\ windows' = Front(windows) /\ button' = 0
  /\ UNCHANGED <<screen, toggles, opens, fails, pc, op, left, found, result, ended, missed>>

(* What a key does to the window on top. *)
Right == IF Top = "crash" THEN button' = (IF button < 2 THEN button + 1 ELSE 2) ELSE UNCHANGED button
Enter ==
  CASE Top \in {"crash", "enteronly"} -> windows' = Front(windows) /\ button' = 0
    [] Top = "launcher" -> windows' = <<"app">> /\ UNCHANGED button
    [] OTHER -> UNCHANGED <<windows, button>>
Back ==
  IF Top \in {"app", "backonly"} THEN windows' = Front(windows) /\ button' = 0
  ELSE UNCHANGED <<windows, button>>

----------------------------------------------------------------------------

(* The calls. *)
Entry(o) == CASE o.kind = "SetScreen" -> "test" [] o.kind = "GoHome" -> "look" [] OTHER -> "find"

Call(o) ==
  /\ pc = "idle" /\ op = NoOp
  /\ op' = o /\ pc' = Entry(o) /\ left' = Retries
  /\ UNCHANGED <<world, counts, found, result, ended, missed>>

Returns(what) == pc' = "idle" /\ result' = what /\ UNCHANGED left

Raises(what) == IF left > 0 THEN pc' = Entry(op) /\ left' = left - 1 /\ UNCHANGED result ELSE Returns(what)
Goes(p) == pc' = p /\ UNCHANGED <<left, result>>

Fails ==
  /\ pc # "idle" /\ fails < MaxFails /\ fails' = fails + 1
  /\ Raises("failed")
  /\ UNCHANGED <<world, opens, closes, op, found, ended, missed>>

(* SetScreen(): the power key turns the screen, whatever it is.            *)
ScreenTest ==
  /\ pc = "test"
  /\ IF screen = op.on THEN Returns("ok") ELSE Goes("power")
  /\ UNCHANGED <<world, counts, op, found, ended, missed>>

Power ==
  /\ pc = "power"
  /\ toggles' = toggles + 1 /\ Goes("turned")
  /\ UNCHANGED <<screen, windows, button, counts, op, found, ended, missed>>

Turned ==
  /\ pc = "turned"
  /\ \/ screen = op.on /\ Returns("ok")
     \/ screen # op.on /\ (Lazy \/ toggles = 0) /\ Raises("timeout")
  /\ UNCHANGED <<world, counts, op, found, ended, missed>>

(* GoHome(): the home activity, and then a key for every dialog.           *)
IsLauncherFocused ==
  /\ pc \in {"look", "homed", "dismissed"}
  /\ CASE Top = "launcher" -> Returns("ok")
       [] Top # "launcher" /\ pc = "look" -> Goes("home")
       [] OTHER -> Goes("enter")
  /\ UNCHANGED <<world, counts, op, found, ended, missed>>

StartHome ==
  /\ pc = "home"
  /\ windows' = SelectSeq(windows, LAMBDA w : w \in Dialogs)
  /\ Goes("homed")
  /\ UNCHANGED <<screen, toggles, button, counts, op, found, ended, missed>>

DismissPopups ==
  /\ \/ pc = "enter" /\ Enter /\ Goes("back") /\ missed' = missed \cup ({Top} \ Dialogs)
     \/ pc = "back" /\ Back /\ Goes("dismissed") /\ UNCHANGED missed
  /\ UNCHANGED <<screen, toggles, counts, op, found, ended>>

GoHomeTimesOut ==
  /\ pc = "dismissed" /\ Top # "launcher"
  /\ Raises("timeout")
  /\ UNCHANGED <<world, counts, op, found, ended, missed>>

(* DismissCrashDialogIfNeeded(): the rightmost button of the dialog.       *)
FindFocusedWindow ==
  /\ pc = "find"
  /\ found' = (Top = "crash")
  /\ IF Top = "crash" THEN Goes("right1") ELSE Returns("nothing")
  /\ UNCHANGED <<world, counts, op, ended, missed>>

PressRight ==
  /\ \/ pc = "right1" /\ Goes("right2")
     \/ pc = "right2" /\ Goes("press")
  /\ Right
  /\ UNCHANGED <<screen, toggles, windows, counts, op, found, ended, missed>>

PressEnter ==
  /\ pc = "press" /\ Enter /\ Goes("again")
  /\ ended' = ended \cup (IF Top = "crash" THEN {button} ELSE {})
  /\ missed' = missed \cup ({Top} \ Dialogs)
  /\ UNCHANGED <<screen, toggles, counts, op, found>>

FindAgain ==
  /\ pc = "again"
  /\ Returns("package")
  /\ UNCHANGED <<world, counts, op, found, ended, missed>>

Caller == ScreenTest \/ Power \/ Turned \/ IsLauncherFocused \/ StartHome \/ DismissPopups
          \/ GoHomeTimesOut \/ FindFocusedWindow \/ PressRight \/ PressEnter \/ FindAgain

Next == Caller \/ Fails \/ Obeys \/ Closes \/ (\E o \in Ops : Call(o))
        \/ \E w \in {"app"} \cup Dialogs : Opens(w)

Spec == Init /\ [][Next]_vars /\ WF_vars(Caller) /\ WF_vars(Obeys) /\ SF_vars(GoHomeTimesOut)

----------------------------------------------------------------------------

TypeOK ==
  /\ screen \in {"on", "off"} /\ toggles \in 0..(Retries + 1)
  /\ Range(windows) \subseteq Dialogs \cup {"app"} /\ button \in 0..2
  /\ left \in 0..Retries

(* A screen that was set stays as it was set. *)
ScreenStays ==
  (pc = "idle" /\ op.kind = "SetScreen" /\ result = "ok") => screen = op.on /\ toggles = 0

(* ENTER is pressed for dialogs only. *)
OnlyDialogs == missed = {}

(* A crash dialog is ended by its rightmost button.                        *)
RightmostEnds == ended \subseteq {2}

(* A dialog that the call has ended is told to the caller.                 *)
EndedIsTold == result = "nothing" => ended = {}

(* GoHome() ends at home, or raises. *)
HomeInTheEnd ==
  (op.kind = "GoHome" /\ result' = "ok" /\ result # "ok") => windows = <<>>

(* A call runs, though some dialog may not go. *)
CallRuns == pc # "idle"
==============================================================================
