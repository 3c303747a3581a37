----------------------------- MODULE DeviceFiles -----------------------------
(***************************************************************************)
(* WriteFile(), ReadFile(), PathExists() and RemovePath() of DeviceUtils   *)
(* and the temporary files of device_temp_file: one path of the device,    *)
(* calls that are made of several commands any of which may fail, attempts *)
(* that are repeated, and temporary files that a thread of their own       *)
(* deletes.                                                                *)
(***************************************************************************)
EXTENDS Naturals, FiniteSets

CONSTANTS Ops, MaxCalls, Retries,
          MaxFails,         \* commands that fail
          MaxChanges,       \* times that a program of the device writes
          Slow              \* attempts may be late: their command is abandoned

VARIABLES file, renamed,              \* of the device
          temps,                      \* temporary files: free, in use, to delete
          fails, changes,
          late,                       \* the abandoned command: what it writes
          pc, op, left, calls, size, got, result,
          during                      \* what the file held during the call

device == <<file, renamed, temps, fails, changes, late>>
vars == <<device, pc, op, left, calls, size, got, result, during>>

Absent == "absent"

(* Contents: empty; short; longer than a command; longer than an output.   *)
(* A last line may be without its end.                                     *)
Contents == {"empty", "short", "shortline", "long", "longline", "huge", "hugeline"}
Terminated(c) == CASE c = "short" -> "shortline" [] c = "long" -> "longline"
                   [] c = "huge" -> "hugeline" [] OTHER -> c
FitsCommand(c) == c \in {"empty", "short", "shortline"}
FitsOutput(c) == c \notin {"empty", "huge", "hugeline", "torn"}
NoOp == [kind |-> "none"]

Init ==
  /\ file \in {Absent, "empty", "shortline"} /\ renamed = {}
  /\ temps = [use |-> 0, del |-> 0] /\ fails = 0 /\ changes = 0 /\ late = Absent
  /\ pc = "idle" /\ op = NoOp /\ left = 0 /\ calls = 0 /\ size = Absent /\ got = Absent
  /\ result = "none" /\ during = {}

----------------------------------------------------------------------------

(* A program of the device, and the thread that deletes a temporary file.  *)
Changes(c) ==
  /\ changes < MaxChanges /\ changes' = changes + 1
  /\ file' = c /\ during' = during \cup {c}
  /\ UNCHANGED <<renamed, temps, fails, late, pc, op, left, calls, size, got, result>>

DeleteTemporaryFile ==
  /\ temps.del > 0
  /\ temps' = [temps EXCEPT !.del = @ - 1]
  /\ UNCHANGED <<file, renamed, fails, changes, late, pc, op, left, calls, size, got, result, during>>

(* The shell command of an abandoned attempt still does its work.          *)
LateWrite ==
  /\ late # Absent
  /\ file' = late /\ late' = Absent /\ during' = during \cup {late}
  /\ UNCHANGED <<renamed, temps, fails, changes, pc, op, left, calls, size, got, result>>

----------------------------------------------------------------------------

(* The calls. *)
Entry(o) == CASE o.kind = "Write" /\ ~o.push /\ FitsCommand(o.text) -> "echo"
              [] o.kind = "Write" /\ (o.push \/ ~FitsCommand(o.text)) -> IF o.su THEN "pushtemp" ELSE "push"
              [] o.kind = "Read" -> IF o.pull THEN (IF o.su THEN "cptemp" ELSE "pull") ELSE "size"
              [] o.kind = "Remove" -> IF o.rename THEN "mv" ELSE "rm"
              [] OTHER -> "exists"

Call(o) ==
  /\ pc = "idle" /\ calls < MaxCalls
  /\ op' = o /\ calls' = calls + 1 /\ left' = Retries /\ pc' = Entry(o)
  /\ size' = Absent /\ got' = Absent /\ result' = "none" /\ during' = {file}
  /\ UNCHANGED device

Same == <<op, calls, changes>>
Returns == pc' = "idle" /\ result' = "ok" /\ UNCHANGED left

Raises == IF left > 0 THEN pc' = Entry(op) /\ left' = left - 1 /\ UNCHANGED result
          ELSE pc' = "idle" /\ result' = "raised" /\ UNCHANGED left
Goes(p) == pc' = p /\ UNCHANGED <<left, result>>
Fails == fails < MaxFails /\ fails' = fails + 1
Sets(c) == file' = c /\ during' = during \cup {c}
Acquire == temps' = [temps EXCEPT !.use = 1]

Close == temps' = [use |-> 0, del |-> temps.del + 1]

(* echo -n contents > path, or an adb push: a failure may leave part of it.*)
Write ==
  /\ pc \in {"echo", "push"}
  /\ \/ Sets(op.text) /\ Returns /\ UNCHANGED fails
     \/ Fails /\ Raises /\ \E c \in {file, "torn"} : Sets(c)
  /\ UNCHANGED <<Same, renamed, temps, late, size, got>>

WriteFileWithPush ==
  /\ pc = "pushtemp"
  /\ \/ Goes("cp") /\ Acquire /\ UNCHANGED fails
     \/ Fails /\ Raises /\ Close
  /\ UNCHANGED <<Same, file, renamed, late, size, got, during>>

Copy ==
  /\ pc = "cp"
  /\ \/ Sets(op.text) /\ Returns /\ UNCHANGED fails
     \/ Fails /\ Raises /\ \E c \in {file, "torn"} : Sets(c)
  /\ Close
  /\ UNCHANGED <<Same, renamed, late, size, got>>

(* FileSize(): a line of the long listing of the directory.                *)
FileSize ==
  /\ pc = "size"
  /\ \/ /\ file # Absent /\ size' = file
        /\ Goes(CASE FitsOutput(file) -> "cat" [] ~FitsOutput(file) /\ op.su -> "cptemp" [] OTHER -> "pull")
        /\ UNCHANGED fails
     \/ file = Absent /\ Raises /\ UNCHANGED <<fails, size>>
     \/ Fails /\ Raises /\ UNCHANGED size
  /\ UNCHANGED <<Same, file, renamed, temps, late, got, during>>

(* cat: the lines of its output are joined again, each with its end.       *)
Cat ==
  /\ pc = "cat"
  /\ \/ file # Absent /\ got' = Terminated(file) /\ Returns /\ UNCHANGED fails
     \/ file = Absent /\ Raises /\ UNCHANGED <<fails, got>>
     \/ Fails /\ Raises /\ UNCHANGED got
  /\ UNCHANGED <<Same, file, renamed, temps, late, size, during>>

CopyToTemp ==
  /\ pc = "cptemp"
  /\ \/ file # Absent /\ size' = file /\ Goes("pulltemp") /\ Acquire /\ UNCHANGED fails
     \/ file = Absent /\ Raises /\ Close /\ UNCHANGED <<fails, size>>
     \/ Fails /\ Raises /\ Close /\ UNCHANGED size
  /\ UNCHANGED <<Same, file, renamed, late, got, during>>

ReadFileWithPull ==
  /\ pc \in {"pull", "pulltemp"}
  /\ LET from == IF pc = "pull" THEN file ELSE size IN
     \/ from # Absent /\ got' = from /\ Returns /\ UNCHANGED fails
     \/ from = Absent /\ Raises /\ UNCHANGED <<fails, got>>
     \/ Fails /\ Raises /\ UNCHANGED got
  /\ IF pc = "pulltemp" THEN Close ELSE UNCHANGED temps
  /\ UNCHANGED <<Same, file, renamed, late, size, during>>

(* A path that cannot be moved is removed under its own name.              *)
RenamePath ==
  /\ pc = "mv"
  /\ \/ file # Absent /\ renamed' = renamed \cup {calls} /\ file' = Absent /\ Goes("rmdest")
        /\ UNCHANGED fails
     \/ file = Absent /\ Goes("rm") /\ UNCHANGED <<fails, renamed, file>>
     \/ Fails /\ Goes("rm") /\ UNCHANGED <<renamed, file>>
  /\ UNCHANGED <<Same, temps, late, size, got, during>>

RemovePath ==
  /\ pc \in {"rm", "rmdest"}
  /\ \/ /\ pc = "rmdest" /\ renamed' = renamed \ {calls} /\ Returns /\ UNCHANGED <<fails, file>>
     \/ /\ pc = "rm" /\ file' = Absent
        /\ IF file = Absent /\ ~op.force THEN Raises ELSE Returns
        /\ UNCHANGED <<fails, renamed>>
     \/ Fails /\ Raises /\ UNCHANGED <<renamed, file>>
  /\ UNCHANGED <<Same, temps, late, size, got, during>>

(* Every failure of the command is taken for a path that is not there.     *)
PathExists ==
  /\ pc = "exists"
  /\ \/ got' = (IF file = Absent THEN "no" ELSE "yes") /\ UNCHANGED fails
     \/ Fails /\ got' = "no"
  /\ Returns
  /\ UNCHANGED <<Same, file, renamed, temps, late, size, during>>

TimesOut ==
  /\ Slow /\ pc \in {"echo", "rm"} /\ late = Absent
  /\ late' = IF pc = "echo" THEN op.text ELSE Absent
  /\ Raises
  /\ UNCHANGED <<Same, file, renamed, temps, fails, size, got, during>>

Caller == Write \/ WriteFileWithPush \/ Copy \/ FileSize \/ Cat \/ CopyToTemp \/ ReadFileWithPull
          \/ RenamePath \/ RemovePath \/ PathExists \/ TimesOut

Next == Caller \/ DeleteTemporaryFile \/ LateWrite \/ (\E o \in Ops : Call(o))
        \/ \E c \in {Absent, "empty", "shortline", "longline"} : Changes(c)

Spec == Init /\ [][Next]_vars /\ WF_vars(Caller) /\ WF_vars(DeleteTemporaryFile)

----------------------------------------------------------------------------

TypeOK ==
  /\ file \in {Absent, "torn"} \cup Contents
  /\ temps.use \in 0..1 /\ temps.del \in Nat /\ left \in 0..Retries
  /\ fails <= MaxFails /\ changes <= MaxChanges

(* What a call wrote is there when it returns, if nothing else writes.     *)
WrittenIsThere ==
  (pc = "idle" /\ op.kind = "Write" /\ result = "ok" /\ changes = 0) => file = op.text

(* What is read is what the file held at some moment of the call, but for  *)
(* the end of its last line.                                               *)
ReadWasThere ==
  (pc = "idle" /\ op.kind = "Read" /\ result = "ok") =>
    \E c \in during : Terminated(got) = Terminated(c)

(* A removed path is not there, nor left under another name.               *)
Removed == pc = "idle" /\ op.kind = "Remove" /\ result = "ok"
RemovedIsGone == (Removed /\ changes = 0) => file = Absent
NothingLeft == Removed => calls \notin renamed

(* A path that was there throughout the call is said to be there.          *)
ExistsIsTrue ==
  (pc = "idle" /\ op.kind = "Exists" /\ Absent \notin during) => got = "yes"

(* A temporary file outlives the call only with its thread, which deletes  *)
(* it.                                                                     *)
TempsHaveOwners == pc = "idle" => temps.use = 0

(* A temporary file waits for the thread that deletes it. *)
TempsWait == temps.del > 0
==============================================================================
