----------------------------- MODULE DeviceShell -----------------------------
(***************************************************************************)
(* The shell of a device: one command with its status, and one shell for   *)
(* many commands. Each has variables, Init and Next of its own.            *)
(***************************************************************************)
EXTENDS Naturals, Sequences, Integers, SequencesExt

----------------------------------------------------------------------------
(***************************************************************************)
(* DeviceUtils.RunShellCommand() over AdbWrapper.Shell(): a command with   *)
(* "echo %status" behind it, whose output adb may cut.  A long command is  *)
(* pushed as a script first, and when the status is missing the command is *)
(* run once more with its output in a file, which is then pulled.  The     *)
(* temporary files are deleted by threads that nobody waits for, and the   *)
(* whole is retried when it raises.                                        *)
(*                                                                         *)
(* What a command prints is "plain", or "percent": a "%0" occurs in it.    *)
(* The output that comes back is the number of the execution it is of and  *)
(* how much of it there is: all, or a part.                                *)
(***************************************************************************)

CONSTANTS Retries,
          Longs, Larges,      \* is the command too long, large_output
          Prints,             \* "plain", "percent"
          Cuts,               \* adb may cut an output
          MaxAway             \* times the device goes away

VARIABLES long, large, check, prints,      \* the call
          reachable, away,
          pc, mode, left,
          runs,                \* executions of the command on the device: their statuses
          temp, script,        \* temporary files in use: the output's and the script's numbers
          files, deleting,     \* those on the device, those with a thread that deletes them
          names,               \* names given so far
          got, outcome

call == <<long, large, check, prints>>
dev == <<reachable, away>>
vars == <<call, dev, pc, mode, left, runs, temp, script, files, deleting, names, got, outcome>>

Nothing == [run |-> 0, part |-> "none"]
NoFile == 0
Missing == 99          \* no status

Init ==
  /\ long \in Longs /\ large \in Larges /\ check \in BOOLEAN /\ prints \in Prints
  /\ reachable = TRUE /\ away = 0
  /\ pc = "begin" /\ mode = FALSE /\ left = Retries
  /\ runs = <<>> /\ temp = NoFile /\ script = NoFile
  /\ files = {} /\ deleting = {} /\ names = 0
  /\ got = Nothing /\ outcome = "none"

(* DeviceTempFile.close(): the file's thread is started. *)
Closed(of) == deleting \cup (of \ {NoFile})

(* An exception leaves the with blocks, and the call is retried.           *)
Raise(what) ==
  /\ deleting' = Closed({temp, script}) /\ temp' = NoFile /\ script' = NoFile
  /\ IF left > 0
     THEN pc' = "begin" /\ left' = left - 1 /\ UNCHANGED outcome
     ELSE pc' = "done" /\ outcome' = what /\ UNCHANGED left

Return(output) ==
  /\ pc' = "done" /\ outcome' = "ok" /\ got' = output
  /\ UNCHANGED left

(* handle_large_output() *)
HandleLargeOutput ==
  /\ pc = "begin"
  /\ mode' = large
  /\ names' = IF large THEN names + 1 ELSE names
  /\ temp' = IF large THEN names + 1 ELSE NoFile
  /\ got' = Nothing
  /\ pc' = "command"
  /\ UNCHANGED <<call, dev, left, runs, script, files, deleting, outcome>>

(* handle_large_command(): the script is pushed. *)
PushScript ==
  /\ pc = "command" /\ long /\ script = NoFile
  /\ names' = names + 1
  /\ IF reachable
     THEN /\ script' = names + 1 /\ files' = files \cup {names + 1}
          /\ UNCHANGED <<pc, left, temp, deleting, outcome>>
     ELSE Raise("unreachable") /\ UNCHANGED files
  /\ UNCHANGED <<call, dev, mode, runs, got>>

(* AdbWrapper.Shell(): the status is what follows the last % sign.  With   *)
(* the output in a file, there is hardly any to cut.                       *)
Status(s, part) ==
  IF part = "all" THEN {s}
  ELSE {Missing} \cup (IF prints = "percent" THEN {0} ELSE {})

(* An error of the command, without check_return, is output like any other.*)
HandleCheckReturn(status) ==
  IF status = 0 \/ ~check THEN "output" ELSE IF status = Missing THEN "cut" ELSE "failed"

Shell ==
  /\ pc = "command" /\ reachable /\ (long => script # NoFile)
  /\ \E s \in {0, 1}, part \in {"all"} \cup (IF Cuts /\ ~mode THEN {"part"} ELSE {}) :
       /\ runs' = Append(runs, s)
       /\ files' = files \cup ({temp} \ {NoFile})
       /\ LET run == Len(runs) + 1 IN
          \E status \in Status(s, part) :
            CASE HandleCheckReturn(status) = "output" ->
                   /\ got' = [run |-> run, part |-> part]
                   /\ deleting' = Closed({script}) /\ script' = NoFile
                   /\ pc' = "output"
                   /\ UNCHANGED <<mode, left, temp, names, outcome>>
              [] HandleCheckReturn(status) = "cut" ->      \* once more
                   /\ deleting' = Closed({script}) /\ script' = NoFile
                   /\ mode' = TRUE /\ names' = names + 1 /\ temp' = names + 1
                   /\ pc' = "command"
                   /\ UNCHANGED <<left, got, outcome>>
              [] OTHER -> Raise("failed") /\ UNCHANGED <<mode, names, got>>
  /\ UNCHANGED <<call, dev>>

ShellUnreachable ==
  /\ pc = "command" /\ ~reachable /\ (long => script # NoFile)
  /\ Raise("unreachable")
  /\ UNCHANGED <<call, dev, mode, runs, files, names, got>>

(* ReadFile(force_pull=True), or the output as it came. *)
ReadOutput ==
  /\ pc = "output"
  /\ IF mode
     THEN IF reachable /\ temp \in files
          THEN /\ Return([run |-> Len(runs), part |-> "all"])
               /\ deleting' = Closed({temp}) /\ temp' = NoFile /\ UNCHANGED script
          ELSE Raise("unreachable") /\ UNCHANGED got
     ELSE Return(got) /\ UNCHANGED <<temp, script, deleting>>
  /\ UNCHANGED <<call, dev, mode, runs, files, names>>

(* delete_temporary_file(), in a thread: an exception is logged. *)
DeleteTemporaryFile(f) ==
  /\ f \in deleting
  /\ deleting' = deleting \ {f}
  /\ files' = IF reachable THEN files \ {f} ELSE files
  /\ UNCHANGED <<call, dev, pc, mode, left, runs, temp, script, names, got, outcome>>

Moves ==
  /\ away < MaxAway \/ ~reachable
  /\ reachable' = ~reachable /\ away' = IF reachable THEN away + 1 ELSE away
  /\ UNCHANGED <<call, pc, mode, left, runs, temp, script, files, deleting, names, got, outcome>>

Caller == HandleLargeOutput \/ PushScript \/ Shell \/ ShellUnreachable \/ ReadOutput
Deletes == \E f \in deleting : DeleteTemporaryFile(f)

Next == Caller \/ Deletes \/ Moves

Spec == Init /\ [][Next]_vars

----------------------------------------------------------------------------

(* The call, its files and its executions. *)
TypeOK ==
  /\ pc \in {"begin", "command", "output", "done"} /\ left \in 0..Retries
  /\ {temp, script} \cup files \cup deleting \subseteq 0..names
  /\ outcome \in {"none", "ok", "failed", "unreachable"}
  /\ got.run \in 0..Len(runs)

(* Output that is returned with check_return is all that one execution of  *)
(* the command printed, the last, which ended with status 0.               *)
OutputIsWhole ==
  (outcome = "ok" /\ check) => /\ got.part = "all" /\ got.run = Len(runs) /\ runs[got.run] = 0

(* With large_output it is whole whether the status was looked at or not.  *)
LargeIsWhole == (outcome = "ok" /\ large) => got.part = "all"

(* The command is run once for each attempt, and once more for each that   *)
(* was cut.                                                                *)
RunsAreCounted ==
  Len(runs) <= (Retries + 1 - left) * (IF Cuts /\ ~large /\ check THEN 2 ELSE 1)

(* Files in use are not being deleted. *)
InUseStays == {temp, script} \cap deleting = {}

----------------------------------------------------------------------------
(***************************************************************************)
(* AdbWrapper.PersistentShell: one shell on the device for many commands.  *)
(* A command is written to it with an echo of its status after it, and its *)
(* output is read line by line up to the line that begins with "DONE:".    *)
(* Lines in which the text of the command occurs are taken for prompts and *)
(* thrown away.  At the end of the output readline() gives '' for ever.    *)
(*                                                                         *)
(* A line is a record: the number of the command that printed it (0: none) *)
(* and its kind: "text", "same" (it contains the command), "blank",        *)
(* "prompt" (the shell's echo of the command), "DONE".                     *)
(***************************************************************************)

CONSTANTS MaxCommands, MaxStarts,
          PersistentPrints,  \* the kinds of lines that a command may print
          MaxLines,
          Greets,        \* the shell may print a blank line when it starts
          Dies           \* the shell may end by itself

VARIABLES handle,        \* the host has a process
          shell,         \* "none", "live", "ended"
          stdin, stdout,
          printed, persistentLeft,  \* what the current command printed, lines it has left
          persistentPc, closing, command, starts,
          lines, result

persistentVars == <<handle, shell, stdin, stdout, printed, persistentLeft, persistentPc, closing, command, starts, lines, result>>

None == 0
Error == -1
MaxKept == 3        \* bound: blank lines kept of an output that has ended
Line(c, kind) == [cmd |-> c, kind |-> kind]
Blank == Line(0, "blank")

PersistentInit ==
  /\ handle = FALSE /\ shell = "none" /\ stdin = <<>> /\ stdout = <<>>
  /\ printed = <<>> /\ persistentLeft = 0
  /\ persistentPc = "out" /\ closing = FALSE /\ command = 0 /\ starts = 0
  /\ lines = <<>> /\ result = None

(* Start(), from __enter__(), and the echo of WaitForReady().              *)
Start ==
  /\ persistentPc = "out" /\ ~handle /\ starts < MaxStarts
  /\ starts' = starts + 1
  /\ handle' = TRUE /\ shell' = "live"
  /\ stdout' \in {<<>>} \cup (IF Greets THEN {<<Blank>>} ELSE {})
  /\ stdin' = <<0>> /\ persistentPc' = "ready"
  /\ UNCHANGED <<printed, persistentLeft, closing, command, lines, result>>

(* readline(): the next line, or '' when there will be none.               *)
AtEnd == stdout = <<>> /\ shell # "live"
Readable == stdout # <<>> \/ AtEnd
Next1 == IF AtEnd THEN Blank ELSE Head(stdout)
Rest == IF AtEnd THEN <<>> ELSE Tail(stdout)

(* WaitForReady(): up to an empty line. *)
WaitForReady ==
  /\ persistentPc = "ready" /\ Readable
  /\ stdout' = Rest
  /\ persistentPc' = IF Next1.kind = "blank" THEN "in" ELSE "ready"
  /\ UNCHANGED <<handle, shell, stdin, printed, persistentLeft, closing, command, starts, lines, result>>

(* RunCommand(): the process is gone after one that closes.                *)
RunCommand(close) ==
  /\ persistentPc = "in" /\ handle /\ command < MaxCommands
  /\ command' = command + 1 /\ closing' = close
  /\ stdin' = Append(stdin, command + 1)
  /\ lines' = <<>> /\ result' = None /\ printed' = <<>>
  /\ persistentLeft' \in 0..MaxLines
  /\ persistentPc' = "reading"
  /\ UNCHANGED <<handle, shell, stdout, starts>>

(* The write to a shell that has ended raises once the pipe is broken.     *)
WriteRaises ==
  /\ persistentPc = "in" /\ handle /\ shell # "live"
  /\ lines' = <<>> /\ result' = Error
  /\ UNCHANGED <<handle, shell, stdin, stdout, printed, persistentLeft, persistentPc, closing, command, starts>>

(* _IsExtraneousLine() *)
IsExtraneousLine(line) == line.kind \in {"same", "prompt"}

Keep(line) ==
  IF IsExtraneousLine(line) \/ (AtEnd /\ Len(lines) >= MaxKept) THEN lines ELSE Append(lines, line)

(* run_cmd(), close=False *)
ReadsLine ==
  /\ persistentPc = "reading" /\ ~closing /\ Readable
  /\ stdout' = Rest
  /\ IF Next1.kind = "DONE"
     THEN /\ result' = Next1.cmd /\ persistentPc' = "in" /\ UNCHANGED lines
     ELSE /\ lines' = Keep(Next1) /\ UNCHANGED <<result, persistentPc>>
  /\ UNCHANGED <<handle, shell, stdin, printed, persistentLeft, closing, command, starts>>

(* close=True: communicate() waits for the end; the last line is the       *)
(* status.                                                                 *)
Communicates ==
  /\ persistentPc = "reading" /\ closing /\ shell # "live"
  /\ LET kept == SelectSeq(stdout, LAMBDA l : ~IsExtraneousLine(l))
     IN IF kept # <<>> /\ Last(kept).kind = "DONE"
        THEN lines' = Front(kept) /\ result' = Last(kept).cmd
        ELSE result' = Error /\ UNCHANGED lines        \* IndexError or ValueError
  /\ handle' = FALSE /\ stdout' = <<>>
  /\ persistentPc' = "in"
  /\ UNCHANGED <<shell, stdin, printed, persistentLeft, closing, command, starts>>

(* Stop(), from __exit__(): nobody waits for the process. *)
Stop ==
  /\ persistentPc = "in"
  /\ handle' = FALSE /\ persistentPc' = "out"
  /\ stdin' = IF handle THEN Append(stdin, -1) ELSE stdin
  /\ UNCHANGED <<shell, stdout, printed, persistentLeft, closing, command, starts, lines, result>>

----------------------------------------------------------------------------

(* The shell on the device. *)
ShellReady ==
  /\ shell = "live" /\ stdin # <<>> /\ Head(stdin) = 0
  /\ stdout' = Append(stdout, Blank) /\ stdin' = Tail(stdin)
  /\ UNCHANGED <<handle, shell, printed, persistentLeft, persistentPc, closing, command, starts, lines, result>>

ShellPrints(kind) ==
  /\ shell = "live" /\ stdin # <<>> /\ Head(stdin) > 0 /\ persistentLeft > 0
  /\ persistentLeft' = persistentLeft - 1
  /\ printed' = IF kind = "prompt" THEN printed ELSE Append(printed, Line(command, kind))
  /\ stdout' = Append(stdout, Line(command, kind))
  /\ UNCHANGED <<handle, shell, stdin, persistentPc, closing, command, starts, lines, result>>

ShellDone ==
  /\ shell = "live" /\ stdin # <<>> /\ Head(stdin) > 0 /\ persistentLeft = 0
  /\ stdin' = Tail(stdin)
  /\ stdout' = Append(stdout, Line(command, "DONE"))
  /\ shell' = IF closing THEN "ended" ELSE shell
  /\ UNCHANGED <<handle, printed, persistentLeft, persistentPc, closing, command, starts, lines, result>>

ShellExits ==
  /\ shell = "live" /\ \/ Dies /\ persistentPc \in {"ready", "reading"}
                       \/ stdin # <<>> /\ Head(stdin) = -1
  /\ shell' = "ended" /\ stdin' = <<>>
  /\ UNCHANGED <<handle, stdout, printed, persistentLeft, persistentPc, closing, command, starts, lines, result>>

Host == Start \/ WaitForReady \/ WriteRaises \/ ReadsLine \/ Communicates \/ Stop
        \/ \E close \in BOOLEAN : RunCommand(close)
Device == ShellReady \/ ShellDone \/ ShellExits \/ \E k \in PersistentPrints : ShellPrints(k)

PersistentNext == Host \/ Device

PersistentSpec == PersistentInit /\ [][PersistentNext]_persistentVars /\ WF_persistentVars(WaitForReady \/ ReadsLine \/ Communicates) /\ WF_persistentVars(Device)

----------------------------------------------------------------------------

(* The pipes and the answer. *)
PersistentTypeOK ==
  /\ command \in 0..MaxCommands /\ Len(stdin) <= 2
  /\ result \in {None, Error} \cup 1..MaxCommands
  /\ \A i \in DOMAIN stdout : stdout[i].cmd \in 0..command

Finished == persistentPc = "in" /\ result \notin {None, Error}

(* What a command returns is what it printed, in order.                    *)
OutputIsMine == Finished => lines = printed

(* ... with its own status. *)
StatusIsMine == Finished => result = command /\ \A i \in DOMAIN lines : lines[i].cmd \in {0, command}

(* A command was sent, and RunCommand() has not returned.                  *)
Reading == persistentPc = "reading"

(* ... while the shell lives, or its answer is in the pipe, or the end of  *)
(* the output is what is waited for.                                       *)
Unanswered ==
  Reading /\ (closing \/ shell = "live" \/ \E i \in DOMAIN stdout : stdout[i].kind = "DONE")
==============================================================================
