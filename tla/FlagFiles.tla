------------------------------ MODULE FlagFiles ------------------------------
(***************************************************************************)
(* Command line flags of the browser on a device: the line they are        *)
(* written as, and the changers that write it. Each has variables, Init    *)
(* and Next of its own.                                                    *)
(***************************************************************************)
EXTENDS SequencesExt, Naturals, Sequences, FiniteSets

----------------------------------------------------------------------------
(***************************************************************************)
(* The line of the command line file of flag_changer.py: how a set of      *)
(* flags is written as one line (_SerializeFlags, _QuoteFlag) and how the  *)
(* line is read back, one character after the other (_ParseFlags).  A      *)
(* character is one of a few that the two functions tell apart, a string   *)
(* is a sequence of them.  The set is written in the order Python iterates *)
(* over it, so in any order.                                               *)
(***************************************************************************)

CONSTANT Flags   \* the flags to choose from, strings

VARIABLES args,            \* the flags that were written, in their order
          line,            \* what is still to be read
          current_quote, current_flag, flags

lineVars == <<args, line, current_quote, current_flag, flags>>

LineNone == "none"
Escape == "\\"
Quotes == {"'", "\""}
Space == " "
Word == {"a", "b", "-", "_"}    \* what _RE_NEEDS_QUOTING does not match

NeedsQuoting(s) == \E i \in DOMAIN s : s[i] \notin Word

InQuotes(s) ==
  LET escaped == [i \in DOMAIN s |-> IF s[i] = "\"" THEN <<Escape, s[i]>> ELSE <<s[i]>>]
  IN <<"\"">> \o FlattenSeq(escaped) \o <<"\"">>

QuoteFlag(flag) ==
  LET eq == SelectInSeq(flag, LAMBDA c : c = "=")
      key == IF eq = 0 THEN flag ELSE SubSeq(flag, 1, eq - 1)
      value == SubSeq(flag, eq + 1, Len(flag))
  IN CASE flag = <<>> \/ NeedsQuoting(key) -> InQuotes(flag)
       [] eq = 0 -> key
       [] OTHER -> key \o <<"=">> \o (IF NeedsQuoting(value) THEN InQuotes(value) ELSE value)

SerializeFlags(seq) ==
  IF seq = <<>> THEN <<>>
  ELSE <<"_">> \o FlattenSeq([i \in DOMAIN seq |-> <<Space>> \o QuoteFlag(seq[i])])

LineInit ==
  /\ \E set \in {{}} \cup {{f} : f \in Flags} \cup {{f, g} : f, g \in Flags} : args \in SetToSeqs(set)
  /\ line = SerializeFlags(args)
  /\ current_quote = LineNone
  /\ current_flag = <<>>      \* None: the code never has an empty string here
  /\ flags = <<>>

Rest == line' = Tail(line)

(* A quote that opens or closes a block. *)
IsQuote(c) == \/ current_quote = LineNone /\ c \in Quotes
              \/ c = current_quote

Escaped == current_flag # <<>> /\ Last(current_flag) = Escape

Quote ==
  /\ line # <<>> /\ IsQuote(Head(line))
  /\ IF Escaped
     THEN /\ current_flag' = Append(Front(current_flag), Head(line))
          /\ UNCHANGED current_quote
     ELSE /\ current_quote' = IF current_quote = LineNone THEN Head(line) ELSE LineNone
          /\ UNCHANGED current_flag
  /\ Rest /\ UNCHANGED <<args, flags>>

Break ==
  /\ line # <<>> /\ current_quote = LineNone /\ Head(line) = Space
  /\ flags' = IF current_flag = <<>> THEN flags ELSE Append(flags, current_flag)
  /\ current_flag' = <<>>
  /\ Rest /\ UNCHANGED <<args, current_quote>>

Literal ==
  /\ line # <<>> /\ ~IsQuote(Head(line))
  /\ (current_quote = LineNone) => (Head(line) # Space)
  /\ current_flag' = Append(current_flag, Head(line))
  /\ Rest /\ UNCHANGED <<args, current_quote, flags>>

(* The end of the line ends the last flag. *)
EndOfLine ==
  /\ line = <<>> /\ current_flag # <<>>
  /\ flags' = Append(flags, current_flag)
  /\ current_flag' = <<>>
  /\ UNCHANGED <<args, line, current_quote>>

LineNext == Quote \/ Break \/ Literal \/ EndOfLine

LineSpec == LineInit /\ [][LineNext]_lineVars

----------------------------------------------------------------------------

AtEnd == line = <<>> /\ current_flag = <<>>
Parsed == IF flags = <<>> THEN <<>> ELSE Tail(flags)

(* Types of the parser's variables. *)
LineTypeOK ==
  /\ args \in Seq(Flags) /\ current_quote \in Quotes \cup {LineNone}
  /\ \A i \in DOMAIN flags : flags[i] # <<>>

(* What is written is read back as it was: quotes, blanks and equal signs  *)
(* of a flag, wherever they are, do not change it or its neighbours.       *)
RoundTrip == AtEnd => (Parsed = args)

(* A flag is never read together with the next one: what has been read so  *)
(* far is a prefix of what was written.                                    *)
OneByOne == (flags # <<>>) => IsPrefix(Tail(flags), args)

----------------------------------------------------------------------------
(***************************************************************************)
(* The changers of command line flags of flag_changer.py: each keeps a     *)
(* stack of the flags of its file, replaces what the file holds, and makes *)
(* SELinux permissive for as long as it has changed anything.  All of them *)
(* work on one device, which has one file for each name and one SELinux.   *)
(* A set of flags is a value; how it becomes a line is said above.         *)
(* Every command of the calls in Failing may fail, done or not done, and   *)
(* the call then ends with an exception: used as the context             *)
(* manager CustomCommandLineFlags, its body is left out and Restore() is   *)
(* called; otherwise it is the caller's.                                   *)
(***************************************************************************)

CONSTANTS Changers, ChangerFlags,
          Files, FileOf,      \* FileOf[c]: the file name c was given
          Nougat,             \* build_version_sdk >= NOUGAT
          Nested,             \* calls of several changers are properly nested
          Failing, MaxDepth

VARIABLES changerFile,  \* file[f]: flags in the file; {} is no file
          legacy,     \* the files in the old directory
          enforce,    \* what SELinux does
          stack, reset,      \* _state_stack and _should_reset_enforce
          call, changerStep,  \* the call that is running and its next command
          open,              \* the changers with something to restore, last one last
          first              \* file and enforce before anything was changed

own == <<stack, reset>>
device == <<changerFile, legacy, enforce>>
changerVars == <<device, own, call, changerStep, open, first>>

ChangerIdle == "none"

Quiet == \A c \in Changers : changerStep[c] = ChangerIdle

ChangerInit ==
  /\ changerFile \in [Files -> SUBSET ChangerFlags]
  /\ legacy \in SUBSET Files
  /\ enforce \in BOOLEAN
  /\ stack = [c \in Changers |-> <<>>]      \* not created yet
  /\ reset = [c \in Changers |-> FALSE]
  /\ call = [c \in Changers |-> ChangerIdle] /\ changerStep = [c \in Changers |-> ChangerIdle]
  /\ open = <<>>
  /\ first = [file |-> changerFile, enforce |-> enforce]

Created(c) == stack[c] # <<>>

(* FlagChanger(): the file of the old directory goes, the flags are read.  *)
Create(c) ==
  /\ Quiet /\ ~Created(c)
  /\ legacy' = legacy \ {FileOf[c]}
  /\ stack' = [stack EXCEPT ![c] = <<changerFile[FileOf[c]]>>]
  /\ UNCHANGED <<changerFile, enforce, reset, call, changerStep, open, first>>

Begin(c, kind, at) == /\ call' = [call EXCEPT ![c] = kind]
                      /\ changerStep' = [changerStep EXCEPT ![c] = at]
ChangerGoto(c, at) == changerStep' = [changerStep EXCEPT ![c] = at] /\ UNCHANGED call
ChangerDone(c) == Begin(c, ChangerIdle, ChangerIdle)

(* ReplaceFlags(), and AddFlags() and RemoveFlags() which compute the new  *)
(* set from the top of the stack, push it before the first command.        *)
Replace(c) ==
  /\ Quiet /\ Created(c) /\ Len(stack[c]) <= MaxDepth
  /\ \E new \in SUBSET ChangerFlags : stack' = [stack EXCEPT ![c] = Append(@, new)]
  /\ open' = Append(open, c)
  /\ Begin(c, "replace", "getenforce")
  /\ UNCHANGED <<device, reset, first>>

(* _SetPermissive() *)
GetEnforce(c) ==
  /\ changerStep[c] = "getenforce"
  /\ ChangerGoto(c, IF Nougat /\ enforce THEN "permissive" ELSE "write")
  /\ UNCHANGED <<device, own, open, first>>

SetPermissive(c) ==
  /\ changerStep[c] = "permissive"
  /\ enforce' = FALSE
  /\ reset' = [reset EXCEPT ![c] = TRUE]
  /\ ChangerGoto(c, "write")
  /\ UNCHANGED <<changerFile, legacy, stack, open, first>>

Occurs(c) == \E i \in DOMAIN open : open[i] = c
MayRestore(c) == IF Nested THEN open # <<>> /\ Last(open) = c ELSE Occurs(c)
Without(c) == LET i == CHOOSE i \in DOMAIN open : /\ open[i] = c
                                                  /\ \A j \in DOMAIN open : open[j] = c => j <= i
              IN SubSeq(open, 1, i - 1) \o SubSeq(open, i + 1, Len(open))

Popped(c) == stack' = [stack EXCEPT ![c] = Front(@)]

AfterPop(c) == IF Len(stack[c]) = 2 /\ reset[c] THEN "enforcing" ELSE "write"

(* Restore(): the assertion on the stack is the guard. *)
Restore(c) ==
  /\ Quiet /\ MayRestore(c) /\ Len(stack[c]) > 1
  /\ Popped(c)
  /\ Begin(c, "restore", AfterPop(c))
  /\ UNCHANGED <<device, reset, open, first>>

(* _ResetEnforce() *)
ResetEnforce(c) ==
  /\ changerStep[c] = "enforcing"
  /\ enforce' = TRUE
  /\ reset' = [reset EXCEPT ![c] = FALSE]
  /\ ChangerGoto(c, "write")
  /\ UNCHANGED <<changerFile, legacy, stack, open, first>>

(* _UpdateCommandLineFile(): the file is written, or removed when the set  *)
(* is empty, and read again.                                               *)
Update(c) ==
  /\ changerStep[c] = "write"
  /\ changerFile' = [changerFile EXCEPT ![FileOf[c]] = Last(stack[c])]
  /\ ChangerGoto(c, "read")
  /\ UNCHANGED <<legacy, enforce, own, open, first>>

GetCurrentFlags(c) ==
  /\ changerStep[c] = "read"
  /\ stack' = [stack EXCEPT ![c] = Append(Front(@), changerFile[FileOf[c]])]
  /\ open' = IF call[c] = "replace" THEN open ELSE Without(c)
  /\ ChangerDone(c)
  /\ UNCHANGED <<device, reset, first>>

(* A command fails, before or after it has done its work.  The context     *)
(* manager restores after a failed ReplaceFlags(); a failed Restore() is   *)
(* its end.                                                                *)
Fail(c) ==
  /\ changerStep[c] # ChangerIdle /\ call[c] \in Failing
  /\ \/ UNCHANGED device
     \/ changerStep[c] = "permissive" /\ enforce' = FALSE /\ UNCHANGED <<changerFile, legacy>>
     \/ changerStep[c] = "enforcing" /\ enforce' = TRUE /\ UNCHANGED <<changerFile, legacy>>
     \/ /\ changerStep[c] = "write" /\ changerFile' = [changerFile EXCEPT ![FileOf[c]] = Last(stack[c])]
        /\ UNCHANGED <<legacy, enforce>>
  /\ IF call[c] = "replace"
     THEN Popped(c) /\ Begin(c, "restore", AfterPop(c)) /\ UNCHANGED open
     ELSE ChangerDone(c) /\ open' = Without(c) /\ UNCHANGED stack
  /\ UNCHANGED <<reset, first>>

ChangerNext == \E c \in Changers : \/ Create(c) \/ Replace(c) \/ Restore(c)
                                   \/ GetEnforce(c) \/ SetPermissive(c) \/ ResetEnforce(c)
                                   \/ Update(c) \/ GetCurrentFlags(c) \/ Fail(c)

ChangerSpec == ChangerInit /\ [][ChangerNext]_changerVars

----------------------------------------------------------------------------

(* Types of the device and of the changers. *)
ChangerTypeOK ==
  /\ changerFile \in [Files -> SUBSET ChangerFlags] /\ enforce \in BOOLEAN
  /\ \A c \in Changers : \A i \in DOMAIN stack[c] : stack[c][i] \in SUBSET ChangerFlags
  /\ reset \in [Changers -> BOOLEAN]

(* When everything that was changed has been restored, the files and       *)
(* SELinux are as they were before.                                        *)
RevertedToOriginal ==
  (Quiet /\ open = <<>>) => (changerFile = first.file /\ enforce = first.enforce)

(* The files are as they were, whatever has failed while they were changed.*)
FilesReverted == (Quiet /\ open = <<>>) => changerFile = first.file

(* A call that has returned leaves SELinux permissive for as long as some  *)
(* changer has its flags on the device, so that the program can read them. *)
Readable ==
  (Quiet /\ Nougat /\ open # <<>>) => ~enforce

(* What a changer believes is on the device, is: unless another one writes *)
(* the same file.                                                          *)
KnowsTheFile ==
  \A c \in Changers : (Quiet /\ Created(c)) =>
     \/ Last(stack[c]) = changerFile[FileOf[c]]
     \/ \E d \in Changers \ {c} : FileOf[d] = FileOf[c] /\ Created(d)
==============================================================================
