----------------------------- MODULE AdbCommand ------------------------------
(***************************************************************************)
(* The commands of sdk/adb_wrapper.py.  Each is one run of the adb client, *)
(* with a time limit and retries: the client that is late is killed, but   *)
(* what it asked for may still be done by the device, after the next       *)
(* attempt has begun or after the call has failed.  What the client prints *)
(* and its exit status are all the caller has to go by.                    *)
(*                                                                         *)
(* One caller makes up to MaxCalls calls; the device may go and come back. *)
(***************************************************************************)
EXTENDS Naturals

CONSTANTS Verbs, Retries, MaxCalls, MaxMoves,
          Slow,             \* clients may be late
          OldAdb            \* the client is older than 1.0.36

VARIABLES conn,              \* what "adb devices" says of the device
          moves,
          apk, port, remote, rooted,   \* the device: installed, forwarded, directories, root
          files,             \* the host's: "local" and what came from the device
          pc, verb, target, left, calls,
          late,              \* what killed clients had asked for, not done yet
          answer, result,
          before             \* the device when the call began

device == <<apk, port, remote, rooted>>
vars == <<conn, moves, device, files, pc, verb, target, left, calls, late, answer, result, before>>

None == "none"
States == {"device", "offline", "absent", "waiting"}
Results == {None, "ok", "failed", "unreachable", "timeout", "IOError"}

Init ==
  /\ conn = "device" /\ moves = 0
  /\ apk \in BOOLEAN /\ port = FALSE /\ remote \in {{}, {"here"}} /\ rooted = FALSE
  /\ files \in SUBSET {"local"}
  /\ pc = "idle" /\ verb = None /\ target = "here" /\ left = 0 /\ calls = 0
  /\ late = {} /\ answer = None /\ result = None /\ before = <<apk, port, remote, rooted>>

(* _RunDeviceAdbCmd() begins: the attempts it has. *)
Begin(v, dir) == verb' = v /\ target' = dir /\ left' = Retries + 1 /\ pc' = "try"

Raise(outcome) == pc' = "idle" /\ result' = outcome

Called(v) ==
  /\ pc = "idle" /\ calls < MaxCalls /\ v \in Verbs
  /\ calls' = calls + 1 /\ result' = None /\ before' = device
  /\ answer' = None
  /\ UNCHANGED <<conn, moves, device, files, late>>

Rejected(v) ==
  /\ pc = "idle" /\ calls < MaxCalls /\ v \in Verbs
  /\ calls' = calls + 1 /\ before' = device /\ Raise("IOError")
  /\ verb' = v
  /\ UNCHANGED <<conn, moves, device, files, target, left, late, answer>>

Plain(v) == Called(v) /\ Begin(v, "here")

(* VerifyLocalFileExists() comes first, once. *)
WithFile(v) == IF "local" \in files THEN Plain(v) ELSE Rejected(v)

Install == WithFile("install")
InstallMultiple == WithFile("install-multiple")
Uninstall == Plain("uninstall")
Forward == Plain("forward --no-rebind")
ForwardRemove == Plain("forward --remove")
Pull == Plain("pull")
Backup == Plain("backup")
Restore == WithFile("restore")
Root == Plain("root")
WaitForDevice == Plain("wait-for-device")
Reboot == Plain("reboot")

(* Push(): an old client is told where a directory goes that is there.     *)
Push ==
  IF "local" \notin files THEN Rejected("push")
  ELSE IF ~OldAdb THEN Plain("push")
  ELSE /\ Called("push") /\ verb' = "push" /\ pc' = "test" /\ UNCHANGED <<target, left>>

TestsDir ==
  /\ pc = "test"
  /\ IF conn = "device"
     THEN /\ Begin("push", IF "here" \in remote THEN "nested" ELSE "here")
          /\ UNCHANGED result
     ELSE Raise("unreachable") /\ UNCHANGED <<verb, target, left>>
  /\ UNCHANGED <<conn, moves, device, files, calls, late, answer, before>>

----------------------------------------------------------------------------

(* The device does what a client asked for, and what the client prints.    *)
(* A push by a newer client into a directory that is there makes another   *)
(* one in it.                                                              *)
Lands(to) == IF ~OldAdb /\ "here" \in remote THEN "nested" ELSE to

Does(v, to) ==
  CASE v \in {"install", "install-multiple"} -> apk' = TRUE /\ UNCHANGED <<port, remote, rooted>>
    [] v = "uninstall" -> apk' = FALSE /\ UNCHANGED <<port, remote, rooted>>
    [] v = "forward --no-rebind" -> port' = TRUE /\ UNCHANGED <<apk, remote, rooted>>
    [] v = "forward --remove" -> port' = FALSE /\ UNCHANGED <<apk, remote, rooted>>
    [] v = "push" -> remote' = remote \cup {Lands(to)} /\ UNCHANGED <<apk, port, rooted>>
    [] v = "root" -> rooted' = TRUE /\ UNCHANGED <<apk, port, remote>>
    [] OTHER -> UNCHANGED device

Refuses(v) ==
  \/ v \in {"install", "install-multiple"} /\ apk
  \/ v = "uninstall" /\ ~apk
  \/ v = "forward --no-rebind" /\ port
  \/ v = "forward --remove" /\ ~port

(* A refusal is a line of output for pm, a status for adb itself. *)
Refusal(v) == IF v \in {"install", "install-multiple", "uninstall"} THEN "Failure" ELSE "error"

Performs(v, to) ==
  \/ Refuses(v) /\ UNCHANGED device
  \/ ~Refuses(v) /\ Does(v, to)

Runs ==
  /\ pc = "wait" /\ answer = None /\ conn = "device"
  /\ Performs(verb, target)
  /\ IF Refuses(verb) THEN answer' = Refusal(verb) /\ UNCHANGED <<files, conn>>
     ELSE /\ answer' \in (IF verb = "root" THEN {"Success", "cannot"} ELSE {"Success"})
          /\ files' \in {files} \cup (IF verb \in {"pull", "backup"} THEN {files \cup {"pulled"}} ELSE {})
          /\ conn' = IF verb = "reboot" THEN "absent" ELSE conn
  /\ UNCHANGED <<moves, pc, verb, target, left, calls, late, result, before>>

(* No device: the client says so, or waits for it. *)
NoDevice ==
  /\ pc = "wait" /\ answer = None /\ conn # "device" /\ verb # "wait-for-device"
  /\ answer' = conn
  /\ UNCHANGED <<conn, moves, device, files, pc, verb, target, left, calls, late, result, before>>

LateEffect(l) ==
  /\ l \in late /\ conn = "device"
  /\ late' = late \ {l}
  /\ Performs(l.verb, l.target)
  /\ UNCHANGED <<conn, moves, files, pc, verb, target, left, calls, answer, result, before>>

Moves(c) ==
  /\ moves < MaxMoves /\ conn # c
  /\ conn' = c /\ moves' = moves + 1
  /\ UNCHANGED <<device, files, pc, verb, target, left, calls, late, answer, result, before>>

----------------------------------------------------------------------------

(* Mutant: the attempts are not counted.                                   *)
AttemptFree ==
  /\ pc = "try" /\ left > 0
  /\ answer' = None /\ pc' = "wait"
  /\ UNCHANGED <<conn, moves, device, files, verb, target, left, calls, late, result, before>>

(* _RunAdbCmd(): an attempt, and what its outcome is.                      *)
Attempt ==
  /\ pc = "try" /\ left > 0
  /\ left' = left - 1 /\ answer' = None /\ pc' = "wait"
  /\ UNCHANGED <<conn, moves, device, files, verb, target, calls, late, result, before>>

RetryOr(outcome) ==
  IF left > 0 THEN pc' = "try" /\ UNCHANGED result ELSE Raise(outcome)

(* "not found" and "waiting" are a device that is out of reach; any other  *)
(* error or status is a failure.                                           *)
Unreachable == answer \in {"absent", "waiting"}

Fails ==
  /\ pc = "wait" /\ answer \in {"absent", "waiting", "offline", "error"}
  /\ RetryOr(IF Unreachable THEN "unreachable" ELSE "failed")
  /\ UNCHANGED <<conn, moves, device, files, verb, target, left, calls, late, answer, before>>

(* What the callers do with output of status 0: no retry here.             *)
Accepted ==
  CASE verb \in {"install", "install-multiple"} -> answer = "Success"
    [] verb = "uninstall" -> answer # "Failure"
    [] verb = "root" -> answer # "cannot"
    [] verb \in {"pull", "backup"} -> "pulled" \in files
    [] OTHER -> TRUE

Returns ==
  /\ pc = "wait" /\ answer \in {"Success", "Failure", "cannot"}
  /\ Raise(IF Accepted THEN "ok" ELSE "failed")
  /\ UNCHANGED <<conn, moves, device, files, verb, target, left, calls, late, answer, before>>

(* The client is killed; the device may have its request.                  *)
TimesOut ==
  /\ pc = "wait" /\ Slow
  /\ \E l \in {late, late \cup {[verb |-> verb, target |-> target]}} :
       late' = IF answer = None THEN l ELSE late
  /\ RetryOr("timeout")
  /\ UNCHANGED <<conn, moves, device, files, verb, target, left, calls, answer, before>>

Caller == TestsDir \/ Attempt \/ Fails \/ Returns \/ TimesOut

Next == \/ Install \/ InstallMultiple \/ Uninstall \/ Forward \/ ForwardRemove \/ Push \/ Pull
        \/ Backup \/ Restore \/ Root \/ WaitForDevice \/ Reboot
        \/ Caller \/ Runs \/ NoDevice
        \/ \E l \in late : LateEffect(l)
        \/ \E c \in States : Moves(c)

Spec == Init /\ [][Next]_vars /\ WF_vars(Caller)

----------------------------------------------------------------------------

(* The calls and their results. *)
TypeOK ==
  /\ conn \in States /\ remote \in SUBSET {"here", "nested"}
  /\ files \subseteq {"local", "pulled"}
  /\ pc \in {"idle", "test", "try", "wait"} /\ left \in 0..Retries + 1
  /\ result \in Results

(* A command that returns has done its work, whatever the attempts before. *)
(* (What a client killed in an earlier call had asked for may undo it: the *)
(* runs have several calls or clients that are late, not both.)            *)
Returned(v) == pc = "idle" /\ result = "ok" /\ verb = v
OkMeansDone ==
  /\ (Returned("install") \/ Returned("install-multiple")) => apk
  /\ Returned("uninstall") => ~apk
  /\ Returned("forward --no-rebind") => port
  /\ Returned("forward --remove") => ~port
  /\ Returned("push") => target \in remote
  /\ (Returned("pull") \/ Returned("backup")) => "pulled" \in files
  /\ Returned("root") => rooted

(* Push(): a directory goes into another of its name only if that was on   *)
(* the device when the call was made.                                      *)
NestedOnlyIntoOld == (verb = "push" /\ "nested" \in remote) => "here" \in before[3] \/ "nested" \in before[3]

(* A call runs. *)
CallRuns == pc # "idle"
==============================================================================
