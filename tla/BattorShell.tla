----------------------------- MODULE BattorShell -----------------------------
(***************************************************************************)
(* A BattOr power monitor as systrace uses it: the wrapper of              *)
(* battor_wrapper.py runs the agent binary as a shell, sends it commands,  *)
(* reflashes the firmware before a trace and waits for the shell to end    *)
(* when it collects one; BattOrTraceAgent turns charging off around it.    *)
(* A command is answered well, or badly or not at all (bad): then the      *)
(* shell is killed and the call raises.  Time is in whole seconds, as the  *)
(* wrapper keeps it.                                                       *)
(***************************************************************************)
EXTENDS Naturals

CONSTANTS MaxTime, MaxTraces,
          MayFail,         \* commands may be answered badly, flashing may fail
          Slow             \* the shell may take longer to end than was traced

VARIABLES battor_shell,               \* _battor_shell is set
          shell,                      \* the process: "none", "runs", "traces", "uploads", "ended"
          tracing,                    \* _tracing
          start_time, stop_time,      \* _start_tracing_time, _stop_tracing_time; 0: None
          results,                    \* the trace in the file, and in _trace_results
          trace,                      \* the number of the last trace
          firmware, readable,         \* of the BattOr; its hash was understood
          charging, registered,       \* the phone; the atexit handler of the agent
          now, waited,
          pc, outcome

process == <<battor_shell, shell>>
times == <<start_time, stop_time>>
phone == <<charging, registered>>
chip == <<firmware, readable>>
vars == <<process, tracing, times, results, trace, chip, phone, now, waited, pc, outcome>>

None == "none"
Answers == shell \in {"runs", "traces"}

Init ==
  /\ battor_shell = FALSE /\ shell = None
  /\ tracing = FALSE /\ start_time = 0 /\ stop_time = 0
  /\ results = [file |-> 0, read |-> 0] /\ trace = 0
  /\ firmware \in {"old", "new"} /\ readable = TRUE
  /\ charging = TRUE /\ registered = FALSE
  /\ now = 1 /\ waited = 0
  /\ pc = "idle" /\ outcome = None

Goto(l) == pc' = l
Returns == Goto("idle") /\ outcome' = "ok"
Raises == Goto("idle") /\ outcome' = "raised"
Quiet == pc = "idle"

(* A second passes, while nobody calls or in WaitFor(). *)
Tick ==
  /\ pc \in {"idle", "collect"} /\ now < MaxTime
  /\ now' = now + 1
  /\ waited' = IF pc = "collect" THEN waited + 1 ELSE 0
  /\ UNCHANGED <<process, tracing, times, results, trace, chip, phone, pc, outcome>>

(* KillBattOrShell() after a bad answer; the handle stays. *)
Kill == shell' = "ended" /\ UNCHANGED battor_shell

(* StartAgentTracing(): charging is off before the shell is started.       *)
StartAgentTracing ==
  /\ Quiet /\ ~battor_shell
  /\ trace < MaxTraces
  /\ charging' = FALSE /\ registered' = TRUE
  /\ battor_shell' = TRUE /\ shell' = "runs"
  /\ Goto("hash") /\ outcome' = None
  /\ UNCHANGED <<tracing, times, results, trace, chip, now, waited>>

(* StartTracing() by itself, on a shell that is there. *)
StartTracing ==
  /\ Quiet /\ battor_shell /\ ~tracing
  /\ trace < MaxTraces
  /\ Goto("hash") /\ outcome' = None
  /\ UNCHANGED <<process, tracing, times, results, trace, chip, phone, now, waited>>

(* _FlashBattOr(): GetFirmwareGitHash().  An answer that is no hash is a   *)
(* ValueError: the shell is stopped and started again.                     *)
GetHash ==
  /\ pc = "hash"
  /\ IF Answers
     THEN /\ readable' = TRUE
          /\ Goto(IF firmware = "new" THEN "start" ELSE "flash")
     ELSE readable' = FALSE /\ Goto("restart")
  /\ UNCHANGED <<process, tracing, times, results, trace, firmware, phone, now, waited, outcome>>

HashUnread ==
  /\ MayFail /\ pc = "hash"
  /\ readable' = FALSE /\ Goto("restart")
  /\ UNCHANGED <<process, tracing, times, results, trace, firmware, phone, now, waited, outcome>>

(* StopShell(), FlashFirmware() and the StartShell() of the finally.       *)
Flash ==
  /\ pc = "flash"
  /\ firmware' = "new"
  /\ shell' = "runs" /\ UNCHANGED battor_shell
  /\ Goto("start")
  /\ UNCHANGED <<tracing, times, results, trace, readable, phone, now, waited, outcome>>

FlashFails ==
  /\ MayFail /\ pc = "flash"
  /\ firmware' = "broken"
  /\ shell' = "runs" /\ UNCHANGED battor_shell
  /\ Raises
  /\ UNCHANGED <<tracing, times, results, trace, readable, phone, now, waited>>

Restart ==
  /\ pc = "restart"
  /\ shell' = "runs" /\ UNCHANGED battor_shell
  /\ Goto("start")
  /\ UNCHANGED <<tracing, times, results, trace, chip, phone, now, waited, outcome>>

SendStart ==
  /\ pc = "start" /\ Answers
  /\ shell' = "traces" /\ UNCHANGED battor_shell
  /\ tracing' = TRUE /\ start_time' = now /\ trace' = trace + 1
  /\ Returns
  /\ UNCHANGED <<stop_time, results, chip, phone, now, waited>>

(* StopTracing(), and StopAgentTracing(), which turns charging on again.   *)
StopTracing ==
  /\ Quiet /\ tracing /\ shell = "traces"
  /\ shell' = "uploads" /\ UNCHANGED battor_shell
  /\ tracing' = FALSE /\ stop_time' = now
  /\ charging' = TRUE
  /\ Returns
  /\ UNCHANGED <<start_time, results, trace, chip, registered, now, waited>>

(* A bad answer to StartTracing or StopTracing, or none: the shell is      *)
(* killed, what the object says of the trace stays.                        *)
BadAnswer ==
  /\ pc = "start" \/ (Quiet /\ tracing)
  /\ MayFail \/ ~Answers
  /\ Kill /\ Raises
  /\ UNCHANGED <<tracing, times, results, trace, chip, phone, now, waited>>

(* The shell writes the trace and ends. *)
Uploaded ==
  /\ shell = "uploads"
  /\ shell' = "ended"
  /\ results' = [results EXCEPT !.file = trace]
  /\ UNCHANGED <<battor_shell, tracing, times, trace, chip, phone, now, waited, pc, outcome>>

(* CollectTraceData(): it waits for as long as was traced. *)
Collect ==
  /\ Quiet /\ battor_shell /\ stop_time # 0 /\ ~tracing /\ shell \in {"uploads", "ended"}
  /\ waited' = 0
  /\ Goto("collect") /\ outcome' = None
  /\ UNCHANGED <<process, tracing, times, results, trace, chip, phone, now>>

Collected ==
  /\ pc = "collect" /\ shell = "ended"
  /\ results' = [results EXCEPT !.read = results.file]
  /\ battor_shell' = FALSE /\ UNCHANGED shell
  /\ Goto("idle") /\ outcome' = "collected"
  /\ UNCHANGED <<tracing, times, trace, chip, phone, now, waited>>

CollectTimesOut ==
  /\ Slow /\ pc = "collect" /\ shell # "ended"
  /\ waited + start_time >= stop_time
  /\ Goto("idle") /\ outcome' = "timeout"
  /\ UNCHANGED <<process, tracing, times, results, trace, chip, phone, now, waited>>

(* StopShell(): the Exit command, or else a kill. *)
StopShell ==
  /\ Quiet /\ battor_shell /\ ~tracing
  /\ shell' = "ended" /\ battor_shell' = FALSE
  /\ Returns
  /\ UNCHANGED <<tracing, times, results, trace, chip, phone, now, waited>>

(* The interpreter ends: KillBattOrShell() and the agent's handler.        *)
AtExit ==
  /\ Quiet
  /\ shell' = IF battor_shell THEN "ended" ELSE shell
  /\ charging' = (charging \/ registered)
  /\ Goto("exited")
  /\ UNCHANGED <<battor_shell, tracing, times, results, trace, chip, registered, now, waited, outcome>>

Next == \/ Tick \/ StartAgentTracing \/ StartTracing \/ GetHash \/ HashUnread \/ Flash \/ FlashFails
        \/ Restart \/ SendStart \/ StopTracing \/ BadAnswer \/ Uploaded \/ Collect \/ Collected
        \/ CollectTimesOut \/ StopShell \/ AtExit

Spec == Init /\ [][Next]_vars

----------------------------------------------------------------------------

(* Types of the wrapper's fields and of the process. *)
TypeOK ==
  /\ shell \in {None, "runs", "traces", "uploads", "ended"}
  /\ {start_time, stop_time} \subseteq 0..MaxTime /\ waited \in 0..MaxTime
  /\ results \in [file : 0..MaxTraces, read : 0..MaxTraces]
  /\ firmware \in {"old", "new", "broken"}

(* When the interpreter has ended the phone charges and no shell is left   *)
(* that answers, whatever had failed.                                      *)
NothingLeft == pc = "exited" => charging /\ ~Answers

(* A trace runs with the new firmware, unless its hash was not understood. *)
FirmwareCurrent == (tracing /\ readable) => firmware = "new"

(* What CollectTraceData() returns is the trace that was stopped last, if  *)
(* its shell was not killed.                                               *)
LastTrace == outcome = "collected" => results.read = trace

(* While the object says that it traces there is a shell that does: so     *)
(* that StopTracing() or StopShell() can be called.                        *)
TracingMeansShell == (Quiet /\ tracing) => shell = "traces"
==============================================================================
