------------------------------ MODULE HostLocks ------------------------------
(***************************************************************************)
(* What the processes and threads of one host share under a lock: the      *)
(* ports of test servers, the locks of paths, and the clock of a process.  *)
(* Each has variables, Init and Next of its own.                           *)
(***************************************************************************)
EXTENDS Integers, FiniteSets, Naturals

----------------------------------------------------------------------------
(***************************************************************************)
(* devil.android.ports: processes that run at the same time allocate ports *)
(* for their test servers.  The next port is in a file, read and written   *)
(* under a flock; a port that cannot be bound is passed over.  The reset   *)
(* of the file takes no lock.                                              *)
(***************************************************************************)

CONSTANTS
  Procs,
  FIRST, LAST,   \* TEST_SERVER_PORT_FIRST and TEST_SERVER_PORT_LAST
  Top,           \* the highest port that IsHostPortAvailable() may probe
  Resets,        \* TRUE when a process may reset the allocation meanwhile
  Faults,        \* TRUE when writing the file may fail
  Others         \* TRUE when other programs take ports too

PortAssumption ==
  /\ "none" \notin Procs
  /\ FIRST \in Nat /\ LAST \in Nat /\ Top \in Nat
  /\ 0 < FIRST /\ FIRST <= LAST /\ LAST < Top
  /\ Resets \in BOOLEAN /\ Faults \in BOOLEAN /\ Others \in BOOLEAN

VARIABLES
  file,        \* _TEST_SERVER_PORT_FILE: a port, Empty or Missing
  lock,        \* holder of the flock, or "none"
  portPc,      \* pc[p]: where p is
  port,        \* port[p]: the port p probes, has been given, or 0
  bound,       \* ports in use on the host, by anyone
  spoiled,     \* history: the file has been reset, or not written
  taken        \* history: the ports p could not be given when it got its answer

portVars == <<file, lock, portPc, port, bound, spoiled, taken>>
Ports == FIRST..Top
Missing == -1
Empty == 0

PortInit ==
  /\ file = Missing
  /\ lock = "none"
  /\ portPc = [p \in Procs |-> "idle"]
  /\ port = [p \in Procs |-> 0]
  /\ bound = {}
  /\ spoiled = FALSE
  /\ taken = [p \in Procs |-> {}]

----------------------------------------------------------------------------

(* AllocateTestServerPort().                                               *)
Lock(p) ==
  /\ portPc[p] = "idle"
  /\ lock = "none"
  /\ lock' = p
  /\ portPc' = [portPc EXCEPT ![p] = "read"]
  /\ port' = [port EXCEPT ![p] = 0]
  /\ UNCHANGED <<file, bound, spoiled, taken>>

(* A missing file is made; what the open file holds is read.  An empty one *)
(* throws, with port still 0.                                              *)
Read(p) ==
  /\ portPc[p] = "read"
  /\ file' = IF file = Missing THEN FIRST ELSE file
  /\ IF file' = Empty
     THEN portPc' = [portPc EXCEPT ![p] = "unlock"] /\ UNCHANGED port
     ELSE /\ portPc' = [portPc EXCEPT ![p] = "probe"]
          /\ port' = [port EXCEPT ![p] = file']
  /\ UNCHANGED <<lock, bound, spoiled, taken>>

(* IsHostPortAvailable(): bind and close; the next port if that fails.     *)
Probe(p) ==
  /\ portPc[p] = "probe"
  /\ IF port[p] \in bound
     THEN port' = [port EXCEPT ![p] = @ + 1] /\ UNCHANGED portPc
     ELSE portPc' = [portPc EXCEPT ![p] = "write"] /\ UNCHANGED port
  /\ UNCHANGED <<file, lock, bound, spoiled, taken>>

(* A port within the limits is given and the next one written.             *)
Write(p) ==
  /\ portPc[p] = "write"
  /\ port[p] \in FIRST..LAST
  /\ file' = port[p] + 1
  /\ portPc' = [portPc EXCEPT ![p] = "unlock"]
  /\ UNCHANGED <<lock, port, bound, spoiled, taken>>

(* Writing throws: the exception is logged and the port given all the same.*)
WriteFails(p) ==
  /\ portPc[p] = "write"
  /\ Faults
  /\ port[p] \in FIRST..LAST
  /\ portPc' = [portPc EXCEPT ![p] = "unlock"]
  /\ spoiled' = TRUE
  /\ UNCHANGED <<file, lock, port, bound, taken>>

NoneLeft(p) ==
  /\ portPc[p] = "write"
  /\ port[p] \notin FIRST..LAST
  /\ port' = [port EXCEPT ![p] = 0]
  /\ portPc' = [portPc EXCEPT ![p] = "unlock"]
  /\ UNCHANGED <<file, lock, bound, spoiled, taken>>

(* Ports that p cannot be given: in use, given to others, or passed over.  *)
Ungivable(p) == bound \cup {port[q] : q \in Procs \ {p}} \cup {n \in Ports : n < file}

(* Mutant: only a process that got a port gives the lock back.             *)
UnlockIfGiven(p) ==
  /\ portPc[p] = "unlock"
  /\ lock' = IF port[p] = 0 THEN lock ELSE "none"
  /\ portPc' = [portPc EXCEPT ![p] = IF port[p] = 0 THEN "refused" ELSE "given"]
  /\ taken' = [taken EXCEPT ![p] = Ungivable(p)]
  /\ UNCHANGED <<file, port, bound, spoiled>>

Unlock(p) ==
  /\ portPc[p] = "unlock"
  /\ lock' = "none"
  /\ portPc' = [portPc EXCEPT ![p] = IF port[p] = 0 THEN "refused" ELSE "given"]
  /\ taken' = [taken EXCEPT ![p] = Ungivable(p)]
  /\ UNCHANGED <<file, port, bound, spoiled>>

----------------------------------------------------------------------------

(* ResetTestServerPortAllocation() from outside: open() empties the file,  *)
(* write() fills it.                                                       *)
ResetOpens ==
  /\ Resets
  /\ file' = Empty
  /\ spoiled' = TRUE
  /\ UNCHANGED <<lock, portPc, port, bound, taken>>

ResetWrites ==
  /\ file = Empty
  /\ file' = FIRST
  /\ UNCHANGED <<lock, portPc, port, bound, spoiled, taken>>

(* A server is started on the port given, and ends.                        *)
Serves(p) ==
  /\ portPc[p] = "given"
  /\ port[p] \notin bound
  /\ bound' = bound \cup {port[p]}
  /\ portPc' = [portPc EXCEPT ![p] = "serves"]
  /\ UNCHANGED <<file, lock, port, spoiled, taken>>

Ends(p) ==
  /\ portPc[p] \in {"serves", "given", "refused"}
  /\ bound' = IF portPc[p] = "serves" THEN bound \ {port[p]} ELSE bound
  /\ portPc' = [portPc EXCEPT ![p] = "idle"]
  /\ port' = [port EXCEPT ![p] = 0]
  /\ taken' = [taken EXCEPT ![p] = {}]
  /\ UNCHANGED <<file, lock, spoiled>>

(* Other programs take and leave ports, below Top.                         *)
OthersTake(n) ==
  /\ Others
  /\ n \in Ports \ (bound \cup {Top})
  /\ bound' = bound \cup {n}
  /\ UNCHANGED <<file, lock, portPc, port, spoiled, taken>>

OthersLeave(n) ==
  /\ n \in bound
  /\ \A p \in Procs : portPc[p] = "serves" => port[p] # n
  /\ bound' = bound \ {n}
  /\ UNCHANGED <<file, lock, portPc, port, spoiled, taken>>

PortNext ==
  \/ \E p \in Procs :
       \/ Lock(p) \/ Read(p) \/ Probe(p) \/ Write(p) \/ WriteFails(p)
       \/ NoneLeft(p) \/ Unlock(p) \/ Serves(p) \/ Ends(p)
  \/ ResetOpens
  \/ ResetWrites
  \/ \E n \in Ports : OthersTake(n) \/ OthersLeave(n)

PortSpec == PortInit /\ [][PortNext]_portVars

(* A process that allocates goes on; a lock that is given back again and   *)
(* again is taken by everyone who waits for it.                            *)
PortFairSpec ==
  /\ PortSpec
  /\ WF_portVars(ResetWrites)
  /\ \A p \in Procs : /\ WF_portVars(Read(p) \/ Probe(p) \/ Write(p) \/ NoneLeft(p) \/ Unlock(p))
                      /\ SF_portVars(Lock(p))

----------------------------------------------------------------------------

PortTypeOK ==
  /\ file \in {Missing, Empty} \cup FIRST..(LAST + 1)
  /\ lock \in Procs \cup {"none"}
  /\ portPc \in [Procs -> {"idle", "read", "probe", "write", "unlock", "given", "refused", "serves"}]
  /\ port \in [Procs -> {0} \cup Ports]
  /\ bound \subseteq Ports

(* "it's important to have a mechanism to allocate the port process-safe": *)
(* two processes are never given the same port, though none of them is     *)
(* bound yet, as long as the file is neither reset nor left unwritten.     *)
OwnPort ==
  ~spoiled =>
    \A p, q \in Procs :
      (p # q /\ portPc[p] \in {"unlock", "given"} /\ portPc[q] \in {"unlock", "given"})
        => port[p] # port[q] \/ port[p] = 0

(* What is given is within the limits, reset or not.                       *)
WithinLimits ==
  \A p \in Procs : portPc[p] \in {"given", "serves"} => port[p] \in FIRST..LAST

(* p allocates: it has the lock. *)
HasLock(p) == lock = p

----------------------------------------------------------------------------
(***************************************************************************)
(* py_utils.cloud_storage._FileLock(): the lock of a path is a flock on a  *)
(* file beside it, which is created to take the lock and removed to give   *)
(* it back.  A process may therefore hold a flock on a file that has no    *)
(* name any more, while another locks a new file of the same name; a       *)
(* global flock around both operations is to exclude that.  Every flock is *)
(* tried, never waited for: WaitFor() repeats the whole operation until it *)
(* succeeds or ten seconds have passed.                                    *)
(*                                                                         *)
(* A file that has been opened is an inode; its name may be gone.          *)
(***************************************************************************)

CONSTANTS
  PathProcs,
  Inodes,      \* bound: more than there are processes
  NoInode,
  NoProc,
  Dying        \* TRUE when a process may die

PseudoLockAssumption ==
  /\ NoInode \notin Inodes
  /\ NoProc \notin PathProcs
  /\ Dying \in BOOLEAN

VARIABLES
  pathPc,      \* pc[p]: where p is
  name,        \* the inode that pseudo_lock_path names, or NoInode
  fd,          \* fd[p]: the inode p has open, or NoInode
  flock,       \* flock[i]: the process that has locked inode i, or NoProc
  global       \* holder of _CLOUD_STORAGE_GLOBAL_LOCK

pathVars == <<pathPc, name, fd, flock, global>>

PathInit ==
  /\ pathPc = [p \in PathProcs |-> "idle"]
  /\ name = NoInode
  /\ fd = [p \in PathProcs |-> NoInode]
  /\ flock = [i \in Inodes |-> NoProc]
  /\ global = NoProc

Goto(p, from, to) == pathPc[p] = from /\ pathPc' = [pathPc EXCEPT ![p] = to]

Unlocked(i) == IF i = NoInode THEN flock ELSE [flock EXCEPT ![i] = NoProc]

----------------------------------------------------------------------------

Begin(p) == Goto(p, "idle", "acquire") /\ UNCHANGED <<name, fd, flock, global>>

(* The global flock of _AttemptPseudoLockAcquisition(), if it is free; if  *)
(* it is not, WaitFor() tries again.                                       *)
AcquireGlobal(p) ==
  /\ Goto(p, "acquire", "open")
  /\ global = NoProc
  /\ global' = p
  /\ UNCHANGED <<name, fd, flock>>

(* open(pseudo_lock_path, 'w'): the file of that name, or a new one.       *)
OpenPseudo(p) ==
  /\ Goto(p, "open", "lock")
  /\ \E i \in Inodes :
       /\ IF name # NoInode THEN i = name
          ELSE i \notin {fd[q] : q \in PathProcs}
       /\ name' = i
       /\ fd' = [fd EXCEPT ![p] = i]
  /\ UNCHANGED <<flock, global>>

(* The flock on it is taken, and the global one given back.                *)
LockPseudo(p) ==
  /\ Goto(p, "lock", "held")
  /\ flock[fd[p]] = NoProc
  /\ flock' = [flock EXCEPT ![fd[p]] = p]
  /\ global' = NoProc
  /\ UNCHANGED <<name, fd>>

(* It is another's: LockException; the file is closed.                     *)
LockPseudoFails(p) ==
  /\ Goto(p, "lock", "acquire")
  /\ flock[fd[p]] # NoProc
  /\ fd' = [fd EXCEPT ![p] = NoInode]
  /\ global' = NoProc
  /\ UNCHANGED <<name, flock>>

(* Ten seconds have passed: TimeoutException, and no lock.                 *)
AcquireTimesOut(p) == Goto(p, "acquire", "idle") /\ UNCHANGED <<name, fd, flock, global>>

----------------------------------------------------------------------------

(* The work under the lock is done.                                        *)
PathLeave(p) == Goto(p, "held", "release") /\ UNCHANGED <<name, fd, flock, global>>

(* Mutant: the release goes without the global flock.                      *)
ReleaseGlobalNot(p) ==
  /\ Goto(p, "release", "unlock")
  /\ UNCHANGED <<name, fd, flock, global>>

(* The global flock of _AttemptPseudoLockRelease().                        *)
ReleaseGlobal(p) ==
  /\ Goto(p, "release", "unlock")
  /\ global = NoProc
  /\ global' = p
  /\ UNCHANGED <<name, fd, flock>>

(* ReleaseFileLock() and close().                                          *)
UnlockPseudo(p) ==
  /\ Goto(p, "unlock", "remove")
  /\ flock' = Unlocked(fd[p])
  /\ fd' = [fd EXCEPT ![p] = NoInode]
  /\ UNCHANGED <<name, global>>

(* os.remove(), of whatever has the name by now, and the global flock is   *)
(* given back.                                                             *)
RemovePseudo(p) ==
  /\ Goto(p, "remove", "idle")
  /\ name' = NoInode
  /\ global' = IF global = p THEN NoProc ELSE global
  /\ UNCHANGED <<fd, flock>>

(* Ten seconds have passed: TimeoutException; the descriptor goes with the *)
(* frame that held it, and its flock with it, unguarded; the file stays.   *)
ReleaseTimesOut(p) ==
  /\ Goto(p, "release", "idle")
  /\ flock' = Unlocked(fd[p])
  /\ fd' = [fd EXCEPT ![p] = NoInode]
  /\ UNCHANGED <<name, global>>

(* The process dies: its descriptors are closed.                           *)
Dies(p) ==
  /\ Dying
  /\ pathPc[p] # "idle"
  /\ pathPc' = [pathPc EXCEPT ![p] = "idle"]
  /\ flock' = [i \in Inodes |-> IF flock[i] = p THEN NoProc ELSE flock[i]]
  /\ fd' = [fd EXCEPT ![p] = NoInode]
  /\ global' = IF global = p THEN NoProc ELSE global
  /\ UNCHANGED name

PathNext ==
  \E p \in PathProcs :
    \/ Begin(p)
    \/ AcquireGlobal(p)
    \/ OpenPseudo(p)
    \/ LockPseudo(p)
    \/ LockPseudoFails(p)
    \/ AcquireTimesOut(p)
    \/ PathLeave(p)
    \/ ReleaseGlobal(p)
    \/ UnlockPseudo(p)
    \/ RemovePseudo(p)
    \/ ReleaseTimesOut(p)
    \/ Dies(p)

PathSpec == PathInit /\ [][PathNext]_pathVars

(* Ten seconds pass, whatever the tries in between: strong fairness.       *)
(* Whoever is not waiting goes on.  No death is relied upon.               *)
PathFairSpec ==
  PathSpec /\ \A p \in PathProcs :
                /\ SF_pathVars(AcquireTimesOut(p)) /\ SF_pathVars(ReleaseTimesOut(p))
                /\ WF_pathVars(OpenPseudo(p) \/ LockPseudo(p) \/ LockPseudoFails(p)
                           \/ PathLeave(p) \/ UnlockPseudo(p) \/ RemovePseudo(p))

----------------------------------------------------------------------------

PathTypeOK ==
  /\ pathPc \in [PathProcs -> {"idle", "acquire", "open", "lock", "held", "release", "unlock", "remove"}]
  /\ name \in Inodes \cup {NoInode}
  /\ fd \in [PathProcs -> Inodes \cup {NoInode}]
  /\ flock \in [Inodes -> PathProcs \cup {NoProc}]
  /\ global \in PathProcs \cup {NoProc}

Holds(p) == pathPc[p] \in {"held", "release", "unlock"}

(* "Using the same guard for creation and removal of the pseudo lock       *)
(* guarantees that all processes are referring to the same lock": the file *)
(* a holder has locked is the one that has the name, and nobody else holds *)
(* the lock.                                                               *)
SameLock ==
  \A p \in PathProcs : Holds(p) =>
    /\ fd[p] = name
    /\ flock[name] = p
    /\ \A q \in PathProcs \ {p} : ~Holds(q)

(* p asks for the lock or gives it back, or has the global flock; nothing  *)
(* here ever waits for a flock.                                            *)
Busy(p) == pathPc[p] \notin {"idle", "held"} \/ global = p

----------------------------------------------------------------------------
(***************************************************************************)
(* trace_time.Now() where the system counts milliseconds in a word that    *)
(* wraps around: each sample is compared with the last one, under a lock,  *)
(* and a sample that is less counts one more wraparound.                   *)
(***************************************************************************)

CONSTANTS Modulus,                     \* 2^32
          TickThreads, MaxTime,
          MaxGap                       \* of time between two samples

ModulusAssumption == Modulus \in Nat \ {0}

MaxTimeAssumption == MaxTime \in Nat

VARIABLES time,                        \* the milliseconds since the start
          LAST_NOW, WRAPAROUNDS,       \* GET_TICK_COUNT_...
          sampled,                     \* when the last sample was taken
          tickLock, tickPc, current_sample,  \* of each thread
          now                          \* what each thread was told last

tickVars == <<time, LAST_NOW, WRAPAROUNDS, sampled, tickLock, tickPc, current_sample, now>>

TickInit ==
  /\ time = 0 /\ LAST_NOW = 0 /\ WRAPAROUNDS = 0 /\ sampled = 0
  /\ tickLock = FALSE
  /\ tickPc = [t \in TickThreads |-> "idle"]
  /\ current_sample = [t \in TickThreads |-> 0] /\ now = [t \in TickThreads |-> 0]

GetTickCount == time % Modulus

Passes ==
  /\ time < MaxTime /\ time - sampled < MaxGap
  /\ time' = time + 1
  /\ UNCHANGED <<LAST_NOW, WRAPAROUNDS, sampled, tickLock, tickPc, current_sample, now>>

Sample(t) ==
  /\ tickPc[t] = "idle" /\ ~tickLock
  /\ tickLock' = TRUE /\ tickPc' = [tickPc EXCEPT ![t] = "sampled"]
  /\ current_sample' = [current_sample EXCEPT ![t] = GetTickCount] /\ sampled' = time
  /\ UNCHANGED <<time, LAST_NOW, WRAPAROUNDS, now>>

Tell(t) ==
  /\ tickPc[t] = "sampled"
  /\ WRAPAROUNDS' = IF current_sample[t] < LAST_NOW THEN WRAPAROUNDS + 1 ELSE WRAPAROUNDS
  /\ LAST_NOW' = current_sample[t]
  /\ now' = [now EXCEPT ![t] = WRAPAROUNDS' * Modulus + LAST_NOW']
  /\ tickLock' = FALSE /\ tickPc' = [tickPc EXCEPT ![t] = "idle"]
  /\ UNCHANGED <<time, sampled, current_sample>>

(* Now(): a thread samples the count, and is told the time. *)
Now(t) == Sample(t) \/ Tell(t)

TickNext == Passes \/ \E t \in TickThreads : Now(t)

TickSpec == TickInit /\ [][TickNext]_tickVars

----------------------------------------------------------------------------

TickTypeOK ==
  /\ time \in Nat /\ sampled \in Nat /\ WRAPAROUNDS \in Nat
  /\ LAST_NOW \in 0..(Modulus - 1) /\ tickLock \in BOOLEAN
  /\ tickPc \in [TickThreads -> {"idle", "sampled"}]
  /\ current_sample \in [TickThreads -> 0..(Modulus - 1)]
  /\ now \in [TickThreads -> Nat]

(* The clock that the samples make. *)
Clock == WRAPAROUNDS * Modulus + LAST_NOW

(* One thread holds the lock from its sample to its answer. *)
OneSamples ==
  \A t, u \in TickThreads : tickPc[t] = "sampled" => tickLock /\ (tickPc[u] = "sampled" => t = u)

(* No answer is greater than one that comes later, whichever threads get   *)
(* them, and however rarely the clock is asked.                            *)
NeverBack == \A t \in TickThreads : now'[t] >= now[t] /\ Clock' >= Clock

(* The answer is the time, as long as the word does not wrap around twice  *)
(* between two samples.                                                    *)
TellsTime == ~tickLock => Clock = sampled
==============================================================================
