----------------------------- MODULE DeviceFleet -----------------------------
(***************************************************************************)
(* Several processes and threads of the host at work on several devices:   *)
(* the forwarding of their ports, their blacklist with the status and the  *)
(* recovery, and the monitor that shows them. Each has variables, Init and *)
(* Next of its own.                                                        *)
(***************************************************************************)
EXTENDS Naturals, Sequences, FiniteSets, SequencesExt

----------------------------------------------------------------------------
(***************************************************************************)
(* devil.android.forwarder: the ports of devices are forwarded to ports of *)
(* the host by one host daemon, which processes share, and one daemon per  *)
(* device.  Each process keeps a singleton with the two tables of what it  *)
(* has mapped; a file, locked for the length of every operation, keeps the *)
(* processes apart and names the process group that has started the host   *)
(* daemon, so that its members do not start it again.                      *)
(*                                                                         *)
(* An operation is a few steps under the lock.  A command may succeed,     *)
(* exit with an error or run into its timeout, and a process may die       *)
(* between steps, which gives the lock back.                               *)
(***************************************************************************)

CONSTANTS
  Procs,       \* processes that use the forwarder
  Group,       \* Group[p]: the process group of p
  Devices,
  DevicePorts, \* the ports a device can give
  HostPorts,
  Requests,    \* the lists of <<device port, host port>> given to Map()
  Shared,      \* TRUE when two mappings may share a host port
  NoPort       \* value for the absence of an entry

DYNAMIC_DEVICE_PORT == 0

ForwarderAssumption ==
  /\ DYNAMIC_DEVICE_PORT \notin DevicePorts
  /\ \A r \in Requests : r \in Seq((DevicePorts \cup {DYNAMIC_DEVICE_PORT}) \X HostPorts)
  /\ NoPort \notin HostPorts /\ "none" \notin Procs
  /\ Shared \in BOOLEAN

VARIABLES
  lock,        \* holder of the file lock, or "none"
  pc,          \* pc[p]: the step of the operation p is in
  job,         \* job[p]: that operation: kind, device, device port, pairs left
  raised,      \* raised[p]: the exception that ended p's last operation
  instance,    \* instance[p]: Forwarder._instance exists in p
  initialized, \* initialized[p]: _initialized_devices
  toHost,      \* toHost[p]: _device_to_host_port_map
  toDevice,    \* toDevice[p]: _host_to_device_port_map
  pidFile,     \* group named in the lock file, or "none"
  forwards,    \* what the daemons forward: <<device, device port, host port>>
  faulty       \* history: a command has failed or a process has died

vars == <<lock, pc, job, raised, instance, initialized, toHost, toDevice,
          pidFile, forwards, faulty>>
tables == <<toHost, toDevice>>
singleton == <<instance, initialized, toHost, toDevice>>

Keys == Devices \X DevicePorts
NoTable == [k \in Keys |-> NoPort]
NoInverse == [h \in HostPorts |-> NoPort]
Idle == [kind |-> "none", device |-> NoPort, port |-> NoPort, pairs |-> <<>>]

Jobs ==
  [kind : {"map"}, device : Devices, port : {NoPort}, pairs : Requests]
    \cup [kind : {"unmap"}, device : Devices, port : DevicePorts, pairs : {<<>>}]
    \cup [kind : {"unmapAll", "killDevice"}, device : Devices, port : {NoPort}, pairs : {<<>>}]
    \cup [kind : {"killHost", "lookup"}, device : {NoPort}, port : {NoPort}, pairs : {<<>>}]

OfDevice(d) == {f \in forwards : f[1] = d}

Init ==
  /\ lock = "none"
  /\ pc = [p \in Procs |-> "idle"]
  /\ job = [p \in Procs |-> Idle]
  /\ raised = [p \in Procs |-> "none"]
  /\ instance = [p \in Procs |-> FALSE]
  /\ initialized = [p \in Procs |-> {}]
  /\ toHost = [p \in Procs |-> NoTable]
  /\ toDevice = [p \in Procs |-> NoInverse]
  /\ pidFile = "none"
  /\ forwards = {}
  /\ faulty = FALSE

----------------------------------------------------------------------------

(* _FileLock.__enter__() and __exit__().                                   *)
Acquire(p, j) ==
  /\ lock = "none"
  /\ lock' = p
  /\ pc' = [pc EXCEPT ![p] = "instance"]
  /\ job' = [job EXCEPT ![p] = j]
  /\ raised' = [raised EXCEPT ![p] = "none"]
  /\ UNCHANGED <<singleton, pidFile, forwards, faulty>>

Release(p) ==
  /\ lock' = "none"
  /\ pc' = [pc EXCEPT ![p] = "idle"]
  /\ job' = [job EXCEPT ![p] = Idle]

Raise(p, exception) ==
  /\ Release(p)
  /\ raised' = [raised EXCEPT ![p] = exception]
  /\ faulty' = TRUE

Goto(p, step) ==
  /\ pc' = [pc EXCEPT ![p] = step]
  /\ UNCHANGED <<lock, job, raised, faulty>>

Return(p) == Release(p) /\ UNCHANGED <<raised, faulty>>

(* The step with which an operation goes on once it has the instance.      *)
First(j) == CASE j.kind = "map" -> "device"
              [] j.kind = "lookup" -> "done"
              [] OTHER -> j.kind

(* _GetInstanceLocked(): the instance there is, or a new one, with empty   *)
(* tables, whose _InitHostLocked() leaves the host daemon alone when the   *)
(* file names this process group, and kills it otherwise.                  *)
HasInstance(p) ==
  /\ pc[p] = "instance"
  /\ instance[p]
  /\ Goto(p, First(job[p]))
  /\ UNCHANGED <<singleton, pidFile, forwards>>

NewInstance(p) ==
  /\ pc[p] = "instance"
  /\ ~instance[p]
  /\ instance' = [instance EXCEPT ![p] = TRUE]
  /\ initialized' = [initialized EXCEPT ![p] = {}]
  /\ toHost' = [toHost EXCEPT ![p] = NoTable]
  /\ toDevice' = [toDevice EXCEPT ![p] = NoInverse]

JoinHost(p) ==
  /\ NewInstance(p)
  /\ pidFile = Group[p]
  /\ Goto(p, First(job[p]))
  /\ UNCHANGED <<pidFile, forwards>>

(* Mutant: the file is not looked at.                                      *)
StartHostAgain(p) ==
  /\ NewInstance(p)
  /\ forwards' = {}
  /\ pidFile' = Group[p]
  /\ Goto(p, First(job[p]))

StartHost(p) ==
  /\ NewInstance(p)
  /\ pidFile # Group[p]
  /\ forwards' = {}
  /\ pidFile' = Group[p]
  /\ Goto(p, First(job[p]))

(* _KillHostLocked() fails: no instance, no new name in the file.          *)
StartHostFails(p) ==
  /\ pc[p] = "instance"
  /\ ~instance[p]
  /\ pidFile # Group[p]
  /\ Raise(p, "HostForwarderError")
  /\ UNCHANGED <<singleton, pidFile, forwards>>

----------------------------------------------------------------------------

(* _InitDeviceLocked() of Map().                                           *)
DeviceReady(p) ==
  /\ pc[p] = "device"
  /\ job[p].device \in initialized[p]
  /\ Goto(p, "mapping")
  /\ UNCHANGED <<singleton, pidFile, forwards>>

(* The daemon on the device is killed, or the device rebooted because it   *)
(* cannot be, and a new one is started.                                    *)
InitDevice(p) ==
  /\ pc[p] = "device"
  /\ job[p].device \notin initialized[p]
  /\ initialized' = [initialized EXCEPT ![p] = @ \cup {job[p].device}]
  /\ forwards' = forwards \ OfDevice(job[p].device)
  /\ Goto(p, "mapping")
  /\ UNCHANGED <<instance, tables, pidFile>>

(* The device does not answer, before or after its daemon was killed.      *)
InitDeviceFails(p) ==
  /\ pc[p] = "device"
  /\ job[p].device \notin initialized[p]
  /\ \/ UNCHANGED forwards
     \/ forwards' = forwards \ OfDevice(job[p].device)
  /\ Raise(p, "DeviceError")
  /\ UNCHANGED <<singleton, pidFile>>

----------------------------------------------------------------------------

(* The loop of Map() over the pairs.                                       *)
Free(d, k) == ~ \E h \in HostPorts : <<d, k, h>> \in forwards
HostFree(h) == Shared \/ ~ \E k \in Keys : \E p \in Procs : toHost[p][k] = h

(* The ports the daemon may map the pair to: the port asked for unless it  *)
(* is taken, any free one for DYNAMIC_DEVICE_PORT.                         *)
PortsFor(d, pair) ==
  {k \in DevicePorts : Free(d, k) /\ pair[1] \in {k, DYNAMIC_DEVICE_PORT}}

NextPair(p) == [job EXCEPT ![p].pairs = Tail(@)]

(* What Map() records of the ports the daemon has printed.                 *)
MapRecorded(p, k, h) ==
  /\ toHost' = [toHost EXCEPT ![p][k] = h]
  /\ toDevice' = [toDevice EXCEPT ![p][h] = k]

MapPair(p) ==
  /\ pc[p] = "mapping"
  /\ job[p].pairs # <<>>
  /\ LET d == job[p].device
         pair == Head(job[p].pairs)
     IN  /\ HostFree(pair[2])
         /\ \E k \in PortsFor(d, pair) :
              /\ forwards' = forwards \cup {<<d, k, pair[2]>>}
              /\ MapRecorded(p, <<d, k>>, pair[2])
  /\ job' = NextPair(p)
  /\ UNCHANGED <<lock, pc, raised, instance, initialized, pidFile, faulty>>

(* The command times out or prints what is not understood: it may have     *)
(* done its work all the same, and the tables do not know.                 *)
MapUnclear(p) ==
  /\ pc[p] = "mapping"
  /\ job[p].pairs # <<>>
  /\ LET d == job[p].device
         pair == Head(job[p].pairs)
     IN  \/ UNCHANGED forwards
         \/ \E k \in PortsFor(d, pair) : forwards' = forwards \cup {<<d, k, pair[2]>>}
  /\ Raise(p, "HostForwarderError")
  /\ UNCHANGED <<singleton, pidFile>>

(* The command exits with an error: the device daemon is killed and the    *)
(* error raised.                                                           *)
MapRefused(p) ==
  /\ pc[p] = "mapping"
  /\ job[p].pairs # <<>>
  /\ initialized' = [initialized EXCEPT ![p] = @ \ {job[p].device}]
  /\ forwards' = forwards \ OfDevice(job[p].device)
  /\ Raise(p, "HostForwarderError")
  /\ UNCHANGED <<instance, tables, pidFile>>

(* The same, and the device daemon cannot be killed: the handler logs      *)
(* str(e), where no exception is bound to e.                               *)
MapRefusedKillFails(p) ==
  /\ pc[p] = "mapping"
  /\ job[p].pairs # <<>>
  /\ initialized' = [initialized EXCEPT ![p] = @ \ {job[p].device}]
  /\ Raise(p, "UnboundLocalError")
  /\ UNCHANGED <<instance, tables, pidFile, forwards>>

(* Map() and DevicePortForHostPort() have nothing left to do.              *)
Done(p) ==
  /\ pc[p] = "done" \/ (pc[p] = "mapping" /\ job[p].pairs = <<>>)
  /\ Return(p)
  /\ UNCHANGED <<singleton, pidFile, forwards>>

----------------------------------------------------------------------------

(* _UnmapDevicePortLocked(): a port that is not in the table is left; else *)
(* both entries go first, and then the daemon is told, which may fail.     *)
UnmapUnknown(p) ==
  /\ pc[p] = "unmap"
  /\ toHost[p][<<job[p].device, job[p].port>>] = NoPort
  /\ Return(p)
  /\ UNCHANGED <<singleton, pidFile, forwards>>

(* del of the two entries of key k; the second may not be there.           *)
Forget(p, k) ==
  /\ toHost' = [toHost EXCEPT ![p][k] = NoPort]
  /\ toDevice' = [toDevice EXCEPT ![p][toHost[p][k]] = NoPort]
HasInverse(p, k) == toDevice[p][toHost[p][k]] # NoPort

UnmapPort(p) ==
  LET k == <<job[p].device, job[p].port>>
  IN  /\ pc[p] = "unmap"
      /\ toHost[p][k] # NoPort
      /\ HasInverse(p, k)
      /\ Forget(p, k)
      /\ \/ Return(p) /\ forwards' = forwards \ {<<k[1], k[2], toHost[p][k]>>}
         \/ Return(p) /\ <<k[1], k[2], toHost[p][k]>> \notin forwards /\ UNCHANGED forwards
         \/ Raise(p, "HostForwarderError") /\ UNCHANGED forwards
      /\ UNCHANGED <<instance, initialized, pidFile>>

UnmapKeyError(p) ==
  LET k == <<job[p].device, job[p].port>>
  IN  /\ pc[p] = "unmap"
      /\ toHost[p][k] # NoPort
      /\ ~HasInverse(p, k)
      /\ Forget(p, k)
      /\ Raise(p, "KeyError")
      /\ UNCHANGED <<instance, initialized, pidFile, forwards>>

(* UnmapAllDevicePorts(): the daemon first, then the entries one by one,   *)
(* then the daemon of the device.                                          *)
UnmapAll(p) ==
  /\ pc[p] = "unmapAll"
  /\ \/ forwards' = forwards \ OfDevice(job[p].device) /\ Goto(p, "cleaning")
     \/ Raise(p, "HostForwarderError") /\ UNCHANGED forwards
  /\ UNCHANGED <<singleton, pidFile>>

Entries(p) == {k \in Keys : k[1] = job[p].device /\ toHost[p][k] # NoPort}

CleanEntry(p) ==
  /\ pc[p] = "cleaning"
  /\ \E k \in Entries(p) :
       /\ Forget(p, k)
       /\ IF HasInverse(p, k)
          THEN UNCHANGED <<lock, pc, job, raised, faulty>>
          ELSE Raise(p, "KeyError")
  /\ UNCHANGED <<instance, initialized, pidFile, forwards>>

Cleaned(p) ==
  /\ pc[p] = "cleaning"
  /\ Entries(p) = {}
  /\ Goto(p, "killDevice")
  /\ UNCHANGED <<singleton, pidFile, forwards>>

(* _KillDeviceLocked(): the device is no longer initialized; the tables    *)
(* keep what the daemon forwarded.                                         *)
KillDevice(p) ==
  /\ pc[p] = "killDevice"
  /\ initialized' = [initialized EXCEPT ![p] = @ \ {job[p].device}]
  /\ \/ Return(p) /\ forwards' = forwards \ OfDevice(job[p].device)
     \/ Raise(p, "DeviceError") /\ UNCHANGED forwards
  /\ UNCHANGED <<instance, tables, pidFile>>

(* KillHost(): --kill-server or pkill -9.                                  *)
KillHost(p) ==
  /\ pc[p] = "killHost"
  /\ \/ Return(p) /\ forwards' = {}
     \/ Raise(p, "HostForwarderError") /\ UNCHANGED forwards
  /\ UNCHANGED <<singleton, pidFile>>

(* The process ends, in an operation or between two.                       *)
Dies(p) ==
  /\ instance[p] \/ lock = p
  /\ instance' = [instance EXCEPT ![p] = FALSE]
  /\ initialized' = [initialized EXCEPT ![p] = {}]
  /\ toHost' = [toHost EXCEPT ![p] = NoTable]
  /\ toDevice' = [toDevice EXCEPT ![p] = NoInverse]
  /\ lock' = IF lock = p THEN "none" ELSE lock
  /\ pc' = [pc EXCEPT ![p] = "idle"]
  /\ job' = [job EXCEPT ![p] = Idle]
  /\ faulty' = TRUE
  /\ UNCHANGED <<raised, pidFile, forwards>>

Step(p) ==
  \/ HasInstance(p) \/ JoinHost(p) \/ StartHost(p) \/ StartHostFails(p)
  \/ DeviceReady(p) \/ InitDevice(p) \/ InitDeviceFails(p)
  \/ MapPair(p) \/ MapUnclear(p) \/ MapRefused(p) \/ MapRefusedKillFails(p)
  \/ UnmapUnknown(p) \/ UnmapPort(p) \/ UnmapKeyError(p)
  \/ UnmapAll(p) \/ CleanEntry(p) \/ Cleaned(p)
  \/ KillDevice(p) \/ KillHost(p) \/ Done(p)

Next ==
  \E p \in Procs : \/ \E j \in Jobs : Acquire(p, j)
                   \/ Step(p)
                   \/ Dies(p)

Spec == Init /\ [][Next]_vars

----------------------------------------------------------------------------

TypeOK ==
  /\ lock \in Procs \cup {"none"}
  /\ pc \in [Procs -> {"idle", "instance", "device", "mapping", "unmap", "unmapAll",
                       "cleaning", "killDevice", "killHost", "done"}]
  /\ \A p \in Procs : pc[p] # "idle" => lock = p
  /\ raised \in [Procs -> {"none", "HostForwarderError", "DeviceError", "KeyError",
                           "UnboundLocalError"}]
  /\ instance \in [Procs -> BOOLEAN]
  /\ initialized \in [Procs -> SUBSET Devices]
  /\ toHost \in [Procs -> [Keys -> HostPorts \cup {NoPort}]]
  /\ toDevice \in [Procs -> [HostPorts -> Keys \cup {NoPort}]]
  /\ pidFile \in {"none"} \cup {Group[p] : p \in Procs}
  /\ forwards \subseteq Devices \X DevicePorts \X HostPorts
  /\ faulty \in BOOLEAN

(* What can be unmapped can be unmapped without an exception: every entry  *)
(* of _device_to_host_port_map has its entry in the other table, through   *)
(* every operation, failure and kill, when no host port serves two         *)
(* mappings.                                                               *)
TablesCover ==
  \A p \in Procs : \A k \in Keys :
    toHost[p][k] # NoPort => toDevice[p][toHost[p][k]] = k

(* While no command has failed and no process has died, what the daemons   *)
(* forward is in the table of a process, which can take it back: nothing   *)
(* is forwarded that nobody knows of.                                      *)
NothingLeaks ==
  ~faulty => \A f \in forwards : \E p \in Procs : toHost[p][<<f[1], f[2]>>] = f[3]

(* A process that starts leaves the forwards of the others of its group    *)
(* alone ("already initialized by a concurrent process", _InitHostLocked())*)
(* as long as no other group comes between.                                *)
SiblingsSpared ==
  \A p, q \in Procs :
       (/\ pc[p] = "instance" /\ pc'[p] \notin {"instance", "idle"}
        /\ instance[q]
        /\ \A r \in Procs : Group[r] = Group[p])
         => forwards' = forwards

(* A host daemon is never used that another group has started: the first   *)
(* thing a process maps is on a daemon of its own group.                   *)
OwnHost ==
  \A p \in Procs : (instance'[p] /\ ~instance[p]) => pidFile' = Group[p]

----------------------------------------------------------------------------
(***************************************************************************)
(* RecoverDevices() and DeviceStatus() of the devil tools, over the file   *)
(* of device_blacklist: a thread for every device asks how it is; then the *)
(* blacklist is erased, adb and the USB ports are reset, and a thread for  *)
(* every device reboots what should be.  The file is read and written in   *)
(* steps, under a lock of the process that another process does not have.  *)
(***************************************************************************)

CONSTANTS PoolDevices, Main, Alien, None,
          WithBlacklist, UsbReset,
          AlienRuns         \* another process extends the same file

DevicePoolAssumption ==
  /\ Main \notin PoolDevices /\ Alien \notin PoolDevices /\ Main # Alien
  /\ None \notin PoolDevices \cup {Main, Alien}
  /\ {WithBlacklist, UsbReset, AlienRuns} \subseteq BOOLEAN

VARIABLES health,           \* ok; low on battery; hung until a reboot; bad
          adb, usb,         \* what adb and lsusb say of it
          file,             \* of the blacklist
          poolLock,         \* of the two processes' Blacklist
          ext,              \* what each thread does with the file
          phase, poolPc,    \* of the main thread and of the devices' threads
          status,           \* the devices that the status found blacklisted
          restart, resets,  \* should_restart_usb and _adb; ports still to reset
          added             \* extended since the last Reset()

blacklist == <<file, poolLock, ext>>
poolVars == <<health, adb, usb, blacklist, phase, poolPc, status, restart, resets, added>>

Threads == PoolDevices \cup {Main, Alien}
Process(t) == IF t = Alien THEN "other" ELSE "own"
NoFile == [is |-> "absent", set |-> {}]
Whole(s) == [is |-> "whole", set |-> s]
PoolIdle == [at |-> "no", add |-> None, copy |-> {}]

PoolInit ==
  /\ health \in [PoolDevices -> {"ok", "low", "hung", "bad"}]
  /\ adb \in [PoolDevices -> {"device", "offline", "unauthorized"}] /\ usb \in [PoolDevices -> BOOLEAN]
  /\ \A d \in PoolDevices : adb[d] # "offline" => usb[d]
  /\ file \in {NoFile, Whole(PoolDevices)}
  /\ poolLock = [p \in {"own", "other"} |-> None] /\ ext = [t \in Threads |-> PoolIdle]
  /\ phase = "status" /\ poolPc = [d \in PoolDevices |-> "ask"]
  /\ status = {} /\ restart = [usb |-> {}, adb |-> {}] /\ resets = {} /\ added = {}

----------------------------------------------------------------------------

(* Blacklist.  Read() removes a file that it cannot parse.                 *)
Read == IF file.is = "whole" THEN file.set ELSE {}
AfterRead == IF file.is = "torn" THEN NoFile ELSE file
PoolFree(t) == ext[t].at = "no"
Extend(t, d) ==
  IF WithBlacklist THEN ext' = [ext EXCEPT ![t] = [at |-> "lock", add |-> d, copy |-> {}]]
  ELSE UNCHANGED ext

(* Mutant: the file is read before the lock is taken. *)
ExtendReadsEarly(t) ==
  /\ ext[t].at = "lock"
  /\ ext' = [ext EXCEPT ![t].at = "open", ![t].copy = Read \cup {ext[t].add}]
  /\ file' = AfterRead
  /\ UNCHANGED <<health, adb, usb, poolLock, phase, poolPc, status, restart, resets, added>>

ExtendReads(t) ==
  /\ ext[t].at = "lock" /\ poolLock[Process(t)] = None
  /\ poolLock' = [poolLock EXCEPT ![Process(t)] = t]
  /\ ext' = [ext EXCEPT ![t].at = "open", ![t].copy = Read \cup {ext[t].add}]
  /\ file' = AfterRead
  /\ UNCHANGED <<health, adb, usb, phase, poolPc, status, restart, resets, added>>

ExtendOpens(t) ==
  /\ ext[t].at = "open"
  /\ file' = [is |-> "torn", set |-> {}] /\ ext' = [ext EXCEPT ![t].at = "dump"]
  /\ UNCHANGED <<health, adb, usb, poolLock, phase, poolPc, status, restart, resets, added>>

ExtendDumps(t) ==
  /\ ext[t].at = "dump"
  /\ file' = Whole(ext[t].copy) /\ ext' = [ext EXCEPT ![t] = PoolIdle]
  /\ poolLock' = [poolLock EXCEPT ![Process(t)] = None]
  /\ added' = added \cup {ext[t].add}
  /\ UNCHANGED <<health, adb, usb, phase, poolPc, status, restart, resets>>

AlienExtends ==
  /\ AlienRuns /\ PoolFree(Alien) /\ Alien \notin added
  /\ ext' = [ext EXCEPT ![Alien] = [at |-> "lock", add |-> Alien, copy |-> {}]]
  /\ UNCHANGED <<health, adb, usb, file, poolLock, phase, poolPc, status, restart, resets, added>>

CanRead == poolLock["own"] = None
IsBlacklisted(d) == WithBlacklist /\ d \in Read

----------------------------------------------------------------------------

(* _BatteryStatus(): a battery that is critically low blacklists. *)
BatteryStatus(d) == IF health[d] = "low" THEN "low" ELSE "ok"

(* DeviceStatus(): blacklisting_device_status() of each.                   *)
Ask(d) ==
  /\ phase = "status" /\ poolPc[d] = "ask" /\ CanRead
  /\ file' = (IF WithBlacklist THEN AfterRead ELSE file)
  /\ CASE IsBlacklisted(d) -> UNCHANGED ext
       [] /\ ~IsBlacklisted(d) /\ adb[d] = "device"
          /\ health[d] \notin {"hung", "bad"} /\ BatteryStatus(d) = "ok" -> UNCHANGED ext
       [] OTHER -> Extend(d, d)
  /\ poolPc' = [poolPc EXCEPT ![d] = "asked"]
  /\ UNCHANGED <<health, adb, usb, poolLock, phase, status, restart, resets, added>>

Asked(d) ==
  /\ phase = "status" /\ poolPc[d] = "asked" /\ PoolFree(d) /\ CanRead
  /\ status' = IF IsBlacklisted(d) THEN status \cup {d} ELSE status
  /\ file' = (IF WithBlacklist THEN AfterRead ELSE file)
  /\ poolPc' = [poolPc EXCEPT ![d] = "done"]
  /\ UNCHANGED <<health, adb, usb, poolLock, ext, phase, restart, resets, added>>

----------------------------------------------------------------------------

(* RecoverDevices(). *)
GetAndroidDevices == {d \in PoolDevices : usb[d]}      \* of lsusb

Reset ==
  /\ phase = "status" /\ \A d \in PoolDevices : poolPc[d] = "done"
  /\ LET forUsb == {d \in PoolDevices : d \notin GetAndroidDevices \/ adb[d] = "offline"} IN
     /\ restart' = [usb |-> forUsb, adb |-> forUsb \cup {d \in PoolDevices : adb[d] = "unauthorized"}]
     /\ resets' = forUsb
  /\ file' = (IF WithBlacklist THEN NoFile ELSE file)
  /\ added' = {}
  /\ phase' = "adb"
  /\ UNCHANGED <<health, adb, usb, poolLock, ext, poolPc, status>>

KillAllAdb ==
  /\ phase = "adb"
  /\ phase' = "usb"
  /\ \/ restart.adb = {} /\ UNCHANGED adb
     \/ restart.adb # {} /\ \E back \in SUBSET restart.adb :
          adb' = [d \in PoolDevices |-> IF d \in back THEN "device" ELSE adb[d]]
  /\ UNCHANGED <<health, usb, blacklist, poolPc, status, restart, resets, added>>

ResetUsb(d) ==
  /\ phase = "usb" /\ PoolFree(Main) /\ d \in resets
  /\ resets' = resets \ {d}
  /\ \/ UNCHANGED ext
     \/ UsbReset /\ Extend(Main, d)
  /\ UNCHANGED <<health, adb, usb, file, poolLock, phase, poolPc, status, restart, added>>

StartRecovery ==
  /\ phase = "usb" /\ resets = {} /\ PoolFree(Main)
  /\ phase' = "recover" /\ poolPc' = [d \in PoolDevices |-> "see"]
  /\ UNCHANGED <<health, adb, usb, blacklist, status, restart, resets, added>>

ShouldReboot(d) == d \in restart.adb \cup status

(* RecoverDevice(): one that is blacklisted again is left alone.           *)
See(d) ==
  /\ phase = "recover" /\ poolPc[d] = "see" /\ CanRead
  /\ file' = (IF WithBlacklist THEN AfterRead ELSE file)
  /\ poolPc' = [poolPc EXCEPT ![d] = IF IsBlacklisted(d) \/ ~ShouldReboot(d) THEN "end" ELSE "reboot"]
  /\ UNCHANGED <<health, adb, usb, poolLock, ext, phase, status, restart, resets, added>>

(* Normally, or else through sysrq; either may fail, and what fails may    *)
(* have rebooted the device.                                               *)
Reboot(d) ==
  /\ phase = "recover" /\ poolPc[d] = "reboot"
  /\ \/ \E h \in {"ok", "bad"} : health' = [health EXCEPT ![d] = IF @ = "bad" THEN "bad" ELSE h]
     \/ UNCHANGED health
  /\ \/ UNCHANGED ext
     \/ Extend(d, d)
  /\ poolPc' = [poolPc EXCEPT ![d] = "wait"]
  /\ UNCHANGED <<adb, usb, file, poolLock, phase, status, restart, resets, added>>

WaitUntilFullyBooted(d) ==
  /\ phase = "recover" /\ poolPc[d] = "wait" /\ PoolFree(d)
  /\ IF health[d] \in {"ok", "low"} THEN UNCHANGED ext ELSE Extend(d, d)
  /\ poolPc' = [poolPc EXCEPT ![d] = "end"]
  /\ UNCHANGED <<health, adb, usb, file, poolLock, phase, status, restart, resets, added>>

Ends ==
  /\ phase = "recover" /\ \A d \in PoolDevices : poolPc[d] = "end" /\ PoolFree(d)
  /\ phase' = "done"
  /\ UNCHANGED <<health, adb, usb, blacklist, poolPc, status, restart, resets, added>>

OfFile(t) == ExtendReads(t) \/ ExtendOpens(t) \/ ExtendDumps(t)
PoolOfDevice(d) == Ask(d) \/ Asked(d) \/ See(d) \/ Reboot(d) \/ WaitUntilFullyBooted(d) \/ OfFile(d)
OfMain == Reset \/ KillAllAdb \/ (\E d \in PoolDevices : ResetUsb(d)) \/ StartRecovery \/ Ends \/ OfFile(Main)

PoolNext == OfMain \/ (\E d \in PoolDevices : PoolOfDevice(d)) \/ AlienExtends \/ OfFile(Alien)

PoolSpec == PoolInit /\ [][PoolNext]_poolVars /\ WF_poolVars(OfMain) /\ \A d \in PoolDevices : SF_poolVars(PoolOfDevice(d))

----------------------------------------------------------------------------

PoolTypeOK ==
  /\ file.is \in {"absent", "torn", "whole"} /\ file.set \subseteq PoolDevices \cup {Alien}
  /\ \A p \in {"own", "other"} : poolLock[p] # None => Process(poolLock[p]) = p /\ ext[poolLock[p]].at \in {"open", "dump"}
  /\ status \subseteq PoolDevices /\ resets \subseteq restart.usb /\ restart.usb \subseteq restart.adb

(* What was added to the blacklist since it was erased is in it, whenever  *)
(* nobody writes.                                                          *)
AddedStay ==
  (\A t \in Threads : ext[t].at \notin {"open", "dump"}) => added \subseteq Read

(* After a recovery, every device either has booted or is blacklisted.     *)
RecoveredOrListed ==
  (phase = "done" /\ WithBlacklist) => \A d \in PoolDevices : health[d] \in {"ok", "low"} \/ d \in Read

(* A device that neither was blacklisted nor gave cause for it is not      *)
(* rebooted.                                                               *)
GoodStayUp == \A d \in PoolDevices : (health[d] = "ok" /\ status \cap {d} = {} /\ adb[d] = "device" /\ d \notin restart.adb)
                                           => health'[d] = "ok"

(* The recovery goes on. *)
Recovering == phase # "done"

----------------------------------------------------------------------------
(***************************************************************************)
(* device_monitor: every minute the healthy devices are polled, all at     *)
(* once, one query after the other, each of which may fail; then the       *)
(* blacklist is read again and the file is written over.  Other programs   *)
(* add to the blacklist and take from it meanwhile, and devices come and   *)
(* go in the list of adb.                                                  *)
(***************************************************************************)

CONSTANTS
  MonitorDevices,
  FailingQueries,  \* the queries whose command may fail
  SlowQueries,     \* the queries whose command may time out
  Unreachable,     \* TRUE: a device may be lost in any query
  Shrinking        \* TRUE: devices are taken from the blacklist

(* get_device_status_unsafe(), in order.                                   *)
Queries == <<"battery", "build", "memory", "processes", "sensors", "uptime", "imei">>

MonitorAssumption ==
  /\ FailingQueries \cup SlowQueries \subseteq ToSet(Queries)
  /\ {Unreachable, Shrinking} \subseteq BOOLEAN

VARIABLES
  main,          \* "sleeps", "polls", "writes", "dead"
  monitorBlacklist,
  healthy,       \* the devices of this round
  step,          \* of each poll: how many queries were made
  state,         \* what each poll gives: "polled", "available", "offline", "raised"
  known,         \* the queries that were answered
  monitorFile,   \* DEVICE_FILE: of each device that is in it, its state
  whole,         \* FALSE while the file is written
  shown,         \* the devices that `adb devices' shows in the state "device"
  seen           \* history: those it showed when the round began

monitorVars == <<main, monitorBlacklist, healthy, step, state, known, monitorFile, whole, shown, seen>>

MonitorTypeOK ==
  /\ main \in {"sleeps", "polls", "writes", "dead"}
  /\ monitorBlacklist \subseteq MonitorDevices /\ healthy \subseteq MonitorDevices
  /\ step \in [MonitorDevices -> 0..Len(Queries)]
  /\ state \in [MonitorDevices -> {"polled", "available", "offline", "raised"}]
  /\ known \in [MonitorDevices -> SUBSET ToSet(Queries)]
  /\ \A d \in healthy : state[d] = "available" => {"battery", "build"} \subseteq known[d]
  /\ DOMAIN monitorFile \subseteq MonitorDevices
  /\ \A d \in DOMAIN monitorFile : monitorFile[d] \in {"available", "offline", "blacklisted"}
  /\ whole \in BOOLEAN
  /\ shown \subseteq MonitorDevices /\ seen \subseteq MonitorDevices /\ healthy \subseteq seen

MonitorInit ==
  /\ main = "sleeps"
  /\ monitorBlacklist \in SUBSET MonitorDevices
  /\ healthy = {}
  /\ step = [d \in MonitorDevices |-> 0]
  /\ state = [d \in MonitorDevices |-> "polled"]
  /\ known = [d \in MonitorDevices |-> {}]
  /\ monitorFile = <<>> /\ whole = FALSE
  /\ shown \in SUBSET MonitorDevices /\ seen = {}

----------------------------------------------------------------------------

(* get_all_status(): the devices that adb shows and the blacklist has not. *)
HealthyDevices ==
  /\ main = "sleeps"
  /\ main' = "polls"
  /\ healthy' = shown \ monitorBlacklist
  /\ seen' = shown
  /\ step' = [d \in MonitorDevices |-> 0]
  /\ state' = [d \in MonitorDevices |-> "polled"]
  /\ known' = [d \in MonitorDevices |-> {}]
  /\ UNCHANGED <<monitorBlacklist, monitorFile, whole, shown>>

(* `adb devices' fails or times out, which ends the monitor.               *)
DevicesRaises ==
  /\ main = "sleeps"
  /\ main' = "dead"
  /\ UNCHANGED <<monitorBlacklist, healthy, step, state, known, monitorFile, whole, shown, seen>>

(* The queries within a try statement, which takes a command that failed.  *)
Caught(q) == q \in {"memory", "processes", "sensors", "uptime", "imei"}

Polls(d) == main = "polls" /\ d \in healthy /\ state[d] = "polled" /\ step[d] < Len(Queries)

Query(d) == Queries[step[d] + 1]

Answers(d) ==
  /\ Polls(d)
  /\ known' = [known EXCEPT ![d] = @ \cup {Query(d)}]
  /\ step' = [step EXCEPT ![d] = @ + 1]
  /\ UNCHANGED <<main, monitorBlacklist, healthy, state, monitorFile, whole, shown, seen>>

Fails(d) ==
  /\ Polls(d) /\ Query(d) \in FailingQueries
  /\ IF Caught(Query(d)) THEN step' = [step EXCEPT ![d] = @ + 1] /\ UNCHANGED state
     ELSE state' = [state EXCEPT ![d] = "raised"] /\ UNCHANGED step
  /\ UNCHANGED <<main, monitorBlacklist, healthy, known, monitorFile, whole, shown, seen>>

(* A command that timed out is not one that failed: no try statement takes *)
(* it, nor does get_device_status().                                       *)
QueryTimesOut(d) ==
  /\ Polls(d) /\ Query(d) \in SlowQueries
  /\ state' = [state EXCEPT ![d] = "raised"]
  /\ UNCHANGED <<main, monitorBlacklist, healthy, step, known, monitorFile, whole, shown, seen>>

(* get_device_status(): a device that is lost is offline, wherever it was. *)
Lost(d) ==
  /\ Polls(d) /\ Unreachable
  /\ state' = [state EXCEPT ![d] = "offline"]
  /\ UNCHANGED <<main, monitorBlacklist, healthy, step, known, monitorFile, whole, shown, seen>>

Available(d) ==
  /\ main = "polls" /\ d \in healthy /\ state[d] = "polled" /\ step[d] = Len(Queries)
  /\ state' = [state EXCEPT ![d] = "available"]
  /\ UNCHANGED <<main, monitorBlacklist, healthy, step, known, monitorFile, whole, shown, seen>>

(* pGet(): the exception of a poll ends the monitor.                       *)
PGetRaises ==
  /\ main = "polls" /\ \A d \in healthy : state[d] # "polled"
  /\ \E d \in healthy : state[d] = "raised"
  /\ main' = "dead"
  /\ UNCHANGED <<monitorBlacklist, healthy, step, state, known, monitorFile, whole, shown, seen>>

(* The blacklist is read again, and the file is opened, which empties it.  *)
Open ==
  /\ main = "polls" /\ \A d \in healthy : state[d] \in {"available", "offline"}
  /\ main' = "writes"
  /\ monitorFile' = [d \in healthy \cup monitorBlacklist |->
                       IF d \in monitorBlacklist THEN "blacklisted" ELSE state[d]]
  /\ whole' = FALSE
  /\ UNCHANGED <<monitorBlacklist, healthy, step, state, known, shown, seen>>

Dump ==
  /\ main = "writes"
  /\ whole' = TRUE
  /\ main' = "sleeps"
  /\ UNCHANGED <<monitorBlacklist, healthy, step, state, known, monitorFile, shown, seen>>

(* Others add to the blacklist or take from it.                            *)
AddTo(d) ==
  /\ main # "dead"
  /\ monitorBlacklist' = monitorBlacklist \cup {d}
  /\ UNCHANGED <<main, healthy, step, state, known, monitorFile, whole, shown, seen>>

TakeFrom(d) ==
  /\ Shrinking \/ main = "sleeps"
  /\ monitorBlacklist' = monitorBlacklist \ {d}
  /\ UNCHANGED <<main, healthy, step, state, known, monitorFile, whole, shown, seen>>

(* A device is plugged in or out, goes offline, or is unauthorized.        *)
ComesOrGoes(d) ==
  /\ main # "dead"
  /\ shown' = IF d \in shown THEN shown \ {d} ELSE shown \cup {d}
  /\ UNCHANGED <<main, monitorBlacklist, healthy, step, state, known, monitorFile, whole, seen>>

Poll(d) == Answers(d) \/ Fails(d) \/ QueryTimesOut(d) \/ Lost(d) \/ Available(d)

MonitorMain == HealthyDevices \/ DevicesRaises \/ PGetRaises \/ Open \/ Dump

MonitorNext ==
  \/ MonitorMain
  \/ \E d \in MonitorDevices : Poll(d) \/ AddTo(d) \/ TakeFrom(d) \/ ComesOrGoes(d)

(* Polls end, and so does a round.                                         *)
MonitorSpec == MonitorInit /\ [][MonitorNext]_monitorVars /\ WF_monitorVars(MonitorMain) /\ \A d \in MonitorDevices : WF_monitorVars(Poll(d))

----------------------------------------------------------------------------

(* Every device that adb showed when the round began is in the file that   *)
(* the round has written, healthy, lost or blacklisted, and only such a    *)
(* device is in it as one that was polled: neither what has come or gone   *)
(* since, nor a device that was lost in a query, takes another out of it.  *)
EveryDeviceShown ==
  main \in {"sleeps", "writes"} =>
    /\ seen \subseteq DOMAIN monitorFile
    /\ \A d \in DOMAIN monitorFile : monitorFile[d] # "blacklisted" => d \in seen

(* A device that is blacklisted while it is polled is shown as such.       *)
BlacklistWins ==
  main = "polls" /\ main' = "writes" =>
       \A d \in monitorBlacklist : d \in DOMAIN monitorFile' /\ monitorFile'[d] = "blacklisted"

(* A round has begun and neither the file is written nor the monitor dead. *)
InRound == main \in {"polls", "writes"}
==============================================================================
