------------------------- MODULE DeviceFleet_proofs --------------------------
(***************************************************************************)
(* Proofs about DeviceFleet, for any devices, processes and failures, and  *)
(* about the changers of FlagFiles, for any files and depth of calls.      *)
(***************************************************************************)
EXTENDS DeviceFleet, FlagFiles, SequenceTheorems, FiniteSetTheorems, TLAPS

(***************************************************************************)
(* The forwarder.                                                          *)
(***************************************************************************)

Pairs == (DevicePorts \cup {DYNAMIC_DEVICE_PORT}) \X HostPorts
AnyJob == [kind : {"none", "map", "unmap", "unmapAll", "killDevice", "killHost", "lookup"},
           device : Devices \cup {NoPort}, port : DevicePorts \cup {NoPort}, pairs : Seq(Pairs)]

(* What an operation works on at each of its steps.                        *)
JobInv ==
  /\ job \in [Procs -> AnyJob]
  /\ \A p \in Procs :
       /\ pc[p] = "instance" => job[p] \in Jobs
       /\ pc[p] \in {"device", "mapping", "unmap", "unmapAll", "cleaning", "killDevice"}
            => job[p].device \in Devices
       /\ pc[p] = "unmap" => job[p].port \in DevicePorts

(* A process without the singleton has no tables, and one with it has seen *)
(* the name of a group in the lock file.                                   *)
InstanceInv ==
  \A p \in Procs :
    /\ ~instance[p] => toHost[p] = NoTable
    /\ pc[p] \notin {"idle", "instance"} => instance[p]
    /\ instance[p] => pidFile \in {Group[q] : q \in Procs}

(* UnmapAllDevicePorts() clears the tables of what it has unmapped.        *)
CleaningInv == \A p \in Procs : pc[p] = "cleaning" => OfDevice(job[p].device) = {}

ForwardInv == TypeOK /\ JobInv /\ InstanceInv /\ CleaningInv

LEMMA InitForward == ASSUME ForwarderAssumption PROVE Init => ForwardInv
<1> SUFFICES ASSUME Init PROVE ForwardInv
  OBVIOUS
<1>1. Idle \in AnyJob
  BY DEF Idle, AnyJob
<1> QED
  BY <1>1 DEF ForwarderAssumption, Init, ForwardInv, TypeOK, JobInv, InstanceInv, CleaningInv, NoTable,
     NoInverse

LEMMA EntrySet ==
  ASSUME NEW S, NEW T, NEW X, NEW f \in [S -> [T -> X]], NEW s \in S, NEW t \in T, NEW x \in X,
         NEW g, g = [f EXCEPT ![s][t] = x]
  PROVE  /\ g \in [S -> [T -> X]]
         /\ g[s][t] = x
         /\ \A u \in T \ {t} : g[s][u] = f[s][u]
         /\ \A r \in S \ {s} : g[r] = f[r]
<1>1. f[s] \in [T -> X] /\ g = [f EXCEPT ![s] = [f[s] EXCEPT ![t] = x]]
  OBVIOUS
<1>2. [f[s] EXCEPT ![t] = x] \in [T -> X]
  BY <1>1
<1> QED
  BY <1>1, <1>2

Act(p) == (\E j \in Jobs : Acquire(p, j)) \/ Step(p) \/ Dies(p)

LEMMA NextIsAct == Next => \E p \in Procs : Act(p)
  BY DEF Next, Act

(* The steps of an operation are taken with the lock.                      *)
LEMMA Locked ==
  ASSUME ForwardInv, NEW p \in Procs, Step(p)
  PROVE  lock = p /\ pc[p] # "idle" /\ \A q \in Procs \ {p} : pc[q] = "idle"
<1>1. pc[p] # "idle"
  BY DEF Step, HasInstance, JoinHost, StartHost, StartHostFails, NewInstance, DeviceReady, InitDevice,
     InitDeviceFails, MapPair, MapUnclear, MapRefused, MapRefusedKillFails, UnmapUnknown, UnmapPort,
     UnmapKeyError, UnmapAll, CleanEntry, Cleaned, KillDevice, KillHost, Done
<1> QED
  BY <1>1 DEF ForwardInv, TypeOK

(* How the tables change.                                                  *)
TablesOf(p) ==
  \/ UNCHANGED tables
  \/ toHost' = [toHost EXCEPT ![p] = NoTable] /\ toDevice' = [toDevice EXCEPT ![p] = NoInverse]
  \/ \E k \in Keys, h \in HostPorts :
       HostFree(h) /\ MapRecorded(p, k, h) /\ Free(k[1], k[2]) /\ instance[p]
  \/ \E k \in Keys : toHost[p][k] # NoPort /\ Forget(p, k)

LEMMA TablesStep ==
  ASSUME ForwarderAssumption, ForwardInv, NEW p \in Procs, Act(p) PROVE TablesOf(p)
<1>1. CASE MapPair(p)
  <2> DEFINE d == job[p].device
             pair == Head(job[p].pairs)
  <2>1. d \in Devices /\ job[p] \in AnyJob /\ instance[p]
    BY <1>1 DEF MapPair, ForwardInv, JobInv, InstanceInv
  <2>2. pair \in Pairs
    <3>1. job[p].pairs \in Seq(Pairs) /\ job[p].pairs # <<>>
      BY <1>1, <2>1 DEF MapPair, AnyJob
    <3> QED
      BY <3>1
  <2>3. pair[2] \in HostPorts /\ HostFree(pair[2])
    BY <1>1, <2>2 DEF MapPair, Pairs
  <2>4. PICK k \in PortsFor(d, pair) : MapRecorded(p, <<d, k>>, pair[2])
    BY <1>1 DEF MapPair
  <2>5. k \in DevicePorts /\ Free(d, k)
    BY <2>4 DEF PortsFor
  <2>6. <<d, k>> \in Keys /\ <<d, k>>[1] = d /\ <<d, k>>[2] = k
    BY <2>1, <2>5 DEF Keys
  <2> QED
    BY <2>1, <2>3, <2>4, <2>5, <2>6 DEF TablesOf
<1>2. CASE UnmapPort(p) \/ UnmapKeyError(p)
  <2>1. job[p].device \in Devices /\ job[p].port \in DevicePorts
    BY <1>2 DEF UnmapPort, UnmapKeyError, ForwardInv, JobInv
  <2>2. <<job[p].device, job[p].port>> \in Keys
    BY <2>1 DEF Keys
  <2> QED
    BY <1>2, <2>2 DEF UnmapPort, UnmapKeyError, TablesOf
<1>3. CASE CleanEntry(p)
  BY <1>3 DEF CleanEntry, Entries, TablesOf
<1>4. CASE NewInstance(p) \/ Dies(p)
  BY <1>4 DEF NewInstance, Dies, TablesOf
<1>5. CASE UNCHANGED tables
  BY <1>5 DEF TablesOf
<1> QED
  BY <1>1, <1>2, <1>3, <1>4, <1>5 DEF Act, Acquire, Step, HasInstance, JoinHost, StartHost, StartHostFails,
     DeviceReady, InitDevice, InitDeviceFails, MapUnclear, MapRefused, MapRefusedKillFails,
     UnmapUnknown, UnmapAll, Cleaned, KillDevice, KillHost, Done, singleton, tables

LEMMA TablesTyped ==
  ASSUME ForwarderAssumption, ForwardInv, NEW p \in Procs, TablesOf(p)
  PROVE  /\ toHost' \in [Procs -> [Keys -> HostPorts \cup {NoPort}]]
         /\ toDevice' \in [Procs -> [HostPorts -> Keys \cup {NoPort}]]
         /\ \A q \in Procs \ {p} : toHost'[q] = toHost[q] /\ toDevice'[q] = toDevice[q]
<1> /\ toHost \in [Procs -> [Keys -> HostPorts \cup {NoPort}]]
    /\ toDevice \in [Procs -> [HostPorts -> Keys \cup {NoPort}]]
  BY DEF ForwardInv, TypeOK
<1>1. CASE UNCHANGED tables
  BY <1>1 DEF tables
<1>2. CASE toHost' = [toHost EXCEPT ![p] = NoTable] /\ toDevice' = [toDevice EXCEPT ![p] = NoInverse]
  <2>1. /\ NoTable \in [Keys -> HostPorts \cup {NoPort}]
        /\ NoInverse \in [HostPorts -> Keys \cup {NoPort}]
    BY DEF NoTable, NoInverse
  <2> QED
    BY <1>2, <2>1
<1>3. ASSUME NEW k \in Keys, NEW h \in HostPorts, MapRecorded(p, k, h)
      PROVE  /\ toHost' \in [Procs -> [Keys -> HostPorts \cup {NoPort}]]
             /\ toDevice' \in [Procs -> [HostPorts -> Keys \cup {NoPort}]]
             /\ \A q \in Procs \ {p} : toHost'[q] = toHost[q] /\ toDevice'[q] = toDevice[q]
  <2>1. h \in HostPorts \cup {NoPort} /\ k \in Keys \cup {NoPort}
    OBVIOUS
  <2> QED
    BY <1>3, <2>1, EntrySet DEF MapRecorded
<1>4. ASSUME NEW k \in Keys, toHost[p][k] # NoPort, Forget(p, k)
      PROVE  /\ toHost' \in [Procs -> [Keys -> HostPorts \cup {NoPort}]]
             /\ toDevice' \in [Procs -> [HostPorts -> Keys \cup {NoPort}]]
             /\ \A q \in Procs \ {p} : toHost'[q] = toHost[q] /\ toDevice'[q] = toDevice[q]
  <2>1. toHost[p][k] \in HostPorts /\ NoPort \in HostPorts \cup {NoPort} /\ NoPort \in Keys \cup {NoPort}
    BY <1>4
  <2> QED
    BY <1>4, <2>1, EntrySet DEF Forget
<1> QED
  BY <1>1, <1>2, <1>3, <1>4 DEF TablesOf

(* What a step does to the operation and the process that takes it, and    *)
(* not to the others.                                                      *)
LEMMA ControlStep ==
  ASSUME ForwarderAssumption, ForwardInv, NEW p \in Procs, Act(p)
  PROVE  /\ lock' \in Procs \cup {"none"}
         /\ pc' \in [Procs -> {"idle", "instance", "device", "mapping", "unmap", "unmapAll",
                               "cleaning", "killDevice", "killHost", "done"}]
         /\ raised' \in [Procs -> {"none", "HostForwarderError", "DeviceError", "KeyError",
                                   "UnboundLocalError"}]
         /\ instance' \in [Procs -> BOOLEAN]
         /\ faulty' \in BOOLEAN
         /\ \A q \in Procs \ {p} : pc'[q] = pc[q] /\ job'[q] = job[q] /\ instance'[q] = instance[q]
         /\ \A q \in Procs : pc'[q] # "idle" => lock' = q
<1> USE DEF ForwarderAssumption
<1> /\ lock \in Procs \cup {"none"}
    /\ pc \in [Procs -> {"idle", "instance", "device", "mapping", "unmap", "unmapAll",
                         "cleaning", "killDevice", "killHost", "done"}]
    /\ raised \in [Procs -> {"none", "HostForwarderError", "DeviceError", "KeyError",
                             "UnboundLocalError"}]
    /\ instance \in [Procs -> BOOLEAN] /\ faulty \in BOOLEAN
    /\ \A q \in Procs : pc[q] # "idle" => lock = q
    /\ job \in [Procs -> AnyJob]
  BY DEF ForwardInv, TypeOK, JobInv
<1>1. CASE \E j \in Jobs : Acquire(p, j)
  BY <1>1 DEF Acquire, singleton
<1>2. CASE Dies(p)
  BY <1>2 DEF Dies
<1>3. CASE Step(p)
  <2>1. lock = p /\ pc[p] # "idle" /\ \A q \in Procs \ {p} : pc[q] = "idle"
    BY <1>3, Locked
  <2>2. CASE HasInstance(p) \/ JoinHost(p) \/ StartHost(p)
    <3>1. First(job[p]) \in {"device", "done", "unmap", "unmapAll", "killDevice", "killHost"}
      BY <2>2 DEF HasInstance, JoinHost, StartHost, NewInstance, First, Jobs, ForwardInv, JobInv
    <3> DEFINE next == First(job[p])
    <3>2. Goto(p, next) /\ UNCHANGED <<raised, faulty>>
      BY <2>2 DEF HasInstance, JoinHost, StartHost, NewInstance, Goto, singleton
    <3>3. UNCHANGED instance \/ instance' = [instance EXCEPT ![p] = TRUE]
      BY <2>2 DEF HasInstance, JoinHost, StartHost, NewInstance, singleton
    <3>4. instance' \in [Procs -> BOOLEAN] /\ \A q \in Procs \ {p} : instance'[q] = instance[q]
      BY <3>3
    <3>5. pc' = [pc EXCEPT ![p] = next] /\ lock' = lock /\ job' = job
      BY <3>2 DEF Goto
    <3> HIDE DEF next
    <3>6. /\ pc' \in [Procs -> {"idle", "instance", "device", "mapping", "unmap", "unmapAll",
                               "cleaning", "killDevice", "killHost", "done"}]
          /\ \A q \in Procs \ {p} : pc'[q] = pc[q]
      BY <3>1, <3>5 DEF next
    <3> QED
      BY <2>1, <3>2, <3>4, <3>5, <3>6
  <2>3. CASE StartHostFails(p) \/ InitDeviceFails(p) \/ MapUnclear(p) \/ MapRefused(p)
             \/ MapRefusedKillFails(p) \/ UnmapKeyError(p)
    BY <2>1, <2>3 DEF StartHostFails, InitDeviceFails, MapUnclear, MapRefused, MapRefusedKillFails,
       UnmapKeyError, Raise, Release, singleton
  <2>4. CASE DeviceReady(p) \/ InitDevice(p) \/ Cleaned(p)
    BY <2>1, <2>4 DEF DeviceReady, InitDevice, Cleaned, Goto, singleton
  <2>5. CASE MapPair(p)
    BY <2>1, <2>5 DEF MapPair, NextPair
  <2>6. CASE UnmapUnknown(p) \/ Done(p)
    BY <2>1, <2>6 DEF UnmapUnknown, Done, Return, Release, singleton
  <2>7. CASE UnmapPort(p) \/ UnmapAll(p) \/ KillDevice(p) \/ KillHost(p)
    BY <2>1, <2>7 DEF UnmapPort, UnmapAll, KillDevice, KillHost, Return, Raise, Release, Goto,
       singleton
  <2>8. CASE CleanEntry(p)
    <3>1. /\ UNCHANGED <<lock, pc, job, raised, faulty>> \/ Raise(p, "KeyError")
          /\ UNCHANGED instance
      BY <2>8 DEF CleanEntry
    <3> QED
      BY <2>1, <3>1 DEF Raise, Release
  <2> QED
    BY <1>3, <2>2, <2>3, <2>4, <2>5, <2>6, <2>7, <2>8 DEF Step
<1> QED
  BY <1>1, <1>2, <1>3 DEF Act

(* The daemons' part.                                                      *)
LEMMA DaemonStep ==
  ASSUME ForwarderAssumption, ForwardInv, NEW p \in Procs, Act(p)
  PROVE  /\ initialized' \in [Procs -> SUBSET Devices]
         /\ pidFile' \in {"none"} \cup {Group[q] : q \in Procs}
         /\ forwards' \subseteq Devices \X DevicePorts \X HostPorts
<1> /\ initialized \in [Procs -> SUBSET Devices]
    /\ pidFile \in {"none"} \cup {Group[q] : q \in Procs}
    /\ forwards \subseteq Devices \X DevicePorts \X HostPorts
    /\ pc[p] \in {"device", "mapping"} => job[p].device \in Devices
    /\ job[p] \in AnyJob
  BY DEF ForwardInv, TypeOK, JobInv
<1>1. pidFile' \in {"none"} \cup {Group[q] : q \in Procs}
  BY DEF Act, Acquire, Dies, Step, HasInstance, JoinHost, StartHost, StartHostFails, DeviceReady,
     InitDevice, InitDeviceFails, MapPair, MapUnclear, MapRefused, MapRefusedKillFails, UnmapUnknown,
     UnmapPort, UnmapKeyError, UnmapAll, CleanEntry, Cleaned, KillDevice, KillHost, Done, singleton
<1>2. initialized' \in [Procs -> SUBSET Devices]
  <2>1. CASE InitDevice(p)
    BY <2>1 DEF InitDevice
  <2>2. CASE UNCHANGED initialized
    BY <2>2
  <2>3. CASE initialized' = [initialized EXCEPT ![p] = {}]
    BY <2>3
  <2>4. CASE initialized' = [initialized EXCEPT ![p] = @ \ {job[p].device}]
    BY <2>4
  <2> QED
    BY <2>1, <2>2, <2>3, <2>4 DEF Act, Acquire, Dies, Step, HasInstance, JoinHost, StartHost,
       NewInstance, StartHostFails, DeviceReady, InitDeviceFails, MapPair, MapUnclear, MapRefused,
       MapRefusedKillFails, UnmapUnknown, UnmapPort, UnmapKeyError, UnmapAll, CleanEntry, Cleaned,
       KillDevice, KillHost, Done, singleton
<1>3. CASE MapPair(p) \/ MapUnclear(p)
  <2> DEFINE d == job[p].device
             pair == Head(job[p].pairs)
  <2>1. pair \in Pairs
    <3>1. job[p].pairs \in Seq(Pairs) /\ job[p].pairs # <<>>
      BY <1>3 DEF MapPair, MapUnclear, AnyJob
    <3> QED
      BY <3>1
  <2>2. pair[2] \in HostPorts /\ d \in Devices /\ PortsFor(d, pair) \subseteq DevicePorts
    BY <1>3, <2>1 DEF MapPair, MapUnclear, Pairs, PortsFor
  <2>3. UNCHANGED forwards \/ \E k \in PortsFor(d, pair) : forwards' = forwards \cup {<<d, k, pair[2]>>}
    BY <1>3 DEF MapPair, MapUnclear
  <2> QED
    BY <1>1, <1>2, <2>2, <2>3
<1>4. CASE ~(MapPair(p) \/ MapUnclear(p))
  <2>1. forwards' \subseteq forwards
    BY <1>4 DEF Act, Acquire, Dies, Step, HasInstance, JoinHost, StartHost, StartHostFails, DeviceReady,
       InitDevice, InitDeviceFails, MapRefused, MapRefusedKillFails, UnmapUnknown, UnmapPort,
       UnmapKeyError, UnmapAll, CleanEntry, Cleaned, KillDevice, KillHost, Done
  <2> QED
    BY <1>1, <1>2, <2>1
<1> QED
  BY <1>3, <1>4

LEMMA JobStep ==
  ASSUME ForwarderAssumption, ForwardInv, NEW p \in Procs, Act(p) PROVE JobInv'
<1> /\ job \in [Procs -> AnyJob]
    /\ pc \in [Procs -> {"idle", "instance", "device", "mapping", "unmap", "unmapAll",
                         "cleaning", "killDevice", "killHost", "done"}]
  BY DEF ForwardInv, TypeOK, JobInv
<1>1. SUFFICES /\ job' \in [Procs -> AnyJob]
               /\ pc'[p] = "instance" => job'[p] \in Jobs
               /\ pc'[p] \in {"device", "mapping", "unmap", "unmapAll", "cleaning", "killDevice"}
                    => job'[p].device \in Devices
               /\ pc'[p] = "unmap" => job'[p].port \in DevicePorts
  BY ControlStep DEF ForwardInv, JobInv
<1>2. ASSUME NEW j \in Jobs, Acquire(p, j)
      PROVE  job' \in [Procs -> AnyJob] /\ pc'[p] = "instance" /\ job'[p] \in Jobs
  <2>1. j \in AnyJob
    <3>1. Requests \subseteq Seq(Pairs) /\ <<>> \in Seq(Pairs)
      BY DEF ForwarderAssumption, Pairs
    <3> QED
      BY <3>1 DEF Jobs, AnyJob
  <2> QED
    BY <1>2, <2>1 DEF Acquire
<1>3. CASE HasInstance(p) \/ JoinHost(p) \/ StartHost(p)
  <2>1. UNCHANGED job /\ pc'[p] = First(job[p]) /\ job[p] \in Jobs
    BY <1>3 DEF HasInstance, JoinHost, StartHost, NewInstance, Goto, ForwardInv, JobInv
  <2>2. /\ First(job[p]) # "instance"
        /\ First(job[p]) \in {"device", "mapping", "unmap", "unmapAll", "cleaning", "killDevice"}
             => job[p].device \in Devices
        /\ First(job[p]) = "unmap" => job[p].port \in DevicePorts
    BY <2>1 DEF First, Jobs
  <2> QED
    BY <2>1, <2>2
<1>4. CASE pc'[p] = "idle" /\ job' = [job EXCEPT ![p] = Idle]
  <2>1. Idle \in AnyJob
    BY DEF Idle, AnyJob
  <2> QED
    BY <1>4, <2>1
<1>5. CASE MapPair(p)
  <2>1. job[p] \in AnyJob /\ job[p].pairs \in Seq(Pairs) /\ job[p].pairs # <<>> /\ job[p].device \in Devices
    BY <1>5 DEF MapPair, AnyJob, ForwardInv, JobInv
  <2>2. Tail(job[p].pairs) \in Seq(Pairs)
    BY <2>1
  <2>3. [job[p] EXCEPT !.pairs = Tail(job[p].pairs)] \in AnyJob
    BY <2>1, <2>2 DEF AnyJob
  <2>4. job' = [job EXCEPT ![p] = [job[p] EXCEPT !.pairs = Tail(job[p].pairs)]]
    BY <1>5 DEF MapPair, NextPair
  <2>5. job' \in [Procs -> AnyJob]
    BY <2>3, <2>4
  <2>6. job'[p].device = job[p].device
    BY <2>1, <2>4 DEF AnyJob
  <2> QED
    BY <1>5, <2>1, <2>5, <2>6 DEF MapPair
<1>6. CASE UNCHANGED <<job, pc>>
  BY <1>6 DEF ForwardInv, JobInv
<1>7. CASE DeviceReady(p) \/ InitDevice(p) \/ Cleaned(p) \/ (UnmapAll(p) /\ Goto(p, "cleaning"))
  BY <1>7 DEF DeviceReady, InitDevice, Cleaned, UnmapAll, Goto, ForwardInv, JobInv
<1>8. Act(p) => \/ \E j \in Jobs : Acquire(p, j)
                \/ HasInstance(p) \/ JoinHost(p) \/ StartHost(p) \/ MapPair(p)
                \/ pc'[p] = "idle" /\ job' = [job EXCEPT ![p] = Idle]
                \/ UNCHANGED <<job, pc>>
                \/ DeviceReady(p) \/ InitDevice(p) \/ Cleaned(p) \/ (UnmapAll(p) /\ Goto(p, "cleaning"))
  BY DEF Act, Dies, Step, StartHostFails, InitDeviceFails, MapUnclear, MapRefused, MapRefusedKillFails,
     UnmapUnknown, UnmapPort, UnmapKeyError, UnmapAll, CleanEntry, KillDevice, KillHost, Done, Return,
     Raise, Release
<1> QED
  BY <1>2, <1>3, <1>4, <1>5, <1>6, <1>7, <1>8

(* The singleton and the name in the file.                                 *)
LEMMA InstanceStep ==
  ASSUME ForwarderAssumption, ForwardInv, NEW p \in Procs, Act(p)
  PROVE  /\ InstanceInv'
         /\ instance'[p] /\ ~instance[p] => pidFile' = Group[p]
         /\ pidFile' = pidFile \/ (pidFile' = Group[p] /\ pidFile # Group[p])
         /\ (instance'[p] # instance[p]) => NewInstance(p) \/ Dies(p)
<1> /\ instance \in [Procs -> BOOLEAN] /\ toHost \in [Procs -> [Keys -> HostPorts \cup {NoPort}]]
    /\ pc \in [Procs -> {"idle", "instance", "device", "mapping", "unmap", "unmapAll",
                         "cleaning", "killDevice", "killHost", "done"}]
  BY DEF ForwardInv, TypeOK
<1>1. pidFile' = pidFile \/ (pidFile' = Group[p] /\ pidFile # Group[p])
  BY DEF Act, Acquire, Dies, Step, HasInstance, JoinHost, StartHost, StartHostFails, DeviceReady,
     InitDevice, InitDeviceFails, MapPair, MapUnclear, MapRefused, MapRefusedKillFails, UnmapUnknown,
     UnmapPort, UnmapKeyError, UnmapAll, CleanEntry, Cleaned, KillDevice, KillHost, Done, singleton
<1>2. \A q \in Procs \ {p} : pc'[q] = pc[q] /\ instance'[q] = instance[q] /\ toHost'[q] = toHost[q]
  BY TablesStep, TablesTyped, ControlStep
<1>3. ASSUME ~instance'[p] => toHost'[p] = NoTable, pc'[p] \notin {"idle", "instance"} => instance'[p],
             instance'[p] => pidFile' \in {Group[q] : q \in Procs}
      PROVE  InstanceInv'
  <2>1. ASSUME NEW q \in Procs \ {p}
        PROVE  /\ ~instance'[q] => toHost'[q] = NoTable
               /\ pc'[q] \notin {"idle", "instance"} => instance'[q]
               /\ instance'[q] => pidFile' \in {Group[r] : r \in Procs}
    BY <1>1, <1>2 DEF ForwardInv, InstanceInv
  <2> QED
    BY <1>3, <2>1 DEF InstanceInv
<1>4. CASE JoinHost(p) \/ StartHost(p)
  <2>1. instance'[p] /\ pidFile' = Group[p] /\ NewInstance(p)
    BY <1>4 DEF JoinHost, StartHost, NewInstance
  <2> QED
    BY <1>1, <1>3, <2>1
<1>5. CASE Dies(p)
  <2>1. ~instance'[p] /\ toHost'[p] = NoTable /\ pc'[p] = "idle" /\ UNCHANGED pidFile
    BY <1>5 DEF Dies
  <2> QED
    BY <1>3, <1>5, <2>1
<1>6. CASE (\E j \in Jobs : Acquire(p, j)) \/ StartHostFails(p)
  <2>1. pc'[p] \in {"idle", "instance"} /\ UNCHANGED <<instance, toHost, pidFile>>
    BY <1>6 DEF Acquire, StartHostFails, Raise, Release, singleton
  <2> QED
    BY <1>3, <2>1 DEF ForwardInv, InstanceInv
<1>7. CASE ~(JoinHost(p) \/ StartHost(p) \/ Dies(p) \/ (\E j \in Jobs : Acquire(p, j)) \/ StartHostFails(p))
  <2>1. Step(p)
    BY <1>7 DEF Act
  <2>2. UNCHANGED instance /\ UNCHANGED pidFile
    BY <1>7, <2>1 DEF Step, HasInstance, DeviceReady, InitDevice, InitDeviceFails, MapPair, MapUnclear,
     MapRefused, MapRefusedKillFails, UnmapUnknown, UnmapPort, UnmapKeyError, UnmapAll, CleanEntry,
     Cleaned, KillDevice, KillHost, Done, singleton
  <2>3. instance[p]
    <3>1. CASE HasInstance(p)
      BY <3>1 DEF HasInstance
    <3>2. CASE ~HasInstance(p)
      <4>1. pc[p] \notin {"idle", "instance"}
        BY <1>7, <2>1, <3>2 DEF Step, DeviceReady, InitDevice, InitDeviceFails, MapPair,
           MapUnclear, MapRefused, MapRefusedKillFails, UnmapUnknown, UnmapPort, UnmapKeyError,
           UnmapAll, CleanEntry, Cleaned, KillDevice, KillHost, Done
      <4> QED
        BY <4>1 DEF ForwardInv, InstanceInv
    <3> QED
      BY <3>1, <3>2
  <2> QED
    BY <1>3, <2>2, <2>3 DEF ForwardInv, InstanceInv
<1> QED
  BY <1>1, <1>4, <1>5, <1>6, <1>7

(* What is forwarded when nothing fails, and under UnmapAllDevicePorts().  *)
LEMMA CleaningStep ==
  ASSUME ForwarderAssumption, ForwardInv, NEW p \in Procs, Act(p) PROVE CleaningInv'
<1> /\ pc \in [Procs -> {"idle", "instance", "device", "mapping", "unmap", "unmapAll",
                         "cleaning", "killDevice", "killHost", "done"}]
    /\ job \in [Procs -> AnyJob]
  BY DEF ForwardInv, TypeOK, JobInv
<1>1. CASE Step(p)
  <2>1. \A q \in Procs \ {p} : pc'[q] = "idle"
    BY <1>1, Locked, ControlStep
  <2>2. SUFFICES ASSUME pc'[p] = "cleaning" PROVE OfDevice(job[p].device)' = {} /\ job'[p] = job[p]
    BY <2>1 DEF CleaningInv, OfDevice
  <2>3. CASE UnmapAll(p)
    BY <2>2, <2>3 DEF UnmapAll, OfDevice, Goto, Raise, Release
  <2>4. CASE CleanEntry(p)
    <3>1. pc[p] = "cleaning" /\ UNCHANGED forwards
      BY <2>4 DEF CleanEntry
    <3>2. UNCHANGED job \/ Raise(p, "KeyError")
      BY <2>4 DEF CleanEntry
    <3> QED
      BY <2>2, <3>1, <3>2 DEF Raise, Release, ForwardInv, CleaningInv, OfDevice
  <2>5. CASE HasInstance(p) \/ JoinHost(p) \/ StartHost(p)
    BY <2>2, <2>5 DEF HasInstance, JoinHost, StartHost, NewInstance, Goto, First, ForwardInv, JobInv, Jobs
  <2> QED
    BY <1>1, <2>2, <2>3, <2>4, <2>5 DEF Step, StartHostFails, DeviceReady, InitDevice, InitDeviceFails,
       MapPair, MapUnclear, MapRefused, MapRefusedKillFails, UnmapUnknown, UnmapPort, UnmapKeyError,
       Cleaned, KillDevice, KillHost, Done, Goto, Return, Raise, Release
<1>2. CASE Dies(p) \/ \E j \in Jobs : Acquire(p, j)
  <2>1. pc'[p] # "cleaning" /\ UNCHANGED forwards
    BY <1>2 DEF Dies, Acquire
  <2> QED
    BY <2>1, ControlStep DEF ForwardInv, CleaningInv, OfDevice
<1> QED
  BY <1>1, <1>2 DEF Act

LEMMA NextForward == ASSUME ForwarderAssumption PROVE ForwardInv /\ [Next]_vars => ForwardInv'
<1> SUFFICES ASSUME ForwardInv, [Next]_vars PROVE ForwardInv'
  OBVIOUS
<1>1. ASSUME NEW p \in Procs, Act(p) PROVE ForwardInv'
  <2>1. TypeOK'
    BY <1>1, ControlStep, DaemonStep, TablesStep, TablesTyped DEF TypeOK
  <2> QED
    BY <1>1, <2>1, JobStep, InstanceStep, CleaningStep DEF ForwardInv
<1>2. CASE UNCHANGED vars
  BY <1>2 DEF vars, ForwardInv, TypeOK, JobInv, InstanceInv, CleaningInv, OfDevice
<1> QED
  BY <1>1, <1>2, NextIsAct

(* The tables keep their types through every operation, failure and kill,  *)
(* and one process at a time works on them (_FileLock).                    *)
THEOREM ForwarderTypeCorrect == ASSUME ForwarderAssumption PROVE Spec => []TypeOK
<1>1. ForwardInv => TypeOK
  BY DEF ForwardInv
<1> QED
  BY InitForward, NextForward, <1>1, PTL DEF Spec

(* When no host port serves two mappings, what can be unmapped can be      *)
(* unmapped without an exception, whatever has failed and whoever has died *)
(* (_UnmapDevicePortLocked()).                                             *)
THEOREM UnmapsWhatItMapped ==
  ASSUME ForwarderAssumption, ~Shared PROVE Spec => []TablesCover
<1>1. Init => TablesCover
  BY DEF Init, TablesCover, NoTable
<1>2. ForwardInv /\ TablesCover /\ [Next]_vars => TablesCover'
  <2> SUFFICES ASSUME ForwardInv, TablesCover, [Next]_vars PROVE TablesCover'
    OBVIOUS
  <2> /\ toHost \in [Procs -> [Keys -> HostPorts \cup {NoPort}]]
      /\ toDevice \in [Procs -> [HostPorts -> Keys \cup {NoPort}]]
    BY DEF ForwardInv, TypeOK
  <2>1. ASSUME NEW p \in Procs, Act(p) PROVE TablesCover'
    <3>1. TablesOf(p) /\ \A q \in Procs \ {p} : toHost'[q] = toHost[q] /\ toDevice'[q] = toDevice[q]
      BY <2>1, TablesStep, TablesTyped
    <3>2. SUFFICES ASSUME NEW k \in Keys, toHost'[p][k] # NoPort
                   PROVE  toDevice'[p][toHost'[p][k]] = k
      BY <3>1 DEF TablesCover
    <3>3. CASE UNCHANGED tables
      BY <3>2, <3>3 DEF tables, TablesCover
    <3>4. CASE toHost' = [toHost EXCEPT ![p] = NoTable] /\ toDevice' = [toDevice EXCEPT ![p] = NoInverse]
      BY <3>2, <3>4 DEF NoTable
    <3>5. ASSUME NEW k2 \in Keys, NEW h \in HostPorts, HostFree(h), MapRecorded(p, k2, h)
          PROVE  toDevice'[p][toHost'[p][k]] = k
      <4>1. /\ toHost'[p][k2] = h /\ \A u \in Keys \ {k2} : toHost'[p][u] = toHost[p][u]
            /\ toDevice'[p][h] = k2 /\ \A u \in HostPorts \ {h} : toDevice'[p][u] = toDevice[p][u]
        <5>1. h \in HostPorts \cup {NoPort} /\ k2 \in Keys \cup {NoPort}
          OBVIOUS
        <5> QED
          BY <3>5, <5>1, EntrySet DEF MapRecorded
      <4>2. toHost[p][k] # h
        BY <3>5 DEF HostFree
      <4> QED
        BY <3>2, <4>1, <4>2 DEF TablesCover
    <3>6. ASSUME NEW k2 \in Keys, toHost[p][k2] # NoPort, Forget(p, k2)
          PROVE  toDevice'[p][toHost'[p][k]] = k
      <4>1. toHost[p][k2] \in HostPorts
        BY <3>6
      <4>2. /\ toHost'[p][k2] = NoPort /\ \A u \in Keys \ {k2} : toHost'[p][u] = toHost[p][u]
            /\ \A u \in HostPorts \ {toHost[p][k2]} : toDevice'[p][u] = toDevice[p][u]
        <5>1. NoPort \in HostPorts \cup {NoPort} /\ NoPort \in Keys \cup {NoPort}
          OBVIOUS
        <5> QED
          BY <3>6, <4>1, <5>1, EntrySet DEF Forget
      <4>3. k # k2 /\ toHost[p][k] # NoPort /\ toHost[p][k] # toHost[p][k2]
        BY <3>2, <3>6, <4>2 DEF TablesCover
      <4> QED
        BY <4>2, <4>3 DEF TablesCover
    <3> QED
      BY <3>1, <3>3, <3>4, <3>5, <3>6 DEF TablesOf
  <2>2. CASE UNCHANGED vars
    BY <2>2 DEF vars, TablesCover
  <2> QED
    BY <2>1, <2>2, NextIsAct
<1> QED
  BY <1>1, <1>2, InitForward, NextForward, PTL DEF Spec

LEMMA FaultyStays ==
  ASSUME NEW p \in Procs, Act(p), ~faulty', ForwardInv PROVE ~faulty
<1>1. Act(p) => UNCHANGED faulty \/ faulty' = TRUE
  BY DEF Act, Acquire, Dies, Step, HasInstance, JoinHost, StartHost, StartHostFails, DeviceReady,
     InitDevice, InitDeviceFails, MapPair, MapUnclear, MapRefused, MapRefusedKillFails, UnmapUnknown,
     UnmapPort, UnmapKeyError, UnmapAll, CleanEntry, Cleaned, KillDevice, KillHost, Done, Goto,
     Return, Raise
<1> QED
  BY <1>1

LEMMA LeakStep ==
  ASSUME ForwarderAssumption, ForwardInv, NothingLeaks, NEW p \in Procs, Act(p) PROVE NothingLeaks'
<1> SUFFICES ASSUME ~faulty', NEW f \in forwards'
             PROVE  \E q \in Procs : toHost'[q][<<f[1], f[2]>>] = f[3]
  BY DEF NothingLeaks
<1> /\ toHost \in [Procs -> [Keys -> HostPorts \cup {NoPort}]]
    /\ toDevice \in [Procs -> [HostPorts -> Keys \cup {NoPort}]]
    /\ forwards \subseteq Devices \X DevicePorts \X HostPorts
    /\ forwards' \subseteq Devices \X DevicePorts \X HostPorts
    /\ job \in [Procs -> AnyJob]
  BY DaemonStep DEF ForwardInv, TypeOK, JobInv
<1>1. /\ f[1] \in Devices /\ f[2] \in DevicePorts /\ f[3] \in HostPorts /\ f[3] # NoPort
      /\ <<f[1], f[2]>> \in Keys /\ f = <<f[1], f[2], f[3]>>
  BY DEF Keys, ForwarderAssumption
<1>2. ASSUME f \in forwards
      PROVE  \E q \in Procs : toHost[q][<<f[1], f[2]>>] = f[3]
  BY <1>2, FaultyStays DEF NothingLeaks
<1>3. \A q \in Procs \ {p} : toHost'[q] = toHost[q]
  BY TablesStep, TablesTyped
<1>4. CASE MapPair(p)
  <2> DEFINE d == job[p].device
             pair == Head(job[p].pairs)
  <2>1. d \in Devices /\ pair \in Pairs
    <3>1. job[p].pairs \in Seq(Pairs) /\ job[p].pairs # <<>>
      BY <1>4 DEF MapPair, AnyJob
    <3> QED
      BY <1>4, <3>1 DEF MapPair, ForwardInv, JobInv
  <2>2. PICK k \in PortsFor(d, pair) : /\ forwards' = forwards \cup {<<d, k, pair[2]>>}
                                       /\ MapRecorded(p, <<d, k>>, pair[2])
    BY <1>4 DEF MapPair
  <2>3. k \in DevicePorts /\ Free(d, k) /\ pair[2] \in HostPorts
    BY <2>1, <2>2 DEF PortsFor, Pairs
  <2>4. <<d, k>> \in Keys /\ pair[2] \in HostPorts \cup {NoPort}
    BY <2>1, <2>3 DEF Keys
  <2>5. /\ toHost'[p][<<d, k>>] = pair[2]
        /\ \A u \in Keys \ {<<d, k>>} : toHost'[p][u] = toHost[p][u]
    BY <2>2, <2>4, EntrySet DEF MapRecorded
  <2>6. CASE f = <<d, k, pair[2]>>
    BY <2>5, <2>6
  <2>7. CASE f \in forwards
    <3>1. <<f[1], f[2]>> # <<d, k>>
      BY <1>1, <2>3, <2>7 DEF Free
    <3> QED
      BY <1>1, <1>2, <1>3, <2>5, <2>7, <3>1
  <2> QED
    BY <2>2, <2>6, <2>7
<1>5. CASE UnmapPort(p)
  <2> DEFINE k == <<job[p].device, job[p].port>>
  <2>1. k \in Keys /\ toHost[p][k] \in HostPorts
    BY <1>5 DEF UnmapPort, ForwardInv, JobInv, Keys
  <2>2. Forget(p, k) /\ f \in forwards /\ f # <<k[1], k[2], toHost[p][k]>>
    BY <1>5 DEF UnmapPort, Raise
  <2>3. \A u \in Keys \ {k} : toHost'[p][u] = toHost[p][u]
    BY <2>1, <2>2, EntrySet DEF Forget
  <2>4. PICK q \in Procs : toHost[q][<<f[1], f[2]>>] = f[3]
    BY <1>2, <2>2
  <2>5. q # p \/ <<f[1], f[2]>> # k
    BY <1>1, <2>1, <2>2, <2>4
  <2> QED
    BY <1>1, <1>3, <2>3, <2>4, <2>5
<1>6. CASE CleanEntry(p)
  <2>1. PICK k \in Entries(p) : Forget(p, k)
    BY <1>6 DEF CleanEntry
  <2>2. k \in Keys /\ k[1] = job[p].device /\ toHost[p][k] \in HostPorts
    BY <2>1 DEF Entries
  <2>3. pc[p] = "cleaning" /\ f \in forwards
    BY <1>6 DEF CleanEntry
  <2>4. <<f[1], f[2]>> # k
    BY <2>2, <2>3 DEF ForwardInv, CleaningInv, OfDevice
  <2>5. \A u \in Keys \ {k} : toHost'[p][u] = toHost[p][u]
    BY <2>1, <2>2, EntrySet DEF Forget
  <2> QED
    BY <1>1, <1>2, <1>3, <2>3, <2>4, <2>5
<1>7. CASE JoinHost(p) \/ StartHost(p)
  <2>1. toHost[p] = NoTable /\ toHost' = [toHost EXCEPT ![p] = NoTable] /\ f \in forwards
    BY <1>7 DEF JoinHost, StartHost, NewInstance, ForwardInv, InstanceInv
  <2> QED
    BY <1>2, <2>1
<1>8. CASE UNCHANGED toHost /\ forwards' \subseteq forwards
  BY <1>2, <1>8
<1> QED
  BY <1>4, <1>5, <1>6, <1>7, <1>8 DEF Act, Acquire, Dies, Step, HasInstance, StartHostFails, DeviceReady,
     InitDevice, InitDeviceFails, MapUnclear, MapRefused, MapRefusedKillFails, UnmapUnknown,
     UnmapKeyError, UnmapAll, Cleaned, KillDevice, KillHost, Done, Raise, singleton, tables

(* While no command has failed and no process has died, all that the       *)
(* daemons forward is in the table of a process that can take it back,     *)
(* whether host ports are shared or not (Map(), KillDevice()).             *)
THEOREM NothingIsForgotten == ASSUME ForwarderAssumption PROVE Spec => []NothingLeaks
<1>1. Init => NothingLeaks
  BY DEF Init, NothingLeaks
<1>2. ForwardInv /\ NothingLeaks /\ [Next]_vars => NothingLeaks'
  <2>1. UNCHANGED vars /\ NothingLeaks => NothingLeaks'
    BY DEF vars, NothingLeaks
  <2> QED
    BY <2>1, LeakStep, NextIsAct
<1> QED
  BY <1>1, <1>2, InitForward, NextForward, PTL DEF Spec

(* A process that starts leaves the forwards of the others of its group    *)
(* alone (_InitHostLocked()).                                              *)
THEOREM SiblingsAreSpared == ASSUME ForwarderAssumption PROVE Spec => [][SiblingsSpared]_vars
<1>1. ForwardInv /\ [Next]_vars => SiblingsSpared
  <2> SUFFICES ASSUME ForwardInv, [Next]_vars, NEW p \in Procs, NEW q \in Procs, pc[p] = "instance",
                      pc'[p] \notin {"instance", "idle"}, instance[q],
                      \A r \in Procs : Group[r] = Group[p]
               PROVE  forwards' = forwards
    BY DEF SiblingsSpared
  <2>1. pidFile = Group[p]
    BY DEF ForwardInv, InstanceInv
  <2>2. PICK r \in Procs : Act(r)
    BY NextIsAct DEF vars
  <2>3. r = p
    BY <2>2, ControlStep
  <2> QED
    BY <2>1, <2>2, <2>3 DEF Act, Acquire, Dies, Step, HasInstance, JoinHost, StartHost, StartHostFails,
       DeviceReady, InitDevice, InitDeviceFails, MapPair, MapUnclear, MapRefused,
       MapRefusedKillFails, UnmapUnknown, UnmapPort, UnmapKeyError, UnmapAll, CleanEntry, Cleaned,
       KillDevice, KillHost, Done
<1> QED
  BY <1>1, InitForward, NextForward, PTL DEF Spec

(* A process that gets its instance finds the host daemon of its own group *)
(* or starts one (_GetInstanceLocked()).                                   *)
THEOREM HostIsOwn == ASSUME ForwarderAssumption PROVE Spec => [][OwnHost]_vars
<1>1. ForwardInv /\ [Next]_vars => OwnHost
  BY NextIsAct, InstanceStep, ControlStep DEF OwnHost, vars
<1> QED
  BY <1>1, InitForward, NextForward, PTL DEF Spec

----------------------------------------------------------------------------
(***************************************************************************)
(* The blacklist and the recovery.                                         *)
(***************************************************************************)

PoolSteps == {"ask", "asked", "done", "see", "reboot", "wait", "end"}

(* A device waits for its reboot only if it should be rebooted.            *)
RebootInv ==
  /\ poolPc \in [PoolDevices -> PoolSteps]
  /\ health \in [PoolDevices -> {"ok", "low", "hung", "bad"}]
  /\ phase = "recover" => \A d \in PoolDevices : poolPc[d] = "reboot" => ShouldReboot(d)

LEMMA InitReboot == PoolInit => RebootInv
  BY DEF PoolInit, RebootInv, PoolSteps

LEMMA NextReboot == RebootInv /\ [PoolNext]_poolVars => RebootInv'
<1> SUFFICES ASSUME RebootInv, [PoolNext]_poolVars PROVE RebootInv'
  OBVIOUS
<1> USE DEF RebootInv, ShouldReboot, PoolSteps
<1>1. CASE Reset
  BY <1>1 DEF Reset
<1>2. CASE KillAllAdb \/ (\E d \in PoolDevices : ResetUsb(d)) \/ StartRecovery \/ Ends \/ AlienExtends
  BY <1>2 DEF KillAllAdb, ResetUsb, StartRecovery, Ends, AlienExtends
<1>3. ASSUME NEW t, OfFile(t) PROVE RebootInv'
  BY <1>3 DEF OfFile, ExtendReads, ExtendOpens, ExtendDumps
<1>4. ASSUME NEW d \in PoolDevices, Ask(d) \/ Asked(d) \/ See(d) \/ WaitUntilFullyBooted(d) PROVE RebootInv'
  BY <1>4 DEF Ask, Asked, See, WaitUntilFullyBooted
<1>5. ASSUME NEW d \in PoolDevices, Reboot(d) PROVE RebootInv'
  <2>1. health' \in [PoolDevices -> {"ok", "low", "hung", "bad"}]
    BY <1>5 DEF Reboot
  <2> QED
    BY <1>5, <2>1 DEF Reboot
<1>6. CASE UNCHANGED poolVars
  BY <1>6 DEF poolVars
<1> QED
  BY <1>1, <1>2, <1>3, <1>4, <1>5, <1>6 DEF PoolNext, OfMain, PoolOfDevice

(* Only a device that was blacklisted, or that adb or USB gave cause for,  *)
(* is rebooted, even when another process extends the blacklist beside the *)
(* recovery (RecoverDevice()).                                             *)
THEOREM OnlyBadRebooted == PoolSpec => [][GoodStayUp]_poolVars
<1>1. RebootInv /\ [PoolNext]_poolVars => GoodStayUp
  <2> SUFFICES ASSUME RebootInv, [PoolNext]_poolVars, NEW d \in PoolDevices, health[d] = "ok",
                      ~ShouldReboot(d)
               PROVE  health'[d] = "ok"
    BY DEF GoodStayUp, ShouldReboot
  <2>1. CASE UNCHANGED health
    BY <2>1
  <2>2. ASSUME NEW e \in PoolDevices, Reboot(e) PROVE health'[d] = "ok"
    <3>1. e # d
      BY <2>2 DEF Reboot, RebootInv
    <3> QED
      BY <2>2, <3>1 DEF Reboot, RebootInv
  <2> QED
    BY <2>1, <2>2 DEF PoolNext, OfMain, PoolOfDevice, OfFile, poolVars, Reset, KillAllAdb, ResetUsb,
       StartRecovery, Ends, AlienExtends, ExtendReads, ExtendOpens, ExtendDumps, Ask, Asked, See,
       WaitUntilFullyBooted
<1> QED
  BY InitReboot, NextReboot, <1>1, PTL DEF PoolSpec

----------------------------------------------------------------------------

Uses(t) == ext[t].at \in {"open", "dump"}
Extends == [at : {"no", "lock", "open", "dump"}, add : Threads \cup {None}, copy : SUBSET Threads]

(* What is in the blacklist, or will be when who writes it is done.        *)
Listed == IF poolLock["own"] = None THEN Read ELSE ext[poolLock["own"]].copy

(* The lock keeps the writers apart, and what was added stays.             *)
BlacklistInv ==
  /\ ext \in [Threads -> Extends]
  /\ poolLock \in [{"own", "other"} -> Threads \cup {None}]
  /\ PoolFree(Alien)
  /\ \A t \in Threads : Uses(t) <=> poolLock["own"] = t
  /\ file \in [is : {"absent", "torn", "whole"}, set : SUBSET Threads]
  /\ poolLock["own"] = None => file.is # "torn"
  /\ \A t \in Threads :
       /\ ~PoolFree(t) => ext[t].add \in Threads
       /\ Uses(t) => ext[t].add \in ext[t].copy
  /\ added \subseteq Listed

LEMMA InitBlacklist == ASSUME DevicePoolAssumption PROVE PoolInit => BlacklistInv
<1> SUFFICES ASSUME PoolInit PROVE BlacklistInv
  OBVIOUS
<1>1. PoolIdle \in Extends
  BY DEF PoolIdle, Extends
<1>2. /\ NoFile \in [is : {"absent", "torn", "whole"}, set : SUBSET Threads] /\ NoFile.is # "torn"
      /\ Whole(PoolDevices) \in [is : {"absent", "torn", "whole"}, set : SUBSET Threads]
      /\ Whole(PoolDevices).is # "torn"
  BY DEF NoFile, Whole, Threads
<1> QED
  BY <1>1, <1>2 DEF PoolInit, BlacklistInv, PoolFree, Uses, PoolIdle, DevicePoolAssumption, Threads

(* A thread at the file keeps what is listed, and adds to it at the end.   *)
LEMMA FileStep ==
  ASSUME DevicePoolAssumption, BlacklistInv, NEW t \in Threads, OfFile(t)
  PROVE  /\ BlacklistInv'
         /\ Listed \subseteq Listed'
         /\ ~PoolFree(t)
         /\ \A u \in Threads \ {t} : ext'[u] = ext[u]
         /\ PoolFree(t)' => ext[t].add \in Listed'
         /\ ~PoolFree(t)' => ext'[t].add = ext[t].add
         /\ UNCHANGED <<health, adb, usb, phase, poolPc, status, restart, resets>>
<1> USE DEF BlacklistInv, Uses, PoolFree
<1>1. t # Alien /\ Process(t) = "own" /\ t # None
  BY DEF OfFile, ExtendReads, ExtendOpens, ExtendDumps, Process, DevicePoolAssumption, Threads
<1>2. ext[t] \in Extends /\ ext[t] = [at |-> ext[t].at, add |-> ext[t].add, copy |-> ext[t].copy]
  BY DEF Extends
<1>3. UNCHANGED <<health, adb, usb, phase, poolPc, status, restart, resets>>
  BY DEF OfFile, ExtendReads, ExtendOpens, ExtendDumps
<1>4. CASE ExtendReads(t)
  <2>1. /\ ext[t].at = "lock" /\ poolLock["own"] = None /\ file.is # "torn"
        /\ UNCHANGED <<file, added>>
    BY <1>1, <1>4 DEF ExtendReads, AfterRead
  <2>2. Read \subseteq Threads /\ ext[t].add \in Threads
    BY <2>1 DEF Read
  <2> DEFINE e == [at |-> "open", add |-> ext[t].add, copy |-> Read \cup {ext[t].add}]
  <2>3. ext' = [ext EXCEPT ![t] = e] /\ e \in Extends
    <3>1. ext' = [ext EXCEPT ![t].at = "open", ![t].copy = Read \cup {ext[t].add}]
      BY <1>4 DEF ExtendReads
    <3>2. [[ext[t] EXCEPT !.at = "open"] EXCEPT !.copy = Read \cup {ext[t].add}] = e
      <4> DEFINE s == [at |-> "open", add |-> ext[t].add, copy |-> ext[t].copy]
      <4>1. [ext[t] EXCEPT !.at = "open"] = s
        BY <1>2
      <4>2. ASSUME NEW c PROVE [s EXCEPT !.copy = c] = [at |-> "open", add |-> ext[t].add, copy |-> c]
        OBVIOUS
      <4>3. [s EXCEPT !.copy = Read \cup {ext[t].add}] = e
        BY <4>2
      <4> HIDE DEF s, e
      <4> QED
        BY <4>1, <4>3
    <3>3. ext' = [ext EXCEPT ![t] = [[ext[t] EXCEPT !.at = "open"] EXCEPT !.copy = Read \cup {ext[t].add}]]
      BY <3>1
    <3>4. e \in Extends
      BY <1>2, <2>2 DEF Extends
    <3> QED
      BY <3>2, <3>3, <3>4
  <2>4. poolLock' \in [{"own", "other"} -> Threads \cup {None}] /\ poolLock'["own"] = t
    BY <1>1, <1>4 DEF ExtendReads
  <2>5. /\ ext' \in [Threads -> Extends] /\ ext'[t] = e /\ \A u \in Threads \ {t} : ext'[u] = ext[u]
    BY <2>3
  <2>6. Listed' = Read \cup {ext[t].add} /\ Listed = Read
    BY <1>1, <2>1, <2>4, <2>5 DEF Listed
  <2>7. BlacklistInv'
    BY <1>1, <2>1, <2>2, <2>4, <2>5, <2>6 DEF DevicePoolAssumption, Threads
  <2> QED
    BY <1>3, <2>1, <2>5, <2>6, <2>7
<1>5. CASE ExtendOpens(t)
  <2>1. /\ ext[t].at = "open" /\ poolLock["own"] = t
        /\ UNCHANGED <<poolLock, added>> /\ file' = [is |-> "torn", set |-> {}]
    BY <1>5 DEF ExtendOpens
  <2> DEFINE e == [at |-> "dump", add |-> ext[t].add, copy |-> ext[t].copy]
  <2>2. ext' = [ext EXCEPT ![t] = e] /\ e \in Extends
    <3>1. ext' = [ext EXCEPT ![t] = [ext[t] EXCEPT !.at = "dump"]]
      BY <1>5 DEF ExtendOpens
    <3>2. [ext[t] EXCEPT !.at = "dump"] = e
      BY <1>2
    <3>3. e \in Extends
      BY <1>2 DEF Extends
    <3> QED
      BY <3>1, <3>2, <3>3
  <2>3. /\ ext' \in [Threads -> Extends] /\ ext'[t] = e /\ \A u \in Threads \ {t} : ext'[u] = ext[u]
    BY <2>2
  <2>4. Listed' = Listed
    BY <1>1, <2>1, <2>3 DEF Listed
  <2>5. file' \in [is : {"absent", "torn", "whole"}, set : SUBSET Threads]
    BY <2>1
  <2>6. \A u \in Threads : Uses(u)' <=> Uses(u)
    BY <2>1, <2>3
  <2>7. \A u \in Threads :
          /\ ext'[u].add = ext[u].add /\ ext'[u].copy = ext[u].copy
          /\ PoolFree(u)' <=> PoolFree(u)
    BY <2>1, <2>3
  <2>8. /\ PoolFree(Alien)' /\ poolLock'["own"] # None
        /\ \A u \in Threads : Uses(u)' <=> poolLock'["own"] = u
    BY <1>1, <2>1, <2>6, <2>7 DEF Threads
  <2>9. ASSUME NEW u \in Threads
        PROVE  /\ ~PoolFree(u)' => ext'[u].add \in Threads
               /\ Uses(u)' => ext'[u].add \in ext'[u].copy
    BY <2>6, <2>7
  <2>10. BlacklistInv'
    BY <2>1, <2>3, <2>4, <2>5, <2>8, <2>9
  <2> QED
    BY <1>3, <2>1, <2>3, <2>4, <2>10
<1>6. CASE ExtendDumps(t)
  <2>1. /\ ext[t].at = "dump" /\ poolLock["own"] = t
        /\ file' = Whole(ext[t].copy) /\ added' = added \cup {ext[t].add}
    BY <1>6 DEF ExtendDumps
  <2>2. ext' = [ext EXCEPT ![t] = PoolIdle] /\ PoolIdle \in Extends
    BY <1>6 DEF ExtendDumps, PoolIdle, Extends
  <2>3. /\ ext' \in [Threads -> Extends] /\ ext'[t] = PoolIdle /\ \A u \in Threads \ {t} : ext'[u] = ext[u]
    BY <2>2
  <2>4. poolLock' \in [{"own", "other"} -> Threads \cup {None}] /\ poolLock'["own"] = None
    BY <1>1, <1>6 DEF ExtendDumps
  <2>5. Listed = ext[t].copy /\ Listed' = ext[t].copy
    BY <1>1, <2>1, <2>4 DEF Listed, Read, Whole
  <2>6. file' \in [is : {"absent", "torn", "whole"}, set : SUBSET Threads] /\ file'.is # "torn"
    BY <1>2, <2>1 DEF Extends, Whole
  <2>7. ext[t].add \in ext[t].copy /\ ext[t].add # None
    BY <2>1 DEF DevicePoolAssumption, Threads
  <2>8. \A u \in Threads : ~Uses(u)'
    BY <2>1, <2>3 DEF PoolIdle
  <2>9. BlacklistInv'
    BY <1>1, <2>1, <2>3, <2>4, <2>5, <2>6, <2>7, <2>8 DEF DevicePoolAssumption, Threads, PoolIdle
  <2> QED
    BY <1>3, <2>1, <2>3, <2>5, <2>7, <2>9 DEF PoolIdle
<1> QED
  BY <1>4, <1>5, <1>6 DEF OfFile

(* A step that only asks for an extension, or not even that.               *)
LEMMA NoFileStep ==
  ASSUME DevicePoolAssumption, BlacklistInv, UNCHANGED <<file, poolLock, added>>,
         \/ UNCHANGED ext
         \/ \E t \in PoolDevices \cup {Main}, d \in PoolDevices : PoolFree(t) /\ Extend(t, d)
  PROVE  BlacklistInv' /\ Listed' = Listed
<1>1. CASE UNCHANGED ext
  BY <1>1 DEF BlacklistInv, Uses, PoolFree, Listed, Read
<1>2. ASSUME NEW t \in PoolDevices \cup {Main}, NEW d \in PoolDevices, PoolFree(t),
             ext' = [ext EXCEPT ![t] = [at |-> "lock", add |-> d, copy |-> {}]]
      PROVE  BlacklistInv' /\ Listed' = Listed
  <2>1. t \in Threads /\ t # Alien /\ d \in Threads
    BY DEF Threads, DevicePoolAssumption
  <2>2. [at |-> "lock", add |-> d, copy |-> {}] \in Extends
    BY <2>1 DEF Extends
  <2>3. /\ ext' \in [Threads -> Extends]
        /\ ext'[t].at = "lock" /\ ext'[t].add = d
        /\ \A u \in Threads \ {t} : ext'[u] = ext[u]
    BY <1>2, <2>1, <2>2 DEF BlacklistInv
  <2>4. \A u \in Threads : Uses(u)' <=> Uses(u)
    BY <1>2, <2>3 DEF Uses, PoolFree
  <2>5. poolLock["own"] # t
    BY <1>2, <2>1 DEF BlacklistInv, Uses, PoolFree
  <2>6. Listed' = Listed
    <3>1. poolLock["own"] \in Threads \cup {None}
      BY DEF BlacklistInv
    <3> QED
      BY <2>3, <2>5, <3>1 DEF Listed, Read
  <2>7. ASSUME NEW u \in Threads
        PROVE  /\ ~PoolFree(u)' => ext'[u].add \in Threads
               /\ Uses(u)' => ext'[u].add \in ext'[u].copy
    <3>1. CASE u = t
      BY <2>1, <2>3, <3>1 DEF Uses
    <3>2. CASE u # t
      BY <2>3, <3>2 DEF BlacklistInv, Uses, PoolFree
    <3> QED
      BY <3>1, <3>2
  <2>8. PoolFree(Alien)'
    BY <2>1, <2>3 DEF BlacklistInv, PoolFree, Threads
  <2> QED
    BY <2>3, <2>4, <2>6, <2>7, <2>8 DEF BlacklistInv
<1> QED
  BY <1>1, <1>2 DEF Extend

Sound(d) == health[d] \in {"ok", "low"}
Soon(d) == Sound(d) \/ d \in Listed \/ ~PoolFree(d)

(* Which threads may be at the file in which phase, and what is known of   *)
(* every device.                                                           *)
PhaseInv ==
  /\ phase \in {"status", "adb", "usb", "recover", "done"}
  /\ phase # "usb" => PoolFree(Main)
  /\ \A d \in PoolDevices :
       /\ ~PoolFree(d) => ext[d].add = d
       /\ phase \in {"adb", "usb", "done"} => PoolFree(d)
       /\ phase = "status" => /\ poolPc[d] \in {"ask", "asked", "done"}
                              /\ poolPc[d] # "asked" => PoolFree(d)
       /\ phase = "recover" => /\ poolPc[d] \in {"see", "reboot", "wait", "end"}
                               /\ poolPc[d] \in {"see", "reboot"} => PoolFree(d)

KnownInv ==
  \A d \in PoolDevices :
    /\ phase = "status" /\ poolPc[d] = "asked" => Soon(d)
    /\ (\/ phase = "status" /\ poolPc[d] = "done"
        \/ phase \in {"adb", "usb"}
        \/ phase = "recover" /\ poolPc[d] = "see") => Sound(d) \/ d \in status
    /\ phase = "recover" /\ poolPc[d] = "end" => Soon(d)
    /\ phase = "done" => Sound(d) \/ d \in Listed

RecoverInv == RebootInv /\ BlacklistInv /\ PhaseInv /\ (WithBlacklist => KnownInv)

LEMMA InitRecover == ASSUME DevicePoolAssumption PROVE PoolInit => RecoverInv
<1>1. PoolInit => PhaseInv /\ KnownInv
  BY DEF PoolInit, PhaseInv, KnownInv, PoolFree, PoolIdle, Threads
<1> QED
  BY <1>1, InitReboot, InitBlacklist DEF RecoverInv

(* Nobody may read the file but when it is whole.                          *)
LEMMA ReadIsListed ==
  ASSUME BlacklistInv, CanRead PROVE AfterRead = file /\ Read = Listed
  BY DEF BlacklistInv, CanRead, AfterRead, Listed

(* While one device takes a step, the others are as they were.             *)
LEMMA OneDevice ==
  ASSUME DevicePoolAssumption, RecoverInv, NEW d \in PoolDevices,
         UNCHANGED <<phase, restart>>, phase \in {"status", "recover"},
         BlacklistInv', Listed \subseteq Listed',
         \A t \in Threads \ {d} : ext'[t] = ext[t],
         \A c \in PoolDevices \ {d} : poolPc'[c] = poolPc[c] /\ health'[c] = health[c],
         status \subseteq status',
         ~PoolFree(d)' => ext'[d].add = d,
         phase = "status" => /\ poolPc'[d] \in {"ask", "asked", "done"}
                             /\ poolPc'[d] # "asked" => PoolFree(d)'
                             /\ WithBlacklist /\ poolPc'[d] = "asked" => Soon(d)'
                             /\ WithBlacklist /\ poolPc'[d] = "done" => Sound(d)' \/ d \in status',
         phase = "recover" => /\ poolPc'[d] \in {"see", "reboot", "wait", "end"}
                              /\ poolPc'[d] \in {"see", "reboot"} => PoolFree(d)'
                              /\ WithBlacklist /\ poolPc'[d] = "see" => Sound(d)' \/ d \in status'
                              /\ WithBlacklist /\ poolPc'[d] = "end" => Soon(d)'
  PROVE  PhaseInv' /\ (WithBlacklist => KnownInv')
<1>1. /\ Main \in Threads \ {d} /\ \A c \in PoolDevices \ {d} : c \in Threads \ {d}
  BY DEF Threads, DevicePoolAssumption
<1>2. PoolFree(Main)'
  BY <1>1 DEF RecoverInv, PhaseInv, PoolFree
<1>3. \A c \in PoolDevices \ {d} :
        /\ ext'[c] = ext[c] /\ (PoolFree(c)' <=> PoolFree(c))
        /\ (Sound(c)' <=> Sound(c)) /\ (Soon(c) => Soon(c)')
  BY <1>1 DEF PoolFree, Sound, Soon
<1>4. PhaseInv'
  BY <1>2, <1>3 DEF RecoverInv, PhaseInv
<1>5. WithBlacklist => KnownInv'
  BY <1>3 DEF RecoverInv, PhaseInv, KnownInv
<1> QED
  BY <1>4, <1>5

LEMMA DeviceStep ==
  ASSUME DevicePoolAssumption, RecoverInv, NEW d \in PoolDevices,
         Ask(d) \/ Asked(d) \/ See(d) \/ Reboot(d) \/ WaitUntilFullyBooted(d)
  PROVE  RecoverInv'
<1> /\ poolPc \in [PoolDevices -> PoolSteps]
    /\ health \in [PoolDevices -> {"ok", "low", "hung", "bad"}]
    /\ ext \in [Threads -> Extends] /\ d \in Threads
    /\ ~PoolFree(d) => ext[d].add = d
  BY DEF RecoverInv, RebootInv, BlacklistInv, PhaseInv, Threads
<1>1. RebootInv'
  BY NextReboot DEF PoolNext, PoolOfDevice, RecoverInv
<1>2. Extend(d, d) => /\ WithBlacklist => ~PoolFree(d)' /\ ext'[d].add = d
                      /\ ~WithBlacklist => ext' = ext
                      /\ \A t \in Threads \ {d} : ext'[t] = ext[t]
  BY DEF Extend, PoolFree
<1>3. CASE Ask(d)
  <2>1. /\ phase = "status" /\ PoolFree(d) /\ CanRead /\ poolPc' = [poolPc EXCEPT ![d] = "asked"]
        /\ UNCHANGED <<health, poolLock, phase, status, restart, added>>
    BY <1>3 DEF Ask, RecoverInv, PhaseInv
  <2>2. UNCHANGED file /\ Read = Listed
    BY <1>3, <2>1, ReadIsListed DEF Ask, RecoverInv
  <2>3. \/ UNCHANGED ext /\ (IsBlacklisted(d) \/ Sound(d))
        \/ Extend(d, d)
    BY <1>3 DEF Ask, BatteryStatus, Sound
  <2>4. BlacklistInv' /\ Listed' = Listed
    BY <2>1, <2>2, <2>3, NoFileStep DEF RecoverInv
  <2>5. WithBlacklist => Soon(d)'
    BY <1>2, <2>1, <2>2, <2>3, <2>4 DEF IsBlacklisted, Soon, Sound
  <2>6. /\ \A t \in Threads \ {d} : ext'[t] = ext[t]
        /\ ~PoolFree(d)' => ext'[d].add = d
    BY <1>2, <2>3 DEF PoolFree
  <2> QED
    BY <1>1, <2>1, <2>4, <2>5, <2>6, OneDevice DEF RecoverInv
<1>4. CASE Asked(d)
  <2>1. /\ phase = "status" /\ poolPc[d] = "asked" /\ PoolFree(d) /\ CanRead
        /\ poolPc' = [poolPc EXCEPT ![d] = "done"]
        /\ status' = IF IsBlacklisted(d) THEN status \cup {d} ELSE status
        /\ UNCHANGED <<health, poolLock, ext, phase, restart, added>>
    BY <1>4 DEF Asked
  <2>2. UNCHANGED file /\ Read = Listed
    BY <1>4, <2>1, ReadIsListed DEF Asked, RecoverInv
  <2>3. BlacklistInv' /\ Listed' = Listed
    BY <2>1, <2>2, NoFileStep DEF RecoverInv
  <2>4. WithBlacklist => Sound(d) \/ d \in Listed
    BY <2>1 DEF RecoverInv, KnownInv, Soon
  <2>5. WithBlacklist => Sound(d)' \/ d \in status'
    BY <2>1, <2>2, <2>4 DEF IsBlacklisted, Sound
  <2>6. PoolFree(d)'
    BY <2>1 DEF PoolFree
  <2> QED
    BY <1>1, <2>1, <2>3, <2>5, <2>6, OneDevice DEF RecoverInv
<1>5. CASE See(d)
  <2>1. /\ phase = "recover" /\ poolPc[d] = "see" /\ PoolFree(d) /\ CanRead
        /\ poolPc' = [poolPc EXCEPT ![d] = IF IsBlacklisted(d) \/ ~ShouldReboot(d)
                                           THEN "end" ELSE "reboot"]
        /\ UNCHANGED <<health, poolLock, ext, phase, status, restart, added>>
    BY <1>5 DEF See, RecoverInv, PhaseInv
  <2>2. UNCHANGED file /\ Read = Listed
    BY <1>5, <2>1, ReadIsListed DEF See, RecoverInv
  <2>3. BlacklistInv' /\ Listed' = Listed
    BY <2>1, <2>2, NoFileStep DEF RecoverInv
  <2>4. WithBlacklist => Sound(d) \/ d \in status
    BY <2>1 DEF RecoverInv, KnownInv
  <2>5. WithBlacklist /\ poolPc'[d] = "end" => Soon(d)'
    BY <2>1, <2>2, <2>3, <2>4 DEF IsBlacklisted, ShouldReboot, Soon, Sound
  <2>6. PoolFree(d)' /\ poolPc'[d] \in {"reboot", "end"}
    BY <2>1 DEF PoolFree
  <2> QED
    BY <1>1, <2>1, <2>3, <2>5, <2>6, OneDevice DEF RecoverInv
<1>6. CASE Reboot(d)
  <2>1. /\ phase = "recover" /\ PoolFree(d) /\ poolPc' = [poolPc EXCEPT ![d] = "wait"]
        /\ UNCHANGED ext \/ Extend(d, d)
        /\ UNCHANGED <<file, poolLock, phase, status, restart, added>>
    BY <1>6 DEF Reboot, RecoverInv, PhaseInv
  <2>2. BlacklistInv' /\ Listed' = Listed
    BY <2>1, NoFileStep DEF RecoverInv
  <2>3. \A c \in PoolDevices \ {d} : health'[c] = health[c]
    BY <1>6 DEF Reboot
  <2>4. /\ \A t \in Threads \ {d} : ext'[t] = ext[t]
        /\ ~PoolFree(d)' => ext'[d].add = d
    BY <1>2, <2>1 DEF PoolFree, DevicePoolAssumption
  <2> QED
    BY <1>1, <2>1, <2>2, <2>3, <2>4, OneDevice DEF RecoverInv
<1>7. CASE WaitUntilFullyBooted(d)
  <2>1. /\ phase = "recover" /\ PoolFree(d) /\ poolPc' = [poolPc EXCEPT ![d] = "end"]
        /\ IF health[d] \in {"ok", "low"} THEN UNCHANGED ext ELSE Extend(d, d)
        /\ UNCHANGED <<health, file, poolLock, phase, status, restart, added>>
    BY <1>7 DEF WaitUntilFullyBooted
  <2>2. BlacklistInv' /\ Listed' = Listed
    BY <2>1, NoFileStep DEF RecoverInv
  <2>3. /\ \A t \in Threads \ {d} : ext'[t] = ext[t]
        /\ ~PoolFree(d)' => ext'[d].add = d
    BY <1>2, <2>1 DEF PoolFree, DevicePoolAssumption
  <2>4. WithBlacklist => Soon(d)'
    BY <1>2, <2>1 DEF Soon, Sound
  <2> QED
    BY <1>1, <2>1, <2>2, <2>3, <2>4, OneDevice DEF RecoverInv
<1> QED
  BY <1>3, <1>4, <1>5, <1>6, <1>7

LEMMA WriterStep ==
  ASSUME DevicePoolAssumption, RecoverInv, NEW t \in Threads, OfFile(t) PROVE RecoverInv'
<1>1. BlacklistInv
  BY DEF RecoverInv
<1> USE FileStep
<1>2. /\ BlacklistInv' /\ Listed \subseteq Listed' /\ ~PoolFree(t)
      /\ \A u \in Threads \ {t} : ext'[u] = ext[u]
      /\ PoolFree(t)' => ext[t].add \in Listed'
      /\ ~PoolFree(t)' => ext'[t].add = ext[t].add
      /\ UNCHANGED <<health, phase, poolPc, status, restart>>
  BY <1>1
<1>3. RebootInv'
  BY <1>2 DEF RecoverInv, RebootInv, ShouldReboot
<1>4. \A d \in PoolDevices :
        /\ d \in Threads
        /\ PoolFree(d) => PoolFree(d)'
        /\ ~PoolFree(d)' => ext'[d].add = ext[d].add
        /\ PoolFree(d)' => PoolFree(d) \/ d \in Listed'
        /\ Soon(d) => Soon(d)'
  <2> SUFFICES ASSUME NEW d \in PoolDevices
               PROVE  /\ d \in Threads
                      /\ PoolFree(d) => PoolFree(d)'
                      /\ ~PoolFree(d)' => ext'[d].add = ext[d].add
                      /\ PoolFree(d)' => PoolFree(d) \/ d \in Listed'
                      /\ Soon(d) => Soon(d)'
    OBVIOUS
  <2>1. d \in Threads /\ (~PoolFree(d) => ext[d].add = d)
    BY DEF Threads, RecoverInv, PhaseInv
  <2>2. CASE d = t
    BY <1>2, <2>1, <2>2 DEF Soon, Sound, PoolFree
  <2>3. CASE d # t
    BY <1>2, <2>1, <2>3 DEF Soon, Sound, PoolFree
  <2> QED
    BY <2>2, <2>3
<1>5. PoolFree(Main) => PoolFree(Main)'
  BY <1>2 DEF PoolFree, Threads
<1>6. PhaseInv'
  BY <1>2, <1>4, <1>5 DEF RecoverInv, PhaseInv
<1>7. WithBlacklist => KnownInv'
  BY <1>2, <1>4 DEF RecoverInv, KnownInv, Sound
<1> QED
  BY <1>2, <1>3, <1>6, <1>7 DEF RecoverInv

LEMMA MainStep ==
  ASSUME DevicePoolAssumption, RecoverInv,
         Reset \/ KillAllAdb \/ (\E d \in PoolDevices : ResetUsb(d)) \/ StartRecovery \/ Ends
  PROVE  RecoverInv'
<1> /\ poolPc \in [PoolDevices -> PoolSteps] /\ ext \in [Threads -> Extends]
    /\ Main \in Threads /\ PoolDevices \subseteq Threads
  BY DEF RecoverInv, RebootInv, BlacklistInv, Threads
<1>1. RebootInv'
  BY NextReboot DEF PoolNext, OfMain, RecoverInv
<1>2. CASE Reset
  <2>1. /\ phase = "status" /\ phase' = "adb" /\ \A d \in PoolDevices : poolPc[d] = "done"
        /\ UNCHANGED <<health, ext, poolPc, poolLock, status>> /\ added' = {}
        /\ file' = IF WithBlacklist THEN NoFile ELSE file
    BY <1>2 DEF Reset
  <2>2. \A t \in Threads : PoolFree(t)
    BY <2>1 DEF RecoverInv, PhaseInv, BlacklistInv, Threads
  <2>3. poolLock["own"] = None
    BY <2>2 DEF RecoverInv, BlacklistInv, Uses, PoolFree
  <2>4. /\ file' \in [is : {"absent", "torn", "whole"}, set : SUBSET Threads]
        /\ file'.is # "torn"
    BY <2>1, <2>3 DEF RecoverInv, BlacklistInv, NoFile
  <2>5. BlacklistInv'
    BY <2>1, <2>2, <2>3, <2>4 DEF RecoverInv, BlacklistInv, Uses, PoolFree
  <2>6. PhaseInv'
    BY <2>1, <2>2 DEF RecoverInv, PhaseInv, PoolFree
  <2>7. WithBlacklist => KnownInv'
    BY <2>1 DEF RecoverInv, KnownInv, Sound
  <2> QED
    BY <1>1, <2>5, <2>6, <2>7 DEF RecoverInv
<1>3. CASE KillAllAdb
  <2>1. /\ phase = "adb" /\ phase' = "usb"
        /\ UNCHANGED <<health, file, poolLock, ext, poolPc, status, restart, added>>
    BY <1>3 DEF KillAllAdb, blacklist
  <2>2. BlacklistInv' /\ Listed' = Listed
    BY <2>1, NoFileStep DEF RecoverInv
  <2> QED
    BY <1>1, <2>1, <2>2 DEF RecoverInv, PhaseInv, KnownInv, Sound, Soon, PoolFree
<1>4. ASSUME NEW d \in PoolDevices, ResetUsb(d) PROVE RecoverInv'
  <2>1. /\ phase = "usb" /\ PoolFree(Main) /\ (UNCHANGED ext \/ Extend(Main, d))
        /\ UNCHANGED <<health, file, poolLock, phase, poolPc, status, restart, added>>
    BY <1>4 DEF ResetUsb
  <2>2. BlacklistInv' /\ Listed' = Listed
    BY <2>1, NoFileStep DEF RecoverInv
  <2>3. \A c \in PoolDevices : ext'[c] = ext[c]
    BY <2>1 DEF Extend, DevicePoolAssumption
  <2>4. PhaseInv'
    BY <2>1, <2>3 DEF RecoverInv, PhaseInv, PoolFree
  <2>5. WithBlacklist => KnownInv'
    BY <2>1 DEF RecoverInv, KnownInv, Sound
  <2> QED
    BY <1>1, <2>2, <2>4, <2>5 DEF RecoverInv
<1>5. CASE StartRecovery
  <2>1. /\ phase = "usb" /\ phase' = "recover" /\ PoolFree(Main)
        /\ poolPc' = [d \in PoolDevices |-> "see"]
        /\ UNCHANGED <<health, file, poolLock, ext, status, restart, added>>
    BY <1>5 DEF StartRecovery, blacklist
  <2>2. BlacklistInv' /\ Listed' = Listed
    BY <2>1, NoFileStep DEF RecoverInv
  <2>3. PhaseInv' /\ (WithBlacklist => KnownInv')
    BY <2>1 DEF RecoverInv, PhaseInv, KnownInv, Sound, PoolFree
  <2> QED
    BY <1>1, <2>2, <2>3 DEF RecoverInv
<1>6. CASE Ends
  <2>1. /\ phase = "recover" /\ phase' = "done"
        /\ \A d \in PoolDevices : poolPc[d] = "end" /\ PoolFree(d)
        /\ UNCHANGED <<health, file, poolLock, ext, poolPc, status, restart, added>>
    BY <1>6 DEF Ends, blacklist
  <2>2. BlacklistInv' /\ Listed' = Listed
    BY <2>1, NoFileStep DEF RecoverInv
  <2>3. PhaseInv' /\ (WithBlacklist => KnownInv')
    BY <2>1, <2>2 DEF RecoverInv, PhaseInv, KnownInv, Sound, Soon, PoolFree
  <2> QED
    BY <1>1, <2>2, <2>3 DEF RecoverInv
<1> QED
  BY <1>2, <1>3, <1>4, <1>5, <1>6

LEMMA NextRecover ==
  ASSUME DevicePoolAssumption, ~AlienRuns PROVE RecoverInv /\ [PoolNext]_poolVars => RecoverInv'
<1> SUFFICES ASSUME RecoverInv, [PoolNext]_poolVars PROVE RecoverInv'
  OBVIOUS
<1>1. CASE UNCHANGED poolVars
  <2>1. BlacklistInv' /\ Listed' = Listed
    BY <1>1, NoFileStep DEF poolVars, blacklist, RecoverInv
  <2> QED
    BY <1>1, <2>1 DEF poolVars, blacklist, RecoverInv, RebootInv, ShouldReboot, PhaseInv, KnownInv, Sound,
       Soon, PoolFree
<1>2. ASSUME NEW d \in PoolDevices, PoolOfDevice(d) PROVE RecoverInv'
  BY <1>2, DeviceStep, WriterStep DEF PoolOfDevice, Threads
<1>3. CASE OfMain
  BY <1>3, MainStep, WriterStep DEF OfMain, Threads
<1>4. CASE OfFile(Alien)
  BY <1>4, WriterStep DEF Threads
<1>5. ~AlienExtends
  BY DEF AlienExtends
<1> QED
  BY <1>1, <1>2, <1>3, <1>4, <1>5 DEF PoolNext

(* What was added to the blacklist since it was erased is in it whenever   *)
(* nobody writes, with any number of threads that extend it at once, as    *)
(* long as no other process does (Blacklist.Extend()).                     *)
THEOREM AddedAreListed ==
  ASSUME DevicePoolAssumption, ~AlienRuns PROVE PoolSpec => []AddedStay
<1>1. RecoverInv => AddedStay
  BY DEF RecoverInv, BlacklistInv, AddedStay, Listed, Uses
<1> QED
  BY InitRecover, NextRecover, <1>1, PTL DEF PoolSpec

(* Under the same condition, every device has booted after a recovery, or  *)
(* is in the blacklist (RecoverDevices()).                                 *)
THEOREM RecoveredOrInList ==
  ASSUME DevicePoolAssumption, ~AlienRuns PROVE PoolSpec => []RecoveredOrListed
<1>1. RecoverInv => RecoveredOrListed
  <2> SUFFICES ASSUME RecoverInv, phase = "done", WithBlacklist, NEW d \in PoolDevices
               PROVE  health[d] \in {"ok", "low"} \/ d \in Read
    BY DEF RecoveredOrListed
  <2>1. \A t \in Threads : ~Uses(t)
    BY DEF RecoverInv, PhaseInv, BlacklistInv, Uses, PoolFree, Threads
  <2>2. poolLock["own"] = None
    BY <2>1 DEF RecoverInv, BlacklistInv
  <2> QED
    BY <2>2 DEF RecoverInv, KnownInv, Sound, Listed
<1> QED
  BY InitRecover, NextRecover, <1>1, PTL DEF PoolSpec

----------------------------------------------------------------------------
(* Proofs, for any set of devices: when nothing is taken from the          *)
(* blacklist, a device that adb showed when the round began and that is    *)
(* not polled is still blacklisted when the file is written, so the file   *)
(* has every device that was shown.                                        *)

NeverShrinks == Shrinking = FALSE

(* Who was shown and is not polled is blacklisted until the file is        *)
(* written, and only who was shown is polled.                              *)
BlacklistedInv ==
  NeverShrinks =>
    /\ main = "polls" => seen \ healthy \subseteq monitorBlacklist
    /\ EveryDeviceShown

MonitorInv ==
  /\ shown \subseteq MonitorDevices /\ seen \subseteq MonitorDevices /\ healthy \subseteq seen
  /\ monitorBlacklist \subseteq MonitorDevices
  /\ BlacklistedInv

LEMMA InitMonitor == MonitorInit => MonitorInv
  BY DEF MonitorInit, MonitorInv, BlacklistedInv, EveryDeviceShown

LEMMA StepMonitor == ASSUME MonitorAssumption PROVE MonitorInv /\ [MonitorNext]_monitorVars => MonitorInv'
<1> SUFFICES ASSUME MonitorInv, [MonitorNext]_monitorVars PROVE MonitorInv'
  OBVIOUS
<1> USE DEF MonitorAssumption, MonitorInv, BlacklistedInv, EveryDeviceShown, NeverShrinks
<1>1. CASE UNCHANGED monitorVars
  BY <1>1 DEF monitorVars
<1>2. CASE HealthyDevices
  BY <1>2 DEF HealthyDevices
<1>3. CASE PGetRaises \/ DevicesRaises
  BY <1>3 DEF PGetRaises, DevicesRaises
<1>4. CASE Open
  <2>1. DOMAIN monitorFile' = healthy \cup monitorBlacklist
    BY <1>4 DEF Open
  <2>2. \A d \in DOMAIN monitorFile' : monitorFile'[d] # "blacklisted" => d \in healthy
    BY <1>4, <2>1 DEF Open
  <2> QED
    BY <1>4, <2>1, <2>2 DEF Open
<1>5. CASE Dump
  BY <1>5 DEF Dump
<1>6. ASSUME NEW d \in MonitorDevices, Poll(d) PROVE MonitorInv'
  BY <1>6 DEF Poll, Answers, Fails, QueryTimesOut, Lost, Available
<1>9. ASSUME NEW d \in MonitorDevices, ComesOrGoes(d) PROVE MonitorInv'
  BY <1>9 DEF ComesOrGoes
<1>7. ASSUME NEW d \in MonitorDevices, AddTo(d) PROVE MonitorInv'
  BY <1>7 DEF AddTo
<1>8. ASSUME NEW d \in MonitorDevices, TakeFrom(d) PROVE MonitorInv'
  BY <1>8 DEF TakeFrom
<1> QED
  BY <1>1, <1>2, <1>3, <1>4, <1>5, <1>6, <1>7, <1>8, <1>9 DEF MonitorNext, MonitorMain

(* The file that main() writes has every device that adb showed when the   *)
(* round began, and polled ones besides the blacklisted only of those, if  *)
(* meanwhile devices are only added to the blacklist: whatever comes, goes *)
(* or is lost in between, and whichever query times out.                   *)
THEOREM EveryDeviceIsShown ==
  ASSUME MonitorAssumption, NeverShrinks PROVE MonitorSpec => []EveryDeviceShown
<1>1. MonitorInv => EveryDeviceShown
  BY DEF MonitorInv, BlacklistedInv, NeverShrinks
<1> QED
  BY <1>1, InitMonitor, StepMonitor, PTL DEF MonitorSpec

(* A device that is blacklisted while it is polled is shown as blacklisted:*)
(* main() reads the blacklist again before it writes.                      *)
THEOREM BlacklistIsShown == MonitorSpec => [][BlacklistWins]_monitorVars
<1>1. [MonitorNext]_monitorVars => [BlacklistWins]_monitorVars
  <2> USE DEF BlacklistWins
  <2>1. CASE Open
    BY <2>1 DEF Open
  <2>2. CASE HealthyDevices \/ DevicesRaises \/ PGetRaises \/ Dump
    BY <2>2 DEF HealthyDevices, DevicesRaises, PGetRaises, Dump
  <2>3. ASSUME NEW d \in MonitorDevices, Poll(d) \/ AddTo(d) \/ TakeFrom(d) \/ ComesOrGoes(d)
        PROVE main' = main
    BY <2>3 DEF Poll, Answers, Fails, QueryTimesOut, Lost, Available, AddTo, TakeFrom, ComesOrGoes
  <2> QED
    BY <2>1, <2>2, <2>3 DEF MonitorNext, MonitorMain
<1> QED
  BY <1>1, PTL DEF MonitorSpec

----------------------------------------------------------------------------
(***************************************************************************)
(* The changers of command line flags.                                     *)
(***************************************************************************)

(* Each changer has a file of its own, calls of several are nested, and    *)
(* only what ReplaceFlags() does may fail: the context manager restores.   *)
FlagSetting ==
  /\ FileOf \in [Changers -> Files]
  /\ \A c, d \in Changers : FileOf[c] = FileOf[d] => c = d
  /\ Nested /\ Failing \subseteq {"replace"} /\ Nougat \in BOOLEAN
  /\ MaxDepth \in Nat

FlagSets == SUBSET ChangerFlags
ReplaceSteps == {"getenforce", "permissive", "write", "read"}
RestoreSteps == {"enforcing", "write", "read"}
Running(c) == call[c] # ChangerIdle

FlagTypes ==
  /\ changerFile \in [Files -> FlagSets] /\ enforce \in BOOLEAN
  /\ stack \in [Changers -> Seq(FlagSets)] /\ reset \in [Changers -> BOOLEAN]
  /\ call \in [Changers -> {ChangerIdle, "replace", "restore"}]
  /\ changerStep \in [Changers -> {ChangerIdle} \cup ReplaceSteps \cup RestoreSteps]
  /\ open \in Seq(Changers) /\ first.file \in [Files -> FlagSets]

(* One call runs at a time, of the changer that was the last to change.    *)
RunningInv ==
  /\ \A c \in Changers : IF call[c] = "replace" THEN changerStep[c] \in ReplaceSteps
                         ELSE IF call[c] = "restore" THEN changerStep[c] \in RestoreSteps
                         ELSE changerStep[c] = ChangerIdle
  /\ \A c, d \in Changers : Running(c) /\ Running(d) => c = d
  /\ \A c \in Changers : Running(c) => open # <<>> /\ open[Len(open)] = c

(* A stack has what its file held at first, and one set more for each call *)
(* of ReplaceFlags() that is to be restored.                               *)
Places(c) == {i \in 1..Len(open) : open[i] = c}
Popping(c) == IF call[c] = "restore" THEN 1 ELSE 0

StackOf(c) ==
  IF stack[c] = <<>> THEN Places(c) = {} /\ changerFile[FileOf[c]] = first.file[FileOf[c]]
  ELSE /\ stack[c][1] = first.file[FileOf[c]]
       /\ Len(stack[c]) + Popping(c) = Cardinality(Places(c)) + 1
       /\ changerStep[c] \in {ChangerIdle, "read"} => stack[c][Len(stack[c])] = changerFile[FileOf[c]]
OtherFiles == \A f \in Files : (\A c \in Changers : FileOf[c] # f) => changerFile[f] = first.file[f]
StackInv == OtherFiles /\ \A c \in Changers : StackOf(c)

FlagInv == FlagTypes /\ RunningInv /\ StackInv

(* While nothing fails, it is the first changer that makes SELinux         *)
(* permissive, and its last Restore() that takes it back.                  *)
SelinuxInv ==
  /\ first.enforce \in BOOLEAN
  /\ \A c, d \in Changers : reset[c] /\ reset[d] => c = d
  /\ \A c \in Changers : reset[c] => /\ first.enforce /\ ~enforce
                                     /\ Len(stack[c]) >= 2 \/ changerStep[c] = "enforcing"
  /\ (\A c \in Changers : ~reset[c]) => enforce = first.enforce
  /\ \A c \in Changers : changerStep[c] = "permissive" => enforce
  /\ \A c \in Changers : changerStep[c] = "enforcing" => Len(stack[c]) = 1 /\ reset[c]
  /\ Nougat /\ first.enforce /\ open # <<>> =>
       \/ reset[open[1]]
       \/ Len(open) = 1 /\ changerStep[open[1]] \in {"getenforce", "permissive"}
       \/ Len(open) = 1 /\ call[open[1]] = "restore"


(***************************************************************************)
(* The two stacks: of the sets of one changer, and of the open calls.      *)
(***************************************************************************)

LEMMA TheFront ==
  ASSUME NEW S, NEW s \in Seq(S), s # <<>>
  PROVE  /\ Len(s) \in Nat \ {0} /\ Last(s) \in S /\ Last(s) = s[Len(s)]
         /\ Front(s) \in Seq(S) /\ Len(Front(s)) = Len(s) - 1
         /\ \A i \in 1..Len(s) - 1 : Front(s)[i] = s[i]
<1>1. Len(s) \in Nat \ {0} /\ \A i \in 1..Len(s) : s[i] \in S
  OBVIOUS
<1>2. Len(s) - 1 \in Int /\ \A i \in 1..Len(s) - 1 : s[i] \in S
  BY <1>1
<1>3. /\ SubSeq(s, 1, Len(s) - 1) \in Seq(S)
      /\ Len(SubSeq(s, 1, Len(s) - 1)) = IF 1 <= Len(s) - 1 THEN Len(s) - 1 - 1 + 1 ELSE 0
      /\ \A i \in 1..Len(s) - 1 - 1 + 1 : SubSeq(s, 1, Len(s) - 1)[i] = s[1 + i - 1]
  BY <1>2, SubSeqProperties
<1>4. \A i \in 1..Len(s) - 1 : SubSeq(s, 1, Len(s) - 1)[i] = s[i]
  <2> TAKE i \in 1..Len(s) - 1
  <2>1. i \in 1..Len(s) - 1 - 1 + 1 /\ 1 + i - 1 = i
    BY <1>1
  <2> QED
    BY <1>3, <2>1
<1>5. Front(s) = SubSeq(s, 1, Len(s) - 1)
  BY DEF Front
<1> HIDE DEF Front
<1>6. Len(Front(s)) = Len(s) - 1
  <2> DEFINE n == Len(s)
             m == Len(SubSeq(s, 1, Len(s) - 1))
  <2>1. n \in Nat \ {0} /\ m = IF 1 <= n - 1 THEN n - 1 - 1 + 1 ELSE 0
    BY <1>1, <1>3
  <2> HIDE DEF n, m
  <2>2. m = n - 1
    BY <2>1
  <2> QED
    BY <1>5, <2>2 DEF n, m
<1> QED
  BY <1>1, <1>3, <1>4, <1>5, <1>6 DEF Last

LEMMA FrontAndLast ==
  ASSUME NEW S, NEW s \in Seq(S), s # <<>>
  PROVE  Append(Front(s), Last(s)) = s
<1> DEFINE t == Append(Front(s), Last(s))
<1>1. t \in Seq(S) /\ Len(t) = Len(s) /\ \A i \in 1..Len(s) - 1 : t[i] = Front(s)[i]
  BY TheFront
<1>2. t[Len(s)] = s[Len(s)]
  BY TheFront
<1> HIDE DEF t
<1>3. ASSUME NEW i \in 1..Len(t) PROVE t[i] = s[i]
  <2>1. CASE i = Len(s)
    BY <1>2, <2>1
  <2>2. CASE i # Len(s)
    <3>1. i \in 1..Len(s) - 1 /\ \A j \in 1..Len(s) - 1 : Front(s)[j] = s[j]
      <4>1. i \in 1..Len(s) /\ Len(s) \in Nat
        BY <1>1, <1>3
      <4>2. i \in 1..Len(s) - 1
        BY <2>2, <4>1
      <4> QED
        BY <4>2, TheFront
    <3> QED
      BY <1>1, <3>1
  <2> QED
    BY <2>1, <2>2
<1>4. t = s
  BY <1>1, <1>3, SeqEqual
<1> QED
  BY <1>4 DEF t

LEMMA PushedOn ==
  ASSUME NEW S, NEW s \in Seq(S), NEW x \in S
  PROVE  /\ Append(s, x) \in Seq(S) /\ Len(Append(s, x)) = Len(s) + 1 /\ Append(s, x) # <<>>
         /\ Append(s, x)[Len(s) + 1] = x /\ \A i \in 1..Len(s) : Append(s, x)[i] = s[i]
OBVIOUS

LEMMA PlacesFinite ==
  ASSUME open \in Seq(Changers), NEW c \in Changers
  PROVE  IsFiniteSet(Places(c)) /\ Cardinality(Places(c)) \in Nat
<1>1. Places(c) \in SUBSET (1..Len(open)) /\ Len(open) \in Int
  BY DEF Places
<1>2. IsFiniteSet(1..Len(open))
  BY <1>1, FS_Interval
<1>3. IsFiniteSet(Places(c))
  BY <1>1, <1>2, FS_Subset
<1> QED
  BY <1>3, FS_CardinalityType

LEMMA PlaceOfLast ==
  ASSUME open \in Seq(Changers), NEW c \in Changers, open # <<>>, open[Len(open)] = c
  PROVE  Len(open) \in Places(c) /\ Cardinality(Places(c)) >= 1
<1>1. Len(open) \in Places(c)
  BY DEF Places
<1> QED
  BY <1>1, PlacesFinite, FS_EmptySet

(* Opening a call adds a place, closing the last one removes it.           *)
LEMMA PlacesOpened ==
  ASSUME open \in Seq(Changers), NEW c \in Changers, open' = Append(open, c)
  PROVE  /\ open' \in Seq(Changers) /\ open' # <<>> /\ Len(open') = Len(open) + 1 /\ open'[Len(open')] = c
         /\ \A i \in 1..Len(open) : open'[i] = open[i]
         /\ Cardinality(Places(c)') = Cardinality(Places(c)) + 1
         /\ \A d \in Changers \ {c} : Places(d)' = Places(d)
<1>1. /\ open' \in Seq(Changers) /\ open' # <<>> /\ Len(open') = Len(open) + 1
      /\ open'[Len(open) + 1] = c /\ \A i \in 1..Len(open) : open'[i] = open[i]
  BY PushedOn
<1>2. Len(open) \in Nat
  OBVIOUS
<1>3. Places(c)' = Places(c) \cup {Len(open) + 1} /\ Len(open) + 1 \notin Places(c)
  BY <1>1, <1>2 DEF Places
<1>4. \A d \in Changers \ {c} : Places(d)' = Places(d)
  BY <1>1, <1>2 DEF Places
<1>5. Cardinality(Places(c)') = Cardinality(Places(c)) + 1
  BY <1>3, PlacesFinite, FS_AddElement
<1> QED
  BY <1>1, <1>4, <1>5

LEMMA LastIsTaken ==
  ASSUME open \in Seq(Changers), NEW c \in Changers, open # <<>>, open[Len(open)] = c
  PROVE  Without(c) = Front(open)
<1> DEFINE Is(i) == i \in DOMAIN open /\ open[i] = c /\ \A j \in DOMAIN open : open[j] = c => j <= i
           n == CHOOSE i : Is(i)
<1>1. DOMAIN open = 1..Len(open) /\ Len(open) \in Nat \ {0}
  OBVIOUS
<1>2. Is(Len(open))
  BY <1>1
<1>3. \A i : Is(i) => i = Len(open)
  BY <1>1, <1>2
<1>4. n = Len(open)
  BY <1>2, <1>3
<1>5. n = CHOOSE i \in DOMAIN open : open[i] = c /\ \A j \in DOMAIN open : open[j] = c => j <= i
  OBVIOUS
<1> HIDE DEF n
<1>6. Without(c) = SubSeq(open, 1, Len(open) - 1) \o SubSeq(open, Len(open) + 1, Len(open))
  BY <1>4, <1>5 DEF Without
<1>7. SubSeq(open, Len(open) + 1, Len(open)) = <<>>
  BY <1>1, SubSeqEmpty
<1>8. Front(open) \in Seq(Changers)
  BY TheFront
<1> QED
  BY <1>6, <1>7, <1>8 DEF Front

LEMMA PlacesClosed ==
  ASSUME open \in Seq(Changers), NEW c \in Changers, open # <<>>, open[Len(open)] = c, open' = Without(c)
  PROVE  /\ open' \in Seq(Changers) /\ Len(open') = Len(open) - 1
         /\ \A i \in 1..Len(open) - 1 : open'[i] = open[i]
         /\ Cardinality(Places(c)') = Cardinality(Places(c)) - 1
         /\ \A d \in Changers \ {c} : Places(d)' = Places(d)
<1>1. open' = Front(open)
  BY LastIsTaken
<1>2. /\ open' \in Seq(Changers) /\ Len(open') = Len(open) - 1
      /\ \A i \in 1..Len(open) - 1 : open'[i] = open[i]
  BY <1>1, TheFront
<1>3. Len(open) \in Nat \ {0}
  OBVIOUS
<1>4. Places(c)' = Places(c) \ {Len(open)} /\ Len(open) \in Places(c)
  BY <1>2, <1>3 DEF Places
<1>5. \A d \in Changers \ {c} : Places(d)' = Places(d)
  BY <1>2, <1>3 DEF Places
<1>6. Cardinality(Places(c)') = Cardinality(Places(c)) - 1
  BY <1>4, PlacesFinite, FS_RemoveElement
<1> QED
  BY <1>2, <1>5, <1>6

(* A step of one changer: what the others have is not touched.             *)
Fits(kind, at) == \/ kind = "replace" /\ at \in ReplaceSteps
                  \/ kind = "restore" /\ at \in RestoreSteps
                  \/ kind = ChangerIdle /\ at = ChangerIdle

LEMMA OneSteps ==
  ASSUME FlagSetting, FlagInv, NEW c \in Changers, NEW s \in Seq(FlagSets), NEW kind, NEW at, Fits(kind, at),
         changerFile' \in [Files -> FlagSets], enforce' \in BOOLEAN, reset' \in [Changers -> BOOLEAN],
         stack' = [stack EXCEPT ![c] = s],
         call' = [call EXCEPT ![c] = kind], changerStep' = [changerStep EXCEPT ![c] = at],
         first' = first, \A d \in Changers \ {c} : ~Running(d),
         open' \in Seq(Changers), kind # ChangerIdle => open' # <<>> /\ open'[Len(open')] = c,
         \A d \in Changers \ {c} : Places(d)' = Places(d),
         \A f \in Files \ {FileOf[c]} : changerFile'[f] = changerFile[f],
         s # <<>>, s[1] = first.file[FileOf[c]],
         Len(s) + (IF kind = "restore" THEN 1 ELSE 0) = Cardinality(Places(c)') + 1,
         at \in {ChangerIdle, "read"} => s[Len(s)] = changerFile'[FileOf[c]]
  PROVE  FlagInv'
<1>1. /\ stack \in [Changers -> Seq(FlagSets)] /\ call \in [Changers -> {ChangerIdle, "replace", "restore"}]
      /\ changerStep \in [Changers -> {ChangerIdle} \cup ReplaceSteps \cup RestoreSteps]
  BY DEF FlagInv, FlagTypes
<1>2. kind \in {ChangerIdle, "replace", "restore"} /\ at \in {ChangerIdle} \cup ReplaceSteps \cup RestoreSteps
  BY DEF Fits
<1>3. stack'[c] = s /\ call'[c] = kind /\ changerStep'[c] = at
  BY <1>1
<1>4. \A d \in Changers \ {c} : stack'[d] = stack[d] /\ call'[d] = call[d] /\ changerStep'[d] = changerStep[d]
  BY <1>1
<1>5. FlagTypes'
  <2>1. first'.file \in [Files -> FlagSets]
    BY DEF FlagInv, FlagTypes
  <2> QED
    BY <1>1, <1>2, <2>1 DEF FlagTypes
<1>6. RunningInv'
  <2>1. ASSUME NEW d \in Changers
        PROVE  (IF call[d] = "replace" THEN changerStep[d] \in ReplaceSteps
                ELSE IF call[d] = "restore" THEN changerStep[d] \in RestoreSteps
                ELSE changerStep[d] = ChangerIdle)'
    <3>1. CASE d = c
      BY <1>3, <3>1 DEF Fits, ChangerIdle
    <3>2. CASE d # c
      BY <1>4, <3>2 DEF FlagInv, RunningInv
    <3> QED
      BY <3>1, <3>2
  <2>2. \A d \in Changers \ {c} : ~Running(d)'
    BY <1>4 DEF Running
  <2>3. Running(c)' => open' # <<>> /\ open'[Len(open')] = c
    BY <1>3 DEF Running
  <2> QED
    BY <2>1, <2>2, <2>3 DEF RunningInv
<1>7. ASSUME NEW d \in Changers PROVE StackOf(d)'
  <2>1. CASE d = c
    <3>1. Popping(c)' = (IF kind = "restore" THEN 1 ELSE 0)
      BY <1>3 DEF Popping
    <3> QED
      BY <1>3, <2>1, <3>1 DEF StackOf
  <2>2. CASE d # c
    <3>1. changerFile'[FileOf[d]] = changerFile[FileOf[d]]
      BY <2>2 DEF FlagSetting
    <3>2. Popping(d)' = Popping(d) /\ Places(d)' = Places(d) /\ StackOf(d)
      BY <1>4, <2>2 DEF Popping, FlagInv, StackInv
    <3>3. stack'[d] = stack[d] /\ changerStep'[d] = changerStep[d]
      BY <1>4, <2>2
    <3> QED
      BY <3>1, <3>2, <3>3 DEF StackOf
  <2> QED
    BY <2>1, <2>2
<1>8. OtherFiles'
  BY DEF OtherFiles, FlagInv, StackInv
<1> QED
  BY <1>5, <1>6, <1>7, <1>8 DEF FlagInv, StackInv

LEMMA InitFlags == ASSUME FlagSetting PROVE ChangerInit => FlagInv
<1> SUFFICES ASSUME ChangerInit PROVE FlagInv
  OBVIOUS
<1>1. /\ changerFile \in [Files -> FlagSets] /\ enforce \in BOOLEAN /\ open = <<>>
      /\ first.file = changerFile
      /\ stack = [c \in Changers |-> <<>>] /\ reset = [c \in Changers |-> FALSE]
      /\ call = [c \in Changers |-> ChangerIdle] /\ changerStep = [c \in Changers |-> ChangerIdle]
  BY DEF ChangerInit, FlagSets
<1>2. FlagTypes
  BY <1>1 DEF FlagTypes
<1>3. RunningInv
  BY <1>1 DEF RunningInv, Running, ChangerIdle
<1>4. OtherFiles
  BY <1>1 DEF OtherFiles
<1>5. ASSUME NEW c \in Changers PROVE StackOf(c)
  <2>1. stack[c] = <<>> /\ Len(open) = 0
    BY <1>1
  <2>2. Places(c) = {}
    BY <2>1 DEF Places
  <2> QED
    BY <1>1, <2>1, <2>2 DEF StackOf
<1> QED
  BY <1>2, <1>3, <1>4, <1>5 DEF FlagInv, StackInv

(* The stack of a changer that has a call running, or one to restore.      *)
LEMMA Stacked ==
  ASSUME FlagInv, NEW c \in Changers, Running(c)
  PROVE  /\ stack[c] \in Seq(FlagSets) /\ stack[c] # <<>> /\ StackOf(c)
         /\ open \in Seq(Changers) /\ open # <<>> /\ open[Len(open)] = c
         /\ Cardinality(Places(c)) \in Nat \ {0} /\ call[c] \in {"replace", "restore"}
         /\ \A d \in Changers \ {c} : ~Running(d)
<1>1. /\ stack[c] \in Seq(FlagSets) /\ StackOf(c) /\ open \in Seq(Changers)
      /\ call[c] \in {ChangerIdle, "replace", "restore"}
  BY DEF FlagInv, FlagTypes, StackInv
<1>2. open # <<>> /\ open[Len(open)] = c /\ \A d \in Changers \ {c} : ~Running(d)
  BY DEF FlagInv, RunningInv
<1>3. Len(open) \in Places(c) /\ Cardinality(Places(c)) >= 1 /\ Cardinality(Places(c)) \in Nat
  BY <1>1, <1>2, PlaceOfLast, PlacesFinite
<1>4. stack[c] # <<>>
  BY <1>1, <1>3 DEF StackOf
<1> QED
  BY <1>1, <1>2, <1>3, <1>4 DEF Running

LEMMA RunsAtStep ==
  ASSUME FlagInv, NEW c \in Changers
  PROVE  /\ changerStep[c] # ChangerIdle => Running(c) /\ Fits(call[c], changerStep[c])
         /\ changerStep[c] \in {"getenforce", "permissive"} => call[c] = "replace"
         /\ changerStep[c] = "enforcing" => call[c] = "restore"
         /\ Quiet => \A d \in Changers : ~Running(d)
BY DEF FlagInv, FlagTypes, RunningInv, Running, Fits, Quiet, ReplaceSteps, RestoreSteps, ChangerIdle

(* A step that leaves the stack, the file and the open calls as they are.  *)
LEMMA MereStep ==
  ASSUME FlagSetting, FlagInv, NEW c \in Changers, Running(c), NEW at, Fits(call[c], at), at \in {"permissive", "write"},
         enforce' \in BOOLEAN, reset' \in [Changers -> BOOLEAN],
         ChangerGoto(c, at), UNCHANGED <<changerFile, stack, open, first>>
  PROVE  FlagInv'
<1>1. /\ stack[c] \in Seq(FlagSets) /\ stack[c] # <<>> /\ StackOf(c)
      /\ open \in Seq(Changers) /\ open # <<>> /\ open[Len(open)] = c
      /\ \A d \in Changers \ {c} : ~Running(d)
  BY Stacked
<1>2. /\ stack \in [Changers -> Seq(FlagSets)] /\ changerFile \in [Files -> FlagSets]
      /\ call \in [Changers -> {ChangerIdle, "replace", "restore"}]
  BY DEF FlagInv, FlagTypes
<1>3. stack' = [stack EXCEPT ![c] = stack[c]]
  BY <1>2
<1>4. call' = [call EXCEPT ![c] = call[c]] /\ changerStep' = [changerStep EXCEPT ![c] = at]
  BY <1>2 DEF ChangerGoto
<1>5. \A d \in Changers : Places(d)' = Places(d)
  BY DEF Places
<1>6. /\ stack[c][1] = first.file[FileOf[c]]
      /\ Len(stack[c]) + (IF call[c] = "restore" THEN 1 ELSE 0) = Cardinality(Places(c)') + 1
  BY <1>1, <1>5 DEF StackOf, Popping
<1> QED
  BY <1>1, <1>2, <1>3, <1>4, <1>5, <1>6, OneSteps DEF ChangerIdle

LEMMA UnchangedFlags ==
  ASSUME FlagInv, UNCHANGED <<changerFile, enforce, stack, reset, call, changerStep, open, first>>
  PROVE  FlagInv'
<1>1. FlagTypes' /\ RunningInv' /\ OtherFiles'
  BY DEF FlagInv, FlagTypes, RunningInv, Running, StackInv, OtherFiles
<1>2. ASSUME NEW c \in Changers PROVE StackOf(c)'
  <2>1. Popping(c)' = Popping(c) /\ Places(c)' = Places(c)
    BY DEF Popping, Places
  <2>2. StackOf(c)
    BY DEF FlagInv, StackInv
  <2> QED
    BY <2>1, <2>2 DEF StackOf
<1> QED
  BY <1>1, <1>2 DEF FlagInv, StackInv

LEMMA NextFlags == ASSUME FlagSetting PROVE FlagInv /\ [ChangerNext]_changerVars => FlagInv'
<1> SUFFICES ASSUME FlagInv, [ChangerNext]_changerVars PROVE FlagInv'
  OBVIOUS
<1>0. /\ changerFile \in [Files -> FlagSets] /\ enforce \in BOOLEAN
      /\ stack \in [Changers -> Seq(FlagSets)] /\ reset \in [Changers -> BOOLEAN]
      /\ call \in [Changers -> {ChangerIdle, "replace", "restore"}] /\ open \in Seq(Changers)
      /\ FileOf \in [Changers -> Files]
  BY DEF FlagInv, FlagTypes, FlagSetting
<1>1. ASSUME NEW c \in Changers, Create(c) PROVE FlagInv'
  <2>1. /\ stack[c] = <<>> /\ stack' = [stack EXCEPT ![c] = <<changerFile[FileOf[c]]>>]
        /\ UNCHANGED <<changerFile, enforce, reset, call, changerStep, open, first>> /\ Quiet
    BY <1>1 DEF Create, Created
  <2>2. \A d \in Changers : ~Running(d) /\ Places(d)' = Places(d)
    BY <2>1, RunsAtStep DEF Places
  <2>3. Places(c) = {} /\ changerFile[FileOf[c]] = first.file[FileOf[c]]
    BY <2>1 DEF FlagInv, StackInv, StackOf
  <2>4. Cardinality(Places(c)') = 0
    BY <2>2, <2>3, FS_EmptySet
  <2>5. call' = [call EXCEPT ![c] = ChangerIdle] /\ changerStep' = [changerStep EXCEPT ![c] = ChangerIdle]
    BY <1>0, <2>1, <2>2 DEF Running, Quiet, FlagInv, FlagTypes
  <2>6. changerFile[FileOf[c]] \in FlagSets
    BY <1>0
  <2> DEFINE s == <<changerFile[FileOf[c]]>>
  <2>7. s \in Seq(FlagSets) /\ s # <<>> /\ Len(s) = 1 /\ s[1] = changerFile[FileOf[c]]
    BY <2>6
  <2>8. stack' = [stack EXCEPT ![c] = s]
    BY <2>1
  <2> HIDE DEF s
  <2>9. /\ Len(s) + (IF ChangerIdle = "restore" THEN 1 ELSE 0) = Cardinality(Places(c)') + 1
        /\ s[Len(s)] = changerFile'[FileOf[c]] /\ Fits(ChangerIdle, ChangerIdle)
    BY <2>1, <2>4, <2>7 DEF ChangerIdle, Fits
  <2>10. /\ changerFile' \in [Files -> FlagSets] /\ enforce' \in BOOLEAN /\ reset' \in [Changers -> BOOLEAN]
         /\ first' = first /\ open' \in Seq(Changers) /\ changerFile' = changerFile
    BY <1>0, <2>1
  <2>11. s[1] = first.file[FileOf[c]]
    BY <2>3, <2>7
  <2> QED
    BY <2>2, <2>5, <2>7, <2>8, <2>9, <2>10, <2>11, OneSteps
<1>2. ASSUME NEW c \in Changers, Replace(c) PROVE FlagInv'
  <2>1. PICK new \in FlagSets : stack' = [stack EXCEPT ![c] = Append(@, new)]
    BY <1>2 DEF Replace, FlagSets
  <2>2. /\ Quiet /\ stack[c] # <<>> /\ open' = Append(open, c)
        /\ call' = [call EXCEPT ![c] = "replace"] /\ changerStep' = [changerStep EXCEPT ![c] = "getenforce"]
        /\ UNCHANGED <<changerFile, enforce, reset, first>>
    BY <1>2 DEF Replace, Created, Begin, device
  <2>3. \A d \in Changers : ~Running(d)
    BY <2>2, RunsAtStep
  <2> DEFINE s == Append(stack[c], new)
  <2>4. s \in Seq(FlagSets) /\ Len(s) = Len(stack[c]) + 1 /\ s # <<>> /\ s[1] = stack[c][1]
    <3>1. stack[c] \in Seq(FlagSets) /\ Len(stack[c]) \in Nat \ {0}
      BY <1>0, <2>2
    <3> QED
      BY <3>1, PushedOn
  <2>5. stack' = [stack EXCEPT ![c] = s]
    BY <2>1
  <2> HIDE DEF s
  <2>6. /\ open' \in Seq(Changers) /\ open' # <<>> /\ open'[Len(open')] = c
        /\ Cardinality(Places(c)') = Cardinality(Places(c)) + 1
        /\ \A d \in Changers \ {c} : Places(d)' = Places(d)
    BY <1>0, <2>2, PlacesOpened
  <2>7. /\ stack[c][1] = first.file[FileOf[c]] /\ Len(stack[c]) = Cardinality(Places(c)) + 1
    <3>1. StackOf(c) /\ call[c] = ChangerIdle
      BY <2>3 DEF FlagInv, StackInv, Running
    <3>2. Popping(c) = 0
      BY <3>1 DEF Popping, ChangerIdle
    <3>3. Len(stack[c]) \in Nat
      BY <1>0
    <3> QED
      BY <2>2, <3>1, <3>2, <3>3 DEF StackOf
  <2>8. Fits("replace", "getenforce")
    BY DEF Fits, ReplaceSteps
  <2>9. Len(s) + (IF "replace" = "restore" THEN 1 ELSE 0) = Cardinality(Places(c)') + 1 /\ s[1] = first.file[FileOf[c]]
    BY <2>4, <2>6, <2>7, <1>0
  <2> QED
    BY <1>0, <2>2, <2>3, <2>4, <2>5, <2>6, <2>8, <2>9, OneSteps DEF ChangerIdle
<1>3. ASSUME NEW c \in Changers, GetEnforce(c) PROVE FlagInv'
  <2>1. Running(c) /\ call[c] = "replace" /\ UNCHANGED <<changerFile, stack, open, first>>
        /\ enforce' = enforce /\ reset' = reset
    BY <1>3, RunsAtStep DEF GetEnforce, ChangerIdle, device, own
  <2>2. PICK at \in {"permissive", "write"} : ChangerGoto(c, at)
    BY <1>3 DEF GetEnforce
  <2>3. Fits(call[c], at)
    BY <2>1, <2>2 DEF Fits, ReplaceSteps
  <2> QED
    BY <1>0, <2>1, <2>2, <2>3, MereStep
<1>4. ASSUME NEW c \in Changers, SetPermissive(c) PROVE FlagInv'
  <2>1. Running(c) /\ call[c] = "replace" /\ UNCHANGED <<changerFile, stack, open, first>>
        /\ enforce' \in BOOLEAN /\ reset' \in [Changers -> BOOLEAN] /\ ChangerGoto(c, "write")
    BY <1>0, <1>4, RunsAtStep DEF SetPermissive, ChangerIdle
  <2>2. Fits(call[c], "write")
    BY <2>1 DEF Fits, ReplaceSteps
  <2> QED
    BY <2>1, <2>2, MereStep
<1>5. ASSUME NEW c \in Changers, ResetEnforce(c) PROVE FlagInv'
  <2>1. Running(c) /\ call[c] = "restore" /\ UNCHANGED <<changerFile, stack, open, first>>
        /\ enforce' \in BOOLEAN /\ reset' \in [Changers -> BOOLEAN] /\ ChangerGoto(c, "write")
    BY <1>0, <1>5, RunsAtStep DEF ResetEnforce, ChangerIdle
  <2>2. Fits(call[c], "write")
    BY <2>1 DEF Fits, RestoreSteps
  <2> QED
    BY <2>1, <2>2, MereStep
<1>6. ASSUME NEW c \in Changers, Update(c) PROVE FlagInv'
  <2>1. /\ Running(c) /\ Fits(call[c], "write") /\ UNCHANGED <<enforce, stack, reset, open, first>>
        /\ changerFile' = [changerFile EXCEPT ![FileOf[c]] = Last(stack[c])] /\ ChangerGoto(c, "read")
    BY <1>6, RunsAtStep DEF Update, ChangerIdle, own
  <2>2. /\ stack[c] \in Seq(FlagSets) /\ stack[c] # <<>> /\ StackOf(c)
        /\ open # <<>> /\ open[Len(open)] = c
        /\ \A d \in Changers \ {c} : ~Running(d)
    BY <2>1, Stacked
  <2>3. Last(stack[c]) \in FlagSets /\ Last(stack[c]) = stack[c][Len(stack[c])]
    BY <2>2, TheFront
  <2>4. /\ changerFile' \in [Files -> FlagSets] /\ changerFile'[FileOf[c]] = stack[c][Len(stack[c])]
        /\ \A f \in Files \ {FileOf[c]} : changerFile'[f] = changerFile[f]
    BY <1>0, <2>1, <2>3
  <2>5. stack' = [stack EXCEPT ![c] = stack[c]]
    BY <1>0, <2>1
  <2>6. call' = [call EXCEPT ![c] = call[c]] /\ changerStep' = [changerStep EXCEPT ![c] = "read"]
    BY <1>0, <2>1 DEF ChangerGoto
  <2>7. \A d \in Changers : Places(d)' = Places(d)
    BY <2>1 DEF Places
  <2>8. /\ stack[c][1] = first.file[FileOf[c]]
        /\ Len(stack[c]) + (IF call[c] = "restore" THEN 1 ELSE 0) = Cardinality(Places(c)') + 1
    BY <2>2, <2>7 DEF StackOf, Popping
  <2>9. Fits(call[c], "read")
    BY <2>1 DEF Fits, ReplaceSteps, RestoreSteps, ChangerIdle
  <2>10. /\ enforce' \in BOOLEAN /\ reset' \in [Changers -> BOOLEAN] /\ first' = first
         /\ open' \in Seq(Changers) /\ open' # <<>> /\ open'[Len(open')] = c
    BY <1>0, <2>1, <2>2
  <2>11. stack[c][Len(stack[c])] = changerFile'[FileOf[c]]
    BY <2>4
  <2> HIDE DEF ChangerIdle
  <2> QED
    BY <2>2, <2>4, <2>5, <2>6, <2>7, <2>8, <2>9, <2>10, <2>11, OneSteps
<1>7. ASSUME NEW c \in Changers, Restore(c) PROVE FlagInv'
  <2>1. /\ Quiet /\ open # <<>> /\ open[Len(open)] = c /\ Len(stack[c]) > 1
        /\ stack' = [stack EXCEPT ![c] = Front(stack[c])]
        /\ call' = [call EXCEPT ![c] = "restore"]
        /\ UNCHANGED <<changerFile, enforce, reset, open, first>>
    BY <1>7 DEF Restore, MayRestore, FlagSetting, Popped, Begin, device, Last
  <2>2. PICK at \in {"enforcing", "write"} : changerStep' = [changerStep EXCEPT ![c] = at]
    BY <1>7 DEF Restore, Begin, AfterPop
  <2>3. \A d \in Changers : ~Running(d) /\ Places(d)' = Places(d)
    BY <2>1, RunsAtStep DEF Places
  <2>4. stack[c] \in Seq(FlagSets) /\ stack[c] # <<>> /\ Len(stack[c]) \in Nat
    BY <1>0, <2>1
  <2> DEFINE s == Front(stack[c])
  <2>5. s \in Seq(FlagSets) /\ Len(s) = Len(stack[c]) - 1 /\ s[1] = stack[c][1]
    <3>1. 1 \in 1..Len(stack[c]) - 1
      BY <2>1, <2>4
    <3> QED
      BY <2>4, <3>1, TheFront
  <2>s. stack' = [stack EXCEPT ![c] = s]
    BY <2>1
  <2> HIDE DEF s
  <2>6. s # <<>>
    BY <2>1, <2>4, <2>5
  <2>7. stack[c][1] = first.file[FileOf[c]] /\ Len(stack[c]) = Cardinality(Places(c)) + 1
    <3>1. StackOf(c) /\ call[c] = ChangerIdle
      BY <2>3 DEF FlagInv, StackInv, Running
    <3>2. Popping(c) = 0
      BY <3>1 DEF Popping, ChangerIdle
    <3> QED
      BY <2>4, <3>1, <3>2 DEF StackOf
  <2>8. Fits("restore", at) /\ at \notin {ChangerIdle, "read"}
    BY <2>2 DEF Fits, RestoreSteps, ChangerIdle
  <2>9. Len(s) + (IF "restore" = "restore" THEN 1 ELSE 0) = Cardinality(Places(c)') + 1 /\ s[1] = first.file[FileOf[c]]
    BY <2>3, <2>4, <2>5, <2>7
  <2> QED
    BY <1>0, <2>1, <2>2, <2>3, <2>5, <2>s, <2>6, <2>8, <2>9, OneSteps
<1>8. ASSUME NEW c \in Changers, GetCurrentFlags(c) PROVE FlagInv'
  <2>1. /\ changerStep[c] = "read" /\ Running(c)
        /\ stack' = [stack EXCEPT ![c] = Append(Front(stack[c]), changerFile[FileOf[c]])]
        /\ open' = IF call[c] = "replace" THEN open ELSE Without(c)
        /\ call' = [call EXCEPT ![c] = ChangerIdle] /\ changerStep' = [changerStep EXCEPT ![c] = ChangerIdle]
        /\ UNCHANGED <<changerFile, enforce, reset, first>>
    BY <1>8, RunsAtStep DEF GetCurrentFlags, ChangerDone, Begin, device, ChangerIdle
  <2>2. /\ stack[c] \in Seq(FlagSets) /\ stack[c] # <<>> /\ StackOf(c)
        /\ open # <<>> /\ open[Len(open)] = c
        /\ call[c] \in {"replace", "restore"} /\ Cardinality(Places(c)) \in Nat \ {0}
        /\ \A d \in Changers \ {c} : ~Running(d)
    BY <2>1, Stacked
  <2>3. Append(Front(stack[c]), changerFile[FileOf[c]]) = stack[c] /\ stack[c][Len(stack[c])] = changerFile[FileOf[c]]
    <3>1. stack[c][Len(stack[c])] = changerFile[FileOf[c]]
      BY <2>1, <2>2 DEF StackOf
    <3>2. Last(stack[c]) = changerFile[FileOf[c]]
      BY <3>1 DEF Last
    <3> QED
      BY <2>2, <3>1, <3>2, FrontAndLast
  <2>4. stack' = [stack EXCEPT ![c] = stack[c]]
    BY <2>1, <2>3
  <2>5. /\ open' \in Seq(Changers) /\ \A d \in Changers \ {c} : Places(d)' = Places(d)
        /\ Cardinality(Places(c)') = Cardinality(Places(c)) - (IF call[c] = "restore" THEN 1 ELSE 0)
    <3>1. CASE call[c] = "replace"
      <4>1. open' = open /\ \A d \in Changers : Places(d)' = Places(d)
        BY <2>1, <3>1 DEF Places
      <4> QED
        BY <1>0, <2>2, <3>1, <4>1
    <3>2. CASE call[c] = "restore"
      BY <1>0, <2>1, <2>2, <3>2, PlacesClosed
    <3> QED
      BY <2>2, <3>1, <3>2
  <2>6. stack[c][1] = first.file[FileOf[c]] /\ Len(stack[c]) = Cardinality(Places(c)') + 1
    <3>1. stack[c][1] = first.file[FileOf[c]] /\ Len(stack[c]) + Popping(c) = Cardinality(Places(c)) + 1
      BY <2>2 DEF StackOf
    <3>2. Len(stack[c]) \in Nat /\ Popping(c) \in {0, 1}
      BY <2>2 DEF Popping
    <3>3. Cardinality(Places(c)') = Cardinality(Places(c)) - Popping(c)
      BY <2>5 DEF Popping
    <3> HIDE DEF Popping
    <3> QED
      BY <2>2, <3>1, <3>2, <3>3
  <2>7. /\ Len(stack[c]) + (IF ChangerIdle = "restore" THEN 1 ELSE 0) = Cardinality(Places(c)') + 1
        /\ Fits(ChangerIdle, ChangerIdle)
    BY <2>2, <2>6 DEF Fits, ChangerIdle
  <2> QED
    BY <1>0, <2>1, <2>2, <2>3, <2>4, <2>5, <2>6, <2>7, OneSteps
<1>9. ASSUME NEW c \in Changers, Fail(c) PROVE FlagInv'
  <2>1. /\ changerStep[c] # ChangerIdle /\ Running(c) /\ call[c] = "replace"
        /\ stack' = [stack EXCEPT ![c] = Front(stack[c])]
        /\ call' = [call EXCEPT ![c] = "restore"] /\ UNCHANGED <<reset, open, first>>
    BY <1>9, RunsAtStep DEF Fail, FlagSetting, Popped, Begin
  <2>2. PICK at \in {"enforcing", "write"} : changerStep' = [changerStep EXCEPT ![c] = at]
    BY <1>9, <2>1 DEF Fail, Begin, AfterPop
  <2>3. /\ stack[c] \in Seq(FlagSets) /\ stack[c] # <<>> /\ StackOf(c)
        /\ open # <<>> /\ open[Len(open)] = c /\ Cardinality(Places(c)) \in Nat \ {0}
        /\ \A d \in Changers \ {c} : ~Running(d)
    BY <2>1, Stacked
  <2>4. \A d \in Changers : Places(d)' = Places(d)
    BY <2>1 DEF Places
  <2>5. /\ Len(stack[c]) = Cardinality(Places(c)) + 1 /\ stack[c][1] = first.file[FileOf[c]]
    BY <2>1, <2>3 DEF StackOf, Popping
  <2> DEFINE s == Front(stack[c])
  <2>6. s \in Seq(FlagSets) /\ Len(s) = Len(stack[c]) - 1 /\ s[1] = stack[c][1] /\ Last(stack[c]) \in FlagSets
    <3>1. Len(stack[c]) \in Nat /\ 1 \in 1..Len(stack[c]) - 1
      BY <2>3, <2>5
    <3> QED
      BY <2>3, <3>1, TheFront
  <2>s. stack' = [stack EXCEPT ![c] = s]
    BY <2>1
  <2> HIDE DEF s
  <2>7. s # <<>>
    BY <2>3, <2>5, <2>6
  <2>8. /\ enforce' \in BOOLEAN /\ changerFile' \in [Files -> FlagSets]
        /\ \A f \in Files \ {FileOf[c]} : changerFile'[f] = changerFile[f]
    <3>1. \/ UNCHANGED <<changerFile, enforce>>
          \/ enforce' \in BOOLEAN /\ UNCHANGED changerFile
          \/ changerFile' = [changerFile EXCEPT ![FileOf[c]] = Last(stack[c])] /\ UNCHANGED enforce
      BY <1>9 DEF Fail, device
    <3>2. FileOf[c] \in Files
      BY <1>0
    <3>3. ASSUME changerFile' = [changerFile EXCEPT ![FileOf[c]] = Last(stack[c])]
          PROVE  changerFile' \in [Files -> FlagSets] /\ \A f \in Files \ {FileOf[c]} : changerFile'[f] = changerFile[f]
      BY <1>0, <2>6, <3>2, <3>3
    <3> QED
      BY <1>0, <3>1, <3>3
  <2>9. Fits("restore", at) /\ at \notin {ChangerIdle, "read"}
    BY <2>2 DEF Fits, RestoreSteps, ChangerIdle
  <2>10. Len(s) + (IF "restore" = "restore" THEN 1 ELSE 0) = Cardinality(Places(c)') + 1 /\ s[1] = first.file[FileOf[c]]
    BY <2>3, <2>4, <2>5, <2>6
  <2>11. /\ reset' \in [Changers -> BOOLEAN] /\ first' = first
         /\ open' \in Seq(Changers) /\ open' # <<>> /\ open'[Len(open')] = c
    BY <1>0, <2>1, <2>3
  <2>12. at \in {ChangerIdle, "read"} => s[Len(s)] = changerFile'[FileOf[c]]
    BY <2>9
  <2>13. call' = [call EXCEPT ![c] = "restore"]
    BY <2>1
  <2> QED
    BY <2>2, <2>3, <2>4, <2>6, <2>s, <2>7, <2>8, <2>9, <2>10, <2>11, <2>12, <2>13, OneSteps
<1>10. CASE UNCHANGED changerVars
  <2>1. UNCHANGED <<changerFile, enforce, stack, reset, call, changerStep, open, first>>
    BY <1>10 DEF changerVars, device, own
  <2> QED
    BY <2>1, UnchangedFlags
<1> QED
  BY <1>1, <1>2, <1>3, <1>4, <1>5, <1>6, <1>7, <1>8, <1>9, <1>10 DEF ChangerNext

(***************************************************************************)
(* SELinux, while nothing fails.                                           *)
(***************************************************************************)

LEMMA ResetIsOpen ==
  ASSUME FlagSetting, FlagInv, SelinuxInv, NEW c \in Changers, reset[c]
  PROVE  Places(c) # {} /\ open # <<>> /\ (Len(open) = 1 => open[1] = c)
<1>1. StackOf(c) /\ open \in Seq(Changers) /\ stack[c] \in Seq(FlagSets)
  BY DEF FlagInv, FlagTypes, StackInv
<1>2. Cardinality(Places(c)) \in Nat /\ (Places(c) = {} => Cardinality(Places(c)) = 0)
  BY <1>1, PlacesFinite, FS_EmptySet
<1>3. Places(c) # {}
  <2>1. CASE changerStep[c] = "enforcing"
    BY <2>1, RunsAtStep, Stacked, FS_EmptySet DEF ChangerIdle
  <2>2. CASE Len(stack[c]) >= 2
    <3>1. Len(stack[c]) \in Nat /\ stack[c] # <<>>
      BY <1>1, <2>2
    <3>2. Len(stack[c]) + Popping(c) = Cardinality(Places(c)) + 1 /\ Popping(c) \in {0, 1}
      BY <1>1, <3>1 DEF StackOf, Popping
    <3> QED
      BY <1>2, <2>2, <3>1, <3>2
  <2> QED
    BY <2>1, <2>2 DEF SelinuxInv
<1>4. PICK i \in 1..Len(open) : open[i] = c
  BY <1>3 DEF Places
<1> QED
  BY <1>1, <1>3, <1>4

(* The last Restore() of the first changer is the last of all.             *)
LEMMA LastOfAll ==
  ASSUME FlagSetting, FlagInv, SelinuxInv, NEW c \in Changers, changerStep[c] = "enforcing", open[1] = c
  PROVE  Len(open) = 1
<1>1. Running(c) /\ call[c] = "restore"
  BY RunsAtStep DEF ChangerIdle
<1>2. /\ StackOf(c) /\ open \in Seq(Changers) /\ open # <<>> /\ open[Len(open)] = c
      /\ stack[c] # <<>>
  BY <1>1, Stacked
<1>3. Cardinality(Places(c)) = 1
  <2>1. Len(stack[c]) = 1 /\ Popping(c) = 1
    BY <1>1 DEF SelinuxInv, Popping
  <2>2. Len(stack[c]) + Popping(c) = Cardinality(Places(c)) + 1 /\ Cardinality(Places(c)) \in Nat
    BY <1>2, PlacesFinite DEF StackOf
  <2> QED
    BY <2>1, <2>2
<1>4. \E x : Places(c) = {x}
  BY <1>2, <1>3, PlacesFinite, FS_Singleton
<1>5. Len(open) \in Nat \ {0} /\ 1 \in Places(c) /\ Len(open) \in Places(c)
  BY <1>2 DEF Places
<1> QED
  BY <1>4, <1>5

LEMMA InitSelinux == ASSUME FlagSetting PROVE ChangerInit => SelinuxInv
<1> SUFFICES ASSUME ChangerInit PROVE SelinuxInv
  OBVIOUS
<1>1. enforce \in BOOLEAN /\ first.enforce = enforce
  BY DEF ChangerInit
<1>2. \A c \in Changers : ~reset[c] /\ changerStep[c] = ChangerIdle
  BY DEF ChangerInit
<1>3. open = <<>>
  BY DEF ChangerInit
<1> QED
  BY <1>1, <1>2, <1>3 DEF SelinuxInv, ChangerIdle

LEMMA NextSelinux ==
  ASSUME FlagSetting, Failing = {}
  PROVE  FlagInv /\ SelinuxInv /\ [ChangerNext]_changerVars => SelinuxInv'
<1> SUFFICES ASSUME FlagInv, SelinuxInv, [ChangerNext]_changerVars PROVE SelinuxInv'
  OBVIOUS
<1>0. /\ enforce \in BOOLEAN /\ reset \in [Changers -> BOOLEAN] /\ open \in Seq(Changers)
      /\ stack \in [Changers -> Seq(FlagSets)]
      /\ call \in [Changers -> {ChangerIdle, "replace", "restore"}]
      /\ changerStep \in [Changers -> {ChangerIdle} \cup ReplaceSteps \cup RestoreSteps]
      /\ \A c \in Changers : Len(stack[c]) \in Nat
      /\ Len(open) \in Nat /\ (open # <<>> => Len(open) >= 1 /\ open[1] \in Changers)
  BY DEF FlagInv, FlagTypes
<1>a. /\ first.enforce \in BOOLEAN /\ (\A c \in Changers : ~reset[c]) => enforce = first.enforce
      /\ \A c, d \in Changers : reset[c] /\ reset[d] => c = d
      /\ \A c \in Changers : reset[c] => /\ first.enforce /\ ~enforce
                                         /\ Len(stack[c]) >= 2 \/ changerStep[c] = "enforcing"
  BY DEF SelinuxInv
<1>b. /\ \A c \in Changers : changerStep[c] = "permissive" => enforce
      /\ \A c \in Changers : changerStep[c] = "enforcing" => Len(stack[c]) = 1 /\ reset[c]
  BY DEF SelinuxInv
<1>c. Nougat /\ first.enforce /\ open # <<>> =>
        \/ reset[open[1]]
        \/ Len(open) = 1 /\ changerStep[open[1]] \in {"getenforce", "permissive"}
        \/ Len(open) = 1 /\ call[open[1]] = "restore"
  BY DEF SelinuxInv
<1>1. ASSUME NEW c \in Changers, Create(c) PROVE SelinuxInv'
  <2>1. /\ stack[c] = <<>> /\ Quiet /\ UNCHANGED <<enforce, reset, call, changerStep, open, first>>
        /\ \A d \in Changers \ {c} : stack'[d] = stack[d]
    BY <1>0, <1>1 DEF Create, Created
  <2>2. ~reset[c] /\ Len(stack[c]) = 0
    BY <1>a, <2>1 DEF Quiet, ChangerIdle
  <2>3. changerStep[c] # "enforcing"
    BY <2>1 DEF Quiet, ChangerIdle
  <2> QED
    BY <1>a, <1>b, <1>c, <2>1, <2>2, <2>3 DEF SelinuxInv
<1>2. ASSUME NEW c \in Changers, Replace(c) PROVE SelinuxInv'
  <2>1. PICK new \in FlagSets : stack' = [stack EXCEPT ![c] = Append(@, new)]
    BY <1>2 DEF Replace, FlagSets
  <2>2. /\ Quiet /\ open' = Append(open, c) /\ UNCHANGED <<enforce, reset, first>>
        /\ changerStep' = [changerStep EXCEPT ![c] = "getenforce"]
    BY <1>2 DEF Replace, Begin, device
  <2>3. stack'[c] = Append(stack[c], new) /\ \A d \in Changers \ {c} : stack'[d] = stack[d]
    BY <1>0, <2>1
  <2>4. Len(stack'[c]) = Len(stack[c]) + 1
    BY <1>0, <2>1, <2>3, PushedOn
  <2>5. changerStep'[c] = "getenforce" /\ \A d \in Changers \ {c} : changerStep'[d] = changerStep[d]
    BY <1>0, <2>2
  <2>6. /\ Len(open') = Len(open) + 1 /\ open'[Len(open')] = c /\ open' # <<>>
        /\ \A i \in 1..Len(open) : open'[i] = open[i]
    BY <1>0, <2>2, PlacesOpened
  <2>7. \A d \in Changers : changerStep[d] = ChangerIdle /\ ~Running(d)
    BY <2>2, RunsAtStep DEF Quiet
  <2>8. Nougat /\ first.enforce => reset[open'[1]] \/ (Len(open') = 1 /\ changerStep'[open'[1]] = "getenforce")
    <3>1. CASE open = <<>>
      <4>1. Len(open) = 0
        BY <3>1
      <4> QED
        BY <2>5, <2>6, <4>1
    <3>2. CASE open # <<>>
      <4>1. open'[1] = open[1] /\ open[1] \in Changers
        BY <1>0, <2>6, <3>2
      <4> QED
        BY <1>c, <2>7, <3>2, <4>1 DEF Running, ChangerIdle
    <3> QED
      BY <3>1, <3>2
  <2>9. \A d \in Changers : reset[d] => Len(stack[d]) >= 2
    BY <1>a, <2>7 DEF ChangerIdle
  <2>10. \A d \in Changers : changerStep'[d] \notin {"permissive", "enforcing"}
    BY <2>5, <2>7 DEF ChangerIdle
  <2>11. \A d \in Changers : reset[d] => Len(stack'[d]) >= 2
    BY <1>0, <2>3, <2>4, <2>9
  <2> QED
    BY <1>a, <2>2, <2>8, <2>10, <2>11 DEF SelinuxInv
<1>3. ASSUME NEW c \in Changers, GetEnforce(c) PROVE SelinuxInv'
  <2>1. /\ changerStep[c] = "getenforce" /\ UNCHANGED <<enforce, reset, stack, call, open, first>>
        /\ changerStep' = [changerStep EXCEPT ![c] = IF Nougat /\ enforce THEN "permissive" ELSE "write"]
    BY <1>3 DEF GetEnforce, ChangerGoto, device, own
  <2>2. /\ changerStep'[c] = IF Nougat /\ enforce THEN "permissive" ELSE "write"
        /\ \A d \in Changers \ {c} : changerStep'[d] = changerStep[d]
    BY <1>0, <2>1
  <2>3. Running(c) /\ open # <<>> /\ open[Len(open)] = c
    BY <2>1, RunsAtStep, Stacked DEF ChangerIdle
  <2>4. Nougat /\ first.enforce => \/ reset[open[1]]
                                   \/ Len(open) = 1 /\ changerStep'[open[1]] \in {"getenforce", "permissive"}
                                   \/ Len(open) = 1 /\ call[open[1]] = "restore"
    <3> SUFFICES ASSUME Nougat, first.enforce, Len(open) = 1, ~reset[open[1]] PROVE changerStep'[open[1]] = "permissive"
      BY <1>c, <2>3
    <3>1. open[1] = c
      BY <2>3
    <3>2. \A d \in Changers : ~reset[d]
      BY <3>1, ResetIsOpen
    <3>3. enforce
      BY <1>a, <3>2
    <3> QED
      BY <2>2, <3>1, <3>3
  <2>5. \A d \in Changers : /\ changerStep'[d] = "permissive" => enforce
                            /\ changerStep'[d] = "enforcing" <=> changerStep[d] = "enforcing"
    BY <1>b, <2>1, <2>2
  <2> QED
    BY <1>a, <1>b, <2>1, <2>4, <2>5 DEF SelinuxInv
<1>4. ASSUME NEW c \in Changers, SetPermissive(c) PROVE SelinuxInv'
  <2>1. /\ changerStep[c] = "permissive" /\ enforce' = FALSE /\ reset' = [reset EXCEPT ![c] = TRUE]
        /\ UNCHANGED <<stack, call, open, first>> /\ changerStep' = [changerStep EXCEPT ![c] = "write"]
    BY <1>4 DEF SetPermissive, ChangerGoto
  <2>2. reset'[c] /\ \A d \in Changers \ {c} : reset'[d] = reset[d]
    BY <1>0, <2>1
  <2>3. changerStep'[c] = "write" /\ \A d \in Changers \ {c} : changerStep'[d] = changerStep[d]
    BY <1>0, <2>1
  <2>4. Running(c) /\ call[c] = "replace"
    BY <2>1, RunsAtStep DEF ChangerIdle
  <2>5. StackOf(c) /\ open # <<>> /\ open[Len(open)] = c /\ Cardinality(Places(c)) \in Nat \ {0} /\ stack[c] # <<>>
        /\ \A d \in Changers \ {c} : ~Running(d)
    BY <2>4, Stacked
  <2>6. enforce /\ \A d \in Changers : ~reset[d]
    BY <1>a, <1>b, <2>1
  <2>7. first.enforce
    <3>1. enforce = first.enforce
      BY <2>6 DEF SelinuxInv
    <3> QED
      BY <2>6, <3>1
  <2>8. Len(stack[c]) >= 2
    <3>1. Len(stack[c]) + 0 = Cardinality(Places(c)) + 1
      BY <2>4, <2>5 DEF StackOf, Popping
    <3> QED
      BY <1>0, <2>5, <3>1
  <2>9. \A d \in Changers \ {c} : changerStep[d] = ChangerIdle
    BY <2>5, RunsAtStep
  <2>10. Nougat => reset'[open[1]]
    <3>1. Nougat => Len(open) = 1
      BY <1>0, <1>c, <2>5, <2>6, <2>7
    <3> QED
      BY <2>2, <2>5, <3>1
  <2>11. \A d \in Changers : changerStep'[d] \notin {"permissive", "enforcing"}
    BY <2>3, <2>9 DEF ChangerIdle
  <2>12. \A d \in Changers : reset'[d] => d = c
    BY <2>2, <2>6
  <2> QED
    BY <1>a, <2>1, <2>2, <2>7, <2>8, <2>10, <2>11, <2>12 DEF SelinuxInv
<1>5. ASSUME NEW c \in Changers, ResetEnforce(c) PROVE SelinuxInv'
  <2>1. /\ changerStep[c] = "enforcing" /\ enforce' = TRUE /\ reset' = [reset EXCEPT ![c] = FALSE]
        /\ UNCHANGED <<stack, call, open, first>> /\ changerStep' = [changerStep EXCEPT ![c] = "write"]
    BY <1>5 DEF ResetEnforce, ChangerGoto
  <2>2. ~reset'[c] /\ \A d \in Changers \ {c} : reset'[d] = reset[d]
    BY <1>0, <2>1
  <2>3. changerStep'[c] = "write" /\ \A d \in Changers \ {c} : changerStep'[d] = changerStep[d]
    BY <1>0, <2>1
  <2>4. Running(c) /\ call[c] = "restore"
    BY <2>1, RunsAtStep DEF ChangerIdle
  <2>5. open # <<>> /\ open[Len(open)] = c /\ \A d \in Changers \ {c} : ~Running(d)
    BY <2>4, Stacked
  <2>6. reset[c] /\ first.enforce /\ \A d \in Changers \ {c} : ~reset[d]
    BY <1>a, <1>b, <2>1
  <2>7. \A d \in Changers \ {c} : changerStep[d] = ChangerIdle
    BY <2>5, RunsAtStep
  <2>8. Nougat => Len(open) = 1 /\ open[1] = c
    <3>1. Nougat => reset[open[1]] \/ Len(open) = 1
      BY <1>c, <2>5, <2>6
    <3>2. reset[open[1]] => open[1] = c
      BY <1>0, <2>5, <2>6
    <3>3. open[1] = c => Len(open) = 1
      BY <2>1, LastOfAll
    <3> QED
      BY <2>5, <3>1, <3>2, <3>3
  <2>9. \A d \in Changers : changerStep'[d] \notin {"permissive", "enforcing"} /\ ~reset'[d]
    BY <2>2, <2>3, <2>6, <2>7 DEF ChangerIdle
  <2> QED
    BY <1>a, <2>1, <2>4, <2>6, <2>8, <2>9 DEF SelinuxInv
<1>6. ASSUME NEW c \in Changers, Update(c) PROVE SelinuxInv'
  <2>1. /\ changerStep[c] = "write" /\ UNCHANGED <<enforce, reset, stack, call, open, first>>
        /\ changerStep' = [changerStep EXCEPT ![c] = "read"]
    BY <1>6 DEF Update, ChangerGoto, own
  <2>2. changerStep'[c] = "read" /\ \A d \in Changers \ {c} : changerStep'[d] = changerStep[d]
    BY <1>0, <2>1
  <2>3. \A d \in Changers : \A at \in {"getenforce", "permissive", "enforcing"} : changerStep'[d] = at <=> changerStep[d] = at
    BY <2>1, <2>2
  <2>4. Nougat /\ first.enforce /\ open # <<>> =>
          \/ reset[open[1]]
          \/ Len(open) = 1 /\ changerStep'[open[1]] \in {"getenforce", "permissive"}
          \/ Len(open) = 1 /\ call[open[1]] = "restore"
    BY <1>0, <1>c, <2>3
  <2> QED
    BY <1>a, <1>b, <2>1, <2>3, <2>4 DEF SelinuxInv
<1>7. ASSUME NEW c \in Changers, Restore(c) PROVE SelinuxInv'
  <2>1. /\ Quiet /\ Len(stack[c]) > 1 /\ stack' = [stack EXCEPT ![c] = Front(@)]
        /\ call' = [call EXCEPT ![c] = "restore"]
        /\ changerStep' = [changerStep EXCEPT ![c] = IF Len(stack[c]) = 2 /\ reset[c] THEN "enforcing" ELSE "write"]
        /\ UNCHANGED <<enforce, reset, open, first>>
    BY <1>7 DEF Restore, Popped, Begin, AfterPop, device
  <2>2. stack'[c] = Front(stack[c]) /\ \A d \in Changers \ {c} : stack'[d] = stack[d]
    BY <1>0, <2>1
  <2>3. Len(stack'[c]) = Len(stack[c]) - 1
    <3>1. stack[c] \in Seq(FlagSets) /\ stack[c] # <<>>
      BY <1>0, <2>1
    <3> QED
      BY <2>2, <3>1, TheFront
  <2>4. /\ changerStep'[c] = IF Len(stack[c]) = 2 /\ reset[c] THEN "enforcing" ELSE "write"
        /\ \A d \in Changers \ {c} : changerStep'[d] = changerStep[d]
    BY <1>0, <2>1
  <2>5. \A d \in Changers : changerStep[d] = ChangerIdle /\ ~Running(d)
    BY <2>1, RunsAtStep DEF Quiet
  <2>6. \A d \in Changers : reset[d] => Len(stack'[d]) >= 2 \/ changerStep'[d] = "enforcing"
    <3>1. ASSUME NEW d \in Changers, reset[d] PROVE Len(stack[d]) >= 2
      BY <1>a, <2>5, <3>1 DEF ChangerIdle
    <3>2. reset[c] => Len(stack'[c]) >= 2 \/ changerStep'[c] = "enforcing"
      BY <1>0, <2>1, <2>3, <2>4
    <3> QED
      BY <2>2, <3>1, <3>2
  <2>7. \A d \in Changers : /\ changerStep'[d] # "permissive"
                            /\ changerStep'[d] = "enforcing" => Len(stack'[d]) = 1 /\ reset[d]
    <3>1. \A d \in Changers \ {c} : changerStep'[d] = "none"
      BY <2>4, <2>5 DEF ChangerIdle
    <3>2. changerStep'[c] \in {"enforcing", "write"} /\ (changerStep'[c] = "enforcing" => Len(stack'[c]) = 1 /\ reset[c])
      BY <2>3, <2>4
    <3> QED
      BY <3>1, <3>2
  <2>8. Nougat /\ first.enforce /\ open # <<>> => reset[open[1]]
    BY <1>0, <1>c, <2>5 DEF Running, ChangerIdle
  <2> QED
    BY <1>a, <2>1, <2>6, <2>7, <2>8 DEF SelinuxInv
<1>8. ASSUME NEW c \in Changers, GetCurrentFlags(c) PROVE SelinuxInv'
  <2>1. /\ changerStep[c] = "read" /\ Running(c)
        /\ stack' = [stack EXCEPT ![c] = Append(Front(stack[c]), changerFile[FileOf[c]])]
        /\ open' = IF call[c] = "replace" THEN open ELSE Without(c)
        /\ call' = [call EXCEPT ![c] = ChangerIdle] /\ changerStep' = [changerStep EXCEPT ![c] = ChangerIdle]
        /\ UNCHANGED <<changerFile, enforce, reset, first>>
    BY <1>8, RunsAtStep DEF GetCurrentFlags, ChangerDone, Begin, device, ChangerIdle
  <2>2. /\ stack[c] \in Seq(FlagSets) /\ stack[c] # <<>> /\ StackOf(c)
        /\ open # <<>> /\ open[Len(open)] = c /\ call[c] \in {"replace", "restore"}
        /\ \A d \in Changers \ {c} : ~Running(d)
    BY <2>1, Stacked
  <2>3. stack' = stack
    <3>1. Last(stack[c]) = changerFile[FileOf[c]]
      BY <2>1, <2>2 DEF StackOf, Last
    <3>2. Append(Front(stack[c]), changerFile[FileOf[c]]) = stack[c]
      BY <2>2, <3>1, FrontAndLast
    <3> QED
      BY <1>0, <2>1, <3>2
  <2>4. \A d \in Changers : changerStep'[d] = ChangerIdle
    <3>1. \A d \in Changers \ {c} : changerStep[d] = ChangerIdle
      BY <2>2, RunsAtStep
    <3> QED
      BY <1>0, <2>1, <3>1
  <2>5. changerStep[c] # "enforcing" /\ \A d \in Changers \ {c} : changerStep[d] # "enforcing"
    BY <2>1, <2>2, RunsAtStep DEF ChangerIdle
  <2>6. Nougat /\ first.enforce /\ open' # <<>> => reset[open'[1]]
    <3>1. CASE call[c] = "replace"
      <4>1. open' = open
        BY <2>1, <3>1
      <4>2. Len(open) = 1 => open[1] = c
        BY <2>2
      <4> QED
        BY <1>c, <2>1, <2>2, <3>1, <4>1, <4>2
    <3>2. CASE call[c] = "restore"
      <4>1. /\ open' \in Seq(Changers) /\ Len(open') = Len(open) - 1
            /\ \A i \in 1..Len(open) - 1 : open'[i] = open[i]
        BY <1>0, <2>1, <2>2, <3>2, PlacesClosed
      <4>2. open' # <<>> => Len(open') >= 1
        BY <4>1
      <4>3. open' # <<>> => Len(open) # 1 /\ open'[1] = open[1]
        <5>1. open' # <<>> => Len(open) >= 2 /\ 1 \in 1..Len(open) - 1
          BY <1>0, <4>1, <4>2
        <5>2. open' # <<>> => open'[1] = open[1]
          BY <4>1, <5>1
        <5>3. open' # <<>> => Len(open) # 1
          <6>1. ASSUME open' # <<>> PROVE Len(open) >= 2
            BY <5>1, <6>1
          <6>2. \A n : n >= 2 /\ n \in Nat => n # 1
            OBVIOUS
          <6>3. Len(open) \in Nat
            BY <1>0
          <6> QED
            BY <6>1, <6>2, <6>3
        <5> QED
          BY <5>2, <5>3
      <4> QED
        BY <1>c, <2>2, <4>3
    <3> QED
      BY <2>2, <3>1, <3>2
  <2>7. \A d \in Changers : reset[d] => Len(stack[d]) >= 2
    BY <1>a, <2>5
  <2>8. \A d \in Changers : changerStep'[d] \notin {"permissive", "enforcing"}
    BY <2>4 DEF ChangerIdle
  <2> QED
    BY <1>a, <2>1, <2>3, <2>6, <2>7, <2>8 DEF SelinuxInv
<1>9. ASSUME NEW c \in Changers, Fail(c) PROVE SelinuxInv'
  BY <1>9 DEF Fail
<1>10. CASE UNCHANGED changerVars
  <2>1. UNCHANGED <<enforce, stack, reset, call, changerStep, open, first>>
    BY <1>10 DEF changerVars, device, own
  <2> QED
    BY <1>a, <1>b, <1>c, <2>1 DEF SelinuxInv
<1> QED
  BY <1>1, <1>2, <1>3, <1>4, <1>5, <1>6, <1>7, <1>8, <1>9, <1>10 DEF ChangerNext

LEMMA FilesAreReverted == ASSUME FlagSetting, FlagInv PROVE FilesReverted
<1> SUFFICES ASSUME Quiet, open = <<>> PROVE changerFile = first.file
  BY DEF FilesReverted
<1>1. ASSUME NEW c \in Changers PROVE changerFile[FileOf[c]] = first.file[FileOf[c]]
  <2>1. Places(c) = {} /\ StackOf(c) /\ changerStep[c] = ChangerIdle /\ stack[c] \in Seq(FlagSets)
    BY DEF Places, FlagInv, StackInv, Quiet, FlagTypes
  <2>2. Popping(c) = 0
    BY RunsAtStep DEF Popping, Running, ChangerIdle
  <2>3. Cardinality(Places(c)) = 0
    BY <2>1, FS_EmptySet
  <2>4. stack[c] # <<>> => Len(stack[c]) = 1
    <3>1. Len(stack[c]) \in Nat
      BY <2>1
    <3>2. stack[c] # <<>> => Len(stack[c]) + 0 = 0 + 1
      BY <2>1, <2>2, <2>3 DEF StackOf
    <3> QED
      BY <3>1, <3>2
  <2> QED
    BY <2>1, <2>4 DEF StackOf
<1>2. \A f \in Files : changerFile[f] = first.file[f]
  BY <1>1 DEF FlagInv, StackInv, OtherFiles
<1> QED
  BY <1>2 DEF FlagInv, FlagTypes

(* Whatever fails while flags are replaced, and however calls of several   *)
(* changers are nested: when all is restored, the files are as they were,  *)
(* and what a changer believes is in its file, is (ReplaceFlags(),         *)
(* Restore(), CustomCommandLineFlags()).                                   *)
THEOREM FlagFilesReverted == ASSUME FlagSetting PROVE ChangerSpec => [](FilesReverted /\ KnowsTheFile)
<1>1. ASSUME FlagInv PROVE KnowsTheFile
  <2> SUFFICES ASSUME NEW c \in Changers, Quiet, Created(c) PROVE Last(stack[c]) = changerFile[FileOf[c]]
    BY DEF KnowsTheFile
  <2> QED
    BY <1>1 DEF Quiet, Created, FlagInv, StackInv, StackOf, Last
<1> QED
  BY InitFlags, NextFlags, FilesAreReverted, <1>1, PTL DEF ChangerSpec

(* While nothing fails, SELinux is permissive for as long as some changer  *)
(* has its flags on the device, and as it was when all is restored, also   *)
(* when several have it changed at once (_SetPermissive(), _ResetEnforce()).*)
THEOREM SelinuxReverted ==
  ASSUME FlagSetting, Failing = {} PROVE ChangerSpec => [](RevertedToOriginal /\ Readable)
<1>1. ASSUME FlagInv, SelinuxInv PROVE RevertedToOriginal
  <2> SUFFICES ASSUME Quiet, open = <<>> PROVE enforce = first.enforce
    BY <1>1, FilesAreReverted DEF RevertedToOriginal, FilesReverted
  <2> QED
    BY <1>1, ResetIsOpen DEF SelinuxInv
<1>2. ASSUME FlagInv, SelinuxInv PROVE Readable
  <2> SUFFICES ASSUME Quiet, Nougat, open # <<>> PROVE ~enforce
    BY DEF Readable
  <2>1. \A c \in Changers : ~Running(c) /\ changerStep[c] = ChangerIdle
    BY <1>2, RunsAtStep DEF Quiet
  <2>2. open[1] \in Changers
    BY <1>2 DEF FlagInv, FlagTypes
  <2>3. first.enforce => reset[open[1]]
    BY <1>2, <2>1, <2>2 DEF SelinuxInv, Running, ChangerIdle
  <2> QED
    BY <1>2, <2>2, <2>3 DEF SelinuxInv
<1> QED
  BY InitFlags, NextFlags, InitSelinux, NextSelinux, <1>1, <1>2, PTL DEF ChangerSpec
==============================================================================
