----------------------------- MODULE MCProgress ------------------------------
(***************************************************************************)
(* Progress of the tools, under fairness, in instances that are smaller    *)
(* than those of MCDeviceTools and MCHostTools.  A behaviour is of one     *)
(* tool, so that the fairness of a disjunction over the tools is that of   *)
(* the action of its tool.                                                 *)
(***************************************************************************)
EXTENDS Integers, Sequences, FiniteSets

CONSTANTS Alien, NoInode, NoPort, NoProc, d1, h1, h2, i1, i2, i3, main, none,
          p1, p2, t1, t2, u1, u2, u3

VARIABLES tool, x1, x2, x3, x4, x5, x6, x7, x8, x9, x10, x11, x12, x13, x14,
          x15, x16, x17, x18, x19, x20, x21, x22

vars == <<tool, x1, x2, x3, x4, x5, x6, x7, x8, x9, x10, x11, x12, x13, x14,
           x15, x16, x17, x18, x19, x20, x21, x22>>

(* The requests of the processes to the forwarder. *)
OneGroup == [p \in {p1, p2} |-> "g"]
PairLists == {<<<<0, h1>>, <<0, h2>>>>, <<<<1, h1>>>>, <<<<0, h1>>>>}

(* The events of two categories of the host's kernel. *)
EventsNeeded == [c \in {"sched", "disk"} |-> IF c = "sched" THEN {"switch", "wakeup"} ELSE {"issue"}]
EventsTaken == [c \in {"sched", "disk"} |-> IF c = "sched" THEN {} ELSE {"sync"}]

(* What is asked for: calls of DeviceUtils, partitions, steps, outputs,    *)
(* profiles.                                                               *)
Call(k, exact, blocking, quiet) == [kind |-> k, exact |-> exact, blocking |-> blocking, quiet |-> quiet]
LoudKills == {Call("KillAll", TRUE, b, FALSE) : b \in BOOLEAN}
LongCalls == {[kind |-> "Write", text |-> c, push |-> FALSE, su |-> s] : c \in {"short", "longline"}, s \in BOOLEAN}
UiCalls == {[kind |-> "SetScreen", on |-> s] : s \in {"on", "off"}} \cup {[kind |-> "GoHome"], [kind |-> "Dismiss"]}
SomePartitions == <<"bootloader", "boot", "userdata", "vendor">>
Step(n, r) == [name |-> n, reboot |-> r]
ThreeSteps == <<Step("wipe", TRUE), Step("properties", TRUE), Step("temperature", FALSE)>>
OrdinaryFlags == {<<"a">>}
SomeTexts == {<<"x", "\n">>, <<"x">>}
MainOrders == {<<"chrome">>, <<"perf">>, <<"chrome", "ddms", "perf">>, <<"chrome", "perf", "atrace">>}
StartupOrders == {<<"startup">>, <<"atrace", "startup">>}
PropCalls == {<<"GetProp", "">>}

AdbCommand == INSTANCE AdbCommand WITH
  Verbs <- {"install", "push", "forward --no-rebind", "reboot", "wait-for-device"},
  Retries <- 2, MaxCalls <- 1, MaxMoves <- 1, Slow <- TRUE, OldAdb <- TRUE,
  conn <- x1, moves <- x2, apk <- x3, port <- x4, remote <- x5, rooted <- x6,
  files <- x7, pc <- x8, verb <- x9, target <- x10, left <- x11, calls <- x12,
  late <- x13, answer <- x14, result <- x15, before <- x16
DeviceStart1 == INSTANCE DeviceStart WITH
  Ops <- {"Reboot", "EnableRoot", "NeedsSU"}, MaxCalls <- 1, Retries <- 1,
  MaxCrashes <- 1, Slow <- TRUE, EarlyProp <- FALSE,
  Partitions <- SomePartitions, Restart <- {"bootloader"},
  WipeOnly <- {"userdata"}, Optional <- {"vendor"}, FlashRetries <- 1,
  Serials <- TRUE, MaxFaults <- 0, build <- x1, hassu <- x2, up <- x3,
  leaving <- x4, restarting <- x5, online <- x6, adbroot <- x7, rootprop <- x8,
  boots <- x9, crashes <- x10, su <- x11, ghost <- x12, pc <- x13, op <- x14,
  left <- x15, calls <- x16, asked <- x17, result <- x18, since <- x19,
  mode <- x1, offModeCharge <- x2, written <- x3, archive <- x4, images <- x5,
  wipe <- x6, flashPc <- x7, todo <- x8, tries <- x9, raised <- x10,
  flashResult <- x11, faults <- x12
DeviceStart2 == INSTANCE DeviceStart WITH
  Ops <- {"Reboot", "EnableRoot", "NeedsSU"}, MaxCalls <- 1, Retries <- 1,
  MaxCrashes <- 1, Slow <- TRUE, EarlyProp <- FALSE,
  Partitions <- SomePartitions, Restart <- {"bootloader"},
  WipeOnly <- {"userdata"}, Optional <- {"vendor"}, FlashRetries <- 1,
  Serials <- TRUE, MaxFaults <- 2, build <- x1, hassu <- x2, up <- x3,
  leaving <- x4, restarting <- x5, online <- x6, adbroot <- x7, rootprop <- x8,
  boots <- x9, crashes <- x10, su <- x11, ghost <- x12, pc <- x13, op <- x14,
  left <- x15, calls <- x16, asked <- x17, result <- x18, since <- x19,
  mode <- x1, offModeCharge <- x2, written <- x3, archive <- x4, images <- x5,
  wipe <- x6, flashPc <- x7, todo <- x8, tries <- x9, raised <- x10,
  flashResult <- x11, faults <- x12
DeviceProcesses == INSTANCE DeviceProcesses WITH Pids <- {p1, p2},
  Ops <- LoudKills, Names <- {"app", "other"}, MaxSpawns <- 1, MaxExits <- 2,
  Reuse <- FALSE, Deaf <- TRUE, Retries <- 1, None <- none, Parts <- {p1, p2},
  AppOps <- {"Replace", "Remove"}, MaxCalls <- 1, MaxFaults <- 3, run <- x1,
  used <- x2, spawns <- x3, exits <- x4, dying <- x5, pc <- x6, op <- x7,
  left <- x8, pids <- x9, targets <- x10, hit <- x11, result <- x12,
  place <- x1, storage <- x2, deleting <- x3, replaced <- x4, modifiable <- x5,
  writable <- x6, running <- x7, appPc <- x8, appOp <- x9, phase <- x10,
  raised <- x11, appLeft <- x12, calls <- x13, faults <- x14, appResult <- x15
DeviceFiles == INSTANCE DeviceFiles WITH Ops <- LongCalls, MaxCalls <- 1,
  Retries <- 1, MaxFails <- 2, MaxChanges <- 1, Slow <- FALSE, file <- x1,
  renamed <- x2, temps <- x3, fails <- x4, changes <- x5, late <- x6, pc <- x7,
  op <- x8, left <- x9, calls <- x10, size <- x11, got <- x12, result <- x13,
  during <- x14
DeviceUi == INSTANCE DeviceUi WITH Ops <- UiCalls, Retries <- 1,
  MaxWindows <- 1, MaxCloses <- 1, MaxFails <- 1, Lazy <- TRUE, screen <- x1,
  toggles <- x2, windows <- x3, button <- x4, opens <- x5, closes <- x6,
  fails <- x7, pc <- x8, op <- x9, left <- x10, found <- x11, result <- x12,
  ended <- x13, missed <- x14
DeviceShell == INSTANCE DeviceShell WITH Retries <- 1, Longs <- {TRUE, FALSE},
  Larges <- {TRUE, FALSE}, Prints <- {"plain"}, Cuts <- TRUE, MaxAway <- 0,
  MaxCommands <- 3, MaxStarts <- 2, PersistentPrints <- {"text", "prompt"},
  MaxLines <- 2, Greets <- FALSE, Dies <- TRUE, long <- x1, large <- x2,
  check <- x3, prints <- x4, reachable <- x5, away <- x6, pc <- x7, mode <- x8,
  left <- x9, runs <- x10, temp <- x11, script <- x12, files <- x13,
  deleting <- x14, names <- x15, got <- x16, outcome <- x17, handle <- x1,
  shell <- x2, stdin <- x3, stdout <- x4, printed <- x5, persistentLeft <- x6,
  persistentPc <- x7, closing <- x8, command <- x9, starts <- x10,
  lines <- x11, result <- x12
BatteryLevel1 == INSTANCE BatteryLevel WITH Top <- 6, Reserve <- 2,
  MaxChargeError <- 3, Nexus5 <- TRUE, MaxUnknown <- 0, MaxFaults <- 0,
  Packages <- {"a", "b", "c"}, Uids <- {u1, u2, u3}, Again <- {},
  MaxInstalls <- 1, MaxClears <- 1, level <- x1, warm <- x2, charging <- x3,
  op <- x4, target <- x5, pc <- x6, result <- x7, read <- x8,
  last_charge_value <- x9, failures <- x10, start <- x11, unknown <- x12,
  faults <- x13, uid <- x1, uids <- x2, installs <- x3, clears <- x4,
  asked <- x5, answer <- x6, left <- x7
BatteryLevel2 == INSTANCE BatteryLevel WITH Top <- 6, Reserve <- 2,
  MaxChargeError <- 3, Nexus5 <- FALSE, MaxUnknown <- 2, MaxFaults <- 1,
  Packages <- {"a", "b", "c"}, Uids <- {u1, u2, u3}, Again <- {},
  MaxInstalls <- 1, MaxClears <- 1, level <- x1, warm <- x2, charging <- x3,
  op <- x4, target <- x5, pc <- x6, result <- x7, read <- x8,
  last_charge_value <- x9, failures <- x10, start <- x11, unknown <- x12,
  faults <- x13, uid <- x1, uids <- x2, installs <- x3, clears <- x4,
  asked <- x5, answer <- x6, left <- x7
BatteryMeasurement == INSTANCE BatteryMeasurement WITH Kind <- "power",
  Hardware <- TRUE, Sources <- {"wired", "wireless"}, Retries <- 1,
  Failing <- TRUE, phase <- x1, step <- x2, tries <- x3, pending <- x4,
  failed <- x5, software <- x6, cleared <- x7, wireless <- x8, plugged <- x9,
  stopped <- x10, shown <- x11, charger <- x12
DeviceFleet == INSTANCE DeviceFleet WITH Procs <- {p1, p2}, Group <- OneGroup,
  Devices <- {d1}, DevicePorts <- {1, 2}, HostPorts <- {h1, h2},
  Requests <- PairLists, Shared <- FALSE, NoPort <- NoPort,
  PoolDevices <- {d1}, Main <- main, Alien <- Alien, None <- none,
  WithBlacklist <- TRUE, UsbReset <- TRUE, AlienRuns <- FALSE,
  MonitorDevices <- {"p"},
  FailingQueries <- {"memory", "processes", "sensors", "uptime", "imei"},
  SlowQueries <- {"battery", "build", "memory", "uptime"},
  Unreachable <- TRUE, Shrinking <- FALSE, lock <- x1, pc <- x2, job <- x3,
  raised <- x4, instance <- x5, initialized <- x6, toHost <- x7,
  toDevice <- x8, pidFile <- x9, forwards <- x10, faulty <- x11, health <- x1,
  adb <- x2, usb <- x3, file <- x4, poolLock <- x5, ext <- x6, phase <- x7,
  poolPc <- x8, status <- x9, restart <- x10, resets <- x11, added <- x12,
  main <- x1, monitorBlacklist <- x2, healthy <- x3, step <- x4, state <- x5,
  known <- x6, monitorFile <- x7, whole <- x8, shown <- x9, seen <- x10
DeviceSetup == INSTANCE DeviceSetup WITH Devices <- {d1}, Steps <- ThreeSteps,
  Serials <- {none}, MaxFaults <- 3, Others <- TRUE, None <- none,
  LockedDevices <- {"p"}, Chosen <- {}, Confirming <- FALSE, Leaving <- FALSE,
  MaxPolls <- 3, Day <- 6, Offs <- -4..4, Ignoring <- TRUE, Slow <- FALSE,
  MaxTime <- 4, attached <- x1, requested <- x2, serial <- x3, up <- x4,
  authorized <- x5, before <- x6, held <- x7, pc <- x8, index <- x9,
  listed <- x10, faults <- x11, main <- x12, picked <- x13, output <- x14,
  place <- x1, knows <- x2, lock <- x3, todo <- x4, rebooted <- x5,
  polls <- x6, unlockMain <- x7, unlockPc <- x8, process <- x9, holds <- x10,
  leftover <- x11, verdict <- x12, datePc <- x1, now <- x2, dateDevice <- x3,
  correct <- x4, tries <- x5, ignored <- x6, told <- x7
DevilThreads1 == INSTANCE DevilThreads WITH Timeout <- 2, Retries <- 1,
  Period <- 1, MaxTries <- 0, Slice <- 2, Retried <- {"timeout", "error"},
  Hangs <- FALSE, N <- 2, GroupRetries <- 1, Kinds <- {"async", "map"},
  GroupHangs <- FALSE, Devices <- {1, 2}, Sync <- TRUE, Chains <- FALSE,
  MaxCalls <- 4, num_try <- x1, run <- x2, slice <- x3, thread <- x4,
  age <- x5, nap <- x6, tries <- x7, verdict <- x8, late <- x9, kind <- x1,
  link <- x2, groupCaller <- x3, joined <- x4, groupThread <- x5,
  attempts <- x6, expired <- x7, groupVerdict <- x8, pc <- x1, calls <- x2,
  op <- x3, parThread <- x4, objs <- x5, next <- x6, entered <- x7, told <- x8,
  failed <- x9
DevilThreads2 == INSTANCE DevilThreads WITH Timeout <- 2, Retries <- 1,
  Period <- 1, MaxTries <- 2, Slice <- 2, Retried <- {"timeout", "error"},
  Hangs <- TRUE, N <- 2, GroupRetries <- 1, Kinds <- {"async", "map"},
  GroupHangs <- FALSE, Devices <- {1, 2}, Sync <- TRUE, Chains <- FALSE,
  MaxCalls <- 4, num_try <- x1, run <- x2, slice <- x3, thread <- x4,
  age <- x5, nap <- x6, tries <- x7, verdict <- x8, late <- x9, kind <- x1,
  link <- x2, groupCaller <- x3, joined <- x4, groupThread <- x5,
  attempts <- x6, expired <- x7, groupVerdict <- x8, pc <- x1, calls <- x2,
  op <- x3, parThread <- x4, objs <- x5, next <- x6, entered <- x7, told <- x8,
  failed <- x9
HostLocks == INSTANCE HostLocks WITH Procs <- {p1, p2}, FIRST <- 1, LAST <- 2,
  Top <- 3, Resets <- FALSE, Faults <- FALSE, Others <- TRUE,
  PathProcs <- {p1, p2}, Inodes <- {i1, i2, i3}, NoInode <- NoInode,
  NoProc <- NoProc, Dying <- FALSE, Modulus <- 4, TickThreads <- {t1, t2},
  MaxTime <- 13, MaxGap <- 3, file <- x1, lock <- x2, portPc <- x3, port <- x4,
  bound <- x5, spoiled <- x6, taken <- x7, pathPc <- x1, name <- x2, fd <- x3,
  flock <- x4, global <- x5, time <- x1, LAST_NOW <- x2, WRAPAROUNDS <- x3,
  sampled <- x4, tickLock <- x5, tickPc <- x6, current_sample <- x7, now <- x8
TracingSession == INSTANCE TracingSession WITH
  Order <- <<"ftrace", "atrace", "battor">>, Syncs <- {"atrace", "battor"},
  Threaded <- {"atrace"}, Slow <- TRUE, Raising <- TRUE, Refusing <- FALSE,
  MaxSessions <- 3, Settled <- FALSE, Patient <- TRUE,
  Categories <- {"sched", "disk"}, Req <- EventsNeeded, Opt <- EventsTaken,
  Events <- {"switch", "wakeup", "issue", "sync"}, Sched <- "sched",
  AsString <- FALSE, Failing <- TRUE, pc <- x1, at <- x2, inProgress <- x3,
  children <- x4, passed <- x5, tracing <- x6, late <- x7, thread <- x8,
  marked <- x9, log <- x10, logging <- x11, results <- x12, outcome <- x13,
  unwritten <- x14, MarkerFails <- TRUE,
  session <- x1, dumpPc <- x2, helper <- x3, tmp <- x4, out <- x5,
  opened <- x6, writers <- x7, finished <- x8, dump <- x9, writable <- x1,
  given <- x2, ftracePc <- x3, todo <- x4, categories <- x5, enabled <- x6,
  tracingOn <- x7, bufferSize <- x8, trace <- x9, result <- x10
OutputReaders1 == INSTANCE OutputReaders WITH Outputs <- SomeTexts,
  Lines <- FALSE, IterTimeout <- 0, Timeout <- 1, MaxTime <- 3,
  Child <- "silent", MayClose <- FALSE, MaxLog <- 2, MaxThreads <- 2,
  MaxStarts <- 2, Slow <- FALSE, Fails <- FALSE, Amount <- 3,
  QueueIterTimeout <- TRUE, QueueTimeout <- TRUE, QueueFails <- TRUE,
  MaxQueue <- 4, output <- x1, written <- x2, proc <- x3, closed <- x4,
  pipe <- x5, returncode <- x6, now <- x7, iter_end <- x8, iter_end_time <- x9,
  pc <- x10, data <- x11, buffer <- x12, out <- x13, result <- x14, log <- x1,
  cleared <- x2, thread <- x3, next <- x4, held <- x5, record_file <- x6,
  record_thread <- x7, stop_event <- x8, output_file <- x9, logcatPc <- x10,
  starts <- x11, waited <- x12, queueWritten <- x1, queueProc <- x2,
  queueClosed <- x3, queuePipe <- x4, queueThread <- x5, stdout_queue <- x6,
  queueReturncode <- x7, late <- x8, queuePc <- x9, queueOut <- x10,
  queueResult <- x11
OutputReaders2 == INSTANCE OutputReaders WITH Outputs <- SomeTexts,
  Lines <- TRUE, IterTimeout <- 1, Timeout <- 2, MaxTime <- 3, Child <- "none",
  MayClose <- TRUE, MaxLog <- 2, MaxThreads <- 2, MaxStarts <- 2,
  Slow <- FALSE, Fails <- FALSE, Amount <- 3, QueueIterTimeout <- TRUE,
  QueueTimeout <- TRUE, QueueFails <- TRUE, MaxQueue <- 4, output <- x1,
  written <- x2, proc <- x3, closed <- x4, pipe <- x5, returncode <- x6,
  now <- x7, iter_end <- x8, iter_end_time <- x9, pc <- x10, data <- x11,
  buffer <- x12, out <- x13, result <- x14, log <- x1, cleared <- x2,
  thread <- x3, next <- x4, held <- x5, record_file <- x6, record_thread <- x7,
  stop_event <- x8, output_file <- x9, logcatPc <- x10, starts <- x11,
  waited <- x12, queueWritten <- x1, queueProc <- x2, queueClosed <- x3,
  queuePipe <- x4, queueThread <- x5, stdout_queue <- x6,
  queueReturncode <- x7, late <- x8, queuePc <- x9, queueOut <- x10,
  queueResult <- x11
Recorders == INSTANCE Recorders WITH MaxFrames <- 2, Remembered <- 2,
  MaxStops <- 1, Closes <- TRUE, Failing <- TRUE, Recorders <- {"v"},
  MaxRounds <- 6, Impatient <- FALSE, VideoFailing <- FALSE, main <- x1,
  thread <- x2, getData <- x3, stop <- x4, queue <- x5, timestamps <- x6,
  lastTimestamp <- x7, retries <- x8, frames <- x9, completed <- x10,
  open <- x11, ret <- x12, stops <- x13, asked <- x14, pc <- x1, round <- x2,
  videoThread <- x3, started <- x4, process <- x5, file <- x6, pulled <- x7
ModuleLoader == INSTANCE ModuleLoader WITH N <- 3, MaxImports <- 1,
  MaxDepth <- 4, Acyclic <- FALSE, MaxBad <- 0, MaxRequests <- 1,
  Exporters <- {1}, Excludable <- {3}, imports <- x1, file <- x2,
  exports <- x3, loaded_modules <- x4, dependent_modules <- x5, reached <- x6,
  stack <- x7, request <- x8, outcome <- x9, requests <- x10
ProfileChrome1 == INSTANCE ProfileChrome WITH Orders <- MainOrders,
  MaxProfiles <- 1, MaxFaults <- 0, tracing <- x1, heap <- x2,
  performance <- x3, flags <- x4, granted <- x5, running <- x6, converts <- x7,
  order <- x8, memory <- x9, profile <- x10, log <- x11, writes <- x12,
  flagsFound <- x13, monitors <- x14, isTracing <- x15, traceFile <- x16,
  pc <- x17, at <- x18, step <- x19, results <- x20, outcome <- x21,
  faults <- x22
ProfileChrome2 == INSTANCE ProfileChrome WITH Orders <- StartupOrders,
  MaxProfiles <- 1, MaxFaults <- 2, tracing <- x1, heap <- x2,
  performance <- x3, flags <- x4, granted <- x5, running <- x6, converts <- x7,
  order <- x8, memory <- x9, profile <- x10, log <- x11, writes <- x12,
  flagsFound <- x13, monitors <- x14, isTracing <- x15, traceFile <- x16,
  pc <- x17, at <- x18, step <- x19, results <- x20, outcome <- x21,
  faults <- x22

(* The places a tool does not use. *)
Off19 == x20 = 0 /\ x21 = 0 /\ x22 = 0
Off16 == x17 = 0 /\ x18 = 0 /\ x19 = 0 /\ Off19
Off15 == x16 = 0 /\ Off16
Off14 == x15 = 0 /\ Off15
Off13 == x14 = 0 /\ Off14
Off12 == x13 = 0 /\ Off13
Off11 == x12 = 0 /\ Off12
Off10 == x11 = 0 /\ Off11
Off9 == x10 = 0 /\ Off10
Off8 == x9 = 0 /\ Off9
Off7 == x8 = 0 /\ Off8
Off5 == x6 = 0 /\ x7 = 0 /\ Off7
Same19 == UNCHANGED <<x20, x21, x22>>
Same16 == UNCHANGED <<x17, x18, x19>> /\ Same19
Same15 == UNCHANGED <<x16>> /\ Same16
Same14 == UNCHANGED <<x15>> /\ Same15
Same13 == UNCHANGED <<x14>> /\ Same14
Same12 == UNCHANGED <<x13>> /\ Same13
Same11 == UNCHANGED <<x12>> /\ Same12
Same10 == UNCHANGED <<x11>> /\ Same11
Same9 == UNCHANGED <<x10>> /\ Same10
Same8 == UNCHANGED <<x9>> /\ Same9
Same7 == UNCHANGED <<x8>> /\ Same8
Same5 == UNCHANGED <<x6, x7>> /\ Same7

Init ==
  \/ tool = "adb_slow" /\ AdbCommand!Init /\ Off16
  \/ tool = "boot_crash" /\ DeviceStart1!Init /\ Off19
  \/ tool = "flash_calm" /\ DeviceStart1!FlashInit /\ Off12
  \/ tool = "flash_faults" /\ DeviceStart2!FlashInit /\ Off12
  \/ tool = "proc_kill" /\ DeviceProcesses!Init /\ Off12
  \/ tool = "app_faults" /\ DeviceProcesses!AppInit /\ Off15
  \/ tool = "files_fail" /\ DeviceFiles!Init /\ Off14
  \/ tool = "ui_wild" /\ DeviceUi!Init /\ Off14
  \/ tool = "pshell_plain" /\ DeviceShell!PersistentInit /\ Off12
  \/ tool = "level_calm" /\ BatteryLevel1!Init /\ Off13
  \/ tool = "level_other" /\ BatteryLevel2!Init /\ Off13
  \/ tool = "battery_ends" /\ BatteryMeasurement!Init /\ Off12
  \/ tool = "pool_recover" /\ DeviceFleet!PoolInit /\ Off12
  \/ tool = "prov_faults" /\ DeviceSetup!Init /\ Off14
  \/ tool = "unlock_one" /\ DeviceSetup!UnlockInit /\ Off12
  \/ tool = "monitor_goes" /\ DeviceFleet!MonitorInit /\ Off10
  \/ tool = "retry_live" /\ DevilThreads1!Init /\ Off9
  \/ tool = "retry_hang" /\ DevilThreads2!Init /\ Off9
  \/ tool = "group_live" /\ DevilThreads1!GroupInit /\ Off8
  \/ tool = "parallel_sync" /\ DevilThreads1!ParInit /\ Off9
  \/ tool = "ports_live" /\ HostLocks!PortInit /\ Off7
  \/ tool = "plock_live" /\ HostLocks!PathInit /\ Off5
  \/ tool = "trace_live" /\ TracingSession!Init /\ Off14
  \/ tool = "cmd_output" /\ OutputReaders1!Init /\ Off14
  \/ tool = "cmd_iter" /\ OutputReaders2!Init /\ Off14
  \/ tool = "logcat_live" /\ OutputReaders1!LogcatInit /\ Off12
  \/ tool = "surface_stop" /\ Recorders!Init /\ Off14
  \/ tool = "video_one" /\ Recorders!VideoInit /\ Off7
  \/ tool = "vulc_cycle" /\ ModuleLoader!Init /\ Off10
  \/ tool = "chrome_main" /\ ProfileChrome1!Init
  \/ tool = "chrome_startup" /\ ProfileChrome2!Init

Next ==
  /\ UNCHANGED tool
  /\ \/ tool = "adb_slow" /\ AdbCommand!Next /\ Same16
     \/ tool = "boot_crash" /\ DeviceStart1!Next /\ Same19
     \/ tool = "flash_calm" /\ DeviceStart1!FlashNext /\ Same12
     \/ tool = "flash_faults" /\ DeviceStart2!FlashNext /\ Same12
     \/ tool = "proc_kill" /\ DeviceProcesses!Next /\ Same12
     \/ tool = "app_faults" /\ DeviceProcesses!AppNext /\ Same15
     \/ tool = "files_fail" /\ DeviceFiles!Next /\ Same14
     \/ tool = "ui_wild" /\ DeviceUi!Next /\ Same14
     \/ tool = "pshell_plain" /\ DeviceShell!PersistentNext /\ Same12
     \/ tool = "level_calm" /\ BatteryLevel1!Next /\ Same13
     \/ tool = "level_other" /\ BatteryLevel2!Next /\ Same13
     \/ tool = "battery_ends" /\ BatteryMeasurement!Next /\ Same12
     \/ tool = "pool_recover" /\ DeviceFleet!PoolNext /\ Same12
     \/ tool = "prov_faults" /\ DeviceSetup!Next /\ Same14
     \/ tool = "unlock_one" /\ DeviceSetup!UnlockNext /\ Same12
     \/ tool = "monitor_goes" /\ DeviceFleet!MonitorNext /\ Same10
     \/ tool = "retry_live" /\ DevilThreads1!Next /\ Same9
     \/ tool = "retry_hang" /\ DevilThreads2!Next /\ Same9
     \/ tool = "group_live" /\ DevilThreads1!GroupNext /\ Same8
     \/ tool = "parallel_sync" /\ DevilThreads1!ParNext /\ Same9
     \/ tool = "ports_live" /\ HostLocks!PortNext /\ Same7
     \/ tool = "plock_live" /\ HostLocks!PathNext /\ Same5
     \/ tool = "trace_live" /\ TracingSession!Next /\ Same14
     \/ tool = "cmd_output" /\ OutputReaders1!Next /\ Same14
     \/ tool = "cmd_iter" /\ OutputReaders2!Next /\ Same14
     \/ tool = "logcat_live" /\ OutputReaders1!LogcatNext /\ Same12
     \/ tool = "surface_stop" /\ Recorders!Next /\ Same14
     \/ tool = "video_one" /\ Recorders!VideoNext /\ Same7
     \/ tool = "vulc_cycle" /\ ModuleLoader!Next /\ Same10
     \/ tool = "chrome_main" /\ ProfileChrome1!Next
     \/ tool = "chrome_startup" /\ ProfileChrome2!Next

(* The program goes on with what it has begun. *)
Works ==
  /\ UNCHANGED tool
  /\ \/ tool = "adb_slow" /\ AdbCommand!Caller /\ Same16
     \/ tool = "boot_crash" /\ DeviceStart1!Caller /\ Same19
     \/ tool = "flash_calm" /\ DeviceStart1!Steps /\ Same12
     \/ tool = "flash_faults" /\ DeviceStart2!Steps /\ Same12
     \/ tool = "proc_kill" /\ DeviceProcesses!Caller /\ Same12
     \/ tool = "app_faults" /\ DeviceProcesses!Steps /\ Same15
     \/ tool = "files_fail" /\ DeviceFiles!Caller /\ Same14
     \/ tool = "ui_wild" /\ DeviceUi!Caller /\ Same14
     \/ tool = "pshell_plain" /\ (DeviceShell!WaitForReady \/ DeviceShell!ReadsLine \/ DeviceShell!Communicates) /\ Same12
     \/ tool = "level_calm" /\ BatteryLevel1!Steps /\ Same13
     \/ tool = "level_other" /\ BatteryLevel2!Steps /\ Same13
     \/ tool = "battery_ends" /\ BatteryMeasurement!Step /\ Same12
     \/ tool = "pool_recover" /\ DeviceFleet!OfMain /\ Same12
     \/ tool = "prov_faults" /\ (DeviceSetup!GetDevices \/ DeviceSetup!Join) /\ Same14
     \/ tool = "unlock_one" /\ DeviceSetup!Main /\ Same12
     \/ tool = "monitor_goes" /\ DeviceFleet!MonitorMain /\ Same10
     \/ tool = "retry_live" /\ DevilThreads1!Caller /\ Same9
     \/ tool = "retry_hang" /\ DevilThreads2!Caller /\ Same9
     \/ tool = "group_live" /\ DevilThreads1!PFinish /\ Same8
     \/ tool = "parallel_sync" /\ DevilThreads1!ParCaller /\ Same9
     \/ tool = "ports_live" /\ (HostLocks!Read(p1) \/ HostLocks!Probe(p1) \/ HostLocks!Write(p1) \/ HostLocks!NoneLeft(p1) \/ HostLocks!Unlock(p1)) /\ Same7
     \/ tool = "plock_live" /\ (HostLocks!OpenPseudo(p1) \/ HostLocks!LockPseudo(p1) \/ HostLocks!LockPseudoFails(p1) \/ HostLocks!PathLeave(p1) \/ HostLocks!UnlockPseudo(p1) \/ HostLocks!RemovePseudo(p1)) /\ Same5
     \/ tool = "trace_live" /\ TracingSession!Controller /\ Same14
     \/ tool = "cmd_output" /\ OutputReaders1!Reader /\ Same14
     \/ tool = "cmd_iter" /\ OutputReaders2!Reader /\ Same14
     \/ tool = "logcat_live" /\ (OutputReaders1!StartRecording \/ OutputReaders1!ReadLine \/ OutputReaders1!Join \/ OutputReaders1!Copy) /\ Same12
     \/ tool = "surface_stop" /\ Recorders!Main /\ Same14
     \/ tool = "video_one" /\ Recorders!Caller("v") /\ Same7
     \/ tool = "vulc_cycle" /\ (ModuleLoader!Import \/ ModuleLoader!ImportNew \/ ModuleLoader!Loaded) /\ Same10
     \/ tool = "chrome_main" /\ ProfileChrome1!Steps
     \/ tool = "chrome_startup" /\ ProfileChrome2!Steps

(* The device, the browser, the child and the first thread go on, too.     *)
Answers ==
  /\ UNCHANGED tool
  /\ \/ tool = "flash_calm" /\ DeviceStart1!BootsUp /\ Same12
     \/ tool = "flash_faults" /\ DeviceStart2!BootsUp /\ Same12
     \/ tool = "app_faults" /\ DeviceProcesses!DeleteTemporaryDir /\ Same15
     \/ tool = "files_fail" /\ DeviceFiles!DeleteTemporaryFile /\ Same14
     \/ tool = "ui_wild" /\ DeviceUi!Obeys /\ Same14
     \/ tool = "pshell_plain" /\ DeviceShell!Device /\ Same12
     \/ tool = "battery_ends" /\ BatteryMeasurement!Leave /\ Same12
     \/ tool = "prov_faults" /\ DeviceSetup!OfDevice(d1) /\ Same14
     \/ tool = "unlock_one" /\ DeviceSetup!Unlock("p") /\ Same12
     \/ tool = "monitor_goes" /\ DeviceFleet!Poll("p") /\ Same10
     \/ tool = "retry_live" /\ DevilThreads1!Thread(1) /\ Same9
     \/ tool = "retry_hang" /\ DevilThreads2!Wakes(1) /\ Same9
     \/ tool = "group_live" /\ (\E i \in 1..2 : DevilThreads1!GroupJoin(i)) /\ Same8
     \/ tool = "parallel_sync" /\ (\E g \in 1..4, d \in {1, 2}, how \in {"value", "threw"} : DevilThreads1!Run(g, d, how)) /\ Same9
     \/ tool = "ports_live" /\ (HostLocks!Read(p2) \/ HostLocks!Probe(p2) \/ HostLocks!Write(p2) \/ HostLocks!NoneLeft(p2) \/ HostLocks!Unlock(p2)) /\ Same7
     \/ tool = "plock_live" /\ (HostLocks!OpenPseudo(p2) \/ HostLocks!LockPseudo(p2) \/ HostLocks!LockPseudoFails(p2) \/ HostLocks!PathLeave(p2) \/ HostLocks!UnlockPseudo(p2) \/ HostLocks!RemovePseudo(p2)) /\ Same5
     \/ tool = "cmd_output" /\ OutputReaders1!ChildTalks /\ Same14
     \/ tool = "cmd_iter" /\ OutputReaders2!ChildTalks /\ Same14
     \/ tool = "logcat_live" /\ OutputReaders1!Recorder(1) /\ Same12
     \/ tool = "surface_stop" /\ Recorders!Thread /\ Same14
     \/ tool = "video_one" /\ Recorders!OfDevice("v") /\ Same7
     \/ tool = "chrome_main" /\ ProfileChrome1!BrowserWrites
     \/ tool = "chrome_startup" /\ ProfileChrome2!BrowserWrites

(* So do the second thread and the second command. *)
AnswersToo ==
  /\ UNCHANGED tool
  /\ \/ tool = "unlock_one" /\ DeviceSetup!Runs("p", "oem") /\ Same12
     \/ tool = "retry_live" /\ DevilThreads1!Thread(2) /\ Same9
     \/ tool = "retry_hang" /\ DevilThreads2!Wakes(2) /\ Same9
     \/ tool = "group_live" /\ (\E i \in 1..2 : DevilThreads1!Calls(i)) /\ Same8
     \/ tool = "logcat_live" /\ OutputReaders1!Recorder(2) /\ Same12

(* And the third. *)
JoinsAll ==
  /\ UNCHANGED tool
  /\ \/ tool = "unlock_one" /\ DeviceSetup!Runs("p", "flashing") /\ Same12
     \/ tool = "group_live" /\ DevilThreads1!JoinedAll /\ Same8

(* Time passes. *)
Elapses ==
  /\ UNCHANGED tool
  /\ \/ tool = "retry_live" /\ DevilThreads1!Tick /\ Same9
     \/ tool = "retry_hang" /\ DevilThreads2!Tick /\ Same9
     \/ tool = "cmd_output" /\ OutputReaders1!Tick /\ Same14
     \/ tool = "cmd_iter" /\ OutputReaders2!Tick /\ Same14
     \/ tool = "group_live" /\ DevilThreads1!Expires /\ Same8

(* A thread that is governed by a deadline sees it pass ... *)
TimesOut ==
  /\ UNCHANGED tool
  /\ \/ tool = "group_live" /\ (\E i \in 1..2 : DevilThreads1!GovernedTimesOut(i)) /\ Same8

(* ... and so does one of its own. *)
TimesOutAlone ==
  /\ UNCHANGED tool
  /\ \/ tool = "group_live" /\ (\E i \in 1..2 : DevilThreads1!AloneTimesOut(i)) /\ Same8

(* What may be put off is not put off for ever: a look at the watchdog, the *)
(* turn at a lock, the end of ten seconds; a device cools and drains.       *)
TurnsUp ==
  /\ UNCHANGED tool
  /\ \/ tool = "ui_wild" /\ DeviceUi!GoHomeTimesOut /\ Same14
     \/ tool = "level_calm" /\ BatteryLevel1!Cools /\ Same13
     \/ tool = "level_other" /\ BatteryLevel2!Cools /\ Same13
     \/ tool = "pool_recover" /\ DeviceFleet!PoolOfDevice(d1) /\ Same12
     \/ tool = "retry_live" /\ DevilThreads1!Watch /\ Same9
     \/ tool = "retry_hang" /\ DevilThreads2!Watch /\ Same9
     \/ tool = "ports_live" /\ HostLocks!Lock(p1) /\ Same7
     \/ tool = "plock_live" /\ (HostLocks!AcquireTimesOut(p1) \/ HostLocks!ReleaseTimesOut(p1)) /\ Same5

(* The same of the second process. *)
TurnsUpToo ==
  /\ UNCHANGED tool
  /\ \/ tool = "level_calm" /\ BatteryLevel1!Drains /\ Same13
     \/ tool = "level_other" /\ BatteryLevel2!Drains /\ Same13
     \/ tool = "ports_live" /\ HostLocks!Lock(p2) /\ Same7
     \/ tool = "plock_live" /\ (HostLocks!AcquireTimesOut(p2) \/ HostLocks!ReleaseTimesOut(p2)) /\ Same5

Spec == Init /\ [][Next]_vars
        /\ WF_vars(Works)
        /\ WF_vars(Answers)
        /\ WF_vars(AnswersToo)
        /\ WF_vars(JoinsAll)
        /\ WF_vars(Elapses)
        /\ WF_vars(TimesOut)
        /\ WF_vars(TimesOutAlone)
        /\ SF_vars(TurnsUp)
        /\ SF_vars(TurnsUpToo)

(* What the modules ask of their constants. *)
ASSUME
  /\ DeviceStart1!Assumption
  /\ DeviceStart2!Assumption
  /\ BatteryLevel1!Assumption
  /\ BatteryLevel2!Assumption
  /\ BatteryMeasurement!BatteryMeasurementAssumption
  /\ DeviceFleet!ForwarderAssumption
  /\ DeviceFleet!DevicePoolAssumption
  /\ DeviceFleet!MonitorAssumption
  /\ DeviceSetup!UnlockAssumption
  /\ DeviceSetup!DateAssumption
  /\ DevilThreads1!TimeoutRetryAssumption
  /\ DevilThreads1!ThreadGroupAssumption
  /\ DevilThreads1!ParallelizerAssumption
  /\ DevilThreads2!TimeoutRetryAssumption
  /\ DevilThreads2!ThreadGroupAssumption
  /\ DevilThreads2!ParallelizerAssumption
  /\ HostLocks!PortAssumption
  /\ HostLocks!PseudoLockAssumption
  /\ HostLocks!ModulusAssumption
  /\ HostLocks!MaxTimeAssumption
  /\ TracingSession!TracingSessionAssumption
  /\ TracingSession!ProcessDumpAssumption
  /\ TracingSession!FtraceAssumption
  /\ Recorders!SurfaceAssumption
  /\ Recorders!VideoAssumption
  /\ ProfileChrome1!Assumption
  /\ ProfileChrome2!Assumption

----------------------------------------------------------------------------
CallRuns ==
  \/ tool = "adb_slow" /\ AdbCommand!CallRuns
  \/ tool = "boot_crash" /\ DeviceStart1!CallRuns
  \/ tool = "flash_faults" /\ DeviceStart2!FlashCallRuns
  \/ tool = "proc_kill" /\ DeviceProcesses!CallRuns
  \/ tool = "pshell_plain" /\ DeviceShell!Unanswered
  \/ tool = "ui_wild" /\ DeviceUi!CallRuns

(* A call of DeviceUtils ends, though the device be slow, go down, lose a  *)
(* command or never do what is waited for: its timeouts are for this.  A   *)
(* command of a persistent shell, which has none, returns as long as the   *)
(* shell lives, and also after it when its answer was printed or the shell *)
(* was to end.                                                             *)
CallsEnd == CallRuns ~> ~CallRuns

Held(p) ==
  \/ tool = "ports_live" /\ HostLocks!HasLock(p)
  \/ tool = "plock_live" /\ HostLocks!Busy(p)
  \/ tool = "files_fail" /\ DeviceFiles!TempsWait
  \/ tool = "app_faults" /\ DeviceProcesses!Stored

(* What is held is given back: the locks of the ports and of the host by   *)
(* either process, the temporary files and directories of a device.        *)
WhatIsHeldIsGivenBack == \A p \in {p1, p2} : Held(p) ~> ~Held(p)

Waiting ==
  \/ tool = "retry_live" /\ (\E i \in 1..2 : DevilThreads1!IsAlive(i))
  \/ tool = "retry_hang" /\ DevilThreads2!StillRuns
  \/ tool = "group_live" /\ DevilThreads1!OwnerOverdue
  \/ tool = "parallel_sync" /\ DevilThreads1!InStatement
  \/ tool = "pool_recover" /\ DeviceFleet!Recovering
  \/ tool = "prov_faults" /\ DeviceSetup!Provisions
  \/ tool = "unlock_one" /\ DeviceSetup!Unlocks
  \/ tool = "monitor_goes" /\ DeviceFleet!InRound

(* Whoever waits for a thread comes back, and the thread ends: of a call   *)
(* with retries, of a group, of a call on all devices, of a recovery, a    *)
(* provisioning and an unlocking; and a round of the monitor ends, in a    *)
(* file or, if a query times out, with the monitor itself.                 *)
ThreadsComeBack == Waiting ~> ~Waiting

Records ==
  \/ tool = "trace_live" /\ TracingSession!CallRuns
  \/ tool = "chrome_main" /\ ProfileChrome1!Profiles
  \/ tool = "chrome_startup" /\ ProfileChrome2!Profiles
  \/ tool = "cmd_output" /\ OutputReaders1!CommandRuns
  \/ tool = "cmd_iter" /\ OutputReaders2!CommandRuns
  \/ tool = "logcat_live" /\ OutputReaders1!Stops
  \/ tool = "surface_stop" /\ Recorders!Stops
  \/ tool = "video_one" /\ Recorders!Waits("v")

(* What is recorded comes to an end, though its agents hang or fail to     *)
(* start, to stop or to give what they have: a trace, a profile, the       *)
(* output of a command, the log, the frames, a video.  A trace whose clock *)
(* sync marker hangs is excepted: StopTracing() has no timeout on it.      *)
RecordingsEnd == Records ~> ~Records

Awaited ==
  \/ tool = "logcat_live" /\ OutputReaders1!WaitsForLogged
  \/ tool = "vulc_cycle" /\ ModuleLoader!Loading
  \/ tool = "level_calm" /\ BatteryLevel1!WaitsForBattery
  \/ tool = "level_other" /\ BatteryLevel2!WaitsForBattery
  \/ tool = "battery_ends" /\ BatteryMeasurement!Measures
  \/ tool = "flash_calm" /\ DeviceStart1!StillToFlash

(* What is waited for comes: the line of the log, the modules of a page,   *)
(* the charge and the temperature of a battery, the end of a measurement,  *)
(* the partitions of a device.                                             *)
WaitsAreAnswered == Awaited ~> ~Awaited
==============================================================================
