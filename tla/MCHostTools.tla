----------------------------- MODULE MCHostTools -----------------------------
(***************************************************************************)
(* The tools of the host and of tracing, each in small instances, next to  *)
(* each other (see MCDeviceTools): tool says which instance a behaviour is *)
(* of, x1, x2, ... hold the variables of its module.                       *)
(***************************************************************************)
EXTENDS Integers, Sequences, FiniteSets

CONSTANTS Damaged, NoInode, NoProc, Nothing, anywhere, atrace, chrome, d1, d2,
          empty, h1, h2, i1, i2, i3, i4, key, key1, key2, linux, none, p1, p2,
          p3, pathA, pathB, t1, t2

VARIABLES tool, x1, x2, x3, x4, x5, x6, x7, x8, x9, x10, x11, x12, x13, x14,
          x15, x16, x17, x18, x19, x20, x21, x22

vars == <<tool, x1, x2, x3, x4, x5, x6, x7, x8, x9, x10, x11, x12, x13, x14,
           x15, x16, x17, x18, x19, x20, x21, x22>>

(* Profiles: the agents of each, in the order of the controller. *)
MainOrders == {<<"chrome">>, <<"perf">>, <<"chrome", "ddms", "perf">>, <<"chrome", "perf", "atrace">>}
StartupOrders == {<<"startup">>, <<"atrace", "startup">>}
BothOrders == {<<"chrome", "ddms", "perf", "atrace">>, <<"atrace", "startup">>}

(* What configs say of their dependencies: two of one dependency and of two *)
(* platforms, three of one platform, one of two dependencies.              *)
Says(ds, infos) == UNION {[dom -> infos] : dom \in SUBSET (ds \X {linux, anywhere})}
Infos(locals, clouds) == [local : locals, cloud : clouds]
TwoConfigs == LET one == Says({d1}, Infos({<<>>, <<pathA>>, <<pathB, pathA>>}, {"none", "whole"})) IN one \X one
ThreeConfigs == LET one == UNION {[dom -> Infos({<<pathA>>, <<pathB>>, <<pathA, pathB>>}, {"none", "whole", "noBucket"})]
                                    : dom \in SUBSET {<<d1, linux>>}}
                IN one \X one \X one
OneConfig == {<<x>> : x \in Says({d1, d2}, Infos({<<>>, <<pathA>>}, {"none", "whole"}))}

(* The events of two categories of the host's kernel. *)
EventsNeeded == [c \in {"sched", "disk"} |-> IF c = "sched" THEN {"switch", "wakeup"} ELSE {"issue"}]
EventsTaken == [c \in {"sched", "disk"} |-> IF c = "sched" THEN {} ELSE {"sync"}]

(* Outputs of a command. *)
UnixTexts == UNION {[1..m -> {"x", "\n"}] : m \in 0..4}
SomeTexts == {<<"x", "\n">>, <<"x">>}

(* Words of the command line of systrace, and two devices. *)
SdkOf == [d \in {"A", "B"} |-> IF d = "A" THEN 16 ELSE 23]
Word(k, v) == [k |-> k, v |-> v]
CommonWords == {Word("serial", "A"), Word("serial", "B"), Word("category", "gfx"), Word("process_dump", "yes"),
                Word("battor", "yes"), Word("from_file", "old")}
AndroidWords == CommonWords \cup {Word("trace_time", "5"), Word("trace_time", "negative"), Word("buf_size", "0"),
                                  Word("list_categories", "yes")}
TargetWords == CommonWords \cup {Word("target", "linux"), Word("target", "other"), Word("walt", "yes")}

(* Two hubs of one type, or of two, with a phone and a BattOr or two of    *)
(* each, in an outer and in an inner port.                                 *)
HubTypes == {"plugable", "plugable_usb3", "keedox", "via"}
Usb == INSTANCE UsbTopology WITH
  Worlds <- {}, Nums <- {}, Ttys <- {}, HubTypes <- {}, MaxMoves <- 0, 
  Lines <- {}, MaxLines <- {}, MaxListed <- {}, LookupPhones <- {}, BattOrs <- {}, PortOf <- {}, MaxPlugs <- {},
  listed <- x1, printed <- x2, listingTree <- x3, depth_stack <- x4, serials <- x5, bus <- x1, args <- x2, asked <- x3, plugs <- x4, connected <- x5, path <- x6,
  world <- x1, moves <- x2, use <- x3, pc <- x4, info <- x5, lines <- x6, tree <- x7, ttys <- x8, battors <- x9, serial_map <- x10, result <- x11
Chip(num, parent, port, type) ==
  [num |-> num, parent |-> parent, port |-> port, kind |-> type, serial |-> Usb!NoSerial,
   tty |-> Usb!NoTty, physical |-> 0]
Hub(num, port, type) == {Chip(num, 0, port, type), Chip(num + 1, num, Usb!Inner(type), type)}
In(hub, type, physical, num, kind, serial, tty) ==
  LET path == CHOOSE p \in DOMAIN Usb!Layout[type] : Usb!Layout[type][p] = physical
  IN [num |-> num, parent |-> hub + Len(path) - 1, port |-> path[Len(path)], kind |-> kind,
      serial |-> serial, tty |-> tty, physical |-> physical]
Two(s, t, p, q) ==
  Hub(1, 1, s) \cup Hub(3, 2, t) \cup
  {In(1, s, p, 5, "phone", "A", Usb!NoTty), In(3, t, p, 6, "battor", "a", "tty0"),
   In(1, s, q, 7, "phone", "B", Usb!NoTty), In(3, t, q, 8, "battor", "b", "tty1")}
One(t, p) ==
  Hub(1, 1, t) \cup {In(1, t, p, 5, "phone", "A", Usb!NoTty), In(1, t, (p % 7) + 1, 6, "battor", "a", "tty0")}
Plugged == {Two(s, t, p, q) : s, t \in HubTypes, p \in {1, 5}, q \in {3, 7}} \cup {One(t, p) : t \in HubTypes, p \in 1..7}
(* Lines of a descriptor, some with an indentation that is odd or too deep. *)
UsbLine(kind, name, value, desc, indent) ==
  [kind |-> kind, name |-> name, value |-> value, desc |-> desc, indent |-> indent]
UsbLines ==
  {UsbLine("group", "Device Descriptor", "-", "-", 0), UsbLine("group", "Configuration", "-", "-", 3),
   UsbLine("entry", "bDeviceClass", "9", "Hub", 2), UsbLine("entry", "iSerial", "0", "-", 2),
   UsbLine("noise", "", "-", "-", 0), UsbLine("other", "", "-", "-", 2)}
  \cup {UsbLine("entry", "iSerial", "3", "A", indent) : indent \in {0, 2, 4}}
PortOf == [x \in {"A", "B", "tty0", "tty1"} |-> IF x \in {"A", "tty0"} THEN 1 ELSE 2]
Loose == {Two("plugable", "plugable", 2, 6), One("keedox", 3)}

DevilThreads1 == INSTANCE DevilThreads WITH Timeout <- 2, Retries <- 2,
  Period <- 1, MaxTries <- 0, Slice <- 2, Retried <- {"timeout"},
  Hangs <- TRUE, N <- 3, GroupRetries <- 1, Kinds <- {"async", "map"},
  GroupHangs <- TRUE, Devices <- {1, 2}, Sync <- TRUE, Chains <- FALSE,
  MaxCalls <- 4, num_try <- x1, run <- x2, slice <- x3, thread <- x4,
  age <- x5, nap <- x6, tries <- x7, verdict <- x8, late <- x9, kind <- x1,
  link <- x2, groupCaller <- x3, joined <- x4, groupThread <- x5,
  attempts <- x6, expired <- x7, groupVerdict <- x8, pc <- x1, calls <- x2,
  op <- x3, parThread <- x4, objs <- x5, next <- x6, entered <- x7, told <- x8,
  failed <- x9
DevilThreads2 == INSTANCE DevilThreads WITH Timeout <- 2, Retries <- 2,
  Period <- 1, MaxTries <- 0, Slice <- 2, Retried <- {"timeout"},
  Hangs <- TRUE, N <- 3, GroupRetries <- 1, Kinds <- {"async", "map"},
  GroupHangs <- TRUE, Devices <- {1, 2, 3}, Sync <- FALSE, Chains <- TRUE,
  MaxCalls <- 4, num_try <- x1, run <- x2, slice <- x3, thread <- x4,
  age <- x5, nap <- x6, tries <- x7, verdict <- x8, late <- x9, kind <- x1,
  link <- x2, groupCaller <- x3, joined <- x4, groupThread <- x5,
  attempts <- x6, expired <- x7, groupVerdict <- x8, pc <- x1, calls <- x2,
  op <- x3, parThread <- x4, objs <- x5, next <- x6, entered <- x7, told <- x8,
  failed <- x9
HostLocks1 == INSTANCE HostLocks WITH Procs <- {p1, p2}, FIRST <- 1, LAST <- 3,
  Top <- 4, Resets <- TRUE, Faults <- TRUE, Others <- TRUE,
  PathProcs <- {p1, p2, p3}, Inodes <- {i1, i2, i3, i4}, NoInode <- NoInode,
  NoProc <- NoProc, Dying <- TRUE, Modulus <- 4, TickThreads <- {t1, t2},
  MaxTime <- 13, MaxGap <- 3, file <- x1, lock <- x2, portPc <- x3, port <- x4,
  bound <- x5, spoiled <- x6, taken <- x7, pathPc <- x1, name <- x2, fd <- x3,
  flock <- x4, global <- x5, time <- x1, LAST_NOW <- x2, WRAPAROUNDS <- x3,
  sampled <- x4, tickLock <- x5, tickPc <- x6, current_sample <- x7, now <- x8
HostLocks2 == INSTANCE HostLocks WITH Procs <- {p1, p2}, FIRST <- 1, LAST <- 3,
  Top <- 4, Resets <- TRUE, Faults <- TRUE, Others <- TRUE,
  PathProcs <- {p1, p2, p3}, Inodes <- {i1, i2, i3, i4}, NoInode <- NoInode,
  NoProc <- NoProc, Dying <- TRUE, Modulus <- 3, TickThreads <- {t1, t2},
  MaxTime <- 9, MaxGap <- 9, file <- x1, lock <- x2, portPc <- x3, port <- x4,
  bound <- x5, spoiled <- x6, taken <- x7, pathPc <- x1, name <- x2, fd <- x3,
  flock <- x4, global <- x5, time <- x1, LAST_NOW <- x2, WRAPAROUNDS <- x3,
  sampled <- x4, tickLock <- x5, tickPc <- x6, current_sample <- x7, now <- x8
FileFetch1 == INSTANCE FileFetch WITH Procs <- {p1, p2}, Hashes <- {h1, h2},
  None <- none, Empty <- empty, MaxTime <- 2, Failing <- TRUE, Wrong <- TRUE,
  Dying <- TRUE, Racing <- TRUE, ZipProcs <- {p1, p2}, ZipHashes <- {h1, h2},
  LocalPaths <- <<"out/Release", "out/Debug">>, ZipNone <- none, Alone <- TRUE,
  ZipFailing <- TRUE, ZipDying <- TRUE, clock <- x1, sha1 <- x2,
  fetchts <- x3, binary <- x4, holder <- x5, pc <- x6, expected <- x7,
  partial <- x8, answer <- x9, local <- x1, archive <- x2, lock <- x3,
  unzipped <- x4, halted <- x5, zipPc <- x6, want <- x7,
  source <- x8, result <- x9
FileFetch2 == INSTANCE FileFetch WITH Procs <- {p1, p2}, Hashes <- {h1, h2},
  None <- none, Empty <- empty, MaxTime <- 2, Failing <- FALSE, Wrong <- TRUE,
  Dying <- FALSE, Racing <- FALSE, ZipProcs <- {p1, p2}, ZipHashes <- {h1, h2},
  LocalPaths <- <<>>, ZipNone <- none, Alone <- TRUE, ZipFailing <- TRUE,
  ZipDying <- TRUE, clock <- x1, sha1 <- x2, fetchts <- x3, binary <- x4,
  holder <- x5, pc <- x6, expected <- x7, partial <- x8, answer <- x9,
  local <- x1, archive <- x2, lock <- x3, unzipped <- x4, halted <- x5,
  zipPc <- x6, want <- x7, source <- x8, result <- x9
DependencyConfigs1 == INSTANCE DependencyConfigs WITH Deps <- {d1},
  Platforms <- {linux, anywhere}, Default <- anywhere, Paths <- {pathA, pathB},
  ConfigLists <- TwoConfigs, CloudRetries <- 0, MergeNone <- none,
  JobsDeps <- {d1, d2}, JobsHashes <- {h1, h2}, Nothing <- Nothing,
  Damaged <- Damaged, NoBucket <- {}, Once <- TRUE, MaxJobs <- 2, MaxRuns <- 1,
  Interrupting <- FALSE, RollbackFails <- TRUE, DiskFull <- FALSE,
  configs <- x1, at <- x2, todo <- x3, lookup <- x4, mergePc <- x5,
  error <- x6, files <- x7, mergeAnswer <- x8, rest <- x9, tried <- x10,
  found <- x11, skipped <- x12, missing <- x13, jobsDisk <- x1, data <- x2,
  pending <- x3, bucket <- x4, jobsPc <- x5, jobsAt <- x6, force <- x7,
  jobsResult <- x8, runs <- x9, before <- x10
DependencyConfigs2 == INSTANCE DependencyConfigs WITH Deps <- {d1},
  Platforms <- {linux, anywhere}, Default <- anywhere, Paths <- {pathA, pathB},
  ConfigLists <- ThreeConfigs, CloudRetries <- 0, MergeNone <- none,
  JobsDeps <- {d1, d2}, JobsHashes <- {h1, h2}, Nothing <- Nothing,
  Damaged <- Damaged, NoBucket <- {}, Once <- TRUE, MaxJobs <- 2, MaxRuns <- 1,
  Interrupting <- FALSE, RollbackFails <- TRUE, DiskFull <- TRUE,
  configs <- x1, at <- x2, todo <- x3, lookup <- x4, mergePc <- x5,
  error <- x6, files <- x7, mergeAnswer <- x8, rest <- x9, tried <- x10,
  found <- x11, skipped <- x12, missing <- x13, jobsDisk <- x1, data <- x2,
  pending <- x3, bucket <- x4, jobsPc <- x5, jobsAt <- x6, force <- x7,
  jobsResult <- x8, runs <- x9, before <- x10
DependencyConfigs3 == INSTANCE DependencyConfigs WITH Deps <- {d1, d2},
  Platforms <- {linux, anywhere}, Default <- anywhere, Paths <- {pathA},
  ConfigLists <- OneConfig, CloudRetries <- 3, MergeNone <- none,
  JobsDeps <- {d1, d2}, JobsHashes <- {h1, h2}, Nothing <- Nothing,
  Damaged <- Damaged, NoBucket <- {}, Once <- TRUE, MaxJobs <- 2, MaxRuns <- 1,
  Interrupting <- TRUE, RollbackFails <- TRUE, DiskFull <- TRUE,
  configs <- x1, at <- x2, todo <- x3, lookup <- x4, mergePc <- x5,
  error <- x6, files <- x7, mergeAnswer <- x8, rest <- x9, tried <- x10,
  found <- x11, skipped <- x12, missing <- x13, jobsDisk <- x1, data <- x2,
  pending <- x3, bucket <- x4, jobsPc <- x5, jobsAt <- x6, force <- x7,
  jobsResult <- x8, runs <- x9, before <- x10
TracingSession1 == INSTANCE TracingSession WITH
  Order <- <<"ftrace", "atrace", "battor">>, Syncs <- {"atrace", "battor"},
  Threaded <- {"atrace"}, Slow <- TRUE, Raising <- TRUE, Refusing <- TRUE,
  MaxSessions <- 3, Settled <- FALSE, Patient <- TRUE,
  Categories <- {"sched", "disk"}, Req <- EventsNeeded, Opt <- EventsTaken,
  Events <- {"switch", "wakeup", "issue", "sync"}, Sched <- "sched",
  AsString <- FALSE, Failing <- TRUE, pc <- x1, at <- x2, inProgress <- x3,
  children <- x4, passed <- x5, tracing <- x6, late <- x7, thread <- x8,
  marked <- x9, log <- x10, logging <- x11, results <- x12, outcome <- x13,
  unwritten <- x14, MarkerFails <- TRUE,
  session <- x1, dumpPc <- x2, helper <- x3, tmp <- x4, out <- x5,
  opened <- x6, writers <- x7, finished <- x8, dump <- x9, writable <- x1,
  given <- x2, ftracePc <- x3, todo <- x4, categories <- x5, enabled <- x6,
  tracingOn <- x7, bufferSize <- x8, trace <- x9, result <- x10
TracingSession2 == INSTANCE TracingSession WITH
  Order <- <<"ftrace", "atrace", "walt", "battor">>,
  Syncs <- {"atrace", "walt", "battor"}, Threaded <- {"atrace", "walt"},
  Slow <- FALSE, Raising <- TRUE, Refusing <- FALSE, MaxSessions <- 3,
  Settled <- FALSE, Patient <- TRUE, Categories <- {"sched", "disk"},
  Req <- EventsNeeded, Opt <- EventsTaken,
  Events <- {"switch", "wakeup", "issue", "sync"}, Sched <- "sched",
  AsString <- FALSE, Failing <- TRUE, pc <- x1, at <- x2, inProgress <- x3,
  children <- x4, passed <- x5, tracing <- x6, late <- x7, thread <- x8,
  marked <- x9, log <- x10, logging <- x11, results <- x12, outcome <- x13,
  unwritten <- x14, MarkerFails <- TRUE,
  session <- x1, dumpPc <- x2, helper <- x3, tmp <- x4, out <- x5,
  opened <- x6, writers <- x7, finished <- x8, dump <- x9, writable <- x1,
  given <- x2, ftracePc <- x3, todo <- x4, categories <- x5, enabled <- x6,
  tracingOn <- x7, bufferSize <- x8, trace <- x9, result <- x10
OutputReaders1 == INSTANCE OutputReaders WITH Outputs <- UnixTexts,
  Lines <- TRUE, IterTimeout <- 0, Timeout <- 0, MaxTime <- 3, Child <- "none",
  MayClose <- FALSE, MaxLog <- 3, MaxThreads <- 2, MaxStarts <- 2,
  Slow <- FALSE, Fails <- FALSE, Amount <- 3, QueueIterTimeout <- TRUE,
  QueueTimeout <- TRUE, QueueFails <- TRUE, MaxQueue <- 4, output <- x1,
  written <- x2, proc <- x3, closed <- x4, pipe <- x5, returncode <- x6,
  now <- x7, iter_end <- x8, iter_end_time <- x9, pc <- x10, data <- x11,
  buffer <- x12, out <- x13, result <- x14, log <- x1, cleared <- x2,
  thread <- x3, next <- x4, held <- x5, record_file <- x6, record_thread <- x7,
  stop_event <- x8, output_file <- x9, logcatPc <- x10, starts <- x11,
  waited <- x12, queueWritten <- x1, queueProc <- x2, queueClosed <- x3,
  queuePipe <- x4, queueThread <- x5, stdout_queue <- x6,
  queueReturncode <- x7, late <- x8, queuePc <- x9, queueOut <- x10,
  queueResult <- x11
OutputReaders2 == INSTANCE OutputReaders WITH Outputs <- SomeTexts,
  Lines <- FALSE, IterTimeout <- 0, Timeout <- 1, MaxTime <- 3,
  Child <- "silent", MayClose <- FALSE, MaxLog <- 3, MaxThreads <- 2,
  MaxStarts <- 2, Slow <- FALSE, Fails <- TRUE, Amount <- 3,
  QueueIterTimeout <- TRUE, QueueTimeout <- TRUE, QueueFails <- TRUE,
  MaxQueue <- 4, output <- x1, written <- x2, proc <- x3, closed <- x4,
  pipe <- x5, returncode <- x6, now <- x7, iter_end <- x8, iter_end_time <- x9,
  pc <- x10, data <- x11, buffer <- x12, out <- x13, result <- x14, log <- x1,
  cleared <- x2, thread <- x3, next <- x4, held <- x5, record_file <- x6,
  record_thread <- x7, stop_event <- x8, output_file <- x9, logcatPc <- x10,
  starts <- x11, waited <- x12, queueWritten <- x1, queueProc <- x2,
  queueClosed <- x3, queuePipe <- x4, queueThread <- x5, stdout_queue <- x6,
  queueReturncode <- x7, late <- x8, queuePc <- x9, queueOut <- x10,
  queueResult <- x11
OutputReaders3 == INSTANCE OutputReaders WITH Outputs <- SomeTexts,
  Lines <- TRUE, IterTimeout <- 1, Timeout <- 2, MaxTime <- 3, Child <- "none",
  MayClose <- TRUE, MaxLog <- 3, MaxThreads <- 2, MaxStarts <- 2,
  Slow <- FALSE, Fails <- TRUE, Amount <- 3, QueueIterTimeout <- TRUE,
  QueueTimeout <- TRUE, QueueFails <- TRUE, MaxQueue <- 4, output <- x1,
  written <- x2, proc <- x3, closed <- x4, pipe <- x5, returncode <- x6,
  now <- x7, iter_end <- x8, iter_end_time <- x9, pc <- x10, data <- x11,
  buffer <- x12, out <- x13, result <- x14, log <- x1, cleared <- x2,
  thread <- x3, next <- x4, held <- x5, record_file <- x6, record_thread <- x7,
  stop_event <- x8, output_file <- x9, logcatPc <- x10, starts <- x11,
  waited <- x12, queueWritten <- x1, queueProc <- x2, queueClosed <- x3,
  queuePipe <- x4, queueThread <- x5, stdout_queue <- x6,
  queueReturncode <- x7, late <- x8, queuePc <- x9, queueOut <- x10,
  queueResult <- x11
OutputReaders4 == INSTANCE OutputReaders WITH Outputs <- SomeTexts,
  Lines <- FALSE, IterTimeout <- 0, Timeout <- 1, MaxTime <- 3,
  Child <- "talks", MayClose <- FALSE, MaxLog <- 3, MaxThreads <- 2,
  MaxStarts <- 2, Slow <- FALSE, Fails <- TRUE, Amount <- 3,
  QueueIterTimeout <- TRUE, QueueTimeout <- TRUE, QueueFails <- TRUE,
  MaxQueue <- 4, output <- x1, written <- x2, proc <- x3, closed <- x4,
  pipe <- x5, returncode <- x6, now <- x7, iter_end <- x8, iter_end_time <- x9,
  pc <- x10, data <- x11, buffer <- x12, out <- x13, result <- x14, log <- x1,
  cleared <- x2, thread <- x3, next <- x4, held <- x5, record_file <- x6,
  record_thread <- x7, stop_event <- x8, output_file <- x9, logcatPc <- x10,
  starts <- x11, waited <- x12, queueWritten <- x1, queueProc <- x2,
  queueClosed <- x3, queuePipe <- x4, queueThread <- x5, stdout_queue <- x6,
  queueReturncode <- x7, late <- x8, queuePc <- x9, queueOut <- x10,
  queueResult <- x11
Recorders1 == INSTANCE Recorders WITH MaxFrames <- 4, Remembered <- 2,
  MaxStops <- 1, Closes <- FALSE, Failing <- TRUE, Recorders <- {"v"},
  MaxRounds <- 6, Impatient <- FALSE, VideoFailing <- FALSE, main <- x1,
  thread <- x2, getData <- x3, stop <- x4, queue <- x5, timestamps <- x6,
  lastTimestamp <- x7, retries <- x8, frames <- x9, completed <- x10,
  open <- x11, ret <- x12, stops <- x13, asked <- x14, pc <- x1, round <- x2,
  videoThread <- x3, started <- x4, process <- x5, file <- x6, pulled <- x7
Recorders2 == INSTANCE Recorders WITH MaxFrames <- 4, Remembered <- 2,
  MaxStops <- 1, Closes <- TRUE, Failing <- TRUE, Recorders <- {"v", "w"},
  MaxRounds <- 1, Impatient <- TRUE, VideoFailing <- TRUE, main <- x1,
  thread <- x2, getData <- x3, stop <- x4, queue <- x5, timestamps <- x6,
  lastTimestamp <- x7, retries <- x8, frames <- x9, completed <- x10,
  open <- x11, ret <- x12, stops <- x13, asked <- x14, pc <- x1, round <- x2,
  videoThread <- x3, started <- x4, process <- x5, file <- x6, pulled <- x7
BattorShell1 == INSTANCE BattorShell WITH MaxTime <- 4, MaxTraces <- 2,
  MayFail <- TRUE, Slow <- TRUE, battor_shell <- x1, shell <- x2,
  tracing <- x3, start_time <- x4, stop_time <- x5, results <- x6, trace <- x7,
  firmware <- x8, readable <- x9, charging <- x10, registered <- x11,
  now <- x12, waited <- x13, pc <- x14, outcome <- x15
BattorShell2 == INSTANCE BattorShell WITH MaxTime <- 4, MaxTraces <- 2,
  MayFail <- FALSE, Slow <- FALSE, battor_shell <- x1, shell <- x2,
  tracing <- x3, start_time <- x4, stop_time <- x5, results <- x6, trace <- x7,
  firmware <- x8, readable <- x9, charging <- x10, registered <- x11,
  now <- x12, waited <- x13, pc <- x14, outcome <- x15
UsbTopology1 == INSTANCE UsbTopology WITH Worlds <- Plugged,
  Nums <- {1, 2, 3, 4, 5, 6, 7, 8, 9}, Ttys <- {"tty0", "tty1"},
  HubTypes <- {"plugable", "plugable_usb3", "keedox", "via"}, MaxMoves <- 0,
  Lines <- UsbLines, MaxLines <- 4, MaxListed <- 2, LookupPhones <- {"A", "B"},
  BattOrs <- {"tty0", "tty1"}, PortOf <- PortOf, MaxPlugs <- 1, world <- x1,
  moves <- x2, use <- x3, pc <- x4, info <- x5, lines <- x6, tree <- x7,
  ttys <- x8, battors <- x9, serial_map <- x10, result <- x11, listed <- x1,
  printed <- x2, listingTree <- x3, depth_stack <- x4, serials <- x5,
  bus <- x1, args <- x2, asked <- x3, plugs <- x4, connected <- x5, path <- x6
UsbTopology2 == INSTANCE UsbTopology WITH Worlds <- Loose,
  Nums <- {1, 2, 3, 4, 5, 6, 7, 8, 9}, Ttys <- {"tty0", "tty1"},
  HubTypes <- {"plugable", "plugable_usb3", "keedox", "via"}, MaxMoves <- 1,
  Lines <- UsbLines, MaxLines <- 4, MaxListed <- 2, LookupPhones <- {"A", "B"},
  BattOrs <- {"tty0", "tty1"}, PortOf <- PortOf, MaxPlugs <- 1, world <- x1,
  moves <- x2, use <- x3, pc <- x4, info <- x5, lines <- x6, tree <- x7,
  ttys <- x8, battors <- x9, serial_map <- x10, result <- x11, listed <- x1,
  printed <- x2, listingTree <- x3, depth_stack <- x4, serials <- x5,
  bus <- x1, args <- x2, asked <- x3, plugs <- x4, connected <- x5, path <- x6
TraceLog1 == INSTANCE TraceLog WITH Procs <- {p1, p2}, Roots <- {p1, p2},
  Threads <- {t1}, Main <- t1, Kinds <- {}, Styles <- {"trace", "traced"},
  MaxEvents <- 2, MaxToggles <- 3, MaxKills <- 0, file <- x1, flocked <- x2,
  status <- x3, kind <- x4, allowed <- x5, _enabled <- x6, _cur_events <- x7,
  noted <- x8, atexit <- x9, logOpened <- x10, mutex <- x11, logPc <- x12,
  closing <- x13, span <- x14, counts <- x15, toggles <- x16, kills <- x17
TraceLog2 == INSTANCE TraceLog WITH Procs <- {p1}, Roots <- {p1},
  Threads <- {t1}, Main <- t1, Kinds <- {}, Styles <- {"traced"},
  MaxEvents <- 6, MaxToggles <- 6, MaxKills <- 0, file <- x1, flocked <- x2,
  status <- x3, kind <- x4, allowed <- x5, _enabled <- x6, _cur_events <- x7,
  noted <- x8, atexit <- x9, logOpened <- x10, mutex <- x11, logPc <- x12,
  closing <- x13, span <- x14, counts <- x15, toggles <- x16, kills <- x17
TraceLog3 == INSTANCE TraceLog WITH Procs <- {p1, p2}, Roots <- {p1},
  Threads <- {t1}, Main <- t1, Kinds <- {"os", "mp"}, Styles <- {"traced"},
  MaxEvents <- 2, MaxToggles <- 1, MaxKills <- 1, file <- x1, flocked <- x2,
  status <- x3, kind <- x4, allowed <- x5, _enabled <- x6, _cur_events <- x7,
  noted <- x8, atexit <- x9, logOpened <- x10, mutex <- x11, logPc <- x12,
  closing <- x13, span <- x14, counts <- x15, toggles <- x16, kills <- x17
ModuleLoader1 == INSTANCE ModuleLoader WITH N <- 4, MaxImports <- 2,
  MaxDepth <- 32, Acyclic <- TRUE, MaxBad <- 0, MaxRequests <- 2,
  Exporters <- {}, Excludable <- {}, imports <- x1, file <- x2, exports <- x3,
  loaded_modules <- x4, dependent_modules <- x5, reached <- x6, stack <- x7,
  request <- x8, outcome <- x9, requests <- x10
ModuleLoader2 == INSTANCE ModuleLoader WITH N <- 4, MaxImports <- 2,
  MaxDepth <- 32, Acyclic <- TRUE, MaxBad <- 0, MaxRequests <- 2,
  Exporters <- {1, 2}, Excludable <- {}, imports <- x1, file <- x2,
  exports <- x3, loaded_modules <- x4, dependent_modules <- x5, reached <- x6,
  stack <- x7, request <- x8, outcome <- x9, requests <- x10
ModuleLoader3 == INSTANCE ModuleLoader WITH N <- 3, MaxImports <- 2,
  MaxDepth <- 4, Acyclic <- FALSE, MaxBad <- 0, MaxRequests <- 1,
  Exporters <- {1}, Excludable <- {3}, imports <- x1, file <- x2,
  exports <- x3, loaded_modules <- x4, dependent_modules <- x5, reached <- x6,
  stack <- x7, request <- x8, outcome <- x9, requests <- x10
ProfileChrome1 == INSTANCE ProfileChrome WITH Orders <- MainOrders,
  MaxProfiles <- 2, MaxFaults <- 0, tracing <- x1, heap <- x2,
  performance <- x3, flags <- x4, granted <- x5, running <- x6, converts <- x7,
  order <- x8, memory <- x9, profile <- x10, log <- x11, writes <- x12,
  flagsFound <- x13, monitors <- x14, isTracing <- x15, traceFile <- x16,
  pc <- x17, at <- x18, step <- x19, results <- x20, outcome <- x21,
  faults <- x22
ProfileChrome2 == INSTANCE ProfileChrome WITH Orders <- BothOrders,
  MaxProfiles <- 1, MaxFaults <- 1, tracing <- x1, heap <- x2,
  performance <- x3, flags <- x4, granted <- x5, running <- x6, converts <- x7,
  order <- x8, memory <- x9, profile <- x10, log <- x11, writes <- x12,
  flagsFound <- x13, monitors <- x14, isTracing <- x15, traceFile <- x16,
  pc <- x17, at <- x18, step <- x19, results <- x20, outcome <- x21,
  faults <- x22
ProfileChrome3 == INSTANCE ProfileChrome WITH Orders <- StartupOrders,
  MaxProfiles <- 3, MaxFaults <- 2, tracing <- x1, heap <- x2,
  performance <- x3, flags <- x4, granted <- x5, running <- x6, converts <- x7,
  order <- x8, memory <- x9, profile <- x10, log <- x11, writes <- x12,
  flagsFound <- x13, monitors <- x14, isTracing <- x15, traceFile <- x16,
  pc <- x17, at <- x18, step <- x19, results <- x20, outcome <- x21,
  faults <- x22
TraceData1 == INSTANCE TraceData WITH Handles <- {h1, h2},
  Parts <- {chrome, atrace}, Chrome <- chrome, None <- none, Unlisted <- {},
  ClosedFirst <- TRUE, MaxTraces <- 3, MaxFaults <- 1,
  Names <- {"atrace", "battor", "walt", "telemetry"},
  Mapped <- {"atrace", "battor", "walt", "telemetry"}, Repeated <- FALSE,
  Forms <- {"json", "text"}, Keys <- {key}, MaxResults <- 4, Cpus <- {0, 1},
  Tids <- {5}, Tgids <- {1}, BufferSize <- 2, MaxEvents <- 6, MaxChanges <- 0,
  AtraceNone <- none, file <- x1, whole <- x2, disk <- x3, builder <- x4,
  data <- x5, temporary <- x6, pc <- x7, todo <- x8, result <- x9,
  faults <- x10, all_results <- x1, mode <- x2, reportPc <- x3, merged <- x4,
  others <- x5, output <- x6, old <- x1, tracing <- x2, log <- x3, ring <- x4,
  owner <- x5, born <- x6, changes <- x7, atracePc <- x8, text <- x9,
  pid2_tgid <- x10
TraceData2 == INSTANCE TraceData WITH Handles <- {h1, h2},
  Parts <- {chrome, atrace}, Chrome <- chrome, None <- none, Unlisted <- {},
  ClosedFirst <- TRUE, MaxTraces <- 3, MaxFaults <- 1,
  Names <- {"atrace", "chrome", "perf"}, Mapped <- {}, Repeated <- FALSE,
  Forms <- {"json", "text", "empty"}, Keys <- {key1, key2}, MaxResults <- 3,
  Cpus <- {0}, Tids <- {5, 6}, Tgids <- {1, 2}, BufferSize <- 2,
  MaxEvents <- 3, MaxChanges <- 3, AtraceNone <- none, file <- x1, whole <- x2,
  disk <- x3, builder <- x4, data <- x5, temporary <- x6, pc <- x7, todo <- x8,
  result <- x9, faults <- x10, all_results <- x1, mode <- x2, reportPc <- x3,
  merged <- x4, others <- x5, output <- x6, old <- x1, tracing <- x2,
  log <- x3, ring <- x4, owner <- x5, born <- x6, changes <- x7,
  atracePc <- x8, text <- x9, pid2_tgid <- x10
SystraceStart1 == INSTANCE SystraceStart WITH Devices <- {"A", "B"},
  Sdk <- SdkOf, Words <- AndroidWords, MaxWords <- 3, SerialFirst <- TRUE,
  Hotplug <- FALSE, argv <- x1, env <- x2, adb <- x3, attached <- x4,
  options <- x5, categories <- x6, pc <- x7, agents <- x8
SystraceStart2 == INSTANCE SystraceStart WITH Devices <- {"A", "B"},
  Sdk <- SdkOf, Words <- TargetWords, MaxWords <- 3, SerialFirst <- TRUE,
  Hotplug <- FALSE, argv <- x1, env <- x2, adb <- x3, attached <- x4,
  options <- x5, categories <- x6, pc <- x7, agents <- x8
SystraceStart3 == INSTANCE SystraceStart WITH Devices <- {"A", "B"},
  Sdk <- SdkOf, Words <- AndroidWords, MaxWords <- 1, SerialFirst <- TRUE,
  Hotplug <- TRUE, argv <- x1, env <- x2, adb <- x3, attached <- x4,
  options <- x5, categories <- x6, pc <- x7, agents <- x8

(* The places a tool does not use. *)
Off17 == x18 = 0 /\ x19 = 0 /\ x20 = 0 /\ x21 = 0 /\ x22 = 0
Off15 == x16 = 0 /\ x17 = 0 /\ Off17
Off14 == x15 = 0 /\ Off15
Off13 == x14 = 0 /\ Off14
Off12 == x13 = 0 /\ Off13
Off11 == x12 = 0 /\ Off12
Off10 == x11 = 0 /\ Off11
Off9 == x10 = 0 /\ Off10
Off8 == x9 = 0 /\ Off9
Off7 == x8 = 0 /\ Off8
Off6 == x7 = 0 /\ Off7
Off5 == x6 = 0 /\ Off6
Same17 == UNCHANGED <<x18, x19, x20, x21, x22>>
Same15 == UNCHANGED <<x16, x17>> /\ Same17
Same14 == UNCHANGED <<x15>> /\ Same15
Same13 == UNCHANGED <<x14>> /\ Same14
Same12 == UNCHANGED <<x13>> /\ Same13
Same11 == UNCHANGED <<x12>> /\ Same12
Same10 == UNCHANGED <<x11>> /\ Same11
Same9 == UNCHANGED <<x10>> /\ Same10
Same8 == UNCHANGED <<x9>> /\ Same9
Same7 == UNCHANGED <<x8>> /\ Same8
Same6 == UNCHANGED <<x7>> /\ Same7
Same5 == UNCHANGED <<x6>> /\ Same6

Init ==
  \/ tool = "retry_safe" /\ DevilThreads1!Init /\ Off9
  \/ tool = "group_safe" /\ DevilThreads1!GroupInit /\ Off8
  \/ tool = "parallel_sync" /\ DevilThreads1!ParInit /\ Off9
  \/ tool = "parallel_chain" /\ DevilThreads2!ParInit /\ Off9
  \/ tool = "ports_safe" /\ HostLocks1!PortInit /\ Off7
  \/ tool = "plock_safe" /\ HostLocks1!PathInit /\ Off5
  \/ tool = "fetch_safe" /\ FileFetch1!Init /\ Off9
  \/ tool = "fetch_fresh" /\ FileFetch2!Init /\ Off9
  \/ tool = "unzip_safe" /\ FileFetch1!ZipInit /\ Off9
  \/ tool = "unzip_whole" /\ FileFetch2!ZipInit /\ Off9
  \/ tool = "merge_order" /\ DependencyConfigs1!MergeInit /\ Off13
  \/ tool = "merge_three" /\ DependencyConfigs2!MergeInit /\ Off13
  \/ tool = "merge_prefetch" /\ DependencyConfigs3!MergeInit /\ Off13
  \/ tool = "jobs_atomic" /\ DependencyConfigs1!JobsInit /\ Off10
  \/ tool = "jobs_full" /\ DependencyConfigs2!JobsInit /\ Off10
  \/ tool = "jobs_stopped" /\ DependencyConfigs3!JobsInit /\ Off10
  \/ tool = "trace_safe" /\ TracingSession1!Init /\ Off14
  \/ tool = "trace_stopped" /\ TracingSession2!Init /\ Off14
  \/ tool = "cmd_lines" /\ OutputReaders1!Init /\ Off14
  \/ tool = "cmd_output" /\ OutputReaders2!Init /\ Off14
  \/ tool = "cmd_iter" /\ OutputReaders3!Init /\ Off14
  \/ tool = "cmd_left" /\ OutputReaders4!Init /\ Off14
  \/ tool = "cmd_queue" /\ OutputReaders1!QueueInit /\ Off11
  \/ tool = "logcat_safe" /\ OutputReaders1!LogcatInit /\ Off12
  \/ tool = "logcat_fails" /\ OutputReaders2!LogcatInit /\ Off12
  \/ tool = "surface_frames" /\ Recorders1!Init /\ Off14
  \/ tool = "surface_stop" /\ Recorders2!Init /\ Off14
  \/ tool = "video_one" /\ Recorders1!VideoInit /\ Off7
  \/ tool = "video_type" /\ Recorders2!VideoInit /\ Off7
  \/ tool = "battor_fails" /\ BattorShell1!Init /\ Off15
  \/ tool = "battor_trace" /\ BattorShell2!Init /\ Off15
  \/ tool = "usb_still" /\ UsbTopology1!Init /\ Off11
  \/ tool = "usb_loose" /\ UsbTopology2!Init /\ Off11
  \/ tool = "usb_lines" /\ UsbTopology1!ListingInit /\ Off5
  \/ tool = "battor_lookup" /\ UsbTopology1!LookupInit /\ Off6
  \/ tool = "trace_two" /\ TraceLog1!LogInit /\ Off17
  \/ tool = "trace_one" /\ TraceLog2!LogInit /\ Off17
  \/ tool = "trace_mp" /\ TraceLog3!LogInit /\ Off17
  \/ tool = "tick_often" /\ HostLocks1!TickInit /\ Off8
  \/ tool = "tick_rare" /\ HostLocks2!TickInit /\ Off8
  \/ tool = "vulc_tree" /\ ModuleLoader1!Init /\ Off10
  \/ tool = "vulc_export" /\ ModuleLoader2!Init /\ Off10
  \/ tool = "vulc_cycle" /\ ModuleLoader3!Init /\ Off10
  \/ tool = "chrome_main" /\ ProfileChrome1!Init
  \/ tool = "chrome_faults" /\ ProfileChrome2!Init
  \/ tool = "chrome_startup" /\ ProfileChrome3!Init
  \/ tool = "parts_data" /\ TraceData1!Init /\ Off10
  \/ tool = "report_all" /\ TraceData1!ReportInit /\ Off6
  \/ tool = "report_merge" /\ TraceData2!ReportInit /\ Off6
  \/ tool = "atrace_ring" /\ TraceData1!AtraceInit /\ Off10
  \/ tool = "atrace_tgids" /\ TraceData2!AtraceInit /\ Off10
  \/ tool = "start_android" /\ SystraceStart1!Init /\ Off8
  \/ tool = "start_targets" /\ SystraceStart2!Init /\ Off8
  \/ tool = "start_plug" /\ SystraceStart3!Init /\ Off8
  \/ tool = "dump_patient" /\ TracingSession1!DumpInit /\ Off9
  \/ tool = "ftrace_session" /\ TracingSession1!FtraceInit /\ Off10

Next ==
  /\ UNCHANGED tool
  /\ \/ tool = "retry_safe" /\ DevilThreads1!Next /\ Same9
     \/ tool = "group_safe" /\ DevilThreads1!GroupNext /\ Same8
     \/ tool = "parallel_sync" /\ DevilThreads1!ParNext /\ Same9
     \/ tool = "parallel_chain" /\ DevilThreads2!ParNext /\ Same9
     \/ tool = "ports_safe" /\ HostLocks1!PortNext /\ Same7
     \/ tool = "plock_safe" /\ HostLocks1!PathNext /\ Same5
     \/ tool = "fetch_safe" /\ FileFetch1!Next /\ Same9
     \/ tool = "fetch_fresh" /\ FileFetch2!Next /\ Same9
     \/ tool = "unzip_safe" /\ FileFetch1!ZipNext /\ Same9
     \/ tool = "unzip_whole" /\ FileFetch2!ZipNext /\ Same9
     \/ tool = "merge_order" /\ DependencyConfigs1!MergeNext /\ Same13
     \/ tool = "merge_three" /\ DependencyConfigs2!MergeNext /\ Same13
     \/ tool = "merge_prefetch" /\ DependencyConfigs3!MergeNext /\ Same13
     \/ tool = "jobs_atomic" /\ DependencyConfigs1!JobsNext /\ Same10
     \/ tool = "jobs_full" /\ DependencyConfigs2!JobsNext /\ Same10
     \/ tool = "jobs_stopped" /\ DependencyConfigs3!JobsNext /\ Same10
     \/ tool = "trace_safe" /\ TracingSession1!Next /\ Same14
     \/ tool = "trace_stopped" /\ TracingSession2!Next /\ Same14
     \/ tool = "cmd_lines" /\ OutputReaders1!Next /\ Same14
     \/ tool = "cmd_output" /\ OutputReaders2!Next /\ Same14
     \/ tool = "cmd_iter" /\ OutputReaders3!Next /\ Same14
     \/ tool = "cmd_left" /\ OutputReaders4!Next /\ Same14
     \/ tool = "cmd_queue" /\ OutputReaders1!QueueNext /\ Same11
     \/ tool = "logcat_safe" /\ OutputReaders1!LogcatNext /\ Same12
     \/ tool = "logcat_fails" /\ OutputReaders2!LogcatNext /\ Same12
     \/ tool = "surface_frames" /\ Recorders1!Next /\ Same14
     \/ tool = "surface_stop" /\ Recorders2!Next /\ Same14
     \/ tool = "video_one" /\ Recorders1!VideoNext /\ Same7
     \/ tool = "video_type" /\ Recorders2!VideoNext /\ Same7
     \/ tool = "battor_fails" /\ BattorShell1!Next /\ Same15
     \/ tool = "battor_trace" /\ BattorShell2!Next /\ Same15
     \/ tool = "usb_still" /\ UsbTopology1!Next /\ Same11
     \/ tool = "usb_loose" /\ UsbTopology2!Next /\ Same11
     \/ tool = "usb_lines" /\ UsbTopology1!ListingNext /\ Same5
     \/ tool = "battor_lookup" /\ UsbTopology1!LookupNext /\ Same6
     \/ tool = "trace_two" /\ TraceLog1!LogNext /\ Same17
     \/ tool = "trace_one" /\ TraceLog2!LogNext /\ Same17
     \/ tool = "trace_mp" /\ TraceLog3!LogNext /\ Same17
     \/ tool = "tick_often" /\ HostLocks1!TickNext /\ Same8
     \/ tool = "tick_rare" /\ HostLocks2!TickNext /\ Same8
     \/ tool = "vulc_tree" /\ ModuleLoader1!Next /\ Same10
     \/ tool = "vulc_export" /\ ModuleLoader2!Next /\ Same10
     \/ tool = "vulc_cycle" /\ ModuleLoader3!Next /\ Same10
     \/ tool = "chrome_main" /\ ProfileChrome1!Next
     \/ tool = "chrome_faults" /\ ProfileChrome2!Next
     \/ tool = "chrome_startup" /\ ProfileChrome3!Next
     \/ tool = "parts_data" /\ TraceData1!Next /\ Same10
     \/ tool = "report_all" /\ TraceData1!ReportNext /\ Same6
     \/ tool = "report_merge" /\ TraceData2!ReportNext /\ Same6
     \/ tool = "atrace_ring" /\ TraceData1!AtraceNext /\ Same10
     \/ tool = "atrace_tgids" /\ TraceData2!AtraceNext /\ Same10
     \/ tool = "start_android" /\ SystraceStart1!Next /\ Same8
     \/ tool = "start_targets" /\ SystraceStart2!Next /\ Same8
     \/ tool = "start_plug" /\ SystraceStart3!Next /\ Same8
     \/ tool = "dump_patient" /\ TracingSession1!DumpNext /\ Same9
     \/ tool = "ftrace_session" /\ TracingSession1!FtraceNext /\ Same10

Spec == Init /\ [][Next]_vars

(* What the modules ask of their constants. *)
ASSUME
  /\ DevilThreads1!TimeoutRetryAssumption
  /\ DevilThreads1!ThreadGroupAssumption
  /\ DevilThreads1!ParallelizerAssumption
  /\ DevilThreads2!TimeoutRetryAssumption
  /\ DevilThreads2!ThreadGroupAssumption
  /\ DevilThreads2!ParallelizerAssumption
  /\ HostLocks1!PortAssumption
  /\ HostLocks1!PseudoLockAssumption
  /\ HostLocks1!ModulusAssumption
  /\ HostLocks1!MaxTimeAssumption
  /\ HostLocks2!PortAssumption
  /\ HostLocks2!PseudoLockAssumption
  /\ HostLocks2!ModulusAssumption
  /\ HostLocks2!MaxTimeAssumption
  /\ FileFetch1!CloudFetchAssumption
  /\ FileFetch1!DependencyFetchAssumption
  /\ FileFetch2!CloudFetchAssumption
  /\ FileFetch2!DependencyFetchAssumption
  /\ DependencyConfigs1!DependencyMergeAssumption
  /\ DependencyConfigs1!UpdateJobsAssumption
  /\ DependencyConfigs2!DependencyMergeAssumption
  /\ DependencyConfigs2!UpdateJobsAssumption
  /\ DependencyConfigs3!DependencyMergeAssumption
  /\ DependencyConfigs3!UpdateJobsAssumption
  /\ TracingSession1!TracingSessionAssumption
  /\ TracingSession1!ProcessDumpAssumption
  /\ TracingSession1!FtraceAssumption
  /\ TracingSession2!TracingSessionAssumption
  /\ TracingSession2!ProcessDumpAssumption
  /\ TracingSession2!FtraceAssumption
  /\ Recorders1!SurfaceAssumption
  /\ Recorders1!VideoAssumption
  /\ Recorders2!SurfaceAssumption
  /\ Recorders2!VideoAssumption
  /\ TraceLog1!Assumption
  /\ TraceLog2!Assumption
  /\ TraceLog3!Assumption
  /\ ProfileChrome1!Assumption
  /\ ProfileChrome2!Assumption
  /\ ProfileChrome3!Assumption
  /\ TraceData1!Assumption
  /\ TraceData1!ReportAssumption
  /\ TraceData1!AtraceTextAssumption
  /\ TraceData2!Assumption
  /\ TraceData2!ReportAssumption
  /\ TraceData2!AtraceTextAssumption
  /\ SystraceStart1!StartAssumption
  /\ SystraceStart2!StartAssumption
  /\ SystraceStart3!StartAssumption

----------------------------------------------------------------------------
(* Every tool keeps its variables within their types. *)
TypesHold ==
  /\ tool = "retry_safe" => DevilThreads1!TypeOK
  /\ tool = "group_safe" => DevilThreads1!GroupTypeOK
  /\ tool = "parallel_sync" => DevilThreads1!ParTypeOK
  /\ tool = "parallel_chain" => DevilThreads2!ParTypeOK
  /\ tool = "ports_safe" => HostLocks1!PortTypeOK
  /\ tool = "plock_safe" => HostLocks1!PathTypeOK
  /\ tool = "fetch_safe" => FileFetch1!TypeOK
  /\ tool = "fetch_fresh" => FileFetch2!TypeOK
  /\ tool = "unzip_safe" => FileFetch1!ZipTypeOK
  /\ tool = "unzip_whole" => FileFetch2!ZipTypeOK
  /\ tool = "merge_order" => DependencyConfigs1!MergeTypeOK
  /\ tool = "merge_three" => DependencyConfigs2!MergeTypeOK
  /\ tool = "merge_prefetch" => DependencyConfigs3!MergeTypeOK
  /\ tool = "jobs_atomic" => DependencyConfigs1!JobsTypeOK
  /\ tool = "jobs_full" => DependencyConfigs2!JobsTypeOK
  /\ tool = "jobs_stopped" => DependencyConfigs3!JobsTypeOK
  /\ tool = "trace_safe" => TracingSession1!TypeOK
  /\ tool = "trace_stopped" => TracingSession2!TypeOK
  /\ tool = "cmd_lines" => OutputReaders1!TypeOK
  /\ tool = "cmd_output" => OutputReaders2!TypeOK
  /\ tool = "cmd_iter" => OutputReaders3!TypeOK
  /\ tool = "cmd_left" => OutputReaders4!TypeOK
  /\ tool = "logcat_safe" => OutputReaders1!LogcatTypeOK
  /\ tool = "logcat_fails" => OutputReaders2!LogcatTypeOK
  /\ tool = "surface_frames" => Recorders1!TypeOK
  /\ tool = "surface_stop" => Recorders2!TypeOK
  /\ tool = "video_one" => Recorders1!VideoTypeOK
  /\ tool = "video_type" => Recorders2!VideoTypeOK
  /\ tool = "battor_fails" => BattorShell1!TypeOK
  /\ tool = "battor_trace" => BattorShell2!TypeOK
  /\ tool = "usb_still" => UsbTopology1!TypeOK
  /\ tool = "usb_loose" => UsbTopology2!TypeOK
  /\ tool = "trace_two" => TraceLog1!LogTypeOK
  /\ tool = "trace_one" => TraceLog2!LogTypeOK
  /\ tool = "trace_mp" => TraceLog3!LogTypeOK
  /\ tool = "tick_often" => HostLocks1!TickTypeOK
  /\ tool = "tick_rare" => HostLocks2!TickTypeOK
  /\ tool = "vulc_tree" => ModuleLoader1!TypeOK
  /\ tool = "vulc_export" => ModuleLoader2!TypeOK
  /\ tool = "vulc_cycle" => ModuleLoader3!TypeOK
  /\ tool = "chrome_main" => ProfileChrome1!TypeOK
  /\ tool = "chrome_faults" => ProfileChrome2!TypeOK
  /\ tool = "chrome_startup" => ProfileChrome3!TypeOK
  /\ tool = "parts_data" => TraceData1!TypeOK
  /\ tool = "report_all" => TraceData1!ReportTypeOK
  /\ tool = "report_merge" => TraceData2!ReportTypeOK
  /\ tool = "atrace_ring" => TraceData1!AtraceTypeOK
  /\ tool = "atrace_tgids" => TraceData2!AtraceTypeOK
  /\ tool = "start_android" => SystraceStart1!TypeOK
  /\ tool = "start_targets" => SystraceStart2!TypeOK
  /\ tool = "start_plug" => SystraceStart3!TypeOK
  /\ tool = "dump_patient" => TracingSession1!DumpTypeOK
  /\ tool = "ftrace_session" => TracingSession1!FtraceTypeOK

(* Threads and processes keep to their turns: two that hold a lock hold    *)
(* the same one, a port is given once and within its limits, attempts      *)
(* overlap only when one is late, the last attempt has the last word, no   *)
(* retry begins within a retry, and errors of the threads are told.        *)
OneAtATime ==
  /\ tool = "plock_safe" => HostLocks1!SameLock
  /\ tool = "ports_safe" => HostLocks1!OwnPort /\ HostLocks1!WithinLimits
  /\ tool = "retry_safe" => /\ DevilThreads1!OverlapOnlyWhenLate
                            /\ DevilThreads1!AbandonedAsksOnce
                            /\ DevilThreads1!LastWord
  /\ tool = "group_safe" => /\ DevilThreads1!AllCompleteFirst
                            /\ DevilThreads1!NoRetryInside
  /\ tool = "parallel_sync" => /\ DevilThreads1!ErrorsTold
                               /\ DevilThreads1!LeftWhenBodyRan


(* A trace holds what happened while it was taken, once and in its order:  *)
(* of the agents of a session, of the writers of a log, of a report, of    *)
(* the ring buffer of the kernel, of Chrome and of a BattOr; and nothing   *)
(* traces on after it.                                                     *)
TracesWhole ==
  /\ tool = "trace_safe" => TracingSession1!Synchronised
  /\ tool = "trace_stopped" => /\ TracingSession2!StoppedFirst
                               /\ TracingSession2!NothingLeftOn
  /\ tool = "dump_patient" => TracingSession1!WholeDump
  /\ tool = "ftrace_session" => /\ TracingSession1!LeftAsItWas
                                /\ TracingSession1!FreshTrace
  /\ tool = "trace_two" => TraceLog1!WellFormed /\ TraceLog1!EachOnce
  /\ tool = "trace_one" => TraceLog2!EndHasBegin
  /\ tool = "trace_mp" => TraceLog3!OwnOnly
  /\ tool = "parts_data" => TraceData1!StillThere
  /\ tool = "report_all" => TraceData1!EveryResultOnce
  /\ tool = "report_merge" => TraceData2!FirstFullValue
  /\ tool = "atrace_ring" => TraceData1!NoHole /\ TraceData1!NothingLostInVain
  /\ tool = "atrace_tgids" => TraceData2!WrongOnlyWhenReused /\ TraceData2!TracingOff
  /\ tool = "chrome_main" => /\ ProfileChrome1!LeftAsFound
                             /\ ProfileChrome1!FreshAndWhole
  /\ tool = "chrome_faults" => /\ ProfileChrome2!LeftAsFound
                               /\ ProfileChrome2!ModeWhileRecording
  /\ tool = "chrome_startup" => ProfileChrome3!FreshAndWhole
  /\ tool = "tick_often" => HostLocks1!OneSamples /\ HostLocks1!TellsTime
  /\ tool = "battor_trace" => BattorShell2!LastTrace /\ BattorShell2!TracingMeansShell
  /\ tool = "battor_fails" => BattorShell1!NothingLeft /\ BattorShell1!FirmwareCurrent

(* What is read is read whole: the output and the status of a command, the *)
(* lines of the log, the frames of the display, the video a recorder made. *)
ReadWhole ==
  /\ tool = "cmd_lines" => OutputReaders1!WholeOutput /\ OutputReaders1!OwnStatus
  /\ tool = "cmd_output" => OutputReaders2!WholeOutput
  /\ tool = "cmd_iter" => OutputReaders3!ProcessGone
  /\ tool = "cmd_left" => OutputReaders4!ProcessGone
  /\ tool = "cmd_queue" => OutputReaders1!YieldsWhole /\ OutputReaders1!NothingRuns
  /\ tool = "logcat_safe" => /\ OutputReaders1!InOrder
                             /\ OutputReaders1!NothingMissed
                             /\ OutputReaders1!CopyIsFile
  /\ tool = "surface_frames" => Recorders1!EveryFrameOnce
  /\ tool = "video_one" => Recorders1!PulledOwn /\ Recorders1!NeverEmptyHanded

(* The right thing is picked: the BattOr at the phone of its port, the     *)
(* modules a page needs in their order, and the agents and the device a    *)
(* command line of systrace asks for.                                      *)
RightOnes ==
  /\ tool = "usb_still" => UsbTopology1!PairedByPort /\ UsbTopology1!PathIsPaired
  /\ tool = "usb_loose" => UsbTopology2!BattorsAre
  /\ tool = "usb_lines" => UsbTopology1!PlacedByIndentation
  /\ tool = "battor_lookup" => /\ UsbTopology1!ConnectedIsFound
                               /\ UsbTopology1!OfThePhone
  /\ tool = "vulc_tree" => /\ ModuleLoader1!ServedWhole
                           /\ ModuleLoader1!DependenciesFirst
                           /\ ModuleLoader1!LoopIsLoop
                           /\ ModuleLoader1!ReachedIsAll
  /\ tool = "vulc_export" => ModuleLoader2!RefusedWithoutBase
  /\ tool = "vulc_cycle" => /\ ModuleLoader3!DependenciesFirst
                            /\ ModuleLoader3!LoopIsLoop
  /\ tool = "start_android" => /\ SystraceStart1!SameDevice
                               /\ SystraceStart1!NoLiveFromFile
  /\ tool = "start_targets" => /\ SystraceStart2!TargetOnly
                               /\ SystraceStart2!ExitsWithoutDevice
  /\ tool = "start_plug" => SystraceStart3!OneProcessSource

(* What no single step may do: return an older file than was asked for, or *)
(* a path of lower precedence, half a directory (unless a program that is  *)
(* dead by now was extracting it), a config of a later file; turn the      *)
(* clock back; add to a trace that is sealed or remove a file whose handle *)
(* is open; run ahead of the other devices; start a recorder that records  *)
(* already; leave flags of a profile on the device.                        *)
StepsInOrder == [][
  /\ tool = "fetch_fresh" => FileFetch2!Fresh
  /\ tool = "unzip_safe" => FileFetch1!Precedence
  /\ tool = "unzip_whole" => FileFetch2!Whole
  /\ tool = "merge_order" => DependencyConfigs1!FirstOfPrecedence
  /\ tool = "merge_three" => DependencyConfigs2!FirstOfPrecedence
  /\ tool = "tick_rare" => HostLocks2!NeverBack
  /\ tool = "parts_data" => TraceData1!Sealed /\ TraceData1!FilesGoWithTheirHandles
  /\ tool = "parallel_chain" => DevilThreads2!InStep
  /\ tool = "logcat_safe" => OutputReaders1!StartStarts
  /\ tool = "chrome_startup" => ProfileChrome3!FlagsTakenBack]_vars
==============================================================================
