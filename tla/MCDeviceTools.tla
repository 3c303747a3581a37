---------------------------- MODULE MCDeviceTools ----------------------------
(***************************************************************************)
(* The tools that work on a device, each in small instances, next to each  *)
(* other: tool says which instance a behaviour is of, x1, x2, ... hold the *)
(* variables of its module in the order of their declaration, and a step   *)
(* is a step of that tool.                                                 *)
(***************************************************************************)
EXTENDS Integers, Sequences, FiniteSets

CONSTANTS Alien, NoPort, c0, c1, c2, d1, d2, h1, h2, main, none, p1, p2, p3,
          u1, u2, u3

VARIABLES tool, x1, x2, x3, x4, x5, x6, x7, x8, x9, x10, x11, x12, x13, x14,
          x15, x16, x17, x18, x19

vars == <<tool, x1, x2, x3, x4, x5, x6, x7, x8, x9, x10, x11, x12, x13, x14,
           x15, x16, x17, x18, x19>>

(* The requests of two processes to the forwarder, of one group or of two. *)
OneGroup == [p \in {p1, p2} |-> "g"]
TwoGroups == [p \in {p1, p2} |-> IF p = p1 THEN "g" ELSE "other"]
OnePair == {<<<<0, h1>>>>}
PairLists == {<<<<0, h1>>, <<0, h2>>>>, <<<<1, h1>>>>, <<<<0, h1>>>>}

(* Two versions of a base APK and a split of both. *)
TwoBases == [a \in {"b1", "b2", "s1"} |-> IF a = "s1" THEN "split" ELSE "base"]
SplitAndWhole == {{"b1"}, {"b2"}, {"b1", "s1"}, {"b2", "s1"}}
Whole == {{"b1"}, {"b2"}}

(* Two directories of the host, one of which is pushed. *)
SideBySide == [d \in {"d", "e"} |-> IF d = "d" THEN {"d/a", "d/b"} ELSE {"e/c"}]
TwoTargets == [td \in {<<"t", "d">>, <<"u", "e">>} |-> IF td[1] = "t" THEN {"d/a", "d/b"} ELSE {"e/c"}]
OneRequest == {<< <<"t", "d">> >>}

(* Flags of at most three characters; those of blanks do not end in \, which *)
(* the writer does not quote.                                              *)
Short(chars) == UNION {[1..n -> chars] : n \in 1..3}
OrdinaryFlags == {f \in Short({"a", "\"", "'", "="}) : Cardinality({i \in DOMAIN f : f[i] = "a"}) <= 1}
QuotedFlags == {f \in Short({" ", "\"", "\\"}) : f[Len(f)] # "\\"}
TwoFiles == [c \in {"webview", "chrome"} |-> c]

(* The calls of DeviceUtils. *)
PropCalls == {<<"SetJavaAsserts", "all">>, <<"SetJavaAsserts", "">>,
              <<"SetProp", "all">>, <<"SetProp", "">>, <<"GetProp", "">>}
Call(k, exact, blocking, quiet) == [kind |-> k, exact |-> exact, blocking |-> blocking, quiet |-> quiet]
KillCalls == {Call("KillAll", e, b, q) : e, b, q \in BOOLEAN} \cup {Call("GetOnePid", FALSE, FALSE, FALSE)}
StopCalls == {Call("ForceStop", FALSE, FALSE, FALSE)}
Write(c, p, s) == [kind |-> "Write", text |-> c, push |-> p, su |-> s]
Reads == {[kind |-> "Read", pull |-> b, su |-> s] : b, s \in BOOLEAN}
Removes == {[kind |-> "Remove", force |-> f, rename |-> r] : f, r \in BOOLEAN}
FileCalls == {Write(c, b, s) : c \in {"empty", "short", "longline", "huge"}, b, s \in BOOLEAN}
             \cup Reads \cup Removes \cup {[kind |-> "Exists"]}
SlowFileCalls == {Write(c, FALSE, FALSE) : c \in {"short", "shortline"}} \cup Reads \cup Removes
UiCalls == {[kind |-> "SetScreen", on |-> s] : s \in {"on", "off"}} \cup {[kind |-> "GoHome"], [kind |-> "Dismiss"]}

(* One partition of each sort, and the steps of a provisioning. *)
SomePartitions == <<"bootloader", "boot", "userdata", "vendor">>
Step(n, r) == [name |-> n, reboot |-> r]
ThreeSteps == <<Step("wipe", TRUE), Step("properties", TRUE), Step("temperature", FALSE)>>
FourSteps == <<Step("wipe", TRUE), Step("properties", FALSE), Step("temperature", FALSE), Step("date", FALSE)>>

DeviceFleet1 == INSTANCE DeviceFleet WITH Procs <- {p1, p2}, Group <- OneGroup,
  Devices <- {d1}, DevicePorts <- {1, 2}, HostPorts <- {h1, h2},
  Requests <- PairLists, Shared <- FALSE, NoPort <- NoPort,
  PoolDevices <- {d1, d2}, Main <- main, Alien <- Alien, None <- none,
  WithBlacklist <- TRUE, UsbReset <- TRUE, AlienRuns <- FALSE,
  MonitorDevices <- {"p", "q"}, FailingQueries <- {"memory", "imei"},
  SlowQueries <- {"build", "uptime"}, Unreachable <- TRUE, Shrinking <- FALSE, lock <- x1, pc <- x2, job <- x3,
  raised <- x4, instance <- x5, initialized <- x6, toHost <- x7,
  toDevice <- x8, pidFile <- x9, forwards <- x10, faulty <- x11, health <- x1,
  adb <- x2, usb <- x3, file <- x4, poolLock <- x5, ext <- x6, phase <- x7,
  poolPc <- x8, status <- x9, restart <- x10, resets <- x11, added <- x12,
  main <- x1, monitorBlacklist <- x2, healthy <- x3, step <- x4, state <- x5,
  known <- x6, monitorFile <- x7, whole <- x8, shown <- x9, seen <- x10
DeviceFleet2 == INSTANCE DeviceFleet WITH Procs <- {p1, p2},
  Group <- TwoGroups, Devices <- {d1}, DevicePorts <- {1}, HostPorts <- {h1},
  Requests <- OnePair, Shared <- TRUE, NoPort <- NoPort, PoolDevices <- {d1},
  Main <- main, Alien <- Alien, None <- none, WithBlacklist <- TRUE,
  UsbReset <- TRUE, AlienRuns <- TRUE, MonitorDevices <- {"p", "q"},
  FailingQueries <- {"memory", "imei"}, SlowQueries <- {"build", "uptime"}, Unreachable <- TRUE,
  Shrinking <- FALSE, lock <- x1, pc <- x2, job <- x3, raised <- x4,
  instance <- x5, initialized <- x6, toHost <- x7, toDevice <- x8,
  pidFile <- x9, forwards <- x10, faulty <- x11, health <- x1, adb <- x2,
  usb <- x3, file <- x4, poolLock <- x5, ext <- x6, phase <- x7, poolPc <- x8,
  status <- x9, restart <- x10, resets <- x11, added <- x12, main <- x1,
  monitorBlacklist <- x2, healthy <- x3, step <- x4, state <- x5, known <- x6,
  monitorFile <- x7, whole <- x8, shown <- x9, seen <- x10
BatteryMeasurement1 == INSTANCE BatteryMeasurement WITH Kind <- "battery",
  Hardware <- FALSE, Sources <- {"wired", "wireless"}, Retries <- 1,
  Failing <- TRUE, phase <- x1, step <- x2, tries <- x3, pending <- x4,
  failed <- x5, software <- x6, cleared <- x7, wireless <- x8, plugged <- x9,
  stopped <- x10, shown <- x11, charger <- x12
BatteryMeasurement2 == INSTANCE BatteryMeasurement WITH Kind <- "power",
  Hardware <- TRUE, Sources <- {"wired", "wireless"}, Retries <- 2, Failing <- FALSE,
  phase <- x1, step <- x2, tries <- x3, pending <- x4, failed <- x5,
  software <- x6, cleared <- x7, wireless <- x8, plugged <- x9,
  stopped <- x10, shown <- x11, charger <- x12
BatteryMeasurement3 == INSTANCE BatteryMeasurement WITH Kind <- "power",
  Hardware <- FALSE, Sources <- {"wired", "wireless"}, Retries <- 4, Failing <- FALSE,
  phase <- x1, step <- x2, tries <- x3, pending <- x4, failed <- x5,
  software <- x6, cleared <- x7, wireless <- x8, plugged <- x9,
  stopped <- x10, shown <- x11, charger <- x12
BatteryLevel1 == INSTANCE BatteryLevel WITH Top <- 6, Reserve <- 2,
  MaxChargeError <- 3, Nexus5 <- TRUE, MaxUnknown <- 0, MaxFaults <- 0,
  Packages <- {"a", "b", "c"}, Uids <- {u1, u2, u3}, Again <- {"a"},
  MaxInstalls <- 2, MaxClears <- 1, level <- x1, warm <- x2, charging <- x3,
  op <- x4, target <- x5, pc <- x6, result <- x7, read <- x8,
  last_charge_value <- x9, failures <- x10, start <- x11, unknown <- x12,
  faults <- x13, uid <- x1, uids <- x2, installs <- x3, clears <- x4,
  asked <- x5, answer <- x6, left <- x7
BatteryLevel2 == INSTANCE BatteryLevel WITH Top <- 6, Reserve <- 2,
  MaxChargeError <- 3, Nexus5 <- TRUE, MaxUnknown <- 2, MaxFaults <- 1,
  Packages <- {"a", "b", "c"}, Uids <- {u1, u2, u3}, Again <- {},
  MaxInstalls <- 1, MaxClears <- 1, level <- x1, warm <- x2, charging <- x3,
  op <- x4, target <- x5, pc <- x6, result <- x7, read <- x8,
  last_charge_value <- x9, failures <- x10, start <- x11, unknown <- x12,
  faults <- x13, uid <- x1, uids <- x2, installs <- x3, clears <- x4,
  asked <- x5, answer <- x6, left <- x7
PackageCache1 == INSTANCE PackageCache WITH Scripts <- {"s1"},
  Apks <- {"b1", "b2", "s1"}, NameOf <- TwoBases, Wanted <- SplitAndWhole,
  MaxTokens <- 3, Shared <- FALSE, Reloads <- FALSE, GoesOn <- FALSE,
  Manual <- TRUE, Late <- FALSE, installed <- x1, late <- x2, token <- x3,
  tokens <- x4, cache <- x5, saved <- x6, pc <- x7, asked <- x8, todo <- x9,
  host <- x10
PackageCache2 == INSTANCE PackageCache WITH Scripts <- {"s1"},
  Apks <- {"b1", "b2", "s1"}, NameOf <- TwoBases, Wanted <- Whole,
  MaxTokens <- 3, Shared <- FALSE, Reloads <- FALSE, GoesOn <- FALSE,
  Manual <- FALSE, Late <- TRUE, installed <- x1, late <- x2, token <- x3,
  tokens <- x4, cache <- x5, saved <- x6, pc <- x7, asked <- x8, todo <- x9,
  host <- x10
PackageCache3 == INSTANCE PackageCache WITH Scripts <- {"s1", "s2"},
  Apks <- {"b1", "b2", "s1"}, NameOf <- TwoBases, Wanted <- Whole,
  MaxTokens <- 2, Shared <- FALSE, Reloads <- FALSE, GoesOn <- FALSE,
  Manual <- FALSE, Late <- FALSE, installed <- x1, late <- x2, token <- x3,
  tokens <- x4, cache <- x5, saved <- x6, pc <- x7, asked <- x8, todo <- x9,
  host <- x10
PushFiles1 == INSTANCE PushFiles WITH Trees <- {"t"},
  Paths <- {"d/a", "d/b", "e/c"}, Below <- SideBySide, Requests <- OneRequest,
  TargetOf <- TwoTargets, Contents <- {"v1", "v2"}, Cached <- TRUE,
  Deletes <- {TRUE, FALSE}, Retries <- 1, Failing <- FALSE, Md5Fails <- FALSE,
  host <- x1, device <- x2, cache <- x3, pc <- x4, tuple <- x5, request <- x6,
  delete <- x7, changed <- x8, stale <- x9, commits <- x10, tries <- x11
PushFiles2 == INSTANCE PushFiles WITH Trees <- {"t"},
  Paths <- {"d/a", "d/b", "e/c"}, Below <- SideBySide, Requests <- OneRequest,
  TargetOf <- TwoTargets, Contents <- {"v1", "v2"}, Cached <- FALSE,
  Deletes <- {TRUE, FALSE}, Retries <- 1, Failing <- TRUE, Md5Fails <- TRUE,
  host <- x1, device <- x2, cache <- x3, pc <- x4, tuple <- x5, request <- x6,
  delete <- x7, changed <- x8, stale <- x9, commits <- x10, tries <- x11
FlagFiles1 == INSTANCE FlagFiles WITH Flags <- OrdinaryFlags,
  Changers <- {"webview", "chrome"}, ChangerFlags <- {"a"},
  Files <- {"webview", "chrome"}, FileOf <- TwoFiles, Nougat <- TRUE,
  Nested <- TRUE, Failing <- {}, MaxDepth <- 2, args <- x1, line <- x2,
  current_quote <- x3, current_flag <- x4, flags <- x5, changerFile <- x1,
  legacy <- x2, enforce <- x3, stack <- x4, reset <- x5, call <- x6,
  changerStep <- x7, open <- x8, first <- x9
FlagFiles2 == INSTANCE FlagFiles WITH Flags <- QuotedFlags,
  Changers <- {"webview", "chrome"}, ChangerFlags <- {"a"},
  Files <- {"webview", "chrome"}, FileOf <- TwoFiles, Nougat <- TRUE,
  Nested <- TRUE, Failing <- {"replace"}, MaxDepth <- 2, args <- x1,
  line <- x2, current_quote <- x3, current_flag <- x4, flags <- x5,
  changerFile <- x1, legacy <- x2, enforce <- x3, stack <- x4, reset <- x5,
  call <- x6, changerStep <- x7, open <- x8, first <- x9
SharedPrefs1 == INSTANCE SharedPrefs WITH Keys <- {"k", "m"},
  Types <- {"int", "string"}, Values <- {"1", "2"},
  Calls <- {"set", "clear", "remove"}, Seen <- TRUE, Marshmallow <- TRUE,
  AppBusy <- FALSE, Failing <- TRUE, MaxCalls <- 3, file <- x1, labelled <- x2,
  app <- x3, xml <- x4, changed <- x5, step <- x6, wanted <- x7, removed <- x8,
  outcome <- x9, calls <- x10
AdbCommand1 == INSTANCE AdbCommand WITH
  Verbs <- {"install", "install-multiple", "uninstall", "push", "pull", "backup", "restore", "forward --no-rebind", "forward --remove", "root", "reboot", "wait-for-device"},
  Retries <- 1, MaxCalls <- 2, MaxMoves <- 1, Slow <- FALSE, OldAdb <- FALSE,
  conn <- x1, moves <- x2, apk <- x3, port <- x4, remote <- x5, rooted <- x6,
  files <- x7, pc <- x8, verb <- x9, target <- x10, left <- x11, calls <- x12,
  late <- x13, answer <- x14, result <- x15, before <- x16
AdbCommand2 == INSTANCE AdbCommand WITH
  Verbs <- {"install", "install-multiple", "uninstall", "push", "pull", "backup", "restore", "forward --no-rebind", "forward --remove", "root", "reboot", "wait-for-device"},
  Retries <- 2, MaxCalls <- 1, MaxMoves <- 1, Slow <- TRUE, OldAdb <- TRUE,
  conn <- x1, moves <- x2, apk <- x3, port <- x4, remote <- x5, rooted <- x6,
  files <- x7, pc <- x8, verb <- x9, target <- x10, left <- x11, calls <- x12,
  late <- x13, answer <- x14, result <- x15, before <- x16
DeviceShell1 == INSTANCE DeviceShell WITH Retries <- 1, Longs <- {TRUE, FALSE},
  Larges <- {TRUE, FALSE}, Prints <- {"plain"}, Cuts <- TRUE, MaxAway <- 0,
  MaxCommands <- 3, MaxStarts <- 2, PersistentPrints <- {"text", "prompt"},
  MaxLines <- 2, Greets <- FALSE, Dies <- FALSE, long <- x1, large <- x2,
  check <- x3, prints <- x4, reachable <- x5, away <- x6, pc <- x7, mode <- x8,
  left <- x9, runs <- x10, temp <- x11, script <- x12, files <- x13,
  deleting <- x14, names <- x15, got <- x16, outcome <- x17, handle <- x1,
  shell <- x2, stdin <- x3, stdout <- x4, printed <- x5, persistentLeft <- x6,
  persistentPc <- x7, closing <- x8, command <- x9, starts <- x10,
  lines <- x11, result <- x12
DeviceShell2 == INSTANCE DeviceShell WITH Retries <- 1, Longs <- {TRUE},
  Larges <- {TRUE}, Prints <- {"plain"}, Cuts <- FALSE, MaxAway <- 1,
  MaxCommands <- 2, MaxStarts <- 2, PersistentPrints <- {"text"},
  MaxLines <- 1, Greets <- TRUE, Dies <- TRUE, long <- x1, large <- x2,
  check <- x3, prints <- x4, reachable <- x5, away <- x6, pc <- x7, mode <- x8,
  left <- x9, runs <- x10, temp <- x11, script <- x12, files <- x13,
  deleting <- x14, names <- x15, got <- x16, outcome <- x17, handle <- x1,
  shell <- x2, stdin <- x3, stdout <- x4, printed <- x5, persistentLeft <- x6,
  persistentPc <- x7, closing <- x8, command <- x9, starts <- x10,
  lines <- x11, result <- x12
DeviceSettings1 == INSTANCE DeviceSettings WITH Ops <- PropCalls, Retries <- 1,
  MaxCalls <- 3, Slow <- FALSE, Unreadable <- FALSE, CPUs <- {c0, c1, c2},
  Boot <- c0, Model <- "Nexus 4", MpDecision <- TRUE, Held <- {c1},
  MayRoot <- TRUE, PerfMaxCalls <- 4, Observers <- {"object"}, LogSize <- 6,
  MaxChanges <- 5, HeatMaxCalls <- 4, prop <- x1, file <- x2, late <- x3,
  token <- x4, cache <- x5, pc <- x6, op <- x7, left <- x8, calls <- x9,
  lines <- x10, result <- x11, before <- x12, online <- x1, governor <- x2,
  capped <- x3, gpuCapped <- x4, mpdecision <- x5, root <- x6, perfPc <- x7,
  call <- x8, mode <- x9, warned <- x10, seen <- x11, info <- x12,
  perfCalls <- x13, hot <- x1, log <- x2, throttled <- x3, been <- x4,
  held <- x5, told <- x6, changes <- x7, heatCalls <- x8
DeviceSettings2 == INSTANCE DeviceSettings WITH Ops <- PropCalls, Retries <- 2,
  MaxCalls <- 1, Slow <- TRUE, Unreadable <- FALSE, CPUs <- {c0, c1, c2},
  Boot <- c0, Model <- "Nexus 5", MpDecision <- TRUE, Held <- {},
  MayRoot <- TRUE, PerfMaxCalls <- 4, Observers <- {"object"}, LogSize <- 6,
  MaxChanges <- 5, HeatMaxCalls <- 4, prop <- x1, file <- x2, late <- x3,
  token <- x4, cache <- x5, pc <- x6, op <- x7, left <- x8, calls <- x9,
  lines <- x10, result <- x11, before <- x12, online <- x1, governor <- x2,
  capped <- x3, gpuCapped <- x4, mpdecision <- x5, root <- x6, perfPc <- x7,
  call <- x8, mode <- x9, warned <- x10, seen <- x11, info <- x12,
  perfCalls <- x13, hot <- x1, log <- x2, throttled <- x3, been <- x4,
  held <- x5, told <- x6, changes <- x7, heatCalls <- x8
DeviceSettings3 == INSTANCE DeviceSettings WITH Ops <- PropCalls, Retries <- 2,
  MaxCalls <- 1, Slow <- TRUE, Unreadable <- FALSE, CPUs <- {c0, c1, c2},
  Boot <- c0, Model <- "other", MpDecision <- TRUE, Held <- {c1},
  MayRoot <- TRUE, PerfMaxCalls <- 4, Observers <- {"object"}, LogSize <- 6,
  MaxChanges <- 5, HeatMaxCalls <- 4, prop <- x1, file <- x2, late <- x3,
  token <- x4, cache <- x5, pc <- x6, op <- x7, left <- x8, calls <- x9,
  lines <- x10, result <- x11, before <- x12, online <- x1, governor <- x2,
  capped <- x3, gpuCapped <- x4, mpdecision <- x5, root <- x6, perfPc <- x7,
  call <- x8, mode <- x9, warned <- x10, seen <- x11, info <- x12,
  perfCalls <- x13, hot <- x1, log <- x2, throttled <- x3, been <- x4,
  held <- x5, told <- x6, changes <- x7, heatCalls <- x8
DeviceStart1 == INSTANCE DeviceStart WITH
  Ops <- {"Reboot", "EnableRoot", "NeedsSU"}, MaxCalls <- 4, Retries <- 0,
  MaxCrashes <- 0, Slow <- FALSE, EarlyProp <- FALSE,
  Partitions <- SomePartitions, Restart <- {"bootloader"},
  WipeOnly <- {"userdata"}, Optional <- {"vendor"}, FlashRetries <- 1,
  Serials <- TRUE, MaxFaults <- 0, build <- x1, hassu <- x2, up <- x3,
  leaving <- x4, restarting <- x5, online <- x6, adbroot <- x7, rootprop <- x8,
  boots <- x9, crashes <- x10, su <- x11, ghost <- x12, pc <- x13, op <- x14,
  left <- x15, calls <- x16, asked <- x17, result <- x18, since <- x19,
  mode <- x1, offModeCharge <- x2, written <- x3, archive <- x4, images <- x5,
  wipe <- x6, flashPc <- x7, todo <- x8, tries <- x9, raised <- x10,
  flashResult <- x11, faults <- x12
DeviceStart2 == INSTANCE DeviceStart WITH
  Ops <- {"Reboot", "EnableRoot", "NeedsSU"}, MaxCalls <- 2, Retries <- 1,
  MaxCrashes <- 2, Slow <- TRUE, EarlyProp <- FALSE,
  Partitions <- SomePartitions, Restart <- {"bootloader"},
  WipeOnly <- {"userdata"}, Optional <- {"vendor"}, FlashRetries <- 1,
  Serials <- TRUE, MaxFaults <- 2, build <- x1, hassu <- x2, up <- x3,
  leaving <- x4, restarting <- x5, online <- x6, adbroot <- x7, rootprop <- x8,
  boots <- x9, crashes <- x10, su <- x11, ghost <- x12, pc <- x13, op <- x14,
  left <- x15, calls <- x16, asked <- x17, result <- x18, since <- x19,
  mode <- x1, offModeCharge <- x2, written <- x3, archive <- x4, images <- x5,
  wipe <- x6, flashPc <- x7, todo <- x8, tries <- x9, raised <- x10,
  flashResult <- x11, faults <- x12
DeviceProcesses1 == INSTANCE DeviceProcesses WITH Pids <- {p1, p2, p3},
  Ops <- KillCalls, Names <- {"app", "app:part", "other"}, MaxSpawns <- 1,
  MaxExits <- 2, Reuse <- FALSE, Deaf <- TRUE, Retries <- 1, None <- none,
  Parts <- {p1, p2}, AppOps <- {"Replace", "Remove"}, MaxCalls <- 3,
  MaxFaults <- 0, run <- x1, used <- x2, spawns <- x3, exits <- x4,
  dying <- x5, pc <- x6, op <- x7, left <- x8, pids <- x9, targets <- x10,
  hit <- x11, result <- x12, place <- x1, storage <- x2, deleting <- x3,
  replaced <- x4, modifiable <- x5, writable <- x6, running <- x7, appPc <- x8,
  appOp <- x9, phase <- x10, raised <- x11, appLeft <- x12, calls <- x13,
  faults <- x14, appResult <- x15
DeviceProcesses2 == INSTANCE DeviceProcesses WITH Pids <- {p1, p2, p3},
  Ops <- StopCalls, Names <- {"app", "other"}, MaxSpawns <- 1, MaxExits <- 1,
  Reuse <- FALSE, Deaf <- FALSE, Retries <- 1, None <- none, Parts <- {p1, p2},
  AppOps <- {"Replace", "Remove"}, MaxCalls <- 1, MaxFaults <- 3, run <- x1,
  used <- x2, spawns <- x3, exits <- x4, dying <- x5, pc <- x6, op <- x7,
  left <- x8, pids <- x9, targets <- x10, hit <- x11, result <- x12,
  place <- x1, storage <- x2, deleting <- x3, replaced <- x4, modifiable <- x5,
  writable <- x6, running <- x7, appPc <- x8, appOp <- x9, phase <- x10,
  raised <- x11, appLeft <- x12, calls <- x13, faults <- x14, appResult <- x15
DeviceFiles1 == INSTANCE DeviceFiles WITH Ops <- FileCalls, MaxCalls <- 3,
  Retries <- 1, MaxFails <- 0, MaxChanges <- 1, Slow <- FALSE, file <- x1,
  renamed <- x2, temps <- x3, fails <- x4, changes <- x5, late <- x6, pc <- x7,
  op <- x8, left <- x9, calls <- x10, size <- x11, got <- x12, result <- x13,
  during <- x14
DeviceFiles2 == INSTANCE DeviceFiles WITH Ops <- FileCalls, MaxCalls <- 2,
  Retries <- 1, MaxFails <- 2, MaxChanges <- 1, Slow <- FALSE, file <- x1,
  renamed <- x2, temps <- x3, fails <- x4, changes <- x5, late <- x6, pc <- x7,
  op <- x8, left <- x9, calls <- x10, size <- x11, got <- x12, result <- x13,
  during <- x14
DeviceFiles3 == INSTANCE DeviceFiles WITH Ops <- SlowFileCalls, MaxCalls <- 3,
  Retries <- 1, MaxFails <- 0, MaxChanges <- 1, Slow <- TRUE, file <- x1,
  renamed <- x2, temps <- x3, fails <- x4, changes <- x5, late <- x6, pc <- x7,
  op <- x8, left <- x9, calls <- x10, size <- x11, got <- x12, result <- x13,
  during <- x14
DeviceUi1 == INSTANCE DeviceUi WITH Ops <- UiCalls, Retries <- 1,
  MaxWindows <- 0, MaxCloses <- 0, MaxFails <- 0, Lazy <- FALSE, screen <- x1,
  toggles <- x2, windows <- x3, button <- x4, opens <- x5, closes <- x6,
  fails <- x7, pc <- x8, op <- x9, left <- x10, found <- x11, result <- x12,
  ended <- x13, missed <- x14
DeviceUi2 == INSTANCE DeviceUi WITH Ops <- UiCalls, Retries <- 1,
  MaxWindows <- 2, MaxCloses <- 2, MaxFails <- 2, Lazy <- TRUE, screen <- x1,
  toggles <- x2, windows <- x3, button <- x4, opens <- x5, closes <- x6,
  fails <- x7, pc <- x8, op <- x9, left <- x10, found <- x11, result <- x12,
  ended <- x13, missed <- x14
DeviceSetup1 == INSTANCE DeviceSetup WITH Devices <- {d1, d2},
  Steps <- FourSteps, Serials <- {none}, MaxFaults <- 0, Others <- FALSE,
  None <- none, LockedDevices <- {"p"}, Chosen <- {}, Confirming <- FALSE,
  Leaving <- FALSE, MaxPolls <- 3, Day <- 6, Offs <- -4..4, Ignoring <- TRUE,
  Slow <- FALSE, MaxTime <- 4, attached <- x1, requested <- x2, serial <- x3,
  up <- x4, authorized <- x5, before <- x6, held <- x7, pc <- x8, index <- x9,
  listed <- x10, faults <- x11, main <- x12, picked <- x13, output <- x14,
  place <- x1, knows <- x2, lock <- x3, todo <- x4, rebooted <- x5,
  polls <- x6, unlockMain <- x7, unlockPc <- x8, process <- x9, holds <- x10,
  leftover <- x11, verdict <- x12, datePc <- x1, now <- x2, dateDevice <- x3,
  correct <- x4, tries <- x5, ignored <- x6, told <- x7
DeviceSetup2 == INSTANCE DeviceSetup WITH Devices <- {d1, d2},
  Steps <- ThreeSteps, Serials <- {none}, MaxFaults <- 3, Others <- TRUE,
  None <- none, LockedDevices <- {"p", "q"}, Chosen <- {"p"},
  Confirming <- TRUE, Leaving <- TRUE, MaxPolls <- 1, Day <- 6, Offs <- -4..4,
  Ignoring <- TRUE, Slow <- FALSE, MaxTime <- 4, attached <- x1,
  requested <- x2, serial <- x3, up <- x4, authorized <- x5, before <- x6,
  held <- x7, pc <- x8, index <- x9, listed <- x10, faults <- x11, main <- x12,
  picked <- x13, output <- x14, place <- x1, knows <- x2, lock <- x3,
  todo <- x4, rebooted <- x5, polls <- x6, unlockMain <- x7, unlockPc <- x8,
  process <- x9, holds <- x10, leftover <- x11, verdict <- x12, datePc <- x1,
  now <- x2, dateDevice <- x3, correct <- x4, tries <- x5, ignored <- x6,
  told <- x7

(* The places a tool does not use. *)
Off17 == x18 = 0 /\ x19 = 0
Off16 == x17 = 0 /\ Off17
Off15 == x16 = 0 /\ Off16
Off14 == x15 = 0 /\ Off15
Off13 == x14 = 0 /\ Off14
Off12 == x13 = 0 /\ Off13
Off11 == x12 = 0 /\ Off12
Off10 == x11 = 0 /\ Off11
Off9 == x10 = 0 /\ Off10
Off8 == x9 = 0 /\ Off9
Off7 == x8 = 0 /\ Off8
Off6 == x7 = 0 /\ Off7
Off5 == x6 = 0 /\ Off6
Same17 == UNCHANGED <<x18, x19>>
Same16 == UNCHANGED <<x17>> /\ Same17
Same15 == UNCHANGED <<x16>> /\ Same16
Same14 == UNCHANGED <<x15>> /\ Same15
Same13 == UNCHANGED <<x14>> /\ Same14
Same12 == UNCHANGED <<x13>> /\ Same13
Same11 == UNCHANGED <<x12>> /\ Same12
Same10 == UNCHANGED <<x11>> /\ Same11
Same9 == UNCHANGED <<x10>> /\ Same10
Same8 == UNCHANGED <<x9>> /\ Same9
Same7 == UNCHANGED <<x8>> /\ Same8
Same6 == UNCHANGED <<x7>> /\ Same7
Same5 == UNCHANGED <<x6>> /\ Same6

Init ==
  \/ tool = "forward_group" /\ DeviceFleet1!Init /\ Off11
  \/ tool = "forward_foreign" /\ DeviceFleet2!Init /\ Off11
  \/ tool = "battery_block" /\ BatteryMeasurement1!Init /\ Off12
  \/ tool = "battery_resumed" /\ BatteryMeasurement2!Init /\ Off12
  \/ tool = "battery_software" /\ BatteryMeasurement3!Init /\ Off12
  \/ tool = "level_calm" /\ BatteryLevel1!Init /\ Off13
  \/ tool = "level_other" /\ BatteryLevel2!Init /\ Off13
  \/ tool = "power_once" /\ BatteryLevel1!PowerInit /\ Off7
  \/ tool = "packages_alone" /\ PackageCache1!Init /\ Off10
  \/ tool = "packages_timeouts" /\ PackageCache2!Init /\ Off10
  \/ tool = "packages_turns" /\ PackageCache3!Init /\ Off10
  \/ tool = "push_cache" /\ PushFiles1!Init /\ Off11
  \/ tool = "push_changed" /\ PushFiles2!Init /\ Off11
  \/ tool = "flagline_ordinary" /\ FlagFiles1!LineInit /\ Off5
  \/ tool = "flagline_quoted" /\ FlagFiles2!LineInit /\ Off5
  \/ tool = "flags_nested" /\ FlagFiles1!ChangerInit /\ Off9
  \/ tool = "flags_failing" /\ FlagFiles2!ChangerInit /\ Off9
  \/ tool = "prefs_commit" /\ SharedPrefs1!Init /\ Off10
  \/ tool = "adb_prompt" /\ AdbCommand1!Init /\ Off16
  \/ tool = "adb_slow" /\ AdbCommand2!Init /\ Off16
  \/ tool = "shell_cut" /\ DeviceShell1!Init /\ Off17
  \/ tool = "shell_away" /\ DeviceShell2!Init /\ Off17
  \/ tool = "pshell_plain" /\ DeviceShell1!PersistentInit /\ Off12
  \/ tool = "pshell_close" /\ DeviceShell2!PersistentInit /\ Off12
  \/ tool = "props_prompt" /\ DeviceSettings1!Init /\ Off12
  \/ tool = "props_late" /\ DeviceSettings2!Init /\ Off12
  \/ tool = "perf_four" /\ DeviceSettings1!PerfInit /\ Off13
  \/ tool = "perf_five" /\ DeviceSettings2!PerfInit /\ Off13
  \/ tool = "perf_info" /\ DeviceSettings3!PerfInit /\ Off13
  \/ tool = "boot_plain" /\ DeviceStart1!Init
  \/ tool = "boot_crash" /\ DeviceStart2!Init
  \/ tool = "flash_calm" /\ DeviceStart1!FlashInit /\ Off12
  \/ tool = "flash_faults" /\ DeviceStart2!FlashInit /\ Off12
  \/ tool = "proc_kill" /\ DeviceProcesses1!Init /\ Off12
  \/ tool = "proc_stop" /\ DeviceProcesses2!Init /\ Off12
  \/ tool = "app_calm" /\ DeviceProcesses1!AppInit /\ Off15
  \/ tool = "app_faults" /\ DeviceProcesses2!AppInit /\ Off15
  \/ tool = "files_calm" /\ DeviceFiles1!Init /\ Off14
  \/ tool = "files_fail" /\ DeviceFiles2!Init /\ Off14
  \/ tool = "files_slow" /\ DeviceFiles3!Init /\ Off14
  \/ tool = "ui_calm" /\ DeviceUi1!Init /\ Off14
  \/ tool = "ui_wild" /\ DeviceUi2!Init /\ Off14
  \/ tool = "pool_recover" /\ DeviceFleet1!PoolInit /\ Off12
  \/ tool = "pool_beside" /\ DeviceFleet2!PoolInit /\ Off12
  \/ tool = "prov_calm" /\ DeviceSetup1!Init /\ Off14
  \/ tool = "prov_faults" /\ DeviceSetup2!Init /\ Off14
  \/ tool = "unlock_one" /\ DeviceSetup1!UnlockInit /\ Off12
  \/ tool = "unlock_chosen" /\ DeviceSetup2!UnlockInit /\ Off12
  \/ tool = "monitor_shown" /\ DeviceFleet1!MonitorInit /\ Off10
  \/ tool = "heat_alone" /\ DeviceSettings1!HeatInit /\ Off8
  \/ tool = "date_set" /\ DeviceSetup1!DateInit /\ Off7

Next ==
  /\ UNCHANGED tool
  /\ \/ tool = "forward_group" /\ DeviceFleet1!Next /\ Same11
     \/ tool = "forward_foreign" /\ DeviceFleet2!Next /\ Same11
     \/ tool = "battery_block" /\ BatteryMeasurement1!Next /\ Same12
     \/ tool = "battery_resumed" /\ BatteryMeasurement2!Next /\ Same12
     \/ tool = "battery_software" /\ BatteryMeasurement3!Next /\ Same12
     \/ tool = "level_calm" /\ BatteryLevel1!Next /\ Same13
     \/ tool = "level_other" /\ BatteryLevel2!Next /\ Same13
     \/ tool = "power_once" /\ BatteryLevel1!PowerNext /\ Same7
     \/ tool = "packages_alone" /\ PackageCache1!Next /\ Same10
     \/ tool = "packages_timeouts" /\ PackageCache2!Next /\ Same10
     \/ tool = "packages_turns" /\ PackageCache3!Next /\ Same10
     \/ tool = "push_cache" /\ PushFiles1!Next /\ Same11
     \/ tool = "push_changed" /\ PushFiles2!Next /\ Same11
     \/ tool = "flagline_ordinary" /\ FlagFiles1!LineNext /\ Same5
     \/ tool = "flagline_quoted" /\ FlagFiles2!LineNext /\ Same5
     \/ tool = "flags_nested" /\ FlagFiles1!ChangerNext /\ Same9
     \/ tool = "flags_failing" /\ FlagFiles2!ChangerNext /\ Same9
     \/ tool = "prefs_commit" /\ SharedPrefs1!Next /\ Same10
     \/ tool = "adb_prompt" /\ AdbCommand1!Next /\ Same16
     \/ tool = "adb_slow" /\ AdbCommand2!Next /\ Same16
     \/ tool = "shell_cut" /\ DeviceShell1!Next /\ Same17
     \/ tool = "shell_away" /\ DeviceShell2!Next /\ Same17
     \/ tool = "pshell_plain" /\ DeviceShell1!PersistentNext /\ Same12
     \/ tool = "pshell_close" /\ DeviceShell2!PersistentNext /\ Same12
     \/ tool = "props_prompt" /\ DeviceSettings1!Next /\ Same12
     \/ tool = "props_late" /\ DeviceSettings2!Next /\ Same12
     \/ tool = "perf_four" /\ DeviceSettings1!PerfNext /\ Same13
     \/ tool = "perf_five" /\ DeviceSettings2!PerfNext /\ Same13
     \/ tool = "perf_info" /\ DeviceSettings3!PerfNext /\ Same13
     \/ tool = "boot_plain" /\ DeviceStart1!Next
     \/ tool = "boot_crash" /\ DeviceStart2!Next
     \/ tool = "flash_calm" /\ DeviceStart1!FlashNext /\ Same12
     \/ tool = "flash_faults" /\ DeviceStart2!FlashNext /\ Same12
     \/ tool = "proc_kill" /\ DeviceProcesses1!Next /\ Same12
     \/ tool = "proc_stop" /\ DeviceProcesses2!Next /\ Same12
     \/ tool = "app_calm" /\ DeviceProcesses1!AppNext /\ Same15
     \/ tool = "app_faults" /\ DeviceProcesses2!AppNext /\ Same15
     \/ tool = "files_calm" /\ DeviceFiles1!Next /\ Same14
     \/ tool = "files_fail" /\ DeviceFiles2!Next /\ Same14
     \/ tool = "files_slow" /\ DeviceFiles3!Next /\ Same14
     \/ tool = "ui_calm" /\ DeviceUi1!Next /\ Same14
     \/ tool = "ui_wild" /\ DeviceUi2!Next /\ Same14
     \/ tool = "pool_recover" /\ DeviceFleet1!PoolNext /\ Same12
     \/ tool = "pool_beside" /\ DeviceFleet2!PoolNext /\ Same12
     \/ tool = "prov_calm" /\ DeviceSetup1!Next /\ Same14
     \/ tool = "prov_faults" /\ DeviceSetup2!Next /\ Same14
     \/ tool = "unlock_one" /\ DeviceSetup1!UnlockNext /\ Same12
     \/ tool = "unlock_chosen" /\ DeviceSetup2!UnlockNext /\ Same12
     \/ tool = "monitor_shown" /\ DeviceFleet1!MonitorNext /\ Same10
     \/ tool = "heat_alone" /\ DeviceSettings1!HeatNext /\ Same8
     \/ tool = "date_set" /\ DeviceSetup1!DateNext /\ Same7

Spec == Init /\ [][Next]_vars

(* What the modules ask of their constants. *)
ASSUME
  /\ DeviceFleet1!ForwarderAssumption
  /\ DeviceFleet1!DevicePoolAssumption
  /\ DeviceFleet1!MonitorAssumption
  /\ DeviceFleet2!ForwarderAssumption
  /\ DeviceFleet2!DevicePoolAssumption
  /\ DeviceFleet2!MonitorAssumption
  /\ BatteryMeasurement1!BatteryMeasurementAssumption
  /\ BatteryMeasurement2!BatteryMeasurementAssumption
  /\ BatteryMeasurement3!BatteryMeasurementAssumption
  /\ BatteryLevel1!Assumption
  /\ BatteryLevel2!Assumption
  /\ PackageCache1!PackageCacheAssumption
  /\ PackageCache2!PackageCacheAssumption
  /\ PackageCache3!PackageCacheAssumption
  /\ PushFiles1!PushFilesAssumption
  /\ PushFiles2!PushFilesAssumption
  /\ DeviceSettings1!Assumption
  /\ DeviceSettings2!Assumption
  /\ DeviceSettings3!Assumption
  /\ DeviceStart1!Assumption
  /\ DeviceStart2!Assumption
  /\ DeviceSetup1!UnlockAssumption
  /\ DeviceSetup1!DateAssumption
  /\ DeviceSetup2!UnlockAssumption
  /\ DeviceSetup2!DateAssumption

----------------------------------------------------------------------------
(* Every tool keeps its variables within their types. *)
TypesHold ==
  /\ tool = "forward_group" => DeviceFleet1!TypeOK
  /\ tool = "forward_foreign" => DeviceFleet2!TypeOK
  /\ tool = "battery_block" => BatteryMeasurement1!TypeOK
  /\ tool = "battery_resumed" => BatteryMeasurement2!TypeOK
  /\ tool = "battery_software" => BatteryMeasurement3!TypeOK
  /\ tool = "level_calm" => BatteryLevel1!TypeOK
  /\ tool = "level_other" => BatteryLevel2!TypeOK
  /\ tool = "packages_alone" => PackageCache1!TypeOK
  /\ tool = "packages_timeouts" => PackageCache2!TypeOK
  /\ tool = "packages_turns" => PackageCache3!TypeOK
  /\ tool = "push_cache" => PushFiles1!TypeOK
  /\ tool = "push_changed" => PushFiles2!TypeOK
  /\ tool = "flagline_ordinary" => FlagFiles1!LineTypeOK
  /\ tool = "flagline_quoted" => FlagFiles2!LineTypeOK
  /\ tool = "flags_nested" => FlagFiles1!ChangerTypeOK
  /\ tool = "flags_failing" => FlagFiles2!ChangerTypeOK
  /\ tool = "prefs_commit" => SharedPrefs1!TypeOK
  /\ tool = "adb_prompt" => AdbCommand1!TypeOK
  /\ tool = "adb_slow" => AdbCommand2!TypeOK
  /\ tool = "shell_cut" => DeviceShell1!TypeOK
  /\ tool = "shell_away" => DeviceShell2!TypeOK
  /\ tool = "pshell_plain" => DeviceShell1!PersistentTypeOK
  /\ tool = "pshell_close" => DeviceShell2!PersistentTypeOK
  /\ tool = "props_prompt" => DeviceSettings1!TypeOK
  /\ tool = "props_late" => DeviceSettings2!TypeOK
  /\ tool = "perf_four" => DeviceSettings1!PerfTypeOK
  /\ tool = "perf_five" => DeviceSettings2!PerfTypeOK
  /\ tool = "perf_info" => DeviceSettings3!PerfTypeOK
  /\ tool = "boot_plain" => DeviceStart1!TypeOK
  /\ tool = "boot_crash" => DeviceStart2!TypeOK
  /\ tool = "flash_calm" => DeviceStart1!FlashTypeOK
  /\ tool = "flash_faults" => DeviceStart2!FlashTypeOK
  /\ tool = "proc_kill" => DeviceProcesses1!TypeOK
  /\ tool = "proc_stop" => DeviceProcesses2!TypeOK
  /\ tool = "app_calm" => DeviceProcesses1!AppTypeOK
  /\ tool = "app_faults" => DeviceProcesses2!AppTypeOK
  /\ tool = "files_calm" => DeviceFiles1!TypeOK
  /\ tool = "files_fail" => DeviceFiles2!TypeOK
  /\ tool = "files_slow" => DeviceFiles3!TypeOK
  /\ tool = "ui_calm" => DeviceUi1!TypeOK
  /\ tool = "ui_wild" => DeviceUi2!TypeOK
  /\ tool = "pool_recover" => DeviceFleet1!PoolTypeOK
  /\ tool = "pool_beside" => DeviceFleet2!PoolTypeOK
  /\ tool = "prov_calm" => DeviceSetup1!TypeOK
  /\ tool = "prov_faults" => DeviceSetup2!TypeOK
  /\ tool = "unlock_one" => DeviceSetup1!UnlockTypeOK
  /\ tool = "unlock_chosen" => DeviceSetup2!UnlockTypeOK
  /\ tool = "monitor_shown" => DeviceFleet1!MonitorTypeOK
  /\ tool = "heat_alone" => DeviceSettings1!HeatTypeOK
  /\ tool = "date_set" => DeviceSetup1!DateTypeOK

(* What a tool tells its caller was so when it looked: what is installed and *)
(* loaded, a property, a flag read back from its file, a file that is there, *)
(* the status and the output of a command of the shell (and of the command *)
(* that was sent, not of another), the mode and the heat of the CPUs, the  *)
(* date, and the power a package has used, unless it was uninstalled since *)
(* its uid was cached.                                                     *)
AnswersAreTrue ==
  /\ tool = "packages_alone" => PackageCache1!CacheTrue
  /\ tool = "packages_turns" => PackageCache3!LoadedTrue
  /\ tool = "flagline_ordinary" => FlagFiles1!OneByOne /\ FlagFiles1!RoundTrip
  /\ tool = "flagline_quoted" => FlagFiles2!RoundTrip
  /\ tool = "flags_nested" => FlagFiles1!KnowsTheFile /\ FlagFiles1!Readable
  /\ tool = "props_prompt" => /\ DeviceSettings1!GetPropIsTrue
                              /\ DeviceSettings1!AssertsAgree
                              /\ DeviceSettings1!ChangedIsTold
  /\ tool = "props_late" => DeviceSettings2!AssertsAgree
  /\ tool = "boot_plain" => DeviceStart1!SuIsRight
  /\ tool = "files_calm" => DeviceFiles1!ExistsIsTrue
  /\ tool = "files_fail" => DeviceFiles2!ReadWasThere
  /\ tool = "files_slow" => DeviceFiles3!ReadWasThere
  /\ tool = "pshell_plain" => DeviceShell1!StatusIsMine /\ DeviceShell1!OutputIsMine
  /\ tool = "pshell_close" => DeviceShell2!StatusIsMine
  /\ tool = "shell_cut" => DeviceShell1!OutputIsWhole /\ DeviceShell1!LargeIsWhole
  /\ tool = "adb_prompt" => AdbCommand1!OkMeansDone
  /\ tool = "adb_slow" => AdbCommand2!OkMeansDone
  /\ tool = "perf_info" => DeviceSettings3!InfoTellsMode
  /\ tool = "heat_alone" => DeviceSettings1!IsTold /\ DeviceSettings1!NoChangeMissed
  /\ tool = "date_set" => /\ DeviceSetup1!DateIsRight
                          /\ DeviceSetup1!FailsOnlyWhenIgnored
  /\ tool = "ui_calm" => DeviceUi1!EndedIsTold
  /\ tool = "power_once" => /\ BatteryLevel1!ToldOfPackage
                            /\ BatteryLevel1!NeverTwice
                            /\ BatteryLevel1!UidsApart

(* What was asked is done when the call returns without an error: packages *)
(* installed, files pushed, written and removed, stale files deleted,      *)
(* preferences committed (but for a removal that no other call has marked  *)
(* as a change) and seen by the app, a device booted anew and rooted,      *)
(* processes gone, partitions flashed, batteries charged and kept from     *)
(* charging, system apps replaced for as long as the caller wants.         *)
DoneAsAsked ==
  /\ tool = "packages_alone" => PackageCache1!InstalledAsAsked
  /\ tool = "push_changed" => PushFiles2!PushedAsAsked
  /\ tool = "push_cache" => PushFiles1!PushedAsAsked /\ PushFiles1!StaleDeleted
  /\ tool = "prefs_commit" => /\ SharedPrefs1!Committed
                              /\ SharedPrefs1!AppSeesIt /\ SharedPrefs1!AppMayRead
  /\ tool = "boot_plain" => DeviceStart1!BootedAnew /\ DeviceStart1!RootedAfterEnable
  /\ tool = "boot_crash" => DeviceStart2!BootedAnew /\ DeviceStart2!RootedAfterEnable
  /\ tool = "files_fail" => DeviceFiles2!WrittenIsThere /\ DeviceFiles2!RemovedIsGone
  /\ tool = "proc_kill" => /\ DeviceProcesses1!GoneWhenBlocking
                           /\ DeviceProcesses1!AllAreHit
  /\ tool = "proc_stop" => DeviceProcesses2!ApplicationStops
  /\ tool = "flash_calm" => DeviceStart1!WholeOrNothing /\ DeviceStart1!FlashedAsAsked
  /\ tool = "flash_faults" => /\ DeviceStart2!WholeOrNothing
                              /\ DeviceStart2!FlashedAsAsked
  /\ tool = "level_calm" => BatteryLevel1!ChargedAsAsked
  /\ tool = "battery_block" => /\ BatteryMeasurement1!NotCharging
                               /\ BatteryMeasurement1!BeginsCleared
  /\ tool = "perf_four" => DeviceSettings1!QuietWhileMeasured
  /\ tool = "perf_five" => DeviceSettings2!QuietWhileMeasured
  /\ tool = "app_calm" => DeviceProcesses1!ReplacedInScope
  /\ tool = "forward_group" => DeviceFleet1!TablesCover
  /\ tool = "ui_calm" => DeviceUi1!RightmostEnds
  /\ tool = "shell_cut" => DeviceShell1!RunsAreCounted
  /\ tool = "adb_slow" => AdbCommand2!NestedOnlyIntoOld

(* A tool that has ended leaves the device as it found it: flags and the   *)
(* scaling of the CPUs are back; so are the system apps, or an exception   *)
(* tells that they are not, which only a step that fails can bring about;  *)
(* charging is resumed as far as no command fails and no wireless source   *)
(* was shown meanwhile; no temporary file and no forwarded port is left    *)
(* without an owner.                                                       *)
LeftAsFound ==
  /\ tool = "flash_calm" => DeviceStart1!LeftAsFound
  /\ tool = "flags_nested" => FlagFiles1!RevertedToOriginal
  /\ tool = "flags_failing" => FlagFiles2!FilesReverted
  /\ tool = "app_calm" => DeviceProcesses1!Restored /\ DeviceProcesses1!NothingLost
  /\ tool = "app_faults" => DeviceProcesses2!Restored
  /\ tool = "perf_four" => DeviceSettings1!DefaultAsFound
  /\ tool = "perf_five" => DeviceSettings2!DefaultAsFound
  /\ tool = "battery_resumed" => BatteryMeasurement2!Resumed
  /\ tool = "battery_software" => BatteryMeasurement3!Resumed
  /\ tool = "level_calm" => BatteryLevel1!ChargingAfter /\ BatteryLevel1!NotDrained
  /\ tool = "level_other" => BatteryLevel2!ChargingAfter /\ BatteryLevel2!NotDrained
  /\ tool = "forward_group" => DeviceFleet1!NothingLeaks
  /\ tool = "files_calm" => DeviceFiles1!NothingLeft
  /\ tool = "files_fail" => DeviceFiles2!TempsHaveOwners

(* A tool touches what it was asked to touch and nothing else: other       *)
(* properties, other processes, other devices, the screen and the dialogs  *)
(* that were not asked for, and a temporary file that is still in use.     *)
OthersSpared ==
  /\ tool = "props_prompt" => DeviceSettings1!OthersStay
  /\ tool = "props_late" => DeviceSettings2!OthersStay
  /\ tool = "proc_kill" => DeviceProcesses1!OthersAreLeft
  /\ tool = "unlock_chosen" => DeviceSetup2!OnlyChosen
  /\ tool = "ui_calm" => DeviceUi1!OnlyDialogs /\ DeviceUi1!ScreenStays
  /\ tool = "shell_cut" => DeviceShell1!InUseStays
  /\ tool = "shell_away" => DeviceShell2!InUseStays
  /\ tool = "unlock_one" => DeviceSetup1!OneLeftover

(* No device is lost from the books: a device that was not recovered or    *)
(* provisioned is on the blacklist, entries others made stay on it, the    *)
(* monitor shows every device adb showed when its round began, and a       *)
(* provisioning picks attached devices, works on booted ones and keeps the *)
(* keys.                                                                   *)
FleetAccounted ==
  /\ tool = "monitor_shown" => DeviceFleet1!EveryDeviceShown
  /\ tool = "pool_recover" => DeviceFleet1!RecoveredOrListed /\ DeviceFleet1!AddedStay
  /\ tool = "prov_faults" => /\ DeviceSetup2!ProvisionedOrListed
                             /\ DeviceSetup2!StepsOnBooted
  /\ tool = "prov_calm" => DeviceSetup1!KeysAreKept /\ DeviceSetup1!PickedAreAttached

(* What no single step may do: take a forwarding from a sibling process or *)
(* from another host port, leave a package that was uninstalled in the     *)
(* cache, push another file than the changed ones, start a second killer,  *)
(* take a healthy device down or pick a bad one, move a system app under a *)
(* running system, let a device of the blacklist appear as good, tell of   *)
(* an unlocking that was not, or leave home once there.                    *)
NoStepHarms == [][
  /\ tool = "forward_group" => DeviceFleet1!SiblingsSpared
  /\ tool = "forward_foreign" => DeviceFleet2!OwnHost
  /\ tool = "packages_alone" => PackageCache1!UninstallRemoves
  /\ tool = "push_cache" => PushFiles1!NothingElse
  /\ tool = "proc_kill" => DeviceProcesses1!OnlyOne
  /\ tool = "pool_recover" => DeviceFleet1!GoodStayUp
  /\ tool = "pool_beside" => DeviceFleet2!GoodStayUp
  /\ tool = "prov_calm" => DeviceSetup1!PickedAreHealthy
  /\ tool = "app_calm" => DeviceProcesses1!MovedWhenStopped
  /\ tool = "monitor_shown" => DeviceFleet1!BlacklistWins
  /\ tool = "unlock_one" => DeviceSetup1!TellsTruth
  /\ tool = "ui_wild" => DeviceUi2!HomeInTheEnd]_vars
==============================================================================
