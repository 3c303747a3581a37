# Verification of the service application and of its tools

The repository holds two programs. The Android application
(`app/src/main/java/com/savvy/service`) is where service providers sign up,
describe what they offer and subscribe to a package; it has no tests. Beside it,
in `adb/systrace/catapult`, are the tools it is traced and tested with: `devil`
(devices), `systrace` and `profile_chrome` (traces), `py_utils`,
`dependency_manager`, `py_trace_event`, `py_vulcanize`, `battor`, written in
Python, with unit tests that replace the device by mocks.

This directory holds TLA+ models of both, the TLC runs that check them, and
theorems that TLAPS proves. `PROJECT.json` lists the components, the runs, the
source lines of every definition, a mutant of the code for every property, the
hazards and the theorems.

## Inventory: the application

| component | state it keeps | operations | what it talks to |
|---|---|---|---|
| `Splash` | preferences `version` and `counter`; one timer and one refresh per activity | count launches, ask the version, download, rewrite the tables, open the application | server, tables, preferences |
| `DB/*` (five classes) | one table each in `FeedReader.db` | create, delete, insert, query | `Splash` writes; the forms query |
| `Network/Iokihttp` | `retry` | `post` (ten seconds later), `uploadImage`, connection test | every screen |
| `Profile_information` | flag `main`, fields `before`/`after`, spinner, selections | next, back, sign up, upload a picture | queue of forms, server, tables, `login` |
| `LIFOqueue` | two linked lists | `pop`, `scndpop`, `push`, `peek` | main thread and OkHttp threads, no lock |
| `Signup` | spinner, field `exist` | sign in (`verify_pin` is commented out) | server, `login`, `user_id` |
| `MainActivity` | the fragment shown, `home`, double back | navigate, sign out, change language and restart | fragments, preferences, alarm |
| `Home` | three panels, `packageType`, `retry`, spinner | get the profile, get the packages, subscribe, edit | server, `login`, `username`, `job` |
| `Packages_info` | spinner | get the packages | server |
| `edit_profile` | the fields of the `Provider` | edit, upload, send | server, tables, result to `Home` |
| pickers of both forms | lists of cities, areas, sub-services; ids selected | choose, cascade | tables |
| `Models/Provider`, `Favorite`, `Aboutus` | none of interest | getters, setters, templates | - |

Two kinds of threads run the program. The main thread runs clicks, posted
runnables and animations one at a time. A reply runs on an OkHttp thread beside
it and uses `runOnUiThread()` for (most of) what it does to the screen. What is
hard follows from that and from the platform:

- an activity or fragment may be gone, or a second one there, when a reply comes;
  the ten-second delay in `Iokihttp.post` makes those windows wide;
- spinners are the only thing that keeps a button from being pressed twice, and
  replies take them away before they have done their work;
- the process may die at any moment; tables are durable row by row without a
  transaction, preferences written by `apply()` reach the disk later;
- a failed request is never repeated: `call.clone()` is not enqueued;
- the catches around a reply take `JSONException` only: text where a number is read
  throws `NumberFormatException` past them, and ends the process.

What makes each component correct:

- **Splash and tables**: a screen beyond the splash sees one whole catalogue,
  never an older one than before, and in the end the newest; the version recorded
  does not run ahead of the tables; no more than three launches in a row go
  unchecked.
- **Wizard and queue**: the form on the screen is the one on top of the queue, no
  form is lost, nothing is thrown, nobody is logged in without a sign-up, the
  spinner ends.
- **Home**: the one panel shown is the one of the subscription, the spinner ends,
  a Home that has been left does no harm.
- **Session**: `login`, `user_id`, `username` and the screen are one provider's;
  the language survives the restart; a sign-in ends.
- **Edit profile, pickers** (not modelled): what is sent is what the form shows.

## Inventory: the tools

| part | what it does | state, and who shares it |
|---|---|---|
| `py_utils`/`devil` `timeout_retry`, `reraiser_thread`, `parallelizer` | calls with a time limit and retries; one call on all devices | threads that are abandoned, never stopped; watchdogs |
| `cmd_helper`, `logcat_monitor`, `surface_stats_collector`, `video_recorder` | read what a process prints, while it runs | pipes, reader threads, queues, files |
| `adb_wrapper`, `device_utils` | commands of adb; shell, files, packages, properties, processes, screen, reboot | the device, caches of what it holds, temporary files |
| `battery_utils`, `perf_control`, `flag_changer`, `shared_prefs`, `system_app`, `fastboot_utils`, `forwarder` | change something for the time of a test and put it back | settings, flags, apps, partitions and ports of the device |
| `device_blacklist`, `device_status`, `device_recovery`, `provision_devices`, `device_monitor`, `unlock_bootloader` | keep a fleet of devices going | the blacklist and the monitor's file, read and written by several programs |
| `ports`, `lock`, `cloud_storage`, `dependency_manager` | give out ports; fetch and update files | files on the host under flocks, with processes that die |
| `systrace`, `profile_chrome`, `trace_data`, `py_trace_event` | start agents, synchronise clocks, stop, collect, put together | agents with a thread each, ring buffers, log files, forks |
| `battor`, `find_usb_devices`, `battor_device_mapping` | a power monitor and which phone it is at | a shell with a serial line, a USB bus that changes |
| `py_vulcanize` | loads modules of JavaScript that import one another | a table of modules, half loaded ones among them |

What is hard there: several *processes* share a file or a lock; the *client* of a
command is killed when it is late while the *device* may still obey; a device
goes away in the middle; a step fails after others have been done and have to be
taken back; a thread that hangs is waited for. What makes the tools correct is
the same everywhere, and the properties of the runs are named for it: what they
tell is true, what they were asked is done, what they changed is put back,
nothing else is touched, files and traces are whole, locks are held by one at a
time, and everything comes to an end.

## Modules

| module | stands for |
|---|---|
| `CatalogCache` | abstract: what the copy of the catalogue promises its readers |
| `CatalogSync` | `Splash`, `DB/*`, the requests of `Iokihttp` |
| `LIFOqueue` | the queue of forms as a value, with the halves of its moves |
| `ProfileWizard` | `Profile_information`, on top of `LIFOqueue` |
| `HomePanel` | one instance of the fragment `Home` |
| `Session` | `Signup`, `MainActivity` and the login branches of all screens, over the shared preferences |
| `DevilThreads` | `timeout_retry`, thread groups, parallelizer |
| `OutputReaders`, `Recorders` | readers of processes, the log monitor; frames and videos |
| `AdbCommand`, `DeviceShell` | one adb command with its retries; `RunShellCommand`, the persistent shell |
| `DeviceFiles`, `PushFiles`, `PackageCache`, `SharedPrefs`, `FlagFiles` | what is put on a device: files, packages, preferences, flags |
| `DeviceSettings`, `DeviceProcesses`, `DeviceUi`, `DeviceStart` | properties, CPU modes and heat; processes and system apps; the screen; reboots, root, flashing |
| `BatteryLevel`, `BatteryMeasurement` | charging and power data; measuring on battery |
| `DeviceFleet` | forwarded ports with the host daemon and the device daemons; recovery and blacklist; the monitor |
| `DeviceSetup` | provisioning, unlocking, the date |
| `HostLocks` | ports of test servers; the lock of a path; the clock that does not roll over |
| `FileFetch`, `DependencyConfigs` | fetched files and archives; configs merged and updated |
| `TracingSession`, `ProfileChrome`, `SystraceStart` | the controller and its agents; the agents of a browser; options and choice of agents |
| `TraceData`, `TraceLog` | traces put together; the event log with forks |
| `BattorShell`, `UsbTopology`, `ModuleLoader` | the BattOr, the USB bus, the module loader |
| `MCDeviceTools`, `MCHostTools`, `MCProgress` | suites: the tools in small instances, see below |
| `CatalogSync_proofs`, `ProfileWizard_proofs`, `HomePanel_proofs`, `Session_proofs` | theorems of the application's modules |
| `DevilThreads_proofs` | theorems of `DevilThreads` and `HostLocks` |
| `DeviceFleet_proofs` | theorems of `DeviceFleet` and `FlagFiles` |
| `FileFetch_proofs` | theorems of `FileFetch` and `DependencyConfigs` |
| `Tracing_proofs` | theorems of `TracingSession` and `TraceLog` |

Operators that carry "Mutant" or "Mutated form" in their comment are
plausible bugs: no specification uses them. Each shows, put in place of the
definition that `PROJECT.json` names, that the property beside it can fail.

### CatalogSync

`prefs` and `disk` are the preferences in memory and on disk, `exists` and `rows`
the five tables, `pc[s]` and `job[s]` what splash `s` waits for and has in hand.
One action per step at which another thread, another splash or the end of the
process can come between: the timer (`TimerSkipsCheck`, `TimerChecks`), the reply
with the version (`ServerTellsVersion`, then `VersionIsCurrent` or
`VersionIsNewer`), the reply with the data (`ServerSendsData`), and the refresh
row by row (`DeleteRows`, `CreateTable`, `InsertRow`, `TableIsFilled`), followed by
the two `apply()` (`PutVersion`, `PutCounter`) and `openApp`.

The constant `Faults` says what the environment may do: `crash`, `offline`,
`badReply`, `overlap` (rotation, or back and a relaunch), `lostInsert`
(`insert()` swallows an SQL exception), `lateFlush` (the process dies before
`apply()` is on disk; the disk lags arbitrarily, a superset of what Android does).

Abstractions: a row is its catalogue's version and its number; the read and the
write of the counter are one step of the main thread; where `openApp` goes
(`MainActivity` or `Signup`) is in `Session`. `onUpgrade` and `onDowngrade`
never run: the database version is 1 in every build.

### LIFOqueue and ProfileWizard

`LIFOqueue` gives `pop()` and `scndpop()` as two halves each - copy to the other
list, remove from this one - because `Profile_information` calls them from two
threads. A single operation on one `LinkedList` is a step; what a race inside one
does to its links is not modelled (it needs overlapping sign-ups, see below).

The main thread's part are `NextSignsUp`, `NextIsOffline`, `NextEntersApp`,
`BackLeaves`, `BackCopies`/`BackRemoves`/`BackThrows`, `ChoosePicture`, `HideRuns`
and `AnimationEnds`; a sign-up's callback goes through `SignupAccepted`,
`PeekForm`, `PopCopies`, `PopRemoves` and `Animate`, or `SignupFails` or
`ReplyThrows`. `before` and `after` are the fields of the activity that all
callbacks share. A view has one animator with one listener, so a second
animation of the same form replaces the first.

Two facts about the code that the model makes plain. The branch
`lifo.size() == 2` of `openNextForm()` is dead: two forms are put in the queue
and `init()` takes one out. And `hideLoading()` runs before the reply has moved
the queue, and also when an upload is answered, so Next can be pressed again on a
form that is being, or has been, accepted: the second reply then pops an empty
queue on an OkHttp thread, and the process dies. A reply whose `error` is not a
number ends it too (`SignupGarbled`, `UploadGarbled`; the history `garbled`).
`CrashOnlyOnOverlap` says that there is no third way.

Abstractions: the contents of the form (`verify()` accepts or nothing happens),
the pickers, the race on `retry` (whether an upload's failure hides the spinner
is a free choice). An activity that is recreated starts again from `Init`.

### HomePanel

`handler` is the main thread's queue of runnables, in order. A reply is one step:
whatever it posts, it posts in one go, and all it reads that the main thread can
change is whether the fragment is attached. `editing` is `edit_profile` in front.
`status` is the server's; `Drifts` lets it change by hand or by a subscription
whose answer is lost, and `drifted` remembers that.

What the code does, seen here: no panel is ever hidden when another is shown, so
the panel follows the status only as long as the status changes through the
application. A failed `getProfile` leaves the spinner for good - `retry` counts a
call that is cloned and not enqueued, and the branch that would hide the spinner
after the fifth failure needs failures that the spinner prevents. A reply to a
fragment that has gone ends the process in most of its branches.

Replies come apart in three ways: what throws `JSONException` is caught
(`Unreadable`); an `error` that is not a number throws on the thread of the reply
(`ErrorIsNoNumber`); a `status_id` or a rating that is not is kept as text and throws
in the posted runnable (`ProfileIsGarbled`, `RunnableThrows`). The last two end the
process with the fragment in front, which the history `garbled` notes.

Abstractions: what `setData()` writes into the panel; which package is picked.

### Session

`prefs` are `login`, `user_id`, `username` (with `job`) and `defaultLang`; `disk`
is the same without the last write, which a kill may lose. `stack` holds the
activities of the task and `act[i]` what each has: the spinner and `exist` of
`Signup`, whether the wizard's provider has signed up, whether `Home` has been
asked and told. `call[c]` is an outstanding request with the activity it is for.
A reply to a sign-in is four steps (`SignInAccepted`, `PutExist`, `PutUser`,
`OpenProfileInfo`), because the main thread may run between the statements of
the callback; all that
the main thread does is one step each. The process may be killed at any step
(`alive`), the user may open the application again, and `changeLang()` sets an
alarm and calls `System.exit(0)`.

The properties hold under `Regular`, which says what the code has no defence
against: two sign-ins that overlap (`hideLoading()` comes first, so the button
can be pressed again: `exist` of one is then read by the other), and replies to
screens that have gone, which still write preferences or open activities (a Home
that was left and whose provider turns out to have no name takes `login` back
from whoever is in by then). The histories `overlapped` and `strayed` become true at
exactly these events. Under `Regular` no kill, no lost write and no order of
leaving, coming back and signing out mixes two providers. `LanguageKept` has no
such condition: the intent of the alarm carries the language, and the restarted
splash writes it again, so it does not matter whether `apply()` was in time.

Left out: the header of the drawer (read once in `onCreate`, hence stale until the
next one), which fragment but Home is shown, the clock between two presses of
back, and `verify_pin`, which is commented out.

### The modules of the tools

A module has several *machines* when several parts of one subject share little
state: each machine then has variables, `Init`, `Next` and `TypeOK` of its own
(`PerfNext`, `PerfTypeOK`, ...), under a heading that says what it stands for.
The conventions are the same throughout:

- A function of the code is a chain of actions, cut wherever another party can
  come between: another thread or process, the device, a timeout, a death. What
  runs under a lock is cut as well; the lock is a variable.
- A command to the device may fail, and where the code has a time limit it may be
  late: the client is given up and the device does it later, or never (`Late`,
  `MaxFails`, `Slow`, ... in the constants). Retries of `timeout_retry` start
  the next attempt while the effect of the last one is still to come.
- A raised error is an outcome (`"raised"`, `"threw"`, ...), carried through the
  `finally` blocks and context managers of the code.
- Deaths of processes (`Dies`, `Dying`, `Crash`) give up their flocks and keep
  their files, as the kernel does.
- Time is counted only where the code counts it (`OutputReaders`, `DevilThreads`,
  `BattorShell`, the clock of `HostLocks`); everywhere else a timeout is a choice.
- Texts are sequences over two or three characters, or names of what they say;
  recursion over them is written with folds and recursive functions.
- Caps are constants (`MaxCalls`, `MaxFaults`, `MaxTime`, ...) and the guards that
  use them are the guards of the environment or of a caller, not of the code.

What each module keeps and leaves out is in its header and in the notes of
`PROJECT.json`'s components; in a word:

| module | machines | what makes it hard |
|---|---|---|
| `DevilThreads` | `Run` with retries; thread group; parallelizers | an attempt is abandoned, not stopped; a timeout within a timeout |
| `OutputReaders` | reader with fcntl; log monitor; reader with a queue | two clocks, a child that closes its pipe and runs on |
| `Recorders` | frames; videos | a queue that is read without a time limit; a thread that ends early |
| `AdbCommand` | push, install and the like | late effects of a killed client |
| `DeviceShell` | `RunShellCommand`; persistent shell | output that adb cuts; output of one command read by the next |
| `DeviceFiles` | files of a device | repeated attempts, temporary files deleted by threads |
| `PushFiles`, `PackageCache` | checksums and caches | a cache that another script makes stale |
| `SharedPrefs`, `FlagFiles` | files an app writes too; nested changers | read, change, write; quoting; errors half-way |
| `DeviceSettings` | properties; CPU modes; heat | three copies of one value; `mpdecision` |
| `DeviceProcesses` | killing; system apps | pids that are used again; ways back that fail |
| `DeviceUi` | screen, home, dialogs | a device that obeys late |
| `DeviceStart` | reboots and root; flashing | attempts that restart a device which boots already |
| `DeviceSetup` | provisioning; both unlockings; the date | a blacklist shared with others; devices that vanish |
| `DeviceFleet` | ports, daemons, a group of processes; recovery; polling | entries deleted before the daemon is told; a list erased first, read again last; devices that come, go or are late while they are polled |
| `BatteryLevel`, `BatteryMeasurement` | charging; power data; measuring | what is stopped must be resumed on every way out |
| `HostLocks` | a counter in a file; a lock file that is removed; the clock | flocks on names that change; one wraparound too many |
| `FileFetch`, `DependencyConfigs` | download; unzip; merge; update | moves that are not atomic together; programs that die, a full disk |
| `TracingSession` | controller; dumps; ftrace | agents that hang, one after the other; a marker without a time limit |
| `ProfileChrome`, `SystraceStart` | agents of a browser; options | leftovers of a run that failed; two parsers of one line |
| `TraceData`, `TraceLog` | results; log with forks | forks that inherit a buffer |
| `BattorShell`, `UsbTopology` | shell; bus, pairing, listing, lookup | four looks at a bus that changes |
| `ModuleLoader` | imports | loops, modules registered before they are loaded |

### What the tools leave undone

Some claims are limited by the code, and the limit stands in the property, as a
condition or as a history variable that says when it was crossed:

- **Monitor** (`DeviceFleet`). `HealthyDevices()` takes the devices that adb shows
  when the round begins (`shown`) and that are not blacklisted: `EveryDeviceShown`
  is about these (`seen`). A command that fails is taken by its `try`; one that times
  out is not (`QueryTimesOut`): the device's thread raises, `pGet()` raises, and the
  monitor ends without a file. A device that adb shows as offline is in no list.
- **Clock sync marker** (`TracingSession`). It goes through a persistent shell without a
  time limit. The command in it may fail unseen (`Write` puts the agent in `unwritten`
  and the controller records the marker all the same), raise (`SyncRaises`) or never end
  (`SyncHangs`). `Synchronised` says that nothing is collected before every marker was
  recorded, and that a trace lacks it only if it is in `unwritten`. `RecordingsEnd`
  excludes the hang. The controller's own agent gives its log last (`CollectOwn`), and
  a `GetResults()` that raises ends the call (`CollectRaises`).
- **Persistent shell** (`DeviceShell`). A shell that has died gives empty lines for
  ever, and `RunCommand()` loops on them. `CallsEnd` is for a command whose shell lives,
  has printed the answer, or was told to end (`Unanswered`).
- **Unzipping** (`FileFetch`). A path that exists is taken for extracted. A program that dies
  in the middle leaves half of a directory: `halted` has the hashes of these until
  the next removal of stale ones, and `Whole` and `NothingHalf` exclude them. Two programs at
  once are left out altogether (`Alone`).
- **Update jobs** (`DependencyConfigs`). `AllOrNothing` is for uploads that fail. When
  the disk is full the config stays half written, and only the uploads are taken back
  (`RemotesBack`, instance `jobs_full`); a Ctrl+C between an upload and its being
  noted leaves that upload as well (`OneLeft`, `jobs_stopped`).
- **Preferences** (`SharedPrefs`). `Remove()` does not set `_changed`: a `Commit()` after removals
  only writes nothing. `Committed` excepts the keys that were `removed` by a call
  since `Load()` when the commit was skipped.
- **Charging** (`BatteryMeasurement`, `BatteryLevel`). `Resumed` is for devices that have
  shown no wireless source without updates (`wireless`): the commands clear AC and USB only, so
  the disabling is tried again, and `SetCharging(True)` returns at once while any source
  is connected, with the charger still off. An unknown level ends `_DischargeDevice()`
  with a `TypeError` (`"type error"`), since `int()` comes before the test for `None`.
  The cached uid of a package that was uninstalled (`left`) is told, or raises, ever after.
- **System apps** (`DeviceProcesses`). `NothingLost` is for steps that do not fail: the way
  back is one that may, and the temporary directory is removed with what is in it.

### The suites

The tools do not talk to each other in the runs; each is checked by itself, in one
to four instances with different constants. They are put next to each other so
that a question is asked of all of them at once. In `MCDeviceTools`,
`MCHostTools` and `MCProgress` the variable `tool` names the instance a behaviour
is of; `x1`, `x2`, ... are handed to the modules for their variables (`INSTANCE ...
WITH`); `OffN` and `SameN` set and keep those that an instance has no use for. `Init` picks a tool, a step is
a step of that tool, and `tool` never changes. The state space is therefore the
disjoint sum of those of the instances, and a property of the suite is the
conjunction of properties of the modules, each under the name of its instance.
Which instance has which constants stands at its `INSTANCE`.

`MCProgress` states fairness once for all: since `tool` never changes, an action of
one tool that stays enabled makes the disjunction stay enabled, and a step of the
disjunction is a step of that tool; so `WF_vars` of a disjunction over the tools
is weak fairness of each tool's own action, and likewise `SF_vars`. A tool that
has several fair actions has them in different disjunctions.

## Runs

| run | question | result |
|---|---|---|
| `sync_faults` | one splash, crashes, failed requests, bad rows at any step | tables whole when open, version backed, at most three launches unchecked, implements `CatalogCache` |
| `sync_hostile` | everything at once | no screen queries a missing table |
| `sync_live` | a server that answers, a user who keeps launching | every launch opens; every catalogue is shown in the end |
| `sync_torn` | two splashes, nothing else wrong | **violated**: the application opens on tables that are no catalogue |
| `wizard_safe` | two sign-ups, two uploads, back, with and without a connection | the queue, the screen and `login` agree; only overlap and garbled replies can crash |
| `wizard_live` | replies that come | the spinner ends, an accepted sign-up goes on |
| `home` | every kind of answer, navigation, the editor, a drifting status | the panel follows the status; only a fragment left behind or a garbled reply crashes; the spinner ends unless a `getProfile` failed; a panel comes |
| `session_safe` | two providers, two requests, kills, lost writes, late replies | preferences and screen are one provider's, unless sign-ins overlap or a screen has gone |
| `session_live` | two languages, restarts, no connection; replies that come | the language chosen is spoken after the restart; a sign-in ends |
| `device_tools` | 51 instances of the tools on a device | answers are true, what was asked is done and taken back, others are spared, no device is lost |
| `host_tools` | 56 instances of the tools on the host | one at a time, files, traces and outputs are whole, the right thing is picked; a dead program, a full disk and Ctrl+C leave no more than is said above |
| `progress` | 31 instances of the tools under fairness | calls, recordings, threads and waits end, but for a marker that hangs and a dead persistent shell; what is held is given back |

Bounds of the application. `NTables = 5` is the code's number where one splash runs;
with two splashes two tables show every interleaving of a delete, a create and an
insert across a table and its successor. Two rows tell a half-filled table from an
empty and a full one. `MaxVersion = 3` lets the server publish between any two
requests of a refresh and once more. `Untold = 4` is one more than the property
allows. Two splashes, two calls: every race here is between two parties.
`MaxHides` counts posted `hideLoading()` up to a point where one more makes no
difference, all of them doing the same. `MaxPosted = 1` says how many runnables may
wait when the user clicks: the one that follows a `hide`. In `Session`, two
activities are enough for one that is there and one that has gone with a reply
still to come; a third request would only stack another screen, each reply
touching its own. `CHECK_DEADLOCK FALSE` stands where the system may stop: the
activity is finished, the process dead, or a tool done.

Bounds of the tools. Two processes, threads or devices wherever a race is between
two; with other programs beside them where the code reckons with those. One retry shows an attempt beside an
abandoned one, and the last one. Numbers whose size does not matter are scaled
with what they are compared with: ports 1..3 for the range of test server ports,
with one port beyond them for the probing to run into; a battery of `Top` levels
with `Reserve` and `MaxChargeError` in proportion; a `Day` of six units; a clock
modulo 3 or 4, sampled both more and less often than it wraps; `MaxQueue` messages
for a pipe. `MaxDepth` is the code's 32 where imports have no loop and 4 in the
instance with loops. Faults are counted (one or two per behaviour): each way out
is reached with one fault, and the second one hits the way back of the first.
The instances of `SystraceStart` have the option of the serial number first on the
command line (`SerialFirst = TRUE`); what the second parser makes of an
option that follows other words is left out. A program that is killed (not
interrupted) in the middle of an update of a config is not modelled.

Fairness. `FairSpec` of each application module is weak fairness of what the
platform does by itself: timers fire, OkHttp reports each call as a response or a
failure, its threads and the main thread run. Nothing is assumed of the user,
except in `UserSpec` (`sync_live`), whose user closes the application and launches
it again and again: "shown in the end" is a statement about such a user. In
`ProfileWizard` fairness finishes a press of back that has begun and never presses
it; in `Session` the alarm rings.

`MCProgress` assumes, weakly: that the threads and processes of the program run
(`Works`, `AnswersToo`, `JoinsAll`), that time passes and deadlines with it
(`Elapses`, `TimesOut`, `TimesOutAlone`), and that a device or a browser that has
begun to boot, answer or write goes on (`Answers`) - not that it ever does what
it was asked, and where a module lets a command hang or be lost it may. `TurnsUp`
is strong fairness, for what is disabled again and again by others: the turn at a
flock that others take too, the end of the ten seconds of `WaitFor()`, the look
of the watchdog between the steps of the thread it watches, and the battery, which
cools and drains when it is left alone.

## Proofs

All theorems hold for every value of the constants allowed by the assumptions of
the modules. `CatalogSync`, `ProfileWizard` and `Session` state them as `ASSUME`;
the modules of the tools, which the suites instantiate several times, have them
as definitions (`PortAssumption`, ...), which a theorem assumes and the `ASSUME`
of the suite evaluates for each instance.

- `CatalogSync_proofs`: `TypeCorrect`; `TablesExist`, by the invariant `TablesInv`
  (how far a refresh is tells which tables exist; an application that is open, and
  preferences, in memory or on disk, that would let a launch in, mean all five);
  `UncheckedIsBounded`, by `UncheckedInv`, which ties `unchecked` to the counter,
  for preferences that are not lost and any number of splashes at once.
  Under `Calm` (none of `overlap`, `lostInsert`, `lateFlush`): `WholeWhenOpen`,
  `VersionBacked`, and `Implements`, the refinement of `CatalogCache`.
  `OpensOnlyWhole` is not inductive: whether the copy may be torn is hidden in the
  counter. `CopyInv` says that the counter is 0 as long as the tables are being
  rewritten, that the version on record is below the target of a refresh, and what
  each table holds at each stage of it; `Calm` is needed in each part (`sync_torn`
  shows what overlap does).
- `ProfileWizard_proofs`: `TypeCorrect` and `LoginEarned`, with any number of
  overlapping sign-ups. `WizardInv` adds to the types that a queue that has run
  out, and any reply past its first check, stand behind an accepted sign-up.
  `NoCrashAlone`, `FormsKept`, `TopShown`: `InOrder` is the inductive
  strengthening; while sign-ups have not overlapped, the queue, the flag `main`,
  the animation, the screen and the stage of the one sign-up are in one of six
  phases. In particular back finds the queue half-moved by nobody.
- `HomePanel_proofs`, with any number of requests and runnables: `TypeCorrect`,
  `CrashesOnlyWhenLeft` (with `GarbledKnown`: a runnable that cannot parse waits only
  where a garbled reply came), `PanelIsOfStatus` and `PanelsOnlyAdvance`. Neither of the
  last two is inductive: which panel comes next is hidden in what is in flight and
  in what waits in `handler`. `PanelInv` (`PanelsFollowPhases`) says that, unless
  the status has changed unseen, the fragment is in one of five phases: asking, one
  request or runnable at a time; offering packages; granted; pending before it
  was opened; active. Each says which runnables may wait and which requests may be
  in flight; the note that replaces the packages is still to be run in `granted`.
- `Session_proofs`, for any providers and any number of screens and requests:
  `TypeCorrect`, where `KindInv` says that a reply still to come finds a screen of
  its kind, in the task or not. `LanguageIsKept`, by `LangInv`: the language last
  chosen is in the alarm's intent or, when none is set, in the preferences and the
  resources. `SessionIsKept`: none of the three parts of `SessionKept` is inductive.
  `OwnInv`, which holds while `Regular` does, has the task show one screen at
  most; while a sign-in is under way nobody is signed in, and only `Splash` or
  `Signup` is open (`AskingInv`), so that nothing reads `user_id` when `PutUser`
  writes it; and what the screen that is open was told, or still waits for, is of
  the provider in `user_id` (`ScreensInv`, `RepliesInv`). Without `Regular`
  the reply of a screen that has gone takes `login` from under the open one, or
  opens a second.
- `DevilThreads_proofs`, ports: `PortTypeCorrect`, `LimitsKept`, `PortsDistinct`. `LockInv` ties the
  flock to who is at work on the file, `LimitsInv` says where a port that is probed
  or given can be, and `BelowInv`, the heart of it, that ports are given below
  what the file says and probed from there on - as long as the file was neither
  reset nor left unwritten, which is when the code can give one port twice.
- `DevilThreads_proofs`, the lock of a path: `SameLockHolds`, for any number of processes that die at any step.
  `GlobalInv` says who has the global flock; `FdInv`, that whoever is past opening
  has the file open that has the name; `FlockInv`, that a flock is its holder's;
  `RemoveInv`, that whoever removes the file is alone. Without the global flock
  `FdInv` fails at once.
- `DevilThreads_proofs`, the clock: `ClockSafe` and `ClockNeverBack`, for every width of the word, by
  `Ahead` (nobody was told more than the clock says now) and mutual exclusion.
- `DeviceFleet_proofs`, the monitor: `EveryDeviceIsShown` and `BlacklistIsShown`, for any fleet,
  whatever comes, goes, fails or is late, by `BlacklistedInv` (of the devices that adb showed
  when the round began, who is not polled is blacklisted until the file is written). The
  first needs that nobody takes devices off the blacklist meanwhile: the device
  would be neither polled nor listed.
- `DeviceFleet_proofs`, the forwarder: `ForwarderTypeCorrect`, `UnmapsWhatItMapped`,
  `SiblingsAreSpared` and `NothingIsForgotten`, for any processes, devices and ports,
  by `ForwardInv`: only a process whose step needs it has the singleton, whoever has
  it has seen a group of these processes in the lock file, and a call that has
  unmapped a device has emptied the tables of it. `UnmapsWhatItMapped` needs that
  the tables are one process's (`~Shared`): two of them unmap each other's ports.
- `DeviceFleet_proofs`, the recovery: `OnlyBadRebooted`, for any fleet, even with other
  programs at work. `AddedAreListed` and `RecoveredOrInList` need that there is no other
  program (`~AlienRuns`), which may rewrite the file from a copy of its own.
  `BlacklistInv` ties the lock to who is between reading and writing, and says
  that such a thread has put its device into its copy; `Listed` is what the file will hold
  when the one at work has written it. `PhaseInv` says who may extend in which phase, and
  `KnownInv`, the heart, that from its own step on a device is sound,
  listed or about to be.
- `DeviceFleet_proofs`, flags: `FlagFilesReverted`, for any changers with a file each, any sets of flags
  and any nesting of their calls, also when `ReplaceFlags()` fails at any command, by `StackInv`: a stack
  has what the file held at first, and a set more for each call still open, less one while
  `Restore()` is under way. `SelinuxReverted` is for calls that do not fail: SELinux belongs
  to all changers, and `SelinuxInv` says that one at most is to set it back, that this
  is the first of those open, and that it does so in its last `Restore()`, when no other is
  open. When `setenforce` fails after it has been obeyed, nobody knows that it is to be set back. A failed `Restore()` is the caller's.
- `DevilThreads_proofs`, retries: `OverlapsAreLate`, `AbandonedAsksNoMore`,
  `LastWordIsHad`, for any number of retries and questions. `PastInv` says that an
  attempt is left behind only when it has thrown or is overdue, `AskedInv` what it
  has asked by then.
- `DevilThreads_proofs`, groups: `GroupCompletes` and `NeverNested`, for any number of
  threads, by `OwnerInv` (which of the two callers the group is of, and which threads it
  has joined). The first that failed is a least number, which `AllCompleteFirst` has
  only once all have ended.
- `DevilThreads_proofs`, the parallelizer: `ErrorsAreTold`, `EnteredIsLeft`,
  `DevicesInStep`, for any devices and calls, by `HeldInv` (what is held and what was
  called), `AliveInv` (threads run in the group that is held only), `ToldInv` and
  `LeftInv`. Without `Sync` errors of a group that is dropped are lost, and
  calls that are not chained overtake one another: the hypotheses are the code's two classes.
- `FileFetch_proofs`, binaries: `BinaryIsWhole` and `TemporaryIsRemoved`, for any
  processes, whatever fails or dies, by `CallInv`. `AnswersAreFresh` adds `StampInv`: a
  stamp newer than the hash file (`FreshStamp`) is of the binary of its hash or of a
  call that is about to fetch it. It needs that downloads do not fail and nobody
  dies (the stamp is written first, see below), and that the hash file does not
  change between two comparisons of one call.
- `FileFetch_proofs`, archives: `LocalPathHasPrecedence`, for any processes and lists
  of paths: which local path is the first is a least index. `NoHalfArchive` and
  `ReturnedIsWhole` are proved for one program at a time, by `AloneInv`,
  which follows the directory from `make` to `check`; a program may die at any step,
  and the directory it was extracting then is in `halted`. A second program that unzips
  beside the first finds a directory that exists and is half full, and takes it for whole.
- `FileFetch_proofs`, merging of configs: `ManagerHasOneSource`, for any number of configs
  and any order of the pairs of a config, by `MergeInv`: as long as nothing was raised, a pair is refused by
  none of the configs merged so far, and the one among them that has a place in
  cloud storage is the one that `lookup` names; that two had one would have been
  noticed by the second. `PrefetchTellsAll` is by `ListsInv`, with the dependencies
  still to be fetched on no list.
- `FileFetch_proofs`, update jobs: `UpdateIsAtomic` and `ConfigNamesWhatIsThere`, for any
  dependencies, hashes and number of jobs, through the first call of
  `ExecuteUpdateJobs()` (`runs <= 1`). `JobsInv` follows the call: which uploaders are ahead, are past
  (`AheadInv`, `PastInv`), what the one at hand has done (`HereInv`), and, as
  the heart, that an object which is not as before the call belongs to an
  uploader that says so itself and has what was there under its backup path (`SparedInv`, `BackedInv`), so
  that going back over them (`UndoneInv`) restores all of it. The hypotheses are
  where the code has no defence. A second call finds the uploaders of the first
  in `pending`; Ctrl+C may come between an upload and its being noted; a
  file that is added twice (`~Once`) is backed up over its own backup; a
  dependency without a bucket has its hash in the data and no upload. A full
  disk only spoils `UpdateIsAtomic`: the config is half written then, and
  names nothing.
- `Tracing_proofs`, the controller: `TracesOnOneClock` for any agents, whatever times out,
  fails or hangs, by `MarkedInv` (the loop of the markers has recorded those of the agents
  behind it, written or not, and only its end lets the controller go on to `stop`). `AgentsAreStopped` adds `StoppingInv`:
  an agent still recording is ahead of the loop, or collects in its
  own thread, or has failed to. It needs `~Slow`: a call that has timed out goes on in
  its thread and may start an agent when all have been stopped.
- `Tracing_proofs`, the process dumps: `DumpIsWhole`, by `DumpInv`, which has for each stage of the helper
  who has written to the file of the session at hand. It needs
  `Patient`: the helper of an earlier session that still runs removes
  or fills the file of the next one, which has the same name.
- `Tracing_proofs`, ftrace: `KernelIsLeftAsItWas`, for any categories and events, by `FtraceInv`: what
  is enabled is among what the categories stored at the start ask for, and
  while they are disabled among those still to do.
- `Tracing_proofs`, the trace log, for any processes, threads and numbers of events.
  `LogIsLocked`, with forks of both kinds and kills, by `LockInv`. `FileIsAList` adds
  `FlockInv` (whoever appends has the flock of the file), `TurnsInv` (events and commas take turns) and
  `OnceInv` (an event has a number of its own and is either in one buffer or in the
  file). It needs that nobody forks: a child by `os.fork` has its parent's buffer and writes it
  again. `EndsHaveBegun`, by `SpanInv`, needs one thread besides, because another
  can switch tracing off and on between the look of `traced_function()` and the
  end of the span, and no `trace()` as a context manager: its span can begin
  before tracing is enabled and end after.

Only model-checked: liveness and everything else about fairness, which are out of
the prover's reach; the tools that no theorem above is about; a second
call of the update jobs; that a manager keeps the order of its configs, which the code
has from filtering a list (the library's facts about `SelectSeq` take
an operator for a parameter); and
what the recursive functions and folds over texts and lists compute,
which would need induction with an operator for a parameter.

## Where the code and its words part

`sync_torn` is the one that a run shows: `DB/Areas.java` calls the tables a cache
for online data, and two splashes make them something else. Reading the code for
the models turned up more, which the models follow and no run is spent on:

- The spinner of the wizard and of `Signup`: without a connection nothing hides it.
- `Home` counts retries of calls that are cloned and never enqueued.
- `fastboot_utils.WaitForFastbootMode` looks for the serial among `Fastboot`
  objects, not among serials.
- `trace_data.ALL_TRACE_PARTS` does not have the part of the WALT agent.
- `lsusb.py` says "Skip any lines that aren't indented", but its pattern matches
  every line: a line without indentation is taken as a field of the first level.
- `battor_wrapper`: on Linux two BattOrs are enough for `IsBattOrConnected()`, but
  `_GetBattOrPath()` then raises: it cannot tell which one is meant.
- `cloud_storage.GetIfChanged` says "any time we fetch a new binary, we save ... the time
  of the fetch", but writes the stamp before it downloads. When the download then
  fails the stamp stays, and the next call takes the old binary for a fetched one.
- The reader with a queue waits beyond its timeout when it has no `iter_timeout`.
- `battery_utils.py:475` warns "Unable to find current battery level. Cannot discharge.", but
  `int()` of the unknown level has raised before (470).
- `shared_prefs.py:188` has `prefs.Remove('featureEnabled')` in its example, and 267 "Only actually
  saves if some preferences have been modified": a removal does not count as one.
- `battery_utils.py:624` says "Once the with block is exited, charging is resumed"; see above for when not.
- `adb_wrapper.py:198` says that `RunCommand()` returns the output and the exit code; when the
  shell has died in the command it does not return.
- `base_config.py:283` says "Attempt to rollback the update in any instance of failure, even
  user interrupt via Ctrl+C": a config that is half written is not rolled back.
- `device_monitor.py` catches failing commands of each query, but no query that times out.

## Not modelled

- **Edit profile and pickers.** What they send is a matter of values: a country
  that is not picked again is sent as the id of a `Provider` that never had one.
  They keep no state beyond their screen; `HomePanel` has the editor in front
  and its result.
- **`Packages_info`** repeats one request of `Home`. `Provider`, `Favorite` and
  `Aboutus` have no behaviour.
- **Layouts, texts, images**, the hashing of the password, the header of the
  drawer; the server, which is modelled by the answers it gives.
- **Of the tools**: build, lint and presubmit scripts, source processing and
  generation of HTML and JavaScript, single commands that only read, the text
  formats of `usb-devices`, `udevadm` and of traces, and the prebuilt binaries of
  the platform tools. The notes of the components say what is left out of each
  part that is modelled.

## What would come next

1. `Pickers` and `EditProfile` over the catalogue: the ids sent belong to the names
   shown.
2. The tools over one another: `DeviceStart` and `DeviceFiles` on `AdbCommand` in
   place of commands of their own, and a refinement of each call to "done or not".
