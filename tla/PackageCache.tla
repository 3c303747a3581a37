---------------------------- MODULE PackageCache -----------------------------
(***************************************************************************)
(* devil.android.device_utils: what DeviceUtils remembers of the package   *)
(* that it installs.  The paths and the checksums of its APKs are cached,  *)
(* so that an installation may be left out, and the cache is dumped to a   *)
(* file for the next script.  A token on the device, written anew by each  *)
(* cache that is initialized, tells whether the file is still true.        *)
(*                                                                         *)
(* One package is modelled.  An APK is its checksum, and NameOf says which *)
(* of the package's splits it is.  A path list stands for the APKs that    *)
(* were there when it was read.                                            *)
(***************************************************************************)
EXTENDS Naturals, FiniteSets

CONSTANTS
  Scripts,      \* programs that use the device, each with a file of its own
  Apks,         \* checksums
  NameOf,       \* the split that each of them is
  Wanted,       \* the sets of APKs that are asked for
  MaxTokens,    \* bound on the caches that are initialized
  Shared,       \* TRUE when scripts may use the device at the same time
  Reloads,      \* TRUE when LoadCacheData() may come after other calls
  GoesOn,       \* TRUE when a script may go on after DumpCacheData()
  Manual,       \* TRUE when the package may be uninstalled by hand
  Late          \* TRUE when an adb install that failed may come to pass later

PackageCacheAssumption ==
  /\ NameOf \in [Apks -> {"base", "split"}]
  /\ Wanted \subseteq SUBSET Apks \ {{}}
  /\ \A w \in Wanted : \A a, b \in w : NameOf[a] = NameOf[b] => a = b
  /\ MaxTokens \in Nat
  /\ {Shared, Reloads, GoesOn, Manual, Late} \subseteq BOOLEAN

VARIABLES
  installed,    \* the APKs of the package on the device
  late,         \* APKs whose installation may still come to pass
  token,        \* /data/local/tmp/cache_token
  tokens,       \* the tokens made so far
  cache,        \* cache[s]: the _cache of the script's DeviceUtils
  saved,        \* saved[s]: what DumpCacheData() has returned last
  pc,           \* pc[s]: where the script is
  asked,        \* asked[s]: the APKs it installs, and whether with reinstall
  todo,         \* todo[s]: apks_to_install
  host          \* host[s]: host_checksums

vars == <<installed, late, token, tokens, cache, saved, pc, asked, todo, host>>
device == <<installed, late>>
call == <<asked, todo, host>>

(* A value that is not in the cache.                                       *)
Unknown == {"unknown"}

Cleared == [token |-> 0, prev |-> 0, paths |-> Unknown, verify |-> FALSE, sums |-> Unknown]

Init ==
  /\ installed = {} /\ late = {}
  /\ token = 0 /\ tokens = 0
  /\ cache = [s \in Scripts |-> Cleared]
  /\ saved = [s \in Scripts |-> Cleared]
  /\ pc = [s \in Scripts |-> "off"]
  /\ asked = [s \in Scripts |-> [apks |-> {}, reinstall |-> FALSE]]
  /\ todo = [s \in Scripts |-> {}]
  /\ host = [s \in Scripts |-> Unknown]

Idle(s) == pc[s] \in {"new", "idle", "loaded", "done", "removed", "dumped"}
Ready(s) == Idle(s) /\ (pc[s] = "dumped" => GoesOn)
At(s, p) == pc' = [pc EXCEPT ![s] = p]

----------------------------------------------------------------------------

(* _EnsureCacheInitialized(): what the cache becomes, and the device.      *)
EnsureCacheInitialized(c) ==
  IF c.token # 0 THEN c ELSE [c EXCEPT !.token = tokens + 1, !.prev = token]

(* The token of a cache that was initialized just now is written.          *)
WriteToken(s, c) ==
  IF c.token # cache[s].token /\ c.token # token
  THEN tokens < MaxTokens /\ token' = c.token /\ tokens' = tokens + 1
  ELSE UNCHANGED <<token, tokens>>

(* _GetApplicationPathsInternal(): the cache after it, whose paths are the *)
(* ones it returns.                                                        *)
ApplicationPaths(c) ==
  LET gone == c.verify /\ c.paths # {} /\ installed = {}
  IN  IF c.paths # Unknown /\ ~gone THEN [c EXCEPT !.verify = FALSE]
      ELSE [EnsureCacheInitialized(c) EXCEPT
              !.verify = FALSE, !.paths = installed, !.sums = IF gone THEN Unknown ELSE @]

(* _ComputeDeviceChecksumsForApks()                                        *)
WithChecksums(c) == IF c.sums = Unknown THEN [c EXCEPT !.sums = installed] ELSE c

----------------------------------------------------------------------------

Start(s) ==
  /\ pc[s] = "off"
  /\ Shared \/ \A t \in Scripts : pc[t] = "off"
  /\ At(s, "new")
  /\ cache' = [cache EXCEPT ![s] = Cleared]
  /\ asked' = [asked EXCEPT ![s] = [apks |-> {}, reinstall |-> FALSE]]
  /\ todo' = [todo EXCEPT ![s] = {}]
  /\ host' = [host EXCEPT ![s] = Unknown]
  /\ UNCHANGED <<device, token, tokens, saved>>

(* A script ends, or is killed, wherever it is.                            *)
End(s) ==
  /\ pc[s] # "off"
  /\ At(s, "off")
  /\ UNCHANGED <<device, token, tokens, cache, saved, call>>

LoadCacheData(s) ==
  /\ pc[s] = "new" \/ (Reloads /\ Ready(s))
  /\ saved[s].token # 0
  /\ LET c == EnsureCacheInitialized(cache[s])
         ok == saved[s].token = c.prev
     IN  /\ WriteToken(s, c)
         /\ cache' = [cache EXCEPT ![s] =
              IF ok THEN [saved[s] EXCEPT !.token = c.token, !.prev = c.prev,
                                          !.verify = saved[s].paths # Unknown]
              ELSE c]
         /\ At(s, IF ok THEN "loaded" ELSE "idle")
  /\ UNCHANGED <<device, saved, call>>

DumpCacheData(s) ==
  /\ Ready(s)
  /\ LET c == EnsureCacheInitialized(cache[s])
     IN  /\ WriteToken(s, c)
         /\ cache' = [cache EXCEPT ![s] = c]
         /\ saved' = [saved EXCEPT ![s] = c]
  /\ At(s, "dumped")
  /\ UNCHANGED <<device, call>>

(* Reboot(): the caches are cleared, the token stays on the device.        *)
Reboot(s) ==
  /\ Ready(s)
  /\ cache' = [cache EXCEPT ![s] = Cleared]
  /\ At(s, "idle")
  /\ UNCHANGED <<device, token, tokens, saved, call>>

----------------------------------------------------------------------------

(* _InstallInternal() until the device is changed: the paths, then the     *)
(* APKs that differ.  md5sum may fail, and then all are installed.         *)
Install(s, apks, reinstall) ==
  /\ Ready(s)
  /\ LET c == ApplicationPaths(cache[s])
         known == WithChecksums(c)
         other == c.paths = {} \/ (Cardinality(c.paths) > 1) # (Cardinality(apks) > 1)
         stale == apks \ known.sums
     IN  /\ WriteToken(s, c)
         /\ \/ /\ other
               /\ cache' = [cache EXCEPT ![s] = c]
               /\ todo' = [todo EXCEPT ![s] = apks]
               /\ host' = [host EXCEPT ![s] = Unknown]
               /\ At(s, "install")
            \/ /\ ~other
               /\ cache' = [cache EXCEPT ![s] = known]
               /\ todo' = [todo EXCEPT ![s] = stale]
               /\ host' = [host EXCEPT ![s] = apks]
               /\ At(s, CASE stale = {} -> "grant"
                          [] stale # {} /\ ~reinstall -> "replace"
                          [] OTHER -> "install")
            \/ /\ ~other
               /\ cache' = [cache EXCEPT ![s] = c]
               /\ todo' = [todo EXCEPT ![s] = apks]
               /\ host' = [host EXCEPT ![s] = Unknown]
               /\ At(s, IF reinstall THEN "install" ELSE "replace")
  /\ asked' = [asked EXCEPT ![s] = [apks |-> apks, reinstall |-> reinstall]]
  /\ UNCHANGED <<device, saved>>

(* adb uninstall within Uninstall(), which Install() calls as well; when   *)
(* it raises the cache forgets the package.                                *)
Uninstalled(s, then) ==
  /\ installed' = {}
  /\ cache' = [cache EXCEPT ![s].paths = {}, ![s].sums = {}]
  /\ At(s, then)

UninstallRaises(s) ==
  /\ installed' \in {installed, {}}
  /\ cache' = [cache EXCEPT ![s].paths = Unknown, ![s].sums = Unknown]
  /\ At(s, "idle")

Replace(s) ==
  /\ pc[s] = "replace"
  /\ Uninstalled(s, "install") \/ UninstallRaises(s)
  /\ todo' = [todo EXCEPT ![s] = asked[s].apks]
  /\ UNCHANGED <<late, token, tokens, saved, asked, host>>

Uninstall(s) ==
  /\ Ready(s)
  /\ LET c == ApplicationPaths(cache[s])
     IN  /\ WriteToken(s, c)
         /\ cache' = [cache EXCEPT ![s] = c]
         /\ At(s, IF c.paths = {} THEN "removed" ELSE "uninstall")
  /\ UNCHANGED <<device, saved, call>>

UninstallRuns(s) ==
  /\ pc[s] = "uninstall"
  /\ Uninstalled(s, "removed") \/ UninstallRaises(s)
  /\ UNCHANGED <<late, token, tokens, saved, call>>

(* What adb install makes of the package: a partial one keeps the splits   *)
(* that it does not replace.                                               *)
With(old, s) ==
  IF todo[s] = asked[s].apks THEN todo[s]
  ELSE todo[s] \cup {a \in old : \A b \in todo[s] : NameOf[a] # NameOf[b]}

(* Mutant: the cache keeps what it knew before the installation.           *)
ForgetNothing(s) == UNCHANGED cache

Forget(s) == cache' = [cache EXCEPT ![s].paths = Unknown, ![s].sums = Unknown]

(* adb install; without reinstall it refuses a package that is there.      *)
InstallRuns(s) ==
  /\ pc[s] = "install"
  /\ asked[s].reinstall \/ installed = {}
  /\ installed' = With(installed, s)
  /\ Forget(s)
  /\ At(s, "grant")
  /\ UNCHANGED <<late, token, tokens, saved, call>>

InstallRaises(s) ==
  /\ pc[s] = "install"
  /\ \/ UNCHANGED device
     \/ asked[s].reinstall /\ installed' = With(installed, s) /\ UNCHANGED late
     \/ Late /\ late' = todo[s] /\ UNCHANGED installed
  /\ Forget(s)
  /\ At(s, "idle")
  /\ UNCHANGED <<token, tokens, saved, call>>

(* GrantPermissions(), which looks up the SDK level, and the end.          *)
Granted(s) ==
  /\ pc[s] = "grant"
  /\ LET c == EnsureCacheInitialized(cache[s])
     IN  /\ WriteToken(s, c)
         /\ cache' = [cache EXCEPT ![s] =
              IF host[s] = Unknown THEN c ELSE [c EXCEPT !.sums = host[s]]]
  /\ At(s, "done")
  /\ todo' = [todo EXCEPT ![s] = {}]
  /\ host' = [host EXCEPT ![s] = Unknown]
  /\ UNCHANGED <<device, saved, asked>>

GrantRaises(s) ==
  /\ pc[s] = "grant"
  /\ At(s, "idle")
  /\ UNCHANGED <<device, token, tokens, cache, saved, call>>

----------------------------------------------------------------------------

(* By hand, with no script at work.                                        *)
UninstallManually ==
  /\ Manual
  /\ \A s \in Scripts : pc[s] = "off"
  /\ installed # {}
  /\ installed' = {}
  /\ UNCHANGED <<late, token, tokens, cache, saved, pc, call>>

InstallLate ==
  /\ late # {}
  /\ installed' = late /\ late' = {}
  /\ UNCHANGED <<token, tokens, cache, saved, pc, call>>

Next ==
  \/ \E s \in Scripts : Start(s)
  \/ \E s \in Scripts : End(s)
  \/ \E s \in Scripts : LoadCacheData(s)
  \/ \E s \in Scripts : DumpCacheData(s)
  \/ \E s \in Scripts : Reboot(s)
  \/ \E s \in Scripts, w \in Wanted, r \in BOOLEAN : Install(s, w, r)
  \/ \E s \in Scripts : Replace(s)
  \/ \E s \in Scripts : Uninstall(s)
  \/ \E s \in Scripts : UninstallRuns(s)
  \/ \E s \in Scripts : InstallRuns(s)
  \/ \E s \in Scripts : InstallRaises(s)
  \/ \E s \in Scripts : Granted(s)
  \/ \E s \in Scripts : GrantRaises(s)
  \/ UninstallManually
  \/ InstallLate

Spec == Init /\ [][Next]_vars

----------------------------------------------------------------------------

TypeOK ==
  /\ installed \subseteq Apks /\ late \subseteq Apks
  /\ tokens \in 0..MaxTokens /\ token <= tokens
  /\ \A s \in Scripts :
       /\ cache[s].token <= tokens /\ cache[s].prev <= tokens
       /\ cache[s].prev < cache[s].token \/ cache[s].token = 0
       /\ cache[s].paths = Unknown \/ cache[s].paths \subseteq Apks
       /\ cache[s].sums = Unknown \/ cache[s].sums \subseteq Apks
       /\ asked[s].apks \in Wanted \cup {{}}

(* Install() returns: the APKs are on the device, whether they were left   *)
(* out or not ("Noop if an identical APK is already installed").           *)
InstalledAsAsked ==
  \A s \in Scripts : pc[s] = "done" => asked[s].apks \subseteq installed

(* Uninstall() returns: the package is gone ("Remove the app               *)
(* |package_name| from the device").                                       *)
UninstallRemoves ==
  \A s \in Scripts : pc[s] # "removed" /\ pc'[s] = "removed" => installed' = {}

(* What the cache says of the device; the checksums count when there is a  *)
(* package.                                                                *)
TrueOf(c) ==
  /\ c.paths = Unknown \/ c.verify \/ (c.paths = {}) = (installed = {})
  /\ c.sums = Unknown \/ c.verify \/ c.paths \in {Unknown, {}} \/ c.sums \subseteq installed

(* A script that works alone knows what is on the device.                  *)
CacheTrue == \A s \in Scripts : Idle(s) => TrueOf(cache[s])

(* A cache that was loaded is true (LoadCacheData(): "This prevents a      *)
(* stale cache from being used").                                          *)
LoadedTrue ==
  \A s \in Scripts : pc[s] = "loaded" =>
    /\ cache[s].sums = Unknown \/ cache[s].sums \subseteq installed
    /\ cache[s].paths = Unknown \/ (cache[s].paths = {}) = (installed = {})
==============================================================================
