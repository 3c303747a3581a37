------------------------------ MODULE FileFetch ------------------------------
(***************************************************************************)
(* Files from cloud storage: the fetch of one binary, and the choice and   *)
(* the unzipping of a dependency, which is built on it. Each has           *)
(* variables, Init and Next of its own.                                    *)
(***************************************************************************)
EXTENDS Naturals, FiniteSets, Sequences, SequencesExt

----------------------------------------------------------------------------
(***************************************************************************)
(* py_utils.cloud_storage.GetIfChanged(): a binary that is too large for   *)
(* the repository is kept in cloud storage; the repository has its hash,   *)
(* in a .sha1 file beside it.  A call compares, and downloads the binary   *)
(* if it is not the one of the hash.  To save the hashing of the binary,   *)
(* the time of the last fetch is kept in a .fetchts file and compared with *)
(* the time of modification of the .sha1 file.                             *)
(*                                                                         *)
(* Calls of several processes exclude one another (PseudoLock).  The .sha1 *)
(* file changes beside them, when the repository is brought up to date.    *)
(***************************************************************************)

CONSTANTS
  Procs,
  Hashes,
  None,           \* no such file, or nobody
  Empty,          \* the content of a file that has been truncated
  MaxTime,        \* bound of the clock
  Failing,        \* TRUE when downloads may fail
  Wrong,          \* TRUE when the bucket may have the wrong object
  Dying,          \* TRUE when a process may die
  Racing          \* TRUE when .sha1 may change between the read of it and
                  \* the write of the time stamp

CloudFetchAssumption ==
  /\ None \notin Hashes /\ None \notin Procs /\ Empty # None
  /\ "torn" \notin Hashes \cup {None}
  /\ MaxTime \in Nat
  /\ {Failing, Wrong, Dying, Racing} \subseteq BOOLEAN

VARIABLES
  clock,
  sha1,           \* [hash, mtime] of the .sha1 file, or None
  fetchts,        \* the time in the .fetchts file, Empty, or None
  binary,         \* hash of the binary, or None
  holder,         \* who has the lock of the path
  pc,
  expected,       \* expected[p]: what p has read in .sha1
  partial,        \* partial[p]: the temporary file of p's last call
  answer          \* answer[p]: what the last call of p returned or raised

vars == <<clock, sha1, fetchts, binary, holder, pc, expected, partial, answer>>
call == <<holder, pc, expected, partial, answer>>

Init ==
  /\ clock = 0
  /\ sha1 = None
  /\ fetchts = None
  /\ binary = None
  /\ holder = None
  /\ pc = [p \in Procs |-> "idle"]
  /\ expected = [p \in Procs |-> None]
  /\ partial = [p \in Procs |-> None]
  /\ answer = [p \in Procs |-> None]

Goto(p, from, to) == pc[p] = from /\ pc' = [pc EXCEPT ![p] = to]

(* The call ends with a, and the lock is given back.                       *)
Ends(p, a) ==
  /\ pc' = [pc EXCEPT ![p] = "idle"]
  /\ answer' = [answer EXCEPT ![p] = a]
  /\ expected' = [expected EXCEPT ![p] = None]
  /\ holder' = None

----------------------------------------------------------------------------

(* The clock, and the repository.                                          *)
Tick == /\ clock < MaxTime
        /\ clock' = clock + 1
        /\ UNCHANGED <<sha1, fetchts, binary, call>>

Sync ==
  /\ Racing \/ \A p \in Procs : pc[p] \notin {"compare", "truncate", "stamp"}
  /\ \E h \in Hashes : /\ (sha1 # None => h # sha1.hash)
                       /\ sha1' = [hash |-> h, mtime |-> clock]
  /\ UNCHANGED <<clock, fetchts, binary, call>>

(* with _FileLock(file_path)                                               *)
Lock(p) ==
  /\ Goto(p, "idle", "read")
  /\ holder = None
  /\ holder' = p
  /\ answer' = [answer EXCEPT ![p] = None]
  /\ partial' = [partial EXCEPT ![p] = None]
  /\ UNCHANGED <<clock, sha1, fetchts, binary, expected>>

NoHashFile(p) ==
  /\ pc[p] = "read"
  /\ sha1 = None
  /\ Ends(p, "no hash")
  /\ UNCHANGED <<clock, sha1, fetchts, binary, partial>>

ReadHash(p) ==
  /\ Goto(p, "read", "compare")
  /\ sha1 # None
  /\ expected' = [expected EXCEPT ![p] = sha1.hash]
  /\ UNCHANGED <<clock, sha1, fetchts, binary, holder, partial, answer>>

Stamped == fetchts # None /\ binary # None

(* The binary was fetched after the hash file was modified.                *)
FetchedSince(t) == t > sha1.mtime

UpToDate(p) ==
  /\ pc[p] = "compare"
  /\ Stamped /\ fetchts # Empty
  /\ FetchedSince(fetchts)
  /\ Ends(p, "same")
  /\ UNCHANGED <<clock, sha1, fetchts, binary, partial>>

(* float('') raises.                                                       *)
StampUnreadable(p) ==
  /\ pc[p] = "compare"
  /\ Stamped /\ fetchts = Empty
  /\ Ends(p, "ValueError")
  /\ UNCHANGED <<clock, sha1, fetchts, binary, partial>>

OutOfDate(p) ==
  /\ Goto(p, "compare", "truncate")
  /\ Stamped => fetchts # Empty /\ ~FetchedSince(fetchts)
  /\ UNCHANGED <<clock, sha1, fetchts, binary, holder, expected, partial, answer>>

(* open(fetch_ts_path, 'w') empties the file; write() and close() fill it. *)
TruncateStamp(p) ==
  /\ Goto(p, "truncate", "stamp")
  /\ fetchts' = Empty
  /\ UNCHANGED <<clock, sha1, binary, holder, expected, partial, answer>>

(* Mutant: the time by which the next call is expected is written.         *)
WriteStampAhead(p) ==
  /\ Goto(p, "stamp", "hash")
  /\ fetchts' = clock + 1
  /\ UNCHANGED <<clock, sha1, binary, holder, expected, partial, answer>>

WriteStamp(p) ==
  /\ Goto(p, "stamp", "hash")
  /\ fetchts' = clock
  /\ UNCHANGED <<clock, sha1, binary, holder, expected, partial, answer>>

(* The binary is hashed after all.                                         *)
Matches(p) ==
  /\ pc[p] = "hash"
  /\ binary = expected[p]
  /\ Ends(p, "same")
  /\ UNCHANGED <<clock, sha1, fetchts, binary, partial>>

Differs(p) ==
  /\ Goto(p, "hash", "download")
  /\ binary # expected[p]
  /\ UNCHANGED <<clock, sha1, fetchts, binary, holder, expected, partial, answer>>

----------------------------------------------------------------------------


Download(p) ==
  /\ pc[p] \in {"download", "again"}
  /\ partial' = [partial EXCEPT ![p] = "torn"]
  /\ pc' = [pc EXCEPT ![p] = IF pc[p] = "download" THEN "downloading" ELSE "downloading again"]
  /\ UNCHANGED <<clock, sha1, fetchts, binary, holder, expected, answer>>

Downloading(p) == pc[p] \in {"downloading", "downloading again"}

Downloaded(p) ==
  /\ Downloading(p)
  /\ \E h \in IF Wrong THEN Hashes ELSE {expected[p]} :
       partial' = [partial EXCEPT ![p] = h]
  /\ pc' = [pc EXCEPT ![p] = "move"]
  /\ UNCHANGED <<clock, sha1, fetchts, binary, holder, expected, answer>>

(* A ServerError is tried again, once.                                     *)
ServerError(p) ==
  /\ Failing
  /\ Goto(p, "downloading", "again")
  /\ UNCHANGED <<clock, sha1, fetchts, binary, holder, expected, partial, answer>>

(* Any other error, or a second one, is raised, and the temporary file     *)
(* removed on the way out.                                                 *)
DownloadFails(p) ==
  /\ Failing
  /\ Downloading(p)
  /\ partial' = [partial EXCEPT ![p] = None]
  /\ Ends(p, "CloudStorageError")
  /\ UNCHANGED <<clock, sha1, fetchts, binary>>

(* ... which is moved over the binary, and hashed there.                   *)
Move(p) ==
  /\ Goto(p, "move", "verify")
  /\ binary' = partial[p]
  /\ partial' = [partial EXCEPT ![p] = None]
  /\ UNCHANGED <<clock, sha1, fetchts, holder, expected, answer>>

Verified(p) ==
  /\ pc[p] = "verify"
  /\ binary = expected[p]
  /\ Ends(p, "fetched")
  /\ UNCHANGED <<clock, sha1, fetchts, binary, partial>>

(* The object is not the one of the hash: the time stamp is removed.       *)
Mismatch(p) ==
  /\ pc[p] = "verify"
  /\ binary # expected[p]
  /\ fetchts' = None
  /\ Ends(p, "RuntimeError")
  /\ UNCHANGED <<clock, sha1, binary, partial>>

(* The process dies; the temporary file stays, the lock does not.          *)
Dies(p) ==
  /\ Dying
  /\ pc[p] # "idle"
  /\ Ends(p, "died")
  /\ UNCHANGED <<clock, sha1, fetchts, binary, partial>>

Next ==
  \/ Tick
  \/ Sync
  \/ \E p \in Procs :
       \/ Lock(p)
       \/ NoHashFile(p)
       \/ ReadHash(p)
       \/ UpToDate(p)
       \/ StampUnreadable(p)
       \/ OutOfDate(p)
       \/ TruncateStamp(p)
       \/ WriteStamp(p)
       \/ Matches(p)
       \/ Differs(p)
       \/ Download(p)
       \/ Downloaded(p)
       \/ ServerError(p)
       \/ DownloadFails(p)
       \/ Move(p)
       \/ Verified(p)
       \/ Mismatch(p)
       \/ Dies(p)

Spec == Init /\ [][Next]_vars

----------------------------------------------------------------------------

Answers == {"no hash", "same", "fetched", "ValueError", "CloudStorageError", "RuntimeError", "died"}

TypeOK ==
  /\ clock \in 0..MaxTime
  /\ sha1 # None => sha1 \in [hash : Hashes, mtime : 0..clock]
  /\ fetchts \in (0..clock) \cup {Empty, None}
  /\ binary \in Hashes \cup {"torn", None}
  /\ holder \in Procs \cup {None}
  /\ \A p \in Procs : (pc[p] # "idle") <=> (holder = p)
  /\ expected \in [Procs -> Hashes \cup {None}]
  /\ partial \in [Procs -> Hashes \cup {"torn", None}]
  /\ answer \in [Procs -> Answers \cup {None}]

(* A process that reads the binary beside a download, or after one that    *)
(* died, reads a whole one (_GetLocked(), cloud_storage.py:346).           *)
NeverTorn == binary # "torn"

(* When the call is over without the process having died, no temporary     *)
(* file is left (_GetLocked()).                                            *)
NothingLeft ==
  \A p \in Procs : answer[p] \notin {None, "died"} => partial[p] = None

(* A call that answers that the binary has not changed, or that it has     *)
(* been fetched, leaves the binary of the hash it has read: the comparison *)
(* of the time stamps stands for the comparison of the hashes              *)
(* (GetIfChanged()).                                                       *)
Fresh ==
  \A p \in Procs : pc[p] # "idle" /\ pc'[p] = "idle" /\ answer'[p] \in {"same", "fetched"}
                      => binary' = expected[p]

----------------------------------------------------------------------------
(***************************************************************************)
(* DependencyManager.FetchPath() for one dependency on one platform: a     *)
(* local file if there is one, and else the archive from cloud storage,    *)
(* downloaded to one path and unzipped beside it into a directory named    *)
(* for its hash (CloudStorageInfo.GetRemotePath(), ArchiveInfo).  The      *)
(* programs that fetch may have configs of different versions: the hash    *)
(* differs, the path of the download does not.                             *)
(*                                                                         *)
(* The download is made under the lock of its path (PseudoLock); all else  *)
(* is not.                                                                 *)
(***************************************************************************)

CONSTANTS
  ZipProcs,
  ZipHashes,
  LocalPaths,     \* the paths of the configs, by decreasing precedence
  ZipNone,
  Alone,          \* TRUE when only one program fetches at a time
  ZipFailing,     \* TRUE when a download or an extraction may fail
  ZipDying        \* TRUE when a program may die

DependencyFetchAssumption ==
  /\ ZipNone \notin ZipHashes /\ ZipNone \notin ZipProcs
  /\ ZipNone \notin [of : ZipHashes \cup {ZipNone}, part : {"empty", "part", "whole"}]
  /\ LocalPaths \in Seq(ToSet(LocalPaths)) /\ "path" \notin ToSet(LocalPaths)
  /\ {Alone, ZipFailing, ZipDying} \subseteq BOOLEAN

VARIABLES
  local,          \* the local files that exist
  archive,        \* the hash of the file at the download path, or None
  lock,           \* holder of the lock of that path
  unzipped,       \* unzipped[h]: what is in the directory for h, or None
  halted,         \* history: directories whose extraction was cut by a death
  zipPc,
  want,           \* want[p]: the hash in p's config
  source,         \* source[p]: the archive that p has opened
  result          \* result[p]: what the last call of p returned or raised

zipVars == <<local, archive, lock, unzipped, halted, zipPc, want, source, result>>
disk == <<local, archive, lock, unzipped, halted>>

ZipInit ==
  /\ local \in SUBSET ToSet(LocalPaths)
  /\ archive = ZipNone
  /\ lock = ZipNone
  /\ unzipped = [h \in ZipHashes |-> ZipNone] /\ halted = {}
  /\ zipPc = [p \in ZipProcs |-> "idle"]
  /\ want \in [ZipProcs -> ZipHashes]
  /\ source = [p \in ZipProcs |-> ZipNone]
  /\ result = [p \in ZipProcs |-> ZipNone]

ZipGoto(p, from, to) == zipPc[p] = from /\ zipPc' = [zipPc EXCEPT ![p] = to]

ZipEnds(p, r) ==
  /\ zipPc' = [zipPc EXCEPT ![p] = "idle"]
  /\ result' = [result EXCEPT ![p] = r]
  /\ source' = [source EXCEPT ![p] = ZipNone]

(* GetLocalPath(): the groups of LocalPathInfo in their order, one path    *)
(* each, for a config gives a list of paths.                               *)
GetLocalPath ==
  IF local = {} THEN ZipNone
  ELSE LocalPaths[CHOOSE i \in DOMAIN LocalPaths :
         /\ LocalPaths[i] \in local
         /\ \A j \in 1..(i - 1) : LocalPaths[j] \notin local]

----------------------------------------------------------------------------

(* Somebody builds or removes a local file.                                *)
Build == /\ \E f \in ToSet(LocalPaths) :
              local' = IF f \in local THEN local \ {f} ELSE local \cup {f}
         /\ UNCHANGED <<archive, lock, unzipped, halted, zipPc, want, source, result>>

(* A new call, with the hash of the config of the day.                     *)
Begin(p) ==
  /\ ZipGoto(p, "idle", "local")
  /\ Alone => \A q \in ZipProcs : zipPc[q] = "idle"
  /\ \E h \in ZipHashes : want' = [want EXCEPT ![p] = h]
  /\ result' = [result EXCEPT ![p] = ZipNone]
  /\ UNCHANGED <<disk, source>>

Local(p) ==
  /\ zipPc[p] = "local"
  /\ GetLocalPath # ZipNone
  /\ ZipEnds(p, GetLocalPath)
  /\ UNCHANGED <<disk, want>>

NotLocal(p) ==
  /\ ZipGoto(p, "local", "lock")
  /\ GetLocalPath = ZipNone
  /\ UNCHANGED <<disk, want, source, result>>

----------------------------------------------------------------------------

(* GetIfHashChanged(): under the lock of the path, the file is hashed and  *)
(* downloaded if it is another.                                            *)
LockPath(p) ==
  /\ ZipGoto(p, "lock", "hash")
  /\ lock = ZipNone
  /\ lock' = p
  /\ UNCHANGED <<local, archive, unzipped, halted, want, source, result>>

HashMatches(p) ==
  /\ ZipGoto(p, "hash", "unzip?")
  /\ archive = want[p]
  /\ lock' = ZipNone
  /\ UNCHANGED <<local, archive, unzipped, halted, want, source, result>>

ZipDownload(p) ==
  /\ ZipGoto(p, "hash", "unzip?")
  /\ archive # want[p]
  /\ archive' = want[p]
  /\ lock' = ZipNone
  /\ UNCHANGED <<local, unzipped, halted, want, source, result>>

ZipDownloadFails(p) ==
  /\ ZipFailing
  /\ zipPc[p] = "hash"
  /\ archive # want[p]
  /\ ZipEnds(p, "CloudStorageError")
  /\ lock' = ZipNone
  /\ UNCHANGED <<local, archive, unzipped, halted, want>>

----------------------------------------------------------------------------

(* GetUnzippedPath(): there is nothing to unzip when the file that is      *)
(* looked for is in the directory of the hash.                             *)
ShouldUnzip(h) == unzipped[h] # ZipNone => unzipped[h].part = "empty"

AlreadyUnzipped(p) ==
  /\ zipPc[p] = "unzip?"
  /\ ~ShouldUnzip(want[p])
  /\ ZipEnds(p, "path")
  /\ UNCHANGED <<disk, want>>

(* The directories of all the hashes are removed first ...                 *)
RemoveStale(p) ==
  /\ ZipGoto(p, "unzip?", "make")
  /\ ShouldUnzip(want[p])
  /\ unzipped' = [h \in ZipHashes |-> ZipNone] /\ halted' = {}
  /\ UNCHANGED <<local, archive, lock, want, source, result>>

(* ... UnzipArchive(): the directory is made, the archive opened ...       *)
MakeDirs(p) ==
  /\ ZipGoto(p, "make", "extract")
  /\ IF unzipped[want[p]] = ZipNone
     THEN unzipped' = [unzipped EXCEPT ![want[p]] = [of |-> ZipNone, part |-> "empty"]]
     ELSE UNCHANGED unzipped
  /\ source' = [source EXCEPT ![p] = archive]
  /\ UNCHANGED <<local, archive, lock, halted, want, result>>

(* ... and its files extracted one by one, which makes the directory again *)
(* if need be.  The file that is looked for may be the first of them.      *)
Extract(p) ==
  /\ ZipGoto(p, "extract", "extracting")
  /\ unzipped' = [unzipped EXCEPT ![want[p]] = [of |-> source[p], part |-> "part"]]
  /\ UNCHANGED <<local, archive, lock, halted, want, source, result>>

ExtractRest(p) ==
  /\ ZipGoto(p, "extracting", "check")
  /\ unzipped' = [unzipped EXCEPT ![want[p]] =
                    [of |-> source[p],
                     part |-> IF @ # ZipNone /\ @.of = source[p] THEN "whole" ELSE "part"]]
  /\ UNCHANGED <<local, archive, lock, halted, want, source, result>>

(* What has been extracted is removed when the rest cannot be.             *)
ExtractFails(p) ==
  /\ ZipFailing
  /\ zipPc[p] = "extracting"
  /\ unzipped' = [unzipped EXCEPT ![want[p]] = ZipNone]
  /\ ZipEnds(p, "error")
  /\ UNCHANGED <<local, archive, lock, halted, want>>

(* The path is returned if it is there by now.                             *)
Unzipped(p) ==
  /\ zipPc[p] = "check"
  /\ ZipEnds(p, IF ShouldUnzip(want[p]) THEN "ArchiveError" ELSE "path")
  /\ UNCHANGED <<disk, want>>

(* A program that dies leaves its directory as it is by then.              *)
ZipDies(p) ==
  /\ ZipDying
  /\ zipPc[p] # "idle"
  /\ ZipEnds(p, "died")
  /\ lock' = IF lock = p THEN ZipNone ELSE lock
  /\ halted' = IF zipPc[p] \in {"extract", "extracting"} THEN halted \cup {want[p]} ELSE halted
  /\ UNCHANGED <<local, archive, unzipped, want>>

ZipNext ==
  \/ Build
  \/ \E p \in ZipProcs :
       \/ Begin(p)
       \/ Local(p)
       \/ NotLocal(p)
       \/ LockPath(p)
       \/ HashMatches(p)
       \/ ZipDownload(p)
       \/ ZipDownloadFails(p)
       \/ AlreadyUnzipped(p)
       \/ RemoveStale(p)
       \/ MakeDirs(p)
       \/ Extract(p)
       \/ ExtractRest(p)
       \/ ExtractFails(p)
       \/ Unzipped(p)
       \/ ZipDies(p)

ZipSpec == ZipInit /\ [][ZipNext]_zipVars

----------------------------------------------------------------------------

ZipTypeOK ==
  /\ local \subseteq ToSet(LocalPaths)
  /\ archive \in ZipHashes \cup {ZipNone}
  /\ lock # ZipNone => zipPc[lock] = "hash"
  /\ \A h \in ZipHashes : unzipped[h] # ZipNone =>
       unzipped[h] \in [of : ZipHashes \cup {ZipNone}, part : {"empty", "part", "whole"}]
  /\ halted \subseteq ZipHashes
  /\ want \in [ZipProcs -> ZipHashes]
  /\ source \in [ZipProcs -> ZipHashes \cup {ZipNone}]

(* A path that is returned leads to the whole of the archive of the hash   *)
(* in the config (CloudStorageInfo.GetRemotePath()), after calls that have *)
(* failed and after programs that died; only the directory that a program  *)
(* was extracting when it died is taken for a whole one, until the next    *)
(* archive is unzipped.                                                    *)
Whole ==
  \A p \in ZipProcs : zipPc[p] # "idle" /\ result'[p] = "path" /\ zipPc'[p] = "idle"
                        /\ want[p] \notin halted
       => unzipped'[want[p]] = [of |-> want[p], part |-> "whole"]

(* A local path that is returned is the one of the config of the highest   *)
(* precedence that has a file (DependencyManager.__init__()).              *)
Precedence ==
  \A p \in ZipProcs, i \in DOMAIN LocalPaths :
       zipPc[p] = "local" /\ zipPc'[p] = "idle" /\ result'[p] # "died" /\ LocalPaths[i] \in local
       => result'[p] \in {LocalPaths[j] : j \in 1..i} \cap local

(* An archive lies whole, and is the one of its directory, as soon as      *)
(* nobody unzips, but for a directory that a program was extracting when   *)
(* it died: a failed extraction leaves none that a later call would take   *)
(* for a whole one (UnzipArchive()).                                       *)
NothingHalf ==
  (\A p \in ZipProcs : zipPc[p] \notin {"make", "extract", "extracting", "check"})
    => \A h \in ZipHashes \ halted : unzipped[h] # ZipNone =>
         unzipped[h] = [of |-> h, part |-> "whole"]
==============================================================================
