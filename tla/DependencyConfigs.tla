-------------------------- MODULE DependencyConfigs --------------------------
(***************************************************************************)
(* The configs of the dependency manager: how several are merged and read, *)
(* and how one is updated. Each has variables, Init and Next of its own.   *)
(***************************************************************************)
EXTENDS Naturals, Sequences, FiniteSets, SequencesExt

----------------------------------------------------------------------------
(***************************************************************************)
(* A DependencyManager made of several configs: what each says of a        *)
(* dependency on a platform is merged, config by config and in whatever    *)
(* order the dictionaries of a config are iterated over; then paths are    *)
(* asked for, while local files come and go, and everything may be         *)
(* fetched beforehand.  (DependencyFetch has the download of one of them.) *)
(***************************************************************************)

CONSTANTS
  Deps, Platforms,
  Default,        \* the platform that stands for any
  Paths,          \* local paths
  ConfigLists,    \* the configs a manager may be made of: sequences of functions
  CloudRetries,   \* cloud_storage_retries of PrefetchPaths()
  MergeNone

DependencyMergeAssumption ==
  /\ Default \in Platforms
  /\ CloudRetries \in Nat
  /\ MergeNone \notin Paths
  /\ \A list \in ConfigLists : /\ list \in Seq({list[i] : i \in DOMAIN list})
                              /\ \A i \in DOMAIN list : DOMAIN list[i] \subseteq Deps \X Platforms

VARIABLES
  configs,        \* the configs, by decreasing precedence: what each says of a pair
  at,             \* the config that is merged now
  todo,           \* the pairs of it that were not yielded yet
  lookup,         \* _lookup_dict[d][p]
  mergePc,
  error,          \* what was raised while the manager was made
  files,          \* the local files that exist
  mergeAnswer,    \* what was asked last and what it got
  rest,           \* PrefetchPaths(): the dependencies to come
  tried,          \* tried[d]: times a download of d was tried
  found, skipped, missing

merging == <<configs, at, todo, lookup, error>>
lists == <<rest, tried, found, skipped, missing>>
mergeVars == <<merging, mergePc, files, mergeAnswer, lists>>

Pairs == Deps \X Platforms

(* The exception of IterDependencyInfo() for what a config says of cloud   *)
(* storage: the class that a missing hash is to raise does not exist;      *)
(* CloudStorageInfo() refuses to be made without a bucket; a hash that has *)
(* no download path is not looked at.                                      *)
Refused(info) ==
  CASE info.cloud = "pathOnly" -> "AttributeError"
    [] info.cloud = "noBucket" -> "ValueError"
    [] OTHER -> "none"

HasCloud(info) == info.cloud = "whole"

(* DependencyInfo(): the local paths of a pair, and the config that tells  *)
(* where it is in cloud storage, 0 for none.                               *)
DependencyInfo(local, cloud) == [known |-> TRUE, local |-> local, cloud |-> cloud]

MergeTypeOK ==
  /\ at \in 1..Len(configs) + 1
  /\ todo \subseteq Pairs
  /\ lookup \in [Pairs -> [known : BOOLEAN, local : Seq(Paths), cloud : 0..Len(configs)]]
  /\ \A q \in Pairs : ~lookup[q].known => lookup[q].local = <<>> /\ lookup[q].cloud = 0
  /\ mergePc \in {"merges", "raised", "ready", "fetching", "ended"}
  /\ error \in {"none", "AttributeError", "ValueError"}
  /\ files \subseteq Paths
  /\ {found, skipped, missing} \subseteq SUBSET Deps
  /\ \A d \in Deps : tried[d] \in 0..CloudRetries + 1

MergeInit ==
  /\ configs \in ConfigLists
  /\ at = 1
  /\ todo = IF Len(configs) = 0 THEN {} ELSE DOMAIN configs[1]
  /\ lookup = [q \in Pairs |-> [known |-> FALSE, local |-> <<>>, cloud |-> 0]]
  /\ mergePc = "merges"
  /\ error = "none"
  /\ files \in SUBSET Paths
  /\ mergeAnswer = MergeNone
  /\ rest = {} /\ tried = [d \in Deps |-> 0]
  /\ found = {} /\ skipped = {} /\ missing = {}

----------------------------------------------------------------------------

(* LocalPathInfo.Update(): each group of the other that is not there yet,  *)
(* at the end; the groups of a BaseConfig have one path each.              *)
UpdateLocal(local, new) ==
  local \o SelectSeq(new, LAMBDA path : path \notin ToSet(local))

(* _UpdateDependencies(): one pair that the config yields is taken as it   *)
(* is, or DependencyInfo.Update() adds it to what is known.  Two configs   *)
(* may not both tell where it is in cloud storage.                         *)
Yield(q) ==
  LET info == configs[at][q] IN
  /\ mergePc = "merges" /\ q \in todo
  /\ todo' = todo \ {q}
  /\ IF Refused(info) # "none"
     THEN /\ error' = Refused(info) /\ mergePc' = "raised"
          /\ UNCHANGED lookup
     ELSE IF HasCloud(info) /\ lookup[q].cloud # 0
     THEN /\ error' = "ValueError" /\ mergePc' = "raised"
          /\ UNCHANGED lookup
     ELSE /\ lookup' = [lookup EXCEPT ![q] =
                          DependencyInfo(UpdateLocal(@.local, info.local),
                                         IF HasCloud(info) THEN at ELSE @.cloud)]
          /\ UNCHANGED <<error, mergePc>>
  /\ UNCHANGED <<configs, at, files, mergeAnswer, lists>>

NextConfig ==
  /\ mergePc = "merges" /\ todo = {}
  /\ IF at < Len(configs)
     THEN /\ at' = at + 1
          /\ todo' = DOMAIN configs[at + 1]
          /\ UNCHANGED mergePc
     ELSE mergePc' = "ready" /\ UNCHANGED <<at, todo>>
  /\ UNCHANGED <<configs, lookup, error, files, mergeAnswer, lists>>

----------------------------------------------------------------------------

(* _GetDependencyInfo(): what is known of the platform, or else of any.    *)
InfoOf(d, p) == IF lookup[<<d, p>>].known THEN lookup[<<d, p>>] ELSE lookup[<<d, Default>>]

(* GetLocalPath(): the first group that has a file.                        *)
MergeGetLocalPath(info) ==
  LET i == SelectInSeq(info.local, LAMBDA path : path \in files)
  IN  IF i = 0 THEN MergeNone ELSE info.local[i]

(* LocalPath(): NoPathFoundError is None here.                             *)
LocalPath(d, p) ==
  /\ mergePc = "ready"
  /\ mergeAnswer' = [dep |-> d, platform |-> p, got |-> MergeGetLocalPath(InfoOf(d, p))]
  /\ UNCHANGED <<merging, mergePc, files, lists>>

(* Somebody makes or removes a local file.                                 *)
FileChanges(f) ==
  /\ mergePc = "ready"
  /\ files' = IF f \in files THEN files \ {f} ELSE files \cup {f}
  /\ UNCHANGED <<merging, mergePc, mergeAnswer, lists>>

(* PrefetchPaths(): of the dependencies it is given, or of all it knows.   *)
PrefetchPaths(ds) ==
  /\ mergePc = "ready"
  /\ rest' = IF ds = {} THEN {d \in Deps : \E p \in Platforms : lookup[<<d, p>>].known} ELSE ds
  /\ mergePc' = "fetching"
  /\ UNCHANGED <<merging, files, mergeAnswer, tried, found, skipped, missing>>

(* One dependency on platform p that is configured for others only.        *)
Skip(d, p) ==
  /\ mergePc = "fetching" /\ d \in rest
  /\ ~InfoOf(d, p).known
  /\ rest' = rest \ {d}
  /\ skipped' = skipped \cup {d}
  /\ UNCHANGED <<merging, mergePc, files, mergeAnswer, tried, found, missing>>

FoundLocally(d, p) ==
  /\ mergePc = "fetching" /\ d \in rest
  /\ MergeGetLocalPath(InfoOf(d, p)) # MergeNone
  /\ rest' = rest \ {d}
  /\ found' = found \cup {d}
  /\ UNCHANGED <<merging, mergePc, files, mergeAnswer, tried, skipped, missing>>

(* GetRemotePath() within the loop of the retries, which a break leaves    *)
(* after the first attempt, whatever came of it: a path, None without      *)
(* cloud storage, or a CloudStorageError.                                  *)
Fetch(d, p, fails) ==
  /\ mergePc = "fetching" /\ d \in rest
  /\ InfoOf(d, p).known /\ MergeGetLocalPath(InfoOf(d, p)) = MergeNone
  /\ fails => InfoOf(d, p).cloud # 0
  /\ rest' = rest \ {d}
  /\ tried' = [tried EXCEPT ![d] = @ + (IF InfoOf(d, p).cloud = 0 THEN 0 ELSE 1)]
  /\ IF InfoOf(d, p).cloud = 0 \/ fails
     THEN missing' = missing \cup {d} /\ UNCHANGED found
     ELSE found' = found \cup {d} /\ UNCHANGED missing
  /\ UNCHANGED <<merging, mergePc, files, mergeAnswer, skipped>>

(* FileNotFoundError, or an error of the archive, is no CloudStorageError: *)
(* it leaves PrefetchPaths().                                              *)
Escapes(d, p) ==
  /\ mergePc = "fetching" /\ d \in rest
  /\ InfoOf(d, p).cloud # 0 /\ MergeGetLocalPath(InfoOf(d, p)) = MergeNone
  /\ tried' = [tried EXCEPT ![d] = @ + 1]
  /\ mergePc' = "ended"
  /\ UNCHANGED <<merging, files, mergeAnswer, rest, found, skipped, missing>>

(* The lists are returned, or NoPathFoundError names what is missing.      *)
Prefetched ==
  /\ mergePc = "fetching" /\ rest = {}
  /\ mergePc' = "ended"
  /\ UNCHANGED <<merging, files, mergeAnswer, lists>>

(* The platform that everything is fetched for.                            *)
Here == CHOOSE p \in Platforms : p # Default

MergeNext ==
  \/ \E q \in Pairs : Yield(q)
  \/ NextConfig \/ Prefetched
  \/ \E d \in Deps, p \in Platforms : LocalPath(d, p)
  \/ \E f \in Paths : FileChanges(f)
  \/ \E ds \in SUBSET Deps : PrefetchPaths(ds)
  \/ \E d \in Deps : \/ Skip(d, Here) \/ FoundLocally(d, Here) \/ Escapes(d, Here)
                     \/ \E fails \in BOOLEAN : Fetch(d, Here, fails)

MergeSpec == MergeInit /\ [][MergeNext]_mergeVars

----------------------------------------------------------------------------

Says(i, q) == q \in DOMAIN configs[i]

(* The pair that decides for a platform, told from the configs alone.      *)
Deciding(d, p) ==
  IF \E i \in DOMAIN configs : Says(i, <<d, p>>) THEN <<d, p>> ELSE <<d, Default>>

(* A local path that is given exists, and no config of higher precedence,  *)
(* nor an earlier place in the same config, has another that exists; none  *)
(* is given only when no config has one.                                   *)
FirstOfPrecedence ==
  mergeAnswer' # mergeAnswer =>
            LET q == Deciding(mergeAnswer'.dep, mergeAnswer'.platform)
                places == {ij \in (DOMAIN configs) \X (1..Cardinality(Paths)) :
                             /\ Says(ij[1], q)
                             /\ ij[2] \in DOMAIN configs[ij[1]][q].local
                             /\ configs[ij[1]][q].local[ij[2]] \in files}
            IN  IF mergeAnswer'.got = MergeNone THEN places = {}
                ELSE \E x \in places :
                       /\ configs[x[1]][q].local[x[2]] = mergeAnswer'.got
                       /\ \A y \in places : x[1] < y[1] \/ (x[1] = y[1] /\ x[2] <= y[2])

(* A manager is made exactly when no two configs tell where one pair is in *)
(* cloud storage (and what each says is whole), whichever order the pairs  *)
(* come in; it then knows the one place there is.                          *)
Clouds(q) == {i \in DOMAIN configs : Says(i, q) /\ HasCloud(configs[i][q])}
Sound == /\ \A q \in Pairs : Cardinality(Clouds(q)) <= 1
         /\ \A i \in DOMAIN configs : \A q \in DOMAIN configs[i] : Refused(configs[i][q]) = "none"

OneCloudSource ==
  /\ mergePc = "raised" => ~Sound
  /\ mergePc \notin {"merges", "raised"} =>
            /\ Sound
            /\ \A q \in Pairs : IF Clouds(q) = {} THEN lookup[q].cloud = 0 ELSE lookup[q].cloud \in Clouds(q)

(* When PrefetchPaths() returns or tells what is missing, each dependency  *)
(* is on one list, and what was not downloaded is on none of the good ones.*)
EachOnOneList ==
  (mergePc = "ended" /\ rest = {}) =>
         /\ \A d \in Deps : tried[d] > 0 => d \in found \cup missing
         /\ found \cap missing = {} /\ found \cap skipped = {} /\ missing \cap skipped = {}

----------------------------------------------------------------------------
(***************************************************************************)
(* dependency_manager.BaseConfig as a writable config: jobs that each      *)
(* replace the file of one dependency are collected, and executed together *)
(* by ExecuteUpdateJobs(): every file is uploaded under a name made of its *)
(* hash (CloudStorageUploader.Upload()), then the config that names the    *)
(* new hashes is written.  When anything fails the uploads are taken back, *)
(* last first (Rollback()).                                                *)
(*                                                                         *)
(* The content of an object is the hash it should have; what lies in the   *)
(* bucket under a name may be damaged, or somebody else's.                 *)
(***************************************************************************)

CONSTANTS
  JobsDeps,      \* dependencies, each for one platform
  JobsHashes,    \* files that a dependency may have
  Nothing,       \* no object of this name, or no config file content
  Damaged,       \* the content of an object that is not the file of its name
  NoBucket,      \* dependencies for which the config names no bucket
  Once,          \* TRUE when no file is added a second time
  MaxJobs,       \* bound: pending uploads
  MaxRuns,       \* bound: calls of ExecuteUpdateJobs()
  Interrupting,  \* TRUE when Ctrl+C may come while the jobs are executed
  RollbackFails, \* TRUE when cloud storage may fail during a rollback
  DiskFull       \* TRUE when the config may be half written

UpdateJobsAssumption ==
  /\ Nothing \notin JobsHashes /\ Damaged \notin JobsHashes
  /\ NoBucket \subseteq JobsDeps
  /\ MaxJobs \in Nat /\ MaxRuns \in Nat
  /\ {Interrupting, RollbackFails, DiskFull, Once} \subseteq BOOLEAN

(* _CloudStorageRemotePath(): where the file is to go.  Its backup path has *)
(* the extension "old"; the path of an uploader whose backup path has been  *)
(* reset is the name "None" in the bucket.                                  *)
Remote == JobsDeps \X JobsHashes \X {""}
BackupPath(r) == <<r[1], r[2], "old">>
NonePath == <<"None">>
Names == Remote \cup {BackupPath(r) : r \in Remote} \cup {NonePath}

VARIABLES
  jobsDisk,   \* the dependencies in the config file, or Nothing
  data,       \* _config_data: the hash of each dependency
  pending,    \* _pending_uploads: uploaders
  bucket,     \* the objects in cloud storage
  jobsPc, jobsAt,  \* where ExecuteUpdateJobs() is, and at which uploader
  force,      \* its argument
  jobsResult,  \* what the last call returned or raised
  runs,       \* number of its calls
  before      \* disk and bucket at the last call

jobsVars == <<jobsDisk, data, pending, bucket, jobsPc, jobsAt, force, jobsResult, runs, before>>

JobsInit ==
  /\ data \in [JobsDeps -> JobsHashes]
  /\ jobsDisk = data
  /\ bucket \in [Names -> {Nothing, Damaged} \cup JobsHashes]
  /\ \A r \in Remote : bucket[r] \in {Nothing, Damaged, r[2]}
  /\ \A r \in Remote : bucket[BackupPath(r)] = Nothing
  /\ \A d \in JobsDeps : bucket[<<d, data[d], "">>] = data[d]
  /\ bucket[NonePath] = Nothing
  /\ pending = <<>>
  /\ jobsPc = "idle" /\ jobsAt = 0 /\ force = FALSE
  /\ jobsResult = "none" /\ runs = 0
  /\ before = [disk |-> jobsDisk, bucket |-> bucket]

Dirty == data # jobsDisk

Uploader(d, h) ==
  [remote |-> <<d, h, "">>, hash |-> h, backup |-> BackupPath(<<d, h, "">>),
   updated |-> FALSE, backed_up |-> FALSE]

New(d, h) == Once => \A i \in DOMAIN pending : pending[i].remote # <<d, h, "">>

----------------------------------------------------------------------------

(* AddCloudStorageDependencyUpdateJob(execute_job=False): the new hash goes *)
(* into the data, and an uploader is made, which may raise.                *)
Add(d, h) ==
  /\ jobsPc = "idle"
  /\ Len(pending) < MaxJobs /\ New(d, h)
  /\ data' = [data EXCEPT ![d] = h]
  /\ IF d \in NoBucket
     THEN jobsResult' = "ValueError" /\ UNCHANGED pending
     ELSE jobsResult' = "added" /\ pending' = Append(pending, Uploader(d, h))
  /\ UNCHANGED <<jobsDisk, bucket, jobsPc, jobsAt, force, runs, before>>

(* With execute_job=True the config must not be dirty; the jobs are run.   *)
AddAndExecute(d, h) ==
  /\ jobsPc = "idle"
  /\ runs < MaxRuns /\ Len(pending) < MaxJobs /\ New(d, h)
  /\ ~Dirty
  /\ d \notin NoBucket
  /\ data' = [data EXCEPT ![d] = h]
  /\ pending' = Append(pending, Uploader(d, h))
  /\ IF data' = jobsDisk
     THEN jobsResult' = "clean" /\ UNCHANGED <<jobsPc, jobsAt>>
     ELSE jobsPc' = "exists" /\ jobsAt' = 1 /\ jobsResult' = "none"
  /\ force' = FALSE
  /\ runs' = runs + 1
  /\ before' = [disk |-> jobsDisk, bucket |-> bucket]
  /\ UNCHANGED <<jobsDisk, bucket>>

AddRefused(d) ==
  /\ jobsPc = "idle"
  /\ Dirty
  /\ jobsResult' = "ReadWriteError"
  /\ UNCHANGED <<jobsDisk, data, pending, bucket, jobsPc, jobsAt, force, runs, before>>

(* ExecuteUpdateJobs(): nothing to do for a config that is as on disk; and *)
(* for one that has changes but no upload, True is returned all the same.  *)
Execute(f) ==
  /\ jobsPc = "idle"
  /\ runs < MaxRuns
  /\ runs' = runs + 1
  /\ force' = f
  /\ before' = [disk |-> jobsDisk, bucket |-> bucket]
  /\ CASE ~Dirty                       -> jobsResult' = "clean" /\ UNCHANGED <<jobsPc, jobsAt>>
       [] Dirty /\ pending = <<>>      -> jobsResult' = "done" /\ UNCHANGED <<jobsPc, jobsAt>>
       [] OTHER                        -> jobsResult' = "none" /\ jobsPc' = "exists" /\ jobsAt' = 1
  /\ UNCHANGED <<jobsDisk, data, pending, bucket>>

----------------------------------------------------------------------------

(* Upload(force) of the uploader at hand.                                  *)
Item == pending[jobsAt]
Upload == UNCHANGED <<jobsDisk, data, force, jobsResult, runs, before>>

Fail == jobsPc' = "rollback" /\ jobsAt' = Len(pending)

Exists ==
  /\ jobsPc = "exists"
  /\ bucket[Item.remote] # Nothing
  /\ IF force THEN jobsPc' = "copy" /\ UNCHANGED jobsAt ELSE Fail
  /\ Upload /\ UNCHANGED <<pending, bucket>>

ExistsNot ==
  /\ jobsPc = "exists"
  /\ bucket[Item.remote] = Nothing
  /\ jobsPc' = "insert"
  /\ Upload /\ UNCHANGED <<pending, bucket, jobsAt>>

CopyToBackup ==
  /\ jobsPc = "copy"
  /\ bucket' = [bucket EXCEPT ![Item.backup] = bucket[Item.remote]]
  /\ pending' = [pending EXCEPT ![jobsAt].backed_up = TRUE]
  /\ jobsPc' = "insert"
  /\ Upload /\ UNCHANGED jobsAt

Insert ==
  /\ jobsPc = "insert"
  /\ bucket' = [bucket EXCEPT ![Item.remote] = Item.hash]
  /\ jobsPc' = "inserted"
  /\ Upload /\ UNCHANGED <<pending, jobsAt>>

Updated ==
  /\ jobsPc = "inserted"
  /\ pending' = [pending EXCEPT ![jobsAt].updated = TRUE]
  /\ IF jobsAt = Len(pending) THEN jobsPc' = "write" /\ UNCHANGED jobsAt
                              ELSE jobsPc' = "exists" /\ jobsAt' = jobsAt + 1
  /\ Upload /\ UNCHANGED bucket

CloudFails == jobsPc \in {"copy", "insert"} /\ Fail /\ Upload /\ UNCHANGED <<pending, bucket>>

(* _WriteConfigToFile(): the file is opened, which empties it, and filled. *)
OpenConfig ==
  /\ jobsPc = "write"
  /\ jobsDisk' = Nothing
  /\ jobsPc' = "dump"
  /\ UNCHANGED <<data, pending, bucket, jobsAt, force, jobsResult, runs, before>>

DumpConfig ==
  /\ jobsPc = "dump"
  /\ jobsDisk' = data
  /\ jobsPc' = "written"
  /\ UNCHANGED <<data, pending, bucket, jobsAt, force, jobsResult, runs, before>>

DumpFails == jobsPc = "dump" /\ DiskFull /\ Fail /\ Upload /\ UNCHANGED <<pending, bucket>>

Finish ==
  /\ jobsPc = "written"
  /\ pending' = <<>>
  /\ jobsPc' = "idle" /\ jobsAt' = 0 /\ jobsResult' = "done"
  /\ UNCHANGED <<jobsDisk, data, bucket, force, runs, before>>

(* Ctrl+C, at any place within the try.                                    *)
Interrupt ==
  /\ Interrupting
  /\ jobsPc \in {"exists", "copy", "insert", "inserted", "write", "dump", "written"}
  /\ Fail
  /\ Upload /\ UNCHANGED <<pending, bucket>>

----------------------------------------------------------------------------

(* Rollback() of the uploader at hand: the backup is copied back, or the   *)
(* new object removed, or nothing was done.                                *)
RollbackItem ==
  /\ jobsPc = "rollback" /\ jobsAt > 0
  /\ Item.backed_up => bucket[Item.backup] # Nothing
  /\ bucket' = IF Item.backed_up
               THEN [bucket EXCEPT ![Item.remote] = bucket[Item.backup]]
               ELSE IF Item.updated THEN [bucket EXCEPT ![Item.remote] = Nothing]
               ELSE bucket
  /\ pending' = [pending EXCEPT ![jobsAt].updated = FALSE,
                   ![jobsAt].backup = IF Item.backed_up THEN NonePath ELSE @]
  /\ jobsAt' = jobsAt - 1
  /\ UNCHANGED <<jobsDisk, data, jobsPc, force, jobsResult, runs, before>>

(* There is nothing to copy back, or cloud storage fails: the rollback     *)
(* ends here.                                                              *)
RollbackRaises ==
  /\ jobsPc = "rollback" /\ jobsAt > 0
  /\ \/ Item.backed_up /\ bucket[Item.backup] = Nothing
     \/ RollbackFails /\ (Item.backed_up \/ Item.updated)
  /\ jobsPc' = "idle" /\ jobsAt' = 0 /\ jobsResult' = "rollback failed"
  /\ UNCHANGED <<jobsDisk, data, pending, bucket, force, runs, before>>

RolledBack ==
  /\ jobsPc = "rollback" /\ jobsAt = 0
  /\ jobsPc' = "idle" /\ jobsResult' = "failed"
  /\ UNCHANGED <<jobsDisk, data, pending, bucket, jobsAt, force, runs, before>>

JobsNext ==
  \/ \E d \in JobsDeps, h \in JobsHashes : Add(d, h)
  \/ \E d \in JobsDeps, h \in JobsHashes : AddAndExecute(d, h)
  \/ \E d \in JobsDeps : AddRefused(d)
  \/ \E f \in BOOLEAN : Execute(f)
  \/ Exists
  \/ ExistsNot
  \/ CopyToBackup
  \/ Insert
  \/ Updated
  \/ CloudFails
  \/ OpenConfig
  \/ DumpConfig
  \/ DumpFails
  \/ Finish
  \/ Interrupt
  \/ RollbackItem
  \/ RollbackRaises
  \/ RolledBack

JobsSpec == JobsInit /\ [][JobsNext]_jobsVars

----------------------------------------------------------------------------

JobsTypeOK ==
  /\ data \in [JobsDeps -> JobsHashes]
  /\ jobsDisk = Nothing \/ jobsDisk \in [JobsDeps -> JobsHashes]
  /\ bucket \in [Names -> JobsHashes \cup {Nothing, Damaged}]
  /\ Len(pending) <= MaxJobs
  /\ \A i \in DOMAIN pending : /\ pending[i].remote \in Remote
                               /\ pending[i].backup \in Names
                               /\ pending[i].backed_up => pending[i].backup # pending[i].remote
  /\ jobsPc = "idle" => jobsAt = 0
  /\ jobsPc \notin {"idle", "rollback"} => jobsAt \in DOMAIN pending

(* "Both, or neither if either update fails" (base_config.py:205): a call  *)
(* that has failed, and could roll back, leaves the config and every       *)
(* remote path as they were; one that has succeeded has written all.       *)
AllOrNothing ==
  /\ jobsResult = "failed" => /\ jobsDisk = before.disk
                              /\ \A r \in Remote : bucket[r] = before.bucket[r]
  /\ jobsResult = "done" => jobsDisk = data

(* Also when the config cannot be written to its end, the remote paths are *)
(* as they were: the uploads are taken back, the config is not.            *)
RemotesBack ==
  jobsResult = "failed" => \A r \in Remote : bucket[r] = before.bucket[r]

(* After a Ctrl+C, all are but the one whose upload it came upon.          *)
OneLeft ==
  jobsResult = "failed" => Cardinality({r \in Remote : bucket[r] # before.bucket[r]}) <= 1

(* The config on disk never names a file that cannot be downloaded, or     *)
(* that is another one (ExecuteUpdateJobs() writes it last, and takes back *)
(* no upload after that).                                                  *)
NamesWhatIsThere ==
  jobsDisk # Nothing => \A d \in JobsDeps : bucket[<<d, jobsDisk[d], "">>] = jobsDisk[d]
==============================================================================
