------------------------------ MODULE PushFiles ------------------------------
(***************************************************************************)
(* devil.android.device_utils: PushChangedFiles().  For each pair of a     *)
(* host and a device directory the checksums of both sides are compared;   *)
(* then all stale files of the device are removed, if that was asked for,  *)
(* all changed ones are pushed, and what the device must hold now is put   *)
(* into the cache of device checksums.  That cache is always written, and  *)
(* read only when the DeviceUtils was made with it enabled.                *)
(*                                                                         *)
(* A file is its content.  Paths are the ones of files on the device, a    *)
(* directory the set of those below it.                                    *)
(***************************************************************************)
EXTENDS Naturals, Sequences, Functions

CONSTANTS
  Trees,        \* host directories
  Paths,        \* of files on the device
  Below,        \* Below[d]: the paths below the device directory d
  Requests,     \* host_device_tuples: sequences of pairs of a tree and a directory
  TargetOf,     \* TargetOf[t, d]: where the files of the tree go below d
  Contents,
  Cached,       \* enable_device_files_cache
  Deletes,      \* the values of delete_device_stale
  Retries,      \* of the decorator
  Failing,      \* TRUE when a command may raise
  Md5Fails      \* TRUE when md5sum may not be there (EnvironmentError)

PushFilesAssumption ==
  /\ \A r \in Requests : r \in Seq(Trees \X DOMAIN Below) /\ Len(r) > 0
  /\ \A r \in Requests : \A i, j \in 1..Len(r) :
       i # j => TargetOf[r[i]] \cap TargetOf[r[j]] = {}
  /\ \A td \in DOMAIN TargetOf : TargetOf[td] \subseteq Below[td[2]]
  /\ Deletes \subseteq BOOLEAN /\ Retries \in Nat
  /\ {Cached, Failing, Md5Fails} \subseteq BOOLEAN

VARIABLES
  host,         \* host[t]: the files of the tree, by the path they go to
  device,       \* device[p]
  cache,        \* cache[d]: the entry of device_path_checksums
  pc, tuple,    \* where the call is, and at which tuple
  request, delete,
  changed,      \* all_changed_files, with what they are pushed with
  stale,        \* all_stale_files
  commits,      \* cache_commit_funcs: entries of the cache by directory
  tries

vars == <<host, device, cache, pc, tuple, request, delete, changed, stale, commits, tries>>
args == <<request, delete>>

None == "none"
Files == [Paths -> Contents \cup {None}]
Empty == [p \in Paths |-> None]
NoEntry == [sums |-> Empty, ignore |-> FALSE, there |-> FALSE]

Restricted(f, S) == [p \in Paths |-> IF p \in S THEN f[p] ELSE None]
Existing(f) == {p \in Paths : f[p] # None}

(* f, changed on the paths of S to what g says.                            *)
Overwritten(f, g, S) == [p \in Paths |-> IF p \in S THEN g[p] ELSE f[p]]

Init ==
  /\ host \in [Trees -> Files]
  /\ \A t \in Trees : Existing(host[t]) \subseteq UNION {TargetOf[td] : td \in {x \in DOMAIN TargetOf : x[1] = t}}
  /\ device \in Files
  /\ cache = [d \in DOMAIN Below |-> NoEntry]
  /\ pc = "idle" /\ tuple = 1
  /\ request = <<>> /\ delete = FALSE
  /\ changed = Empty /\ stale = {} /\ commits = {}
  /\ tries = 0

Again ==
  /\ tuple' = 1
  /\ changed' = Empty /\ stale' = {} /\ commits' = {}

PushChangedFiles(r, d) ==
  /\ pc = "idle"
  /\ request' = r /\ delete' = d
  /\ pc' = "compare" /\ tries' = 0
  /\ Again
  /\ UNCHANGED <<host, device, cache>>

----------------------------------------------------------------------------

(* _GetChangedAndStaleFiles() for one tuple.                               *)
Tree == request[tuple][1]
Dir == request[tuple][2]

Hits(d, ignore) == Cached /\ cache[d].there /\ cache[d].ignore = ignore

(* calculate_device_checksums(): the entry, or what md5sum says of the     *)
(* files of the tree, or of all files below the directory.                 *)
DeviceSums(d, ignore) ==
  IF Hits(d, ignore) THEN cache[d].sums
  ELSE Restricted(device, IF ignore THEN Existing(host[Tree]) ELSE Below[d])

HostSums == Restricted(host[Tree], TargetOf[request[tuple]])

Compare ==
  /\ pc = "compare" /\ tuple <= Len(request)
  /\ LET ignore == ~delete
         sums == DeviceSums(Dir, ignore)
         push == {p \in Existing(HostSums) : sums[p] # HostSums[p]}
     IN  /\ changed' = Overwritten(changed, HostSums, push)
         /\ stale' = stale \cup (Existing(sums) \ Existing(HostSums))
         /\ cache' = [cache EXCEPT ![Dir] = [sums |-> sums, ignore |-> ignore, there |-> TRUE]]
         /\ commits' = commits \cup
              {<<Dir, [sums |-> HostSums, ignore |-> ignore, there |-> TRUE]>>}
  /\ tuple' = tuple + 1
  /\ UNCHANGED <<host, device, pc, args, tries>>

(* Without md5sum all files are pushed, and nothing is known to be stale.  *)
CompareFails ==
  /\ Md5Fails
  /\ pc = "compare" /\ tuple <= Len(request)
  /\ changed' = Overwritten(changed, HostSums, Existing(HostSums))
  /\ tuple' = tuple + 1
  /\ UNCHANGED <<host, device, cache, pc, args, stale, commits, tries>>

Compared ==
  /\ pc = "compare" /\ tuple > Len(request)
  /\ pc' = "remove"
  /\ UNCHANGED <<host, device, cache, tuple, args, changed, stale, commits, tries>>

----------------------------------------------------------------------------

Remove ==
  /\ pc = "remove"
  /\ device' = Overwritten(device, Empty, IF delete THEN stale ELSE {})
  /\ pc' = "push"
  /\ UNCHANGED <<host, cache, tuple, args, changed, stale, commits, tries>>

(* _PushFilesImpl(), file by file or in one archive.                       *)
Push ==
  /\ pc = "push"
  /\ device' = Overwritten(device, changed, Existing(changed))
  /\ pc' = "commit"
  /\ UNCHANGED <<host, cache, tuple, args, changed, stale, commits, tries>>

(* A command raises: some of its files are done.                           *)
Raises ==
  /\ Failing
  /\ \/ /\ pc = "remove" /\ delete
        /\ \E done \in SUBSET stale : device' = Overwritten(device, Empty, done)
     \/ /\ pc = "push"
        /\ \E done \in SUBSET Existing(changed) : device' = Overwritten(device, changed, done)
  /\ \/ tries < Retries /\ tries' = tries + 1 /\ pc' = "compare"
     \/ tries = Retries /\ tries' = 0 /\ pc' = "idle"
  /\ Again
  /\ UNCHANGED <<host, cache, args>>

Commit ==
  /\ pc = "commit"
  /\ cache' = [d \in DOMAIN cache |->
                 IF \E c \in commits : c[1] = d
                 THEN (CHOOSE c \in commits : c[1] = d)[2] ELSE cache[d]]
  /\ pc' = "done"
  /\ UNCHANGED <<host, device, tuple, args, changed, stale, commits, tries>>

Return ==
  /\ pc = "done"
  /\ pc' = "idle" /\ tries' = 0
  /\ request' = <<>> /\ delete' = FALSE
  /\ Again
  /\ UNCHANGED <<host, device, cache>>

----------------------------------------------------------------------------

(* Between two calls the host's files are built anew, and, while the cache *)
(* is not in use, the device's may be changed by anybody.                  *)
Build(t) ==
  /\ pc = "idle"
  /\ \E p \in UNION {TargetOf[td] : td \in {x \in DOMAIN TargetOf : x[1] = t}},
        c \in Contents \cup {None} : host' = [host EXCEPT ![t][p] = c]
  /\ UNCHANGED <<device, cache, pc, tuple, args, changed, stale, commits, tries>>

Meddle ==
  /\ pc = "idle" /\ ~Cached
  /\ \E p \in Paths, c \in Contents \cup {None} : device' = [device EXCEPT ![p] = c]
  /\ UNCHANGED <<host, cache, pc, tuple, args, changed, stale, commits, tries>>

Next ==
  \/ \E r \in Requests, d \in Deletes : PushChangedFiles(r, d)
  \/ Compare
  \/ CompareFails
  \/ Compared
  \/ Remove
  \/ Push
  \/ Raises
  \/ Commit
  \/ Return
  \/ \E t \in Trees : Build(t)
  \/ Meddle

Spec == Init /\ [][Next]_vars

----------------------------------------------------------------------------

TypeOK ==
  /\ host \in [Trees -> Files] /\ device \in Files
  /\ \A d \in DOMAIN cache : Existing(cache[d].sums) \subseteq Below[d]
  /\ tuple \in 1..(Len(request) + 1)
  /\ tries \in 0..Retries
  /\ stale \cap Existing(changed) = {}

(* PushChangedFiles() returns: each file of each tree is on the device as  *)
(* it is on the host, pushed or skipped.                                   *)
PushedAsAsked ==
  pc = "done" => \A i \in 1..Len(request) : \A p \in TargetOf[request[i]] :
    host[request[i][1]][p] # None => device[p] = host[request[i][1]][p]

(* "if delete_device_stale option is True, files that exist on the device  *)
(* but don't exist on the host are deleted".                               *)
StaleDeleted ==
  pc = "done" /\ delete => \A i \in 1..Len(request) :
    \A p \in Below[request[i][2]] : device[p] # None =>
      \E j \in 1..Len(request) : p \in TargetOf[request[j]] /\ host[request[j][1]][p] # None

(* A call touches no file but those of its directories, and removes none   *)
(* that it was not asked to.                                               *)
NothingElse ==
  pc # "idle" => \A p \in Paths : device'[p] # device[p] =>
       /\ \E i \in 1..Len(request) : p \in Below[request[i][2]]
       /\ device'[p] = None => delete
==============================================================================
