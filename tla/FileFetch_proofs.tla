-------------------------- MODULE FileFetch_proofs --------------------------
(***************************************************************************)
(* Proofs about FileFetch and DependencyConfigs: for any number of         *)
(* processes, hashes and local paths, for any time, for any configs and    *)
(* any dependencies.                                                       *)
(***************************************************************************)
EXTENDS FileFetch, DependencyConfigs, SequenceTheorems, FiniteSetTheorems, WellFoundedInduction, TLAPS

Before == {"read", "compare", "truncate", "stamp", "hash", "download"}
Fetching == {"hash", "download", "downloading", "again", "downloading again", "move", "verify"}
Pcs == {"idle"} \cup Before \cup Fetching

(* What a call knows and has on the disk at each of its points.            *)
CallInv ==
  /\ pc \in [Procs -> Pcs]
  /\ \A p \in Procs :
       /\ pc[p] # "idle" => answer[p] = None
       /\ pc[p] \notin {"idle", "read"} => expected[p] \in Hashes
       /\ pc[p] = "move" => partial[p] \in Hashes
       /\ pc[p] \in Before \cup {"verify"} => partial[p] = None

FetchInv == TypeOK /\ CallInv /\ NeverTorn /\ NothingLeft

(* The steps of one call.                                                  *)
CallStep(p) ==
  \/ Lock(p) \/ NoHashFile(p) \/ ReadHash(p) \/ UpToDate(p) \/ StampUnreadable(p)
  \/ OutOfDate(p) \/ TruncateStamp(p) \/ WriteStamp(p) \/ Matches(p) \/ Differs(p)
  \/ Download(p) \/ Downloaded(p) \/ ServerError(p) \/ DownloadFails(p) \/ Move(p)
  \/ Verified(p) \/ Mismatch(p) \/ Dies(p)

LEMMA NextIsCallStep == Next => Tick \/ Sync \/ \E p \in Procs : CallStep(p)
  BY DEF Next, CallStep

LEMMA InitFetch == ASSUME CloudFetchAssumption PROVE Init => FetchInv
  BY DEF CloudFetchAssumption, Init, FetchInv, TypeOK, CallInv, NeverTorn, NothingLeft, Pcs,
     Before, Fetching

(* A call that ends gives the lock back.                                   *)
LEMMA EndStep ==
  ASSUME CloudFetchAssumption, FetchInv, NEW p \in Procs, pc[p] # "idle",
         NEW a \in Answers, Ends(p, a), UNCHANGED <<clock, sha1>>,
         fetchts' \in {fetchts, None}, UNCHANGED binary,
         UNCHANGED partial \/ partial' = [partial EXCEPT ![p] = None],
         a = "died" \/ partial'[p] = None
  PROVE  FetchInv'
<1>1. \A q \in Procs : pc[q] # "idle" <=> q = p
  BY DEF FetchInv, TypeOK
<1>2. /\ pc' \in [Procs -> Pcs] /\ \A q \in Procs : pc'[q] = "idle"
      /\ answer' \in [Procs -> Answers \cup {None}]
      /\ answer'[p] = a /\ \A q \in Procs \ {p} : answer'[q] = answer[q]
      /\ expected' \in [Procs -> Hashes \cup {None}]
      /\ holder' = None
  BY <1>1 DEF Ends, FetchInv, TypeOK, CallInv, Pcs
<1>3. /\ partial' \in [Procs -> Hashes \cup {"torn", None}]
      /\ \A q \in Procs \ {p} : partial'[q] = partial[q]
  BY DEF FetchInv, TypeOK
<1>4. TypeOK'
  BY <1>2, <1>3 DEF FetchInv, TypeOK, CloudFetchAssumption
<1>5. CallInv'
  BY <1>2 DEF CallInv, Before
<1>6. NeverTorn' /\ NothingLeft'
  BY <1>2, <1>3 DEF FetchInv, NeverTorn, NothingLeft
<1> QED
  BY <1>4, <1>5, <1>6 DEF FetchInv

(* A call that goes on keeps the lock.                                     *)
LEMMA GoesOn ==
  ASSUME CloudFetchAssumption, FetchInv, NEW p \in Procs, NEW b \in Pcs \ {"idle"},
         holder' = p, holder = p \/ (holder = None /\ answer'[p] = None),
         pc' = [pc EXCEPT ![p] = b], UNCHANGED <<clock, sha1>>,
         answer' \in [Procs -> Answers \cup {None}],
         \A q \in Procs : answer'[q] = answer[q] \/ (q = p /\ answer'[q] = None),
         fetchts' \in {fetchts, clock, Empty},
         binary' \in {binary} \cup Hashes,
         expected' \in [Procs -> Hashes \cup {None}],
         \A q \in Procs \ {p} : expected'[q] = expected[q] /\ partial'[q] = partial[q],
         b # "read" => expected'[p] \in Hashes,
         partial' \in [Procs -> Hashes \cup {"torn", None}],
         b = "move" => partial'[p] \in Hashes,
         b \in Before \cup {"verify"} => partial'[p] = None
  PROVE  FetchInv'
<1>1. \A q \in Procs \ {p} : pc[q] = "idle"
  BY DEF FetchInv, TypeOK, CloudFetchAssumption
<1>2. /\ pc' \in [Procs -> Pcs] /\ pc'[p] = b
      /\ \A q \in Procs \ {p} : pc'[q] = "idle"
  BY <1>1 DEF FetchInv, CallInv
<1>3. answer'[p] = None
  BY DEF FetchInv, TypeOK, CallInv, CloudFetchAssumption
<1>4. fetchts' \in (0..clock) \cup {Empty, None} /\ binary' \in Hashes \cup {None}
  BY DEF FetchInv, TypeOK, NeverTorn
<1>5. TypeOK'
  BY <1>2, <1>4 DEF FetchInv, TypeOK, CloudFetchAssumption
<1>6. CallInv'
  BY <1>2, <1>3 DEF CallInv, Before
<1>7. NeverTorn' /\ NothingLeft'
  BY <1>1, <1>3, <1>4 DEF FetchInv, NeverTorn, NothingLeft, CloudFetchAssumption
<1> QED
  BY <1>5, <1>6, <1>7 DEF FetchInv

LEMMA NextFetch == ASSUME CloudFetchAssumption PROVE FetchInv /\ [Next]_vars => FetchInv'
<1> SUFFICES ASSUME FetchInv, [Next]_vars PROVE FetchInv'
  OBVIOUS
<1>1. CASE Tick
  BY <1>1 DEF Tick, call, FetchInv, TypeOK, CallInv, NeverTorn, NothingLeft, CloudFetchAssumption
<1>2. CASE Sync
  BY <1>2 DEF Sync, call, FetchInv, TypeOK, CallInv, NeverTorn, NothingLeft
<1>3. ASSUME NEW p \in Procs, CallStep(p) PROVE FetchInv'
  <2> /\ p # None
      /\ pc \in [Procs -> Pcs] /\ expected \in [Procs -> Hashes \cup {None}]
      /\ partial \in [Procs -> Hashes \cup {"torn", None}]
      /\ answer \in [Procs -> Answers \cup {None}]
      /\ pc[p] # "idle" <=> holder = p
      /\ sha1 # None => sha1.hash \in Hashes
    BY DEF FetchInv, TypeOK, CallInv, CloudFetchAssumption
  <2> /\ pc[p] \notin {"idle", "read"} => expected[p] \in Hashes
      /\ pc[p] = "move" => partial[p] \in Hashes
      /\ pc[p] \in Before \cup {"verify"} => partial[p] = None
    BY DEF FetchInv, CallInv
  <2>1. CASE \/ NoHashFile(p) \/ UpToDate(p) \/ StampUnreadable(p) \/ Matches(p)
             \/ DownloadFails(p) \/ Verified(p) \/ Mismatch(p) \/ Dies(p)
    <3> USE EndStep
    <3>1. CASE NoHashFile(p)
      BY <3>1 DEF NoHashFile, Answers, Before
    <3>2. CASE UpToDate(p)
      BY <3>2 DEF UpToDate, Answers, Before
    <3>3. CASE StampUnreadable(p)
      BY <3>3 DEF StampUnreadable, Answers, Before
    <3>4. CASE Matches(p)
      BY <3>4 DEF Matches, Answers, Before
    <3>5. CASE DownloadFails(p)
      BY <3>5 DEF DownloadFails, Downloading, Answers
    <3>6. CASE Verified(p)
      BY <3>6 DEF Verified, Answers
    <3>7. CASE Mismatch(p)
      BY <3>7 DEF Mismatch, Answers
    <3>8. CASE Dies(p)
      BY <3>8 DEF Dies, Answers
    <3> QED
      BY <2>1, <3>1, <3>2, <3>3, <3>4, <3>5, <3>6, <3>7, <3>8
  <2>2. CASE \/ Lock(p) \/ ReadHash(p) \/ OutOfDate(p) \/ TruncateStamp(p) \/ WriteStamp(p)
             \/ Differs(p) \/ Download(p) \/ Downloaded(p) \/ ServerError(p) \/ Move(p)
    <3> USE GoesOn DEF Goto, Pcs, Before, Fetching
    <3>1. CASE Lock(p)
      BY <3>1 DEF Lock
    <3>2. CASE ReadHash(p)
      BY <3>2 DEF ReadHash
    <3>3. CASE OutOfDate(p)
      BY <3>3 DEF OutOfDate
    <3>4. CASE TruncateStamp(p)
      BY <3>4 DEF TruncateStamp
    <3>5. CASE WriteStamp(p)
      BY <3>5 DEF WriteStamp
    <3>6. CASE Differs(p)
      BY <3>6 DEF Differs
    <3>7. CASE Download(p)
      BY <3>7 DEF Download
    <3>8. CASE Downloaded(p)
      <4>1. PICK h \in IF Wrong THEN Hashes ELSE {expected[p]} :
              partial' = [partial EXCEPT ![p] = h]
        BY <3>8 DEF Downloaded
      <4>2. h \in Hashes
        BY <3>8, <4>1 DEF Downloaded, Downloading
      <4> QED
        BY <3>8, <4>1, <4>2 DEF Downloaded, Downloading
    <3>9. CASE ServerError(p)
      BY <3>9 DEF ServerError
    <3>10. CASE Move(p)
      BY <3>10 DEF Move
    <3> QED
      BY <2>2, <3>1, <3>2, <3>3, <3>4, <3>5, <3>6, <3>7, <3>8, <3>9, <3>10
  <2> QED
    BY <1>3, <2>1, <2>2 DEF CallStep
<1>4. CASE UNCHANGED vars
  BY <1>4 DEF vars, FetchInv, TypeOK, CallInv, NeverTorn, NothingLeft
<1> QED
  BY <1>1, <1>2, <1>3, <1>4, NextIsCallStep

(* Whatever fails, and whoever dies, the binary that others read is never  *)
(* a torn one (_GetLocked(), cloud_storage.py:346).                        *)
THEOREM BinaryIsWhole == ASSUME CloudFetchAssumption PROVE Spec => [](TypeOK /\ NeverTorn)
<1>1. FetchInv => TypeOK /\ NeverTorn
  BY DEF FetchInv
<1> QED
  BY InitFetch, NextFetch, <1>1, PTL DEF Spec

(* A call leaves no temporary file unless its process died (_GetLocked()). *)
THEOREM TemporaryIsRemoved == ASSUME CloudFetchAssumption PROVE Spec => []NothingLeft
<1>1. FetchInv => NothingLeft
  BY DEF FetchInv
<1> QED
  BY InitFetch, NextFetch, <1>1, PTL DEF Spec

----------------------------------------------------------------------------
(***************************************************************************)
(* The answers of a call, while downloads do not fail, no process dies and *)
(* .sha1 does not change under the comparison.                             *)
(***************************************************************************)

FreshStamp == sha1 # None /\ fetchts \notin {None, Empty} /\ FetchedSince(fetchts)

(* A stamp newer than .sha1 is of the binary of its hash, or of a call     *)
(* that is about to fetch it.                                              *)
StampInv ==
  /\ \A p \in Procs :
       /\ pc[p] \in {"compare", "truncate", "stamp"} => sha1 # None /\ expected[p] = sha1.hash
       /\ pc[p] \in Fetching /\ FreshStamp => expected[p] = sha1.hash
  /\ FreshStamp /\ (\A p \in Procs : pc[p] \notin Fetching) => binary = sha1.hash

FreshInv == FetchInv /\ StampInv

Settled == ~Failing /\ ~Dying /\ ~Racing

LEMMA InitFresh == ASSUME CloudFetchAssumption PROVE Init => FreshInv
<1>1. Init => StampInv
  BY DEF Init, StampInv, FreshStamp, Fetching
<1> QED
  BY <1>1, InitFetch DEF FreshInv

LEMMA NextFresh ==
  ASSUME CloudFetchAssumption, Settled PROVE FreshInv /\ [Next]_vars => FreshInv'
<1> SUFFICES ASSUME FreshInv, [Next]_vars PROVE StampInv'
  BY NextFetch DEF FreshInv
<1>1. /\ clock \in Nat
      /\ fetchts \in (0..clock) \cup {Empty, None}
      /\ sha1 # None => sha1.mtime \in Nat
  BY DEF FreshInv, FetchInv, TypeOK, CloudFetchAssumption
<1>2. CASE Tick
  BY <1>2 DEF Tick, call, FreshInv, StampInv, FreshStamp, FetchedSince
<1>3. CASE Sync
  <2>1. sha1'.mtime = clock /\ UNCHANGED <<clock, fetchts, pc, expected>>
    BY <1>3 DEF Sync, call
  <2>2. ~FreshStamp'
    BY <1>1, <2>1 DEF FreshStamp, FetchedSince
  <2>3. \A p \in Procs : pc'[p] \notin {"compare", "truncate", "stamp"}
    BY <1>3, <2>1 DEF Sync, Settled
  <2> QED
    BY <2>2, <2>3 DEF StampInv
<1>4. ASSUME NEW p \in Procs, CallStep(p) PROVE StampInv'
  <2>1. /\ pc \in [Procs -> Pcs] /\ expected \in [Procs -> Hashes \cup {None}]
        /\ UNCHANGED sha1
    BY <1>4 DEF FreshInv, FetchInv, TypeOK, CallInv, CallStep, Lock, NoHashFile, ReadHash, UpToDate,
       StampUnreadable, OutOfDate, TruncateStamp, WriteStamp, Matches, Differs, Download,
       Downloaded, ServerError, DownloadFails, Move, Verified, Mismatch, Dies
  <2>2. \A q \in Procs \ {p} : pc[q] = "idle"
    <3>1. pc[p] = "idle" => holder = None
      BY <1>4 DEF CallStep, Lock, Goto, NoHashFile, ReadHash, UpToDate, StampUnreadable, OutOfDate,
         TruncateStamp, WriteStamp, Matches, Differs, Download, Downloaded, Downloading, ServerError,
         DownloadFails, Move, Verified, Mismatch, Dies
    <3> QED
      BY <3>1 DEF FreshInv, FetchInv, TypeOK, CloudFetchAssumption
  <2>3. /\ pc[p] \in {"compare", "truncate", "stamp"} => sha1 # None /\ expected[p] = sha1.hash
        /\ pc[p] \in Fetching /\ FreshStamp => expected[p] = sha1.hash
        /\ pc[p] \notin Fetching /\ FreshStamp => binary = sha1.hash
    BY <2>2 DEF FreshInv, StampInv, Fetching
  <2>4. CASE Ends(p, "no hash") \/ Ends(p, "same") \/ Ends(p, "fetched") \/ Ends(p, "ValueError")
             \/ Ends(p, "RuntimeError")
    <3>1. \A q \in Procs : pc'[q] = "idle"
      BY <2>1, <2>2, <2>4 DEF Ends
    <3>2. FreshStamp' => binary' = sha1.hash
      <4>1. CASE NoHashFile(p) \/ UpToDate(p) \/ StampUnreadable(p)
        BY <2>1, <2>3, <4>1 DEF NoHashFile, UpToDate, StampUnreadable, FreshStamp, FetchedSince,
           Fetching
      <4>2. CASE Matches(p) \/ Verified(p)
        BY <2>1, <2>3, <4>2 DEF Matches, Verified, FreshStamp, FetchedSince, Fetching
      <4>3. CASE Mismatch(p)
        BY <4>3 DEF Mismatch, FreshStamp
      <4> QED
        BY <1>4, <2>1, <2>4, <4>1, <4>2, <4>3 DEF CallStep, Ends, Lock, Goto, ReadHash, OutOfDate,
           TruncateStamp, WriteStamp, Differs, Download, Downloaded, ServerError, DownloadFails,
           Move, Dies, Settled
    <3> QED
      BY <2>1, <3>1, <3>2 DEF StampInv, Fetching
  <2>5. CASE ~(Ends(p, "no hash") \/ Ends(p, "same") \/ Ends(p, "fetched")
               \/ Ends(p, "ValueError") \/ Ends(p, "RuntimeError"))
    <3>1. /\ \A q \in Procs \ {p} : pc'[q] = "idle"
          /\ \/ Lock(p) \/ ReadHash(p) \/ OutOfDate(p) \/ TruncateStamp(p) \/ WriteStamp(p)
             \/ Differs(p) \/ Download(p) \/ Downloaded(p) \/ Move(p)
      BY <1>4, <2>1, <2>2, <2>5 DEF CallStep, Goto, Lock, ReadHash, OutOfDate, TruncateStamp,
         WriteStamp, Differs, Download, Downloaded, Move, NoHashFile, UpToDate, StampUnreadable,
         Matches, ServerError, DownloadFails, Verified, Mismatch, Dies, Settled
    <3>2. CASE Lock(p) \/ ReadHash(p) \/ OutOfDate(p) \/ TruncateStamp(p) \/ WriteStamp(p)
      <4>1. pc'[p] \in {"compare", "truncate", "stamp"} => sha1 # None /\ expected'[p] = sha1.hash
        BY <2>1, <2>3, <3>2 DEF Lock, ReadHash, OutOfDate, TruncateStamp, WriteStamp, Goto
      <4>2. pc'[p] \in Fetching => expected'[p] = sha1.hash
        BY <2>1, <2>3, <3>2 DEF Lock, ReadHash, OutOfDate, TruncateStamp, WriteStamp, Goto, Fetching
      <4>3. pc'[p] \notin Fetching /\ FreshStamp' => binary' = sha1.hash
        BY <2>1, <2>3, <3>2 DEF Lock, ReadHash, OutOfDate, TruncateStamp, WriteStamp, Goto, Fetching,
           FreshStamp, FetchedSince
      <4> QED
        BY <2>1, <3>1, <4>1, <4>2, <4>3 DEF StampInv, Fetching
    <3>3. CASE Differs(p) \/ Download(p) \/ Downloaded(p) \/ Move(p)
      <4>1. /\ pc[p] \in Fetching /\ pc'[p] \in Fetching
            /\ UNCHANGED <<fetchts, expected>>
        BY <2>1, <3>3 DEF Differs, Download, Downloaded, Downloading, Move, Goto, Fetching
      <4>2. FreshStamp' => FreshStamp
        BY <2>1, <4>1 DEF FreshStamp, FetchedSince
      <4> QED
        BY <2>1, <2>3, <3>1, <4>1, <4>2 DEF StampInv, Fetching
    <3> QED
      BY <3>1, <3>2, <3>3
  <2> QED
    BY <2>4, <2>5
<1>5. CASE UNCHANGED vars
  BY <1>5 DEF vars, FreshInv, StampInv, FreshStamp, FetchedSince
<1> QED
  BY <1>2, <1>3, <1>4, <1>5, NextIsCallStep

LEMMA StepIsFresh ==
  ASSUME CloudFetchAssumption, Settled PROVE FreshInv /\ [Next]_vars => Fresh
<1> SUFFICES ASSUME FreshInv, [Next]_vars, NEW q \in Procs, pc[q] # "idle", pc'[q] = "idle",
                    answer'[q] \in {"same", "fetched"}
             PROVE  binary' = expected[q]
  BY DEF Fresh
<1>1. pc \in [Procs -> Pcs] /\ answer \in [Procs -> Answers \cup {None}]
  BY DEF FreshInv, FetchInv, TypeOK, CallInv
<1>2. PICK p \in Procs : CallStep(p)
  BY NextIsCallStep DEF Tick, Sync, call, vars
<1>3. p = q
  BY <1>1, <1>2 DEF CallStep, Lock, Goto, NoHashFile, ReadHash, UpToDate, StampUnreadable, OutOfDate,
     TruncateStamp, WriteStamp, Matches, Differs, Download, Downloaded, Downloading, ServerError,
     DownloadFails, Move, Verified, Mismatch, Dies, Ends
<1>4. UpToDate(q) \/ Matches(q) \/ Verified(q)
  BY <1>1, <1>2, <1>3 DEF CallStep, Lock, Goto, NoHashFile, ReadHash, StampUnreadable, OutOfDate,
     TruncateStamp, WriteStamp, Differs, Download, Downloaded, Downloading, ServerError,
     DownloadFails, Move, Mismatch, Dies, Ends
<1>5. CASE UpToDate(q)
  <2>1. \A r \in Procs : pc[r] \notin Fetching
    BY <1>5 DEF UpToDate, FreshInv, FetchInv, TypeOK, Fetching
  <2>2. sha1 # None /\ expected[q] = sha1.hash /\ FreshStamp /\ UNCHANGED binary
    BY <1>5 DEF UpToDate, Stamped, FreshInv, StampInv, FreshStamp
  <2> QED
    BY <2>1, <2>2 DEF FreshInv, StampInv
<1>6. CASE Matches(q) \/ Verified(q)
  BY <1>6 DEF Matches, Verified
<1> QED
  BY <1>4, <1>5, <1>6

(* While downloads do not fail, no process dies and .sha1 does not change  *)
(* under the comparison, the comparison of the times stands for the one of *)
(* the hashes, even if the bucket has the wrong object (GetIfChanged()).   *)
THEOREM AnswersAreFresh ==
  ASSUME CloudFetchAssumption, ~Failing, ~Dying, ~Racing PROVE Spec => [][Fresh]_vars
<1>1. Settled
  BY DEF Settled
<1> QED
  BY <1>1, InitFresh, NextFresh, StepIsFresh, PTL DEF Spec

----------------------------------------------------------------------------
(***************************************************************************)
(* The fetch of a dependency.                                              *)
(***************************************************************************)

LessThan == {pair \in Nat \X Nat : pair[1] < pair[2]}

LEMMA Least ==
  ASSUME NEW S \in SUBSET Nat, S # {}
  PROVE  \E i \in S : \A j \in S : i <= j
<1>1. IsWellFoundedOn(LessThan, Nat)
  BY NatLessThanWellFounded DEF OpToRel, LessThan
<1>2. PICK i \in S : \A j \in S : ~(<<j, i>> \in LessThan)
  BY <1>1, WFMin
<1>3. ASSUME NEW j \in S PROVE i <= j
  <2>1. <<j, i>> \in Nat \X Nat /\ ~(<<j, i>> \in LessThan)
    BY <1>2
  <2>2. ~(j < i)
    BY <2>1 DEF LessThan
  <2> QED
    BY <2>2
<1> QED
  BY <1>3

(* The path that is chosen exists, and none before it does.                *)
LEMMA LocalPathIsFirst ==
  ASSUME DependencyFetchAssumption, local \subseteq ToSet(LocalPaths), local # {}
  PROVE  \E i \in DOMAIN LocalPaths : /\ GetLocalPath = LocalPaths[i]
                                      /\ LocalPaths[i] \in local
                                      /\ \A j \in 1..(i - 1) : LocalPaths[j] \notin local
<1> DEFINE First(i) == /\ LocalPaths[i] \in local
                       /\ \A j \in 1..(i - 1) : LocalPaths[j] \notin local
           S == {i \in DOMAIN LocalPaths : LocalPaths[i] \in local}
<1>1. DOMAIN LocalPaths = 1..Len(LocalPaths) /\ Len(LocalPaths) \in Nat
  BY DEF DependencyFetchAssumption
<1>2. S # {} /\ S \in SUBSET Nat
  BY <1>1 DEF ToSet
<1>3. PICK i \in S : \A j \in S : i <= j
  BY <1>2, Least
<1>4. First(i)
  <2> SUFFICES ASSUME NEW j \in 1..(i - 1) PROVE LocalPaths[j] \notin local
    OBVIOUS
  <2>1. j \in DOMAIN LocalPaths /\ ~(i <= j)
    BY <1>1
  <2> QED
    BY <1>3, <2>1
<1>5. \E k \in DOMAIN LocalPaths : First(k)
  BY <1>4
<1>6. GetLocalPath = LocalPaths[CHOOSE k \in DOMAIN LocalPaths : First(k)]
  BY DEF GetLocalPath
<1> HIDE DEF First
<1>7. (CHOOSE k \in DOMAIN LocalPaths : First(k)) \in DOMAIN LocalPaths
      /\ First(CHOOSE k \in DOMAIN LocalPaths : First(k))
  BY <1>5
<1> QED
  BY <1>6, <1>7 DEF First

ZipPcs == {"idle", "local", "lock", "hash", "unzip?", "make", "extract", "extracting", "check"}
Results == ToSet(LocalPaths) \cup {"path", "error", "died", "CloudStorageError", "ArchiveError", ZipNone}
Contents == {ZipNone} \cup [of : ZipHashes \cup {ZipNone}, part : {"empty", "part", "whole"}]

ZipInv ==
  /\ ZipTypeOK
  /\ lock \in ZipProcs \cup {ZipNone}
  /\ unzipped \in [ZipHashes -> Contents]
  /\ zipPc \in [ZipProcs -> ZipPcs]
  /\ result \in [ZipProcs -> Results]

(* The steps of one program.                                               *)
ZipStep(p) ==
  \/ Begin(p) \/ Local(p) \/ NotLocal(p) \/ LockPath(p) \/ HashMatches(p) \/ ZipDownload(p)
  \/ ZipDownloadFails(p) \/ AlreadyUnzipped(p) \/ RemoveStale(p) \/ MakeDirs(p) \/ Extract(p)
  \/ ExtractRest(p) \/ ExtractFails(p) \/ Unzipped(p) \/ ZipDies(p)

LEMMA InitZip == ASSUME DependencyFetchAssumption PROVE ZipInit => ZipInv
  BY DEF DependencyFetchAssumption, ZipInit, ZipInv, ZipTypeOK, Contents, ZipPcs, Results

LEMMA ResultOfLocal ==
  ASSUME DependencyFetchAssumption, ZipInv, GetLocalPath # ZipNone
  PROVE  GetLocalPath \in ToSet(LocalPaths)
<1>1. local # {} /\ local \subseteq ToSet(LocalPaths)
  BY DEF GetLocalPath, ZipInv, ZipTypeOK
<1> QED
  BY <1>1, LocalPathIsFirst

(* A step changes what one program knows, and the directory of its hash or *)
(* all of them.                                                            *)
LEMMA ZipShape ==
  ASSUME DependencyFetchAssumption, ZipInv, NEW p \in ZipProcs, ZipStep(p)
  PROVE  /\ zipPc' \in [ZipProcs -> ZipPcs] /\ want' \in [ZipProcs -> ZipHashes]
         /\ source' \in [ZipProcs -> ZipHashes \cup {ZipNone}]
         /\ result' \in [ZipProcs -> Results]
         /\ \A q \in ZipProcs \ {p} : /\ zipPc'[q] = zipPc[q] /\ want'[q] = want[q]
                                       /\ source'[q] = source[q] /\ result'[q] = result[q]
         /\ UNCHANGED local
<1> /\ zipPc \in [ZipProcs -> ZipPcs] /\ want \in [ZipProcs -> ZipHashes]
    /\ source \in [ZipProcs -> ZipHashes \cup {ZipNone}] /\ result \in [ZipProcs -> Results]
    /\ archive \in ZipHashes \cup {ZipNone}
  BY DEF ZipInv, ZipTypeOK
<1> USE DEF ZipGoto, ZipEnds, disk, ZipPcs
<1>1. CASE Begin(p)
  <2>1. PICK h \in ZipHashes : want' = [want EXCEPT ![p] = h]
    BY <1>1 DEF Begin
  <2> QED
    BY <1>1, <2>1 DEF Begin, Results
<1>2. CASE Local(p)
  <2>1. GetLocalPath \in Results
    BY <1>2, ResultOfLocal DEF Local, Results
  <2> QED
    BY <1>2, <2>1 DEF Local
<1>3. CASE NotLocal(p) \/ LockPath(p) \/ HashMatches(p) \/ ZipDownload(p)
  BY <1>3 DEF NotLocal, LockPath, HashMatches, ZipDownload
<1>4. CASE ZipDownloadFails(p) \/ AlreadyUnzipped(p) \/ ExtractFails(p) \/ ZipDies(p)
  BY <1>4 DEF ZipDownloadFails, AlreadyUnzipped, ExtractFails, ZipDies, Results
<1>5. CASE RemoveStale(p) \/ MakeDirs(p) \/ Extract(p) \/ ExtractRest(p)
  BY <1>5 DEF RemoveStale, MakeDirs, Extract, ExtractRest
<1>6. CASE Unzipped(p)
  BY <1>6 DEF Unzipped, Results
<1> QED
  BY <1>1, <1>2, <1>3, <1>4, <1>5, <1>6 DEF ZipStep

LEMMA NextZip == ASSUME DependencyFetchAssumption PROVE ZipInv /\ [ZipNext]_zipVars => ZipInv'
<1> SUFFICES ASSUME ZipInv, [ZipNext]_zipVars PROVE ZipInv'
  OBVIOUS
<1>1. CASE Build
  BY <1>1 DEF Build, ZipInv, ZipTypeOK
<1>2. ASSUME NEW p \in ZipProcs, ZipStep(p) PROVE ZipInv'
  <2>1. /\ archive' \in ZipHashes \cup {ZipNone} /\ lock' \in ZipProcs \cup {ZipNone}
    BY <1>2 DEF ZipStep, Begin, Local, NotLocal, LockPath, HashMatches, ZipDownload,
       ZipDownloadFails, AlreadyUnzipped, RemoveStale, MakeDirs, Extract, ExtractRest, ExtractFails,
       Unzipped, ZipDies, disk, ZipInv, ZipTypeOK
  <2>2. lock' # ZipNone => zipPc'[lock'] = "hash"
    BY <1>2 DEF ZipStep, Begin, Local, NotLocal, LockPath, HashMatches, ZipDownload,
       ZipDownloadFails, AlreadyUnzipped, RemoveStale, MakeDirs, Extract, ExtractRest, ExtractFails,
       Unzipped, ZipDies, disk, ZipInv, ZipTypeOK, ZipGoto, ZipEnds
  <2>3. unzipped' \in [ZipHashes -> Contents]
    <3> /\ unzipped \in [ZipHashes -> Contents] /\ want[p] \in ZipHashes
        /\ source[p] \in ZipHashes \cup {ZipNone}
      BY DEF ZipInv, ZipTypeOK
    <3>1. CASE RemoveStale(p)
      BY <3>1 DEF RemoveStale, Contents
    <3>2. CASE MakeDirs(p)
      <4>1. [of |-> ZipNone, part |-> "empty"] \in Contents
        BY DEF Contents
      <4> QED
        BY <3>2, <4>1 DEF MakeDirs
    <3>3. CASE Extract(p)
      <4>1. [of |-> source[p], part |-> "part"] \in Contents
        BY DEF Contents
      <4> QED
        BY <3>3, <4>1 DEF Extract
    <3>4. CASE ExtractRest(p)
      <4>1. \A x \in {"part", "whole"} : [of |-> source[p], part |-> x] \in Contents
        BY DEF Contents
      <4>2. PICK x \in {"part", "whole"} :
              unzipped' = [unzipped EXCEPT ![want[p]] = [of |-> source[p], part |-> x]]
        BY <3>4 DEF ExtractRest
      <4> QED
        BY <4>1, <4>2
    <3>5. CASE ExtractFails(p)
      <4>1. ZipNone \in Contents
        BY DEF Contents
      <4> QED
        BY <3>5, <4>1 DEF ExtractFails
    <3>6. CASE UNCHANGED unzipped
      BY <3>6
    <3> QED
      BY <1>2, <3>1, <3>2, <3>3, <3>4, <3>5, <3>6 DEF ZipStep, Begin, Local, NotLocal, LockPath,
         HashMatches, ZipDownload, ZipDownloadFails, AlreadyUnzipped, Unzipped, ZipDies, disk
  <2>5. halted' \subseteq ZipHashes
    <3>1. halted \subseteq ZipHashes /\ want[p] \in ZipHashes
      BY DEF ZipInv, ZipTypeOK
    <3>2. CASE ZipDies(p)
      BY <3>1, <3>2 DEF ZipDies
    <3>3. CASE ~ZipDies(p)
      <4>1. halted' \in {halted, {}}
        BY <1>2, <3>3 DEF ZipStep, Begin, Local, NotLocal, LockPath, HashMatches, ZipDownload,
           ZipDownloadFails, AlreadyUnzipped, RemoveStale, MakeDirs, Extract, ExtractRest,
           ExtractFails, Unzipped, disk
      <4> QED
        BY <3>1, <4>1
    <3> QED
      BY <3>2, <3>3
  <2>4. ZipTypeOK'
    <3>1. \A h \in ZipHashes : unzipped'[h] \in Contents
      BY <2>3
    <3> QED
      BY <1>2, <2>1, <2>2, <2>5, <3>1, ZipShape DEF ZipTypeOK, ZipInv, Contents
  <2> QED
    BY <1>2, <2>1, <2>3, <2>4, ZipShape DEF ZipInv
<1>3. CASE UNCHANGED zipVars
  BY <1>3 DEF zipVars, ZipInv, ZipTypeOK
<1> QED
  BY <1>1, <1>2, <1>3 DEF ZipNext, ZipStep

----------------------------------------------------------------------------
(***************************************************************************)
(* The local path, and the archive, while one program at a time fetches.   *)
(***************************************************************************)

LEMMA StepKeepsPrecedence ==
  ASSUME DependencyFetchAssumption PROVE ZipInv /\ [ZipNext]_zipVars => Precedence
<1> SUFFICES ASSUME ZipInv, [ZipNext]_zipVars, NEW q \in ZipProcs, NEW i \in DOMAIN LocalPaths,
                    zipPc[q] = "local", zipPc'[q] = "idle", result'[q] # "died",
                    LocalPaths[i] \in local
             PROVE  result'[q] \in {LocalPaths[j] : j \in 1..i} \cap local
  BY DEF Precedence
<1>1. zipPc \in [ZipProcs -> ZipPcs] /\ result \in [ZipProcs -> Results]
  BY DEF ZipInv
<1>2. PICK p \in ZipProcs : ZipStep(p)
  BY DEF ZipNext, ZipStep, Build, zipVars
<1>3. p = q
  BY <1>2, ZipShape
<1>4. Local(q)
  BY <1>1, <1>2, <1>3 DEF ZipStep, Begin, NotLocal, LockPath, HashMatches, ZipDownload,
     ZipDownloadFails, AlreadyUnzipped, RemoveStale, MakeDirs, Extract, ExtractRest, ExtractFails,
     Unzipped, ZipDies, ZipGoto, ZipEnds
<1>5. result'[q] = GetLocalPath
  BY <1>1, <1>4 DEF Local, ZipEnds
<1>6. local # {} /\ local \subseteq ToSet(LocalPaths)
  BY DEF ZipInv, ZipTypeOK
<1>7. PICK k \in DOMAIN LocalPaths : /\ GetLocalPath = LocalPaths[k]
                                     /\ LocalPaths[k] \in local
                                     /\ \A j \in 1..(k - 1) : LocalPaths[j] \notin local
  BY <1>6, LocalPathIsFirst
<1>8. DOMAIN LocalPaths = 1..Len(LocalPaths) /\ Len(LocalPaths) \in Nat
  BY DEF DependencyFetchAssumption
<1>9. k \in 1..i
  <2>1. i \notin 1..(k - 1)
    BY <1>7
  <2> QED
    BY <1>8, <2>1
<1> QED
  BY <1>5, <1>7, <1>9

(* The local file that is taken is the one of the config of the highest    *)
(* precedence, for any list of paths, whatever is built or removed beside  *)
(* the call (DependencyManager.__init__()).                                *)
THEOREM LocalPathHasPrecedence ==
  ASSUME DependencyFetchAssumption PROVE ZipSpec => [][Precedence]_zipVars
  BY InitZip, NextZip, StepKeepsPrecedence, PTL DEF ZipSpec

(* Nothing is unzipped but c, in the directory of p's hash.                *)
Only(p, c) == \A h \in ZipHashes : unzipped[h] = IF h = want[p] THEN c ELSE ZipNone

Unzipping == {"make", "extract", "extracting", "check"}

(* What one program, alone, finds at each of its points.                   *)
AloneInv ==
  /\ \A p, q \in ZipProcs : zipPc[p] # "idle" /\ zipPc[q] # "idle" => p = q
  /\ \A p \in ZipProcs :
       /\ zipPc[p] \in {"unzip?", "make"} => archive = want[p]
       /\ zipPc[p] \in {"extract", "extracting"} => source[p] = want[p]
       /\ zipPc[p] \in Unzipping => halted = {}
       /\ zipPc[p] = "make" => Only(p, ZipNone)
       /\ zipPc[p] = "extract" => Only(p, [of |-> ZipNone, part |-> "empty"])
       /\ zipPc[p] = "extracting" => Only(p, [of |-> want[p], part |-> "part"])
       /\ zipPc[p] = "check" => Only(p, [of |-> want[p], part |-> "whole"])
  /\ NothingHalf

LEMMA InitAlone == ASSUME DependencyFetchAssumption PROVE ZipInit => AloneInv
  BY DEF ZipInit, AloneInv, NothingHalf, Unzipping

(* It is enough to look at the program that takes the step.                *)
LEMMA AloneShape ==
  ASSUME DependencyFetchAssumption, ZipInv, NEW p \in ZipProcs, ZipStep(p),
         \A q \in ZipProcs \ {p} : zipPc[q] = "idle",
         zipPc'[p] \in {"unzip?", "make"} => archive' = want'[p],
         zipPc'[p] \in {"extract", "extracting"} => source'[p] = want'[p],
         zipPc'[p] \in Unzipping => halted' = {},
         zipPc'[p] = "make" => Only(p, ZipNone)',
         zipPc'[p] = "extract" => Only(p, [of |-> ZipNone, part |-> "empty"])',
         zipPc'[p] = "extracting" => Only(p, [of |-> want[p], part |-> "part"])',
         zipPc'[p] = "check" => Only(p, [of |-> want[p], part |-> "whole"])',
         zipPc'[p] \notin Unzipping => \A h \in ZipHashes \ halted' : unzipped'[h] # ZipNone =>
            unzipped'[h] = [of |-> h, part |-> "whole"]
  PROVE  AloneInv'
<1>1. \A q \in ZipProcs \ {p} : zipPc'[q] = "idle"
  BY ZipShape
<1>2. NothingHalf'
  BY DEF NothingHalf, Unzipping
<1> QED
  BY <1>1, <1>2 DEF AloneInv, Unzipping

LEMMA NextAlone ==
  ASSUME DependencyFetchAssumption, Alone
  PROVE  ZipInv /\ AloneInv /\ [ZipNext]_zipVars => AloneInv'
<1> SUFFICES ASSUME ZipInv, AloneInv, [ZipNext]_zipVars PROVE AloneInv'
  OBVIOUS
<1>1. CASE Build
  BY <1>1 DEF Build, AloneInv, NothingHalf, Only, Unzipping
<1>2. ASSUME NEW p \in ZipProcs, ZipStep(p) PROVE AloneInv'
  <2> /\ zipPc \in [ZipProcs -> ZipPcs] /\ want \in [ZipProcs -> ZipHashes]
      /\ source \in [ZipProcs -> ZipHashes \cup {ZipNone}]
      /\ unzipped \in [ZipHashes -> Contents]
    BY DEF ZipInv, ZipTypeOK
  <2>1. \A q \in ZipProcs \ {p} : zipPc[q] = "idle"
    <3>1. CASE zipPc[p] # "idle"
      BY <3>1 DEF AloneInv
    <3>2. CASE zipPc[p] = "idle"
      BY <1>2, <3>2 DEF ZipStep, Begin, Local, NotLocal, LockPath, HashMatches, ZipDownload,
         ZipDownloadFails, AlreadyUnzipped, RemoveStale, MakeDirs, Extract, ExtractRest,
         ExtractFails, Unzipped, ZipDies, ZipGoto
    <3> QED
      BY <3>1, <3>2
  <2>2. zipPc[p] \notin Unzipping => \A h \in ZipHashes \ halted : unzipped[h] # ZipNone =>
          unzipped[h] = [of |-> h, part |-> "whole"]
    BY <2>1 DEF AloneInv, NothingHalf, Unzipping
  <2>3. /\ zipPc[p] \in {"unzip?", "make"} => archive = want[p]
        /\ zipPc[p] \in {"extract", "extracting"} => source[p] = want[p]
        /\ zipPc[p] \in Unzipping => halted = {}
        /\ zipPc[p] = "make" => Only(p, ZipNone)
        /\ zipPc[p] = "extract" => Only(p, [of |-> ZipNone, part |-> "empty"])
        /\ zipPc[p] = "extracting" => Only(p, [of |-> want[p], part |-> "part"])
        /\ zipPc[p] = "check" => Only(p, [of |-> want[p], part |-> "whole"])
    BY DEF AloneInv
  <2> USE DEF ZipGoto, ZipEnds, disk, Unzipping
  <2>4. CASE Begin(p)
    BY <1>2, <2>1, <2>2, <2>4, AloneShape DEF Begin
  <2>5. CASE Local(p) \/ NotLocal(p) \/ LockPath(p) \/ HashMatches(p) \/ ZipDownload(p)
             \/ ZipDownloadFails(p) \/ AlreadyUnzipped(p)
    <3>1. /\ zipPc[p] \notin Unzipping /\ zipPc'[p] \notin Unzipping
          /\ UNCHANGED <<unzipped, halted, want>>
          /\ zipPc'[p] = "unzip?" => archive' = want[p]
      BY <2>5 DEF Local, NotLocal, LockPath, HashMatches, ZipDownload, ZipDownloadFails,
         AlreadyUnzipped
    <3> QED
      BY <1>2, <2>1, <2>2, <3>1, AloneShape
  <2>6. CASE RemoveStale(p)
    <3>1. Only(p, ZipNone)'
      BY <2>6 DEF RemoveStale, Only
    <3> QED
      BY <1>2, <2>1, <2>3, <2>6, <3>1, AloneShape DEF RemoveStale
  <2>7. CASE MakeDirs(p)
    <3>1. Only(p, [of |-> ZipNone, part |-> "empty"])'
      BY <2>3, <2>7 DEF MakeDirs, Only
    <3> QED
      BY <1>2, <2>1, <2>3, <2>7, <3>1, AloneShape DEF MakeDirs
  <2>8. CASE Extract(p)
    <3>1. Only(p, [of |-> want[p], part |-> "part"])'
      BY <2>3, <2>8 DEF Extract, Only
    <3> QED
      BY <1>2, <2>1, <2>3, <2>8, <3>1, AloneShape DEF Extract
  <2>9. CASE ExtractRest(p)
    <3>1. unzipped[want[p]] = [of |-> want[p], part |-> "part"] /\ source[p] = want[p]
      BY <2>3, <2>9 DEF ExtractRest, Only
    <3>2. [of |-> want[p], part |-> "part"] # ZipNone
      BY DEF DependencyFetchAssumption
    <3>3. Only(p, [of |-> want[p], part |-> "whole"])'
      BY <2>3, <2>9, <3>1, <3>2 DEF ExtractRest, Only
    <3>4. halted' = {} /\ zipPc'[p] = "check" /\ UNCHANGED want
      BY <2>3, <2>9 DEF ExtractRest
    <3> QED
      BY <1>2, <2>1, <3>3, <3>4, AloneShape
  <2>10. CASE ExtractFails(p)
    <3>1. \A h \in ZipHashes : unzipped'[h] = ZipNone
      BY <2>3, <2>10 DEF ExtractFails, Only
    <3> QED
      BY <1>2, <2>1, <2>10, <3>1, AloneShape DEF ExtractFails
  <2>11. CASE Unzipped(p)
    <3>1. \A h \in ZipHashes : unzipped'[h] # ZipNone => unzipped'[h] = [of |-> h, part |-> "whole"]
      BY <2>3, <2>11 DEF Unzipped, Only
    <3> QED
      BY <1>2, <2>1, <2>11, <3>1, AloneShape DEF Unzipped
  <2>12. CASE ZipDies(p)
    <3>1. zipPc'[p] = "idle" /\ UNCHANGED <<unzipped, want>> /\ halted \subseteq halted'
      BY <2>12 DEF ZipDies
    <3>2. \A h \in ZipHashes \ halted' : unzipped'[h] # ZipNone =>
            unzipped'[h] = [of |-> h, part |-> "whole"]
      <4>1. CASE zipPc[p] \notin Unzipping
        BY <2>2, <3>1, <4>1
      <4>2. CASE zipPc[p] \in {"make", "check"}
        BY <2>3, <3>1, <4>2 DEF Only
      <4>3. CASE zipPc[p] \in {"extract", "extracting"}
        <5>1. halted' = halted \cup {want[p]}
          BY <2>12, <4>3 DEF ZipDies
        <5> QED
          BY <2>3, <3>1, <4>3, <5>1 DEF Only
      <4> QED
        BY <4>1, <4>2, <4>3
    <3> QED
      BY <1>2, <2>1, <3>1, <3>2, AloneShape
  <2> QED
    BY <1>2, <2>4, <2>5, <2>6, <2>7, <2>8, <2>9, <2>10, <2>11, <2>12 DEF ZipStep
<1>3. CASE UNCHANGED zipVars
  BY <1>3 DEF zipVars, AloneInv, NothingHalf, Only, Unzipping
<1> QED
  BY <1>1, <1>2, <1>3 DEF ZipNext, ZipStep

(* While one program at a time fetches, failed extractions leave no        *)
(* directory that a later call would take for a whole one; a program that  *)
(* dies leaves at most the one it was extracting (UnzipArchive()).         *)
THEOREM NoHalfArchive ==
  ASSUME DependencyFetchAssumption, Alone
  PROVE  ZipSpec => [](ZipTypeOK /\ NothingHalf)
<1>1. ZipInv /\ AloneInv => ZipTypeOK /\ NothingHalf
  BY DEF ZipInv, AloneInv
<1> QED
  BY InitZip, NextZip, InitAlone, NextAlone, <1>1, PTL DEF ZipSpec

LEMMA StepIsWhole ==
  ASSUME DependencyFetchAssumption, Alone
  PROVE  ZipInv /\ AloneInv /\ [ZipNext]_zipVars => Whole
<1> SUFFICES ASSUME ZipInv, AloneInv, [ZipNext]_zipVars, NEW q \in ZipProcs, zipPc[q] # "idle",
                    result'[q] = "path", zipPc'[q] = "idle", want[q] \notin halted
             PROVE  unzipped'[want[q]] = [of |-> want[q], part |-> "whole"]
  BY DEF Whole
<1>1. /\ zipPc \in [ZipProcs -> ZipPcs] /\ result \in [ZipProcs -> Results]
      /\ want[q] \in ZipHashes
  BY DEF ZipInv, ZipTypeOK
<1>2. PICK p \in ZipProcs : ZipStep(p)
  BY DEF ZipNext, ZipStep, Build, zipVars
<1>3. p = q
  BY <1>2, ZipShape
<1>4. ~Local(q)
  <2>1. SUFFICES ASSUME Local(q) PROVE FALSE
    OBVIOUS
  <2>2. result'[q] = GetLocalPath /\ GetLocalPath # ZipNone
    BY <1>1, <2>1 DEF Local, ZipEnds
  <2> QED
    BY <2>2, ResultOfLocal DEF DependencyFetchAssumption
<1>5. AlreadyUnzipped(q) \/ Unzipped(q)
  BY <1>1, <1>2, <1>3, <1>4 DEF ZipStep, Begin, NotLocal, LockPath, HashMatches, ZipDownload,
     ZipDownloadFails, RemoveStale, MakeDirs, Extract, ExtractRest, ExtractFails, ZipDies, ZipGoto,
     ZipEnds
<1>6. CASE AlreadyUnzipped(q)
  <2>1. \A p1 \in ZipProcs : zipPc[p1] \notin {"make", "extract", "extracting", "check"}
    BY <1>6 DEF AlreadyUnzipped, AloneInv
  <2> QED
    BY <1>1, <1>6, <2>1 DEF AlreadyUnzipped, ShouldUnzip, disk, AloneInv, NothingHalf
<1>7. CASE Unzipped(q)
  BY <1>1, <1>7 DEF Unzipped, disk, AloneInv, Only
<1> QED
  BY <1>5, <1>6, <1>7

(* Under the same conditions, a path that is returned leads to the whole   *)
(* of the archive of the hash in the config, even after downloads and      *)
(* extractions that failed and after programs that died, unless it is the  *)
(* directory one of them was extracting (CloudStorageInfo.GetRemotePath()). *)
THEOREM ReturnedIsWhole ==
  ASSUME DependencyFetchAssumption, Alone PROVE ZipSpec => [][Whole]_zipVars
  BY InitZip, NextZip, InitAlone, NextAlone, StepIsWhole, PTL DEF ZipSpec

----------------------------------------------------------------------------
(***************************************************************************)
(* The merge of several configs, and their prefetch.                       *)
(***************************************************************************)

(* The configs that have been merged, as far as a pair is concerned.       *)
Merged(q) == {i \in 1..Len(configs) : Says(i, q) /\ (i < at \/ (i = at /\ q \notin todo))}

MergeTypes ==
  /\ configs \in ConfigLists
  /\ Len(configs) \in Nat /\ DOMAIN configs = 1..Len(configs)
  /\ \A i \in 1..Len(configs) : DOMAIN configs[i] \subseteq Pairs
  /\ at \in Nat \ {0} /\ (at <= Len(configs) \/ (Len(configs) = 0 /\ todo = {}))
  /\ at <= Len(configs) => todo \subseteq DOMAIN configs[at]
  /\ lookup = [q \in Pairs |-> lookup[q]]
  /\ mergePc \notin {"merges", "raised"} => todo = {} /\ at >= Len(configs)

(* What is known of a pair is what the merged configs say of cloud storage. *)
KnownInv ==
  mergePc # "raised" =>
    \A q \in Pairs : /\ \A i \in Merged(q) : /\ Refused(configs[i][q]) = "none"
                                             /\ HasCloud(configs[i][q]) => lookup[q].cloud = i
                     /\ lookup[q].cloud # 0 => /\ lookup[q].cloud \in Merged(q)
                                               /\ HasCloud(configs[lookup[q].cloud][q])
RaisedInv == mergePc = "raised" => ~Sound
MergeInv == MergeTypes /\ KnownInv /\ RaisedInv

LEMMA OneAtMost ==
  ASSUME NEW S, IsFiniteSet(S)
  PROVE  /\ Cardinality(S) <= 1 => \A x, y \in S : x = y
         /\ (\A x, y \in S : x = y) => Cardinality(S) <= 1
<1>1. ASSUME Cardinality(S) <= 1, NEW x \in S, NEW y \in S, x # y PROVE FALSE
  <2>1. /\ IsFiniteSet(S \ {x}) /\ Cardinality(S \ {x}) = Cardinality(S) - 1
    BY FS_RemoveElement
  <2>2. /\ IsFiniteSet((S \ {x}) \ {y}) /\ Cardinality((S \ {x}) \ {y}) = Cardinality(S \ {x}) - 1
    BY <1>1, <2>1, FS_RemoveElement
  <2>3. Cardinality((S \ {x}) \ {y}) \in Nat /\ Cardinality(S) \in Nat
    BY <2>2, FS_CardinalityType
  <2> QED
    BY <1>1, <2>1, <2>2, <2>3
<1>2. ASSUME \A x, y \in S : x = y PROVE Cardinality(S) <= 1
  <2>1. CASE S = {}
    BY <2>1, FS_EmptySet
  <2>2. CASE \E x \in S : S = {x}
    BY <2>2, FS_Singleton
  <2> QED
    BY <1>2, <2>1, <2>2
<1> QED
  BY <1>1, <1>2

LEMMA CloudsAreFinite == ASSUME MergeTypes, NEW q PROVE IsFiniteSet(Clouds(q)) /\ Clouds(q) \subseteq 1..Len(configs)
<1>1. IsFiniteSet(1..Len(configs))
  BY FS_Interval DEF MergeTypes
<1>2. Clouds(q) \subseteq 1..Len(configs)
  BY DEF Clouds, MergeTypes
<1> QED
  BY <1>1, <1>2, FS_Subset

LEMMA InitMerge == ASSUME DependencyMergeAssumption PROVE MergeInit => MergeInv
<1> SUFFICES ASSUME MergeInit PROVE MergeInv
  OBVIOUS
<1>1. /\ configs \in ConfigLists /\ configs \in Seq({configs[i] : i \in DOMAIN configs})
      /\ \A i \in DOMAIN configs : DOMAIN configs[i] \subseteq Pairs
  BY DEF MergeInit, DependencyMergeAssumption, Pairs
<1>2. Len(configs) \in Nat /\ DOMAIN configs = 1..Len(configs)
  BY <1>1
<1>3. /\ at = 1 /\ mergePc = "merges" /\ todo = IF Len(configs) = 0 THEN {} ELSE DOMAIN configs[1]
      /\ lookup = [q \in Pairs |-> [known |-> FALSE, local |-> <<>>, cloud |-> 0]]
  BY DEF MergeInit
<1>4. MergeTypes
  BY <1>1, <1>2, <1>3 DEF MergeTypes
<1>5. \A q \in Pairs : Merged(q) = {} /\ lookup[q].cloud = 0
  BY <1>2, <1>3 DEF Merged, Says
<1> QED
  BY <1>3, <1>4, <1>5 DEF MergeInv, KnownInv, RaisedInv

LEMMA YieldMerge == ASSUME MergeInv, NEW q \in Pairs, Yield(q) PROVE MergeInv'
<1> DEFINE info == configs[at][q]
<1>1. /\ mergePc = "merges" /\ q \in todo /\ todo' = todo \ {q} /\ configs' = configs /\ at' = at
  BY DEF Yield
<1>2. /\ at \in 1..Len(configs) /\ Says(at, q) /\ at \in Nat /\ DOMAIN configs = 1..Len(configs)
      /\ \A i \in 1..Len(configs) : DOMAIN configs[i] \subseteq Pairs
  BY <1>1 DEF MergeInv, MergeTypes, Says
<1>3. /\ \A p \in Pairs : p # q => Merged(p)' = Merged(p)
      /\ Merged(q)' = Merged(q) \cup {at} /\ \A i \in Merged(q) : i < at
  BY <1>1, <1>2 DEF Merged, Says
<1> HIDE DEF info
<1>4. CASE Refused(info) # "none"
  <2>1. mergePc' = "raised" /\ lookup' = lookup
    BY <1>4 DEF Yield, info
  <2>2. ~Sound'
    BY <1>1, <1>2, <1>4 DEF Sound, Says, info
  <2> QED
    BY <1>1, <1>2, <2>1, <2>2 DEF MergeInv, MergeTypes, KnownInv, RaisedInv
<1>5. CASE Refused(info) = "none" /\ HasCloud(info) /\ lookup[q].cloud # 0
  <2>1. mergePc' = "raised" /\ lookup' = lookup
    BY <1>5 DEF Yield, info
  <2>2. lookup[q].cloud \in Merged(q) /\ HasCloud(configs[lookup[q].cloud][q])
    BY <1>1, <1>5 DEF MergeInv, KnownInv
  <2>3. at \in Clouds(q) /\ lookup[q].cloud \in Clouds(q) /\ at # lookup[q].cloud
    BY <1>2, <1>3, <1>5, <2>2 DEF Clouds, Merged, info
  <2>4. ~(Cardinality(Clouds(q)) <= 1)
    BY <2>3, CloudsAreFinite, OneAtMost DEF MergeInv
  <2>5. ~Sound'
    BY <1>1, <2>4 DEF Sound, Clouds, Says
  <2> QED
    BY <1>1, <1>2, <2>1, <2>5 DEF MergeInv, MergeTypes, KnownInv, RaisedInv
<1>6. CASE Refused(info) = "none" /\ ~(HasCloud(info) /\ lookup[q].cloud # 0)
  <2> DEFINE new == DependencyInfo(UpdateLocal(lookup[q].local, info.local), IF HasCloud(info) THEN at ELSE lookup[q].cloud)
  <2>1. mergePc' = "merges" /\ lookup' = [lookup EXCEPT ![q] = new]
    BY <1>1, <1>6 DEF Yield, info
  <2>2. new.cloud = IF HasCloud(info) THEN at ELSE lookup[q].cloud
    BY DEF DependencyInfo
  <2> HIDE DEF new
  <2>3. lookup = [p \in Pairs |-> lookup[p]]
    BY DEF MergeInv, MergeTypes
  <2>4. /\ lookup'[q] = new /\ \A p \in Pairs : p # q => lookup'[p] = lookup[p]
    BY <2>1, <2>3
  <2>5. lookup' = [p \in Pairs |-> lookup'[p]]
    BY <2>1, <2>3
  <2>6. MergeTypes'
    BY <1>1, <1>2, <2>1, <2>5 DEF MergeInv, MergeTypes
  <2> DEFINE K(p) == /\ \A i \in Merged(p)' : /\ Refused(configs[i][p]) = "none"
                                              /\ HasCloud(configs[i][p]) => lookup'[p].cloud = i
                     /\ lookup'[p].cloud # 0 => /\ lookup'[p].cloud \in Merged(p)'
                                               /\ HasCloud(configs[lookup'[p].cloud][p])
  <2>7. ASSUME NEW p \in Pairs, p # q PROVE K(p)
    BY <1>1, <1>3, <2>4, <2>7 DEF MergeInv, KnownInv
  <2>8. K(q)
    <3>1. CASE HasCloud(info)
      <4>1. lookup[q].cloud = 0 /\ lookup'[q].cloud = at /\ at # 0
        BY <1>2, <1>6, <2>2, <2>4, <3>1
      <4>2. \A i \in Merged(q) : Refused(configs[i][q]) = "none" /\ ~HasCloud(configs[i][q])
        BY <1>1, <4>1 DEF MergeInv, KnownInv, Merged
      <4> QED
        BY <1>3, <1>6, <3>1, <4>1, <4>2 DEF info
    <3>2. CASE ~HasCloud(info)
      <4>1. lookup'[q].cloud = lookup[q].cloud
        BY <2>2, <2>4, <3>2
      <4> QED
        BY <1>1, <1>3, <1>6, <3>2, <4>1 DEF MergeInv, KnownInv, info
    <3> QED
      BY <3>1, <3>2
  <2>9. \A p \in Pairs : K(p)
    BY <2>7, <2>8
  <2>10. KnownInv'
    BY <1>1, <2>9 DEF KnownInv
  <2> QED
    BY <2>1, <2>6, <2>10 DEF MergeInv, RaisedInv
<1> QED
  BY <1>4, <1>5, <1>6

LEMMA NextConfigMerge == ASSUME MergeInv, NextConfig PROVE MergeInv'
<1>1. /\ mergePc = "merges" /\ todo = {} /\ configs' = configs /\ lookup' = lookup
  BY DEF NextConfig
<1>2. \/ at < Len(configs) /\ at' = at + 1 /\ todo' = DOMAIN configs[at + 1] /\ mergePc' = mergePc
      \/ ~(at < Len(configs)) /\ at' = at /\ todo' = todo /\ mergePc' = "ready"
  BY DEF NextConfig
<1>3. MergeTypes'
  BY <1>1, <1>2 DEF MergeInv, MergeTypes
<1>4. \A q \in Pairs : Merged(q)' = Merged(q)
  BY <1>1, <1>2 DEF Merged, Says, MergeInv, MergeTypes
<1>5. KnownInv'
  BY <1>1, <1>4 DEF MergeInv, KnownInv
<1> QED
  BY <1>1, <1>2, <1>3, <1>5 DEF MergeInv, RaisedInv

LEMMA NextMerge == MergeInv /\ [MergeNext]_mergeVars => MergeInv'
<1> SUFFICES ASSUME MergeInv, [MergeNext]_mergeVars PROVE MergeInv'
  OBVIOUS
<1>1. ASSUME UNCHANGED merging, mergePc' = mergePc \/ (mergePc' \in {"fetching", "ended"} /\ mergePc \in {"ready", "fetching"})
      PROVE  MergeInv'
  <2>1. /\ configs' = configs /\ at' = at /\ todo' = todo /\ lookup' = lookup
    BY <1>1 DEF merging
  <2>2. MergeTypes'
    BY <1>1, <2>1 DEF MergeInv, MergeTypes
  <2>3. \A q \in Pairs : Merged(q)' = Merged(q)
    BY <2>1 DEF Merged, Says
  <2>4. KnownInv'
    BY <1>1, <2>1, <2>3 DEF MergeInv, KnownInv
  <2>5. Sound' = Sound
    BY <2>1 DEF Sound, Clouds, Says
  <2> QED
    BY <1>1, <2>2, <2>4, <2>5 DEF MergeInv, RaisedInv
<1>2. ASSUME NEW q \in Pairs, Yield(q) PROVE MergeInv'
  BY <1>2, YieldMerge
<1>3. CASE NextConfig
  BY <1>3, NextConfigMerge
<1>4. CASE Prefetched
  BY <1>1, <1>4 DEF Prefetched
<1>5. ASSUME NEW d \in Deps, NEW p \in Platforms, LocalPath(d, p) PROVE MergeInv'
  BY <1>1, <1>5 DEF LocalPath
<1>6. ASSUME NEW f \in Paths, FileChanges(f) PROVE MergeInv'
  BY <1>1, <1>6 DEF FileChanges
<1>7. ASSUME NEW ds \in SUBSET Deps, PrefetchPaths(ds) PROVE MergeInv'
  BY <1>1, <1>7 DEF PrefetchPaths
<1>8. ASSUME NEW d \in Deps, Skip(d, Here) \/ FoundLocally(d, Here) PROVE MergeInv'
  BY <1>1, <1>8 DEF Skip, FoundLocally
<1>9. ASSUME NEW d \in Deps, NEW fails \in BOOLEAN, Fetch(d, Here, fails) PROVE MergeInv'
  BY <1>1, <1>9 DEF Fetch
<1>10. ASSUME NEW d \in Deps, Escapes(d, Here) PROVE MergeInv'
  BY <1>1, <1>10 DEF Escapes
<1>11. CASE UNCHANGED mergeVars
  BY <1>1, <1>11 DEF mergeVars
<1> QED
  BY <1>2, <1>3, <1>4, <1>5, <1>6, <1>7, <1>8, <1>9, <1>10, <1>11 DEF MergeNext

(* However many configs are merged, and in whatever order each yields its  *)
(* pairs: a manager is made only of configs that are whole and of which no *)
(* two tell where one pair is in cloud storage, and it then knows the one  *)
(* place there is; it is refused only for configs that are not so          *)
(* (DependencyInfo.Update()).                                              *)
THEOREM ManagerHasOneSource == ASSUME DependencyMergeAssumption PROVE MergeSpec => []OneCloudSource
<1>1. MergeInv => OneCloudSource
  <2> SUFFICES ASSUME MergeInv, mergePc \notin {"merges", "raised"}
               PROVE  /\ Sound
                      /\ \A q \in Pairs : IF Clouds(q) = {} THEN lookup[q].cloud = 0
                                          ELSE lookup[q].cloud \in Clouds(q)
    BY DEF MergeInv, RaisedInv, OneCloudSource
  <2>1. \A q \in Pairs : Merged(q) = {i \in 1..Len(configs) : Says(i, q)}
    BY DEF MergeInv, MergeTypes, Merged
  <2>2. DOMAIN configs = 1..Len(configs) /\ \A i \in 1..Len(configs) : DOMAIN configs[i] \subseteq Pairs
    BY DEF MergeInv, MergeTypes
  <2>3. \A q \in Pairs : Clouds(q) = {i \in Merged(q) : HasCloud(configs[i][q])}
    BY <2>1, <2>2 DEF Clouds
  <2>4. \A q \in Pairs : \A i, j \in Clouds(q) : i = j
    BY <2>3 DEF MergeInv, KnownInv
  <2>5. \A q \in Pairs : Cardinality(Clouds(q)) <= 1
    BY <2>4, CloudsAreFinite, OneAtMost DEF MergeInv
  <2>6. \A i \in DOMAIN configs : \A q \in DOMAIN configs[i] : Refused(configs[i][q]) = "none"
    BY <2>1, <2>2 DEF MergeInv, KnownInv, Says
  <2>7. \A q \in Pairs : IF Clouds(q) = {} THEN lookup[q].cloud = 0 ELSE lookup[q].cloud \in Clouds(q)
    BY <2>3 DEF MergeInv, KnownInv
  <2> QED
    BY <2>5, <2>6, <2>7 DEF Sound
<1> QED
  BY <1>1, InitMerge, NextMerge, PTL DEF MergeSpec

(* The lists of PrefetchPaths(), in whatever order it takes dependencies.  *)
ListsInv ==
  /\ tried \in [Deps -> Nat]
  /\ mergePc \notin {"fetching", "ended"} => /\ rest = {} /\ found = {} /\ skipped = {} /\ missing = {}
                                             /\ \A d \in Deps : tried[d] = 0
  /\ rest \cap (found \cup missing \cup skipped) = {}
  /\ found \cap missing = {} /\ found \cap skipped = {} /\ missing \cap skipped = {}
  /\ \A d \in Deps : tried[d] > 0 => d \in found \cup missing \/ (mergePc = "ended" /\ d \in rest)

LEMMA NextLists == ListsInv /\ [MergeNext]_mergeVars => ListsInv'
<1> SUFFICES ASSUME ListsInv, [MergeNext]_mergeVars PROVE ListsInv'
  OBVIOUS
<1>1. ASSUME UNCHANGED lists,
             mergePc' = mergePc \/ {mergePc, mergePc'} \cap {"fetching", "ended"} = {}
      PROVE  ListsInv'
  BY <1>1 DEF ListsInv, lists
<1>2. ASSUME NEW q \in Pairs, Yield(q) PROVE ListsInv'
  BY <1>1, <1>2 DEF Yield
<1>3. CASE NextConfig
  BY <1>1, <1>3 DEF NextConfig
<1>4. CASE Prefetched
  BY <1>4 DEF Prefetched, ListsInv, lists
<1>5. ASSUME NEW d \in Deps, NEW p \in Platforms, LocalPath(d, p) PROVE ListsInv'
  BY <1>1, <1>5 DEF LocalPath
<1>6. ASSUME NEW f \in Paths, FileChanges(f) PROVE ListsInv'
  BY <1>1, <1>6 DEF FileChanges
<1>7. ASSUME NEW ds \in SUBSET Deps, PrefetchPaths(ds) PROVE ListsInv'
  BY <1>7 DEF PrefetchPaths, ListsInv
<1>8. ASSUME NEW d \in Deps, Skip(d, Here) \/ FoundLocally(d, Here) PROVE ListsInv'
  BY <1>8 DEF Skip, FoundLocally, ListsInv
<1>9. ASSUME NEW d \in Deps, NEW fails \in BOOLEAN, Fetch(d, Here, fails) PROVE ListsInv'
  BY <1>9 DEF Fetch, ListsInv
<1>10. ASSUME NEW d \in Deps, Escapes(d, Here) PROVE ListsInv'
  BY <1>10 DEF Escapes, ListsInv
<1>11. CASE UNCHANGED mergeVars
  BY <1>1, <1>11 DEF mergeVars
<1> QED
  BY <1>2, <1>3, <1>4, <1>5, <1>6, <1>7, <1>8, <1>9, <1>10, <1>11 DEF MergeNext

(* For any dependencies and any failures, each dependency that             *)
(* PrefetchPaths() has tried to fetch is, when it ends, on the list of     *)
(* those found or of those missing, and none is on two of the lists.       *)
THEOREM PrefetchTellsAll == MergeSpec => []EachOnOneList
<1>1. MergeInit => ListsInv
  BY DEF MergeInit, ListsInv
<1>2. ListsInv => EachOnOneList
  BY DEF ListsInv, EachOnOneList
<1> QED
  BY <1>1, <1>2, NextLists, PTL DEF MergeSpec

----------------------------------------------------------------------------
(***************************************************************************)
(* The update of a config.                                                 *)
(***************************************************************************)

Uploaders == [remote : Remote, hash : JobsHashes, backup : Names, updated : BOOLEAN, backed_up : BOOLEAN]
Objects == [Names -> JobsHashes \cup {Nothing, Damaged}]
Forward == {"exists", "copy", "insert", "inserted", "write", "dump", "written"}

JobsTypes ==
  /\ data \in [JobsDeps -> JobsHashes]
  /\ bucket \in Objects
  /\ pending \in Seq(Uploaders)
  /\ jobsPc \in Forward \cup {"idle", "rollback"}
  /\ jobsAt \in 0..Len(pending)
  /\ jobsPc = "idle" => jobsAt = 0
  /\ jobsPc \in Forward => jobsAt > 0
  /\ runs \in Nat

(* Every uploader is for a name of its own, and until it is rolled back    *)
(* its backup path is that of its name.                                    *)
Behind(i) == jobsPc = "rollback" /\ i > jobsAt
HashInv == \A i \in 1..Len(pending) : pending[i].hash = pending[i].remote[2]
BackupInv ==
  runs = 0 \/ jobsPc # "idle" =>
    \A i \in 1..Len(pending) : Behind(i) \/ pending[i].backup = BackupPath(pending[i].remote)
DistinctInv == \A i, j \in 1..Len(pending) : pending[i].remote = pending[j].remote => i = j

(* How far each uploader has come.                                         *)
Unused(i) == ~pending[i].updated /\ ~pending[i].backed_up
IdleInv == runs = 0 => jobsPc = "idle" /\ \A i \in 1..Len(pending) : Unused(i)
RunInv == jobsPc # "idle" => runs = 1 /\ jobsResult = "none"
AheadInv == jobsPc \in Forward => \A i \in 1..Len(pending) : i > jobsAt => Unused(i)
PastInv == jobsPc \in Forward => \A i \in 1..Len(pending) : i < jobsAt => pending[i].updated
HereInv ==
  /\ jobsPc \in {"exists", "copy"} => Unused(jobsAt)
  /\ jobsPc \in {"insert", "inserted"} => ~pending[jobsAt].updated
  /\ jobsPc \in {"write", "dump", "written"} => pending[jobsAt].updated /\ jobsAt = Len(pending)

(* What each has done to the bucket, and can take back.                    *)
Old == before.bucket
Done(i) == pending[i].updated \/ (jobsPc = "inserted" /\ i = jobsAt)
OldInv == Old \in Objects /\ (runs = 0 => bucket = Old)
SparedInv ==
  jobsPc # "idle" =>
    \A r \in Remote : (\A i \in 1..Len(pending) : pending[i].remote # r) => bucket[r] = Old[r]
BehindInv == \A i \in 1..Len(pending) : Behind(i) => bucket[pending[i].remote] = Old[pending[i].remote]
DoneInv ==
  jobsPc # "idle" => \A i \in 1..Len(pending) :
    ~Behind(i) /\ Done(i) => /\ bucket[pending[i].remote] = pending[i].hash
                             /\ pending[i].backed_up \/ Old[pending[i].remote] = Nothing
BackedInv ==
  jobsPc # "idle" => \A i \in 1..Len(pending) :
    ~Behind(i) /\ pending[i].backed_up => /\ bucket[pending[i].backup] = Old[pending[i].remote]
                                          /\ Old[pending[i].remote] # Nothing
UndoneInv ==
  jobsPc # "idle" => \A i \in 1..Len(pending) :
    ~Behind(i) /\ ~Done(i) => bucket[pending[i].remote] = Old[pending[i].remote]
FoundInv ==
  /\ jobsPc = "copy" => bucket[pending[jobsAt].remote] # Nothing
  /\ jobsPc = "insert" /\ Unused(jobsAt) => bucket[pending[jobsAt].remote] = Nothing

(* What the config on disk says, and what has been added to it.            *)
Named(config, objects) == \A d \in JobsDeps : objects[<<d, config[d], "">>] = config[d]
FirstInv == before.disk \in [JobsDeps -> JobsHashes] /\ Named(before.disk, Old)
DiskInv ==
  /\ runs = 0 \/ jobsPc \in {"exists", "copy", "insert", "inserted", "write"} => jobsDisk = before.disk
  /\ jobsPc = "dump" => jobsDisk = Nothing
  /\ jobsPc = "written" => jobsDisk = data
  /\ jobsPc = "rollback" => jobsDisk = before.disk \/ (DiskFull /\ jobsDisk = Nothing)
AddedInv ==
  runs = 0 \/ jobsPc # "idle" =>
    \A d \in JobsDeps : \/ data[d] = before.disk[d]
                        \/ \E i \in 1..Len(pending) : pending[i].remote = <<d, data[d], "">>

JobsSetting == UpdateJobsAssumption /\ Once /\ NoBucket = {} /\ ~Interrupting
FirstRun ==
  /\ HashInv
  /\ BackupInv
  /\ DistinctInv
  /\ IdleInv
  /\ RunInv
  /\ AheadInv
  /\ PastInv
  /\ HereInv
  /\ OldInv
  /\ SparedInv
  /\ BehindInv
  /\ DoneInv
  /\ BackedInv
  /\ UndoneInv
  /\ FoundInv
  /\ FirstInv
  /\ DiskInv
  /\ AddedInv
  /\ NamesWhatIsThere
  /\ ~DiskFull => AllOrNothing

LEMMA RemoteNames ==
  /\ \A d \in JobsDeps, h \in JobsHashes : <<d, h, "">> \in Remote
  /\ \A r \in Remote : r \in Names /\ BackupPath(r) \in Names
  /\ NonePath \in Names
<1>1. \A d \in JobsDeps, h \in JobsHashes : <<d, h, "">> \in Remote
  BY DEF Remote
<1>2. \A r \in Remote : r \in Names /\ BackupPath(r) \in Names
  BY DEF Names
<1>3. NonePath \in Names
  BY DEF Names
<1> QED
  BY <1>1, <1>2, <1>3

LEMMA Triple == ASSUME NEW A, NEW B, NEW C, NEW r \in A \X B \X C PROVE r = <<r[1], r[2], r[3]>>
  OBVIOUS

LEMMA PartsOfRemote ==
  ASSUME NEW r \in Remote
  PROVE  r[1] \in JobsDeps /\ r[2] \in JobsHashes /\ r[3] = "" /\ r = <<r[1], r[2], "">>
<1>1. r[1] \in JobsDeps /\ r[2] \in JobsHashes /\ r[3] \in {""}
  BY DEF Remote
<1>2. r = <<r[1], r[2], r[3]>>
  BY Triple DEF Remote
<1> QED
  BY <1>1, <1>2

LEMMA BackupIsNoRemote == \A r \in Remote, q \in Remote : BackupPath(r) # q
<1> SUFFICES ASSUME NEW r \in Remote, NEW q \in Remote PROVE BackupPath(r) # q
  OBVIOUS
<1>1. q[3] = ""
  BY PartsOfRemote
<1>2. BackupPath(r)[3] = "old"
  BY DEF BackupPath
<1>3. "old" # ""
  OBVIOUS
<1> QED
  BY <1>1, <1>2, <1>3

LEMMA BackupsDiffer == \A r \in Remote, q \in Remote : BackupPath(r) = BackupPath(q) => r = q
<1> SUFFICES ASSUME NEW r \in Remote, NEW q \in Remote, BackupPath(r) = BackupPath(q) PROVE r = q
  OBVIOUS
<1>1. r[1] = q[1] /\ r[2] = q[2]
  BY DEF BackupPath
<1> QED
  BY <1>1, PartsOfRemote

LEMMA RemotesDiffer == \A d, e, h, g : <<d, h, "">> = <<e, g, "">> => d = e /\ h = g
  OBVIOUS

LEMMA NewItem ==
  ASSUME NEW d \in JobsDeps, NEW h \in JobsHashes
  PROVE  /\ Uploader(d, h) \in Uploaders /\ Uploader(d, h).remote = <<d, h, "">> /\ Uploader(d, h).hash = h
         /\ Uploader(d, h).backup = BackupPath(<<d, h, "">>)
         /\ Uploader(d, h).updated = FALSE /\ Uploader(d, h).backed_up = FALSE
<1>1. <<d, h, "">> \in Remote /\ BackupPath(<<d, h, "">>) \in Names
  BY RemoteNames
<1>2. Uploader(d, h) \in Uploaders
  BY <1>1 DEF Uploader, Uploaders
<1> QED
  BY <1>2 DEF Uploader

LEMMA OneMore ==
  ASSUME NEW U, NEW s \in Seq(U), NEW u \in U
  PROVE  /\ Append(s, u) \in Seq(U) /\ Len(Append(s, u)) = Len(s) + 1 /\ Len(s) \in Nat
         /\ Append(s, u)[Len(s) + 1] = u
         /\ \A i \in 1..Len(s) : Append(s, u)[i] = s[i]
  BY AppendProperties

LEMMA OnePut ==
  ASSUME NEW U, NEW s \in Seq(U), NEW i \in 1..Len(s), NEW u \in U
  PROVE  LET t == [s EXCEPT ![i] = u]
         IN  /\ t \in Seq(U) /\ Len(t) = Len(s) /\ t[i] = u
             /\ \A j \in 1..Len(s) : j # i => t[j] = s[j]
  BY ExceptSeq

LEMMA JobsAdd ==
  ASSUME JobsSetting, JobsTypes, NEW d \in JobsDeps, NEW h \in JobsHashes, Add(d, h)
  PROVE  JobsTypes' /\ (runs' <= 1 => runs <= 1 /\ (FirstRun => FirstRun'))
<1>n. pending \in Seq(Uploaders) /\ Len(pending) \in Nat
  BY DEF JobsTypes
<1> DEFINE name == <<d, h, "">>
<1>p. pending' = Append(pending, Uploader(d, h))
  BY DEF Add, New, JobsSetting
<1>w. name \in Remote /\ name[2] = h
  BY RemoteNames
<1>u. /\ Uploader(d, h) \in Uploaders /\ Uploader(d, h).remote = name /\ Uploader(d, h).hash = h
      /\ Uploader(d, h).backup = BackupPath(name)
      /\ Uploader(d, h).updated = FALSE /\ Uploader(d, h).backed_up = FALSE
  BY NewItem
<1>t. pending' \in Seq(Uploaders) /\ Len(pending') = Len(pending) + 1
  BY ONLY <1>n, <1>p, <1>u, OneMore
<1>m. /\ \A i \in 1..Len(pending') : i = Len(pending) + 1 \/ i \in 1..Len(pending)
      /\ \A i \in 1..Len(pending) : i \in 1..Len(pending') /\ i # Len(pending) + 1
  BY <1>n, <1>t
<1>q. pending'[Len(pending) + 1] = Uploader(d, h)
  BY ONLY <1>n, <1>p, <1>u, OneMore
<1>v. \A i \in 1..Len(pending) : pending'[i] = pending[i]
  <2> SUFFICES ASSUME NEW i \in 1..Len(pending) PROVE Append(pending, Uploader(d, h))[i] = pending[i]
    BY <1>p
  <2>1. pending \in Seq(Uploaders) /\ Uploader(d, h) \in Uploaders
    BY <1>u DEF JobsTypes
  <2> QED
    BY <2>1, OneMore
<1>s1. jobsDisk' = jobsDisk /\ bucket' = bucket /\ jobsPc' = jobsPc /\ jobsAt' = jobsAt /\ runs' = runs /\ before' = before
  BY DEF Add, New, JobsSetting
<1>s2. jobsPc = "idle" /\ jobsResult' = "added"
  BY DEF Add, New, JobsSetting
<1>s3. data' = [data EXCEPT ![d] = h]
  BY DEF Add, New, JobsSetting
<1>s4. \A i \in 1..Len(pending) : pending[i].remote # name
  <2>1. DOMAIN pending = 1..Len(pending)
    BY DEF JobsTypes
  <2> QED
    BY <2>1 DEF Add, New, JobsSetting
<1> HIDE DEF name
<1>1. JobsTypes'
  BY <1>n, <1>w, <1>u, <1>t, <1>m, <1>q, <1>v, <1>s1, <1>s2, <1>s3, <1>s4 DEF JobsTypes, Forward
<1>2. runs \in Nat /\ (runs' <= 1 => runs <= 1)
  BY <1>s1 DEF JobsTypes
<1> SUFFICES ASSUME runs' <= 1, FirstRun PROVE FirstRun'
  BY <1>1, <1>2
<1>3. HashInv'
  BY <1>w, <1>u, <1>t, <1>m, <1>q, <1>v, <1>s4 DEF FirstRun, HashInv
<1>4. BackupInv'
  BY <1>n, <1>w, <1>u, <1>t, <1>m, <1>q, <1>v, <1>s1, <1>s2, <1>s4, <1>2 DEF FirstRun, BackupInv, Behind, IdleInv, Unused
<1>5. DistinctInv'
  BY <1>w, <1>u, <1>t, <1>m, <1>q, <1>v, <1>s4 DEF FirstRun, DistinctInv
<1>6. IdleInv'
  BY <1>w, <1>u, <1>t, <1>m, <1>q, <1>v, <1>s1, <1>s2, <1>s4, <1>2 DEF FirstRun, IdleInv, Unused
<1>7. RunInv'
  BY <1>s1, <1>s2, <1>2 DEF FirstRun, RunInv
<1>8. AheadInv'
  BY <1>n, <1>w, <1>u, <1>t, <1>m, <1>q, <1>v, <1>s1, <1>s2, <1>s4 DEF FirstRun, AheadInv, Forward, Unused
<1>9. PastInv'
  BY <1>n, <1>w, <1>u, <1>t, <1>m, <1>q, <1>v, <1>s1, <1>s2, <1>s4 DEF FirstRun, PastInv, Forward
<1>10. HereInv'
  BY <1>n, <1>w, <1>u, <1>t, <1>m, <1>q, <1>v, <1>s1, <1>s2, <1>s4 DEF FirstRun, HereInv, Unused
<1>11. OldInv'
  BY <1>s1, <1>2 DEF FirstRun, OldInv, Old
<1>12. SparedInv'
  BY <1>w, <1>u, <1>t, <1>m, <1>q, <1>v, <1>s1, <1>s2, <1>s4 DEF FirstRun, SparedInv, Old
<1>13. BehindInv'
  BY <1>n, <1>w, <1>u, <1>t, <1>m, <1>q, <1>v, <1>s1, <1>s2, <1>s4 DEF FirstRun, BehindInv, Behind, Old
<1>14. DoneInv'
  BY <1>n, <1>w, <1>u, <1>t, <1>m, <1>q, <1>v, <1>s1, <1>s2, <1>s4 DEF FirstRun, DoneInv, Behind, Done, Old
<1>15. BackedInv'
  BY <1>n, <1>w, <1>u, <1>t, <1>m, <1>q, <1>v, <1>s1, <1>s2, <1>s4 DEF FirstRun, BackedInv, Behind, Old
<1>16. UndoneInv'
  BY <1>n, <1>w, <1>u, <1>t, <1>m, <1>q, <1>v, <1>s1, <1>s2, <1>s4 DEF FirstRun, UndoneInv, Behind, Done, Old
<1>17. FoundInv'
  BY <1>n, <1>w, <1>u, <1>t, <1>m, <1>q, <1>v, <1>s1, <1>s2, <1>s4 DEF FirstRun, FoundInv, Unused
<1>18. FirstInv'
  BY <1>s1 DEF FirstRun, FirstInv, Old, Named
<1>19. DiskInv'
  BY <1>s1, <1>s2, <1>s3, <1>2 DEF FirstRun, DiskInv
<1>20. AddedInv'
  <2> SUFFICES ASSUME runs = 0, NEW e \in JobsDeps
               PROVE  \/ data'[e] = before.disk[e]
                      \/ \E i \in 1..Len(pending') : pending'[i].remote = <<e, data'[e], "">>
    BY <1>n, <1>w, <1>u, <1>t, <1>m, <1>q, <1>v, <1>s1, <1>s2, <1>s3, <1>s4 DEF AddedInv
  <2>1. \/ data[e] = before.disk[e]
        \/ \E i \in 1..Len(pending) : pending[i].remote = <<e, data[e], "">>
    BY <1>n, <1>w, <1>u, <1>t, <1>m, <1>q, <1>v, <1>s1, <1>s2, <1>s3, <1>s4 DEF FirstRun, AddedInv
  <2>2. data'[e] = IF e = d THEN h ELSE data[e]
    BY <1>n, <1>w, <1>u, <1>t, <1>m, <1>q, <1>v, <1>s1, <1>s2, <1>s3, <1>s4 DEF JobsTypes
  <2>3. CASE e = d
    <3>1. Len(pending) + 1 \in 1..Len(pending') /\ pending'[Len(pending) + 1].remote = name
      BY <1>n, <1>t, <1>q, <1>u
    <3>2. name = <<e, data'[e], "">>
      BY <2>2, <2>3 DEF name
    <3> QED
      BY <3>1, <3>2
  <2>4. CASE e # d
    BY <2>1, <2>2, <2>4, <1>m, <1>v
  <2> QED
    BY <2>3, <2>4
<1>21. NamesWhatIsThere'
  BY <1>s1 DEF FirstRun, NamesWhatIsThere, Named
<1>22. ~DiskFull => AllOrNothing'
  BY <1>s1, <1>s2, <1>s3 DEF FirstRun, AllOrNothing
<1> QED
  BY <1>3, <1>4, <1>5, <1>6, <1>7, <1>8, <1>9, <1>10, <1>11, <1>12, <1>13, <1>14, <1>15, <1>16, <1>17, <1>18, <1>19, <1>20, <1>21, <1>22 DEF FirstRun

LEMMA JobsAddAndExecute ==
  ASSUME JobsSetting, JobsTypes, NEW d \in JobsDeps, NEW h \in JobsHashes, AddAndExecute(d, h)
  PROVE  JobsTypes' /\ (runs' <= 1 => runs <= 1 /\ (FirstRun => FirstRun'))
<1>n. pending \in Seq(Uploaders) /\ Len(pending) \in Nat
  BY DEF JobsTypes
<1> DEFINE name == <<d, h, "">>
<1>p. pending' = Append(pending, Uploader(d, h))
  BY DEF AddAndExecute, New, Dirty, JobsSetting
<1>w. name \in Remote /\ name[2] = h
  BY RemoteNames
<1>u. /\ Uploader(d, h) \in Uploaders /\ Uploader(d, h).remote = name /\ Uploader(d, h).hash = h
      /\ Uploader(d, h).backup = BackupPath(name)
      /\ Uploader(d, h).updated = FALSE /\ Uploader(d, h).backed_up = FALSE
  BY NewItem
<1>t. pending' \in Seq(Uploaders) /\ Len(pending') = Len(pending) + 1
  BY ONLY <1>n, <1>p, <1>u, OneMore
<1>m. /\ \A i \in 1..Len(pending') : i = Len(pending) + 1 \/ i \in 1..Len(pending)
      /\ \A i \in 1..Len(pending) : i \in 1..Len(pending') /\ i # Len(pending) + 1
  BY <1>n, <1>t
<1>q. pending'[Len(pending) + 1] = Uploader(d, h)
  BY ONLY <1>n, <1>p, <1>u, OneMore
<1>v. \A i \in 1..Len(pending) : pending'[i] = pending[i]
  <2> SUFFICES ASSUME NEW i \in 1..Len(pending) PROVE Append(pending, Uploader(d, h))[i] = pending[i]
    BY <1>p
  <2>1. pending \in Seq(Uploaders) /\ Uploader(d, h) \in Uploaders
    BY <1>u DEF JobsTypes
  <2> QED
    BY <2>1, OneMore
<1>s1. jobsDisk' = jobsDisk /\ bucket' = bucket
  BY DEF AddAndExecute, New, Dirty, JobsSetting
<1>s2. jobsPc = "idle" /\ data = jobsDisk /\ runs' = runs + 1
  BY DEF AddAndExecute, New, Dirty, JobsSetting
<1>s3. \/ jobsPc' = "idle" /\ jobsAt' = jobsAt /\ jobsResult' = "clean"
       \/ jobsPc' = "exists" /\ jobsAt' = 1 /\ jobsResult' = "none"
  <2>1. CASE data' = jobsDisk
    BY <2>1 DEF AddAndExecute
  <2>2. CASE ~(data' = jobsDisk)
    BY <2>2 DEF AddAndExecute
  <2> QED
    BY <2>1, <2>2
<1>s4. data' = [data EXCEPT ![d] = h]
  BY DEF AddAndExecute, New, Dirty, JobsSetting
<1>s5. before' = [disk |-> jobsDisk, bucket |-> bucket]
  BY DEF AddAndExecute, New, Dirty, JobsSetting
<1>s6. \A i \in 1..Len(pending) : pending[i].remote # name
  <2>1. DOMAIN pending = 1..Len(pending)
    BY DEF JobsTypes
  <2> QED
    BY <2>1 DEF AddAndExecute, New, JobsSetting
<1> HIDE DEF name
<1>1. JobsTypes'
  BY <1>n, <1>w, <1>u, <1>t, <1>m, <1>q, <1>v, <1>s1, <1>s2, <1>s3, <1>s4, <1>s5, <1>s6 DEF JobsTypes, Forward
<1>2. runs \in Nat /\ (runs' <= 1 => runs <= 1 /\ runs = 0)
  BY <1>s2 DEF JobsTypes
<1> SUFFICES ASSUME runs' <= 1, FirstRun PROVE FirstRun'
  BY <1>1, <1>2
<1>z. /\ runs = 0 /\ before'.disk = before.disk /\ before'.bucket = before.bucket
      /\ jobsDisk = before.disk /\ bucket = before.bucket
  BY <1>s5, <1>2 DEF FirstRun, DiskInv, OldInv, Old
<1>3. HashInv'
  BY <1>w, <1>u, <1>t, <1>m, <1>q, <1>v, <1>s6 DEF FirstRun, HashInv
<1>4. BackupInv'
  BY <1>n, <1>w, <1>u, <1>t, <1>m, <1>q, <1>v, <1>s2, <1>s3, <1>s6, <1>z, <1>2 DEF FirstRun, BackupInv, Behind, IdleInv, Unused
<1>5. DistinctInv'
  BY <1>w, <1>u, <1>t, <1>m, <1>q, <1>v, <1>s6 DEF FirstRun, DistinctInv
<1>6. IdleInv'
  BY <1>w, <1>u, <1>t, <1>m, <1>q, <1>v, <1>s2, <1>s3, <1>s6, <1>z, <1>2 DEF FirstRun, IdleInv, Unused
<1>7. RunInv'
  BY <1>w, <1>u, <1>t, <1>m, <1>q, <1>v, <1>s2, <1>s3, <1>s6, <1>z, <1>2 DEF FirstRun, RunInv, IdleInv, Unused
<1>8. AheadInv'
  BY <1>n, <1>w, <1>u, <1>t, <1>m, <1>q, <1>v, <1>s2, <1>s3, <1>s6, <1>z, <1>2 DEF FirstRun, AheadInv, Forward, Unused, IdleInv
<1>9. PastInv'
  BY <1>n, <1>w, <1>u, <1>t, <1>m, <1>q, <1>v, <1>s2, <1>s3, <1>s6, <1>z, <1>2 DEF FirstRun, PastInv, Forward, IdleInv, Unused
<1>10. HereInv'
  BY <1>n, <1>w, <1>u, <1>t, <1>m, <1>q, <1>v, <1>s1, <1>s2, <1>s3, <1>s6, <1>z, <1>2 DEF FirstRun, HereInv, Unused, IdleInv
<1>11. OldInv'
  BY <1>w, <1>u, <1>t, <1>m, <1>q, <1>v, <1>s1, <1>s2, <1>s3, <1>s4, <1>s6, <1>z, <1>2 DEF FirstRun, OldInv, Old, IdleInv, Unused, DiskInv
<1>12. SparedInv'
  BY <1>w, <1>u, <1>t, <1>m, <1>q, <1>v, <1>s1, <1>s2, <1>s3, <1>s4, <1>s6, <1>z, <1>2 DEF FirstRun, SparedInv, Old, IdleInv, Unused, OldInv, DiskInv
<1>13. BehindInv'
  BY <1>n, <1>w, <1>u, <1>t, <1>m, <1>q, <1>v, <1>s1, <1>s2, <1>s3, <1>s4, <1>s6, <1>z, <1>2 DEF FirstRun, BehindInv, Behind, Old, IdleInv, Unused, OldInv, DiskInv
<1>14. DoneInv'
  BY <1>n, <1>w, <1>u, <1>t, <1>m, <1>q, <1>v, <1>s1, <1>s2, <1>s3, <1>s4, <1>s6, <1>z, <1>2 DEF FirstRun, DoneInv, Behind, Done, Old, IdleInv, Unused, OldInv, DiskInv
<1>15. BackedInv'
  BY <1>n, <1>w, <1>u, <1>t, <1>m, <1>q, <1>v, <1>s1, <1>s2, <1>s3, <1>s4, <1>s6, <1>z, <1>2 DEF FirstRun, BackedInv, Behind, Old, IdleInv, Unused, OldInv, DiskInv
<1>16. UndoneInv'
  BY <1>n, <1>w, <1>u, <1>t, <1>m, <1>q, <1>v, <1>s1, <1>s2, <1>s3, <1>s4, <1>s6, <1>z, <1>2 DEF FirstRun, UndoneInv, Behind, Done, Old, IdleInv, Unused, OldInv, DiskInv
<1>17. FoundInv'
  BY <1>n, <1>w, <1>u, <1>t, <1>m, <1>q, <1>v, <1>s1, <1>s2, <1>s3, <1>s6, <1>z, <1>2 DEF FirstRun, FoundInv, Unused, IdleInv
<1>18. FirstInv'
  BY <1>w, <1>u, <1>t, <1>m, <1>q, <1>v, <1>s1, <1>s2, <1>s3, <1>s4, <1>s6, <1>z, <1>2 DEF FirstRun, FirstInv, Old, Named, OldInv, IdleInv, Unused, DiskInv
<1>19. DiskInv'
  BY <1>w, <1>u, <1>t, <1>m, <1>q, <1>v, <1>s1, <1>s2, <1>s3, <1>s4, <1>s6, <1>z, <1>2 DEF FirstRun, DiskInv, OldInv, Old, IdleInv, Unused
<1>20. AddedInv'
  <2> SUFFICES ASSUME NEW e \in JobsDeps
               PROVE  \/ data'[e] = before.disk[e]
                      \/ \E i \in 1..Len(pending') : pending'[i].remote = <<e, data'[e], "">>
    BY <1>n, <1>w, <1>u, <1>t, <1>m, <1>q, <1>v, <1>s1, <1>s2, <1>s3, <1>s4, <1>s6, <1>z DEF AddedInv
  <2>1. \/ data[e] = before.disk[e]
        \/ \E i \in 1..Len(pending) : pending[i].remote = <<e, data[e], "">>
    BY <1>n, <1>w, <1>u, <1>t, <1>m, <1>q, <1>v, <1>s1, <1>s2, <1>s3, <1>s4, <1>s6, <1>z, <1>z DEF FirstRun, AddedInv
  <2>2. data'[e] = IF e = d THEN h ELSE data[e]
    BY <1>n, <1>w, <1>u, <1>t, <1>m, <1>q, <1>v, <1>s1, <1>s2, <1>s3, <1>s4, <1>s6, <1>z DEF JobsTypes
  <2>3. CASE e = d
    <3>1. Len(pending) + 1 \in 1..Len(pending') /\ pending'[Len(pending) + 1].remote = name
      BY <1>n, <1>t, <1>q, <1>u
    <3>2. name = <<e, data'[e], "">>
      BY <2>2, <2>3 DEF name
    <3> QED
      BY <3>1, <3>2
  <2>4. CASE e # d
    BY <2>1, <2>2, <2>4, <1>m, <1>v
  <2> QED
    BY <2>3, <2>4
<1>21. NamesWhatIsThere'
  BY <1>s1, <1>s2, <1>z DEF FirstRun, NamesWhatIsThere, Named
<1>22. ~DiskFull => AllOrNothing'
  BY <1>w, <1>u, <1>t, <1>m, <1>q, <1>v, <1>s1, <1>s2, <1>s3, <1>s4, <1>s6, <1>z, <1>2 DEF FirstRun, AllOrNothing, OldInv, Old, IdleInv, Unused, DiskInv, AddedInv
<1> QED
  BY <1>3, <1>4, <1>5, <1>6, <1>7, <1>8, <1>9, <1>10, <1>11, <1>12, <1>13, <1>14, <1>15, <1>16, <1>17, <1>18, <1>19, <1>20, <1>21, <1>22 DEF FirstRun

LEMMA JobsAddRefused ==
  ASSUME JobsSetting, JobsTypes, NEW d \in JobsDeps, AddRefused(d)
  PROVE  JobsTypes' /\ (runs' <= 1 => runs <= 1 /\ (FirstRun => FirstRun'))
<1>n. Len(pending) \in Nat
  BY DEF JobsTypes
<1>p. pending' = pending
  BY DEF AddRefused
<1>s1. jobsDisk' = jobsDisk /\ data' = data /\ bucket' = bucket /\ jobsPc' = jobsPc /\ jobsAt' = jobsAt /\ runs' = runs /\ before' = before
  BY DEF AddRefused
<1>s2. jobsPc = "idle" /\ jobsResult' = "ReadWriteError"
  BY DEF AddRefused
<1>1. JobsTypes'
  BY <1>n, <1>p, <1>s1, <1>s2 DEF JobsTypes, Forward
<1>2. runs \in Nat /\ (runs' <= 1 => runs <= 1)
  BY <1>s1 DEF JobsTypes
<1> SUFFICES ASSUME runs' <= 1, FirstRun PROVE FirstRun'
  BY <1>1, <1>2
<1>3. HashInv'
  BY <1>p DEF FirstRun, HashInv
<1>4. BackupInv'
  BY <1>n, <1>p, <1>s1, <1>s2, <1>2 DEF FirstRun, BackupInv, Behind
<1>5. DistinctInv'
  BY <1>p DEF FirstRun, DistinctInv
<1>6. IdleInv'
  BY <1>p, <1>s1, <1>s2, <1>2 DEF FirstRun, IdleInv, Unused
<1>7. RunInv'
  BY <1>s1, <1>s2, <1>2 DEF FirstRun, RunInv
<1>8. AheadInv'
  BY <1>n, <1>p, <1>s1, <1>s2 DEF FirstRun, AheadInv, Forward, Unused
<1>9. PastInv'
  BY <1>n, <1>p, <1>s1, <1>s2 DEF FirstRun, PastInv, Forward
<1>10. HereInv'
  BY <1>n, <1>p, <1>s1, <1>s2 DEF FirstRun, HereInv, Unused
<1>11. OldInv'
  BY <1>s1, <1>2 DEF FirstRun, OldInv, Old
<1>12. SparedInv'
  BY <1>p, <1>s1, <1>s2 DEF FirstRun, SparedInv, Old
<1>13. BehindInv'
  BY <1>n, <1>p, <1>s1, <1>s2 DEF FirstRun, BehindInv, Behind, Old
<1>14. DoneInv'
  BY <1>n, <1>p, <1>s1, <1>s2 DEF FirstRun, DoneInv, Behind, Done, Old
<1>15. BackedInv'
  BY <1>n, <1>p, <1>s1, <1>s2 DEF FirstRun, BackedInv, Behind, Old
<1>16. UndoneInv'
  BY <1>n, <1>p, <1>s1, <1>s2 DEF FirstRun, UndoneInv, Behind, Done, Old
<1>17. FoundInv'
  BY <1>n, <1>p, <1>s1, <1>s2 DEF FirstRun, FoundInv, Unused
<1>18. FirstInv'
  BY <1>s1 DEF FirstRun, FirstInv, Old, Named
<1>19. DiskInv'
  BY <1>s1, <1>s2, <1>2 DEF FirstRun, DiskInv
<1>20. AddedInv'
  BY <1>p, <1>s1, <1>s2, <1>2 DEF FirstRun, AddedInv
<1>21. NamesWhatIsThere'
  BY <1>s1 DEF FirstRun, NamesWhatIsThere, Named
<1>22. ~DiskFull => AllOrNothing'
  BY <1>s1, <1>s2 DEF FirstRun, AllOrNothing
<1> QED
  BY <1>3, <1>4, <1>5, <1>6, <1>7, <1>8, <1>9, <1>10, <1>11, <1>12, <1>13, <1>14, <1>15, <1>16, <1>17, <1>18, <1>19, <1>20, <1>21, <1>22 DEF FirstRun

LEMMA JobsExecute ==
  ASSUME JobsSetting, JobsTypes, NEW f \in BOOLEAN, Execute(f)
  PROVE  JobsTypes' /\ (runs' <= 1 => runs <= 1 /\ (FirstRun => FirstRun'))
<1>n. Len(pending) \in Nat
  BY DEF JobsTypes
<1>p. pending' = pending
  BY DEF Execute, Dirty
<1>s1. jobsDisk' = jobsDisk /\ data' = data /\ bucket' = bucket
  BY DEF Execute, Dirty
<1>s2. jobsPc = "idle" /\ runs' = runs + 1
  BY DEF Execute, Dirty
<1>s3. \/ jobsPc' = "idle" /\ jobsAt' = jobsAt /\ (jobsResult' = "clean" \/ (jobsResult' = "done" /\ data # jobsDisk /\ pending = <<>>))
       \/ jobsPc' = "exists" /\ jobsAt' = 1 /\ jobsResult' = "none" /\ pending # <<>>
  <2>1. CASE ~Dirty
    BY <2>1 DEF Execute
  <2>2. CASE Dirty /\ pending = <<>>
    BY <2>2 DEF Execute, Dirty
  <2>3. CASE Dirty /\ pending # <<>>
    BY <2>3 DEF Execute
  <2> QED
    BY <2>1, <2>2, <2>3
<1>s4. before' = [disk |-> jobsDisk, bucket |-> bucket]
  BY DEF Execute, Dirty
<1>1. JobsTypes'
  BY <1>n, <1>p, <1>s1, <1>s2, <1>s3, <1>s4 DEF JobsTypes, Forward
<1>2. runs \in Nat /\ (runs' <= 1 => runs <= 1 /\ runs = 0)
  BY <1>s2 DEF JobsTypes
<1> SUFFICES ASSUME runs' <= 1, FirstRun PROVE FirstRun'
  BY <1>1, <1>2
<1>z. /\ runs = 0 /\ before'.disk = before.disk /\ before'.bucket = before.bucket
      /\ jobsDisk = before.disk /\ bucket = before.bucket
  BY <1>s4, <1>2 DEF FirstRun, DiskInv, OldInv, Old
<1>3. HashInv'
  BY <1>p, <1>s3 DEF FirstRun, HashInv
<1>4. BackupInv'
  BY <1>n, <1>p, <1>s2, <1>s3, <1>z, <1>2 DEF FirstRun, BackupInv, Behind, IdleInv, Unused
<1>5. DistinctInv'
  BY <1>p, <1>s3 DEF FirstRun, DistinctInv
<1>6. IdleInv'
  BY <1>p, <1>s2, <1>s3, <1>z, <1>2 DEF FirstRun, IdleInv, Unused
<1>7. RunInv'
  BY <1>p, <1>s2, <1>s3, <1>z, <1>2 DEF FirstRun, RunInv, IdleInv, Unused
<1>8. AheadInv'
  BY <1>n, <1>p, <1>s2, <1>s3, <1>z, <1>2 DEF FirstRun, AheadInv, Forward, Unused, IdleInv
<1>9. PastInv'
  BY <1>n, <1>p, <1>s2, <1>s3, <1>z, <1>2 DEF FirstRun, PastInv, Forward, IdleInv, Unused
<1>10. HereInv'
  BY <1>n, <1>p, <1>s1, <1>s2, <1>s3, <1>z, <1>2 DEF FirstRun, HereInv, Unused, IdleInv
<1>11. OldInv'
  BY <1>p, <1>s1, <1>s2, <1>s3, <1>z, <1>2 DEF FirstRun, OldInv, Old, IdleInv, Unused, DiskInv
<1>12. SparedInv'
  BY <1>p, <1>s1, <1>s2, <1>s3, <1>z, <1>2 DEF FirstRun, SparedInv, Old, IdleInv, Unused, OldInv, DiskInv
<1>13. BehindInv'
  BY <1>n, <1>p, <1>s1, <1>s2, <1>s3, <1>z, <1>2 DEF FirstRun, BehindInv, Behind, Old, IdleInv, Unused, OldInv, DiskInv
<1>14. DoneInv'
  BY <1>n, <1>p, <1>s1, <1>s2, <1>s3, <1>z, <1>2 DEF FirstRun, DoneInv, Behind, Done, Old, IdleInv, Unused, OldInv, DiskInv
<1>15. BackedInv'
  BY <1>n, <1>p, <1>s1, <1>s2, <1>s3, <1>z, <1>2 DEF FirstRun, BackedInv, Behind, Old, IdleInv, Unused, OldInv, DiskInv
<1>16. UndoneInv'
  BY <1>n, <1>p, <1>s1, <1>s2, <1>s3, <1>z, <1>2 DEF FirstRun, UndoneInv, Behind, Done, Old, IdleInv, Unused, OldInv, DiskInv
<1>17. FoundInv'
  BY <1>n, <1>p, <1>s1, <1>s2, <1>s3, <1>z, <1>2 DEF FirstRun, FoundInv, Unused, IdleInv
<1>18. FirstInv'
  BY <1>p, <1>s1, <1>s2, <1>s3, <1>z, <1>2 DEF FirstRun, FirstInv, Old, Named, OldInv, IdleInv, Unused, DiskInv
<1>19. DiskInv'
  BY <1>p, <1>s1, <1>s2, <1>s3, <1>z, <1>2 DEF FirstRun, DiskInv, OldInv, Old, IdleInv, Unused
<1>20. AddedInv'
  BY <1>p, <1>s1, <1>s2, <1>s3, <1>z, <1>2 DEF FirstRun, AddedInv, OldInv, Old, IdleInv, Unused, DiskInv
<1>21. NamesWhatIsThere'
  BY <1>s1, <1>s3, <1>z DEF FirstRun, NamesWhatIsThere, Named
<1>22. ~DiskFull => AllOrNothing'
  <2>1. ASSUME data # jobsDisk, pending = <<>> PROVE FALSE
    <3>1. \A i \in 1..Len(pending) : FALSE
      BY <2>1
    <3>2. \A d \in JobsDeps : data[d] = before.disk[d]
      BY <1>z, <3>1 DEF FirstRun, AddedInv
    <3>3. data = before.disk
      BY <3>2 DEF FirstRun, FirstInv, JobsTypes
    <3> QED
      BY <1>z, <2>1, <3>3
  <2>2. jobsResult' # "failed" /\ jobsResult' # "done"
    BY <1>s3, <2>1
  <2> QED
    BY <2>2 DEF AllOrNothing
<1> QED
  BY <1>3, <1>4, <1>5, <1>6, <1>7, <1>8, <1>9, <1>10, <1>11, <1>12, <1>13, <1>14, <1>15, <1>16, <1>17, <1>18, <1>19, <1>20, <1>21, <1>22 DEF FirstRun

LEMMA JobsExists ==
  ASSUME JobsSetting, JobsTypes, Exists
  PROVE  JobsTypes' /\ (runs' <= 1 => runs <= 1 /\ (FirstRun => FirstRun'))
<1>n. Len(pending) \in Nat
  BY DEF JobsTypes
<1>p. pending' = pending
  BY DEF Exists, Upload, Item, Fail
<1>s1. jobsDisk' = jobsDisk /\ data' = data /\ bucket' = bucket /\ jobsResult' = jobsResult /\ runs' = runs /\ before' = before
  BY DEF Exists, Upload, Item, Fail
<1>s2. jobsPc = "exists" /\ bucket[pending[jobsAt].remote] # Nothing
  BY DEF Exists, Upload, Item, Fail
<1>s3. \/ jobsPc' = "copy" /\ jobsAt' = jobsAt
       \/ jobsPc' = "rollback" /\ jobsAt' = Len(pending)
  <2>1. CASE force
    BY <2>1 DEF Exists, Fail
  <2>2. CASE ~(force)
    BY <2>2 DEF Exists, Fail
  <2> QED
    BY <2>1, <2>2
<1>1. JobsTypes'
  BY <1>n, <1>p, <1>s1, <1>s2, <1>s3 DEF JobsTypes, Forward
<1>2. runs \in Nat /\ (runs' <= 1 => runs <= 1)
  BY <1>s1 DEF JobsTypes
<1> SUFFICES ASSUME runs' <= 1, FirstRun PROVE FirstRun'
  BY <1>1, <1>2
<1>3. HashInv'
  BY <1>p, <1>s2, <1>s3 DEF FirstRun, HashInv
<1>4. BackupInv'
  BY <1>n, <1>p, <1>s1, <1>s2, <1>s3, <1>2 DEF FirstRun, BackupInv, Behind
<1>5. DistinctInv'
  BY <1>p, <1>s2, <1>s3 DEF FirstRun, DistinctInv
<1>6. IdleInv'
  BY <1>p, <1>s1, <1>s2, <1>s3, <1>2 DEF FirstRun, IdleInv, Unused
<1>7. RunInv'
  BY <1>s1, <1>s2, <1>s3, <1>2 DEF FirstRun, RunInv
<1>8. AheadInv'
  BY <1>n, <1>p, <1>s2, <1>s3 DEF FirstRun, AheadInv, Forward, Unused
<1>9. PastInv'
  BY <1>n, <1>p, <1>s2, <1>s3 DEF FirstRun, PastInv, Forward
<1>10. HereInv'
  BY <1>n, <1>p, <1>s1, <1>s2, <1>s3 DEF FirstRun, HereInv, Unused
<1>11. OldInv'
  BY <1>s1, <1>s2, <1>2 DEF FirstRun, OldInv, Old
<1>12. SparedInv'
  BY <1>p, <1>s1, <1>s2, <1>s3 DEF FirstRun, SparedInv, Old
<1>13. BehindInv'
  BY <1>n, <1>p, <1>s1, <1>s2, <1>s3 DEF FirstRun, BehindInv, Behind, Old
<1>14. DoneInv'
  BY <1>n, <1>p, <1>s1, <1>s2, <1>s3 DEF FirstRun, DoneInv, Behind, Done, Old
<1>15. BackedInv'
  BY <1>n, <1>p, <1>s1, <1>s2, <1>s3 DEF FirstRun, BackedInv, Behind, Old
<1>16. UndoneInv'
  BY <1>n, <1>p, <1>s1, <1>s2, <1>s3 DEF FirstRun, UndoneInv, Behind, Done, Old
<1>17. FoundInv'
  BY <1>n, <1>p, <1>s1, <1>s2, <1>s3 DEF FirstRun, FoundInv, Unused
<1>18. FirstInv'
  BY <1>s1, <1>s2 DEF FirstRun, FirstInv, Old, Named
<1>19. DiskInv'
  BY <1>s1, <1>s2, <1>s3, <1>2 DEF FirstRun, DiskInv
<1>20. AddedInv'
  BY <1>p, <1>s1, <1>s2, <1>s3, <1>2 DEF FirstRun, AddedInv
<1>21. NamesWhatIsThere'
  BY <1>s1, <1>s2 DEF FirstRun, NamesWhatIsThere, Named
<1>22. ~DiskFull => AllOrNothing'
  BY <1>s1, <1>s2 DEF FirstRun, AllOrNothing
<1> QED
  BY <1>3, <1>4, <1>5, <1>6, <1>7, <1>8, <1>9, <1>10, <1>11, <1>12, <1>13, <1>14, <1>15, <1>16, <1>17, <1>18, <1>19, <1>20, <1>21, <1>22 DEF FirstRun

LEMMA JobsExistsNot ==
  ASSUME JobsSetting, JobsTypes, ExistsNot
  PROVE  JobsTypes' /\ (runs' <= 1 => runs <= 1 /\ (FirstRun => FirstRun'))
<1>n. Len(pending) \in Nat
  BY DEF JobsTypes
<1>p. pending' = pending
  BY DEF ExistsNot, Upload, Item
<1>s1. jobsDisk' = jobsDisk /\ data' = data /\ bucket' = bucket /\ jobsAt' = jobsAt /\ jobsResult' = jobsResult /\ runs' = runs /\ before' = before
  BY DEF ExistsNot, Upload, Item
<1>s2. jobsPc = "exists" /\ jobsPc' = "insert" /\ bucket[pending[jobsAt].remote] = Nothing
  BY DEF ExistsNot, Upload, Item
<1>1. JobsTypes'
  BY <1>n, <1>p, <1>s1, <1>s2 DEF JobsTypes, Forward
<1>2. runs \in Nat /\ (runs' <= 1 => runs <= 1)
  BY <1>s1 DEF JobsTypes
<1> SUFFICES ASSUME runs' <= 1, FirstRun PROVE FirstRun'
  BY <1>1, <1>2
<1>3. HashInv'
  BY <1>p, <1>s2 DEF FirstRun, HashInv
<1>4. BackupInv'
  BY <1>n, <1>p, <1>s1, <1>s2, <1>2 DEF FirstRun, BackupInv, Behind
<1>5. DistinctInv'
  BY <1>p, <1>s2 DEF FirstRun, DistinctInv
<1>6. IdleInv'
  BY <1>p, <1>s1, <1>s2, <1>2 DEF FirstRun, IdleInv, Unused
<1>7. RunInv'
  BY <1>s1, <1>s2, <1>2 DEF FirstRun, RunInv
<1>8. AheadInv'
  BY <1>n, <1>p, <1>s1, <1>s2 DEF FirstRun, AheadInv, Forward, Unused
<1>9. PastInv'
  BY <1>n, <1>p, <1>s1, <1>s2 DEF FirstRun, PastInv, Forward
<1>10. HereInv'
  BY <1>n, <1>p, <1>s1, <1>s2 DEF FirstRun, HereInv, Unused
<1>11. OldInv'
  BY <1>s1, <1>s2, <1>2 DEF FirstRun, OldInv, Old
<1>12. SparedInv'
  BY <1>p, <1>s1, <1>s2 DEF FirstRun, SparedInv, Old
<1>13. BehindInv'
  BY <1>n, <1>p, <1>s1, <1>s2 DEF FirstRun, BehindInv, Behind, Old
<1>14. DoneInv'
  BY <1>n, <1>p, <1>s1, <1>s2 DEF FirstRun, DoneInv, Behind, Done, Old
<1>15. BackedInv'
  BY <1>n, <1>p, <1>s1, <1>s2 DEF FirstRun, BackedInv, Behind, Old
<1>16. UndoneInv'
  BY <1>n, <1>p, <1>s1, <1>s2 DEF FirstRun, UndoneInv, Behind, Done, Old
<1>17. FoundInv'
  BY <1>n, <1>p, <1>s1, <1>s2 DEF FirstRun, FoundInv, Unused
<1>18. FirstInv'
  BY <1>s1, <1>s2 DEF FirstRun, FirstInv, Old, Named
<1>19. DiskInv'
  BY <1>s1, <1>s2, <1>2 DEF FirstRun, DiskInv
<1>20. AddedInv'
  BY <1>p, <1>s1, <1>s2, <1>2 DEF FirstRun, AddedInv
<1>21. NamesWhatIsThere'
  BY <1>s1, <1>s2 DEF FirstRun, NamesWhatIsThere, Named
<1>22. ~DiskFull => AllOrNothing'
  BY <1>s1, <1>s2 DEF FirstRun, AllOrNothing
<1> QED
  BY <1>3, <1>4, <1>5, <1>6, <1>7, <1>8, <1>9, <1>10, <1>11, <1>12, <1>13, <1>14, <1>15, <1>16, <1>17, <1>18, <1>19, <1>20, <1>21, <1>22 DEF FirstRun

LEMMA JobsCopyToBackup ==
  ASSUME JobsSetting, JobsTypes, CopyToBackup
  PROVE  JobsTypes' /\ (runs' <= 1 => runs <= 1 /\ (FirstRun => FirstRun'))
<1>n. Len(pending) \in Nat
  BY DEF JobsTypes
<1>a. jobsAt \in 1..Len(pending) /\ Len(pending) \in Nat /\ pending[jobsAt] \in Uploaders
  BY DEF CopyToBackup, Upload, Item, JobsTypes, Forward
<1> DEFINE new == [pending[jobsAt] EXCEPT !.backed_up = TRUE]
<1>u. new \in Uploaders
  BY <1>a, RemoteNames DEF Uploaders
<1>p. pending' = [pending EXCEPT ![jobsAt] = new]
  BY DEF CopyToBackup, Upload, Item
<1>f. /\ new.remote = pending[jobsAt].remote /\ new.hash = pending[jobsAt].hash
      /\ new.updated = pending[jobsAt].updated /\ new.backed_up = TRUE
      /\ new.backup = pending[jobsAt].backup
  BY <1>a DEF Uploaders
<1> HIDE DEF new
<1>t. pending' \in Seq(Uploaders) /\ Len(pending') = Len(pending)
  BY <1>a, <1>p, <1>u, OnePut DEF JobsTypes
<1>q. pending'[jobsAt] = new /\ \A i \in 1..Len(pending) : i # jobsAt => pending'[i] = pending[i]
  BY <1>a, <1>p, <1>u, OnePut DEF JobsTypes
<1>s1. jobsDisk' = jobsDisk /\ data' = data /\ jobsAt' = jobsAt /\ jobsResult' = jobsResult /\ runs' = runs /\ before' = before
  BY DEF CopyToBackup, Upload, Item
<1>s2. jobsPc = "copy" /\ jobsPc' = "insert"
  BY DEF CopyToBackup, Upload, Item
<1>s3. bucket' = [bucket EXCEPT ![pending[jobsAt].backup] = bucket[pending[jobsAt].remote]]
  BY DEF CopyToBackup, Upload, Item
<1>b. bucket' \in Objects
  BY <1>n, <1>a, <1>f, <1>t, <1>q, <1>s1, <1>s2, <1>s3, RemoteNames DEF JobsTypes, Objects, Forward, JobsSetting, UpdateJobsAssumption, Uploaders
<1>1. JobsTypes'
  BY <1>n, <1>a, <1>f, <1>t, <1>q, <1>s1, <1>s2, <1>s3, <1>b DEF JobsTypes, Forward
<1>2. runs \in Nat /\ (runs' <= 1 => runs <= 1)
  BY <1>s1 DEF JobsTypes
<1> SUFFICES ASSUME runs' <= 1, FirstRun PROVE FirstRun'
  BY <1>1, <1>2
<1>r. \A i \in 1..Len(pending) : /\ pending[i].remote \in Remote /\ pending[i].remote \in Names /\ pending[i].backup \in Names
                                   /\ pending[i].hash \in JobsHashes
  <2>1. \A i \in 1..Len(pending) : pending[i] \in Uploaders
    BY DEF JobsTypes
  <2> QED
    BY <2>1, RemoteNames DEF Uploaders
<1>c1. \A i \in 1..Len(pending) : /\ pending'[i].remote = pending[i].remote /\ pending'[i].hash = pending[i].hash
                                 /\ pending'[i].updated = pending[i].updated /\ pending'[i].backup = pending[i].backup
  BY <1>n, <1>a, <1>f, <1>t, <1>q, <1>s1, <1>s2, <1>s3
<1>d. \A i \in 1..Len(pending) : pending[i].backup = BackupPath(pending[i].remote)
  BY <1>n, <1>a, <1>f, <1>t, <1>q, <1>s1, <1>s2, <1>s3, <1>c1, <1>2 DEF FirstRun, BackupInv, Behind, RunInv
<1>c2. \A r \in Remote : bucket'[r] = bucket[r]
  <2>1. \A r \in Remote : r # pending[jobsAt].backup
    BY <1>a, <1>d, <1>r, BackupIsNoRemote
  <2> QED
    BY <1>n, <1>a, <1>f, <1>t, <1>q, <1>s1, <1>s2, <1>s3, <1>c1, <2>1, RemoteNames DEF JobsTypes, Objects
<1>c3. bucket'[pending[jobsAt].backup] = bucket[pending[jobsAt].remote]
  BY <1>n, <1>a, <1>f, <1>t, <1>q, <1>s1, <1>s2, <1>s3, <1>c1, <1>c2, <1>a, <1>r DEF JobsTypes, Objects
<1>e. \A i \in 1..Len(pending) : i # jobsAt => pending[i].backup # pending[jobsAt].backup
  BY <1>a, <1>d, <1>r, BackupsDiffer DEF FirstRun, DistinctInv
<1>c4. \A i \in 1..Len(pending) : i # jobsAt => bucket'[pending[i].backup] = bucket[pending[i].backup]
  BY <1>n, <1>a, <1>f, <1>t, <1>q, <1>s1, <1>s2, <1>s3, <1>c1, <1>c2, <1>c3, <1>a, <1>e, <1>r DEF JobsTypes, Objects
<1>c5. \A i \in 1..Len(pending) : pending[i].remote \in Remote
  BY <1>r
<1>3. HashInv'
  BY <1>a, <1>f, <1>t, <1>q, <1>s3, <1>c1, <1>c3, <1>c4, <1>c5 DEF FirstRun, HashInv
<1>4. BackupInv'
  BY <1>n, <1>a, <1>f, <1>t, <1>q, <1>s1, <1>s2, <1>s3, <1>c1, <1>c3, <1>c4, <1>c5, <1>2 DEF FirstRun, BackupInv, Behind
<1>5. DistinctInv'
  BY <1>a, <1>f, <1>t, <1>q, <1>s3, <1>c1, <1>c3, <1>c4, <1>c5 DEF FirstRun, DistinctInv
<1>6. IdleInv'
  BY <1>a, <1>f, <1>t, <1>q, <1>s1, <1>s2, <1>s3, <1>c1, <1>c3, <1>c4, <1>c5, <1>2 DEF FirstRun, IdleInv, Unused
<1>7. RunInv'
  BY <1>s1, <1>s2, <1>2 DEF FirstRun, RunInv
<1>8. AheadInv'
  BY <1>n, <1>a, <1>f, <1>t, <1>q, <1>s1, <1>s2, <1>s3, <1>c1, <1>c3, <1>c4, <1>c5 DEF FirstRun, AheadInv, Forward, Unused
<1>9. PastInv'
  BY <1>n, <1>a, <1>f, <1>t, <1>q, <1>s1, <1>s2, <1>s3, <1>c1, <1>c3, <1>c4, <1>c5 DEF FirstRun, PastInv, Forward
<1>10. HereInv'
  BY <1>n, <1>a, <1>f, <1>t, <1>q, <1>s1, <1>s2, <1>s3, <1>c1, <1>c2, <1>c3, <1>c4, <1>c5 DEF FirstRun, HereInv, Unused
<1>11. OldInv'
  BY <1>s1, <1>s2, <1>s3, <1>c2, <1>c3, <1>c4, <1>2 DEF FirstRun, OldInv, Old, RunInv
<1>12. SparedInv'
  BY <1>a, <1>f, <1>t, <1>q, <1>s1, <1>s2, <1>s3, <1>c1, <1>c2, <1>c3, <1>c4, <1>c5 DEF FirstRun, SparedInv, Old
<1>13. BehindInv'
  BY <1>n, <1>a, <1>f, <1>t, <1>q, <1>s1, <1>s2, <1>s3, <1>c1, <1>c2, <1>c3, <1>c4, <1>c5 DEF FirstRun, BehindInv, Behind, Old
<1>14. DoneInv'
  BY <1>n, <1>a, <1>f, <1>t, <1>q, <1>s1, <1>s2, <1>s3, <1>c1, <1>c2, <1>c3, <1>c4, <1>c5 DEF FirstRun, DoneInv, Behind, Done, Old
<1>15. BackedInv'
  BY <1>n, <1>a, <1>f, <1>t, <1>q, <1>s1, <1>s2, <1>s3, <1>c1, <1>c2, <1>c3, <1>c4, <1>c5 DEF FirstRun, BackedInv, Behind, Old, UndoneInv, Done, HereInv, Unused, FoundInv
<1>16. UndoneInv'
  BY <1>n, <1>a, <1>f, <1>t, <1>q, <1>s1, <1>s2, <1>s3, <1>c1, <1>c2, <1>c3, <1>c4, <1>c5 DEF FirstRun, UndoneInv, Behind, Done, Old
<1>17. FoundInv'
  BY <1>n, <1>a, <1>f, <1>t, <1>q, <1>s1, <1>s2, <1>s3, <1>c1, <1>c2, <1>c3, <1>c4, <1>c5 DEF FirstRun, FoundInv, Unused
<1>18. FirstInv'
  BY <1>s1, <1>s3, <1>c2, <1>c3, <1>c4 DEF FirstRun, FirstInv, Old, Named
<1>19. DiskInv'
  BY <1>s1, <1>s2, <1>2 DEF FirstRun, DiskInv, RunInv
<1>20. AddedInv'
  <2> SUFFICES ASSUME NEW d \in JobsDeps
               PROVE  \/ data[d] = before.disk[d]
                      \/ \E i \in 1..Len(pending) : pending'[i].remote = <<d, data[d], "">>
    BY <1>n, <1>a, <1>f, <1>t, <1>q, <1>s1, <1>s2, <1>s3, <1>c1, <1>c2, <1>c3, <1>c4, <1>c5 DEF AddedInv
  <2>1. \/ data[d] = before.disk[d]
        \/ \E i \in 1..Len(pending) : pending[i].remote = <<d, data[d], "">>
    BY <1>n, <1>a, <1>f, <1>t, <1>q, <1>s1, <1>s2, <1>s3, <1>c1, <1>c2, <1>c3, <1>c4, <1>c5 DEF FirstRun, AddedInv
  <2> QED
    BY <1>n, <1>a, <1>f, <1>t, <1>q, <1>s1, <1>s2, <1>s3, <1>c1, <1>c2, <1>c3, <1>c4, <1>c5, <2>1
<1>21. NamesWhatIsThere'
  <2>1. jobsDisk = before.disk /\ before.disk \in [JobsDeps -> JobsHashes]
    BY <1>n, <1>a, <1>f, <1>t, <1>q, <1>s1, <1>s2, <1>s3, <1>c1, <1>c2, <1>c3, <1>c4, <1>c5 DEF FirstRun, DiskInv, FirstInv
  <2>2. \A d \in JobsDeps : <<d, jobsDisk[d], "">> \in Remote
    BY <2>1, RemoteNames
  <2>3. jobsDisk # Nothing => \A d \in JobsDeps : bucket[<<d, jobsDisk[d], "">>] = jobsDisk[d]
    BY DEF FirstRun, NamesWhatIsThere
  <2>4. ASSUME jobsDisk # Nothing, NEW d \in JobsDeps
        PROVE  bucket'[<<d, jobsDisk[d], "">>] = jobsDisk[d]
    BY <1>c2, <2>2, <2>3, <2>4
  <2> QED
    BY <1>s1, <2>4 DEF NamesWhatIsThere
<1>22. ~DiskFull => AllOrNothing'
  BY <1>s1, <1>s2, <1>s3, <1>c2, <1>c3, <1>c4, <1>2 DEF FirstRun, AllOrNothing, RunInv
<1> QED
  BY <1>3, <1>4, <1>5, <1>6, <1>7, <1>8, <1>9, <1>10, <1>11, <1>12, <1>13, <1>14, <1>15, <1>16, <1>17, <1>18, <1>19, <1>20, <1>21, <1>22 DEF FirstRun

LEMMA JobsInsert ==
  ASSUME JobsSetting, JobsTypes, Insert
  PROVE  JobsTypes' /\ (runs' <= 1 => runs <= 1 /\ (FirstRun => FirstRun'))
<1>n. Len(pending) \in Nat
  BY DEF JobsTypes
<1>p. pending' = pending
  BY DEF Insert, Upload, Item
<1>s1. jobsDisk' = jobsDisk /\ data' = data /\ jobsAt' = jobsAt /\ jobsResult' = jobsResult /\ runs' = runs /\ before' = before
  BY DEF Insert, Upload, Item
<1>s2. jobsPc = "insert" /\ jobsPc' = "inserted"
  BY DEF Insert, Upload, Item
<1>s3. bucket' = [bucket EXCEPT ![pending[jobsAt].remote] = pending[jobsAt].hash]
  BY DEF Insert, Upload, Item
<1>b. bucket' \in Objects
  <2>1. jobsAt \in 1..Len(pending)
    BY <1>s2 DEF JobsTypes, Forward
  <2>0. pending[jobsAt] \in Uploaders
    BY <2>1 DEF JobsTypes
  <2>2. pending[jobsAt].remote \in Names /\ pending[jobsAt].hash \in JobsHashes
    BY <2>0, RemoteNames DEF Uploaders
  <2> QED
    BY <1>s3, <2>2 DEF JobsTypes, Objects
<1>1. JobsTypes'
  BY <1>n, <1>p, <1>s1, <1>s2, <1>s3, <1>b DEF JobsTypes, Forward
<1>2. runs \in Nat /\ (runs' <= 1 => runs <= 1)
  BY <1>s1 DEF JobsTypes
<1> SUFFICES ASSUME runs' <= 1, FirstRun PROVE FirstRun'
  BY <1>1, <1>2
<1>r. \A i \in 1..Len(pending) : /\ pending[i].remote \in Remote /\ pending[i].remote \in Names /\ pending[i].backup \in Names
                                   /\ pending[i].hash \in JobsHashes
  <2>1. \A i \in 1..Len(pending) : pending[i] \in Uploaders
    BY DEF JobsTypes
  <2> QED
    BY <2>1, RemoteNames DEF Uploaders
<1>a. jobsAt \in 1..Len(pending)
  BY <1>n, <1>p, <1>s1, <1>s2, <1>s3 DEF JobsTypes, Forward
<1>d. \A i \in 1..Len(pending) : pending[i].backup = BackupPath(pending[i].remote)
  BY <1>n, <1>p, <1>s1, <1>s2, <1>s3, <1>2 DEF FirstRun, BackupInv, Behind, RunInv
<1>c1. bucket'[pending[jobsAt].remote] = pending[jobsAt].hash
  BY <1>n, <1>p, <1>s1, <1>s2, <1>s3, <1>a, <1>r DEF JobsTypes, Objects
<1>c2. \A r \in Remote : r # pending[jobsAt].remote => bucket'[r] = bucket[r]
  BY <1>n, <1>p, <1>s1, <1>s2, <1>s3, <1>c1, <1>a, <1>r, RemoteNames DEF JobsTypes, Objects
<1>c3. \A i \in 1..Len(pending) : i # jobsAt => bucket'[pending[i].remote] = bucket[pending[i].remote]
  BY <1>a, <1>r, <1>c2 DEF FirstRun, DistinctInv
<1>e. \A i \in 1..Len(pending) : pending[i].backup # pending[jobsAt].remote
  BY <1>a, <1>d, <1>r, BackupIsNoRemote
<1>c4. \A i \in 1..Len(pending) : bucket'[pending[i].backup] = bucket[pending[i].backup]
  BY <1>n, <1>p, <1>s1, <1>s2, <1>s3, <1>c1, <1>c2, <1>c3, <1>a, <1>e, <1>r DEF JobsTypes, Objects
<1>c5. jobsAt \in 1..Len(pending) /\ \A i \in 1..Len(pending) : pending[i].remote \in Remote
  BY <1>a, <1>r
<1>3. HashInv'
  BY <1>p, <1>s3, <1>c1, <1>c2, <1>c3, <1>c4, <1>c5 DEF FirstRun, HashInv
<1>4. BackupInv'
  BY <1>n, <1>p, <1>s1, <1>s2, <1>s3, <1>c1, <1>c2, <1>c3, <1>c4, <1>c5, <1>2 DEF FirstRun, BackupInv, Behind
<1>5. DistinctInv'
  BY <1>p, <1>s3, <1>c1, <1>c2, <1>c3, <1>c4, <1>c5 DEF FirstRun, DistinctInv
<1>6. IdleInv'
  BY <1>p, <1>s1, <1>s2, <1>s3, <1>c1, <1>c2, <1>c3, <1>c4, <1>c5, <1>2 DEF FirstRun, IdleInv, Unused
<1>7. RunInv'
  BY <1>s1, <1>s2, <1>2 DEF FirstRun, RunInv
<1>8. AheadInv'
  BY <1>n, <1>p, <1>s1, <1>s2, <1>s3, <1>c1, <1>c2, <1>c3, <1>c4, <1>c5 DEF FirstRun, AheadInv, Forward, Unused
<1>9. PastInv'
  BY <1>n, <1>p, <1>s1, <1>s2, <1>s3, <1>c1, <1>c2, <1>c3, <1>c4, <1>c5 DEF FirstRun, PastInv, Forward
<1>10. HereInv'
  BY <1>n, <1>p, <1>s1, <1>s2, <1>s3, <1>c1, <1>c2, <1>c3, <1>c4, <1>c5 DEF FirstRun, HereInv, Unused
<1>11. OldInv'
  BY <1>s1, <1>s2, <1>s3, <1>c1, <1>c2, <1>c3, <1>c4, <1>2 DEF FirstRun, OldInv, Old, RunInv
<1>12. SparedInv'
  BY <1>p, <1>s1, <1>s2, <1>s3, <1>c1, <1>c2, <1>c3, <1>c4, <1>c5, <1>2 DEF FirstRun, SparedInv, Old, RunInv
<1>13. BehindInv'
  BY <1>n, <1>p, <1>s1, <1>s2, <1>s3, <1>c1, <1>c2, <1>c3, <1>c4, <1>c5 DEF FirstRun, BehindInv, Behind, Old
<1>14. DoneInv'
  BY <1>n, <1>p, <1>s1, <1>s2, <1>s3, <1>c1, <1>c2, <1>c3, <1>c4, <1>c5 DEF FirstRun, DoneInv, Behind, Done, Old, UndoneInv, HereInv, Unused, FoundInv
<1>15. BackedInv'
  BY <1>n, <1>p, <1>s1, <1>s2, <1>s3, <1>c1, <1>c2, <1>c3, <1>c4, <1>c5, <1>2 DEF FirstRun, BackedInv, Behind, Old, RunInv
<1>16. UndoneInv'
  BY <1>n, <1>p, <1>s1, <1>s2, <1>s3, <1>c1, <1>c2, <1>c3, <1>c4, <1>c5, <1>2 DEF FirstRun, UndoneInv, Behind, Done, Old, RunInv
<1>17. FoundInv'
  BY <1>n, <1>p, <1>s1, <1>s2, <1>s3, <1>c1, <1>c2, <1>c3, <1>c4, <1>c5 DEF FirstRun, FoundInv, Unused
<1>18. FirstInv'
  BY <1>s1, <1>s3, <1>c1, <1>c2, <1>c3, <1>c4 DEF FirstRun, FirstInv, Old, Named
<1>19. DiskInv'
  BY <1>s1, <1>s2, <1>2 DEF FirstRun, DiskInv, RunInv
<1>20. AddedInv'
  BY <1>p, <1>s1, <1>s2, <1>s3, <1>c1, <1>c2, <1>c3, <1>c4, <1>c5, <1>2 DEF FirstRun, AddedInv, RunInv
<1>21. NamesWhatIsThere'
  <2> SUFFICES ASSUME jobsDisk # Nothing, NEW d \in JobsDeps PROVE bucket'[<<d, jobsDisk[d], "">>] = jobsDisk[d]
    BY <1>n, <1>p, <1>s1, <1>s2, <1>s3, <1>c1, <1>c2, <1>c3, <1>c4, <1>c5 DEF NamesWhatIsThere
  <2> DEFINE r == <<d, jobsDisk[d], "">>
  <2>1. jobsDisk = before.disk /\ before.disk \in [JobsDeps -> JobsHashes]
    BY <1>n, <1>p, <1>s1, <1>s2, <1>s3, <1>c1, <1>c2, <1>c3, <1>c4, <1>c5 DEF FirstRun, DiskInv, FirstInv
  <2>2. r \in Remote /\ r[2] = jobsDisk[d]
    BY <2>1, RemoteNames
  <2>5. jobsDisk # Nothing => bucket[r] = jobsDisk[d]
    BY DEF FirstRun, NamesWhatIsThere
  <2>3. CASE r = pending[jobsAt].remote
    BY <1>n, <1>p, <1>s1, <1>s2, <1>s3, <1>c1, <1>c2, <1>c3, <1>c4, <1>c5, <2>2, <2>3 DEF FirstRun, HashInv
  <2>4. CASE r # pending[jobsAt].remote
    BY <1>n, <1>p, <1>s1, <1>s2, <1>s3, <1>c1, <1>c2, <1>c3, <1>c4, <1>c5, <2>2, <2>4, <2>5
  <2> QED
    BY <2>3, <2>4
<1>22. ~DiskFull => AllOrNothing'
  BY <1>s1, <1>s2, <1>s3, <1>c1, <1>c2, <1>c3, <1>c4, <1>2 DEF FirstRun, AllOrNothing, RunInv
<1> QED
  BY <1>3, <1>4, <1>5, <1>6, <1>7, <1>8, <1>9, <1>10, <1>11, <1>12, <1>13, <1>14, <1>15, <1>16, <1>17, <1>18, <1>19, <1>20, <1>21, <1>22 DEF FirstRun

LEMMA JobsUpdated ==
  ASSUME JobsSetting, JobsTypes, Updated
  PROVE  JobsTypes' /\ (runs' <= 1 => runs <= 1 /\ (FirstRun => FirstRun'))
<1>n. Len(pending) \in Nat
  BY DEF JobsTypes
<1>a. jobsAt \in 1..Len(pending) /\ Len(pending) \in Nat /\ pending[jobsAt] \in Uploaders
  BY DEF Updated, Upload, JobsTypes, Forward
<1> DEFINE new == [pending[jobsAt] EXCEPT !.updated = TRUE]
<1>u. new \in Uploaders
  BY <1>a, RemoteNames DEF Uploaders
<1>p. pending' = [pending EXCEPT ![jobsAt] = new]
  BY DEF Updated, Upload
<1>f. /\ new.remote = pending[jobsAt].remote /\ new.hash = pending[jobsAt].hash
      /\ new.updated = TRUE /\ new.backed_up = pending[jobsAt].backed_up
      /\ new.backup = pending[jobsAt].backup
  BY <1>a DEF Uploaders
<1> HIDE DEF new
<1>t. pending' \in Seq(Uploaders) /\ Len(pending') = Len(pending)
  BY <1>a, <1>p, <1>u, OnePut DEF JobsTypes
<1>q. pending'[jobsAt] = new /\ \A i \in 1..Len(pending) : i # jobsAt => pending'[i] = pending[i]
  BY <1>a, <1>p, <1>u, OnePut DEF JobsTypes
<1>s1. jobsDisk' = jobsDisk /\ data' = data /\ bucket' = bucket /\ jobsResult' = jobsResult /\ runs' = runs /\ before' = before
  BY DEF Updated, Upload
<1>s2. jobsPc = "inserted"
  BY DEF Updated, Upload
<1>s3. \/ jobsAt = Len(pending) /\ jobsPc' = "write" /\ jobsAt' = jobsAt
       \/ jobsAt # Len(pending) /\ jobsPc' = "exists" /\ jobsAt' = jobsAt + 1
  <2>1. CASE jobsAt = Len(pending)
    BY <2>1 DEF Updated
  <2>2. CASE ~(jobsAt = Len(pending))
    BY <2>2 DEF Updated
  <2> QED
    BY <2>1, <2>2
<1>1. JobsTypes'
  BY <1>n, <1>a, <1>f, <1>t, <1>q, <1>s1, <1>s2, <1>s3 DEF JobsTypes, Forward
<1>2. runs \in Nat /\ (runs' <= 1 => runs <= 1)
  BY <1>s1 DEF JobsTypes
<1> SUFFICES ASSUME runs' <= 1, FirstRun PROVE FirstRun'
  BY <1>1, <1>2
<1>3. HashInv'
  BY <1>a, <1>f, <1>t, <1>q, <1>s3 DEF FirstRun, HashInv
<1>4. BackupInv'
  BY <1>n, <1>a, <1>f, <1>t, <1>q, <1>s1, <1>s2, <1>s3, <1>2 DEF FirstRun, BackupInv, Behind
<1>5. DistinctInv'
  BY <1>a, <1>f, <1>t, <1>q, <1>s3 DEF FirstRun, DistinctInv
<1>6. IdleInv'
  BY <1>a, <1>f, <1>t, <1>q, <1>s1, <1>s2, <1>s3, <1>2 DEF FirstRun, IdleInv, Unused
<1>7. RunInv'
  BY <1>s1, <1>s2, <1>s3, <1>2 DEF FirstRun, RunInv
<1>8. AheadInv'
  BY <1>n, <1>a, <1>f, <1>t, <1>q, <1>s2, <1>s3 DEF FirstRun, AheadInv, Forward, Unused
<1>9. PastInv'
  BY <1>n, <1>a, <1>f, <1>t, <1>q, <1>s2, <1>s3 DEF FirstRun, PastInv, Forward
<1>10. HereInv'
  BY <1>n, <1>a, <1>f, <1>t, <1>q, <1>s1, <1>s2, <1>s3 DEF FirstRun, HereInv, Unused, AheadInv, Forward
<1>11. OldInv'
  BY <1>s1, <1>2 DEF FirstRun, OldInv, Old
<1>12. SparedInv'
  BY <1>a, <1>f, <1>t, <1>q, <1>s1, <1>s2, <1>s3 DEF FirstRun, SparedInv, Old
<1>13. BehindInv'
  BY <1>n, <1>a, <1>f, <1>t, <1>q, <1>s1, <1>s2, <1>s3 DEF FirstRun, BehindInv, Behind, Old
<1>14. DoneInv'
  BY <1>n, <1>a, <1>f, <1>t, <1>q, <1>s1, <1>s2, <1>s3 DEF FirstRun, DoneInv, Behind, Done, Old
<1>15. BackedInv'
  BY <1>n, <1>a, <1>f, <1>t, <1>q, <1>s1, <1>s2, <1>s3 DEF FirstRun, BackedInv, Behind, Old
<1>16. UndoneInv'
  BY <1>n, <1>a, <1>f, <1>t, <1>q, <1>s1, <1>s2, <1>s3 DEF FirstRun, UndoneInv, Behind, Done, Old
<1>17. FoundInv'
  BY <1>n, <1>a, <1>f, <1>t, <1>q, <1>s1, <1>s2, <1>s3 DEF FirstRun, FoundInv, Unused
<1>18. FirstInv'
  BY <1>s1 DEF FirstRun, FirstInv, Old, Named
<1>19. DiskInv'
  BY <1>s1, <1>s2, <1>s3, <1>2 DEF FirstRun, DiskInv
<1>20. AddedInv'
  BY <1>a, <1>f, <1>t, <1>q, <1>s1, <1>s2, <1>s3, <1>2 DEF FirstRun, AddedInv
<1>21. NamesWhatIsThere'
  BY <1>s1 DEF FirstRun, NamesWhatIsThere, Named
<1>22. ~DiskFull => AllOrNothing'
  BY <1>s1 DEF FirstRun, AllOrNothing
<1> QED
  BY <1>3, <1>4, <1>5, <1>6, <1>7, <1>8, <1>9, <1>10, <1>11, <1>12, <1>13, <1>14, <1>15, <1>16, <1>17, <1>18, <1>19, <1>20, <1>21, <1>22 DEF FirstRun

LEMMA JobsCloudFails ==
  ASSUME JobsSetting, JobsTypes, CloudFails
  PROVE  JobsTypes' /\ (runs' <= 1 => runs <= 1 /\ (FirstRun => FirstRun'))
<1>n. Len(pending) \in Nat
  BY DEF JobsTypes
<1>p. pending' = pending
  BY DEF CloudFails, Upload, Fail
<1>s1. jobsDisk' = jobsDisk /\ data' = data /\ bucket' = bucket /\ jobsResult' = jobsResult /\ runs' = runs /\ before' = before
  BY DEF CloudFails, Upload, Fail
<1>s2. jobsPc \in {"copy", "insert"} /\ jobsPc' = "rollback" /\ jobsAt' = Len(pending)
  BY DEF CloudFails, Upload, Fail
<1>1. JobsTypes'
  BY <1>n, <1>p, <1>s1, <1>s2 DEF JobsTypes, Forward
<1>2. runs \in Nat /\ (runs' <= 1 => runs <= 1)
  BY <1>s1 DEF JobsTypes
<1> SUFFICES ASSUME runs' <= 1, FirstRun PROVE FirstRun'
  BY <1>1, <1>2
<1>3. HashInv'
  BY <1>p, <1>s2 DEF FirstRun, HashInv
<1>4. BackupInv'
  BY <1>n, <1>p, <1>s1, <1>s2, <1>2 DEF FirstRun, BackupInv, Behind
<1>5. DistinctInv'
  BY <1>p, <1>s2 DEF FirstRun, DistinctInv
<1>6. IdleInv'
  BY <1>p, <1>s1, <1>s2, <1>2 DEF FirstRun, IdleInv, Unused
<1>7. RunInv'
  BY <1>s1, <1>s2, <1>2 DEF FirstRun, RunInv
<1>8. AheadInv'
  BY <1>n, <1>p, <1>s2 DEF FirstRun, AheadInv, Forward, Unused
<1>9. PastInv'
  BY <1>n, <1>p, <1>s2 DEF FirstRun, PastInv, Forward
<1>10. HereInv'
  BY <1>n, <1>p, <1>s1, <1>s2 DEF FirstRun, HereInv, Unused
<1>11. OldInv'
  BY <1>s1, <1>2 DEF FirstRun, OldInv, Old
<1>12. SparedInv'
  BY <1>p, <1>s1, <1>s2 DEF FirstRun, SparedInv, Old
<1>13. BehindInv'
  BY <1>n, <1>p, <1>s1, <1>s2 DEF FirstRun, BehindInv, Behind, Old
<1>14. DoneInv'
  BY <1>n, <1>p, <1>s1, <1>s2 DEF FirstRun, DoneInv, Behind, Done, Old
<1>15. BackedInv'
  BY <1>n, <1>p, <1>s1, <1>s2 DEF FirstRun, BackedInv, Behind, Old
<1>16. UndoneInv'
  BY <1>n, <1>p, <1>s1, <1>s2 DEF FirstRun, UndoneInv, Behind, Done, Old
<1>17. FoundInv'
  BY <1>n, <1>p, <1>s1, <1>s2 DEF FirstRun, FoundInv, Unused
<1>18. FirstInv'
  BY <1>s1 DEF FirstRun, FirstInv, Old, Named
<1>19. DiskInv'
  BY <1>s1, <1>s2, <1>2 DEF FirstRun, DiskInv
<1>20. AddedInv'
  BY <1>p, <1>s1, <1>s2, <1>2 DEF FirstRun, AddedInv
<1>21. NamesWhatIsThere'
  BY <1>s1 DEF FirstRun, NamesWhatIsThere, Named
<1>22. ~DiskFull => AllOrNothing'
  BY <1>s1 DEF FirstRun, AllOrNothing
<1> QED
  BY <1>3, <1>4, <1>5, <1>6, <1>7, <1>8, <1>9, <1>10, <1>11, <1>12, <1>13, <1>14, <1>15, <1>16, <1>17, <1>18, <1>19, <1>20, <1>21, <1>22 DEF FirstRun

LEMMA JobsOpenConfig ==
  ASSUME JobsSetting, JobsTypes, OpenConfig
  PROVE  JobsTypes' /\ (runs' <= 1 => runs <= 1 /\ (FirstRun => FirstRun'))
<1>n. Len(pending) \in Nat
  BY DEF JobsTypes
<1>p. pending' = pending
  BY DEF OpenConfig
<1>s1. data' = data /\ bucket' = bucket /\ jobsAt' = jobsAt /\ jobsResult' = jobsResult /\ runs' = runs /\ before' = before
  BY DEF OpenConfig
<1>s2. jobsPc = "write" /\ jobsPc' = "dump" /\ jobsDisk' = Nothing
  BY DEF OpenConfig
<1>1. JobsTypes'
  BY <1>n, <1>p, <1>s1, <1>s2 DEF JobsTypes, Forward
<1>2. runs \in Nat /\ (runs' <= 1 => runs <= 1)
  BY <1>s1 DEF JobsTypes
<1> SUFFICES ASSUME runs' <= 1, FirstRun PROVE FirstRun'
  BY <1>1, <1>2
<1>3. HashInv'
  BY <1>p DEF FirstRun, HashInv
<1>4. BackupInv'
  BY <1>n, <1>p, <1>s1, <1>s2, <1>2 DEF FirstRun, BackupInv, Behind
<1>5. DistinctInv'
  BY <1>p DEF FirstRun, DistinctInv
<1>6. IdleInv'
  BY <1>p, <1>s1, <1>s2, <1>2 DEF FirstRun, IdleInv, Unused
<1>7. RunInv'
  BY <1>s1, <1>s2, <1>2 DEF FirstRun, RunInv
<1>8. AheadInv'
  BY <1>n, <1>p, <1>s1, <1>s2 DEF FirstRun, AheadInv, Forward, Unused
<1>9. PastInv'
  BY <1>n, <1>p, <1>s1, <1>s2 DEF FirstRun, PastInv, Forward
<1>10. HereInv'
  BY <1>n, <1>p, <1>s1, <1>s2 DEF FirstRun, HereInv, Unused
<1>11. OldInv'
  BY <1>s1, <1>s2, <1>2 DEF FirstRun, OldInv, Old, RunInv
<1>12. SparedInv'
  BY <1>p, <1>s1, <1>s2 DEF FirstRun, SparedInv, Old
<1>13. BehindInv'
  BY <1>n, <1>p, <1>s1, <1>s2 DEF FirstRun, BehindInv, Behind, Old
<1>14. DoneInv'
  BY <1>n, <1>p, <1>s1, <1>s2 DEF FirstRun, DoneInv, Behind, Done, Old
<1>15. BackedInv'
  BY <1>n, <1>p, <1>s1, <1>s2 DEF FirstRun, BackedInv, Behind, Old
<1>16. UndoneInv'
  BY <1>n, <1>p, <1>s1, <1>s2 DEF FirstRun, UndoneInv, Behind, Done, Old
<1>17. FoundInv'
  BY <1>n, <1>p, <1>s1, <1>s2 DEF FirstRun, FoundInv, Unused
<1>18. FirstInv'
  BY <1>s1 DEF FirstRun, FirstInv, Old, Named
<1>19. DiskInv'
  BY <1>s1, <1>s2, <1>2 DEF FirstRun, DiskInv, RunInv
<1>20. AddedInv'
  BY <1>p, <1>s1, <1>s2, <1>2 DEF FirstRun, AddedInv, RunInv
<1>21. NamesWhatIsThere'
  BY <1>s1, <1>s2 DEF FirstRun, NamesWhatIsThere, Named
<1>22. ~DiskFull => AllOrNothing'
  BY <1>s1, <1>s2, <1>2 DEF FirstRun, AllOrNothing, RunInv
<1> QED
  BY <1>3, <1>4, <1>5, <1>6, <1>7, <1>8, <1>9, <1>10, <1>11, <1>12, <1>13, <1>14, <1>15, <1>16, <1>17, <1>18, <1>19, <1>20, <1>21, <1>22 DEF FirstRun

LEMMA JobsDumpConfig ==
  ASSUME JobsSetting, JobsTypes, DumpConfig
  PROVE  JobsTypes' /\ (runs' <= 1 => runs <= 1 /\ (FirstRun => FirstRun'))
<1>n. Len(pending) \in Nat
  BY DEF JobsTypes
<1>p. pending' = pending
  BY DEF DumpConfig
<1>s1. data' = data /\ bucket' = bucket /\ jobsAt' = jobsAt /\ jobsResult' = jobsResult /\ runs' = runs /\ before' = before
  BY DEF DumpConfig
<1>s2. jobsPc = "dump" /\ jobsPc' = "written" /\ jobsDisk' = data
  BY DEF DumpConfig
<1>1. JobsTypes'
  BY <1>n, <1>p, <1>s1, <1>s2 DEF JobsTypes, Forward
<1>2. runs \in Nat /\ (runs' <= 1 => runs <= 1)
  BY <1>s1 DEF JobsTypes
<1> SUFFICES ASSUME runs' <= 1, FirstRun PROVE FirstRun'
  BY <1>1, <1>2
<1>3. HashInv'
  BY <1>p DEF FirstRun, HashInv
<1>4. BackupInv'
  BY <1>n, <1>p, <1>s1, <1>s2, <1>2 DEF FirstRun, BackupInv, Behind
<1>5. DistinctInv'
  BY <1>p DEF FirstRun, DistinctInv
<1>6. IdleInv'
  BY <1>p, <1>s1, <1>s2, <1>2 DEF FirstRun, IdleInv, Unused
<1>7. RunInv'
  BY <1>s1, <1>s2, <1>2 DEF FirstRun, RunInv
<1>8. AheadInv'
  BY <1>n, <1>p, <1>s1, <1>s2 DEF FirstRun, AheadInv, Forward, Unused
<1>9. PastInv'
  BY <1>n, <1>p, <1>s1, <1>s2 DEF FirstRun, PastInv, Forward
<1>10. HereInv'
  BY <1>n, <1>p, <1>s1, <1>s2 DEF FirstRun, HereInv, Unused
<1>11. OldInv'
  BY <1>s1, <1>s2, <1>2 DEF FirstRun, OldInv, Old, RunInv
<1>12. SparedInv'
  BY <1>p, <1>s1, <1>s2 DEF FirstRun, SparedInv, Old
<1>13. BehindInv'
  BY <1>n, <1>p, <1>s1, <1>s2 DEF FirstRun, BehindInv, Behind, Old
<1>14. DoneInv'
  BY <1>n, <1>p, <1>s1, <1>s2 DEF FirstRun, DoneInv, Behind, Done, Old
<1>15. BackedInv'
  BY <1>n, <1>p, <1>s1, <1>s2 DEF FirstRun, BackedInv, Behind, Old
<1>16. UndoneInv'
  BY <1>n, <1>p, <1>s1, <1>s2 DEF FirstRun, UndoneInv, Behind, Done, Old
<1>17. FoundInv'
  BY <1>n, <1>p, <1>s1, <1>s2 DEF FirstRun, FoundInv, Unused
<1>18. FirstInv'
  BY <1>s1 DEF FirstRun, FirstInv, Old, Named
<1>19. DiskInv'
  BY <1>s1, <1>s2, <1>2 DEF FirstRun, DiskInv, RunInv
<1>20. AddedInv'
  BY <1>p, <1>s1, <1>s2, <1>2 DEF FirstRun, AddedInv, RunInv
<1>21. NamesWhatIsThere'
  <2> SUFFICES ASSUME NEW d \in JobsDeps PROVE bucket[<<d, data[d], "">>] = data[d]
    BY <1>n, <1>p, <1>s1, <1>s2 DEF NamesWhatIsThere
  <2> DEFINE r == <<d, data[d], "">>
  <2>1. data[d] \in JobsHashes /\ r \in Remote /\ r[2] = data[d]
    BY RemoteNames DEF JobsTypes
  <2>2. \A i \in 1..Len(pending) : pending[i].updated /\ ~Behind(i)
    BY <1>n, <1>p, <1>s1, <1>s2 DEF FirstRun, PastInv, HereInv, Forward, Behind, JobsTypes
  <2>3. CASE \E i \in 1..Len(pending) : pending[i].remote = r
    BY <1>n, <1>p, <1>s1, <1>s2, <2>1, <2>2, <2>3 DEF FirstRun, DoneInv, Done, HashInv
  <2>4. CASE \A i \in 1..Len(pending) : pending[i].remote # r
    <3>1. bucket[r] = Old[r]
      BY <1>n, <1>p, <1>s1, <1>s2, <2>1, <2>4 DEF FirstRun, SparedInv
    <3>2. data[d] = before.disk[d]
      BY <1>n, <1>p, <1>s1, <1>s2, <2>4 DEF FirstRun, AddedInv
    <3> QED
      BY <3>1, <3>2 DEF FirstRun, FirstInv, Named
  <2> QED
    BY <2>3, <2>4
<1>22. ~DiskFull => AllOrNothing'
  BY <1>s1, <1>s2, <1>2 DEF FirstRun, AllOrNothing, RunInv
<1> QED
  BY <1>3, <1>4, <1>5, <1>6, <1>7, <1>8, <1>9, <1>10, <1>11, <1>12, <1>13, <1>14, <1>15, <1>16, <1>17, <1>18, <1>19, <1>20, <1>21, <1>22 DEF FirstRun

LEMMA JobsDumpFails ==
  ASSUME JobsSetting, JobsTypes, DumpFails
  PROVE  JobsTypes' /\ (runs' <= 1 => runs <= 1 /\ (FirstRun => FirstRun'))
<1>n. Len(pending) \in Nat
  BY DEF JobsTypes
<1>p. pending' = pending
  BY DEF DumpFails, Upload, Fail
<1>s1. jobsDisk' = jobsDisk /\ data' = data /\ bucket' = bucket /\ jobsResult' = jobsResult /\ runs' = runs /\ before' = before
  BY DEF DumpFails, Upload, Fail
<1>s2. jobsPc = "dump" /\ DiskFull /\ jobsPc' = "rollback" /\ jobsAt' = Len(pending)
  BY DEF DumpFails, Upload, Fail
<1>1. JobsTypes'
  BY <1>n, <1>p, <1>s1, <1>s2 DEF JobsTypes, Forward
<1>2. runs \in Nat /\ (runs' <= 1 => runs <= 1)
  BY <1>s1 DEF JobsTypes
<1> SUFFICES ASSUME runs' <= 1, FirstRun PROVE FirstRun'
  BY <1>1, <1>2
<1>3. HashInv'
  BY <1>p, <1>s2 DEF FirstRun, HashInv
<1>4. BackupInv'
  BY <1>n, <1>p, <1>s1, <1>s2, <1>2 DEF FirstRun, BackupInv, Behind
<1>5. DistinctInv'
  BY <1>p, <1>s2 DEF FirstRun, DistinctInv
<1>6. IdleInv'
  BY <1>p, <1>s1, <1>s2, <1>2 DEF FirstRun, IdleInv, Unused
<1>7. RunInv'
  BY <1>s1, <1>s2, <1>2 DEF FirstRun, RunInv
<1>8. AheadInv'
  BY <1>n, <1>p, <1>s2 DEF FirstRun, AheadInv, Forward, Unused
<1>9. PastInv'
  BY <1>n, <1>p, <1>s2 DEF FirstRun, PastInv, Forward
<1>10. HereInv'
  BY <1>n, <1>p, <1>s1, <1>s2 DEF FirstRun, HereInv, Unused
<1>11. OldInv'
  BY <1>s1, <1>2 DEF FirstRun, OldInv, Old
<1>12. SparedInv'
  BY <1>p, <1>s1, <1>s2 DEF FirstRun, SparedInv, Old
<1>13. BehindInv'
  BY <1>n, <1>p, <1>s1, <1>s2 DEF FirstRun, BehindInv, Behind, Old
<1>14. DoneInv'
  BY <1>n, <1>p, <1>s1, <1>s2 DEF FirstRun, DoneInv, Behind, Done, Old
<1>15. BackedInv'
  BY <1>n, <1>p, <1>s1, <1>s2 DEF FirstRun, BackedInv, Behind, Old
<1>16. UndoneInv'
  BY <1>n, <1>p, <1>s1, <1>s2 DEF FirstRun, UndoneInv, Behind, Done, Old
<1>17. FoundInv'
  BY <1>n, <1>p, <1>s1, <1>s2 DEF FirstRun, FoundInv, Unused
<1>18. FirstInv'
  BY <1>s1 DEF FirstRun, FirstInv, Old, Named
<1>19. DiskInv'
  BY <1>s1, <1>s2, <1>2 DEF FirstRun, DiskInv
<1>20. AddedInv'
  BY <1>p, <1>s1, <1>s2, <1>2 DEF FirstRun, AddedInv
<1>21. NamesWhatIsThere'
  BY <1>s1 DEF FirstRun, NamesWhatIsThere, Named
<1>22. ~DiskFull => AllOrNothing'
  BY <1>s1 DEF FirstRun, AllOrNothing
<1> QED
  BY <1>3, <1>4, <1>5, <1>6, <1>7, <1>8, <1>9, <1>10, <1>11, <1>12, <1>13, <1>14, <1>15, <1>16, <1>17, <1>18, <1>19, <1>20, <1>21, <1>22 DEF FirstRun

LEMMA JobsFinish ==
  ASSUME JobsSetting, JobsTypes, Finish
  PROVE  JobsTypes' /\ (runs' <= 1 => runs <= 1 /\ (FirstRun => FirstRun'))
<1>n. Len(pending) \in Nat
  BY DEF JobsTypes
<1>p. pending' = <<>>
  BY DEF Finish
<1>t. pending' \in Seq(Uploaders) /\ Len(pending') = 0
  BY <1>p
<1>s1. jobsDisk' = jobsDisk /\ data' = data /\ bucket' = bucket /\ runs' = runs /\ before' = before
  BY DEF Finish
<1>s2. jobsPc = "written" /\ jobsPc' = "idle" /\ jobsAt' = 0 /\ jobsResult' = "done"
  BY DEF Finish
<1>1. JobsTypes'
  BY <1>n, <1>t, <1>s1, <1>s2 DEF JobsTypes, Forward
<1>2. runs \in Nat /\ (runs' <= 1 => runs <= 1)
  BY <1>s1 DEF JobsTypes
<1> SUFFICES ASSUME runs' <= 1, FirstRun PROVE FirstRun'
  BY <1>1, <1>2
<1>3. HashInv'
  BY <1>t DEF FirstRun, HashInv
<1>4. BackupInv'
  BY <1>n, <1>t, <1>s1, <1>s2, <1>2 DEF FirstRun, BackupInv, Behind
<1>5. DistinctInv'
  BY <1>t DEF FirstRun, DistinctInv
<1>6. IdleInv'
  BY <1>t, <1>s1, <1>s2, <1>2 DEF FirstRun, IdleInv, Unused
<1>7. RunInv'
  BY <1>s1, <1>s2, <1>2 DEF FirstRun, RunInv
<1>8. AheadInv'
  BY <1>n, <1>t, <1>s2 DEF FirstRun, AheadInv, Forward, Unused
<1>9. PastInv'
  BY <1>n, <1>t, <1>s2 DEF FirstRun, PastInv, Forward
<1>10. HereInv'
  BY <1>n, <1>t, <1>s1, <1>s2 DEF FirstRun, HereInv, Unused
<1>11. OldInv'
  BY <1>s1, <1>s2, <1>2 DEF FirstRun, OldInv, Old, RunInv
<1>12. SparedInv'
  BY <1>t, <1>s1, <1>s2 DEF FirstRun, SparedInv, Old
<1>13. BehindInv'
  BY <1>n, <1>t, <1>s1, <1>s2 DEF FirstRun, BehindInv, Behind, Old
<1>14. DoneInv'
  BY <1>n, <1>t, <1>s1, <1>s2 DEF FirstRun, DoneInv, Behind, Done, Old
<1>15. BackedInv'
  BY <1>n, <1>t, <1>s1, <1>s2 DEF FirstRun, BackedInv, Behind, Old
<1>16. UndoneInv'
  BY <1>n, <1>t, <1>s1, <1>s2 DEF FirstRun, UndoneInv, Behind, Done, Old
<1>17. FoundInv'
  BY <1>n, <1>t, <1>s1, <1>s2 DEF FirstRun, FoundInv, Unused
<1>18. FirstInv'
  BY <1>s1 DEF FirstRun, FirstInv, Old, Named
<1>19. DiskInv'
  BY <1>s1, <1>s2, <1>2 DEF FirstRun, DiskInv, RunInv
<1>20. AddedInv'
  <2>1. runs = 1
    BY <1>s2 DEF FirstRun, RunInv
  <2>2. ~(runs' = 0 \/ jobsPc' # "idle")
    BY <2>1, <1>s1, <1>s2
  <2> QED
    BY <2>2, Zenon DEF AddedInv
<1>21. NamesWhatIsThere'
  BY <1>s1 DEF FirstRun, NamesWhatIsThere, Named
<1>22. ~DiskFull => AllOrNothing'
  BY <1>s1, <1>s2, <1>2 DEF FirstRun, AllOrNothing, RunInv, DiskInv
<1> QED
  BY <1>3, <1>4, <1>5, <1>6, <1>7, <1>8, <1>9, <1>10, <1>11, <1>12, <1>13, <1>14, <1>15, <1>16, <1>17, <1>18, <1>19, <1>20, <1>21, <1>22 DEF FirstRun

LEMMA JobsRollbackItem ==
  ASSUME JobsSetting, JobsTypes, RollbackItem
  PROVE  JobsTypes' /\ (runs' <= 1 => runs <= 1 /\ (FirstRun => FirstRun'))
<1>n. Len(pending) \in Nat
  BY DEF JobsTypes
<1>a. jobsAt \in 1..Len(pending) /\ Len(pending) \in Nat /\ pending[jobsAt] \in Uploaders
  BY DEF RollbackItem, Item, JobsTypes, Forward
<1> DEFINE new == [pending[jobsAt] EXCEPT !.updated = FALSE, !.backup = IF pending[jobsAt].backed_up THEN NonePath ELSE @]
<1>u. new \in Uploaders
  BY <1>a, RemoteNames DEF Uploaders
<1>p. pending' = [pending EXCEPT ![jobsAt] = new]
  BY DEF RollbackItem, Item
<1>f. /\ new.remote = pending[jobsAt].remote /\ new.hash = pending[jobsAt].hash
      /\ new.updated = FALSE /\ new.backed_up = pending[jobsAt].backed_up
      /\ new.backup = IF pending[jobsAt].backed_up THEN NonePath ELSE pending[jobsAt].backup
  BY <1>a DEF Uploaders
<1> HIDE DEF new
<1>t. pending' \in Seq(Uploaders) /\ Len(pending') = Len(pending)
  BY <1>a, <1>p, <1>u, OnePut DEF JobsTypes
<1>q. pending'[jobsAt] = new /\ \A i \in 1..Len(pending) : i # jobsAt => pending'[i] = pending[i]
  BY <1>a, <1>p, <1>u, OnePut DEF JobsTypes
<1>s1. jobsDisk' = jobsDisk /\ data' = data /\ jobsPc' = jobsPc /\ jobsResult' = jobsResult /\ runs' = runs /\ before' = before
  BY DEF RollbackItem, Item
<1>s2. jobsPc = "rollback" /\ jobsAt > 0 /\ jobsAt' = jobsAt - 1
  BY DEF RollbackItem, Item
<1>s3. bucket' = IF pending[jobsAt].backed_up
                 THEN [bucket EXCEPT ![pending[jobsAt].remote] = bucket[pending[jobsAt].backup]]
                 ELSE IF pending[jobsAt].updated THEN [bucket EXCEPT ![pending[jobsAt].remote] = Nothing]
                 ELSE bucket
  BY DEF RollbackItem, Item
<1>b. bucket' \in Objects
  BY <1>n, <1>a, <1>f, <1>t, <1>q, <1>s1, <1>s2, <1>s3, RemoteNames DEF JobsTypes, Objects, Forward, JobsSetting, UpdateJobsAssumption, Uploaders
<1>1. JobsTypes'
  BY <1>n, <1>a, <1>f, <1>t, <1>q, <1>s1, <1>s2, <1>s3, <1>b DEF JobsTypes, Forward
<1>2. runs \in Nat /\ (runs' <= 1 => runs <= 1)
  BY <1>s1 DEF JobsTypes
<1> SUFFICES ASSUME runs' <= 1, FirstRun PROVE FirstRun'
  BY <1>1, <1>2
<1>r. \A i \in 1..Len(pending) : /\ pending[i].remote \in Remote /\ pending[i].remote \in Names /\ pending[i].backup \in Names
                                   /\ pending[i].hash \in JobsHashes
  <2>1. \A i \in 1..Len(pending) : pending[i] \in Uploaders
    BY DEF JobsTypes
  <2> QED
    BY <2>1, RemoteNames DEF Uploaders
<1>c1. \A i \in 1..Len(pending) : /\ pending'[i].remote = pending[i].remote /\ pending'[i].hash = pending[i].hash
                                 /\ (i # jobsAt => pending'[i] = pending[i])
  BY <1>n, <1>a, <1>f, <1>t, <1>q, <1>s1, <1>s2, <1>s3
<1>d. \A i \in 1..Len(pending) : i <= jobsAt => pending[i].backup = BackupPath(pending[i].remote)
  BY <1>n, <1>a, <1>f, <1>t, <1>q, <1>s1, <1>s2, <1>s3, <1>c1, <1>2 DEF FirstRun, BackupInv, Behind, RunInv
<1>c2. bucket'[pending[jobsAt].remote] = Old[pending[jobsAt].remote]
  <2>1. ~Behind(jobsAt) /\ jobsPc # "idle" /\ jobsPc # "inserted"
    BY <1>n, <1>a, <1>f, <1>t, <1>q, <1>s1, <1>s2, <1>s3, <1>c1 DEF Behind
  <2>2. CASE pending[jobsAt].backed_up
    BY <1>n, <1>a, <1>f, <1>t, <1>q, <1>s1, <1>s2, <1>s3, <1>c1, <1>r, <2>1, <2>2 DEF FirstRun, BackedInv, JobsTypes, Objects
  <2>3. CASE ~pending[jobsAt].backed_up /\ pending[jobsAt].updated
    BY <1>n, <1>a, <1>f, <1>t, <1>q, <1>s1, <1>s2, <1>s3, <1>c1, <1>r, <2>1, <2>3 DEF FirstRun, DoneInv, Done, JobsTypes, Objects
  <2>4. CASE ~pending[jobsAt].backed_up /\ ~pending[jobsAt].updated
    BY <1>n, <1>a, <1>f, <1>t, <1>q, <1>s1, <1>s2, <1>s3, <1>c1, <1>r, <2>1, <2>4 DEF FirstRun, UndoneInv, Done, JobsTypes, Objects
  <2> QED
    BY <2>2, <2>3, <2>4
<1>e. \A n \in Names : n # pending[jobsAt].remote => bucket'[n] = bucket[n]
  BY <1>n, <1>a, <1>f, <1>t, <1>q, <1>s1, <1>s2, <1>s3, <1>c1, <1>c2, <1>r DEF JobsTypes, Objects
<1>c3. \A r \in Remote : r # pending[jobsAt].remote => bucket'[r] = bucket[r]
  BY <1>e, RemoteNames
<1>c4. \A i \in 1..Len(pending) : i # jobsAt => bucket'[pending[i].remote] = bucket[pending[i].remote]
  BY <1>a, <1>r, <1>c3 DEF FirstRun, DistinctInv
<1>c5. \A i \in 1..Len(pending) : i < jobsAt => bucket'[pending[i].backup] = bucket[pending[i].backup]
  <2>1. \A i \in 1..Len(pending) : i < jobsAt => pending[i].backup # pending[jobsAt].remote
    BY <1>a, <1>d, <1>r, BackupIsNoRemote DEF JobsTypes
  <2> QED
    BY <1>a, <1>e, <1>r, <2>1
<1>c6. \A i \in 1..Len(pending) : pending[i].remote \in Remote
  BY <1>r
<1>3. HashInv'
  BY <1>a, <1>f, <1>t, <1>q, <1>s3, <1>c1, <1>c2, <1>c3, <1>c4, <1>c5, <1>c6 DEF FirstRun, HashInv
<1>4. BackupInv'
  BY <1>n, <1>a, <1>f, <1>t, <1>q, <1>s1, <1>s2, <1>s3, <1>c1, <1>c2, <1>c3, <1>c4, <1>c5, <1>c6, <1>2 DEF FirstRun, BackupInv, Behind
<1>5. DistinctInv'
  BY <1>a, <1>f, <1>t, <1>q, <1>s3, <1>c1, <1>c2, <1>c3, <1>c4, <1>c5, <1>c6 DEF FirstRun, DistinctInv
<1>6. IdleInv'
  BY <1>a, <1>f, <1>t, <1>q, <1>s1, <1>s2, <1>s3, <1>c1, <1>c2, <1>c3, <1>c4, <1>c5, <1>c6, <1>2 DEF FirstRun, IdleInv, Unused
<1>7. RunInv'
  BY <1>s1, <1>s2, <1>2 DEF FirstRun, RunInv
<1>8. AheadInv'
  BY <1>n, <1>a, <1>f, <1>t, <1>q, <1>s1, <1>s2, <1>s3, <1>c1, <1>c2, <1>c3, <1>c4, <1>c5, <1>c6 DEF FirstRun, AheadInv, Forward, Unused
<1>9. PastInv'
  BY <1>n, <1>a, <1>f, <1>t, <1>q, <1>s1, <1>s2, <1>s3, <1>c1, <1>c2, <1>c3, <1>c4, <1>c5, <1>c6 DEF FirstRun, PastInv, Forward
<1>10. HereInv'
  BY <1>n, <1>a, <1>f, <1>t, <1>q, <1>s1, <1>s2, <1>s3, <1>c1, <1>c2, <1>c3, <1>c4, <1>c5, <1>c6 DEF FirstRun, HereInv, Unused
<1>11. OldInv'
  BY <1>s1, <1>s2, <1>s3, <1>c2, <1>c3, <1>c4, <1>c5, <1>2 DEF FirstRun, OldInv, Old, RunInv
<1>12. SparedInv'
  BY <1>a, <1>f, <1>t, <1>q, <1>s1, <1>s2, <1>s3, <1>c1, <1>c2, <1>c3, <1>c4, <1>c5, <1>c6 DEF FirstRun, SparedInv, Old
<1>13. BehindInv'
  BY <1>n, <1>a, <1>f, <1>t, <1>q, <1>s1, <1>s2, <1>s3, <1>c1, <1>c2, <1>c3, <1>c4, <1>c5, <1>c6 DEF FirstRun, BehindInv, Behind, Old
<1>14. DoneInv'
  BY <1>n, <1>a, <1>f, <1>t, <1>q, <1>s1, <1>s2, <1>s3, <1>c1, <1>c2, <1>c3, <1>c4, <1>c5, <1>c6, <1>2 DEF FirstRun, DoneInv, Behind, Done, Old, RunInv
<1>15. BackedInv'
  BY <1>n, <1>a, <1>f, <1>t, <1>q, <1>s1, <1>s2, <1>s3, <1>c1, <1>c2, <1>c3, <1>c4, <1>c5, <1>c6, <1>2 DEF FirstRun, BackedInv, Behind, Old, RunInv
<1>16. UndoneInv'
  BY <1>n, <1>a, <1>f, <1>t, <1>q, <1>s1, <1>s2, <1>s3, <1>c1, <1>c2, <1>c3, <1>c4, <1>c5, <1>c6, <1>2 DEF FirstRun, UndoneInv, Behind, Done, Old, RunInv
<1>17. FoundInv'
  BY <1>n, <1>a, <1>f, <1>t, <1>q, <1>s1, <1>s2, <1>s3, <1>c1, <1>c2, <1>c3, <1>c4, <1>c5, <1>c6 DEF FirstRun, FoundInv, Unused
<1>18. FirstInv'
  BY <1>s1, <1>s3, <1>c2, <1>c3, <1>c4, <1>c5 DEF FirstRun, FirstInv, Old, Named
<1>19. DiskInv'
  BY <1>s1, <1>s2, <1>c2, <1>2 DEF FirstRun, DiskInv, RunInv
<1>20. AddedInv'
  <2> SUFFICES ASSUME NEW d \in JobsDeps
               PROVE  \/ data[d] = before.disk[d]
                      \/ \E i \in 1..Len(pending) : pending'[i].remote = <<d, data[d], "">>
    BY <1>n, <1>a, <1>f, <1>t, <1>q, <1>s1, <1>s2, <1>s3, <1>c1, <1>c2, <1>c3, <1>c4, <1>c5, <1>c6 DEF AddedInv
  <2>1. \/ data[d] = before.disk[d]
        \/ \E i \in 1..Len(pending) : pending[i].remote = <<d, data[d], "">>
    BY <1>n, <1>a, <1>f, <1>t, <1>q, <1>s1, <1>s2, <1>s3, <1>c1, <1>c2, <1>c3, <1>c4, <1>c5, <1>c6 DEF FirstRun, AddedInv
  <2> QED
    BY <1>n, <1>a, <1>f, <1>t, <1>q, <1>s1, <1>s2, <1>s3, <1>c1, <1>c2, <1>c3, <1>c4, <1>c5, <1>c6, <2>1
<1>21. NamesWhatIsThere'
  <2> SUFFICES ASSUME jobsDisk # Nothing, NEW d \in JobsDeps
               PROVE  bucket'[<<d, jobsDisk[d], "">>] = jobsDisk[d]
    BY <1>s1 DEF NamesWhatIsThere
  <2> DEFINE r == <<d, jobsDisk[d], "">>
  <2>1. jobsDisk = before.disk /\ before.disk \in [JobsDeps -> JobsHashes]
    BY <1>n, <1>a, <1>f, <1>t, <1>q, <1>s1, <1>s2, <1>s3, <1>c1, <1>c2, <1>c3, <1>c4, <1>c5, <1>c6 DEF FirstRun, DiskInv, FirstInv
  <2>2. r \in Remote /\ Old[r] = jobsDisk[d] /\ bucket[r] = jobsDisk[d]
    BY <2>1, RemoteNames DEF FirstRun, FirstInv, Named, NamesWhatIsThere
  <2>3. CASE r = pending[jobsAt].remote
    BY <1>c2, <2>2, <2>3
  <2>4. CASE r # pending[jobsAt].remote
    BY <1>c3, <2>2, <2>4
  <2> QED
    BY <2>3, <2>4
<1>22. ~DiskFull => AllOrNothing'
  BY <1>s1, <1>s2, <1>s3, <1>c2, <1>c3, <1>c4, <1>c5, <1>2 DEF FirstRun, AllOrNothing, RunInv
<1> QED
  BY <1>3, <1>4, <1>5, <1>6, <1>7, <1>8, <1>9, <1>10, <1>11, <1>12, <1>13, <1>14, <1>15, <1>16, <1>17, <1>18, <1>19, <1>20, <1>21, <1>22 DEF FirstRun

LEMMA JobsRollbackRaises ==
  ASSUME JobsSetting, JobsTypes, RollbackRaises
  PROVE  JobsTypes' /\ (runs' <= 1 => runs <= 1 /\ (FirstRun => FirstRun'))
<1>n. Len(pending) \in Nat
  BY DEF JobsTypes
<1>p. pending' = pending
  BY DEF RollbackRaises
<1>s1. jobsDisk' = jobsDisk /\ data' = data /\ bucket' = bucket /\ runs' = runs /\ before' = before
  BY DEF RollbackRaises
<1>s2. jobsPc = "rollback" /\ jobsPc' = "idle" /\ jobsAt' = 0
  BY DEF RollbackRaises
<1>s3. jobsResult' = "rollback failed"
  BY DEF RollbackRaises
<1>1. JobsTypes'
  BY <1>n, <1>p, <1>s1, <1>s2 DEF JobsTypes, Forward
<1>2. runs \in Nat /\ (runs' <= 1 => runs <= 1)
  BY <1>s1 DEF JobsTypes
<1> SUFFICES ASSUME runs' <= 1, FirstRun PROVE FirstRun'
  BY <1>1, <1>2
<1>3. HashInv'
  BY <1>p DEF FirstRun, HashInv
<1>4. BackupInv'
  <2>1. runs = 1
    BY <1>s2 DEF FirstRun, RunInv
  <2>2. runs' = 1 /\ jobsPc' = "idle"
    BY <2>1, <1>s1, <1>s2
  <2> QED
    BY <2>2 DEF BackupInv
<1>5. DistinctInv'
  BY <1>p DEF FirstRun, DistinctInv
<1>6. IdleInv'
  BY <1>p, <1>s1, <1>s2, <1>2 DEF FirstRun, IdleInv, Unused
<1>7. RunInv'
  BY <1>s1, <1>s2, <1>s3, <1>2 DEF FirstRun, RunInv
<1>8. AheadInv'
  BY <1>n, <1>p, <1>s2 DEF FirstRun, AheadInv, Forward, Unused
<1>9. PastInv'
  BY <1>n, <1>p, <1>s2 DEF FirstRun, PastInv, Forward
<1>10. HereInv'
  BY <1>n, <1>p, <1>s1, <1>s2 DEF FirstRun, HereInv, Unused
<1>11. OldInv'
  BY <1>s1, <1>2 DEF FirstRun, OldInv, Old
<1>12. SparedInv'
  BY <1>p, <1>s1, <1>s2 DEF FirstRun, SparedInv, Old
<1>13. BehindInv'
  BY <1>n, <1>p, <1>s1, <1>s2 DEF FirstRun, BehindInv, Behind, Old
<1>14. DoneInv'
  BY <1>n, <1>p, <1>s1, <1>s2 DEF FirstRun, DoneInv, Behind, Done, Old
<1>15. BackedInv'
  BY <1>n, <1>p, <1>s1, <1>s2 DEF FirstRun, BackedInv, Behind, Old
<1>16. UndoneInv'
  BY <1>n, <1>p, <1>s1, <1>s2 DEF FirstRun, UndoneInv, Behind, Done, Old
<1>17. FoundInv'
  BY <1>n, <1>p, <1>s1, <1>s2 DEF FirstRun, FoundInv, Unused
<1>18. FirstInv'
  BY <1>s1 DEF FirstRun, FirstInv, Old, Named
<1>19. DiskInv'
  BY <1>s1, <1>s2, <1>2 DEF FirstRun, DiskInv
<1>20. AddedInv'
  BY <1>p, <1>s1, <1>s2, <1>2 DEF FirstRun, AddedInv
<1>21. NamesWhatIsThere'
  BY <1>s1 DEF FirstRun, NamesWhatIsThere, Named
<1>22. ~DiskFull => AllOrNothing'
  BY <1>s1, <1>s3 DEF FirstRun, AllOrNothing
<1> QED
  BY <1>3, <1>4, <1>5, <1>6, <1>7, <1>8, <1>9, <1>10, <1>11, <1>12, <1>13, <1>14, <1>15, <1>16, <1>17, <1>18, <1>19, <1>20, <1>21, <1>22 DEF FirstRun

LEMMA JobsRolledBack ==
  ASSUME JobsSetting, JobsTypes, RolledBack
  PROVE  JobsTypes' /\ (runs' <= 1 => runs <= 1 /\ (FirstRun => FirstRun'))
<1>n. Len(pending) \in Nat
  BY DEF JobsTypes
<1>p. pending' = pending
  BY DEF RolledBack
<1>s1. jobsDisk' = jobsDisk /\ data' = data /\ bucket' = bucket /\ jobsAt' = jobsAt /\ runs' = runs /\ before' = before
  BY DEF RolledBack
<1>s2. jobsPc = "rollback" /\ jobsAt = 0 /\ jobsPc' = "idle" /\ jobsResult' = "failed"
  BY DEF RolledBack
<1>1. JobsTypes'
  BY <1>n, <1>p, <1>s1, <1>s2 DEF JobsTypes, Forward
<1>2. runs \in Nat /\ (runs' <= 1 => runs <= 1)
  BY <1>s1 DEF JobsTypes
<1> SUFFICES ASSUME runs' <= 1, FirstRun PROVE FirstRun'
  BY <1>1, <1>2
<1>3. HashInv'
  BY <1>p DEF FirstRun, HashInv
<1>4. BackupInv'
  BY <1>n, <1>p, <1>s1, <1>s2, <1>2 DEF FirstRun, BackupInv, Behind, RunInv
<1>5. DistinctInv'
  BY <1>p DEF FirstRun, DistinctInv
<1>6. IdleInv'
  BY <1>p, <1>s1, <1>s2, <1>2 DEF FirstRun, IdleInv, Unused
<1>7. RunInv'
  BY <1>s1, <1>s2, <1>2 DEF FirstRun, RunInv
<1>8. AheadInv'
  BY <1>n, <1>p, <1>s1, <1>s2 DEF FirstRun, AheadInv, Forward, Unused
<1>9. PastInv'
  BY <1>n, <1>p, <1>s1, <1>s2 DEF FirstRun, PastInv, Forward
<1>10. HereInv'
  BY <1>n, <1>p, <1>s1, <1>s2 DEF FirstRun, HereInv, Unused
<1>11. OldInv'
  BY <1>s1, <1>2 DEF FirstRun, OldInv, Old
<1>12. SparedInv'
  BY <1>p, <1>s1, <1>s2 DEF FirstRun, SparedInv, Old
<1>13. BehindInv'
  BY <1>n, <1>p, <1>s1, <1>s2 DEF FirstRun, BehindInv, Behind, Old
<1>14. DoneInv'
  BY <1>n, <1>p, <1>s1, <1>s2 DEF FirstRun, DoneInv, Behind, Done, Old
<1>15. BackedInv'
  BY <1>n, <1>p, <1>s1, <1>s2 DEF FirstRun, BackedInv, Behind, Old
<1>16. UndoneInv'
  BY <1>n, <1>p, <1>s1, <1>s2 DEF FirstRun, UndoneInv, Behind, Done, Old
<1>17. FoundInv'
  BY <1>n, <1>p, <1>s1, <1>s2 DEF FirstRun, FoundInv, Unused
<1>18. FirstInv'
  BY <1>s1 DEF FirstRun, FirstInv, Old, Named
<1>19. DiskInv'
  BY <1>s1, <1>s2, <1>2 DEF FirstRun, DiskInv
<1>20. AddedInv'
  BY <1>p, <1>s1, <1>s2, <1>2 DEF FirstRun, AddedInv
<1>21. NamesWhatIsThere'
  BY <1>s1 DEF FirstRun, NamesWhatIsThere, Named
<1>22. ~DiskFull => AllOrNothing'
  <2> SUFFICES ASSUME ~DiskFull PROVE jobsDisk = before.disk /\ \A r \in Remote : bucket[r] = before.bucket[r]
    BY <1>n, <1>p, <1>s1, <1>s2 DEF AllOrNothing
  <2>1. \A i \in 1..Len(pending) : bucket[pending[i].remote] = Old[pending[i].remote]
    BY <1>n, <1>p, <1>s1, <1>s2 DEF FirstRun, BehindInv, Behind
  <2>2. \A r \in Remote : bucket[r] = Old[r]
    BY <1>n, <1>p, <1>s1, <1>s2, <2>1 DEF FirstRun, SparedInv
  <2> QED
    BY <1>n, <1>p, <1>s1, <1>s2, <2>2 DEF FirstRun, DiskInv, Old
<1> QED
  BY <1>3, <1>4, <1>5, <1>6, <1>7, <1>8, <1>9, <1>10, <1>11, <1>12, <1>13, <1>14, <1>15, <1>16, <1>17, <1>18, <1>19, <1>20, <1>21, <1>22 DEF FirstRun

JobsInv == JobsTypes /\ (runs <= 1 => FirstRun)

LEMMA InitJobs == ASSUME JobsSetting PROVE JobsInit => JobsInv
<1> SUFFICES ASSUME JobsInit PROVE JobsTypes /\ FirstRun
  BY DEF JobsInv
<1>1. /\ data \in [JobsDeps -> JobsHashes] /\ jobsDisk = data
      /\ jobsPc = "idle" /\ jobsAt = 0 /\ runs = 0 /\ bucket \in Objects
      /\ before.disk = data /\ before.bucket = bucket
      /\ \A d \in JobsDeps : bucket[<<d, data[d], "">>] = data[d]
  BY DEF JobsInit, Objects
<1>2. jobsResult = "none"
  BY DEF JobsInit
<1>7. pending = <<>>
  BY DEF JobsInit
<1>8. pending \in Seq(Uploaders) /\ Len(pending) = 0
  BY <1>7
<1>12. \A i \in 1..Len(pending) : FALSE
  BY <1>8
<1>9. jobsPc \in Forward \cup {"idle", "rollback"} /\ jobsPc \notin Forward
  BY <1>1 DEF Forward
<1>10. data \in [JobsDeps -> JobsHashes] /\ bucket \in Objects /\ jobsAt = 0 /\ runs \in Nat
  BY <1>1
<1>3. JobsTypes
  BY <1>8, <1>9, <1>10 DEF JobsTypes
<1>11. HashInv /\ BackupInv /\ DistinctInv
  BY <1>12 DEF HashInv, BackupInv, DistinctInv
<1>4. HashInv /\ BackupInv /\ DistinctInv /\ IdleInv /\ RunInv /\ AheadInv /\ PastInv
  BY <1>1, <1>9, <1>11, <1>12 DEF IdleInv, RunInv, AheadInv, PastInv
<1>5. HereInv /\ OldInv /\ SparedInv /\ BehindInv /\ DoneInv /\ BackedInv /\ UndoneInv /\ FoundInv
  BY <1>1, <1>12 DEF HereInv, OldInv, Old, SparedInv, BehindInv, Behind, DoneInv, BackedInv, UndoneInv, FoundInv
<1>6. FirstInv /\ DiskInv /\ AddedInv /\ NamesWhatIsThere
  BY <1>1 DEF FirstInv, Named, Old, DiskInv, AddedInv, NamesWhatIsThere
<1>13. AllOrNothing
  BY <1>2 DEF AllOrNothing
<1> QED
  BY <1>3, <1>4, <1>5, <1>6, <1>13 DEF FirstRun

LEMMA NextJobs ==
  ASSUME JobsSetting
  PROVE  JobsInv /\ [JobsNext]_jobsVars => JobsInv'
<1> SUFFICES ASSUME JobsTypes, runs <= 1 => FirstRun, [JobsNext]_jobsVars
             PROVE  JobsTypes' /\ (runs' <= 1 => FirstRun')
  BY DEF JobsInv
<1> DEFINE Kept == JobsTypes' /\ (runs' <= 1 => runs <= 1 /\ (FirstRun => FirstRun'))
<1> SUFFICES Kept
  OBVIOUS
<1>1. ASSUME NEW d \in JobsDeps, NEW h \in JobsHashes, Add(d, h) PROVE Kept
  BY <1>1, JobsAdd
<1>2. ASSUME NEW d \in JobsDeps, NEW h \in JobsHashes, AddAndExecute(d, h) PROVE Kept
  BY <1>2, JobsAddAndExecute
<1>3. ASSUME NEW d \in JobsDeps, AddRefused(d) PROVE Kept
  BY <1>3, JobsAddRefused
<1>4. ASSUME NEW f \in BOOLEAN, Execute(f) PROVE Kept
  BY <1>4, JobsExecute
<1>5. CASE Exists
  BY <1>5, JobsExists
<1>6. CASE ExistsNot
  BY <1>6, JobsExistsNot
<1>7. CASE CopyToBackup
  BY <1>7, JobsCopyToBackup
<1>8. CASE Insert
  BY <1>8, JobsInsert
<1>9. CASE Updated
  BY <1>9, JobsUpdated
<1>10. CASE CloudFails
  BY <1>10, JobsCloudFails
<1>11. CASE OpenConfig
  BY <1>11, JobsOpenConfig
<1>12. CASE DumpConfig
  BY <1>12, JobsDumpConfig
<1>13. CASE DumpFails
  BY <1>13, JobsDumpFails
<1>14. CASE Finish
  BY <1>14, JobsFinish
<1>15. CASE RollbackItem
  BY <1>15, JobsRollbackItem
<1>16. CASE RollbackRaises
  BY <1>16, JobsRollbackRaises
<1>17. CASE RolledBack
  BY <1>17, JobsRolledBack
<1>18. CASE UNCHANGED jobsVars
  <2>1. /\ jobsDisk' = jobsDisk /\ data' = data /\ pending' = pending /\ bucket' = bucket /\ jobsPc' = jobsPc
        /\ jobsAt' = jobsAt /\ jobsResult' = jobsResult /\ runs' = runs /\ before' = before
    BY <1>18 DEF jobsVars
  <2>2. JobsTypes'
    BY <2>1 DEF JobsTypes
  <2>3. /\ HashInv' = HashInv /\ BackupInv' = BackupInv /\ DistinctInv' = DistinctInv
        /\ IdleInv' = IdleInv /\ RunInv' = RunInv /\ AheadInv' = AheadInv /\ PastInv' = PastInv
    BY <2>1 DEF HashInv, BackupInv, DistinctInv, IdleInv, RunInv, AheadInv, PastInv, Behind, Unused
  <2>4. /\ HereInv' = HereInv /\ OldInv' = OldInv /\ SparedInv' = SparedInv /\ BehindInv' = BehindInv
        /\ DoneInv' = DoneInv /\ BackedInv' = BackedInv /\ UndoneInv' = UndoneInv /\ FoundInv' = FoundInv
    BY <2>1 DEF HereInv, OldInv, SparedInv, BehindInv, DoneInv, BackedInv, UndoneInv, FoundInv, Behind, Done, Unused, Old
  <2>5. /\ FirstInv' = FirstInv /\ DiskInv' = DiskInv /\ AddedInv' = AddedInv
        /\ NamesWhatIsThere' = NamesWhatIsThere /\ AllOrNothing' = AllOrNothing
    BY <2>1 DEF FirstInv, Named, Old, DiskInv, AddedInv, NamesWhatIsThere, AllOrNothing
  <2> QED
    BY <2>1, <2>2, <2>3, <2>4, <2>5 DEF FirstRun
<1>19. CASE Interrupt
  BY <1>19 DEF Interrupt, JobsSetting
<1> QED
  BY <1>1, <1>2, <1>3, <1>4, <1>5, <1>6, <1>7, <1>8, <1>9, <1>10, <1>11, <1>12, <1>13, <1>14, <1>15, <1>16, <1>17, <1>18, <1>19 DEF JobsNext

(* Whatever fails in cloud storage, a call of ExecuteUpdateJobs() that has *)
(* failed and could roll back leaves the config and every file in cloud    *)
(* storage as they were, and one that has succeeded has written all; until *)
(* the jobs are run a second time (base_config.py).                        *)
THEOREM UpdateIsAtomic ==
  ASSUME UpdateJobsAssumption, Once, NoBucket = {}, ~Interrupting, ~DiskFull
  PROVE  JobsSpec => [](runs <= 1 => AllOrNothing)
<1>1. JobsSetting
  BY DEF JobsSetting
<1>2. JobsInv => (runs <= 1 => AllOrNothing)
  BY DEF JobsInv, FirstRun
<1> QED
  BY <1>1, <1>2, InitJobs, NextJobs, PTL DEF JobsSpec

(* Also when the config can be half written, or a rollback fails midway,   *)
(* the config on disk names only files that are in cloud storage.          *)
THEOREM ConfigNamesWhatIsThere ==
  ASSUME UpdateJobsAssumption, Once, NoBucket = {}, ~Interrupting
  PROVE  JobsSpec => [](runs <= 1 => NamesWhatIsThere)
<1>1. JobsSetting
  BY DEF JobsSetting
<1>2. JobsInv => (runs <= 1 => NamesWhatIsThere)
  BY DEF JobsInv, FirstRun
<1> QED
  BY <1>1, <1>2, InitJobs, NextJobs, PTL DEF JobsSpec
==============================================================================
