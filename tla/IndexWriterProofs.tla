------------------------- MODULE IndexWriterProofs --------------------------
(***************************************************************************)
(* Proofs about the writer, for every set of keys, every number of         *)
(* segments and merge jobs, with merges that fail and a process that dies  *)
(* at any point.                                                           *)
(*                                                                         *)
(* The argument: a file name is used once (Fresh), the output of a merge   *)
(* is in no list before FinalizeMerge puts it there (OutputsApart), and    *)
(* when the files of the parents are removed neither list names them       *)
(* (InSwap).  So whatever is in a list has its file (FilesThere), and what *)
(* was written behind all others still is (RanksBelow).                    *)
(*                                                                         *)
(* Flushed values, of a key whose last call was a Set: the newest segment  *)
(* that has the key has this value and no list of deleted keys names it    *)
(* (Found), both in the list in memory and, but for the moment between the *)
(* two halves of Compile, in index.toc.  A merge that has this segment     *)
(* among its parents writes the value (MergesKeep) and inherits no delete  *)
(* of the key, because deletes that arrive during a merge are younger than *)
(* all of its parents.  Its parents are next to each other (ApartInv), so  *)
(* the merged segment does not fall behind another one with the key.       *)
(***************************************************************************)
EXTENDS IndexWriter, SegmentProofs, FiniteSetTheorems, WellFoundedInduction

Swapping == pc \in {"merge_toc", "remove"}

Fresh == nextId >= 1 /\ \A i \in segments \cup toc \cup merge_jobs : i < nextId

RanksBelow == \A i \in SegIds : seg[i].rank < nextId

Ordered(S) == \A i, j \in S : seg[i].rank = seg[j].rank => i = j

FilesThere == \A i \in segments \cup toc : seg[i].kv

OutputsApart == \A j \in merge_jobs : j \in segments \cup toc => Swapping /\ j = cur

ParentsOlder == \A j \in merge_jobs : j \notin job[j].segs

InSwap ==
    Swapping =>
        /\ cur \in merge_jobs /\ job[cur].status = "ok"
        /\ job[cur].segs \cap segments = {}
        /\ pc = "remove" => toc = segments

FilesInv ==
    /\ Fresh /\ RanksBelow /\ Ordered(toc)
    /\ FilesThere /\ OutputsApart /\ ParentsOlder /\ InSwap

-----------------------------------------------------------------------------
\* Least and greatest members of sets of numbers

LEMMA LeastNat ==
    ASSUME NEW S \in SUBSET Nat, S # {}
    PROVE  \E m \in S : \A n \in S : m <= n
  <1>1. \E m \in S : \A n \in S : ~(<<n, m>> \in OpToRel(<, Nat))
    BY NatLessThanWellFounded, WFMin
  <1>2. PICK m \in S : \A n \in S : ~(<<n, m>> \in OpToRel(<, Nat))
    BY <1>1
  <1>3. \A n \in S : ~(n < m)
    BY <1>2 DEF OpToRel
  <1>4. QED
    BY <1>3

LEMMA MinIs ==
    ASSUME NEW S \in SUBSET Nat, S # {}
    PROVE  Min(S) \in S /\ \A n \in S : Min(S) <= n
  BY LeastNat DEF Min

LEMMA GreatestNat ==
    ASSUME NEW S \in SUBSET Nat, S # {}, NEW b \in Nat, \A n \in S : n < b
    PROVE  \E m \in S : \A n \in S : n <= m
  <1> DEFINE T == {b - n : n \in S}
  <1>0. \A n \in S : b - n \in Nat
    OBVIOUS
  <1>1. T \in SUBSET Nat /\ T # {}
    BY <1>0
  <1>2. PICK t \in T : \A u \in T : t <= u
    BY <1>1, LeastNat
  <1>3. PICK m \in S : t = b - m
    BY <1>2
  <1>4. \A n \in S : b - m <= b - n
    BY <1>2, <1>3
  <1>5. QED
    BY <1>4

-----------------------------------------------------------------------------
\* The segments the lookups and the loops choose

LEMMA NewestOfIs ==
    ASSUME seg \in [SegIds -> SegmentType], nextId \in Nat, RanksBelow,
           NEW S \in SUBSET SegIds, NEW k \in Keys, Containing(S, k) # {}
    PROVE  /\ NewestOf(S, k) \in Containing(S, k)
           /\ \A j \in Containing(S, k) : seg[j].rank <= seg[NewestOf(S, k)].rank
  <1> DEFINE C == Containing(S, k)
  <1> DEFINE R == {seg[i].rank : i \in C}
  <1>1. C \in SUBSET SegIds /\ C # {}
    BY DEF Containing
  <1> HIDE DEF C
  <1>2. \A i \in SegIds : seg[i].rank \in Nat /\ seg[i].rank < nextId
    BY DEF SegmentType, RanksBelow
  <1>3. R \in SUBSET Nat /\ R # {} /\ \A n \in R : n < nextId
    BY <1>1, <1>2
  <1>4. PICK r \in R : \A n \in R : n <= r
    BY <1>3, GreatestNat
  <1>5. \E i \in C : \A j \in C : seg[j].rank <= seg[i].rank
    BY <1>4
  <1>6. QED
    BY <1>5 DEF NewestOf, C

LEMMA FirstOfIs ==
    ASSUME seg \in [SegIds -> SegmentType], NEW S \in SUBSET SegIds, S # {}
    PROVE  FirstOf(S) \in S
  <1> DEFINE R == {seg[i].rank : i \in S}
  <1>1. R \in SUBSET Nat /\ R # {}
    BY DEF SegmentType
  <1>2. PICK r \in R : \A n \in R : r <= n
    BY <1>1, LeastNat
  <1>3. \E i \in S : \A j \in S : seg[i].rank <= seg[j].rank
    BY <1>2
  <1>4. QED
    BY <1>3 DEF FirstOf

LEMMA NewestInIs ==
    ASSUME NEW D, NEW I \in SUBSET D, NEW n \in Nat, NEW dict \in [D -> [Keys -> Nat]],
           NEW rank \in [D -> Nat], \A i \in I : rank[i] < n,
           NEW k \in Keys, HasKey(I, dict, k)
    PROVE  LET m == Newest(I, dict, rank, k) IN
             m \in I /\ dict[m][k] # 0 /\ \A j \in I : dict[j][k] # 0 => rank[j] <= rank[m]
  <1> DEFINE C == {i \in I : dict[i][k] # 0}
  <1> DEFINE R == {rank[i] : i \in C}
  <1>1. R \in SUBSET Nat /\ R # {} /\ \A m \in R : m < n
    BY DEF HasKey
  <1>2. PICK r \in R : \A m \in R : m <= r
    BY <1>1, GreatestNat
  <1>3. PICK i \in C : rank[i] = r
    BY <1>2
  <1>4. \A j \in I : dict[j][k] # 0 => rank[j] <= rank[i]
    BY <1>2, <1>3
  <1>5. QED
    BY <1>3, <1>4 DEF Newest

LEMMA MergedDictionaryType ==
    ASSUME NEW D, NEW I \in SUBSET D, NEW n \in Nat, NEW dict \in [D -> [Keys -> Nat]], NEW dk,
           NEW rank \in [D -> Nat], \A i \in I : rank[i] < n
    PROVE  MergedDictionary(I, dict, dk, rank, Keys) \in [Keys -> Nat]
  <1>1. \A k \in Keys : HasKey(I, dict, k) => Newest(I, dict, rank, k) \in I
    BY NewestInIs
  <1>2. QED
    BY <1>1 DEF MergedDictionary

LEMMA DurableType ==
    ASSUME TypeOK, RanksBelow, NEW k \in Keys
    PROVE  Durable(k) \in Nat
  <1>1. CASE Containing(toc, k) = {}
    BY <1>1 DEF Durable, Absent
  <1>2. CASE Containing(toc, k) # {}
    <2>1. NewestOf(toc, k) \in SegIds
      BY <1>2, NewestOfIs DEF TypeOK, Containing
    <2>2. seg[NewestOf(toc, k)].dict[k] \in Nat
      BY <2>1 DEF TypeOK, SegmentType
    <2>3. QED
      BY <2>2 DEF Durable, Absent
  <1>3. QED
    BY <1>1, <1>2

LEMMA MergedRankIs ==
    ASSUME TypeOK, NEW j \in SegIds, job[j].segs \cap segments # {}
    PROVE  \E i \in job[j].segs \cap segments : MergedRank(j) = seg[i].rank
  <1> DEFINE R == {seg[i].rank : i \in job[j].segs \cap segments}
  <1>1. R \in SUBSET Nat /\ R # {}
    BY DEF TypeOK, SegmentType
  <1>2. Min(R) \in R
    BY <1>1, MinIs
  <1>3. QED
    BY <1>2 DEF MergedRank

-----------------------------------------------------------------------------
\* The files: FilesInv is inductive, given TypeOK.

\* What most steps have in common: the lists, the places of the segments and
\* the parents of the jobs stay, and FinalizeMerge stays where it is.
Quiet ==
    /\ \A i \in SegIds : SamePlace(seg'[i], seg[i])
    /\ UNCHANGED <<segments, toc, nextId, merge_jobs>>
    /\ \A j \in merge_jobs : job'[j].segs = job[j].segs
    /\ Swapping' <=> Swapping
    /\ Swapping => pc' = pc /\ cur' = cur /\ job'[cur].status = job[cur].status

LEMMA QuietKeepsFiles ==
    ASSUME TypeOK, FilesInv, Quiet
    PROVE  FilesInv' /\ Ordered(segments)'
  <1> USE DEF Quiet
  <1>1. Fresh'
    BY DEF FilesInv, Fresh
  <1>2. RanksBelow'
    BY DEF FilesInv, RanksBelow, SamePlace
  <1>3. Ordered(toc)' /\ Ordered(segments)'
    BY DEF FilesInv, Ordered, SamePlace, TypeOK
  <1>4. FilesThere'
    BY DEF FilesInv, FilesThere, SamePlace, TypeOK
  <1>5. OutputsApart'
    BY DEF FilesInv, OutputsApart
  <1>6. ParentsOlder'
    BY DEF FilesInv, ParentsOlder
  <1>7. InSwap'
    BY DEF FilesInv, InSwap, Swapping
  <1>8. QED
    BY <1>1, <1>2, <1>3, <1>4, <1>5, <1>6, <1>7 DEF FilesInv

\* The steps that leave the segments and the jobs alone
LEMMA IdleStepsQuiet ==
    ASSUME TypeOK,
           UNCHANGED <<segments, seg, toc, nextId, merge_jobs, job, cur>>,
           ~Swapping \/ pc' = pc, ~Swapping' \/ pc' = pc
    PROVE  Quiet
  BY DEF Quiet, SamePlace, Swapping

\* The worker's steps between the two swaps
LEMMA AfterSelectionIs ==
    ASSUME TypeOK, NEW i \in SegIds
    PROVE  /\ AfterSelection[i] \in SegmentType
           /\ SamePlace(AfterSelection[i], seg[i])
           /\ AfterSelection[i].in_merge = seg[i].in_merge
  BY LazyLoadType, LazyLoadKeeps DEF AfterSelection, TypeOK, SamePlace

\* Refresh leaves the loop of FinalizeMerge behind.
\* A scenario has no more files than there are names.
LEMMA NumbersInRange ==
    ASSUME TypeOK, nextId \in 1..sc.segs
    PROVE  nextId \in SegIds
  <1>1. sc.segs \in 0..MaxSegIds
    BY ScenariosAssumption DEF TypeOK, ScenarioType
  <1>2. QED
    BY <1>1, ScenariosAssumption DEF SegIds

LEMMA RefreshLeaves ==
    ASSUME TypeOK, Refresh
    PROVE  ~Swapping' /\ cur' = cur
  BY DEF TypeOK, Refresh, EndTask, Swapping

LEMMA EndTaskLeaves ==
    ASSUME TypeOK, EndTask
    PROVE  ~Swapping' /\ cur' = cur
  BY DEF TypeOK, EndTask, Swapping

LEMMA QuietSteps ==
    ASSUME TypeOK, FilesInv,
           \/ \E k \in sc.keys : Add(k) \/ Delete(k) \/ Get(k)
           \/ StartFlush \/ StartCompile \/ StartScheduled \/ StartClose
           \/ PersistNext \/ PersistDone \/ NothingToCompile
           \/ StillRunning \/ FinalizeFailed \/ FinalizeDone \/ NoMerge \/ WaitForMerges
           \/ \E j \in merge_jobs : MergeLoad(j) \/ MergeLoadFails(j) \/ MergeFails(j)
           \/ RequestClose
    PROVE  Quiet
  <1>1. ASSUME NEW k \in sc.keys, Add(k) PROVE Quiet
    BY <1>1, IdleStepsQuiet DEF Add, workerVars, jobVars, fileVars
  <1>2. ASSUME NEW k \in sc.keys, Delete(k) PROVE Quiet
    <2>1. k \in Keys
      BY ScenariosAssumption DEF TypeOK, ScenarioType
    <2>2. \A i \in SegIds : SamePlace(seg'[i], seg[i])
      BY <1>2, <2>1, DeleteKeyKeeps DEF Delete, TypeOK, SamePlace
    <2>3. QED
      BY <1>2, <2>2 DEF Delete, Quiet, workerVars, jobVars, Swapping
  <1>3. ASSUME NEW k \in sc.keys, Get(k) PROVE Quiet
    <2>1. k \in Keys
      BY ScenariosAssumption DEF TypeOK, ScenarioType
    <2>2. NewestOf(segments, k) \in SegIds
      BY <1>3, <2>1, NewestOfIs DEF Get, TypeOK, Containing, FilesInv
    <2>3. \A i \in SegIds : SamePlace(seg'[i], seg[i])
      BY <1>3, <2>2, LazyLoadKeeps DEF Get, TypeOK, SamePlace
    <2>4. QED
      BY <1>3, <2>3 DEF Get, Quiet, workerVars, jobVars, Swapping
  <1>4. CASE StartFlush \/ StartCompile \/ StartScheduled \/ StartClose
    BY <1>4, IdleStepsQuiet
       DEF StartFlush, StartCompile, StartScheduled, StartClose, Begin, jobVars, fileVars, Swapping
  <1>5. CASE PersistNext
    <2>1. FirstOf(todo) \in SegIds
      BY <1>5, FirstOfIs DEF PersistNext, TypeOK
    <2>2. \A i \in SegIds : SamePlace(seg'[i], seg[i])
      BY <1>5, <2>1, PersistAndReloadKeeps DEF PersistNext, TypeOK, SamePlace
    <2>3. QED
      BY <1>5, <2>2 DEF PersistNext, Quiet, jobVars, Swapping
  <1>6. CASE PersistDone
    BY <1>6, IdleStepsQuiet DEF PersistDone, jobVars, fileVars, Swapping
  <1>7. CASE NothingToCompile
    BY <1>7, EndTaskLeaves, IdleStepsQuiet DEF NothingToCompile, jobVars, fileVars, Swapping
  <1>8. CASE StillRunning
    BY <1>8, IdleStepsQuiet DEF StillRunning, jobVars, fileVars
  <1>9. CASE FinalizeFailed
    <2>1. PICK j \in merge_jobs :
             seg' = [i \in SegIds |-> IF i \in job[j].segs THEN MergeFailed(seg[i]) ELSE seg[i]]
      BY <1>9 DEF FinalizeFailed
    <2>2. \A i \in SegIds : SamePlace(seg'[i], seg[i])
      BY <2>1, MergeFailedKeeps DEF TypeOK, SamePlace
    <2>3. QED
      BY <1>9, <2>2 DEF FinalizeFailed, Quiet, jobVars, Swapping
  <1>10. CASE FinalizeDone
    BY <1>10, IdleStepsQuiet DEF FinalizeDone, jobVars, fileVars, Swapping
  <1>11. CASE NoMerge
    <2>1. \A i \in SegIds : SamePlace(seg'[i], seg[i])
      BY <1>11, AfterSelectionIs DEF NoMerge, SamePlace
    <2>2. QED
      BY <1>11, <2>1, RefreshLeaves DEF NoMerge, Quiet, jobVars, Swapping
  <1>12. CASE WaitForMerges
    BY <1>12, IdleStepsQuiet DEF WaitForMerges, Begin, jobVars, fileVars, Swapping
  <1>13. ASSUME NEW j \in merge_jobs, MergeLoad(j) \/ MergeLoadFails(j) \/ MergeFails(j)
         PROVE  Quiet
    <2>1. \A i \in merge_jobs : job'[i].segs = job[i].segs
      <3>1. CASE MergeLoad(j)
        <4> DEFINE out == MergedDictionary(job[j].segs, [i \in SegIds |-> seg[i].dict],
                                           [i \in SegIds |-> ReadDeleted(seg[i].dk)],
                                           [i \in SegIds |-> seg[i].rank], Keys)
        <4>1. job' = [job EXCEPT ![j].status = "loaded", ![j].out = out]
          BY <3>1 DEF MergeLoad
        <4> HIDE DEF out
        <4>2. QED
          BY <4>1 DEF TypeOK, JobType
      <3>2. CASE MergeLoadFails(j) \/ MergeFails(j)
        <4>1. job' = [job EXCEPT ![j].status = "failed"]
          BY <3>2 DEF MergeLoadFails, MergeFails, SetStatus
        <4>2. QED
          BY <4>1 DEF TypeOK, JobType
      <3>3. QED
        BY <1>13, <3>1, <3>2
    <2>2. Swapping => cur \in SegIds /\ j # cur
      BY <1>13 DEF FilesInv, InSwap, TypeOK, MergeLoad, MergeLoadFails, MergeFails
    <2>3. Swapping => job'[cur].status = job[cur].status
      BY <1>13, <2>2 DEF MergeLoad, MergeLoadFails, MergeFails, SetStatus, TypeOK
    <2>4. QED
      BY <1>13, <2>1, <2>3
         DEF MergeLoad, MergeLoadFails, MergeFails, Quiet, SamePlace, workerVars, fileVars, Swapping
  <1>14. CASE RequestClose
    BY <1>14, IdleStepsQuiet DEF RequestClose, jobVars, fileVars
  <1>15. QED
    BY <1>1, <1>2, <1>3, <1>4, <1>5, <1>6, <1>7, <1>8, <1>9, <1>10, <1>11, <1>12, <1>13, <1>14

\* Compile: the new segment has the highest number and the highest place.
LEMMA CompileKeepsFiles ==
    ASSUME TypeOK, FilesInv, Compile
    PROVE  FilesInv' /\ Ordered(segments)'
  <1>1. nextId \in SegIds /\ nextId' = nextId + 1 /\ segments' = segments \cup {nextId}
        /\ UNCHANGED <<toc, merge_jobs, job, cur>> /\ ~Swapping /\ ~Swapping'
    BY NumbersInRange DEF Compile, jobVars, Swapping
  <1>2. seg'[nextId].rank = nextId /\ seg'[nextId].kv
    BY <1>1, NoSegmentType DEF Compile, NewSegment, TypeOK, SegmentType
  <1>3. \A i \in SegIds : i # nextId => seg'[i] = seg[i]
    BY <1>1 DEF Compile, TypeOK
  <1>4. nextId \notin segments \cup toc \cup merge_jobs
    BY DEF FilesInv, Fresh, TypeOK
  <1>5. \A i \in SegIds : seg[i].rank \in Nat /\ seg[i].rank < nextId
    BY DEF TypeOK, SegmentType, FilesInv, RanksBelow
  <1>6. Fresh'
    BY <1>1 DEF FilesInv, Fresh, TypeOK, SegIds
  <1>7. RanksBelow'
    BY <1>1, <1>2, <1>3, <1>5 DEF RanksBelow, TypeOK
  <1>8. Ordered(toc)'
    BY <1>1, <1>3, <1>4 DEF FilesInv, Ordered, TypeOK
  <1>9. Ordered(segments)'
    BY <1>1, <1>2, <1>3, <1>4, <1>5 DEF Ordered, TypeOK
  <1>10. FilesThere'
    BY <1>1, <1>2, <1>3 DEF FilesInv, FilesThere, TypeOK
  <1>11. OutputsApart'
    BY <1>1, <1>4 DEF FilesInv, OutputsApart
  <1>12. ParentsOlder'
    BY <1>1 DEF FilesInv, ParentsOlder
  <1>13. InSwap'
    BY <1>1 DEF InSwap
  <1>14. QED
    BY <1>6, <1>7, <1>8, <1>9, <1>10, <1>11, <1>12, <1>13 DEF FilesInv

\* WriteToc at the end of Compile: the list lies on disk as it is in memory.
LEMMA CompileTocKeepsFiles ==
    ASSUME TypeOK, FilesInv, CompileToc
    PROVE  FilesInv' /\ Ordered(segments)'
  <1>1. toc' = segments /\ UNCHANGED <<segments, seg, nextId, merge_jobs, job>>
        /\ ~Swapping /\ ~Swapping'
    BY EndTaskLeaves DEF CompileToc, jobVars, Swapping
  <1>2. Ordered(toc)' /\ Ordered(segments)'
    BY <1>1 DEF Ordered, TypeOK
  <1>3. QED
    BY <1>1, <1>2 DEF FilesInv, Fresh, RanksBelow, FilesThere, OutputsApart, ParentsOlder, InSwap

LEMMA MergeTocKeepsFiles ==
    ASSUME TypeOK, FilesInv, MergeToc
    PROVE  FilesInv' /\ Ordered(segments)'
  <1>1. toc' = segments /\ UNCHANGED <<segments, seg, nextId, merge_jobs, job, cur>>
        /\ Swapping /\ Swapping'
    BY DEF MergeToc, jobVars, Swapping
  <1>2. Ordered(toc)' /\ Ordered(segments)'
    BY <1>1 DEF Ordered, TypeOK
  <1>3. QED
    BY <1>1, <1>2 DEF FilesInv, Fresh, RanksBelow, FilesThere, OutputsApart, ParentsOlder, InSwap

\* Only the files of the parents go, and neither list names them.
LEMMA RemoveOldKeepsFiles ==
    ASSUME TypeOK, FilesInv, RemoveOld
    PROVE  FilesInv' /\ Ordered(segments)'
  <1>1. Swapping /\ ~Swapping' /\ UNCHANGED <<segments, toc, nextId>>
        /\ toc = segments /\ cur \in SegIds /\ cur \in merge_jobs
        /\ merge_jobs' = merge_jobs \ {cur}
        /\ job[cur].segs \cap segments = {}
    BY DEF RemoveOld, Swapping, FilesInv, InSwap, TypeOK
  <1>2. \A i \in SegIds : seg'[i].rank = seg[i].rank
    <2>1. \A t \in SegmentType : RemoveFiles(LazyLoadDeletedKeys(t)).rank = t.rank
      BY LazyLoadType, LazyLoadKeeps DEF RemoveFiles, SegmentType, SamePlace
    <2>2. QED
      BY <2>1 DEF RemoveOld, TypeOK
  <1>3. \A i \in segments : seg'[i] = seg[i]
    BY <1>1 DEF RemoveOld, TypeOK
  <1>4. \A j \in merge_jobs' : job'[j] = job[j]
    BY <1>1 DEF RemoveOld, TypeOK
  <1>5. Fresh' /\ RanksBelow'
    BY <1>1, <1>2 DEF FilesInv, Fresh, RanksBelow
  <1>6. Ordered(toc)' /\ Ordered(segments)' /\ FilesThere'
    BY <1>1, <1>3 DEF Ordered, TypeOK, FilesInv, FilesThere
  <1>7. OutputsApart' /\ ParentsOlder' /\ InSwap'
    BY <1>1, <1>4 DEF FilesInv, OutputsApart, ParentsOlder, InSwap
  <1>8. QED
    BY <1>5, <1>6, <1>7 DEF FilesInv

\* The segment takes a place that one of its parents leaves free.
LEMMA FinalizeSwapKeepsFiles ==
    ASSUME TypeOK, FilesInv, FinalizeSwap
    PROVE  FilesInv' /\ Ordered(segments)'
  <1>1. PICK j \in merge_jobs :
          /\ job[j].status = "ok" /\ cur' = j /\ pc = "finalize" /\ pc' = "merge_toc"
          /\ segments' = (segments \ job[j].segs)
                            \cup (IF job[j].segs \cap segments = {} THEN {} ELSE {j})
          /\ seg' = IF job[j].segs \cap segments = {} THEN seg
                    ELSE [seg EXCEPT ![j] = MergedSegment(@.dict, MergedRank(j), Inherit(j))]
          /\ UNCHANGED <<toc, nextId, merge_jobs, job>>
    BY DEF FinalizeSwap, Finalizing, Remaining, jobVars
  <1>2. j \in SegIds /\ job[j].segs \subseteq SegIds /\ j \notin segments \cup toc
        /\ j \notin job[j].segs /\ j < nextId
    BY <1>1 DEF TypeOK, JobType, FilesInv, OutputsApart, ParentsOlder, Fresh, Swapping
  <1>3. \A i \in SegIds : i # j => seg'[i] = seg[i]
    BY <1>1, <1>2 DEF TypeOK
  <1>4. ASSUME job[j].segs \cap segments # {}
        PROVE  seg'[j].kv /\ \E i \in job[j].segs \cap segments : seg'[j].rank = seg[i].rank
    <2>1. PICK i \in job[j].segs \cap segments : MergedRank(j) = seg[i].rank
      BY <1>2, <1>4, MergedRankIs
    <2>2. MergedRank(j) \in Nat /\ seg[j].dict \in [Keys -> Nat]
          /\ Inherit(j) \in SUBSET SegmentType
      BY <1>2, <2>1 DEF TypeOK, SegmentType, Inherit
    <2>3. seg'[j] = MergedSegment(seg[j].dict, MergedRank(j), Inherit(j))
      BY <1>1, <1>2, <1>4 DEF TypeOK
    <2>4. QED
      BY <2>1, <2>2, <2>3, MergedIs
  <1>5. \A i \in segments' : seg'[i].kv
    BY <1>1, <1>2, <1>3, <1>4 DEF TypeOK, FilesInv, FilesThere
  <1>6. Fresh'
    BY <1>1, <1>2 DEF FilesInv, Fresh
  <1>7. RanksBelow'
    <2>1. job[j].segs \cap segments = {} => seg' = seg
      BY <1>1
    <2>2. QED
      BY <1>1, <1>2, <1>3, <1>4, <2>1 DEF FilesInv, RanksBelow
  <1>8. Ordered(toc)'
    BY <1>1, <1>2, <1>3 DEF FilesInv, Ordered, TypeOK
  <1>9. Ordered(segments)'
    BY <1>1, <1>2, <1>3, <1>4 DEF Ordered, TypeOK
  <1>10. FilesThere'
    BY <1>1, <1>2, <1>3, <1>5 DEF FilesInv, FilesThere, TypeOK
  <1>11. OutputsApart' /\ ParentsOlder'
    BY <1>1 DEF FilesInv, OutputsApart, ParentsOlder, Swapping
  <1>12. InSwap'
    BY <1>1, <1>2 DEF InSwap
  <1>13. QED
    BY <1>6, <1>7, <1>8, <1>9, <1>10, <1>11, <1>12 DEF FilesInv

LEMMA CandidatesInList ==
    ASSUME NEW c \in Candidates
    PROVE  c \subseteq segments
  BY DEF Candidates, CappedRun, Run, Unmarked

LEMMA RunMergeKeepsFiles ==
    ASSUME TypeOK, FilesInv, RunMerge
    PROVE  FilesInv' /\ Ordered(segments)'
  <1>1. PICK c \in Candidates :
          /\ seg' = [i \in SegIds |-> IF i \in c THEN ElectedForMerge(AfterSelection[i])
                                      ELSE AfterSelection[i]]
          /\ job' = [job EXCEPT ![nextId] = [NoJob EXCEPT !.segs = c,
                                                          !.external = External(c),
                                                          !.status = "running"]]
    BY DEF RunMerge
  <1>2. nextId \in SegIds /\ nextId' = nextId + 1 /\ merge_jobs' = merge_jobs \cup {nextId}
        /\ UNCHANGED <<segments, toc>> /\ ~Swapping /\ ~Swapping'
    <2>1. /\ nextId \in 1..sc.segs /\ nextId' = nextId + 1 /\ Refresh
          /\ merge_jobs' = merge_jobs \cup {nextId}
          /\ UNCHANGED <<segments, toc>> /\ ~Swapping
      BY DEF RunMerge, Swapping
    <2>2. QED
      BY <2>1, RefreshLeaves, NumbersInRange
  <1>3. \A i \in SegIds : SamePlace(seg'[i], seg[i])
    BY <1>1, AfterSelectionIs, ElectedKeeps DEF SamePlace
  <1>4. nextId \notin segments \cup toc \cup merge_jobs
    BY DEF FilesInv, Fresh, TypeOK
  <1>5. job'[nextId].segs = c /\ \A j \in merge_jobs : job'[j] = job[j]
    BY <1>1, <1>2, <1>4 DEF TypeOK, NoJob
  <1>6. \A i \in SegIds : seg[i].rank \in Nat /\ seg[i].rank < nextId
    BY DEF TypeOK, SegmentType, FilesInv, RanksBelow
  <1>7. Fresh'
    BY <1>2 DEF FilesInv, Fresh, TypeOK, SegIds
  <1>8. RanksBelow'
    BY <1>2, <1>3, <1>6 DEF RanksBelow, SamePlace, TypeOK
  <1>9. Ordered(toc)' /\ Ordered(segments)' /\ FilesThere'
    BY <1>2, <1>3 DEF FilesInv, FilesThere, Ordered, SamePlace, TypeOK
  <1>10. OutputsApart' /\ InSwap'
    BY <1>2, <1>4 DEF FilesInv, OutputsApart, InSwap
  <1>11. ParentsOlder'
    BY <1>2, <1>4, <1>5, CandidatesInList DEF FilesInv, ParentsOlder
  <1>12. QED
    BY <1>7, <1>8, <1>9, <1>10, <1>11 DEF FilesInv

\* The output file is in no list while the merge runs.
LEMMA MergeFinishKeepsFiles ==
    ASSUME TypeOK, FilesInv, NEW j \in merge_jobs, MergeFinish(j)
    PROVE  FilesInv' /\ Ordered(segments)'
  <1>1. j \in SegIds /\ job[j].status = "loaded" /\ job' = SetStatus(j, "ok")
        /\ UNCHANGED <<segments, toc, nextId, merge_jobs, pc, cur>>
    BY DEF MergeFinish, TypeOK, workerVars
  <1>2. j \notin segments \cup toc /\ (Swapping => j # cur)
    BY <1>1 DEF FilesInv, OutputsApart, InSwap
  <1>3. \A i \in SegIds : i # j => seg'[i] = seg[i]
    BY <1>1 DEF MergeFinish, TypeOK
  <1>4. seg'[j].rank = 0
    BY <1>1, NoSegmentType DEF MergeFinish, TypeOK, SegmentType, NoSegment
  <1>5. \A i \in merge_jobs : job'[i].segs = job[i].segs
    BY <1>1 DEF SetStatus, TypeOK, JobType
  <1>6. Swapping => job'[cur].status = job[cur].status
    BY <1>1, <1>2 DEF SetStatus, TypeOK, FilesInv, InSwap
  <1>7. Fresh'
    BY <1>1 DEF FilesInv, Fresh
  <1>8. RanksBelow'
    BY <1>1, <1>3, <1>4 DEF FilesInv, Fresh, RanksBelow, TypeOK
  <1>9. Ordered(toc)' /\ Ordered(segments)' /\ FilesThere'
    BY <1>1, <1>2, <1>3 DEF FilesInv, FilesThere, Ordered, TypeOK
  <1>10. OutputsApart' /\ ParentsOlder' /\ InSwap'
    BY <1>1, <1>5, <1>6 DEF FilesInv, OutputsApart, ParentsOlder, InSwap, Swapping
  <1>11. QED
    BY <1>7, <1>8, <1>9, <1>10 DEF FilesInv

\* Every member of a segment that Down leaves
Remains(t) ==
    [NoSegment EXCEPT !.dict = t.dict, !.kv = t.kv, !.dk = t.dk, !.dkm = t.dkm, !.rank = t.rank]

LEMMA RemainsIs ==
    ASSUME NEW t \in SegmentType
    PROVE  Remains(t) \in SegmentType /\ SamePlace(Remains(t), t)
  BY NoSegmentType DEF Remains, SegmentType, SamePlace

LEMMA DownKeepsFiles ==
    ASSUME TypeOK, FilesInv, Down
    PROVE  FilesInv' /\ Ordered(segments)'
  <1>1. segments' = {} /\ merge_jobs' = {} /\ UNCHANGED <<toc, nextId>> /\ ~Swapping'
    BY DEF Down, Swapping
  <1>2. \A i \in SegIds : SamePlace(seg'[i], seg[i])
    BY RemainsIs DEF Down, TypeOK, Remains
  <1>3. QED
    BY <1>1, <1>2 DEF FilesInv, Fresh, RanksBelow, Ordered, FilesThere, OutputsApart,
                      ParentsOlder, InSwap, SamePlace, TypeOK

LEMMA OpenKeepsFiles ==
    ASSUME TypeOK, FilesInv, Open
    PROVE  FilesInv' /\ Ordered(segments)'
  <1>1. segments' = toc /\ UNCHANGED <<toc, nextId, merge_jobs, job>> /\ ~Swapping /\ ~Swapping'
    BY DEF Open, Swapping, jobVars
  <1>2. \A i \in SegIds : SamePlace(seg'[i], seg[i])
    BY OpenKeeps DEF Open, TypeOK, SamePlace
  <1>3. QED
    BY <1>1, <1>2 DEF FilesInv, Fresh, RanksBelow, Ordered, FilesThere, OutputsApart,
                      ParentsOlder, InSwap, SamePlace, TypeOK

LEMMA FilesStep ==
    ASSUME TypeOK, FilesInv, [Next]_vars
    PROVE  FilesInv' /\ Ordered(segments)'
  <1>1. CASE UNCHANGED vars
    <2>1. Quiet
      BY <1>1, IdleStepsQuiet DEF vars, workerVars, jobVars, fileVars
    <2>2. QED
      BY <2>1, QuietKeepsFiles
  <1>2. CASE Next
    BY <1>2, QuietSteps, QuietKeepsFiles, CompileKeepsFiles, CompileTocKeepsFiles,
       MergeTocKeepsFiles, RemoveOldKeepsFiles, FinalizeSwapKeepsFiles, RunMergeKeepsFiles,
       MergeFinishKeepsFiles, DownKeepsFiles, OpenKeepsFiles
       DEF Next, Worker, Merger, Shutdown, Crash
  <1>3. QED
    BY <1>1, <1>2

-----------------------------------------------------------------------------
\* Types

LEMMA EndTaskType ==
    ASSUME TypeOK, EndTask
    PROVE  /\ pc' \in {"wait", "finished", "idle"}
           /\ task' \in {"none", "flush", "compile", "scheduled", "close", "last"}
           /\ allowed' \in [Keys -> SUBSET Nat]
           /\ UNCHANGED <<todo, cur, ref, ignored, sc>>
  <1>1. allowed' \in [Keys -> SUBSET Nat]
    BY DEF TypeOK, EndTask
  <1>2. QED
    BY <1>1 DEF TypeOK, EndTask

LEMMA RefreshType ==
    ASSUME TypeOK, Refresh
    PROVE  /\ pc' \in {"wait", "finished", "idle", "persist"}
           /\ task' \in {"none", "flush", "compile", "scheduled", "close", "last"}
           /\ allowed' \in [Keys -> SUBSET Nat]
           /\ todo' \subseteq SegIds
           /\ UNCHANGED <<cur, ref, ignored, sc>>
  <1>1. CASE has_compiler \/ any_delete
    BY <1>1 DEF Refresh, TypeOK, ToPersist, historyVars
  <1>2. CASE ~(has_compiler \/ any_delete)
    <2>1. EndTask
      BY <1>2 DEF Refresh
    <2>2. QED
      BY <2>1, EndTaskType DEF TypeOK
  <1>3. QED
    BY <1>1, <1>2

\* The calls
LEMMA CallsType ==
    ASSUME TypeOK, FilesInv, Ordered(segments)',
           NEW k \in sc.keys, Add(k) \/ Delete(k) \/ Get(k)
    PROVE  TypeOK'
  <1>1. k \in Keys
    BY ScenariosAssumption DEF TypeOK, ScenarioType
  <1>2. count' \in CountType
    BY DEF Add, Delete, Get, TypeOK, CountType
  <1>3. CASE Add(k)
    <2>1. count.writes + 1 \in Nat
      BY DEF TypeOK, CountType
    <2>2. pending' \in [Keys -> Nat] /\ ref' \in [Keys -> Nat]
      BY <1>1, <1>3, <2>1 DEF Add, Outcome, TypeOK
    <2>3. allowed' \in [Keys -> SUBSET Nat]
      BY <1>1, <1>3, <2>1 DEF Add, Outcome, TypeOK
    <2>4. QED
      BY <1>2, <1>3, <2>2, <2>3 DEF Add, Outcome, TypeOK, workerVars, jobVars, fileVars, Ordered
  <1>4. CASE Delete(k)
    <2>1. seg' \in [SegIds -> SegmentType]
      BY <1>1, <1>4, DeleteKeyType DEF Delete, TypeOK
    <2>2. pending' \in [Keys -> Nat] /\ ref' \in [Keys -> Nat]
      BY <1>1, <1>4 DEF Delete, Outcome, TypeOK, Absent
    <2>3. allowed' \in [Keys -> SUBSET Nat]
      BY <1>1, <1>4 DEF Delete, Outcome, TypeOK, Absent
    <2>4. QED
      BY <1>2, <1>4, <2>1, <2>2, <2>3 DEF Delete, Outcome, TypeOK, workerVars, jobVars, Ordered
  <1>5. CASE Get(k)
    <2>1. NewestOf(segments, k) \in SegIds
      BY <1>5, <1>1, NewestOfIs DEF Get, TypeOK, Containing, FilesInv
    <2>2. seg' \in [SegIds -> SegmentType]
      BY <1>5, <2>1, LazyLoadType DEF Get, TypeOK
    <2>3. QED
      BY <1>5, <2>2 DEF Get, TypeOK, workerVars, compilerVars, jobVars, historyVars, Ordered
  <1>6. QED
    BY <1>3, <1>4, <1>5

\* Where tasks begin and end, PersistDeletes and Compile
LEMMA TasksType ==
    ASSUME TypeOK, Ordered(segments)',
           \/ StartFlush \/ StartCompile \/ StartScheduled \/ StartClose \/ WaitForMerges
           \/ PersistNext \/ PersistDone \/ NothingToCompile \/ Compile \/ CompileToc
    PROVE  TypeOK'
  <1>1. CASE \/ StartFlush \/ StartCompile \/ StartScheduled \/ StartClose \/ WaitForMerges
    <2>1. task' \in {"none", "flush", "compile", "scheduled", "close", "last"}
          /\ pc' \in {"persist", "compile", "finalize"} /\ todo' \subseteq SegIds
      BY <1>1 DEF StartFlush, StartCompile, StartScheduled, StartClose, WaitForMerges, Begin,
                  ToPersist, TypeOK
    <2>2. UNCHANGED <<cur, merge_enabled, compilerVars, jobVars, fileVars, count, historyVars>>
      BY <1>1 DEF StartFlush, StartCompile, StartScheduled, StartClose, WaitForMerges, Begin
    <2>3. QED
      BY <2>1, <2>2 DEF TypeOK, compilerVars, jobVars, fileVars, historyVars, Ordered
  <1>2. CASE PersistNext
    <2>1. FirstOf(todo) \in SegIds
      BY <1>2, FirstOfIs DEF PersistNext, TypeOK
    <2>2. seg' \in [SegIds -> SegmentType]
      BY <1>2, <2>1, PersistAndReloadType DEF PersistNext, TypeOK
    <2>3. QED
      BY <1>2, <2>2 DEF PersistNext, TypeOK, compilerVars, jobVars, historyVars, Ordered
  <1>3. CASE PersistDone
    BY <1>3 DEF PersistDone, TypeOK, jobVars, fileVars, historyVars, Ordered
  <1>4. CASE NothingToCompile
    BY <1>4, EndTaskType
       DEF NothingToCompile, TypeOK, compilerVars, jobVars, fileVars, historyVars, Ordered
  <1>5. CASE Compile
    <2>1. nextId \in SegIds /\ nextId' \in Nat
      BY <1>5, NumbersInRange DEF Compile, TypeOK
    <2>2. seg' \in [SegIds -> SegmentType]
      BY <1>5, <2>1, NewSegmentType DEF Compile, TypeOK
    <2>3. pending' \in [Keys -> Nat]
      BY <1>5 DEF Compile, Nothing, Absent
    <2>4. QED
      BY <1>5, <2>1, <2>2, <2>3 DEF Compile, TypeOK, jobVars, historyVars, Ordered
  <1>6. CASE CompileToc
    BY <1>6, EndTaskType
       DEF CompileToc, TypeOK, compilerVars, jobVars, Ordered
  <1>7. QED
    BY <1>1, <1>2, <1>3, <1>4, <1>5, <1>6

\* FinalizeMerge
LEMMA FinalizeType ==
    ASSUME TypeOK, FilesInv, Ordered(segments)',
           \/ StillRunning \/ FinalizeFailed \/ FinalizeSwap \/ MergeToc \/ RemoveOld
           \/ FinalizeDone
    PROVE  TypeOK'
  <1>1. CASE StillRunning
    BY <1>1 DEF StillRunning, TypeOK, compilerVars, jobVars, fileVars, historyVars, Ordered
  <1>2. CASE FinalizeFailed
    <2>1. seg' \in [SegIds -> SegmentType]
      BY <1>2, MergeFailedType DEF FinalizeFailed, TypeOK
    <2>2. QED
      BY <1>2, <2>1 DEF FinalizeFailed, TypeOK, compilerVars, jobVars, historyVars, Ordered
  <1>3. CASE FinalizeSwap
    <2>1. PICK j \in merge_jobs :
          /\ cur' = j /\ pc' = "merge_toc"
          /\ segments' = (segments \ job[j].segs)
                            \cup (IF job[j].segs \cap segments = {} THEN {} ELSE {j})
          /\ seg' = IF job[j].segs \cap segments = {} THEN seg
                    ELSE [seg EXCEPT ![j] = MergedSegment(@.dict, MergedRank(j), Inherit(j))]
          /\ UNCHANGED <<task, todo, merge_enabled, compilerVars, jobVars, toc, nextId,
                         count, historyVars>>
      BY <1>3 DEF FinalizeSwap, Remaining
    <2>2. j \in SegIds /\ job[j].segs \subseteq SegIds
      BY <2>1 DEF TypeOK, JobType
    <2>3. ASSUME job[j].segs \cap segments # {}
          PROVE  MergedSegment(seg[j].dict, MergedRank(j), Inherit(j)) \in SegmentType
      <3>1. MergedRank(j) \in Nat
        BY <2>2, <2>3, MergedRankIs DEF TypeOK, SegmentType
      <3>2. seg[j].dict \in [Keys -> Nat] /\ Inherit(j) \in SUBSET SegmentType
        BY <2>2 DEF TypeOK, SegmentType, Inherit
      <3>3. QED
        BY <3>1, <3>2, MergedSegmentType
    <2>4. seg' \in [SegIds -> SegmentType]
      BY <2>1, <2>2, <2>3 DEF TypeOK
    <2>5. segments' \subseteq SegIds
      BY <2>1, <2>2 DEF TypeOK
    <2>6. QED
      BY <2>1, <2>2, <2>4, <2>5 DEF TypeOK, compilerVars, jobVars, historyVars, Ordered
  <1>4. CASE MergeToc
    BY <1>4 DEF MergeToc, TypeOK, compilerVars, jobVars, historyVars, Ordered
  <1>5. CASE RemoveOld
    <2>1. seg' \in [SegIds -> SegmentType]
      BY <1>5, LazyLoadType, RemoveFilesType DEF RemoveOld, TypeOK
    <2>2. NoJob \in JobType
      BY DEF NoJob, JobType, Absent
    <2>3. job' \in [SegIds -> JobType]
      BY <1>5, <2>2 DEF RemoveOld, TypeOK
    <2>4. QED
      BY <1>5, <2>1, <2>3 DEF RemoveOld, TypeOK, compilerVars, historyVars, Ordered
  <1>6. CASE FinalizeDone
    BY <1>6 DEF FinalizeDone, TypeOK, compilerVars, jobVars, fileVars, historyVars, Ordered
  <1>7. QED
    BY <1>1, <1>2, <1>3, <1>4, <1>5, <1>6

\* RunMerge
LEMMA RunMergeType ==
    ASSUME TypeOK, Ordered(segments)', NoMerge \/ RunMerge
    PROVE  TypeOK'
  <1>1. CASE NoMerge
    <2>1. seg' \in [SegIds -> SegmentType]
      BY <1>1, LazyLoadType DEF NoMerge, AfterSelection, TypeOK
    <2>2. QED
      BY <1>1, <2>1, RefreshType DEF NoMerge, TypeOK, compilerVars, jobVars, Ordered
  <1>2. CASE RunMerge
    <2>1. PICK c \in Candidates :
          /\ seg' = [i \in SegIds |-> IF i \in c THEN ElectedForMerge(AfterSelection[i])
                                      ELSE AfterSelection[i]]
          /\ job' = [job EXCEPT ![nextId] = [NoJob EXCEPT !.segs = c,
                                                          !.external = External(c),
                                                          !.status = "running"]]
      BY <1>2 DEF RunMerge
    <2>2. nextId \in SegIds /\ nextId' \in Nat
      <3>1. nextId \in 1..sc.segs /\ nextId' = nextId + 1
        BY <1>2 DEF RunMerge
      <3>2. QED
        BY <3>1, NumbersInRange DEF TypeOK
    <2>3. seg' \in [SegIds -> SegmentType]
      BY <2>1, AfterSelectionIs, ElectedForMergeType
    <2>4. c \subseteq SegIds /\ External(c) \in BOOLEAN
      BY <2>1, CandidatesInList DEF TypeOK, External
    <2>5. [NoJob EXCEPT !.segs = c, !.external = External(c), !.status = "running"] \in JobType
      BY <2>4 DEF NoJob, JobType, Absent
    <2>6. job' \in [SegIds -> JobType]
      BY <2>1, <2>2, <2>5 DEF TypeOK
    <2>7. QED
      BY <1>2, <2>2, <2>3, <2>6, RefreshType DEF RunMerge, TypeOK, compilerVars, Ordered
  <1>3. QED
    BY <1>1, <1>2

LEMMA SetStatusType ==
    ASSUME TypeOK, NEW j \in SegIds, NEW s \in {"none", "running", "loaded", "ok", "failed"}
    PROVE  SetStatus(j, s) \in [SegIds -> JobType]
  <1>1. job[j] \in JobType /\ job \in [SegIds -> JobType]
    BY DEF TypeOK
  <1>2. [job[j] EXCEPT !.status = s] \in JobType
    BY <1>1 DEF JobType
  <1>3. SetStatus(j, s) = [job EXCEPT ![j] = [job[j] EXCEPT !.status = s]]
    BY <1>1 DEF SetStatus
  <1>4. QED
    BY <1>1, <1>2, <1>3

\* The merge threads and processes
LEMMA MergerType ==
    ASSUME TypeOK, FilesInv, Ordered(segments)', NEW j \in merge_jobs, Merger(j)
    PROVE  TypeOK'
  <1>1. j \in SegIds
    BY DEF TypeOK
  <1>2. CASE MergeLoad(j)
    <2> DEFINE dict == [i \in SegIds |-> seg[i].dict]
               rank == [i \in SegIds |-> seg[i].rank]
               dk == [i \in SegIds |-> ReadDeleted(seg[i].dk)]
               out == MergedDictionary(job[j].segs, dict, dk, rank, Keys)
    <2>1. job[j].segs \subseteq SegIds
      BY <1>1 DEF TypeOK, JobType
    <2>2. dict \in [SegIds -> [Keys -> Nat]] /\ rank \in [SegIds -> Nat]
      BY DEF TypeOK, SegmentType
    <2>3. \A i \in SegIds : rank[i] < nextId
      BY DEF FilesInv, RanksBelow
    <2>4. nextId \in Nat
      BY DEF TypeOK
    <2> HIDE DEF dict, rank, dk
    <2>5. out \in [Keys -> Nat]
      BY <2>1, <2>2, <2>3, <2>4, MergedDictionaryType
    <2> HIDE DEF out
    <2>6. job' = [job EXCEPT ![j].status = "loaded", ![j].out = out]
      BY <1>2 DEF MergeLoad, out, dict, rank, dk
    <2>7. job' \in [SegIds -> JobType]
      <3>1. job[j] \in JobType /\ job \in [SegIds -> JobType]
        BY <1>1 DEF TypeOK
      <3>2. [job[j] EXCEPT !.status = "loaded", !.out = out] \in JobType
        BY <2>5, <3>1 DEF JobType
      <3>3. job' = [job EXCEPT ![j] = [job[j] EXCEPT !.status = "loaded", !.out = out]]
        BY <1>1, <2>6, <3>1 DEF JobType
      <3>4. QED
        BY <3>1, <3>2, <3>3
    <2>8. ignored' \subseteq Keys
      <3>1. DeletedIn(job[j].segs) \subseteq Keys
        BY DEF DeletedIn
      <3>2. QED
        BY <1>2, <3>1 DEF MergeLoad, TypeOK
    <2>9. QED
      BY <1>2, <2>7, <2>8 DEF MergeLoad, TypeOK, workerVars, compilerVars, fileVars, Ordered
  <1>3. CASE MergeLoadFails(j)
    <2>1. job' \in [SegIds -> JobType]
      BY <1>1, <1>3, SetStatusType DEF MergeLoadFails
    <2>2. QED
      BY <1>3, <2>1
         DEF MergeLoadFails, TypeOK, workerVars, compilerVars, fileVars, historyVars, Ordered
  <1>4. CASE MergeFinish(j)
    <2>1. job' \in [SegIds -> JobType]
      BY <1>1, <1>4, SetStatusType DEF MergeFinish
    <2>2. job[j].out \in [Keys -> Nat]
      BY <1>1 DEF TypeOK, JobType
    <2>3. [NoSegment EXCEPT !.dict = job[j].out, !.kv = TRUE] \in SegmentType
      BY <2>2, NoSegmentType DEF SegmentType
    <2>4. seg' \in [SegIds -> SegmentType]
      BY <1>1, <1>4, <2>3 DEF MergeFinish, TypeOK
    <2>5. QED
      BY <1>4, <2>1, <2>4 DEF MergeFinish, TypeOK, workerVars, compilerVars, historyVars, Ordered
  <1>5. CASE MergeFails(j)
    <2>1. job' \in [SegIds -> JobType]
      BY <1>1, <1>5, SetStatusType DEF MergeFails
    <2>2. count' \in CountType
      BY <1>5 DEF MergeFails, TypeOK, CountType
    <2>3. QED
      BY <1>5, <2>1, <2>2
         DEF MergeFails, TypeOK, workerVars, compilerVars, fileVars, historyVars, Ordered
  <1>6. QED
    BY <1>2, <1>3, <1>4, <1>5 DEF Merger

\* Shutdown, crash and start
LEMMA LifeType ==
    ASSUME TypeOK, FilesInv, Ordered(segments)', RequestClose \/ Shutdown \/ Crash \/ Open
    PROVE  TypeOK'
  <1>1. CASE RequestClose
    <2>1. count' \in CountType
      BY <1>1 DEF RequestClose, TypeOK, CountType
    <2>2. QED
      BY <1>1, <2>1 DEF RequestClose, TypeOK, compilerVars, jobVars, fileVars, historyVars, Ordered
  <1>2. CASE Shutdown \/ Crash
    <2>1. count' \in CountType
      BY <1>2 DEF Shutdown, Crash, TypeOK, CountType
    <2>2. Down
      BY <1>2 DEF Shutdown, Crash
    <2>3. seg' \in [SegIds -> SegmentType]
      BY <2>2, RemainsIs DEF Down, TypeOK, Remains
    <2>4. NoJob \in JobType
      BY DEF NoJob, JobType, Absent
    <2>5. job' \in [SegIds -> JobType]
      BY <2>2, <2>4 DEF Down
    <2>6. pending' \in [Keys -> Nat]
      BY <2>2 DEF Down, Nothing, Absent
    <2>7. QED
      BY <2>1, <2>2, <2>3, <2>5, <2>6 DEF Down, TypeOK, historyVars, Ordered
  <1>3. CASE Open
    <2>1. seg' \in [SegIds -> SegmentType]
      BY <1>3, OpenSegmentType DEF Open, TypeOK
    <2>2. RanksBelow
      BY DEF FilesInv
    <2>3. ref' \in [Keys -> Nat] /\ allowed' \in [Keys -> SUBSET Nat]
      BY <1>3, <2>2, DurableType DEF Open
    <2>4. QED
      BY <1>3, <2>1, <2>3 DEF Open, TypeOK, compilerVars, jobVars, Ordered
  <1>4. QED
    BY <1>1, <1>2, <1>3

LEMMA TypeStep ==
    ASSUME TypeOK, FilesInv, Ordered(segments)', [Next]_vars
    PROVE  TypeOK'
  <1>1. CASE UNCHANGED vars
    BY <1>1 DEF TypeOK, vars, workerVars, compilerVars, jobVars, fileVars, historyVars
  <1>2. CASE Next
    BY <1>2, CallsType, TasksType, FinalizeType, RunMergeType, MergerType, LifeType
       DEF Next, Worker
  <1>3. QED
    BY <1>1, <1>2

-----------------------------------------------------------------------------

LEMMA InitType == Init => TypeOK /\ FilesInv
  <1> SUFFICES ASSUME Init PROVE TypeOK /\ FilesInv
    OBVIOUS
  <1>1. seg \in [SegIds -> SegmentType] /\ \A i \in SegIds : seg[i].rank = 0
    BY NoSegmentType DEF Init, NoSegment
  <1>2. job \in [SegIds -> JobType]
    BY DEF Init, NoJob, JobType, Absent
  <1>3. count \in CountType
    BY DEF Init, CountType
  <1>4. pending \in [Keys -> Nat] /\ ref \in [Keys -> Nat] /\ allowed \in [Keys -> SUBSET Nat]
    BY DEF Init, Nothing, Absent
  <1>5. TypeOK
    BY <1>1, <1>2, <1>3, <1>4 DEF Init, TypeOK
  <1>6. FilesInv
    BY <1>1 DEF Init, FilesInv, Fresh, RanksBelow, Ordered, FilesThere, OutputsApart,
                ParentsOlder, InSwap, Swapping
  <1>7. QED
    BY <1>5, <1>6

(***************************************************************************)
(* TypeOK and FilesInv hold in every state of the writer: in particular no *)
(* two segments of the vector have the same place, and the output of a     *)
(* merge is in no list before FinalizeMerge puts it there.                 *)
(***************************************************************************)
THEOREM FilesInvariant == Spec => [](TypeOK /\ FilesInv)
  <1>1. TypeOK /\ FilesInv /\ [Next]_vars => (TypeOK /\ FilesInv)'
    BY FilesStep, TypeStep
  <1>2. QED
    BY InitType, <1>1, PTL DEF Spec

\* The payload of the writer, the jobs and the directory keep their types, and
\* the vector of segments its order (IndexPayload, Compile, FinalizeMerge).
THEOREM TypeTheorem == Spec => []TypeOK
  BY FilesInvariant, PTL

(***************************************************************************)
(* Every file index.toc names exists, at every moment, whatever merges     *)
(* fail and wherever the process dies: LoadIndex always succeeds           *)
(* (FinalizeMerge writes the list before it removes files).                *)
(***************************************************************************)
THEOREM TocTheorem == Spec => []TocOpens
  <1>1. FilesInv => TocOpens
    BY DEF FilesInv, FilesThere, TocOpens
  <1>2. QED
    BY FilesInvariant, <1>1, PTL

-----------------------------------------------------------------------------
(***************************************************************************)
(* Merges beside each other, under the tiered policy (the simple policy    *)
(* takes segments that are not next to each other).  While no merge failed *)
(* every job in the list is either being finalized or has its parents in   *)
(* the list, marked, as a contiguous run, and no job fails because a       *)
(* parent's file is gone.                                                  *)
(***************************************************************************)
Busy(j) == j \in merge_jobs /\ ~(Swapping /\ j = cur)

NoneFailed == \A j \in merge_jobs : job[j].status # "failed"

ParentsMarked == \A j \in merge_jobs : Busy(j) =>
                    \A i \in job[j].segs : i \in segments /\ seg[i].in_merge

Disjoint == \A j, j2 \in merge_jobs : Busy(j) /\ Busy(j2) /\ j # j2 =>
                    job[j].segs \cap job[j2].segs = {}

Contiguous(c) == \A i, m \in c, between \in segments :
                    seg[i].rank < seg[between].rank /\ seg[between].rank < seg[m].rank
                        => between \in c

Runs == \A j \in merge_jobs : Busy(j) => Contiguous(job[j].segs)

DownEmpty == pc = "down" => merge_jobs = {}

ApartInv ==
    /\ DownEmpty
    /\ count.failures = 0 => NoneFailed /\ ParentsMarked /\ Disjoint /\ Runs

\* The candidates of the tiered policy are runs of unmarked segments.
LEMMA CandidatesContiguous ==
    ASSUME TypeOK, Policy = "tiered", NEW c \in Candidates
    PROVE  c \subseteq Unmarked /\ Contiguous(c)
  <1>1. PICK x \in Unmarked : c = CappedRun(x)
    BY DEF Candidates
  <1>2. Run(x) \subseteq Unmarked /\ Unmarked \subseteq segments /\ segments \subseteq SegIds
    BY DEF Run, Unmarked, TypeOK
  <1>3. \A i \in SegIds : seg[i].rank \in Nat
    BY DEF TypeOK, SegmentType
  <1>4. ASSUME NEW i \in c, NEW m \in c, NEW b \in segments,
               seg[i].rank < seg[b].rank, seg[b].rank < seg[m].rank
        PROVE  b \in c
    <2> DEFINE Before(s) == {n \in Run(x) : seg[n].rank < seg[s].rank}
    <2>1. i \in Run(x) /\ m \in Run(x) /\ Cardinality(Before(m)) < MaxSegmentsPerMerge
      BY <1>1, <1>4 DEF CappedRun
    <2>2. /\ x \in SegIds /\ i \in SegIds /\ m \in SegIds /\ b \in SegIds
          /\ seg[x].rank <= seg[i].rank /\ seg[x].rank <= seg[b].rank
      BY <1>1, <1>2, <1>3, <1>4, <2>1 DEF Run
    <2>3. ASSUME NEW n \in segments, seg[x].rank <= seg[n].rank, seg[n].rank <= seg[b].rank
          PROVE  n \in Unmarked
      <3>1. seg[n].rank <= seg[m].rank
        BY <1>2, <1>3, <1>4, <2>2, <2>3
      <3>2. QED
        BY <2>1, <2>3, <3>1 DEF Run
    <2>4. b \in Unmarked
      BY <1>3, <1>4, <2>2, <2>3
    <2>5. b \in Run(x)
      BY <2>2, <2>3, <2>4 DEF Run
    <2>6. Before(b) \subseteq Before(m) /\ Before(m) \subseteq SegIds
      BY <1>2, <1>3, <1>4, <2>2
    <2>7. IsFiniteSet(SegIds)
      BY FS_Interval, ScenariosAssumption DEF SegIds
    <2>8. IsFiniteSet(Before(m))
      BY <2>6, <2>7, FS_Subset
    <2>9. IsFiniteSet(Before(b)) /\ Cardinality(Before(b)) <= Cardinality(Before(m))
      BY <2>6, <2>8, FS_Subset
    <2>10. Cardinality(Before(b)) \in Nat /\ Cardinality(Before(m)) \in Nat
      BY <2>8, <2>9, FS_CardinalityType
    <2>11. Cardinality(Before(b)) < MaxSegmentsPerMerge
      BY <2>1, <2>9, <2>10, SettingsAssumption
    <2>12. QED
      BY <1>1, <2>5, <2>11 DEF CappedRun
  <1>5. QED
    BY <1>1, <1>2, <1>4 DEF Contiguous, CappedRun

\* The steps that change neither lists, places, marks nor parents
LEMMA QuietKeepsApart ==
    ASSUME TypeOK, ApartInv, Quiet,
           \A i \in SegIds : seg'[i].in_merge = seg[i].in_merge,
           \A j \in merge_jobs : job'[j].status = "failed" => job[j].status = "failed",
           count'.failures = count.failures, pc' = "down" => pc = "down"
    PROVE  ApartInv'
  <1> USE DEF Quiet
  <1>1. DownEmpty'
    BY DEF ApartInv, DownEmpty
  <1>2. \A j \in merge_jobs : Busy(j)' <=> Busy(j)
    BY DEF Busy
  <1>3. ASSUME count'.failures = 0
        PROVE  (NoneFailed /\ ParentsMarked /\ Disjoint /\ Runs)'
    <2>1. NoneFailed /\ ParentsMarked /\ Disjoint /\ Runs
      BY <1>3 DEF ApartInv
    <2>2. \A j \in merge_jobs : job[j].segs \subseteq SegIds
      BY DEF TypeOK, JobType
    <2>3. NoneFailed'
      BY <2>1 DEF NoneFailed
    <2>4. ParentsMarked'
      BY <1>2, <2>1, <2>2 DEF ParentsMarked
    <2>5. Disjoint'
      BY <1>2, <2>1 DEF Disjoint
    <2>6. Runs'
      BY <1>2, <2>1, <2>2 DEF Runs, Contiguous, SamePlace, TypeOK
    <2>7. QED
      BY <2>3, <2>4, <2>5, <2>6
  <1>4. QED
    BY <1>1, <1>3 DEF ApartInv

LEMMA QuietStepsKeepMarks ==
    ASSUME TypeOK, FilesInv,
           \/ \E k \in sc.keys : Add(k) \/ Delete(k) \/ Get(k)
           \/ StartFlush \/ StartCompile \/ StartScheduled \/ StartClose
           \/ PersistNext \/ PersistDone \/ NothingToCompile
           \/ StillRunning \/ FinalizeDone \/ NoMerge \/ WaitForMerges
           \/ \E j \in merge_jobs : MergeLoad(j)
           \/ RequestClose
    PROVE  /\ \A i \in SegIds : seg'[i].in_merge = seg[i].in_merge
           /\ \A j \in merge_jobs : job'[j].status = "failed" => job[j].status = "failed"
           /\ count'.failures = count.failures
           /\ pc' = "down" => pc = "down"
  <1> DEFINE Goal == /\ \A i \in SegIds : seg'[i].in_merge = seg[i].in_merge
                     /\ \A j \in merge_jobs : job'[j].status = "failed" => job[j].status = "failed"
                     /\ count'.failures = count.failures
                     /\ pc' = "down" => pc = "down"
  <1>1. ASSUME NEW k \in sc.keys, Add(k) PROVE Goal
    BY <1>1 DEF Add, workerVars, jobVars, fileVars, TypeOK, CountType
  <1>2. ASSUME NEW k \in sc.keys, Delete(k) PROVE Goal
    <2>1. k \in Keys
      BY ScenariosAssumption DEF TypeOK, ScenarioType
    <2>2. \A i \in SegIds : seg'[i].in_merge = seg[i].in_merge
      BY <1>2, <2>1, DeleteKeyKeeps DEF Delete, TypeOK
    <2>3. QED
      BY <1>2, <2>2 DEF Delete, workerVars, jobVars, TypeOK, CountType
  <1>3. ASSUME NEW k \in sc.keys, Get(k) PROVE Goal
    <2>1. k \in Keys
      BY ScenariosAssumption DEF TypeOK, ScenarioType
    <2>2. NewestOf(segments, k) \in SegIds
      BY <1>3, <2>1, NewestOfIs DEF Get, TypeOK, Containing, FilesInv
    <2>3. \A i \in SegIds : seg'[i].in_merge = seg[i].in_merge
      BY <1>3, <2>2, LazyLoadKeeps DEF Get, TypeOK
    <2>4. QED
      BY <1>3, <2>3 DEF Get, workerVars, jobVars
  <1>4. CASE StartFlush \/ StartCompile \/ StartScheduled \/ StartClose \/ WaitForMerges
    BY <1>4 DEF StartFlush, StartCompile, StartScheduled, StartClose, WaitForMerges, Begin,
                jobVars, fileVars
  <1>5. CASE PersistNext
    <2>1. FirstOf(todo) \in SegIds
      BY <1>5, FirstOfIs DEF PersistNext, TypeOK
    <2>2. \A i \in SegIds : seg'[i].in_merge = seg[i].in_merge
      BY <1>5, <2>1, PersistAndReloadKeeps DEF PersistNext, TypeOK
    <2>3. QED
      BY <1>5, <2>2 DEF PersistNext, jobVars
  <1>6. CASE PersistDone \/ StillRunning \/ FinalizeDone
    BY <1>6 DEF PersistDone, StillRunning, FinalizeDone, jobVars, fileVars
  <1>7. CASE NothingToCompile
    BY <1>7, EndTaskType DEF NothingToCompile, jobVars, fileVars
  <1>8. CASE NoMerge
    <2>1. \A i \in SegIds : seg'[i].in_merge = seg[i].in_merge
      BY <1>8, AfterSelectionIs DEF NoMerge
    <2>2. QED
      BY <1>8, <2>1, RefreshType DEF NoMerge, jobVars
  <1>9. ASSUME NEW j \in merge_jobs, MergeLoad(j) PROVE Goal
    <2>1. \A i \in merge_jobs : job'[i].status = "failed" => job[i].status = "failed"
      BY <1>9 DEF MergeLoad, TypeOK, JobType
    <2>2. QED
      BY <1>9, <2>1 DEF MergeLoad, workerVars, fileVars
  <1>10. CASE RequestClose
    BY <1>10 DEF RequestClose, jobVars, fileVars, TypeOK, CountType
  <1>11. QED
    BY <1>1, <1>2, <1>3, <1>4, <1>5, <1>6, <1>7, <1>8, <1>9, <1>10

LEMMA CompileKeepsApart ==
    ASSUME TypeOK, FilesInv, ApartInv, Compile \/ CompileToc
    PROVE  ApartInv'
  <1>1. UNCHANGED <<merge_jobs, job, cur, count>> /\ ~Swapping /\ ~Swapping' /\ pc' # "down"
    BY EndTaskType DEF Compile, CompileToc, jobVars, Swapping
  <1>2. segments \subseteq segments' /\ \A i \in segments : seg'[i] = seg[i]
    BY DEF Compile, CompileToc, TypeOK, FilesInv, Fresh
  <1>3. \A b \in segments' \ segments : \A i \in segments : seg'[i].rank < seg'[b].rank
    <2>1. CASE CompileToc
      BY <2>1 DEF CompileToc
    <2>2. CASE Compile
      <3>1. nextId \in SegIds /\ segments' \ segments = {nextId}
        BY <2>2, NumbersInRange DEF Compile, TypeOK, FilesInv, Fresh
      <3>2. seg'[nextId].rank = nextId
        BY <2>2, <3>1, NoSegmentType DEF Compile, NewSegment, TypeOK, SegmentType
      <3>3. QED
        BY <1>2, <3>1, <3>2 DEF FilesInv, RanksBelow, TypeOK
    <2>3. QED
      BY <2>1, <2>2
  <1>4. ASSUME count'.failures = 0
        PROVE  (NoneFailed /\ ParentsMarked /\ Disjoint /\ Runs)'
    <2>1. NoneFailed /\ ParentsMarked /\ Disjoint /\ Runs
      BY <1>1, <1>4 DEF ApartInv
    <2>2. \A j \in merge_jobs : Busy(j) /\ Busy(j)'
      BY <1>1 DEF Busy
    <2>3. NoneFailed' /\ ParentsMarked' /\ Disjoint'
      BY <1>1, <1>2, <2>1, <2>2 DEF NoneFailed, ParentsMarked, Disjoint
    <2>4. ASSUME NEW j \in merge_jobs, NEW i \in job[j].segs, NEW m \in job[j].segs,
                 NEW b \in segments', seg'[i].rank < seg'[b].rank, seg'[b].rank < seg'[m].rank
          PROVE  b \in job[j].segs
      <3>1. i \in segments /\ m \in segments
        BY <2>1, <2>2 DEF ParentsMarked
      <3>2. b \in segments
        <4>1. SUFFICES ASSUME b \notin segments PROVE FALSE
          OBVIOUS
        <4>2. seg'[m].rank < seg'[b].rank
          BY <1>3, <3>1, <4>1
        <4>3. TypeOK'
          BY CompileKeepsFiles, CompileTocKeepsFiles, TasksType
        <4>4. seg'[m].rank \in Nat /\ seg'[b].rank \in Nat
          BY <1>2, <3>1, <4>3 DEF TypeOK, SegmentType
        <4>5. QED
          BY <2>4, <4>2, <4>4
      <3>3. QED
        BY <1>2, <2>1, <2>2, <2>4, <3>1, <3>2 DEF Runs, Contiguous
    <2>5. Runs'
      BY <1>1, <2>4 DEF Runs, Contiguous
    <2>6. QED
      BY <2>3, <2>5
  <1>5. QED
    BY <1>1, <1>4 DEF ApartInv, DownEmpty

\* A job is swapped in: the other jobs keep their parents, and the merged
\* segment lies where one of its own parents was.
LEMMA FinalizeSwapKeepsApart ==
    ASSUME TypeOK, FilesInv, ApartInv, FinalizeSwap
    PROVE  ApartInv'
  <1>1. PICK j \in merge_jobs :
          /\ cur' = j /\ pc = "finalize" /\ pc' = "merge_toc"
          /\ segments' = (segments \ job[j].segs)
                            \cup (IF job[j].segs \cap segments = {} THEN {} ELSE {j})
          /\ seg' = IF job[j].segs \cap segments = {} THEN seg
                    ELSE [seg EXCEPT ![j] = MergedSegment(@.dict, MergedRank(j), Inherit(j))]
          /\ UNCHANGED <<merge_jobs, job, count>>
    BY DEF FinalizeSwap, Finalizing, Remaining, jobVars
  <1>2. j \in SegIds /\ job[j].segs \subseteq SegIds /\ j \notin segments
    BY <1>1 DEF TypeOK, JobType, FilesInv, OutputsApart, Swapping
  <1>3. \A i \in segments : seg'[i] = seg[i]
    BY <1>1, <1>2 DEF TypeOK
  <1>4. ASSUME job[j].segs \cap segments # {}
        PROVE  \E i \in job[j].segs \cap segments : seg'[j].rank = seg[i].rank
    <2>1. PICK i \in job[j].segs \cap segments : MergedRank(j) = seg[i].rank
      BY <1>2, <1>4, MergedRankIs
    <2>2. MergedRank(j) \in Nat /\ seg[j].dict \in [Keys -> Nat]
          /\ Inherit(j) \in SUBSET SegmentType
      BY <1>2, <2>1 DEF TypeOK, SegmentType, Inherit
    <2>3. seg'[j] = MergedSegment(seg[j].dict, MergedRank(j), Inherit(j))
      BY <1>1, <1>2, <1>4 DEF TypeOK
    <2>4. QED
      BY <2>1, <2>2, <2>3, MergedIs
  <1>5. ASSUME count'.failures = 0
        PROVE  (NoneFailed /\ ParentsMarked /\ Disjoint /\ Runs)'
    <2>1. NoneFailed /\ ParentsMarked /\ Disjoint /\ Runs
      BY <1>1, <1>5 DEF ApartInv
    <2>2. \A i \in merge_jobs : Busy(i) /\ (Busy(i)' <=> i # j)
      BY <1>1 DEF Busy, Swapping
    <2>3. \A i \in merge_jobs \ {j} : /\ job[i].segs \subseteq segments
                                      /\ job[i].segs \cap job[j].segs = {}
      BY <2>1, <2>2 DEF ParentsMarked, Disjoint
    <2>4. NoneFailed' /\ Disjoint'
      BY <1>1, <2>1, <2>2 DEF NoneFailed, Disjoint
    <2>5. ParentsMarked'
      BY <1>1, <1>3, <2>1, <2>2, <2>3 DEF ParentsMarked
    <2>6. ASSUME NEW o \in merge_jobs \ {j}, NEW i \in job[o].segs, NEW m \in job[o].segs,
                 NEW b \in segments', seg'[i].rank < seg'[b].rank, seg'[b].rank < seg'[m].rank
          PROVE  b \in job[o].segs
      <3>1. seg'[i] = seg[i] /\ seg'[m] = seg[m]
        BY <1>3, <2>3
      <3>2. CASE b \in segments
        BY <1>3, <2>1, <2>2, <2>6, <3>1, <3>2 DEF Runs, Contiguous
      <3>3. CASE b \notin segments
        <4>1. b = j /\ job[j].segs \cap segments # {}
          BY <1>1, <3>3
        <4>2. PICK p \in job[j].segs \cap segments : seg'[j].rank = seg[p].rank
          BY <1>4, <4>1
        <4>3. p \in job[o].segs
          BY <2>1, <2>2, <2>6, <3>1, <4>1, <4>2 DEF Runs, Contiguous
        <4>4. QED
          BY <2>3, <4>2, <4>3
      <3>4. QED
        BY <3>2, <3>3
    <2>7. Runs'
      BY <1>1, <2>2, <2>6 DEF Runs, Contiguous
    <2>8. QED
      BY <2>4, <2>5, <2>7
  <1>6. QED
    BY <1>1, <1>5 DEF ApartInv, DownEmpty

LEMMA MergeTocKeepsApart ==
    ASSUME TypeOK, ApartInv, MergeToc
    PROVE  ApartInv'
  <1>1. UNCHANGED <<segments, seg, merge_jobs, job, cur, count>>
        /\ Swapping /\ Swapping' /\ pc' # "down"
    BY DEF MergeToc, jobVars, Swapping
  <1>2. QED
    BY <1>1 DEF ApartInv, DownEmpty, NoneFailed, ParentsMarked, Disjoint, Runs, Contiguous, Busy

LEMMA RemoveOldKeepsApart ==
    ASSUME TypeOK, FilesInv, ApartInv, RemoveOld
    PROVE  ApartInv'
  <1>1. Swapping /\ ~Swapping' /\ UNCHANGED <<segments, count>> /\ pc' # "down"
        /\ cur \in SegIds /\ cur \in merge_jobs
        /\ merge_jobs' = merge_jobs \ {cur}
        /\ job[cur].segs \cap segments = {}
    BY DEF RemoveOld, Swapping, FilesInv, InSwap, TypeOK
  <1>2. \A i \in segments : seg'[i] = seg[i]
    BY <1>1 DEF RemoveOld, TypeOK
  <1>3. \A j \in merge_jobs' : job'[j] = job[j] /\ Busy(j) /\ Busy(j)'
    BY <1>1 DEF RemoveOld, TypeOK, Busy
  <1>4. ASSUME count'.failures = 0
        PROVE  (NoneFailed /\ ParentsMarked /\ Disjoint /\ Runs)'
    <2>1. NoneFailed /\ ParentsMarked /\ Disjoint /\ Runs
      BY <1>1, <1>4 DEF ApartInv
    <2>2. NoneFailed' /\ Disjoint'
      BY <1>1, <1>3, <2>1 DEF NoneFailed, Disjoint
    <2>3. ParentsMarked'
      BY <1>1, <1>2, <1>3, <2>1 DEF ParentsMarked
    <2>4. \A j \in merge_jobs' : job[j].segs \subseteq segments
      BY <1>1, <1>3, <2>1 DEF ParentsMarked
    <2>5. Runs'
      BY <1>1, <1>2, <1>3, <2>1, <2>4 DEF Runs, Contiguous
    <2>6. QED
      BY <2>2, <2>3, <2>5
  <1>5. QED
    BY <1>1, <1>4 DEF ApartInv, DownEmpty

LEMMA RunMergeKeepsApart ==
    ASSUME TypeOK, FilesInv, ApartInv, Policy = "tiered", RunMerge
    PROVE  ApartInv'
  <1>1. PICK c \in Candidates :
          /\ seg' = [i \in SegIds |-> IF i \in c THEN ElectedForMerge(AfterSelection[i])
                                      ELSE AfterSelection[i]]
          /\ job' = [job EXCEPT ![nextId] = [NoJob EXCEPT !.segs = c,
                                                          !.external = External(c),
                                                          !.status = "running"]]
    BY DEF RunMerge
  <1>2. nextId \in SegIds /\ merge_jobs' = merge_jobs \cup {nextId}
        /\ UNCHANGED <<segments, count>> /\ ~Swapping /\ ~Swapping' /\ pc' # "down"
    <2>1. nextId \in 1..sc.segs /\ merge_jobs' = merge_jobs \cup {nextId}
          /\ UNCHANGED <<segments, count>> /\ ~Swapping /\ Refresh
      BY DEF RunMerge, Swapping
    <2>3. nextId \in SegIds
      BY <2>1, NumbersInRange
    <2>4. ~Swapping' /\ pc' # "down"
      BY <2>1, RefreshLeaves, RefreshType
    <2>5. QED
      BY <2>1, <2>3, <2>4
  <1>3. \A i \in SegIds : /\ seg'[i].rank = seg[i].rank
                          /\ i \in c \/ seg[i].in_merge => seg'[i].in_merge
    <2>1. \A i \in SegIds \cap c : seg'[i] = ElectedForMerge(AfterSelection[i])
      BY <1>1
    <2>2. \A i \in SegIds \ c : seg'[i] = AfterSelection[i]
      BY <1>1
    <2>3. \A i \in SegIds \cap c : seg'[i].rank = seg[i].rank /\ seg'[i].in_merge
      BY <2>1, AfterSelectionIs, ElectedKeeps DEF SamePlace
    <2>4. \A i \in SegIds \ c : /\ seg'[i].rank = seg[i].rank
                                 /\ seg'[i].in_merge = seg[i].in_merge
      BY <2>2, AfterSelectionIs DEF SamePlace
    <2>5. QED
      BY <2>3, <2>4
  <1>4. nextId \notin merge_jobs
    BY DEF FilesInv, Fresh, TypeOK
  <1>5. job'[nextId].segs = c /\ job'[nextId].status = "running"
        /\ \A j \in merge_jobs : job'[j] = job[j]
    BY <1>1, <1>2, <1>4 DEF TypeOK, NoJob
  <1>6. \A j \in merge_jobs' : Busy(j)'
    BY <1>2 DEF Busy
  <1>7. \A j \in merge_jobs : Busy(j)
    BY <1>2 DEF Busy
  <1>8. c \subseteq Unmarked /\ Contiguous(c)
    BY CandidatesContiguous
  <1>9. Unmarked \subseteq segments /\ segments \subseteq SegIds
        /\ \A i \in Unmarked : ~seg[i].in_merge
    BY DEF Unmarked, TypeOK
  <1>10. ASSUME count'.failures = 0
         PROVE  (NoneFailed /\ ParentsMarked /\ Disjoint /\ Runs)'
    <2>1. NoneFailed /\ ParentsMarked /\ Disjoint /\ Runs
      BY <1>2, <1>10 DEF ApartInv
    <2>2. \A j \in merge_jobs : job[j].segs \subseteq segments /\ job[j].segs \cap c = {}
      BY <1>7, <1>8, <1>9, <2>1 DEF ParentsMarked
    <2>3. NoneFailed'
      BY <1>2, <1>5, <2>1 DEF NoneFailed
    <2>4. ParentsMarked'
      BY <1>2, <1>3, <1>5, <1>7, <1>8, <1>9, <2>1 DEF ParentsMarked
    <2>5. Disjoint'
      BY <1>2, <1>5, <1>7, <2>1, <2>2 DEF Disjoint
    <2>6. \A j \in merge_jobs' : Contiguous(job'[j].segs)
      BY <1>2, <1>5, <1>7, <1>8, <2>1 DEF Runs
    <2>7. \A j \in merge_jobs' : job'[j].segs \subseteq SegIds
      BY <1>2, <1>5, <1>8, <1>9, <2>2
    <2>8. Runs'
      BY <1>2, <1>3, <1>9, <2>6, <2>7 DEF Runs, Contiguous
    <2>9. QED
      BY <2>3, <2>4, <2>5, <2>8
  <1>11. QED
    BY <1>2, <1>10 DEF ApartInv, DownEmpty

\* A merge in progress finds the files of its parents, and its output is not
\* in the list yet.
LEMMA MergerKeepsApart ==
    ASSUME TypeOK, FilesInv, ApartInv, NEW j \in merge_jobs,
           MergeLoadFails(j) \/ MergeFinish(j) \/ MergeFails(j)
    PROVE  ApartInv'
  <1>1. j \in SegIds /\ UNCHANGED <<merge_jobs, segments, pc, cur>> /\ job[j].status # "ok"
    BY DEF TypeOK, MergeLoadFails, MergeFinish, MergeFails, workerVars, fileVars
  <1>2. DownEmpty'
    BY <1>1 DEF ApartInv, DownEmpty
  <1>3. Busy(j)
    BY <1>1 DEF Busy, FilesInv, InSwap
  <1>4. ASSUME count'.failures = 0
        PROVE  (NoneFailed /\ ParentsMarked /\ Disjoint /\ Runs)'
    <2>1. ~MergeFails(j) /\ count' = count
      BY <1>4 DEF MergeFails, MergeLoadFails, MergeFinish, TypeOK, CountType
    <2>2. NoneFailed /\ ParentsMarked /\ Disjoint /\ Runs
      BY <1>4, <2>1 DEF ApartInv
    <2>3. ~MergeLoadFails(j)
      BY <1>3, <2>2 DEF MergeLoadFails, ParentsMarked, FilesInv, FilesThere
    <2>4. MergeFinish(j)
      BY <2>1, <2>3
    <2>5. j \notin segments
      BY <1>3 DEF FilesInv, OutputsApart, Busy
    <2>6. \A i \in segments : seg'[i] = seg[i]
      BY <2>4, <2>5 DEF MergeFinish, TypeOK
    <2>7. \A i \in merge_jobs : /\ job'[i].segs = job[i].segs
                                /\ job'[i].status = "failed" => job[i].status = "failed"
      BY <1>1, <2>4 DEF MergeFinish, SetStatus, TypeOK, JobType
    <2>8. \A i \in merge_jobs : Busy(i)' <=> Busy(i)
      BY <1>1 DEF Busy, Swapping
    <2>9. NoneFailed' /\ ParentsMarked' /\ Disjoint'
      BY <1>1, <2>2, <2>6, <2>7, <2>8 DEF NoneFailed, ParentsMarked, Disjoint
    <2>10. Runs'
      BY <1>1, <2>2, <2>6, <2>7, <2>8 DEF Runs, Contiguous, ParentsMarked
    <2>11. QED
      BY <2>9, <2>10
  <1>5. QED
    BY <1>2, <1>4 DEF ApartInv

LEMMA NoJobsApart ==
    ASSUME merge_jobs' = {}
    PROVE  ApartInv'
  BY DEF ApartInv, DownEmpty, NoneFailed, ParentsMarked, Disjoint, Runs

LEMMA ApartStep ==
    ASSUME TypeOK, FilesInv, ApartInv, Policy = "tiered", [Next]_vars
    PROVE  ApartInv'
  <1>1. CASE UNCHANGED vars
    BY <1>1 DEF vars, workerVars, jobVars, fileVars, ApartInv, DownEmpty, NoneFailed,
                ParentsMarked, Disjoint, Runs, Contiguous, Busy, Swapping
  <1>2. CASE \/ \E k \in sc.keys : Add(k) \/ Delete(k) \/ Get(k)
             \/ StartFlush \/ StartCompile \/ StartScheduled \/ StartClose
             \/ PersistNext \/ PersistDone \/ NothingToCompile
             \/ StillRunning \/ FinalizeDone \/ NoMerge \/ WaitForMerges
             \/ \E j \in merge_jobs : MergeLoad(j)
             \/ RequestClose
    <2>1. Quiet
      BY <1>2, QuietSteps
    <2>2. QED
      BY <1>2, <2>1, QuietStepsKeepMarks, QuietKeepsApart
  <1>3. CASE FinalizeFailed
    <2>1. count.failures # 0
      BY <1>3 DEF FinalizeFailed, ApartInv, NoneFailed
    <2>2. UNCHANGED <<pc, count, merge_jobs>>
      BY <1>3 DEF FinalizeFailed, jobVars
    <2>3. QED
      BY <2>1, <2>2 DEF ApartInv, DownEmpty
  <1>4. CASE Shutdown \/ Crash
    BY <1>4, NoJobsApart DEF Shutdown, Crash, Down
  <1>5. CASE Open
    BY <1>5, NoJobsApart DEF Open, jobVars, ApartInv, DownEmpty
  <1>6. CASE Next
    BY <1>2, <1>3, <1>4, <1>5, <1>6, CompileKeepsApart, FinalizeSwapKeepsApart,
       MergeTocKeepsApart, RemoveOldKeepsApart, RunMergeKeepsApart, MergerKeepsApart
       DEF Next, Worker, Merger
  <1>7. QED
    BY <1>1, <1>6

(***************************************************************************)
(* The inductive invariant behind MergesApart, for the proofs about        *)
(* values: under the tiered policy, and while no merge has failed, no job  *)
(* is marked as failed, and the parents of the jobs are marked, disjoint   *)
(* and contiguous runs of the list; no job outlives the process.           *)
(***************************************************************************)
THEOREM ApartInvariant ==
    ASSUME Policy = "tiered"
    PROVE  Spec => []ApartInv
  <1>1. Init => ApartInv
    BY DEF Init, ApartInv, DownEmpty, NoneFailed, ParentsMarked, Disjoint, Runs
  <1>2. TypeOK /\ FilesInv /\ ApartInv /\ [Next]_vars => ApartInv'
    BY ApartStep
  <1>3. QED
    BY <1>1, <1>2, FilesInvariant, PTL DEF Spec

(***************************************************************************)
(* Under the tiered policy the parents of every merge in progress are in   *)
(* the list, marked, in no other merge and next to each other, as long as  *)
(* no merge has failed, with any number of merges at the same time and     *)
(* wherever the process dies (RunMerge, TieredMergePolicy, FinalizeMerge). *)
(***************************************************************************)
THEOREM MergesTheorem ==
    ASSUME Policy = "tiered"
    PROVE  Spec => []MergesApart
  <1>1. ApartInv => MergesApart
    BY DEF ApartInv, MergesApart, Active, Busy, Swapping, ParentsMarked, Disjoint, Runs, Contiguous
  <1>2. QED
    BY <1>1, ApartInvariant, PTL

-----------------------------------------------------------------------------
(* Flushed values survive (SetsSurvive), wherever the process dies.        *)

\* Every list a delete of the segment may be in
Deletions(t) == OnDisk(t) \cup t.deleted_keys \cup t.for_write \cup t.during_merge

\* The last call for the key was a Set, and the value is compiled.
Settled(k) == ref[k] # Absent /\ pending[k] = Absent

\* A flush has covered the last call.
Covered(k) == allowed[k] = {ref[k]}

Top(S, k, s) ==
    /\ s \in S /\ InDictionary(seg[s], k)
    /\ \A i \in S : InDictionary(seg[i], k) => seg[i].rank <= seg[s].rank

Found(S, k) ==
    \E s \in S : /\ Top(S, k, s)
                 /\ seg[s].dict[k] = ref[k]
                 /\ k \notin Deletions(seg[s])

-----------------------------------------------------------------------------

\* A new write has a number that no outcome has had.
Numbered ==
    \A k \in Keys :
        /\ ref[k] \in allowed[k] /\ \A v \in allowed[k] : v <= count.writes
        /\ pending[k] <= count.writes
        /\ \A i \in SegIds : seg[i].dict[k] <= count.writes /\ job[i].out[k] <= count.writes

\* What waits for Compile was set last and is not covered by a flush.
Waiting ==
    /\ ~has_compiler => \A k \in Keys : pending[k] = Absent
    /\ pc \in {"down", "compile_toc"} => ~has_compiler
    /\ \A k \in Keys : pending[k] # Absent => pending[k] = ref[k] /\ ~Covered(k)

\* Deletes received before a merge and during a merge are not mixed.
ListsApart ==
    \A i \in segments : IF seg[i].in_merge THEN seg[i].deletes_loaded
                        ELSE seg[i].during_merge = {}

InMemory == pc # "down" => \A k \in Keys : Settled(k) => Found(segments, k)

InToc == \A k \in Keys :
    Settled(k) /\ (pc \in {"down", "compile_toc"} => Covered(k)) => Found(toc, k)

\* What the merge of job j has computed
Output(j) == IF job[j].status = "ok" THEN seg[j].dict ELSE job[j].out

Computed(j) == job[j].status \in {"loaded", "ok"}

\* A merge adds no key.
NothingAdded ==
    \A j \in merge_jobs : Busy(j) /\ Computed(j) => \A k \in Keys :
        Output(j)[k] # Absent => \E p \in job[j].segs : InDictionary(seg[p], k)

\* A merge of the newest segment keeps the value.
MergesKeep ==
    \A j \in merge_jobs, k \in Keys : Busy(j) /\ Settled(k) =>
        \A s \in job[j].segs : Top(segments, k, s) =>
            /\ \A p \in job[j].segs : k \notin seg[p].during_merge
            /\ Computed(j) => Output(j)[k] = ref[k]

ValuesInv ==
    /\ Numbered /\ Waiting /\ ListsApart
    /\ count.failures = 0 => InMemory /\ InToc /\ NothingAdded /\ MergesKeep

-----------------------------------------------------------------------------
\* What the methods of Segment do to the lists of deleted keys

ListOK(t) == IF t.in_merge THEN t.deletes_loaded ELSE t.during_merge = {}

\* b is what a method makes of a: place, dictionary and mark stay, no list
\* names a key that none did before, but for those in D.
After(b, a, D) ==
    /\ SamePlace(b, a) /\ b.in_merge = a.in_merge
    /\ Deletions(b) \subseteq Deletions(a) \cup D
    /\ ListOK(a) => ListOK(b) /\ b.during_merge \subseteq a.during_merge \cup D

LEMMA SameAfter ==
    ASSUME NEW t \in SegmentType, NEW D
    PROVE  After(t, t, D)
  BY DEF After, SamePlace

LEMMA LoadAfter ==
    ASSUME NEW t \in SegmentType
    PROVE  After(LoadDeletedKeys(t), t, {})
  <1>1. CASE t.dk = NoFile /\ t.dkm = NoFile
    BY <1>1, SameAfter DEF LoadDeletedKeys
  <1>2. CASE ~(t.dk = NoFile /\ t.dkm = NoFile)
    <2> DEFINE r == LoadDeletedKeys(t)
    <2>1. r = [t EXCEPT !.deleted_keys = OnDisk(t), !.has_deleted_keys = TRUE]
      BY <1>2 DEF LoadDeletedKeys
    <2>2. /\ r.deleted_keys = OnDisk(t) /\ r.dk = t.dk /\ r.dkm = t.dkm
          /\ r.for_write = t.for_write /\ r.during_merge = t.during_merge
          /\ r.in_merge = t.in_merge /\ r.deletes_loaded = t.deletes_loaded
          /\ r.rank = t.rank /\ r.kv = t.kv /\ r.dict = t.dict
      BY <2>1 DEF SegmentType
    <2> HIDE DEF r
    <2>3. QED
      BY <2>2 DEF After, SamePlace, Deletions, OnDisk, ListOK, r
  <1>3. QED
    BY <1>1, <1>2

LEMMA LazyLoadAfter ==
    ASSUME NEW t \in SegmentType
    PROVE  After(LazyLoadDeletedKeys(t), t, {})
  <1>1. CASE t.deletes_loaded
    BY <1>1, SameAfter DEF LazyLoadDeletedKeys
  <1>2. CASE ~t.deletes_loaded
    <2> DEFINE r == LoadDeletedKeys(t)
               l == LazyLoadDeletedKeys(t)
               loaded == IF r.has_deleted_keys THEN r.deleted_keys ELSE {}
    <2>1. r \in SegmentType /\ After(r, t, {})
      BY LoadDeletedKeysType, LoadAfter
    <2>2. l = [r EXCEPT !.during_merge = IF t.in_merge THEN @ \cup loaded ELSE @,
                        !.for_write    = IF t.in_merge THEN @ ELSE @ \cup loaded,
                        !.deletes_loaded = TRUE]
      BY <1>2 DEF LazyLoadDeletedKeys
    <2> HIDE DEF r, l
    <2>3. /\ l.dk = r.dk /\ l.dkm = r.dkm /\ l.deleted_keys = r.deleted_keys
          /\ l.during_merge = IF t.in_merge THEN r.during_merge \cup loaded ELSE r.during_merge
          /\ l.for_write = IF t.in_merge THEN r.for_write ELSE r.for_write \cup loaded
          /\ l.in_merge = r.in_merge /\ l.deletes_loaded
          /\ l.rank = r.rank /\ l.kv = r.kv /\ l.dict = r.dict
      BY <2>1, <2>2 DEF SegmentType
    <2>4. loaded \subseteq r.deleted_keys
      OBVIOUS
    <2> HIDE DEF loaded
    <2>5. Deletions(l) \subseteq Deletions(r)
      BY <2>3, <2>4 DEF Deletions, OnDisk
    <2>6. SamePlace(l, t) /\ l.in_merge = t.in_merge
      BY <2>1, <2>3 DEF After, SamePlace
    <2>7. ListOK(t) => ListOK(l) /\ l.during_merge \subseteq t.during_merge
      BY <1>2, <2>1, <2>3, <2>6 DEF After, ListOK
    <2>8. QED
      BY <2>1, <2>5, <2>6, <2>7 DEF After, l
  <1>3. QED
    BY <1>1, <1>2 DEF SegmentType

LEMMA PersistAfter ==
    ASSUME NEW t \in SegmentType
    PROVE  After(Persist(t), t, {})
  <1> DEFINE r == Persist(t)
  <1>1. /\ r.dk \in {t.dk, t.for_write} /\ r.dkm \in {t.dkm, t.during_merge}
        /\ r.deleted_keys = t.deleted_keys
        /\ r.for_write = t.for_write /\ r.during_merge = t.during_merge
        /\ r.in_merge = t.in_merge /\ r.deletes_loaded = t.deletes_loaded
        /\ r.rank = t.rank /\ r.kv = t.kv /\ r.dict = t.dict
    BY DEF Persist, SegmentType
  <1> HIDE DEF r
  <1>2. ReadDeleted(r.dk) \subseteq ReadDeleted(t.dk) \cup t.for_write
        /\ ReadDeleted(r.dkm) \subseteq ReadDeleted(t.dkm) \cup t.during_merge
    BY <1>1 DEF ReadDeleted
  <1>3. Deletions(r) \subseteq Deletions(t)
    BY <1>1, <1>2 DEF Deletions, OnDisk
  <1>4. QED
    BY <1>1, <1>3 DEF After, SamePlace, ListOK, r

LEMMA PersistAndReloadAfter ==
    ASSUME NEW t \in SegmentType
    PROVE  After(PersistAndReload(t), t, {})
  <1>1. Persist(t) \in SegmentType /\ After(Persist(t), t, {})
    BY PersistType, PersistAfter
  <1>2. After(LoadDeletedKeys(Persist(t)), Persist(t), {})
    BY <1>1, LoadAfter
  <1>3. After(LoadDeletedKeys(Persist(t)), t, {})
    BY <1>1, <1>2 DEF After, SamePlace
  <1>4. QED
    BY <1>3, SameAfter DEF PersistAndReload

LEMMA DeleteKeyAfter ==
    ASSUME NEW t \in SegmentType, NEW k \in Keys
    PROVE  After(DeleteKey(t, k), t, {k})
  <1>1. CASE ~InDictionary(t, k)
    BY <1>1, SameAfter DEF DeleteKey
  <1>2. CASE InDictionary(t, k)
    <2> DEFINE r == LazyLoadDeletedKeys(t)
               l == DeleteKey(t, k)
    <2>1. r \in SegmentType /\ After(r, t, {})
      BY LazyLoadType, LazyLoadAfter
    <2>2. l = [r EXCEPT !.during_merge = IF r.in_merge THEN @ \cup {k} ELSE @,
                        !.for_write    = IF r.in_merge THEN @ ELSE @ \cup {k},
                        !.new_delete   = TRUE]
      BY <1>2 DEF DeleteKey
    <2> HIDE DEF r, l
    <2>3. /\ l.dk = r.dk /\ l.dkm = r.dkm /\ l.deleted_keys = r.deleted_keys
          /\ l.during_merge = IF r.in_merge THEN r.during_merge \cup {k} ELSE r.during_merge
          /\ l.for_write = IF r.in_merge THEN r.for_write ELSE r.for_write \cup {k}
          /\ l.in_merge = r.in_merge /\ l.deletes_loaded = r.deletes_loaded
          /\ l.rank = r.rank /\ l.kv = r.kv /\ l.dict = r.dict
      BY <2>1, <2>2 DEF SegmentType
    <2>4. Deletions(l) \subseteq Deletions(r) \cup {k}
      BY <2>3 DEF Deletions, OnDisk
    <2>5. SamePlace(l, t) /\ l.in_merge = t.in_merge
      BY <2>1, <2>3 DEF After, SamePlace
    <2>6. ListOK(t) => ListOK(l) /\ l.during_merge \subseteq t.during_merge \cup {k}
      BY <2>1, <2>3 DEF After, ListOK
    <2>7. QED
      BY <2>1, <2>4, <2>5, <2>6 DEF After, l
  <1>3. QED
    BY <1>1, <1>2

\* A segment is elected with its list loaded and nothing deleted in a merge.
LEMMA ElectedAfter ==
    ASSUME NEW t \in SegmentType
    PROVE  LET e == ElectedForMerge(LazyLoadDeletedKeys(t)) IN
             /\ SamePlace(e, t) /\ e.in_merge /\ e.deletes_loaded
             /\ Deletions(e) \subseteq Deletions(t)
             /\ ~t.in_merge /\ ListOK(t) => e.during_merge = {}
  <1> DEFINE l == LazyLoadDeletedKeys(t)
             p == Persist(l)
             e == ElectedForMerge(l)
  <1>1. l \in SegmentType /\ After(l, t, {})
    BY LazyLoadType, LazyLoadAfter
  <1>2. l.deletes_loaded
    BY LoadDeletedKeysType DEF LazyLoadDeletedKeys, SegmentType
  <1> HIDE DEF l
  <1>3. p \in SegmentType /\ After(p, l, {}) /\ p.deletes_loaded
    BY <1>1, <1>2, PersistType, PersistAfter DEF Persist, SegmentType
  <1>4. e = [p EXCEPT !.in_merge = TRUE]
    BY DEF ElectedForMerge
  <1> HIDE DEF p, e
  <1>5. /\ e.dk = p.dk /\ e.dkm = p.dkm /\ e.deleted_keys = p.deleted_keys
        /\ e.during_merge = p.during_merge /\ e.for_write = p.for_write
        /\ e.in_merge /\ e.deletes_loaded = p.deletes_loaded
        /\ e.rank = p.rank /\ e.kv = p.kv /\ e.dict = p.dict
    BY <1>3, <1>4 DEF SegmentType
  <1>6. Deletions(e) = Deletions(p)
    BY <1>5 DEF Deletions, OnDisk
  <1>7. /\ SamePlace(e, t) /\ e.in_merge /\ e.deletes_loaded
        /\ Deletions(e) \subseteq Deletions(t)
    BY <1>1, <1>3, <1>5, <1>6 DEF After, SamePlace
  <1>8. ~t.in_merge /\ ListOK(t) => e.during_merge = {}
    BY <1>1, <1>3, <1>5 DEF After, ListOK
  <1>9. QED
    BY <1>7, <1>8 DEF e, l

LEMMA MergedDeletions ==
    ASSUME NEW d \in [Keys -> Nat], NEW r \in Nat, NEW P \in SUBSET SegmentType
    PROVE  LET m == MergedSegment(d, r, P) IN
             /\ ListOK(m)
             /\ Deletions(m) \subseteq UNION {p.during_merge : p \in P}
  <1> DEFINE inherited == UNION {p.during_merge : p \in P}
             n == [NewSegment(d, r) EXCEPT !.for_write  = inherited,
                                           !.new_delete = (inherited # {})]
  <1>1. inherited \in SUBSET Keys
    BY DEF SegmentType
  <1>2. NewSegment(d, r) \in SegmentType
    BY NewSegmentType
  <1> HIDE DEF inherited
  <1>3. n \in SegmentType
    BY <1>1, <1>2 DEF SegmentType
  <1>4. /\ n.for_write = inherited /\ n.during_merge = {} /\ n.deleted_keys = {}
        /\ n.dk = NoFile /\ n.dkm = NoFile /\ ~n.in_merge
    BY NoSegmentType DEF NewSegment, NoSegment
  <1> HIDE DEF n
  <1>5. ListOK(n) /\ Deletions(n) \subseteq inherited
    BY <1>4 DEF ListOK, Deletions, OnDisk, ReadDeleted
  <1>6. After(Persist(n), n, {})
    BY <1>3, PersistAfter
  <1>7. MergedSegment(d, r, P) = Persist(n)
    BY DEF MergedSegment, n, inherited
  <1>8. QED
    BY <1>5, <1>6, <1>7 DEF After, inherited

\* A restart leaves what is on disk.
LEMMA RemainsDeletions ==
    ASSUME NEW t \in SegmentType
    PROVE  Deletions(Remains(t)) = OnDisk(t) /\ ListOK(Remains(t))
  <1> DEFINE m == Remains(t)
  <1>1. /\ m.for_write = {} /\ m.during_merge = {} /\ m.deleted_keys = {}
        /\ m.dk = t.dk /\ m.dkm = t.dkm /\ ~m.in_merge
    BY DEF Remains, NoSegment
  <1> HIDE DEF m
  <1>2. QED
    BY <1>1 DEF ListOK, Deletions, OnDisk, m

LEMMA OpenDeletions ==
    ASSUME NEW t \in SegmentType
    PROVE  Deletions(OpenSegment(t)) \subseteq OnDisk(t) /\ ListOK(OpenSegment(t))
  <1>1. OpenSegment(t) = LoadDeletedKeys(Remains(t))
    BY DEF OpenSegment, Remains
  <1>2. After(LoadDeletedKeys(Remains(t)), Remains(t), {})
    BY RemainsIs, LoadAfter
  <1>3. QED
    BY <1>1, <1>2, RemainsDeletions DEF After

-----------------------------------------------------------------------------
\* Found is what the lookups rely on.

LEMMA TopIsNewest ==
    ASSUME TypeOK, RanksBelow, NEW S \in SUBSET SegIds, Ordered(S), NEW k \in Keys,
           NEW s \in S, Top(S, k, s)
    PROVE  Containing(S, k) # {} /\ NewestOf(S, k) = s
  <1>1. s \in Containing(S, k) /\ \A i \in Containing(S, k) : seg[i].rank <= seg[s].rank
    BY DEF Top, Containing
  <1> DEFINE n == NewestOf(S, k)
  <1>2. n \in Containing(S, k) /\ \A i \in Containing(S, k) : seg[i].rank <= seg[n].rank
    BY <1>1, NewestOfIs DEF TypeOK
  <1>3. n \in S /\ n \in SegIds /\ s \in SegIds
    BY <1>2 DEF Containing
  <1> HIDE DEF n
  <1>4. seg[n].rank <= seg[s].rank /\ seg[s].rank <= seg[n].rank
    BY <1>1, <1>2
  <1>5. seg[n].rank \in Nat /\ seg[s].rank \in Nat
    BY <1>3 DEF TypeOK, SegmentType
  <1>6. seg[n].rank = seg[s].rank
    BY <1>4, <1>5
  <1>7. n = s
    BY <1>3, <1>6 DEF Ordered
  <1>8. QED
    BY <1>1, <1>7 DEF n

LEMMA FoundIsVisible ==
    ASSUME TypeOK, FilesInv, NEW k \in Keys, Found(segments, k)
    PROVE  Visible(k) = ref[k]
  <1>1. PICK s \in segments : /\ Top(segments, k, s)
                              /\ seg[s].dict[k] = ref[k] /\ k \notin Deletions(seg[s])
    BY DEF Found
  <1>2. Containing(segments, k) # {} /\ NewestOf(segments, k) = s
    BY <1>1, TopIsNewest DEF TypeOK, FilesInv, Ordered
  <1>3. seg[s] \in SegmentType
    BY DEF TypeOK
  <1>4. ~IsDeleted(seg[s], k)
    <2>1. Deletions(LazyLoadDeletedKeys(seg[s])) \subseteq Deletions(seg[s])
      BY <1>3, LazyLoadAfter DEF After
    <2>2. k \notin LazyLoadDeletedKeys(seg[s]).deleted_keys
      BY <1>1, <2>1 DEF Deletions
    <2>3. QED
      BY <2>2 DEF IsDeleted
  <1>5. QED
    BY <1>1, <1>2, <1>4 DEF Visible

LEMMA FoundIsDurable ==
    ASSUME TypeOK, FilesInv, NEW k \in Keys, Found(toc, k)
    PROVE  Durable(k) = ref[k]
  <1>1. PICK s \in toc : /\ Top(toc, k, s)
                         /\ seg[s].dict[k] = ref[k] /\ k \notin Deletions(seg[s])
    BY DEF Found
  <1>2. Containing(toc, k) # {} /\ NewestOf(toc, k) = s
    BY <1>1, TopIsNewest DEF TypeOK, FilesInv
  <1>3. QED
    BY <1>1, <1>2 DEF Durable, Deletions

\* ... and the other way round, for what LoadIndex finds
LEMMA DurableIsFound ==
    ASSUME TypeOK, FilesInv, NEW k \in Keys, Durable(k) # Absent
    PROVE  \E s \in toc : Top(toc, k, s) /\ seg[s].dict[k] = Durable(k)
                                         /\ k \notin OnDisk(seg[s])
  <1> DEFINE s == NewestOf(toc, k)
  <1>1. Containing(toc, k) # {} /\ k \notin OnDisk(seg[s]) /\ Durable(k) = seg[s].dict[k]
    BY DEF Durable
  <1>2. s \in Containing(toc, k) /\ \A i \in Containing(toc, k) : seg[i].rank <= seg[s].rank
    BY <1>1, NewestOfIs DEF TypeOK, FilesInv
  <1> HIDE DEF s
  <1>3. Top(toc, k, s)
    BY <1>2 DEF Top, Containing
  <1>4. QED
    BY <1>1, <1>3 DEF Top

-----------------------------------------------------------------------------
\* What a merge computes

\* The merge adds no key; the value of the newest parent survives if the list
\* of this parent does not name the key.
LEMMA MergedValue ==
    ASSUME NEW I, NEW dict, NEW dk, NEW rank, NEW k \in Keys
    PROVE  LET out == MergedDictionary(I, dict, dk, rank, Keys)
               m   == Newest(I, dict, rank, k)
           IN  /\ out[k] # 0 => HasKey(I, dict, k) /\ out[k] = dict[m][k]
               /\ HasKey(I, dict, k) /\ k \notin dk[m] => out[k] = dict[m][k]
  <1> DEFINE drop == Dropped(I, dict, dk, rank, Keys)
             m    == Newest(I, dict, rank, k)
             out  == MergedDictionary(I, dict, dk, rank, Keys)
  <1>1. out[k] = IF ~HasKey(I, dict, k) \/ k \in drop THEN 0 ELSE dict[m][k]
    BY DEF MergedDictionary
  <1>2. k \in drop => k \in dk[m]
    BY DEF Dropped, Droppable, Deleted
  <1> HIDE DEF drop, m, out
  <1>3. QED
    BY <1>1, <1>2 DEF out, m

-----------------------------------------------------------------------------
\* Numbered is inductive.

LEMMA MergeLoadOutput ==
    ASSUME TypeOK, FilesInv, NEW j \in merge_jobs, MergeLoad(j), NEW k \in Keys
    PROVE  LET P == job[j].segs
               m == Newest(P, [i \in SegIds |-> seg[i].dict], [i \in SegIds |-> seg[i].rank], k)
           IN  /\ job'[j].status = "loaded"
               /\ \A i \in SegIds : i # j => job'[i] = job[i]
               /\ job'[j].out[k] # 0 => m \in P /\ job'[j].out[k] = seg[m].dict[k]
               /\ (\E p \in P : InDictionary(seg[p], k)) =>
                    /\ m \in P /\ InDictionary(seg[m], k)
                    /\ \A p \in P : InDictionary(seg[p], k) => seg[p].rank <= seg[m].rank
                    /\ k \notin ReadDeleted(seg[m].dk) => job'[j].out[k] = seg[m].dict[k]
  <1> DEFINE P == job[j].segs
             dict == [i \in SegIds |-> seg[i].dict]
             rank == [i \in SegIds |-> seg[i].rank]
             dk == [i \in SegIds |-> ReadDeleted(seg[i].dk)]
             out == MergedDictionary(P, dict, dk, rank, Keys)
             m == Newest(P, dict, rank, k)
  <1>1. j \in SegIds /\ P \subseteq SegIds /\ nextId \in Nat
    BY DEF TypeOK, JobType
  <1>2. dict \in [SegIds -> [Keys -> Nat]] /\ rank \in [SegIds -> Nat]
    BY DEF TypeOK, SegmentType
  <1>3. \A i \in P : rank[i] < nextId
    BY <1>1 DEF FilesInv, RanksBelow
  <1>4. job' = [job EXCEPT ![j].status = "loaded", ![j].out = out]
    BY DEF MergeLoad
  <1>5. \A i \in SegIds : /\ dict[i] = seg[i].dict /\ rank[i] = seg[i].rank
                          /\ dk[i] = ReadDeleted(seg[i].dk)
    OBVIOUS
  <1> HIDE DEF dict, rank, dk, P
  <1>6. /\ out[k] # 0 => HasKey(P, dict, k) /\ out[k] = dict[m][k]
        /\ HasKey(P, dict, k) /\ k \notin dk[m] => out[k] = dict[m][k]
    BY MergedValue
  <1>7. HasKey(P, dict, k) => /\ m \in P /\ dict[m][k] # 0
                              /\ \A i \in P : dict[i][k] # 0 => rank[i] <= rank[m]
    BY <1>1, <1>2, <1>3, NewestInIs
  <1>8. HasKey(P, dict, k) <=> \E p \in P : InDictionary(seg[p], k)
    BY <1>1, <1>5 DEF HasKey, InDictionary, Absent
  <1> HIDE DEF out, m
  <1>9. job'[j].status = "loaded" /\ job'[j].out = out
        /\ \A i \in SegIds : i # j => job'[i] = job[i]
    <2>1. job \in [SegIds -> JobType] /\ job[j] \in JobType
      BY <1>1 DEF TypeOK
    <2>2. job'[j] = [job[j] EXCEPT !.status = "loaded", !.out = out]
      BY <1>1, <1>4, <2>1 DEF JobType
    <2>3. \A i \in SegIds : i # j => job'[i] = job[i]
      BY <1>1, <1>4, <2>1
    <2>4. QED
      BY <2>1, <2>2, <2>3 DEF JobType
  <1>10. out[k] # 0 => m \in P /\ out[k] = seg[m].dict[k]
    BY <1>1, <1>5, <1>6, <1>7
  <1>11. HasKey(P, dict, k) =>
            /\ m \in P /\ InDictionary(seg[m], k)
            /\ \A p \in P : InDictionary(seg[p], k) => seg[p].rank <= seg[m].rank
            /\ k \notin ReadDeleted(seg[m].dk) => out[k] = seg[m].dict[k]
    BY <1>1, <1>5, <1>6, <1>7 DEF InDictionary, Absent
  <1>12. QED
    BY <1>8, <1>9, <1>10, <1>11 DEF m, P, dict, rank

\* Dictionaries and outputs hold numbers of writes.
LEMMA DictionariesNumbered ==
    ASSUME TypeOK, FilesInv, Numbered, [Next]_vars, NEW i \in SegIds, NEW k \in Keys
    PROVE  seg'[i].dict[k] <= count.writes /\ job'[i].out[k] <= count.writes
  <1> DEFINE Goal == seg'[i].dict[k] <= count.writes /\ job'[i].out[k] <= count.writes
  <1>1. /\ seg[i].dict[k] <= count.writes /\ job[i].out[k] <= count.writes
        /\ pending[k] <= count.writes /\ 0 <= count.writes /\ NoJob.out[k] = 0
        /\ NoSegment.dict[k] = 0
    BY DEF Numbered, TypeOK, CountType, NoJob, Absent, NoSegment
  <1>2. CASE UNCHANGED vars
    BY <1>1, <1>2 DEF vars, fileVars, jobVars
  <1>3. CASE \/ \E kk \in sc.keys : Add(kk) \/ Delete(kk) \/ Get(kk)
             \/ StartFlush \/ StartCompile \/ StartScheduled \/ StartClose
             \/ PersistNext \/ PersistDone \/ NothingToCompile
             \/ StillRunning \/ FinalizeFailed \/ FinalizeDone \/ NoMerge \/ WaitForMerges
             \/ RequestClose
    <2>1. Quiet
      BY <1>3, QuietSteps
    <2>2. job' = job
      BY <1>3 DEF Add, Delete, Get, StartFlush, StartCompile, StartScheduled, StartClose,
                  PersistNext, PersistDone, NothingToCompile, StillRunning, FinalizeFailed,
                  FinalizeDone, NoMerge, WaitForMerges, RequestClose, Begin, jobVars
    <2>3. QED
      BY <1>1, <2>1, <2>2 DEF Quiet, SamePlace
  <1>4. CASE Compile
    <2>1. nextId \in SegIds => seg'[nextId].dict = pending
      BY <1>4, NoSegmentType DEF Compile, NewSegment, TypeOK, SegmentType
    <2>2. i # nextId => seg'[i] = seg[i]
      BY <1>4 DEF Compile, TypeOK
    <2>3. QED
      BY <1>1, <1>4, <2>1, <2>2 DEF Compile, jobVars
  <1>5. CASE CompileToc \/ MergeToc
    BY <1>1, <1>5 DEF CompileToc, MergeToc, jobVars
  <1>6. CASE FinalizeSwap
    <2>1. PICK j \in merge_jobs :
             /\ seg' = IF job[j].segs \cap segments = {} THEN seg
                       ELSE [seg EXCEPT ![j] = MergedSegment(@.dict, MergedRank(j), Inherit(j))]
             /\ job' = job
      BY <1>6 DEF FinalizeSwap, jobVars
    <2>2. j \in SegIds /\ job[j].segs \subseteq SegIds
      BY DEF TypeOK, JobType
    <2>3. ASSUME job[j].segs \cap segments # {}
          PROVE  MergedSegment(seg[j].dict, MergedRank(j), Inherit(j)).dict = seg[j].dict
      <3>1. MergedRank(j) \in Nat
        BY <2>2, <2>3, MergedRankIs DEF TypeOK, SegmentType
      <3>2. seg[j].dict \in [Keys -> Nat] /\ Inherit(j) \in SUBSET SegmentType
        BY <2>2 DEF TypeOK, SegmentType, Inherit
      <3>3. QED
        BY <3>1, <3>2, MergedIs
    <2>4. seg'[i].dict = seg[i].dict
      BY <2>1, <2>2, <2>3 DEF TypeOK
    <2>5. QED
      BY <1>1, <2>1, <2>4
  <1>7. CASE RemoveOld
    <2>1. \A t \in SegmentType : RemoveFiles(LazyLoadDeletedKeys(t)).dict = t.dict
      BY LazyLoadType, LazyLoadKeeps DEF RemoveFiles, SegmentType, SamePlace
    <2>2. seg'[i].dict = seg[i].dict
      BY <1>7, <2>1 DEF RemoveOld, TypeOK
    <2>3. job'[i] = job[i] \/ job'[i] = NoJob
      BY <1>7 DEF RemoveOld, TypeOK
    <2>4. QED
      BY <1>1, <2>2, <2>3
  <1>8. CASE RunMerge
    <2>1. PICK c \in Candidates :
          /\ seg' = [n \in SegIds |-> IF n \in c THEN ElectedForMerge(AfterSelection[n])
                                      ELSE AfterSelection[n]]
          /\ job' = [job EXCEPT ![nextId] = [NoJob EXCEPT !.segs = c,
                                                          !.external = External(c),
                                                          !.status = "running"]]
      BY <1>8 DEF RunMerge
    <2>2. seg'[i].dict = seg[i].dict
      BY <2>1, AfterSelectionIs, ElectedKeeps DEF SamePlace
    <2>3. job'[i].out = job[i].out \/ job'[i].out = NoJob.out
      BY <2>1 DEF TypeOK, NoJob
    <2>4. QED
      BY <1>1, <2>2, <2>3
  <1>9. ASSUME NEW j \in merge_jobs, MergeLoad(j) PROVE Goal
    <2>1. seg' = seg
      BY <1>9 DEF MergeLoad, fileVars
    <2>2. \A s \in SegIds : seg[s].dict[k] <= count.writes
      BY DEF Numbered
    <2>3. job[j].segs \subseteq SegIds
      BY DEF TypeOK, JobType
    <2>4. i = j => job'[i].out[k] = 0 \/ \E s \in SegIds : job'[i].out[k] = seg[s].dict[k]
      BY <1>9, <2>3, MergeLoadOutput
    <2>5. i # j => job'[i] = job[i]
      BY <1>9, MergeLoadOutput
    <2>6. QED
      BY <1>1, <2>1, <2>2, <2>4, <2>5
  <1>10. ASSUME NEW j \in merge_jobs, MergeLoadFails(j) \/ MergeFails(j) PROVE Goal
    <2>1. j \in SegIds /\ seg' = seg /\ job' = SetStatus(j, "failed")
      BY <1>10 DEF MergeLoadFails, MergeFails, fileVars, TypeOK
    <2>2. job'[i].out = job[i].out
      BY <2>1 DEF SetStatus, TypeOK, JobType
    <2>3. QED
      BY <1>1, <2>1, <2>2
  <1>11. ASSUME NEW j \in merge_jobs, MergeFinish(j) PROVE Goal
    <2>1. j \in SegIds /\ job' = SetStatus(j, "ok")
      BY <1>11 DEF MergeFinish, TypeOK
    <2>2. job'[i].out = job[i].out
      BY <2>1 DEF SetStatus, TypeOK, JobType
    <2>3. i # j => seg'[i] = seg[i]
      BY <1>11 DEF MergeFinish, TypeOK
    <2>4. i = j => seg'[i].dict = job[i].out
      BY <1>11 DEF MergeFinish, TypeOK, NoSegment
    <2>5. QED
      BY <1>1, <2>2, <2>3, <2>4
  <1>12. CASE Shutdown \/ Crash
    <2>1. Down
      BY <1>12 DEF Shutdown, Crash
    <2>2. seg'[i].dict = seg[i].dict
      BY <2>1, RemainsIs DEF Down, TypeOK, Remains, SamePlace
    <2>3. QED
      BY <1>1, <2>1, <2>2 DEF Down
  <1>13. CASE Open
    <2>1. seg'[i].dict = seg[i].dict
      BY <1>13, OpenKeeps DEF Open, TypeOK, SamePlace
    <2>2. QED
      BY <1>1, <1>13, <2>1 DEF Open, jobVars
  <1>14. QED
    BY <1>2, <1>3, <1>4, <1>5, <1>6, <1>7, <1>8, <1>9, <1>10, <1>11, <1>12, <1>13
       DEF Next, Worker, Merger

\* The steps that leave the calls and their outcomes alone
LEMMA CallsAlone ==
    ASSUME TypeOK,
           \/ \E k \in sc.keys : Get(k)
           \/ StartFlush \/ StartCompile \/ StartScheduled \/ StartClose
           \/ PersistNext \/ PersistDone \/ StillRunning \/ FinalizeFailed \/ FinalizeSwap
           \/ MergeToc \/ RemoveOld \/ FinalizeDone \/ WaitForMerges
           \/ \E j \in merge_jobs : Merger(j)
           \/ RequestClose
           \/ UNCHANGED vars
    PROVE  /\ UNCHANGED <<has_compiler, pending, ref, allowed>>
           /\ count'.writes = count.writes
           /\ pc' = pc \/ {pc, pc'} \cap {"down", "compile_toc"} = {}
  <1>1. UNCHANGED <<has_compiler, pending, ref, allowed>>
    BY DEF Get, StartFlush, StartCompile, StartScheduled, StartClose, PersistNext, PersistDone,
           StillRunning, FinalizeFailed, FinalizeSwap, MergeToc, RemoveOld, FinalizeDone,
           WaitForMerges, Merger, MergeLoad, MergeLoadFails, MergeFinish, MergeFails,
           RequestClose, Begin, vars, compilerVars, historyVars
  <1>2. count'.writes = count.writes
    BY DEF Get, StartFlush, StartCompile, StartScheduled, StartClose, PersistNext, PersistDone,
           StillRunning, FinalizeFailed, FinalizeSwap, MergeToc, RemoveOld, FinalizeDone,
           WaitForMerges, Merger, MergeLoad, MergeLoadFails, MergeFinish, MergeFails,
           RequestClose, Begin, vars, TypeOK, CountType
  <1>3. pc' = pc \/ {pc, pc'} \cap {"down", "compile_toc"} = {}
    BY DEF Get, StartFlush, StartCompile, StartScheduled, StartClose, PersistNext, PersistDone,
           StillRunning, FinalizeFailed, FinalizeSwap, MergeToc, RemoveOld, FinalizeDone,
           WaitForMerges, Merger, MergeLoad, MergeLoadFails, MergeFinish, MergeFails,
           RequestClose, Begin, Finalizing, vars, workerVars
  <1>4. QED
    BY <1>1, <1>2, <1>3

\* The ends of the tasks
LEMMA EndsAlone ==
    ASSUME TypeOK, Waiting, NothingToCompile \/ CompileToc \/ NoMerge \/ RunMerge
    PROVE  /\ UNCHANGED <<has_compiler, pending, ref, count>>
           /\ pc \notin {"down"} /\ pc' \notin {"down", "compile_toc"}
           /\ \/ UNCHANGED allowed
              \/ ~has_compiler /\ allowed' = [k \in Keys |-> {ref[k]}]
  <1>1. UNCHANGED <<has_compiler, pending, count>>
    BY DEF NothingToCompile, CompileToc, NoMerge, RunMerge, compilerVars
  <1>2. pc # "down" /\ (EndTask \/ Refresh) /\ (EndTask => pc = "run_merge" \/ ~has_compiler)
    BY DEF NothingToCompile, CompileToc, NoMerge, RunMerge, Waiting
  <1>3. CASE EndTask /\ ~has_compiler
    BY <1>1, <1>2, <1>3, EndTaskType DEF EndTask
  <1>4. CASE Refresh
    <2>1. CASE has_compiler \/ any_delete
      BY <1>1, <1>2, <1>4, <2>1 DEF Refresh, historyVars
    <2>2. CASE ~(has_compiler \/ any_delete)
      <3>1. EndTask
        BY <1>4, <2>2 DEF Refresh
      <3>2. QED
        BY <1>1, <1>2, <2>2, <3>1, EndTaskType DEF EndTask
    <2>3. QED
      BY <2>1, <2>2
  <1>5. QED
    BY <1>2, <1>3, <1>4 DEF NothingToCompile, CompileToc, NoMerge, RunMerge, Waiting

LEMMA NumberedStep ==
    ASSUME TypeOK, FilesInv, Numbered, Waiting, [Next]_vars
    PROVE  Numbered'
  <1> DEFINE Calls == \A k \in Keys : /\ ref'[k] \in allowed'[k]
                                      /\ \A v \in allowed'[k] : v <= count'.writes
                                      /\ pending'[k] <= count'.writes
             Goal == Calls /\ (count'.writes = count.writes \/ count'.writes = count.writes + 1)
  <1>1. count.writes \in Nat /\ \A k \in Keys : pending[k] \in Nat
    BY DEF TypeOK, CountType
  <1>2. \A i \in SegIds, k \in Keys :
           /\ seg'[i].dict[k] <= count.writes /\ job'[i].out[k] <= count.writes
    BY DictionariesNumbered
  <1>3. \A k \in Keys : /\ ref[k] \in allowed[k] /\ \A v \in allowed[k] : v <= count.writes
                        /\ pending[k] <= count.writes
    BY DEF Numbered
  <1>4. ASSUME NEW k \in sc.keys, Add(k) PROVE Goal
    <2>1. k \in Keys /\ count'.writes = count.writes + 1
      BY <1>4, ScenariosAssumption DEF Add, TypeOK, ScenarioType, CountType
    <2>2. /\ pending' = [pending EXCEPT ![k] = count.writes + 1]
          /\ ref' = [ref EXCEPT ![k] = count.writes + 1]
          /\ allowed' = [allowed EXCEPT ![k] = @ \cup {count.writes + 1}]
      BY <1>4 DEF Add, Outcome
    <2>3. \A q \in Keys : ref'[q] \in allowed'[q]
      BY <1>3, <2>2 DEF TypeOK
    <2>4. \A q \in Keys : \A v \in allowed'[q] : v \in allowed[q] \/ v = count.writes + 1
      BY <2>2 DEF TypeOK
    <2>5. \A q \in Keys : pending'[q] = pending[q] \/ pending'[q] = count.writes + 1
      BY <2>2 DEF TypeOK
    <2>6. \A q \in Keys : allowed[q] \subseteq Nat
      BY DEF TypeOK
    <2>7. \A q \in Keys : \A v \in allowed'[q] : v <= count'.writes
      BY <1>1, <1>3, <2>1, <2>4, <2>6
    <2>8. \A q \in Keys : pending'[q] <= count'.writes
      BY <1>1, <1>3, <2>1, <2>5
    <2>9. QED
      BY <2>1, <2>3, <2>7, <2>8
  <1>5. ASSUME NEW k \in sc.keys, Delete(k) PROVE Goal
    <2>1. k \in Keys /\ count'.writes = count.writes
      BY <1>5, ScenariosAssumption DEF Delete, TypeOK, ScenarioType, CountType
    <2>2. /\ pending' = [pending EXCEPT ![k] = Absent]
          /\ ref' = [ref EXCEPT ![k] = Absent]
          /\ allowed' = [allowed EXCEPT ![k] = @ \cup {Absent}]
      BY <1>5 DEF Delete, Outcome
    <2>3. QED
      BY <1>1, <1>3, <2>1, <2>2 DEF TypeOK, Absent
  <1>6. ASSUME \/ \E k \in sc.keys : Get(k)
               \/ StartFlush \/ StartCompile \/ StartScheduled \/ StartClose
               \/ PersistNext \/ PersistDone \/ StillRunning \/ FinalizeFailed \/ FinalizeSwap
               \/ MergeToc \/ RemoveOld \/ FinalizeDone \/ WaitForMerges
               \/ \E j \in merge_jobs : Merger(j)
               \/ RequestClose
               \/ UNCHANGED vars
        PROVE  Goal
    BY <1>3, <1>6, CallsAlone
  <1>7. ASSUME NothingToCompile \/ CompileToc \/ NoMerge \/ RunMerge PROVE Goal
    <2>1. UNCHANGED <<pending, ref, count>>
          /\ (allowed' = allowed \/ allowed' = [k \in Keys |-> {ref[k]}])
      BY <1>7, EndsAlone
    <2>2. QED
      BY <1>3, <2>1
  <1>8. ASSUME Compile PROVE Goal
    BY <1>1, <1>3, <1>8 DEF Compile, Nothing, Absent, historyVars
  <1>9. ASSUME Shutdown \/ Crash PROVE Goal
    <2>1. count'.writes = count.writes
      BY <1>9 DEF Shutdown, Crash, TypeOK, CountType
    <2>2. pending' = Nothing /\ UNCHANGED <<ref, allowed>>
      BY <1>9 DEF Shutdown, Crash, Down, historyVars
    <2>3. \A k \in Keys : pending'[k] <= count.writes
      BY <1>1, <2>2 DEF Nothing, Absent
    <2>4. QED
      BY <1>3, <2>1, <2>2, <2>3
  <1>10. ASSUME Open PROVE Goal
    <2>1. UNCHANGED <<count, pending>> /\ ref' = [k \in Keys |-> Durable(k)]
          /\ allowed' = [k \in Keys |-> {Durable(k)}]
      BY <1>10 DEF Open, compilerVars
    <2>2. ASSUME NEW k \in Keys PROVE Durable(k) <= count.writes
      <3>1. CASE Durable(k) = Absent
        BY <1>1, <3>1 DEF Absent
      <3>2. CASE Durable(k) # Absent
        BY <3>2, DurableIsFound DEF Numbered, TypeOK
      <3>3. QED
        BY <3>1, <3>2
    <2>3. QED
      BY <1>3, <2>1, <2>2
  <1> HIDE DEF Goal
  <1>11. Goal
    BY <1>4, <1>5, <1>6, <1>7, <1>8, <1>9, <1>10 DEF Next, Worker
  <1>12. ASSUME NEW i \in SegIds, NEW k \in Keys
         PROVE  seg'[i].dict[k] <= count'.writes /\ job'[i].out[k] <= count'.writes
    <2>1. TypeOK'
      BY FilesStep, TypeStep
    <2>2. seg'[i].dict[k] \in Nat /\ job'[i].out[k] \in Nat
      BY <2>1 DEF TypeOK, SegmentType, JobType
    <2>3. seg'[i].dict[k] <= count.writes /\ job'[i].out[k] <= count.writes
      BY <1>2
    <2>4. QED
      BY <1>1, <1>11, <2>2, <2>3 DEF Goal
  <1>13. QED
    BY <1>11, <1>12 DEF Numbered, Goal

-----------------------------------------------------------------------------
\* Waiting and ListsApart are inductive.

LEMMA WaitingStep ==
    ASSUME TypeOK, Numbered, Waiting, [Next]_vars
    PROVE  Waiting'
  <1>1. ASSUME NEW k \in sc.keys, Add(k) PROVE Waiting'
    <2>1. k \in Keys /\ count.writes \in Nat
      BY ScenariosAssumption DEF TypeOK, ScenarioType, CountType
    <2>2. /\ pending' = [pending EXCEPT ![k] = count.writes + 1]
          /\ ref' = [ref EXCEPT ![k] = count.writes + 1]
          /\ allowed' = [allowed EXCEPT ![k] = @ \cup {count.writes + 1}]
          /\ has_compiler' = TRUE /\ pc' = "idle"
      BY <1>1 DEF Add, Outcome, workerVars
    <2>3. ref[k] \in allowed[k] /\ ref[k] \in Nat /\ ref[k] <= count.writes
      BY <2>1 DEF Numbered, TypeOK
    <2>4. ref[k] \in allowed'[k] /\ ref[k] # ref'[k]
      BY <2>1, <2>2, <2>3 DEF TypeOK
    <2>5. pending'[k] = ref'[k] /\ ~Covered(k)'
      BY <2>1, <2>2, <2>4 DEF Covered, TypeOK
    <2>6. \A q \in Keys \ {k} : pending'[q] = pending[q] /\ ref'[q] = ref[q]
                                                         /\ allowed'[q] = allowed[q]
      BY <2>1, <2>2 DEF TypeOK
    <2>7. QED
      BY <2>2, <2>5, <2>6 DEF Waiting, Covered
  <1>2. ASSUME NEW k \in sc.keys, Delete(k) PROVE Waiting'
    <2>1. k \in Keys
      BY ScenariosAssumption DEF TypeOK, ScenarioType
    <2>2. /\ pending' = [pending EXCEPT ![k] = Absent]
          /\ ref' = [ref EXCEPT ![k] = Absent]
          /\ allowed' = [allowed EXCEPT ![k] = @ \cup {Absent}]
          /\ has_compiler' = has_compiler /\ pc' = "idle"
      BY <1>2 DEF Delete, Outcome, workerVars
    <2>3. pending'[k] = Absent
      BY <2>1, <2>2 DEF TypeOK
    <2>4. \A q \in Keys \ {k} : pending'[q] = pending[q] /\ ref'[q] = ref[q]
                                                         /\ allowed'[q] = allowed[q]
      BY <2>1, <2>2 DEF TypeOK
    <2>5. QED
      BY <2>2, <2>3, <2>4 DEF Waiting, Covered
  <1>3. CASE \/ \E k \in sc.keys : Get(k)
             \/ StartFlush \/ StartCompile \/ StartScheduled \/ StartClose
             \/ PersistNext \/ PersistDone \/ StillRunning \/ FinalizeFailed \/ FinalizeSwap
             \/ MergeToc \/ RemoveOld \/ FinalizeDone \/ WaitForMerges
             \/ \E j \in merge_jobs : Merger(j)
             \/ RequestClose
             \/ UNCHANGED vars
    <2>1. /\ UNCHANGED <<has_compiler, pending, ref, allowed>>
          /\ pc' = pc \/ {pc, pc'} \cap {"down", "compile_toc"} = {}
      BY <1>3, CallsAlone
    <2>2. QED
      BY <2>1 DEF Waiting, Covered
  <1>4. CASE NothingToCompile \/ CompileToc \/ NoMerge \/ RunMerge
    <2>1. /\ UNCHANGED <<has_compiler, pending, ref>>
          /\ pc' \notin {"down", "compile_toc"}
          /\ UNCHANGED allowed \/ ~has_compiler
      BY <1>4, EndsAlone
    <2>2. QED
      BY <2>1 DEF Waiting, Covered
  <1>5. CASE Compile \/ Shutdown \/ Crash
    <2>1. pending' = Nothing /\ has_compiler' = FALSE
      BY <1>5 DEF Compile, Shutdown, Crash, Down
    <2>2. \A k \in Keys : pending'[k] = Absent
      BY <2>1 DEF Nothing
    <2>3. QED
      BY <2>1, <2>2 DEF Waiting
  <1>6. CASE Open
    <2>1. UNCHANGED <<has_compiler, pending>> /\ ~has_compiler /\ pc' = "idle"
      BY <1>6 DEF Open, compilerVars, Waiting
    <2>2. QED
      BY <2>1 DEF Waiting
  <1>7. QED
    BY <1>1, <1>2, <1>3, <1>4, <1>5, <1>6 DEF Next, Worker

LEMMA QuietStepsAfter ==
    ASSUME TypeOK, FilesInv,
           \/ \E k \in sc.keys : Add(k) \/ Get(k)
           \/ StartFlush \/ StartCompile \/ StartScheduled \/ StartClose
           \/ PersistNext \/ PersistDone \/ NothingToCompile
           \/ StillRunning \/ FinalizeDone \/ NoMerge \/ WaitForMerges
           \/ \E j \in merge_jobs : MergeLoad(j)
           \/ RequestClose
           \/ UNCHANGED vars,
           NEW i \in SegIds
    PROVE  After(seg'[i], seg[i], {})
  <1>1. seg[i] \in SegmentType
    BY DEF TypeOK
  <1>2. ASSUME NEW k \in sc.keys, Get(k) PROVE After(seg'[i], seg[i], {})
    <2>1. seg'[i] = seg[i] \/ seg'[i] = LazyLoadDeletedKeys(seg[i])
      BY <1>2 DEF Get, TypeOK
    <2>2. QED
      BY <1>1, <2>1, SameAfter, LazyLoadAfter
  <1>3. CASE PersistNext
    <2>1. seg'[i] = seg[i] \/ seg'[i] = PersistAndReload(seg[i])
      BY <1>3 DEF PersistNext, TypeOK
    <2>2. QED
      BY <1>1, <2>1, SameAfter, PersistAndReloadAfter
  <1>4. CASE NoMerge
    <2>1. seg'[i] = seg[i] \/ seg'[i] = LazyLoadDeletedKeys(seg[i])
      BY <1>4 DEF NoMerge, AfterSelection, TypeOK
    <2>2. QED
      BY <1>1, <2>1, SameAfter, LazyLoadAfter
  <1>5. CASE \/ \E k \in sc.keys : Add(k)
             \/ StartFlush \/ StartCompile \/ StartScheduled \/ StartClose
             \/ PersistDone \/ NothingToCompile
             \/ StillRunning \/ FinalizeDone \/ WaitForMerges
             \/ \E j \in merge_jobs : MergeLoad(j)
             \/ RequestClose
             \/ UNCHANGED vars
    <2>1. seg' = seg
      BY <1>5 DEF Add, StartFlush, StartCompile, StartScheduled, StartClose, PersistDone,
                  NothingToCompile, StillRunning, FinalizeDone, WaitForMerges, MergeLoad,
                  RequestClose, Begin, vars, fileVars
    <2>2. QED
      BY <1>1, <2>1, SameAfter
  <1>6. QED
    BY <1>2, <1>3, <1>4, <1>5

LEMMA DeleteAfter ==
    ASSUME TypeOK, NEW k \in sc.keys, Delete(k), NEW i \in SegIds
    PROVE  After(seg'[i], seg[i], {k})
  <1>1. k \in Keys /\ seg[i] \in SegmentType
    BY ScenariosAssumption DEF TypeOK, ScenarioType
  <1>2. seg'[i] = seg[i] \/ seg'[i] = DeleteKey(seg[i], k)
    BY DEF Delete
  <1>3. QED
    BY <1>1, <1>2, SameAfter, DeleteKeyAfter

\* What RunMerge makes of the segments
LEMMA RunMergeAfter ==
    ASSUME TypeOK, Policy = "tiered", RunMerge
    PROVE  \E c \in Candidates :
             /\ \A i \in c : /\ SamePlace(seg'[i], seg[i])
                             /\ seg'[i].in_merge /\ seg'[i].deletes_loaded
                             /\ Deletions(seg'[i]) \subseteq Deletions(seg[i])
                             /\ ListOK(seg[i]) => seg'[i].during_merge = {}
             /\ \A i \in SegIds \ c : After(seg'[i], seg[i], {})
             /\ job' = [job EXCEPT ![nextId] = [NoJob EXCEPT !.segs = c,
                                                             !.external = External(c),
                                                             !.status = "running"]]
  <1>1. PICK c \in Candidates :
          /\ seg' = [i \in SegIds |-> IF i \in c THEN ElectedForMerge(AfterSelection[i])
                                      ELSE AfterSelection[i]]
          /\ job' = [job EXCEPT ![nextId] = [NoJob EXCEPT !.segs = c,
                                                          !.external = External(c),
                                                          !.status = "running"]]
    BY DEF RunMerge
  <1>2. c \subseteq Unmarked /\ Unmarked \subseteq SegIds
    BY CandidatesContiguous DEF Unmarked, TypeOK
  <1>3. ASSUME NEW i \in c
        PROVE  seg'[i] = ElectedForMerge(LazyLoadDeletedKeys(seg[i])) /\ ~seg[i].in_merge
    BY <1>1, <1>2, <1>3 DEF AfterSelection, LoadedByPolicy, Unmarked
  <1>4. ASSUME NEW i \in SegIds \ c
        PROVE  seg'[i] = seg[i] \/ seg'[i] = LazyLoadDeletedKeys(seg[i])
    BY <1>1, <1>4 DEF AfterSelection
  <1>5. \A i \in SegIds : seg[i] \in SegmentType
    BY DEF TypeOK
  <1>6. \A i \in SegIds \ c : After(seg'[i], seg[i], {})
    BY <1>4, <1>5, SameAfter, LazyLoadAfter
  <1>7. ASSUME NEW i \in c
        PROVE  /\ SamePlace(seg'[i], seg[i])
               /\ seg'[i].in_merge /\ seg'[i].deletes_loaded
               /\ Deletions(seg'[i]) \subseteq Deletions(seg[i])
               /\ ListOK(seg[i]) => seg'[i].during_merge = {}
    BY <1>2, <1>3, <1>5, <1>7, ElectedAfter
  <1>8. QED
    BY <1>1, <1>6, <1>7

LEMMA ListsStep ==
    ASSUME TypeOK, FilesInv, Policy = "tiered", ListsApart, [Next]_vars
    PROVE  ListsApart'
  <1>1. segments \subseteq SegIds /\ \A i \in segments : ListOK(seg[i])
    BY DEF TypeOK, ListsApart, ListOK
  <1>2. SUFFICES ASSUME NEW i \in segments' PROVE ListOK(seg'[i])
    BY DEF ListsApart, ListOK
  <1>3. CASE \/ \E k \in sc.keys : Add(k) \/ Get(k)
             \/ StartFlush \/ StartCompile \/ StartScheduled \/ StartClose
             \/ PersistNext \/ PersistDone \/ NothingToCompile
             \/ StillRunning \/ FinalizeDone \/ NoMerge \/ WaitForMerges
             \/ \E j \in merge_jobs : MergeLoad(j)
             \/ RequestClose
             \/ UNCHANGED vars
    <2>1. segments' = segments
      BY <1>3, QuietSteps DEF Quiet, vars, fileVars
    <2>2. QED
      BY <1>1, <1>2, <1>3, <2>1, QuietStepsAfter DEF After
  <1>4. ASSUME NEW k \in sc.keys, Delete(k) PROVE ListOK(seg'[i])
    BY <1>1, <1>2, <1>4, DeleteAfter DEF After, Delete
  <1>5. CASE FinalizeFailed
    <2>1. PICK j \in merge_jobs :
             seg' = [n \in SegIds |-> IF n \in job[j].segs THEN MergeFailed(seg[n]) ELSE seg[n]]
      BY <1>5 DEF FinalizeFailed
    <2>2. i \in segments
      BY <1>2, <1>5 DEF FinalizeFailed
    <2>3. seg'[i] = seg[i] \/ seg'[i] = MergeFailed(seg[i])
      BY <1>1, <2>1, <2>2
    <2>4. ASSUME NEW t \in SegmentType PROVE ListOK(MergeFailed(t))
      <3> DEFINE back == [t EXCEPT !.in_merge   = FALSE,
                                   !.for_write  = @ \cup t.during_merge,
                                   !.new_delete = TRUE]
      <3>1. back \in SegmentType /\ ~back.in_merge
        BY DEF SegmentType
      <3>2. Persist(back) \in SegmentType /\ ~Persist(back).in_merge
        BY <3>1, PersistType, PersistKeeps
      <3> HIDE DEF back
      <3>3. \/ t.during_merge = {} /\ MergeFailed(t) = [t EXCEPT !.in_merge = FALSE]
            \/ MergeFailed(t) = [Persist(back) EXCEPT !.during_merge = {}, !.dkm = NoFile]
        BY DEF MergeFailed, back
      <3>4. QED
        BY <3>2, <3>3 DEF SegmentType, ListOK
    <2>5. QED
      BY <1>1, <2>2, <2>3, <2>4 DEF TypeOK
  <1>6. CASE Compile
    <2>1. CASE i = nextId
      <3>1. i \in SegIds
        BY <1>6, <2>1, NumbersInRange DEF Compile
      <3>2. seg'[i] = NewSegment(pending, nextId)
        BY <1>6, <2>1, <3>1 DEF Compile, TypeOK
      <3>3. QED
        BY <3>2 DEF NewSegment, NoSegment, ListOK
    <2>2. CASE i # nextId
      BY <1>1, <1>2, <1>6, <2>2 DEF Compile, TypeOK
    <2>3. QED
      BY <2>1, <2>2
  <1>7. CASE CompileToc \/ MergeToc
    BY <1>1, <1>2, <1>7 DEF CompileToc, MergeToc
  <1>8. CASE FinalizeSwap
    <2>1. PICK j \in merge_jobs :
          /\ segments' = (segments \ job[j].segs)
                            \cup (IF job[j].segs \cap segments = {} THEN {} ELSE {j})
          /\ seg' = IF job[j].segs \cap segments = {} THEN seg
                    ELSE [seg EXCEPT ![j] = MergedSegment(@.dict, MergedRank(j), Inherit(j))]
      BY <1>8 DEF FinalizeSwap, Remaining
    <2>2. j \in SegIds /\ job[j].segs \subseteq SegIds
      BY <2>1 DEF TypeOK, JobType
    <2>3. CASE i = j /\ job[j].segs \cap segments # {}
      <3>1. MergedRank(j) \in Nat
        BY <2>2, <2>3, MergedRankIs DEF TypeOK, SegmentType
      <3>2. seg[j].dict \in [Keys -> Nat] /\ Inherit(j) \in SUBSET SegmentType
        BY <2>2 DEF TypeOK, SegmentType, Inherit
      <3>3. seg'[j] = MergedSegment(seg[j].dict, MergedRank(j), Inherit(j))
        BY <2>1, <2>2, <2>3 DEF TypeOK
      <3>4. QED
        BY <2>3, <3>1, <3>2, <3>3, MergedDeletions
    <2>4. CASE ~(i = j /\ job[j].segs \cap segments # {})
      <3>1. i \in segments /\ seg'[i] = seg[i]
        BY <1>2, <2>1, <2>2, <2>4 DEF TypeOK
      <3>2. QED
        BY <1>1, <3>1
    <2>5. QED
      BY <2>3, <2>4
  <1>9. CASE RemoveOld
    <2>1. i \in segments /\ job[cur].segs \cap segments = {}
      BY <1>2, <1>9 DEF RemoveOld, FilesInv, InSwap, Swapping
    <2>2. seg'[i] = seg[i]
      BY <1>1, <1>9, <2>1 DEF RemoveOld
    <2>3. QED
      BY <1>1, <2>1, <2>2
  <1>10. CASE RunMerge
    <2>1. i \in segments
      BY <1>2, <1>10 DEF RunMerge
    <2>2. (seg'[i].in_merge /\ seg'[i].deletes_loaded) \/ After(seg'[i], seg[i], {})
      BY <1>1, <1>10, <2>1, RunMergeAfter
    <2>3. QED
      BY <1>1, <2>1, <2>2 DEF After, ListOK
  <1>11. ASSUME NEW j \in merge_jobs, MergeLoadFails(j) \/ MergeFails(j) \/ MergeFinish(j)
         PROVE  ListOK(seg'[i])
    <2>1. i \in segments
      BY <1>2, <1>11 DEF MergeLoadFails, MergeFails, MergeFinish, fileVars
    <2>2. MergeFinish(j) => j \notin segments
      BY DEF MergeFinish, FilesInv, OutputsApart, InSwap
    <2>3. seg'[i] = seg[i]
      BY <1>1, <1>11, <2>1, <2>2 DEF MergeLoadFails, MergeFails, MergeFinish, fileVars, TypeOK
    <2>4. QED
      BY <1>1, <2>1, <2>3
  <1>12. CASE Shutdown \/ Crash
    BY <1>2, <1>12 DEF Shutdown, Crash, Down
  <1>13. CASE Open
    <2>1. i \in toc /\ seg'[i] = OpenSegment(seg[i]) /\ seg[i] \in SegmentType
      BY <1>2, <1>13 DEF Open, TypeOK
    <2>2. QED
      BY <2>1, OpenDeletions
  <1>14. QED
    BY <1>3, <1>4, <1>5, <1>6, <1>7, <1>8, <1>9, <1>10, <1>11, <1>12, <1>13
       DEF Next, Worker, Merger

-----------------------------------------------------------------------------
\* The values, as long as no merge fails.

ValuesKept == InMemory /\ InToc /\ NothingAdded /\ MergesKeep

\* Found after a step, from Found before it, for a list S that stays
LEMMA FoundStays ==
    ASSUME NEW S, NEW T, NEW D, NEW k, T = S, k \notin D, ref'[k] = ref[k],
           \A i \in S : After(seg'[i], seg[i], D),
           Found(S, k)
    PROVE  \E s \in T : /\ s \in T /\ InDictionary(seg'[s], k)
                        /\ \A i \in T : InDictionary(seg'[i], k) => seg'[i].rank <= seg'[s].rank
                        /\ seg'[s].dict[k] = ref'[k]
                        /\ k \notin Deletions(seg'[s])
  BY DEF Found, Top, After, SamePlace, InDictionary

LEMMA QuietKeepsValues ==
    ASSUME TypeOK, ParentsMarked, ListsApart, ValuesKept, Quiet,
           NEW D, \A i \in SegIds : After(seg'[i], seg[i], D),
           \A k \in Keys : Settled(k)' => Settled(k) /\ ref'[k] = ref[k] /\ k \notin D,
           pc' # "down" => pc # "down",
           \A k \in Keys : Settled(k)' /\ (pc' \in {"down", "compile_toc"} => Covered(k)')
                              => (pc \in {"down", "compile_toc"} => Covered(k)),
           \A j \in merge_jobs : job'[j] = job[j]
    PROVE  ValuesKept'
  <1>1. /\ segments' = segments /\ toc' = toc /\ merge_jobs' = merge_jobs
        /\ segments \subseteq SegIds /\ toc \subseteq SegIds /\ merge_jobs \subseteq SegIds
        /\ \A j \in merge_jobs : job[j].segs \subseteq SegIds
    BY DEF Quiet, TypeOK, JobType
  <1>2. \A j \in merge_jobs : Busy(j)' <=> Busy(j)
    BY DEF Quiet, Busy
  <1>3. \A i \in SegIds, k \in Keys : InDictionary(seg'[i], k) <=> InDictionary(seg[i], k)
    BY DEF After, SamePlace, InDictionary
  <1>4. InMemory'
    <2>1. ASSUME pc' # "down", NEW k \in Keys, Settled(k)' PROVE Found(segments, k)'
      <3>1. Found(segments, k) /\ k \notin D /\ ref'[k] = ref[k]
        BY <2>1 DEF ValuesKept, InMemory
      <3>2. QED
        BY <1>1, <3>1, FoundStays DEF Found, Top
    <2>2. QED
      BY <2>1 DEF InMemory
  <1>5. InToc'
    <2>1. ASSUME NEW k \in Keys, Settled(k)', pc' \in {"down", "compile_toc"} => Covered(k)'
          PROVE  Found(toc, k)'
      <3>1. Found(toc, k) /\ k \notin D /\ ref'[k] = ref[k]
        BY <2>1 DEF ValuesKept, InToc
      <3>2. QED
        BY <1>1, <3>1, FoundStays DEF Found, Top
    <2>2. QED
      BY <2>1 DEF InToc
  <1>6. \A j \in merge_jobs : (Computed(j)' <=> Computed(j)) /\ Output(j)' = Output(j)
    BY <1>1 DEF Computed, Output, After, SamePlace
  <1>7. NothingAdded'
    BY <1>1, <1>2, <1>3, <1>6 DEF ValuesKept, NothingAdded
  <1>8. MergesKeep'
    <2>1. ASSUME NEW j \in merge_jobs, NEW k \in Keys, Busy(j)', Settled(k)',
                 NEW s \in job[j].segs, Top(segments, k, s)'
          PROVE  /\ \A p \in job[j].segs : k \notin seg'[p].during_merge
                 /\ Computed(j)' => Output(j)'[k] = ref'[k]
      <3>1. Busy(j) /\ Settled(k) /\ k \notin D /\ ref'[k] = ref[k]
        BY <1>2, <2>1
      <3>2. Top(segments, k, s)
        BY <1>1, <1>3, <2>1 DEF Top, After, SamePlace
      <3>3. /\ \A p \in job[j].segs : k \notin seg[p].during_merge
            /\ Computed(j) => Output(j)[k] = ref[k]
        BY <3>1, <3>2 DEF ValuesKept, MergesKeep
      <3>4. \A p \in job[j].segs : p \in SegIds /\ ListOK(seg[p])
        BY <1>1, <3>1 DEF ParentsMarked, ListsApart, ListOK
      <3>5. \A p \in job[j].segs : seg'[p].during_merge \subseteq seg[p].during_merge \cup D
        BY <3>4 DEF After
      <3>6. QED
        BY <1>6, <3>1, <3>3, <3>5
    <2>2. QED
      BY <1>1, <2>1 DEF MergesKeep
  <1>9. QED
    BY <1>4, <1>5, <1>7, <1>8 DEF ValuesKept

LEMMA QuietStepsKeepValues ==
    ASSUME TypeOK, FilesInv, ParentsMarked, Waiting, ListsApart, ValuesKept,
           \/ \E k \in sc.keys : Add(k) \/ Delete(k) \/ Get(k)
           \/ StartFlush \/ StartCompile \/ StartScheduled \/ StartClose
           \/ PersistNext \/ PersistDone \/ NothingToCompile
           \/ StillRunning \/ FinalizeDone \/ NoMerge \/ WaitForMerges
           \/ RequestClose
           \/ UNCHANGED vars
    PROVE  ValuesKept'
  <1>1. Quiet
    <2>1. CASE UNCHANGED vars
      BY <2>1, IdleStepsQuiet DEF vars, workerVars, jobVars, fileVars
    <2>2. QED
      BY <2>1, QuietSteps
  <1>2. job' = job
    BY DEF Add, Delete, Get, StartFlush, StartCompile, StartScheduled, StartClose,
           PersistNext, PersistDone, NothingToCompile, StillRunning,
           FinalizeDone, NoMerge, WaitForMerges, RequestClose, Begin, vars, jobVars
  <1>3. ASSUME NEW k \in sc.keys, Add(k) PROVE ValuesKept'
    <2>1. k \in Keys /\ count.writes + 1 # 0
      BY ScenariosAssumption DEF TypeOK, ScenarioType, CountType
    <2>2. /\ pending' = [pending EXCEPT ![k] = count.writes + 1]
          /\ ref' = [ref EXCEPT ![k] = count.writes + 1]
          /\ pc = "idle" /\ pc' = "idle"
      BY <1>3 DEF Add, Outcome, workerVars
    <2>3. \A q \in Keys : Settled(q)' => q # k
      BY <2>1, <2>2 DEF Settled, TypeOK, Absent
    <2>4. \A q \in Keys : Settled(q)' => Settled(q) /\ ref'[q] = ref[q] /\ q \notin {}
      BY <2>1, <2>2, <2>3 DEF Settled, TypeOK
    <2>5. \A i \in SegIds : After(seg'[i], seg[i], {})
      BY <1>3, QuietStepsAfter
    <2>6. QED
      BY <1>1, <1>2, <2>2, <2>4, <2>5, QuietKeepsValues
  <1>4. ASSUME NEW k \in sc.keys, Delete(k) PROVE ValuesKept'
    <2>1. k \in Keys
      BY ScenariosAssumption DEF TypeOK, ScenarioType
    <2>2. /\ pending' = [pending EXCEPT ![k] = Absent]
          /\ ref' = [ref EXCEPT ![k] = Absent]
          /\ pc = "idle" /\ pc' = "idle"
      BY <1>4 DEF Delete, Outcome, workerVars
    <2>3. \A q \in Keys : Settled(q)' => Settled(q) /\ ref'[q] = ref[q] /\ q \notin {k}
      BY <2>1, <2>2 DEF Settled, TypeOK
    <2>4. \A i \in SegIds : After(seg'[i], seg[i], {k})
      BY <1>4, DeleteAfter
    <2>5. QED
      BY <1>1, <1>2, <2>2, <2>3, <2>4, QuietKeepsValues
  <1>5. CASE NothingToCompile \/ NoMerge
    <2>1. \A i \in SegIds : After(seg'[i], seg[i], {})
      BY <1>5, QuietStepsAfter
    <2>2. UNCHANGED <<pending, ref>>
      BY <1>5, EndsAlone
    <2>3. pc \notin {"down", "compile_toc"}
      BY <1>5 DEF NothingToCompile, NoMerge
    <2>4. \A q \in Keys : Settled(q)' => Settled(q) /\ ref'[q] = ref[q] /\ q \notin {}
      BY <2>2 DEF Settled
    <2>5. QED
      BY <1>1, <1>2, <2>1, <2>3, <2>4, QuietKeepsValues
  <1>6. CASE \/ \E k \in sc.keys : Get(k)
             \/ StartFlush \/ StartCompile \/ StartScheduled \/ StartClose
             \/ PersistNext \/ PersistDone
             \/ StillRunning \/ FinalizeDone \/ WaitForMerges
             \/ RequestClose
             \/ UNCHANGED vars
    <2>1. \A i \in SegIds : After(seg'[i], seg[i], {})
      BY <1>6, QuietStepsAfter
    <2>2. /\ UNCHANGED <<pending, ref, allowed>>
          /\ pc' = pc \/ {pc, pc'} \cap {"down", "compile_toc"} = {}
      BY <1>6, CallsAlone
    <2>3. \A q \in Keys : /\ Settled(q)' => Settled(q) /\ ref'[q] = ref[q] /\ q \notin {}
                          /\ Covered(q)' => Covered(q)
      BY <2>2 DEF Settled, Covered
    <2>4. \A q \in Keys : (pc' \in {"down", "compile_toc"} => Covered(q)')
                              => (pc \in {"down", "compile_toc"} => Covered(q))
      BY <2>2, <2>3
    <2>5. pc' # "down" => pc # "down"
      BY <2>2
    <2>6. QED
      BY <1>1, <1>2, <2>1, <2>3, <2>4, <2>5, QuietKeepsValues
  <1>7. QED
    BY <1>3, <1>4, <1>5, <1>6

\* A merge reads the newest segment before any delete of its keys.
LEMMA MergeLoadKeepsValues ==
    ASSUME TypeOK, FilesInv, DownEmpty, ParentsMarked, ValuesKept,
           NEW j \in merge_jobs, MergeLoad(j)
    PROVE  ValuesKept'
  <1>1. /\ UNCHANGED <<seg, segments, toc, merge_jobs, ref, pending, allowed, pc, cur>>
        /\ job[j].status = "running" /\ j \in SegIds /\ job[j].segs \subseteq SegIds
    BY DEF MergeLoad, fileVars, workerVars, compilerVars, historyVars, TypeOK, JobType
  <1>2. \A i \in merge_jobs : job'[i].segs = job[i].segs
    BY QuietSteps DEF Quiet
  <1>3. \A i \in merge_jobs : i # j => job'[i] = job[i]
    BY DEF MergeLoad, TypeOK
  <1>4. \A i \in merge_jobs : Busy(i)' <=> Busy(i)
    BY <1>1 DEF Busy, Swapping
  <1>5. Busy(j)
    BY <1>1 DEF Busy, FilesInv, InSwap
  <1>6. /\ InMemory' /\ InToc'
    BY <1>1 DEF ValuesKept, InMemory, InToc, Found, Top, Settled, Covered
  <1>7. NothingAdded'
    <2>1. ASSUME NEW k \in Keys, Output(j)'[k] # Absent
          PROVE  \E p \in job[j].segs : InDictionary(seg[p], k)
      <3>1. Output(j)' = job'[j].out
        BY MergeLoadOutput, <2>1 DEF Output
      <3>2. PICK m \in job[j].segs : job'[j].out[k] = seg[m].dict[k]
        BY <2>1, <3>1, MergeLoadOutput DEF Absent
      <3>3. QED
        BY <2>1, <3>1, <3>2 DEF InDictionary
    <2>2. \A i \in merge_jobs : i # j => (Computed(i)' <=> Computed(i)) /\ Output(i)' = Output(i)
      BY <1>1, <1>3 DEF Computed, Output
    <2>3. QED
      BY <1>1, <1>2, <1>4, <2>1, <2>2 DEF ValuesKept, NothingAdded
  <1>8. MergesKeep'
    <2>1. ASSUME NEW k \in Keys, Settled(k), NEW s \in job[j].segs, Top(segments, k, s)
          PROVE  Output(j)'[k] = ref[k]
      <3>1. PICK m \in job[j].segs :
               /\ InDictionary(seg[m], k)
               /\ \A p \in job[j].segs : InDictionary(seg[p], k) => seg[p].rank <= seg[m].rank
               /\ k \notin ReadDeleted(seg[m].dk) => job'[j].out[k] = seg[m].dict[k]
        BY <2>1, MergeLoadOutput DEF Top
      <3>2. m \in segments /\ s \in segments
        BY <1>5 DEF ParentsMarked
      <3>3. seg[m].rank <= seg[s].rank /\ seg[s].rank <= seg[m].rank
        BY <2>1, <3>1, <3>2 DEF Top
      <3>4. seg[m].rank \in Nat /\ seg[s].rank \in Nat
        BY <3>2 DEF TypeOK, SegmentType
      <3>5. m = s
        BY <3>2, <3>3, <3>4 DEF TypeOK
      <3>6. pc # "down"
        BY DEF DownEmpty
      <3>7. Found(segments, k)
        BY <2>1, <3>6 DEF ValuesKept, InMemory
      <3>8. PICK f \in segments : /\ Top(segments, k, f) /\ seg[f].dict[k] = ref[k]
                                  /\ k \notin Deletions(seg[f])
        BY <3>7 DEF Found
      <3>9. f = s
        <4>1. seg[f].rank <= seg[s].rank /\ seg[s].rank <= seg[f].rank
          BY <2>1, <3>2, <3>8 DEF Top
        <4>2. seg[f].rank \in Nat
          BY <3>8 DEF TypeOK, SegmentType
        <4>3. QED
          BY <3>2, <3>4, <4>1, <4>2 DEF TypeOK
      <3>10. k \notin ReadDeleted(seg[m].dk)
        BY <3>5, <3>8, <3>9 DEF Deletions, OnDisk
      <3>11. Output(j)' = job'[j].out
        BY <2>1, MergeLoadOutput DEF Output
      <3>12. QED
        BY <3>1, <3>5, <3>8, <3>9, <3>10, <3>11
    <2>2. \A i \in merge_jobs : i # j => (Computed(i)' <=> Computed(i)) /\ Output(i)' = Output(i)
      BY <1>1, <1>3 DEF Computed, Output
    <2>3. \A k \in Keys : (Settled(k)' <=> Settled(k))
                          /\ \A s : Top(segments, k, s)' <=> Top(segments, k, s)
      BY <1>1 DEF Settled, Top
    <2>4. QED
      BY <1>1, <1>2, <1>4, <2>1, <2>2, <2>3 DEF ValuesKept, MergesKeep
  <1>9. QED
    BY <1>6, <1>7, <1>8 DEF ValuesKept

LEMMA MergeFinishKeepsValues ==
    ASSUME TypeOK, FilesInv, ParentsMarked, ValuesKept, NEW j \in merge_jobs, MergeFinish(j)
    PROVE  ValuesKept'
  <1>1. /\ UNCHANGED <<segments, toc, merge_jobs, ref, pending, allowed, pc, cur>>
        /\ job[j].status = "loaded" /\ j \in SegIds
    BY DEF MergeFinish, workerVars, compilerVars, historyVars, TypeOK
  <1>2. \A i \in merge_jobs : job'[i].segs = job[i].segs
    BY DEF MergeFinish, SetStatus, TypeOK, JobType
  <1>3. job'[j].status = "ok" /\ \A i \in merge_jobs : i # j => job'[i] = job[i]
    BY <1>1 DEF MergeFinish, SetStatus, TypeOK, JobType
  <1>4. \A i \in merge_jobs : Busy(i)' <=> Busy(i)
    BY <1>1 DEF Busy, Swapping
  <1>5. j \notin segments \cup toc
    BY <1>1 DEF FilesInv, OutputsApart, InSwap
  <1>6. \A i \in SegIds : i # j => seg'[i] = seg[i]
    BY DEF MergeFinish, TypeOK
  <1>7. seg'[j].dict = job[j].out
    BY <1>1 DEF MergeFinish, TypeOK, NoSegment
  <1>8. segments \subseteq SegIds /\ toc \subseteq SegIds /\ merge_jobs \subseteq SegIds
    BY DEF TypeOK
  <1>9. \A i \in segments \cup toc : seg'[i] = seg[i]
    BY <1>5, <1>6, <1>8
  <1>10. InMemory' /\ InToc'
    BY <1>1, <1>9 DEF ValuesKept, InMemory, InToc, Found, Top, Settled, Covered
  <1>11. \A i \in merge_jobs : (Computed(i)' <=> Computed(i)) /\ Output(i)' = Output(i)
    BY <1>1, <1>3, <1>6, <1>7, <1>8 DEF Computed, Output
  <1>12. \A i \in merge_jobs : Busy(i) => \A p \in job[i].segs : p \in segments
    BY DEF ParentsMarked
  <1>13. NothingAdded'
    BY <1>1, <1>2, <1>4, <1>9, <1>11, <1>12 DEF ValuesKept, NothingAdded
  <1>14. \A k \in Keys : (Settled(k)' <=> Settled(k))
                          /\ \A s : Top(segments, k, s)' <=> Top(segments, k, s)
    BY <1>1, <1>9 DEF Settled, Top
  <1>15. MergesKeep'
    BY <1>1, <1>2, <1>4, <1>9, <1>11, <1>12, <1>14 DEF ValuesKept, MergesKeep
  <1>16. QED
    BY <1>10, <1>13, <1>15 DEF ValuesKept

LEMMA CompileKeepsValues ==
    ASSUME TypeOK, FilesInv, ParentsMarked, Waiting, ValuesKept, Compile
    PROVE  ValuesKept'
  <1>1. /\ nextId \in SegIds /\ segments' = segments \cup {nextId}
        /\ UNCHANGED <<toc, merge_jobs, job, ref, allowed, cur>>
        /\ ~Swapping /\ ~Swapping' /\ pc = "compile" /\ pc' = "compile_toc"
    BY NumbersInRange DEF Compile, jobVars, historyVars, Swapping
  <1>2. \A k \in Keys : pending'[k] = Absent
    BY DEF Compile, Nothing
  <1>3. seg'[nextId] = NewSegment(pending, nextId)
    BY <1>1 DEF Compile, TypeOK
  <1>4. seg'[nextId].dict = pending /\ seg'[nextId].rank = nextId
        /\ Deletions(seg'[nextId]) = {}
    BY <1>3 DEF NewSegment, NoSegment, Deletions, OnDisk, ReadDeleted
  <1>5. nextId \notin segments \cup toc \cup merge_jobs
        /\ segments \subseteq SegIds /\ toc \subseteq SegIds /\ merge_jobs \subseteq SegIds
    BY DEF FilesInv, Fresh, TypeOK
  <1>6. \A i \in SegIds : i # nextId => seg'[i] = seg[i]
    BY <1>1 DEF Compile, TypeOK
  <1>7. \A i \in segments \cup toc \cup merge_jobs : seg'[i] = seg[i]
    BY <1>5, <1>6
  <1>8. nextId \in Nat /\ \A i \in segments : seg[i].rank < nextId /\ seg[i].rank \in Nat
    BY DEF TypeOK, SegmentType, FilesInv, RanksBelow
  <1>n. PICK n : n = nextId
    OBVIOUS
  <1>9. ASSUME NEW k \in Keys, pending[k] # Absent
        PROVE  /\ Top(segments, k, n)'
               /\ \A s \in segments : ~Top(segments, k, s)'
    <2>1. InDictionary(seg'[nextId], k)
      BY <1>4, <1>9 DEF InDictionary
    <2>2. \A i \in segments' : seg'[i].rank <= seg'[nextId].rank
      BY <1>1, <1>4, <1>7, <1>8
    <2>3. \A s \in segments : ~(seg'[nextId].rank <= seg'[s].rank)
      BY <1>4, <1>7, <1>8
    <2>4. QED
      BY <1>1, <1>n, <2>1, <2>2, <2>3 DEF Top
  <1>10. ASSUME NEW k \in Keys, pending[k] = Absent, NEW s \in segments
         PROVE  Top(segments, k, s)' <=> Top(segments, k, s)
    <2>1. ~InDictionary(seg'[nextId], k)
      BY <1>4, <1>10 DEF InDictionary
    <2>2. QED
      BY <1>1, <1>7, <2>1 DEF Top
  <1>11. InMemory'
    <2>1. ASSUME NEW k \in Keys, Settled(k)' PROVE Found(segments, k)'
      <3>1. CASE pending[k] # Absent
        <4>1. pending[k] = ref'[k]
          BY <1>1, <3>1 DEF Waiting
        <4>2. Top(segments, k, n)'
          BY <1>9, <3>1
        <4>3. QED
          BY <1>1, <1>4, <1>n, <4>1, <4>2 DEF Found, Top
      <3>2. CASE pending[k] = Absent
        <4>1. Found(segments, k)
          BY <1>1, <2>1, <3>2 DEF Settled, ValuesKept, InMemory
        <4>2. PICK s \in segments : /\ Top(segments, k, s) /\ seg[s].dict[k] = ref[k]
                                    /\ k \notin Deletions(seg[s])
          BY <4>1 DEF Found
        <4>3. Top(segments, k, s)'
          BY <1>10, <3>2, <4>2
        <4>4. QED
          BY <1>1, <1>7, <4>2, <4>3 DEF Found, Top
      <3>3. QED
        BY <3>1, <3>2
    <2>2. QED
      BY <2>1 DEF InMemory
  <1>12. InToc'
    <2>1. ASSUME NEW k \in Keys, Settled(k)', Covered(k)' PROVE Found(toc, k)'
      <3>1. Settled(k)
        BY <1>1, <2>1 DEF Settled, Covered, Waiting
      <3>2. Found(toc, k)
        BY <1>1, <3>1 DEF ValuesKept, InToc
      <3>3. QED
        BY <1>1, <1>7, <3>2 DEF Found, Top
    <2>2. QED
      BY <1>1, <2>1 DEF InToc
  <1>13. \A i \in merge_jobs : (Computed(i)' <=> Computed(i)) /\ Output(i)' = Output(i)
    BY <1>1, <1>7 DEF Computed, Output
  <1>14. \A i \in merge_jobs : Busy(i) /\ \A p \in job[i].segs : p \in segments
    BY <1>1 DEF ParentsMarked, Busy
  <1>15. NothingAdded'
    BY <1>1, <1>7, <1>13, <1>14 DEF ValuesKept, NothingAdded
  <1>16. MergesKeep'
    <2>1. ASSUME NEW j \in merge_jobs, NEW k \in Keys, Settled(k)', NEW s \in job[j].segs,
                 Top(segments, k, s)'
          PROVE  /\ \A p \in job[j].segs : k \notin seg'[p].during_merge
                 /\ Computed(j)' => Output(j)'[k] = ref'[k]
      <3>1. s \in segments /\ pending[k] = Absent
        BY <1>9, <1>14, <2>1 DEF Top
      <3>2. Top(segments, k, s)
        BY <1>10, <2>1, <3>1 DEF Top
      <3>3. Settled(k)
        BY <1>1, <2>1, <3>1 DEF Settled
      <3>4. QED
        BY <1>1, <1>7, <1>13, <1>14, <3>2, <3>3 DEF ValuesKept, MergesKeep
    <2>2. QED
      BY <1>1, <2>1 DEF MergesKeep
  <1>17. QED
    BY <1>11, <1>12, <1>15, <1>16 DEF ValuesKept

\* WriteToc: what is in memory is on disk.
LEMMA TocKeepsValues ==
    ASSUME TypeOK, Waiting, ValuesKept, CompileToc \/ MergeToc
    PROVE  ValuesKept'
  <1>1. /\ UNCHANGED <<segments, seg, merge_jobs, job, cur, ref, pending>>
        /\ toc' = segments /\ (Swapping' <=> Swapping)
        /\ pc # "down" /\ pc' \notin {"down", "compile_toc"}
    <2>1. CASE CompileToc
      BY <2>1, EndsAlone, EndTaskLeaves DEF CompileToc, jobVars, Swapping
    <2>2. CASE MergeToc
      BY <2>2 DEF MergeToc, jobVars, compilerVars, historyVars, Swapping
    <2>3. QED
      BY <2>1, <2>2
  <1>2. InMemory' /\ InToc'
    BY <1>1 DEF ValuesKept, InMemory, InToc, Found, Top, Settled
  <1>3. NothingAdded'
    BY <1>1 DEF ValuesKept, NothingAdded, Busy, Computed, Output
  <1>4. MergesKeep'
    BY <1>1 DEF ValuesKept, MergesKeep, Busy, Computed, Output, Settled, Top
  <1>5. QED
    BY <1>2, <1>3, <1>4 DEF ValuesKept

LEMMA RemoveOldKeepsValues ==
    ASSUME TypeOK, FilesInv, ParentsMarked, ValuesKept, RemoveOld
    PROVE  ValuesKept'
  <1>1. /\ Swapping /\ ~Swapping' /\ UNCHANGED <<segments, toc, ref, pending>>
        /\ toc = segments /\ cur \in SegIds /\ cur \in merge_jobs
        /\ merge_jobs' = merge_jobs \ {cur}
        /\ job[cur].segs \cap segments = {}
        /\ pc = "remove" /\ pc' = "finalize"
        /\ segments \subseteq SegIds /\ merge_jobs \subseteq SegIds
    BY DEF RemoveOld, Swapping, FilesInv, InSwap, TypeOK, compilerVars, historyVars
  <1>2. \A i \in segments : seg'[i] = seg[i]
    BY <1>1 DEF RemoveOld
  <1>3. \A i \in SegIds : seg'[i].dict = seg[i].dict
    <2>1. \A t \in SegmentType : RemoveFiles(LazyLoadDeletedKeys(t)).dict = t.dict
      BY LazyLoadType, LazyLoadKeeps DEF RemoveFiles, SegmentType, SamePlace
    <2>2. QED
      BY <2>1 DEF RemoveOld, TypeOK
  <1>4. \A j \in merge_jobs' : job'[j] = job[j] /\ Busy(j) /\ Busy(j)'
    BY <1>1 DEF RemoveOld, TypeOK, Busy
  <1>5. \A j \in merge_jobs' : (Computed(j)' <=> Computed(j)) /\ Output(j)' = Output(j)
    BY <1>1, <1>3, <1>4 DEF Computed, Output
  <1>6. \A j \in merge_jobs' : \A p \in job[j].segs : p \in segments
    BY <1>1, <1>4 DEF ParentsMarked
  <1>7. InMemory' /\ InToc'
    BY <1>1, <1>2 DEF ValuesKept, InMemory, InToc, Found, Top, Settled
  <1>8. NothingAdded'
    BY <1>1, <1>2, <1>4, <1>5, <1>6 DEF ValuesKept, NothingAdded
  <1>9. \A k \in Keys : (Settled(k)' <=> Settled(k))
                        /\ \A s : Top(segments, k, s)' <=> Top(segments, k, s)
    BY <1>1, <1>2 DEF Settled, Top
  <1>10. MergesKeep'
    BY <1>1, <1>2, <1>4, <1>5, <1>6, <1>9 DEF ValuesKept, MergesKeep
  <1>11. QED
    BY <1>7, <1>8, <1>10 DEF ValuesKept

\* A new merge: its parents are in no other one, and their lists of deletes
\* received during the merge are empty.
LEMMA RunMergeKeepsValues ==
    ASSUME TypeOK, FilesInv, ParentsMarked, Waiting, ListsApart, ValuesKept,
           Policy = "tiered", RunMerge
    PROVE  ValuesKept'
  <1>1. PICK c \in Candidates :
          /\ \A i \in c : /\ SamePlace(seg'[i], seg[i])
                          /\ seg'[i].in_merge /\ seg'[i].deletes_loaded
                          /\ Deletions(seg'[i]) \subseteq Deletions(seg[i])
                          /\ ListOK(seg[i]) => seg'[i].during_merge = {}
          /\ \A i \in SegIds \ c : After(seg'[i], seg[i], {})
          /\ job' = [job EXCEPT ![nextId] = [NoJob EXCEPT !.segs = c,
                                                          !.external = External(c),
                                                          !.status = "running"]]
    BY RunMergeAfter
  <1>2. /\ UNCHANGED <<segments, toc, pending, ref>>
        /\ merge_jobs' = merge_jobs \cup {nextId} /\ nextId \in 1..sc.segs
        /\ pc = "run_merge" /\ pc' \notin {"down", "compile_toc"}
    BY EndsAlone DEF RunMerge
  <1>3. nextId \in SegIds
    BY <1>2, NumbersInRange
  <1>4. nextId \notin merge_jobs
    BY DEF FilesInv, Fresh, TypeOK
  <1>5. job'[nextId].segs = c /\ job'[nextId].status = "running"
        /\ \A j \in merge_jobs : job'[j] = job[j]
    BY <1>1, <1>3, <1>4 DEF TypeOK, NoJob
  <1>6. c \subseteq Unmarked /\ Unmarked \subseteq segments /\ segments \subseteq SegIds
        /\ toc \subseteq SegIds /\ merge_jobs \subseteq SegIds
    BY CandidatesContiguous DEF Unmarked, TypeOK
  <1>7. \A i \in SegIds : /\ seg'[i].rank = seg[i].rank /\ seg'[i].dict = seg[i].dict
                          /\ Deletions(seg'[i]) \subseteq Deletions(seg[i])
    BY <1>1 DEF After, SamePlace
  <1>8. \A j \in merge_jobs : Busy(j) /\ \A p \in job[j].segs : p \in segments \ c
    <2>1. \A j \in merge_jobs : Busy(j)
      BY <1>2 DEF Busy, Swapping
    <2>2. QED
      BY <1>6, <2>1 DEF ParentsMarked, Unmarked
  <1>9. \A S \in SUBSET SegIds, k \in Keys, s \in SegIds :
            (/\ s \in S /\ InDictionary(seg'[s], k)
             /\ \A i \in S : InDictionary(seg'[i], k) => seg'[i].rank <= seg'[s].rank)
            <=> Top(S, k, s)
    BY <1>7 DEF Top, InDictionary
  <1>10. InMemory'
    <2>1. ASSUME NEW k \in Keys, Settled(k)' PROVE Found(segments, k)'
      <3>1. Settled(k)
        BY <1>2, <2>1 DEF Settled
      <3>2. PICK s \in segments : /\ Top(segments, k, s) /\ seg[s].dict[k] = ref[k]
                                  /\ k \notin Deletions(seg[s])
        BY <1>2, <3>1 DEF ValuesKept, InMemory, Found
      <3>3. QED
        BY <1>2, <1>6, <1>7, <1>9, <3>2 DEF Found, Top
    <2>2. QED
      BY <2>1 DEF InMemory
  <1>11. InToc'
    <2>1. ASSUME NEW k \in Keys, Settled(k)' PROVE Found(toc, k)'
      <3>1. Settled(k)
        BY <1>2, <2>1 DEF Settled
      <3>2. PICK s \in toc : /\ Top(toc, k, s) /\ seg[s].dict[k] = ref[k]
                             /\ k \notin Deletions(seg[s])
        BY <1>2, <3>1 DEF ValuesKept, InToc, Found
      <3>3. QED
        BY <1>2, <1>6, <1>7, <1>9, <3>2 DEF Found, Top
    <2>2. QED
      BY <2>1 DEF InToc
  <1>n. PICK n : n = nextId
    OBVIOUS
  <1>12. \A j \in merge_jobs : (Computed(j)' <=> Computed(j)) /\ Output(j)' = Output(j)
    BY <1>5, <1>6, <1>7 DEF Computed, Output
  <1>13. ~Computed(n)'
    BY <1>5, <1>n DEF Computed
  <1>14. NothingAdded'
    <2>1. ASSUME NEW j \in merge_jobs, Computed(j)', NEW k \in Keys, Output(j)'[k] # Absent
          PROVE  \E p \in job'[j].segs : InDictionary(seg'[p], k)
      <3>1. PICK p \in job[j].segs : InDictionary(seg[p], k)
        BY <1>8, <1>12, <2>1 DEF ValuesKept, NothingAdded
      <3>2. p \in SegIds
        BY <1>6, <1>8
      <3>3. QED
        BY <1>5, <1>7, <3>1, <3>2 DEF InDictionary
    <2>2. QED
      BY <1>2, <1>13, <1>n, <2>1 DEF NothingAdded
  <1>15. \A k \in Keys, s \in segments : (Settled(k)' => Settled(k))
                                         /\ (Top(segments, k, s)' => Top(segments, k, s))
    BY <1>2, <1>6, <1>9 DEF Settled, Top
  <1>16. \A i \in segments : ListOK(seg[i])
    BY DEF ListsApart, ListOK
  <1>17. MergesKeep'
    <2>1. ASSUME NEW j \in merge_jobs, NEW k \in Keys, Settled(k)',
                 NEW s \in job'[j].segs, Top(segments, k, s)'
          PROVE  /\ \A p \in job'[j].segs : k \notin seg'[p].during_merge
                 /\ Computed(j)' => Output(j)'[k] = ref'[k]
      <3>1. s \in job[j].segs /\ s \in segments /\ Top(segments, k, s) /\ Settled(k)
        BY <1>5, <1>8, <1>15, <2>1
      <3>2. /\ \A p \in job[j].segs : k \notin seg[p].during_merge
            /\ Computed(j) => Output(j)[k] = ref[k]
        BY <1>8, <3>1 DEF ValuesKept, MergesKeep
      <3>3. \A p \in job[j].segs : seg'[p].during_merge \subseteq seg[p].during_merge
        BY <1>1, <1>6, <1>8, <1>16 DEF After
      <3>4. QED
        BY <1>2, <1>5, <1>12, <3>2, <3>3
    <2>2. \A p \in c : seg'[p].during_merge = {}
      BY <1>1, <1>6, <1>16
    <2>3. \A k \in Keys, p \in job'[n].segs : k \notin seg'[p].during_merge
      BY <1>5, <1>n, <2>2
    <2>4. QED
      BY <1>2, <1>13, <1>n, <2>1, <2>3 DEF MergesKeep
  <1>18. QED
    BY <1>10, <1>11, <1>14, <1>17 DEF ValuesKept

\* The merged segment in the list, with its place among the others
LEMMA FinalizeSwapMakes ==
    ASSUME TypeOK, FilesInv, FinalizeSwap
    PROVE  \E j \in merge_jobs :
             /\ cur' = j /\ pc = "finalize" /\ pc' = "merge_toc" /\ job[j].status = "ok"
             /\ UNCHANGED <<toc, merge_jobs, job, ref, pending, allowed, count>>
             /\ segments' = (segments \ job[j].segs)
                               \cup (IF job[j].segs \cap segments = {} THEN {} ELSE {j})
             /\ j \in SegIds /\ j \notin segments \cup toc
             /\ \A i \in SegIds : i # j => seg'[i] = seg[i]
             /\ j \in segments' =>
                  /\ seg'[j].dict = seg[j].dict
                  /\ \E i \in job[j].segs \cap segments : seg'[j].rank = seg[i].rank
                  /\ \A i \in job[j].segs \cap segments : seg'[j].rank <= seg[i].rank
                  /\ \A k \in Deletions(seg'[j]) :
                        \E p \in job[j].segs : k \in seg[p].during_merge
  <1>1. PICK j \in merge_jobs :
          /\ job[j].status = "ok" /\ cur' = j /\ pc = "finalize" /\ pc' = "merge_toc"
          /\ segments' = (segments \ job[j].segs)
                            \cup (IF job[j].segs \cap segments = {} THEN {} ELSE {j})
          /\ seg' = IF job[j].segs \cap segments = {} THEN seg
                    ELSE [seg EXCEPT ![j] = MergedSegment(@.dict, MergedRank(j), Inherit(j))]
          /\ UNCHANGED <<toc, merge_jobs, job, ref, pending, allowed, count>>
    BY DEF FinalizeSwap, Finalizing, Remaining, jobVars, compilerVars, historyVars
  <1>2. j \in SegIds /\ job[j].segs \subseteq SegIds /\ j \notin segments \cup toc
    BY <1>1 DEF TypeOK, JobType, FilesInv, OutputsApart, Swapping
  <1>3. \A i \in SegIds : i # j => seg'[i] = seg[i]
    BY <1>1, <1>2 DEF TypeOK
  <1>4. ASSUME j \in segments'
        PROVE  /\ seg'[j].dict = seg[j].dict
               /\ \E i \in job[j].segs \cap segments : seg'[j].rank = seg[i].rank
               /\ \A i \in job[j].segs \cap segments : seg'[j].rank <= seg[i].rank
               /\ \A k \in Deletions(seg'[j]) :
                     \E p \in job[j].segs : k \in seg[p].during_merge
    <2> DEFINE R == {seg[i].rank : i \in job[j].segs \cap segments}
    <2>1. job[j].segs \cap segments # {}
      BY <1>1, <1>2, <1>4
    <2>2. R \in SUBSET Nat /\ R # {}
      BY <1>2, <2>1 DEF TypeOK, SegmentType
    <2>3. MergedRank(j) \in R /\ \A r \in R : MergedRank(j) <= r
      BY <2>2, MinIs DEF MergedRank
    <2>4. MergedRank(j) \in Nat /\ seg[j].dict \in [Keys -> Nat]
          /\ Inherit(j) \in SUBSET SegmentType
      BY <1>2, <2>2, <2>3 DEF TypeOK, SegmentType, Inherit
    <2>5. seg'[j] = MergedSegment(seg[j].dict, MergedRank(j), Inherit(j))
      BY <1>1, <1>2, <2>1 DEF TypeOK
    <2>6. seg'[j].dict = seg[j].dict /\ seg'[j].rank = MergedRank(j)
      BY <2>4, <2>5, MergedIs
    <2>7. Deletions(seg'[j]) \subseteq UNION {p.during_merge : p \in Inherit(j)}
      BY <2>4, <2>5, MergedDeletions
    <2>8. \A k \in Deletions(seg'[j]) : \E p \in job[j].segs : k \in seg[p].during_merge
      BY <2>7 DEF Inherit
    <2>9. QED
      BY <2>3, <2>6, <2>8
  <1>5. QED
    BY <1>1, <1>2, <1>3, <1>4

LEMMA FinalizeSwapKeepsValues ==
    ASSUME TypeOK, FilesInv, ParentsMarked, Disjoint, Runs, ValuesKept, FinalizeSwap
    PROVE  ValuesKept'
  <1>1. PICK j \in merge_jobs :
          /\ cur' = j /\ pc = "finalize" /\ pc' = "merge_toc" /\ job[j].status = "ok"
          /\ UNCHANGED <<toc, merge_jobs, job, ref, pending, allowed, count>>
          /\ segments' = (segments \ job[j].segs)
                            \cup (IF job[j].segs \cap segments = {} THEN {} ELSE {j})
          /\ j \in SegIds /\ j \notin segments \cup toc
          /\ \A i \in SegIds : i # j => seg'[i] = seg[i]
          /\ j \in segments' =>
               /\ seg'[j].dict = seg[j].dict
               /\ \E i \in job[j].segs \cap segments : seg'[j].rank = seg[i].rank
               /\ \A i \in job[j].segs \cap segments : seg'[j].rank <= seg[i].rank
               /\ \A k \in Deletions(seg'[j]) :
                     \E p \in job[j].segs : k \in seg[p].during_merge
    BY FinalizeSwapMakes
  <1>2. \A o \in merge_jobs : Busy(o) /\ (Busy(o)' <=> o # j)
    BY <1>1 DEF Busy, Swapping
  <1>3. /\ \A o \in merge_jobs : \A p \in job[o].segs : p \in segments
        /\ \A o \in merge_jobs \ {j} : job[o].segs \cap job[j].segs = {}
        /\ Contiguous(job[j].segs)
        /\ segments \subseteq SegIds /\ toc \subseteq SegIds /\ merge_jobs \subseteq SegIds
    BY <1>2 DEF ParentsMarked, Disjoint, Runs, TypeOK
  <1>4. \A i \in segments \cup toc : seg'[i] = seg[i]
    BY <1>1, <1>3
  <1>5. Ordered(segments)'
    BY FinalizeSwapKeepsFiles
  <1>6. \A i \in SegIds : seg[i].rank \in Nat
    BY DEF TypeOK, SegmentType
  <1>7. Computed(j) /\ Output(j) = seg[j].dict
    BY <1>1 DEF Computed, Output
  <1>8. \A k \in Keys : Settled(k)' <=> Settled(k)
    BY <1>1 DEF Settled
  \* A parent has the last value: the merged segment has it.
  <1>9. ASSUME NEW k \in Keys, Settled(k), NEW s \in job[j].segs, Top(segments, k, s)
        PROVE  /\ Top(segments, k, j)' /\ seg'[j].dict[k] = ref[k]
               /\ k \notin Deletions(seg'[j])
    <2>1. s \in segments /\ j \in segments'
      BY <1>1, <1>3
    <2>2. seg[j].dict[k] = ref[k] /\ ref[k] # Absent
          /\ \A p \in job[j].segs : k \notin seg[p].during_merge
      BY <1>2, <1>7, <1>9 DEF ValuesKept, MergesKeep, Settled
    <2>3. seg'[j].dict[k] = ref[k] /\ InDictionary(seg'[j], k) /\ k \notin Deletions(seg'[j])
      BY <1>1, <2>1, <2>2 DEF InDictionary
    <2>4. PICK i \in job[j].segs \cap segments : seg'[j].rank = seg[i].rank
      BY <1>1, <2>1
    <2>5. ASSUME NEW b \in segments', InDictionary(seg'[b], k)
          PROVE  seg'[b].rank <= seg'[j].rank
      <3>1. CASE b = j
        BY <1>3, <1>6, <2>4, <3>1
      <3>2. CASE b # j
        <4>1. b \in segments /\ b \notin job[j].segs
          BY <1>1, <3>2
        <4>2. InDictionary(seg[b], k) /\ seg'[b].rank = seg[b].rank
          BY <1>4, <2>5, <4>1
        <4>3. seg[b].rank <= seg[s].rank /\ seg[b].rank # seg[s].rank
          BY <1>9, <2>1, <4>1, <4>2 DEF Top, TypeOK
        <4>4. seg[b].rank < seg[s].rank
          BY <1>3, <1>6, <2>1, <4>1, <4>3
        <4>5. ~(seg[i].rank < seg[b].rank)
          BY <1>3, <2>4, <4>1, <4>4 DEF Contiguous
        <4>6. QED
          BY <1>3, <1>6, <2>4, <4>1, <4>2, <4>5
      <3>3. QED
        BY <3>1, <3>2
    <2>6. QED
      BY <2>1, <2>3, <2>5 DEF Top
  \* No parent has it: the merged segment does not come before the one that has.
  <1>10. ASSUME NEW k \in Keys, NEW s \in segments \ job[j].segs, Top(segments, k, s)
         PROVE  Top(segments, k, s)' /\ s \in segments' /\ seg'[s] = seg[s]
    <2>1. s \in segments' /\ seg'[s] = seg[s]
      BY <1>1, <1>4
    <2>2. ASSUME NEW b \in segments', InDictionary(seg'[b], k)
          PROVE  seg'[b].rank <= seg[s].rank
      <3>1. CASE b = j
        <4>1. seg[j].dict[k] # Absent
          BY <1>1, <2>2, <3>1 DEF InDictionary
        <4>2. PICK p \in job[j].segs : InDictionary(seg[p], k)
          BY <1>2, <1>7, <4>1 DEF ValuesKept, NothingAdded
        <4>3. p \in segments /\ seg'[j].rank <= seg[p].rank /\ seg[p].rank <= seg[s].rank
          BY <1>1, <1>3, <1>10, <2>2, <3>1, <4>2 DEF Top
        <4>4. seg'[j].rank \in Nat
          BY <1>1, <1>3, <1>6, <2>2, <3>1
        <4>5. QED
          BY <1>3, <1>6, <3>1, <4>3, <4>4
      <3>2. CASE b # j
        BY <1>1, <1>4, <1>10, <2>2, <3>2 DEF Top
      <3>3. QED
        BY <3>1, <3>2
    <2>3. QED
      BY <1>10, <2>1, <2>2 DEF Top
  <1>11. InMemory'
    <2>1. ASSUME NEW k \in Keys, Settled(k)' PROVE Found(segments, k)'
      <3>1. Settled(k)
        BY <1>8, <2>1
      <3>2. PICK s \in segments : /\ Top(segments, k, s) /\ seg[s].dict[k] = ref[k]
                                  /\ k \notin Deletions(seg[s])
        BY <1>1, <3>1 DEF ValuesKept, InMemory, Found
      <3>3. CASE s \in job[j].segs
        BY <1>1, <1>9, <3>1, <3>2, <3>3 DEF Found, Top
      <3>4. CASE s \notin job[j].segs
        BY <1>1, <1>10, <3>1, <3>2, <3>4 DEF Found, Top
      <3>5. QED
        BY <3>3, <3>4
    <2>2. QED
      BY <2>1 DEF InMemory
  <1>12. InToc'
    BY <1>1, <1>4, <1>8 DEF ValuesKept, InToc, Found, Top
  <1>13. \A o \in merge_jobs : o # j => (Computed(o)' <=> Computed(o)) /\ Output(o)' = Output(o)
    BY <1>1, <1>3 DEF Computed, Output
  <1>14. NothingAdded'
    BY <1>1, <1>2, <1>3, <1>4, <1>13 DEF ValuesKept, NothingAdded
  <1>15. ASSUME NEW o \in merge_jobs, o # j, NEW k \in Keys, Settled(k), NEW s \in job[o].segs,
                Top(segments, k, s)'
         PROVE  Top(segments, k, s)
    <2>1. PICK t \in segments : Top(segments, k, t)
      BY <1>1, <1>15 DEF ValuesKept, InMemory, Found
    <2>2. s \in segments /\ s # j
      BY <1>1, <1>3
    <2>3. PICK u \in segments' : Top(segments, k, u)' /\ (u = t \/ u = j)
      <3>1. CASE t \in job[j].segs
        BY <1>9, <1>15, <2>1, <3>1 DEF Top
      <3>2. CASE t \notin job[j].segs
        BY <1>10, <2>1, <3>2
      <3>3. QED
        BY <3>1, <3>2
    <2>4. s \in segments'
      BY <1>15 DEF Top
    <2>5. \A x \in segments' : seg'[x].rank \in Nat
      BY <1>1, <1>3, <1>4, <1>6
    <2>6. seg'[u].rank = seg'[s].rank
      <3>1. seg'[u].rank <= seg'[s].rank /\ seg'[s].rank <= seg'[u].rank
        BY <1>15, <2>3, <2>4 DEF Top
      <3>2. QED
        BY <2>3, <2>4, <2>5, <3>1
    <2>7. u = s
      BY <1>5, <2>3, <2>4, <2>6 DEF Ordered
    <2>8. QED
      BY <2>1, <2>2, <2>3, <2>7
  <1>16. MergesKeep'
    <2>1. ASSUME NEW o \in merge_jobs, Busy(o)', NEW k \in Keys, Settled(k)',
                 NEW s \in job[o].segs, Top(segments, k, s)'
          PROVE  /\ \A p \in job[o].segs : k \notin seg'[p].during_merge
                 /\ Computed(o)' => Output(o)'[k] = ref'[k]
      <3>1. o # j /\ Settled(k)
        BY <1>2, <1>8, <2>1
      <3>2. Top(segments, k, s)
        BY <1>15, <2>1, <3>1
      <3>3. /\ \A p \in job[o].segs : k \notin seg[p].during_merge
            /\ Computed(o) => Output(o)[k] = ref[k]
        BY <1>2, <3>1, <3>2 DEF ValuesKept, MergesKeep
      <3>4. QED
        BY <1>1, <1>3, <1>4, <1>13, <3>1, <3>3
    <2>2. QED
      BY <1>1, <2>1 DEF MergesKeep
  <1>17. QED
    BY <1>11, <1>12, <1>14, <1>16 DEF ValuesKept

\* The process dies: what a flush has covered is in the table of contents.
LEMMA DownKeepsValues ==
    ASSUME TypeOK, Waiting, ValuesKept, Down
    PROVE  ValuesKept'
  <1>1. /\ UNCHANGED <<toc, ref, allowed>> /\ merge_jobs' = {} /\ pc' = "down"
        /\ toc \subseteq SegIds
    BY DEF Down, historyVars, TypeOK
  <1>2. \A i \in toc : /\ SamePlace(seg'[i], seg[i])
                       /\ Deletions(seg'[i]) \subseteq Deletions(seg[i])
    <2>1. \A i \in SegIds : seg'[i] = Remains(seg[i]) /\ seg[i] \in SegmentType
      BY DEF Down, Remains, TypeOK
    <2>2. QED
      BY <1>1, <2>1, RemainsIs, RemainsDeletions DEF Deletions
  <1>3. ASSUME NEW k \in Keys, Settled(k)', Covered(k)' PROVE Found(toc, k)'
    <2>1. Covered(k) /\ ref[k] # Absent
      BY <1>1, <1>3 DEF Covered, Settled
    <2>2. Settled(k)
      BY <2>1 DEF Settled, Waiting
    <2>3. Found(toc, k)
      BY <2>1, <2>2 DEF ValuesKept, InToc
    <2>4. QED
      BY <1>1, <1>2, <2>3 DEF Found, Top, SamePlace, InDictionary
  <1>4. InMemory' /\ InToc'
    BY <1>1, <1>3 DEF InMemory, InToc
  <1>5. NothingAdded' /\ MergesKeep'
    BY <1>1 DEF NothingAdded, MergesKeep
  <1>6. QED
    BY <1>4, <1>5 DEF ValuesKept

\* LoadIndex: the history starts with what is on disk.
LEMMA OpenKeepsValues ==
    ASSUME TypeOK, FilesInv, DownEmpty, Open
    PROVE  ValuesKept'
  <1>1. /\ segments' = toc /\ toc' = toc /\ merge_jobs' = {} /\ pc' = "idle"
        /\ \A k \in Keys : ref'[k] = Durable(k)
        /\ toc \subseteq SegIds
    BY DEF Open, jobVars, DownEmpty, TypeOK
  <1>2. \A i \in toc : SamePlace(seg'[i], seg[i]) /\ Deletions(seg'[i]) \subseteq OnDisk(seg[i])
    <2>1. \A i \in toc : seg'[i] = OpenSegment(seg[i]) /\ seg[i] \in SegmentType
      BY <1>1 DEF Open, TypeOK
    <2>2. QED
      BY <2>1, OpenKeeps, OpenDeletions
  <1>3. ASSUME NEW k \in Keys, Settled(k)' PROVE Found(toc, k)'
    <2>1. Durable(k) # Absent
      BY <1>1, <1>3 DEF Settled
    <2>2. PICK s \in toc : /\ Top(toc, k, s) /\ seg[s].dict[k] = Durable(k)
                           /\ k \notin OnDisk(seg[s])
      BY <2>1, DurableIsFound
    <2>3. QED
      BY <1>1, <1>2, <2>2 DEF Found, Top, SamePlace, InDictionary
  <1>4. \A k \in Keys : Found(toc, k)' => Found(segments, k)'
    BY <1>1 DEF Found, Top
  <1>5. InMemory' /\ InToc'
    BY <1>3, <1>4 DEF InMemory, InToc
  <1>6. NothingAdded' /\ MergesKeep'
    BY <1>1 DEF NothingAdded, MergesKeep
  <1>7. QED
    BY <1>5, <1>6 DEF ValuesKept

LEMMA ValuesStep ==
    ASSUME TypeOK, FilesInv, ApartInv, ValuesInv, Policy = "tiered", [Next]_vars
    PROVE  ValuesInv'
  <1>1. Numbered /\ Waiting /\ ListsApart
    BY DEF ValuesInv
  <1>2. Numbered' /\ Waiting' /\ ListsApart'
    BY <1>1, NumberedStep, WaitingStep, ListsStep
  <1>3. ASSUME count'.failures = 0 PROVE ValuesKept'
    <2>1. count.failures = 0 /\ \A j \in merge_jobs : ~MergeFails(j)
      <3>1. \A j \in merge_jobs : ~MergeFails(j)
        BY <1>3 DEF MergeFails, TypeOK, CountType
      <3>2. count'.failures = count.failures
        BY <3>1 DEF Next, Worker, Merger, Add, Delete, Get, StartFlush, StartCompile,
             StartScheduled, StartClose, PersistNext, PersistDone, NothingToCompile, Compile,
             CompileToc, StillRunning, FinalizeFailed, FinalizeSwap, MergeToc, RemoveOld,
             FinalizeDone, NoMerge, RunMerge, WaitForMerges, Shutdown, MergeLoad,
             MergeLoadFails, MergeFinish, RequestClose, Crash, Open, Begin, vars,
             TypeOK, CountType
      <3>3. QED
        BY <1>3, <3>1, <3>2
    <2>2. NoneFailed /\ ParentsMarked /\ Disjoint /\ Runs /\ DownEmpty
      BY <2>1 DEF ApartInv
    <2>3. ValuesKept
      BY <2>1 DEF ValuesInv, ValuesKept
    <2>4. ~FinalizeFailed
      BY <2>2 DEF FinalizeFailed, NoneFailed
    <2>5. \A j \in merge_jobs : ~MergeLoadFails(j)
      <3>1. ASSUME NEW j \in merge_jobs, MergeLoadFails(j) PROVE FALSE
        <4>1. Busy(j)
          BY <3>1 DEF MergeLoadFails, Busy, FilesInv, InSwap
        <4>2. QED
          BY <2>2, <3>1, <4>1 DEF MergeLoadFails, ParentsMarked, FilesInv, FilesThere
      <3>2. QED
        BY <3>1
    <2>6. CASE Shutdown \/ Crash
      BY <1>1, <2>3, <2>6, DownKeepsValues DEF Shutdown, Crash
    <2>7. CASE Open
      BY <2>2, <2>7, OpenKeepsValues
    <2>8. CASE \/ \E k \in sc.keys : Add(k) \/ Delete(k) \/ Get(k)
               \/ StartFlush \/ StartCompile \/ StartScheduled \/ StartClose
               \/ PersistNext \/ PersistDone \/ NothingToCompile
               \/ StillRunning \/ FinalizeDone \/ NoMerge \/ WaitForMerges
               \/ RequestClose
               \/ UNCHANGED vars
      BY <1>1, <2>2, <2>3, <2>8, QuietStepsKeepValues
    <2>9. CASE Compile \/ CompileToc \/ MergeToc \/ RemoveOld
      BY <1>1, <2>2, <2>3, <2>9, CompileKeepsValues, TocKeepsValues, RemoveOldKeepsValues
    <2>10. CASE FinalizeSwap \/ RunMerge
      BY <1>1, <2>2, <2>3, <2>10, FinalizeSwapKeepsValues, RunMergeKeepsValues
    <2>11. ASSUME NEW j \in merge_jobs, MergeLoad(j) \/ MergeFinish(j) PROVE ValuesKept'
      BY <2>2, <2>3, <2>11, MergeLoadKeepsValues, MergeFinishKeepsValues
    <2>12. QED
      BY <2>1, <2>4, <2>5, <2>6, <2>7, <2>8, <2>9, <2>10, <2>11 DEF Next, Worker, Merger
  <1>4. QED
    BY <1>2, <1>3 DEF ValuesInv, ValuesKept

LEMMA ValuesInit == Init => ValuesInv
  <1> SUFFICES ASSUME Init PROVE ValuesInv
    OBVIOUS
  <1>1. /\ segments = {} /\ toc = {} /\ merge_jobs = {} /\ pc = "down" /\ ~has_compiler
        /\ count.writes = 0
        /\ \A k \in Keys : ref[k] = 0 /\ pending[k] = 0 /\ allowed[k] = {0}
    BY DEF Init, Nothing, Absent
  <1>2. \A i \in SegIds, k \in Keys : seg[i].dict[k] = 0 /\ job[i].out[k] = 0
    BY DEF Init, NoSegment, NoJob, Absent
  <1>3. Numbered
    BY <1>1, <1>2 DEF Numbered
  <1>4. Waiting /\ ListsApart
    BY <1>1 DEF Waiting, ListsApart, Absent
  <1>5. InMemory /\ InToc /\ NothingAdded /\ MergesKeep
    BY <1>1 DEF InMemory, InToc, NothingAdded, MergesKeep, Settled, Absent
  <1>6. QED
    BY <1>3, <1>4, <1>5 DEF ValuesInv

\* What the inductive invariant says of the lookups
LEMMA ValuesFound ==
    ASSUME TypeOK, FilesInv, ValuesInv
    PROVE  SetsSurvive
  <1>1. ASSUME count.failures = 0, NEW k \in Keys, ref[k] # Absent, allowed[k] = {ref[k]}
        PROVE  Durable(k) = ref[k] /\ (pc # "down" => Visible(k) = ref[k])
    <2>1. Settled(k) /\ Covered(k)
      BY <1>1 DEF ValuesInv, Waiting, Settled, Covered
    <2>2. Found(toc, k) /\ (pc # "down" => Found(segments, k))
      BY <1>1, <2>1 DEF ValuesInv, InMemory, InToc
    <2>3. QED
      BY <2>2, FoundIsVisible, FoundIsDurable
  <1>2. QED
    BY <1>1 DEF SetsSurvive

(***************************************************************************)
(* The inductive invariant behind SetsSurvive, for the proofs about        *)
(* deletes: the values are numbered by their writes, what waits for        *)
(* Compile was set last, and the last value of a key is in the newest      *)
(* segment with the key, in memory and on disk (Compile, FinalizeMerge,    *)
(* RunMerge, LoadIndex).                                                   *)
(***************************************************************************)
THEOREM ValuesInvariant ==
    ASSUME Policy = "tiered"
    PROVE  Spec => []ValuesInv
  <1>1. Init => ValuesInv
    BY ValuesInit
  <1>2. TypeOK /\ FilesInv /\ ApartInv /\ ValuesInv /\ [Next]_vars => ValuesInv'
    BY ValuesStep
  <1>3. Spec => []ApartInv
    BY ApartInvariant
  <1>4. QED
    BY <1>1, <1>2, <1>3, FilesInvariant, PTL DEF Spec

(***************************************************************************)
(* Under the tiered policy a value that was set and flushed is found, by   *)
(* lookups in the process and by every process that opens the directory,   *)
(* until the key is set or deleted again: whatever merges run at the same  *)
(* time, wherever the process dies, and as long as no merge has failed     *)
(* (Compile, FinalizeMerge, RunMerge, LoadIndex, Segment).                 *)
(***************************************************************************)
THEOREM SetsTheorem ==
    ASSUME Policy = "tiered"
    PROVE  Spec => []SetsSurvive
  <1>1. TypeOK /\ FilesInv /\ ValuesInv => SetsSurvive
    BY ValuesFound
  <1>2. Spec => []ValuesInv
    BY ValuesInvariant
  <1>3. QED
    BY <1>1, <1>2, FilesInvariant, PTL

-----------------------------------------------------------------------------
(***************************************************************************)
(* What a flush promises of deletes, for every instance.  A delete that a  *)
(* segment knows of is known in every older segment with the key (Deeper), *)
(* so that nothing reappears when a merge drops the key from a newer one;  *)
(* it has been told to readers or waits for PersistDeletes (Pending), and  *)
(* where a merge may drop the key readers already know of it further down  *)
(* (Behind).  A merged segment has what its newest parent says (Exact),    *)
(* except for ignored keys, and inherits what its parents received in the  *)
(* meantime (During).  Permitted and Values compare what lookups find with *)
(* the outcomes that the calls allow.                                      *)
(***************************************************************************)

\* What has to be true of the deletes

\* A reader of segment i takes the key for deleted, or will once the segment,
\* a merged one, has read the list that it inherited and wrote.
Tells(t, i, k) ==
    \/ IsDeleted(t, k)
    \/ t.rank # i /\ k \in t.for_write /\ k \in OnDisk(t) /\ ~t.has_deleted_keys

Told(i, k) == Tells(seg[i], i, k)

\* The segments that the process works with, or will once it is started
List == IF pc = "down" THEN toc ELSE segments

\* Segment o comes before s and both have the key.
Older(o, s, k) == /\ InDictionary(seg[o], k) /\ InDictionary(seg[s], k)
                  /\ seg[o].rank < seg[s].rank

\* Where the worker is: when the two lists agree, when every delete is
\* persisted, and what the last task finds.
Flow ==
    /\ pc \notin {"down", "compile_toc", "merge_toc"} => toc = segments
    /\ pc = "down" => segments = {} /\ ~any_delete
    /\ pc = "persist" => todo \subseteq segments
    /\ pc \in {"compile", "compile_toc"} /\ task \in {"flush", "scheduled", "last"}
          => ~any_delete
    /\ pc = "finished" => task = "last" /\ ~any_delete
    /\ pc = "wait" => task = "close"
    /\ task \in {"close", "last"} => ~merge_enabled
    /\ task = "last" => \A j \in merge_jobs :
                           Done(j) /\ j \in todo /\ pc \in {"finalize", "merge_toc", "remove"}

\* A mark belongs to a merge, which is younger than its parents.
Marks ==
    /\ \A i \in segments : seg[i].in_merge => \E j \in merge_jobs : Busy(j) /\ i \in job[j].segs
    /\ \A j \in merge_jobs : Busy(j) => \A i \in job[j].segs : seg[i].rank < j
    /\ pc = "down" => \A i \in toc : ~seg[i].in_merge

Booked == \A i \in toc \cup segments : Consistent(seg[i])

\* A delete that readers are not told of waits for PersistDeletes.
Pending ==
    \A i \in List, k \in Keys : k \in Known(seg[i]) =>
        \/ Told(i, k)
        \/ any_delete /\ seg[i].new_delete /\ (pc = "persist" => i \in todo)

\* A delete reaches the older segments too.
Deeper ==
    \A o, s \in List, k \in Keys \ ignored :
        Older(o, s, k) /\ k \in Known(seg[s]) => k \in Known(seg[o])

\* Readers know of it in the older ones when a merge may drop the key.
Behind ==
    \A o, s \in segments, k \in Keys \ ignored :
        Older(o, s, k) /\ seg[s].in_merge /\ k \in ReadDeleted(seg[s].dk) =>
            Told(o, k) \/ (pc = "persist" /\ o \in todo)

\* The last call for the key was a Delete: the newest segment knows.
Gone ==
    \A k \in Keys \ ignored, s \in List :
        ref[k] = Absent /\ Top(List, k, s) => k \in Known(seg[s])

PermittedIn(S) ==
    \A k \in Keys :
        /\ \A s \in S : Top(S, k, s) /\ k \in Known(seg[s]) => Absent \in allowed[k]
        /\ (\A s \in S : ~InDictionary(seg[s], k)) => Absent \in allowed[k]

\* Where a lookup finds nothing or a delete, this is a permitted outcome.
Permitted == PermittedIn(toc) /\ (pc # "down" => PermittedIn(segments))

ValuesIn(S) ==
    \A k \in Keys \ ignored, s \in S :
        Top(S, k, s) => seg[s].dict[k] \in allowed[k] \/ Told(s, k)

\* Where it finds a value, this is a permitted outcome or known to be deleted.
Values == ValuesIn(toc) /\ (pc # "down" => ValuesIn(segments))

\* A delete received during a merge reaches all parents with the key.
During ==
    \A j \in merge_jobs : Busy(j) => \A p, q \in job[j].segs, k \in Keys :
        k \in seg[p].during_merge /\ InDictionary(seg[q], k) => k \in seg[q].during_merge

\* The output of a merge is what the newest parent says, but for ignored keys.
Exact ==
    \A j \in merge_jobs : Busy(j) /\ Computed(j) => \A k \in Keys, p \in job[j].segs :
        Top(job[j].segs, k, p) =>
            IF k \in ReadDeleted(seg[p].dk)
            THEN k \in ignored \/ Output(j)[k] = Absent
            ELSE Output(j)[k] = seg[p].dict[k]

DeletesKept ==
    /\ Flow /\ Marks /\ Booked /\ Pending /\ Deeper /\ Behind /\ Gone /\ Permitted /\ Values
    /\ During /\ Exact

DeletesInv == Undisturbed => DeletesKept

-----------------------------------------------------------------------------
\* What the methods of Segment do to the deletes a segment knows of

\* b is what a method makes of a, segment i: nothing known or told is
\* forgotten, nothing is added but the keys in D; the list a merge has read
\* stays, and what it does not know of is in the other one.
Method(b, a, i, D) ==
    /\ SamePlace(b, a) /\ Consistent(b)
    /\ Known(a) \subseteq Known(b) /\ Known(b) \subseteq Known(a) \cup D
    /\ \A k \in Keys : Tells(a, i, k) => Tells(b, i, k)
    /\ a.new_delete \/ Known(b) # Known(a) => b.new_delete
    /\ a.in_merge => /\ b.in_merge /\ ReadDeleted(b.dk) = ReadDeleted(a.dk)
                     /\ a.during_merge \subseteq b.during_merge
                     /\ b.during_merge \subseteq a.during_merge \cup D

LEMMA TellsOnDisk ==
    ASSUME NEW t \in SegmentType, Consistent(t), NEW i, NEW k \in Keys, Tells(t, i, k)
    PROVE  k \in OnDisk(t) /\ k \in Known(t)
  <1>1. k \in OnDisk(t)
    BY IsDeletedOnDisk DEF Tells
  <1>2. QED
    BY <1>1 DEF Known

LEMMA SameMethod ==
    ASSUME NEW t \in SegmentType, Consistent(t), NEW i, NEW D
    PROVE  Method(t, t, i, D)
  BY DEF Method, SamePlace

\* A consistent segment that takes part in a merge has its lists loaded, or
\* they are empty.
LEMMA LazyLoadMethod ==
    ASSUME NEW t \in SegmentType, Consistent(t), t.in_merge => t.deletes_loaded, NEW i
    PROVE  /\ Method(LazyLoadDeletedKeys(t), t, i, {})
           /\ LazyLoadDeletedKeys(t).in_merge = t.in_merge
  <1> DEFINE r == LazyLoadDeletedKeys(t)
  <1>1. CASE t.deletes_loaded
    BY <1>1, SameMethod DEF LazyLoadDeletedKeys
  <1>2. CASE ~t.deletes_loaded
    <2>1. /\ Consistent(r) /\ Known(r) = Known(t) /\ r.in_merge = t.in_merge /\ r.deletes_loaded
          /\ r \in SegmentType /\ SamePlace(r, t)
      BY LazyLoadConsistent, LazyLoadType, LazyLoadKeeps
    <2>2. r.new_delete = t.new_delete
      BY <1>2, LazyLoadFields
    <2>3. LazyLoadDeletedKeys(r) = r
      BY <2>1 DEF LazyLoadDeletedKeys
    <2>4. ASSUME NEW k \in Keys, Tells(t, i, k) PROVE Tells(r, i, k)
      <3>1. IsDeleted(t, k)
        BY <1>2, <2>4 DEF Tells, Consistent
      <3>2. r.has_deleted_keys /\ k \in r.deleted_keys
        BY <3>1 DEF IsDeleted
      <3> HIDE DEF r
      <3>3. IsDeleted(r, k)
        BY <2>3, <3>2 DEF IsDeleted
      <3>4. QED
        BY <3>3 DEF Tells
    <2>5. ~t.in_merge
      BY <1>2
    <2> HIDE DEF r
    <2>6. QED
      BY <2>1, <2>2, <2>4, <2>5 DEF Method, r
  <1>3. QED
    BY <1>1, <1>2 DEF SegmentType

LEMMA PersistMethod ==
    ASSUME NEW t \in SegmentType, Consistent(t), NEW i
    PROVE  LET b == PersistAndReload(t) IN
             /\ Method(b, t, i, {}) /\ b.in_merge = t.in_merge
             /\ t.new_delete => \A k \in Keys : k \in Known(t) => Tells(b, i, k)
  <1>1. CASE ~t.new_delete
    BY <1>1, SameMethod DEF PersistAndReload
  <1>2. CASE t.new_delete
    <2> DEFINE p == Persist(t)
               b == LoadDeletedKeys(p)
    <2>1. /\ p \in SegmentType /\ Consistent(p) /\ OnDisk(p) = Known(t) /\ Known(p) = Known(t)
          /\ SamePlace(p, t) /\ p.in_merge = t.in_merge
      BY PersistType, PersistConsistent, PersistKeeps
    <2>2. p.new_delete = t.new_delete /\ p.during_merge = t.during_merge
          /\ (t.in_merge => p.dk = t.dk)
      BY <1>2 DEF Persist, SegmentType
    <2> HIDE DEF p
    <2>3. /\ Consistent(b) /\ Known(b) = Known(t) /\ SamePlace(b, t) /\ b.in_merge = t.in_merge
          /\ b.new_delete = t.new_delete /\ b.during_merge = t.during_merge
          /\ (t.in_merge => b.dk = t.dk)
      BY <2>1, <2>2, LoadConsistent, LoadKeeps, LoadFields DEF SamePlace
    <2>4. ASSUME NEW k \in Keys, k \in Known(t) PROVE Tells(b, i, k)
      BY <2>1, <2>4, LoadShowsAll DEF Tells
    <2>5. \A k \in Keys : Tells(t, i, k) => Tells(b, i, k)
      BY <2>4, TellsOnDisk
    <2>6. PersistAndReload(t) = b
      BY <1>2 DEF PersistAndReload, p
    <2> HIDE DEF b
    <2>7. Method(b, t, i, {})
      BY <1>2, <2>3, <2>5 DEF Method
    <2>8. QED
      BY <2>3, <2>4, <2>6, <2>7
  <1>3. QED
    BY <1>1, <1>2

LEMMA DeleteMethod ==
    ASSUME NEW t \in SegmentType, Consistent(t), t.in_merge => t.deletes_loaded, NEW i,
           NEW k \in Keys
    PROVE  LET b == DeleteKey(t, k) IN
             /\ Method(b, t, i, {k}) /\ b.in_merge = t.in_merge
             /\ InDictionary(t, k) => k \in Known(b) /\ (t.in_merge => k \in b.during_merge)
  <1>1. CASE ~InDictionary(t, k)
    BY <1>1, SameMethod DEF DeleteKey
  <1>2. CASE InDictionary(t, k)
    <2> DEFINE r == LazyLoadDeletedKeys(t)
               b == DeleteKey(t, k)
    <2>1. /\ r \in SegmentType /\ Method(r, t, i, {}) /\ r.in_merge = t.in_merge /\ r.deletes_loaded
      BY LazyLoadType, LazyLoadMethod, LazyLoadConsistent
    <2>2. b = [r EXCEPT !.during_merge = IF r.in_merge THEN @ \cup {k} ELSE @,
                        !.for_write    = IF r.in_merge THEN @ ELSE @ \cup {k},
                        !.new_delete   = TRUE]
      BY <1>2 DEF DeleteKey
    <2>3. Consistent(b) /\ Known(t) \subseteq Known(b) /\ k \in Known(b) /\ b \in SegmentType
      BY <1>2, DeleteKeyConsistent, DeleteKeyType
    <2> HIDE DEF r, b
    <2>4. /\ b.dk = r.dk /\ b.dkm = r.dkm /\ b.deleted_keys = r.deleted_keys
          /\ b.has_deleted_keys = r.has_deleted_keys /\ b.new_delete
          /\ b.during_merge = IF r.in_merge THEN r.during_merge \cup {k} ELSE r.during_merge
          /\ b.for_write = IF r.in_merge THEN r.for_write ELSE r.for_write \cup {k}
          /\ b.in_merge = r.in_merge /\ b.deletes_loaded
          /\ b.rank = r.rank /\ b.kv = r.kv /\ b.dict = r.dict
      BY <2>1, <2>2 DEF SegmentType
    <2>5. Known(b) \subseteq Known(r) \cup {k} /\ OnDisk(b) = OnDisk(r)
      BY <2>4 DEF Known, OnDisk
    <2>6. \A q \in Keys : Tells(r, i, q) => Tells(b, i, q)
      <3>1. LazyLoadDeletedKeys(r) = r /\ LazyLoadDeletedKeys(b) = b
        BY <2>1, <2>4 DEF LazyLoadDeletedKeys
      <3>2. \A q \in Keys : IsDeleted(r, q) => IsDeleted(b, q)
        BY <2>4, <3>1 DEF IsDeleted
      <3>3. QED
        BY <2>4, <2>5, <3>2 DEF Tells
    <2>7. Method(b, t, i, {k})
      BY <2>1, <2>3, <2>4, <2>5, <2>6 DEF Method, SamePlace
    <2>8. QED
      BY <2>1, <2>3, <2>4, <2>7 DEF b
  <1>3. QED
    BY <1>1, <1>2

LEMMA ElectedMethod ==
    ASSUME NEW t \in SegmentType, Consistent(t), ~t.in_merge, NEW i
    PROVE  LET e == ElectedForMerge(LazyLoadDeletedKeys(t)) IN
             /\ Method(e, t, i, {}) /\ e.in_merge /\ e.deletes_loaded /\ e.during_merge = {}
             /\ ReadDeleted(e.dk) \subseteq Known(t)
  <1> DEFINE r == LazyLoadDeletedKeys(t)
             p == Persist(r)
             e == ElectedForMerge(r)
  <1>1. /\ r \in SegmentType /\ Consistent(r) /\ Method(r, t, i, {}) /\ ~r.in_merge
        /\ r.deletes_loaded /\ Known(r) = Known(t)
    BY LazyLoadType, LazyLoadMethod, LazyLoadConsistent
  <1> HIDE DEF r
  <1>2. /\ Consistent(e) /\ OnDisk(e) = Known(t) /\ Known(e) = Known(t)
    BY <1>1, ElectedConsistent
  <1>3. p \in SegmentType
    BY <1>1, PersistType
  <1>4. /\ p.during_merge = r.during_merge /\ p.for_write = r.for_write
        /\ p.has_deleted_keys = r.has_deleted_keys /\ p.deleted_keys = r.deleted_keys
        /\ p.deletes_loaded = r.deletes_loaded /\ p.new_delete = r.new_delete
        /\ p.rank = r.rank /\ p.kv = r.kv /\ p.dict = r.dict
    BY <1>1 DEF Persist, SegmentType
  <1> HIDE DEF p
  <1>5. e = [p EXCEPT !.in_merge = TRUE]
    BY DEF ElectedForMerge, p
  <1> HIDE DEF e
  <1>6. /\ e.during_merge = r.during_merge /\ e.for_write = r.for_write
        /\ e.has_deleted_keys = r.has_deleted_keys /\ e.deleted_keys = r.deleted_keys
        /\ e.deletes_loaded /\ e.new_delete = r.new_delete /\ e.in_merge
        /\ e.rank = r.rank /\ e.kv = r.kv /\ e.dict = r.dict
    BY <1>1, <1>3, <1>4, <1>5 DEF SegmentType
  <1>7. e.during_merge = {}
    BY <1>1, <1>6 DEF Consistent
  <1>8. OnDisk(r) \subseteq OnDisk(e)
    BY <1>1, <1>2 DEF Known
  <1>9. ASSUME NEW k \in Keys, Tells(r, i, k) PROVE Tells(e, i, k)
    <2>1. LazyLoadDeletedKeys(r) = r /\ LazyLoadDeletedKeys(e) = e
      BY <1>1, <1>6 DEF LazyLoadDeletedKeys
    <2>2. IsDeleted(r, k) => IsDeleted(e, k)
      BY <1>6, <2>1 DEF IsDeleted
    <2>3. QED
      BY <1>6, <1>8, <1>9, <2>2 DEF Tells
  <1>10. Method(e, t, i, {})
    BY <1>1, <1>2, <1>6, <1>9 DEF Method, SamePlace
  <1>11. ReadDeleted(e.dk) \subseteq Known(t)
    BY <1>2 DEF OnDisk
  <1>12. QED
    BY <1>6, <1>7, <1>10, <1>11 DEF e, r

-----------------------------------------------------------------------------
\* Steps that leave the lists of segments and the merges as they are

\* A step whose effect on the segments is that of methods.  A key in D was
\* deleted in every segment that has it.
Methods(D) ==
    /\ UNCHANGED <<segments, toc, ignored>>
    /\ pc' = "down" <=> pc = "down"
    /\ \A i \in toc \cup segments : Method(seg'[i], seg[i], i, D)
    /\ D # {} => pc # "down" /\ toc = segments
    /\ \A i \in segments, k \in D : InDictionary(seg[i], k) => k \in Known(seg'[i])

\* And that leaves the merges alone
Steady(D) ==
    /\ Methods(D) /\ UNCHANGED merge_jobs
    /\ \A j \in merge_jobs : /\ job'[j] = job[j] /\ seg'[j].dict = seg[j].dict
                             /\ Busy(j)' <=> Busy(j)
    /\ \A i \in toc \cup segments : seg'[i].in_merge = seg[i].in_merge
    /\ \A i \in segments, k \in D :
          InDictionary(seg[i], k) /\ seg[i].in_merge => k \in seg'[i].during_merge

LEMMA MethodsPlaces ==
    ASSUME NEW D, Methods(D)
    PROVE  /\ \A i \in toc \cup segments : /\ seg'[i].dict = seg[i].dict
                                           /\ seg'[i].rank = seg[i].rank
           /\ List' = List /\ List \subseteq toc \cup segments
  <1>1. \A i \in toc \cup segments : /\ seg'[i].dict = seg[i].dict
                                     /\ seg'[i].rank = seg[i].rank
    BY DEF Methods, Method, SamePlace
  <1>2. List' = List /\ List \subseteq toc \cup segments
    BY DEF Methods, List
  <1>3. QED
    BY <1>1, <1>2

LEMMA SteadyPlaces ==
    ASSUME TypeOK, ParentsMarked, NEW D, Steady(D)
    PROVE  /\ \A j \in merge_jobs : Busy(j) => /\ job[j].segs \subseteq segments
                                               /\ \A p \in job[j].segs : seg[p].in_merge
           /\ \A j \in merge_jobs : Output(j)' = Output(j) /\ (Computed(j)' <=> Computed(j))
  <1>1. \A j \in merge_jobs : Busy(j) => /\ job[j].segs \subseteq segments
                                         /\ \A p \in job[j].segs : seg[p].in_merge
    BY DEF ParentsMarked
  <1>2. \A j \in merge_jobs : Output(j)' = Output(j) /\ (Computed(j)' <=> Computed(j))
    BY DEF Steady, Output, Computed
  <1>3. QED
    BY <1>1, <1>2

LEMMA SteadyTop ==
    ASSUME NEW S, NEW k, NEW s,
           \A i \in S : seg'[i].dict = seg[i].dict /\ seg'[i].rank = seg[i].rank,
           s \in S /\ InDictionary(seg'[s], k)
             /\ \A i \in S : InDictionary(seg'[i], k) => seg'[i].rank <= seg'[s].rank
    PROVE  Top(S, k, s)
  BY DEF Top, InDictionary

LEMMA MethodsKeep ==
    ASSUME Booked, Deeper, Gone, NEW D, Methods(D),
           \A k \in Keys : ref'[k] = Absent => ref[k] = Absent \/ k \in D
    PROVE  Booked' /\ Deeper' /\ Gone'
  <1>0. /\ segments' = segments /\ toc' = toc /\ ignored' = ignored
        /\ \A i \in toc \cup segments : Method(seg'[i], seg[i], i, D)
    BY DEF Methods
  <1>1. /\ \A i \in toc \cup segments : /\ seg'[i].dict = seg[i].dict
                                        /\ seg'[i].rank = seg[i].rank
        /\ List' = List /\ List \subseteq toc \cup segments
    BY MethodsPlaces
  <1>2. \A i \in toc \cup segments, k \in Keys : InDictionary(seg'[i], k) <=> InDictionary(seg[i], k)
    BY <1>1 DEF InDictionary
  <1>3. D # {} => List = segments
    BY DEF Methods, List
  <1>4. Booked'
    BY <1>0 DEF Booked, Method
  <1>5. Deeper'
    <2>1. ASSUME NEW o \in List, NEW s \in List, NEW k \in Keys \ ignored,
                 InDictionary(seg'[o], k), InDictionary(seg'[s], k), seg'[o].rank < seg'[s].rank,
                 k \in Known(seg'[s])
          PROVE  k \in Known(seg'[o])
      <3>1. Older(o, s, k)
        BY <1>1, <1>2, <2>1 DEF Older
      <3>2. CASE k \in Known(seg[s])
        <4>1. k \in Known(seg[o])
          BY <2>1, <3>1, <3>2 DEF Deeper
        <4>2. QED
          BY <1>0, <1>1, <4>1 DEF Method
      <3>3. CASE k \notin Known(seg[s])
        <4>1. k \in D
          BY <1>0, <1>1, <2>1, <3>3 DEF Method
        <4>2. QED
          BY <1>3, <3>1, <4>1 DEF Methods, Older
      <3>4. QED
        BY <3>2, <3>3
    <2>2. QED
      BY <1>0, <1>1, <2>1 DEF Deeper, Older
  <1>6. Gone'
    <2>1. ASSUME NEW k \in Keys \ ignored, NEW s \in List, ref'[k] = Absent,
                 InDictionary(seg'[s], k),
                 \A i \in List : InDictionary(seg'[i], k) => seg'[i].rank <= seg'[s].rank
          PROVE  k \in Known(seg'[s])
      <3>1. Top(List, k, s)
        BY <1>1, <2>1, SteadyTop
      <3>2. CASE ref[k] = Absent
        <4>1. k \in Known(seg[s])
          BY <2>1, <3>1, <3>2 DEF Gone
        <4>2. QED
          BY <1>0, <1>1, <4>1 DEF Method
      <3>3. CASE k \in D
        BY <1>3, <3>1, <3>3 DEF Methods, Top
      <3>4. QED
        BY <2>1, <3>2, <3>3
    <2>2. QED
      BY <1>0, <1>1, <2>1 DEF Gone, Top
  <1>7. QED
    BY <1>4, <1>5, <1>6

LEMMA SteadyMerges ==
    ASSUME TypeOK, ParentsMarked, During, Exact, NEW D, Steady(D)
    PROVE  During' /\ Exact'
  <1>0. /\ segments' = segments /\ merge_jobs' = merge_jobs /\ ignored' = ignored
        /\ \A i \in toc \cup segments : Method(seg'[i], seg[i], i, D)
        /\ \A j \in merge_jobs : job'[j] = job[j] /\ (Busy(j)' <=> Busy(j))
        /\ Methods(D)
    BY DEF Steady, Methods
  <1>1. /\ \A i \in toc \cup segments : /\ seg'[i].dict = seg[i].dict
                                        /\ seg'[i].rank = seg[i].rank
        /\ \A j \in merge_jobs : Busy(j) => /\ job[j].segs \subseteq segments
                                            /\ \A p \in job[j].segs : seg[p].in_merge
        /\ \A j \in merge_jobs : Output(j)' = Output(j) /\ (Computed(j)' <=> Computed(j))
    BY <1>0, SteadyPlaces, MethodsPlaces
  <1>2. \A i \in toc \cup segments, k \in Keys : InDictionary(seg'[i], k) <=> InDictionary(seg[i], k)
    BY <1>1 DEF InDictionary
  <1>7. During'
    <2>1. ASSUME NEW j \in merge_jobs, Busy(j), NEW p \in job[j].segs, NEW q \in job[j].segs,
                 NEW k \in Keys, k \in seg'[p].during_merge, InDictionary(seg'[q], k)
          PROVE  k \in seg'[q].during_merge
      <3>1. p \in segments /\ q \in segments /\ seg[p].in_merge /\ seg[q].in_merge
            /\ InDictionary(seg[q], k)
        BY <1>1, <1>2, <2>1
      <3>2. CASE k \in seg[p].during_merge
        <4>1. k \in seg[q].during_merge
          BY <2>1, <3>1, <3>2 DEF During
        <4>2. QED
          BY <1>0, <3>1, <4>1 DEF Method
      <3>3. CASE k \notin seg[p].during_merge
        <4>1. k \in D
          BY <1>0, <2>1, <3>1, <3>3 DEF Method
        <4>2. QED
          BY <3>1, <4>1 DEF Steady
      <3>4. QED
        BY <3>2, <3>3
    <2>2. QED
      BY <1>0, <2>1 DEF During
  <1>8. Exact'
    <2>1. ASSUME NEW j \in merge_jobs, Busy(j), Computed(j), NEW k \in Keys,
                 NEW p \in job[j].segs, InDictionary(seg'[p], k),
                 \A i \in job[j].segs : InDictionary(seg'[i], k) => seg'[i].rank <= seg'[p].rank
          PROVE  IF k \in ReadDeleted(seg'[p].dk)
                 THEN k \in ignored \/ Output(j)[k] = Absent
                 ELSE Output(j)[k] = seg'[p].dict[k]
      <3>1. \A i \in job[j].segs : i \in segments /\ seg[i].in_merge
        BY <1>1, <2>1
      <3>2. Top(job[j].segs, k, p)
        BY <1>1, <2>1, <3>1, SteadyTop
      <3>3. ReadDeleted(seg'[p].dk) = ReadDeleted(seg[p].dk) /\ seg'[p].dict = seg[p].dict
        BY <1>0, <1>1, <3>1 DEF Method
      <3>4. QED
        BY <2>1, <3>2, <3>3 DEF Exact
    <2>2. QED
      BY <1>0, <1>1, <2>1 DEF Exact, Top
  <1>9. QED
    BY <1>7, <1>8

LEMMA MethodsOutcomes ==
    ASSUME Permitted, Values, NEW D, Methods(D),
           \A k \in Keys : allowed[k] \subseteq allowed'[k],
           \A k \in Keys : k \in D => Absent \in allowed'[k]
    PROVE  Permitted' /\ Values'
  <1>0. /\ segments' = segments /\ toc' = toc /\ ignored' = ignored
        /\ (pc' = "down" <=> pc = "down")
        /\ \A i \in toc \cup segments : Method(seg'[i], seg[i], i, D)
    BY DEF Methods
  <1>1. \A i \in toc \cup segments : seg'[i].dict = seg[i].dict /\ seg'[i].rank = seg[i].rank
    BY MethodsPlaces
  <1>2. ASSUME NEW S \in {toc, segments}, PermittedIn(S), NEW k \in Keys
        PROVE  /\ \A s \in S :
                     (/\ InDictionary(seg'[s], k)
                      /\ \A i \in S : InDictionary(seg'[i], k) => seg'[i].rank <= seg'[s].rank
                      /\ k \in Known(seg'[s]))
                     => Absent \in allowed'[k]
               /\ (\A s \in S : ~InDictionary(seg'[s], k)) => Absent \in allowed'[k]
    <2>1. ASSUME NEW s \in S, InDictionary(seg'[s], k),
                 \A i \in S : InDictionary(seg'[i], k) => seg'[i].rank <= seg'[s].rank,
                 k \in Known(seg'[s])
          PROVE  Absent \in allowed'[k]
      <3>1. Top(S, k, s)
        BY <1>1, <2>1, SteadyTop
      <3>2. k \in Known(seg[s]) \/ k \in D
        BY <1>0, <2>1 DEF Method
      <3>3. QED
        BY <1>2, <3>1, <3>2 DEF PermittedIn
    <2>2. ASSUME \A s \in S : ~InDictionary(seg'[s], k) PROVE Absent \in allowed'[k]
      <3>1. \A s \in S : ~InDictionary(seg[s], k)
        BY <1>1, <2>2 DEF InDictionary
      <3>2. QED
        BY <1>2, <3>1 DEF PermittedIn
    <2>3. QED
      BY <2>1, <2>2
  <1>3. Permitted'
    BY <1>0, <1>2 DEF Permitted, PermittedIn, Top
  <1>4. ASSUME NEW S \in {toc, segments}, ValuesIn(S), NEW k \in Keys \ ignored,
               NEW s \in S, InDictionary(seg'[s], k),
               \A i \in S : InDictionary(seg'[i], k) => seg'[i].rank <= seg'[s].rank
        PROVE  seg'[s].dict[k] \in allowed'[k] \/ Tells(seg'[s], s, k)
    <2>1. Top(S, k, s)
      BY <1>1, <1>4, SteadyTop
    <2>2. seg[s].dict[k] \in allowed[k] \/ Tells(seg[s], s, k)
      BY <1>4, <2>1 DEF ValuesIn, Told
    <2>3. QED
      BY <1>0, <1>1, <2>2 DEF Method
  <1>5. Values'
    BY <1>0, <1>4 DEF Values, ValuesIn, Top, Told
  <1>6. QED
    BY <1>3, <1>5

LEMMA MethodsPending ==
    ASSUME Pending, NEW D, Methods(D),
           any_delete \/ D # {} => any_delete',
           D # {} => pc' # "persist",
           pc = "persist" => pc' = "persist" /\ todo' = todo,
           pc # "persist" /\ pc' = "persist" /\ any_delete' => todo' = segments
    PROVE  Pending'
  <1>0. /\ \A i \in toc \cup segments : Method(seg'[i], seg[i], i, D)
        /\ (pc' = "down" <=> pc = "down")
    BY DEF Methods
  <1>1. List' = List /\ List \subseteq toc \cup segments
    BY MethodsPlaces
  <1>2. QED
    <2>1. ASSUME NEW i \in List, NEW k \in Keys, k \in Known(seg'[i])
          PROVE  \/ Tells(seg'[i], i, k)
                 \/ any_delete' /\ seg'[i].new_delete /\ (pc' = "persist" => i \in todo')
      <3>1. Method(seg'[i], seg[i], i, D)
        BY <1>0, <1>1
      <3>2. CASE k \notin Known(seg[i])
        <4>1. k \in D /\ seg'[i].new_delete
          BY <2>1, <3>1, <3>2 DEF Method
        <4>2. QED
          BY <4>1
      <3>3. CASE Tells(seg[i], i, k)
        BY <3>1, <3>3 DEF Method
      <3>4. CASE any_delete /\ seg[i].new_delete /\ (pc = "persist" => i \in todo)
        <4>1. any_delete' /\ seg'[i].new_delete
          BY <3>1, <3>4 DEF Method
        <4>2. pc' = "persist" => i \in segments
          BY <1>0, <2>1 DEF List
        <4>3. QED
          BY <3>4, <4>1, <4>2
      <3>5. QED
        BY <2>1, <3>2, <3>3, <3>4 DEF Pending, Told
    <2>2. QED
      BY <1>1, <2>1 DEF Pending, Told

LEMMA SteadyBehind ==
    ASSUME Behind, NEW D, Steady(D),
           pc = "persist" => pc' = "persist" /\ todo' = todo
    PROVE  Behind'
  <1>0. /\ segments' = segments /\ ignored' = ignored /\ Methods(D)
        /\ \A i \in toc \cup segments : Method(seg'[i], seg[i], i, D)
    BY DEF Steady, Methods
  <1>1. \A i \in toc \cup segments : seg'[i].dict = seg[i].dict /\ seg'[i].rank = seg[i].rank
    BY <1>0, MethodsPlaces
  <1>2. QED
    <2>1. ASSUME NEW o \in segments, NEW s \in segments, NEW k \in Keys \ ignored,
                 InDictionary(seg'[o], k), InDictionary(seg'[s], k), seg'[o].rank < seg'[s].rank,
                 seg'[s].in_merge, k \in ReadDeleted(seg'[s].dk)
          PROVE  Tells(seg'[o], o, k) \/ (pc' = "persist" /\ o \in todo')
      <3>1. Older(o, s, k)
        BY <1>1, <2>1 DEF Older, InDictionary
      <3>2. seg[s].in_merge /\ k \in ReadDeleted(seg[s].dk)
        BY <1>0, <2>1 DEF Method, Steady
      <3>3. Tells(seg[o], o, k) \/ (pc = "persist" /\ o \in todo)
        BY <3>1, <3>2 DEF Behind, Told
      <3>4. QED
        BY <1>0, <3>3 DEF Method
    <2>2. QED
      BY <1>0, <2>1 DEF Behind, Older, Told

-----------------------------------------------------------------------------
\* The steps that are left while no merge fails and the process is not killed

Calm ==
    \/ \E k \in sc.keys : Add(k) \/ Delete(k) \/ Get(k)
    \/ StartFlush \/ StartCompile \/ StartScheduled \/ StartClose
    \/ PersistNext \/ PersistDone \/ NothingToCompile \/ Compile \/ CompileToc
    \/ StillRunning \/ FinalizeSwap \/ MergeToc \/ RemoveOld \/ FinalizeDone
    \/ NoMerge \/ RunMerge \/ WaitForMerges
    \/ \E j \in merge_jobs : MergeLoad(j) \/ MergeFinish(j)
    \/ RequestClose \/ Shutdown \/ Open
    \/ UNCHANGED vars

LEMMA CalmSteps ==
    ASSUME TypeOK, FilesInv, ApartInv, [Next]_vars, Undisturbed'
    PROVE  Undisturbed /\ NoneFailed /\ ParentsMarked /\ Disjoint /\ Runs /\ DownEmpty /\ Calm
  <1>1. ~Crash /\ \A j \in merge_jobs : ~MergeFails(j)
    BY DEF Crash, MergeFails, Undisturbed, TypeOK, CountType
  <1>2. count'.failures = count.failures /\ count'.crashes = count.crashes
    BY <1>1 DEF Next, Worker, Merger, Add, Delete, Get, StartFlush, StartCompile,
         StartScheduled, StartClose, PersistNext, PersistDone, NothingToCompile, Compile,
         CompileToc, StillRunning, FinalizeFailed, FinalizeSwap, MergeToc, RemoveOld,
         FinalizeDone, NoMerge, RunMerge, WaitForMerges, Shutdown, MergeLoad,
         MergeLoadFails, MergeFinish, RequestClose, Open, Begin, vars, TypeOK, CountType
  <1>3. Undisturbed
    BY <1>2 DEF Undisturbed
  <1>4. NoneFailed /\ ParentsMarked /\ Disjoint /\ Runs /\ DownEmpty
    BY <1>3 DEF ApartInv, Undisturbed
  <1>5. ~FinalizeFailed
    BY <1>4 DEF FinalizeFailed, NoneFailed
  <1>6. ASSUME NEW j \in merge_jobs, MergeLoadFails(j) PROVE FALSE
    <2>1. Busy(j)
      BY <1>6 DEF MergeLoadFails, Busy, FilesInv, InSwap
    <2>2. QED
      BY <1>4, <1>6, <2>1 DEF MergeLoadFails, ParentsMarked, FilesInv, FilesThere
  <1>7. QED
    BY <1>1, <1>3, <1>4, <1>5, <1>6 DEF Next, Worker, Merger, Calm

-----------------------------------------------------------------------------
\* Flow and Marks are inductive.

\* The ends of the tasks
LEMMA EndFlow ==
    ASSUME TypeOK, Flow, EndTask, UNCHANGED <<any_delete, merge_enabled, segments, merge_jobs>>,
           toc' = segments, pc \notin {"down", "finalize", "merge_toc", "remove"},
           task = "last" => ~any_delete
    PROVE  Flow'
  <1>1. task = "last" => merge_jobs = {}
    BY DEF Flow
  <1>2. pc' \in {"wait", "finished", "idle"} /\ (pc' = "wait" => task' = "close")
        /\ (pc' = "finished" => task' = "last" /\ task = "last")
        /\ (task' \in {"close", "last"} => task' = task)
    BY DEF EndTask
  <1>3. QED
    BY <1>1, <1>2 DEF Flow

LEMMA RefreshFlow ==
    ASSUME TypeOK, Flow, Refresh, pc = "run_merge", any_delete' = any_delete,
           UNCHANGED <<merge_enabled, toc, segments>>,
           task = "last" => merge_jobs' = merge_jobs
    PROVE  Flow'
  <1>1. toc = segments /\ (task = "last" => merge_jobs = {})
    BY DEF Flow
  <1>2. CASE has_compiler \/ any_delete
    <2>1. pc' = "persist" /\ todo' \subseteq segments /\ task' = task
      BY <1>2 DEF Refresh, ToPersist
    <2>2. QED
      BY <1>1, <2>1 DEF Flow
  <1>3. CASE ~(has_compiler \/ any_delete)
    <2>1. EndTask
      BY <1>3 DEF Refresh
    <2>2. pc' \in {"wait", "finished", "idle"} /\ (pc' = "wait" => task' = "close")
          /\ (pc' = "finished" => task' = "last" /\ task = "last")
          /\ (task' \in {"close", "last"} => task' = task)
      BY <2>1 DEF EndTask
    <2>3. QED
      BY <1>1, <1>3, <2>2 DEF Flow
  <1>4. QED
    BY <1>2, <1>3

LEMMA FlowStep ==
    ASSUME TypeOK, FilesInv, DownEmpty, Flow, Calm
    PROVE  Flow'
  <1>1. CASE \/ \E k \in sc.keys : Add(k) \/ Delete(k) \/ Get(k)
             \/ UNCHANGED vars
    <2>1. UNCHANGED <<pc, task, todo, merge_enabled, segments, toc, merge_jobs, job>>
          /\ (any_delete' = any_delete \/ pc = "idle")
      BY <1>1 DEF Add, Delete, Get, vars, workerVars, compilerVars, jobVars, fileVars
    <2>2. QED
      BY <2>1 DEF Flow, Done
  <1>2. CASE StartFlush \/ StartCompile \/ StartScheduled \/ StartClose
    <2>1. /\ UNCHANGED <<merge_enabled, any_delete, segments, toc, merge_jobs, job>>
          /\ pc = "idle" /\ task' # "last" /\ pc' \in {"persist", "compile", "finalize"}
          /\ (pc' = "persist" => todo' \subseteq segments)
          /\ (pc' = "compile" => task' \in {"compile", "close"})
          /\ (task' = "close" => ~merge_enabled)
      BY <1>2 DEF StartFlush, StartCompile, StartScheduled, StartClose, Begin, ToPersist,
                  compilerVars, jobVars, fileVars
    <2>2. QED
      BY <2>1 DEF Flow
  <1>3. CASE PersistNext \/ PersistDone
    <2>1. /\ UNCHANGED <<task, merge_enabled, segments, toc, merge_jobs, job>>
          /\ pc = "persist" /\ todo' \subseteq todo
          /\ (pc' = "persist" \/ (pc' = "compile" /\ ~any_delete'))
      BY <1>3 DEF PersistNext, PersistDone, jobVars, fileVars
    <2>2. QED
      BY <2>1 DEF Flow
  <1>4. CASE NothingToCompile
    BY <1>4, EndFlow DEF NothingToCompile, compilerVars, jobVars, fileVars, Flow
  <1>5. CASE Compile
    <2>1. /\ UNCHANGED <<task, any_delete, merge_enabled, merge_jobs, job>>
          /\ pc = "compile" /\ pc' = "compile_toc"
      BY <1>5 DEF Compile, jobVars
    <2>2. QED
      BY <2>1 DEF Flow
  <1>6. CASE CompileToc
    BY <1>6, EndFlow DEF CompileToc, compilerVars, jobVars, Flow
  <1>7. CASE StillRunning
    <2>1. PICK j \in merge_jobs : ~Done(j) /\ todo' = todo \ {j}
      BY <1>7 DEF StillRunning
    <2>2. UNCHANGED <<pc, task, any_delete, merge_enabled, segments, toc, merge_jobs, job>>
          /\ pc = "finalize"
      BY <1>7 DEF StillRunning, Finalizing, compilerVars, jobVars, fileVars
    <2>3. QED
      BY <2>1, <2>2 DEF Flow
  <1>8. CASE FinalizeSwap \/ MergeToc
    <2>1. /\ UNCHANGED <<task, todo, any_delete, merge_enabled, merge_jobs, job>>
          /\ \/ pc = "finalize" /\ pc' = "merge_toc"
             \/ pc = "merge_toc" /\ pc' = "remove" /\ toc' = segments'
      BY <1>8 DEF FinalizeSwap, Finalizing, MergeToc, compilerVars, jobVars
    <2>2. QED
      BY <2>1 DEF Flow, Done
  <1>9. CASE RemoveOld
    <2>1. /\ UNCHANGED <<task, any_delete, merge_enabled, segments, toc>>
          /\ pc = "remove" /\ pc' = "finalize" /\ todo' = todo \ {cur}
          /\ merge_jobs' = merge_jobs \ {cur}
      BY <1>9 DEF RemoveOld, compilerVars
    <2>2. \A j \in merge_jobs' : job'[j] = job[j]
      BY <1>9, <2>1 DEF RemoveOld, TypeOK
    <2>3. QED
      BY <2>1, <2>2 DEF Flow, Done
  <1>10. CASE FinalizeDone
    <2>1. /\ UNCHANGED <<task, todo, any_delete, merge_enabled, segments, toc, merge_jobs, job>>
          /\ pc = "finalize" /\ pc' = "run_merge" /\ todo = {}
      BY <1>10 DEF FinalizeDone, compilerVars, jobVars, fileVars
    <2>2. QED
      BY <2>1 DEF Flow
  <1>11. CASE NoMerge
    BY <1>11, RefreshFlow DEF NoMerge, compilerVars, jobVars
  <1>12. CASE RunMerge
    <2>1. task # "last"
      BY <1>12 DEF RunMerge, MergeSlot, Flow
    <2>2. QED
      BY <1>12, <2>1, RefreshFlow DEF RunMerge, compilerVars
  <1>13. CASE WaitForMerges
    <2>1. /\ UNCHANGED <<any_delete, merge_enabled, segments, toc, merge_jobs, job>>
          /\ pc = "wait" /\ pc' = "finalize" /\ todo' = merge_jobs /\ task' = "last"
          /\ \A j \in merge_jobs : Done(j)
      BY <1>13 DEF WaitForMerges, Begin, compilerVars, jobVars, fileVars
    <2>2. QED
      BY <2>1 DEF Flow, Done
  <1>14. ASSUME NEW j \in merge_jobs, MergeLoad(j) \/ MergeFinish(j) PROVE Flow'
    <2>1. UNCHANGED <<pc, task, todo, any_delete, merge_enabled, segments, toc, merge_jobs>>
          /\ ~Done(j)
      BY <1>14 DEF MergeLoad, MergeFinish, workerVars, compilerVars, fileVars, Done
    <2>2. task = "last" => FALSE
      BY <2>1 DEF Flow
    <2>3. QED
      BY <2>1, <2>2 DEF Flow
  <1>15. CASE RequestClose
    <2>1. /\ UNCHANGED <<pc, task, todo, any_delete, segments, toc, merge_jobs, job>>
          /\ merge_enabled' = FALSE
      BY <1>15 DEF RequestClose, compilerVars, jobVars, fileVars
    <2>2. QED
      BY <2>1 DEF Flow, Done
  <1>16. CASE Shutdown
    BY <1>16 DEF Shutdown, Down, Flow
  <1>17. CASE Open
    <2>1. UNCHANGED <<task, todo, any_delete, merge_enabled, toc>> /\ pc' = "idle"
          /\ segments' = toc /\ merge_jobs' = {}
      BY <1>17 DEF Open, compilerVars, jobVars, DownEmpty
    <2>2. QED
      BY <2>1 DEF Flow
  <1>18. QED
    BY <1>1, <1>2, <1>3, <1>4, <1>5, <1>6, <1>7, <1>8, <1>9, <1>10, <1>11, <1>12, <1>13, <1>14,
       <1>15, <1>16, <1>17 DEF Calm

-----------------------------------------------------------------------------
\* The steps that are steady

LEMMA SteadyMarks ==
    ASSUME TypeOK, ParentsMarked, Marks, NEW D, Steady(D)
    PROVE  Marks'
  <1>1. /\ \A i \in toc \cup segments : seg'[i].rank = seg[i].rank
        /\ \A j \in merge_jobs : Busy(j) => job[j].segs \subseteq segments
    BY SteadyPlaces, MethodsPlaces DEF Steady
  <1>2. /\ segments' = segments /\ toc' = toc /\ merge_jobs' = merge_jobs
        /\ (pc' = "down" <=> pc = "down")
        /\ \A j \in merge_jobs : job'[j] = job[j] /\ (Busy(j)' <=> Busy(j))
        /\ \A i \in toc \cup segments : seg'[i].in_merge = seg[i].in_merge
    BY DEF Steady, Methods
  <1>3. \A i \in segments' : seg'[i].in_merge => \E j \in merge_jobs' : Busy(j)' /\ i \in job'[j].segs
    BY <1>2 DEF Marks
  <1>4. \A j \in merge_jobs' : Busy(j)' => \A i \in job'[j].segs : seg'[i].rank < j
    BY <1>1, <1>2 DEF Marks
  <1>5. pc' = "down" => \A i \in toc' : ~seg'[i].in_merge
    BY <1>2 DEF Marks
  <1>6. QED
    BY <1>3, <1>4, <1>5 DEF Marks

SteadyStep ==
    \/ \E k \in sc.keys : Add(k) \/ Get(k)
    \/ StartFlush \/ StartCompile \/ StartScheduled \/ StartClose
    \/ PersistNext \/ PersistDone \/ NothingToCompile
    \/ StillRunning \/ FinalizeDone \/ NoMerge \/ WaitForMerges
    \/ RequestClose
    \/ UNCHANGED vars

LEMMA SteadySteps ==
    ASSUME TypeOK, FilesInv, ListsApart, Booked, SteadyStep
    PROVE  Steady({})
  <1>1. Quiet
    <2>1. CASE UNCHANGED vars
      BY <2>1, IdleStepsQuiet DEF vars, workerVars, jobVars, fileVars
    <2>2. QED
      BY <2>1, QuietSteps DEF SteadyStep
  <1>2. job' = job
    BY DEF SteadyStep, Add, Get, StartFlush, StartCompile, StartScheduled, StartClose,
           PersistNext, PersistDone, NothingToCompile, StillRunning,
           FinalizeDone, NoMerge, WaitForMerges, RequestClose, Begin, vars, jobVars
  <1>3. ignored' = ignored
    <2>1. CASE NoMerge
      BY <2>1, RefreshType DEF NoMerge
    <2>2. CASE NothingToCompile
      BY <2>2, EndTaskType DEF NothingToCompile
    <2>3. QED
      BY <2>1, <2>2 DEF SteadyStep, Add, Outcome, Get, StartFlush, StartCompile, StartScheduled,
           StartClose, PersistNext, PersistDone, StillRunning,
           FinalizeDone, WaitForMerges, RequestClose, Begin, vars, historyVars
  <1>4. pc' = "down" <=> pc = "down"
    <2>1. CASE NoMerge
      BY <2>1, RefreshType DEF NoMerge
    <2>2. CASE NothingToCompile
      BY <2>2, EndTaskType DEF NothingToCompile
    <2>3. QED
      BY <2>1, <2>2 DEF SteadyStep, Add, Get, StartFlush, StartCompile, StartScheduled,
           StartClose, PersistNext, PersistDone, StillRunning, Finalizing,
           FinalizeDone, WaitForMerges, RequestClose, Begin, vars, workerVars
  <1>5. /\ segments' = segments /\ toc' = toc /\ merge_jobs' = merge_jobs
        /\ \A j \in merge_jobs : seg'[j].dict = seg[j].dict /\ (Busy(j)' <=> Busy(j))
    BY <1>1 DEF Quiet, Busy, SamePlace, TypeOK
  <1>6. /\ segments \subseteq SegIds /\ toc \subseteq SegIds
        /\ \A i \in SegIds : seg[i] \in SegmentType
        /\ \A i \in toc \cup segments : Consistent(seg[i])
        /\ \A i \in segments : seg[i].in_merge => seg[i].deletes_loaded
    BY DEF TypeOK, Booked, ListsApart
  <1>7. ASSUME NEW i \in toc \cup segments
        PROVE  Method(seg'[i], seg[i], i, {}) /\ seg'[i].in_merge = seg[i].in_merge
    <2>1. i \in SegIds /\ seg[i] \in SegmentType /\ Consistent(seg[i])
      BY <1>6
    <2>2. ASSUME NEW k \in sc.keys, Get(k)
          PROVE  Method(seg'[i], seg[i], i, {}) /\ seg'[i].in_merge = seg[i].in_merge
      <3>1. k \in Keys
        BY ScenariosAssumption DEF TypeOK, ScenarioType
      <3>2. NewestOf(segments, k) \in segments
        BY <2>2, <3>1, NewestOfIs DEF Get, TypeOK, Containing, FilesInv
      <3>3. seg'[i] = seg[i] \/ (i \in segments /\ seg'[i] = LazyLoadDeletedKeys(seg[i]))
        BY <2>1, <2>2, <3>2 DEF Get, TypeOK
      <3>4. QED
        BY <1>6, <2>1, <3>3, SameMethod, LazyLoadMethod
    <2>3. CASE PersistNext
      <3>1. seg'[i] = seg[i] \/ seg'[i] = PersistAndReload(seg[i])
        BY <2>1, <2>3 DEF PersistNext, TypeOK
      <3>2. QED
        BY <2>1, <3>1, SameMethod, PersistMethod
    <2>4. CASE NoMerge
      <3>1. seg'[i] = seg[i] \/ (~seg[i].in_merge /\ seg'[i] = LazyLoadDeletedKeys(seg[i]))
        BY <2>1, <2>4 DEF NoMerge, AfterSelection, LoadedByPolicy, Unmarked
      <3>2. QED
        BY <2>1, <3>1, SameMethod, LazyLoadMethod
    <2>5. CASE \/ \E k \in sc.keys : Add(k)
               \/ StartFlush \/ StartCompile \/ StartScheduled \/ StartClose
               \/ PersistDone \/ NothingToCompile
               \/ StillRunning \/ FinalizeDone \/ WaitForMerges
               \/ RequestClose
               \/ UNCHANGED vars
      <3>1. seg' = seg
        BY <2>5 DEF Add, StartFlush, StartCompile, StartScheduled, StartClose, PersistDone,
                    NothingToCompile, StillRunning, FinalizeDone, WaitForMerges,
                    RequestClose, Begin, vars, fileVars
      <3>2. QED
        BY <2>1, <3>1, SameMethod
    <2>6. QED
      BY <2>2, <2>3, <2>4, <2>5 DEF SteadyStep
  <1>8. QED
    BY <1>2, <1>3, <1>4, <1>5, <1>7 DEF Steady, Methods

LEMMA DeleteSteady ==
    ASSUME TypeOK, FilesInv, ListsApart, Booked, Flow, NEW k \in sc.keys, Delete(k)
    PROVE  Steady({k})
  <1>1. Quiet
    BY QuietSteps
  <1>2. k \in Keys
    BY ScenariosAssumption DEF TypeOK, ScenarioType
  <1>3. /\ UNCHANGED <<segments, toc, merge_jobs, job, pc, ignored>> /\ pc = "idle"
    BY DEF Delete, Outcome, workerVars, jobVars
  <1>4. \A j \in merge_jobs : seg'[j].dict = seg[j].dict /\ (Busy(j)' <=> Busy(j))
    BY <1>1 DEF Quiet, Busy, SamePlace, TypeOK
  <1>5. toc = segments
    BY <1>3 DEF Flow
  <1>6. ASSUME NEW i \in segments
        PROVE  /\ Method(seg'[i], seg[i], i, {k}) /\ seg'[i].in_merge = seg[i].in_merge
               /\ InDictionary(seg[i], k) =>
                     k \in Known(seg'[i]) /\ (seg[i].in_merge => k \in seg'[i].during_merge)
    <2>1. /\ seg'[i] = DeleteKey(seg[i], k) /\ seg[i] \in SegmentType /\ Consistent(seg[i])
          /\ seg[i].in_merge => seg[i].deletes_loaded
      BY DEF Delete, TypeOK, Booked, ListsApart
    <2>2. QED
      BY <1>2, <2>1, DeleteMethod
  <1>7. QED
    BY <1>3, <1>4, <1>5, <1>6 DEF Steady, Methods

-----------------------------------------------------------------------------
\* The end of a task

\* Everything is flushed: the lookups return the last outcomes.
LEMMA EndedOutcomes ==
    ASSUME TypeOK', Waiting', InMemory', Gone', Pending', pc' # "down", pc' # "persist",
           ~any_delete', ~has_compiler', toc' = segments',
           \A k \in Keys : allowed'[k] = {ref'[k]}
    PROVE  Permitted' /\ Values'
  <1> DEFINE T(s, k) == /\ s \in segments' /\ InDictionary(seg'[s], k)
                        /\ \A i \in segments' : InDictionary(seg'[i], k) =>
                              seg'[i].rank <= seg'[s].rank
  <1>1. ASSUME NEW k \in Keys, ref'[k] # Absent
        PROVE  \E s \in segments' : T(s, k) /\ seg'[s].dict[k] = ref'[k]
                                    /\ k \notin Deletions(seg'[s])
    <2>1. Settled(k)'
      BY <1>1 DEF Waiting, Settled
    <2>2. QED
      BY <2>1 DEF InMemory, Found, Top
  <1>2. ASSUME NEW k \in Keys, NEW s, NEW t, T(s, k), T(t, k) PROVE s = t
    <2>1. seg'[s].rank \in Nat /\ seg'[t].rank \in Nat
      BY <1>2 DEF TypeOK, SegmentType
    <2>2. seg'[s].rank = seg'[t].rank
      BY <1>2, <2>1
    <2>3. QED
      BY <1>2, <2>2 DEF TypeOK
  <1>3. ASSUME NEW k \in Keys, NEW s, T(s, k), ref'[k] # Absent
        PROVE  seg'[s].dict[k] = ref'[k] /\ k \notin Known(seg'[s])
    <2>1. PICK t \in segments' : /\ T(t, k) /\ seg'[t].dict[k] = ref'[k]
                                 /\ k \notin Deletions(seg'[t])
      BY <1>1, <1>3
    <2>2. t = s
      BY <1>2, <1>3, <2>1
    <2>3. QED
      BY <2>1, <2>2 DEF Deletions, Known
  <1>4. ASSUME NEW k \in Keys \ ignored', NEW s, T(s, k), ref'[k] = Absent
        PROVE  Told(s, k)'
    <2>1. List' = segments'
      BY DEF List
    <2>2. k \in Known(seg'[s])
      BY <1>4, <2>1 DEF Gone, Top
    <2>3. QED
      BY <1>4, <2>1, <2>2 DEF Pending
  <1>5. PermittedIn(segments)'
    BY <1>1, <1>3 DEF PermittedIn, Top
  <1>6. ValuesIn(segments)'
    BY <1>3, <1>4 DEF ValuesIn, Top
  <1>7. PermittedIn(toc)' /\ ValuesIn(toc)'
    BY <1>5, <1>6 DEF PermittedIn, ValuesIn, Top
  <1>8. QED
    BY <1>5, <1>6, <1>7 DEF Permitted, Values

\* A task ends with a flush, or what may be found stays the same.
LEMMA Endings ==
    ASSUME TypeOK, Waiting, Flow, NothingToCompile \/ CompileToc \/ NoMerge \/ RunMerge
    PROVE  \/ UNCHANGED allowed
           \/ /\ ~any_delete' /\ ~has_compiler' /\ pc' \in {"wait", "finished", "idle"}
              /\ \A k \in Keys : allowed'[k] = {ref'[k]}
  <1>1. /\ UNCHANGED <<has_compiler, any_delete, ref>>
        /\ UNCHANGED allowed \/ (~has_compiler /\ allowed' = [k \in Keys |-> {ref[k]}])
    BY EndsAlone DEF NothingToCompile, CompileToc, NoMerge, RunMerge, compilerVars
  <1>2. CASE NothingToCompile \/ CompileToc
    <2>1. EndTask /\ pc \in {"compile", "compile_toc"}
      BY <1>2 DEF NothingToCompile, CompileToc
    <2>2. pc' \in {"wait", "finished", "idle"}
      BY <2>1, EndTaskType
    <2>3. UNCHANGED allowed \/ task \in {"flush", "scheduled", "last"}
      BY <2>1 DEF EndTask
    <2>4. QED
      BY <1>1, <2>1, <2>2, <2>3 DEF Flow
  <1>3. CASE NoMerge \/ RunMerge
    <2>1. Refresh
      BY <1>3 DEF NoMerge, RunMerge
    <2>2. CASE has_compiler \/ any_delete
      BY <2>1, <2>2 DEF Refresh, historyVars
    <2>3. CASE ~(has_compiler \/ any_delete)
      <3>1. EndTask
        BY <2>1, <2>3 DEF Refresh
      <3>2. pc' \in {"wait", "finished", "idle"}
        BY <3>1, EndTaskType
      <3>3. QED
        BY <1>1, <2>3, <3>2
    <2>4. QED
      BY <2>2, <2>3
  <1>4. QED
    BY <1>2, <1>3

-----------------------------------------------------------------------------
\* The steps, one after the other

\* What is known before a step
Ready ==
    /\ TypeOK /\ FilesInv /\ NoneFailed /\ ParentsMarked /\ Disjoint /\ Runs /\ DownEmpty
    /\ Numbered /\ Waiting /\ ListsApart /\ ValuesKept /\ DeletesKept

\* PersistDeletes: readers are told segment after segment.
LEMMA PersistPending ==
    ASSUME Ready, PersistNext \/ PersistDone
    PROVE  Pending' /\ Behind'
  <1>0. TypeOK /\ Flow /\ Booked /\ Pending /\ Deeper /\ Behind
    BY DEF Ready, DeletesKept
  <1>1. UNCHANGED <<segments, ignored>> /\ pc = "persist" /\ pc' # "down"
    BY DEF PersistNext, PersistDone, fileVars, historyVars
  <1>2. List = segments /\ List' = segments
    BY <1>1 DEF List
  <1>3. CASE PersistDone
    <2>1. seg' = seg /\ todo = {}
      BY <1>3 DEF PersistDone, fileVars
    <2>2. \A i \in segments, k \in Keys : k \in Known(seg[i]) => Told(i, k)
      BY <1>0, <1>1, <1>2, <2>1 DEF Pending
    <2>3. Pending'
      BY <1>2, <2>1, <2>2 DEF Pending, Told
    <2>4. Behind'
      <3>1. \A o, s \in segments, k \in Keys \ ignored :
               Older(o, s, k) /\ seg[s].in_merge /\ k \in ReadDeleted(seg[s].dk) => Told(o, k)
        BY <1>0, <2>1 DEF Behind
      <3>2. QED
        BY <1>1, <2>1, <3>1 DEF Behind, Older, Told
    <2>5. QED
      BY <2>3, <2>4
  <1>4. CASE PersistNext
    <2> DEFINE f == FirstOf(todo)
    <2>1. f \in todo /\ f \in segments /\ f \in SegIds
      BY <1>0, <1>1, <1>4, FirstOfIs DEF PersistNext, Flow, TypeOK
    <2>2. /\ seg'[f] = PersistAndReload(seg[f]) /\ todo' = todo \ {f}
          /\ pc' = "persist" /\ any_delete' = any_delete
          /\ \A i \in SegIds : i # f => seg'[i] = seg[i]
      BY <1>0, <1>1, <1>4, <2>1 DEF PersistNext, TypeOK, compilerVars
    <2> HIDE DEF f
    <2>3. seg[f] \in SegmentType /\ Consistent(seg[f])
      BY <1>0, <2>1 DEF TypeOK, Booked
    <2>4. Method(seg'[f], seg[f], f, {}) /\ seg'[f].in_merge = seg[f].in_merge
      BY <2>2, <2>3, PersistMethod
    <2>5. seg[f].new_delete => \A k \in Keys : k \in Known(seg[f]) => Tells(seg'[f], f, k)
      BY <2>2, <2>3, PersistMethod
    <2>6. \A k \in Keys : k \in Known(seg[f]) => Tells(seg'[f], f, k)
      <3>1. \A k \in Keys : Tells(seg[f], f, k) => Tells(seg'[f], f, k)
        BY <2>4 DEF Method
      <3>2. QED
        BY <1>0, <1>2, <2>1, <2>5, <3>1 DEF Pending, Told
    <2>7. segments \subseteq SegIds
      BY <1>0 DEF TypeOK
    <2>8. Pending'
      <3>1. ASSUME NEW i \in segments, NEW k \in Keys, k \in Known(seg'[i])
            PROVE  Tells(seg'[i], i, k) \/ (any_delete' /\ seg'[i].new_delete /\ i \in todo')
        <4>1. CASE i = f
          <5>1. k \in Known(seg[f])
            BY <2>4, <3>1, <4>1 DEF Method
          <5>2. QED
            BY <2>6, <4>1, <5>1
        <4>2. CASE i # f
          <5>1. seg'[i] = seg[i] /\ i \in SegIds
            BY <2>2, <2>7, <4>2
          <5>2. Told(i, k) \/ (any_delete /\ seg[i].new_delete /\ i \in todo)
            BY <1>0, <1>1, <1>2, <3>1, <5>1 DEF Pending
          <5>3. QED
            BY <2>2, <4>2, <5>1, <5>2 DEF Told
        <4>3. QED
          BY <4>1, <4>2
      <3>2. QED
        BY <1>2, <3>1 DEF Pending, Told
    <2>9. Behind'
      <3>1. ASSUME NEW o \in segments, NEW s \in segments, NEW k \in Keys \ ignored,
                   InDictionary(seg'[o], k), InDictionary(seg'[s], k),
                   seg'[o].rank < seg'[s].rank,
                   seg'[s].in_merge, k \in ReadDeleted(seg'[s].dk)
            PROVE  Tells(seg'[o], o, k) \/ o \in todo'
        <4>1. \A i \in segments : /\ seg'[i].dict = seg[i].dict /\ seg'[i].rank = seg[i].rank
                                  /\ seg'[i].in_merge = seg[i].in_merge
          BY <2>2, <2>4, <2>7 DEF Method, SamePlace
        <4>2. Older(o, s, k) /\ seg[s].in_merge
          BY <3>1, <4>1 DEF Older, InDictionary
        <4>3. k \in ReadDeleted(seg[s].dk)
          BY <2>2, <2>4, <2>7, <3>1, <4>2 DEF Method
        <4>4. Told(o, k) \/ o \in todo
          BY <1>0, <4>2, <4>3 DEF Behind
        <4>5. CASE o = f
          <5>1. k \in Known(seg[s])
            BY <4>3 DEF Known, OnDisk
          <5>2. k \in Known(seg[f])
            BY <1>0, <1>2, <4>2, <4>5, <5>1 DEF Deeper
          <5>3. QED
            BY <2>6, <4>5, <5>2
        <4>6. CASE o # f
          BY <2>2, <2>7, <4>4, <4>6 DEF Told
        <4>7. QED
          BY <4>5, <4>6
      <3>2. QED
        BY <1>1, <2>2, <3>1 DEF Behind, Older, Told
    <2>10. QED
      BY <2>8, <2>9
  <1>5. QED
    BY <1>3, <1>4

LEMMA SteadyStepsKeep ==
    ASSUME Ready, TypeOK', Waiting', InMemory', Flow', SteadyStep
    PROVE  DeletesKept'
  <1>0. /\ TypeOK /\ FilesInv /\ ParentsMarked /\ Waiting /\ ListsApart /\ Flow /\ Marks
        /\ Booked /\ Pending /\ Deeper /\ Behind /\ Gone /\ Permitted /\ Values /\ During /\ Exact
    BY DEF Ready, DeletesKept
  <1>1. Steady({})
    BY <1>0, SteadySteps
  <1>2. Marks'
    BY <1>0, <1>1, SteadyMarks
  <1>3. \A k \in Keys : ref'[k] = Absent => ref[k] = Absent
    <2>1. ASSUME NEW k \in sc.keys, Add(k), NEW q \in Keys, ref'[q] = Absent
          PROVE  ref[q] = Absent
      <3>1. count.writes + 1 # Absent
        BY <1>0 DEF TypeOK, CountType, Absent
      <3>2. QED
        BY <1>0, <2>1, <3>1 DEF Add, Outcome, TypeOK
    <2>2. CASE NoMerge
      BY <1>0, <2>2, RefreshType DEF NoMerge
    <2>3. CASE NothingToCompile
      BY <1>0, <2>3, EndTaskType DEF NothingToCompile
    <2>4. QED
      BY <2>1, <2>2, <2>3 DEF SteadyStep, Get, StartFlush, StartCompile, StartScheduled,
           StartClose, PersistNext, PersistDone, StillRunning,
           FinalizeDone, WaitForMerges, RequestClose, Begin, vars, historyVars
  <1>4. Booked' /\ Deeper' /\ Gone' /\ During' /\ Exact'
    BY <1>0, <1>1, <1>3, MethodsKeep, SteadyMerges DEF Steady
  <1>5. Pending' /\ Behind'
    <2>1. CASE PersistNext \/ PersistDone
      BY <2>1, PersistPending
    <2>2. CASE ~(PersistNext \/ PersistDone)
      <3>1. any_delete' = any_delete
        BY <2>2 DEF SteadyStep, Add, Get, StartFlush, StartCompile, StartScheduled,
             StartClose, NothingToCompile, StillRunning, FinalizeDone, NoMerge,
             WaitForMerges, RequestClose, Begin, vars, compilerVars
      <3>2. /\ pc = "persist" => pc' = "persist" /\ todo' = todo
            /\ pc # "persist" /\ pc' = "persist" /\ any_delete' => todo' = segments
        <4>1. CASE NoMerge
          <5>1. pc = "run_merge" /\ Refresh
            BY <4>1 DEF NoMerge
          <5>2. CASE has_compiler \/ any_delete
            BY <3>1, <5>1, <5>2 DEF Refresh, ToPersist
          <5>3. CASE ~(has_compiler \/ any_delete)
            BY <3>1, <5>1, <5>3
          <5>4. QED
            BY <5>2, <5>3
        <4>2. CASE NothingToCompile
          BY <1>0, <4>2, EndTaskType DEF NothingToCompile
        <4>3. QED
          BY <2>2, <3>1, <4>1, <4>2 DEF SteadyStep, Add, Get, StartFlush, StartCompile,
               StartScheduled, StartClose, StillRunning, Finalizing, FinalizeDone,
               WaitForMerges, RequestClose, Begin, ToPersist, vars, workerVars
      <3>3. QED
        BY <1>0, <1>1, <3>1, <3>2, MethodsPending, SteadyBehind DEF Steady
    <2>3. QED
      BY <2>1, <2>2
  <1>6. Permitted' /\ Values'
    <2>1. CASE \A k \in Keys : allowed[k] \subseteq allowed'[k]
      BY <1>0, <1>1, <2>1, MethodsOutcomes DEF Steady
    <2>2. CASE NothingToCompile \/ NoMerge
      <3>1. CASE UNCHANGED allowed
        BY <2>1, <3>1
      <3>2. CASE ~UNCHANGED allowed
        <4>1. /\ ~any_delete' /\ ~has_compiler' /\ pc' \in {"wait", "finished", "idle"}
              /\ \A k \in Keys : allowed'[k] = {ref'[k]}
          BY <1>0, <2>2, <3>2, Endings
        <4>2. toc' = segments'
          BY <4>1 DEF Flow
        <4>3. QED
          BY <1>4, <1>5, <4>1, <4>2, EndedOutcomes
      <3>3. QED
        BY <3>1, <3>2
    <2>3. ASSUME NEW k \in sc.keys, Add(k)
          PROVE  \A q \in Keys : allowed[q] \subseteq allowed'[q]
      BY <1>0, <2>3 DEF Add, Outcome, TypeOK
    <2>4. CASE \/ \E k \in sc.keys : Get(k)
               \/ StartFlush \/ StartCompile \/ StartScheduled \/ StartClose
               \/ PersistNext \/ PersistDone \/ StillRunning \/ FinalizeDone \/ WaitForMerges
               \/ RequestClose \/ UNCHANGED vars
      <3>1. allowed' = allowed
        BY <2>4 DEF Get, StartFlush, StartCompile, StartScheduled, StartClose, PersistNext,
             PersistDone, StillRunning, FinalizeDone, WaitForMerges, RequestClose,
             Begin, vars, historyVars
      <3>2. QED
        BY <2>1, <3>1
    <2>5. QED
      BY <2>1, <2>2, <2>3, <2>4 DEF SteadyStep
  <1>7. QED
    BY <1>2, <1>4, <1>5, <1>6 DEF DeletesKept

LEMMA DeleteKeeps ==
    ASSUME Ready, Flow', NEW k \in sc.keys, Delete(k)
    PROVE  DeletesKept'
  <1>0. /\ TypeOK /\ FilesInv /\ ParentsMarked /\ ListsApart /\ Flow /\ Marks
        /\ Booked /\ Pending /\ Deeper /\ Behind /\ Gone /\ Permitted /\ Values /\ During /\ Exact
    BY DEF Ready, DeletesKept
  <1>1. Steady({k})
    BY <1>0, DeleteSteady
  <1>2. k \in Keys
    BY <1>0, ScenariosAssumption DEF TypeOK, ScenarioType
  <1>3. /\ \A q \in Keys : ref'[q] = Absent => ref[q] = Absent \/ q \in {k}
        /\ \A q \in Keys : allowed[q] \subseteq allowed'[q]
        /\ \A q \in Keys : q \in {k} => Absent \in allowed'[q]
        /\ any_delete' /\ pc = "idle" /\ pc' = "idle"
    BY <1>0, <1>2 DEF Delete, Outcome, TypeOK, workerVars
  <1>4. Marks'
    BY <1>0, <1>1, SteadyMarks
  <1>5. Booked' /\ Deeper' /\ Gone' /\ During' /\ Exact'
    BY <1>0, <1>1, <1>3, MethodsKeep, SteadyMerges DEF Steady
  <1>6. Pending' /\ Behind'
    BY <1>0, <1>1, <1>3, MethodsPending, SteadyBehind DEF Steady
  <1>7. Permitted' /\ Values'
    BY <1>0, <1>1, <1>3, MethodsOutcomes DEF Steady
  <1>8. QED
    BY <1>4, <1>5, <1>6, <1>7 DEF DeletesKept

\* RunMerge: what is waiting in the chosen segments is in their .dk files.
LEMMA RunMergeMakes ==
    ASSUME TypeOK, FilesInv, Booked, Flow, Policy = "tiered", RunMerge
    PROVE  \E c \in Candidates :
             /\ c \subseteq segments /\ Methods({})
             /\ \A i \in c : /\ seg'[i].in_merge /\ seg'[i].during_merge = {}
                             /\ ReadDeleted(seg'[i].dk) \subseteq Known(seg[i])
             /\ \A i \in segments \ c : seg'[i].in_merge = seg[i].in_merge
             /\ \A i \in SegIds : seg'[i].dict = seg[i].dict /\ seg'[i].rank = seg[i].rank
             /\ job'[nextId].segs = c /\ job'[nextId].status = "running"
             /\ \A j \in merge_jobs : j # nextId /\ job'[j] = job[j]
  <1>1. PICK c \in Candidates :
          /\ seg' = [i \in SegIds |-> IF i \in c THEN ElectedForMerge(AfterSelection[i])
                                      ELSE AfterSelection[i]]
          /\ job' = [job EXCEPT ![nextId] = [NoJob EXCEPT !.segs = c,
                                                          !.external = External(c),
                                                          !.status = "running"]]
    BY DEF RunMerge
  <1>2. c \subseteq Unmarked
    BY CandidatesContiguous
  <1>3. \A i \in Unmarked : i \in segments /\ i \in SegIds /\ ~seg[i].in_merge
    BY DEF Unmarked, TypeOK
  <1>4. ASSUME NEW i \in SegIds
        PROVE  seg'[i].dict = seg[i].dict /\ seg'[i].rank = seg[i].rank
    <2>1. AfterSelection[i] \in SegmentType /\ SamePlace(AfterSelection[i], seg[i])
      BY AfterSelectionIs
    <2>2. SamePlace(seg'[i], seg[i])
      BY <1>1, <2>1, ElectedKeeps DEF SamePlace
    <2>3. QED
      BY <2>2 DEF SamePlace
  <1>5. ASSUME NEW i \in c
        PROVE  /\ Method(seg'[i], seg[i], i, {}) /\ seg'[i].in_merge /\ seg'[i].during_merge = {}
               /\ ReadDeleted(seg'[i].dk) \subseteq Known(seg[i])
    <2>1. i \in SegIds /\ i \in segments /\ ~seg[i].in_merge
      BY <1>2, <1>3
    <2>2. seg'[i] = ElectedForMerge(LazyLoadDeletedKeys(seg[i]))
      BY <1>1, <1>2, <2>1 DEF AfterSelection, LoadedByPolicy
    <2>3. seg[i] \in SegmentType /\ Consistent(seg[i])
      BY <2>1 DEF TypeOK, Booked
    <2>4. QED
      BY <2>1, <2>2, <2>3, ElectedMethod
  <1>6. ASSUME NEW i \in toc \cup segments, i \notin c
        PROVE  Method(seg'[i], seg[i], i, {}) /\ seg'[i].in_merge = seg[i].in_merge
    <2>1. i \in SegIds /\ seg[i] \in SegmentType /\ Consistent(seg[i])
      BY DEF TypeOK, Booked
    <2>2. seg'[i] = seg[i] \/ (~seg[i].in_merge /\ seg'[i] = LazyLoadDeletedKeys(seg[i]))
      BY <1>1, <1>3, <1>6, <2>1 DEF AfterSelection, LoadedByPolicy
    <2>3. QED
      BY <2>1, <2>2, SameMethod, LazyLoadMethod
  <1>7. Methods({})
    <2>1. pc' # "down" /\ pc # "down" /\ ignored' = ignored
      BY RefreshType DEF RunMerge
    <2>2. segments' = segments /\ toc' = toc
      BY DEF RunMerge
    <2>3. QED
      BY <1>5, <1>6, <2>1, <2>2 DEF Methods
  <1>8. \A j \in merge_jobs : j # nextId
    BY DEF FilesInv, Fresh, TypeOK
  <1>9. nextId \in SegIds
    BY NumbersInRange DEF RunMerge
  <1>10. /\ job'[nextId].segs = c /\ job'[nextId].status = "running"
         /\ \A j \in merge_jobs : job'[j] = job[j]
    BY <1>1, <1>8, <1>9 DEF TypeOK, JobType, NoJob
  <1>11. c \subseteq segments
    BY <1>2, <1>3
  <1>12. QED
    BY <1>4, <1>5, <1>6, <1>7, <1>8, <1>10, <1>11

LEMMA RunMergeKeeps ==
    ASSUME Ready, TypeOK', Waiting', InMemory', Flow', Policy = "tiered", RunMerge
    PROVE  DeletesKept'
  <1>0. /\ TypeOK /\ FilesInv /\ ParentsMarked /\ Waiting /\ Flow /\ Marks
        /\ Booked /\ Pending /\ Deeper /\ Behind /\ Gone /\ Permitted /\ Values /\ During /\ Exact
    BY DEF Ready, DeletesKept
  <1>1. PICK c \in Candidates :
          /\ c \subseteq segments /\ Methods({})
          /\ \A i \in c : /\ seg'[i].in_merge /\ seg'[i].during_merge = {}
                          /\ ReadDeleted(seg'[i].dk) \subseteq Known(seg[i])
          /\ \A i \in segments \ c : seg'[i].in_merge = seg[i].in_merge
          /\ \A i \in SegIds : seg'[i].dict = seg[i].dict /\ seg'[i].rank = seg[i].rank
          /\ job'[nextId].segs = c /\ job'[nextId].status = "running"
          /\ \A j \in merge_jobs : j # nextId /\ job'[j] = job[j]
    BY <1>0, RunMergeMakes
  <1>2. /\ UNCHANGED <<segments, toc, any_delete>> /\ merge_jobs' = merge_jobs \cup {nextId}
        /\ pc = "run_merge" /\ Refresh
    BY DEF RunMerge, compilerVars
  <1>3. /\ ref' = ref /\ ignored' = ignored /\ ~Swapping /\ ~Swapping'
        /\ (pc' = "persist" /\ any_delete => todo' = segments)
        /\ (any_delete => pc' = "persist") /\ pc' # "down"
    <2>1. ref' = ref /\ ignored' = ignored /\ ~Swapping /\ ~Swapping' /\ pc' # "down"
      BY <1>0, <1>2, RefreshType, RefreshLeaves DEF Swapping
    <2>2. any_delete => pc' = "persist" /\ todo' = segments
      BY <1>2 DEF Refresh, ToPersist
    <2>3. QED
      BY <2>1, <2>2
  <1>4. nextId \in SegIds /\ segments \subseteq SegIds /\ toc \subseteq SegIds
    BY <1>0, NumbersInRange DEF RunMerge, TypeOK
  <1>5. \A j \in merge_jobs : Busy(j) /\ Busy(j)'
    BY <1>2, <1>3 DEF Busy
  <1>6. \A j \in merge_jobs' : Busy(j)'
    BY <1>3 DEF Busy
  <1>7. \A j \in merge_jobs : job[j].segs \subseteq segments
                              /\ \A i \in job[j].segs : seg[i].in_merge
    BY <1>0, <1>5 DEF ParentsMarked
  <1>8. \A j \in merge_jobs : job[j].segs \cap c = {}
    <2>1. c \subseteq Unmarked
      BY <1>0, CandidatesContiguous
    <2>2. QED
      BY <1>7, <2>1 DEF Unmarked
  <1>9. Marks'
    <2>1. ASSUME NEW i \in segments, seg'[i].in_merge
          PROVE  \E j \in merge_jobs' : Busy(j)' /\ i \in job'[j].segs
      <3>1. CASE i \in c
        BY <1>1, <1>2, <1>6, <3>1
      <3>2. CASE i \notin c
        <4>1. PICK j \in merge_jobs : i \in job[j].segs
          BY <1>0, <1>1, <2>1, <3>2 DEF Marks
        <4>2. QED
          BY <1>1, <1>2, <1>5, <4>1
      <3>3. QED
        BY <3>1, <3>2
    <2>2. ASSUME NEW j \in merge_jobs', NEW i \in job'[j].segs
          PROVE  seg'[i].rank < j
      <3>1. CASE j = nextId
        BY <1>0, <1>1, <1>4, <3>1 DEF FilesInv, RanksBelow
      <3>2. CASE j \in merge_jobs
        <4>1. i \in SegIds /\ seg[i].rank < j
          BY <1>0, <1>1, <1>4, <1>5, <1>7, <2>2, <3>2 DEF Marks
        <4>2. QED
          BY <1>1, <4>1
      <3>3. QED
        BY <1>2, <3>1, <3>2
    <2>3. QED
      BY <1>2, <1>3, <2>1, <2>2 DEF Marks
  <1>10. Booked' /\ Deeper' /\ Gone'
    BY <1>0, <1>1, <1>3, MethodsKeep
  <1>11. Pending'
    BY <1>0, <1>1, <1>2, <1>3, MethodsPending
  <1>12. Behind'
    <2>1. ASSUME NEW o \in segments, NEW s \in segments, NEW k \in Keys \ ignored,
                 InDictionary(seg'[o], k), InDictionary(seg'[s], k), seg'[o].rank < seg'[s].rank,
                 seg'[s].in_merge, k \in ReadDeleted(seg'[s].dk)
          PROVE  Tells(seg'[o], o, k) \/ (pc' = "persist" /\ o \in todo')
      <3>1. Older(o, s, k)
        BY <1>1, <1>4, <2>1 DEF Older, InDictionary
      <3>2. Tells(seg[o], o, k) => Tells(seg'[o], o, k)
        BY <1>1 DEF Methods, Method
      <3>3. CASE s \in c
        <4>1. List = segments
          BY <1>2 DEF List
        <4>2. k \in Known(seg[s])
          BY <1>1, <2>1, <3>3
        <4>3. k \in Known(seg[o])
          BY <1>0, <3>1, <4>1, <4>2 DEF Deeper
        <4>4. Told(o, k) \/ any_delete
          BY <1>0, <4>1, <4>3 DEF Pending
        <4>5. QED
          BY <1>3, <3>2, <4>4 DEF Told
      <3>4. CASE s \notin c
        <4>1. seg[s].in_merge
          BY <1>1, <2>1, <3>4
        <4>2. k \in ReadDeleted(seg[s].dk)
          BY <1>1, <2>1, <4>1 DEF Methods, Method
        <4>3. Told(o, k)
          BY <1>0, <1>2, <3>1, <4>1, <4>2 DEF Behind
        <4>4. QED
          BY <3>2, <4>3 DEF Told
      <3>5. QED
        BY <3>3, <3>4
    <2>2. QED
      BY <1>2, <1>3, <2>1 DEF Behind, Older, Told
  <1>13. Permitted' /\ Values'
    <2>1. CASE UNCHANGED allowed
      BY <1>0, <1>1, <2>1, MethodsOutcomes
    <2>2. CASE ~UNCHANGED allowed
      <3>1. /\ ~any_delete' /\ ~has_compiler' /\ pc' \in {"wait", "finished", "idle"}
            /\ \A k \in Keys : allowed'[k] = {ref'[k]}
        BY <1>0, <2>2, Endings
      <3>2. toc' = segments'
        BY <3>1 DEF Flow
      <3>3. QED
        BY <1>10, <1>11, <3>1, <3>2, EndedOutcomes
    <2>3. QED
      BY <2>1, <2>2
  <1>14. During'
    <2>1. ASSUME NEW j \in merge_jobs', NEW p \in job'[j].segs, NEW q \in job'[j].segs,
                 NEW k \in Keys, k \in seg'[p].during_merge, InDictionary(seg'[q], k)
          PROVE  k \in seg'[q].during_merge
      <3>1. CASE j = nextId
        BY <1>1, <2>1, <3>1
      <3>2. CASE j \in merge_jobs
        <4>1. p \in job[j].segs /\ q \in job[j].segs
          BY <1>1, <2>1, <3>2
        <4>2. \A i \in job[j].segs : i \in segments /\ seg[i].in_merge /\ i \in SegIds
          BY <1>4, <1>7, <3>2
        <4>3. \A i \in job[j].segs : seg'[i].during_merge = seg[i].during_merge
          <5>1. ASSUME NEW i \in job[j].segs
                PROVE  seg'[i].during_merge = seg[i].during_merge
            <6>1. Method(seg'[i], seg[i], i, {}) /\ seg[i].in_merge
              BY <1>1, <4>2 DEF Methods
            <6>2. QED
              BY <6>1 DEF Method
          <5>2. QED
            BY <5>1
        <4>4. InDictionary(seg[q], k) /\ k \in seg[p].during_merge
          BY <1>1, <2>1, <4>1, <4>2, <4>3 DEF InDictionary
        <4>5. QED
          BY <1>0, <1>5, <3>2, <4>1, <4>3, <4>4 DEF During
      <3>3. QED
        BY <1>2, <3>1, <3>2
    <2>2. QED
      BY <2>1 DEF During
  <1>15. Exact'
    <2>1. ASSUME NEW j \in merge_jobs', Computed(j)', NEW k \in Keys,
                 NEW p \in job'[j].segs, InDictionary(seg'[p], k),
                 \A i \in job'[j].segs : InDictionary(seg'[i], k) => seg'[i].rank <= seg'[p].rank
          PROVE  IF k \in ReadDeleted(seg'[p].dk)
                 THEN k \in ignored \/ Output(j)'[k] = Absent
                 ELSE Output(j)'[k] = seg'[p].dict[k]
      <3>1. j \in merge_jobs
        BY <1>1, <1>2, <2>1 DEF Computed
      <3>2. job'[j] = job[j] /\ Computed(j) /\ j \in SegIds
        BY <1>0, <1>1, <2>1, <3>1 DEF Computed, TypeOK
      <3>3. Output(j)' = Output(j)
        BY <1>1, <3>2 DEF Output
      <3>4. \A i \in job[j].segs : i \in segments /\ seg[i].in_merge /\ i \in SegIds
        BY <1>4, <1>7, <3>1
      <3>5. Top(job[j].segs, k, p)
        BY <1>1, <2>1, <3>2, <3>4, SteadyTop
      <3>6. ReadDeleted(seg'[p].dk) = ReadDeleted(seg[p].dk) /\ seg'[p].dict = seg[p].dict
        BY <1>1, <2>1, <3>2, <3>4 DEF Methods, Method
      <3>7. QED
        BY <1>0, <1>5, <2>1, <3>1, <3>2, <3>3, <3>5, <3>6 DEF Exact
    <2>2. QED
      BY <1>3, <2>1 DEF Exact, Top
  <1>16. QED
    BY <1>9, <1>10, <1>11, <1>12, <1>13, <1>14, <1>15 DEF DeletesKept

-----------------------------------------------------------------------------
\* Steps that leave the segments of the list alone: a merge ends, the table of
\* contents is written, files are removed

Frame ==
    /\ segments' = segments /\ (toc' = toc \/ toc' = segments)
    /\ UNCHANGED <<any_delete, ref>> /\ ignored \subseteq ignored'
    /\ pc # "down" /\ pc' # "down" /\ (pc' = "persist" <=> pc = "persist")
    /\ pc = "persist" => todo' = todo
    /\ merge_jobs' \subseteq merge_jobs
    /\ \A j \in merge_jobs' : Busy(j)' => Busy(j)
    /\ \A j \in merge_jobs : Busy(j) /\ job[j].segs # {} => j \in merge_jobs' /\ Busy(j)'
    /\ \A j \in merge_jobs' : job'[j].segs = job[j].segs
    /\ \A i \in segments \cup toc : seg'[i] = seg[i]

LEMMA FrameKeeps ==
    ASSUME ParentsMarked, Marks, Booked, Pending, Deeper, Behind, Gone, During, Frame
    PROVE  Marks' /\ Booked' /\ Pending' /\ Deeper' /\ Behind' /\ Gone' /\ During'
  <1>1. List = segments /\ List' = segments
    BY DEF Frame, List
  <1>2. \A i \in segments : seg'[i] = seg[i]
    BY DEF Frame
  <1>3. \A j \in merge_jobs' : Busy(j)' => /\ Busy(j) /\ job'[j].segs = job[j].segs
                                           /\ j \in merge_jobs
                                           /\ \A i \in job[j].segs : i \in segments
    BY DEF Frame, ParentsMarked
  <1>4. Marks'
    <2>1. \A i \in segments : seg'[i].in_merge => \E j \in merge_jobs' : Busy(j)' /\ i \in job'[j].segs
      BY <1>2 DEF Frame, Marks
    <2>2. \A j \in merge_jobs' : Busy(j)' => \A i \in job'[j].segs : seg'[i].rank < j
      BY <1>2, <1>3 DEF Marks
    <2>3. QED
      BY <2>1, <2>2 DEF Frame, Marks
  <1>5. Booked'
    BY DEF Frame, Booked
  <1>6. Pending'
    BY <1>1, <1>2 DEF Frame, Pending, Told
  <1>7. Deeper'
    BY <1>1, <1>2 DEF Frame, Deeper, Older
  <1>8. Behind'
    BY <1>2 DEF Frame, Behind, Older, Told
  <1>9. Gone'
    BY <1>1, <1>2 DEF Frame, Gone, Top
  <1>10. During'
    BY <1>2, <1>3 DEF During
  <1>11. QED
    BY <1>4, <1>5, <1>6, <1>7, <1>8, <1>9, <1>10

LEMMA FrameOutcomes ==
    ASSUME Permitted, Values, Frame, UNCHANGED allowed
    PROVE  Permitted' /\ Values'
  <1>1. /\ \A i \in segments \cup toc : seg'[i] = seg[i]
        /\ segments' = segments /\ (toc' = toc \/ toc' = segments) /\ ignored \subseteq ignored'
        /\ PermittedIn(toc) /\ PermittedIn(segments) /\ ValuesIn(toc) /\ ValuesIn(segments)
    BY DEF Frame, Permitted, Values
  <1>2. PermittedIn(segments)' /\ PermittedIn(toc)'
    BY <1>1 DEF PermittedIn, Top
  <1>3. ValuesIn(segments)' /\ ValuesIn(toc)'
    BY <1>1 DEF ValuesIn, Top, Told
  <1>4. QED
    BY <1>2, <1>3 DEF Permitted, Values

LEMMA FrameExact ==
    ASSUME ParentsMarked, Exact, Frame,
           \A j \in merge_jobs' : Busy(j)' /\ Computed(j)' =>
               Computed(j) /\ Output(j)' = Output(j)
    PROVE  Exact'
  <1>1. \A j \in merge_jobs' : Busy(j)' => /\ Busy(j) /\ job'[j].segs = job[j].segs
                                           /\ j \in merge_jobs
                                           /\ \A i \in job[j].segs : seg'[i] = seg[i]
    BY DEF Frame, ParentsMarked
  <1>2. ASSUME NEW j \in merge_jobs', Busy(j)', Computed(j)', NEW k \in Keys,
               NEW p \in job'[j].segs, InDictionary(seg'[p], k),
               \A i \in job'[j].segs : InDictionary(seg'[i], k) => seg'[i].rank <= seg'[p].rank
        PROVE  IF k \in ReadDeleted(seg'[p].dk)
               THEN k \in ignored' \/ Output(j)'[k] = Absent
               ELSE Output(j)'[k] = seg'[p].dict[k]
    <2>1. Top(job[j].segs, k, p)
      BY <1>1, <1>2 DEF Top
    <2>2. IF k \in ReadDeleted(seg[p].dk)
          THEN k \in ignored \/ Output(j)[k] = Absent
          ELSE Output(j)[k] = seg[p].dict[k]
      BY <1>1, <1>2, <2>1 DEF Exact
    <2>3. QED
      BY <1>1, <1>2, <2>2 DEF Frame
  <1>3. QED
    BY <1>2 DEF Exact, Top

LEMMA TocKeeps ==
    ASSUME Ready, TypeOK', Waiting', InMemory', Flow', CompileToc \/ MergeToc
    PROVE  DeletesKept'
  <1>0. /\ TypeOK /\ FilesInv /\ ParentsMarked /\ Waiting /\ Flow /\ Marks
        /\ Booked /\ Pending /\ Deeper /\ Behind /\ Gone /\ Permitted /\ Values /\ During /\ Exact
    BY DEF Ready, DeletesKept
  <1>1. /\ UNCHANGED <<segments, seg, merge_jobs, job, any_delete, ref, ignored, cur>>
        /\ toc' = segments /\ pc \in {"compile_toc", "merge_toc"}
        /\ pc' \notin {"down", "persist"} /\ (Swapping' <=> Swapping)
    <2>1. CASE CompileToc
      BY <1>0, <2>1, EndTaskType DEF CompileToc, compilerVars, jobVars, Swapping
    <2>2. CASE MergeToc
      BY <2>2 DEF MergeToc, compilerVars, jobVars, historyVars, Swapping
    <2>3. QED
      BY <2>1, <2>2
  <1>2. \A j \in merge_jobs : Busy(j)' <=> Busy(j)
    BY <1>1 DEF Busy
  <1>3. Frame
    BY <1>1, <1>2 DEF Frame
  <1>4. Marks' /\ Booked' /\ Pending' /\ Deeper' /\ Behind' /\ Gone' /\ During'
    BY <1>0, <1>3, FrameKeeps
  <1>5. Exact'
    BY <1>0, <1>1, <1>3, FrameExact DEF Computed, Output
  <1>6. Permitted' /\ Values'
    <2>1. CASE UNCHANGED allowed
      BY <1>0, <1>3, <2>1, FrameOutcomes
    <2>2. CASE ~UNCHANGED allowed
      <3>1. CompileToc
        BY <2>2 DEF MergeToc, historyVars
      <3>2. /\ ~any_delete' /\ ~has_compiler' /\ pc' \in {"wait", "finished", "idle"}
            /\ \A k \in Keys : allowed'[k] = {ref'[k]}
        BY <1>0, <2>2, <3>1, Endings
      <3>3. QED
        BY <1>1, <1>4, <3>2, EndedOutcomes
    <2>3. QED
      BY <2>1, <2>2
  <1>7. QED
    BY <1>4, <1>5, <1>6 DEF DeletesKept

LEMMA RemoveOldKeeps ==
    ASSUME Ready, Flow', RemoveOld
    PROVE  DeletesKept'
  <1>0. /\ TypeOK /\ FilesInv /\ ParentsMarked /\ Flow /\ Marks
        /\ Booked /\ Pending /\ Deeper /\ Behind /\ Gone /\ Permitted /\ Values /\ During /\ Exact
    BY DEF Ready, DeletesKept
  <1>1. /\ UNCHANGED <<segments, toc, any_delete, ref, ignored, allowed>>
        /\ pc = "remove" /\ pc' = "finalize" /\ Swapping /\ ~Swapping'
        /\ merge_jobs' = merge_jobs \ {cur}
    BY DEF RemoveOld, compilerVars, historyVars, Swapping
  <1>2. toc = segments /\ job[cur].segs \cap segments = {} /\ segments \subseteq SegIds
    BY <1>0, <1>1 DEF FilesInv, InSwap, TypeOK
  <1>3. \A i \in segments \cup toc : seg'[i] = seg[i]
    BY <1>2 DEF RemoveOld
  <1>4. \A j \in merge_jobs' : job'[j] = job[j] /\ j \in SegIds /\ j # cur
    BY <1>0, <1>1 DEF RemoveOld, TypeOK
  <1>5. \A j \in merge_jobs : Busy(j) <=> j \in merge_jobs' /\ Busy(j)'
    BY <1>1 DEF Busy
  <1>6. Frame
    BY <1>1, <1>3, <1>4, <1>5 DEF Frame
  <1>7. Marks' /\ Booked' /\ Pending' /\ Deeper' /\ Behind' /\ Gone' /\ During'
    BY <1>0, <1>6, FrameKeeps
  <1>8. \A i \in SegIds : seg'[i].dict = seg[i].dict
    <2>1. ASSUME NEW i \in SegIds PROVE seg'[i].dict = seg[i].dict
      <3>1. seg[i] \in SegmentType
        BY <1>0 DEF TypeOK
      <3>2. LazyLoadDeletedKeys(seg[i]) \in SegmentType
            /\ LazyLoadDeletedKeys(seg[i]).dict = seg[i].dict
        BY <3>1, LazyLoadType, LazyLoadKeeps DEF SamePlace
      <3>3. RemoveFiles(LazyLoadDeletedKeys(seg[i])).dict = seg[i].dict
        BY <3>2 DEF RemoveFiles, SegmentType
      <3>4. QED
        BY <3>3 DEF RemoveOld
    <2>2. QED
      BY <2>1
  <1>9. Exact'
    BY <1>0, <1>4, <1>6, <1>8, FrameExact DEF Computed, Output
  <1>10. Permitted' /\ Values'
    BY <1>0, <1>1, <1>6, FrameOutcomes
  <1>11. QED
    BY <1>7, <1>9, <1>10 DEF DeletesKept

LEMMA MergeFinishKeeps ==
    ASSUME Ready, Flow', NEW j \in merge_jobs, MergeFinish(j)
    PROVE  DeletesKept'
  <1>0. /\ TypeOK /\ FilesInv /\ ParentsMarked /\ DownEmpty /\ Flow /\ Marks
        /\ Booked /\ Pending /\ Deeper /\ Behind /\ Gone /\ Permitted /\ Values /\ During /\ Exact
    BY DEF Ready, DeletesKept
  <1>1. /\ UNCHANGED <<segments, toc, any_delete, ref, ignored, allowed, pc, cur, todo, merge_jobs>>
        /\ job[j].status = "loaded" /\ j \in SegIds /\ pc # "down"
    BY <1>0 DEF MergeFinish, compilerVars, historyVars, workerVars, TypeOK, DownEmpty
  <1>2. j \notin segments \cup toc
    BY <1>0, <1>1 DEF FilesInv, OutputsApart, InSwap
  <1>3. /\ \A i \in SegIds : i # j => seg'[i] = seg[i] /\ job'[i] = job[i]
        /\ job'[j].segs = job[j].segs /\ job'[j].status = "ok"
        /\ job'[j].out = job[j].out /\ seg'[j].dict = job[j].out
    BY <1>0, <1>1 DEF MergeFinish, SetStatus, TypeOK, JobType, NoSegment
  <1>4. \A i \in segments \cup toc : seg'[i] = seg[i]
    BY <1>0, <1>2, <1>3 DEF TypeOK
  <1>5. \A i \in merge_jobs : Busy(i)' <=> Busy(i)
    BY <1>1 DEF Busy, Swapping
  <1>6. \A i \in merge_jobs : job'[i].segs = job[i].segs
    BY <1>0, <1>3 DEF TypeOK
  <1>7. Frame
    BY <1>1, <1>4, <1>5, <1>6 DEF Frame
  <1>8. \A i \in merge_jobs : Computed(i)' => Computed(i) /\ Output(i)' = Output(i)
    BY <1>0, <1>1, <1>3 DEF Computed, Output, TypeOK
  <1>9. Marks' /\ Booked' /\ Pending' /\ Deeper' /\ Behind' /\ Gone' /\ During'
    BY <1>0, <1>7, FrameKeeps
  <1>10. Exact'
    BY <1>0, <1>1, <1>7, <1>8, FrameExact
  <1>11. Permitted' /\ Values'
    BY <1>0, <1>1, <1>7, FrameOutcomes
  <1>12. QED
    BY <1>9, <1>10, <1>11 DEF DeletesKept

\* The merge of one key: what the newest parent says, or the key is ignored
\* from now on.
LEMMA MergeLoadExact ==
    ASSUME TypeOK, FilesInv, ParentsMarked, NEW j \in merge_jobs, Busy(j), MergeLoad(j),
           NEW k \in Keys, NEW p \in job[j].segs, Top(job[j].segs, k, p)
    PROVE  IF k \in ReadDeleted(seg[p].dk)
           THEN k \in ignored' \/ job'[j].out[k] = Absent
           ELSE job'[j].out[k] = seg[p].dict[k]
  <1> DEFINE P == job[j].segs
  <1>1. P \subseteq segments /\ P \in SUBSET SegIds /\ Ordered(P)
    BY DEF ParentsMarked, TypeOK, Ordered
  <1>2. PICK m \in P : /\ InDictionary(seg[m], k)
                       /\ \A q \in P : InDictionary(seg[q], k) => seg[q].rank <= seg[m].rank
                       /\ k \notin ReadDeleted(seg[m].dk) => job'[j].out[k] = seg[m].dict[k]
    BY MergeLoadOutput DEF Top
  <1>3. m = p
    <2>1. seg[m].rank \in Nat /\ seg[p].rank \in Nat
      BY <1>1, <1>2 DEF TypeOK, SegmentType
    <2>2. seg[m].rank = seg[p].rank
      BY <1>2, <2>1 DEF Top
    <2>3. QED
      BY <1>1, <1>2, <2>2 DEF Ordered
  <1>4. ASSUME k \in ReadDeleted(seg[p].dk), job'[j].out[k] # Absent PROVE k \in ignored'
    <2>1. Containing(P, k) # {} /\ NewestOf(P, k) = p
      BY <1>1, TopIsNewest DEF FilesInv
    <2>2. k \in DeletedIn(P)
      BY <1>4, <2>1 DEF DeletedIn
    <2>3. QED
      BY <1>4, <2>2 DEF MergeLoad
  <1>5. QED
    BY <1>2, <1>3, <1>4

LEMMA MergeLoadKeeps ==
    ASSUME Ready, Flow', NEW j \in merge_jobs, MergeLoad(j)
    PROVE  DeletesKept'
  <1>0. /\ TypeOK /\ FilesInv /\ ParentsMarked /\ DownEmpty /\ Flow /\ Marks
        /\ Booked /\ Pending /\ Deeper /\ Behind /\ Gone /\ Permitted /\ Values /\ During /\ Exact
    BY DEF Ready, DeletesKept
  <1>1. /\ UNCHANGED <<segments, seg, toc, any_delete, ref, allowed, pc, cur, todo, merge_jobs>>
        /\ job[j].status = "running" /\ j \in SegIds /\ pc # "down"
        /\ ignored \subseteq ignored'
    BY <1>0 DEF MergeLoad, compilerVars, fileVars, workerVars, TypeOK, DownEmpty
  <1>2. /\ \A i \in SegIds : i # j => job'[i] = job[i]
        /\ job'[j].segs = job[j].segs /\ job'[j].status = "loaded"
    BY <1>0, <1>1 DEF MergeLoad, TypeOK, JobType
  <1>3. \A i \in merge_jobs : (Busy(i)' <=> Busy(i)) /\ job'[i].segs = job[i].segs
    BY <1>0, <1>1, <1>2 DEF Busy, Swapping, TypeOK
  <1>4. Frame
    BY <1>1, <1>3 DEF Frame
  <1>5. Marks' /\ Booked' /\ Pending' /\ Deeper' /\ Behind' /\ Gone' /\ During'
    BY <1>0, <1>4, FrameKeeps
  <1>6. Permitted' /\ Values'
    BY <1>0, <1>1, <1>4, FrameOutcomes
  <1>7. Exact'
    <2>1. ASSUME NEW i \in merge_jobs, Busy(i), Computed(i)', NEW k \in Keys,
                 NEW p \in job[i].segs, Top(job[i].segs, k, p)
          PROVE  IF k \in ReadDeleted(seg[p].dk)
                 THEN k \in ignored' \/ Output(i)'[k] = Absent
                 ELSE Output(i)'[k] = seg[p].dict[k]
      <3>1. CASE i = j
        <4>1. Output(j)' = job'[j].out
          BY <1>2 DEF Output
        <4>2. QED
          BY <1>0, <2>1, <3>1, <4>1, MergeLoadExact
      <3>2. CASE i # j
        <4>1. job'[i] = job[i]
          BY <1>0, <1>2, <3>2 DEF TypeOK
        <4>2. Computed(i) /\ Output(i)' = Output(i)
          BY <1>1, <2>1, <4>1 DEF Computed, Output
        <4>3. QED
          BY <1>0, <1>1, <2>1, <4>2 DEF Exact
      <3>3. QED
        BY <3>1, <3>2
    <2>2. QED
      BY <1>1, <1>3, <2>1 DEF Exact, Top
  <1>8. QED
    BY <1>5, <1>6, <1>7 DEF DeletesKept

-----------------------------------------------------------------------------
\* Compile: a segment without deletes behind all others

LEMMA NewSegmentKnows ==
    ASSUME NEW d \in [Keys -> Nat], NEW r \in Nat
    PROVE  LET n == NewSegment(d, r) IN
             /\ n.dict = d /\ n.rank = r /\ ~n.in_merge /\ Known(n) = {} /\ Consistent(n)
  <1>1. LET n == NewSegment(d, r) IN
          /\ n.dict = d /\ n.rank = r /\ ~n.in_merge /\ ~n.new_delete /\ ~n.has_deleted_keys
          /\ n.for_write = {} /\ n.during_merge = {} /\ n.dk = NoFile /\ n.dkm = NoFile
          /\ n.deletes_loaded
    BY DEF NewSegment, NoSegment
  <1>2. ReadDeleted(NoFile) = {}
    BY DEF ReadDeleted
  <1>3. QED
    BY <1>1, <1>2 DEF Known, Consistent, OnDisk

LEMMA CompileKeeps ==
    ASSUME Ready, Flow', Compile
    PROVE  DeletesKept'
  <1>0. /\ TypeOK /\ FilesInv /\ ParentsMarked /\ Waiting /\ Numbered /\ Flow /\ Marks
        /\ Booked /\ Pending /\ Deeper /\ Behind /\ Gone /\ Permitted /\ Values /\ During /\ Exact
    BY DEF Ready, DeletesKept
  <1> DEFINE n == nextId
  <1>1. /\ UNCHANGED <<toc, any_delete, ref, ignored, allowed, cur, todo, merge_jobs, job>>
        /\ pc = "compile" /\ pc' = "compile_toc" /\ segments' = segments \cup {n}
    BY DEF Compile, historyVars, jobVars
  <1>2. /\ n \in SegIds /\ n \in Nat /\ n \notin segments \cup toc \cup merge_jobs
        /\ \A i \in segments \cup toc : i \in SegIds /\ seg[i].rank < n /\ seg[i].rank \in Nat
    BY <1>0, NumbersInRange DEF Compile, FilesInv, Fresh, RanksBelow, TypeOK, SegmentType
  <1>3. /\ \A i \in SegIds : i # n => seg'[i] = seg[i]
        /\ seg'[n] = NewSegment(pending, n)
    BY <1>0, <1>2 DEF Compile, TypeOK
  <1>4. /\ seg'[n].dict = pending /\ seg'[n].rank = n /\ ~seg'[n].in_merge
        /\ Known(seg'[n]) = {} /\ Consistent(seg'[n])
    BY <1>0, <1>2, <1>3, NewSegmentKnows DEF TypeOK
  <1>5. \A i \in segments \cup toc : seg'[i] = seg[i] /\ i # n
    BY <1>2, <1>3
  <1> HIDE DEF n
  <1>6. List = segments /\ List' = segments \cup {n}
    BY <1>1 DEF List
  <1>7. \A j \in merge_jobs : /\ Busy(j)' <=> Busy(j)
                              /\ Busy(j) => \A i \in job[j].segs : i \in segments
    BY <1>0, <1>1 DEF Busy, Swapping, ParentsMarked
  <1>8. \A k \in Keys : pending[k] # Absent => pending[k] = ref[k]
    BY <1>0 DEF Waiting
  <1>9. Marks'
    <2>1. \A i \in segments' : seg'[i].in_merge => \E j \in merge_jobs' : Busy(j)' /\ i \in job'[j].segs
      BY <1>0, <1>1, <1>4, <1>5, <1>7 DEF Marks
    <2>2. \A j \in merge_jobs' : Busy(j)' => \A i \in job'[j].segs : seg'[i].rank < j
      BY <1>0, <1>1, <1>5, <1>7 DEF Marks
    <2>3. QED
      BY <1>1, <2>1, <2>2 DEF Marks
  <1>10. Booked'
    BY <1>0, <1>1, <1>4, <1>5 DEF Booked
  <1>11. Pending'
    BY <1>0, <1>1, <1>4, <1>5, <1>6 DEF Pending, Told
  <1>12. Deeper'
    <2>1. ASSUME NEW o \in segments \cup {n}, NEW s \in segments \cup {n}, NEW k \in Keys \ ignored,
                 InDictionary(seg'[o], k), InDictionary(seg'[s], k), seg'[o].rank < seg'[s].rank,
                 k \in Known(seg'[s])
          PROVE  k \in Known(seg'[o])
      <3>1. s # n /\ s \in segments
        BY <1>4, <2>1
      <3>2. o # n /\ o \in segments
        BY <1>2, <1>4, <1>5, <2>1, <3>1
      <3>3. QED
        BY <1>0, <1>5, <1>6, <2>1, <3>1, <3>2 DEF Deeper, Older
    <2>2. QED
      BY <1>1, <1>6, <2>1 DEF Deeper, Older
  <1>13. Behind'
    <2>1. ASSUME NEW o \in segments \cup {n}, NEW s \in segments \cup {n}, NEW k \in Keys \ ignored,
                 InDictionary(seg'[o], k), InDictionary(seg'[s], k), seg'[o].rank < seg'[s].rank,
                 seg'[s].in_merge, k \in ReadDeleted(seg'[s].dk)
          PROVE  Tells(seg'[o], o, k)
      <3>1. s # n /\ s \in segments
        BY <1>4, <2>1
      <3>2. o # n /\ o \in segments
        BY <1>2, <1>4, <1>5, <2>1, <3>1
      <3>3. QED
        BY <1>0, <1>1, <1>5, <2>1, <3>1, <3>2 DEF Behind, Older, Told
    <2>2. QED
      BY <1>1, <2>1 DEF Behind, Older, Told
  <1>14. ASSUME NEW k \in Keys, NEW s \in segments, InDictionary(seg'[s], k),
                \A i \in segments \cup {n} : InDictionary(seg'[i], k) =>
                   seg'[i].rank <= seg'[s].rank
         PROVE  Top(segments, k, s) /\ seg'[s] = seg[s]
    BY <1>5, <1>14 DEF Top
  <1>15. Gone'
    <2>1. ASSUME NEW k \in Keys \ ignored, NEW s \in segments \cup {n}, ref[k] = Absent,
                 InDictionary(seg'[s], k),
                 \A i \in segments \cup {n} : InDictionary(seg'[i], k) =>
                    seg'[i].rank <= seg'[s].rank
          PROVE  k \in Known(seg'[s])
      <3>1. pending[k] = Absent
        BY <1>8, <2>1
      <3>2. s \in segments
        BY <1>4, <2>1, <3>1 DEF InDictionary
      <3>3. QED
        BY <1>0, <1>6, <1>14, <2>1, <3>2 DEF Gone
    <2>2. QED
      BY <1>1, <1>6, <2>1 DEF Gone, Top
  <1>16. PermittedIn(toc) /\ PermittedIn(segments) /\ ValuesIn(toc) /\ ValuesIn(segments)
    BY <1>0, <1>1 DEF Permitted, Values
  <1>17. PermittedIn(toc)' /\ ValuesIn(toc)'
    BY <1>1, <1>5, <1>16 DEF PermittedIn, ValuesIn, Top, Told
  <1>18. PermittedIn(segments)'
    <2>1. ASSUME NEW k \in Keys, NEW s \in segments \cup {n},
                 InDictionary(seg'[s], k), k \in Known(seg'[s]),
                 \A i \in segments \cup {n} : InDictionary(seg'[i], k) =>
                    seg'[i].rank <= seg'[s].rank
          PROVE  Absent \in allowed[k]
      <3>1. s \in segments
        BY <1>4, <2>1
      <3>2. QED
        BY <1>14, <1>16, <2>1, <3>1 DEF PermittedIn
    <2>2. ASSUME NEW k \in Keys, \A s \in segments \cup {n} : ~InDictionary(seg'[s], k)
          PROVE  Absent \in allowed[k]
      BY <1>5, <1>16, <2>2 DEF PermittedIn
    <2>3. QED
      BY <1>1, <2>1, <2>2 DEF PermittedIn, Top
  <1>19. ValuesIn(segments)'
    <2>1. ASSUME NEW k \in Keys \ ignored, NEW s \in segments \cup {n}, InDictionary(seg'[s], k),
                 \A i \in segments \cup {n} : InDictionary(seg'[i], k) =>
                    seg'[i].rank <= seg'[s].rank
          PROVE  seg'[s].dict[k] \in allowed[k] \/ Tells(seg'[s], s, k)
      <3>1. CASE s = n
        <4>1. pending[k] # Absent
          BY <1>4, <2>1, <3>1 DEF InDictionary
        <4>2. QED
          BY <1>0, <1>4, <1>8, <3>1, <4>1 DEF Numbered
      <3>2. CASE s \in segments
        BY <1>14, <1>16, <2>1, <3>2 DEF ValuesIn, Told
      <3>3. QED
        BY <3>1, <3>2
    <2>2. QED
      BY <1>1, <2>1 DEF ValuesIn, Top, Told
  <1>20. During'
    BY <1>0, <1>1, <1>5, <1>7 DEF During
  <1>21. Exact'
    <2>1. \A j \in merge_jobs : Output(j)' = Output(j) /\ (Computed(j)' <=> Computed(j))
      BY <1>0, <1>1, <1>2, <1>3 DEF Output, Computed, TypeOK
    <2>2. \A j \in merge_jobs : Busy(j) => \A i \in job[j].segs : seg'[i] = seg[i]
      BY <1>5, <1>7
    <2>3. ASSUME NEW j \in merge_jobs, Busy(j), Computed(j), NEW k \in Keys,
                 NEW p \in job[j].segs, InDictionary(seg'[p], k),
                 \A i \in job[j].segs : InDictionary(seg'[i], k) => seg'[i].rank <= seg'[p].rank
          PROVE  IF k \in ReadDeleted(seg'[p].dk)
                 THEN k \in ignored \/ Output(j)[k] = Absent
                 ELSE Output(j)[k] = seg'[p].dict[k]
      <3>1. Top(job[j].segs, k, p)
        BY <2>2, <2>3 DEF Top
      <3>2. QED
        BY <1>0, <2>2, <2>3, <3>1 DEF Exact
    <2>4. QED
      BY <1>1, <1>7, <2>1, <2>3 DEF Exact, Top
  <1>22. Permitted' /\ Values'
    BY <1>17, <1>18, <1>19 DEF Permitted, Values
  <1>23. QED
    BY <1>9, <1>10, <1>11, <1>12, <1>13, <1>15, <1>20, <1>21, <1>22 DEF DeletesKept

-----------------------------------------------------------------------------
\* FinalizeSwap: the merged segment takes over the deletes of its parents

Inherited(P) == UNION {p.during_merge : p \in P}

LEMMA MergedKnows ==
    ASSUME NEW d \in [Keys -> Nat], NEW r \in Nat, NEW P \in SUBSET SegmentType
    PROVE  LET m == MergedSegment(d, r, P) IN
             /\ m.dict = d /\ m.rank = r /\ ~m.in_merge /\ ~m.has_deleted_keys
             /\ m.for_write = Inherited(P) /\ OnDisk(m) = Inherited(P)
             /\ Known(m) = Inherited(P) /\ Consistent(m)
  <1> DEFINE inherited == Inherited(P)
             n == NewSegment(d, r)
             b == [n EXCEPT !.for_write = inherited, !.new_delete = (inherited # {})]
             m == MergedSegment(d, r, P)
  <1>1. inherited \in SUBSET Keys
    BY DEF SegmentType, Inherited
  <1>2. /\ n \in SegmentType /\ n.dict = d /\ n.rank = r /\ ~n.in_merge /\ ~n.has_deleted_keys
        /\ n.during_merge = {} /\ n.dk = NoFile /\ n.dkm = NoFile /\ n.deletes_loaded
    BY NewSegmentType DEF NewSegment, NoSegment
  <1> HIDE DEF n, inherited
  <1>3. /\ b \in SegmentType /\ b.dict = d /\ b.rank = r /\ ~b.in_merge /\ ~b.has_deleted_keys
        /\ b.during_merge = {} /\ b.dk = NoFile /\ b.dkm = NoFile /\ b.deletes_loaded
        /\ b.for_write = inherited /\ (b.new_delete <=> inherited # {})
    BY <1>1, <1>2 DEF SegmentType
  <1>4. m = Persist(b)
    BY DEF MergedSegment, inherited, n, Inherited
  <1> HIDE DEF b, m
  <1>5. /\ m.dict = d /\ m.rank = r /\ ~m.in_merge /\ ~m.has_deleted_keys
        /\ m.during_merge = {} /\ m.dkm = NoFile /\ m.deletes_loaded
        /\ m.for_write = inherited /\ (m.new_delete <=> inherited # {})
        /\ m.dk = IF inherited # {} THEN inherited ELSE NoFile
    BY <1>3, <1>4 DEF Persist, SegmentType
  <1>6. ReadDeleted(m.dk) = inherited /\ ReadDeleted(m.dkm) = {}
    BY <1>1, <1>5, NoFileAssumption DEF ReadDeleted
  <1>7. OnDisk(m) = inherited /\ Known(m) = inherited
    BY <1>5, <1>6 DEF OnDisk, Known
  <1>8. Consistent(m)
    BY <1>5, <1>6 DEF Consistent
  <1>9. QED
    BY <1>5, <1>7, <1>8 DEF m, inherited

\* A parent knows of a delete by its .dk file, or received it during the merge.
LEMMA ParentKnows ==
    ASSUME NEW t \in SegmentType, Consistent(t), t.in_merge, NEW k \in Known(t)
    PROVE  k \in ReadDeleted(t.dk) \/ k \in t.during_merge
  BY DEF Consistent, Known, OnDisk

\* The step and its job j
Swap(j) ==
    /\ j \in merge_jobs /\ cur' = j /\ pc = "finalize" /\ pc' = "merge_toc"
    /\ job[j].status = "ok" /\ j \in SegIds /\ j \notin segments \cup toc
    /\ UNCHANGED <<toc, merge_jobs, job, ref, allowed, ignored, any_delete>>
    /\ \A i \in SegIds : i # j => seg'[i] = seg[i]
    /\ IF job[j].segs = {} THEN seg' = seg /\ segments' = segments
       ELSE /\ segments' = (segments \ job[j].segs) \cup {j}
            /\ seg'[j].dict = seg[j].dict /\ ~seg'[j].in_merge /\ Consistent(seg'[j])
            /\ \E i \in job[j].segs : seg'[j].rank = seg[i].rank
            /\ \A i \in job[j].segs : seg'[j].rank <= seg[i].rank
            /\ Known(seg'[j]) = UNION {seg[p].during_merge : p \in job[j].segs}
            /\ \A k \in Known(seg'[j]) : Tells(seg'[j], j, k)

LEMMA FinalizeSwapIs ==
    ASSUME TypeOK, FilesInv, ParentsMarked, Marks, FinalizeSwap
    PROVE  \E j \in merge_jobs : Swap(j)
  <1>1. PICK j \in merge_jobs :
          /\ Finalizing(j) /\ job[j].status = "ok" /\ cur' = j /\ pc' = "merge_toc"
          /\ segments' = Remaining(j)
                            \cup (IF job[j].segs \cap segments = {} THEN {} ELSE {j})
          /\ seg' = IF job[j].segs \cap segments = {} THEN seg
                    ELSE [seg EXCEPT ![j] = MergedSegment(@.dict, MergedRank(j), Inherit(j))]
          /\ UNCHANGED <<task, todo, merge_enabled, compilerVars, jobVars, toc, nextId,
                         count, historyVars>>
    BY DEF FinalizeSwap
  <1>2. /\ UNCHANGED <<toc, merge_jobs, job, ref, allowed, ignored, any_delete>>
        /\ pc = "finalize" /\ j \in SegIds /\ ~Swapping
    BY <1>1 DEF historyVars, jobVars, compilerVars, Finalizing, TypeOK, Swapping
  <1>3. j \notin segments \cup toc
    BY <1>2 DEF FilesInv, OutputsApart
  <1>4. Busy(j) /\ job[j].segs \subseteq segments /\ job[j].segs \cap segments = job[j].segs
    BY <1>2 DEF Busy, ParentsMarked
  <1>5. \A i \in SegIds : i # j => seg'[i] = seg[i]
    BY <1>1 DEF TypeOK
  <1>6. CASE job[j].segs = {}
    BY <1>1, <1>2, <1>3, <1>4, <1>5, <1>6 DEF Swap, Remaining
  <1>7. CASE job[j].segs # {}
    <2> DEFINE P == job[j].segs
               r == MergedRank(j)
               m == MergedSegment(seg[j].dict, r, Inherit(j))
    <2>1. seg'[j] = m /\ segments' = (segments \ P) \cup {j}
      BY <1>1, <1>2, <1>4, <1>7 DEF TypeOK, Remaining
    <2>2. \A i \in P : i \in SegIds /\ seg[i] \in SegmentType /\ seg[i].rank \in Nat
      BY <1>4 DEF TypeOK, SegmentType
    <2>3. (\E i \in P : r = seg[i].rank) /\ (\A i \in P : r <= seg[i].rank)
      <3>1. {seg[i].rank : i \in P} \in SUBSET Nat /\ {seg[i].rank : i \in P} # {}
        BY <1>7, <2>2
      <3>2. r = Min({seg[i].rank : i \in P})
        BY <1>4 DEF MergedRank
      <3> HIDE DEF r
      <3>3. r \in {seg[i].rank : i \in P} /\ \A n \in {seg[i].rank : i \in P} : r <= n
        BY <3>1, <3>2, MinIs
      <3>4. QED
        BY <3>3
    <2>4. r \in Nat /\ Inherit(j) \in SUBSET SegmentType /\ seg[j].dict \in [Keys -> Nat]
      BY <1>2, <2>2, <2>3 DEF Inherit, TypeOK, SegmentType
    <2>5. Inherited(Inherit(j)) = UNION {seg[p].during_merge : p \in P}
      BY DEF Inherit, Inherited
    <2>6. /\ m.dict = seg[j].dict /\ m.rank = r /\ ~m.in_merge /\ ~m.has_deleted_keys
          /\ m.for_write = UNION {seg[p].during_merge : p \in P}
          /\ OnDisk(m) = UNION {seg[p].during_merge : p \in P}
          /\ Known(m) = UNION {seg[p].during_merge : p \in P} /\ Consistent(m)
      BY <2>4, <2>5, MergedKnows
    <2>7. r # j
      <3>1. PICK i \in P : r = seg[i].rank
        BY <2>3
      <3>2. seg[i].rank < j /\ seg[i].rank \in Nat /\ j \in Nat
        BY <1>2, <1>4, <2>2 DEF Marks, SegIds
      <3>3. QED
        BY <3>1, <3>2
    <2> HIDE DEF m, r
    <2>8. \A k \in Known(m) : Tells(m, j, k)
      BY <2>6, <2>7 DEF Tells
    <2>9. QED
      BY <1>1, <1>2, <1>3, <1>5, <1>7, <2>1, <2>3, <2>6, <2>8 DEF Swap
  <1>8. QED
    BY <1>6, <1>7

\* The other segments come before all parents or behind all of them, and so
\* before or behind the merged one.
LEMMA SwapPlaces ==
    ASSUME TypeOK, ParentsMarked, Runs, NEW j \in merge_jobs, Swap(j), job[j].segs # {}
    PROVE  LET P == job[j].segs IN
             /\ Busy(j) /\ P \subseteq segments
             /\ \A p \in P : seg[p].in_merge /\ seg[p] \in SegmentType
             /\ \A x \in segments : seg[x].rank \in Nat /\ x \in SegIds /\ x # j /\ seg'[x] = seg[x]
             /\ seg'[j].rank \in Nat
             /\ \A x \in segments \ P, p \in P :
                   /\ seg[x].rank < seg'[j].rank <=> seg[x].rank < seg[p].rank
                   /\ seg'[j].rank < seg[x].rank <=> seg[p].rank < seg[x].rank
  <1> DEFINE P == job[j].segs
  <1>1. Busy(j) /\ P \subseteq segments /\ (\A p \in P : seg[p].in_merge) /\ Contiguous(P)
    BY DEF Swap, Busy, Swapping, ParentsMarked, Runs
  <1>2. \A x \in segments : /\ seg[x].rank \in Nat /\ x \in SegIds /\ seg[x] \in SegmentType
                            /\ x # j /\ seg'[x] = seg[x]
    BY DEF TypeOK, SegmentType, Swap
  <1>3. PICK i \in P : seg'[j].rank = seg[i].rank
    BY DEF Swap
  <1>4. \A p \in P : seg'[j].rank <= seg[p].rank
    BY DEF Swap
  <1>5. \A x, y \in segments : seg[x].rank = seg[y].rank => x = y
    BY DEF TypeOK
  <1>6. ASSUME NEW x \in segments \ P, NEW p \in P
        PROVE  /\ seg[x].rank < seg'[j].rank <=> seg[x].rank < seg[p].rank
               /\ seg'[j].rank < seg[x].rank <=> seg[p].rank < seg[x].rank
    <2>1. ~(seg[i].rank < seg[x].rank /\ seg[x].rank < seg[p].rank)
      BY <1>1 DEF Contiguous
    <2>2. seg[x].rank # seg[i].rank /\ seg[x].rank # seg[p].rank
      BY <1>1, <1>5, <1>6
    <2>3. seg[i].rank <= seg[p].rank
      BY <1>3, <1>4
    <2>4. seg[x].rank \in Nat /\ seg[i].rank \in Nat /\ seg[p].rank \in Nat
      BY <1>1, <1>2
    <2>5. QED
      BY <1>3, <2>1, <2>2, <2>3, <2>4
  <1>7. seg'[j].rank \in Nat
    BY <1>1, <1>2, <1>3
  <1>8. QED
    BY <1>1, <1>2, <1>6, <1>7

\* Of a key that some parent has, the newest parent decides.
LEMMA SwapOutput ==
    ASSUME TypeOK, FilesInv, ParentsMarked, NothingAdded, Exact,
           NEW j \in merge_jobs, Swap(j), job[j].segs # {}, NEW k \in Keys,
           \/ InDictionary(seg'[j], k)
           \/ \E q \in job[j].segs : InDictionary(seg[q], k)
    PROVE  \E p \in job[j].segs :
             /\ Top(job[j].segs, k, p)
             /\ IF k \in ReadDeleted(seg[p].dk)
                THEN k \in ignored \/ ~InDictionary(seg'[j], k)
                ELSE InDictionary(seg'[j], k) /\ seg'[j].dict[k] = seg[p].dict[k]
  <1> DEFINE P == job[j].segs
  <1>1. Busy(j) /\ Computed(j) /\ P \subseteq segments /\ P \in SUBSET SegIds
    BY DEF Swap, Busy, Swapping, ParentsMarked, Computed, TypeOK
  <1>2. Output(j) = seg'[j].dict
    BY DEF Swap, Output
  <1>3. \E q \in P : InDictionary(seg[q], k)
    BY <1>1, <1>2 DEF NothingAdded, InDictionary
  <1>4. Containing(P, k) # {}
    BY <1>3 DEF Containing
  <1> DEFINE p == NewestOf(P, k)
  <1>5. /\ p \in Containing(P, k)
        /\ \A i \in Containing(P, k) : seg[i].rank <= seg[p].rank
    BY <1>1, <1>4, NewestOfIs DEF TypeOK, FilesInv
  <1> HIDE DEF p
  <1>6. p \in P /\ Top(P, k, p)
    BY <1>5 DEF Top, Containing
  <1>7. IF k \in ReadDeleted(seg[p].dk)
        THEN k \in ignored \/ Output(j)[k] = Absent
        ELSE Output(j)[k] = seg[p].dict[k]
    BY <1>1, <1>6 DEF Exact
  <1>8. IF k \in ReadDeleted(seg[p].dk)
        THEN k \in ignored \/ ~InDictionary(seg'[j], k)
        ELSE InDictionary(seg'[j], k) /\ seg'[j].dict[k] = seg[p].dict[k]
    BY <1>2, <1>6, <1>7 DEF InDictionary, Top
  <1>9. QED
    BY <1>6, <1>8

\* Where the merged segment answers, its newest parent did.
LEMMA SwapTopMerged ==
    ASSUME Ready, NEW j \in merge_jobs, Swap(j), job[j].segs # {}, NEW k \in Keys,
           InDictionary(seg'[j], k)
    PROVE  \E p \in job[j].segs :
             /\ Top(job[j].segs, k, p)
             /\ k \in Known(seg'[j]) => k \in Known(seg[p])
             /\ k \notin ignored => /\ seg'[j].dict[k] = seg[p].dict[k]
                                    /\ k \in Known(seg[p]) => k \in Known(seg'[j])
             /\ (\A x \in segments \ job[j].segs : InDictionary(seg[x], k) =>
                    seg[x].rank <= seg'[j].rank)
                => Top(segments, k, p)
  <1> DEFINE P == job[j].segs
  <1>0. TypeOK /\ FilesInv /\ ParentsMarked /\ Runs /\ NothingAdded /\ Exact /\ During /\ Booked
    BY DEF Ready, ValuesKept, DeletesKept
  <1>1. PICK p \in P :
          /\ Top(P, k, p)
          /\ IF k \in ReadDeleted(seg[p].dk)
             THEN k \in ignored \/ ~InDictionary(seg'[j], k)
             ELSE InDictionary(seg'[j], k) /\ seg'[j].dict[k] = seg[p].dict[k]
    BY <1>0, SwapOutput
  <1>2. /\ Busy(j) /\ P \subseteq segments
        /\ \A q \in P : seg[q].in_merge /\ seg[q] \in SegmentType
        /\ \A x \in segments : seg[x].rank \in Nat
        /\ seg'[j].rank \in Nat
    BY <1>0, SwapPlaces
  <1>3. Known(seg'[j]) = UNION {seg[q].during_merge : q \in P}
    BY DEF Swap
  <1>4. ASSUME k \in Known(seg'[j]) PROVE k \in Known(seg[p])
    <2>1. PICK q \in P : k \in seg[q].during_merge
      BY <1>3, <1>4
    <2>2. k \in seg[p].during_merge
      BY <1>0, <1>1, <1>2, <2>1 DEF During, Top
    <2>3. QED
      BY <2>2 DEF Known
  <1>5. ASSUME k \notin ignored, k \in Known(seg[p]) PROVE k \in Known(seg'[j])
    <2>1. k \notin ReadDeleted(seg[p].dk)
      BY <1>1, <1>5
    <2>2. k \in seg[p].during_merge
      BY <1>0, <1>2, <1>5, <2>1, ParentKnows DEF Booked
    <2>3. QED
      BY <1>3, <2>2
  <1>6. ASSUME \A x \in segments \ P : InDictionary(seg[x], k) => seg[x].rank <= seg'[j].rank
        PROVE  Top(segments, k, p)
    <2>1. seg'[j].rank <= seg[p].rank
      BY DEF Swap
    <2>2. ASSUME NEW x \in segments, InDictionary(seg[x], k) PROVE seg[x].rank <= seg[p].rank
      <3>1. CASE x \in P
        BY <1>1, <2>2, <3>1 DEF Top
      <3>2. CASE x \notin P
        <4>1. seg[x].rank <= seg'[j].rank
          BY <1>6, <2>2, <3>2
        <4>2. seg[x].rank \in Nat /\ seg[p].rank \in Nat
          BY <1>2
        <4>3. QED
          BY <1>2, <2>1, <4>1, <4>2
      <3>3. QED
        BY <3>1, <3>2
    <2>3. QED
      BY <1>1, <1>2, <2>2 DEF Top
  <1>7. k \notin ignored => seg'[j].dict[k] = seg[p].dict[k]
    BY <1>1
  <1>8. QED
    BY <1>1, <1>4, <1>5, <1>6, <1>7

\* Where another segment answers, it did before, or the merge dropped the key
\* because its newest parent has it in the .dk file.
LEMMA SwapTopOther ==
    ASSUME Ready, NEW j \in merge_jobs, Swap(j), job[j].segs # {}, NEW k \in Keys,
           NEW s \in segments \ job[j].segs, InDictionary(seg[s], k),
           \A x \in segments \ job[j].segs : InDictionary(seg[x], k) =>
              seg[x].rank <= seg[s].rank,
           InDictionary(seg'[j], k) => seg'[j].rank <= seg[s].rank
    PROVE  \/ Top(segments, k, s)
           \/ \E p \in job[j].segs : /\ Top(segments, k, p) /\ k \in ReadDeleted(seg[p].dk)
                                     /\ Older(s, p, k)
  <1> DEFINE P == job[j].segs
  <1>0. TypeOK /\ FilesInv /\ ParentsMarked /\ Runs /\ NothingAdded /\ Exact
    BY DEF Ready, ValuesKept, DeletesKept
  <1>1. /\ P \subseteq segments
        /\ \A x \in segments : seg[x].rank \in Nat
        /\ seg'[j].rank \in Nat
        /\ \A x \in segments \ P, p \in P :
              /\ seg[x].rank < seg'[j].rank <=> seg[x].rank < seg[p].rank
              /\ seg'[j].rank < seg[x].rank <=> seg[p].rank < seg[x].rank
    BY <1>0, SwapPlaces
  <1>2. ASSUME ~Top(segments, k, s)
        PROVE  \E p \in P : Top(segments, k, p) /\ k \in ReadDeleted(seg[p].dk) /\ Older(s, p, k)
    <2>1. PICK t \in segments : InDictionary(seg[t], k) /\ ~(seg[t].rank <= seg[s].rank)
      BY <1>2 DEF Top
    <2>2. t \in P
      BY <2>1
    <2>3. seg[s].rank < seg[t].rank
      BY <1>1, <2>1
    <2>4. seg[s].rank < seg'[j].rank
      BY <1>1, <2>2, <2>3
    <2>5. ~InDictionary(seg'[j], k)
      BY <1>1, <2>4
    <2>6. PICK p \in P : Top(P, k, p) /\ k \in ReadDeleted(seg[p].dk)
      BY <1>0, <2>1, <2>2, <2>5, SwapOutput
    <2>7. seg[s].rank < seg[p].rank
      BY <1>1, <2>4
    <2>8. Older(s, p, k)
      BY <2>6, <2>7 DEF Older, Top
    <2>9. ASSUME NEW x \in segments, InDictionary(seg[x], k) PROVE seg[x].rank <= seg[p].rank
      <3>1. CASE x \in P
        BY <2>6, <2>9, <3>1 DEF Top
      <3>2. CASE x \notin P
        <4>1. seg[x].rank <= seg[s].rank
          BY <2>9, <3>2
        <4>2. seg[x].rank \in Nat /\ seg[p].rank \in Nat /\ seg[s].rank \in Nat
          BY <1>1
        <4>3. QED
          BY <2>7, <4>1, <4>2
      <3>3. QED
        BY <3>1, <3>2
    <2>10. Top(segments, k, p)
      BY <1>1, <2>6, <2>9 DEF Top
    <2>11. QED
      BY <2>6, <2>8, <2>10
  <1>3. QED
    BY <1>2

LEMMA SwapKeeps ==
    ASSUME Ready, Flow', NEW j \in merge_jobs, Swap(j), job[j].segs # {}
    PROVE  DeletesKept'
  <1> DEFINE P == job[j].segs
  <1>0. /\ TypeOK /\ FilesInv /\ ParentsMarked /\ Disjoint /\ Runs /\ Flow /\ Marks
        /\ Booked /\ Pending /\ Deeper /\ Behind /\ Gone /\ Permitted /\ Values /\ During /\ Exact
    BY DEF Ready, DeletesKept
  <1>1. /\ UNCHANGED <<toc, merge_jobs, job, ref, allowed, ignored, any_delete>>
        /\ cur' = j /\ pc = "finalize" /\ pc' = "merge_toc"
        /\ j \in SegIds /\ j \notin segments \cup toc
        /\ segments' = (segments \ P) \cup {j}
        /\ \A i \in SegIds : i # j => seg'[i] = seg[i]
        /\ ~seg'[j].in_merge /\ Consistent(seg'[j])
        /\ \A k \in Known(seg'[j]) : Tells(seg'[j], j, k)
    BY DEF Swap
  <1>2. /\ P \subseteq segments /\ Busy(j)
        /\ \A p \in P : seg[p].in_merge /\ seg[p] \in SegmentType
        /\ \A x \in segments : seg[x].rank \in Nat /\ x \in SegIds /\ x # j /\ seg'[x] = seg[x]
        /\ seg'[j].rank \in Nat
        /\ \A x \in segments \ P, p \in P :
              /\ seg[x].rank < seg'[j].rank <=> seg[x].rank < seg[p].rank
              /\ seg'[j].rank < seg[x].rank <=> seg[p].rank < seg[x].rank
    BY <1>0, SwapPlaces
  <1>3. List = segments /\ List' = (segments \ P) \cup {j} /\ toc = segments
    BY <1>0, <1>1 DEF List, Flow
  <1>4. \A i \in merge_jobs : (Busy(i)' <=> i # j) /\ Busy(i)
    BY <1>1 DEF Busy, Swapping
  <1>5. \A i \in merge_jobs \ {j} : \A p \in job[i].segs : p \in segments /\ p \notin P
    BY <1>0, <1>4 DEF ParentsMarked, Disjoint
  <1>6. \A i \in (segments \ P) : i \in segments'
    BY <1>1
  <1>7. Marks'
    <2>1. ASSUME NEW i \in segments', seg'[i].in_merge
          PROVE  \E m \in merge_jobs : Busy(m)' /\ i \in job[m].segs
      <3>1. i \in segments \ P
        BY <1>1, <2>1
      <3>2. PICK m \in merge_jobs : i \in job[m].segs
        BY <1>0, <1>2, <2>1, <3>1 DEF Marks
      <3>3. QED
        BY <1>4, <3>1, <3>2
    <2>2. \A m \in merge_jobs : Busy(m)' => \A i \in job[m].segs : seg'[i].rank < m
      BY <1>0, <1>2, <1>4, <1>5 DEF Marks
    <2>3. QED
      BY <1>1, <2>1, <2>2 DEF Marks
  <1>8. Booked'
    BY <1>0, <1>1, <1>2, <1>3 DEF Booked
  <1>9. Pending'
    <2>1. ASSUME NEW i \in segments', NEW k \in Keys, k \in Known(seg'[i])
          PROVE  Tells(seg'[i], i, k) \/ (any_delete /\ seg'[i].new_delete)
      BY <1>0, <1>1, <1>2, <1>3, <2>1 DEF Pending, Told
    <2>2. QED
      BY <1>1, <1>3, <2>1 DEF Pending, Told
  <1>10. ASSUME NEW s \in segments \ P, NEW k \in Keys \ ignored, InDictionary(seg'[j], k),
                InDictionary(seg[s], k), seg'[j].rank < seg[s].rank, k \in Known(seg[s])
         PROVE  k \in Known(seg'[j])
    <2>1. PICK p \in P : Top(P, k, p) /\ (k \in Known(seg[p]) => k \in Known(seg'[j]))
      BY <1>10, SwapTopMerged
    <2>2. Older(p, s, k)
      BY <1>2, <1>10, <2>1 DEF Older, Top
    <2>3. k \in Known(seg[p])
      BY <1>0, <1>2, <1>3, <1>10, <2>2 DEF Deeper
    <2>4. QED
      BY <2>1, <2>3
  <1>11. Deeper'
    <2>1. ASSUME NEW o \in segments', NEW s \in segments', NEW k \in Keys \ ignored,
                 InDictionary(seg'[o], k), InDictionary(seg'[s], k), seg'[o].rank < seg'[s].rank,
                 k \in Known(seg'[s])
          PROVE  k \in Known(seg'[o])
      <3>1. CASE s = j /\ o \in segments \ P
        <4>1. PICK p \in P : Top(P, k, p) /\ k \in Known(seg[p])
          BY <2>1, <3>1, SwapTopMerged
        <4>2. Older(o, p, k)
          BY <1>2, <2>1, <3>1, <4>1 DEF Older, Top
        <4>3. QED
          BY <1>0, <1>2, <1>3, <3>1, <4>1, <4>2 DEF Deeper
      <3>2. CASE o = j /\ s \in segments \ P
        BY <1>2, <1>10, <2>1, <3>2
      <3>3. CASE o \in segments \ P /\ s \in segments \ P
        <4>1. Older(o, s, k) /\ k \in Known(seg[s])
          BY <1>2, <2>1, <3>3 DEF Older
        <4>2. QED
          BY <1>0, <1>2, <1>3, <3>3, <4>1 DEF Deeper
      <3>4. CASE o = j /\ s = j
        BY <1>2, <2>1, <3>4
      <3>5. QED
        BY <1>1, <3>1, <3>2, <3>3, <3>4
    <2>2. QED
      BY <1>1, <1>3, <2>1 DEF Deeper, Older
  <1>12. Behind'
    <2>1. ASSUME NEW o \in segments', NEW s \in segments', NEW k \in Keys \ ignored,
                 InDictionary(seg'[o], k), InDictionary(seg'[s], k), seg'[o].rank < seg'[s].rank,
                 seg'[s].in_merge, k \in ReadDeleted(seg'[s].dk)
          PROVE  Tells(seg'[o], o, k)
      <3>1. s \in segments \ P /\ seg'[s] = seg[s]
        BY <1>1, <1>2, <2>1
      <3>2. CASE o = j
        <4>1. k \in Known(seg[s])
          BY <2>1, <3>1 DEF Known, OnDisk
        <4>2. k \in Known(seg'[j])
          BY <1>10, <2>1, <3>1, <3>2, <4>1
        <4>3. QED
          BY <1>1, <3>2, <4>2
      <3>3. CASE o \in segments \ P
        <4>1. Older(o, s, k) /\ seg'[o] = seg[o]
          BY <1>2, <2>1, <3>1, <3>3 DEF Older
        <4>2. QED
          BY <1>0, <1>1, <2>1, <3>1, <3>3, <4>1 DEF Behind, Told
      <3>4. QED
        BY <1>1, <3>2, <3>3
    <2>2. QED
      BY <1>1, <2>1 DEF Behind, Older, Told
  <1> DEFINE T(s, k) == /\ s \in segments' /\ InDictionary(seg'[s], k)
                        /\ \A i \in segments' : InDictionary(seg'[i], k) =>
                              seg'[i].rank <= seg'[s].rank
  <1>13. ASSUME NEW k \in Keys, T(j, k)
         PROVE  \E p \in P :
                  /\ Top(segments, k, p)
                  /\ k \in Known(seg'[j]) => k \in Known(seg[p])
                  /\ k \notin ignored => /\ seg'[j].dict[k] = seg[p].dict[k]
                                         /\ k \in Known(seg[p]) => k \in Known(seg'[j])
    <2>1. \A x \in segments \ P : InDictionary(seg[x], k) => seg[x].rank <= seg'[j].rank
      BY <1>2, <1>6, <1>13
    <2>2. QED
      BY <1>13, <2>1, SwapTopMerged
  <1>14. ASSUME NEW k \in Keys, NEW s \in segments \ P, T(s, k)
         PROVE  /\ seg'[s] = seg[s]
                /\ \/ Top(segments, k, s)
                   \/ \E p \in P : /\ Top(segments, k, p) /\ k \in ReadDeleted(seg[p].dk)
                                   /\ Older(s, p, k)
    <2>1. seg'[s] = seg[s] /\ InDictionary(seg[s], k)
      BY <1>2, <1>14
    <2>2. \A x \in segments \ P : InDictionary(seg[x], k) => seg[x].rank <= seg[s].rank
      BY <1>2, <1>6, <1>14
    <2>3. InDictionary(seg'[j], k) => seg'[j].rank <= seg[s].rank
      BY <1>1, <1>14, <2>1
    <2>4. QED
      BY <2>1, <2>2, <2>3, SwapTopOther
  <1>15. \A s, k : T(s, k) => s = j \/ s \in segments \ P
    BY <1>1
  <1> HIDE DEF T
  <1>16. Gone'
    <2>1. ASSUME NEW k \in Keys \ ignored, NEW s, ref[k] = Absent, T(s, k)
          PROVE  k \in Known(seg'[s])
      <3>1. CASE s = j
        <4>1. PICK p \in P : /\ Top(segments, k, p)
                             /\ k \in Known(seg[p]) => k \in Known(seg'[j])
          BY <1>13, <2>1, <3>1
        <4>2. k \in Known(seg[p])
          BY <1>0, <1>2, <1>3, <2>1, <4>1 DEF Gone
        <4>3. QED
          BY <3>1, <4>1, <4>2
      <3>2. CASE s \in segments \ P
        <4>1. CASE Top(segments, k, s)
          BY <1>0, <1>3, <1>14, <2>1, <3>2, <4>1 DEF Gone
        <4>2. ASSUME NEW p \in P, k \in ReadDeleted(seg[p].dk), Older(s, p, k)
              PROVE  k \in Known(seg'[s])
          <5>1. k \in Known(seg[p])
            BY <4>2 DEF Known, OnDisk
          <5>2. QED
            BY <1>0, <1>2, <1>3, <2>1, <3>2, <4>2, <5>1 DEF Deeper
        <4>3. QED
          BY <1>14, <2>1, <3>2, <4>1, <4>2
      <3>3. QED
        BY <1>15, <2>1, <3>1, <3>2
    <2>2. QED
      BY <1>1, <1>3, <2>1 DEF Gone, Top, T
  <1>17. PermittedIn(toc) /\ PermittedIn(segments) /\ ValuesIn(toc) /\ ValuesIn(segments)
    BY <1>0, <1>1 DEF Permitted, Values
  <1>18. PermittedIn(toc)' /\ ValuesIn(toc)'
    BY <1>1, <1>2, <1>3, <1>17 DEF PermittedIn, ValuesIn, Top, Told
  <1>19. PermittedIn(segments)'
    <2>1. ASSUME NEW k \in Keys, NEW s, T(s, k), k \in Known(seg'[s]) PROVE Absent \in allowed[k]
      <3>1. CASE s = j
        <4>1. PICK p \in P : Top(segments, k, p) /\ k \in Known(seg[p])
          BY <1>13, <2>1, <3>1
        <4>2. QED
          BY <1>2, <1>17, <4>1 DEF PermittedIn
      <3>2. CASE s \in segments \ P
        <4>1. CASE Top(segments, k, s)
          BY <1>14, <1>17, <2>1, <3>2, <4>1 DEF PermittedIn
        <4>2. ASSUME NEW p \in P, Top(segments, k, p), k \in ReadDeleted(seg[p].dk)
              PROVE  Absent \in allowed[k]
          <5>1. k \in Known(seg[p])
            BY <4>2 DEF Known, OnDisk
          <5>2. QED
            BY <1>2, <1>17, <4>2, <5>1 DEF PermittedIn
        <4>3. QED
          BY <1>14, <2>1, <3>2, <4>1, <4>2
      <3>3. QED
        BY <1>15, <2>1, <3>1, <3>2
    <2>2. ASSUME NEW k \in Keys, \A s \in segments' : ~InDictionary(seg'[s], k)
          PROVE  Absent \in allowed[k]
      <3>1. \A s \in segments \ P : ~InDictionary(seg[s], k)
        BY <1>2, <1>6, <2>2
      <3>2. ~InDictionary(seg'[j], k)
        BY <1>1, <2>2
      <3>3. CASE \A q \in P : ~InDictionary(seg[q], k)
        BY <1>17, <3>1, <3>3 DEF PermittedIn
      <3>4. CASE \E q \in P : InDictionary(seg[q], k)
        <4>1. NothingAdded
          BY DEF Ready, ValuesKept
        <4>2. PICK p \in P : Top(P, k, p) /\ k \in ReadDeleted(seg[p].dk)
          BY <1>0, <3>2, <3>4, <4>1, SwapOutput
        <4>3. Top(segments, k, p)
          BY <1>2, <3>1, <4>2 DEF Top
        <4>4. k \in Known(seg[p])
          BY <4>2 DEF Known, OnDisk
        <4>5. QED
          BY <1>2, <1>17, <4>3, <4>4 DEF PermittedIn
      <3>5. QED
        BY <3>3, <3>4
    <2>3. QED
      BY <1>1, <2>1, <2>2 DEF PermittedIn, Top, T
  <1>20. ValuesIn(segments)'
    <2>1. ASSUME NEW k \in Keys \ ignored, NEW s, T(s, k)
          PROVE  seg'[s].dict[k] \in allowed[k] \/ Tells(seg'[s], s, k)
      <3>1. CASE s = j
        <4>1. PICK p \in P : /\ Top(segments, k, p) /\ seg'[j].dict[k] = seg[p].dict[k]
                             /\ k \in Known(seg[p]) => k \in Known(seg'[j])
          BY <1>13, <2>1, <3>1
        <4>2. seg[p].dict[k] \in allowed[k] \/ Told(p, k)
          BY <1>2, <1>17, <2>1, <4>1 DEF ValuesIn
        <4>3. CASE Told(p, k)
          <5>1. k \in Known(seg[p])
            BY <1>0, <1>2, <4>3, TellsOnDisk DEF Told, Booked
          <5>2. QED
            BY <1>1, <3>1, <4>1, <5>1
        <4>4. QED
          BY <3>1, <4>1, <4>2, <4>3
      <3>2. CASE s \in segments \ P
        <4>1. seg'[s] = seg[s]
          BY <1>2, <3>2
        <4>2. CASE Top(segments, k, s)
          BY <1>17, <2>1, <3>2, <4>1, <4>2 DEF ValuesIn, Told
        <4>3. ASSUME NEW p \in P, k \in ReadDeleted(seg[p].dk), Older(s, p, k)
              PROVE  Tells(seg'[s], s, k)
          BY <1>0, <1>1, <1>2, <2>1, <3>2, <4>1, <4>3 DEF Behind, Told
        <4>4. QED
          BY <1>14, <2>1, <3>2, <4>2, <4>3
      <3>3. QED
        BY <1>15, <2>1, <3>1, <3>2
    <2>2. QED
      BY <1>1, <2>1 DEF ValuesIn, Top, Told, T
  <1>21. Permitted' /\ Values'
    BY <1>18, <1>19, <1>20 DEF Permitted, Values
  <1>22. \A i \in merge_jobs : Busy(i)' => \A p \in job[i].segs : seg'[p] = seg[p]
    BY <1>2, <1>4, <1>5
  <1>23. During'
    BY <1>0, <1>1, <1>4, <1>22 DEF During
  <1>24. Exact'
    <2>1. \A i \in merge_jobs : Busy(i)' => Output(i)' = Output(i) /\ (Computed(i)' <=> Computed(i))
      BY <1>0, <1>1, <1>4 DEF Output, Computed, TypeOK
    <2>2. ASSUME NEW i \in merge_jobs, Busy(i)', Computed(i), NEW k \in Keys,
                 NEW p \in job[i].segs, InDictionary(seg'[p], k),
                 \A q \in job[i].segs : InDictionary(seg'[q], k) => seg'[q].rank <= seg'[p].rank
          PROVE  IF k \in ReadDeleted(seg'[p].dk)
                 THEN k \in ignored \/ Output(i)[k] = Absent
                 ELSE Output(i)[k] = seg'[p].dict[k]
      <3>1. Top(job[i].segs, k, p)
        BY <1>22, <2>2 DEF Top
      <3>2. QED
        BY <1>0, <1>4, <1>22, <2>2, <3>1 DEF Exact
    <2>3. QED
      BY <1>1, <2>1, <2>2 DEF Exact, Top
  <1>25. QED
    BY <1>7, <1>8, <1>9, <1>11, <1>12, <1>16, <1>21, <1>23, <1>24 DEF DeletesKept

LEMMA FinalizeSwapKeeps ==
    ASSUME Ready, Flow', FinalizeSwap
    PROVE  DeletesKept'
  <1>0. /\ TypeOK /\ FilesInv /\ ParentsMarked /\ Marks
        /\ Booked /\ Pending /\ Deeper /\ Behind /\ Gone /\ Permitted /\ Values /\ During /\ Exact
    BY DEF Ready, DeletesKept
  <1>1. PICK j \in merge_jobs : Swap(j)
    BY <1>0, FinalizeSwapIs
  <1>2. CASE job[j].segs # {}
    BY <1>1, <1>2, SwapKeeps
  <1>3. CASE job[j].segs = {}
    <2>1. /\ UNCHANGED <<toc, merge_jobs, job, ref, allowed, ignored, any_delete, seg, segments>>
          /\ cur' = j /\ pc = "finalize" /\ pc' = "merge_toc"
      BY <1>1, <1>3 DEF Swap
    <2>2. \A i \in merge_jobs : Busy(i) /\ (Busy(i)' <=> i # j)
      BY <2>1 DEF Busy, Swapping
    <2>3. Frame
      BY <1>3, <2>1, <2>2 DEF Frame
    <2>4. Marks' /\ Booked' /\ Pending' /\ Deeper' /\ Behind' /\ Gone' /\ During'
      BY <1>0, <2>3, FrameKeeps
    <2>5. Exact'
      BY <1>0, <2>1, <2>3, FrameExact DEF Computed, Output
    <2>6. Permitted' /\ Values'
      BY <1>0, <2>1, <2>3, FrameOutcomes
    <2>7. QED
      BY <2>4, <2>5, <2>6 DEF DeletesKept
  <1>4. QED
    BY <1>2, <1>3

-----------------------------------------------------------------------------
\* An orderly shutdown loses nothing, and LoadIndex finds everything.

LEMMA RemainsKnows ==
    ASSUME NEW t \in SegmentType, Consistent(t), ~t.in_merge, NEW i
    PROVE  LET r == Remains(t) IN
             /\ Consistent(r) /\ ~r.in_merge /\ Known(r) = OnDisk(t)
             /\ \A k \in Keys : k \in OnDisk(t) => Tells(r, i, k)
  <1> DEFINE r == Remains(t)
  <1>1. /\ r \in SegmentType
        /\ r.dk = t.dk /\ r.dkm = t.dkm /\ r.for_write = {} /\ r.during_merge = {}
        /\ ~r.in_merge /\ ~r.new_delete /\ ~r.deletes_loaded /\ ~r.has_deleted_keys
    BY RemainsIs DEF Remains, NoSegment
  <1> HIDE DEF r
  <1>2. OnDisk(r) = OnDisk(t) /\ Known(r) = OnDisk(t)
    BY <1>1 DEF OnDisk, Known
  <1>3. Consistent(r)
    BY <1>1 DEF Consistent
  <1>4. ASSUME NEW k \in Keys, k \in OnDisk(t) PROVE Tells(r, i, k)
    <2>1. ~(r.dk = NoFile /\ r.dkm = NoFile)
      BY <1>1, <1>4 DEF OnDisk, ReadDeleted
    <2>2. LoadDeletedKeys(r).has_deleted_keys /\ LoadDeletedKeys(r).deleted_keys = OnDisk(r)
      BY <1>1, <2>1, LoadFields
    <2>3. IsDeleted(r, k)
      BY <1>1, <1>2, <1>4, <2>2, IsDeletedMeans
    <2>4. QED
      BY <2>3 DEF Tells
  <1>5. QED
    BY <1>1, <1>2, <1>3, <1>4 DEF r

LEMMA OpenKnows ==
    ASSUME NEW t \in SegmentType, Consistent(t), ~t.in_merge, NEW i
    PROVE  LET r == OpenSegment(t) IN
             /\ SamePlace(r, t) /\ Consistent(r) /\ ~r.in_merge /\ Known(r) = OnDisk(t)
             /\ \A k \in Keys : k \in OnDisk(t) => Tells(r, i, k)
  <1> DEFINE r == Remains(t)
             l == LoadDeletedKeys(r)
  <1>1. /\ r \in SegmentType /\ Consistent(r) /\ ~r.in_merge /\ SamePlace(r, t)
        /\ r.dk = t.dk /\ r.dkm = t.dkm
    BY RemainsIs, RemainsKnows DEF Remains, NoSegment
  <1>2. Known(r) = OnDisk(t)
    BY RemainsKnows
  <1>3. OpenSegment(t) = l
    BY DEF OpenSegment, Remains
  <1> HIDE DEF r
  <1>4. SamePlace(l, r) /\ ~l.in_merge /\ Consistent(l) /\ Known(l) = Known(r)
    BY <1>1, LoadKeeps, LoadConsistent
  <1>5. ASSUME NEW k \in Keys, k \in OnDisk(t) PROVE Tells(l, i, k)
    <2>1. k \in OnDisk(r)
      BY <1>1, <1>5 DEF OnDisk
    <2>2. QED
      BY <1>1, <2>1, LoadShowsAll DEF Tells
  <1> HIDE DEF l
  <1>6. SamePlace(l, t)
    BY <1>1, <1>4 DEF SamePlace
  <1>7. QED
    BY <1>2, <1>3, <1>4, <1>5, <1>6

LEMMA ShutdownKeeps ==
    ASSUME Ready, Flow', Shutdown
    PROVE  DeletesKept'
  <1>0. /\ TypeOK /\ Flow /\ Marks
        /\ Booked /\ Pending /\ Deeper /\ Gone /\ Permitted /\ Values
    BY DEF Ready, DeletesKept
  <1>1. /\ pc = "finished" /\ pc' = "down" /\ segments' = {} /\ merge_jobs' = {}
        /\ UNCHANGED <<toc, ref, allowed, ignored>>
        /\ \A i \in SegIds : seg'[i] = Remains(seg[i])
    BY DEF Shutdown, Down, historyVars, Remains
  <1>2. toc = segments /\ ~any_delete /\ merge_jobs = {} /\ List = toc /\ List' = toc
    BY <1>0, <1>1 DEF Flow, List
  <1>3. ASSUME NEW i \in toc
        PROVE  /\ i \in SegIds /\ SamePlace(seg'[i], seg[i]) /\ Consistent(seg'[i])
               /\ ~seg'[i].in_merge
               /\ \A k \in Keys : k \in Known(seg'[i]) <=> k \in Known(seg[i])
               /\ \A k \in Keys : k \in Known(seg[i]) => Tells(seg'[i], i, k)
    <2>1. i \in SegIds /\ seg[i] \in SegmentType /\ Consistent(seg[i]) /\ ~seg[i].in_merge
      BY <1>0, <1>2 DEF TypeOK, Booked, Marks
    <2>2. /\ Consistent(seg'[i]) /\ ~seg'[i].in_merge /\ Known(seg'[i]) = OnDisk(seg[i])
          /\ \A k \in Keys : k \in OnDisk(seg[i]) => Tells(seg'[i], i, k)
      BY <1>1, <2>1, RemainsKnows
    <2>3. SamePlace(seg'[i], seg[i])
      BY <1>1, <2>1, RemainsIs
    <2>4. \A k \in Keys : k \in Known(seg[i]) => k \in OnDisk(seg[i])
      BY <1>0, <1>2, <2>1, TellsOnDisk DEF Pending, Told
    <2>5. OnDisk(seg[i]) \subseteq Known(seg[i])
      BY DEF Known
    <2>6. QED
      BY <2>1, <2>2, <2>3, <2>4, <2>5
  <1>4. \A i \in toc : seg'[i].dict = seg[i].dict /\ seg'[i].rank = seg[i].rank
    BY <1>3 DEF SamePlace
  <1>5. \A i \in toc, k \in Keys : InDictionary(seg'[i], k) <=> InDictionary(seg[i], k)
    BY <1>4 DEF InDictionary
  <1>6. Marks' /\ Booked' /\ Behind' /\ During' /\ Exact'
    BY <1>1, <1>3 DEF Marks, Booked, Behind, During, Exact
  <1>7. Pending'
    BY <1>2, <1>3 DEF Pending, Told
  <1>8. Deeper'
    BY <1>0, <1>1, <1>2, <1>3, <1>4, <1>5 DEF Deeper, Older
  <1>9. ASSUME NEW k \in Keys, NEW s \in toc, InDictionary(seg'[s], k),
               \A i \in toc : InDictionary(seg'[i], k) => seg'[i].rank <= seg'[s].rank
        PROVE  Top(toc, k, s)
    BY <1>4, <1>9, SteadyTop
  <1>10. Gone'
    BY <1>0, <1>1, <1>2, <1>3, <1>9 DEF Gone, Top
  <1>11. Permitted'
    <2>1. PermittedIn(toc)
      BY <1>0 DEF Permitted
    <2>2. PermittedIn(toc)'
      BY <1>1, <1>3, <1>5, <1>9, <2>1 DEF PermittedIn, Top
    <2>3. QED
      BY <1>1, <2>2 DEF Permitted
  <1>12. Values'
    <2>1. ValuesIn(toc)
      BY <1>0 DEF Values
    <2>2. ASSUME NEW k \in Keys \ ignored, NEW s \in toc, InDictionary(seg'[s], k),
                 \A i \in toc : InDictionary(seg'[i], k) => seg'[i].rank <= seg'[s].rank
          PROVE  seg'[s].dict[k] \in allowed[k] \/ Tells(seg'[s], s, k)
      <3>1. seg[s].dict[k] \in allowed[k] \/ Told(s, k)
        BY <1>9, <2>1, <2>2 DEF ValuesIn
      <3>2. Told(s, k) => k \in Known(seg[s])
        BY <1>0, <1>3, TellsOnDisk DEF Told, TypeOK, Booked
      <3>3. QED
        BY <1>3, <1>4, <3>1, <3>2
    <2>3. QED
      BY <1>1, <2>2 DEF Values, ValuesIn, Top, Told
  <1>13. QED
    BY <1>6, <1>7, <1>8, <1>10, <1>11, <1>12 DEF DeletesKept

LEMMA OpenKeepsDeletes ==
    ASSUME Ready, Flow', Open
    PROVE  DeletesKept'
  <1>0. /\ TypeOK /\ FilesInv /\ DownEmpty /\ Flow /\ Marks /\ Booked /\ Pending /\ Deeper
    BY DEF Ready, DeletesKept
  <1>1. /\ pc = "down" /\ pc' = "idle" /\ segments' = toc /\ merge_jobs' = {}
        /\ UNCHANGED <<toc, any_delete, ignored>>
        /\ \A i \in toc : seg'[i] = OpenSegment(seg[i])
        /\ \A k \in Keys : ref'[k] = Durable(k) /\ allowed'[k] = {Durable(k)}
    BY <1>0 DEF Open, compilerVars, jobVars, DownEmpty, TypeOK
  <1>2. ~any_delete /\ List = toc /\ List' = toc
    BY <1>0, <1>1 DEF Flow, List
  <1>3. ASSUME NEW i \in toc
        PROVE  /\ SamePlace(seg'[i], seg[i]) /\ Consistent(seg'[i])
               /\ ~seg'[i].in_merge
               /\ Known(seg'[i]) = OnDisk(seg[i])
               /\ \A k \in Keys : k \in Known(seg[i]) <=> k \in OnDisk(seg[i])
               /\ \A k \in Keys : k \in OnDisk(seg[i]) => Tells(seg'[i], i, k)
    <2>1. i \in SegIds /\ seg[i] \in SegmentType /\ Consistent(seg[i]) /\ ~seg[i].in_merge
      BY <1>0, <1>1 DEF TypeOK, Booked, Marks
    <2>2. /\ SamePlace(seg'[i], seg[i])
          /\ Consistent(seg'[i]) /\ ~seg'[i].in_merge /\ Known(seg'[i]) = OnDisk(seg[i])
          /\ \A k \in Keys : k \in OnDisk(seg[i]) => Tells(seg'[i], i, k)
      BY <1>1, <2>1, OpenKnows
    <2>3. \A k \in Keys : k \in Known(seg[i]) => k \in OnDisk(seg[i])
      BY <1>0, <1>2, <2>1, TellsOnDisk DEF Pending, Told
    <2>4. OnDisk(seg[i]) \subseteq Known(seg[i])
      BY DEF Known
    <2>5. QED
      BY <2>2, <2>3, <2>4
  <1>4. \A i \in toc : seg'[i].dict = seg[i].dict /\ seg'[i].rank = seg[i].rank
    BY <1>3 DEF SamePlace
  <1>5. \A i \in toc, k \in Keys : InDictionary(seg'[i], k) <=> InDictionary(seg[i], k)
    BY <1>4 DEF InDictionary
  <1>6. Marks' /\ Booked' /\ Behind' /\ During' /\ Exact'
    BY <1>1, <1>3 DEF Marks, Booked, Behind, During, Exact
  <1>7. Pending'
    BY <1>2, <1>3 DEF Pending, Told
  <1>8. Deeper'
    BY <1>0, <1>1, <1>2, <1>3, <1>4, <1>5 DEF Deeper, Older
  <1>9. ASSUME NEW k \in Keys, NEW s \in toc, InDictionary(seg'[s], k),
               \A i \in toc : InDictionary(seg'[i], k) => seg'[i].rank <= seg'[s].rank
        PROVE  Durable(k) = IF k \in OnDisk(seg[s]) THEN Absent ELSE seg'[s].dict[k]
    <2>1. Top(toc, k, s)
      BY <1>4, <1>9, SteadyTop
    <2>2. Containing(toc, k) # {} /\ NewestOf(toc, k) = s
      BY <1>0, <2>1, TopIsNewest DEF FilesInv, TypeOK
    <2>3. QED
      BY <1>4, <2>2 DEF Durable
  <1>10. ASSUME NEW k \in Keys, \A s \in toc : ~InDictionary(seg'[s], k)
         PROVE  Durable(k) = Absent
    BY <1>5, <1>10 DEF Durable, Containing
  <1>11. Gone'
    <2>1. ASSUME NEW k \in Keys, NEW s \in toc, ref'[k] = Absent, InDictionary(seg'[s], k),
                 \A i \in toc : InDictionary(seg'[i], k) => seg'[i].rank <= seg'[s].rank
          PROVE  k \in Known(seg'[s])
      BY <1>1, <1>3, <1>9, <2>1 DEF InDictionary
    <2>2. QED
      BY <1>2, <2>1 DEF Gone, Top
  <1>12. Permitted'
    <2>1. PermittedIn(toc)' /\ PermittedIn(segments)'
      BY <1>1, <1>3, <1>9, <1>10 DEF PermittedIn, Top
    <2>2. QED
      BY <2>1 DEF Permitted
  <1>13. Values'
    <2>1. ASSUME NEW k \in Keys, NEW s \in toc, InDictionary(seg'[s], k),
                 \A i \in toc : InDictionary(seg'[i], k) => seg'[i].rank <= seg'[s].rank
          PROVE  seg'[s].dict[k] \in allowed'[k] \/ Tells(seg'[s], s, k)
      BY <1>1, <1>3, <1>9, <2>1
    <2>2. ValuesIn(toc)' /\ ValuesIn(segments)'
      BY <1>1, <2>1 DEF ValuesIn, Top, Told
    <2>3. QED
      BY <2>2 DEF Values
  <1>14. QED
    BY <1>6, <1>7, <1>8, <1>11, <1>12, <1>13 DEF DeletesKept

-----------------------------------------------------------------------------
\* The invariant and what it says

LEMMA DeletesStep ==
    ASSUME TypeOK, FilesInv, ApartInv, ValuesInv, DeletesInv, Policy = "tiered", [Next]_vars
    PROVE  DeletesInv'
  <1> SUFFICES ASSUME Undisturbed' PROVE DeletesKept'
    BY DEF DeletesInv
  <1>1. Undisturbed /\ NoneFailed /\ ParentsMarked /\ Disjoint /\ Runs /\ DownEmpty /\ Calm
    BY CalmSteps
  <1>2. Ready
    BY <1>1 DEF Ready, ValuesInv, ValuesKept, Undisturbed, DeletesInv
  <1>3. TypeOK'
    BY FilesStep, TypeStep
  <1>4. Waiting' /\ InMemory'
    BY ValuesStep DEF ValuesInv, Undisturbed
  <1>5. Flow'
    BY <1>1, <1>2, FlowStep DEF Ready, DeletesKept
  <1>6. CASE SteadyStep
    BY <1>2, <1>3, <1>4, <1>5, <1>6, SteadyStepsKeep
  <1>7. ASSUME NEW k \in sc.keys, Delete(k) PROVE DeletesKept'
    BY <1>2, <1>5, <1>7, DeleteKeeps
  <1>8. CASE Compile
    BY <1>2, <1>5, <1>8, CompileKeeps
  <1>9. CASE CompileToc \/ MergeToc
    BY <1>2, <1>3, <1>4, <1>5, <1>9, TocKeeps
  <1>10. CASE FinalizeSwap
    BY <1>2, <1>5, <1>10, FinalizeSwapKeeps
  <1>11. CASE RemoveOld
    BY <1>2, <1>5, <1>11, RemoveOldKeeps
  <1>12. CASE RunMerge
    BY <1>2, <1>3, <1>4, <1>5, <1>12, RunMergeKeeps
  <1>13. ASSUME NEW j \in merge_jobs, MergeLoad(j) \/ MergeFinish(j) PROVE DeletesKept'
    BY <1>2, <1>5, <1>13, MergeLoadKeeps, MergeFinishKeeps
  <1>14. CASE Shutdown
    BY <1>2, <1>5, <1>14, ShutdownKeeps
  <1>15. CASE Open
    BY <1>2, <1>5, <1>15, OpenKeepsDeletes
  <1>16. QED
    BY <1>1, <1>6, <1>7, <1>8, <1>9, <1>10, <1>11, <1>12, <1>13, <1>14, <1>15
       DEF Calm, SteadyStep

LEMMA DeletesInit == Init => DeletesInv
  <1> SUFFICES ASSUME Init PROVE DeletesKept
    BY DEF DeletesInv
  <1>1. /\ segments = {} /\ toc = {} /\ merge_jobs = {} /\ pc = "down" /\ ~any_delete
        /\ task = "none" /\ \A k \in Keys : Absent \in allowed[k]
    BY DEF Init
  <1>2. List = {}
    BY <1>1 DEF List
  <1>3. Flow
    BY <1>1 DEF Flow
  <1>4. Marks /\ Booked /\ Behind /\ During /\ Exact
    BY <1>1 DEF Marks, Booked, Behind, During, Exact
  <1>5. Pending /\ Deeper /\ Gone
    BY <1>2 DEF Pending, Deeper, Gone
  <1>6. Permitted /\ Values
    BY <1>1 DEF Permitted, PermittedIn, Values, ValuesIn
  <1>7. QED
    BY <1>3, <1>4, <1>5, <1>6 DEF DeletesKept

\* The segment of S that answers a lookup
LEMMA NewestIsTop ==
    ASSUME TypeOK, FilesInv, NEW S \in SUBSET SegIds, NEW k \in Keys, Containing(S, k) # {}
    PROVE  Top(S, k, NewestOf(S, k))
  <1>1. /\ NewestOf(S, k) \in Containing(S, k)
        /\ \A i \in Containing(S, k) : seg[i].rank <= seg[NewestOf(S, k)].rank
    BY NewestOfIs DEF TypeOK, FilesInv
  <1>2. QED
    BY <1>1 DEF Top, Containing

LEMMA DeletesFound ==
    ASSUME TypeOK, FilesInv, DeletesInv
    PROVE  DurableUndisturbed /\ VisibleUnlessUnread
  <1>1. ASSUME Undisturbed, NEW k \in Keys \ ignored PROVE Durable(k) \in allowed[k]
    <2>1. PermittedIn(toc) /\ ValuesIn(toc) /\ Booked
      BY <1>1 DEF DeletesInv, DeletesKept, Permitted, Values
    <2>2. CASE Containing(toc, k) = {}
      <3>1. \A s \in toc : ~InDictionary(seg[s], k)
        BY <2>2 DEF Containing
      <3>2. QED
        BY <2>1, <2>2, <3>1 DEF Durable, PermittedIn
    <2>3. CASE Containing(toc, k) # {}
      <3> DEFINE s == NewestOf(toc, k)
      <3>1. Top(toc, k, s) /\ s \in toc
        BY <2>3, NewestIsTop DEF TypeOK, Top
      <3>2. seg[s] \in SegmentType /\ Consistent(seg[s])
        BY <2>1, <3>1 DEF TypeOK, Booked
      <3>3. Durable(k) = IF k \in OnDisk(seg[s]) THEN Absent ELSE seg[s].dict[k]
        BY <2>3 DEF Durable
      <3> HIDE DEF s
      <3>4. CASE k \in OnDisk(seg[s])
        <4>1. k \in Known(seg[s])
          BY <3>4 DEF Known
        <4>2. QED
          BY <2>1, <3>1, <3>3, <3>4, <4>1 DEF PermittedIn
      <3>5. CASE k \notin OnDisk(seg[s])
        <4>1. ~Told(s, k)
          BY <3>2, <3>5, TellsOnDisk DEF Told
        <4>2. QED
          BY <2>1, <3>1, <3>3, <3>5, <4>1 DEF ValuesIn
      <3>6. QED
        BY <3>4, <3>5
    <2>4. QED
      BY <2>2, <2>3
  <1>2. ASSUME Undisturbed, pc # "down", NEW k \in Keys \ ignored
        PROVE  \/ Visible(k) \in allowed[k]
               \/ LET i == NewestOf(segments, k) IN
                    /\ seg[i].rank # i
                    /\ k \in seg[i].for_write /\ k \in OnDisk(seg[i])
                    /\ ~seg[i].has_deleted_keys
    <2>1. PermittedIn(segments) /\ ValuesIn(segments) /\ Booked
      BY <1>2 DEF DeletesInv, DeletesKept, Permitted, Values
    <2>2. CASE Containing(segments, k) = {}
      <3>1. \A s \in segments : ~InDictionary(seg[s], k)
        BY <2>2 DEF Containing
      <3>2. QED
        BY <2>1, <2>2, <3>1 DEF Visible, PermittedIn
    <2>3. CASE Containing(segments, k) # {}
      <3> DEFINE s == NewestOf(segments, k)
      <3>1. Top(segments, k, s) /\ s \in segments
        BY <2>3, NewestIsTop DEF TypeOK, Top
      <3>2. seg[s] \in SegmentType /\ Consistent(seg[s])
        BY <2>1, <3>1 DEF TypeOK, Booked
      <3>3. Visible(k) = IF IsDeleted(seg[s], k) THEN Absent ELSE seg[s].dict[k]
        BY <2>3 DEF Visible
      <3> HIDE DEF s
      <3>4. CASE IsDeleted(seg[s], k)
        <4>1. k \in Known(seg[s])
          BY <3>2, <3>4, IsDeletedOnDisk DEF Known
        <4>2. QED
          BY <2>1, <3>1, <3>3, <3>4, <4>1 DEF PermittedIn
      <3>5. CASE ~IsDeleted(seg[s], k)
        <4>1. seg[s].dict[k] \in allowed[k] \/ Told(s, k)
          BY <1>2, <2>1, <3>1 DEF ValuesIn
        <4>2. Told(s, k) => /\ seg[s].rank # s /\ k \in seg[s].for_write
                            /\ k \in OnDisk(seg[s]) /\ ~seg[s].has_deleted_keys
          BY <3>5 DEF Told, Tells
        <4>3. QED
          BY <3>3, <3>5, <4>1, <4>2 DEF s
      <3>6. QED
        BY <3>4, <3>5
    <2>4. QED
      BY <2>2, <2>3
  <1>3. QED
    BY <1>1, <1>2 DEF DurableUndisturbed, VisibleUnlessUnread

LEMMA DeletesInvariant ==
    ASSUME Policy = "tiered"
    PROVE  Spec => []DeletesInv
  <1>1. TypeOK /\ FilesInv /\ ApartInv /\ ValuesInv /\ DeletesInv /\ [Next]_vars => DeletesInv'
    BY DeletesStep
  <1>2. QED
    BY <1>1, DeletesInit, FilesInvariant, ApartInvariant, ValuesInvariant, PTL DEF Spec

(***************************************************************************)
(* Under the tiered policy, until a merge fails or the process is killed,  *)
(* what index.toc and the files it names say of a key is, at every moment, *)
(* the outcome that the last flush covered or a later one: deletes reach   *)
(* the disk, through every merge, also one they arrive in the middle of    *)
(* (PersistDeletes, ElectedForMerge, FinalizeMerge, the constructor of a   *)
(* merged Segment).  The exception are the keys that a merge has kept      *)
(* although the .dk list of their newest segment has them                  *)
(* (DictionaryMerger::KeyDeleted).                                         *)
(***************************************************************************)
THEOREM DurableTheorem ==
    ASSUME Policy = "tiered"
    PROVE  Spec => []DurableUndisturbed
  <1>1. TypeOK /\ FilesInv /\ DeletesInv => DurableUndisturbed
    BY DeletesFound
  <1>2. QED
    BY <1>1, FilesInvariant, DeletesInvariant, PTL

(***************************************************************************)
(* Under the same conditions a lookup in the writing process returns the   *)
(* outcome of the last flushed call or of a later one, unless the segment  *)
(* that answers is a merged one that inherited a delete and has not loaded *)
(* it yet: this gap, and no other, is between a delete and its readers     *)
(* (Segment::IsDeleted, LazyLoadDeletedKeys, the constructor of a merged   *)
(* Segment).                                                               *)
(***************************************************************************)
THEOREM VisibleTheorem ==
    ASSUME Policy = "tiered"
    PROVE  Spec => []VisibleUnlessUnread
  <1>1. TypeOK /\ FilesInv /\ DeletesInv => VisibleUnlessUnread
    BY DeletesFound
  <1>2. QED
    BY <1>1, FilesInvariant, DeletesInvariant, PTL
=============================================================================
