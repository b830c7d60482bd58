------------------------- MODULE SegmentLifeProofs --------------------------
(***************************************************************************)
(* Proofs about one segment, for every set of keys.  The argument: every   *)
(* method of Segment leaves Bookkeeping (see SegmentLife) as it is, and    *)
(* under Bookkeeping no method ever overwrites a file with a list that     *)
(* lacks something the file holds.  The process must not die while the     *)
(* segment is in a merge (with CrashInMerge TLC finds that                 *)
(* PersistedBeforeMerge fails).                                            *)
(***************************************************************************)
EXTENDS SegmentLife, SegmentProofs

LEMMA InitTypeOK == Init => TypeOK
  <1> SUFFICES ASSUME Init PROVE TypeOK
    OBVIOUS
  <1>1. PICK c \in SUBSET Keys :
          s = NewSegment([k \in Keys |-> IF k \in c THEN 1 ELSE Absent], 0)
    BY DEF Init
  <1>2. [k \in Keys |-> IF k \in c THEN 1 ELSE Absent] \in [Keys -> Nat]
    BY DEF Absent
  <1>3. s \in SegmentType
    BY <1>1, <1>2, NewSegmentType
  <1>4. /\ s.for_write = {} /\ s.during_merge = {} /\ s.deleted_keys = {}
        /\ s.dk = NoFile /\ s.dkm = NoFile
    BY <1>1 DEF NewSegment, NoSegment
  <1>5. QED
    BY <1>3, <1>4 DEF Init, TypeOK, ListedKeys, OnDisk, ReadDeleted

LEMMA NextType ==
    ASSUME s \in SegmentType, Next
    PROVE  s' \in SegmentType
  <1>1. CASE \E k \in Keys : Delete(k)
    BY <1>1, DeleteKeyType DEF Delete
  <1>2. CASE Flush
    BY <1>2, PersistAndReloadType DEF Flush
  <1>3. CASE Read
    BY <1>3, LazyLoadType DEF Read
  <1>4. CASE Elect
    BY <1>4, LazyLoadType, ElectedForMergeType DEF Elect
  <1>5. CASE Fail
    BY <1>5, MergeFailedType DEF Fail
  <1>6. CASE CrashAndReopen
    BY <1>6, OpenSegmentType DEF CrashAndReopen
  <1>7. QED
    BY <1>1, <1>2, <1>3, <1>4, <1>5, <1>6 DEF Next

-----------------------------------------------------------------------------
\* No method puts a key into a list or file that was not there, except
\* DeleteKey for the key it is called with, if the dictionary has it.

LEMMA LoadListed ==
    ASSUME NEW t \in SegmentType
    PROVE  /\ ListedKeys(LoadDeletedKeys(t)) \subseteq ListedKeys(t)
           /\ LoadDeletedKeys(t).dict = t.dict
  BY DEF ListedKeys, LoadDeletedKeys, OnDisk, SegmentType

LEMMA LazyLoadListed ==
    ASSUME NEW t \in SegmentType
    PROVE  /\ ListedKeys(LazyLoadDeletedKeys(t)) \subseteq ListedKeys(t)
           /\ LazyLoadDeletedKeys(t).dict = t.dict
  <1>1. LoadDeletedKeys(t) \in SegmentType
    BY LoadDeletedKeysType
  <1>2. QED
    BY <1>1, LoadListed DEF ListedKeys, LazyLoadDeletedKeys, OnDisk, SegmentType

LEMMA PersistListed ==
    ASSUME NEW t \in SegmentType
    PROVE  /\ ListedKeys(Persist(t)) \subseteq ListedKeys(t)
           /\ Persist(t).dict = t.dict
  BY DEF ListedKeys, Persist, OnDisk, ReadDeleted, SegmentType

LEMMA DeleteKeyListed ==
    ASSUME NEW t \in SegmentType, NEW k \in Keys
    PROVE  /\ ListedKeys(DeleteKey(t, k)) \subseteq
                ListedKeys(t) \cup {j \in {k} : InDictionary(t, j)}
           /\ DeleteKey(t, k).dict = t.dict
  <1>1. LazyLoadDeletedKeys(t) \in SegmentType
    BY LazyLoadType
  <1>2. QED
    BY <1>1, LazyLoadListed DEF ListedKeys, DeleteKey, OnDisk, SegmentType

LEMMA ElectedListed ==
    ASSUME NEW t \in SegmentType
    PROVE  /\ ListedKeys(ElectedForMerge(t)) \subseteq ListedKeys(t)
           /\ ElectedForMerge(t).dict = t.dict
  <1>1. Persist(t) \in SegmentType
    BY PersistType
  <1>2. QED
    BY <1>1, PersistListed DEF ListedKeys, ElectedForMerge, OnDisk, SegmentType

LEMMA MergeFailedListed ==
    ASSUME NEW t \in SegmentType
    PROVE  /\ ListedKeys(MergeFailed(t)) \subseteq ListedKeys(t)
           /\ MergeFailed(t).dict = t.dict
  BY DEF ListedKeys, MergeFailed, Persist, OnDisk, ReadDeleted, SegmentType

LEMMA OpenListed ==
    ASSUME NEW t \in SegmentType
    PROVE  /\ ListedKeys(OpenSegment(t)) \subseteq ListedKeys(t)
           /\ OpenSegment(t).dict = t.dict
  BY DEF ListedKeys, OpenSegment, NoSegment, LoadDeletedKeys, OnDisk, SegmentType

LEMMA TypeStep == TypeOK /\ [Next]_vars => TypeOK'
  <1> SUFFICES ASSUME TypeOK, [Next]_vars PROVE TypeOK'
    OBVIOUS
  <1>1. CASE UNCHANGED vars
    BY <1>1 DEF TypeOK, vars
  <1>2. CASE Next
    <2>1. s \in SegmentType /\ s' \in SegmentType
      BY <1>2, NextType DEF TypeOK
    <2>2. OnDisk(s) \in SUBSET Keys
      BY <2>1, ReadDeletedType DEF OnDisk, SegmentType
    <2>3. deleted' \subseteq Keys /\ flushed' \subseteq Keys /\ since' \subseteq Keys
      BY <1>2, <2>2 DEF TypeOK, Next, Delete, Flush, Read, Elect, Fail, CrashAndReopen
    <2>4. /\ s'.dict = s.dict
          /\ \A k \in ListedKeys(s') : k \in ListedKeys(s) \/ InDictionary(s, k)
      <3>1. CASE \E k \in Keys : Delete(k)
        BY <2>1, <3>1, DeleteKeyListed DEF Delete
      <3>2. CASE Flush
        BY <2>1, <3>2, PersistListed, LoadListed, PersistType DEF Flush, PersistAndReload
      <3>3. CASE Read
        BY <2>1, <3>3, LazyLoadListed DEF Read
      <3>4. CASE Elect
        BY <2>1, <3>4, LazyLoadListed, ElectedListed, LazyLoadType DEF Elect
      <3>5. CASE Fail
        BY <2>1, <3>5, MergeFailedListed DEF Fail
      <3>6. CASE CrashAndReopen
        BY <2>1, <3>6, OpenListed DEF CrashAndReopen
      <3>7. QED
        BY <1>2, <3>1, <3>2, <3>3, <3>4, <3>5, <3>6 DEF Next
    <2>5. \A k \in ListedKeys(s') : InDictionary(s', k)
      BY <2>4 DEF TypeOK, InDictionary
    <2>6. QED
      BY <2>1, <2>3, <2>5 DEF TypeOK
  <1>3. QED
    BY <1>1, <1>2

(***************************************************************************)
(* The type invariant holds whatever happens, crashes in a merge included. *)
(***************************************************************************)
THEOREM TypeCorrect == Spec => []TypeOK
  <1>1. Init => TypeOK
    BY InitTypeOK
  <1>2. TypeOK /\ [Next]_vars => TypeOK'
    BY TypeStep
  <1>3. QED
    BY <1>1, <1>2, PTL DEF Spec

-----------------------------------------------------------------------------
\* The invariant

LEMMA InitBookkeeping == Init => Bookkeeping
  <1> SUFFICES ASSUME Init PROVE Bookkeeping
    OBVIOUS
  <1>1. PICK c \in SUBSET Keys :
          s = NewSegment([k \in Keys |-> IF k \in c THEN 1 ELSE Absent], 0)
    BY DEF Init
  <1>2. /\ s.for_write = {} /\ s.during_merge = {} /\ ~s.has_deleted_keys
        /\ s.dk = NoFile /\ s.dkm = NoFile /\ s.deletes_loaded
        /\ ~s.in_merge /\ ~s.new_delete
    BY <1>1 DEF NewSegment, NoSegment
  <1>3. QED
    BY <1>2 DEF Init, Bookkeeping, Consistent, OnDisk, Known, ReadDeleted

LEMMA BookkeepingStep ==
    ASSUME ~CrashInMerge, TypeOK, Bookkeeping, [Next]_vars
    PROVE  Bookkeeping'
  <1>1. s \in SegmentType
    BY DEF TypeOK
  <1>2. CASE UNCHANGED vars
    BY <1>2 DEF Bookkeeping, vars
  <1>3. ASSUME NEW k \in Keys, Delete(k) PROVE Bookkeeping'
    <2>1. /\ Consistent(s') /\ OnDisk(s') = OnDisk(s) /\ Known(s) \subseteq Known(s')
          /\ InDictionary(s, k) => k \in Known(s')
      BY <1>1, <1>3, DeleteKeyConsistent DEF Delete, Bookkeeping
    <2>2. QED
      BY <1>3, <2>1 DEF Delete, Bookkeeping
  <1>4. CASE Flush
    <2>1. Consistent(s') /\ OnDisk(s') = Known(s) /\ Known(s') = Known(s)
      BY <1>1, <1>4, PersistAndReloadConsistent DEF Flush, Bookkeeping
    <2>2. QED
      BY <1>4, <2>1 DEF Flush, Bookkeeping, Known
  <1>5. CASE Read
    <2>1. Consistent(s') /\ OnDisk(s') = OnDisk(s) /\ Known(s') = Known(s)
      BY <1>1, <1>5, LazyLoadConsistent DEF Read, Bookkeeping
    <2>2. QED
      BY <1>5, <2>1 DEF Read, Bookkeeping
  <1>6. CASE Elect
    <2> DEFINE l == IF PolicyLoads THEN LazyLoadDeletedKeys(s) ELSE s
    <2>1. /\ l \in SegmentType /\ Consistent(l) /\ ~l.in_merge
          /\ OnDisk(l) = OnDisk(s) /\ Known(l) = Known(s)
      BY <1>1, <1>6, LazyLoadType, LazyLoadConsistent DEF Elect, Bookkeeping
    <2>2. s' = ElectedForMerge(l)
      BY <1>6 DEF Elect
    <2> HIDE DEF l
    <2>3. Consistent(s') /\ OnDisk(s') = Known(s) /\ Known(s') = Known(s)
      BY <2>1, <2>2, ElectedConsistent
    <2>4. QED
      BY <1>6, <2>3 DEF Elect, Bookkeeping, Known
  <1>7. CASE Fail
    <2>1. /\ Consistent(s')
          /\ OnDisk(s) \subseteq OnDisk(s') /\ Known(s) \subseteq Known(s')
      BY <1>1, <1>7, MergeFailedConsistent DEF Fail, Bookkeeping
    <2>2. QED
      BY <1>7, <2>1 DEF Fail, Bookkeeping
  <1>8. CASE CrashAndReopen
    <2>1. Consistent(s') /\ OnDisk(s') = OnDisk(s)
      BY <1>1, <1>8, OpenConsistent DEF CrashAndReopen, Bookkeeping
    <2>2. QED
      BY <1>8, <2>1 DEF CrashAndReopen, Bookkeeping, Known
  <1>9. QED
    BY <1>2, <1>3, <1>4, <1>5, <1>6, <1>7, <1>8 DEF Next

THEOREM BookkeepingHolds ==
    ASSUME ~CrashInMerge
    PROVE  Spec => [](TypeOK /\ Bookkeeping)
  <1>1. Init => TypeOK /\ Bookkeeping
    BY InitTypeOK, InitBookkeeping
  <1>2. TypeOK /\ Bookkeeping /\ [Next]_vars => (TypeOK /\ Bookkeeping)'
    BY TypeStep, BookkeepingStep
  <1>3. QED
    BY <1>1, <1>2, PTL DEF Spec

(***************************************************************************)
(* A delete that a flush has covered stays in the files, for any sequence  *)
(* of deletes, flushes, elections, failed merges and restarts outside a    *)
(* merge, and with either merge policy.                                    *)
(***************************************************************************)
THEOREM FlushedStaysDurable ==
    ASSUME ~CrashInMerge
    PROVE  Spec => []FlushedDurable
  <1>1. Bookkeeping => FlushedDurable
    BY DEF Bookkeeping, FlushedDurable
  <1>2. QED
    BY <1>1, BookkeepingHolds, PTL

(***************************************************************************)
(* What Persist relies on (segment.h:176): while a merge runs, the file    *)
(* the merge reads already holds the list as it was at the election.       *)
(***************************************************************************)
THEOREM ElectionPersists ==
    ASSUME ~CrashInMerge
    PROVE  Spec => []PersistedBeforeMerge
  <1>1. Bookkeeping => PersistedBeforeMerge
    BY DEF Bookkeeping, Consistent, PersistedBeforeMerge
  <1>2. QED
    BY <1>1, BookkeepingHolds, PTL

-----------------------------------------------------------------------------
\* Deletes that readers see stay.

LEMMA DeletedStaysStep ==
    ASSUME TypeOK, Consistent(s), ~CrashInMerge, Next,
           NEW k \in Keys, IsDeleted(s, k)
    PROVE  IsDeleted(s', k)
  <1>1. s \in SegmentType /\ s' \in SegmentType
    BY NextType DEF TypeOK
  <1>2. k \in OnDisk(s)
    BY <1>1, IsDeletedOnDisk
  <1> DEFINE r == LazyLoadDeletedKeys(s)
  <1>3. /\ r \in SegmentType /\ r.deletes_loaded /\ Consistent(r)
        /\ r.in_merge = s.in_merge
        /\ r.has_deleted_keys /\ k \in r.deleted_keys
    BY <1>1, LazyLoadType, LazyLoadConsistent DEF IsDeleted
  <1> HIDE DEF r
  \* A state with the same list for readers, loaded, shows the same deletes.
  <1>4. ASSUME s'.deletes_loaded, s'.has_deleted_keys, k \in s'.deleted_keys
        PROVE  IsDeleted(s', k)
    BY <1>1, <1>4, IsDeletedMeans
  <1>5. ASSUME NEW j \in Keys, Delete(j) PROVE IsDeleted(s', k)
    <2>1. CASE InDictionary(s, j)
      <3>1. s' = [r EXCEPT
               !.during_merge = IF r.in_merge THEN @ \cup {j} ELSE @,
               !.for_write    = IF r.in_merge THEN @ ELSE @ \cup {j},
               !.new_delete   = TRUE]
        BY <1>5, <2>1 DEF Delete, DeleteKey, r
      <3>2. s'.deletes_loaded /\ s'.has_deleted_keys /\ k \in s'.deleted_keys
        BY <1>3, <3>1 DEF SegmentType
      <3>3. QED
        BY <1>4, <3>2
    <2>2. CASE ~InDictionary(s, j)
      BY <1>5, <2>2 DEF Delete, DeleteKey
    <2>3. QED
      BY <2>1, <2>2
  <1>6. CASE Flush
    <2>1. CASE ~s.new_delete
      BY <1>6, <2>1 DEF Flush, PersistAndReload
    <2>2. CASE s.new_delete
      <3>1. Persist(s) \in SegmentType /\ k \in OnDisk(Persist(s))
        BY <1>1, <1>2, PersistType, PersistConsistent DEF Known
      <3>2. s' = LoadDeletedKeys(Persist(s))
        BY <1>6, <2>2 DEF Flush, PersistAndReload
      <3>3. QED
        BY <3>1, <3>2, LoadShowsAll
    <2>3. QED
      BY <2>1, <2>2
  <1>7. CASE Read
    BY <1>3, <1>4, <1>7 DEF Read, r
  <1>8. CASE Elect
    <2> DEFINE l == IF PolicyLoads THEN r ELSE s
    <2>1. l \in SegmentType /\ ~l.in_merge /\ Consistent(l)
      BY <1>1, <1>3, <1>8 DEF Elect
    <2>2. s' = [Persist(l) EXCEPT !.in_merge = TRUE]
      BY <1>8 DEF Elect, ElectedForMerge, r
    <2>3. CASE l.deletes_loaded
      <3>1. l.has_deleted_keys /\ k \in l.deleted_keys
        BY <1>1, <1>3, <2>3, IsDeletedMeans
      <3> HIDE DEF l
      <3>2. /\ Persist(l) \in SegmentType /\ Persist(l).deletes_loaded
            /\ Persist(l).has_deleted_keys /\ k \in Persist(l).deleted_keys
        BY <2>1, <2>3, <3>1, PersistType DEF Persist, SegmentType
      <3>3. s'.deletes_loaded /\ s'.has_deleted_keys /\ k \in s'.deleted_keys
        BY <2>2, <3>2 DEF SegmentType
      <3>4. QED
        BY <1>4, <3>3
    <2>4. CASE ~l.deletes_loaded
      <3>1. l = s
        BY <1>3, <2>4
      <3>2. ~s.new_delete /\ ~s.deletes_loaded
        BY <2>4, <3>1 DEF Consistent
      <3> HIDE DEF l
      <3>3. s' = [s EXCEPT !.in_merge = TRUE]
        BY <2>2, <3>1, <3>2 DEF Persist
      <3>4. /\ s'.dk = s.dk /\ s'.dkm = s.dkm /\ ~s'.deletes_loaded
            /\ s'.has_deleted_keys = s.has_deleted_keys
            /\ s'.deleted_keys = s.deleted_keys
        BY <1>1, <3>2, <3>3 DEF SegmentType
      <3>5. QED
        BY <1>1, <3>2, <3>4, IsDeletedMeans, LoadFields DEF OnDisk
    <2>5. QED
      BY <2>3, <2>4
  <1>9. CASE Fail
    <2>1. CASE s.during_merge # {}
      <3>1. /\ s'.deletes_loaded = s.deletes_loaded
            /\ s'.has_deleted_keys = s.has_deleted_keys
            /\ s'.deleted_keys = s.deleted_keys
        BY <1>1, <1>9, <2>1, MergeFailedFields DEF Fail
      <3>2. s.deletes_loaded
        BY <2>1 DEF Consistent
      <3>3. QED
        BY <1>1, <1>4, <3>1, <3>2, IsDeletedMeans
    <2>2. CASE s.during_merge = {}
      <3>1. s' = [s EXCEPT !.in_merge = FALSE]
        BY <1>9, <2>2 DEF Fail, MergeFailed
      <3>2. /\ s'.dk = s.dk /\ s'.dkm = s.dkm /\ s'.deletes_loaded = s.deletes_loaded
            /\ s'.has_deleted_keys = s.has_deleted_keys
            /\ s'.deleted_keys = s.deleted_keys
        BY <1>1, <3>1 DEF SegmentType
      <3>3. QED
        BY <1>1, <3>2, IsDeletedMeans, LoadFields DEF OnDisk
    <2>3. QED
      BY <2>1, <2>2
  <1>10. CASE CrashAndReopen
    <2> DEFINE o == [NoSegment EXCEPT !.dict = s.dict, !.kv = s.kv, !.dk = s.dk,
                                      !.dkm = s.dkm, !.rank = s.rank]
    <2>1. o \in SegmentType /\ o.dk = s.dk /\ o.dkm = s.dkm
      BY <1>1, NoSegmentType DEF SegmentType, NoSegment
    <2>2. s' = LoadDeletedKeys(o)
      BY <1>10, Zenon DEF CrashAndReopen, OpenSegment
    <2> HIDE DEF o
    <2>3. QED
      BY <1>2, <2>1, <2>2, LoadShowsAll DEF OnDisk
  <1>11. QED
    BY <1>5, <1>6, <1>7, <1>8, <1>9, <1>10 DEF Next

(***************************************************************************)
(* A key that readers see as deleted is never seen again, in any order of  *)
(* operations and for any keys.                                            *)
(***************************************************************************)
THEOREM DeletedStays ==
    ASSUME ~CrashInMerge
    PROVE  Spec => DeletedStaysDeleted
  <1>1. TypeOK /\ Bookkeeping /\ [Next]_vars
          => [\A k \in Keys : IsDeleted(s, k) => IsDeleted(s', k)]_vars
    BY DeletedStaysStep DEF Bookkeeping
  <1>2. QED
    BY <1>1, BookkeepingHolds, PTL DEF Spec, DeletedStaysDeleted

-----------------------------------------------------------------------------
\* Deletes handed over to the merged segment

LEMMA LoadedStep ==
    ASSUME ~CrashInMerge, PolicyLoads, TypeOK, Bookkeeping, LoadedBeforeMerge,
           [Next]_vars
    PROVE  LoadedBeforeMerge'
  <1>1. s \in SegmentType /\ Consistent(s)
    BY DEF TypeOK, Bookkeeping
  <1> DEFINE r == LazyLoadDeletedKeys(s)
  <1>2. /\ r \in SegmentType /\ r.deletes_loaded /\ Consistent(r)
        /\ r.in_merge = s.in_merge
    BY <1>1, LazyLoadType, LazyLoadConsistent
  <1>3. r.during_merge \subseteq since
    <2>1. CASE s.deletes_loaded
      BY <2>1 DEF LazyLoadDeletedKeys, LoadedBeforeMerge
    <2>2. CASE ~s.deletes_loaded
      BY <1>2, <2>2 DEF Consistent, LoadedBeforeMerge
    <2>3. QED
      BY <2>1, <2>2
  <1> HIDE DEF r
  <1>4. CASE UNCHANGED vars
    BY <1>4 DEF LoadedBeforeMerge, vars
  <1>5. ASSUME NEW k \in Keys, Delete(k) PROVE LoadedBeforeMerge'
    <2>1. CASE InDictionary(s, k)
      <3>1. s' = [r EXCEPT
               !.during_merge = IF r.in_merge THEN @ \cup {k} ELSE @,
               !.for_write    = IF r.in_merge THEN @ ELSE @ \cup {k},
               !.new_delete   = TRUE]
        BY <1>5, <2>1 DEF Delete, DeleteKey, r
      <3>2. s'.deletes_loaded /\ s'.during_merge \subseteq since \cup {k}
        BY <1>2, <1>3, <3>1 DEF SegmentType
      <3>3. QED
        BY <1>5, <2>1, <3>2 DEF Delete, LoadedBeforeMerge
    <2>2. CASE ~InDictionary(s, k)
      BY <1>5, <2>2 DEF Delete, DeleteKey, LoadedBeforeMerge
    <2>3. QED
      BY <2>1, <2>2
  <1>6. CASE Flush
    <2>1. Persist(s) \in SegmentType
      BY <1>1, PersistType
    <2>2. /\ Persist(s).in_merge = s.in_merge
          /\ Persist(s).deletes_loaded = s.deletes_loaded
          /\ Persist(s).during_merge = s.during_merge
      BY <1>1 DEF Persist, SegmentType
    <2>3. /\ s'.in_merge = s.in_merge /\ s'.deletes_loaded = s.deletes_loaded
          /\ s'.during_merge = s.during_merge
      BY <1>6, <2>1, <2>2, LoadFields DEF Flush, PersistAndReload
    <2>4. QED
      BY <1>6, <2>3 DEF Flush, LoadedBeforeMerge
  <1>7. CASE Read
    BY <1>2, <1>3, <1>7 DEF Read, LoadedBeforeMerge, r
  <1>8. CASE Elect
    <2>1. s' = [Persist(r) EXCEPT !.in_merge = TRUE]
      BY <1>8 DEF Elect, ElectedForMerge, r
    <2>2. r.during_merge = {}
      BY <1>2, <1>8 DEF Elect, Consistent
    <2>3. /\ Persist(r) \in SegmentType
          /\ Persist(r).deletes_loaded = r.deletes_loaded
          /\ Persist(r).during_merge = r.during_merge
      BY <1>2, PersistType DEF Persist, SegmentType
    <2>4. s'.deletes_loaded /\ s'.during_merge = {}
      BY <1>2, <2>1, <2>2, <2>3 DEF SegmentType
    <2>5. QED
      BY <2>4 DEF LoadedBeforeMerge
  <1>9. CASE Fail
    <2>1. ~s'.in_merge
      <3>1. CASE s.during_merge = {}
        BY <1>1, <1>9, <3>1 DEF Fail, MergeFailed, SegmentType
      <3>2. CASE s.during_merge # {}
        BY <1>1, <1>9, <3>2, MergeFailedFields DEF Fail
      <3>3. QED
        BY <3>1, <3>2
    <2>2. Consistent(s')
      BY <1>1, <1>9, MergeFailedConsistent DEF Fail
    <2>3. QED
      BY <2>1, <2>2 DEF LoadedBeforeMerge, Consistent
  <1>10. CASE CrashAndReopen
    <2> DEFINE o == [NoSegment EXCEPT !.dict = s.dict, !.kv = s.kv, !.dk = s.dk,
                                      !.dkm = s.dkm, !.rank = s.rank]
    <2>1. o \in SegmentType /\ ~o.in_merge /\ o.during_merge = {}
      BY <1>1, NoSegmentType DEF SegmentType, NoSegment
    <2>2. s' = LoadDeletedKeys(o)
      BY <1>10, Zenon DEF CrashAndReopen, OpenSegment
    <2> HIDE DEF o
    <2>3. ~s'.in_merge /\ s'.during_merge = {}
      BY <2>1, <2>2, LoadFields
    <2>4. QED
      BY <2>3 DEF LoadedBeforeMerge
  <1>11. QED
    BY <1>4, <1>5, <1>6, <1>7, <1>8, <1>9, <1>10 DEF Next

(***************************************************************************)
(* With a policy that loads the deleted keys of its candidates, the        *)
(* segment hands over to the merged segment only what was deleted after    *)
(* its election.  Without the loading TLC refutes it (PolicyLoads = FALSE).*)
(***************************************************************************)
THEOREM HandsOverOnlyNew ==
    ASSUME ~CrashInMerge, PolicyLoads
    PROVE  Spec => []DuringMergeIsNew
  <1>1. Init => LoadedBeforeMerge
    <2> SUFFICES ASSUME Init PROVE LoadedBeforeMerge
      OBVIOUS
    <2>1. PICK c \in SUBSET Keys :
            s = NewSegment([k \in Keys |-> IF k \in c THEN 1 ELSE Absent], 0)
      BY DEF Init
    <2>2. ~s.in_merge /\ s.during_merge = {}
      BY <2>1 DEF NewSegment, NoSegment
    <2>3. QED
      BY <2>2 DEF LoadedBeforeMerge
  <1>2. TypeOK /\ Bookkeeping /\ LoadedBeforeMerge /\ [Next]_vars
          => LoadedBeforeMerge'
    BY LoadedStep
  <1>3. LoadedBeforeMerge => DuringMergeIsNew
    BY DEF LoadedBeforeMerge, DuringMergeIsNew
  <1>4. QED
    BY <1>1, <1>2, <1>3, BookkeepingHolds, PTL DEF Spec
=============================================================================
