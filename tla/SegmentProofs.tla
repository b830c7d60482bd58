--------------------------- MODULE SegmentProofs ----------------------------
(***************************************************************************)
(* Lemmas about the operators of Segment, for every set of keys.           *)
(***************************************************************************)
EXTENDS Segment, TLAPS

-----------------------------------------------------------------------------
\* Every method of Segment maps a segment to a segment.

LEMMA ReadDeletedType ==
    ASSUME NEW f \in DeletedFile
    PROVE  ReadDeleted(f) \in SUBSET Keys
  BY DEF DeletedFile, ReadDeleted

LEMMA LoadDeletedKeysType ==
    ASSUME NEW t \in SegmentType
    PROVE  LoadDeletedKeys(t) \in SegmentType
  <1>1. OnDisk(t) \in SUBSET Keys
    BY ReadDeletedType DEF OnDisk, SegmentType
  <1>2. QED
    BY <1>1 DEF LoadDeletedKeys, SegmentType

LEMMA LazyLoadType ==
    ASSUME NEW t \in SegmentType
    PROVE  LazyLoadDeletedKeys(t) \in SegmentType
  <1>1. LoadDeletedKeys(t) \in SegmentType
    BY LoadDeletedKeysType
  <1>2. QED
    BY <1>1 DEF LazyLoadDeletedKeys, SegmentType

LEMMA PersistType ==
    ASSUME NEW t \in SegmentType
    PROVE  Persist(t) \in SegmentType
  BY DEF Persist, SegmentType, DeletedFile

LEMMA PersistAndReloadType ==
    ASSUME NEW t \in SegmentType
    PROVE  PersistAndReload(t) \in SegmentType
  BY PersistType, LoadDeletedKeysType DEF PersistAndReload

LEMMA DeleteKeyType ==
    ASSUME NEW t \in SegmentType, NEW k \in Keys
    PROVE  DeleteKey(t, k) \in SegmentType
  <1>1. LazyLoadDeletedKeys(t) \in SegmentType
    BY LazyLoadType
  <1>2. QED
    BY <1>1 DEF DeleteKey, SegmentType

LEMMA ElectedForMergeType ==
    ASSUME NEW t \in SegmentType
    PROVE  ElectedForMerge(t) \in SegmentType
  <1>1. Persist(t) \in SegmentType
    BY PersistType
  <1>2. QED
    BY <1>1 DEF ElectedForMerge, SegmentType

LEMMA MergeFailedType ==
    ASSUME NEW t \in SegmentType
    PROVE  MergeFailed(t) \in SegmentType
  <1> DEFINE back == [t EXCEPT !.in_merge   = FALSE,
                               !.for_write  = @ \cup t.during_merge,
                               !.new_delete = TRUE]
  <1>1. back \in SegmentType
    BY DEF SegmentType
  <1>2. Persist(back) \in SegmentType
    BY <1>1, PersistType
  <1> HIDE DEF back
  <1>3. [Persist(back) EXCEPT !.during_merge = {}, !.dkm = NoFile] \in SegmentType
    BY <1>2 DEF SegmentType, DeletedFile
  <1>4. [t EXCEPT !.in_merge = FALSE] \in SegmentType
    BY DEF SegmentType
  <1>5. QED
    BY <1>3, <1>4 DEF MergeFailed, back

LEMMA RemoveFilesType ==
    ASSUME NEW t \in SegmentType
    PROVE  RemoveFiles(t) \in SegmentType
  BY DEF RemoveFiles, SegmentType, DeletedFile

LEMMA NoSegmentType == NoSegment \in SegmentType
  BY DEF NoSegment, SegmentType, DeletedFile, Absent

LEMMA NewSegmentType ==
    ASSUME NEW d \in [Keys -> Nat], NEW r \in Nat
    PROVE  NewSegment(d, r) \in SegmentType
  BY DEF NewSegment, NoSegment, SegmentType, DeletedFile

LEMMA OpenSegmentType ==
    ASSUME NEW t \in SegmentType
    PROVE  OpenSegment(t) \in SegmentType
  <1> DEFINE o == [NoSegment EXCEPT !.dict = t.dict, !.kv = t.kv, !.dk = t.dk,
                                    !.dkm = t.dkm, !.rank = t.rank]
  <1>1. o \in SegmentType
    BY NoSegmentType DEF SegmentType
  <1>2. LoadDeletedKeys(o) \in SegmentType
    BY <1>1, LoadDeletedKeysType
  <1> HIDE DEF o
  <1>3. QED
    BY <1>2 DEF OpenSegment, o

LEMMA MergedSegmentType ==
    ASSUME NEW d \in [Keys -> Nat], NEW r \in Nat, NEW P \in SUBSET SegmentType
    PROVE  MergedSegment(d, r, P) \in SegmentType
  <1> DEFINE inherited == UNION {p.during_merge : p \in P}
  <1> DEFINE m == [NewSegment(d, r) EXCEPT !.for_write  = inherited,
                                          !.new_delete = (inherited # {})]
  <1>1. inherited \in SUBSET Keys
    BY DEF SegmentType
  <1>2. NewSegment(d, r) \in SegmentType
    BY NewSegmentType
  <1> HIDE DEF inherited
  <1>3. m \in SegmentType
    BY <1>1, <1>2 DEF SegmentType
  <1> HIDE DEF m
  <1>4. Persist(m) \in SegmentType
    BY <1>3, PersistType
  <1>5. QED
    BY <1>4 DEF MergedSegment, m, inherited

-----------------------------------------------------------------------------
\* What the methods leave alone: the dictionary, its file and the place in
\* the list; and, but for two of them, the mark of a merge.

SamePlace(a, b) == a.rank = b.rank /\ a.kv = b.kv /\ a.dict = b.dict

LEMMA LoadKeeps ==
    ASSUME NEW t \in SegmentType
    PROVE  SamePlace(LoadDeletedKeys(t), t) /\ LoadDeletedKeys(t).in_merge = t.in_merge
  BY DEF SegmentType, LoadDeletedKeys, SamePlace

LEMMA LazyLoadKeeps ==
    ASSUME NEW t \in SegmentType
    PROVE  SamePlace(LazyLoadDeletedKeys(t), t) /\ LazyLoadDeletedKeys(t).in_merge = t.in_merge
  <1> DEFINE r == LoadDeletedKeys(t)
  <1>1. r \in SegmentType /\ SamePlace(r, t) /\ r.in_merge = t.in_merge
    BY LoadDeletedKeysType, LoadKeeps
  <1> HIDE DEF r
  <1>2. \/ LazyLoadDeletedKeys(t) = t
        \/ \E a, b : LazyLoadDeletedKeys(t) = [r EXCEPT !.during_merge = a, !.for_write = b,
                                                        !.deletes_loaded = TRUE]
    BY DEF LazyLoadDeletedKeys, r
  <1>3. QED
    BY <1>1, <1>2 DEF SegmentType, SamePlace

LEMMA PersistKeeps ==
    ASSUME NEW t \in SegmentType
    PROVE  SamePlace(Persist(t), t) /\ Persist(t).in_merge = t.in_merge
  BY DEF SegmentType, Persist, SamePlace

LEMMA PersistAndReloadKeeps ==
    ASSUME NEW t \in SegmentType
    PROVE  SamePlace(PersistAndReload(t), t) /\ PersistAndReload(t).in_merge = t.in_merge
  BY PersistType, PersistKeeps, LoadKeeps DEF PersistAndReload, SamePlace

LEMMA DeleteKeyKeeps ==
    ASSUME NEW t \in SegmentType, NEW k \in Keys
    PROVE  SamePlace(DeleteKey(t, k), t) /\ DeleteKey(t, k).in_merge = t.in_merge
  <1> DEFINE r == LazyLoadDeletedKeys(t)
  <1>1. r \in SegmentType /\ SamePlace(r, t) /\ r.in_merge = t.in_merge
    BY LazyLoadType, LazyLoadKeeps
  <1> HIDE DEF r
  <1>2. \/ DeleteKey(t, k) = t
        \/ \E a, b : DeleteKey(t, k) = [r EXCEPT !.during_merge = a, !.for_write = b,
                                                 !.new_delete = TRUE]
    BY DEF DeleteKey, r
  <1>3. QED
    BY <1>1, <1>2 DEF SegmentType, SamePlace

LEMMA ElectedKeeps ==
    ASSUME NEW t \in SegmentType
    PROVE  SamePlace(ElectedForMerge(t), t) /\ ElectedForMerge(t).in_merge
  <1>1. Persist(t) \in SegmentType /\ SamePlace(Persist(t), t)
    BY PersistType, PersistKeeps
  <1>2. QED
    BY <1>1 DEF ElectedForMerge, SegmentType, SamePlace

LEMMA MergeFailedKeeps ==
    ASSUME NEW t \in SegmentType
    PROVE  SamePlace(MergeFailed(t), t)
  <1> DEFINE back == [t EXCEPT !.in_merge   = FALSE,
                               !.for_write  = @ \cup t.during_merge,
                               !.new_delete = TRUE]
  <1>1. back \in SegmentType /\ SamePlace(back, t)
    BY DEF SegmentType, SamePlace
  <1>2. Persist(back) \in SegmentType /\ SamePlace(Persist(back), back)
    BY <1>1, PersistType, PersistKeeps
  <1> HIDE DEF back
  <1>3. \/ MergeFailed(t) = [t EXCEPT !.in_merge = FALSE]
        \/ MergeFailed(t) = [Persist(back) EXCEPT !.during_merge = {}, !.dkm = NoFile]
    BY DEF MergeFailed, back
  <1>4. QED
    BY <1>1, <1>2, <1>3 DEF SegmentType, SamePlace

LEMMA OpenKeeps ==
    ASSUME NEW t \in SegmentType
    PROVE  SamePlace(OpenSegment(t), t)
  <1> DEFINE o == [NoSegment EXCEPT !.dict = t.dict, !.kv = t.kv, !.dk = t.dk,
                                    !.dkm = t.dkm, !.rank = t.rank]
  <1>1. o \in SegmentType /\ SamePlace(o, t)
    BY NoSegmentType DEF SegmentType, SamePlace
  <1> HIDE DEF o
  <1>2. SamePlace(LoadDeletedKeys(o), o)
    BY <1>1, LoadKeeps
  <1>3. QED
    BY <1>1, <1>2 DEF OpenSegment, SamePlace, o

LEMMA MergedIs ==
    ASSUME NEW d \in [Keys -> Nat], NEW r \in Nat, NEW P \in SUBSET SegmentType
    PROVE  /\ MergedSegment(d, r, P).rank = r /\ MergedSegment(d, r, P).kv
           /\ MergedSegment(d, r, P).dict = d
  <1> DEFINE inherited == UNION {p.during_merge : p \in P}
  <1> DEFINE m == [NewSegment(d, r) EXCEPT !.for_write  = inherited,
                                          !.new_delete = (inherited # {})]
  <1>1. inherited \in SUBSET Keys
    BY DEF SegmentType
  <1>2. NewSegment(d, r) \in SegmentType
    BY NewSegmentType
  <1>3. NewSegment(d, r).rank = r /\ NewSegment(d, r).kv /\ NewSegment(d, r).dict = d
    BY NoSegmentType DEF NewSegment, SegmentType
  <1> HIDE DEF inherited
  <1>4. m \in SegmentType /\ SamePlace(m, NewSegment(d, r))
    BY <1>1, <1>2 DEF SegmentType, SamePlace
  <1> HIDE DEF m
  <1>5. SamePlace(Persist(m), m)
    BY <1>4, PersistKeeps
  <1>6. QED
    BY <1>3, <1>4, <1>5 DEF MergedSegment, SamePlace, m, inherited

-----------------------------------------------------------------------------
\* What each method does to a consistent segment

LEMMA LoadFields ==
    ASSUME NEW t \in SegmentType
    PROVE  LET l == LoadDeletedKeys(t)
           IN  /\ l.dk = t.dk /\ l.dkm = t.dkm
               /\ l.for_write = t.for_write /\ l.during_merge = t.during_merge
               /\ l.deletes_loaded = t.deletes_loaded
               /\ l.in_merge = t.in_merge /\ l.new_delete = t.new_delete
               /\ IF t.dk = NoFile /\ t.dkm = NoFile
                  THEN l.has_deleted_keys = t.has_deleted_keys
                       /\ l.deleted_keys = t.deleted_keys
                  ELSE l.has_deleted_keys /\ l.deleted_keys = OnDisk(t)
  <1>1. CASE t.dk = NoFile /\ t.dkm = NoFile
    BY <1>1 DEF LoadDeletedKeys
  <1>2. CASE ~(t.dk = NoFile /\ t.dkm = NoFile)
    BY <1>2 DEF LoadDeletedKeys, SegmentType
  <1>3. QED
    BY <1>1, <1>2

LEMMA LazyLoadFields ==
    ASSUME NEW t \in SegmentType, ~t.deletes_loaded
    PROVE  LET l == LoadDeletedKeys(t)
               loaded == IF l.has_deleted_keys THEN l.deleted_keys ELSE {}
               r == LazyLoadDeletedKeys(t)
           IN  /\ r.dk = t.dk /\ r.dkm = t.dkm
               /\ r.for_write = IF t.in_merge THEN t.for_write
                                              ELSE t.for_write \cup loaded
               /\ r.during_merge = IF t.in_merge THEN t.during_merge \cup loaded
                                                 ELSE t.during_merge
               /\ r.deletes_loaded
               /\ r.in_merge = t.in_merge /\ r.new_delete = t.new_delete
               /\ r.has_deleted_keys = l.has_deleted_keys
               /\ r.deleted_keys = l.deleted_keys
  <1> DEFINE l == LoadDeletedKeys(t)
  <1>1. l \in SegmentType
    BY LoadDeletedKeysType
  <1>2. /\ l.dk = t.dk /\ l.dkm = t.dkm
        /\ l.for_write = t.for_write /\ l.during_merge = t.during_merge
        /\ l.in_merge = t.in_merge /\ l.new_delete = t.new_delete
    BY LoadFields
  <1>3. LazyLoadDeletedKeys(t) =
          [l EXCEPT
             !.during_merge = IF t.in_merge
                              THEN @ \cup (IF l.has_deleted_keys THEN l.deleted_keys ELSE {})
                              ELSE @,
             !.for_write    = IF t.in_merge THEN @
                              ELSE @ \cup (IF l.has_deleted_keys THEN l.deleted_keys ELSE {}),
             !.deletes_loaded = TRUE]
    BY Zenon DEF LazyLoadDeletedKeys
  <1> HIDE DEF l
  <1>4. QED
    BY <1>1, <1>2, <1>3 DEF SegmentType, l

LEMMA LazyLoadConsistent ==
    ASSUME NEW t \in SegmentType, Consistent(t)
    PROVE  /\ Consistent(LazyLoadDeletedKeys(t))
           /\ OnDisk(LazyLoadDeletedKeys(t)) = OnDisk(t)
           /\ Known(LazyLoadDeletedKeys(t)) = Known(t)
           /\ LazyLoadDeletedKeys(t).in_merge = t.in_merge
           /\ LazyLoadDeletedKeys(t).deletes_loaded
  <1> DEFINE r == LazyLoadDeletedKeys(t)
  <1>1. CASE t.deletes_loaded
    BY <1>1 DEF LazyLoadDeletedKeys
  <1>2. CASE ~t.deletes_loaded
    <2> DEFINE l == LoadDeletedKeys(t)
               loaded == IF l.has_deleted_keys THEN l.deleted_keys ELSE {}
    <2>1. /\ r.dk = t.dk /\ r.dkm = t.dkm
          /\ r.for_write = IF t.in_merge THEN t.for_write ELSE t.for_write \cup loaded
          /\ r.during_merge = IF t.in_merge THEN t.during_merge \cup loaded
                                            ELSE t.during_merge
          /\ r.deletes_loaded
          /\ r.in_merge = t.in_merge /\ r.new_delete = t.new_delete
          /\ r.has_deleted_keys = l.has_deleted_keys
          /\ r.deleted_keys = l.deleted_keys
      BY <1>2, LazyLoadFields
    <2>2. IF t.dk = NoFile /\ t.dkm = NoFile
          THEN l.has_deleted_keys = t.has_deleted_keys /\ l.deleted_keys = t.deleted_keys
          ELSE l.has_deleted_keys /\ l.deleted_keys = OnDisk(t)
      BY LoadFields
    <2> HIDE DEF r, l
    <2>3. loaded = OnDisk(t) /\ (l.has_deleted_keys => l.deleted_keys \subseteq OnDisk(t))
      BY <2>2 DEF Consistent, OnDisk, ReadDeleted
    <2> HIDE DEF loaded
    <2>4. Consistent(r) /\ OnDisk(r) = OnDisk(t) /\ Known(r) = Known(t)
      BY <1>2, <2>1, <2>3 DEF Consistent, OnDisk, Known
    <2>5. QED
      BY <2>1, <2>4 DEF r
  <1>3. QED
    BY <1>1, <1>2

LEMMA DeleteKeyConsistent ==
    ASSUME NEW t \in SegmentType, NEW k \in Keys, Consistent(t)
    PROVE  /\ Consistent(DeleteKey(t, k))
           /\ OnDisk(DeleteKey(t, k)) = OnDisk(t)
           /\ Known(t) \subseteq Known(DeleteKey(t, k))
           /\ InDictionary(t, k) => k \in Known(DeleteKey(t, k))
  <1> DEFINE r == LazyLoadDeletedKeys(t)
  <1>1. /\ r \in SegmentType /\ Consistent(r) /\ r.deletes_loaded
        /\ OnDisk(r) = OnDisk(t) /\ Known(r) = Known(t)
    BY LazyLoadType, LazyLoadConsistent
  <1> HIDE DEF r
  <1>2. CASE InDictionary(t, k)
    <2> DEFINE d == [r EXCEPT
               !.during_merge = IF r.in_merge THEN @ \cup {k} ELSE @,
               !.for_write    = IF r.in_merge THEN @ ELSE @ \cup {k},
               !.new_delete   = TRUE]
    <2>1. DeleteKey(t, k) = d
      BY <1>2 DEF DeleteKey, r
    <2>2. Consistent(d) /\ OnDisk(d) = OnDisk(r)
      BY <1>1 DEF Consistent, OnDisk, SegmentType
    <2>3. Known(r) \subseteq Known(d) /\ k \in Known(d)
      BY <1>1 DEF Known, OnDisk, SegmentType
    <2>4. QED
      BY <1>1, <2>1, <2>2, <2>3
  <1>3. CASE ~InDictionary(t, k)
    BY <1>3 DEF DeleteKey
  <1>4. QED
    BY <1>2, <1>3

LEMMA PersistConsistent ==
    ASSUME NEW t \in SegmentType, Consistent(t)
    PROVE  /\ Consistent(Persist(t))
           /\ OnDisk(Persist(t)) = Known(t)
           /\ Known(Persist(t)) = Known(t)
           /\ Persist(t).in_merge = t.in_merge
           /\ Persist(t).for_write \subseteq ReadDeleted(Persist(t).dk)
  <1> DEFINE p == Persist(t)
  <1>1. CASE ~t.new_delete
    BY <1>1 DEF Persist, Consistent, Known, OnDisk
  <1>2. CASE t.new_delete
    <2>1. /\ p.for_write = t.for_write /\ p.during_merge = t.during_merge
          /\ p.deletes_loaded = t.deletes_loaded
          /\ p.in_merge = t.in_merge /\ p.new_delete = t.new_delete
          /\ p.has_deleted_keys = t.has_deleted_keys
          /\ p.deleted_keys = t.deleted_keys
          /\ p.dk = IF t.in_merge THEN t.dk ELSE t.for_write
          /\ p.dkm = IF t.in_merge THEN t.during_merge ELSE t.dkm
      BY <1>2 DEF Persist, SegmentType
    <2>2. /\ ReadDeleted(t.during_merge) = t.during_merge
          /\ ReadDeleted(t.for_write) = t.for_write
      BY NoFileAssumption DEF ReadDeleted, SegmentType
    <2> HIDE DEF p
    <2>3. CASE t.in_merge
      <3>1. p.dk = t.dk /\ ReadDeleted(p.dkm) = t.during_merge
        BY <2>1, <2>2, <2>3
      <3>2. OnDisk(p) = Known(t) /\ Known(p) = Known(t)
        BY <2>1, <2>3, <3>1 DEF Known, OnDisk, Consistent
      <3>3. Consistent(p)
        BY <1>2, <2>1, <2>3, <3>1 DEF Consistent, OnDisk
      <3>4. QED
        BY <2>1, <2>3, <3>1, <3>2, <3>3 DEF p, Consistent
    <2>4. CASE ~t.in_merge
      <3>1. p.dkm = t.dkm /\ ReadDeleted(p.dk) = t.for_write
        BY <2>1, <2>2, <2>4
      <3>2. OnDisk(p) = Known(t) /\ Known(p) = Known(t)
        BY <1>2, <2>1, <2>4, <3>1 DEF Known, OnDisk, Consistent
      <3>3. Consistent(p)
        BY <1>2, <2>1, <2>4, <3>1 DEF Consistent, OnDisk
      <3>4. QED
        BY <2>1, <2>4, <3>1, <3>2, <3>3 DEF p
    <2>5. QED
      BY <2>3, <2>4
  <1>3. QED
    BY <1>1, <1>2

LEMMA LoadConsistent ==
    ASSUME NEW t \in SegmentType, Consistent(t)
    PROVE  /\ Consistent(LoadDeletedKeys(t))
           /\ OnDisk(LoadDeletedKeys(t)) = OnDisk(t)
           /\ Known(LoadDeletedKeys(t)) = Known(t)
  <1> DEFINE l == LoadDeletedKeys(t)
  <1>1. /\ l.dk = t.dk /\ l.dkm = t.dkm
        /\ l.for_write = t.for_write /\ l.during_merge = t.during_merge
        /\ l.deletes_loaded = t.deletes_loaded
        /\ l.in_merge = t.in_merge /\ l.new_delete = t.new_delete
        /\ IF t.dk = NoFile /\ t.dkm = NoFile
           THEN l.has_deleted_keys = t.has_deleted_keys
                /\ l.deleted_keys = t.deleted_keys
           ELSE l.has_deleted_keys /\ l.deleted_keys = OnDisk(t)
    BY LoadFields
  <1> HIDE DEF l
  <1>2. Consistent(l) /\ OnDisk(l) = OnDisk(t) /\ Known(l) = Known(t)
    BY <1>1 DEF Consistent, OnDisk, Known
  <1>3. QED
    BY <1>2 DEF l

LEMMA PersistAndReloadConsistent ==
    ASSUME NEW t \in SegmentType, Consistent(t)
    PROVE  /\ Consistent(PersistAndReload(t))
           /\ OnDisk(PersistAndReload(t)) = Known(t)
           /\ Known(PersistAndReload(t)) = Known(t)
  <1>1. CASE ~t.new_delete
    BY <1>1 DEF PersistAndReload, Consistent, Known, OnDisk
  <1>2. CASE t.new_delete
    BY <1>2, PersistType, PersistConsistent, LoadConsistent DEF PersistAndReload
  <1>3. QED
    BY <1>1, <1>2

LEMMA ElectedConsistent ==
    ASSUME NEW t \in SegmentType, Consistent(t), ~t.in_merge
    PROVE  /\ Consistent(ElectedForMerge(t))
           /\ OnDisk(ElectedForMerge(t)) = Known(t)
           /\ Known(ElectedForMerge(t)) = Known(t)
  <1> DEFINE p == Persist(t)
  <1>1. /\ p \in SegmentType /\ Consistent(p) /\ ~p.in_merge
        /\ OnDisk(p) = Known(t) /\ Known(p) = Known(t)
        /\ p.for_write \subseteq ReadDeleted(p.dk)
    BY PersistType, PersistConsistent
  <1>2. ElectedForMerge(t) = [p EXCEPT !.in_merge = TRUE]
    BY DEF ElectedForMerge
  <1> HIDE DEF p
  <1> DEFINE e == [p EXCEPT !.in_merge = TRUE]
  <1>3. /\ e.dk = p.dk /\ e.dkm = p.dkm
        /\ e.for_write = p.for_write /\ e.during_merge = p.during_merge
        /\ e.deletes_loaded = p.deletes_loaded
        /\ e.in_merge /\ e.new_delete = p.new_delete
        /\ e.has_deleted_keys = p.has_deleted_keys
        /\ e.deleted_keys = p.deleted_keys
    BY <1>1 DEF SegmentType
  <1> HIDE DEF e
  <1>4. Consistent(e) /\ OnDisk(e) = OnDisk(p) /\ Known(e) = Known(p)
    BY <1>1, <1>3 DEF Consistent, OnDisk, Known
  <1>5. QED
    BY <1>1, <1>2, <1>4 DEF e

LEMMA MergeFailedFields ==
    ASSUME NEW t \in SegmentType, t.during_merge # {}
    PROVE  LET m == MergeFailed(t)
           IN  /\ m.dk = t.for_write \cup t.during_merge /\ m.dkm = NoFile
               /\ m.for_write = t.for_write \cup t.during_merge
               /\ m.during_merge = {}
               /\ m.deletes_loaded = t.deletes_loaded
               /\ ~m.in_merge /\ m.new_delete
               /\ m.has_deleted_keys = t.has_deleted_keys
               /\ m.deleted_keys = t.deleted_keys
  <1> DEFINE back == [t EXCEPT !.in_merge   = FALSE,
                               !.for_write  = @ \cup t.during_merge,
                               !.new_delete = TRUE]
  <1>1. back \in SegmentType
    BY DEF SegmentType
  <1>2. /\ back.for_write = t.for_write \cup t.during_merge
        /\ ~back.in_merge /\ back.new_delete
        /\ back.deletes_loaded = t.deletes_loaded
        /\ back.has_deleted_keys = t.has_deleted_keys
        /\ back.deleted_keys = t.deleted_keys
    BY DEF SegmentType
  <1>3. MergeFailed(t) = [Persist(back) EXCEPT !.during_merge = {}, !.dkm = NoFile]
    BY Zenon DEF MergeFailed
  <1> HIDE DEF back
  <1>4. Persist(back) = [back EXCEPT !.dk = back.for_write]
    BY <1>2 DEF Persist
  <1>5. QED
    BY <1>1, <1>2, <1>3, <1>4 DEF SegmentType

LEMMA MergeFailedConsistent ==
    ASSUME NEW t \in SegmentType, Consistent(t), t.in_merge
    PROVE  /\ Consistent(MergeFailed(t))
           /\ OnDisk(t) \subseteq OnDisk(MergeFailed(t))
           /\ Known(t) \subseteq Known(MergeFailed(t))
  <1> DEFINE m == MergeFailed(t)
  <1>1. CASE t.during_merge = {}
    <2>1. m = [t EXCEPT !.in_merge = FALSE]
      BY <1>1 DEF MergeFailed
    <2>2. /\ m.dk = t.dk /\ m.dkm = t.dkm
          /\ m.for_write = t.for_write /\ m.during_merge = t.during_merge
          /\ m.deletes_loaded = t.deletes_loaded
          /\ ~m.in_merge /\ m.new_delete = t.new_delete
          /\ m.has_deleted_keys = t.has_deleted_keys
          /\ m.deleted_keys = t.deleted_keys
      BY <2>1 DEF SegmentType
    <2> HIDE DEF m
    <2>3. Consistent(m) /\ OnDisk(m) = OnDisk(t) /\ Known(m) = Known(t)
      BY <1>1, <2>2 DEF Consistent, OnDisk, Known
    <2>4. QED
      BY <2>3 DEF m
  <1>2. CASE t.during_merge # {}
    <2>1. /\ m.dk = t.for_write \cup t.during_merge /\ m.dkm = NoFile
          /\ m.for_write = t.for_write \cup t.during_merge
          /\ m.during_merge = {}
          /\ m.deletes_loaded = t.deletes_loaded
          /\ ~m.in_merge /\ m.new_delete
          /\ m.has_deleted_keys = t.has_deleted_keys
          /\ m.deleted_keys = t.deleted_keys
      BY <1>2, MergeFailedFields
    <2>2. ReadDeleted(m.dkm) = {} /\ ReadDeleted(m.dk) = m.dk
      BY <2>1, NoFileAssumption DEF ReadDeleted, SegmentType
    <2> HIDE DEF m
    <2>3. t.deletes_loaded
      BY <1>2 DEF Consistent, SegmentType
    <2>4. OnDisk(t) \subseteq t.for_write \cup t.during_merge
      BY <2>3 DEF Consistent, OnDisk
    <2>5. OnDisk(m) = t.for_write \cup t.during_merge
      BY <2>1, <2>2 DEF OnDisk
    <2>6. Consistent(m)
      BY <2>1, <2>2, <2>3, <2>4, <2>5 DEF Consistent
    <2>7. QED
      BY <2>1, <2>4, <2>5, <2>6 DEF m, Known
  <1>3. QED
    BY <1>1, <1>2

LEMMA OpenConsistent ==
    ASSUME NEW t \in SegmentType, Consistent(t), ~t.in_merge
    PROVE  /\ Consistent(OpenSegment(t))
           /\ OnDisk(OpenSegment(t)) = OnDisk(t)
  <1> DEFINE o == [NoSegment EXCEPT !.dict = t.dict, !.kv = t.kv, !.dk = t.dk,
                                    !.dkm = t.dkm, !.rank = t.rank]
  <1>1. o \in SegmentType
    BY NoSegmentType DEF SegmentType
  <1>2. /\ o.dk = t.dk /\ o.dkm = t.dkm
        /\ o.for_write = {} /\ o.during_merge = {}
        /\ ~o.deletes_loaded /\ ~o.in_merge /\ ~o.new_delete /\ ~o.has_deleted_keys
    BY DEF NoSegment
  <1>3. OpenSegment(t) = LoadDeletedKeys(o)
    BY Zenon DEF OpenSegment
  <1> HIDE DEF o
  <1>4. Consistent(o) /\ OnDisk(o) = OnDisk(t)
    BY <1>2 DEF Consistent, OnDisk
  <1>5. QED
    BY <1>1, <1>3, <1>4, LoadConsistent

-----------------------------------------------------------------------------
\* Deletes that readers see

LEMMA IsDeletedMeans ==
    ASSUME NEW t \in SegmentType, NEW k \in Keys
    PROVE  IsDeleted(t, k) <=>
             IF t.deletes_loaded
             THEN t.has_deleted_keys /\ k \in t.deleted_keys
             ELSE LoadDeletedKeys(t).has_deleted_keys
                  /\ k \in LoadDeletedKeys(t).deleted_keys
  <1> DEFINE r == LazyLoadDeletedKeys(t)
  <1>1. IsDeleted(t, k) <=> r.has_deleted_keys /\ k \in r.deleted_keys
    BY DEF IsDeleted
  <1>2. CASE t.deletes_loaded
    BY <1>1, <1>2 DEF LazyLoadDeletedKeys
  <1>3. CASE ~t.deletes_loaded
    <2>1. /\ r.has_deleted_keys = LoadDeletedKeys(t).has_deleted_keys
          /\ r.deleted_keys = LoadDeletedKeys(t).deleted_keys
      BY <1>3, LazyLoadFields
    <2> HIDE DEF r
    <2>2. QED
      BY <1>1, <1>3, <2>1
  <1>4. QED
    BY <1>2, <1>3

\* What readers see as deleted is in the files.
LEMMA IsDeletedOnDisk ==
    ASSUME NEW t \in SegmentType, Consistent(t), NEW k \in Keys, IsDeleted(t, k)
    PROVE  k \in OnDisk(t)
  <1>1. CASE t.deletes_loaded
    BY <1>1, IsDeletedMeans DEF Consistent
  <1>2. CASE ~t.deletes_loaded
    <2> DEFINE l == LoadDeletedKeys(t)
    <2>1. l.has_deleted_keys /\ k \in l.deleted_keys
      BY <1>2, IsDeletedMeans
    <2>2. IF t.dk = NoFile /\ t.dkm = NoFile
          THEN l.has_deleted_keys = t.has_deleted_keys /\ l.deleted_keys = t.deleted_keys
          ELSE l.has_deleted_keys /\ l.deleted_keys = OnDisk(t)
      BY LoadFields
    <2> HIDE DEF l
    <2>3. QED
      BY <2>1, <2>2 DEF Consistent
  <1>3. QED
    BY <1>1, <1>2

\* After a reload, every key in the files is seen as deleted.
LEMMA LoadShowsAll ==
    ASSUME NEW t \in SegmentType, NEW k \in Keys, k \in OnDisk(t)
    PROVE  IsDeleted(LoadDeletedKeys(t), k)
  <1> DEFINE l == LoadDeletedKeys(t)
             ll == LoadDeletedKeys(l)
  <1>1. l \in SegmentType
    BY LoadDeletedKeysType
  <1>2. ~(t.dk = NoFile /\ t.dkm = NoFile)
    BY DEF OnDisk, ReadDeleted
  <1>3. l.has_deleted_keys /\ l.deleted_keys = OnDisk(t) /\ l.dk = t.dk /\ l.dkm = t.dkm
    BY <1>2, LoadFields
  <1> HIDE DEF l
  <1>4. ll.has_deleted_keys /\ ll.deleted_keys = OnDisk(l)
    BY <1>1, <1>2, <1>3, LoadFields
  <1> HIDE DEF ll
  <1>5. IsDeleted(l, k)
    BY <1>1, <1>3, <1>4, IsDeletedMeans DEF OnDisk, ll
  <1>6. QED
    BY <1>5 DEF l
=============================================================================
