------------------------------ MODULE Segment -------------------------------
(***************************************************************************)
(* One segment of a keyvi index: the in-memory Segment object              *)
(* (index/internal/segment.h on top of read_only_segment.h) together with  *)
(* the files it owns in the index directory: the dictionary itself (.kv),  *)
(* the list of deleted keys (.dk) and the list of keys deleted while the   *)
(* segment takes part in a merge (.dkm).                                   *)
(*                                                                         *)
(* The module is a library of operators: every method of Segment that      *)
(* changes state is a function from a segment to a segment.  SegmentLife   *)
(* runs one segment on its own, IndexWriter composes many of them.         *)
(*                                                                         *)
(* Keys are numbers because the merger depends on their order.  The value  *)
(* of a key is the number of the write that set it; 0 means "not there".   *)
(***************************************************************************)
EXTENDS Naturals, FiniteSets

CONSTANTS
    Keys,     \* the keys, a set of positive numbers
    NoFile    \* stands for a .dk or .dkm file that does not exist

ASSUME KeysAssumption == Keys \subseteq (Nat \ {0})
ASSUME NoFileAssumption == \A S \in SUBSET Keys : NoFile # S

Absent == 0

DeletedFile == {NoFile} \cup SUBSET Keys

(***************************************************************************)
(* rank is the place of the segment in the vector segments_: a vector of   *)
(* segments is modelled by the set of its members, ordered by rank.        *)
(***************************************************************************)
SegmentType ==
    [ \* on disk
      dict             : [Keys -> Nat],   \* the immutable dictionary
      kv               : BOOLEAN,         \* does the dictionary file exist
      dk               : DeletedFile,
      dkm              : DeletedFile,
      \* in memory
      rank             : Nat,
      deleted_keys     : SUBSET Keys,     \* what IsDeleted consults
      has_deleted_keys : BOOLEAN,
      for_write        : SUBSET Keys,     \* deleted_keys_for_write_
      during_merge     : SUBSET Keys,     \* deleted_keys_during_merge_for_write_
      deletes_loaded   : BOOLEAN,
      in_merge         : BOOLEAN,
      new_delete       : BOOLEAN ]

\* LoadAndUnserializeDeletedKeys: a file that cannot be opened reads as {}.
ReadDeleted(file) == IF file = NoFile THEN {} ELSE file

\* Everything the two files on disk say is deleted.
OnDisk(s) == ReadDeleted(s.dk) \cup ReadDeleted(s.dkm)

InDictionary(s, k) == s.dict[k] # Absent

\* Mutant: only the most recent of the two files is read.
LoadOneList(s) ==
    IF s.dk = NoFile /\ s.dkm = NoFile
    THEN s
    ELSE [s EXCEPT !.deleted_keys = IF s.dkm = NoFile THEN s.dk ELSE s.dkm,
                   !.has_deleted_keys = TRUE]

(***************************************************************************)
(* ReadOnlySegment::LoadDeletedKeys.  The modification times the code      *)
(* compares against are initialised with 0 and never assigned, so every    *)
(* call with at least one file present reloads both lists.                 *)
(***************************************************************************)
LoadDeletedKeys(s) ==
    IF s.dk = NoFile /\ s.dkm = NoFile
    THEN s
    ELSE [s EXCEPT !.deleted_keys = OnDisk(s), !.has_deleted_keys = TRUE]

\* Segment::LazyLoadDeletedKeys
LazyLoadDeletedKeys(s) ==
    LET r      == LoadDeletedKeys(s)
        loaded == IF r.has_deleted_keys THEN r.deleted_keys ELSE {}
    IN  IF s.deletes_loaded
        THEN s
        ELSE [r EXCEPT
               !.during_merge = IF s.in_merge THEN @ \cup loaded ELSE @,
               !.for_write    = IF s.in_merge THEN @ ELSE @ \cup loaded,
               !.deletes_loaded = TRUE]

\* Segment::HasDeletedKeys, after the lazy load
HasDeletedKeys(s) ==
    LET r == LazyLoadDeletedKeys(s) IN r.for_write \cup r.during_merge # {}

\* Segment::IsDeleted, after the lazy load
IsDeleted(s, k) ==
    LET r == LazyLoadDeletedKeys(s)
    IN  r.has_deleted_keys /\ k \in r.deleted_keys

(***************************************************************************)
(* Segment::Persist returns TRUE iff new_delete_ is set.  Note that        *)
(* new_delete_ is never cleared again.                                     *)
(***************************************************************************)
Persist(s) ==
    IF ~s.new_delete
    THEN s
    ELSE IF s.in_merge
         THEN [s EXCEPT !.dkm = s.during_merge]
         ELSE [s EXCEPT !.dk = s.for_write]

\* Mutant: the list readers consult is not loaded again.
PersistOnly(s) == IF s.new_delete THEN Persist(s) ELSE s

\* The body of the loop in IndexWriterWorker::PersistDeletes
PersistAndReload(s) == IF s.new_delete THEN LoadDeletedKeys(Persist(s)) ELSE s

\* Mutant: the key is not looked up in the dictionary first.
DeleteKeyUnchecked(s, k) ==
    LET r == LazyLoadDeletedKeys(s)
    IN  [r EXCEPT !.during_merge = IF r.in_merge THEN @ \cup {k} ELSE @,
                  !.for_write    = IF r.in_merge THEN @ ELSE @ \cup {k},
                  !.new_delete   = TRUE]

\* Segment::DeleteKey
DeleteKey(s, k) ==
    LET r == LazyLoadDeletedKeys(s)
    IN  IF ~InDictionary(s, k)
        THEN s
        ELSE [r EXCEPT
               !.during_merge = IF r.in_merge THEN @ \cup {k} ELSE @,
               !.for_write    = IF r.in_merge THEN @ ELSE @ \cup {k},
               !.new_delete   = TRUE]

\* Mutant: the pending deletes are not written before the merge starts.
ElectedWithoutPersist(s) == [s EXCEPT !.in_merge = TRUE]

\* Segment::ElectedForMerge
ElectedForMerge(s) == [Persist(s) EXCEPT !.in_merge = TRUE]

\* Mutant: the joined list is not written before the .dkm file is removed.
MergeFailedWithoutPersist(s) ==
    [s EXCEPT !.in_merge = FALSE, !.for_write = @ \cup s.during_merge,
              !.new_delete = TRUE, !.during_merge = {}, !.dkm = NoFile]

\* Mutant: the deletes are handed back but their list is not cleared.
MergeFailedKeepsList(s) ==
    LET back == [s EXCEPT !.in_merge   = FALSE,
                          !.for_write  = @ \cup s.during_merge,
                          !.new_delete = TRUE]
    IN  [Persist(back) EXCEPT !.dkm = NoFile]

\* Segment::MergeFailed
MergeFailed(s) ==
    LET back == [s EXCEPT !.in_merge   = FALSE,
                          !.for_write  = @ \cup s.during_merge,
                          !.new_delete = TRUE]
    IN  IF s.during_merge = {}
        THEN [s EXCEPT !.in_merge = FALSE]
        ELSE [Persist(back) EXCEPT !.during_merge = {}, !.dkm = NoFile]

\* Segment::RemoveFiles
RemoveFiles(s) == [s EXCEPT !.kv = FALSE, !.dk = NoFile, !.dkm = NoFile]

-----------------------------------------------------------------------------

\* A segment that has no object and no file yet.
NoSegment ==
    [dict |-> [k \in Keys |-> Absent], kv |-> FALSE,
     dk |-> NoFile, dkm |-> NoFile, rank |-> 0,
     deleted_keys |-> {}, has_deleted_keys |-> FALSE,
     for_write |-> {}, during_merge |-> {},
     deletes_loaded |-> FALSE, in_merge |-> FALSE, new_delete |-> FALSE]

(***************************************************************************)
(* Segment(path, no_deletes = true): the object Compile creates for the    *)
(* dictionary it has just written.                                         *)
(***************************************************************************)
NewSegment(d, r) ==
    [NoSegment EXCEPT !.dict = d, !.kv = TRUE, !.rank = r,
                      !.deletes_loaded = TRUE]

(***************************************************************************)
(* Segment(path, no_deletes = false): LoadIndex opens an existing file;    *)
(* the constructor of ReadOnlySegment loads the deleted keys, the lists    *)
(* for writing stay empty until they are needed.                           *)
(***************************************************************************)
OpenSegment(s) ==
    LoadDeletedKeys(
        [NoSegment EXCEPT !.dict = s.dict, !.kv = s.kv, !.dk = s.dk,
                          !.dkm = s.dkm, !.rank = s.rank])

(***************************************************************************)
(* Segment(path, parent_segments): the object for a merged dictionary.     *)
(* What was deleted in a parent while the merge ran becomes the deleted    *)
(* list of the merged segment and is written out, but not loaded.          *)
(***************************************************************************)
MergedSegment(d, r, parents) ==
    LET inherited == UNION {p.during_merge : p \in parents}
    IN  Persist([NewSegment(d, r) EXCEPT !.for_write  = inherited,
                                         !.new_delete = (inherited # {})])
-----------------------------------------------------------------------------

(***************************************************************************)
(* Why nothing is lost, as an inductive invariant: outside a merge the     *)
(* second list and its file are empty, in a merge the file is behind its   *)
(* list; what is in .dk is in the lists for writing once they are loaded;  *)
(* what is in them without a new delete, or was there before the merge, is *)
(* in .dk; and readers never see more than the files say.                  *)
(***************************************************************************)
Consistent(t) ==
    /\ ~t.in_merge => t.during_merge = {} /\ ReadDeleted(t.dkm) = {}
    /\ ReadDeleted(t.dkm) \subseteq t.during_merge
    /\ t.deletes_loaded => ReadDeleted(t.dk) \subseteq t.for_write \cup t.during_merge
    /\ ~t.deletes_loaded => t.for_write = {} /\ t.during_merge = {} /\ ~t.new_delete
    /\ t.in_merge \/ ~t.new_delete => t.for_write \subseteq ReadDeleted(t.dk)
    /\ ~t.new_delete => t.during_merge \subseteq OnDisk(t)
    /\ t.has_deleted_keys => t.deleted_keys \subseteq OnDisk(t)

\* The deletes a segment knows of
Known(t) == t.for_write \cup t.during_merge \cup OnDisk(t)
=============================================================================
