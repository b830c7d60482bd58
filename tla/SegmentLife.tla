---------------------------- MODULE SegmentLife -----------------------------
(***************************************************************************)
(* The life of one segment: keys are deleted from it, the deletes are      *)
(* flushed, the segment is elected for a merge, the merge fails, and the   *)
(* process that owns it dies and is started again.  (A merge that succeeds *)
(* ends the life of the segment: see IndexWriter.)                         *)
(*                                                                         *)
(* The question asked here is whether the two lists of deleted keys, their *)
(* two files and the flags that choose between them ever lose a delete     *)
(* that a flush has already made durable.                                  *)
(***************************************************************************)
EXTENDS Segment

CONSTANTS
    CrashInMerge,   \* may the process die while the segment is in a merge?
    PolicyLoads     \* does the merge policy load the deleted keys of the
                    \* segments it looks at?  TRUE for TieredMergePolicy,
                    \* FALSE for SimpleMergePolicy choosing two or more

ASSUME CrashInMergeAssumption == CrashInMerge \in BOOLEAN
ASSUME PolicyLoadsAssumption == PolicyLoads \in BOOLEAN

VARIABLES
    s,          \* the segment
    deleted,    \* history: the deletes this process has applied or found
    flushed,    \* history: the deletes that a finished flush has covered
    since       \* history: the deletes applied since the last election

vars == <<s, deleted, flushed, since>>

Init ==
    \E contained \in SUBSET Keys :
        /\ s = NewSegment([k \in Keys |-> IF k \in contained THEN 1 ELSE Absent], 0)
        /\ deleted = {}
        /\ flushed = {}
        /\ since = {}

\* IndexWriterWorker::Delete reaches the segment.
Delete(k) ==
    /\ s' = DeleteKey(s, k)
    /\ deleted' = IF InDictionary(s, k) THEN deleted \cup {k} ELSE deleted
    /\ since'   = IF InDictionary(s, k) THEN since \cup {k} ELSE since
    /\ UNCHANGED flushed

\* PersistDeletes, as part of a flush
Flush ==
    /\ s' = PersistAndReload(s)
    /\ flushed' = flushed \cup deleted
    /\ UNCHANGED <<deleted, since>>

\* A reader consults IsDeleted or DeletedKeys.
Read ==
    /\ s' = LazyLoadDeletedKeys(s)
    /\ UNCHANGED <<deleted, flushed, since>>

\* The merge policy picks the segment and RunMerge elects it.
Elect ==
    /\ ~s.in_merge
    /\ s' = ElectedForMerge(IF PolicyLoads THEN LazyLoadDeletedKeys(s) ELSE s)
    /\ since' = {}
    /\ UNCHANGED <<deleted, flushed>>

\* FinalizeMerge finds that the merge was not successful.
Fail ==
    /\ s.in_merge
    /\ s' = MergeFailed(s)
    /\ UNCHANGED <<deleted, flushed, since>>

\* The process ends, at any point, and LoadIndex opens the segment again.
CrashAndReopen ==
    /\ s.in_merge => CrashInMerge
    /\ s' = OpenSegment(s)
    /\ deleted' = OnDisk(s)
    /\ since' = {}
    /\ UNCHANGED flushed

Next ==
    \/ \E k \in Keys : Delete(k)
    \/ Flush
    \/ Read
    \/ Elect
    \/ Fail
    \/ CrashAndReopen

Spec == Init /\ [][Next]_vars

-----------------------------------------------------------------------------

\* The keys in the lists and the files of a segment
ListedKeys(t) == t.for_write \cup t.during_merge \cup t.deleted_keys \cup OnDisk(t)

(***************************************************************************)
(* Type invariant of the segment object and its files (segment.h:187-194,  *)
(* read_only_segment.h:220-250).  Every list of deleted keys names keys of *)
(* the dictionary only, which is what the check in DeleteKey               *)
(* (segment.h:151) is for: a key that is not in the dictionary blocks the  *)
(* list of deleted keys in the merger.                                     *)
(***************************************************************************)
TypeOK ==
    /\ s \in SegmentType
    /\ \A k \in ListedKeys(s) : InDictionary(s, k)
    /\ deleted \subseteq Keys
    /\ flushed \subseteq Keys
    /\ since \subseteq Keys

(***************************************************************************)
(* A delete that a flush has covered is in one of the two files, whatever  *)
(* elections, failed merges and restarts follow: Persist, MergeFailed and  *)
(* SaveDeletedKeys never overwrite a file with a list that lacks it.       *)
(***************************************************************************)
FlushedDurable == flushed \subseteq OnDisk(s)

(***************************************************************************)
(* While a merge runs, the .dk file it reads holds every delete the        *)
(* segment had when it was elected.  This is what Persist relies on        *)
(* (segment.h:176).                                                        *)
(***************************************************************************)
PersistedBeforeMerge == s.in_merge => s.for_write \subseteq ReadDeleted(s.dk)

(***************************************************************************)
(* The list handed over to the merged segment (segment.h:74-78) holds only *)
(* deletes that happened after the election: an older delete in it would   *)
(* hide a value that a newer parent contributed to the merged dictionary.  *)
(***************************************************************************)
DuringMergeIsNew == s.during_merge \subseteq since

(***************************************************************************)
(* A key that readers see as deleted stays deleted: no later call, failed  *)
(* merge or restart brings it back (Segment::IsDeleted).                   *)
(***************************************************************************)
DeletedStaysDeleted ==
    [][\A k \in Keys : IsDeleted(s, k) => IsDeleted(s', k)]_vars

-----------------------------------------------------------------------------

\* Why nothing is lost, as an inductive invariant: see Consistent
Bookkeeping ==
    /\ Consistent(s)
    /\ deleted \subseteq Known(s)
    /\ flushed \subseteq OnDisk(s)

\* With a policy that loads the lists before the election, moreover:
LoadedBeforeMerge ==
    /\ s.in_merge => s.deletes_loaded
    /\ s.during_merge \subseteq since
=============================================================================
