--------------------------- MODULE MergeSemantics ---------------------------
(***************************************************************************)
(* What merging a set of segments yields, as a function of the             *)
(* dictionaries and the .dk lists of the segments.  DictionaryMerger       *)
(* models the loop of dictionary_merger.h step by step and is checked      *)
(* against MergedDictionary, IndexWriter uses MergedDictionary as the      *)
(* outcome of a merge job.                                                 *)
(*                                                                         *)
(* A merge has inputs I (numbers or names), dict[i] and dk[i] for every    *)
(* input, and rank[i], the age of input i: a higher rank is more recent.   *)
(***************************************************************************)
EXTENDS Naturals

\* The most recent input that has the key.
Newest(I, dict, rank, k) ==
    CHOOSE i \in I : /\ dict[i][k] # 0
                     /\ \A j \in I : dict[j][k] # 0 => rank[j] <= rank[i]

HasKey(I, dict, k) == \E i \in I : dict[i][k] # 0

(***************************************************************************)
(* What a merge should drop: the keys whose most recent value was deleted. *)
(***************************************************************************)
Deleted(I, dict, dk, rank, k) ==
    HasKey(I, dict, k) /\ k \in dk[Newest(I, dict, rank, k)]

(***************************************************************************)
(* What DictionaryMerger drops.  The merger walks every .dk list in key    *)
(* order and looks only at the smallest key left in it (KeyDeleted), so a  *)
(* key is dropped only if every smaller key of the same list was dropped:  *)
(* the dropped keys are the largest set of deleted keys closed in this way.*)
(***************************************************************************)
Droppable(D, I, dict, dk, rank) ==
    \A k \in D : /\ Deleted(I, dict, dk, rank, k)
                 /\ \A j \in dk[Newest(I, dict, rank, k)] : j < k => j \in D

Dropped(I, dict, dk, rank, Keys) ==
    UNION {D \in SUBSET Keys : Droppable(D, I, dict, dk, rank)}

MergedDictionary(I, dict, dk, rank, Keys) ==
    LET drop == Dropped(I, dict, dk, rank, Keys)
    IN  [k \in Keys |-> IF ~HasKey(I, dict, k) \/ k \in drop
                        THEN 0
                        ELSE dict[Newest(I, dict, rank, k)][k]]
=============================================================================
