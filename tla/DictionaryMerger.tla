-------------------------- MODULE DictionaryMerger --------------------------
(***************************************************************************)
(* The k-way merge of dictionary_merger.h, one action per iteration of its *)
(* loops.  Input i is the i-th file passed to Add; a later input is more   *)
(* recent.  An input is the set of keys of its dictionary, the value of a  *)
(* key in input i is i itself: which input a value comes from is all the   *)
(* properties ask.  CompleteMerge and AppendMerge are the same loop, they  *)
(* differ in how the value store is told about a value.                    *)
(***************************************************************************)
EXTENDS Naturals, Sequences, FiniteSets, FiniteSetsExt, MergeSemantics

CONSTANTS
    Keys,       \* the keys, positive numbers for their order
    N,          \* the number of files to merge
    MaxEntries  \* bound on the entries of all dictionaries and .dk lists

ASSUME KeysAssumption == Keys \subseteq (Nat \ {0}) /\ IsFiniteSet(Keys)
ASSUME NAssumption == N \in Nat /\ MaxEntries \in Nat

Inputs == 1..N
End == 0        \* a SegmentIterator that is exhausted

VARIABLES
    dicts,          \* input: the keys of every dictionary
    dk,             \* input: the content of every .dk file
    added,          \* number of files passed to Add so far
    segments_pqueue,\* the inputs whose iterator is in the priority queue
    at,             \* the key every iterator points to, or End
    deleted_keys,   \* what is left of the list of every input
    segment_it,     \* the input popped last
    top_key,        \* its key
    output,         \* what generator_->Add has been given
    stats,
    pc

input == <<dicts, dk>>
vars == <<dicts, dk, added, segments_pqueue, at, deleted_keys, segment_it,
          top_key, output, stats, pc>>

Init ==
    /\ dicts \in [Inputs -> SUBSET Keys]
    /\ dk \in [Inputs -> SUBSET Keys]
    /\ Cardinality({p \in Inputs \X Keys : p[2] \in dicts[p[1]]})
         + Cardinality({p \in Inputs \X Keys : p[2] \in dk[p[1]]}) <= MaxEntries
    /\ added = 0
    /\ segments_pqueue = {}
    /\ at = [i \in Inputs |-> End]
    /\ deleted_keys = [i \in Inputs |-> {}]
    /\ segment_it = 0
    /\ top_key = End
    /\ output = <<>>
    /\ stats = [number_of_keys |-> 0, deleted_keys |-> 0, updated_keys |-> 0]
    /\ pc = "add"

\* EntryIterator::operator++: the next key of the dictionary, or End.
Advance(i, k) ==
    LET rest == {j \in dicts[i] : j > k}
    IN  IF rest = {} THEN End ELSE Min(rest)

\* The list is sorted in reverse order, so back() is its smallest key.
Back(list) == IF list = {} THEN End ELSE Min(list)

(***************************************************************************)
(* SegmentIterator::operator<.  EntryIterator's operator> is the negation  *)
(* of its operator<, that is "greater or equal": of two equal keys the one *)
(* with the higher index comes first.                                      *)
(***************************************************************************)
Less(i, j) == IF i < j THEN ~(at[i] < at[j]) ELSE at[j] < at[i]

\* priority_queue::top, the greatest element
Top == CHOOSE i \in segments_pqueue : \A j \in segments_pqueue \ {i} : Less(j, i)

\* Add: an empty dictionary is left out, its list of deleted keys as well.
Add ==
    /\ pc = "add"
    /\ added < N
    /\ LET i == added + 1 IN
         /\ added' = i
         /\ at' = [at EXCEPT ![i] = Advance(i, 0)]
         /\ segments_pqueue' = IF dicts[i] = {} THEN segments_pqueue
                               ELSE segments_pqueue \cup {i}
         /\ deleted_keys' = IF dicts[i] = {} THEN deleted_keys
                            ELSE [deleted_keys EXCEPT ![i] = dk[i]]
    /\ UNCHANGED <<input, segment_it, top_key, output, stats, pc>>

\* Merge is called.
Start ==
    /\ pc = "add"
    /\ added = N
    /\ pc' = "pop"
    /\ UNCHANGED <<input, added, segments_pqueue, at, deleted_keys,
                   segment_it, top_key, output, stats>>

\* The head of the outer loop
Pop ==
    /\ pc = "pop"
    /\ segments_pqueue # {}
    /\ segment_it' = Top
    /\ top_key' = at[Top]
    /\ segments_pqueue' = segments_pqueue \ {Top}
    /\ pc' = "skip"
    /\ UNCHANGED <<input, added, at, deleted_keys, output, stats>>

\* Mutant: only more recent segments are looked at, but those come first.
SameKeyInNewerQueued ==
    segments_pqueue # {} /\ at[Top] = top_key /\ segment_it < Top

\* The condition of the inner loop
SameKeyQueued == segments_pqueue # {} /\ at[Top] = top_key

\* Mutant: an iterator that reaches its end is not counted.
SkipCountingOnlyPushed ==
    /\ pc = "skip"
    /\ SameKeyQueued
    /\ LET i == Top IN
         /\ at' = [at EXCEPT ![i] = Advance(i, at[i])]
         /\ segments_pqueue' = IF at'[i] = End THEN segments_pqueue \ {i}
                               ELSE segments_pqueue
         /\ stats' = IF at'[i] = End THEN stats
                     ELSE [stats EXCEPT !.updated_keys = @ + 1]
    /\ UNCHANGED <<input, added, deleted_keys, segment_it, top_key, output, pc>>

\* The inner loop: an older segment has the same key.
Skip ==
    /\ pc = "skip"
    /\ SameKeyQueued
    /\ LET i == Top IN
         /\ at' = [at EXCEPT ![i] = Advance(i, at[i])]
         /\ segments_pqueue' = IF at'[i] = End THEN segments_pqueue \ {i}
                               ELSE segments_pqueue
    /\ stats' = [stats EXCEPT !.updated_keys = @ + 1]
    /\ UNCHANGED <<input, added, deleted_keys, segment_it, top_key, output, pc>>

\* Mutant: a delete in the list of any input counts.
KeyDeletedInAnyList == \E i \in Inputs : Back(deleted_keys[i]) = top_key

\* The condition of KeyDeleted
KeyDeleted == Back(deleted_keys[segment_it]) = top_key

\* Mutant: the lists of the other inputs are not checked for the key.
OwnListConsumed == {segment_it}

\* The lists that lose the key when it is deleted: the one that says so,
\* and every other one that has it at its back.
ListsConsumed == {i \in Inputs : Back(deleted_keys[i]) = top_key}

\* The end of the outer loop: KeyDeleted, generator_->Add, ++segment_it
Emit ==
    /\ pc = "skip"
    /\ ~SameKeyQueued
    /\ IF KeyDeleted
       THEN /\ deleted_keys' = [i \in Inputs |->
                                  IF i \in ListsConsumed
                                  THEN deleted_keys[i] \ {top_key}
                                  ELSE deleted_keys[i]]
            /\ stats' = [stats EXCEPT !.deleted_keys = @ + Cardinality(ListsConsumed)]
            /\ UNCHANGED output
       ELSE /\ output' = Append(output, <<top_key, segment_it>>)
            /\ stats' = [stats EXCEPT !.number_of_keys = @ + 1]
            /\ UNCHANGED deleted_keys
    /\ at' = [at EXCEPT ![segment_it] = Advance(segment_it, top_key)]
    /\ segments_pqueue' = IF at'[segment_it] = End THEN segments_pqueue
                          ELSE segments_pqueue \cup {segment_it}
    /\ pc' = "pop"
    /\ UNCHANGED <<input, added, segment_it, top_key>>

\* The queue is empty: CloseFeeding
Finish ==
    /\ pc = "pop"
    /\ segments_pqueue = {}
    /\ pc' = "done"
    /\ UNCHANGED <<input, added, segments_pqueue, at, deleted_keys,
                   segment_it, top_key, output, stats>>

Next == Add \/ Start \/ Pop \/ Skip \/ Emit \/ Finish

Spec == Init /\ [][Next]_vars

-----------------------------------------------------------------------------

\* The inputs and the result in the terms of MergeSemantics
Dict == [i \in Inputs |-> [k \in Keys |-> IF k \in dicts[i] THEN i ELSE 0]]
Age == [i \in Inputs |-> i]
ToDictionary(s) ==
    [k \in Keys |-> IF \E n \in 1..Len(s) : s[n][1] = k
                    THEN s[CHOOSE n \in 1..Len(s) : s[n][1] = k][2]
                    ELSE 0]

(***************************************************************************)
(* The generator is fed strictly ascending keys: neither a duplicate nor   *)
(* an unordered key, which generator.h refuses with an exception, comes    *)
(* out of the queue, whatever the inputs share (CompleteMerge).            *)
(***************************************************************************)
OutputSorted ==
    \A m, n \in 1..Len(output) : m < n => output[m][1] < output[n][1]

(***************************************************************************)
(* The loop computes MergedDictionary: for every key the value of the most *)
(* recent input, less the keys whose delete was reached in its list.       *)
(***************************************************************************)
ComputesMergedDictionary ==
    pc = "done" =>
        ToDictionary(output) = MergedDictionary(Inputs, Dict, dk, Age, Keys)

(***************************************************************************)
(* No value is lost: what the newest input holds and nobody deleted from   *)
(* it is written, even if older versions of the key were deleted from      *)
(* older inputs.                                                           *)
(***************************************************************************)
NothingUndeletedDropped ==
    pc = "done" =>
        \A k \in UNION {dicts[i] : i \in Inputs} :
            ~Deleted(Inputs, Dict, dk, Age, k)
                => ToDictionary(output)[k] = Newest(Inputs, Dict, Age, k)

(***************************************************************************)
(* Every entry of every input is counted once: written, skipped for a more *)
(* recent one (updated_keys_), or dropped.  deleted_keys_ counts entries   *)
(* of .dk lists, so it is at least the number of dropped keys.             *)
(***************************************************************************)
StatsAddUp ==
    pc = "done" =>
        LET all     == Cardinality({p \in Inputs \X Keys : p[2] \in dicts[p[1]]})
            dropped == Cardinality({k \in Keys : /\ \E i \in Inputs : k \in dicts[i]
                                                 /\ ToDictionary(output)[k] = 0})
        IN  /\ stats.number_of_keys = Len(output)
            /\ stats.number_of_keys + stats.updated_keys + dropped = all
            /\ stats.deleted_keys >= dropped
=============================================================================
