------------------------------ MODULE SparseArray ------------------------------
(***************************************************************************)
(* Writing the automaton: SparseArrayBuilder overlays the states it is     *)
(* given in one array of buckets, next to SparseArrayPersistence, which    *)
(* keeps the end of the array in memory and the rest in mapped files       *)
(* (dictionary/fsa/internal/sparse_array_builder.h,                        *)
(* sparse_array_persistence.h, unpacked_state.h, packed_state.h).          *)
(*                                                                         *)
(* A state is found again only through the labels in its buckets, so two   *)
(* states must never explain the same bucket: a state may not gain a       *)
(* transition, a final marker or a weight from what is written for its     *)
(* neighbours.  StateStore says so, and the array must implement it.       *)
(*                                                                         *)
(* The three position trackers are sets of positions; the table of packed  *)
(* states may have dropped any entry (Get may miss) and all hash codes     *)
(* collide except that weighted and unweighted states differ.              *)
(***************************************************************************)
EXTENDS Automata, Sequences, SequencesExt

CONSTANTS
  SPARSE_ARRAY_SEARCH_OFFSET,     \* 151
  COMPACT_SIZE_INNER_WEIGHT_MAX_VALUE,
  BufferSize, FlushSize,          \* of SparseArrayPersistence, in buckets
  UsedLabels, FinalValues, Weights,
  MaxChildren, MaxStates          \* bounds of the instance

ASSUME BuilderAssumption ==
  /\ SPARSE_ARRAY_SEARCH_OFFSET < NUMBER_OF_STATE_CODINGS
  /\ SPARSE_ARRAY_SEARCH_OFFSET + MAX_TRANSITIONS_OF_A_STATE < COMPACT_SIZE_WINDOW
  /\ COMPACT_SIZE_WINDOW + NUMBER_OF_STATE_CODINGS < BufferSize
  /\ FlushSize \in 1 .. BufferSize
  /\ UsedLabels \subseteq Labels

NoValue == 0 - 1

VARIABLES
  builder,          \* the array and the position trackers of SparseArrayBuilder
  highest,          \* highest_persisted_state_
  flushed,          \* in_memory_buffer_offset_: what is below is in the files
  hash,             \* the packed states that were added to the hash table
  inner_weight,     \* inner_weight_: the values are weights too
  asked, answer     \* the last call of PersistState and what it returned

vars == <<builder, highest, flushed, hash, inner_weight, asked, answer>>

-----------------------------------------------------------------------------
(* Unpacked states.                                                        *)

IsFinal(u) == u.fin # NoValue

Size(u) == Cardinality(DOMAIN u.out) + (IF IsFinal(u) THEN 1 ELSE 0)

\* the labels in the order they were added: a key ends before it is extended
Outgoing(u) ==
  (IF IsFinal(u) THEN <<FINAL_OFFSET_TRANSITION>> ELSE <<>>)
    \o SetToSortSeq(DOMAIN u.out, <)

FirstLabel(u) == Outgoing(u)[1]

\* get_BitVector: the buckets the state wants, relative to its start
BitVector(u) ==
  DOMAIN u.out
    \cup (IF IsFinal(u)
          THEN {FINAL_OFFSET_TRANSITION + i : i \in 0 .. getVarShortLength(u.fin) - 1}
          ELSE {})
    \cup (IF u.weight > 0 THEN {INNER_WEIGHT_TRANSITION} ELSE {})

\* UnpackedState::operator== against the packed state at s
Matches(a, s, packed, u) ==
  /\ packed = [transitions |-> Size(u), weighted |-> u.weight > 0]
  /\ \A c \in DOMAIN u.out : /\ At(a, s + c).label = c
                             /\ ResolvePointer(a, s + c) = u.out[c]
  /\ IsFinal(u) => /\ IsFinalState(a, s)
                   /\ GetStateValue(a, s) = u.fin

-----------------------------------------------------------------------------
(* Searching.                                                              *)

\* the search windows end here: behind it nothing was written yet
Horizon == highest + 4 * COMPACT_SIZE_WINDOW

\* the first position from p on that passes the test
FirstFrom(p, Test(_)) ==
  CHOOSE q \in p .. Horizon : Test(q) /\ \A r \in p .. q - 1 : ~Test(r)

NextFreeSlot(positions, p) == FirstFrom(p, LAMBDA q : q \notin positions)

\* the position that serves as owner of the label written into bucket p
ScramblingState(b, p) == NextFreeSlot(b.starts, p - NUMBER_OF_STATE_CODINGS)

\* none of the buckets the state wants is taken
IsAvailable(b, u, p) == \A d \in BitVector(u) : p + d \notin b.taken

\* a state without a zero byte whose first bucket nobody claims
NeedsScrambling(b, u, p) == FirstLabel(u) # 0 /\ p \notin b.taken

\* mutant: label 1 of a new state may be the final marker of another
FitsOverMarker(b, u, p) ==
  /\ p \notin b.starts
  /\ p \notin b.scrambling
  /\ IsFinal(u) => p + NUMBER_OF_STATE_CODINGS \notin b.starts
  /\ IsAvailable(b, u, p)
  /\ NeedsScrambling(b, u, p) /\ p >= NUMBER_OF_STATE_CODINGS => ScramblingState(b, p) < p

Fits(b, u, p) ==
  /\ p \notin b.starts
  /\ p \notin b.scrambling
  /\ IsFinal(u) => p + NUMBER_OF_STATE_CODINGS \notin b.starts
  /\ IsAvailable(b, u, p)
  /\ ~ /\ p > NUMBER_OF_STATE_CODINGS
       /\ FINAL_OFFSET_CODE \in DOMAIN u.out
       /\ p - NUMBER_OF_STATE_CODINGS \in b.starts
  /\ NeedsScrambling(b, u, p) /\ p >= NUMBER_OF_STATE_CODINGS =>
       /\ ScramblingState(b, p) < p
       /\ ~ /\ p - ScramblingState(b, p) = FINAL_OFFSET_CODE
            /\ p - NUMBER_OF_STATE_CODINGS \in b.starts

FindFreeBucket(b, u) ==
  LET first == IF highest > SPARSE_ARRAY_SEARCH_OFFSET
               THEN highest - SPARSE_ARRAY_SEARCH_OFFSET ELSE 1
      start == NextFreeSlot(b.taken, first + FirstLabel(u)) - FirstLabel(u)
  IN  FirstFrom(start, LAMBDA p : Fits(b, u, p))

-----------------------------------------------------------------------------
(* Writing.                                                                *)

Put(b, p, label, value) ==
  [b EXCEPT !.arr = [q \in DOMAIN @ \cup {p} |->
                       IF q = p THEN [label |-> label, value |-> value] ELSE @[q]]]

\* where the digits of an overflow code go, and the owner of their labels
OverflowOwner(b, p, digits) ==
  NextFreeSlot(b.starts, p + digits - NUMBER_OF_STATE_CODINGS - 1)

\* buckets of the digits that are taken, or would pass for somebody's weight
OverflowClashes(b, p, digits) ==
  (IF p \in b.taken \/ (inner_weight /\ p + INNER_WEIGHT_TRANSITION \in b.starts)
   THEN {0} ELSE {})
    \cup {i \in 1 .. digits - 1 :
           \/ p + i \in b.taken
           \/ inner_weight /\ p + i - INNER_WEIGHT_TRANSITION \in b.starts}

OverflowFits(b, p, digits) ==
  /\ OverflowClashes(b, p, digits) = {}
  /\ p >= NUMBER_OF_STATE_CODINGS =>
       /\ OverflowOwner(b, p, digits) < p
       /\ p - OverflowOwner(b, p, digits) # FINAL_OFFSET_CODE

\* the search goes on behind the clash, or behind all digits without an owner
OverflowSlot(b, first, digits) ==
  LET Skip(p)  == IF OverflowClashes(b, p, digits) = {} THEN digits + 1
                  ELSE Min(OverflowClashes(b, p, digits)) + 1
      search[p \in 0 .. Horizon] ==
        IF OverflowFits(b, p, digits) THEN p ELSE search[p + Skip(p)]
  IN  search[first]

WriteOverflow(b, p, label, pointer, difference) ==
  LET relative == difference < pointer
      code     == IF relative THEN difference ELSE pointer
      digits   == encodeVarShort(code \div LOW_PART)
      n        == Cardinality(DOMAIN digits)
      first    == IF p > COMPACT_SIZE_WINDOW THEN p - COMPACT_SIZE_WINDOW ELSE 0
      slot     == OverflowSlot(b, first, n)
      inside   == slot >= NUMBER_OF_STATE_CODINGS
      owner    == IF inside THEN OverflowOwner(b, slot, n) ELSE 0
      scramble == IF inside THEN slot - owner ELSE NUMBER_OF_STATE_CODINGS
      distance == COMPACT_SIZE_WINDOW + slot - p
      filled   == FoldLeft(LAMBDA c, i : Put(c, slot + i - 1, scramble + i - 1, digits[i - 1]),
                           b, [i \in 1 .. n |-> i])
  IN  Put([filled EXCEPT !.taken = @ \cup (slot .. slot + n - 1),
                         !.scrambling = @ \cup {owner}],
          p, label,
          [kind |-> IF distance < 2 * COMPACT_SIZE_WINDOW THEN "overflow" ELSE "absolute",
           n |-> code % LOW_PART, bucket |-> distance, relative |-> relative])

WriteTransition(b, p, label, pointer) ==
  LET difference == IF p + COMPACT_SIZE_WINDOW > pointer
                    THEN p + COMPACT_SIZE_WINDOW - pointer ELSE 2 * Horizon
  IN  IF difference < RELATIVE_MAX_VALUE
      THEN Put(b, p, label, [Raw(difference) EXCEPT !.kind = "relative"])
      ELSE IF pointer < ABSOLUTE_MAX_VALUE
      THEN Put(b, p, label, [Raw(pointer) EXCEPT !.kind = "absolute"])
      ELSE WriteOverflow(b, p, label, pointer, difference)

WriteFinalTransition(b, s, value) ==
  LET digits == encodeVarShort(value)
  IN  FoldLeft(LAMBDA c, i : Put(c, s + FINAL_OFFSET_TRANSITION + i - 1,
                                 FINAL_OFFSET_CODE + i - 1, digits[i - 1]),
               b, [i \in 1 .. Cardinality(DOMAIN digits) |-> i])

UpdateWeightIfNeeded(b, s, weight) ==
  LET p        == s + INNER_WEIGHT_TRANSITION
      n_weight == IF weight < COMPACT_SIZE_INNER_WEIGHT_MAX_VALUE
                  THEN weight ELSE COMPACT_SIZE_INNER_WEIGHT_MAX_VALUE
  IN  IF At(b.arr, p).value.n < n_weight
      THEN [Put(b, p, 0, Raw(n_weight)) EXCEPT !.taken = @ \cup {p},
                                               !.starts = @ \cup {p}]
      ELSE b

\* the bucket of a missing zero byte gets a label that is nobody's
ScrambleZeroByte(b, s, u) ==
  LET inside == s >= NUMBER_OF_STATE_CODINGS
      owner  == ScramblingState(b, s)
      label  == IF inside THEN s - owner ELSE NUMBER_OF_STATE_CODINGS
  IN  IF ~NeedsScrambling(b, u, s) THEN b
      ELSE WriteTransition([b EXCEPT !.scrambling = @ \cup (IF inside THEN {owner} ELSE {})],
                           s, label, 0)

\* no state may start where its final marker would be this state's label 1
BlockedStarts(s, u) ==
  LET out == Outgoing(u)
      one == IF out[1] # 0 THEN out[1] = FINAL_OFFSET_CODE
             ELSE Len(out) > 1 /\ out[2] = FINAL_OFFSET_CODE
  IN  (IF one /\ s >= NUMBER_OF_STATE_CODINGS THEN {s - NUMBER_OF_STATE_CODINGS} ELSE {})
        \cup (IF IsFinal(u) THEN {s + NUMBER_OF_STATE_CODINGS} ELSE {})
        \cup {s}

WriteState(b, s, u) ==
  LET reserved == [ScrambleZeroByte(b, s, u) EXCEPT
                     !.taken  = @ \cup {s + d : d \in BitVector(u)},
                     !.starts = @ \cup BlockedStarts(s, u)]
      written  == FoldLeft(LAMBDA c, l : IF l = FINAL_OFFSET_TRANSITION
                                         THEN WriteFinalTransition(c, s, u.fin)
                                         ELSE WriteTransition(c, s + l, l, u.out[l]),
                           reserved, Outgoing(u))
  IN  IF u.weight > 0 THEN UpdateWeightIfNeeded(written, s, u.weight) ELSE written

\* mutant: only the state itself has to fit, not its overflow codes
BeginNarrow(s) ==
  LET needed == s + NUMBER_OF_STATE_CODINGS
  IN  Min({f \in {flushed + k * FlushSize : k \in 0 .. needed} : needed < BufferSize + f})

\* BeginNewState: flush until the buffer reaches far enough behind s
BeginNewState(s) ==
  LET needed == s + COMPACT_SIZE_WINDOW + NUMBER_OF_STATE_CODINGS
  IN  Min({f \in {flushed + k * FlushSize : k \in 0 .. needed} : needed < BufferSize + f})

-----------------------------------------------------------------------------
(* PersistState.                                                           *)

\* the states the generator may ask for: their targets are persisted
Requests(ids) ==
  LET outs == UNION {[L -> ids] : L \in {M \in SUBSET UsedLabels : Cardinality(M) <= MaxChildren}}
      all  == [out : outs, fin : FinalValues \cup {NoValue}, weight : Weights \cup {0}]
  IN  {u \in all : Size(u) > 0}

Init ==
  /\ builder = [arr |-> [p \in {0, 1} |-> [label |-> 2, value |-> Raw(0)]],
                taken |-> {}, starts |-> {}, scrambling |-> {}]
  /\ highest = 0
  /\ flushed = 0
  /\ hash = [s \in {} |-> 0]
  /\ inner_weight \in BOOLEAN
  /\ asked = {}
  /\ answer = 0

\* an equal state was found in the hash table
Minimized(u) ==
  \E s \in DOMAIN hash :
    /\ Matches(builder.arr, s, hash[s], u)
    /\ builder' = IF u.weight > 0 THEN UpdateWeightIfNeeded(builder, s, u.weight) ELSE builder
    /\ answer' = s
    /\ UNCHANGED <<highest, flushed, hash>>

\* none was found, or none was looked for
Written(u) ==
  LET s == FindFreeBucket(builder, u)
  IN  /\ Cardinality(DOMAIN hash) < MaxStates
      /\ highest' = IF s > highest THEN s ELSE highest
      /\ flushed' = BeginNewState(s)
      /\ builder' = WriteState(builder, s, u)
      /\ hash' = [t \in DOMAIN hash \cup {s} |->
                    IF t = s THEN [transitions |-> Size(u), weighted |-> u.weight > 0]
                    ELSE hash[t]]
      /\ answer' = s

PersistState(u) ==
  /\ asked' = u
  /\ Minimized(u) \/ Written(u)
  /\ UNCHANGED inner_weight

Next == \E u \in Requests(DOMAIN hash) :
          (inner_weight \/ u.weight = 0) /\ PersistState(u)

Spec == Init /\ [][Next]_vars

-----------------------------------------------------------------------------
\* A later state with a zero byte starts at the weight bucket of s.
ZeroByteAtWeight(a, s) ==
  LET t == s + INNER_WEIGHT_TRANSITION
  IN  t \in DOMAIN hash /\ 0 \in DOMAIN GetOutGoingTransitions(a, t)

(***************************************************************************)
(* What a reader of the array finds at s.  A state persisted without a     *)
(* weight reads back with one in one case, which is left out.              *)
(***************************************************************************)
Read(a, s) ==
  [out    |-> GetOutGoingTransitions(a, s),
   fin    |-> IF IsFinalState(a, s) THEN GetStateValue(a, s) ELSE NoValue,
   weight |-> IF ~hash[s].weighted /\ ZeroByteAtWeight(a, s) THEN 0 ELSE GetInnerWeight(a, s)]

Store == INSTANCE StateStore
           WITH store <- [s \in DOMAIN hash |-> Read(builder.arr, s)],
                Ids <- 1 .. MaxStates * MAX_TRANSITIONS_OF_A_STATE,
                MaxWeight <- COMPACT_SIZE_INNER_WEIGHT_MAX_VALUE

\* The array implements the store: what is read back from the overlaid
\* buckets is exactly what was persisted, for all states and at all times -
\* no state gains or loses a transition, a final value or a weight through
\* a state, an overflow code or a scrambled zero byte written later, but for
\* the weight that a state without one gets from a zero byte in its bucket
\* (sparse_array_builder.h: FindFreeBucket, WriteState, WriteTransition).
ImplementsStore == Store!Spec

\* Every bucket is written into the memory buffer or into the part that was
\* flushed, never behind the buffer (sparse_array_persistence.h:
\* BeginNewState makes room before a state is written).
WritesInBuffer == \A p \in DOMAIN builder.arr : p < flushed + BufferSize

=============================================================================
