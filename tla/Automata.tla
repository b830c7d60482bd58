------------------------------- MODULE Automata -------------------------------
(***************************************************************************)
(* The automaton as readers see it: one array of buckets, each with a      *)
(* label and a 16 bit value, in which all states are overlaid              *)
(* (dictionary/fsa/automata.h).  The transition of state s with label c is *)
(* the bucket s + c, and exists iff that bucket carries the label c; the   *)
(* final marker, its value and the inner weight follow behind the labels.  *)
(*                                                                         *)
(* The constants are those of dictionary/fsa/internal/constants.h, scaled  *)
(* down: what matters is their order, which the assumption states.  The    *)
(* bit layout of a 16 bit value is a record: its kind, a number, and for   *)
(* an overflow pointer the bucket it points to and whether it is relative. *)
(***************************************************************************)
EXTENDS Integers, FiniteSets, FiniteSetsExt

CONSTANTS
  NUMBER_OF_STATE_CODINGS,   \* 255: labels are 0 .. NUMBER_OF_STATE_CODINGS
  VSHORT_SLOTS,              \* 4: buckets a final value may take
  VSHORT_BASE,               \* 32768: a varshort digit is smaller than this
  LOW_PART,                  \* 8: part of an overflow code kept in the pointer
  COMPACT_SIZE_WINDOW,       \* 512
  RELATIVE_MAX_VALUE,        \* 32768
  ABSOLUTE_MAX_VALUE         \* 16384

FINAL_OFFSET_TRANSITION == NUMBER_OF_STATE_CODINGS + 1
FINAL_OFFSET_CODE == 1
INNER_WEIGHT_TRANSITION == FINAL_OFFSET_TRANSITION + VSHORT_SLOTS
MAX_TRANSITIONS_OF_A_STATE == INNER_WEIGHT_TRANSITION + 1

Labels == 0 .. NUMBER_OF_STATE_CODINGS

ASSUME CodingAssumption ==
  /\ NUMBER_OF_STATE_CODINGS \in Nat /\ NUMBER_OF_STATE_CODINGS > 1
  /\ VSHORT_SLOTS \in 1 .. NUMBER_OF_STATE_CODINGS
  /\ VSHORT_BASE \in Nat /\ VSHORT_BASE > 1
  /\ LOW_PART \in Nat /\ LOW_PART > 0
  /\ COMPACT_SIZE_WINDOW \in Nat
  /\ RELATIVE_MAX_VALUE \in Nat /\ RELATIVE_MAX_VALUE > COMPACT_SIZE_WINDOW
  /\ ABSOLUTE_MAX_VALUE \in Nat

-----------------------------------------------------------------------------
(* Buckets.                                                                *)

\* a plain number: a varshort digit, or a weight
Raw(n) == [kind |-> "raw", n |-> n, bucket |-> 0, relative |-> FALSE]

\* a bucket nobody wrote: the buffers are cleared with zeros
EmptyBucket == [label |-> 0, value |-> Raw(0)]

At(a, p) == IF p \in DOMAIN a THEN a[p] ELSE EmptyBucket

\* encodeVarShort: the digits of n, lowest first, all but the last flagged
getVarShortLength(n) ==
  CHOOSE k \in 1 .. 8 : /\ n < VSHORT_BASE ^ k
                        /\ k > 1 => n >= VSHORT_BASE ^ (k - 1)

encodeVarShort(n) ==
  LET length == getVarShortLength(n)
  IN  [i \in 0 .. length - 1 |->
         Raw(((n \div VSHORT_BASE ^ i) % VSHORT_BASE)
               + (IF i < length - 1 THEN VSHORT_BASE ELSE 0))]

\* decodeVarShort: up to the first bucket without the flag
decodeVarShort(a, p) ==
  LET last == CHOOSE k \in 0 .. 8 :
                /\ At(a, p + k).value.n < VSHORT_BASE
                /\ \A j \in 0 .. k - 1 : At(a, p + j).value.n >= VSHORT_BASE
  IN  MapThenSumSet(LAMBDA i : (At(a, p + i).value.n % VSHORT_BASE) * VSHORT_BASE ^ i,
                    0 .. last)

-----------------------------------------------------------------------------
(* Reading.                                                                *)

\* Automata::ResolvePointer, and the same code in ResolveTransitionValue
ResolvePointer(a, p) ==
  LET pt   == At(a, p).value
      code == decodeVarShort(a, pt.bucket + p - COMPACT_SIZE_WINDOW) * LOW_PART + pt.n
  IN  CASE pt.kind = "absolute" -> pt.n
        [] pt.kind = "overflow" /\ pt.relative -> p - code + COMPACT_SIZE_WINDOW
        [] pt.kind = "overflow" /\ ~pt.relative -> code
        [] OTHER -> p - pt.n + COMPACT_SIZE_WINDOW

TryWalkTransition(a, s, c) ==
  IF At(a, s + c).label = c THEN ResolvePointer(a, s + c) ELSE 0

IsFinalState(a, s) == At(a, s + FINAL_OFFSET_TRANSITION).label = FINAL_OFFSET_CODE

GetStateValue(a, s) == decodeVarShort(a, s + FINAL_OFFSET_TRANSITION)

GetInnerWeight(a, s) ==
  LET b == At(a, s + INNER_WEIGHT_TRANSITION)
  IN  IF b.label # 0 THEN 0 ELSE b.value.n

\* GetOutGoingTransitions: the labels that equal their distance, with targets
GetOutGoingTransitions(a, s) ==
  [c \in {l \in Labels : At(a, s + l).label = l} |-> ResolvePointer(a, s + c)]

=============================================================================
