------------------------------- MODULE Generator -------------------------------
(***************************************************************************)
(* Building the automaton from sorted keys: the stack of unpacked states,  *)
(* one per position of the current key, and the minimisation that lets     *)
(* equal states share one id (dictionary/fsa/generator.h, unpacked_state.h,*)
(* unpacked_state_stack.h, PersistState of sparse_array_builder.h).        *)
(*                                                                         *)
(* States are persisted into a store of states by id; SparseArray is shown *)
(* to implement such a store.  The table of packed states is the real one  *)
(* (MinimizationHash) with a coarse hash code, so that chains are long.    *)
(***************************************************************************)
EXTENDS MinimizationHash, Integers, FiniteSets, FiniteSetsExt

CONSTANTS
  Alphabet,              \* the bytes the keys are made of
  MaxKeyLength, MaxKeys, \* bounds of the instance
  Values,                \* the values, natural numbers
  WeightCutOff           \* 30: deeper states get no weight

ASSUME GeneratorAssumption ==
  /\ Alphabet \subseteq Nat /\ Values \subseteq Nat \ {0}
  /\ MaxKeyLength \in Nat /\ MaxKeys \in Nat /\ WeightCutOff \in Nat

FinalLabel == 256
NoValue == 0 - 1

Keys == BoundedSeq(Alphabet, MaxKeyLength)

VARIABLES
  gstate,           \* state_: FEEDING or COMPILED (FINALIZING is passed through)
  inner_weight,     \* ValueStoreT::inner_weight: values are weights
  last_key,
  stack,            \* unpacked_state_pool_, by depth
  highest_stack,
  states,           \* the persisted states, by id
  cache,            \* state_hashtable_ of the builder
  start_state,
  added             \* history: the keys that were added, with their value

vars == <<gstate, inner_weight, last_key, stack, highest_stack, states, cache,
          start_state, added>>

-----------------------------------------------------------------------------
(* Unpacked states: transitions in the order they were added.              *)

Cleared == [outgoing |-> <<>>, weight |-> 0, no_minimization |-> 0]

AddTransition(u, label, value) ==
  [u EXCEPT !.outgoing = Append(@, [label |-> label, value |-> value])]

\* mutant: the target of the transition added first
SetFirstValue(u, value) == [u EXCEPT !.outgoing[1].value = value]

\* SetTransitionValue: the target of the transition added last
SetTransitionValue(u, value) == [u EXCEPT !.outgoing[Len(u.outgoing)].value = value]

\* mutant: the last weight wins
OverwriteWeight(u, weight) == [u EXCEPT !.weight = weight]

UpdateWeightIfHigher(u, weight) ==
  [u EXCEPT !.weight = IF weight > @ THEN weight ELSE @]

\* GetHashcode: some function of the transitions and of having a weight
HashCode(u) ==
  LET sum == FoldLeft(LAMBDA x, t : x + t.label + 3 * t.value, 0, u.outgoing)
  IN  2 * (sum % 4) + (IF u.weight > 0 THEN 1 ELSE 0) + 1

\* operator==: hash code first, then the transitions one by one
EqualStates(s, u) == HashCode(s) = HashCode(u) /\ s.outgoing = u.outgoing

\* UpdateWeights: up to the cut-off
UpdateWeights(st, end, weight) ==
  [i \in DOMAIN st |-> IF weight > 0 /\ i < end /\ i < WeightCutOff
                       THEN UpdateWeightIfHigher(st[i], weight) ELSE st[i]]

-----------------------------------------------------------------------------
(* PersistState on a record m of the stack, the states and the cache.      *)

Persisted(u) == [outgoing |-> u.outgoing, weight |-> u.weight]

\* write a new state: its ancestors will not find an equal one either
WriteNew(m, u) ==
  LET id == Len(m.states) + 1
  IN  [m EXCEPT !.states = Append(@, Persisted(u)),
                !.cache  = CacheAdd(@, [id |-> id, code |-> HashCode(u), cookie |-> 0]),
                !.id     = id,
                !.counter = u.no_minimization + 1]

\* found: the answer of the cache; an equal state is used again
ReuseOrWrite(m, u, found) ==
  IF IsEmpty(found.entry) THEN WriteNew([m EXCEPT !.cache = found.cache], u)
  ELSE [m EXCEPT !.states[found.entry.id] = UpdateWeightIfHigher(@, u.weight),
                 !.cache = found.cache, !.id = found.entry.id, !.counter = 0]

PersistState(m, u) ==
  LET same == {s \in 1 .. Len(m.states) : EqualStates(m.states[s], u)}
  IN  IF u.no_minimization > 0 THEN WriteNew(m, u)
      ELSE ReuseOrWrite(m, u, CacheGet(m.cache, HashCode(u), same))

\* the parent of the state just persisted points to it
LinkParent(m, depth) ==
  LET parent == SetTransitionValue(m.stack[depth - 1], m.id)
  IN  [m EXCEPT !.stack[depth - 1] = [parent EXCEPT !.no_minimization = @ + m.counter],
                !.stack[depth] = Cleared]

\* one round of ConsumeStack: persist the deepest state, link it, clear it
ConsumeOne(m, depth) == LinkParent(PersistState(m, m.stack[depth]), depth)

ConsumeStack(end) ==
  LET m == [stack |-> stack, states |-> states, cache |-> cache, id |-> 0, counter |-> 0]
  IN  FoldLeft(ConsumeOne, m, [i \in 1 .. highest_stack - end |-> highest_stack + 1 - i])

\* FeedStack: what the new key does not share with the last one
FeedStack(st, from, key) ==
  [i \in DOMAIN st |->
     IF i >= from /\ i < Len(key) THEN AddTransition(st[i], key[i + 1], 0) ELSE st[i]]

-----------------------------------------------------------------------------

get_common_prefix_length(first, second) ==
  CHOOSE n \in 0 .. Len(first) :
    /\ n <= Len(second) /\ \A i \in 1 .. n : first[i] = second[i]
    /\ n < Len(first) /\ n < Len(second) => first[n + 1] # second[n + 1]

\* the order the keys must come in
Less(a, b) ==
  LET n == get_common_prefix_length(a, b)
  IN  Len(b) > n /\ (Len(a) > n => a[n + 1] < b[n + 1])

Init ==
  /\ gstate = "FEEDING"
  /\ inner_weight \in BOOLEAN
  /\ last_key = <<>>
  /\ stack = [i \in 0 .. MaxKeyLength |-> Cleared]
  /\ highest_stack = 0
  /\ states = <<>>
  /\ cache = NewCache
  /\ start_state = 0
  /\ added = [k \in {} |-> 0]

\* only the values of the inner weights store are weights
GetWeightValue(value) == IF inner_weight THEN value ELSE 0

\* Add, both overloads: a value store flags a value it never saw before, so
\* that no equal state is looked for; the integer stores never do
AddKey(key, value, new_value) ==
  LET prefix  == get_common_prefix_length(last_key, key)
      m       == ConsumeStack(prefix)
      fed     == FeedStack(m.stack, prefix, key)
      marked  == [fed EXCEPT ![Len(key)] =
                    [AddTransition(@, FinalLabel, value) EXCEPT
                       !.no_minimization = @ + (IF new_value THEN 1 ELSE 0)]]
      reached == IF highest_stack > prefix THEN prefix ELSE highest_stack
  IN  /\ gstate = "FEEDING"
      /\ key # last_key
      /\ stack' = UpdateWeights(marked, Len(key) + 1, GetWeightValue(value))
      /\ highest_stack' = IF Len(key) > reached THEN Len(key) ELSE reached
      /\ states' = m.states
      /\ cache' = m.cache
      /\ last_key' = key
      /\ added' = [k \in DOMAIN added \cup {key} |-> IF k = key THEN value ELSE added[k]]
      /\ UNCHANGED <<gstate, inner_weight, start_state>>

CloseFeeding ==
  LET m    == ConsumeStack(0)
      root == PersistState(m, m.stack[0])
  IN  /\ gstate = "FEEDING"
      /\ gstate' = "COMPILED"
      /\ IF added # <<>>
         THEN /\ states' = root.states
              /\ cache' = root.cache
              /\ start_state' = root.id
         ELSE UNCHANGED <<states, cache>> /\ start_state' = 1
      /\ stack' = [i \in DOMAIN stack |-> Cleared]
      /\ highest_stack' = 0
      /\ UNCHANGED <<inner_weight, last_key, added>>

\* Nothing is said of what follows an overrun of the cache.
Next ==
  /\ ~Overrun(cache)
  /\ \/ \E key \in Keys, value \in Values, new_value \in BOOLEAN :
          /\ Cardinality(DOMAIN added) < MaxKeys
          /\ Less(last_key, key)
          /\ new_value => ~inner_weight /\ \A k \in DOMAIN added : added[k] # value
          /\ AddKey(key, value, new_value)
     \/ CloseFeeding

Spec == Init /\ [][Next]_vars

-----------------------------------------------------------------------------
(* Reading the automaton.                                                  *)

\* GetStartState: an empty automaton has none
StartState == IF DOMAIN added # {} THEN start_state ELSE 0

TargetOf(s, label) ==
  LET i == SelectInSeq(states[s].outgoing, LAMBDA t : t.label = label)
  IN  IF i = 0 THEN 0 ELSE states[s].outgoing[i].value

Walk(key) ==
  FoldLeft(LAMBDA s, c : IF s = 0 THEN 0 ELSE TargetOf(s, c), StartState, key)

ValueOf(key) == IF Walk(key) = 0 THEN 0 ELSE TargetOf(Walk(key), FinalLabel)

-----------------------------------------------------------------------------

\* The automaton accepts exactly the keys that were added, each with its own
\* value: sharing states between keys never mixes them up (generator.h:
\* ConsumeStack, FeedStack; unpacked_state.h: operator==).
AcceptsExactly ==
  gstate = "COMPILED" /\ ~Overrun(cache) =>
    \A key \in Keys : ValueOf(key) = IF key \in DOMAIN added THEN added[key] ELSE 0

\* The inner weight of a state is the highest weight of all keys that pass
\* through it, on whichever path, down to the cut-off: a state found equal
\* takes the higher weight over (PersistState, UpdateWeightIfNeeded).
InnerWeights ==
  gstate = "COMPILED" /\ inner_weight /\ ~Overrun(cache) =>
    \A s \in 1 .. Len(states) :
      LET paths == {p \in UNION {Prefixes(k) : k \in DOMAIN added} : Walk(p) = s}
          keys  == {k \in DOMAIN added : \E p \in paths : IsPrefix(p, k)}
      IN  states[s].weight = IF \E p \in paths : Len(p) < WeightCutOff
                             THEN Max({added[k] : k \in keys}) ELSE 0

\* As long as the cache dropped nothing the automaton is minimal: no two
\* states are equal (minimization_hash.h: Insert, GrowAndRehash, GetAndMove
\* keep what was added findable).
Minimal ==
  NothingLost(cache) =>
    \A s, t \in 1 .. Len(states) : s # t => ~EqualStates(states[s], states[t])

=============================================================================
