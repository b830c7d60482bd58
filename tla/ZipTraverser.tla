---------------------------- MODULE ZipTraverser ----------------------------
(***************************************************************************)
(* The traverser over the dictionaries of several segments                 *)
(* (dictionary/fsa/zip_state_traverser.h), on which near and fuzzy lookups *)
(* of an index run.  It keeps one traverser per dictionary in a heap; those*)
(* at the same path move together, and the newest of them is shown.        *)
(***************************************************************************)
EXTENDS StateTraverser

CONSTANTS
  Keys,         \* keys a dictionary may hold
  Values,       \* values; also the weights, as in the inner weights store
  MaxKeys,      \* keys of one dictionary, at most
  MaxFsas,      \* dictionaries, at most
  MaxWeighted,  \* dictionaries with weighted transitions, at most
  Kinds         \* kinds of transitions to instantiate

VARIABLES
  kind, fsas, from, lookup, \* the arguments of the constructor
  built,                   \* the constructor has returned
  traverser_queue_,        \* the heap
  equal_states_,           \* how many of its first elements are at one path
  pruned,
  view,                    \* what GetStateLabels, IsFinalState, ... return
  min_weight               \* last argument of SetMinWeight

args == <<kind, fsas, from, lookup>>
vars == <<kind, fsas, from, lookup, built, traverser_queue_, equal_states_, pruned, view, min_weight>>

KeySets == {ks \in SUBSET Keys : Cardinality(ks) <= MaxKeys}

\* dictionaries with these keys, each value telling the dictionary it is from
Numbered(sets) == [i \in DOMAIN sets |-> [k \in sets[i] |-> i]]

\* the heap in the order of ordered_begin()
Ordered(queue) == SetToSortSeq(queue, Less)

-----------------------------------------------------------------------------
(* FillInValues.                                                           *)

NoView == [labels |-> <<>>, final |-> FALSE, value |-> 0, order |-> 0, over |-> TRUE]

CountEqual(q) == Max({n \in 0 .. Len(q) : \A i \in 1 .. n : Equal(q[1], q[i])})

IsFinal(t) == t.from \o t.labels \in DOMAIN t.fsa

\* the value of the first that is final
ViewOf(q, equal) ==
  LET final == {i \in 1 .. equal : IsFinal(q[i])}
      t     == q[Min(final)]
  IN  IF q = <<>> THEN NoView
      ELSE [labels |-> q[1].labels, final |-> final # {}, over |-> FALSE,
            value |-> IF final = {} THEN 0 ELSE t.fsa[t.from \o t.labels],
            order |-> IF final = {} THEN q[1].order ELSE t.order]

FillInValues(queue) ==
  /\ traverser_queue_' = queue
  /\ equal_states_' = CountEqual(Ordered(queue))
  /\ view' = ViewOf(Ordered(queue), equal_states_')
  /\ pruned' = FALSE

-----------------------------------------------------------------------------

\* mutant: the transitions keep the order of their own weights
PatchUnsorted(ts) ==
  LET Out(t)    == Range(Last(t.stack).transitions)
      global(c) == Max({x.weight : x \in {x \in UNION {Out(t) : t \in ts} : x.label = c}})
      Patched(t) == [i \in DOMAIN Last(t.stack).transitions |->
                      [Last(t.stack).transitions[i] EXCEPT
                         !.weight = global(Last(t.stack).transitions[i].label)]]
  IN  {[t EXCEPT !.stack = Append(Front(@), [Last(@) EXCEPT !.transitions = Patched(t)])]
         : t \in ts}

\* give every label the highest weight it has in one of the traversers ts,
\* and sort their transitions again: the traversers stay in step
PatchWeights(ts) ==
  LET Out(t)    == Range(Last(t.stack).transitions)
      global(c) == Max({x.weight : x \in {x \in UNION {Out(t) : t \in ts} : x.label = c}})
      Patched(t) == SortTransitions({[x EXCEPT !.weight = global(x.label)] : x \in Out(t)})
  IN  {[t EXCEPT !.stack = Append(Front(@), [Last(@) EXCEPT !.transitions = Patched(t)])]
         : t \in ts}

\* the weighted PreIncrement: not if the traversers were pruned
PreIncrement(queue, equal) ==
  LET first == {Ordered(queue)[i] : i \in 1 .. equal}
  IN  IF kind = "weighted" /\ ~pruned /\ equal > 1
      THEN (queue \ first) \cup PatchWeights(first)
      ELSE queue

\* advance the first of the heap, update or remove it
AdvanceTop(queue) ==
  LET top == Ordered(queue)[1]
  IN  (queue \ {top}) \cup {next \in {Advance(top)} : next.alive}

AdvanceEqual(queue, equal) ==
  FoldLeft(LAMBDA q, i : AdvanceTop(q), queue, [i \in 1 .. equal |-> i])

-----------------------------------------------------------------------------

Init ==
  /\ kind \in Kinds
  /\ \/ /\ kind = "weighted"
        /\ \E n \in 1 .. MaxWeighted :
             fsas \in [1 .. n -> UNION {[ks -> Values] : ks \in KeySets}]
     \/ /\ kind # "weighted"
        /\ \E n \in 1 .. MaxFsas : \E sets \in [1 .. n -> KeySets] : fsas = Numbered(sets)
  /\ from = <<>>
  /\ lookup = <<>>
  /\ built = FALSE
  /\ traverser_queue_ = {} /\ equal_states_ = 1 /\ pruned = FALSE
  /\ view = [NoView EXCEPT !.over = FALSE]
  /\ min_weight = 0

\* the constructors: what they put into the queue
StartQueue(started, advance) ==
  {t \in {IF advance THEN Advance(t) ELSE t : t \in started} : t.alive}

\* with two or more weighted traversers the weights of the start states are
\* patched before the first step
StartWeighted(started, advance) ==
  StartQueue(IF Cardinality(started) > 1 THEN PatchWeights(started) ELSE started, advance)

Construct(advance) ==
  LET new     == {NewTraverser(kind, fsas[i], i, from, lookup) : i \in DOMAIN fsas}
      started == {t \in new : t.alive}
  IN  /\ ~built
      /\ built' = TRUE
      /\ FillInValues(IF kind = "weighted" THEN StartWeighted(started, advance)
                      ELSE StartQueue(started, advance))
      /\ UNCHANGED <<args, min_weight>>

Increment ==
  /\ built /\ traverser_queue_ # {}
  /\ FillInValues(AdvanceEqual(PreIncrement(traverser_queue_, equal_states_), equal_states_))
  /\ UNCHANGED <<args, built, min_weight>>

PruneAll ==
  /\ built /\ traverser_queue_ # {} /\ ~pruned /\ view.labels # <<>>
  /\ traverser_queue_' =
       LET q == Ordered(traverser_queue_)
       IN  {IF i <= equal_states_ THEN Prune(q[i]) ELSE q[i] : i \in DOMAIN q}
  /\ pruned' = TRUE
  /\ UNCHANGED <<args, built, equal_states_, view, min_weight>>

SetMinimum(weight) ==
  /\ built /\ kind = "weighted" /\ weight > min_weight
  /\ traverser_queue_' = {SetMinWeight(t, weight) : t \in traverser_queue_}
  /\ min_weight' = weight
  /\ UNCHANGED <<args, built, equal_states_, pruned, view>>

Next ==
  \/ \E advance \in BOOLEAN : Construct(advance)
  \/ Increment
  \/ PruneAll
  \/ \E weight \in Values : SetMinimum(weight)

Spec == Init /\ [][Next]_vars

-----------------------------------------------------------------------------

Walk == INSTANCE DictionaryWalk
          WITH at <- view.labels, over <- view.over, final <- view.final,
               value <- view.value

\* The zip traverser walks its dictionaries as if they were one: every path
\* once, in the order of the walk, none missed, with the value of the latest
\* dictionary that has the key - also when states were pruned in between or
\* a minimum weight was raised (FillInValues, PreIncrement, operator++).
ImplementsWalk == Walk!WalkSpec

=============================================================================
