--------------------------- MODULE StateTraverser ---------------------------
(***************************************************************************)
(* One traverser: a depth first walk over the states of one dictionary     *)
(* that its owner may cut short (state_traverser.h with the transitions    *)
(* of traversal/, wrapped by comparable_state_traverser.h, which records   *)
(* the labels of the path and orders two traversers).                      *)
(*                                                                         *)
(* A dictionary is a function from keys to values, and one of its states   *)
(* is the path that leads to it; Generator and SparseArray relate that     *)
(* view to the automaton.  Three kinds of transition instantiate the       *)
(* template: "plain" ones in label order, "weighted" ones by falling       *)
(* weight, "near" ones with the label of the looked up key first.          *)
(***************************************************************************)
EXTENDS Integers, Sequences, SequencesExt, FiniteSets, FiniteSetsExt

CONSTANTS
  CutOff        \* depth below which the generator keeps no inner weights

States(d) == {<<>>} \cup UNION {Prefixes(k) : k \in DOMAIN d}

Below(d, p) == {k \in DOMAIN d : IsPrefix(p, k)}

\* what can follow a state: two paths share a state iff this is the same
RightLanguage(d, p) ==
  {<<SubSeq(k, Len(p) + 1, Len(k)), d[k]>> : k \in Below(d, p)}

\* the weight the generator left at a state, 0 if it kept none: a shared
\* state has one as soon as one path to it is short enough
GetInnerWeight(d, p) ==
  IF Below(d, p) # {} /\ \E q \in States(d) : /\ Len(q) < CutOff
                            /\ RightLanguage(d, q) = RightLanguage(d, p)
  THEN Max({d[k] : k \in Below(d, p)}) ELSE 0

\* byte order, a path before what extends it
LessPath(p, q) ==
  \/ IsStrictPrefix(p, q)
  \/ \E i \in 1 .. Len(p) \cap 1 .. Len(q) :
       p[i] < q[i] /\ \A j \in 1 .. i - 1 : p[j] = q[j]

-----------------------------------------------------------------------------
(* The levels of the traversal stack: the transitions of a state and the   *)
(* position of the one to take next.                                       *)

SortTransitions(transitions) ==
  SetToSortSeq(transitions, LAMBDA x, y : \/ x.weight > y.weight
                                          \/ x.weight = y.weight /\ x.label < y.label)

\* a child without a weight takes that of its parent
TransitionWeight(t, path, parent) ==
  LET own == GetInnerWeight(t.fsa, path)
  IN  IF t.kind # "weighted" THEN 0 ELSE IF own # 0 THEN own ELSE parent

\* Add of near transitions: the label that goes on with the key comes first
IsExact(t, label, depth) ==
  /\ t.kind = "near" /\ t.exact
  /\ depth < Len(t.lookup) /\ t.lookup[depth + 1] = label

\* Add of weighted transitions
HeavyEnough(t, x) == x.weight >= t.min_weight

\* GetOutGoingTransitions, with Add of the three kinds
Transitions(t, p, parent, depth) ==
  LET here   == t.from \o p
      labels == {Last(q) : q \in {q \in States(t.fsa) : q # <<>> /\ Front(q) = here}}
      all    == {[label |-> c, weight |-> TransitionWeight(t, Append(here, c), parent)]
                   : c \in labels}
      exact  == {x \in all : IsExact(t, x.label, depth)}
  IN  SetToSeq(exact) \o SortTransitions({x \in all \ exact : HeavyEnough(t, x)})

Level(transitions) == [transitions |-> transitions, position |-> 1]
Bump(level) == [level EXCEPT !.position = @ + 1]
Current(level) == level.transitions[level.position]

\* GetNextState, filtered by the minimum weight
HasNext(t, level) ==
  /\ level.position <= Len(level.transitions)
  /\ HeavyEnough(t, Current(level))

GetDepth(t) == Len(t.stack) - 1

\* PostProcess of near transitions: exact as long as the key is followed
PostProcess(t, transitions, depth) ==
  LET followed == /\ depth < Len(t.lookup) /\ transitions # <<>>
                  /\ transitions[1].label = t.lookup[depth + 1]
  IN  IF t.kind = "near" /\ t.exact
      THEN [t EXCEPT !.exact_depth = depth, !.exact = followed]
      ELSE t

\* the constructors: positioned on the start state, the one that the path
\* from leads to, and not advanced yet
NewTraverser(kind, d, order, from, lookup) ==
  LET t   == [kind |-> kind, fsa |-> d, order |-> order, from |-> from, lookup |-> lookup,
              min_weight |-> 0, exact |-> TRUE, exact_depth |-> 0,
              stack |-> <<>>, labels |-> <<>>, weight |-> 0, alive |-> Below(d, from) # {}]
      out == Transitions(t, <<>>, GetInnerWeight(d, from), 0)
  IN  PostProcess([t EXCEPT !.stack = <<Level(out)>>], out, 0)

\* leaving levels on the way up: the depth of the exact match shrinks with them
GoUp(t, depth) == [t EXCEPT !.exact_depth = Min({@, depth})]

\* every level left on the way up moves its parent one further
LevelAt(t, i) == IF i = Len(t.stack) THEN t.stack[i] ELSE Bump(t.stack[i])

\* take the current transition of a level; out are those of its target
Enter(t, i, level, out) ==
  PostProcess([GoUp(t, i - 1) EXCEPT
                 !.stack = Append(Append(SubSeq(@, 1, i - 1), level), Level(out)),
                 !.labels = Append(SubSeq(@, 1, i - 1), Current(level).label),
                 !.weight = Current(level).weight],
              out, i)

AdvanceAt(t, i) ==
  LET next == Current(LevelAt(t, i))
      path == Append(SubSeq(t.labels, 1, i - 1), next.label)
  IN  Enter(t, i, LevelAt(t, i), Transitions(t, path, next.weight, i))

\* operator++: the deepest level that has a transition left
Advance(t) ==
  LET open == {i \in DOMAIN t.stack : HasNext(t, LevelAt(t, i))}
  IN  CASE ~t.alive -> t
        [] t.alive /\ open = {} -> [t EXCEPT !.alive = FALSE]
        [] OTHER -> AdvanceAt(t, Max(open))

\* Prune: the next ++ leaves out what is below the current state
Prune(t) ==
  [GoUp(t, GetDepth(t) - 1) EXCEPT
     !.stack = Append(Front(Front(@)), Bump(Last(Front(@)))),
     !.labels = Front(@)]

SetMinWeight(t, weight) ==
  [t EXCEPT !.min_weight = IF t.kind = "weighted" THEN weight ELSE @]

-----------------------------------------------------------------------------
(* The order of traversers.                                                *)

LessByLabels(a, b) ==
  LessPath(a.labels, b.labels) \/ (a.labels = b.labels /\ a.order > b.order)

\* by the first weight on the two paths that differs
LessByWeight(a, b) ==
  LET n       == Min({GetDepth(a), GetDepth(b)})
      WeightAt(t, i) == Current(t.stack[i]).weight
      differs == {i \in 1 .. n : WeightAt(a, i) # WeightAt(b, i)}
  IN  IF differs = {} THEN LessByLabels(a, b)
      ELSE WeightAt(a, Min(differs)) > WeightAt(b, Min(differs))

LessByExactness(a, b) ==
  CASE a.exact # b.exact -> a.exact
    [] a.exact = b.exact /\ a.exact_depth # b.exact_depth ->
         IF a.exact THEN a.exact_depth < b.exact_depth ELSE a.exact_depth > b.exact_depth
    [] a.exact /\ b.exact /\ a.exact_depth = b.exact_depth -> a.order > b.order
    [] OTHER -> LessByLabels(a, b)

\* operator<
Less(a, b) ==
  CASE a.kind = "weighted" -> LessByWeight(a, b)
    [] a.kind = "near"     -> LessByExactness(a, b)
    [] OTHER               -> LessByLabels(a, b)

\* operator==, which ignores the order
Equal(a, b) ==
  a.labels = b.labels /\ (a.kind = "near" => a.exact = b.exact)

=============================================================================
