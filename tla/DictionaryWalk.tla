--------------------------- MODULE DictionaryWalk ---------------------------
(***************************************************************************)
(* What a traverser over several dictionaries promises: the walk over one  *)
(* dictionary that holds the keys of all of them, where the later          *)
(* dictionary wins ("as if they would be 1 traverser", zip_state_          *)
(* traverser.h).  There is no stack here: a step goes to the next path in  *)
(* the order of the walk.                                                  *)
(*                                                                         *)
(* With a minimum weight the walk may leave out what is too light, and no  *)
(* more than that.  A path that is light in one dictionary and heavy in    *)
(* another may be seen with or without the light one.                      *)
(***************************************************************************)
EXTENDS StateTraverser

VARIABLES
  fsas,      \* the dictionaries, later ones win
  from,      \* the path to the start state
  kind,      \* the kind of transition
  lookup,    \* the key near transitions follow
  at,        \* the current path
  over,      \* the walk has ended
  final,     \* the current path is a key ...
  value,     \* ... with this value
  pruned,    \* what is below the current path is to be left out
  min_weight

walkVars == <<fsas, from, kind, lookup, at, over, final, value, pruned, min_weight>>

-----------------------------------------------------------------------------

\* paths are counted from the start state
Holders(p) == {i \in DOMAIN fsas : Below(fsas[i], from \o p) # {}}

AllStates ==
  {SubSeq(q, Len(from) + 1, Len(q)) :
     q \in {q \in UNION {States(fsas[i]) : i \in DOMAIN fsas} : IsPrefix(from, q)}}

\* the weight of a path: the highest it has in any dictionary; without one
\* of its own it has that of its parent
WeightOf ==
  LET Own(i, p) == GetInnerWeight(fsas[i], from \o p)
      weight[p \in AllStates] ==
        Max({0} \cup {CASE Own(i, p) # 0 \/ p = <<>> -> Own(i, p)
                        [] Own(i, p) = 0 /\ Len(p) = 1 -> Own(i, <<>>)
                        [] OTHER -> weight[Front(p)]
                        : i \in Holders(p)})
  IN  weight

\* siblings by the kind of their transitions; w are the weights
SiblingBefore(w, p, a, b) ==
  LET wa == w[Append(p, a)]
      wb == w[Append(p, b)]
      Follows(c) == IsPrefix(Append(p, c), lookup)
  IN  CASE kind = "weighted" -> wa > wb \/ (wa = wb /\ a < b)
        [] kind = "near"     -> Follows(a) \/ (a < b /\ ~Follows(b))
        [] OTHER             -> a < b

\* p is visited before q
Before(w, p, q) ==
  \/ IsStrictPrefix(p, q)
  \/ \E i \in 1 .. Len(p) \cap 1 .. Len(q) :
       /\ p[i] # q[i] /\ \A j \in 1 .. i - 1 : p[j] = q[j]
       /\ SiblingBefore(w, SubSeq(p, 1, i - 1), p[i], q[i])

\* what a step must not miss: the way to keys that are heavy enough
MustVisit(p) ==
  kind = "weighted" =>
    \E i \in Holders(p) : \E k \in Below(fsas[i], from \o p) : fsas[i][k] >= min_weight

Ahead(w) == {q \in AllStates : Before(w, at, q) /\ ~(pruned /\ IsPrefix(at, q))}

\* the dictionaries in which p is a key, and those a minimum weight may hide
KeyIn(p) == {i \in DOMAIN fsas : from \o p \in DOMAIN fsas[i]}

Hidden(p) ==
  {i \in KeyIn(p) : kind = "weighted" /\ fsas[i][from \o p] < min_weight}

\* the later dictionary wins
Shows(p, f, v) ==
  \E seen \in {KeyIn(p) \ h : h \in SUBSET Hidden(p)} :
    /\ f = (seen # {})
    /\ v = IF seen = {} THEN 0 ELSE fsas[Max(seen)][from \o p]

Begin ==
  /\ at = <<>> /\ ~over /\ ~final /\ value = 0 /\ ~pruned /\ min_weight = 0

\* a traverser that is not advanced shows the start state
Start ==
  /\ at = <<>> /\ ~over /\ ~final
  /\ Shows(<<>>, final', value')
  /\ UNCHANGED <<fsas, from, kind, lookup, at, over, pruned, min_weight>>

Step ==
  LET w     == WeightOf
      ahead == Ahead(w)
      must  == {q \in ahead : MustVisit(q)}
  IN  /\ ~over
      /\ \/ /\ at' \in ahead /\ over' = FALSE
            /\ \A r \in must : ~Before(w, r, at')
            /\ Shows(at', final', value')
         \/ /\ must = {}
            /\ over' = TRUE /\ at' = <<>> /\ final' = FALSE /\ value' = 0
      /\ pruned' = FALSE
      /\ UNCHANGED <<fsas, from, kind, lookup, min_weight>>

\* Near traversers of several dictionaries do not stay in step
\* (comparable_state_traverser.h:234): all that is left of the promise is
\* that they show a path, with the value of one dictionary that has it.
Stray ==
  /\ kind = "near" /\ Cardinality(DOMAIN fsas) > 1 /\ ~over
  /\ \/ /\ at' \in AllStates /\ over' = FALSE
        /\ \E seen \in SUBSET KeyIn(at') :
             /\ final' = (seen # {})
             /\ value' = IF seen = {} THEN 0 ELSE fsas[Max(seen)][from \o at']
     \/ over' = TRUE /\ at' = <<>> /\ final' = FALSE /\ value' = 0
  /\ pruned' = FALSE
  /\ UNCHANGED <<fsas, from, kind, lookup, min_weight>>

Skip ==
  /\ ~over /\ ~pruned /\ at # <<>>
  /\ pruned' = TRUE
  /\ UNCHANGED <<fsas, from, kind, lookup, at, over, final, value, min_weight>>

Raise ==
  /\ min_weight' > min_weight
  /\ UNCHANGED <<fsas, from, kind, lookup, at, over, final, value, pruned>>

WalkNext == Start \/ Step \/ Stray \/ Skip \/ Raise

WalkSpec == Begin /\ [][WalkNext]_walkVars

=============================================================================
