------------------------------ MODULE StateStore ------------------------------
(***************************************************************************)
(* What the generator expects of the place it persists its states in: a    *)
(* state, once persisted, keeps its transitions and its final value for    *)
(* ever, under the id that was returned for it; its weight may only rise;  *)
(* and an id is returned twice only for states that are equal.             *)
(***************************************************************************)
EXTENDS Naturals, FiniteSets

CONSTANTS Ids,                    \* the ids a state may get
          Requests(_),            \* the states that may be asked for
          MaxWeight               \* the highest weight that can be stored

VARIABLES store,                  \* the persisted states, by id
          asked,                  \* the last state asked for
          answer                  \* and the id returned for it

vars == <<store, asked, answer>>

Stored(u) == [u EXCEPT !.weight = IF @ < MaxWeight THEN @ ELSE MaxWeight]

\* equal but for the weight, which both have or both have not
SameState(s, u) ==
  /\ s.out = u.out
  /\ s.fin = u.fin
  /\ (s.weight > 0) = (u.weight > 0)

Init ==
  /\ store = [id \in {} |-> 0]
  /\ asked = {}
  /\ answer = 0

New(u, id) ==
  /\ id \notin DOMAIN store
  /\ store' = [i \in DOMAIN store \cup {id} |-> IF i = id THEN Stored(u) ELSE store[i]]

Reuse(u, id) ==
  /\ id \in DOMAIN store
  /\ SameState(store[id], u)
  /\ store' = [store EXCEPT ![id].weight =
                 IF @ < Stored(u).weight THEN Stored(u).weight ELSE @]

Persist(u) ==
  /\ asked' = u
  /\ \E id \in Ids : answer' = id /\ (New(u, id) \/ Reuse(u, id))

Next == \E u \in Requests(DOMAIN store) : Persist(u)

Spec == Init /\ [][Next]_vars

=============================================================================
