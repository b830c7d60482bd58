----------------------------- MODULE MCMatching -----------------------------
(* Small dictionaries and lookups for TLC.  Bytes 1 and 2 are letters, 3   *)
(* leads a character of two bytes that 4 or 5 end, 8 is the separator and  *)
(* 9 the space.                                                            *)
EXTENDS Matching

MCKeys == {<<1>>, <<1, 2>>, <<1, 3>>, <<2>>}

Search(type, query, prefix, greedy, max, top) ==
  [type |-> type, query |-> query, prefix |-> prefix, greedy |-> greedy, max |-> max, top |-> top]

\* with spaces at the begin, in a row and at the end
TextQueries ==
  {<<1, 9, 2, 9, 1>>, <<2, 1, 9, 9, 1>>, <<9, 1, 9, 2>>, <<9, 9, 2, 1>>, <<2, 9, 1, 9>>, <<9>>}

MCSearches ==
  {Search("all", <<>>, 0, FALSE, 0, 0), Search("prefix", <<1>>, 0, FALSE, 0, 0)}
  \cup {Search("prefix", <<1>>, 0, FALSE, 0, top) : top \in 1 .. 2}
  \cup {Search("multiword", <<1>>, 0, FALSE, 0, 1)}
  \cup {Search("multiword", q, 0, FALSE, 0, 0) : q \in {<<1>>, <<2, 9, 1, 9>>}}
  \cup {Search("near", q, prefix, greedy, 0, 0) :
          q \in {<<1, 2, 1>>}, prefix \in 0 .. 1, greedy \in BOOLEAN}
  \cup {Search("fuzzy", q, prefix, FALSE, max, 0) :
          q \in {<<1, 3, 4, 2>>}, prefix \in 0 .. 1, max \in 1 .. 2}
  \cup {Search("fuzzy", <<1, 2>>, 1, FALSE, 1, 0), Search("fuzzy", <<1, 2>>, 0, FALSE, 2, 0)}
  \cup {Search("fuzzy_multiword", q, prefix, FALSE, max, 0) :
          q \in {<<1, 2>>, <<2, 9, 1>>}, prefix \in 0 .. 1, max \in 0 .. 1}
  \cup {Search("text", q, 0, FALSE, 0, 0) : q \in TextQueries}

Subdictionaries(keys, n, values) ==
  UNION {[ks -> values] : ks \in UNION {kSubset(k, keys) : k \in 0 .. n}}

\* segments: the value is the number of the segment
Segments(keys, n, most) ==
  LET sets == UNION {kSubset(k, keys) : k \in 0 .. n}
  IN  {Numbered(held) : held \in UNION {[1 .. i -> sets] : i \in 1 .. most}}

MCSearchFsas(type) ==
  CASE type = "near" -> Segments({<<1>>, <<1, 1>>, <<1, 2>>, <<1, 2, 2>>, <<2, 1>>}, 2, 2)
    [] type = "fuzzy" -> Segments({<<1>>, <<2, 1>>, <<1, 3, 4>>, <<1, 3, 5, 2>>, <<1, 2, 2, 2>>}, 2, 2)
    [] type = "multiword" ->
         [1 .. 1 -> Subdictionaries({<<1>>, <<1, 8, 2>>, <<1, 9, 2>>, <<1, 8, 2, 9, 1>>,
                                     <<1, 9, 2, 9, 8, 1>>, <<1, 2>>}, 3, {1})]
         \cup [1 .. 2 -> Subdictionaries({<<1, 8, 2>>, <<1, 9, 2>>, <<1, 2, 8, 1>>}, 2, {1, 2})]
    [] type = "fuzzy_multiword" ->
         [1 .. 1 -> Subdictionaries({<<1>>, <<1, 1, 8, 2>>, <<2, 9, 1, 8, 3, 4>>, <<2, 9, 2, 1>>,
                                     <<1, 9, 8, 2>>, <<1, 3, 4, 1, 8, 2>>}, 3, {1})]
    [] type = "text" -> [1 .. 1 -> Subdictionaries({<<1>>, <<1, 9, 2>>, <<2>>, <<2, 1>>, <<2, 9, 1>>, <<9, 1>>}, 6, {1})]
    [] OTHER ->
         [1 .. 1 -> Subdictionaries({<<1>>, <<1, 1>>, <<1, 2>>, <<1, 2, 1>>}, 4, {1, 2})]
         \cup (IF type = "all" THEN {}
              ELSE [1 .. 2 -> Subdictionaries({<<1>>, <<1, 1>>, <<1, 2>>, <<1, 2, 1>>}, 2, {1, 2})])
=============================================================================
