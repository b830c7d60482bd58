---------------------- MODULE DictionaryCompilerProofs ----------------------
(***************************************************************************)
(* Proofs about the three compilers, for any keys, any number of calls,    *)
(* any limit of memory, and any number of secondary keys and values.       *)
(*                                                                         *)
(* The argument: sorted entries make a generator accept every key of them  *)
(* once, in order (GenerateAccepts), so a chunk has the keys of its calls  *)
(* (ChunkOf).  While the chunks are merged, the generator has all that the *)
(* iterators left behind and nothing of what is ahead of them (MergeInv);  *)
(* the top of the queue is the newest chunk with the smallest key, so what *)
(* it gives to the generator no later chunk has (Newest).  After a stable  *)
(* sort the last entry of a key is the one of its last call (IndexInv).    *)
(* No code of a secondary key is the beginning of another one, so the path *)
(* of codes in front of a key tells the call it belongs to (CodesTell).    *)
(*                                                                         *)
(* Loops are recursive functions.  What they compute is shown by induction *)
(* over the set of places where it is right (Induction), once a function   *)
(* that satisfies the recursion is known to exist (Recursion).             *)
(***************************************************************************)
EXTENDS DictionaryCompiler, FiniteSetTheorems, WellFoundedInduction, SequenceTheorems, TLAPS

-----------------------------------------------------------------------------
\* Induction and recursion, with sets where an operator would be the parameter

LEMMA LeastNumber ==
  ASSUME NEW S \in SUBSET Nat, S # {}
  PROVE  \E m \in S : \A n \in S : m <= n
  <1>1. PICK m \in S : \A n \in S : ~(<<n, m>> \in OpToRel(<, Nat))
    BY NatLessThanWellFounded, WFMin
  <1>2. \A n \in S : ~(n < m)
    BY <1>1 DEF OpToRel
  <1>3. QED
    BY <1>2

LEMMA Induction ==
  ASSUME NEW N \in Nat, NEW T, 0 \in T, \A n \in 1 .. N : n - 1 \in T => n \in T
  PROVE  \A n \in 0 .. N : n \in T
  <1> DEFINE B == {n \in 0 .. N : n \notin T}
  <1>1. SUFFICES ASSUME B # {} PROVE FALSE
    OBVIOUS
  <1>2. PICK m \in B : \A n \in B : m <= n
    <2>1. B \in SUBSET Nat
      OBVIOUS
    <2> HIDE DEF B
    <2>2. QED
      BY <1>1, <2>1, LeastNumber
  <1>3. m \in 1 .. N /\ m - 1 \in 0 .. N /\ ~(m <= m - 1)
    BY <1>2
  <1>4. m - 1 \in T
    BY <1>2, <1>3
  <1>5. QED
    BY <1>2, <1>3, <1>4

\* h is defined by recursion.
Recursive(h, N, base, step) ==
  h = [n \in 0 .. N |-> IF n = 0 THEN base ELSE step[n][h[n - 1]]]

\* Such a function exists: step[n] takes its value at n - 1, which is in
\* S[n - 1], to the one at n.
LEMMA Recursion ==
  ASSUME NEW N \in Nat, NEW S, NEW base \in S[0], NEW step,
         \A n \in 1 .. N : \A x \in S[n - 1] : step[n][x] \in S[n]
  PROVE  \E h : Recursive(h, N, base, step) /\ \A n \in 0 .. N : h[n] \in S[n]
  <1> DEFINE Is(h, m) == /\ h = [n \in 0 .. m |-> IF n = 0 THEN base ELSE step[n][h[n - 1]]]
                         /\ \A n \in 0 .. m : h[n] \in S[n]
             T == {m \in 0 .. N : \E h : Is(h, m)}
  <1>1. 0 \in T
    <2> DEFINE h == [n \in 0 .. 0 |-> base]
    <2>1. \A n \in 0 .. 0 : n = 0
      OBVIOUS
    <2>2. h = [n \in 0 .. 0 |-> IF n = 0 THEN base ELSE step[n][h[n - 1]]]
      BY <2>1
    <2>3. Is(h, 0)
      BY <2>1, <2>2
    <2> HIDE DEF h
    <2>4. QED
      BY <2>3
  <1>2. ASSUME NEW m \in 1 .. N, m - 1 \in T PROVE m \in T
    <2>1. PICK h : Is(h, m - 1)
      BY <1>2
    <2> DEFINE g == [n \in 0 .. m |-> IF n = m THEN step[m][h[m - 1]] ELSE h[n]]
    <2>2. \A n \in 0 .. m - 1 : n \in 0 .. m /\ n # m /\ g[n] = h[n]
      OBVIOUS
    <2>3. g[m] = step[m][g[m - 1]] /\ g[m] \in S[m]
      <3>1. m - 1 \in 0 .. m - 1 /\ m \in 0 .. m
        OBVIOUS
      <3>2. h[m - 1] \in S[m - 1]
        BY <2>1, <3>1
      <3>3. g[m] = step[m][h[m - 1]]
        BY <3>1
      <3>4. QED
        BY <2>2, <3>1, <3>2, <3>3
    <2>4. \A n \in 0 .. m : g[n] \in S[n]
      <3>1. \A n \in 0 .. m : n = m \/ n \in 0 .. m - 1
        OBVIOUS
      <3>2. \A n \in 0 .. m - 1 : h[n] \in S[n]
        BY <2>1
      <3> HIDE DEF g
      <3>3. QED
        BY <2>2, <2>3, <3>1, <3>2
    <2>5. ASSUME NEW n \in 0 .. m
          PROVE  g[n] = IF n = 0 THEN base ELSE step[n][g[n - 1]]
      <3>1. CASE n = m
        BY <2>3, <3>1
      <3>2. CASE n = 0
        BY <2>1, <2>2, <3>2
      <3>3. CASE n # m /\ n # 0
        <4>1. n \in 0 .. m - 1 /\ n - 1 \in 0 .. m - 1
          BY <3>3
        <4>2. h[n] = step[n][h[n - 1]]
          BY <2>1, <3>3, <4>1
        <4>3. QED
          BY <2>2, <3>3, <4>1, <4>2
      <3>4. QED
        BY <3>1, <3>2, <3>3
    <2>6. g = [n \in 0 .. m |-> IF n = 0 THEN base ELSE step[n][g[n - 1]]]
      <3>1. g = [n \in 0 .. m |-> g[n]]
        OBVIOUS
      <3> HIDE DEF g
      <3>2. QED
        BY <2>5, <3>1, Zenon
    <2>7. Is(g, m)
      BY <2>4, <2>6
    <2> HIDE DEF g
    <2>8. QED
      BY <2>7
  <1>3. N \in T
    <2> HIDE DEF T
    <2>1. QED
      BY <1>1, <1>2, Induction
  <1>4. QED
    BY <1>3 DEF Recursive

-----------------------------------------------------------------------------
\* The order of the keys

Text == Seq(Nat)

\* LessKey by places
LEMMA LessIs ==
  ASSUME NEW a \in Text, NEW b \in Text
  PROVE  LessKey(a, b) <=>
           \/ Len(a) < Len(b) /\ \A j \in 1 .. Len(a) : a[j] = b[j]
           \/ \E i \in 1 .. Len(a) : /\ i <= Len(b) /\ a[i] < b[i]
                                     /\ \A j \in 1 .. i - 1 : a[j] = b[j]
  <1>1. IsStrictPrefix(a, b) <=> Len(a) < Len(b) /\ \A j \in 1 .. Len(a) : a[j] = b[j]
    <2>1. Len(a) \in Nat /\ Len(b) \in Nat
      BY DEF Text
    <2>2. SubSeq(a, 1, Len(a)) = a
      BY DEF Text
    <2>3. ASSUME Len(a) <= Len(b)
          PROVE  SubSeq(b, 1, Len(a)) = [j \in 1 .. Len(a) |-> b[j]]
      BY <2>1, <2>3 DEF Text
    <2>4. a = [j \in 1 .. Len(a) |-> a[j]] /\ b = [j \in 1 .. Len(b) |-> b[j]]
      BY DEF Text
    <2>5. ASSUME IsStrictPrefix(a, b)
          PROVE  Len(a) < Len(b) /\ \A j \in 1 .. Len(a) : a[j] = b[j]
      <3>1. Len(a) <= Len(b) /\ a = [j \in 1 .. Len(a) |-> b[j]] /\ a # b
        BY <2>2, <2>3, <2>5 DEF IsStrictPrefix, IsPrefix
      <3>2. \A j \in 1 .. Len(a) : a[j] = b[j]
        BY <3>1
      <3>3. Len(a) # Len(b)
        BY <2>4, <3>1
      <3>4. QED
        BY <2>1, <3>1, <3>2, <3>3
    <2>6. ASSUME Len(a) < Len(b), \A j \in 1 .. Len(a) : a[j] = b[j]
          PROVE  IsStrictPrefix(a, b)
      <3>1. a = [j \in 1 .. Len(a) |-> b[j]]
        BY <2>4, <2>6
      <3>2. Len(a) <= Len(b) /\ a # b
        BY <2>1, <2>6
      <3>3. QED
        BY <2>2, <2>3, <3>1, <3>2 DEF IsStrictPrefix, IsPrefix
    <2>7. QED
      BY <2>5, <2>6
  <1>2. 1 .. Len(a) \cap 1 .. Len(b) = {i \in 1 .. Len(a) : i <= Len(b)}
    BY DEF Text
  <1>3. QED
    BY <1>1, <1>2 DEF LessKey

LEMMA LessTransitive ==
  ASSUME NEW a \in Text, NEW b \in Text, NEW c \in Text, LessKey(a, b), LessKey(b, c)
  PROVE  LessKey(a, c)
  <1>1. /\ Len(a) \in Nat /\ Len(b) \in Nat /\ Len(c) \in Nat
        /\ \A i \in 1 .. Len(a) : a[i] \in Nat
        /\ \A i \in 1 .. Len(b) : b[i] \in Nat
        /\ \A i \in 1 .. Len(c) : c[i] \in Nat
    BY DEF Text
  <1> DEFINE Before(x, y) == Len(x) < Len(y) /\ \A j \in 1 .. Len(x) : x[j] = y[j]
             Below(x, y, i) == /\ i \in 1 .. Len(x) /\ i <= Len(y) /\ x[i] < y[i]
                               /\ \A j \in 1 .. i - 1 : x[j] = y[j]
  <1>2. Before(a, b) \/ \E i \in 1 .. Len(a) : Below(a, b, i)
    BY LessIs
  <1>3. Before(b, c) \/ \E i \in 1 .. Len(b) : Below(b, c, i)
    BY LessIs
  <1>4. SUFFICES Before(a, c) \/ \E i \in 1 .. Len(a) : Below(a, c, i)
    BY LessIs
  <1>5. CASE Before(a, b) /\ Before(b, c)
    BY <1>1, <1>5
  <1>6. ASSUME Before(a, b), NEW i \in 1 .. Len(b), Below(b, c, i)
        PROVE  Before(a, c) \/ \E k \in 1 .. Len(a) : Below(a, c, k)
    <2>1. CASE i <= Len(a)
      <3>1. Below(a, c, i)
        BY <1>1, <1>6, <2>1
      <3>2. QED
        BY <3>1
    <2>2. CASE Len(a) < i
      <3>1. Before(a, c)
        BY <1>1, <1>6, <2>2
      <3>2. QED
        BY <3>1
    <2>3. QED
      BY <1>1, <2>1, <2>2
  <1>7. ASSUME NEW i \in 1 .. Len(a), Below(a, b, i), Before(b, c)
        PROVE  Below(a, c, i)
    BY <1>1, <1>7
  <1>8. ASSUME NEW i \in 1 .. Len(a), Below(a, b, i), NEW k \in 1 .. Len(b), Below(b, c, k)
        PROVE  \E n \in 1 .. Len(a) : Below(a, c, n)
    <2>1. CASE i <= k
      <3>1. Below(a, c, i)
        BY <1>1, <1>8, <2>1
      <3>2. QED
        BY <3>1
    <2>2. CASE k < i
      <3>1. Below(a, c, k)
        BY <1>1, <1>8, <2>2
      <3>2. QED
        BY <1>1, <3>1
    <2>3. QED
      BY <1>1, <2>1, <2>2
  <1> HIDE DEF Before, Below
  <1>9. QED
    BY <1>2, <1>3, <1>5, <1>6, <1>7, <1>8

LEMMA LessIrreflexive ==
  ASSUME NEW a \in Text
  PROVE  ~LessKey(a, a)
  <1>1. Len(a) \in Nat /\ \A i \in 1 .. Len(a) : a[i] \in Nat
    BY DEF Text
  <1>2. QED
    BY <1>1, LessIs

LEMMA LessTotal ==
  ASSUME NEW a \in Text, NEW b \in Text
  PROVE  LessKey(a, b) \/ a = b \/ LessKey(b, a)
  <1>1. /\ Len(a) \in Nat /\ Len(b) \in Nat
        /\ \A i \in 1 .. Len(a) : a[i] \in Nat
        /\ \A i \in 1 .. Len(b) : b[i] \in Nat
    BY DEF Text
  <1> DEFINE D == {i \in 1 .. Len(a) : i <= Len(b) /\ a[i] # b[i]}
  <1>2. CASE D = {}
    <2>1. \A i \in 1 .. Len(a) : i <= Len(b) => a[i] = b[i]
      BY <1>2
    <2>2. CASE Len(a) < Len(b)
      BY <1>1, <2>1, <2>2, LessIs
    <2>3. CASE Len(b) < Len(a)
      BY <1>1, <2>1, <2>3, LessIs
    <2>4. CASE Len(a) = Len(b)
      BY <1>1, <2>1, <2>4 DEF Text
    <2>5. QED
      BY <1>1, <2>2, <2>3, <2>4
  <1>3. CASE D # {}
    <2>1. PICK m \in D : \A n \in D : m <= n
      <3>1. D \in SUBSET Nat
        BY <1>1
      <3> HIDE DEF D
      <3>2. QED
        BY <1>3, <3>1, LeastNumber
    <2>2. \A j \in 1 .. m - 1 : a[j] = b[j]
      BY <1>1, <2>1
    <2>3. m \in 1 .. Len(a) /\ m \in 1 .. Len(b) /\ m <= Len(a) /\ m <= Len(b)
          /\ (a[m] < b[m] \/ b[m] < a[m])
      BY <1>1, <2>1
    <2>4. QED
      BY <2>2, <2>3, LessIs
  <1>4. QED
    BY <1>2, <1>3

\* Nothing comes before the empty key, and it comes before all others.
LEMMA LessEmpty ==
  ASSUME NEW a \in Text
  PROVE  ~LessKey(a, <<>>) /\ (a # <<>> => LessKey(<<>>, a))
  <1>1. <<>> \in Text /\ Len(<<>>) = 0 /\ Len(a) \in Nat /\ (a # <<>> => Len(a) > 0)
    BY DEF Text
  <1>2. ~LessKey(a, <<>>)
    BY <1>1, LessIs
  <1>3. a # <<>> => LessKey(<<>>, a)
    BY <1>1, LessIs
  <1>4. QED
    BY <1>2, <1>3

-----------------------------------------------------------------------------
\* Sorting and generating

EntryT == [key : Text, value : Nat, deleted : BOOLEAN]

LEMMA KeyIsText == \A e \in EntryT : e.key \in Text /\ e.value \in Nat
  BY DEF EntryT

InOrder(s) == \A i, j \in DOMAIN s : i < j => ~LessKey(s[j].key, s[i].key)

\* What a generator may be fed with: ascending keys, none of them empty
Strict(s) == /\ \A i \in DOMAIN s : s[i].key # <<>>
             /\ \A i, j \in DOMAIN s : i < j => LessKey(s[i].key, s[j].key)

\* s is t in another order.
Reordered(s, t) == /\ DOMAIN s = DOMAIN t
                   /\ \A i \in DOMAIN s : \E j \in DOMAIN t : s[i] = t[j]
                   /\ \A j \in DOMAIN t : \E i \in DOMAIN s : s[i] = t[j]

LEMMA NeighboursInOrder ==
  ASSUME NEW s \in Seq(EntryT), \A i \in 1 .. Len(s) - 1 : ~LessKey(s[i + 1].key, s[i].key)
  PROVE  InOrder(s)
  <1>1. /\ Len(s) \in Nat /\ DOMAIN s = 1 .. Len(s)
        /\ \A i \in 1 .. Len(s) : s[i] \in EntryT /\ s[i].key \in Text
    BY KeyIsText
  <1>2. SUFFICES ASSUME NEW i \in DOMAIN s, NEW j \in DOMAIN s, i < j
                 PROVE  ~LessKey(s[j].key, s[i].key)
    BY DEF InOrder
  <1> DEFINE T == {n \in Nat : i + n <= Len(s) => ~LessKey(s[i + n].key, s[i].key)}
  <1>3. 0 \in T
    BY <1>1, LessIrreflexive
  <1>4. ASSUME NEW n \in 1 .. Len(s), n - 1 \in T PROVE n \in T
    <2>1. SUFFICES ASSUME i + n <= Len(s) PROVE ~LessKey(s[i + n].key, s[i].key)
      BY <1>1
    <2> DEFINE m == i + (n - 1)
    <2>2. m \in 1 .. Len(s) - 1 /\ m + 1 = i + n /\ m \in 1 .. Len(s) /\ m + 1 \in 1 .. Len(s)
      BY <1>1, <2>1
    <2>3. ~LessKey(s[m].key, s[i].key) /\ ~LessKey(s[m + 1].key, s[m].key)
      BY <1>1, <1>4, <2>2
    <2> HIDE DEF m
    <2>4. ~LessKey(s[m + 1].key, s[i].key)
      BY <1>1, <2>2, <2>3, LessTotal, LessTransitive
    <2>5. QED
      BY <2>2, <2>4
  <1>5. \A n \in 0 .. Len(s) : n \in T
    <2> HIDE DEF T
    <2>1. QED
      BY <1>1, <1>3, <1>4, Induction
  <1>6. j - i \in 0 .. Len(s) /\ i + (j - i) = j /\ j <= Len(s)
    BY <1>1, <1>2
  <1>7. QED
    BY <1>5, <1>6

LEMMA SortsOrder ==
  ASSUME NEW t \in Seq(EntryT), NEW s \in Sorts(t)
  PROVE  s \in Seq(EntryT) /\ Reordered(s, t) /\ InOrder(s)
  <1>1. Len(t) \in Nat /\ DOMAIN t = 1 .. Len(t) /\ \A i \in 1 .. Len(t) : t[i] \in EntryT
    OBVIOUS
  <1>2. PICK p \in Surjection(DOMAIN t, DOMAIN t) :
          /\ \A i \in 1 .. Len(t) - 1 : ~LessKey(t[p[i + 1]].key, t[p[i]].key)
          /\ s = [i \in DOMAIN t |-> t[p[i]]]
    BY DEF Sorts
  <1>3. p \in [DOMAIN t -> DOMAIN t] /\ \A w \in DOMAIN t : \E v \in DOMAIN t : p[v] = w
    BY DEF Surjection
  <1>4. \A i \in 1 .. Len(t) : s[i] = t[p[i]] /\ p[i] \in 1 .. Len(t)
    BY <1>1, <1>2, <1>3
  <1>5. s \in Seq(EntryT) /\ Len(s) = Len(t) /\ DOMAIN s = DOMAIN t
    BY <1>1, <1>2, <1>4
  <1>6. Reordered(s, t)
    BY <1>1, <1>3, <1>4, <1>5 DEF Reordered
  <1>7. \A i \in 1 .. Len(s) - 1 : ~LessKey(s[i + 1].key, s[i].key)
    BY <1>1, <1>2, <1>4, <1>5
  <1>8. QED
    BY <1>5, <1>6, <1>7, NeighboursInOrder

\* The order of a stable sort, when values ascend in the sequence that is sorted
Stable(s) ==
  \A i, j \in DOMAIN s : i < j =>
    LessKey(s[i].key, s[j].key) \/ (s[i].key = s[j].key /\ s[i].value < s[j].value)

LEMMA NeighboursStable ==
  ASSUME NEW s \in Seq(EntryT),
         \A i \in 1 .. Len(s) - 1 : \/ LessKey(s[i].key, s[i + 1].key)
                                    \/ s[i].key = s[i + 1].key /\ s[i].value < s[i + 1].value
  PROVE  Stable(s) /\ InOrder(s)
  <1>1. /\ Len(s) \in Nat /\ DOMAIN s = 1 .. Len(s)
        /\ \A i \in 1 .. Len(s) : s[i] \in EntryT /\ s[i].key \in Text /\ s[i].value \in Nat
    BY KeyIsText
  <1> DEFINE R(i, j) == LessKey(s[i].key, s[j].key) \/ (s[i].key = s[j].key /\ s[i].value < s[j].value)
  <1>2. ASSUME NEW i \in DOMAIN s, NEW j \in DOMAIN s, i < j
        PROVE  R(i, j)
    <2> DEFINE T == {n \in Nat : n = 0 \/ (i + n <= Len(s) => R(i, i + n))}
    <2>1. 0 \in T
      OBVIOUS
    <2>2. ASSUME NEW n \in 1 .. Len(s), n - 1 \in T PROVE n \in T
      <3>1. SUFFICES ASSUME i + n <= Len(s) PROVE R(i, i + n)
        BY <1>1
      <3> DEFINE m == i + (n - 1)
      <3>2. m \in 1 .. Len(s) - 1 /\ m + 1 = i + n /\ m \in 1 .. Len(s) /\ m + 1 \in 1 .. Len(s)
        BY <1>1, <3>1
      <3>3. R(m, m + 1)
        BY <3>2
      <3>4. CASE n = 1
        BY <1>1, <3>2, <3>3, <3>4
      <3>5. CASE n # 1
        <4>1. R(i, m)
          BY <1>1, <2>2, <3>2, <3>5
        <4> HIDE DEF m
        <4>2. R(i, m + 1)
          <5>1. i \in 1 .. Len(s)
            BY <1>1
          <5>2. s[i].key \in Text /\ s[m].key \in Text /\ s[m + 1].key \in Text
                /\ s[i].value \in Nat /\ s[m].value \in Nat /\ s[m + 1].value \in Nat
            BY <1>1, <3>2, <5>1
          <5>3. QED
            BY <3>3, <4>1, <5>2, LessTransitive
        <4>3. QED
          BY <3>2, <4>2
      <3>6. QED
        BY <3>4, <3>5
    <2>3. \A n \in 0 .. Len(s) : n \in T
      <3> HIDE DEF T
      <3>1. QED
        BY <1>1, <2>1, <2>2, Induction
    <2>4. j - i \in 0 .. Len(s) /\ i + (j - i) = j /\ j <= Len(s) /\ j - i # 0
      BY <1>1, <1>2
    <2>5. QED
      BY <2>3, <2>4
  <1>3. Stable(s)
    BY <1>2 DEF Stable
  <1>4. InOrder(s)
    <2>1. ASSUME NEW i \in DOMAIN s, NEW j \in DOMAIN s, i < j, LessKey(s[j].key, s[i].key)
          PROVE  FALSE
      BY <1>1, <1>2, <2>1, LessTransitive, LessIrreflexive
    <2>2. QED
      BY <2>1 DEF InOrder
  <1>5. QED
    BY <1>3, <1>4

LEMMA StableOrder ==
  ASSUME NEW t \in Seq(EntryT), \A j \in DOMAIN t : t[j].value = j, NEW s \in StableSorts(t)
  PROVE  s \in Seq(EntryT) /\ Reordered(s, t) /\ InOrder(s) /\ Stable(s)
  <1>1. Len(t) \in Nat /\ DOMAIN t = 1 .. Len(t) /\ \A i \in 1 .. Len(t) : t[i] \in EntryT
    OBVIOUS
  <1>2. PICK p \in Surjection(DOMAIN t, DOMAIN t) :
          /\ \A i \in 1 .. Len(t) - 1 :
               \/ LessKey(t[p[i]].key, t[p[i + 1]].key)
               \/ t[p[i]].key = t[p[i + 1]].key /\ p[i] < p[i + 1]
          /\ s = [i \in DOMAIN t |-> t[p[i]]]
    BY DEF StableSorts
  <1>3. p \in [DOMAIN t -> DOMAIN t] /\ \A w \in DOMAIN t : \E v \in DOMAIN t : p[v] = w
    BY DEF Surjection
  <1>4. \A i \in 1 .. Len(t) : s[i] = t[p[i]] /\ p[i] \in 1 .. Len(t) /\ s[i].value = p[i]
    BY <1>1, <1>2, <1>3
  <1>5. s \in Seq(EntryT) /\ Len(s) = Len(t) /\ DOMAIN s = DOMAIN t
    BY <1>1, <1>2, <1>4
  <1>6. Reordered(s, t)
    BY <1>1, <1>3, <1>4, <1>5 DEF Reordered
  <1>7. \A i \in 1 .. Len(s) - 1 : \/ LessKey(s[i].key, s[i + 1].key)
                                   \/ s[i].key = s[i + 1].key /\ s[i].value < s[i + 1].value
    <2>1. \A i \in 1 .. Len(s) - 1 : i \in 1 .. Len(t) - 1 /\ i \in 1 .. Len(t) /\ i + 1 \in 1 .. Len(t)
      BY <1>1, <1>5
    <2>2. SUFFICES ASSUME NEW i \in 1 .. Len(s) - 1
                   PROVE  \/ LessKey(s[i].key, s[i + 1].key)
                          \/ s[i].key = s[i + 1].key /\ s[i].value < s[i + 1].value
      OBVIOUS
    <2>3. /\ s[i] = t[p[i]] /\ s[i].value = p[i]
          /\ s[i + 1] = t[p[i + 1]] /\ s[i + 1].value = p[i + 1]
      BY <1>4, <2>1
    <2>4. QED
      BY <1>2, <2>1, <2>3
  <1>8. QED
    BY <1>5, <1>6, <1>7, NeighboursStable

\* What a generator accepted of the entries that were added, in order
Accepts(acc, entries, places) ==
  /\ acc \in Seq(EntryT) /\ Strict(acc)
  /\ \A i \in DOMAIN acc : \E n \in places : acc[i] = entries[n]
  /\ \A n \in places : entries[n].key # <<>> => \E i \in DOMAIN acc : acc[i].key = entries[n].key

LEMMA AcceptsOne ==
  ASSUME NEW entries \in Seq(EntryT), InOrder(entries), NEW n \in DOMAIN entries,
         NEW P \in SUBSET (1 .. n - 1), NEW acc, Accepts(acc, entries, P)
  PROVE  Accepts(Accept(acc, entries[n]), entries, P \cup {n})
  <1> DEFINE e == entries[n]
             r == Append(acc, e)
  <1>1. /\ Len(entries) \in Nat /\ DOMAIN entries = 1 .. Len(entries)
        /\ \A i \in 1 .. Len(entries) : entries[i] \in EntryT /\ entries[i].key \in Text
        /\ n \in Nat /\ e \in EntryT /\ e.key \in Text /\ P \subseteq DOMAIN entries
    BY KeyIsText
  <1>2. /\ acc \in Seq(EntryT) /\ Len(acc) \in Nat /\ DOMAIN acc = 1 .. Len(acc)
        /\ \A i \in 1 .. Len(acc) : acc[i] \in EntryT /\ acc[i].key \in Text
    BY KeyIsText DEF Accepts
  <1>3. \A i \in DOMAIN acc : ~LessKey(e.key, acc[i].key)
    <2>1. SUFFICES ASSUME NEW i \in DOMAIN acc PROVE ~LessKey(e.key, acc[i].key)
      OBVIOUS
    <2>2. PICK m \in P : acc[i] = entries[m]
      BY DEF Accepts
    <2>3. m \in DOMAIN entries /\ m < n
      BY <1>1
    <2>4. QED
      BY <2>2, <2>3 DEF InOrder
  <1>4. CASE e.key = IF acc = <<>> THEN <<>> ELSE Last(acc).key
    <2>1. Accept(acc, e) = acc
      BY <1>4 DEF Accept
    <2>2. e.key # <<>> => \E i \in DOMAIN acc : acc[i].key = e.key
      <3>1. SUFFICES ASSUME e.key # <<>> PROVE \E i \in DOMAIN acc : acc[i].key = e.key
        OBVIOUS
      <3>2. acc # <<>> /\ e.key = acc[Len(acc)].key
        BY <1>4, <3>1 DEF Last
      <3>3. Len(acc) \in DOMAIN acc
        BY <1>2, <3>2
      <3>4. QED
        BY <3>2, <3>3
    <2>3. Accepts(acc, entries, P \cup {n})
      <3>1. \A m \in P \cup {n} : entries[m].key # <<>> =>
              \E i \in DOMAIN acc : acc[i].key = entries[m].key
        BY <2>2 DEF Accepts
      <3>2. QED
        BY <3>1 DEF Accepts
    <2>4. QED
      BY <2>1, <2>3
  <1>5. CASE e.key # IF acc = <<>> THEN <<>> ELSE Last(acc).key
    <2>1. Accept(acc, e) = r
      BY <1>5 DEF Accept
    <2>2. /\ r \in Seq(EntryT) /\ Len(r) = Len(acc) + 1 /\ DOMAIN r = 1 .. Len(acc) + 1
          /\ r[Len(acc) + 1] = e /\ \A i \in 1 .. Len(acc) : r[i] = acc[i]
      BY <1>1, <1>2
    <2>3. \A i \in DOMAIN acc : LessKey(acc[i].key, e.key)
      <3>1. SUFFICES ASSUME NEW i \in DOMAIN acc PROVE LessKey(acc[i].key, e.key)
        OBVIOUS
      <3> DEFINE l == Len(acc)
      <3>2. acc # <<>> /\ Last(acc) = acc[l] /\ l \in DOMAIN acc /\ i <= l
        BY <1>2 DEF Last
      <3>3. e.key # acc[l].key /\ acc[l].key \in Text /\ acc[i].key \in Text
        BY <1>2, <1>5, <3>2
      <3>4. LessKey(acc[l].key, e.key)
        BY <1>1, <1>3, <3>2, <3>3, LessTotal
      <3>5. i = l \/ LessKey(acc[i].key, acc[l].key)
        BY <1>2, <3>2 DEF Accepts, Strict
      <3>6. QED
        BY <1>1, <3>3, <3>4, <3>5, LessTransitive
    <2>4. e.key # <<>>
      <3>1. CASE acc = <<>>
        BY <1>5, <3>1
      <3>2. CASE acc # <<>>
        <4>1. Len(acc) \in DOMAIN acc
          BY <1>2, <3>2
        <4>2. QED
          BY <1>2, <2>3, <4>1, LessEmpty
      <3>3. QED
        BY <3>1, <3>2
    <2> HIDE DEF r, e
    <2>5. Strict(r)
      <3>1. \A i \in DOMAIN r : r[i].key # <<>>
        BY <1>2, <2>2, <2>4 DEF Accepts, Strict
      <3>2. ASSUME NEW i \in DOMAIN r, NEW j \in DOMAIN r, i < j
            PROVE  LessKey(r[i].key, r[j].key)
        <4>1. i \in 1 .. Len(acc) /\ r[i] = acc[i]
          BY <1>2, <2>2, <3>2
        <4>2. CASE j = Len(acc) + 1
          BY <1>2, <2>2, <2>3, <4>1, <4>2
        <4>3. CASE j \in 1 .. Len(acc)
          BY <1>2, <2>2, <3>2, <4>1, <4>3 DEF Accepts, Strict
        <4>4. QED
          BY <1>2, <2>2, <4>2, <4>3
      <3>3. QED
        BY <3>1, <3>2 DEF Strict
    <2>6. \A i \in DOMAIN r : \E m \in P \cup {n} : r[i] = entries[m]
      BY <1>2, <2>2 DEF Accepts, e
    <2>7. \A m \in P \cup {n} : entries[m].key # <<>> => \E i \in DOMAIN r : r[i].key = entries[m].key
      <3>1. SUFFICES ASSUME NEW m \in P, entries[m].key # <<>>
                     PROVE  \E i \in DOMAIN r : r[i].key = entries[m].key
        BY <1>2, <2>2 DEF e
      <3>2. PICK i \in DOMAIN acc : acc[i].key = entries[m].key
        BY <3>1 DEF Accepts
      <3>3. QED
        BY <1>2, <2>2, <3>2
    <2>8. QED
      BY <2>1, <2>2, <2>5, <2>6, <2>7 DEF Accepts, e
  <1>6. QED
    BY <1>4, <1>5

LEMMA GenerateAccepts ==
  ASSUME NEW entries \in Seq(EntryT), InOrder(entries), NEW places \in SUBSET DOMAIN entries
  PROVE  Accepts(Generate(entries, places), entries, places)
  <1> DEFINE L == Len(entries)
             Up(n) == {m \in places : m <= n}
             S == [n \in 0 .. L |-> {acc \in Seq(EntryT) : Accepts(acc, entries, Up(n))}]
             step == [n \in 1 .. L |-> [acc \in S[n - 1] |->
                        IF n \in places THEN Accept(acc, entries[n]) ELSE acc]]
             accepted[n \in 0 .. L] ==
               IF n = 0 THEN <<>>
               ELSE IF n \in places THEN Accept(accepted[n - 1], entries[n])
               ELSE accepted[n - 1]
  <1>1. L \in Nat /\ DOMAIN entries = 1 .. L
    OBVIOUS
  <1>2. Generate(entries, places) = accepted[L]
    BY DEF Generate
  <1>3. <<>> \in S[0]
    <2>1. Up(0) = {} /\ 0 \in 0 .. L
      BY <1>1
    <2>2. <<>> \in Seq(EntryT) /\ Accepts(<<>>, entries, {})
      BY DEF Accepts, Strict
    <2>3. S[0] = {acc \in Seq(EntryT) : Accepts(acc, entries, Up(0))}
      BY <2>1
    <2> HIDE DEF S
    <2>4. QED
      BY <2>1, <2>2, <2>3
  <1>4. ASSUME NEW n \in 1 .. L, NEW acc \in S[n - 1]
        PROVE  (IF n \in places THEN Accept(acc, entries[n]) ELSE acc) \in S[n]
    <2>1. n - 1 \in 0 .. L /\ n \in 0 .. L /\ n \in DOMAIN entries /\ n \in Nat
      BY <1>1
    <2>2. Accepts(acc, entries, Up(n - 1))
      BY <1>4, <2>1
    <2>3. CASE n \in places
      <3>1. Up(n) = Up(n - 1) \cup {n} /\ Up(n - 1) \in SUBSET (1 .. n - 1)
        BY <1>1, <2>1, <2>3
      <3>2. Accepts(Accept(acc, entries[n]), entries, Up(n))
        BY <2>1, <2>2, <3>1, AcceptsOne
      <3>3. QED
        BY <2>1, <2>3, <3>2 DEF Accepts
    <2>4. CASE n \notin places
      <3>1. Up(n) = Up(n - 1)
        BY <1>1, <2>1, <2>4
      <3>2. QED
        BY <2>1, <2>2, <2>4, <3>1 DEF Accepts
    <2>5. QED
      BY <2>3, <2>4
  <1> HIDE DEF S
  <1>5. \A n \in 1 .. L : \A acc \in S[n - 1] :
          step[n][acc] = IF n \in places THEN Accept(acc, entries[n]) ELSE acc
    OBVIOUS
  <1> HIDE DEF step
  <1>6. PICK h : Recursive(h, L, <<>>, step) /\ \A n \in 0 .. L : h[n] \in S[n]
    <2>1. \A n \in 1 .. L : \A x \in S[n - 1] : step[n][x] \in S[n]
      BY <1>4, <1>5
    <2> HIDE DEF L
    <2>2. QED
      BY <1>1, <1>3, <2>1, Recursion
  <1>7. h = [n \in 0 .. L |-> IF n = 0 THEN <<>>
                              ELSE IF n \in places THEN Accept(h[n - 1], entries[n]) ELSE h[n - 1]]
    <2>1. \A n \in 0 .. L : n # 0 => n \in 1 .. L /\ n - 1 \in 0 .. L
      BY <1>1
    <2>2. \A n \in 0 .. L : n # 0 =>
            step[n][h[n - 1]] = IF n \in places THEN Accept(h[n - 1], entries[n]) ELSE h[n - 1]
      BY <1>5, <1>6, <2>1
    <2>3. QED
      BY <1>6, <2>2, Zenon DEF Recursive
  <1>8. accepted = [n \in 0 .. L |-> IF n = 0 THEN <<>>
                      ELSE IF n \in places THEN Accept(accepted[n - 1], entries[n])
                      ELSE accepted[n - 1]]
    BY <1>7, Zenon
  <1> HIDE DEF accepted
  <1> DEFINE T == {n \in 0 .. L : accepted[n] \in S[n]}
  <1>9. 0 \in T
    BY <1>1, <1>3, <1>8
  <1>10. ASSUME NEW n \in 1 .. L, n - 1 \in T PROVE n \in T
    <2>1. n \in 0 .. L /\ n # 0 /\ accepted[n - 1] \in S[n - 1]
      BY <1>1, <1>10
    <2>2. accepted[n] = IF n \in places THEN Accept(accepted[n - 1], entries[n])
                        ELSE accepted[n - 1]
      BY <1>8, <2>1
    <2>3. QED
      BY <1>4, <2>1, <2>2
  <1>11. L \in T
    <2>1. L \in 0 .. L
      BY <1>1
    <2> HIDE DEF T, L
    <2>2. QED
      BY <1>1, <1>9, <1>10, <2>1, Induction
  <1>12. Up(L) = places
    BY <1>1
  <1>13. QED
    BY <1>1, <1>2, <1>11, <1>12 DEF S

-----------------------------------------------------------------------------
\* The codes of secondary keys

\* The last byte is the only one that is not marked.
CodeWord(c) == /\ c \in Text /\ Len(c) >= 1 /\ c[Len(c)] < VINT_BASE
               /\ \A i \in 1 .. Len(c) - 1 : c[i] >= VINT_BASE

LEMMA SameText ==
  ASSUME NEW a \in Text, NEW b \in Text, Len(a) = Len(b), \A i \in 1 .. Len(a) : a[i] = b[i]
  PROVE  a = b
  BY DEF Text

LEMMA Joined == \A a, b \in Text : a \o b \in Text
  BY DEF Text

LEMMA Associate == \A a, b, c \in Text : (a \o b) \o c = a \o (b \o c)
  <1>1. SUFFICES ASSUME NEW a \in Text, NEW b \in Text, NEW c \in Text
                 PROVE  (a \o b) \o c = a \o (b \o c)
    OBVIOUS
  <1>2. QED
    BY DEF Text

LEMMA Cancel ==
  ASSUME NEW a \in Text, NEW b \in Text, NEW c \in Text, a \o b = a \o c
  PROVE  b = c
  <1>1. Len(a) \in Nat /\ Len(b) \in Nat /\ Len(c) \in Nat
    BY DEF Text
  <1>2. Len(a \o b) = Len(a) + Len(b) /\ Len(a \o c) = Len(a) + Len(c)
    BY DEF Text
  <1>3. Len(b) = Len(c)
    BY <1>1, <1>2
  <1>4. ASSUME NEW i \in 1 .. Len(b) PROVE b[i] = c[i]
    <2>1. (a \o b)[Len(a) + i] = b[i] /\ (a \o c)[Len(a) + i] = c[i]
      BY <1>1, <1>3 DEF Text
    <2>2. QED
      BY <2>1
  <1>5. QED
    BY <1>1, <1>3, <1>4 DEF Text

LEMMA MarkedWord ==
  ASSUME NEW a \in Nat, a >= VINT_BASE, NEW w, CodeWord(w)
  PROVE  CodeWord(<<a>> \o w)
  <1> DEFINE c == <<a>> \o w
  <1>1. w \in Text /\ Len(w) \in Nat /\ Len(w) >= 1
    BY DEF CodeWord, Text
  <1>2. /\ c \in Text /\ Len(c) = Len(w) + 1 /\ c[1] = a
        /\ \A i \in 2 .. Len(w) + 1 : c[i] = w[i - 1]
    BY <1>1 DEF Text
  <1> HIDE DEF c
  <1>3. c[Len(c)] = w[Len(w)]
    BY <1>1, <1>2
  <1>4. \A i \in 1 .. Len(c) - 1 : i = 1 \/ (i \in 2 .. Len(w) + 1 /\ i - 1 \in 1 .. Len(w) - 1)
    BY <1>1, <1>2
  <1>5. \A i \in 1 .. Len(c) - 1 : c[i] >= VINT_BASE
    BY <1>2, <1>4 DEF CodeWord
  <1>6. CodeWord(c)
    BY <1>1, <1>2, <1>3, <1>5 DEF CodeWord
  <1>7. QED
    BY <1>6 DEF c

LEMMA Division ==
  ASSUME NEW n \in Nat
  PROVE  /\ n % VINT_BASE \in Nat /\ n \div VINT_BASE \in Nat
         /\ n = (n \div VINT_BASE) * VINT_BASE + (n % VINT_BASE)
  <1>1. VINT_BASE \in Nat /\ VINT_BASE > 0
    BY CompilerAssumption
  <1>2. n % VINT_BASE \in Nat
    BY <1>1
  <1>3. n \div VINT_BASE \in Nat
    BY <1>1
  <1>4. n = (n \div VINT_BASE) * VINT_BASE + (n % VINT_BASE)
    BY <1>1, Z3
  <1>5. QED
    BY <1>2, <1>3, <1>4

\* The digits behind the first one are those of a smaller number.
LEMMA Smaller ==
  ASSUME NEW n \in Nat, n >= VINT_BASE
  PROVE  n \div VINT_BASE \in Nat /\ n \div VINT_BASE < n
  <1> DEFINE q == n \div VINT_BASE
             r == n % VINT_BASE
  <1>1. q \in Nat /\ r \in Nat /\ n = q * VINT_BASE + r
    BY Division
  <1>2. VINT_BASE \in Nat /\ VINT_BASE > 2
    BY CompilerAssumption
  <1> HIDE DEF q, r
  <1>3. q < n
    BY <1>1, <1>2, Z3
  <1>4. QED
    BY <1>1, <1>3 DEF q

\* The recursion of encodeVarInt has a solution.
LEMMA EncodeIs ==
  /\ \A n \in Nat : n < VINT_BASE => encodeVarInt[n] = <<n>>
  /\ \A n \in Nat : ~(n < VINT_BASE) =>
       encodeVarInt[n] = <<(n % VINT_BASE) + VINT_BASE>> \o encodeVarInt[n \div VINT_BASE]
  <1> DEFINE B == VINT_BASE
             At(h, n) == IF n < B THEN <<n>> ELSE <<(n % B) + B>> \o h[n \div B]
             Is(h, N) == \A n \in 0 .. N : h[n] = At(h, n)
             F == [n \in Nat |-> (CHOOSE h : Is(h, n))[n]]
  <1>1. B \in Nat /\ B > 2
    BY CompilerAssumption
  <1>2. \A n \in Nat : ~(n < B) => n \div B \in Nat /\ n \div B < n
    BY <1>1, Smaller
  <1>3. ASSUME NEW N \in Nat PROVE \E h : Is(h, N)
    <2> DEFINE T == {m \in 0 .. N : \E h : Is(h, m)}
    <2>1. 0 \in T
      <3> DEFINE h == [n \in 0 .. 0 |-> << 0 >>]
      <3>1. \A n \in 0 .. 0 : n = 0
        OBVIOUS
      <3>2. Is(h, 0)
        BY <1>1, <3>1
      <3> HIDE DEF Is
      <3>3. QED
        BY <3>2
    <2>2. ASSUME NEW m \in 1 .. N, m - 1 \in T PROVE m \in T
      <3>1. PICK h : Is(h, m - 1)
        BY <2>2
      <3> DEFINE g == [n \in 0 .. m |-> IF n = m THEN At(h, m) ELSE h[n]]
      <3>2. ASSUME NEW n \in 0 .. m PROVE At(g, n) = At(h, n)
        <4>1. CASE n < B
          BY <4>1
        <4>2. CASE ~(n < B)
          <5>1. n \div B \in 0 .. m /\ n \div B # m
            BY <1>2, <4>2
          <5>2. g[n \div B] = h[n \div B]
            BY <5>1
          <5> HIDE DEF g
          <5>3. QED
            BY <4>2, <5>2
        <4>3. QED
          BY <4>1, <4>2
      <3>3. ASSUME NEW n \in 0 .. m PROVE g[n] = At(h, n)
        <4>1. CASE n = m
          BY <4>1
        <4>2. CASE n # m
          <5>1. n \in 0 .. m - 1
            BY <4>2
          <5>2. h[n] = At(h, n)
            BY <3>1, <5>1
          <5>3. g[n] = h[n]
            BY <4>2
          <5> HIDE DEF At
          <5>4. QED
            BY <5>2, <5>3
        <4>3. QED
          BY <4>1, <4>2
      <3> HIDE DEF At, g
      <3>4. Is(g, m)
        BY <3>2, <3>3
      <3>5. m \in 0 .. N
        OBVIOUS
      <3> HIDE DEF Is
      <3>6. QED
        BY <3>4, <3>5
    <2>3. N \in T
      <3> HIDE DEF T
      <3>1. QED
        BY <2>1, <2>2, Induction
    <2> HIDE DEF Is
    <2>4. QED
      BY <2>3
  <1>4. ASSUME NEW N \in Nat, NEW M \in Nat, NEW h, Is(h, N), NEW g, Is(g, M)
        PROVE  \A n \in Nat : n <= N /\ n <= M => h[n] = g[n]
    <2> DEFINE D == {n \in Nat : n <= N /\ n <= M /\ h[n] # g[n]}
    <2>1. SUFFICES ASSUME D # {} PROVE FALSE
      OBVIOUS
    <2>2. PICK m \in D : \A n \in D : m <= n
      <3>1. D \in SUBSET Nat
        OBVIOUS
      <3> HIDE DEF D
      <3>2. QED
        BY <2>1, <3>1, LeastNumber
    <2>3. m \in Nat /\ m \in 0 .. N /\ m \in 0 .. M /\ h[m] # g[m]
      BY <2>2
    <2>4. h[m] = At(h, m) /\ g[m] = At(g, m)
      BY <1>4, <2>3
    <2>5. ~(m < B)
      BY <2>3, <2>4
    <2>6. m \div B \in Nat /\ m \div B < m
      BY <1>2, <2>3, <2>5
    <2>7. h[m \div B] = g[m \div B]
      BY <2>2, <2>3, <2>6
    <2>8. QED
      BY <2>3, <2>4, <2>5, <2>7
  <1>5. \A n \in Nat : Is(CHOOSE h : Is(h, n), n)
    <2> HIDE DEF Is
    <2>1. QED
      BY <1>3
  <1>6. ASSUME NEW n \in Nat PROVE F[n] = At(F, n)
    <2> DEFINE h == CHOOSE x : Is(x, n)
    <2>1. Is(h, n) /\ F[n] = h[n]
      BY <1>5
    <2>2. F[n] = At(h, n)
      <3>1. n \in 0 .. n
        OBVIOUS
      <3> HIDE DEF h, F, At
      <3>2. QED
        BY <2>1, <3>1
    <2>3. CASE n < B
      BY <2>2, <2>3
    <2>4. CASE ~(n < B)
      <3> DEFINE m == n \div B
                 g == CHOOSE x : Is(x, m)
      <3>1. m \in Nat /\ m < n
        BY <1>2, <2>4
      <3>2. Is(g, m) /\ F[m] = g[m]
        BY <1>5, <3>1
      <3>3. h[m] = g[m]
        <4> HIDE DEF h, g, m, Is
        <4>1. m <= n /\ m <= m
          BY <3>1
        <4>2. QED
          BY <1>4, <2>1, <3>1, <3>2, <4>1
      <3> HIDE DEF h, g, F
      <3>4. QED
        BY <2>2, <2>4, <3>2, <3>3
    <2>5. QED
      BY <2>3, <2>4
  <1>7. F = [n \in Nat |-> IF n < VINT_BASE THEN <<n>>
                           ELSE <<(n % VINT_BASE) + VINT_BASE>> \o F[n \div VINT_BASE]]
    <2>1. F = [n \in Nat |-> F[n]]
      OBVIOUS
    <2> HIDE DEF F
    <2>2. QED
      BY <1>6, <2>1, Zenon
  <1> HIDE DEF F
  <1>8. encodeVarInt = [n \in Nat |-> IF n < VINT_BASE THEN <<n>>
                           ELSE <<(n % VINT_BASE) + VINT_BASE>> \o encodeVarInt[n \div VINT_BASE]]
    BY <1>7, Zenon DEF encodeVarInt
  <1>9. QED
    BY <1>8

LEMMA EncodeWord ==
  ASSUME NEW n \in Nat
  PROVE  CodeWord(encodeVarInt[n])
  <1> DEFINE D == {m \in Nat : ~CodeWord(encodeVarInt[m])}
  <1>1. SUFFICES ASSUME D # {} PROVE FALSE
    OBVIOUS
  <1>2. PICK m \in D : \A k \in D : m <= k
    <2>1. D \in SUBSET Nat
      OBVIOUS
    <2> HIDE DEF D
    <2>2. QED
      BY <1>1, <2>1, LeastNumber
  <1>3. m \in Nat /\ ~CodeWord(encodeVarInt[m]) /\ VINT_BASE \in Nat
    BY <1>2, CompilerAssumption
  <1>4. CASE m < VINT_BASE
    <2>1. encodeVarInt[m] = <<m>>
      BY <1>3, <1>4, EncodeIs
    <2>2. CodeWord(<<m>>)
      BY <1>3, <1>4 DEF CodeWord, Text
    <2>3. QED
      BY <1>3, <2>1, <2>2
  <1>5. CASE ~(m < VINT_BASE)
    <2> DEFINE a == (m % VINT_BASE) + VINT_BASE
               w == encodeVarInt[m \div VINT_BASE]
    <2>1. a \in Nat /\ a >= VINT_BASE
      BY <1>3, Division
    <2>2. CodeWord(w)
      <3>1. m \div VINT_BASE \in Nat /\ m \div VINT_BASE < m
        BY <1>3, <1>5, Smaller
      <3>2. QED
        BY <1>2, <1>3, <3>1
    <2>3. encodeVarInt[m] = <<a>> \o w
      BY <1>3, <1>5, EncodeIs
    <2> HIDE DEF a, w
    <2>4. CodeWord(<<a>> \o w)
      BY <2>1, <2>2, MarkedWord
    <2>5. QED
      BY <1>3, <2>3, <2>4
  <1>6. QED
    BY <1>4, <1>5

LEMMA EncodeInjective ==
  ASSUME NEW n \in Nat, NEW m \in Nat, encodeVarInt[n] = encodeVarInt[m]
  PROVE  n = m
  <1> DEFINE D == {i \in Nat : \E j \in Nat : encodeVarInt[i] = encodeVarInt[j] /\ i # j}
  <1>1. SUFFICES ASSUME D # {} PROVE FALSE
    OBVIOUS
  <1>2. PICK i \in D : \A k \in D : i <= k
    <2>1. D \in SUBSET Nat
      OBVIOUS
    <2> HIDE DEF D
    <2>2. QED
      BY <1>1, <2>1, LeastNumber
  <1>3. PICK j \in Nat : encodeVarInt[i] = encodeVarInt[j] /\ i # j
    BY <1>2
  <1>4. i \in Nat /\ VINT_BASE \in Nat
    BY <1>2, CompilerAssumption
  <1>5. ASSUME NEW k \in Nat
        PROVE  IF k < VINT_BASE THEN encodeVarInt[k] = <<k>>
               ELSE /\ encodeVarInt[k] = <<(k % VINT_BASE) + VINT_BASE>> \o encodeVarInt[k \div VINT_BASE]
                    /\ encodeVarInt[k][1] = (k % VINT_BASE) + VINT_BASE
                    /\ (k % VINT_BASE) + VINT_BASE >= VINT_BASE /\ k % VINT_BASE \in Nat
                    /\ encodeVarInt[k \div VINT_BASE] \in Text /\ k \div VINT_BASE \in Nat
    <2>1. CASE k < VINT_BASE
      BY <2>1, EncodeIs
    <2>2. CASE ~(k < VINT_BASE)
      <3> DEFINE a == (k % VINT_BASE) + VINT_BASE
                 w == encodeVarInt[k \div VINT_BASE]
      <3>1. encodeVarInt[k] = <<a>> \o w
        BY <2>2, EncodeIs
      <3>2. k \div VINT_BASE \in Nat /\ k % VINT_BASE \in Nat
        BY Division
      <3>3. w \in Text /\ a \in Nat /\ a >= VINT_BASE
        BY <1>4, <3>2, EncodeWord DEF CodeWord
      <3>4. ASSUME NEW x \in Nat, NEW y \in Text PROVE (<<x>> \o y)[1] = x
        BY DEF Text
      <3>5. encodeVarInt[k][1] = a
        BY <3>1, <3>3, <3>4
      <3>6. QED
        BY <2>2, <3>1, <3>2, <3>3, <3>5
    <2>3. QED
      BY <2>1, <2>2
  <1>6. CASE i < VINT_BASE /\ j < VINT_BASE
    <2>1. encodeVarInt[i] = <<i>> /\ encodeVarInt[j] = <<j>>
      BY <1>4, <1>6, EncodeIs
    <2>2. <<i>> = <<j>>
      BY <1>3, <2>1
    <2>3. QED
      BY <1>3, <2>2
  <1>7. CASE i < VINT_BASE /\ ~(j < VINT_BASE)
    <2>1. encodeVarInt[i][1] = i
      <3>1. encodeVarInt[i] = <<i>>
        BY <1>4, <1>7, EncodeIs
      <3>2. <<i>>[1] = i
        OBVIOUS
      <3>3. QED
        BY <3>1, <3>2
    <2>2. encodeVarInt[j][1] >= VINT_BASE
      BY <1>5, <1>7
    <2>3. QED
      BY <1>3, <1>4, <1>7, <2>1, <2>2
  <1>8. CASE ~(i < VINT_BASE) /\ j < VINT_BASE
    <2>1. encodeVarInt[j][1] = j
      <3>1. encodeVarInt[j] = <<j>>
        BY <1>4, <1>8, EncodeIs
      <3>2. <<j>>[1] = j
        OBVIOUS
      <3>3. QED
        BY <3>1, <3>2
    <2>2. encodeVarInt[i][1] >= VINT_BASE
      BY <1>4, <1>5, <1>8
    <2>3. QED
      BY <1>3, <1>4, <1>8, <2>1, <2>2
  <1>9. CASE ~(i < VINT_BASE) /\ ~(j < VINT_BASE)
    <2> DEFINE q == i \div VINT_BASE
               p == j \div VINT_BASE
               a == (i % VINT_BASE) + VINT_BASE
               b == (j % VINT_BASE) + VINT_BASE
    <2>1. /\ encodeVarInt[i] = <<a>> \o encodeVarInt[q] /\ encodeVarInt[i][1] = a
          /\ encodeVarInt[q] \in Text /\ q \in Nat
      BY <1>4, <1>5, <1>9
    <2>2. /\ encodeVarInt[j] = <<b>> \o encodeVarInt[p] /\ encodeVarInt[j][1] = b
          /\ encodeVarInt[p] \in Text /\ p \in Nat
      BY <1>5, <1>9
    <2>3. a = b /\ a \in Nat
      BY <1>3, <1>4, <2>1, <2>2, Division
    <2>4. encodeVarInt[q] = encodeVarInt[p]
      <3>1. <<a>> \in Text
        BY <2>3 DEF Text
      <3> HIDE DEF a, b, p, q
      <3>2. <<a>> \o encodeVarInt[q] = <<a>> \o encodeVarInt[p]
        BY <1>3, <2>1, <2>2, <2>3
      <3>3. QED
        BY <2>1, <2>2, <3>1, <3>2, Cancel
    <2>5. q < i
      BY <1>4, <1>9, Smaller
    <2>6. q = p
      <3> HIDE DEF p, q
      <3>1. q \notin D
        BY <1>2, <1>4, <2>1, <2>5
      <3>2. QED
        BY <2>1, <2>2, <2>4, <3>1
    <2>7. i % VINT_BASE = j % VINT_BASE
      BY <1>3, <1>4, <2>3, Division
    <2>8. QED
      BY <1>3, <1>4, <2>6, <2>7, Division
  <1>10. QED
    BY <1>4, <1>6, <1>7, <1>8, <1>9

Books == UNION {[D -> Text] : D \in SUBSET MetaValues}

\* The codes of different values are different, and all come behind the code
\* of the empty value.
CodeBook(r, next) ==
  /\ r \in Books /\ next \in Nat /\ next >= 2
  /\ \A v \in DOMAIN r : v # 0 /\ \E n \in Nat : n >= 2 /\ n < next /\ r[v] = encodeVarInt[n]
  /\ \A v, w \in DOMAIN r : r[v] = r[w] => v = w

KnownMeta(r, meta, n) == \A j \in 1 .. n : meta[j] = 0 \/ meta[j] \in DOMAIN r

ExtendsBook(s, r) == DOMAIN r \subseteq DOMAIN s /\ \A v \in DOMAIN r : s[v] = r[v]

LEMMA AssignBook ==
  ASSUME NEW st \in [known : Books, next : Nat], CodeBook(st.known, st.next),
         NEW v \in MetaValues
  PROVE  LET t == Assign(st, v) IN
           /\ t \in [known : Books, next : Nat] /\ CodeBook(t.known, t.next)
           /\ ExtendsBook(t.known, st.known) /\ (v = 0 \/ v \in DOMAIN t.known)
  <1>1. CASE v = 0 \/ v \in DOMAIN st.known
    BY <1>1 DEF Assign, ExtendsBook
  <1>2. CASE ~(v = 0 \/ v \in DOMAIN st.known)
    <2> DEFINE r == st.known
               c == encodeVarInt[st.next]
               s == [w \in DOMAIN r \cup {v} |-> IF w = v THEN c ELSE r[w]]
    <2>1. Assign(st, v) = [known |-> s, next |-> st.next + 1]
      BY <1>2 DEF Assign
    <2>2. r \in Books /\ st.next \in Nat /\ st.next >= 2
      BY DEF CodeBook
    <2>3. PICK D \in SUBSET MetaValues : r \in [D -> Text]
      BY <2>2 DEF Books
    <2>4. c \in Text
      BY <2>2, EncodeWord DEF CodeWord
    <2> HIDE DEF c, r
    <2>5. s \in [D \cup {v} -> Text] /\ D \cup {v} \in SUBSET MetaValues /\ DOMAIN r = D
      BY <2>3, <2>4
    <2>6. s \in Books
      BY <2>5 DEF Books
    <2>7. DOMAIN s = DOMAIN r \cup {v} /\ s[v] = c /\ \A w \in DOMAIN r : w # v /\ s[w] = r[w]
      BY <1>2 DEF r
    <2> HIDE DEF s
    <2>8. \A w \in DOMAIN r : w # 0 /\ \E n \in Nat : n >= 2 /\ n < st.next /\ r[w] = encodeVarInt[n]
      BY DEF CodeBook, r
    <2>9. \A w \in DOMAIN r : r[w] # c
      <3>1. SUFFICES ASSUME NEW w \in DOMAIN r, r[w] = c PROVE FALSE
        OBVIOUS
      <3>2. PICK n \in Nat : n >= 2 /\ n < st.next /\ r[w] = encodeVarInt[n]
        BY <2>8
      <3>3. n = st.next
        BY <2>2, <3>1, <3>2, EncodeInjective DEF c
      <3>4. QED
        BY <2>2, <3>2, <3>3
    <2>10. \A w \in DOMAIN s : w # 0 /\ \E n \in Nat : n >= 2 /\ n < st.next + 1 /\ s[w] = encodeVarInt[n]
      <3>1. ASSUME NEW w \in DOMAIN r
            PROVE  w # 0 /\ \E n \in Nat : n >= 2 /\ n < st.next + 1 /\ s[w] = encodeVarInt[n]
        <4>1. PICK n \in Nat : n >= 2 /\ n < st.next /\ r[w] = encodeVarInt[n]
          BY <2>8
        <4>2. n < st.next + 1
          BY <2>2, <4>1
        <4>3. QED
          BY <2>7, <2>8, <4>1, <4>2
      <3>2. v # 0 /\ \E n \in Nat : n >= 2 /\ n < st.next + 1 /\ s[v] = encodeVarInt[n]
        BY <1>2, <2>2, <2>7 DEF c
      <3>3. QED
        BY <2>7, <3>1, <3>2
    <2>11. \A w, x \in DOMAIN s : s[w] = s[x] => w = x
      <3>1. \A w, x \in DOMAIN r : r[w] = r[x] => w = x
        BY DEF CodeBook, r
      <3>2. QED
        BY <2>7, <2>9, <3>1
    <2>12. CodeBook(s, st.next + 1)
      BY <2>2, <2>6, <2>10, <2>11 DEF CodeBook
    <2>13. ExtendsBook(s, st.known) /\ v \in DOMAIN s
      BY <2>7 DEF ExtendsBook, r
    <2>14. QED
      BY <2>1, <2>2, <2>6, <2>12, <2>13
  <1>3. QED
    BY <1>1, <1>2

\* AddSecondary gives a code to every value of its call and changes no other.
LEMMA AssignedBook ==
  ASSUME CodeBook(replacements, current_index_), NEW meta \in Metas
  PROVE  /\ Assigned(meta) \in [known : Books, next : Nat]
         /\ CodeBook(Assigned(meta).known, Assigned(meta).next)
         /\ ExtendsBook(Assigned(meta).known, replacements)
         /\ KnownMeta(Assigned(meta).known, meta, NumSecondary)
  <1> DEFINE L == NumSecondary
             base == [known |-> replacements, next |-> current_index_]
             Good(st, n) == /\ CodeBook(st.known, st.next) /\ ExtendsBook(st.known, replacements)
                            /\ KnownMeta(st.known, meta, n)
             S == [n \in 0 .. L |-> {st \in [known : Books, next : Nat] : Good(st, n)}]
             step == [n \in 1 .. L |-> [st \in S[n - 1] |-> Assign(st, meta[n])]]
             state[n \in 0 .. L] == IF n = 0 THEN base ELSE Assign(state[n - 1], meta[n])
  <1>1. L \in Nat
    BY CompilerAssumption
  <1>2. Assigned(meta) = state[L]
    BY DEF Assigned
  <1>3. base \in S[0]
    <2>1. base \in [known : Books, next : Nat] /\ Good(base, 0)
      BY DEF CodeBook, ExtendsBook, KnownMeta
    <2>2. S[0] = {st \in [known : Books, next : Nat] : Good(st, 0)}
      BY <1>1
    <2> HIDE DEF S, base, Good
    <2>3. QED
      BY <2>1, <2>2
  <1>4. ASSUME NEW n \in 1 .. L, NEW st \in S[n - 1] PROVE Assign(st, meta[n]) \in S[n]
    <2>1. n - 1 \in 0 .. L /\ n \in 0 .. L /\ n \in Nat /\ meta[n] \in MetaValues
      BY <1>1 DEF Metas
    <2>2. st \in [known : Books, next : Nat] /\ Good(st, n - 1)
      BY <1>4, <2>1
    <2> DEFINE t == Assign(st, meta[n])
    <2>3. /\ t \in [known : Books, next : Nat] /\ CodeBook(t.known, t.next)
          /\ ExtendsBook(t.known, st.known) /\ (meta[n] = 0 \/ meta[n] \in DOMAIN t.known)
      BY <2>1, <2>2, AssignBook
    <2> HIDE DEF t
    <2>4. ExtendsBook(t.known, replacements)
      BY <2>2, <2>3 DEF ExtendsBook
    <2>5. KnownMeta(t.known, meta, n)
      <3>1. \A j \in 1 .. n : j = n \/ j \in 1 .. n - 1
        BY <2>1
      <3>2. QED
        BY <2>2, <2>3, <3>1 DEF KnownMeta, ExtendsBook
    <2>6. Good(t, n)
      BY <2>3, <2>4, <2>5
    <2> HIDE DEF Good
    <2>7. QED
      BY <2>1, <2>3, <2>6 DEF t
  <1> HIDE DEF S, base
  <1>5. \A n \in 1 .. L : \A st \in S[n - 1] : step[n][st] = Assign(st, meta[n])
    OBVIOUS
  <1> HIDE DEF step
  <1>6. PICK h : Recursive(h, L, base, step) /\ \A n \in 0 .. L : h[n] \in S[n]
    <2>1. \A n \in 1 .. L : \A x \in S[n - 1] : step[n][x] \in S[n]
      BY <1>4, <1>5
    <2> HIDE DEF L
    <2>2. QED
      BY <1>1, <1>3, <2>1, Recursion
  <1>7. h = [n \in 0 .. L |-> IF n = 0 THEN base ELSE Assign(h[n - 1], meta[n])]
    <2>1. \A n \in 0 .. L : n # 0 => n \in 1 .. L /\ n - 1 \in 0 .. L
      BY <1>1
    <2>2. \A n \in 0 .. L : n # 0 => step[n][h[n - 1]] = Assign(h[n - 1], meta[n])
      BY <1>5, <1>6, <2>1
    <2>3. QED
      BY <1>6, <2>2, Zenon DEF Recursive
  <1>8. state = [n \in 0 .. L |-> IF n = 0 THEN base ELSE Assign(state[n - 1], meta[n])]
    BY <1>7, Zenon
  <1> HIDE DEF state
  <1> DEFINE T == {n \in 0 .. L : state[n] \in S[n]}
  <1>9. 0 \in T
    BY <1>1, <1>3, <1>8
  <1>10. ASSUME NEW n \in 1 .. L, n - 1 \in T PROVE n \in T
    <2>1. n \in 0 .. L /\ n # 0 /\ state[n - 1] \in S[n - 1]
      BY <1>1, <1>10
    <2>2. state[n] = Assign(state[n - 1], meta[n])
      BY <1>8, <2>1
    <2>3. QED
      BY <1>4, <2>1, <2>2
  <1>11. L \in T
    <2>1. L \in 0 .. L
      BY <1>1
    <2> HIDE DEF T, L
    <2>2. QED
      BY <1>1, <1>9, <1>10, <2>1, Induction
  <1>12. QED
    BY <1>1, <1>2, <1>11 DEF S

\* The path of the codes of a call, code by code
IsPath(f, r, meta) ==
  /\ \A n \in 0 .. NumSecondary : f[n] \in Text
  /\ f[0] = <<>>
  /\ \A n \in 1 .. NumSecondary : f[n] = f[n - 1] \o CodeOf(r, meta[n])
  /\ CodesOf(r, meta) = f[NumSecondary]

LEMMA CodeOfWord ==
  ASSUME NEW r, NEW next, CodeBook(r, next), NEW v, v = 0 \/ v \in DOMAIN r
  PROVE  CodeWord(CodeOf(r, v))
  <1>1. CASE v = 0
    BY <1>1, CompilerAssumption DEF CodeOf, CodeWord, Text
  <1>2. CASE v # 0
    BY <1>2, EncodeWord DEF CodeOf, CodeBook
  <1>3. QED
    BY <1>1, <1>2

LEMMA CodeOfInjective ==
  ASSUME NEW r, NEW next, CodeBook(r, next),
         NEW v, v = 0 \/ v \in DOMAIN r, NEW w, w = 0 \/ w \in DOMAIN r,
         CodeOf(r, v) = CodeOf(r, w)
  PROVE  v = w
  <1>1. encodeVarInt[1] = << 1 >>
    BY CompilerAssumption, EncodeIs
  <1>2. \A x \in DOMAIN r : r[x] # << 1 >>
    <2>1. SUFFICES ASSUME NEW x \in DOMAIN r, r[x] = << 1 >> PROVE FALSE
      OBVIOUS
    <2>2. PICK n \in Nat : n >= 2 /\ r[x] = encodeVarInt[n]
      BY DEF CodeBook
    <2>3. n = 1
      BY <1>1, <2>1, <2>2, EncodeInjective
    <2>4. QED
      BY <2>2, <2>3
  <1>3. QED
    BY <1>2 DEF CodeOf, CodeBook

LEMMA PathExists ==
  ASSUME NEW r, NEW next, CodeBook(r, next), NEW meta, KnownMeta(r, meta, NumSecondary)
  PROVE  \E f : IsPath(f, r, meta)
  <1> DEFINE L == NumSecondary
             S == [n \in 0 .. L |-> Text]
             step == [n \in 1 .. L |-> [x \in Text |-> x \o CodeOf(r, meta[n])]]
             path[n \in 0 .. L] == IF n = 0 THEN <<>> ELSE path[n - 1] \o CodeOf(r, meta[n])
  <1>1. L \in Nat
    BY CompilerAssumption
  <1>2. CodesOf(r, meta) = path[L]
    BY DEF CodesOf
  <1>3. ASSUME NEW n \in 1 .. L, NEW x \in Text PROVE x \o CodeOf(r, meta[n]) \in Text
    <2>1. CodeOf(r, meta[n]) \in Text
      BY CodeOfWord DEF KnownMeta, CodeWord
    <2>2. QED
      BY <2>1 DEF Text
  <1>4. \A n \in 0 .. L : S[n] = Text
    OBVIOUS
  <1>5. <<>> \in S[0]
    BY <1>1, <1>4 DEF Text
  <1>6. \A n \in 1 .. L : \A x \in Text : step[n][x] = x \o CodeOf(r, meta[n])
    OBVIOUS
  <1> HIDE DEF S, step
  <1>7. PICK h : Recursive(h, L, <<>>, step) /\ \A n \in 0 .. L : h[n] \in S[n]
    <2>1. \A n \in 1 .. L : \A x \in S[n - 1] : step[n][x] \in S[n]
      <3>1. \A n \in 1 .. L : n \in 0 .. L /\ n - 1 \in 0 .. L
        BY <1>1
      <3>2. ASSUME NEW n \in 1 .. L, NEW x \in S[n - 1] PROVE step[n][x] \in S[n]
        <4>1. S[n - 1] = Text /\ S[n] = Text
          BY <1>4, <3>1
        <4>2. step[n][x] = x \o CodeOf(r, meta[n])
          BY <1>6, <4>1
        <4>3. x \o CodeOf(r, meta[n]) \in Text
          BY <1>3, <4>1
        <4>4. QED
          BY <4>1, <4>2, <4>3
      <3>3. QED
        BY <3>2
    <2> HIDE DEF L
    <2>2. QED
      BY <1>1, <1>5, <2>1, Recursion
  <1>8. h = [n \in 0 .. L |-> IF n = 0 THEN <<>> ELSE h[n - 1] \o CodeOf(r, meta[n])]
    <2>1. \A n \in 0 .. L : n # 0 => n \in 1 .. L /\ n - 1 \in 0 .. L
      BY <1>1
    <2>2. \A n \in 0 .. L : n # 0 => step[n][h[n - 1]] = h[n - 1] \o CodeOf(r, meta[n])
      BY <1>4, <1>6, <1>7, <2>1
    <2>3. QED
      BY <1>7, <2>2, Zenon DEF Recursive
  <1>9. path = [n \in 0 .. L |-> IF n = 0 THEN <<>> ELSE path[n - 1] \o CodeOf(r, meta[n])]
    BY <1>8, Zenon
  <1> HIDE DEF path
  <1> DEFINE T == {n \in 0 .. L : path[n] \in Text}
  <1>10. path[0] = <<>>
    BY <1>1, <1>9
  <1>11. \A n \in 1 .. L : path[n] = path[n - 1] \o CodeOf(r, meta[n])
    BY <1>1, <1>9
  <1>12. \A n \in 0 .. L : n \in T
    <2>1. 0 \in T
      <3>1. path[0] \in Text
        BY <1>10 DEF Text
      <3>2. QED
        BY <1>1, <3>1
    <2>2. ASSUME NEW n \in 1 .. L, n - 1 \in T PROVE n \in T
      <3>1. n \in 0 .. L /\ path[n - 1] \in Text
        BY <1>1, <2>2
      <3>2. path[n - 1] \o CodeOf(r, meta[n]) \in Text
        BY <1>3, <3>1
      <3>3. QED
        BY <1>11, <3>1, <3>2
    <2> HIDE DEF T, L
    <2>3. QED
      BY <1>1, <2>1, <2>2, Induction
  <1>13. IsPath(path, r, meta)
    BY <1>2, <1>10, <1>11, <1>12 DEF IsPath
  <1>14. QED
    BY <1>13

\* A longer book does not change the codes of a call.
LEMMA SameCodes ==
  ASSUME NEW r, NEW next, CodeBook(r, next), NEW s, NEW next2, CodeBook(s, next2),
         ExtendsBook(s, r), NEW meta, KnownMeta(r, meta, NumSecondary)
  PROVE  CodesOf(s, meta) = CodesOf(r, meta) /\ KnownMeta(s, meta, NumSecondary)
  <1>1. KnownMeta(s, meta, NumSecondary)
    BY DEF KnownMeta, ExtendsBook
  <1>2. PICK f : IsPath(f, r, meta)
    BY PathExists
  <1>3. PICK g : IsPath(g, s, meta)
    BY <1>1, PathExists
  <1>4. \A n \in 1 .. NumSecondary : CodeOf(r, meta[n]) = CodeOf(s, meta[n])
    BY DEF CodeOf, KnownMeta, ExtendsBook
  <1> DEFINE T == {n \in Nat : f[n] = g[n]}
  <1>5. 0 \in T
    BY <1>2, <1>3 DEF IsPath
  <1>6. NumSecondary \in Nat
    BY CompilerAssumption
  <1>7. ASSUME NEW n \in 1 .. NumSecondary, n - 1 \in T PROVE n \in T
    <2>1. f[n] = f[n - 1] \o CodeOf(r, meta[n]) /\ g[n] = g[n - 1] \o CodeOf(s, meta[n])
      BY <1>2, <1>3 DEF IsPath
    <2>2. n \in Nat /\ f[n - 1] = g[n - 1] /\ CodeOf(r, meta[n]) = CodeOf(s, meta[n])
      BY <1>4, <1>6, <1>7
    <2>3. f[n] = g[n]
      BY <2>1, <2>2
    <2>4. QED
      BY <2>2, <2>3
  <1>8. NumSecondary \in T
    <2>1. NumSecondary \in 0 .. NumSecondary
      BY <1>6
    <2> HIDE DEF T
    <2>2. QED
      BY <1>5, <1>6, <1>7, <2>1, Induction
  <1>9. QED
    BY <1>1, <1>2, <1>3, <1>8 DEF IsPath

Begins(w, x) == \E t \in Text : w = x \o t

LEMMA BeginsEarlier ==
  ASSUME NEW x \in Text, NEW c \in Text, NEW w, Begins(w, x \o c)
  PROVE  Begins(w, x)
  <1>1. PICK t \in Text : w = (x \o c) \o t
    BY DEF Begins
  <1>2. c \o t \in Text
    BY Joined
  <1>3. (x \o c) \o t = x \o (c \o t)
    BY Associate
  <1>4. QED
    BY <1>1, <1>2, <1>3 DEF Begins

\* No code is the beginning of another one.
LEMMA FirstCode ==
  ASSUME NEW c, CodeWord(c), NEW d, CodeWord(d), NEW t \in Text, NEW u \in Text,
         c \o t = d \o u
  PROVE  c = d
  <1>1. c \in Text /\ d \in Text /\ Len(c) \in Nat /\ Len(d) \in Nat /\ Len(c) >= 1 /\ Len(d) >= 1
    BY DEF CodeWord, Text
  <1> DEFINE Own(x, y) == \A i \in 1 .. Len(x) : (x \o y)[i] = x[i] /\ x[i] \in Nat
  <1>0. ASSUME NEW x \in Text, NEW y \in Text PROVE Own(x, y)
    <2>1. ASSUME NEW i \in 1 .. Len(x) PROVE x[i] \in Nat
      BY DEF Text
    <2>2. ASSUME NEW i \in 1 .. Len(x) PROVE (x \o y)[i] = x[i]
      BY DEF Text
    <2>3. QED
      BY <2>1, <2>2
  <1>2. \A i \in 1 .. Len(c) : (c \o t)[i] = c[i] /\ c[i] \in Nat
    BY <1>0, <1>1
  <1>3. \A i \in 1 .. Len(d) : (d \o u)[i] = d[i] /\ d[i] \in Nat
    BY <1>0, <1>1
  <1>4. ~(Len(c) < Len(d))
    <2>1. SUFFICES ASSUME Len(c) < Len(d) PROVE FALSE
      OBVIOUS
    <2>2. Len(c) \in 1 .. Len(c) /\ Len(c) \in 1 .. Len(d) /\ Len(c) \in 1 .. Len(d) - 1
      BY <1>1, <2>1
    <2>3. c[Len(c)] = d[Len(c)] /\ c[Len(c)] \in Nat
      BY <1>2, <1>3, <2>2
    <2>4. QED
      BY <2>2, <2>3, CompilerAssumption DEF CodeWord
  <1>5. ~(Len(d) < Len(c))
    <2>1. SUFFICES ASSUME Len(d) < Len(c) PROVE FALSE
      OBVIOUS
    <2>2. Len(d) \in 1 .. Len(d) /\ Len(d) \in 1 .. Len(c) /\ Len(d) \in 1 .. Len(c) - 1
      BY <1>1, <2>1
    <2>3. c[Len(d)] = d[Len(d)] /\ d[Len(d)] \in Nat
      BY <1>2, <1>3, <2>2
    <2>4. QED
      BY <2>2, <2>3, CompilerAssumption DEF CodeWord
  <1>6. Len(c) = Len(d)
    BY <1>1, <1>4, <1>5
  <1>7. \A i \in 1 .. Len(c) : c[i] = d[i]
    BY <1>2, <1>3, <1>6
  <1>8. QED
    BY <1>1, <1>6, <1>7, SameText

LEMMA Beginnings ==
  ASSUME NEW h, NEW r, NEW m, IsPath(h, r, m),
         \A n \in 1 .. NumSecondary : CodeOf(r, m[n]) \in Text,
         NEW w, Begins(w, h[NumSecondary])
  PROVE  \A n \in 0 .. NumSecondary : Begins(w, h[n])
  <1> DEFINE L == NumSecondary
             T == {i \in 0 .. L : Begins(w, h[L - i])}
  <1>1. L \in Nat
    BY CompilerAssumption
  <1>2. 0 \in T
    <2>1. 0 \in 0 .. L /\ L - 0 = L
      BY <1>1
    <2>2. QED
      BY <2>1
  <1>3. ASSUME NEW n \in 1 .. L, Begins(w, h[n]) PROVE Begins(w, h[n - 1])
    <2>1. n - 1 \in 0 .. L
      BY <1>1
    <2>2. h[n] = h[n - 1] \o CodeOf(r, m[n]) /\ h[n - 1] \in Text /\ CodeOf(r, m[n]) \in Text
      BY <2>1 DEF IsPath
    <2>3. QED
      BY <1>3, <2>2, BeginsEarlier
  <1>4. ASSUME NEW i \in 1 .. L, i - 1 \in T PROVE i \in T
    <2> DEFINE n == L - (i - 1)
    <2>1. n \in 1 .. L /\ n - 1 = L - i /\ i \in 0 .. L
      BY <1>1
    <2>2. Begins(w, h[n])
      BY <1>4
    <2>3. Begins(w, h[n - 1])
      BY <1>3, <2>1, <2>2
    <2>4. QED
      BY <2>1, <2>3
  <1>5. \A i \in 0 .. L : i \in T
    <2> HIDE DEF T, L
    <2>1. QED
      BY <1>1, <1>2, <1>4, Induction
  <1>6. SUFFICES ASSUME NEW n \in 0 .. L PROVE Begins(w, h[n])
    OBVIOUS
  <1>7. L - n \in 0 .. L /\ L - (L - n) = n
    BY <1>1
  <1>8. QED
    BY <1>5, <1>7

\* The path of codes and the key behind it tell the call's secondary keys and
\* its key.
LEMMA CodesTell ==
  ASSUME NEW r, NEW next, CodeBook(r, next),
         NEW m1 \in Metas, KnownMeta(r, m1, NumSecondary), NEW k1 \in Text,
         NEW m2 \in Metas, KnownMeta(r, m2, NumSecondary), NEW k2 \in Text,
         CodesOf(r, m1) \o k1 = CodesOf(r, m2) \o k2
  PROVE  m1 = m2 /\ k1 = k2
  <1> DEFINE L == NumSecondary
             w == CodesOf(r, m1) \o k1
  <1>1. L \in Nat
    BY CompilerAssumption
  <1>2. PICK f : IsPath(f, r, m1)
    BY PathExists
  <1>3. PICK g : IsPath(g, r, m2)
    BY PathExists
  <1>4. \A n \in 1 .. L : CodeWord(CodeOf(r, m1[n])) /\ CodeWord(CodeOf(r, m2[n]))
    BY CodeOfWord DEF KnownMeta
  <1>5. CodesOf(r, m1) = f[L] /\ CodesOf(r, m2) = g[L]
    BY <1>2, <1>3 DEF IsPath
  <1>6. Begins(w, f[L]) /\ Begins(w, g[L])
    BY <1>5 DEF Begins
  <1>7. \A n \in 0 .. L : Begins(w, f[n]) /\ Begins(w, g[n])
    <2>1. \A n \in 1 .. L : CodeOf(r, m1[n]) \in Text /\ CodeOf(r, m2[n]) \in Text
      BY <1>4 DEF CodeWord
    <2> HIDE DEF w
    <2>2. QED
      BY <1>2, <1>3, <1>6, <2>1, Beginnings
  <1> HIDE DEF w
  <1> DEFINE T == {n \in 0 .. L : f[n] = g[n] /\ \A j \in 1 .. n : m1[j] = m2[j]}
  <1>8. 0 \in T
    BY <1>1, <1>2, <1>3 DEF IsPath
  <1>9. ASSUME NEW n \in 1 .. L, n - 1 \in T PROVE n \in T
    <2> DEFINE c == CodeOf(r, m1[n])
               d == CodeOf(r, m2[n])
    <2>1. n \in 0 .. L /\ n - 1 \in 0 .. L /\ f[n - 1] = g[n - 1] /\ n \in Nat
      BY <1>1, <1>9
    <2>2. f[n] = f[n - 1] \o c /\ g[n] = g[n - 1] \o d /\ f[n - 1] \in Text
      BY <1>2, <1>3, <2>1 DEF IsPath
    <2>3. PICK t \in Text : w = f[n] \o t
      BY <1>7, <2>1 DEF Begins
    <2>4. PICK u \in Text : w = g[n] \o u
      BY <1>7, <2>1 DEF Begins
    <2>5. CodeWord(c) /\ CodeWord(d) /\ c \in Text /\ d \in Text
      BY <1>4 DEF CodeWord
    <2> HIDE DEF c, d
    <2> DEFINE x == f[n - 1]
    <2>6. /\ (x \o c) \o t = x \o (c \o t) /\ c \o t \in Text
          /\ (x \o d) \o u = x \o (d \o u) /\ d \o u \in Text
      BY <2>2, <2>5, Joined, Associate, Zenon
    <2>7. c = d
      <3>1. x \o (c \o t) = x \o (d \o u)
        BY <2>1, <2>2, <2>3, <2>4, <2>6
      <3>2. c \o t = d \o u
        BY <2>2, <2>6, <3>1, Cancel
      <3>3. QED
        BY <2>5, <3>2, FirstCode
    <2>8. m1[n] = m2[n]
      BY <2>7, CodeOfInjective DEF KnownMeta, c, d
    <2>9. \A j \in 1 .. n : j = n \/ j \in 1 .. n - 1
      BY <2>1
    <2>10. QED
      BY <1>9, <2>1, <2>2, <2>7, <2>8, <2>9
  <1>10. L \in T
    <2>1. L \in 0 .. L
      BY <1>1
    <2> HIDE DEF T, L
    <2>2. QED
      BY <1>1, <1>8, <1>9, <2>1, Induction
  <1>11. m1 = m2
    BY <1>10 DEF Metas
  <1>12. k1 = k2
    <2>1. f[L] \in Text
      BY <1>1, <1>2 DEF IsPath
    <2>2. f[L] \o k1 = f[L] \o k2
      BY <1>5, <1>10
    <2>3. QED
      BY <2>1, <2>2, Cancel
  <1>13. QED
    BY <1>11, <1>12

Coded(r, meta, key) == CodesOf(r, meta) \o key

LEMMA CodedTells ==
  ASSUME NEW r, NEW next, CodeBook(r, next),
         NEW m1 \in Metas, KnownMeta(r, m1, NumSecondary), NEW k1 \in Text,
         NEW m2 \in Metas, KnownMeta(r, m2, NumSecondary), NEW k2 \in Text
  PROVE  Coded(r, m1, k1) = Coded(r, m2, k2) => m1 = m2 /\ k1 = k2
  BY CodesTell DEF Coded

\* The codes are a text, and an empty one only if there are no secondary keys.
LEMMA CodesText ==
  ASSUME NEW r, NEW next, CodeBook(r, next), NEW meta, KnownMeta(r, meta, NumSecondary)
  PROVE  /\ CodesOf(r, meta) \in Text
         /\ NumSecondary = 0 => CodesOf(r, meta) = <<>>
         /\ NumSecondary # 0 => Len(CodesOf(r, meta)) > 0
  <1>1. NumSecondary \in Nat
    BY CompilerAssumption
  <1>2. PICK f : IsPath(f, r, meta)
    BY PathExists
  <1>3. CodesOf(r, meta) \in Text /\ CodesOf(r, meta) = f[NumSecondary]
    BY <1>1, <1>2 DEF IsPath
  <1>4. CASE NumSecondary = 0
    BY <1>2, <1>3, <1>4 DEF IsPath
  <1>5. CASE NumSecondary # 0
    <2> DEFINE n == NumSecondary
               c == CodeOf(r, meta[n])
    <2>1. n \in 1 .. NumSecondary /\ n - 1 \in 0 .. NumSecondary
      BY <1>1, <1>5
    <2>2. CodeWord(c)
      BY <2>1, CodeOfWord DEF KnownMeta
    <2>3. f[n] = f[n - 1] \o c /\ f[n - 1] \in Text /\ c \in Text /\ Len(c) >= 1
      <3>1. f[n] = f[n - 1] \o c /\ f[n - 1] \in Text
        BY <1>2, <2>1 DEF IsPath
      <3> HIDE DEF c
      <3>2. QED
        BY <2>2, <3>1 DEF CodeWord
    <2> HIDE DEF c, n
    <2>4. Len(f[n]) = Len(f[n - 1]) + Len(c) /\ Len(f[n - 1]) \in Nat /\ Len(c) \in Nat
      BY <2>3 DEF Text
    <2>5. Len(f[n]) > 0
      BY <2>3, <2>4
    <2>6. QED
      BY <1>3, <1>5, <2>5 DEF n
  <1>6. QED
    BY <1>3, <1>4, <1>5

-----------------------------------------------------------------------------
\* The inductive invariant.  It speaks of the calls through the keys that are
\* sorted: those of the calls, behind the codes of their secondary keys.

FullKey(c) == IF class = "secondary" THEN CodesOf(replacements, c.meta) \o c.key ELSE c.key

Told == [k \in DOMAIN calls |->
           [key |-> FullKey(calls[k]), deleted |-> calls[k].deleted, chunk |-> calls[k].chunk]]

CallT == [key : Text, meta : Metas \cup {<<>>}, deleted : BOOLEAN, chunk : Nat]
ToldT == [key : Text, deleted : BOOLEAN, chunk : Nat]

\* All secondary keys of the calls have codes; a later call goes to no earlier
\* chunk.
CallsInv ==
  /\ class \in {"dictionary", "index", "secondary"} /\ phase \in {"feed", "merge", "compiled"}
  /\ calls \in Seq(CallT)
  /\ CodeBook(replacements, current_index_)
  /\ \A i \in DOMAIN calls :
       IF class = "secondary"
       THEN calls[i].meta \in Metas /\ KnownMeta(replacements, calls[i].meta, NumSecondary)
       ELSE calls[i].meta = <<>>
  /\ Told \in Seq(ToldT)
  /\ \A i, j \in DOMAIN Told : i < j => Told[i].chunk <= Told[j].chunk

\* The entry is the one of a call.
Stems(e, told) == /\ e \in EntryT /\ e.value \in DOMAIN told
                  /\ e.key = told[e.value].key /\ e.deleted = told[e.value].deleted

\* The entries are those of the calls that go to chunk n + 1.
EntriesOf(t, n, told) ==
  /\ \A i \in DOMAIN t : Stems(t[i], told) /\ told[t[i].value].chunk = n
  /\ \A k \in DOMAIN told : told[k].chunk = n => \E i \in DOMAIN t : t[i].value = k

MemoryInv ==
  /\ key_values_ \in Seq(EntryT)
  /\ phase = "feed" => generator_ = <<>>
  /\ phase = "feed" => \A k \in DOMAIN Told : Told[k].chunk <= Len(chunks)
  /\ phase = "feed" /\ class # "index" => EntriesOf(key_values_, Len(chunks), Told)
  /\ phase = "feed" /\ class = "index" =>
       /\ Len(key_values_) = Len(Told)
       /\ \A i \in DOMAIN key_values_ : key_values_[i].value = i /\ Stems(key_values_[i], Told)

Has(s, key) == \E g \in DOMAIN s : s[g].key = key

\* Chunk n has every key of its calls once, in order.
ChunkOf(s, n, told) ==
  /\ Strict(s)
  /\ \A i \in DOMAIN s : Stems(s[i], told) /\ told[s[i].value].chunk = n - 1
  /\ \A k \in DOMAIN told : told[k].chunk = n - 1 /\ told[k].key # <<>> =>
       Has(s, told[k].key)

ChunksInv ==
  /\ chunks \in Seq(Seq(EntryT))
  /\ class = "index" => chunks = <<>> /\ phase # "merge"
  /\ phase = "compiled" => chunks = <<>>
  /\ \A c \in DOMAIN chunks : ChunkOf(chunks[c], c, Told)

\* What the iterators left behind the generator has; what is ahead of them
\* comes after all that it has.
MergeInv ==
  phase = "merge" =>
    /\ position \in [DOMAIN chunks -> Nat \ {0}]
    /\ \A k \in DOMAIN Told : Told[k].chunk < Len(chunks)
    /\ \A c \in DOMAIN chunks : \A i \in DOMAIN chunks[c] :
         i < position[c] => Has(generator_, chunks[c][i].key)
    /\ \A c \in DOMAIN chunks : \A i \in DOMAIN chunks[c] :
         i >= position[c] => \A g \in DOMAIN generator_ : LessKey(generator_[g].key, chunks[c][i].key)

\* No call of the same key went to a later chunk.
Newest(e, told) ==
  \A k \in DOMAIN told : told[k].key = e.key => told[k].chunk <= told[e.value].chunk

GeneratorInv ==
  /\ generator_ \in Seq(EntryT) /\ Strict(generator_)
  /\ \A g \in DOMAIN generator_ : Stems(generator_[g], Told)
  /\ class # "index" => \A g \in DOMAIN generator_ : Newest(generator_[g], Told)
  /\ class # "index" /\ phase = "compiled" =>
       \A k \in DOMAIN Told : Told[k].key # <<>> => Has(generator_, Told[k].key)

\* The last call of its key
LastOfKey(k, told) == \A j \in DOMAIN told : told[j].key = told[k].key => j <= k

IndexInv ==
  class = "index" /\ phase = "compiled" =>
    /\ \A g \in DOMAIN generator_ :
         ~generator_[g].deleted /\ LastOfKey(generator_[g].value, Told)
    /\ \A k \in DOMAIN Told : Told[k].key # <<>> /\ ~Told[k].deleted /\ LastOfKey(k, Told) =>
         Has(generator_, Told[k].key)

CompilerInv == CallsInv /\ MemoryInv /\ ChunksInv /\ MergeInv /\ GeneratorInv /\ IndexInv

-----------------------------------------------------------------------------
\* Entries, chunks and the calls they stem from

\* What a generator makes of entries it gets in any order of their keys
Chunked(s, t) == /\ s \in Seq(EntryT) /\ Strict(s)
                 /\ \A i \in DOMAIN s : \E j \in DOMAIN t : s[i] = t[j]
                 /\ \A j \in DOMAIN t : t[j].key # <<>> => Has(s, t[j].key)

LEMMA SortedChunk ==
  ASSUME NEW t \in Seq(EntryT), NEW sorted \in Sorts(t)
  PROVE  Chunked(Generate(sorted, DOMAIN sorted), t)
  <1>1. sorted \in Seq(EntryT) /\ Reordered(sorted, t) /\ InOrder(sorted)
    BY SortsOrder
  <1>2. Accepts(Generate(sorted, DOMAIN sorted), sorted, DOMAIN sorted)
    BY <1>1, GenerateAccepts
  <1> DEFINE s == Generate(sorted, DOMAIN sorted)
  <1> HIDE DEF s
  <1>3. /\ s \in Seq(EntryT) /\ Strict(s)
        /\ \A i \in DOMAIN s : \E n \in DOMAIN sorted : s[i] = sorted[n]
        /\ \A n \in DOMAIN sorted : sorted[n].key # <<>> => Has(s, sorted[n].key)
    BY <1>2 DEF Accepts, Has, s
  <1>4. \A i \in DOMAIN s : \E j \in DOMAIN t : s[i] = t[j]
    BY <1>1, <1>3 DEF Reordered
  <1>5. \A j \in DOMAIN t : t[j].key # <<>> => Has(s, t[j].key)
    BY <1>1, <1>3 DEF Reordered
  <1>6. Chunked(s, t)
    BY <1>3, <1>4, <1>5 DEF Chunked
  <1>7. QED
    BY <1>6 DEF s

LEMMA ChunkFrom ==
  ASSUME NEW told \in Seq(ToldT), NEW n \in Nat, NEW t, EntriesOf(t, n, told),
         NEW s, Chunked(s, t)
  PROVE  ChunkOf(s, n + 1, told)
  <1>1. (n + 1) - 1 = n
    OBVIOUS
  <1>2. \A i \in DOMAIN s : Stems(s[i], told) /\ told[s[i].value].chunk = n
    BY DEF Chunked, EntriesOf
  <1>3. ASSUME NEW k \in DOMAIN told, told[k].chunk = n, told[k].key # <<>>
        PROVE  Has(s, told[k].key)
    <2>1. PICK i \in DOMAIN t : t[i].value = k
      BY <1>3 DEF EntriesOf
    <2>2. t[i].key = told[k].key
      BY <2>1 DEF EntriesOf, Stems
    <2>3. QED
      BY <1>3, <2>2 DEF Chunked
  <1>4. QED
    BY <1>1, <1>2, <1>3 DEF ChunkOf, Chunked

LEMMA ToldIs ==
  ASSUME NEW told \in Seq(ToldT), NEW k \in DOMAIN told
  PROVE  told[k] \in ToldT /\ told[k].key \in Text /\ told[k].chunk \in Nat
  <1>1. told[k] \in ToldT
    OBVIOUS
  <1>2. QED
    BY <1>1 DEF ToldT

LEMMA ToldMore ==
  ASSUME NEW told \in Seq(ToldT), NEW x \in ToldT
  PROVE  /\ Append(told, x) \in Seq(ToldT) /\ Len(Append(told, x)) = Len(told) + 1
         /\ DOMAIN Append(told, x) = DOMAIN told \cup {Len(told) + 1}
         /\ DOMAIN told = 1 .. Len(told) /\ Len(told) \in Nat
         /\ Append(told, x)[Len(told) + 1] = x
         /\ \A k \in DOMAIN told : Append(told, x)[k] = told[k]
  OBVIOUS

LEMMA StemsMore ==
  ASSUME NEW told \in Seq(ToldT), NEW x \in ToldT, NEW e, Stems(e, told)
  PROVE  Stems(e, Append(told, x)) /\ Append(told, x)[e.value] = told[e.value]
  BY ToldMore DEF Stems

LEMMA ChunkMore ==
  ASSUME NEW told \in Seq(ToldT), NEW x \in ToldT, NEW s, NEW n, ChunkOf(s, n, told),
         x.chunk # n - 1
  PROVE  ChunkOf(s, n, Append(told, x))
  <1> DEFINE more == Append(told, x)
  <1>1. \A i \in DOMAIN s : Stems(s[i], more) /\ more[s[i].value].chunk = n - 1
    BY StemsMore DEF ChunkOf
  <1>2. \A k \in DOMAIN more : more[k].chunk = n - 1 => k \in DOMAIN told /\ more[k] = told[k]
    BY ToldMore
  <1> HIDE DEF more
  <1>3. ChunkOf(s, n, more)
    BY <1>1, <1>2 DEF ChunkOf
  <1>4. QED
    BY <1>3 DEF more

LEMMA EntriesMore ==
  ASSUME NEW told \in Seq(ToldT), NEW x \in ToldT,
         NEW t \in Seq(EntryT), EntriesOf(t, x.chunk, told),
         NEW e, e = [key |-> x.key, value |-> Len(told) + 1, deleted |-> x.deleted]
  PROVE  /\ Append(t, e) \in Seq(EntryT) /\ Stems(e, Append(told, x))
         /\ EntriesOf(Append(t, e), x.chunk, Append(told, x))
  <1> DEFINE more == Append(told, x)
             u == Append(t, e)
  <1>1. /\ more \in Seq(ToldT) /\ DOMAIN more = DOMAIN told \cup {Len(told) + 1}
        /\ more[Len(told) + 1] = x /\ \A k \in DOMAIN told : more[k] = told[k]
        /\ Len(told) + 1 \in Nat
    BY ToldMore
  <1>2. /\ e \in EntryT /\ e.value = Len(told) + 1 /\ e.key = x.key /\ e.deleted = x.deleted
    BY <1>1 DEF EntryT, ToldT
  <1>3. Stems(e, more) /\ more[e.value] = x
    BY <1>1, <1>2 DEF Stems
  <1>4. /\ u \in Seq(EntryT) /\ DOMAIN u = DOMAIN t \cup {Len(t) + 1}
        /\ u[Len(t) + 1] = e /\ \A i \in DOMAIN t : u[i] = t[i]
    BY <1>2
  <1>5. ASSUME NEW i \in DOMAIN t PROVE Stems(t[i], more) /\ more[t[i].value].chunk = x.chunk
    <2>1. Stems(t[i], told) /\ told[t[i].value].chunk = x.chunk
      BY DEF EntriesOf
    <2>2. QED
      BY <2>1, StemsMore
  <1> HIDE DEF more, u
  <1>6. \A i \in DOMAIN u : Stems(u[i], more) /\ more[u[i].value].chunk = x.chunk
    BY <1>3, <1>4, <1>5
  <1>7. ASSUME NEW k \in DOMAIN more, more[k].chunk = x.chunk
        PROVE  \E i \in DOMAIN u : u[i].value = k
    <2>1. CASE k = Len(told) + 1
      BY <1>2, <1>4, <2>1
    <2>2. CASE k \in DOMAIN told
      <3>1. PICK i \in DOMAIN t : t[i].value = k
        BY <1>1, <1>7, <2>2 DEF EntriesOf
      <3>2. QED
        BY <1>4, <3>1
    <2>3. QED
      BY <1>1, <2>1, <2>2
  <1>8. EntriesOf(u, x.chunk, more)
    BY <1>6, <1>7 DEF EntriesOf
  <1>9. QED
    BY <1>3, <1>4, <1>8 DEF more, u

-----------------------------------------------------------------------------
\* The steps

\* A call is recorded, and what is known of the earlier ones stays.
LEMMA Recorded ==
  ASSUME CallsInv, MemoryInv, ChunksInv, phase = "feed", UNCHANGED <<class, phase>>,
         NEW key \in Text, NEW meta, NEW deleted \in BOOLEAN, Record(key, meta, deleted),
         CodeBook(replacements', current_index_'), ExtendsBook(replacements', replacements),
         IF class = "secondary" THEN meta \in Metas /\ KnownMeta(replacements', meta, NumSecondary)
         ELSE meta = <<>>,
         NEW full, full = IF class = "secondary" THEN CodesOf(replacements', meta) \o key ELSE key,
         NEW x, x = [key |-> full, deleted |-> deleted, chunk |-> Len(chunks)]
  PROVE  CallsInv' /\ Told' = Append(Told, x) /\ x \in ToldT
  <1> DEFINE c == [key |-> key, meta |-> meta, deleted |-> deleted, chunk |-> Len(chunks)]
  <1>1. calls' = Append(calls, c) /\ calls \in Seq(CallT) /\ Len(chunks) \in Nat
    BY DEF Record, CallsInv, ChunksInv
  <1>2. full \in Text
    <2>1. CASE class = "secondary"
      BY <2>1, CodesText, Joined
    <2>2. CASE class # "secondary"
      BY <2>2
    <2>3. QED
      BY <2>1, <2>2
  <1>3. x \in ToldT /\ c \in CallT
    BY <1>1, <1>2 DEF ToldT, CallT
  <1>4. c.meta = meta /\ c.key = key /\ c.deleted = deleted /\ c.chunk = Len(chunks)
    OBVIOUS
  <1> HIDE DEF c
  <1>5. /\ calls' \in Seq(CallT) /\ DOMAIN calls' = DOMAIN calls \cup {Len(calls) + 1}
        /\ calls'[Len(calls) + 1] = c /\ \A k \in DOMAIN calls : calls'[k] = calls[k]
        /\ DOMAIN calls = 1 .. Len(calls) /\ Len(calls) \in Nat
    BY <1>1, <1>3
  <1>6. /\ Told \in Seq(ToldT) /\ DOMAIN Told = DOMAIN calls
        /\ \A k \in DOMAIN calls :
             Told[k] = [key |-> IF class = "secondary" THEN CodesOf(replacements, calls[k].meta) \o calls[k].key
                                ELSE calls[k].key,
                        deleted |-> calls[k].deleted, chunk |-> calls[k].chunk]
    BY DEF CallsInv, Told, FullKey
  <1>7. Len(Told) = Len(calls)
    BY <1>5, <1>6
  <1>8. /\ Told' = [k \in DOMAIN calls' |-> Told'[k]] /\ DOMAIN Told' = DOMAIN calls'
        /\ \A k \in DOMAIN calls' :
             Told'[k] = [key |-> IF class = "secondary" THEN CodesOf(replacements', calls'[k].meta) \o calls'[k].key
                                 ELSE calls'[k].key,
                         deleted |-> calls'[k].deleted, chunk |-> calls'[k].chunk]
    BY DEF Told, FullKey
  <1>9. \A k \in DOMAIN calls : Told'[k] = Told[k]
    <2>1. SUFFICES ASSUME NEW k \in DOMAIN calls PROVE Told'[k] = Told[k]
      OBVIOUS
    <2>2. class = "secondary" => CodesOf(replacements', calls[k].meta) = CodesOf(replacements, calls[k].meta)
      BY SameCodes DEF CallsInv
    <2>3. k \in DOMAIN calls' /\ calls'[k] = calls[k]
      BY <1>5
    <2>4. QED
      BY <1>6, <1>8, <2>2, <2>3
  <1>10. Told'[Len(calls) + 1] = x
    BY <1>4, <1>5, <1>8
  <1>11. Told' = Append(Told, x)
    <2> DEFINE a == Append(Told, x)
    <2>1. /\ a \in Seq(ToldT) /\ DOMAIN a = DOMAIN Told \cup {Len(Told) + 1}
          /\ a[Len(Told) + 1] = x /\ \A k \in DOMAIN Told : a[k] = Told[k]
      BY <1>3, <1>6, ToldMore
    <2>2. a = [k \in DOMAIN a |-> a[k]]
      BY <2>1
    <2> HIDE DEF a
    <2>3. DOMAIN a = DOMAIN calls' /\ \A k \in DOMAIN calls' : Told'[k] = a[k]
      BY <1>5, <1>6, <1>7, <1>9, <1>10, <2>1
    <2>4. Told' = a
      BY <1>8, <2>2, <2>3, Zenon
    <2>5. QED
      BY <2>4 DEF a
  <1>12. \A i \in DOMAIN calls' :
           IF class' = "secondary"
           THEN calls'[i].meta \in Metas /\ KnownMeta(replacements', calls'[i].meta, NumSecondary)
           ELSE calls'[i].meta = <<>>
    <2>1. ASSUME NEW i \in DOMAIN calls, class = "secondary"
          PROVE  calls[i].meta \in Metas /\ KnownMeta(replacements', calls[i].meta, NumSecondary)
      BY <2>1, SameCodes DEF CallsInv
    <2>2. ASSUME NEW i \in DOMAIN calls, class # "secondary" PROVE calls[i].meta = <<>>
      BY <2>2 DEF CallsInv
    <2>3. QED
      BY <1>4, <1>5, <2>1, <2>2
  <1>13. Told' \in Seq(ToldT)
    BY <1>3, <1>6, <1>11, ToldMore
  <1>14. \A i, j \in DOMAIN Told' : i < j => Told'[i].chunk <= Told'[j].chunk
    <2>1. \A i, j \in DOMAIN Told : i < j => Told[i].chunk <= Told[j].chunk
      BY DEF CallsInv
    <2>2. \A i \in DOMAIN Told : Told[i].chunk <= x.chunk /\ Told[i].chunk \in Nat
      <3>1. \A i \in DOMAIN Told : Told[i].chunk \in Nat
        BY <1>6, ToldIs
      <3>2. \A i \in DOMAIN Told : Told[i].chunk <= Len(chunks)
        BY DEF MemoryInv
      <3>3. QED
        BY <3>1, <3>2
    <2>3. QED
      BY <1>5, <1>6, <1>8, <1>9, <1>10, <2>1, <2>2
  <1>15. QED
    BY <1>3, <1>5, <1>11, <1>12, <1>13, <1>14 DEF CallsInv

LEMMA AddEntryStep ==
  ASSUME CompilerInv, phase = "feed", UNCHANGED <<class, phase, position, generator_>>,
         NEW x \in ToldT, x.chunk = Len(chunks), Told' = Append(Told, x),
         NEW e, e = [key |-> x.key, value |-> Len(Told) + 1, deleted |-> x.deleted], AddEntry(e)
  PROVE  MemoryInv' /\ ChunksInv' /\ MergeInv' /\ GeneratorInv' /\ IndexInv'
  <1> DEFINE told == Append(Told, x)
             entries == Append(key_values_, e)
  <1>1. generator_' = <<>> /\ phase' = "feed" /\ class' = class
    BY DEF CompilerInv, MemoryInv
  <1>2. GeneratorInv' /\ IndexInv' /\ MergeInv'
    BY <1>1 DEF GeneratorInv, IndexInv, MergeInv, Strict
  <1>3. /\ Told \in Seq(ToldT) /\ Len(chunks) \in Nat /\ key_values_ \in Seq(EntryT)
        /\ chunks \in Seq(Seq(EntryT)) /\ DOMAIN chunks = 1 .. Len(chunks)
    BY DEF CompilerInv, CallsInv, MemoryInv, ChunksInv
  <1>4. /\ told \in Seq(ToldT) /\ Len(told) = Len(Told) + 1
        /\ DOMAIN told = DOMAIN Told \cup {Len(Told) + 1}
        /\ told[Len(Told) + 1] = x /\ \A k \in DOMAIN Told : told[k] = Told[k]
        /\ DOMAIN Told = 1 .. Len(Told) /\ Len(Told) \in Nat
    BY <1>3, ToldMore
  <1>5. Told' = told
    OBVIOUS
  <1> HIDE DEF told
  <1>6. \A k \in DOMAIN told : told[k].chunk <= Len(chunks) /\ told[k].chunk \in Nat
    <2>1. \A k \in DOMAIN told : told[k].chunk \in Nat
      BY <1>4, ToldIs
    <2>2. \A k \in DOMAIN Told : Told[k].chunk <= Len(chunks)
      BY DEF CompilerInv, MemoryInv
    <2>3. QED
      BY <1>3, <1>4, <2>1, <2>2
  <1>7. CASE class = "index"
    <2>1. chunks' = chunks /\ key_values_' = entries /\ chunks = <<>>
      BY <1>7 DEF AddEntry, CompilerInv, ChunksInv
    <2>2. ChunksInv'
      BY <1>1, <2>1 DEF ChunksInv
    <2>3. e \in EntryT /\ e.value = Len(Told) + 1 /\ e.key = x.key /\ e.deleted = x.deleted
      BY <1>4 DEF EntryT, ToldT
    <2>4. Stems(e, told)
      BY <1>4, <2>3 DEF Stems
    <2>5. /\ Len(key_values_) = Len(Told)
          /\ \A i \in DOMAIN key_values_ : key_values_[i].value = i /\ Stems(key_values_[i], Told)
      BY <1>7 DEF CompilerInv, MemoryInv
    <2>6. /\ entries \in Seq(EntryT) /\ Len(entries) = Len(Told) + 1
          /\ DOMAIN entries = DOMAIN key_values_ \cup {Len(Told) + 1}
          /\ entries[Len(Told) + 1] = e /\ \A i \in DOMAIN key_values_ : entries[i] = key_values_[i]
      BY <1>3, <2>3, <2>5
    <2>7. \A i \in DOMAIN key_values_ : Stems(key_values_[i], told)
      BY <1>3, <2>5, StemsMore DEF told
    <2> HIDE DEF entries
    <2>8. \A i \in DOMAIN entries : entries[i].value = i /\ Stems(entries[i], told)
      BY <2>3, <2>4, <2>5, <2>6, <2>7
    <2>9. MemoryInv'
      BY <1>1, <1>4, <1>5, <1>6, <1>7, <2>1, <2>6, <2>8 DEF MemoryInv
    <2>10. QED
      BY <1>2, <2>2, <2>9
  <1>8. CASE class # "index"
    <2>1. EntriesOf(key_values_, Len(chunks), Told)
      BY <1>8 DEF CompilerInv, MemoryInv
    <2>2. entries \in Seq(EntryT) /\ EntriesOf(entries, Len(chunks), told)
      BY <1>3, <2>1, EntriesMore DEF told
    <2>3. \A c \in DOMAIN chunks : ChunkOf(chunks[c], c, told)
      <3>1. SUFFICES ASSUME NEW c \in DOMAIN chunks PROVE ChunkOf(chunks[c], c, told)
        OBVIOUS
      <3>2. ChunkOf(chunks[c], c, Told)
        BY DEF CompilerInv, ChunksInv
      <3>3. x.chunk # c - 1
        BY <1>3
      <3>4. QED
        BY <1>3, <3>2, <3>3, ChunkMore DEF told
    <2> HIDE DEF entries
    <2>4. CASE chunks' = chunks /\ key_values_' = entries
      <3>1. ChunksInv'
        BY <1>1, <1>3, <1>5, <1>8, <2>3, <2>4 DEF ChunksInv
      <3>2. MemoryInv'
        BY <1>1, <1>5, <1>6, <1>8, <2>2, <2>4 DEF MemoryInv
      <3>3. QED
        BY <1>2, <3>1, <3>2
    <2>5. CASE CreateChunk(entries)
      <3>1. PICK sorted \in Sorts(entries) : chunks' = Append(chunks, Generate(sorted, DOMAIN sorted))
        BY <2>5 DEF CreateChunk
      <3> DEFINE s == Generate(sorted, DOMAIN sorted)
      <3>2. Chunked(s, entries)
        BY <2>2, SortedChunk
      <3> HIDE DEF s
      <3>3. ChunkOf(s, Len(chunks) + 1, told) /\ s \in Seq(EntryT)
        BY <1>3, <1>4, <2>2, <3>2, ChunkFrom DEF Chunked
      <3>4. /\ chunks' \in Seq(Seq(EntryT)) /\ DOMAIN chunks' = DOMAIN chunks \cup {Len(chunks) + 1}
            /\ chunks'[Len(chunks) + 1] = s /\ \A c \in DOMAIN chunks : chunks'[c] = chunks[c]
            /\ Len(chunks') = Len(chunks) + 1
        BY <1>3, <3>1, <3>3 DEF s
      <3>5. ChunksInv'
        <4>1. \A c \in DOMAIN chunks' : ChunkOf(chunks'[c], c, told)
          BY <2>3, <3>3, <3>4
        <4>2. QED
          BY <1>1, <1>5, <1>8, <3>4, <4>1 DEF ChunksInv
      <3>6. key_values_' = <<>>
        BY <2>5 DEF CreateChunk
      <3>7. EntriesOf(<<>>, Len(chunks) + 1, told)
        BY <1>3, <1>6 DEF EntriesOf
      <3>8. \A k \in DOMAIN told : told[k].chunk <= Len(chunks')
        BY <1>3, <1>6, <3>4
      <3>9. MemoryInv'
        BY <1>1, <1>5, <1>8, <3>4, <3>6, <3>7, <3>8 DEF MemoryInv
      <3>10. QED
        BY <1>2, <3>5, <3>9
    <2>6. QED
      BY <1>8, <2>4, <2>5 DEF AddEntry, entries
  <1>9. QED
    BY <1>7, <1>8

LEMMA KeysAreText == \A key \in Keys : key \in Text
  <1>1. SUFFICES ASSUME NEW m \in 0 .. MaxKeyLength, NEW key \in [1 .. m -> Bytes] PROVE key \in Text
    BY DEF Keys, BoundedSeq, SeqOf
  <1>2. Bytes \subseteq Nat /\ m \in Nat
    BY CompilerAssumption
  <1>3. key \in [1 .. m -> Nat]
    BY <1>2
  <1>4. QED
    BY <1>2, <1>3 DEF Text

\* Add, and Delete before Compile
LEMMA AddStep ==
  ASSUME CompilerInv, phase = "feed", class # "secondary", NEW key \in Keys,
         NEW deleted \in BOOLEAN, AddEntry(Entry(key, deleted)), Record(key, <<>>, deleted),
         UNCHANGED <<class, phase, position, generator_, replacements, current_index_>>
  PROVE  CompilerInv'
  <1> DEFINE x == [key |-> key, deleted |-> deleted, chunk |-> Len(chunks)]
  <1>1. key \in Text
    BY KeysAreText
  <1>2. CallsInv /\ MemoryInv /\ ChunksInv
    BY DEF CompilerInv
  <1>3. CodeBook(replacements', current_index_') /\ ExtendsBook(replacements', replacements)
    BY <1>2 DEF CallsInv, ExtendsBook
  <1>4. PICK y : y = x
    OBVIOUS
  <1>5. CallsInv' /\ Told' = Append(Told, y) /\ y \in ToldT
    BY <1>1, <1>2, <1>3, <1>4, Recorded
  <1>6. Len(Told) = Len(calls)
    <2>1. calls \in Seq(CallT) /\ Told \in Seq(ToldT) /\ DOMAIN Told = DOMAIN calls
      BY <1>2 DEF CallsInv, Told
    <2>2. QED
      BY <2>1
  <1>7. y.chunk = Len(chunks) /\ y.key = key /\ y.deleted = deleted
    BY <1>4
  <1>8. PICK e : e = [key |-> y.key, value |-> Len(Told) + 1, deleted |-> y.deleted]
    OBVIOUS
  <1>9. AddEntry(e)
    BY <1>6, <1>7, <1>8 DEF Entry
  <1> HIDE DEF x
  <1>10. MemoryInv' /\ ChunksInv' /\ MergeInv' /\ GeneratorInv' /\ IndexInv'
    BY <1>5, <1>7, <1>8, <1>9, AddEntryStep
  <1>11. QED
    BY <1>5, <1>10 DEF CompilerInv

LEMMA AddSecondaryStep ==
  ASSUME CompilerInv, NEW key \in Keys, NEW meta \in Metas, AddSecondary(key, meta)
  PROVE  CompilerInv'
  <1>1. class = "secondary" /\ phase = "feed" /\ UNCHANGED <<class, phase, position, generator_>>
        /\ Record(key, meta, FALSE)
    BY DEF AddSecondary
  <1>2. CallsInv /\ MemoryInv /\ ChunksInv /\ key \in Text
    BY KeysAreText DEF CompilerInv
  <1>3. /\ CodeBook(replacements', current_index_') /\ ExtendsBook(replacements', replacements)
        /\ KnownMeta(replacements', meta, NumSecondary)
    BY <1>2, AssignedBook DEF CallsInv, AddSecondary
  <1>4. PICK full : full = CodesOf(replacements', meta) \o key
    OBVIOUS
  <1>5. PICK y : y = [key |-> full, deleted |-> FALSE, chunk |-> Len(chunks)]
    OBVIOUS
  <1>6. CallsInv' /\ Told' = Append(Told, y) /\ y \in ToldT
    BY <1>1, <1>2, <1>3, <1>4, <1>5, Recorded
  <1>7. Len(Told) = Len(calls)
    <2>1. calls \in Seq(CallT) /\ Told \in Seq(ToldT) /\ DOMAIN Told = DOMAIN calls
      BY <1>2 DEF CallsInv, Told
    <2>2. QED
      BY <2>1
  <1>8. y.chunk = Len(chunks) /\ y.key = full /\ y.deleted = FALSE
    BY <1>5
  <1>9. PICK e : e = [key |-> y.key, value |-> Len(Told) + 1, deleted |-> y.deleted]
    OBVIOUS
  <1>10. AddEntry(e)
    <2>1. e = Entry(CodesOf(replacements', meta) \o key, FALSE)
      BY <1>4, <1>7, <1>8, <1>9 DEF Entry
    <2>2. QED
      BY <2>1 DEF AddSecondary
  <1>11. MemoryInv' /\ ChunksInv' /\ MergeInv' /\ GeneratorInv' /\ IndexInv'
    BY <1>1, <1>6, <1>8, <1>9, <1>10, AddEntryStep
  <1>12. QED
    BY <1>6, <1>11 DEF CompilerInv

\* What a step leaves of the calls
LEMMA SameTold ==
  ASSUME UNCHANGED <<class, calls, replacements>>
  PROVE  Told' = Told
  BY DEF Told, FullKey

LEMMA SameCalls ==
  ASSUME CallsInv, UNCHANGED <<class, calls, replacements, current_index_>>,
         phase' \in {"feed", "merge", "compiled"}
  PROVE  CallsInv' /\ Told' = Told
  <1>1. Told' = Told
    BY SameTold
  <1>2. QED
    BY <1>1 DEF CallsInv

\* Delete after Compile
LEMMA LateDeleteStep ==
  ASSUME CompilerInv, phase # "feed", NEW key \in Keys, Delete(key)
  PROVE  CompilerInv'
  <1> DEFINE e == Entry(key, TRUE)
  <1>1. class = "index" /\ UNCHANGED <<class, phase, position, generator_, replacements, current_index_, calls>>
    BY DEF Delete
  <1>2. CallsInv' /\ Told' = Told
    BY <1>1, SameCalls DEF CompilerInv, CallsInv
  <1>3. chunks' = chunks /\ key_values_' = Append(key_values_, e)
    BY <1>1 DEF Delete, AddEntry
  <1>4. e \in EntryT
    BY KeysAreText DEF Entry, EntryT, CompilerInv, CallsInv
  <1> HIDE DEF e
  <1>5. key_values_' \in Seq(EntryT)
    BY <1>3, <1>4 DEF CompilerInv, MemoryInv
  <1>6. QED
    BY <1>1, <1>2, <1>3, <1>5
    DEF CompilerInv, MemoryInv, ChunksInv, MergeInv, GeneratorInv, IndexInv

LEMMA CompileSingleChunkStep ==
  ASSUME CompilerInv, CompileSingleChunk
  PROVE  CompilerInv'
  <1>1. /\ class # "index" /\ phase = "feed" /\ phase' = "compiled" /\ chunks = <<>>
        /\ key_values_' = <<>> /\ UNCHANGED <<class, chunks, replacements, current_index_, calls>>
    BY DEF CompileSingleChunk, Accepted
  <1>2. CallsInv' /\ Told' = Told
    BY <1>1, SameCalls DEF CompilerInv
  <1>3. /\ key_values_ \in Seq(EntryT) /\ Told \in Seq(ToldT) /\ Len(chunks) = 0
        /\ EntriesOf(key_values_, 0, Told)
    BY <1>1 DEF CompilerInv, MemoryInv, CallsInv
  <1>4. \A k \in DOMAIN Told : Told[k].chunk = 0
    <2>1. \A k \in DOMAIN Told : Told[k].chunk <= 0
      BY <1>1, <1>3 DEF CompilerInv, MemoryInv
    <2>2. \A k \in DOMAIN Told : Told[k].chunk \in Nat
      BY <1>3, ToldIs
    <2>3. QED
      BY <2>1, <2>2
  <1>5. PICK sorted \in Sorts(key_values_) : generator_' = Generate(sorted, DOMAIN sorted)
    BY DEF CompileSingleChunk, Accepted
  <1>6. Chunked(generator_', key_values_)
    BY <1>3, <1>5, SortedChunk
  <1>7. ChunkOf(generator_', 1, Told)
    <2>1. ChunkOf(generator_', 0 + 1, Told)
      BY <1>3, <1>6, ChunkFrom
    <2>2. QED
      BY <2>1
  <1>8. GeneratorInv'
    <2>1. generator_' \in Seq(EntryT) /\ Strict(generator_')
      BY <1>6 DEF Chunked
    <2>2. \A g \in DOMAIN generator_' : Stems(generator_'[g], Told)
      BY <1>7 DEF ChunkOf
    <2>3. \A g \in DOMAIN generator_' : Newest(generator_'[g], Told)
      BY <1>4, <2>2 DEF Newest, Stems
    <2>4. \A k \in DOMAIN Told : Told[k].key # <<>> => Has(generator_', Told[k].key)
      BY <1>4, <1>7 DEF ChunkOf
    <2>5. QED
      BY <1>2, <2>1, <2>2, <2>3, <2>4 DEF GeneratorInv
  <1>9. MemoryInv' /\ ChunksInv' /\ MergeInv' /\ IndexInv'
    BY <1>1 DEF MemoryInv, ChunksInv, MergeInv, IndexInv
  <1>10. QED
    BY <1>2, <1>8, <1>9 DEF CompilerInv

LEMMA CompileIndexStep ==
  ASSUME CompilerInv, CompileIndex
  PROVE  CompilerInv'
  <1>1. /\ class = "index" /\ phase = "feed" /\ phase' = "compiled" /\ chunks = <<>>
        /\ key_values_' = <<>> /\ UNCHANGED <<class, chunks, replacements, current_index_, calls>>
    BY DEF CompileIndex, Accepted, CompilerInv, ChunksInv
  <1>2. CallsInv' /\ Told' = Told
    BY <1>1, SameCalls DEF CompilerInv
  <1>3. /\ key_values_ \in Seq(EntryT) /\ Told \in Seq(ToldT) /\ Len(key_values_) = Len(Told)
        /\ \A i \in DOMAIN key_values_ : key_values_[i].value = i /\ Stems(key_values_[i], Told)
    BY <1>1 DEF CompilerInv, MemoryInv, CallsInv
  <1>4. PICK s \in StableSorts(key_values_) : generator_' = Generate(s, LastOnes(s))
    BY DEF CompileIndex, Accepted
  <1>5. s \in Seq(EntryT) /\ Reordered(s, key_values_) /\ InOrder(s) /\ Stable(s)
    BY <1>3, <1>4, StableOrder
  <1>6. Accepts(generator_', s, LastOnes(s))
    <2>1. LastOnes(s) \in SUBSET DOMAIN s
      BY DEF LastOnes
    <2>2. QED
      BY <1>4, <1>5, <2>1, GenerateAccepts
  <1>7. /\ DOMAIN s = 1 .. Len(s) /\ Len(s) \in Nat /\ DOMAIN s = DOMAIN Told
        /\ \A i \in DOMAIN s : s[i] \in EntryT /\ s[i].key \in Text /\ s[i].value \in Nat
    <2>1. DOMAIN key_values_ = DOMAIN Told
      BY <1>3
    <2>2. DOMAIN s = DOMAIN key_values_
      BY <1>5 DEF Reordered
    <2>3. DOMAIN s = 1 .. Len(s) /\ Len(s) \in Nat /\ \A i \in DOMAIN s : s[i] \in EntryT
      BY <1>5
    <2>4. QED
      BY <2>1, <2>2, <2>3, KeyIsText
  <1>8. \A i \in DOMAIN s : Stems(s[i], Told)
    BY <1>3, <1>5 DEF Reordered
  <1>9. \A k \in DOMAIN Told : \E i \in DOMAIN s : s[i].value = k
    <2>1. DOMAIN key_values_ = DOMAIN Told
      BY <1>3
    <2>2. QED
      <3>1. SUFFICES ASSUME NEW k \in DOMAIN Told PROVE \E i \in DOMAIN s : s[i].value = k
        OBVIOUS
      <3>2. k \in DOMAIN key_values_ /\ key_values_[k].value = k
        BY <1>3, <2>1
      <3>3. PICK i \in DOMAIN s : s[i] = key_values_[k]
        BY <1>5, <3>2 DEF Reordered
      <3>4. QED
        BY <3>2, <3>3
  <1>10. ASSUME NEW n \in LastOnes(s) PROVE ~s[n].deleted /\ LastOfKey(s[n].value, Told)
    <2>1. n \in DOMAIN s /\ ~s[n].deleted /\ (n = Len(s) \/ s[n + 1].key # s[n].key)
      BY DEF LastOnes
    <2>2. ASSUME NEW k \in DOMAIN Told, Told[k].key = Told[s[n].value].key
          PROVE  k <= s[n].value
      <3>1. PICK m \in DOMAIN s : s[m].value = k
        BY <1>9
      <3>2. s[m].key = s[n].key
        BY <1>8, <2>1, <2>2, <3>1 DEF Stems
      <3>3. ~LessKey(s[m].key, s[n].key) /\ ~LessKey(s[n].key, s[m].key)
        BY <1>7, <2>1, <3>2, LessIrreflexive
      <3>4. CASE m < n
        BY <1>5, <1>7, <2>1, <3>1, <3>3, <3>4 DEF Stable
      <3>5. CASE m = n
        BY <1>7, <3>1, <3>5
      <3>6. CASE n < m
        <4>1. n + 1 \in DOMAIN s /\ n # Len(s) /\ n + 1 <= m /\ n < n + 1
          BY <1>7, <2>1, <3>6
        <4>2. LessKey(s[n].key, s[n + 1].key)
          BY <1>5, <2>1, <4>1 DEF Stable
        <4>3. ~LessKey(s[m].key, s[n + 1].key)
          BY <1>5, <1>7, <4>1, LessIrreflexive DEF InOrder
        <4>4. QED
          BY <3>2, <4>2, <4>3
      <3>7. QED
        BY <1>7, <2>1, <3>4, <3>5, <3>6
    <2>3. QED
      BY <2>1, <2>2 DEF LastOfKey
  <1>11. \A g \in DOMAIN generator_' :
           \E n \in LastOnes(s) : generator_'[g] = s[n] /\ n \in DOMAIN s
    BY <1>6 DEF Accepts, LastOnes
  <1>12. \A g \in DOMAIN generator_' :
           /\ Stems(generator_'[g], Told) /\ ~generator_'[g].deleted
           /\ LastOfKey(generator_'[g].value, Told)
    BY <1>8, <1>10, <1>11
  <1>13. ASSUME NEW k \in DOMAIN Told, Told[k].key # <<>>, ~Told[k].deleted, LastOfKey(k, Told)
         PROVE  Has(generator_', Told[k].key)
    <2>1. PICK m \in DOMAIN s : s[m].value = k
      BY <1>9
    <2>2. s[m].key = Told[k].key /\ ~s[m].deleted
      BY <1>8, <1>13, <2>1 DEF Stems
    <2>3. ASSUME m # Len(s), s[m + 1].key = s[m].key PROVE FALSE
      <3>1. m + 1 \in DOMAIN s /\ m < m + 1
        BY <1>7, <2>3
      <3>2. ~LessKey(s[m].key, s[m + 1].key)
        BY <1>7, <2>3, LessIrreflexive
      <3>3. s[m].value < s[m + 1].value
        BY <1>5, <3>1, <3>2 DEF Stable
      <3>4. s[m + 1].value \in DOMAIN Told /\ Told[s[m + 1].value].key = Told[k].key
        BY <1>8, <2>2, <2>3, <3>1 DEF Stems
      <3>5. s[m + 1].value <= k
        BY <1>13, <3>4 DEF LastOfKey
      <3>6. QED
        BY <1>7, <2>1, <3>1, <3>3, <3>5
    <2>4. m \in LastOnes(s)
      BY <2>2, <2>3 DEF LastOnes
    <2>5. QED
      BY <1>6, <1>13, <2>2, <2>4 DEF Accepts, Has
  <1>14. GeneratorInv' /\ IndexInv'
    BY <1>1, <1>2, <1>6, <1>12, <1>13 DEF GeneratorInv, IndexInv, Accepts
  <1>15. MemoryInv' /\ ChunksInv' /\ MergeInv'
    BY <1>1 DEF MemoryInv, ChunksInv, MergeInv
  <1>16. QED
    BY <1>2, <1>14, <1>15 DEF CompilerInv

LEMMA StartMergeStep ==
  ASSUME CompilerInv, StartMerge
  PROVE  CompilerInv'
  <1>1. /\ class # "index" /\ phase = "feed" /\ phase' = "merge"
        /\ UNCHANGED <<class, generator_, replacements, current_index_, calls>>
        /\ position' = [i \in DOMAIN chunks' |-> 1]
    BY DEF StartMerge
  <1>2. CallsInv' /\ Told' = Told
    BY <1>1, SameCalls DEF CompilerInv
  <1>3. /\ key_values_ \in Seq(EntryT) /\ Told \in Seq(ToldT) /\ generator_' = <<>>
        /\ chunks \in Seq(Seq(EntryT)) /\ Len(chunks) \in Nat /\ DOMAIN chunks = 1 .. Len(chunks)
        /\ EntriesOf(key_values_, Len(chunks), Told)
        /\ \A c \in DOMAIN chunks : ChunkOf(chunks[c], c, Told)
    BY <1>1 DEF CompilerInv, MemoryInv, CallsInv, ChunksInv
  <1>4. \A k \in DOMAIN Told : Told[k].chunk <= Len(chunks) /\ Told[k].chunk \in Nat
    <2>1. \A k \in DOMAIN Told : Told[k].chunk \in Nat
      BY <1>3, ToldIs
    <2>2. QED
      BY <1>1, <2>1 DEF CompilerInv, MemoryInv
  <1>5. /\ key_values_' = <<>> /\ chunks' \in Seq(Seq(EntryT))
        /\ \A c \in DOMAIN chunks' : ChunkOf(chunks'[c], c, Told)
        /\ \A k \in DOMAIN Told : Told[k].chunk < Len(chunks')
    <2>1. CASE key_values_ # <<>>
      <3>1. CreateChunk(key_values_)
        BY <2>1 DEF StartMerge
      <3>2. PICK sorted \in Sorts(key_values_) : chunks' = Append(chunks, Generate(sorted, DOMAIN sorted))
        BY <3>1 DEF CreateChunk
      <3> DEFINE s == Generate(sorted, DOMAIN sorted)
      <3>3. Chunked(s, key_values_)
        BY <1>3, SortedChunk
      <3> HIDE DEF s
      <3>4. ChunkOf(s, Len(chunks) + 1, Told) /\ s \in Seq(EntryT)
        BY <1>3, <3>3, ChunkFrom DEF Chunked
      <3>5. /\ chunks' \in Seq(Seq(EntryT)) /\ DOMAIN chunks' = DOMAIN chunks \cup {Len(chunks) + 1}
            /\ chunks'[Len(chunks) + 1] = s /\ \A c \in DOMAIN chunks : chunks'[c] = chunks[c]
            /\ Len(chunks') = Len(chunks) + 1
        BY <1>3, <3>2, <3>4 DEF s
      <3>6. QED
        BY <1>3, <1>4, <3>1, <3>4, <3>5 DEF CreateChunk
    <2>2. CASE key_values_ = <<>>
      <3>1. chunks' = chunks /\ key_values_' = <<>>
        BY <2>2 DEF StartMerge
      <3>2. \A k \in DOMAIN Told : Told[k].chunk # Len(chunks)
        BY <1>3, <2>2 DEF EntriesOf
      <3>3. QED
        BY <1>3, <1>4, <3>1, <3>2
    <2>3. QED
      BY <2>1, <2>2
  <1>6. position' \in [DOMAIN chunks' -> Nat \ {0}] /\ \A c \in DOMAIN chunks' : position'[c] = 1
    BY <1>1
  <1>7. MergeInv'
    <2>1. ASSUME NEW c \in DOMAIN chunks', NEW i \in DOMAIN chunks'[c] PROVE ~(i < position'[c])
      <3>1. chunks'[c] \in Seq(EntryT)
        BY <1>5
      <3>2. QED
        BY <1>6, <3>1
    <2>2. QED
      BY <1>1, <1>2, <1>3, <1>5, <1>6, <2>1 DEF MergeInv
  <1>8. GeneratorInv' /\ IndexInv'
    BY <1>1, <1>3 DEF GeneratorInv, IndexInv, Strict
  <1>9. MemoryInv' /\ ChunksInv'
    BY <1>1, <1>2, <1>5 DEF MemoryInv, ChunksInv
  <1>10. QED
    BY <1>2, <1>7, <1>8, <1>9 DEF CompilerInv

\* Where the iterators are while the chunks are merged
LEMMA LiveAt ==
  ASSUME CompilerInv, phase = "merge"
  PROVE  /\ chunks \in Seq(Seq(EntryT)) /\ DOMAIN chunks = 1 .. Len(chunks) /\ Len(chunks) \in Nat
         /\ Live \subseteq DOMAIN chunks
         /\ \A c \in DOMAIN chunks : chunks[c] \in Seq(EntryT) /\ position[c] \in Nat \ {0}
         /\ \A c \in DOMAIN chunks : \A i \in DOMAIN chunks[c] :
              chunks[c][i] \in EntryT /\ chunks[c][i].key \in Text /\ chunks[c][i].key # <<>>
         /\ \A c \in Live : \/ chunks[c] = <<>> /\ KeyAt(c) = <<>>
                            \/ /\ chunks[c] # <<>> /\ position[c] \in DOMAIN chunks[c]
                               /\ KeyAt(c) = chunks[c][position[c]].key
         /\ \A c \in Live : KeyAt(c) \in Text
         /\ \A c \in DOMAIN chunks : \A i \in DOMAIN chunks[c] : i >= position[c] => c \in Live
  <1>1. chunks \in Seq(Seq(EntryT)) /\ DOMAIN chunks = 1 .. Len(chunks) /\ Len(chunks) \in Nat
    BY DEF CompilerInv, ChunksInv
  <1>2. \A c \in DOMAIN chunks : chunks[c] \in Seq(EntryT) /\ position[c] \in Nat \ {0}
    BY <1>1 DEF CompilerInv, MergeInv
  <1>3. \A c \in DOMAIN chunks : \A i \in DOMAIN chunks[c] :
          chunks[c][i] \in EntryT /\ chunks[c][i].key \in Text /\ chunks[c][i].key # <<>>
    <2>1. \A c \in DOMAIN chunks : Strict(chunks[c])
      BY DEF CompilerInv, ChunksInv, ChunkOf
    <2>2. \A c \in DOMAIN chunks : \A i \in DOMAIN chunks[c] : chunks[c][i] \in EntryT
      BY <1>2
    <2>3. QED
      BY <2>1, <2>2, KeyIsText DEF Strict
  <1>4. Live \subseteq DOMAIN chunks
    BY DEF Live
  <1>5. \A c \in DOMAIN chunks : DOMAIN chunks[c] = 1 .. Len(chunks[c]) /\ Len(chunks[c]) \in Nat
    BY <1>2
  <1>6. \A c \in Live : \/ chunks[c] = <<>> /\ KeyAt(c) = <<>>
                        \/ /\ chunks[c] # <<>> /\ position[c] \in DOMAIN chunks[c]
                           /\ KeyAt(c) = chunks[c][position[c]].key
    BY <1>2, <1>4, <1>5 DEF Live, KeyAt
  <1>7. \A c \in Live : KeyAt(c) \in Text
    <2>1. <<>> \in Text
      BY DEF Text
    <2>2. QED
      BY <1>3, <1>4, <1>6, <2>1
  <1>8. \A c \in DOMAIN chunks : \A i \in DOMAIN chunks[c] : i >= position[c] => c \in Live
    BY <1>2, <1>5 DEF Live
  <1>9. QED
    BY <1>1, <1>2, <1>3, <1>4, <1>6, <1>7, <1>8

Before(i, j) == LessKey(KeyAt(i), KeyAt(j)) \/ (KeyAt(i) = KeyAt(j) /\ i > j)

\* The queue has a top.
LEMMA TopIs ==
  ASSUME CompilerInv, phase = "merge", Live # {}
  PROVE  Top \in Live /\ \A j \in Live \ {Top} : Before(Top, j)
  <1> DEFINE N == Len(chunks)
             Up(n) == {i \in Live : i <= n}
             IsTop(i, n) == i \in Up(n) /\ \A j \in Up(n) \ {i} : Before(i, j)
             T == {n \in 0 .. N : Up(n) # {} => \E i \in Up(n) : IsTop(i, n)}
  <1>1. /\ N \in Nat /\ \A i \in Live : KeyAt(i) \in Text
        /\ \A i \in Live : i \in Nat /\ 1 <= i /\ i <= N
    <2>1. Live \subseteq 1 .. N /\ N \in Nat /\ \A i \in Live : KeyAt(i) \in Text
      BY LiveAt
    <2>2. QED
      BY <2>1
  <1>2. 0 \in T
    <2>1. Up(0) = {}
      BY <1>1
    <2>2. 0 \in 0 .. N
      BY <1>1
    <2> HIDE DEF Up
    <2>3. QED
      BY <2>1, <2>2
  <1>3. ASSUME NEW n \in 1 .. N, n - 1 \in T PROVE n \in T
    <2>1. n \in 0 .. N /\ n \in Nat /\ Up(n - 1) = Up(n) \ {n} /\ (n \in Live <=> n \in Up(n))
      <3>1. n \in 0 .. N /\ n \in Nat
        BY <1>1
      <3>2. \A i \in Live : i <= n - 1 <=> i <= n /\ i # n
        BY <1>1, <3>1
      <3>3. Up(n - 1) = Up(n) \ {n}
        BY <3>2
      <3>4. n \in Live <=> n \in Up(n)
        BY <3>1
      <3>5. QED
        BY <3>1, <3>3, <3>4
    <2>2. CASE n \notin Live
      <3>1. Up(n) = Up(n - 1)
        BY <2>1, <2>2
      <3>2. QED
        BY <1>3, <2>1, <3>1
    <2>3. CASE n \in Live /\ Up(n - 1) = {}
      <3>1. IsTop(n, n)
        BY <2>1, <2>3
      <3>2. QED
        BY <2>1, <2>3, <3>1
    <2>4. CASE n \in Live /\ Up(n - 1) # {}
      <3>1. PICK i \in Up(n - 1) : IsTop(i, n - 1)
        BY <1>3, <2>4
      <3>2. /\ i \in Live /\ i \in Up(n) /\ KeyAt(i) \in Text /\ KeyAt(n) \in Text
            /\ n \in Up(n) /\ i # n
        BY <1>1, <2>1, <2>4, <3>1
      <3>3. \A j \in Up(n) \ {i, n} : Before(i, j)
        BY <2>1, <3>1
      <3>4. \A j \in Up(n) \ {n} : j \in Live /\ KeyAt(j) \in Text /\ n > j
        BY <1>1, <2>1
      <3> HIDE DEF Up
      <3>5. CASE LessKey(KeyAt(i), KeyAt(n))
        <4>1. IsTop(i, n)
          BY <3>2, <3>3, <3>5 DEF Before
        <4>2. QED
          BY <2>1, <3>2, <4>1
      <3>6. CASE KeyAt(i) = KeyAt(n) \/ LessKey(KeyAt(n), KeyAt(i))
        <4>1. ASSUME NEW j \in Up(n) \ {n} PROVE Before(n, j)
          <5>1. KeyAt(j) \in Text /\ n > j
            BY <3>4
          <5>2. CASE j = i
            BY <3>6, <5>1, <5>2 DEF Before
          <5>3. CASE j # i
            <6>1. LessKey(KeyAt(i), KeyAt(j)) \/ KeyAt(i) = KeyAt(j)
              BY <3>3, <5>3 DEF Before
            <6>2. QED
              BY <3>2, <3>6, <5>1, <6>1, LessTransitive DEF Before
          <5>4. QED
            BY <5>2, <5>3
        <4>2. IsTop(n, n)
          BY <3>2, <4>1
        <4>3. QED
          BY <2>1, <3>2, <4>2
      <3>7. QED
        BY <3>2, <3>5, <3>6, LessTotal
    <2>5. QED
      BY <2>2, <2>3, <2>4
  <1>4. N \in T
    <2>1. N \in 0 .. N
      BY <1>1
    <2> HIDE DEF T, N
    <2>2. QED
      BY <1>1, <1>2, <1>3, <2>1, Induction
  <1>5. Up(N) = Live
    BY <1>1
  <1>6. \E i \in Live : \A j \in Live \ {i} : Before(i, j)
    BY <1>4, <1>5
  <1>7. QED
    BY <1>6 DEF Top, Before

\* An empty chunk is taken off the queue: the others stay where they are.
LEMMA MergeEmptyStep ==
  ASSUME CompilerInv, MergeNext, chunks[Top] = <<>>
  PROVE  CompilerInv'
  <1>1. phase = "merge" /\ Live # {} /\ Top \in Live
    BY TopIs DEF MergeNext
  <1>2. UNCHANGED <<class, phase, key_values_, chunks, generator_, replacements, current_index_, calls>>
    BY DEF MergeNext
  <1>3. CallsInv' /\ Told' = Told
    BY <1>2, SameCalls DEF CompilerInv, CallsInv
  <1>4. KeyAt(Top) = <<>>
    BY <1>1, LiveAt
  <1>5. \A c \in DOMAIN chunks : chunks[c] # <<>> /\ c \in Live => KeyAt(c) # <<>>
    BY <1>1, LiveAt
  <1>6. /\ position' = [i \in DOMAIN chunks |->
                          position[i] + IF i \in Live /\ KeyAt(i) = KeyAt(Top) THEN 1 ELSE 0]
        /\ \A c \in DOMAIN chunks : position[c] \in Nat \ {0}
    BY <1>1, LiveAt DEF MergeNext
  <1>7. position' \in [DOMAIN chunks -> Nat \ {0}]
    BY <1>6
  <1>8. \A c \in DOMAIN chunks : chunks[c] # <<>> => position'[c] = position[c]
    BY <1>4, <1>5, <1>6
  <1>9. \A c \in DOMAIN chunks : \A i \in DOMAIN chunks[c] : chunks[c] # <<>>
    OBVIOUS
  <1>10. MergeInv'
    BY <1>1, <1>2, <1>3, <1>7, <1>8, <1>9 DEF CompilerInv, MergeInv
  <1>11. MemoryInv' /\ ChunksInv' /\ GeneratorInv' /\ IndexInv'
    BY <1>1, <1>2, <1>3 DEF CompilerInv, MemoryInv, ChunksInv, GeneratorInv, IndexInv
  <1>12. QED
    BY <1>3, <1>10, <1>11 DEF CompilerInv

LEMMA MergeEntryStep ==
  ASSUME CompilerInv, MergeNext, chunks[Top] # <<>>
  PROVE  CompilerInv'
  <1> DEFINE t == Top
             p == position[t]
             e == chunks[t][p]
  <1>1. phase = "merge" /\ Live # {} /\ t \in Live /\ \A j \in Live \ {t} : Before(t, j)
    BY TopIs DEF MergeNext
  <1>2. UNCHANGED <<class, phase, key_values_, chunks, replacements, current_index_, calls>>
    BY DEF MergeNext
  <1>3. CallsInv' /\ Told' = Told
    BY <1>2, SameCalls DEF CompilerInv, CallsInv
  <1>4. /\ chunks \in Seq(Seq(EntryT)) /\ DOMAIN chunks = 1 .. Len(chunks) /\ Len(chunks) \in Nat
        /\ Live \subseteq DOMAIN chunks
        /\ \A c \in DOMAIN chunks : chunks[c] \in Seq(EntryT) /\ position[c] \in Nat \ {0}
        /\ \A c \in DOMAIN chunks : \A i \in DOMAIN chunks[c] :
             chunks[c][i] \in EntryT /\ chunks[c][i].key \in Text /\ chunks[c][i].key # <<>>
        /\ \A c \in Live : \/ chunks[c] = <<>> /\ KeyAt(c) = <<>>
                           \/ /\ chunks[c] # <<>> /\ position[c] \in DOMAIN chunks[c]
                              /\ KeyAt(c) = chunks[c][position[c]].key
        /\ \A c \in Live : KeyAt(c) \in Text
        /\ \A c \in DOMAIN chunks : \A i \in DOMAIN chunks[c] : i >= position[c] => c \in Live
    BY <1>1, LiveAt
  <1>5. /\ t \in DOMAIN chunks /\ p \in DOMAIN chunks[t] /\ KeyAt(t) = e.key
        /\ e \in EntryT /\ e.key \in Text /\ e.key # <<>> /\ p \in Nat
    BY <1>1, <1>4
  <1>6. /\ position' = [i \in DOMAIN chunks |->
                          position[i] + IF i \in Live /\ KeyAt(i) = KeyAt(t) THEN 1 ELSE 0]
        /\ generator_' = Accept(generator_, e)
    BY DEF MergeNext
  <1> HIDE DEF e, p, t
  <1>7. /\ generator_ \in Seq(EntryT) /\ Strict(generator_) /\ Len(generator_) \in Nat
        /\ DOMAIN generator_ = 1 .. Len(generator_)
        /\ \A g \in DOMAIN generator_ : generator_[g] \in EntryT /\ generator_[g].key \in Text
    <2>1. generator_ \in Seq(EntryT) /\ Strict(generator_)
      BY DEF CompilerInv, GeneratorInv
    <2>2. QED
      BY <2>1, KeyIsText
  <1>8. /\ \A c \in DOMAIN chunks : \A i \in DOMAIN chunks[c] :
             i < position[c] => Has(generator_, chunks[c][i].key)
        /\ \A c \in DOMAIN chunks : \A i \in DOMAIN chunks[c] : i >= position[c] =>
             \A g \in DOMAIN generator_ : LessKey(generator_[g].key, chunks[c][i].key)
        /\ \A k \in DOMAIN Told : Told[k].chunk < Len(chunks)
    BY <1>1 DEF CompilerInv, MergeInv
  <1>9. \A g \in DOMAIN generator_ : LessKey(generator_[g].key, e.key)
    BY <1>5, <1>8 DEF e, p
  <1>10. generator_' = Append(generator_, e)
    <2>1. CASE generator_ = <<>>
      BY <1>5, <1>6, <2>1 DEF Accept
    <2>2. CASE generator_ # <<>>
      <3>1. Len(generator_) \in DOMAIN generator_ /\ Last(generator_) = generator_[Len(generator_)]
        BY <1>7, <2>2 DEF Last
      <3>2. Last(generator_).key # e.key
        BY <1>5, <1>9, <3>1, LessIrreflexive
      <3>3. QED
        BY <1>6, <2>2, <3>2 DEF Accept
    <2>3. QED
      BY <2>1, <2>2
  <1>11. /\ generator_' \in Seq(EntryT) /\ DOMAIN generator_' = DOMAIN generator_ \cup {Len(generator_) + 1}
         /\ generator_'[Len(generator_) + 1] = e
         /\ \A g \in DOMAIN generator_ : generator_'[g] = generator_[g]
    BY <1>5, <1>7, <1>10
  <1>12. Strict(generator_')
    <2>1. \A i \in DOMAIN generator_' : generator_'[i].key # <<>>
      BY <1>5, <1>7, <1>11 DEF Strict
    <2>2. ASSUME NEW i \in DOMAIN generator_', NEW j \in DOMAIN generator_', i < j
          PROVE  LessKey(generator_'[i].key, generator_'[j].key)
      <3>1. i \in DOMAIN generator_
        BY <1>7, <1>11, <2>2
      <3>2. CASE j \in DOMAIN generator_
        BY <1>7, <1>11, <2>2, <3>1, <3>2 DEF Strict
      <3>3. CASE j = Len(generator_) + 1
        BY <1>9, <1>11, <3>1, <3>3
      <3>4. QED
        BY <1>11, <3>2, <3>3
    <2>3. QED
      BY <2>1, <2>2 DEF Strict
  \* Nothing on the queue comes before the top.
  <1>13. \A c \in Live : KeyAt(c) = e.key \/ LessKey(e.key, KeyAt(c))
    BY <1>1, <1>5 DEF Before
  <1>14. ASSUME NEW c \in DOMAIN chunks, NEW i \in DOMAIN chunks[c], i >= position[c]
         PROVE  /\ c \in Live /\ KeyAt(c) = chunks[c][position[c]].key /\ KeyAt(c) \in Text
                /\ chunks[c][i].key \in Text /\ i \in Nat
                /\ i = position[c] \/ LessKey(KeyAt(c), chunks[c][i].key)
    <2>1. c \in Live /\ chunks[c] # <<>> /\ chunks[c] \in Seq(EntryT)
      BY <1>4, <1>14
    <2>2. position[c] \in DOMAIN chunks[c] /\ KeyAt(c) = chunks[c][position[c]].key
          /\ i \in Nat /\ position[c] \in Nat
      BY <1>4, <2>1
    <2>3. Strict(chunks[c])
      BY DEF CompilerInv, ChunksInv, ChunkOf
    <2>4. i = position[c] \/ LessKey(KeyAt(c), chunks[c][i].key)
      BY <1>14, <2>2, <2>3 DEF Strict
    <2>5. QED
      BY <1>4, <2>1, <2>2, <2>4
  <1>15. Newest(e, Told)
    <2>1. SUFFICES ASSUME NEW k \in DOMAIN Told, Told[k].key = e.key
                   PROVE  Told[k].chunk <= Told[e.value].chunk
      BY DEF Newest
    <2> DEFINE c == Told[k].chunk + 1
    <2>2. Told \in Seq(ToldT)
      BY DEF CompilerInv, CallsInv
    <2>3. Told[k].chunk \in Nat /\ c \in DOMAIN chunks /\ Told[k].chunk = c - 1 /\ c \in Nat
      BY <1>4, <1>8, <2>2, ToldIs
    <2> HIDE DEF c
    <2>4. ChunkOf(chunks[c], c, Told)
      BY <2>3 DEF CompilerInv, ChunksInv
    <2>5. PICK i \in DOMAIN chunks[c] : chunks[c][i].key = e.key
      BY <1>5, <2>1, <2>3, <2>4 DEF ChunkOf, Has
    <2>6. ~(i < position[c])
      <3>1. SUFFICES ASSUME i < position[c] PROVE FALSE
        OBVIOUS
      <3>2. PICK g \in DOMAIN generator_ : generator_[g].key = e.key
        BY <1>8, <2>3, <2>5, <3>1 DEF Has
      <3>3. QED
        BY <1>5, <1>9, <3>2, LessIrreflexive
    <2>7. i >= position[c]
      <3>1. i \in Nat /\ position[c] \in Nat
        BY <1>4, <2>3
      <3>2. QED
        BY <2>6, <3>1
    <2>8. KeyAt(c) = e.key /\ c \in Live
      <3>1. /\ c \in Live /\ KeyAt(c) = chunks[c][position[c]].key /\ KeyAt(c) \in Text
            /\ i = position[c] \/ LessKey(KeyAt(c), chunks[c][i].key)
        BY <1>14, <2>3, <2>7
      <3>2. KeyAt(c) = e.key \/ LessKey(KeyAt(c), e.key)
        BY <2>5, <3>1
      <3>3. ~(LessKey(KeyAt(c), e.key) /\ LessKey(e.key, KeyAt(c)))
        BY <1>5, <3>1, LessTransitive, LessIrreflexive
      <3>4. QED
        BY <1>13, <3>1, <3>2, <3>3
    <2>9. c = t \/ t > c
      BY <1>1, <1>5, <2>8, LessIrreflexive DEF Before
    <2>10. Told[e.value].chunk = t - 1
      <3>1. ChunkOf(chunks[t], t, Told)
        BY <1>5 DEF CompilerInv, ChunksInv
      <3>2. QED
        BY <1>5, <3>1 DEF ChunkOf, e
    <2>11. t \in Nat
      BY <1>4, <1>5
    <2>12. QED
      BY <2>3, <2>9, <2>10, <2>11
  <1>16. Stems(e, Told)
    <2>1. ChunkOf(chunks[t], t, Told)
      BY <1>5 DEF CompilerInv, ChunksInv
    <2>2. QED
      BY <1>5, <2>1 DEF ChunkOf, e
  <1>17. GeneratorInv'
    <2>1. \A g \in DOMAIN generator_' : Stems(generator_'[g], Told)
      BY <1>11, <1>16 DEF CompilerInv, GeneratorInv
    <2>2. class # "index" => \A g \in DOMAIN generator_' : Newest(generator_'[g], Told)
      BY <1>11, <1>15 DEF CompilerInv, GeneratorInv
    <2>3. QED
      BY <1>1, <1>2, <1>3, <1>11, <1>12, <2>1, <2>2 DEF GeneratorInv
  <1>18. /\ position' \in [DOMAIN chunks -> Nat \ {0}]
         /\ \A c \in DOMAIN chunks :
              IF c \in Live /\ KeyAt(c) = e.key THEN position'[c] = position[c] + 1
              ELSE position'[c] = position[c]
    <2>1. \A c \in DOMAIN chunks :
            IF c \in Live /\ KeyAt(c) = e.key THEN position'[c] = position[c] + 1
            ELSE position'[c] = position[c] + 0
      BY <1>5, <1>6
    <2>2. \A c \in DOMAIN chunks : position[c] \in Nat \ {0}
      BY <1>4
    <2>3. \A c \in DOMAIN chunks :
            IF c \in Live /\ KeyAt(c) = e.key THEN position'[c] = position[c] + 1
            ELSE position'[c] = position[c]
      BY <2>1, <2>2
    <2>4. \A c \in DOMAIN chunks : position'[c] \in Nat \ {0}
      BY <2>2, <2>3
    <2>5. position' = [c \in DOMAIN chunks |-> position'[c]]
      BY <1>6
    <2>6. position' \in [DOMAIN chunks -> Nat \ {0}]
      BY <2>4, <2>5, Zenon
    <2>7. QED
      BY <2>3, <2>6
  <1>19. \A key : Has(generator_, key) => Has(generator_', key)
    BY <1>11 DEF Has
  <1>20. Has(generator_', e.key)
    BY <1>11 DEF Has
  <1>21. ASSUME NEW c \in DOMAIN chunks, NEW i \in DOMAIN chunks[c], i < position'[c]
         PROVE  Has(generator_', chunks[c][i].key)
    <2>1. CASE i < position[c]
      BY <1>8, <1>19, <2>1
    <2>2. CASE ~(i < position[c])
      <3>1. i \in Nat /\ position[c] \in Nat
        BY <1>4
      <3>2. c \in Live /\ KeyAt(c) = e.key /\ i = position[c] /\ i >= position[c]
        BY <1>18, <1>21, <2>2, <3>1
      <3>3. chunks[c][i].key = e.key
        BY <1>14, <3>2
      <3>4. QED
        BY <1>20, <3>3
    <2>3. QED
      BY <2>1, <2>2
  <1>22. ASSUME NEW c \in DOMAIN chunks, NEW i \in DOMAIN chunks[c], i >= position'[c],
                NEW g \in DOMAIN generator_'
         PROVE  LessKey(generator_'[g].key, chunks[c][i].key)
    <2>1. i \in Nat /\ position[c] \in Nat
      BY <1>4
    <2>2. i >= position[c]
      BY <1>18, <1>22, <2>1
    <2>3. /\ c \in Live /\ KeyAt(c) \in Text /\ chunks[c][i].key \in Text
          /\ i = position[c] \/ LessKey(KeyAt(c), chunks[c][i].key)
          /\ KeyAt(c) = chunks[c][position[c]].key
      BY <1>14, <2>2
    <2>4. LessKey(e.key, chunks[c][i].key)
      <3>1. CASE KeyAt(c) = e.key
        BY <1>18, <1>22, <2>1, <2>3, <3>1
      <3>2. CASE LessKey(e.key, KeyAt(c))
        BY <1>5, <2>3, <3>2, LessTransitive
      <3>3. QED
        BY <1>13, <2>3, <3>1, <3>2
    <2>5. QED
      BY <1>8, <1>11, <2>2, <2>4
  <1>23. MergeInv'
    BY <1>1, <1>2, <1>3, <1>8, <1>18, <1>21, <1>22 DEF MergeInv
  <1>24. MemoryInv' /\ ChunksInv' /\ IndexInv'
    BY <1>1, <1>2, <1>3 DEF CompilerInv, MemoryInv, ChunksInv, IndexInv
  <1>25. QED
    BY <1>3, <1>17, <1>23, <1>24 DEF CompilerInv

LEMMA FinishMergeStep ==
  ASSUME CompilerInv, FinishMerge
  PROVE  CompilerInv'
  <1>1. /\ phase = "merge" /\ Live = {} /\ phase' = "compiled" /\ chunks' = <<>>
        /\ UNCHANGED <<class, key_values_, generator_, replacements, current_index_, calls>>
    BY DEF FinishMerge
  <1>2. CallsInv' /\ Told' = Told
    BY <1>1, SameCalls DEF CompilerInv
  <1>3. class # "index"
    BY <1>1 DEF CompilerInv, ChunksInv
  <1>4. ASSUME NEW k \in DOMAIN Told, Told[k].key # <<>> PROVE Has(generator_, Told[k].key)
    <2> DEFINE c == Told[k].chunk + 1
    <2>1. Told \in Seq(ToldT) /\ Told[k].chunk < Len(chunks)
      BY <1>1 DEF CompilerInv, CallsInv, MergeInv
    <2>2. Told[k].chunk \in Nat /\ c \in DOMAIN chunks /\ Told[k].chunk = c - 1
      BY <1>1, <2>1, ToldIs, LiveAt
    <2> HIDE DEF c
    <2>3. ChunkOf(chunks[c], c, Told)
      BY <2>2 DEF CompilerInv, ChunksInv
    <2>4. PICK i \in DOMAIN chunks[c] : chunks[c][i].key = Told[k].key
      BY <1>4, <2>2, <2>3 DEF ChunkOf, Has
    <2>5. ~(i >= position[c]) /\ i \in Nat /\ position[c] \in Nat
      BY <1>1, <2>2, LiveAt
    <2>6. i < position[c]
      BY <2>5
    <2>7. QED
      BY <1>1, <2>2, <2>4, <2>6 DEF CompilerInv, MergeInv
  <1>5. GeneratorInv'
    BY <1>1, <1>2, <1>4 DEF CompilerInv, GeneratorInv
  <1>6. MemoryInv' /\ ChunksInv' /\ MergeInv' /\ IndexInv'
    BY <1>1, <1>3 DEF CompilerInv, MemoryInv, ChunksInv, MergeInv, IndexInv
  <1>7. QED
    BY <1>2, <1>5, <1>6 DEF CompilerInv

LEMMA CompilerInit == Init => CompilerInv
  <1> SUFFICES ASSUME Init PROVE CompilerInv
    OBVIOUS
  <1>1. replacements \in [{} -> Text] /\ {} \in SUBSET MetaValues
    BY DEF Init
  <1>2. CodeBook(replacements, current_index_)
    BY <1>1 DEF Init, CodeBook, Books
  <1>3. Told = <<>> /\ calls = <<>>
    BY DEF Init, Told
  <1>4. CallsInv
    BY <1>2, <1>3 DEF Init, CallsInv
  <1>5. MemoryInv /\ ChunksInv /\ MergeInv /\ GeneratorInv /\ IndexInv
    BY <1>3 DEF Init, MemoryInv, ChunksInv, MergeInv, GeneratorInv, IndexInv, EntriesOf, Strict
  <1>6. QED
    BY <1>4, <1>5 DEF CompilerInv

LEMMA CompilerStep ==
  ASSUME CompilerInv, [Next]_vars
  PROVE  CompilerInv'
  <1>1. ASSUME NEW key \in Keys, Add(key) PROVE CompilerInv'
    BY <1>1, AddStep DEF Add
  <1>2. ASSUME NEW key \in Keys, Delete(key) PROVE CompilerInv'
    <2>1. CASE phase = "feed"
      BY <1>2, <2>1, AddStep DEF Delete
    <2>2. CASE phase # "feed"
      BY <1>2, <2>2, LateDeleteStep
    <2>3. QED
      BY <2>1, <2>2
  <1>3. CASE MergeNext
    BY <1>3, MergeEmptyStep, MergeEntryStep
  <1>4. CASE UNCHANGED vars
    <2>1. /\ UNCHANGED <<class, calls, replacements, current_index_>>
          /\ UNCHANGED <<phase, key_values_, chunks, position, generator_>>
      BY <1>4 DEF vars
    <2>2. CallsInv' /\ Told' = Told
      BY <2>1, SameCalls DEF CompilerInv, CallsInv
    <2>3. QED
      BY <2>1, <2>2 DEF CompilerInv, MemoryInv, ChunksInv, MergeInv, GeneratorInv, IndexInv
  <1>5. QED
    BY <1>1, <1>2, <1>3, <1>4, AddSecondaryStep, CompileSingleChunkStep, CompileIndexStep,
       StartMergeStep, FinishMergeStep DEF Next

\* Every state of a compiler satisfies the invariant.
THEOREM CompilerInvariant == Spec => []CompilerInv
  <1>1. Init => CompilerInv
    BY CompilerInit
  <1>2. CompilerInv /\ [Next]_vars => CompilerInv'
    BY CompilerStep
  <1>3. QED
    BY <1>1, <1>2, PTL DEF Spec

-----------------------------------------------------------------------------
\* What the invariant says of the generators and of lookups

LEMMA MaxIs ==
  ASSUME NEW N \in Nat, NEW S \in SUBSET (1 .. N), S # {}
  PROVE  Max(S) \in S /\ \A y \in S : y <= Max(S)
  <1> DEFINE B == {n \in Nat : N - n \in S}
  <1>1. PICK s \in S : s \in 1 .. N
    OBVIOUS
  <1>2. N - s \in B
    <2>1. N - s \in Nat /\ N - (N - s) = s
      BY <1>1
    <2>2. QED
      BY <2>1
  <1>3. PICK m \in B : \A n \in B : m <= n
    <2>1. B \in SUBSET Nat /\ B # {}
      BY <1>2
    <2> HIDE DEF B
    <2>2. QED
      BY <2>1, LeastNumber
  <1>4. N - m \in S /\ m \in Nat
    BY <1>3
  <1>5. ASSUME NEW y \in S PROVE N - m >= y
    <2>1. y \in 1 .. N /\ N - y \in Nat /\ N - (N - y) = y
      OBVIOUS
    <2>2. N - y \in B
      BY <2>1
    <2>3. m <= N - y
      BY <1>3, <2>2
    <2>4. QED
      BY <1>4, <2>1, <2>3
  <1>6. \E x \in S : \A y \in S : x >= y
    BY <1>4, <1>5
  <1>7. Max(S) \in S /\ \A y \in S : Max(S) >= y
    BY <1>6 DEF Max
  <1>8. \A y \in S : y \in Nat
    OBVIOUS
  <1>9. QED
    BY <1>7, <1>8

\* A generator has a key once.
LEMMA OnePlace ==
  ASSUME NEW s \in Seq(EntryT), Strict(s), NEW i \in DOMAIN s, NEW j \in DOMAIN s,
         s[i].key = s[j].key
  PROVE  i = j
  <1>1. i \in Nat /\ j \in Nat /\ s[i] \in EntryT /\ s[j] \in EntryT
    OBVIOUS
  <1>2. s[i].key \in Text /\ s[j].key \in Text
    BY <1>1, KeyIsText
  <1>3. ~LessKey(s[i].key, s[j].key) /\ ~LessKey(s[j].key, s[i].key)
    BY <1>2, LessIrreflexive
  <1>4. QED
    BY <1>1, <1>3 DEF Strict

LEMMA AscendingHolds == CompilerInv => Ascending
  <1>1. SUFFICES ASSUME CompilerInv, NEW s \in Range(chunks) \cup {generator_}
                 PROVE  \A i \in 1 .. Len(s) - 1 : LessKey(s[i].key, s[i + 1].key)
    BY DEF Ascending
  <1>2. s \in Seq(EntryT) /\ Strict(s)
    <2>1. CASE s = generator_
      BY <1>1, <2>1 DEF CompilerInv, GeneratorInv
    <2>2. CASE s \in Range(chunks)
      <3>1. PICK c \in DOMAIN chunks : s = chunks[c]
        BY <2>2 DEF Range
      <3>2. QED
        BY <1>1, <3>1 DEF CompilerInv, ChunksInv, ChunkOf
    <2>3. QED
      BY <2>1, <2>2
  <1>3. \A i \in 1 .. Len(s) - 1 : i \in DOMAIN s /\ i + 1 \in DOMAIN s /\ i < i + 1
    BY <1>2
  <1>4. QED
    BY <1>2, <1>3 DEF Strict

LEMMA LastCallHolds == CompilerInv => LastCallWins
  <1> DEFINE of(key) == CallsOf(key, <<>>)
  <1>1. SUFFICES ASSUME CompilerInv, class = "index", phase = "compiled", NEW key \in Keys, key # <<>>
                 PROVE  Find(key) = IF of(key) = {} \/ calls[Max(of(key))].deleted THEN {}
                                    ELSE {Max(of(key))}
    BY DEF LastCallWins
  <1> DEFINE S == of(key)
  <1>2. /\ calls \in Seq(CallT) /\ DOMAIN calls = 1 .. Len(calls) /\ Len(calls) \in Nat
        /\ \A k \in DOMAIN calls : calls[k].meta = <<>>
    BY <1>1 DEF CompilerInv, CallsInv
  <1>3. /\ DOMAIN Told = DOMAIN calls
        /\ \A k \in DOMAIN calls : Told[k].key = calls[k].key /\ Told[k].deleted = calls[k].deleted
    BY <1>1 DEF Told, FullKey
  <1>4. S = {k \in DOMAIN Told : Told[k].key = key}
    BY <1>2, <1>3 DEF CallsOf
  <1>5. S \in SUBSET (1 .. Len(calls))
    BY <1>2, <1>3, <1>4
  <1>6. /\ \A g \in DOMAIN generator_ : Stems(generator_[g], Told)
        /\ \A g \in DOMAIN generator_ :
             ~generator_[g].deleted /\ LastOfKey(generator_[g].value, Told)
        /\ \A k \in DOMAIN Told : Told[k].key # <<>> /\ ~Told[k].deleted /\ LastOfKey(k, Told) =>
             Has(generator_, Told[k].key)
    BY <1>1 DEF CompilerInv, GeneratorInv, IndexInv
  <1> HIDE DEF of, S
  <1>7. ASSUME NEW v \in Find(key)
        PROVE  v \in S /\ ~calls[v].deleted /\ v = Max(S)
    <2>1. PICK g \in DOMAIN generator_ : generator_[g].key = key /\ v = generator_[g].value
      BY <1>7 DEF Find
    <2>2. v \in DOMAIN Told /\ Told[v].key = key /\ ~Told[v].deleted
      BY <1>6, <2>1 DEF Stems
    <2>3. v \in S /\ ~calls[v].deleted
      BY <1>3, <1>4, <2>2
    <2>4. \A k \in S : k <= v
      BY <1>4, <1>6, <2>1, <2>2 DEF LastOfKey
    <2>5. Max(S) \in S /\ v <= Max(S)
      BY <1>2, <1>5, <2>3, MaxIs
    <2>6. v \in Nat /\ Max(S) \in Nat
      <3>1. \A k \in 1 .. Len(calls) : k \in Nat
        BY <1>2
      <3>2. QED
        BY <1>5, <2>3, <2>5, <3>1, Zenon
    <2>7. v = Max(S)
      BY <2>4, <2>5, <2>6
    <2>8. QED
      BY <2>3, <2>7
  <1>8. CASE S = {} \/ calls[Max(S)].deleted
    BY <1>7, <1>8 DEF S
  <1>9. CASE ~(S = {} \/ calls[Max(S)].deleted)
    <2> DEFINE k == Max(S)
    <2>1. k \in S /\ \A j \in S : j <= k
      BY <1>2, <1>5, <1>9, MaxIs
    <2>2. k \in DOMAIN Told /\ Told[k].key = key /\ ~Told[k].deleted
      BY <1>3, <1>4, <1>9, <2>1
    <2> HIDE DEF k
    <2>3. LastOfKey(k, Told)
      BY <1>4, <2>1, <2>2 DEF LastOfKey
    <2>4. PICK g \in DOMAIN generator_ : generator_[g].key = key
      BY <1>1, <1>6, <2>2, <2>3 DEF Has
    <2>5. generator_[g].value \in Find(key)
      BY <2>4 DEF Find
    <2>6. Find(key) = {k}
      BY <1>7, <2>5 DEF k
    <2>7. QED
      BY <1>9, <2>6 DEF k, S
  <1>10. QED
    BY <1>8, <1>9

LEMMA LastChunkHolds == CompilerInv => LastChunkWins
  <1>1. SUFFICES ASSUME CompilerInv, class # "index", phase = "compiled", NEW key \in Keys,
                        NEW meta \in IF class = "secondary" THEN Metas ELSE {<<>>}
                 PROVE  LET of    == CallsOf(key, meta)
                            last  == {i \in of : calls[i].chunk = calls[Max(of)].chunk}
                            found == FindSecondary(meta, key)
                        IN  IF of = {} \/ (key = <<>> /\ (class = "dictionary" \/ NumSecondary = 0))
                            THEN found = {}
                            ELSE Cardinality(found) = 1 /\ found \subseteq last
    BY DEF LastChunkWins
  <1> DEFINE of    == CallsOf(key, meta)
             last  == {i \in of : calls[i].chunk = calls[Max(of)].chunk}
             found == FindSecondary(meta, key)
             bare  == key = <<>> /\ (class = "dictionary" \/ NumSecondary = 0)
  <1>2. SUFFICES IF of = {} \/ bare THEN found = {}
                 ELSE Cardinality(found) = 1 /\ found \subseteq last
    OBVIOUS
  <1>3. /\ calls \in Seq(CallT) /\ DOMAIN calls = 1 .. Len(calls) /\ Len(calls) \in Nat
        /\ \A k \in DOMAIN calls : calls[k].key \in Text /\ calls[k].chunk \in Nat
        /\ CodeBook(replacements, current_index_) /\ class \in {"dictionary", "secondary"}
        /\ \A k \in DOMAIN calls :
             IF class = "secondary"
             THEN calls[k].meta \in Metas /\ KnownMeta(replacements, calls[k].meta, NumSecondary)
             ELSE calls[k].meta = <<>>
    <2>1. calls \in Seq(CallT)
      BY <1>1 DEF CompilerInv, CallsInv
    <2>2. \A k \in DOMAIN calls : calls[k] \in CallT
      BY <2>1
    <2>3. \A k \in DOMAIN calls : calls[k].key \in Text /\ calls[k].chunk \in Nat
      BY <2>2 DEF CallT
    <2>4. QED
      BY <1>1, <2>1, <2>3 DEF CompilerInv, CallsInv
  <1>4. key \in Text
    BY KeysAreText
  <1>5. CASE class = "secondary" /\ ~KnownMeta(replacements, meta, NumSecondary)
    <2>1. meta \in Metas
      BY <1>5
    <2>2. DOMAIN meta = 1 .. NumSecondary
      BY <2>1 DEF Metas
    <2>3. StartPath(meta) = {}
      BY <1>5, <2>2 DEF StartPath, KnownMeta
    <2>4. found = {}
      BY <1>5, <2>3 DEF FindSecondary
    <2>5. of = {}
      BY <1>3, <1>5 DEF CallsOf
    <2> HIDE DEF of, found
    <2>6. QED
      BY <2>4, <2>5
  <1>6. CASE ~(class = "secondary" /\ ~KnownMeta(replacements, meta, NumSecondary))
    <2> DEFINE full == IF class = "secondary" THEN CodesOf(replacements, meta) \o key ELSE key
    <2>1. /\ DOMAIN Told = DOMAIN calls
          /\ \A k \in DOMAIN calls :
               /\ Told[k].key = IF class = "secondary" THEN CodesOf(replacements, calls[k].meta) \o calls[k].key
                                ELSE calls[k].key
               /\ Told[k].chunk = calls[k].chunk
      BY DEF Told, FullKey
    <2>2. \A k \in DOMAIN calls : k \in of <=> Told[k].key = full
      <3>1. SUFFICES ASSUME NEW k \in DOMAIN calls PROVE k \in of <=> Told[k].key = full
        OBVIOUS
      <3>2. CASE class # "secondary"
        BY <1>1, <1>3, <2>1, <3>2 DEF CallsOf
      <3>3. CASE class = "secondary"
        <4>1. /\ calls[k].meta \in Metas /\ KnownMeta(replacements, calls[k].meta, NumSecondary)
              /\ meta \in Metas /\ KnownMeta(replacements, meta, NumSecondary)
              /\ calls[k].key \in Text
          BY <1>1, <1>3, <1>6, <3>3
        <4>2. CodesOf(replacements, calls[k].meta) \o calls[k].key = CodesOf(replacements, meta) \o key
                => calls[k].meta = meta /\ calls[k].key = key
          <5>1. CodeBook(replacements, current_index_)
            BY <1>3
          <5>2. Coded(replacements, calls[k].meta, calls[k].key) = Coded(replacements, meta, key)
                  => calls[k].meta = meta /\ calls[k].key = key
            BY <1>4, <4>1, <5>1, CodedTells
          <5>3. QED
            BY <5>2 DEF Coded
        <4>3. Told[k].key = CodesOf(replacements, calls[k].meta) \o calls[k].key
              /\ full = CodesOf(replacements, meta) \o key
          BY <2>1, <3>3
        <4>4. k \in of <=> calls[k].key = key /\ calls[k].meta = meta
          BY DEF CallsOf
        <4> HIDE DEF of, full
        <4>5. QED
          BY <4>2, <4>3, <4>4
      <3>4. QED
        BY <3>2, <3>3
    <2>3. found = Find(full)
      <3>1. CASE class # "secondary"
        BY <3>1 DEF FindSecondary
      <3>2. CASE class = "secondary"
        <4>1. meta \in Metas /\ KnownMeta(replacements, meta, NumSecondary)
          BY <1>6, <3>2
        <4>2. DOMAIN meta = 1 .. NumSecondary
          BY <4>1 DEF Metas
        <4>3. StartPath(meta) = {CodesOf(replacements, meta)}
          BY <4>1, <4>2 DEF StartPath, KnownMeta
        <4>4. found = UNION {Find(path \o key) : path \in {CodesOf(replacements, meta)}}
          BY <3>2, <4>3 DEF FindSecondary
        <4>5. UNION {Find(path \o key) : path \in {CodesOf(replacements, meta)}}
                = Find(CodesOf(replacements, meta) \o key)
          BY Zenon
        <4>6. QED
          BY <3>2, <4>4, <4>5
      <3>3. QED
        BY <3>1, <3>2
    <2>4. bare <=> full = <<>>
      <3>1. CASE class # "secondary"
        BY <1>3, <3>1
      <3>2. CASE class = "secondary"
        <4> DEFINE c == CodesOf(replacements, meta)
        <4>1. c \in Text /\ (NumSecondary = 0 => c = <<>>) /\ (NumSecondary # 0 => Len(c) > 0)
          BY <1>3, <1>6, <3>2, CodesText
        <4>2. full = c \o key
          BY <3>2
        <4> HIDE DEF c, full
        <4>3. CASE NumSecondary = 0
          <5>1. <<>> \o key = key
            BY <1>4 DEF Text
          <5>2. QED
            BY <3>2, <4>1, <4>2, <4>3, <5>1
        <4>4. CASE NumSecondary # 0
          <5>1. Len(c \o key) = Len(c) + Len(key) /\ Len(c) \in Nat /\ Len(key) \in Nat
            BY <1>4, <4>1 DEF Text
          <5>2. Len(c \o key) # 0
            BY <4>1, <4>4, <5>1
          <5>3. full # <<>>
            BY <4>2, <5>2
          <5>4. QED
            BY <3>2, <4>4, <5>3
        <4>5. QED
          BY <4>3, <4>4
      <3>3. QED
        BY <3>1, <3>2
    <2> HIDE DEF full, found, of, bare
    <2>5. /\ generator_ \in Seq(EntryT) /\ Strict(generator_)
          /\ \A g \in DOMAIN generator_ : Stems(generator_[g], Told) /\ Newest(generator_[g], Told)
          /\ \A k \in DOMAIN Told : Told[k].key # <<>> => Has(generator_, Told[k].key)
      BY <1>1 DEF CompilerInv, GeneratorInv
    <2>6. ASSUME NEW v \in found
          PROVE  \E g \in DOMAIN generator_ : /\ v = generator_[g].value /\ generator_[g].key = full
                                              /\ full # <<>> /\ v \in of
      <3>1. PICK g \in DOMAIN generator_ : v = generator_[g].value /\ generator_[g].key = full
        BY <2>3, <2>6 DEF Find
      <3>2. full # <<>>
        BY <2>5, <3>1 DEF Strict
      <3>3. v \in of
        BY <2>1, <2>2, <2>5, <3>1 DEF Stems
      <3>4. QED
        BY <3>1, <3>2, <3>3
    <2>7. CASE of = {} \/ bare
      BY <2>4, <2>6, <2>7
    <2>8. CASE ~(of = {} \/ bare)
      <3> DEFINE k == Max(of)
      <3>1. of \in SUBSET (1 .. Len(calls))
        BY <1>3 DEF CallsOf, of
      <3>2. k \in of /\ \A j \in of : j <= k
        BY <1>3, <2>8, <3>1, MaxIs
      <3>3. k \in DOMAIN calls /\ k \in Nat
        BY <1>3, <3>1, <3>2
      <3>4. PICK g \in DOMAIN generator_ : generator_[g].key = full
        BY <2>1, <2>2, <2>4, <2>5, <2>8, <3>2, <3>3 DEF Has
      <3> DEFINE v == generator_[g].value
      <3>5. v \in found
        BY <2>3, <3>4 DEF Find
      <3>6. \A w \in found : w = v
        BY <2>5, <2>6, <3>4, OnePlace
      <3>7. found = {v}
        BY <3>5, <3>6
      <3>8. v \in of /\ v \in DOMAIN calls /\ v \in Nat
        <4>1. v \in of
          BY <2>6, <3>5
        <4>2. DOMAIN calls = 1 .. Len(calls) /\ \A i \in 1 .. Len(calls) : i \in Nat
          BY <1>3
        <4>3. QED
          BY <3>1, <4>1, <4>2, Zenon
      <3>9. Told[k].chunk <= Told[v].chunk
        BY <2>1, <2>2, <2>5, <3>2, <3>3, <3>4 DEF Newest
      <3>10. v = k \/ v < k
        BY <3>2, <3>3, <3>8
      <3>11. \A i, j \in DOMAIN Told : i < j => Told[i].chunk <= Told[j].chunk
        BY <1>1 DEF CompilerInv, CallsInv
      <3> HIDE DEF v, k
      <3>12. calls[v].chunk = calls[k].chunk
        <4>1. v < k => calls[v].chunk <= calls[k].chunk
          BY <2>1, <3>3, <3>8, <3>11
        <4>2. calls[k].chunk <= calls[v].chunk
          BY <2>1, <3>3, <3>8, <3>9
        <4>3. calls[k].chunk \in Nat /\ calls[v].chunk \in Nat
          BY <1>3, <3>3, <3>8
        <4>4. QED
          BY <3>10, <4>1, <4>2, <4>3
      <3>13. found \subseteq last
        BY <3>7, <3>8, <3>12 DEF k
      <3>14. Cardinality(found) = 1
        BY <3>7, FS_Singleton
      <3>15. QED
        BY <2>8, <3>13, <3>14
    <2>9. QED
      BY <2>7, <2>8
  <1>7. QED
    BY <1>5, <1>6

\* Whatever the calls, the limit of memory and the order of equal keys in a
\* sort: every generator, that of a chunk and that of the dictionary, gets its
\* keys in ascending order, each once (CreateChunk, CompileByMergingChunks).
THEOREM AscendingTheorem == Spec => []Ascending
  BY CompilerInvariant, AscendingHolds, PTL

\* The index compiler compiles the last call of every key, for any number of
\* calls of Add and Delete in any order (DictionaryIndexCompiler::Compile).
THEOREM LastCallTheorem == Spec => []LastCallWins
  BY CompilerInvariant, LastCallHolds, PTL

\* A key that was added is found with a value of the last chunk it went to, and
\* under its own secondary keys only, for any number of secondary keys and
\* values and any base of the codes (CompileByMergingChunks,
\* SecondaryKeyDictionaryCompiler::Add, SecondaryKeyDictionary::GetStartState).
THEOREM LastChunkTheorem == Spec => []LastChunkWins
  BY CompilerInvariant, LastChunkHolds, PTL
=============================================================================
