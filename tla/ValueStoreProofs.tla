--------------------------- MODULE ValueStoreProofs ---------------------------
(***************************************************************************)
(* Proofs about the value stores, for every set of values, every size of a *)
(* chunk, every limit of the lengths, every number of generations of the   *)
(* cache and every list of sizes of its tables, up to the first overrun of *)
(* a table that grows.                                                     *)
(*                                                                         *)
(* The argument: the bytes appended so far are a text that only grows at   *)
(* its end (MapInv, AppendKeeps), and each pointer handed out is followed  *)
(* there by the bytes of its value, or if it is a string at the limit of   *)
(* the lengths by those of one that begins with it (Leads, Means).  The    *)
(* cache holds no other entries than such pointers (Pointers), however     *)
(* often its tables grow, its chains are cut, its generations change place *)
(* and its entries move (CacheInv).  So what a lookup finds equal is a     *)
(* pointer of this value (SameValueIs), reading its length stays within    *)
(* what was appended (ProbedIs), and the text that is written reads back   *)
(* (LeadsReads), moved behind other texts as well (PlacedInRow).           *)
(*                                                                         *)
(* That a value is not stored twice needs the other direction.  A lookup   *)
(* comes by an entry if the chain of its bucket has it (Reached, Has).     *)
(* Inserting and growing keep what was reached, also of the other buckets  *)
(* (InsertHas, GrowHas), unless a limit is reached and an entry dropped;   *)
(* what is taken out of an older generation is added to the current one    *)
(* (CacheGetHas).  So every pointer is found again (FoundInv), and its     *)
(* value compares equal (CompareHolds, SameValueHolds).  Strings at the    *)
(* limit are left out of it.                                               *)
(*                                                                         *)
(* The prover has no induction over operators: sets stand for them in      *)
(* Induction and Recursion.                                                *)
(***************************************************************************)
EXTENDS ValueStore, FiniteSetTheorems, WellFoundedInduction, SequenceTheorems, TLAPS

-----------------------------------------------------------------------------
\* Induction and recursion, with sets where an operator would be the parameter

LEMMA LeastNumber ==
  ASSUME NEW S \in SUBSET Nat, S # {}
  PROVE  \E m \in S : \A n \in S : m <= n
  <1>1. PICK m \in S : \A n \in S : ~(<<n, m>> \in OpToRel(<, Nat))
    BY NatLessThanWellFounded, WFMin
  <1>2. \A n \in S : ~(n < m)
    BY <1>1 DEF OpToRel
  <1>3. QED
    BY <1>2

LEMMA GreatestNumber ==
  ASSUME NEW N \in Nat, NEW S \in SUBSET (1 .. N), S # {}
  PROVE  \E m \in S : \A n \in S : n <= m
  <1> DEFINE down == {N - i : i \in S}
  <1>1. down \in SUBSET Nat /\ down # {}
    <2>1. \A i \in S : i \in Nat /\ N - i \in Nat
      OBVIOUS
    <2>2. QED
      BY <2>1
  <1>2. \A k \in S : N - k \in down
    OBVIOUS
  <1>3. PICK d \in down : \A n \in down : d <= n
    <2> HIDE DEF down
    <2>1. QED
      BY <1>1, LeastNumber
  <1>4. PICK m \in S : d = N - m
    BY <1>3
  <1> HIDE DEF down
  <1>5. \A n \in S : N - m <= N - n
    BY <1>2, <1>3, <1>4
  <1>6. QED
    BY <1>5

LEMMA Induction ==
  ASSUME NEW N \in Nat, NEW T, 0 \in T, \A n \in 1 .. N : n - 1 \in T => n \in T
  PROVE  \A n \in 0 .. N : n \in T
  <1> DEFINE B == {n \in 0 .. N : n \notin T}
  <1>1. SUFFICES ASSUME B # {} PROVE FALSE
    OBVIOUS
  <1>2. PICK m \in B : \A n \in B : m <= n
    <2>1. B \in SUBSET Nat
      OBVIOUS
    <2> HIDE DEF B
    <2>2. QED
      BY <1>1, <2>1, LeastNumber
  <1>3. m \in 1 .. N /\ m - 1 \in 0 .. N /\ ~(m <= m - 1)
    BY <1>2
  <1>4. m - 1 \in T
    BY <1>2, <1>3
  <1>5. QED
    BY <1>2, <1>3, <1>4

\* h is defined by recursion.
Recursive(h, N, base, step) ==
  h = [n \in 0 .. N |-> IF n = 0 THEN base ELSE step[n][h[n - 1]]]

\* Such a function exists: step[n] takes its value at n - 1, which is in
\* S[n - 1], to the one at n.
LEMMA Recursion ==
  ASSUME NEW N \in Nat, NEW S, NEW base \in S[0], NEW step,
         \A n \in 1 .. N : \A x \in S[n - 1] : step[n][x] \in S[n]
  PROVE  \E h : Recursive(h, N, base, step) /\ \A n \in 0 .. N : h[n] \in S[n]
  <1> DEFINE Is(h, m) == /\ h = [n \in 0 .. m |-> IF n = 0 THEN base ELSE step[n][h[n - 1]]]
                         /\ \A n \in 0 .. m : h[n] \in S[n]
             T == {m \in 0 .. N : \E h : Is(h, m)}
  <1>1. 0 \in T
    <2> DEFINE h == [n \in 0 .. 0 |-> base]
    <2>1. \A n \in 0 .. 0 : n = 0
      OBVIOUS
    <2>2. h = [n \in 0 .. 0 |-> IF n = 0 THEN base ELSE step[n][h[n - 1]]]
      BY <2>1
    <2>3. Is(h, 0)
      BY <2>1, <2>2
    <2> HIDE DEF h
    <2>4. QED
      BY <2>3
  <1>2. ASSUME NEW m \in 1 .. N, m - 1 \in T PROVE m \in T
    <2>1. PICK h : Is(h, m - 1)
      BY <1>2
    <2> DEFINE g == [n \in 0 .. m |-> IF n = m THEN step[m][h[m - 1]] ELSE h[n]]
    <2>2. \A n \in 0 .. m - 1 : n \in 0 .. m /\ n # m /\ g[n] = h[n]
      OBVIOUS
    <2>3. g[m] = step[m][g[m - 1]] /\ g[m] \in S[m]
      <3>1. m - 1 \in 0 .. m - 1 /\ m \in 0 .. m
        OBVIOUS
      <3>2. h[m - 1] \in S[m - 1]
        BY <2>1, <3>1
      <3>3. g[m] = step[m][h[m - 1]]
        BY <3>1
      <3>4. QED
        BY <2>2, <3>1, <3>2, <3>3
    <2>4. \A n \in 0 .. m : g[n] \in S[n]
      <3>1. \A n \in 0 .. m : n = m \/ n \in 0 .. m - 1
        OBVIOUS
      <3>2. \A n \in 0 .. m - 1 : h[n] \in S[n]
        BY <2>1
      <3> HIDE DEF g
      <3>3. QED
        BY <2>2, <2>3, <3>1, <3>2
    <2>5. ASSUME NEW n \in 0 .. m
          PROVE  g[n] = IF n = 0 THEN base ELSE step[n][g[n - 1]]
      <3>1. CASE n = m
        BY <2>3, <3>1
      <3>2. CASE n = 0
        BY <2>1, <2>2, <3>2
      <3>3. CASE n # m /\ n # 0
        <4>1. n \in 0 .. m - 1 /\ n - 1 \in 0 .. m - 1
          BY <3>3
        <4>2. h[n] = step[n][h[n - 1]]
          BY <2>1, <3>3, <4>1
        <4>3. QED
          BY <2>2, <3>3, <4>1, <4>2
      <3>4. QED
        BY <3>1, <3>2, <3>3
    <2>6. g = [n \in 0 .. m |-> IF n = 0 THEN base ELSE step[n][g[n - 1]]]
      <3>1. g = [n \in 0 .. m |-> g[n]]
        OBVIOUS
      <3> HIDE DEF g
      <3>2. QED
        BY <2>5, <3>1, Zenon
    <2>7. Is(g, m)
      BY <2>4, <2>6
    <2> HIDE DEF g
    <2>8. QED
      BY <2>7
  <1>3. N \in T
    <2> HIDE DEF T
    <2>1. QED
      BY <1>1, <1>2, Induction
  <1>4. QED
    BY <1>3 DEF Recursive

LEMMA Division ==
  ASSUME NEW n \in Nat, NEW d \in Nat, d > 0
  PROVE  /\ n % d \in Nat /\ n % d < d /\ n \div d \in Nat
         /\ n = (n \div d) * d + (n % d)
  <1>1. n % d \in Nat /\ n % d < d
    OBVIOUS
  <1>2. n \div d \in Nat
    OBVIOUS
  <1>3. n = (n \div d) * d + (n % d)
    BY Z3
  <1>4. QED
    BY <1>1, <1>2, <1>3

-----------------------------------------------------------------------------
\* Lengths as varints

Text == Seq(Nat)

\* The last byte is the only one that is not marked.
CodeWord(c) == /\ c \in Text /\ Len(c) >= 1 /\ c[Len(c)] < VINT_BASE
               /\ \A i \in 1 .. Len(c) - 1 : c[i] >= VINT_BASE

LEMMA SameText ==
  ASSUME NEW a \in Text, NEW b \in Text, Len(a) = Len(b), \A i \in 1 .. Len(a) : a[i] = b[i]
  PROVE  a = b
  BY DEF Text

LEMMA Joined == \A a, b \in Text : a \o b \in Text
  BY DEF Text

LEMMA MarkedWord ==
  ASSUME NEW a \in Nat, a >= VINT_BASE, NEW w, CodeWord(w)
  PROVE  CodeWord(<<a>> \o w)
  <1> DEFINE c == <<a>> \o w
  <1>1. w \in Text /\ Len(w) \in Nat /\ Len(w) >= 1
    BY DEF CodeWord, Text
  <1>2. /\ c \in Text /\ Len(c) = Len(w) + 1 /\ c[1] = a
        /\ \A i \in 2 .. Len(w) + 1 : c[i] = w[i - 1]
    BY <1>1 DEF Text
  <1> HIDE DEF c
  <1>3. c[Len(c)] = w[Len(w)]
    BY <1>1, <1>2
  <1>4. \A i \in 1 .. Len(c) - 1 : i = 1 \/ (i \in 2 .. Len(w) + 1 /\ i - 1 \in 1 .. Len(w) - 1)
    BY <1>1, <1>2
  <1>5. \A i \in 1 .. Len(c) - 1 : c[i] >= VINT_BASE
    BY <1>2, <1>4 DEF CodeWord
  <1>6. CodeWord(c)
    BY <1>1, <1>2, <1>3, <1>5 DEF CodeWord
  <1>7. QED
    BY <1>6 DEF c

\* The digits behind the first one are those of a smaller number.
LEMMA Smaller ==
  ASSUME NEW n \in Nat, n >= VINT_BASE
  PROVE  n \div VINT_BASE \in Nat /\ n \div VINT_BASE < n
  <1> DEFINE q == n \div VINT_BASE
             r == n % VINT_BASE
  <1>1. q \in Nat /\ r \in Nat /\ n = q * VINT_BASE + r
    BY ValuesAssumption, Division
  <1>2. VINT_BASE \in Nat /\ VINT_BASE > 1
    BY ValuesAssumption
  <1> HIDE DEF q, r
  <1>3. q < n
    BY <1>1, <1>2, Z3
  <1>4. QED
    BY <1>1, <1>3 DEF q

\* The recursion of encodeVarInt has a solution.
LEMMA EncodeIs ==
  /\ \A n \in Nat : n < VINT_BASE => encodeVarInt[n] = <<n>>
  /\ \A n \in Nat : ~(n < VINT_BASE) =>
       encodeVarInt[n] = <<(n % VINT_BASE) + VINT_BASE>> \o encodeVarInt[n \div VINT_BASE]
  <1> DEFINE B == VINT_BASE
             At(h, n) == IF n < B THEN <<n>> ELSE <<(n % B) + B>> \o h[n \div B]
             Is(h, N) == \A n \in 0 .. N : h[n] = At(h, n)
             F == [n \in Nat |-> (CHOOSE h : Is(h, n))[n]]
  <1>1. B \in Nat /\ B > 1
    BY ValuesAssumption
  <1>2. \A n \in Nat : ~(n < B) => n \div B \in Nat /\ n \div B < n
    BY <1>1, Smaller
  <1>3. ASSUME NEW N \in Nat PROVE \E h : Is(h, N)
    <2> DEFINE T == {m \in 0 .. N : \E h : Is(h, m)}
    <2>1. 0 \in T
      <3> DEFINE h == [n \in 0 .. 0 |-> << 0 >>]
      <3>1. \A n \in 0 .. 0 : n = 0
        OBVIOUS
      <3>2. Is(h, 0)
        BY <1>1, <3>1
      <3> HIDE DEF Is
      <3>3. QED
        BY <3>2
    <2>2. ASSUME NEW m \in 1 .. N, m - 1 \in T PROVE m \in T
      <3>1. PICK h : Is(h, m - 1)
        BY <2>2
      <3> DEFINE g == [n \in 0 .. m |-> IF n = m THEN At(h, m) ELSE h[n]]
      <3>2. ASSUME NEW n \in 0 .. m PROVE At(g, n) = At(h, n)
        <4>1. CASE n < B
          BY <4>1
        <4>2. CASE ~(n < B)
          <5>1. n \div B \in 0 .. m /\ n \div B # m
            BY <1>2, <4>2
          <5>2. g[n \div B] = h[n \div B]
            BY <5>1
          <5> HIDE DEF g
          <5>3. QED
            BY <4>2, <5>2
        <4>3. QED
          BY <4>1, <4>2
      <3>3. ASSUME NEW n \in 0 .. m PROVE g[n] = At(h, n)
        <4>1. CASE n = m
          BY <4>1
        <4>2. CASE n # m
          <5>1. n \in 0 .. m - 1
            BY <4>2
          <5>2. h[n] = At(h, n)
            BY <3>1, <5>1
          <5>3. g[n] = h[n]
            BY <4>2
          <5> HIDE DEF At
          <5>4. QED
            BY <5>2, <5>3
        <4>3. QED
          BY <4>1, <4>2
      <3> HIDE DEF At, g
      <3>4. Is(g, m)
        BY <3>2, <3>3
      <3>5. m \in 0 .. N
        OBVIOUS
      <3> HIDE DEF Is
      <3>6. QED
        BY <3>4, <3>5
    <2>3. N \in T
      <3> HIDE DEF T
      <3>1. QED
        BY <2>1, <2>2, Induction
    <2> HIDE DEF Is
    <2>4. QED
      BY <2>3
  <1>4. ASSUME NEW N \in Nat, NEW K \in Nat, NEW h, Is(h, N), NEW g, Is(g, K)
        PROVE  \A n \in Nat : n <= N /\ n <= K => h[n] = g[n]
    <2> DEFINE D == {n \in Nat : n <= N /\ n <= K /\ h[n] # g[n]}
    <2>1. SUFFICES ASSUME D # {} PROVE FALSE
      OBVIOUS
    <2>2. PICK m \in D : \A n \in D : m <= n
      <3>1. D \in SUBSET Nat
        OBVIOUS
      <3> HIDE DEF D
      <3>2. QED
        BY <2>1, <3>1, LeastNumber
    <2>3. m \in Nat /\ m \in 0 .. N /\ m \in 0 .. K /\ h[m] # g[m]
      BY <2>2
    <2>4. h[m] = At(h, m) /\ g[m] = At(g, m)
      BY <1>4, <2>3
    <2>5. ~(m < B)
      BY <2>3, <2>4
    <2>6. m \div B \in Nat /\ m \div B < m
      BY <1>2, <2>3, <2>5
    <2>7. h[m \div B] = g[m \div B]
      BY <2>2, <2>3, <2>6
    <2>8. QED
      BY <2>3, <2>4, <2>5, <2>7
  <1>5. \A n \in Nat : Is(CHOOSE h : Is(h, n), n)
    <2> HIDE DEF Is
    <2>1. QED
      BY <1>3
  <1>6. ASSUME NEW n \in Nat PROVE F[n] = At(F, n)
    <2> DEFINE h == CHOOSE x : Is(x, n)
    <2>1. Is(h, n) /\ F[n] = h[n]
      BY <1>5
    <2>2. F[n] = At(h, n)
      <3>1. n \in 0 .. n
        OBVIOUS
      <3> HIDE DEF h, F, At
      <3>2. QED
        BY <2>1, <3>1
    <2>3. CASE n < B
      BY <2>2, <2>3
    <2>4. CASE ~(n < B)
      <3> DEFINE m == n \div B
                 g == CHOOSE x : Is(x, m)
      <3>1. m \in Nat /\ m < n
        BY <1>2, <2>4
      <3>2. Is(g, m) /\ F[m] = g[m]
        BY <1>5, <3>1
      <3>3. h[m] = g[m]
        <4> HIDE DEF h, g, m, Is
        <4>1. m <= n /\ m <= m
          BY <3>1
        <4>2. QED
          BY <1>4, <2>1, <3>1, <3>2, <4>1
      <3> HIDE DEF h, g, F
      <3>4. QED
        BY <2>2, <2>4, <3>2, <3>3
    <2>5. QED
      BY <2>3, <2>4
  <1>7. F = [n \in Nat |-> IF n < VINT_BASE THEN <<n>>
                           ELSE <<(n % VINT_BASE) + VINT_BASE>> \o F[n \div VINT_BASE]]
    <2>1. F = [n \in Nat |-> F[n]]
      OBVIOUS
    <2> HIDE DEF F
    <2>2. QED
      BY <1>6, <2>1, Zenon
  <1> HIDE DEF F
  <1>8. encodeVarInt = [n \in Nat |-> IF n < VINT_BASE THEN <<n>>
                           ELSE <<(n % VINT_BASE) + VINT_BASE>> \o encodeVarInt[n \div VINT_BASE]]
    BY <1>7, Zenon DEF encodeVarInt
  <1>9. QED
    BY <1>8

LEMMA EncodeWord ==
  ASSUME NEW n \in Nat
  PROVE  CodeWord(encodeVarInt[n])
  <1> DEFINE D == {m \in Nat : ~CodeWord(encodeVarInt[m])}
  <1>1. SUFFICES ASSUME D # {} PROVE FALSE
    OBVIOUS
  <1>2. PICK m \in D : \A k \in D : m <= k
    <2>1. D \in SUBSET Nat
      OBVIOUS
    <2> HIDE DEF D
    <2>2. QED
      BY <1>1, <2>1, LeastNumber
  <1>3. m \in Nat /\ ~CodeWord(encodeVarInt[m]) /\ VINT_BASE \in Nat
    BY <1>2, ValuesAssumption
  <1>4. CASE m < VINT_BASE
    <2>1. encodeVarInt[m] = <<m>>
      BY <1>3, <1>4, EncodeIs
    <2>2. CodeWord(<<m>>)
      BY <1>3, <1>4 DEF CodeWord, Text
    <2>3. QED
      BY <1>3, <2>1, <2>2
  <1>5. CASE ~(m < VINT_BASE)
    <2> DEFINE a == (m % VINT_BASE) + VINT_BASE
               w == encodeVarInt[m \div VINT_BASE]
    <2>1. a \in Nat /\ a >= VINT_BASE
      BY <1>3, ValuesAssumption, Division
    <2>2. CodeWord(w)
      <3>1. m \div VINT_BASE \in Nat /\ m \div VINT_BASE < m
        BY <1>3, <1>5, Smaller
      <3>2. QED
        BY <1>2, <1>3, <3>1
    <2>3. encodeVarInt[m] = <<a>> \o w
      BY <1>3, <1>5, EncodeIs
    <2> HIDE DEF a, w
    <2>4. CodeWord(<<a>> \o w)
      BY <2>1, <2>2, MarkedWord
    <2>5. QED
      BY <1>3, <2>3, <2>4
  <1>6. QED
    BY <1>4, <1>5

-----------------------------------------------------------------------------
\* The invariant of a table whose entries are in E

EntrySet == [id : Nat \ {0}, code : Nat, cookie : Nat, length : Nat]

\* E leaves the cookies open.
Entries(E) ==
  /\ E \subseteq EntrySet
  /\ \A e \in E, c \in Nat : [e EXCEPT !.cookie = c] \in E

\* e is in bucket b, and so is the overflow slot its cookie names.
Linked(t, e, b) ==
  /\ e.code % HashSize(t.step) = b
  /\ e.cookie \in 0 .. t.overflow_count - 1
  /\ e.cookie # 0 => t.overflow[e.cookie].code % HashSize(t.step) = b

TableType(t, E) ==
  /\ t \in [step : 1 .. HashSteps, count : Nat, overflow_count : Nat, lost : SUBSET Losses,
            entries  : [0 .. HashSize(t.step) - 1 -> E \cup {NoEntry}],
            overflow : [0 .. OverflowSize(t.step) - 1 -> E \cup {NoEntry}]]
  /\ t.overflow_count \in 1 .. OverflowSize(t.step)

\* The cookies of the overflow array name later slots.
TableLinks(t) ==
  /\ \A b \in DOMAIN t.entries : ~IsEmpty(t.entries[b]) => Linked(t, t.entries[b], b)
  /\ \A i \in 1 .. t.overflow_count - 1 :
       /\ ~IsEmpty(t.overflow[i]) /\ Linked(t, t.overflow[i], t.overflow[i].code % HashSize(t.step))
       /\ t.overflow[i].cookie # 0 => t.overflow[i].cookie > i

TableInv(t, E) == TableType(t, E) /\ TableLinks(t)

CacheInv(c, E) ==
  /\ c = [current |-> c.current, generations |-> c.generations, lost |-> c.lost]
  /\ TableInv(c.current, E)
  /\ c.generations = [i \in 1 .. Len(c.generations) |-> c.generations[i]]
  /\ Len(c.generations) \in Nat
  /\ \A i \in 1 .. Len(c.generations) : TableInv(c.generations[i], E)

-----------------------------------------------------------------------------
\* The invariant of a value store

ByteChunk == [0 .. chunk_size_ - 1 -> Nat]

MapInv(m) ==
  /\ m \in [chunks : Seq(ByteChunk), tail : Nat, persisted : {FALSE}]
  /\ m.tail <= Len(m.chunks) * chunk_size_
  /\ m.chunks # <<>> => (Len(m.chunks) - 1) * chunk_size_ < m.tail

\* the bytes that were appended
Content(m) == [i \in 1 .. m.tail |-> M!ByteAt(m, i - 1)]

\* what is appended for a value
Stored(v) == IF kind = "string" THEN Terminated(v) ELSE Prefixed(v)

\* w is in the bytes behind pt.
Placed(bytes, pt, w) ==
  /\ pt \in Nat /\ pt + Len(w) <= Len(bytes)
  /\ \A i \in 1 .. Len(w) : bytes[pt + i] = w[i]

Storable(v) ==
  /\ v \in Text /\ Len(v) <= chunk_size_
  /\ kind # "string" => v \in Values
  /\ kind = "int" => Len(v) = 1

\* A pointer of v may lead to w: a string of the length of the limit passes for
\* a longer one.
Means(v, w) ==
  \/ w = v
  \/ /\ kind = "string" /\ Len(v) = MAX_LENGTH /\ Len(v) <= Len(w)
     /\ \A i \in 1 .. Len(v) : w[i] = v[i]

\* The pointer of p leads to the value of p.
Leads(bytes, p) ==
  /\ p = <<p[1], p[2]>> /\ p[2] \in Nat /\ Storable(p[1])
  /\ IF kind = "int" THEN p[2] = p[1][1]
     ELSE \E w : Storable(w) /\ Means(p[1], w) /\ Placed(bytes, p[2], Stored(w))

\* the entries a cache may have
Pointers(pts) ==
  {e \in EntrySet :
     \E p \in pts : /\ e.id = p[2] + 1 /\ e.code = HashCode(p[1])
                    /\ e.length = IF Len(p[1]) > MAX_LENGTH THEN MAX_LENGTH ELSE Len(p[1])}

FileInv(f) ==
  /\ f = [size |-> f.size, pts |-> f.pts, bytes |-> f.bytes]
  /\ f.bytes \in Seq(Nat) /\ f.size = Len(f.bytes)
  /\ \A p \in f.pts : Leads(f.bytes, p)

\* what a store that is being filled has
Holding(m, size, c, pts) ==
  /\ MapInv(m) /\ size = m.tail
  /\ CacheInv(c, Pointers(pts))
  /\ \A p \in pts : Leads(Content(m), p)

StoreInv ==
  /\ kind \in {"string", "json", "vector", "int"}
  /\ phase \in {"feed", "merge", "done"}
  /\ Holding(memory, values_buffer_size_, hash_, handed)
  /\ files = [i \in 1 .. Len(files) |-> files[i]] /\ Len(files) \in Nat
  /\ \A i \in 1 .. Len(files) : FileInv(files[i])

-----------------------------------------------------------------------------
\* The sizes of the table

LEMMA SomeShare ==
  ASSUME NEW k \in Nat, k > 0, NEW x \in Nat, x \div k > 1
  PROVE  x > 0
  <1>1. x = 0 => x \div k = 0
    BY Z3
  <1>2. QED
    BY <1>1

Steps == 1 .. HashSteps

LEMMA Sizes ==
  ASSUME NEW s \in Steps
  PROVE  /\ HashSize(s) \in Nat /\ HashSize(s) > 0
         /\ OverflowSize(s) \in Nat /\ OverflowSize(s) >= 2 /\ OverflowSize(s) <= MaxCookie
         /\ MaxCookie \in Nat /\ HashSteps \in Nat
  <1> DEFINE x == HashSize(s)
             k == OverflowShare
  <1>1. HashSteps \in Nat /\ x \in Nat
    BY HashAssumption DEF Steps, HashSteps, HashSize
  <1>2. k \in Nat /\ k > 0 /\ x \div k > 1 /\ MaxCookie \in Nat /\ MaxCookie > 1
    BY HashAssumption DEF Steps
  <1>3. x \div k \in Nat
    BY <1>1, <1>2, Division
  <1>4. OverflowSize(s) = IF x \div k < MaxCookie THEN x \div k ELSE MaxCookie
    BY DEF OverflowSize
  <1> HIDE DEF x, k
  <1>5. x > 0
    BY <1>1, <1>2, SomeShare
  <1>6. QED
    BY <1>1, <1>2, <1>3, <1>4, <1>5 DEF x

LEMMA NextSize ==
  ASSUME NEW s \in Steps, s < HashSteps
  PROVE  s + 1 \in Steps
  BY Sizes DEF Steps

-----------------------------------------------------------------------------
\* The chain of a bucket

LEMMA EntryOrNone ==
  ASSUME NEW E, Entries(E)
  PROVE  /\ \A e \in E : /\ ~IsEmpty(e) /\ e \in EntrySet
                          /\ e.id \in Nat /\ e.id # 0 /\ e.code \in Nat /\ e.cookie \in Nat
         /\ \A e \in E \cup {NoEntry} : IsEmpty(e) <=> e = NoEntry
         /\ IsEmpty(NoEntry) /\ NoEntry.cookie = 0 /\ NoEntry.id = 0
  BY DEF Entries, EntrySet, IsEmpty, NoEntry

Buckets(s) == 0 .. HashSize(s) - 1

\* the overflow slots in use that belong to bucket b
Live(t, b) == {s \in 1 .. t.overflow_count - 1 : t.overflow[s].code % HashSize(t.step) = b}

LEMMA TableParts ==
  ASSUME NEW E, Entries(E), NEW t, TableInv(t, E)
  PROVE  /\ t.step \in Steps /\ t.count \in Nat /\ t.lost \in SUBSET Losses
         /\ t.entries \in [Buckets(t.step) -> E \cup {NoEntry}]
         /\ t.overflow \in [0 .. OverflowSize(t.step) - 1 -> E \cup {NoEntry}]
         /\ t.overflow_count \in Nat /\ t.overflow_count >= 1
         /\ t.overflow_count <= OverflowSize(t.step)
         /\ \A i \in 1 .. t.overflow_count - 1 : t.overflow[i] \in E
         /\ t = [step |-> t.step, count |-> t.count, overflow_count |-> t.overflow_count,
                 lost |-> t.lost, entries |-> t.entries, overflow |-> t.overflow]
  <1>1. TableType(t, E) /\ TableLinks(t)
    BY DEF TableInv
  <1>2. /\ t.step \in Steps /\ t.count \in Nat /\ t.lost \in SUBSET Losses
        /\ t.entries \in [Buckets(t.step) -> E \cup {NoEntry}]
        /\ t.overflow \in [0 .. OverflowSize(t.step) - 1 -> E \cup {NoEntry}]
        /\ t.overflow_count \in Nat
        /\ t = [step |-> t.step, count |-> t.count, overflow_count |-> t.overflow_count,
                 lost |-> t.lost, entries |-> t.entries, overflow |-> t.overflow]
    BY <1>1 DEF TableType, Steps, Buckets
  <1>3. OverflowSize(t.step) \in Nat
    BY <1>2, Sizes
  <1>4. t.overflow_count >= 1 /\ t.overflow_count <= OverflowSize(t.step)
    BY <1>1, <1>2, <1>3 DEF TableType
  <1>5. ASSUME NEW i \in 1 .. t.overflow_count - 1 PROVE t.overflow[i] \in E
    <2>1. ~IsEmpty(t.overflow[i])
      BY <1>1 DEF TableLinks
    <2>2. i \in 0 .. OverflowSize(t.step) - 1
      BY <1>2, <1>3, <1>4
    <2>3. t.overflow[i] \in E \cup {NoEntry}
      BY <1>2, <2>2
    <2>4. QED
      BY <2>1, <2>3, EntryOrNone
  <1>6. QED
    BY <1>2, <1>4, <1>5

\* What an entry's cookie names is in the same bucket.
LEMMA HeadLive ==
  ASSUME NEW E, Entries(E), NEW t, TableInv(t, E), NEW b \in Buckets(t.step)
  PROVE  t.entries[b].cookie \in {0} \cup Live(t, b)
  <1>1. t.entries[b] \in E \cup {NoEntry} /\ b \in DOMAIN t.entries /\ t.overflow_count \in Nat
    BY TableParts
  <1>2. CASE IsEmpty(t.entries[b])
    <2>1. t.entries[b] = NoEntry
      BY <1>1, <1>2, EntryOrNone
    <2>2. QED
      BY <2>1, EntryOrNone
  <1>3. CASE ~IsEmpty(t.entries[b])
    BY <1>1, <1>3 DEF TableInv, TableLinks, Linked, Live
  <1>4. QED
    BY <1>2, <1>3

LEMMA SlotLive ==
  ASSUME NEW E, Entries(E), NEW t, TableInv(t, E), NEW b,
         NEW s \in Live(t, b)
  PROVE  t.overflow[s].cookie \in {0} \cup Live(t, b)
  <1>1. t.overflow_count \in Nat /\ s \in 1 .. t.overflow_count - 1
        /\ t.overflow[s].code % HashSize(t.step) = b
    BY TableParts DEF Live
  <1>2. Linked(t, t.overflow[s], b)
    BY <1>1 DEF TableInv, TableLinks
  <1>3. QED
    BY <1>1, <1>2 DEF Linked, Live

\* Cookies name later slots, so that a chain ends.
LEMMA SlotUp ==
  ASSUME NEW E, Entries(E), NEW t, TableInv(t, E), NEW b,
         NEW s \in Live(t, b), t.overflow[s].cookie # 0
  PROVE  t.overflow[s].cookie > s
  <1>1. s \in 1 .. t.overflow_count - 1
    BY DEF Live
  <1>2. QED
    BY <1>1 DEF TableInv, TableLinks

\* The slots of a bucket, from the one its head names to the last one.
Follows(t, b, slots) ==
  /\ slots = <<>> => t.entries[b].cookie = 0
  /\ slots # <<>> => /\ slots[1] = t.entries[b].cookie
                     /\ t.overflow[slots[Len(slots)]].cookie = 0
  /\ \A i \in 1 .. Len(slots) - 1 : slots[i + 1] = t.overflow[slots[i]].cookie

LEMMA SlotsAre ==
  ASSUME NEW E, Entries(E), NEW t, TableInv(t, E), NEW b \in Buckets(t.step)
  PROVE  Slots(t, b) \in Seq(Live(t, b)) /\ Follows(t, b, Slots(t, b))
  <1> DEFINE L == OverflowSize(t.step)
             R == {0} \cup Live(t, b)
             base == t.entries[b].cookie
             S == [n \in 0 .. L |-> R]
             step == [n \in 1 .. L |-> [x \in R |-> NextSlot(t, x)]]
             slot[n \in 0 .. L] == IF n = 0 THEN t.entries[b].cookie ELSE NextSlot(t, slot[n - 1])
  <1>1. L \in Nat /\ base \in R /\ Live(t, b) \subseteq Nat \ {0}
    BY TableParts, HeadLive, Sizes DEF Live
  <1>2. \A x \in R : NextSlot(t, x) \in R
    BY SlotLive DEF NextSlot
  <1>3. Slots(t, b) = [i \in {j \in 1 .. L + 1 : slot[j - 1] # 0} |-> slot[i - 1]]
    BY DEF Slots
  <1> HIDE DEF L, R, base
  <1>4. S[0] = R /\ \A n \in 1 .. L : S[n] = R /\ S[n - 1] = R
    BY <1>1
  <1>5. \A n \in 1 .. L : \A x \in R : step[n][x] = NextSlot(t, x)
    OBVIOUS
  <1> HIDE DEF S, step
  <1>6. PICK h : Recursive(h, L, base, step) /\ \A n \in 0 .. L : h[n] \in S[n]
    <2>1. \A n \in 1 .. L : \A x \in S[n - 1] : step[n][x] \in S[n]
      BY <1>2, <1>4, <1>5
    <2>2. base \in S[0]
      BY <1>1, <1>4
    <2>3. QED
      BY <1>1, <2>1, <2>2, Recursion
  <1>7. h = [n \in 0 .. L |-> IF n = 0 THEN t.entries[b].cookie ELSE NextSlot(t, h[n - 1])]
    <2>1. \A n \in 0 .. L : n # 0 => n \in 1 .. L /\ n - 1 \in 0 .. L
      BY <1>1
    <2>2. \A n \in 0 .. L : n # 0 => step[n][h[n - 1]] = NextSlot(t, h[n - 1])
      BY <1>4, <1>5, <1>6, <2>1
    <2>3. QED
      BY <1>6, <2>2, Zenon DEF Recursive, base
  <1>8. slot = [n \in 0 .. L |-> IF n = 0 THEN t.entries[b].cookie ELSE NextSlot(t, slot[n - 1])]
    BY <1>7, Zenon
  <1> HIDE DEF slot
  <1> DEFINE Used(n) == {j \in 1 .. n + 1 : slot[j - 1] # 0}
             T == {n \in 0 .. L : /\ slot[n] \in R
                                  /\ slot[n] = 0 \/ slot[n] > n
                                  /\ \E k \in Nat : /\ Used(n) = 1 .. k
                                                    /\ k = n + 1 \/ slot[n] = 0}
  <1>9. 0 \in T
    <2>1. slot[0] \in R /\ (slot[0] = 0 \/ slot[0] > 0)
      <3>1. slot[0] \in R
        BY <1>1, <1>8 DEF base
      <3>2. \A x \in R : x = 0 \/ x > 0
        BY <1>1 DEF R
      <3>3. QED
        BY <3>1, <3>2
    <2>2. CASE slot[0] = 0
      <3>1. Used(0) = 1 .. 0
        BY <2>2
      <3>2. QED
        BY <1>1, <2>1, <2>2, <3>1
    <2>3. CASE slot[0] # 0
      <3>1. Used(0) = 1 .. 1
        BY <2>3
      <3>2. QED
        BY <1>1, <2>1, <2>3, <3>1
    <2>4. QED
      BY <2>2, <2>3
  <1>10. ASSUME NEW n \in 1 .. L, n - 1 \in T PROVE n \in T
    <2>1. n \in 0 .. L /\ n # 0 /\ n \in Nat /\ slot[n] = NextSlot(t, slot[n - 1]) /\ slot[n - 1] \in R
      BY <1>1, <1>8, <1>10
    <2>2. slot[n] \in R /\ (slot[n] = 0 \/ slot[n] > n)
      <3>1. slot[n] \in R
        BY <1>2, <2>1
      <3>2. CASE slot[n] = 0
        BY <3>1, <3>2
      <3>3. CASE slot[n] # 0
        <4>1. slot[n - 1] # 0 /\ slot[n] = t.overflow[slot[n - 1]].cookie
          BY <2>1, <3>3 DEF NextSlot
        <4>2. slot[n - 1] > n - 1
          BY <1>10, <4>1
        <4>3. slot[n - 1] \in Live(t, b) /\ slot[n] \in Nat /\ slot[n - 1] \in Nat
          BY <1>1, <2>1, <3>1, <4>1 DEF R
        <4>4. slot[n] > slot[n - 1]
          BY <3>3, <4>1, <4>3, SlotUp
        <4>5. QED
          BY <2>1, <3>1, <4>2, <4>3, <4>4
      <3>4. QED
        BY <3>2, <3>3
    <2>3. PICK k \in Nat : Used(n - 1) = 1 .. k /\ (k = n \/ slot[n - 1] = 0)
      BY <1>10, <2>1
    <2>4. \A j \in 1 .. n + 1 : j = n + 1 \/ j \in 1 .. (n - 1) + 1
      BY <2>1
    <2>5. CASE slot[n] = 0
      <3>1. Used(n) = Used(n - 1)
        BY <2>1, <2>4, <2>5
      <3>2. QED
        BY <2>1, <2>2, <2>3, <2>5, <3>1
    <2>6. CASE slot[n] # 0
      <3>1. slot[n - 1] # 0
        BY <2>1, <2>6 DEF NextSlot
      <3>2. k = n
        BY <2>3, <3>1
      <3>3. Used(n) = Used(n - 1) \cup {n + 1}
        BY <2>1, <2>4, <2>6
      <3>4. Used(n) = 1 .. n + 1
        BY <2>1, <2>3, <3>2, <3>3
      <3>5. n + 1 \in Nat
        BY <2>1
      <3>6. QED
        BY <2>1, <2>2, <3>4, <3>5
    <2>7. QED
      BY <2>5, <2>6
  <1>11. \A n \in 0 .. L : n \in T
    <2> HIDE DEF T
    <2>1. QED
      BY <1>1, <1>9, <1>10, Induction
  <1>12. slot[L] = 0
    <2>1. L \in 0 .. L /\ slot[L] \in R /\ (slot[L] = 0 \/ slot[L] > L)
      BY <1>1, <1>11
    <2>2. t.overflow_count \in Nat /\ t.overflow_count <= L
      BY TableParts DEF L
    <2>3. \A x \in Live(t, b) : x <= t.overflow_count - 1 /\ x \in Nat
      BY <2>2 DEF Live
    <2>4. QED
      BY <1>1, <2>1, <2>2, <2>3 DEF R
  <1>13. PICK k \in Nat : Used(L) = 1 .. k /\ k <= L
    <2>1. PICK k \in Nat : Used(L) = 1 .. k
      BY <1>1, <1>11
    <2>2. ASSUME k > L PROVE FALSE
      <3>1. L + 1 \in Used(L)
        <4> HIDE DEF Used, L
        <4>1. L \in Nat /\ k \in Nat
          BY <1>1, <2>1
        <4>2. L + 1 \in 1 .. k
          BY <4>1, <2>2
        <4>3. QED
          BY <4>2, <2>1
      <3>2. slot[(L + 1) - 1] # 0
        BY <3>1
      <3>3. QED
        BY <1>1, <1>12, <3>2
    <2>3. QED
      BY <1>1, <2>1, <2>2
  <1>14. \A i \in 1 .. k : i - 1 \in 0 .. L /\ i \in 0 .. L /\ slot[i - 1] \in Live(t, b)
                           /\ slot[i] = t.overflow[slot[i - 1]].cookie
    <2>1. TAKE i \in 1 .. k
    <2>2. i \in Used(L)
      BY <1>13
    <2>3. i - 1 \in 0 .. L /\ slot[i - 1] # 0 /\ i \in 0 .. L /\ i # 0
      BY <1>1, <1>13, <2>2
    <2>4. slot[i - 1] \in R
      BY <1>11, <2>3
    <2>5. slot[i] = NextSlot(t, slot[i - 1])
      BY <1>8, <2>3
    <2>6. QED
      BY <2>3, <2>4, <2>5 DEF R, NextSlot
  <1>15. slot[k] = 0
    <2>1. k + 1 \in 1 .. L + 1 /\ (k + 1) - 1 = k /\ k + 1 \notin 1 .. k
      BY <1>1, <1>13
    <2>2. slot[k] # 0 => k + 1 \in Used(L)
      BY <2>1
    <2>3. QED
      BY <1>13, <2>1, <2>2
  <1>16. Slots(t, b) = [i \in 1 .. k |-> slot[i - 1]]
    BY <1>3, <1>13
  <1> DEFINE slots == [i \in 1 .. k |-> slot[i - 1]]
  <1>17. slots \in Seq(Live(t, b)) /\ Len(slots) = k /\ \A i \in 1 .. k : slots[i] = slot[i - 1]
    BY <1>14
  <1>18. slot[0] = t.entries[b].cookie
    BY <1>1, <1>8
  <1> HIDE DEF slots
  <1>19. Follows(t, b, slots)
    <2>1. slots = <<>> => t.entries[b].cookie = 0
      BY <1>15, <1>17, <1>18
    <2>2. ASSUME slots # <<>>
          PROVE  slots[1] = t.entries[b].cookie /\ t.overflow[slots[Len(slots)]].cookie = 0
      <3>1. k # 0
        BY <1>17, <2>2
      <3>2. 1 \in 1 .. k /\ k \in 1 .. k /\ 1 - 1 = 0
        BY <3>1
      <3>3. QED
        BY <1>14, <1>15, <1>17, <1>18, <3>2
    <2>3. ASSUME NEW i \in 1 .. Len(slots) - 1
          PROVE  slots[i + 1] = t.overflow[slots[i]].cookie
      <3>1. i \in 1 .. k /\ i + 1 \in 1 .. k /\ (i + 1) - 1 = i
        BY <1>17
      <3>2. QED
        BY <1>14, <1>17, <3>1
    <2>4. QED
      BY <2>1, <2>2, <2>3 DEF Follows
  <1>20. QED
    BY <1>16, <1>17, <1>19 DEF slots

LEMMA SlotsLive ==
  ASSUME NEW E, Entries(E), NEW t, TableInv(t, E), NEW b \in Buckets(t.step)
  PROVE  Slots(t, b) \in Seq(Live(t, b))
  BY SlotsAre

-----------------------------------------------------------------------------
\* Insert

Table(step, count, overflow_count, lost, entries, overflow) ==
  [step |-> step, count |-> count, overflow_count |-> overflow_count, lost |-> lost,
   entries |-> entries, overflow |-> overflow]

\* What makes a table of its parts.
Typed(E, step, count, oc, lost, entries, overflow) ==
  /\ step \in Steps /\ count \in Nat /\ oc \in Nat /\ lost \in SUBSET Losses
  /\ entries \in [Buckets(step) -> E \cup {NoEntry}]
  /\ overflow \in [0 .. OverflowSize(step) - 1 -> E \cup {NoEntry}]
  /\ oc >= 1 /\ oc <= OverflowSize(step)

HeadsLinked(E, step, oc, entries, overflow) ==
  \A b \in Buckets(step) : entries[b] # NoEntry =>
    /\ entries[b] \in E
    /\ entries[b].code % HashSize(step) = b
    /\ entries[b].cookie \in 0 .. oc - 1
    /\ entries[b].cookie # 0 => overflow[entries[b].cookie].code % HashSize(step) = b

SlotsLinked(E, step, oc, overflow) ==
  \A i \in 1 .. oc - 1 :
    /\ overflow[i] \in E /\ overflow[i].cookie \in 0 .. oc - 1
    /\ overflow[i].cookie # 0 =>
         /\ overflow[overflow[i].cookie].code % HashSize(step) = overflow[i].code % HashSize(step)
         /\ overflow[i].cookie > i

LEMMA TableBuilt ==
  ASSUME NEW E, Entries(E), NEW step, NEW count, NEW oc, NEW lost, NEW entries, NEW overflow,
         Typed(E, step, count, oc, lost, entries, overflow),
         HeadsLinked(E, step, oc, entries, overflow), SlotsLinked(E, step, oc, overflow)
  PROVE  TableInv(Table(step, count, oc, lost, entries, overflow), E)
  <1>0. /\ step \in Steps /\ count \in Nat /\ oc \in Nat /\ lost \in SUBSET Losses
        /\ entries \in [Buckets(step) -> E \cup {NoEntry}]
        /\ overflow \in [0 .. OverflowSize(step) - 1 -> E \cup {NoEntry}]
        /\ oc >= 1 /\ oc <= OverflowSize(step)
    BY DEF Typed
  <1> DEFINE t == Table(step, count, oc, lost, entries, overflow)
  <1>1. /\ t.step = step /\ t.count = count /\ t.overflow_count = oc /\ t.lost = lost
        /\ t.entries = entries /\ t.overflow = overflow
    BY DEF Table
  <1>2. oc \in 1 .. OverflowSize(step)
    BY <1>0, Sizes
  <1>3. TableType(t, E)
    <2>1. t \in [step : 1 .. HashSteps, count : Nat, overflow_count : Nat, lost : SUBSET Losses,
                 entries  : [0 .. HashSize(step) - 1 -> E \cup {NoEntry}],
                 overflow : [0 .. OverflowSize(step) - 1 -> E \cup {NoEntry}]]
      BY <1>0 DEF Table, Steps, Buckets
    <2> HIDE DEF t
    <2>2. QED
      BY <1>1, <1>2, <2>1 DEF TableType
  <1> HIDE DEF t
  <1>4. ASSUME NEW b \in DOMAIN t.entries, ~IsEmpty(t.entries[b])
        PROVE  Linked(t, t.entries[b], b)
    <2>1. b \in Buckets(step) /\ entries[b] # NoEntry
      BY <1>0, <1>1, <1>4, EntryOrNone
    <2>2. QED
      BY <1>1, <2>1 DEF Linked, HeadsLinked
  <1>5. ASSUME NEW i \in 1 .. t.overflow_count - 1
        PROVE  /\ ~IsEmpty(t.overflow[i])
               /\ Linked(t, t.overflow[i], t.overflow[i].code % HashSize(t.step))
               /\ t.overflow[i].cookie # 0 => t.overflow[i].cookie > i
    <2>1. i \in 1 .. oc - 1 /\ overflow[i] \in E
      BY <1>1 DEF SlotsLinked
    <2>2. ~IsEmpty(overflow[i])
      BY <2>1, EntryOrNone
    <2>3. QED
      BY <1>1, <2>1, <2>2 DEF Linked, SlotsLinked
  <1>6. TableInv(t, E)
    BY <1>3, <1>4, <1>5 DEF TableInv, TableLinks
  <1>7. QED
    BY <1>6 DEF t

LEMMA TableLinked ==
  ASSUME NEW E, Entries(E), NEW t, TableInv(t, E)
  PROVE  /\ HeadsLinked(E, t.step, t.overflow_count, t.entries, t.overflow)
         /\ SlotsLinked(E, t.step, t.overflow_count, t.overflow)
  <1>1. ASSUME NEW b \in Buckets(t.step), t.entries[b] # NoEntry
        PROVE  t.entries[b] \in E /\ Linked(t, t.entries[b], b)
    <2>1. b \in DOMAIN t.entries /\ t.entries[b] \in E \cup {NoEntry}
      BY TableParts
    <2>2. ~IsEmpty(t.entries[b])
      BY <1>1, <2>1, EntryOrNone
    <2>3. QED
      BY <1>1, <2>1, <2>2 DEF TableInv, TableLinks
  <1>2. ASSUME NEW i \in 1 .. t.overflow_count - 1
        PROVE  /\ t.overflow[i] \in E
               /\ Linked(t, t.overflow[i], t.overflow[i].code % HashSize(t.step))
               /\ t.overflow[i].cookie # 0 => t.overflow[i].cookie > i
    BY TableParts DEF TableInv, TableLinks
  <1>3. QED
    BY <1>1, <1>2 DEF Linked, HeadsLinked, SlotsLinked

\* e is put behind the overflow slots in use, and something of bucket b that
\* was there before may point to it.
Behind(E, t, e, b, entries, overflow) ==
  /\ entries \in [Buckets(t.step) -> E \cup {NoEntry}]
  /\ overflow \in [0 .. OverflowSize(t.step) - 1 -> E \cup {NoEntry}]
  /\ \A c \in Buckets(t.step) : entries[c] # NoEntry =>
       /\ t.entries[c] # NoEntry /\ entries[c].code = t.entries[c].code
       /\ \/ entries[c].cookie = t.entries[c].cookie
          \/ entries[c].cookie = t.overflow_count /\ c = b
  /\ overflow[t.overflow_count] = e
  /\ \A i \in 1 .. t.overflow_count - 1 :
       /\ overflow[i] \in E /\ overflow[i].code = t.overflow[i].code
       /\ \/ overflow[i].cookie = t.overflow[i].cookie
          \/ overflow[i].cookie = t.overflow_count /\ overflow[i].code % HashSize(t.step) = b

LEMMA Appended ==
  ASSUME NEW E, Entries(E), NEW t, TableInv(t, E), t.overflow_count < OverflowSize(t.step),
         NEW e \in E, e.cookie = 0, NEW b, e.code % HashSize(t.step) = b,
         NEW entries, NEW overflow, Behind(E, t, e, b, entries, overflow)
  PROVE  TableInv(Table(t.step, t.count, t.overflow_count + 1, t.lost, entries, overflow), E)
  <1> DEFINE oc == t.overflow_count
  <1> USE DEF Behind
  <1>1. oc \in Nat /\ oc >= 1 /\ oc + 1 \in Nat /\ oc + 1 >= 1 /\ oc + 1 <= OverflowSize(t.step)
        /\ t.step \in Steps /\ t.count \in Nat /\ t.lost \in SUBSET Losses
    <2>1. oc \in Nat /\ oc >= 1 /\ t.step \in Steps /\ t.count \in Nat /\ t.lost \in SUBSET Losses
      BY TableParts
    <2>2. OverflowSize(t.step) \in Nat
      BY <2>1, Sizes
    <2>3. QED
      BY <2>1, <2>2
  <1>2. \A c \in 0 .. oc : c = 0 \/ c \in 1 .. oc - 1 \/ c = oc
    BY <1>1
  <1>3. ASSUME NEW c \in Buckets(t.step), entries[c] # NoEntry
        PROVE  /\ entries[c].code % HashSize(t.step) = c
               /\ entries[c].cookie \in 0 .. (oc + 1) - 1
               /\ entries[c].cookie # 0 => overflow[entries[c].cookie].code % HashSize(t.step) = c
    <2>1. entries[c].code % HashSize(t.step) = c
      BY <1>3, TableLinked DEF HeadsLinked
    <2>2. CASE entries[c].cookie = t.entries[c].cookie
      <3>1. t.entries[c].cookie \in 0 .. oc - 1
            /\ (t.entries[c].cookie # 0 =>
                  t.overflow[t.entries[c].cookie].code % HashSize(t.step) = c)
        BY <1>3, TableLinked DEF HeadsLinked
      <3>2. t.entries[c].cookie # 0 => t.entries[c].cookie \in 1 .. oc - 1
        BY <1>1, <3>1
      <3>3. t.entries[c].cookie \in 0 .. (oc + 1) - 1
        BY <1>1, <3>1
      <3>4. QED
        BY <2>1, <2>2, <3>1, <3>2, <3>3
    <2>3. CASE entries[c].cookie = oc /\ c = b
      <3>1. oc \in 0 .. (oc + 1) - 1
        BY <1>1
      <3>2. QED
        BY <2>1, <2>3, <3>1
    <2>4. QED
      BY <1>3, <2>2, <2>3
  <1>4. ASSUME NEW i \in 1 .. (oc + 1) - 1
        PROVE  /\ overflow[i] \in E /\ overflow[i].cookie \in 0 .. (oc + 1) - 1
               /\ overflow[i].cookie # 0 =>
                    /\ overflow[overflow[i].cookie].code % HashSize(t.step)
                         = overflow[i].code % HashSize(t.step)
                    /\ overflow[i].cookie > i
    <2>1. CASE i = oc
      BY <1>1, <2>1
    <2>2. CASE i \in 1 .. oc - 1
      <3>1. CASE overflow[i].cookie = t.overflow[i].cookie
        <4>1. t.overflow[i].cookie \in 0 .. oc - 1
              /\ (t.overflow[i].cookie # 0 =>
                    /\ t.overflow[t.overflow[i].cookie].code % HashSize(t.step)
                         = t.overflow[i].code % HashSize(t.step)
                    /\ t.overflow[i].cookie > i)
          BY <2>2, TableLinked DEF SlotsLinked
        <4>2. t.overflow[i].cookie # 0 => t.overflow[i].cookie \in 1 .. oc - 1
          BY <1>1, <4>1
        <4>3. t.overflow[i].cookie \in 0 .. (oc + 1) - 1
          BY <1>1, <4>1
        <4>4. QED
          BY <2>2, <3>1, <4>1, <4>2, <4>3
      <3>2. CASE overflow[i].cookie = oc /\ overflow[i].code % HashSize(t.step) = b
        <4>1. oc \in 0 .. (oc + 1) - 1 /\ oc > i
          BY <1>1, <2>2
        <4>2. QED
          BY <2>2, <3>2, <4>1
      <3>3. QED
        BY <2>2, <3>1, <3>2
    <2>3. i = oc \/ i \in 1 .. oc - 1
      BY <1>1, <1>4
    <2>4. QED
      BY <2>1, <2>2, <2>3
  <1> HIDE DEF oc
  <1>5. TableInv(Table(t.step, t.count, oc + 1, t.lost, entries, overflow), E)
    <2>1. HeadsLinked(E, t.step, oc + 1, entries, overflow)
      BY <1>3 DEF HeadsLinked
    <2>2. SlotsLinked(E, t.step, oc + 1, overflow)
      BY <1>4 DEF SlotsLinked
    <2>3. Typed(E, t.step, t.count, oc + 1, t.lost, entries, overflow)
      BY <1>1 DEF Typed
    <2>4. QED
      BY <2>1, <2>2, <2>3, TableBuilt
  <1>6. QED
    BY <1>5 DEF oc

\* What Insert does: the table stays one, and only what meets another entry in
\* its bucket goes to the overflow array.
Inserts(t, u, E, b) ==
  /\ TableInv(u, E) /\ u.step = t.step /\ u.count = t.count
  /\ u.overflow_count \in {t.overflow_count, t.overflow_count + 1}
  /\ t.entries[b] = NoEntry => u.overflow_count = t.overflow_count
  /\ \A c \in Buckets(t.step) : c # b => u.entries[c] = t.entries[c]

LEMMA InsertHead ==
  ASSUME NEW E, Entries(E), NEW t, TableInv(t, E), NEW e \in E, e.cookie = 0,
         NEW b \in Buckets(t.step), e.code % HashSize(t.step) = b, t.entries[b] = NoEntry
  PROVE  Inserts(t, [t EXCEPT !.entries[b] = e], E, b)
  <1> DEFINE entries == [t.entries EXCEPT ![b] = e]
             u == Table(t.step, t.count, t.overflow_count, t.lost, entries, t.overflow)
  <1>1. Typed(E, t.step, t.count, t.overflow_count, t.lost, t.entries, t.overflow)
    BY TableParts DEF Typed
  <1>2. [t EXCEPT !.entries[b] = e] = u
    BY TableParts DEF Table
  <1>3. entries \in [Buckets(t.step) -> E \cup {NoEntry}] /\ entries[b] = e
        /\ \A c \in Buckets(t.step) : c # b => entries[c] = t.entries[c]
    BY <1>1 DEF Typed
  <1> HIDE DEF entries
  <1>4. HeadsLinked(E, t.step, t.overflow_count, entries, t.overflow)
    <2>1. ASSUME NEW c \in Buckets(t.step), c # b, entries[c] # NoEntry
          PROVE  /\ entries[c] \in E /\ entries[c].code % HashSize(t.step) = c
                 /\ entries[c].cookie \in 0 .. t.overflow_count - 1
                 /\ entries[c].cookie # 0 =>
                      t.overflow[entries[c].cookie].code % HashSize(t.step) = c
      BY <1>3, <2>1, TableLinked DEF HeadsLinked
    <2>2. 0 \in 0 .. t.overflow_count - 1
      BY <1>1 DEF Typed
    <2>3. QED
      BY <1>3, <2>1, <2>2 DEF HeadsLinked
  <1>5. Typed(E, t.step, t.count, t.overflow_count, t.lost, entries, t.overflow)
    BY <1>1, <1>3 DEF Typed
  <1>6. TableInv(u, E)
    BY <1>4, <1>5, TableLinked, TableBuilt
  <1>7. u.step = t.step /\ u.count = t.count /\ u.overflow_count = t.overflow_count
        /\ u.entries = entries
    BY DEF Table
  <1> HIDE DEF u
  <1>8. Inserts(t, u, E, b)
    BY <1>3, <1>6, <1>7 DEF Inserts
  <1>9. QED
    BY <1>2, <1>8

LEMMA InsertNot ==
  ASSUME NEW E, Entries(E), NEW t, TableInv(t, E), NEW b, NEW how \in Losses
  PROVE  Inserts(t, Loses(t, how), E, b)
  <1> DEFINE u == Loses(t, how)
  <1>1. TableType(t, E) /\ TableLinks(t)
    BY DEF TableInv
  <1>2. /\ u.step = t.step /\ u.count = t.count /\ u.overflow_count = t.overflow_count
        /\ u.entries = t.entries /\ u.overflow = t.overflow
    BY <1>1 DEF TableType, Loses
  <1>3. u \in [step : 1 .. HashSteps, count : Nat, overflow_count : Nat, lost : SUBSET Losses,
               entries  : [0 .. HashSize(t.step) - 1 -> E \cup {NoEntry}],
               overflow : [0 .. OverflowSize(t.step) - 1 -> E \cup {NoEntry}]]
    BY <1>1 DEF TableType, Loses
  <1> HIDE DEF u
  <1>4. TableInv(u, E)
    BY <1>1, <1>2, <1>3 DEF TableInv, TableType, TableLinks, Linked
  <1>5. Inserts(t, u, E, b)
    BY <1>2, <1>4, TableParts DEF Inserts
  <1>6. QED
    BY <1>5 DEF u

\* e comes into the overflow array, and its bucket or the slot tail points to it.
InsertedSecond(t, e, b) ==
  [[t EXCEPT !.entries[b].cookie = t.overflow_count] EXCEPT
     !.overflow[t.overflow_count] = e, !.overflow_count = @ + 1]

InsertedBehind(t, e, tail) ==
  [[t EXCEPT !.overflow[tail].cookie = t.overflow_count] EXCEPT
     !.overflow[t.overflow_count] = e, !.overflow_count = @ + 1]

LEMMA SecondIs ==
  ASSUME NEW E, Entries(E), NEW t, TableInv(t, E), NEW e, NEW b
  PROVE  InsertedSecond(t, e, b)
           = Table(t.step, t.count, t.overflow_count + 1, t.lost,
                   [t.entries EXCEPT ![b].cookie = t.overflow_count],
                   [t.overflow EXCEPT ![t.overflow_count] = e])
  <1> DEFINE oc == t.overflow_count
             entries == [t.entries EXCEPT ![b].cookie = oc]
  <1>1. t = Table(t.step, t.count, oc, t.lost, t.entries, t.overflow)
    BY TableParts DEF Table
  <1> DEFINE t1 == [t EXCEPT !.entries[b].cookie = oc]
             t2 == [t1 EXCEPT !.overflow[oc] = e]
  <1>2. t1 = Table(t.step, t.count, oc, t.lost, entries, t.overflow)
    BY <1>1 DEF Table
  <1>3. InsertedSecond(t, e, b) = [t2 EXCEPT !.overflow_count = @ + 1]
    BY DEF InsertedSecond
  <1> HIDE DEF t1, oc, entries
  <1>4. t2 = Table(t.step, t.count, oc, t.lost, entries, [t.overflow EXCEPT ![oc] = e])
    BY <1>2 DEF Table
  <1> HIDE DEF t2
  <1>5. [t2 EXCEPT !.overflow_count = @ + 1]
          = Table(t.step, t.count, oc + 1, t.lost, entries, [t.overflow EXCEPT ![oc] = e])
    BY <1>4 DEF Table
  <1>6. QED
    BY <1>3, <1>5 DEF oc, entries

LEMMA BehindIs ==
  ASSUME NEW E, Entries(E), NEW t, TableInv(t, E), NEW e, NEW tail
  PROVE  InsertedBehind(t, e, tail)
           = Table(t.step, t.count, t.overflow_count + 1, t.lost, t.entries,
                   [[t.overflow EXCEPT ![tail] = [t.overflow[tail] EXCEPT !.cookie = t.overflow_count]]
                      EXCEPT ![t.overflow_count] = e])
  <1> DEFINE oc == t.overflow_count
             f == [t.overflow[tail] EXCEPT !.cookie = oc]
             overflow == [[t.overflow EXCEPT ![tail] = f] EXCEPT ![oc] = e]
  <1>1. t = Table(t.step, t.count, oc, t.lost, t.entries, t.overflow)
    BY TableParts DEF Table
  <1> DEFINE t1 == [t EXCEPT !.overflow[tail].cookie = oc]
             t2 == [t1 EXCEPT !.overflow[oc] = e]
             o1 == [t.overflow EXCEPT ![tail] = f]
  <1>2. t1 = Table(t.step, t.count, oc, t.lost, t.entries, o1)
    BY <1>1 DEF Table
  <1>3. InsertedBehind(t, e, tail) = [t2 EXCEPT !.overflow_count = @ + 1]
    BY DEF InsertedBehind
  <1>4. overflow = [o1 EXCEPT ![oc] = e]
    OBVIOUS
  <1> HIDE DEF t1, oc, o1, overflow
  <1>5. t2 = Table(t.step, t.count, oc, t.lost, t.entries, overflow)
    BY <1>2, <1>4 DEF Table
  <1> HIDE DEF t2
  <1>6. [t2 EXCEPT !.overflow_count = @ + 1]
          = Table(t.step, t.count, oc + 1, t.lost, t.entries, overflow)
    BY <1>5 DEF Table
  <1>7. QED
    BY <1>3, <1>6 DEF oc, overflow

LEMMA InsertSecond ==
  ASSUME NEW E, Entries(E), NEW t, TableInv(t, E), NEW e \in E, e.cookie = 0,
         t.overflow_count < OverflowSize(t.step),
         NEW b \in Buckets(t.step), e.code % HashSize(t.step) = b, t.entries[b] # NoEntry
  PROVE  Inserts(t, InsertedSecond(t, e, b), E, b)
  <1> DEFINE oc == t.overflow_count
             entries == [t.entries EXCEPT ![b].cookie = oc]
             overflow == [t.overflow EXCEPT ![oc] = e]
             u == Table(t.step, t.count, oc + 1, t.lost, entries, overflow)
  <1>1. Typed(E, t.step, t.count, oc, t.lost, t.entries, t.overflow)
        /\ OverflowSize(t.step) \in Nat
    BY TableParts, Sizes DEF Typed
  <1>2. InsertedSecond(t, e, b) = u
    BY SecondIs
  <1>3. [t.entries[b] EXCEPT !.cookie = oc] \in E
    <2>1. t.entries[b] \in E /\ oc \in Nat
      BY <1>1 DEF Typed
    <2>2. QED
      BY <2>1 DEF Entries
  <1>4. /\ entries \in [Buckets(t.step) -> E \cup {NoEntry}]
        /\ entries[b] = [t.entries[b] EXCEPT !.cookie = oc]
        /\ \A c \in Buckets(t.step) : c # b => entries[c] = t.entries[c]
    <2>1. t.entries \in [Buckets(t.step) -> E \cup {NoEntry}]
      BY <1>1 DEF Typed
    <2>2. entries = [t.entries EXCEPT ![b] = [t.entries[b] EXCEPT !.cookie = oc]]
      BY <2>1
    <2>3. QED
      BY <1>3, <2>1, <2>2
  <1>5. /\ overflow \in [0 .. OverflowSize(t.step) - 1 -> E \cup {NoEntry}]
        /\ overflow[oc] = e
        /\ \A i \in 1 .. oc - 1 : overflow[i] = t.overflow[i]
    BY <1>1 DEF Typed
  <1>6. entries[b].cookie = oc /\ entries[b].code = t.entries[b].code
    <2>1. t.entries[b] \in EntrySet
      BY <1>1, EntryOrNone DEF Typed
    <2>2. QED
      BY <1>4, <2>1 DEF EntrySet
  <1> HIDE DEF entries, overflow
  <1>7. \A c \in Buckets(t.step) : entries[c] # NoEntry =>
           /\ t.entries[c] # NoEntry /\ entries[c].code = t.entries[c].code
           /\ \/ entries[c].cookie = t.entries[c].cookie
              \/ entries[c].cookie = oc /\ c = b
    BY <1>4, <1>6
  <1>8. \A i \in 1 .. oc - 1 :
           /\ overflow[i] \in E /\ overflow[i].code = t.overflow[i].code
           /\ \/ overflow[i].cookie = t.overflow[i].cookie
              \/ overflow[i].cookie = t.overflow_count /\ overflow[i].code % HashSize(t.step) = b
    BY <1>5, TableParts
  <1>9. TableInv(u, E)
    <2>1. Behind(E, t, e, b, entries, overflow)
      BY <1>4, <1>5, <1>7, <1>8 DEF Behind
    <2> HIDE DEF oc
    <2>2. QED
      BY <2>1, Appended DEF oc
  <1>10. u.step = t.step /\ u.count = t.count /\ u.overflow_count = oc + 1
        /\ u.entries = entries
    BY DEF Table
  <1> HIDE DEF u
  <1>11. QED
    BY <1>2, <1>4, <1>9, <1>10 DEF Inserts

LEMMA InsertBehind ==
  ASSUME NEW E, Entries(E), NEW t, TableInv(t, E), NEW e \in E, e.cookie = 0,
         t.overflow_count < OverflowSize(t.step),
         NEW b \in Buckets(t.step), e.code % HashSize(t.step) = b, t.entries[b] # NoEntry,
         NEW tail \in Live(t, b)
  PROVE  Inserts(t, InsertedBehind(t, e, tail), E, b)
  <1> DEFINE oc == t.overflow_count
             f == [t.overflow[tail] EXCEPT !.cookie = oc]
             overflow == [[t.overflow EXCEPT ![tail] = f] EXCEPT ![oc] = e]
             u == Table(t.step, t.count, oc + 1, t.lost, t.entries, overflow)
  <1>1. Typed(E, t.step, t.count, oc, t.lost, t.entries, t.overflow)
        /\ OverflowSize(t.step) \in Nat
    BY TableParts, Sizes DEF Typed
  <1>2. InsertedBehind(t, e, tail) = u
    BY BehindIs
  <1>3. tail \in 1 .. oc - 1 /\ t.overflow[tail].code % HashSize(t.step) = b /\ oc \in Nat
    BY <1>1 DEF Live, Typed
  <1>4. f \in E /\ f.cookie = oc /\ f.code = t.overflow[tail].code
    <2>1. t.overflow[tail] \in E
      BY <1>3, TableParts
    <2>2. QED
      BY <1>3, <2>1 DEF Entries, EntrySet
  <1> HIDE DEF f
  <1>5. /\ overflow \in [0 .. OverflowSize(t.step) - 1 -> E \cup {NoEntry}]
        /\ overflow[oc] = e
        /\ overflow[tail] = f
        /\ \A i \in 1 .. oc - 1 : i # tail => overflow[i] = t.overflow[i]
    <2>1. /\ t.overflow \in [0 .. OverflowSize(t.step) - 1 -> E \cup {NoEntry}]
          /\ OverflowSize(t.step) \in Nat /\ oc < OverflowSize(t.step)
      BY <1>1 DEF Typed
    <2> HIDE DEF oc
    <2>2. QED
      BY <1>3, <1>4, <2>1
  <1> HIDE DEF overflow
  <1>7. \A c \in Buckets(t.step) : t.entries[c] # NoEntry =>
           /\ t.entries[c] # NoEntry /\ t.entries[c].code = t.entries[c].code
           /\ \/ t.entries[c].cookie = t.entries[c].cookie
              \/ t.entries[c].cookie = oc /\ c = b
    OBVIOUS
  <1>8. \A i \in 1 .. oc - 1 :
           /\ overflow[i] \in E /\ overflow[i].code = t.overflow[i].code
           /\ \/ overflow[i].cookie = t.overflow[i].cookie
              \/ overflow[i].cookie = t.overflow_count /\ overflow[i].code % HashSize(t.step) = b
    BY <1>3, <1>4, <1>5, TableParts
  <1>9. TableInv(u, E)
    <2>1. t.entries \in [Buckets(t.step) -> E \cup {NoEntry}]
      BY <1>1 DEF Typed
    <2>2. Behind(E, t, e, b, t.entries, overflow)
      BY <1>5, <1>7, <1>8, <2>1 DEF Behind
    <2> HIDE DEF oc
    <2>3. QED
      BY <2>2, Appended DEF oc
  <1>10. u.step = t.step /\ u.count = t.count /\ u.overflow_count = oc + 1
        /\ u.entries = t.entries
    BY DEF Table
  <1> HIDE DEF u
  <1>11. QED
    BY <1>2, <1>9, <1>10 DEF Inserts

\* What Insert comes to: a head, nothing, the second of a chain, or the next
\* behind the last slot of a chain.
Inserted(t, u, e, b) ==
  \/ t.entries[b] = NoEntry /\ u = [t EXCEPT !.entries[b] = e]
  \/ \E how \in Losses : u = Loses(t, how)
  \/ /\ t.entries[b] # NoEntry /\ t.overflow_count < OverflowSize(t.step)
     /\ \/ t.entries[b].cookie = 0 /\ u = InsertedSecond(t, e, b)
        \/ \E i \in 1 .. Len(Slots(t, b)) :
             LET tail == Slots(t, b)[i]
             IN  tail \in Live(t, b) /\ t.overflow[tail].cookie = 0 /\ u = InsertedBehind(t, e, tail)

LEMMA InsertCases ==
  ASSUME NEW E, Entries(E), NEW t, TableInv(t, E), NEW e \in E, e.cookie = 0
  PROVE  LET b == e.code % HashSize(t.step)
         IN  b \in Buckets(t.step) /\ Inserted(t, Insert(t, e), e, b)
  <1> DEFINE b == e.code % HashSize(t.step)
             slots == Slots(t, b)
             oc == t.overflow_count
  <1>1. t.step \in Steps /\ oc \in Nat /\ OverflowSize(t.step) \in Nat /\ MaxCookie \in Nat
        /\ OverflowSize(t.step) <= MaxCookie /\ oc <= OverflowSize(t.step)
    BY TableParts, Sizes
  <1>2. b \in Buckets(t.step)
    <2>1. e.code \in Nat /\ HashSize(t.step) \in Nat /\ HashSize(t.step) > 0
      BY <1>1, EntryOrNone, Sizes
    <2>2. QED
      BY <2>1, Division DEF Buckets
  <1>3. t.entries[b] \in E \cup {NoEntry}
    BY <1>2, TableParts
  <1>4. slots \in Seq(Live(t, b)) /\ Follows(t, b, slots)
    BY <1>2, SlotsAre
  <1>5. Insert(t, e) = InsertInto(t, e, b, slots)
    BY DEF Insert, Bucket
  <1>6. CASE IsEmpty(t.entries[b])
    <2>1. t.entries[b] = NoEntry
      BY <1>3, <1>6, EntryOrNone
    <2>2. Insert(t, e) = [t EXCEPT !.entries[b] = e]
      BY <1>5, <1>6 DEF InsertInto
    <2>3. QED
      BY <1>2, <2>1, <2>2 DEF Inserted
  <1>7. CASE ~IsEmpty(t.entries[b]) /\ (oc = MaxCookie \/ (slots # <<>> /\ Len(slots) > OverflowLimit))
    <2>1. Insert(t, e) = Loses(t, "dropped")
      BY <1>5, <1>7 DEF InsertInto
    <2>2. QED
      BY <1>2, <2>1 DEF Inserted, Losses
  <1>8. CASE /\ ~IsEmpty(t.entries[b]) /\ oc # MaxCookie
             /\ ~(slots # <<>> /\ Len(slots) > OverflowLimit)
             /\ ~(oc < OverflowSize(t.step))
    <2>1. Insert(t, e) = Loses(t, "overrun")
      BY <1>5, <1>8 DEF InsertInto
    <2>2. QED
      BY <1>2, <2>1 DEF Inserted, Losses
  <1>9. CASE /\ ~IsEmpty(t.entries[b]) /\ oc # MaxCookie
             /\ ~(slots # <<>> /\ Len(slots) > OverflowLimit)
             /\ oc < OverflowSize(t.step)
    <2>1. t.entries[b] # NoEntry
      BY <1>9, EntryOrNone
    <2>2. oc < OverflowSize(t.step)
      BY <1>9
    <2>3. CASE slots = <<>>
      <3>1. Insert(t, e) = InsertedSecond(t, e, b)
        BY <1>5, <1>9, <2>3 DEF InsertInto, InsertedSecond
      <3>2. t.entries[b].cookie = 0
        BY <1>4, <2>3 DEF Follows
      <3>3. QED
        BY <1>2, <2>1, <2>2, <3>1, <3>2 DEF Inserted
    <2>4. CASE slots # <<>>
      <3> DEFINE n == Len(slots)
                 tail == slots[n]
      <3>1. Insert(t, e) = InsertedBehind(t, e, tail)
        BY <1>5, <1>9, <2>4 DEF InsertInto, InsertedBehind
      <3>2. t.overflow[tail].cookie = 0
        BY <1>4, <2>4 DEF Follows
      <3>3. n \in 1 .. n /\ tail \in Live(t, b)
        <4> HIDE DEF slots, b
        <4>1. QED
          BY <1>4, <2>4
      <3>4. QED
        BY <1>2, <2>1, <2>2, <3>1, <3>2, <3>3 DEF Inserted
    <2>5. QED
      BY <2>3, <2>4
  <1>10. QED
    BY <1>6, <1>7, <1>8, <1>9

LEMMA InsertKeeps ==
  ASSUME NEW E, Entries(E), NEW t, TableInv(t, E), NEW e \in E, e.cookie = 0
  PROVE  /\ e.code % HashSize(t.step) \in Buckets(t.step)
         /\ Inserts(t, Insert(t, e), E, e.code % HashSize(t.step))
  <1> DEFINE b == e.code % HashSize(t.step)
  <1>1. b \in Buckets(t.step) /\ Inserted(t, Insert(t, e), e, b)
    BY InsertCases
  <1>2. e.code % HashSize(t.step) = b
    OBVIOUS
  <1> HIDE DEF b
  <1>3. CASE t.entries[b] = NoEntry /\ Insert(t, e) = [t EXCEPT !.entries[b] = e]
    BY <1>1, <1>2, <1>3, InsertHead
  <1>4. ASSUME NEW how \in Losses, Insert(t, e) = Loses(t, how)
        PROVE  Inserts(t, Insert(t, e), E, b)
    BY <1>1, <1>2, <1>4, InsertNot
  <1>5. CASE /\ t.entries[b] # NoEntry /\ t.overflow_count < OverflowSize(t.step)
             /\ Insert(t, e) = InsertedSecond(t, e, b)
    BY <1>1, <1>2, <1>5, InsertSecond
  <1>6. ASSUME t.entries[b] # NoEntry, t.overflow_count < OverflowSize(t.step),
               NEW tail \in Live(t, b), Insert(t, e) = InsertedBehind(t, e, tail)
        PROVE  Inserts(t, Insert(t, e), E, b)
    BY <1>1, <1>2, <1>6, InsertBehind
  <1>7. QED
    BY <1>1, <1>2, <1>3, <1>4, <1>5, <1>6 DEF Inserted

-----------------------------------------------------------------------------
\* New tables

Tables(E, s) ==
  [step : Steps, count : Nat, overflow_count : Nat, lost : SUBSET Losses,
   entries  : [Buckets(s) -> E \cup {NoEntry}],
   overflow : [0 .. OverflowSize(s) - 1 -> E \cup {NoEntry}]]

LEMMA EmptyTable ==
  ASSUME NEW E, Entries(E), NEW s \in Steps, NEW t \in Tables(E, s), t.step = s,
         t.overflow_count = 1, \A b \in Buckets(s) : t.entries[b] = NoEntry
  PROVE  TableInv(t, E)
  <1>1. HashSize(s) \in Nat /\ OverflowSize(s) \in Nat /\ OverflowSize(s) >= 2
    BY Sizes
  <1>2. TableType(t, E)
    BY <1>1 DEF TableType, Tables, Steps, Buckets
  <1>3. DOMAIN t.entries = Buckets(s)
    BY DEF Tables
  <1>4. TableLinks(t)
    BY <1>1, <1>3, EntryOrNone DEF TableLinks
  <1>5. QED
    BY <1>2, <1>4 DEF TableInv

LargerTable(s, count, lost) == [NewTable(s) EXCEPT !.count = count, !.lost = lost]

LEMMA NewTableInv ==
  ASSUME NEW E, Entries(E), NEW s \in Steps, NEW count \in Nat, NEW lost \in SUBSET Losses
  PROVE  LET t == LargerTable(s, count, lost)
         IN  /\ TableInv(t, E) /\ t.step = s /\ t.overflow_count = 1
             /\ \A b \in Buckets(s) : t.entries[b] = NoEntry
  <1> DEFINE t == LargerTable(s, count, lost)
  <1>1. /\ t.step = s /\ t.overflow_count = 1
        /\ \A b \in Buckets(s) : t.entries[b] = NoEntry
    BY DEF NewTable, Buckets, LargerTable
  <1>2. t \in Tables(E, s)
    BY DEF NewTable, Tables, Buckets, LargerTable
  <1> HIDE DEF t
  <1>3. TableInv(t, E) /\ t.step = s /\ t.overflow_count = 1
             /\ \A b \in Buckets(s) : t.entries[b] = NoEntry
    BY <1>1, <1>2, EmptyTable
  <1>4. QED
    BY <1>3 DEF t

LEMMA FirstTableInv ==
  ASSUME NEW E, Entries(E)
  PROVE  TableInv(NewTable(1), E)
  <1> DEFINE t == NewTable(1)
  <1>1. 1 \in Steps
    <2>1. Len(hash_size_step_table_) \in Nat /\ Len(hash_size_step_table_) # 0
      BY HashAssumption
    <2>2. QED
      BY <2>1 DEF Steps, HashSteps
  <1>2. /\ t.step = 1 /\ t.overflow_count = 1
        /\ \A b \in Buckets(1) : t.entries[b] = NoEntry
    BY DEF NewTable, Buckets
  <1>3. t \in Tables(E, 1)
    BY <1>1 DEF NewTable, Tables, Buckets
  <1> HIDE DEF t
  <1>4. TableInv(t, E)
    BY <1>1, <1>2, <1>3, EmptyTable
  <1>5. QED
    BY <1>4 DEF t

LEMMA ResetInv ==
  ASSUME NEW E, Entries(E), NEW t, TableInv(t, E)
  PROVE  TableInv(Reset(t), E)
  <1> DEFINE u == Reset(t)
             s == t.step
  <1>1. s \in Steps /\ t \in Tables(E, s) /\ DOMAIN t.entries = Buckets(s)
    BY TableParts DEF TableInv, TableType, Tables, Steps, Buckets
  <1>2. u.step = s /\ u.overflow_count = 1 /\ \A b \in Buckets(s) : u.entries[b] = NoEntry
    BY <1>1 DEF Reset, Tables
  <1>3. u \in Tables(E, s)
    BY <1>1 DEF Reset, Tables
  <1> HIDE DEF u, s
  <1>4. TableInv(u, E)
    BY <1>1, <1>2, <1>3, EmptyTable
  <1>5. QED
    BY <1>4 DEF u

-----------------------------------------------------------------------------
\* GrowAndRehash

LEMMA Remainder ==
  ASSUME NEW c \in Nat, NEW d \in Nat, d > 0, NEW k \in Nat, NEW r \in Nat, r < d, c = k * d + r
  PROVE  c % d = r
  <1> DEFINE q == c \div d
             s == c % d
  <1>1. q \in Nat /\ s \in Nat /\ s < d /\ c = q * d + s
    BY Division
  <1> HIDE DEF q, s
  <1>2. ASSUME NEW a \in Nat, NEW b \in Nat, NEW x \in Nat, NEW y \in Nat,
               a * d + x = b * d + y, a < b
        PROVE  x >= d
    <2>1. PICK e \in Nat : b = a + e /\ e > 0
      <3>1. b - a \in Nat /\ b = a + (b - a) /\ b - a > 0
        BY <1>2
      <3>2. QED
        BY <3>1
    <2>2. b * d = a * d + e * d /\ a * d \in Nat /\ e * d \in Nat
      BY <2>1, Z3
    <2>3. e * d >= d
      BY <2>1, Z3
    <2>4. QED
      BY <1>2, <2>2, <2>3
  <1>3. ~(q < k)
    BY <1>1, <1>2
  <1>4. ~(k < q)
    BY <1>1, <1>2
  <1>5. q = k
    BY <1>1, <1>3, <1>4
  <1>6. k * d \in Nat
    BY Z3
  <1>7. s = r
    BY <1>1, <1>5, <1>6
  <1>8. QED
    BY <1>7 DEF s

\* A table of the next size.
Grown(E, t) == {x \in Tables(E, t.step + 1) : TableInv(x, E) /\ x.step = t.step + 1}

LEMMA InTables ==
  ASSUME NEW E, Entries(E), NEW t, TableInv(t, E)
  PROVE  t \in Tables(E, t.step)
  BY DEF TableInv, TableType, Tables, Steps, Buckets

LEMMA GrowStep ==
  ASSUME NEW E, Entries(E), NEW t, TableInv(t, E), t.step < HashSteps,
         NEW n \in 1 .. HashSize(t.step) + t.overflow_count - 1, NEW x \in Grown(E, t)
  PROVE  InsertAgain(x, OldEntry(t, n)) \in Grown(E, t)
  <1> DEFINE H == HashSize(t.step)
             e == OldEntry(t, n)
             f == [e EXCEPT !.cookie = 0]
             y == InsertAgain(x, e)
  <1>1. t.step \in Steps /\ t.overflow_count \in Nat
    BY TableParts
  <1>2. H \in Nat /\ H > 0
    BY <1>1, Sizes
  <1>3. TableInv(x, E) /\ x.step = t.step + 1
    BY DEF Grown
  <1>4. e \in E \cup {NoEntry}
    <2>1. CASE n <= H
      <3>1. n - 1 \in Buckets(t.step)
        BY <1>2, <2>1 DEF Buckets
      <3>2. e = t.entries[n - 1]
        BY <2>1 DEF OldEntry
      <3>3. QED
        BY <3>1, <3>2, TableParts
    <2>2. CASE ~(n <= H)
      <3>1. n - H \in 1 .. t.overflow_count - 1
        BY <1>1, <1>2, <2>2
      <3>2. e = t.overflow[n - H]
        BY <2>2 DEF OldEntry
      <3>3. QED
        BY <3>1, <3>2, TableParts
    <2>3. QED
      BY <2>1, <2>2
  <1> HIDE DEF H, e
  <1>5. CASE e = NoEntry
    <2>1. y = x
      BY <1>5, EntryOrNone DEF InsertAgain
    <2>2. QED
      BY <2>1 DEF e
  <1>6. CASE e # NoEntry
    <2>1. f \in E /\ f.cookie = 0 /\ ~IsEmpty(e)
      <3>1. e \in E
        BY <1>4, <1>6
      <3>2. e \in EntrySet /\ ~IsEmpty(e)
        BY <3>1, EntryOrNone
      <3>3. f \in E
        BY <3>1 DEF Entries
      <3>4. f.cookie = 0
        BY <3>2 DEF EntrySet
      <3>5. QED
        BY <3>2, <3>3, <3>4
    <2>2. y = Insert(x, f)
      BY <2>1 DEF InsertAgain
    <2> HIDE DEF f, y
    <2>3. TableInv(y, E) /\ y.step = t.step + 1
      BY <1>3, <2>1, <2>2, InsertKeeps DEF Inserts
    <2>4. y \in Tables(E, t.step + 1)
      BY <2>3, InTables
    <2>5. QED
      BY <2>3, <2>4 DEF Grown, y, e
  <1>7. QED
    BY <1>5, <1>6

\* The tables on the way to the larger one.
GrowsBy(t, table, L) ==
  /\ GrowAndRehash(t) = table[L]
  /\ table[0] = LargerTable(t.step + 1, t.count, t.lost)
  /\ \A n \in 1 .. L : table[n] = InsertAgain(table[n - 1], OldEntry(t, n))

LEMMA GrowTables ==
  ASSUME NEW E, Entries(E), NEW t, TableInv(t, E), t.step < HashSteps
  PROVE  LET L == HashSize(t.step) + t.overflow_count - 1
         IN  /\ L \in Nat
             /\ \E table : GrowsBy(t, table, L) /\ \A n \in 0 .. L : table[n] \in Grown(E, t)
  <1> DEFINE L == HashSize(t.step) + t.overflow_count - 1
             base == LargerTable(t.step + 1, t.count, t.lost)
             S == [n \in 0 .. L |-> Grown(E, t)]
             step == [n \in 1 .. L |-> [x \in S[n - 1] |-> InsertAgain(x, OldEntry(t, n))]]
             table[n \in 0 .. L] ==
               IF n = 0 THEN [NewTable(t.step + 1) EXCEPT !.count = t.count, !.lost = t.lost]
               ELSE InsertAgain(table[n - 1], OldEntry(t, n))
  <1>1. /\ t.step \in Steps /\ t.overflow_count \in Nat /\ t.overflow_count >= 1
        /\ t.count \in Nat /\ t.lost \in SUBSET Losses
        /\ t.overflow_count <= OverflowSize(t.step)
    BY TableParts
  <1>2. HashSize(t.step) \in Nat /\ HashSize(t.step) > 0 /\ t.step + 1 \in Steps
    BY <1>1, Sizes, NextSize
  <1>3. L \in Nat
    BY <1>1, <1>2
  <1>4. GrowAndRehash(t) = table[L]
    BY DEF GrowAndRehash
  <1>5. base \in Grown(E, t)
    <2>1. /\ TableInv(base, E) /\ base.step = t.step + 1 /\ base.overflow_count = 1
          /\ \A b \in Buckets(t.step + 1) : base.entries[b] = NoEntry
      BY <1>1, <1>2, NewTableInv
    <2> HIDE DEF base
    <2>2. base \in Tables(E, t.step + 1)
      BY <2>1, InTables
    <2>3. QED
      BY <1>2, <2>1, <2>2 DEF Grown
  <1>6. \A n \in 1 .. L : \A x \in Grown(E, t) :
          InsertAgain(x, OldEntry(t, n)) \in Grown(E, t)
    BY GrowStep
  <1>7. \A n \in 1 .. L : n \in 0 .. L /\ n - 1 \in 0 .. L /\ n # 0
    BY <1>3
  <1> HIDE DEF L
  <1>8. \A n \in 0 .. L : S[n] = Grown(E, t)
    OBVIOUS
  <1>9. \A n \in 1 .. L : \A x \in S[n - 1] : step[n][x] = InsertAgain(x, OldEntry(t, n))
    OBVIOUS
  <1> HIDE DEF S, step, base
  <1>10. PICK h : Recursive(h, L, base, step) /\ \A n \in 0 .. L : h[n] \in S[n]
    <2>1. \A n \in 1 .. L : \A x \in S[n - 1] : step[n][x] \in S[n]
      BY <1>6, <1>7, <1>8, <1>9
    <2>2. base \in S[0]
      BY <1>3, <1>5, <1>8
    <2>3. QED
      BY <1>3, <2>1, <2>2, Recursion
  <1>11. h = [n \in 0 .. L |-> IF n = 0 THEN base ELSE InsertAgain(h[n - 1], OldEntry(t, n))]
    <2>1. \A n \in 0 .. L : n # 0 => n \in 1 .. L
      BY <1>3
    <2>2. \A n \in 0 .. L : n # 0 => step[n][h[n - 1]] = InsertAgain(h[n - 1], OldEntry(t, n))
      BY <1>7, <1>9, <1>10, <2>1
    <2>3. QED
      BY <1>10, <2>2, Zenon DEF Recursive
  <1>12. table = [n \in 0 .. L |-> IF n = 0 THEN base ELSE InsertAgain(table[n - 1], OldEntry(t, n))]
    BY <1>11, Zenon DEF base, LargerTable
  <1> HIDE DEF table
  <1> DEFINE T == {n \in 0 .. L : table[n] \in Grown(E, t)}
  <1>13. 0 \in T
    BY <1>3, <1>5, <1>12
  <1>14. ASSUME NEW n \in 1 .. L, n - 1 \in T PROVE n \in T
    <2>1. n \in 0 .. L /\ n # 0 /\ table[n] = InsertAgain(table[n - 1], OldEntry(t, n))
      BY <1>7, <1>12
    <2>2. QED
      BY <1>6, <1>14, <2>1
  <1>15. \A n \in 0 .. L : table[n] \in Grown(E, t)
    <2> HIDE DEF T
    <2>1. \A n \in 0 .. L : n \in T
      BY <1>3, <1>13, <1>14, Induction
    <2>2. QED
      BY <2>1 DEF T
  <1>16. GrowsBy(t, table, L)
    BY <1>3, <1>4, <1>7, <1>12 DEF GrowsBy, base
  <1>17. QED
    BY <1>3, <1>15, <1>16 DEF L

LEMMA GrowKeeps ==
  ASSUME NEW E, Entries(E), NEW t, TableInv(t, E), t.step < HashSteps
  PROVE  TableInv(GrowAndRehash(t), E) /\ GrowAndRehash(t).step = t.step + 1
  <1> DEFINE L == HashSize(t.step) + t.overflow_count - 1
             u == GrowAndRehash(t)
  <1>1. L \in Nat /\ \E table : GrowsBy(t, table, L) /\ \A n \in 0 .. L : table[n] \in Grown(E, t)
    BY GrowTables
  <1> HIDE DEF L
  <1>2. L \in 0 .. L
    BY <1>1
  <1>3. u \in Grown(E, t)
    BY <1>1, <1>2 DEF GrowsBy
  <1>4. QED
    BY <1>3 DEF Grown

-----------------------------------------------------------------------------
\* Add

LEMMA CountKeeps ==
  ASSUME NEW E, Entries(E), NEW t, TableInv(t, E)
  PROVE  LET u == [t EXCEPT !.count = @ + 1]
         IN  TableInv(u, E) /\ u.step = t.step /\ u.overflow_count = t.overflow_count
  <1> DEFINE u == [t EXCEPT !.count = @ + 1]
  <1>1. TableType(t, E) /\ TableLinks(t)
    BY DEF TableInv
  <1>2. /\ u.step = t.step /\ u.overflow_count = t.overflow_count
        /\ u.entries = t.entries /\ u.overflow = t.overflow
    BY <1>1 DEF TableType
  <1>3. u \in [step : 1 .. HashSteps, count : Nat, overflow_count : Nat, lost : SUBSET Losses,
               entries  : [0 .. HashSize(t.step) - 1 -> E \cup {NoEntry}],
               overflow : [0 .. OverflowSize(t.step) - 1 -> E \cup {NoEntry}]]
    BY <1>1 DEF TableType
  <1> HIDE DEF u
  <1>4. TableInv(u, E)
    BY <1>1, <1>2, <1>3 DEF TableInv, TableType, TableLinks, Linked
  <1>5. QED
    BY <1>2, <1>4 DEF u

LEMMA GrowIfKeeps ==
  ASSUME NEW E, Entries(E), NEW t, TableInv(t, E)
  PROVE  TableInv(GrowIfTableFull(t), E) /\ TableInv(GrowIfOverflowFull(t), E)
  BY GrowKeeps DEF GrowIfTableFull, GrowIfOverflowFull, GrowIf

LEMMA AddKeeps ==
  ASSUME NEW E, Entries(E), NEW t, TableInv(t, E), NEW e \in E, e.cookie = 0
  PROVE  TableInv(Add(t, e), E)
  <1> DEFINE u == Insert(t, e)
             w == [u EXCEPT !.count = @ + 1]
             x == GrowIfTableFull(w)
  <1>1. TableInv(u, E)
    BY InsertKeeps DEF Inserts
  <1> HIDE DEF u
  <1>2. TableInv(w, E)
    BY <1>1, CountKeeps
  <1> HIDE DEF w
  <1>3. TableInv(x, E)
    BY <1>2, GrowIfKeeps
  <1> HIDE DEF x
  <1>4. TableInv(GrowIfOverflowFull(x), E)
    BY <1>3, GrowIfKeeps
  <1>5. Add(t, e) = GrowIfOverflowFull(x)
    BY DEF Add, x, w, u
  <1>6. QED
    BY <1>4, <1>5

-----------------------------------------------------------------------------
\* Looking up and taking out

LEMMA ChainIs ==
  ASSUME NEW E, Entries(E), NEW t, TableInv(t, E), NEW b \in Buckets(t.step)
  PROVE  /\ Chain(t, b) \in Seq(E)
         /\ Chain(t, b) # <<>> => t.entries[b] # NoEntry /\ Chain(t, b)[1] = t.entries[b]
         /\ Len(Chain(t, b)) >= 2 => /\ t.entries[b].cookie \in Live(t, b)
                                     /\ Chain(t, b)[2] = t.overflow[t.entries[b].cookie]
         /\ t.entries[b] # NoEntry =>
              /\ Len(Chain(t, b)) = Len(Slots(t, b)) + 1
              /\ \A i \in 1 .. Len(Slots(t, b)) : Chain(t, b)[i + 1] = t.overflow[Slots(t, b)[i]]
  <1> DEFINE slots == Slots(t, b)
             rest == EntriesAt(t, slots)
  <1>1. slots \in Seq(Live(t, b)) /\ Follows(t, b, slots)
    BY SlotsAre
  <1>2. \A s \in Live(t, b) : t.overflow[s] \in E
    BY TableParts DEF Live
  <1> HIDE DEF slots
  <1>3. rest \in Seq(E) /\ Len(rest) = Len(slots) /\ \A i \in 1 .. Len(slots) : rest[i] = t.overflow[slots[i]]
    BY <1>1, <1>2 DEF EntriesAt
  <1> HIDE DEF rest
  <1>4. t.entries[b] \in E \cup {NoEntry}
    BY TableParts
  <1>5. CASE IsEmpty(t.entries[b])
    <2>1. Chain(t, b) = <<>> /\ t.entries[b] = NoEntry
      BY <1>4, <1>5, EntryOrNone DEF Chain
    <2>2. QED
      BY <2>1
  <1>6. CASE ~IsEmpty(t.entries[b])
    <2>1. Chain(t, b) = <<t.entries[b]>> \o rest
      BY <1>6 DEF Chain, rest, slots
    <2>2. t.entries[b] \in E /\ t.entries[b] # NoEntry
      BY <1>4, <1>6, EntryOrNone
    <2>3. PICK e \in E : e = t.entries[b]
      BY <2>2
    <2> DEFINE chain == <<e>> \o rest
    <2>4. chain \in Seq(E) /\ chain[1] = e /\ Len(chain) = Len(rest) + 1
          /\ \A i \in 1 .. Len(rest) : chain[i + 1] = rest[i]
      BY <1>3
    <2>5. Len(rest) >= 1 => /\ rest[1] = t.overflow[slots[1]] /\ slots[1] \in Live(t, b)
                            /\ slots[1] = t.entries[b].cookie
      BY <1>1, <1>3 DEF Follows
    <2>6. Len(rest) \in Nat
      BY <1>3
    <2> HIDE DEF chain
    <2>7. Chain(t, b) = chain
      BY <2>1, <2>3 DEF chain
    <2>8. ASSUME Len(chain) >= 2
          PROVE  t.entries[b].cookie \in Live(t, b) /\ chain[2] = t.overflow[t.entries[b].cookie]
      <3>1. 1 \in 1 .. Len(rest) /\ 1 + 1 = 2 /\ Len(rest) >= 1
        BY <2>4, <2>6, <2>8
      <3>2. QED
        BY <2>4, <2>5, <3>1
    <2>9. Len(chain) = Len(slots) + 1
          /\ \A i \in 1 .. Len(slots) : chain[i + 1] = t.overflow[slots[i]]
      BY <1>3, <2>4
    <2>10. QED
      BY <2>2, <2>3, <2>4, <2>7, <2>8, <2>9 DEF slots
  <1>7. QED
    BY <1>5, <1>6

LEMMA FirstSameIs ==
  ASSUME NEW E, NEW chain \in Seq(E), NEW same
  PROVE  /\ FirstSame(chain, same) \in 0 .. Len(chain)
         /\ FirstSame(chain, same) # 0 => chain[FirstSame(chain, same)].id \in same
         /\ \A i \in 1 .. Len(chain) : chain[i].id \in same => FirstSame(chain, same) # 0
  <1> DEFINE hits == {i \in DOMAIN chain : chain[i].id \in same}
  <1>1. CASE hits = {}
    <2>1. FirstSame(chain, same) = 0 /\ Len(chain) \in Nat
      BY <1>1 DEF FirstSame
    <2>2. \A i \in 1 .. Len(chain) : chain[i].id \notin same
      BY <1>1
    <2>3. QED
      BY <2>1, <2>2
  <1>2. CASE hits # {}
    <2>1. hits \in SUBSET Nat
      OBVIOUS
    <2>2. \E m \in hits : \A n \in hits : m <= n
      <3> HIDE DEF hits
      <3>1. QED
        BY <1>2, <2>1, LeastNumber
    <2>3. Min(hits) \in hits
      BY <2>2 DEF Min
    <2>4. FirstSame(chain, same) = Min(hits)
      BY <1>2 DEF FirstSame
    <2>5. \A i \in hits : i \in 1 .. Len(chain) /\ i # 0 /\ chain[i].id \in same
      OBVIOUS
    <2> HIDE DEF hits
    <2>6. QED
      BY <2>3, <2>4, <2>5
  <1>3. QED
    BY <1>1, <1>2

\* What a lookup answers: nothing, or an entry that equals the key.
Answers(E, e, same) == e = NoEntry \/ (e \in E /\ e.id \in same)

LEMMA FirstAnswers ==
  ASSUME NEW E, Entries(E), NEW chain \in Seq(E), NEW same
  PROVE  /\ Answers(E, FirstOf(chain, same), same)
         /\ Answers(E, [EntryOf(chain, FirstSame(chain, same)) EXCEPT !.cookie = 0], same)
         /\ [EntryOf(chain, FirstSame(chain, same)) EXCEPT !.cookie = 0].cookie = 0
  <1> DEFINE i == FirstSame(chain, same)
             e == EntryOf(chain, i)
             f == [e EXCEPT !.cookie = 0]
  <1>1. i \in 0 .. Len(chain) /\ (i # 0 => chain[i].id \in same)
    BY FirstSameIs
  <1> HIDE DEF i
  <1>2. CASE i = 0
    <2>1. e = NoEntry
      BY <1>2 DEF EntryOf
    <2>2. f = NoEntry /\ f.cookie = 0
      BY <2>1 DEF NoEntry
    <2>3. QED
      BY <2>1, <2>2 DEF Answers, FirstOf, i
  <1>3. CASE i # 0
    <2>1. e = chain[i] /\ e \in E /\ e.id \in same
      BY <1>1, <1>3 DEF EntryOf
    <2>2. e \in EntrySet
      BY <2>1, EntryOrNone
    <2>3. f \in E
      BY <2>1 DEF Entries
    <2>4. f.id = e.id /\ f.cookie = 0
      BY <2>2 DEF EntrySet
    <2>5. QED
      BY <2>1, <2>3, <2>4 DEF Answers, FirstOf, i
  <1>4. QED
    BY <1>2, <1>3

LEMMA BucketIs ==
  ASSUME NEW E, Entries(E), NEW t, TableInv(t, E), NEW code \in Nat
  PROVE  Bucket(t, code) \in Buckets(t.step)
  <1>1. HashSize(t.step) \in Nat /\ HashSize(t.step) > 0
    BY TableParts, Sizes
  <1>2. QED
    BY <1>1, Division DEF Bucket, Buckets

LEMMA GetAnswers ==
  ASSUME NEW E, Entries(E), NEW t, TableInv(t, E), NEW code \in Nat, NEW same
  PROVE  Answers(E, Get(t, code, same), same)
  <1> DEFINE chain == Chain(t, Bucket(t, code))
  <1>1. chain \in Seq(E)
    BY BucketIs, ChainIs
  <1> HIDE DEF chain
  <1>2. Answers(E, FirstOf(chain, same), same)
    BY <1>1, FirstAnswers
  <1>3. QED
    BY <1>2 DEF Get, chain

\* A bucket may get another head of its own.
LEMMA HeadSet ==
  ASSUME NEW E, Entries(E), NEW t, TableInv(t, E), NEW b \in Buckets(t.step),
         NEW f \in E, f.code % HashSize(t.step) = b, f.cookie \in {0} \cup Live(t, b)
  PROVE  LET u == [t EXCEPT !.entries[b] = f]
         IN  TableInv(u, E) /\ u.step = t.step /\ u.overflow_count = t.overflow_count
  <1> DEFINE entries == [t.entries EXCEPT ![b] = f]
             u == Table(t.step, t.count, t.overflow_count, t.lost, entries, t.overflow)
  <1>1. Typed(E, t.step, t.count, t.overflow_count, t.lost, t.entries, t.overflow)
    BY TableParts DEF Typed
  <1>2. [t EXCEPT !.entries[b] = f] = u
    BY TableParts DEF Table
  <1>3. entries \in [Buckets(t.step) -> E \cup {NoEntry}] /\ entries[b] = f
        /\ \A c \in Buckets(t.step) : c # b => entries[c] = t.entries[c]
    BY <1>1 DEF Typed
  <1> HIDE DEF entries
  <1>4. HeadsLinked(E, t.step, t.overflow_count, entries, t.overflow)
    <2>1. ASSUME NEW c \in Buckets(t.step), c # b, entries[c] # NoEntry
          PROVE  /\ entries[c] \in E /\ entries[c].code % HashSize(t.step) = c
                 /\ entries[c].cookie \in 0 .. t.overflow_count - 1
                 /\ entries[c].cookie # 0 =>
                      t.overflow[entries[c].cookie].code % HashSize(t.step) = c
      BY <1>3, <2>1, TableLinked DEF HeadsLinked
    <2>2. f.cookie \in 0 .. t.overflow_count - 1
          /\ (f.cookie # 0 => t.overflow[f.cookie].code % HashSize(t.step) = b)
      BY <1>1 DEF Typed, Live
    <2>3. QED
      BY <1>3, <2>1, <2>2 DEF HeadsLinked
  <1>5. Typed(E, t.step, t.count, t.overflow_count, t.lost, entries, t.overflow)
    BY <1>1, <1>3 DEF Typed
  <1>6. TableInv(u, E)
    BY <1>4, <1>5, TableLinked, TableBuilt
  <1>7. u.step = t.step /\ u.overflow_count = t.overflow_count
    BY DEF Table
  <1> HIDE DEF u
  <1>8. QED
    BY <1>2, <1>6, <1>7

LEMMA TakenOutKeeps ==
  ASSUME NEW E, Entries(E), NEW t, TableInv(t, E), NEW b \in Buckets(t.step),
         NEW i \in 0 .. Len(Chain(t, b))
  PROVE  LET u == TakenOut(t, b, Chain(t, b), i)
         IN  TableInv(u, E) /\ u.step = t.step /\ u.overflow_count = t.overflow_count
  <1> DEFINE chain == Chain(t, b)
             Kept(u) == TableInv(u, E) /\ u.step = t.step /\ u.overflow_count = t.overflow_count
  <1>1. /\ chain \in Seq(E)
        /\ chain # <<>> => t.entries[b] # NoEntry /\ chain[1] = t.entries[b]
        /\ Len(chain) >= 2 => \E s \in Live(t, b) : chain[2] = t.overflow[s]
    BY ChainIs
  <1>2. TakenOut(t, b, chain, i) =
          IF i = 1 /\ chain[1].cookie # 0
          THEN [t EXCEPT !.entries[b] = t.overflow[chain[1].cookie]]
          ELSE IF i = 2 THEN [t EXCEPT !.entries[b].cookie = chain[2].cookie]
          ELSE t
    BY DEF TakenOut
  <1>3. i \in 0 .. Len(chain)
    OBVIOUS
  <1> HIDE DEF chain
  <1>4. CASE i = 1 /\ chain[1].cookie # 0
    <2> DEFINE s == chain[1].cookie
               f == t.overflow[s]
    <2>1. chain[1] = t.entries[b]
      BY <1>1, <1>3, <1>4
    <2>2. s \in Live(t, b)
      BY <1>4, <2>1, HeadLive
    <2>3. f \in E /\ f.code % HashSize(t.step) = b /\ f.cookie \in {0} \cup Live(t, b)
      BY <2>2, TableParts, SlotLive DEF Live
    <2> HIDE DEF s, f
    <2>4. Kept([t EXCEPT !.entries[b] = f])
      BY <2>3, HeadSet
    <2>5. TakenOut(t, b, chain, i) = [t EXCEPT !.entries[b] = f]
      BY <1>2, <1>4 DEF s, f
    <2>6. QED
      BY <2>4, <2>5 DEF chain
  <1>5. CASE i = 2
    <2>1. Len(chain) >= 2 /\ chain # <<>>
      BY <1>1, <1>3, <1>5
    <2>2. PICK s \in Live(t, b) : chain[2] = t.overflow[s]
      BY <1>1, <2>1
    <2> DEFINE c == chain[2].cookie
               f == [t.entries[b] EXCEPT !.cookie = c]
    <2>3. c \in {0} \cup Live(t, b) /\ c \in Nat
      BY <2>2, SlotLive DEF Live
    <2>4. t.entries[b] \in E /\ t.entries[b] \in EntrySet /\ t.entries[b].code % HashSize(t.step) = b
      BY <1>1, <2>1, TableLinked, EntryOrNone DEF HeadsLinked
    <2> HIDE DEF c
    <2>5. f \in E
      BY <2>3, <2>4 DEF Entries
    <2>6. f.code = t.entries[b].code /\ f.cookie = c
      BY <2>4 DEF EntrySet
    <2>7. [t EXCEPT !.entries[b].cookie = c] = [t EXCEPT !.entries[b] = f]
      OBVIOUS
    <2> HIDE DEF f
    <2>8. Kept([t EXCEPT !.entries[b] = f])
      BY <2>3, <2>4, <2>5, <2>6, HeadSet
    <2>9. TakenOut(t, b, chain, i) = [t EXCEPT !.entries[b] = f]
      BY <1>2, <1>5, <2>7 DEF c
    <2>10. QED
      BY <2>8, <2>9 DEF chain
  <1>6. CASE ~(i = 1 /\ chain[1].cookie # 0) /\ i # 2
    BY <1>2, <1>6 DEF chain
  <1>7. QED
    BY <1>4, <1>5, <1>6

LEMMA FoundKeeps ==
  ASSUME NEW E, Entries(E), NEW t, TableInv(t, E), NEW code \in Nat, NEW same
  PROVE  LET r == Found(t, code, same)
         IN  /\ Answers(E, r.entry, same) /\ r.entry.cookie = 0
             /\ TableInv(r.table, E)
  <1> DEFINE b == Bucket(t, code)
             chain == Chain(t, b)
             i == FirstSame(chain, same)
             u == TakenOut(t, b, chain, i)
             f == [EntryOf(chain, i) EXCEPT !.cookie = 0]
  <1>1. b \in Buckets(t.step)
    BY BucketIs
  <1> HIDE DEF b
  <1>2. chain \in Seq(E)
    BY <1>1, ChainIs
  <1>3. i \in 0 .. Len(chain)
    <2> HIDE DEF chain
    <2>1. QED
      BY <1>2, FirstSameIs
  <1>4. Answers(E, f, same) /\ f.cookie = 0
    <2> HIDE DEF chain
    <2>1. QED
      BY <1>2, FirstAnswers
  <1> HIDE DEF i
  <1>5. TableInv(u, E) /\ u.step = t.step /\ u.overflow_count = t.overflow_count
    BY <1>1, <1>3, TakenOutKeeps
  <1> HIDE DEF u, f, chain
  <1>6. Found(t, code, same) = [entry |-> f, table |-> u]
    BY DEF Found, TakeFirst, b, chain, i, u, f
  <1>7. QED
    BY <1>4, <1>5, <1>6

-----------------------------------------------------------------------------
\* What is found again in a table

\* R has the slot that the head of b names, and with each slot the next one.
Path(t, b, R) ==
  /\ t.entries[b].cookie \in R \cup {0}
  /\ \A s \in R : t.overflow[s].cookie \in R \cup {0}

\* the slots that a lookup in b comes by
Reached(t, b) == {s \in Live(t, b) : \A R \in SUBSET Live(t, b) : Path(t, b, R) => s \in R}

\* A lookup with this code comes by an entry of this name.
Has(t, code, id) ==
  LET b == Bucket(t, code)
  IN  \E e \in {t.entries[b]} \cup {t.overflow[s] : s \in Reached(t, b)} :
         e.code = code /\ e.id = id

LEMMA ReachedSlots ==
  ASSUME NEW E, Entries(E), NEW t, TableInv(t, E), NEW b \in Buckets(t.step)
  PROVE  Reached(t, b) = {Slots(t, b)[i] : i \in 1 .. Len(Slots(t, b))}
  <1> DEFINE slots == Slots(t, b)
             R == {slots[i] : i \in 1 .. Len(slots)}
  <1>1. slots \in Seq(Live(t, b)) /\ Follows(t, b, slots)
    BY SlotsAre
  <1> HIDE DEF slots
  <1>2. R \in SUBSET Live(t, b) /\ Len(slots) \in Nat
    BY <1>1
  <1>3. Path(t, b, R)
    <2>1. t.entries[b].cookie \in R \cup {0}
      <3>1. CASE slots = <<>>
        BY <1>1, <3>1 DEF Follows
      <3>2. CASE slots # <<>>
        <4>1. 1 \in 1 .. Len(slots)
          BY <1>1, <3>2
        <4>2. QED
          BY <1>1, <3>2, <4>1 DEF Follows
      <3>3. QED
        BY <3>1, <3>2
    <2>2. ASSUME NEW i \in 1 .. Len(slots) PROVE t.overflow[slots[i]].cookie \in R \cup {0}
      <3>1. CASE i = Len(slots)
        BY <1>1, <2>2, <3>1 DEF Follows
      <3>2. CASE i # Len(slots)
        <4>1. i \in 1 .. Len(slots) - 1 /\ i + 1 \in 1 .. Len(slots)
          BY <1>2, <3>2
        <4>2. QED
          BY <1>1, <4>1 DEF Follows
      <3>3. QED
        BY <3>1, <3>2
    <2>3. QED
      BY <2>1, <2>2 DEF Path
  <1>4. ASSUME NEW Q \in SUBSET Live(t, b), Path(t, b, Q)
        PROVE  \A i \in 1 .. Len(slots) : slots[i] \in Q
    <2> DEFINE T == {n \in 0 .. Len(slots) : n # 0 => slots[n] \in Q}
    <2>1. 0 \in T
      BY <1>2
    <2>2. ASSUME NEW n \in 1 .. Len(slots), n - 1 \in T PROVE n \in T
      <3>1. slots[n] # 0 /\ n \in 0 .. Len(slots)
        <4>1. slots[n] \in Live(t, b)
          BY <1>1
        <4>2. QED
          BY <1>2, <4>1 DEF Live
      <3>2. CASE n = 1
        <4>1. slots[1] = t.entries[b].cookie
          BY <1>1, <2>2 DEF Follows
        <4>2. QED
          BY <1>4, <3>1, <3>2, <4>1 DEF Path
      <3>3. CASE n # 1
        <4>1. n - 1 \in 1 .. Len(slots) - 1 /\ (n - 1) + 1 = n /\ n - 1 # 0
          BY <1>2, <3>3
        <4>2. slots[n] = t.overflow[slots[n - 1]].cookie /\ slots[n - 1] \in Q
          BY <1>1, <2>2, <4>1 DEF Follows
        <4>3. QED
          BY <1>4, <3>1, <4>2 DEF Path
      <3>4. QED
        BY <3>2, <3>3
    <2> HIDE DEF T
    <2>3. \A n \in 0 .. Len(slots) : n \in T
      BY <1>2, <2>1, <2>2, Induction
    <2>4. QED
      BY <1>2, <2>3 DEF T
  <1>5. Reached(t, b) \subseteq R
    BY <1>2, <1>3 DEF Reached
  <1>6. R \subseteq Reached(t, b)
    BY <1>2, <1>4 DEF Reached
  <1>7. QED
    BY <1>5, <1>6 DEF slots

\* A chain has what its bucket has.
LEMMA ChainHas ==
  ASSUME NEW E, Entries(E), NEW t, TableInv(t, E), NEW code \in Nat, NEW id, id # 0,
         Has(t, code, id)
  PROVE  \E i \in 1 .. Len(Chain(t, Bucket(t, code))) : Chain(t, Bucket(t, code))[i].id = id
  <1> DEFINE b == Bucket(t, code)
             slots == Slots(t, b)
             chain == Chain(t, b)
  <1>1. b \in Buckets(t.step)
    BY BucketIs
  <1>2. PICK e \in {t.entries[b]} \cup {t.overflow[s] : s \in Reached(t, b)} : e.id = id
    BY DEF Has
  <1> HIDE DEF b
  <1>3. slots \in Seq(Live(t, b)) /\ Follows(t, b, slots)
    BY <1>1, SlotsAre
  <1>4. Reached(t, b) = {slots[i] : i \in 1 .. Len(slots)}
    BY <1>1, ReachedSlots
  <1>5. /\ chain \in Seq(E) /\ (chain # <<>> => chain[1] = t.entries[b])
        /\ t.entries[b] # NoEntry =>
             /\ Len(chain) = Len(slots) + 1
             /\ \A i \in 1 .. Len(slots) : chain[i + 1] = t.overflow[slots[i]]
    BY <1>1, ChainIs
  <1>6. Len(slots) \in Nat
    BY <1>3
  <1>7. t.entries[b] # NoEntry
    <2>1. SUFFICES ASSUME t.entries[b] = NoEntry PROVE FALSE
      OBVIOUS
    <2>2. t.entries[b].cookie = 0 /\ t.entries[b].id = 0
      BY <2>1, EntryOrNone
    <2>3. slots = <<>>
      <3>1. SUFFICES ASSUME slots # <<>> PROVE FALSE
        OBVIOUS
      <3>2. slots[1] = 0 /\ slots[1] \in Live(t, b)
        BY <1>3, <2>2, <3>1 DEF Follows
      <3>3. QED
        BY <3>2 DEF Live
    <2>4. Reached(t, b) = {}
      BY <1>4, <2>3
    <2>5. QED
      BY <1>2, <2>2, <2>4
  <1> HIDE DEF slots, chain
  <1>8. CASE e = t.entries[b]
    <2>1. 1 \in 1 .. Len(chain) /\ chain # <<>>
      BY <1>5, <1>6, <1>7
    <2>2. QED
      BY <1>2, <1>5, <1>8, <2>1 DEF chain, b
  <1>9. CASE e # t.entries[b]
    <2>1. PICK i \in 1 .. Len(slots) : e = t.overflow[slots[i]]
      BY <1>2, <1>4, <1>9
    <2>2. i + 1 \in 1 .. Len(chain) /\ chain[i + 1] = e
      BY <1>5, <1>6, <1>7, <2>1
    <2>3. QED
      BY <1>2, <2>2 DEF chain, b
  <1>10. QED
    BY <1>8, <1>9

\* Looking something up fails only if its bucket does not have it.
LEMMA GetFinds ==
  ASSUME NEW E, Entries(E), NEW t, TableInv(t, E), NEW code \in Nat, NEW id, id # 0,
         Has(t, code, id), NEW same, id \in same
  PROVE  /\ FirstSame(Chain(t, Bucket(t, code)), same) # 0
         /\ ~IsEmpty(Get(t, code, same)) /\ ~IsEmpty(Found(t, code, same).entry)
  <1> DEFINE b == Bucket(t, code)
             chain == Chain(t, b)
             i == FirstSame(chain, same)
             e == EntryOf(chain, i)
             f == [e EXCEPT !.cookie = 0]
  <1>1. chain \in Seq(E)
    BY BucketIs, ChainIs
  <1>2. \E n \in 1 .. Len(chain) : chain[n].id \in same
    BY ChainHas
  <1> HIDE DEF chain
  <1>3. i \in 0 .. Len(chain) /\ i # 0
    BY <1>1, <1>2, FirstSameIs
  <1> HIDE DEF i
  <1>4. e = chain[i] /\ e \in E
    BY <1>1, <1>3 DEF EntryOf
  <1>5. f \in E
    BY <1>4 DEF Entries
  <1>6. ~IsEmpty(e) /\ ~IsEmpty(f)
    BY <1>4, <1>5, EntryOrNone
  <1>7. Get(t, code, same) = e
    BY DEF Get, FirstOf, b, chain, i
  <1>8. Found(t, code, same).entry = f
    BY DEF Found, TakeFirst, b, chain, i
  <1>9. QED
    BY <1>3, <1>6, <1>7, <1>8 DEF i, chain, b

\* Where no link is lost, nothing gets out of reach.
LEMMA ReachedMore ==
  ASSUME NEW E, Entries(E), NEW t, TableInv(t, E), NEW b \in Buckets(t.step), NEW u,
         Live(t, b) \subseteq Live(u, b),
         t.entries[b].cookie \in {0, u.entries[b].cookie},
         \A s \in Live(t, b) : t.overflow[s].cookie \in {0, u.overflow[s].cookie}
  PROVE  Reached(t, b) \subseteq Reached(u, b)
  <1>1. ASSUME NEW s \in Reached(t, b), NEW R \in SUBSET Live(u, b), Path(u, b, R)
        PROVE  s \in R
    <2> DEFINE Q == R \cap Live(t, b)
    <2>1. Path(t, b, Q)
      <3>1. t.entries[b].cookie \in Q \cup {0}
        BY <1>1, HeadLive DEF Path
      <3>2. ASSUME NEW r \in Q PROVE t.overflow[r].cookie \in Q \cup {0}
        BY <1>1, SlotLive DEF Path
      <3>3. QED
        BY <3>1, <3>2 DEF Path
    <2>2. QED
      BY <1>1, <2>1 DEF Reached
  <1>2. QED
    BY <1>1 DEF Reached

\* u has the entries of t where they were, and the links between them.
Extends(t, u) ==
  /\ u.step = t.step /\ u.overflow_count \in Nat /\ t.overflow_count <= u.overflow_count
  /\ \A b \in Buckets(t.step) :
       /\ t.entries[b].cookie \in {0, u.entries[b].cookie}
       /\ t.entries[b].id # 0 => /\ u.entries[b].id = t.entries[b].id
                                 /\ u.entries[b].code = t.entries[b].code
  /\ \A s \in 1 .. t.overflow_count - 1 :
       /\ t.overflow[s].cookie \in {0, u.overflow[s].cookie}
       /\ u.overflow[s].id = t.overflow[s].id /\ u.overflow[s].code = t.overflow[s].code

LEMMA ReachedKept ==
  ASSUME NEW E, Entries(E), NEW t, TableInv(t, E), NEW u, Extends(t, u),
         NEW b \in Buckets(t.step)
  PROVE  Reached(t, b) \subseteq Reached(u, b)
  <1>1. t.overflow_count \in Nat
    BY TableParts
  <1>2. \A s \in 1 .. t.overflow_count - 1 : s \in 1 .. u.overflow_count - 1
    BY <1>1 DEF Extends
  <1>3. Live(t, b) \subseteq Live(u, b)
    BY <1>2 DEF Extends, Live
  <1>4. \A s \in Live(t, b) : t.overflow[s].cookie \in {0, u.overflow[s].cookie}
    BY DEF Extends, Live
  <1>5. t.entries[b].cookie \in {0, u.entries[b].cookie}
    BY DEF Extends
  <1>6. QED
    BY <1>3, <1>4, <1>5, ReachedMore

LEMMA HasKept ==
  ASSUME NEW E, Entries(E), NEW t, TableInv(t, E), NEW u, Extends(t, u),
         NEW code \in Nat, NEW id, id # 0, Has(t, code, id)
  PROVE  Has(u, code, id)
  <1> DEFINE b == Bucket(t, code)
  <1>1. b \in Buckets(t.step) /\ Bucket(u, code) = b
    BY BucketIs DEF Extends, Bucket
  <1>2. PICK e \in {t.entries[b]} \cup {t.overflow[s] : s \in Reached(t, b)} :
          e.code = code /\ e.id = id
    BY DEF Has
  <1> HIDE DEF b
  <1>3. CASE e = t.entries[b]
    <2>1. u.entries[b].code = code /\ u.entries[b].id = id
      BY <1>1, <1>2, <1>3 DEF Extends
    <2>2. QED
      BY <1>1, <2>1 DEF Has
  <1>4. ASSUME NEW s \in Reached(t, b), e = t.overflow[s] PROVE Has(u, code, id)
    <2>1. s \in Reached(u, b)
      BY <1>1, ReachedKept
    <2>2. s \in 1 .. t.overflow_count - 1
      BY DEF Reached, Live
    <2>3. u.overflow[s].code = code /\ u.overflow[s].id = id
      BY <1>2, <1>4, <2>2 DEF Extends
    <2>4. QED
      BY <1>1, <2>1, <2>3 DEF Has
  <1>5. QED
    BY <1>2, <1>3, <1>4

\* Unless it says so, Insert loses nothing.
InsertsAll(t, u, e) ==
  u.lost = {} => t.lost = {} /\ Extends(t, u) /\ Has(u, e.code, e.id)

LEMMA InsertHeadHas ==
  ASSUME NEW E, Entries(E), NEW t, TableInv(t, E), NEW e \in E,
         NEW b \in Buckets(t.step), e.code % HashSize(t.step) = b, t.entries[b] = NoEntry
  PROVE  InsertsAll(t, [t EXCEPT !.entries[b] = e], e)
  <1> DEFINE u == [t EXCEPT !.entries[b] = e]
  <1>1. t.entries \in [Buckets(t.step) -> E \cup {NoEntry}] /\ t.overflow_count \in Nat
    BY TableParts
  <1>2. /\ u.step = t.step /\ u.overflow_count = t.overflow_count /\ u.overflow = t.overflow
        /\ u.lost = t.lost /\ u.entries = [t.entries EXCEPT ![b] = e]
    BY TableParts
  <1> HIDE DEF u
  <1>3. u.entries[b] = e /\ \A c \in Buckets(t.step) : c # b => u.entries[c] = t.entries[c]
    BY <1>1, <1>2
  <1>4. t.entries[b].cookie = 0 /\ t.entries[b].id = 0
    BY EntryOrNone
  <1>5. Extends(t, u)
    BY <1>1, <1>2, <1>3, <1>4 DEF Extends
  <1>6. Has(u, e.code, e.id)
    BY <1>2, <1>3 DEF Has, Bucket
  <1>7. QED
    BY <1>2, <1>5, <1>6 DEF InsertsAll, u

\* What the head, or a slot that is reached, names is reached.
LEMMA ReachedNext ==
  ASSUME NEW t, NEW b, NEW n \in Live(t, b),
         \/ t.entries[b].cookie = n
         \/ \E s \in Reached(t, b) : t.overflow[s].cookie = n
  PROVE  n \in Reached(t, b)
  <1>1. n # 0
    BY DEF Live
  <1>2. ASSUME NEW R \in SUBSET Live(t, b), Path(t, b, R) PROVE n \in R
    BY <1>1, <1>2 DEF Path, Reached
  <1>3. QED
    BY <1>2 DEF Reached

LEMMA InsertSecondHas ==
  ASSUME NEW E, Entries(E), NEW t, TableInv(t, E), NEW e \in E,
         t.overflow_count < OverflowSize(t.step),
         NEW b \in Buckets(t.step), e.code % HashSize(t.step) = b,
         t.entries[b] # NoEntry, t.entries[b].cookie = 0
  PROVE  InsertsAll(t, InsertedSecond(t, e, b), e)
  <1> DEFINE oc == t.overflow_count
             entries == [t.entries EXCEPT ![b].cookie = oc]
             overflow == [t.overflow EXCEPT ![oc] = e]
             u == InsertedSecond(t, e, b)
  <1>1. /\ t.entries \in [Buckets(t.step) -> E \cup {NoEntry}] /\ t.step \in Steps
        /\ t.overflow \in [0 .. OverflowSize(t.step) - 1 -> E \cup {NoEntry}]
        /\ oc \in Nat /\ oc >= 1 /\ OverflowSize(t.step) \in Nat
    BY TableParts, Sizes
  <1>2. /\ u.step = t.step /\ u.overflow_count = oc + 1 /\ u.overflow = overflow
        /\ u.lost = t.lost /\ u.entries = entries
    <2>1. u = Table(t.step, t.count, oc + 1, t.lost, entries, overflow)
      BY SecondIs
    <2> HIDE DEF u, entries, overflow
    <2>2. QED
      BY <2>1 DEF Table
  <1>3. t.entries[b] \in EntrySet
    BY <1>1, EntryOrNone
  <1>4. /\ entries[b] = [t.entries[b] EXCEPT !.cookie = oc]
        /\ \A c \in Buckets(t.step) : c # b => entries[c] = t.entries[c]
    BY <1>1
  <1>5. overflow[oc] = e /\ \A s \in 1 .. oc - 1 : overflow[s] = t.overflow[s]
    BY <1>1
  <1>6. /\ entries[b].cookie = oc /\ entries[b].id = t.entries[b].id
        /\ entries[b].code = t.entries[b].code
    BY <1>3, <1>4 DEF EntrySet
  <1> HIDE DEF u, entries, overflow
  <1>7. Extends(t, u)
    <2>1. u.step = t.step /\ u.overflow_count \in Nat /\ t.overflow_count <= u.overflow_count
      BY <1>1, <1>2
    <2>2. \A s \in 1 .. oc - 1 : u.overflow[s] = t.overflow[s]
      BY <1>2, <1>5
    <2>3. ASSUME NEW c \in Buckets(t.step)
          PROVE  /\ t.entries[c].cookie \in {0, u.entries[c].cookie}
                 /\ t.entries[c].id # 0 => /\ u.entries[c].id = t.entries[c].id
                                           /\ u.entries[c].code = t.entries[c].code
      BY <1>2, <1>4, <1>6
    <2>4. QED
      BY <2>1, <2>2, <2>3 DEF Extends
  <1>8. oc \in Live(u, b)
    BY <1>1, <1>2, <1>5 DEF Live
  <1>9. oc \in Reached(u, b)
    BY <1>2, <1>6, <1>8, ReachedNext
  <1>10. Has(u, e.code, e.id)
    BY <1>2, <1>5, <1>9 DEF Has, Bucket
  <1>11. QED
    BY <1>2, <1>7, <1>10 DEF InsertsAll, u

LEMMA InsertBehindHas ==
  ASSUME NEW E, Entries(E), NEW t, TableInv(t, E), NEW e \in E,
         t.overflow_count < OverflowSize(t.step),
         NEW b \in Buckets(t.step), e.code % HashSize(t.step) = b,
         NEW tail \in Reached(t, b), t.overflow[tail].cookie = 0
  PROVE  InsertsAll(t, InsertedBehind(t, e, tail), e)
  <1> DEFINE oc == t.overflow_count
             f == [t.overflow[tail] EXCEPT !.cookie = oc]
             overflow == [[t.overflow EXCEPT ![tail] = f] EXCEPT ![oc] = e]
             u == InsertedBehind(t, e, tail)
  <1>1. /\ t.overflow \in [0 .. OverflowSize(t.step) - 1 -> E \cup {NoEntry}]
        /\ oc \in Nat /\ oc >= 1 /\ OverflowSize(t.step) \in Nat
        /\ \A i \in 1 .. oc - 1 : t.overflow[i] \in E
    BY TableParts, Sizes
  <1>2. /\ u.step = t.step /\ u.overflow_count = oc + 1 /\ u.overflow = overflow
        /\ u.lost = t.lost /\ u.entries = t.entries
    <2>1. u = Table(t.step, t.count, oc + 1, t.lost, t.entries, overflow)
      BY BehindIs
    <2> HIDE DEF u, overflow
    <2>2. QED
      BY <2>1 DEF Table
  <1>3. tail \in 1 .. oc - 1
    BY DEF Reached, Live
  <1>4. f.cookie = oc /\ f.id = t.overflow[tail].id /\ f.code = t.overflow[tail].code
    <2>1. t.overflow[tail] \in EntrySet
      BY <1>1, <1>3, EntryOrNone
    <2>2. QED
      BY <2>1 DEF EntrySet
  <1> HIDE DEF f
  <1>5. /\ overflow[oc] = e /\ overflow[tail] = f
        /\ \A s \in 1 .. oc - 1 : s # tail => overflow[s] = t.overflow[s]
    <2>1. /\ oc \in DOMAIN t.overflow /\ tail \in DOMAIN t.overflow /\ tail # oc
          /\ \A s \in 1 .. oc - 1 : s \in DOMAIN t.overflow /\ s # oc
      BY <1>1, <1>3
    <2> HIDE DEF oc
    <2>2. QED
      BY <2>1
  <1> HIDE DEF u, overflow
  <1>6. Extends(t, u)
    BY <1>1, <1>2, <1>4, <1>5 DEF Extends
  <1>7. oc \in Live(u, b)
    BY <1>1, <1>2, <1>5 DEF Live
  <1>8. tail \in Reached(u, b)
    BY <1>6, ReachedKept
  <1>9. oc \in Reached(u, b)
    BY <1>2, <1>4, <1>5, <1>7, <1>8, ReachedNext
  <1>10. Has(u, e.code, e.id)
    BY <1>2, <1>5, <1>9 DEF Has, Bucket
  <1>11. QED
    BY <1>2, <1>6, <1>10 DEF InsertsAll, u

LEMMA InsertHas ==
  ASSUME NEW E, Entries(E), NEW t, TableInv(t, E), NEW e \in E, e.cookie = 0
  PROVE  InsertsAll(t, Insert(t, e), e)
  <1> DEFINE b == e.code % HashSize(t.step)
             slots == Slots(t, b)
             u == Insert(t, e)
  <1>1. b \in Buckets(t.step) /\ Inserted(t, u, e, b)
    BY InsertCases
  <1>2. e.code % HashSize(t.step) = b
    OBVIOUS
  <1> HIDE DEF b, u
  <1>3. CASE t.entries[b] = NoEntry /\ u = [t EXCEPT !.entries[b] = e]
    BY <1>1, <1>2, <1>3, InsertHeadHas DEF u
  <1>4. ASSUME NEW how \in Losses, u = Loses(t, how)
        PROVE  InsertsAll(t, u, e)
    <2>1. u.lost # {}
      BY <1>4, TableParts DEF Loses
    <2>2. QED
      BY <2>1 DEF InsertsAll, u
  <1>5. CASE /\ t.entries[b] # NoEntry /\ t.overflow_count < OverflowSize(t.step)
             /\ t.entries[b].cookie = 0 /\ u = InsertedSecond(t, e, b)
    BY <1>1, <1>2, <1>5, InsertSecondHas DEF u
  <1>6. ASSUME t.overflow_count < OverflowSize(t.step), NEW i \in 1 .. Len(slots),
               t.overflow[slots[i]].cookie = 0, u = InsertedBehind(t, e, slots[i])
        PROVE  InsertsAll(t, u, e)
    <2>1. slots[i] \in Reached(t, b)
      BY <1>1, ReachedSlots
    <2> HIDE DEF slots
    <2>2. QED
      BY <1>1, <1>2, <1>6, <2>1, InsertBehindHas
  <1>7. QED
    BY <1>1, <1>3, <1>4, <1>5, <1>6 DEF Inserted, u

\* Every entry that is found in a table is put into the larger one.
LEMMA HasOld ==
  ASSUME NEW E, Entries(E), NEW t, TableInv(t, E), NEW code \in Nat, NEW id, id # 0,
         Has(t, code, id)
  PROVE  \E k \in 1 .. HashSize(t.step) + t.overflow_count - 1 :
           OldEntry(t, k).code = code /\ OldEntry(t, k).id = id
  <1> DEFINE b == Bucket(t, code)
             H == HashSize(t.step)
  <1>1. b \in Buckets(t.step) /\ H \in Nat /\ t.overflow_count \in Nat /\ t.overflow_count >= 1
    BY BucketIs, TableParts, Sizes
  <1>2. PICK e \in {t.entries[b]} \cup {t.overflow[s] : s \in Reached(t, b)} :
          e.code = code /\ e.id = id
    BY DEF Has
  <1>3. b \in 0 .. H - 1
    BY <1>1 DEF Buckets
  <1> HIDE DEF b
  <1>4. CASE e = t.entries[b]
    <2>1. b + 1 \in 1 .. H + t.overflow_count - 1 /\ b + 1 <= H /\ (b + 1) - 1 = b
      BY <1>1, <1>3
    <2>2. OldEntry(t, b + 1) = e
      BY <1>4, <2>1 DEF OldEntry
    <2>3. QED
      BY <1>2, <2>1, <2>2
  <1>5. ASSUME NEW s \in Reached(t, b), e = t.overflow[s]
        PROVE  \E k \in 1 .. H + t.overflow_count - 1 :
                 OldEntry(t, k).code = code /\ OldEntry(t, k).id = id
    <2>1. s \in 1 .. t.overflow_count - 1
      BY DEF Reached, Live
    <2>2. H + s \in 1 .. H + t.overflow_count - 1 /\ ~(H + s <= H) /\ (H + s) - H = s
      BY <1>1, <2>1
    <2>3. OldEntry(t, H + s) = e
      BY <1>5, <2>2 DEF OldEntry
    <2>4. QED
      BY <1>2, <2>2, <2>3
  <1>6. QED
    BY <1>2, <1>4, <1>5

\* The table x after n entries of t has all of them.
HasFirst(t, x, n) ==
  x.lost = {} => /\ t.lost = {}
                 /\ \A k \in 1 .. n : OldEntry(t, k) # NoEntry =>
                      Has(x, OldEntry(t, k).code, OldEntry(t, k).id)

LEMMA GrowStepHas ==
  ASSUME NEW E, Entries(E), NEW t, TableInv(t, E), t.step < HashSteps,
         NEW n \in 1 .. HashSize(t.step) + t.overflow_count - 1, NEW x \in Grown(E, t),
         HasFirst(t, x, n - 1)
  PROVE  HasFirst(t, InsertAgain(x, OldEntry(t, n)), n)
  <1> DEFINE e == OldEntry(t, n)
             f == [e EXCEPT !.cookie = 0]
             y == InsertAgain(x, e)
  <1>1. TableInv(x, E)
    BY DEF Grown
  <1>2. ASSUME NEW k \in 1 .. HashSize(t.step) + t.overflow_count - 1
        PROVE  OldEntry(t, k) \in E \cup {NoEntry}
    <2>1. HashSize(t.step) \in Nat /\ t.overflow_count \in Nat
      BY TableParts, Sizes
    <2>2. CASE k <= HashSize(t.step)
      <3>1. k - 1 \in Buckets(t.step)
        BY <2>1, <2>2 DEF Buckets
      <3>2. QED
        BY <2>2, <3>1, TableParts DEF OldEntry
    <2>3. CASE ~(k <= HashSize(t.step))
      <3>1. k - HashSize(t.step) \in 1 .. t.overflow_count - 1
        BY <2>1, <2>3
      <3>2. QED
        BY <2>3, <3>1, TableParts DEF OldEntry
    <2>4. QED
      BY <2>2, <2>3
  <1>3. n \in Nat /\ \A k \in 1 .. n : /\ k = n \/ k \in 1 .. n - 1
                                       /\ k \in 1 .. HashSize(t.step) + t.overflow_count - 1
    <2>1. HashSize(t.step) \in Nat /\ t.overflow_count \in Nat
      BY TableParts, Sizes
    <2>2. QED
      BY <2>1
  <1>4. e \in E \cup {NoEntry}
    BY <1>2
  <1>5. CASE e = NoEntry
    <2>1. y = x
      BY <1>5, EntryOrNone DEF InsertAgain
    <2>2. QED
      BY <1>3, <1>5, <2>1 DEF HasFirst
  <1>6. CASE e # NoEntry
    <2>1. e \in E /\ ~IsEmpty(e) /\ e \in EntrySet
      BY <1>4, <1>6, EntryOrNone
    <2>2. f \in E /\ f.cookie = 0 /\ f.code = e.code /\ f.id = e.id
      <3>1. f \in E
        BY <2>1 DEF Entries
      <3>2. f.cookie = 0 /\ f.code = e.code /\ f.id = e.id
        BY <2>1 DEF EntrySet
      <3>3. QED
        BY <3>1, <3>2
    <2>3. y = Insert(x, f)
      BY <2>1 DEF InsertAgain
    <2> HIDE DEF f, y
    <2>4. InsertsAll(x, y, f)
      BY <1>1, <2>2, <2>3, InsertHas
    <2>5. ASSUME y.lost = {}, NEW k \in 1 .. n - 1, OldEntry(t, k) # NoEntry
          PROVE  Has(y, OldEntry(t, k).code, OldEntry(t, k).id)
      <3>1. Extends(x, y) /\ Has(x, OldEntry(t, k).code, OldEntry(t, k).id)
        BY <2>4, <2>5 DEF InsertsAll, HasFirst
      <3>2. k \in 1 .. HashSize(t.step) + t.overflow_count - 1
        BY <1>3
      <3>3. OldEntry(t, k) \in E
        BY <1>2, <2>5, <3>2
      <3>4. OldEntry(t, k).code \in Nat /\ OldEntry(t, k).id # 0
        BY <3>3, EntryOrNone
      <3>5. QED
        BY <1>1, <3>1, <3>4, HasKept
    <2>6. y.lost = {} => t.lost = {} /\ Has(y, e.code, e.id)
      BY <2>2, <2>4 DEF InsertsAll, HasFirst
    <2>7. QED
      BY <1>3, <2>5, <2>6 DEF HasFirst, y
  <1>7. QED
    BY <1>5, <1>6

\* Unless it says so, u has everything that t has.
LosesNothing(t, u) ==
  u.lost = {} => t.lost = {} /\ \A code \in Nat, id \in Nat : id # 0 /\ Has(t, code, id) => Has(u, code, id)

LEMMA GrowHas ==
  ASSUME NEW E, Entries(E), NEW t, TableInv(t, E), t.step < HashSteps
  PROVE  LosesNothing(t, GrowAndRehash(t))
  <1> DEFINE L == HashSize(t.step) + t.overflow_count - 1
  <1>1. L \in Nat /\ \E table : GrowsBy(t, table, L) /\ \A n \in 0 .. L : table[n] \in Grown(E, t)
    BY GrowTables
  <1>2. PICK table : GrowsBy(t, table, L) /\ \A n \in 0 .. L : table[n] \in Grown(E, t)
    BY <1>1
  <1> DEFINE T == {n \in 0 .. L : HasFirst(t, table[n], n)}
  <1>3. 0 \in T
    <2>1. table[0].lost = t.lost
      BY <1>2 DEF GrowsBy, LargerTable, NewTable
    <2>2. QED
      BY <1>1, <2>1 DEF HasFirst
  <1>4. ASSUME NEW n \in 1 .. L, n - 1 \in T PROVE n \in T
    <2>1. table[n] = InsertAgain(table[n - 1], OldEntry(t, n))
      BY <1>2 DEF GrowsBy
    <2>2. n - 1 \in 0 .. L /\ n \in 0 .. L
      BY <1>1
    <2>3. table[n - 1] \in Grown(E, t) /\ HasFirst(t, table[n - 1], n - 1)
      BY <1>2, <1>4, <2>2
    <2>4. HasFirst(t, table[n], n)
      BY <2>1, <2>3, GrowStepHas
    <2>5. QED
      BY <2>2, <2>4
  <1>5. HasFirst(t, GrowAndRehash(t), L)
    <2>1. L \in 0 .. L
      BY <1>1
    <2> HIDE DEF T, L
    <2>2. L \in T
      BY <1>1, <1>3, <1>4, <2>1, Induction
    <2>3. QED
      BY <1>2, <2>2 DEF T, GrowsBy
  <1> DEFINE u == GrowAndRehash(t)
  <1> HIDE DEF u
  <1>6. ASSUME u.lost = {}, NEW code \in Nat, NEW id \in Nat, id # 0, Has(t, code, id)
        PROVE  Has(u, code, id)
    <2>1. PICK k \in 1 .. L : OldEntry(t, k).code = code /\ OldEntry(t, k).id = id
      BY <1>6, HasOld
    <2>2. OldEntry(t, k) # NoEntry
      BY <1>6, <2>1, EntryOrNone
    <2>3. QED
      BY <1>5, <1>6, <2>1, <2>2 DEF HasFirst, u
  <1>7. QED
    BY <1>5, <1>6 DEF HasFirst, LosesNothing, u

LEMMA CountHas ==
  ASSUME NEW E, Entries(E), NEW t, TableInv(t, E)
  PROVE  LosesNothing(t, [t EXCEPT !.count = @ + 1])
  <1> DEFINE u == [t EXCEPT !.count = @ + 1]
  <1>1. /\ u.step = t.step /\ u.overflow_count = t.overflow_count /\ u.lost = t.lost
        /\ u.entries = t.entries /\ u.overflow = t.overflow
    BY TableParts
  <1> HIDE DEF u
  <1>2. t.overflow_count \in Nat
    BY TableParts
  <1>3. Extends(t, u)
    BY <1>1, <1>2 DEF Extends
  <1>4. QED
    BY <1>1, <1>3, HasKept DEF LosesNothing, u

LEMMA GrowIfHas ==
  ASSUME NEW E, Entries(E), NEW t, TableInv(t, E), NEW full
  PROVE  LosesNothing(t, GrowIf(t, full))
  <1>1. LosesNothing(t, t)
    BY DEF LosesNothing
  <1>2. QED
    BY <1>1, GrowHas DEF GrowIf

LEMMA AddHas ==
  ASSUME NEW E, Entries(E), NEW t, TableInv(t, E), NEW e \in E, e.cookie = 0
  PROVE  LosesNothing(t, Add(t, e)) /\ (Add(t, e).lost = {} => Has(Add(t, e), e.code, e.id))
  <1> DEFINE u == Insert(t, e)
             w == [u EXCEPT !.count = @ + 1]
             x == GrowIfTableFull(w)
             y == GrowIfOverflowFull(x)
  <1>0. e.code \in Nat /\ e.id \in Nat /\ e.id # 0
    BY EntryOrNone
  <1>1. TableInv(u, E) /\ InsertsAll(t, u, e)
    BY InsertKeeps, InsertHas DEF Inserts
  <1>2. LosesNothing(t, u)
    BY <1>1, HasKept DEF InsertsAll, LosesNothing
  <1> HIDE DEF u
  <1>3. TableInv(w, E) /\ LosesNothing(u, w)
    BY <1>1, CountKeeps, CountHas
  <1> HIDE DEF w
  <1>4. TableInv(x, E) /\ LosesNothing(w, x)
    BY <1>3, GrowIfKeeps, GrowIfHas DEF GrowIfTableFull
  <1> HIDE DEF x
  <1>5. LosesNothing(x, y)
    BY <1>4, GrowIfHas DEF GrowIfOverflowFull
  <1>6. Add(t, e) = y
    BY DEF Add, x, w, u
  <1> HIDE DEF y
  <1>7. QED
    BY <1>0, <1>1, <1>2, <1>3, <1>4, <1>5, <1>6 DEF LosesNothing, InsertsAll

\* When the head of b names what the first slot named, only that slot is out of
\* reach.
LEMMA ReachedPast ==
  ASSUME NEW E, Entries(E), NEW t, TableInv(t, E), NEW b \in Buckets(t.step),
         NEW u, u.step = t.step, u.overflow_count = t.overflow_count, u.overflow = t.overflow,
         NEW first \in Live(t, b), t.entries[b].cookie = first,
         u.entries[b].cookie = t.overflow[first].cookie
  PROVE  Reached(t, b) \subseteq Reached(u, b) \cup {first}
  <1>1. Live(u, b) = Live(t, b)
    BY DEF Live
  <1>2. ASSUME NEW s \in Reached(t, b), s # first, NEW R \in SUBSET Live(u, b), Path(u, b, R)
        PROVE  s \in R
    <2>1. Path(t, b, R \cup {first})
      BY <1>2 DEF Path
    <2>2. R \cup {first} \in SUBSET Live(t, b)
      BY <1>1
    <2>3. QED
      BY <1>2, <2>1, <2>2 DEF Reached
  <1>3. QED
    BY <1>1, <1>2 DEF Reached

LEMMA HeadMoved ==
  ASSUME NEW E, Entries(E), NEW t, TableInv(t, E), NEW b \in Buckets(t.step),
         NEW u, u.step = t.step, u.overflow_count = t.overflow_count, u.overflow = t.overflow,
         NEW first \in Live(t, b), t.entries[b].cookie = first,
         u.entries[b].cookie = t.overflow[first].cookie,
         \A c \in Buckets(t.step) : c # b => u.entries[c] = t.entries[c],
         NEW code \in Nat, NEW id, id # 0, Has(t, code, id),
         t.entries[b].id = id =>
           u.entries[b].id = id /\ u.entries[b].code = t.entries[b].code,
         t.overflow[first].id = id =>
           u.entries[b].id = id /\ u.entries[b].code = t.overflow[first].code
  PROVE  Has(u, code, id)
  <1> DEFINE c == Bucket(t, code)
  <1>1. c \in Buckets(t.step) /\ Bucket(u, code) = c
    BY BucketIs DEF Bucket
  <1>2. PICK e \in {t.entries[c]} \cup {t.overflow[s] : s \in Reached(t, c)} :
          e.code = code /\ e.id = id
    BY DEF Has
  <1> HIDE DEF c
  <1>3. CASE c # b
    <2>1. u.entries[c] = t.entries[c]
      BY <1>1, <1>3
    <2>2. Live(t, c) = Live(u, c)
      BY DEF Live
    <2>3. Reached(t, c) \subseteq Reached(u, c)
      BY <1>1, <2>1, <2>2, ReachedMore
    <2>4. QED
      BY <1>1, <1>2, <2>1, <2>3 DEF Has
  <1>4. CASE c = b /\ e = t.entries[b]
    BY <1>1, <1>2, <1>4 DEF Has
  <1>5. ASSUME c = b, NEW s \in Reached(t, b), e = t.overflow[s] PROVE Has(u, code, id)
    <2>1. CASE s = first
      BY <1>1, <1>2, <1>5, <2>1 DEF Has
    <2>2. CASE s # first
      <3>1. s \in Reached(u, b)
        BY <2>2, ReachedPast
      <3>2. QED
        BY <1>1, <1>2, <1>5, <3>1 DEF Has
    <2>3. QED
      BY <2>1, <2>2
  <1>6. QED
    BY <1>2, <1>3, <1>4, <1>5

\* Taking an entry out takes no other one out.
LEMMA TakenOutHas ==
  ASSUME NEW E, Entries(E), NEW t, TableInv(t, E), NEW b \in Buckets(t.step),
         NEW i \in 0 .. Len(Chain(t, b)),
         NEW code \in Nat, NEW id, id # 0, Has(t, code, id),
         i # 0 => Chain(t, b)[i].id # id
  PROVE  Has(TakenOut(t, b, Chain(t, b), i), code, id)
  <1> DEFINE chain == Chain(t, b)
             first == t.entries[b].cookie
  <1>1. /\ chain \in Seq(E)
        /\ chain # <<>> => t.entries[b] # NoEntry /\ chain[1] = t.entries[b]
        /\ Len(chain) >= 2 => first \in Live(t, b) /\ chain[2] = t.overflow[first]
    BY ChainIs
  <1>2. TakenOut(t, b, chain, i) =
          IF i = 1 /\ chain[1].cookie # 0
          THEN [t EXCEPT !.entries[b] = t.overflow[chain[1].cookie]]
          ELSE IF i = 2 THEN [t EXCEPT !.entries[b].cookie = chain[2].cookie]
          ELSE t
    BY DEF TakenOut
  <1>3. i \in 0 .. Len(chain) /\ (i # 0 => chain[i].id # id)
    OBVIOUS
  <1>4. /\ t.entries \in [Buckets(t.step) -> E \cup {NoEntry}]
        /\ \A f : LET u == [t EXCEPT !.entries[b] = f]
                  IN  /\ u.step = t.step /\ u.overflow_count = t.overflow_count
                      /\ u.overflow = t.overflow /\ u.entries[b] = f
                      /\ \A c \in Buckets(t.step) : c # b => u.entries[c] = t.entries[c]
    BY TableParts
  <1> HIDE DEF chain
  <1>5. CASE i = 1 /\ chain[1].cookie # 0
    <2> DEFINE f == t.overflow[first]
               u == [t EXCEPT !.entries[b] = f]
    <2>1. chain[1] = t.entries[b] /\ t.entries[b].id # id
      BY <1>1, <1>3, <1>5
    <2>2. first \in Live(t, b)
      BY <1>5, <2>1, HeadLive
    <2>3. TakenOut(t, b, chain, i) = u
      BY <1>2, <1>5, <2>1
    <2>4. /\ u.step = t.step /\ u.overflow_count = t.overflow_count /\ u.overflow = t.overflow
          /\ u.entries[b] = f /\ \A c \in Buckets(t.step) : c # b => u.entries[c] = t.entries[c]
      BY <1>4
    <2> HIDE DEF u
    <2>5. Has(u, code, id)
      BY <2>1, <2>2, <2>4, HeadMoved
    <2>6. QED
      BY <2>3, <2>5 DEF chain
  <1>6. CASE i = 2
    <2> DEFINE f == [t.entries[b] EXCEPT !.cookie = chain[2].cookie]
               u == [t EXCEPT !.entries[b] = f]
    <2>1. /\ first \in Live(t, b) /\ chain[2] = t.overflow[first] /\ chain # <<>>
          /\ chain[2].id # id
      BY <1>1, <1>3, <1>6
    <2>2. t.entries[b] \in EntrySet
      BY <1>1, <1>4, <2>1, EntryOrNone
    <2>3. f.cookie = t.overflow[first].cookie /\ f.id = t.entries[b].id /\ f.code = t.entries[b].code
      BY <2>1, <2>2 DEF EntrySet
    <2>4. TakenOut(t, b, chain, i) = u
      BY <1>2, <1>6
    <2> HIDE DEF f
    <2>5. /\ u.step = t.step /\ u.overflow_count = t.overflow_count /\ u.overflow = t.overflow
          /\ u.entries[b] = f /\ \A c \in Buckets(t.step) : c # b => u.entries[c] = t.entries[c]
      BY <1>4
    <2> HIDE DEF u
    <2>6. Has(u, code, id)
      BY <2>1, <2>3, <2>5, HeadMoved
    <2>7. QED
      BY <2>4, <2>6 DEF chain
  <1>7. CASE ~(i = 1 /\ chain[1].cookie # 0) /\ i # 2
    BY <1>2, <1>7 DEF chain
  <1>8. QED
    BY <1>5, <1>6, <1>7

LEMMA FoundHas ==
  ASSUME NEW E, Entries(E), NEW t, TableInv(t, E), NEW key \in Nat, NEW same
  PROVE  LET u == Found(t, key, same).table
         IN  /\ u.lost = t.lost
             /\ \A code \in Nat, id \in Nat :
                  id # 0 /\ id \notin same /\ Has(t, code, id) => Has(u, code, id)
  <1> DEFINE b == Bucket(t, key)
             chain == Chain(t, b)
             i == FirstSame(chain, same)
             u == TakenOut(t, b, chain, i)
  <1>1. b \in Buckets(t.step)
    BY BucketIs
  <1>2. chain \in Seq(E)
    BY <1>1, ChainIs
  <1>3. i \in 0 .. Len(chain) /\ (i # 0 => chain[i].id \in same)
    <2> HIDE DEF chain
    <2>1. QED
      BY <1>2, FirstSameIs
  <1>4. Found(t, key, same).table = u
    BY DEF Found, TakeFirst
  <1> HIDE DEF b, i
  <1>5. u.lost = t.lost
    <2>1. \A f : [t EXCEPT !.entries[b] = f].lost = t.lost
      BY TableParts
    <2>2. u = t \/ \E f : u = [t EXCEPT !.entries[b] = f]
      BY DEF TakenOut
    <2> HIDE DEF u
    <2>3. QED
      BY <2>1, <2>2
  <1>6. ASSUME NEW code \in Nat, NEW id \in Nat, id # 0, id \notin same, Has(t, code, id)
        PROVE  Has(u, code, id)
    <2>1. i # 0 => chain[i].id # id
      BY <1>3, <1>6
    <2>2. QED
      BY <1>1, <1>3, <1>6, <2>1, TakenOutHas
  <1>7. QED
    BY <1>4, <1>5, <1>6

-----------------------------------------------------------------------------
\* The cache

TableSet(E) == {t \in UNION {Tables(E, s) : s \in Steps} : TableInv(t, E)}

LEMMA InTableSet ==
  ASSUME NEW E, Entries(E), NEW t, TableInv(t, E)
  PROVE  t \in TableSet(E)
  BY InTables, TableParts DEF TableSet

Cache(current, generations, lost) ==
  [current |-> current, generations |-> generations, lost |-> lost]

LEMMA CacheParts ==
  ASSUME NEW E, Entries(E), NEW c, CacheInv(c, E)
  PROVE  /\ c.current \in TableSet(E) /\ c.generations \in Seq(TableSet(E))
         /\ c = Cache(c.current, c.generations, c.lost)
  <1>1. c.current \in TableSet(E)
    BY InTableSet DEF CacheInv
  <1>2. \A i \in 1 .. Len(c.generations) : c.generations[i] \in TableSet(E)
    BY InTableSet DEF CacheInv
  <1>3. c.generations = [i \in 1 .. Len(c.generations) |-> c.generations[i]]
        /\ Len(c.generations) \in Nat
    BY DEF CacheInv
  <1>4. c.generations \in Seq(TableSet(E))
    BY <1>2, <1>3, IsASeq
  <1>5. QED
    BY <1>1, <1>4 DEF CacheInv, Cache

LEMMA CacheBuilt ==
  ASSUME NEW E, NEW current \in TableSet(E), NEW generations \in Seq(TableSet(E)), NEW lost
  PROVE  CacheInv(Cache(current, generations, lost), E)
  <1> DEFINE c == Cache(current, generations, lost)
  <1>1. c.current = current /\ c.generations = generations /\ c.lost = lost
        /\ c = [current |-> c.current, generations |-> c.generations, lost |-> c.lost]
    BY DEF Cache
  <1> HIDE DEF c
  <1>2. generations = [i \in 1 .. Len(generations) |-> generations[i]] /\ Len(generations) \in Nat
    OBVIOUS
  <1>3. CacheInv(c, E)
    BY <1>1, <1>2 DEF CacheInv, TableSet
  <1>4. QED
    BY <1>3 DEF c

LEMMA NewCacheInv ==
  ASSUME NEW E, Entries(E)
  PROVE  CacheInv(NewCache, E)
  <1>1. NewTable(1) \in TableSet(E)
    BY FirstTableInv, InTableSet
  <1>2. <<>> \in Seq(TableSet(E))
    OBVIOUS
  <1>3. CacheInv(Cache(NewTable(1), <<>>, FALSE), E)
    BY <1>1, <1>2, CacheBuilt
  <1>4. NewCache = Cache(NewTable(1), <<>>, FALSE)
    BY DEF NewCache, Cache
  <1>5. QED
    BY <1>3, <1>4

LEMMA FreshKeeps ==
  ASSUME NEW E, Entries(E), NEW c, CacheInv(c, E)
  PROVE  CacheInv(FreshGeneration(c), E)
  <1> DEFINE G == c.generations
             g == Append(Tail(G), c.current)
  <1>1. c.current \in TableSet(E) /\ G \in Seq(TableSet(E)) /\ c = Cache(c.current, G, c.lost)
    BY CacheParts
  <1>2. CASE c.current.count < SizePerGeneration
    BY <1>2 DEF FreshGeneration
  <1>3. CASE ~(c.current.count < SizePerGeneration) /\ Len(G) + 1 = MaxGenerations
    <2>1. FreshGeneration(c) = Cache(Reset(G[1]), g, TRUE)
      BY <1>3 DEF FreshGeneration, Cache
    <2>2. Len(G) >= 1
      BY <1>1, <1>3, HashAssumption
    <2>3. G[1] \in TableSet(E) /\ g \in Seq(TableSet(E))
      BY <1>1, <2>2
    <2>4. Reset(G[1]) \in TableSet(E)
      BY <2>3, ResetInv, InTableSet DEF TableSet
    <2> HIDE DEF G, g
    <2>5. CacheInv(Cache(Reset(G[1]), g, TRUE), E)
      BY <2>3, <2>4, CacheBuilt
    <2>6. QED
      BY <2>1, <2>5
  <1>4. CASE ~(c.current.count < SizePerGeneration) /\ Len(G) + 1 # MaxGenerations
    <2> DEFINE h == Append(G, c.current)
               d == [c EXCEPT !.current = NewTable(1), !.generations = Append(@, c.current)]
    <2>1. FreshGeneration(c) = d
      BY <1>4 DEF FreshGeneration
    <2>2. d = Cache(NewTable(1), h, c.lost)
      <3>1. d = [[c EXCEPT !.current = NewTable(1)] EXCEPT !.generations = h]
        BY <1>1 DEF Cache
      <3> DEFINE c1 == [c EXCEPT !.current = NewTable(1)]
      <3>2. c1 = Cache(NewTable(1), G, c.lost)
        BY <1>1 DEF Cache
      <3> HIDE DEF c1, h, d
      <3>3. [c1 EXCEPT !.generations = h] = Cache(NewTable(1), h, c.lost)
        BY <3>2 DEF Cache
      <3>4. QED
        BY <3>1, <3>3 DEF c1
    <2>3. NewTable(1) \in TableSet(E)
      BY FirstTableInv, InTableSet
    <2>4. h \in Seq(TableSet(E))
      BY <1>1
    <2> HIDE DEF h, d
    <2>5. CacheInv(Cache(NewTable(1), h, c.lost), E)
      BY <2>3, <2>4, CacheBuilt
    <2>6. QED
      BY <2>1, <2>2, <2>5
  <1>5. QED
    BY <1>2, <1>3, <1>4

LEMMA CacheAddKeeps ==
  ASSUME NEW E, Entries(E), NEW c, CacheInv(c, E), NEW e \in E, e.cookie = 0
  PROVE  CacheInv(CacheAdd(c, e), E)
  <1> DEFINE d == FreshGeneration(c)
             t == Add(d.current, e)
  <1>1. CacheInv(d, E)
    BY FreshKeeps
  <1>2. CacheAdd(c, e) = [d EXCEPT !.current = Add(@, e)]
    BY DEF CacheAdd
  <1> HIDE DEF d
  <1>3. d.current \in TableSet(E) /\ d.generations \in Seq(TableSet(E))
        /\ d = Cache(d.current, d.generations, d.lost)
    BY <1>1, CacheParts
  <1>4. t \in TableSet(E)
    BY <1>3, AddKeeps, InTableSet DEF TableSet
  <1>5. [d EXCEPT !.current = Add(@, e)] = Cache(t, d.generations, d.lost)
    BY <1>3 DEF Cache
  <1> HIDE DEF t
  <1>6. CacheInv(Cache(t, d.generations, d.lost), E)
    BY <1>3, <1>4, CacheBuilt
  <1>7. QED
    BY <1>2, <1>5, <1>6

LEMMA CacheGetKeeps ==
  ASSUME NEW E, Entries(E), NEW c, CacheInv(c, E), NEW code \in Nat, NEW same
  PROVE  LET r == CacheGet(c, code, same)
         IN  Answers(E, r.entry, same) /\ CacheInv(r.cache, E)
  <1> DEFINE e == Get(c.current, code, same)
             G == c.generations
             found == [i \in DOMAIN G |-> Found(G[i], code, same)]
             hits == {i \in DOMAIN found : ~IsEmpty(found[i].entry)}
             last == CHOOSE j \in hits : \A k \in hits : k <= j
             Kept(r) == Answers(E, r.entry, same) /\ CacheInv(r.cache, E)
  <1>1. c.current \in TableSet(E) /\ G \in Seq(TableSet(E)) /\ c = Cache(c.current, G, c.lost)
    BY CacheParts
  <1>2. Answers(E, e, same)
    BY <1>1, GetAnswers DEF TableSet
  <1>3. CASE ~IsEmpty(e)
    <2>1. CacheGet(c, code, same) = [entry |-> e, cache |-> c]
      BY <1>3 DEF CacheGet
    <2> HIDE DEF e
    <2>2. QED
      BY <1>2, <2>1
  <1>4. CASE IsEmpty(e)
    <2>1. CacheGet(c, code, same) = MoveToCurrent(c, found)
      BY <1>4 DEF CacheGet
    <2>2. MoveToCurrent(c, found) =
            IF hits = {} THEN [entry |-> NoEntry, cache |-> c]
            ELSE [entry |-> found[last].entry,
                  cache |-> [c EXCEPT !.generations[last] = found[last].table,
                                      !.current = Add(@, found[last].entry)]]
      BY DEF MoveToCurrent
    <2>3. CASE hits = {}
      <3> DEFINE r == [entry |-> NoEntry, cache |-> c]
      <3>1. r.entry = NoEntry /\ r.cache = c
        OBVIOUS
      <3>2. CacheGet(c, code, same) = r
        BY <2>1, <2>2, <2>3
      <3> HIDE DEF r
      <3>3. QED
        BY <3>1, <3>2 DEF Answers
    <2>4. CASE hits # {}
      <3>1. DOMAIN G = 1 .. Len(G) /\ Len(G) \in Nat /\ hits \subseteq 1 .. Len(G)
        BY <1>1
      <3>2. last \in hits
        <4> HIDE DEF hits, G
        <4>1. \E m \in hits : \A k \in hits : k <= m
          BY <2>4, <3>1, GreatestNumber
        <4>2. QED
          BY <4>1
      <3> HIDE DEF last
      <3> DEFINE x == Found(G[last], code, same)
                 t == Add(c.current, x.entry)
                 g == [G EXCEPT ![last] = x.table]
                 d == [c EXCEPT !.generations[last] = found[last].table,
                                !.current = Add(@, found[last].entry)]
      <3>3. last \in 1 .. Len(G) /\ ~IsEmpty(x.entry) /\ found[last] = x
        BY <3>1, <3>2
      <3>4. /\ Answers(E, x.entry, same) /\ x.entry.cookie = 0
            /\ TableInv(x.table, E)
        <4>1. TableInv(G[last], E)
          BY <1>1, <3>3 DEF TableSet
        <4>2. QED
          BY <4>1, FoundKeeps
      <3>5. x.entry \in E
        BY <3>3, <3>4, EntryOrNone DEF Answers
      <3>6. t \in TableSet(E)
        BY <1>1, <3>4, <3>5, AddKeeps, InTableSet DEF TableSet
      <3>7. g \in Seq(TableSet(E))
        <4>1. x.table \in TableSet(E)
          BY <3>4, InTableSet
        <4> HIDE DEF x
        <4>2. QED
          BY <1>1, <3>3, <4>1
      <3>8. d = Cache(t, g, c.lost)
        <4> DEFINE c1 == [c EXCEPT !.generations[last] = x.table]
        <4>1. d = [c1 EXCEPT !.current = Add(@, x.entry)]
          BY <3>3
        <4> HIDE DEF found, x
        <4>2. c1 = Cache(c.current, g, c.lost)
          BY <1>1 DEF Cache
        <4> HIDE DEF c1, g
        <4>3. QED
          BY <4>1, <4>2 DEF Cache
      <3> HIDE DEF t, g, x
      <3>9. CacheInv(Cache(t, g, c.lost), E)
        BY <3>6, <3>7, CacheBuilt
      <3>10. CacheGet(c, code, same) = [entry |-> x.entry, cache |-> d]
        BY <2>1, <2>2, <2>4, <3>3
      <3> HIDE DEF d
      <3>11. QED
        BY <3>4, <3>8, <3>9, <3>10
    <2>5. QED
      BY <2>3, <2>4
  <1>5. QED
    BY <1>3, <1>4

\* More entries may be in the cache.
LEMMA CacheGrows ==
  ASSUME NEW E, Entries(E), NEW F, Entries(F), E \subseteq F, NEW c, CacheInv(c, E)
  PROVE  CacheInv(c, F)
  <1>1. ASSUME NEW t, TableInv(t, E) PROVE TableInv(t, F)
    BY <1>1 DEF TableInv, TableType
  <1>2. QED
    BY <1>1 DEF CacheInv

LEMMA CacheEntriesIn ==
  ASSUME NEW E, Entries(E), NEW c, CacheInv(c, E)
  PROVE  CacheEntries(c) \subseteq E
  <1> DEFINE Of(t) == {e \in Range(t.entries) \cup Range(t.overflow) : ~IsEmpty(e)}
  <1>1. ASSUME NEW t \in TableSet(E) PROVE Of(t) \subseteq E
    <2>1. TableInv(t, E)
      BY DEF TableSet
    <2>2. /\ t.entries \in [Buckets(t.step) -> E \cup {NoEntry}]
          /\ t.overflow \in [0 .. OverflowSize(t.step) - 1 -> E \cup {NoEntry}]
      BY <2>1, TableParts
    <2>3. Range(t.entries) \subseteq E \cup {NoEntry} /\ Range(t.overflow) \subseteq E \cup {NoEntry}
      BY <2>2 DEF Range
    <2>4. QED
      BY <2>3, EntryOrNone
  <1>2. Of(c.current) \subseteq E /\ \A i \in 1 .. Len(c.generations) : Of(c.generations[i]) \subseteq E
    BY <1>1, CacheParts
  <1>3. CacheEntries(c) = Of(c.current) \cup UNION {Of(c.generations[i]) : i \in 1 .. Len(c.generations)}
    BY DEF CacheEntries
  <1> HIDE DEF Of
  <1>4. QED
    BY <1>2, <1>3

-----------------------------------------------------------------------------
\* What is found again in the cache

CacheHas(c, code, id) ==
  Has(c.current, code, id) \/ \E i \in 1 .. Len(c.generations) : Has(c.generations[i], code, id)

CacheLosesNothing(c, d) ==
  NothingLost(d) => /\ NothingLost(c)
                    /\ \A code \in Nat, id \in Nat :
                         id # 0 /\ CacheHas(c, code, id) => CacheHas(d, code, id)

LEMMA FreshHas ==
  ASSUME NEW E, Entries(E), NEW c, CacheInv(c, E)
  PROVE  CacheLosesNothing(c, FreshGeneration(c))
  <1> DEFINE G == c.generations
             d == FreshGeneration(c)
  <1>1. G \in Seq(TableSet(E)) /\ c = Cache(c.current, G, c.lost) /\ c.current \in TableSet(E)
    BY CacheParts
  <1>2. CASE c.current.count < SizePerGeneration
    BY <1>2 DEF FreshGeneration, CacheLosesNothing
  <1>3. CASE ~(c.current.count < SizePerGeneration) /\ Len(G) + 1 = MaxGenerations
    <2>1. d.lost
      BY <1>3 DEF FreshGeneration
    <2>2. QED
      BY <2>1 DEF NothingLost, CacheLosesNothing
  <1>4. CASE ~(c.current.count < SizePerGeneration) /\ Len(G) + 1 # MaxGenerations
    <2> DEFINE h == Append(G, c.current)
    <2>1. d = [c EXCEPT !.current = NewTable(1), !.generations = Append(@, c.current)]
      BY <1>4 DEF FreshGeneration
    <2>2. d.generations = h /\ d.lost = c.lost
      BY <1>1, <2>1 DEF Cache
    <2>3. /\ Len(h) = Len(G) + 1 /\ Len(G) \in Nat /\ h[Len(G) + 1] = c.current
          /\ \A i \in 1 .. Len(G) : i \in 1 .. Len(h) /\ h[i] = G[i]
          /\ Len(G) + 1 \in 1 .. Len(h)
      BY <1>1
    <2> HIDE DEF d, h
    <2>4. NothingLost(d) => NothingLost(c)
      BY <2>2, <2>3 DEF NothingLost
    <2>5. \A code, id : CacheHas(c, code, id) => CacheHas(d, code, id)
      BY <2>2, <2>3 DEF CacheHas
    <2>6. QED
      BY <2>4, <2>5 DEF CacheLosesNothing, d
  <1>5. QED
    BY <1>2, <1>3, <1>4

\* A generation may take more.
LEMMA CurrentHas ==
  ASSUME NEW current, NEW generations, NEW lost, NEW t, LosesNothing(current, t)
  PROVE  CacheLosesNothing(Cache(current, generations, lost), Cache(t, generations, lost))
  BY DEF Cache, CacheLosesNothing, NothingLost, CacheHas, LosesNothing

LEMMA CacheAddHas ==
  ASSUME NEW E, Entries(E), NEW c, CacheInv(c, E), NEW e \in E, e.cookie = 0
  PROVE  /\ CacheLosesNothing(c, CacheAdd(c, e))
         /\ NothingLost(CacheAdd(c, e)) => CacheHas(CacheAdd(c, e), e.code, e.id)
  <1> DEFINE d == FreshGeneration(c)
             t == Add(d.current, e)
             u == Cache(t, d.generations, d.lost)
  <1>1. CacheInv(d, E) /\ CacheLosesNothing(c, d)
    BY FreshKeeps, FreshHas
  <1>2. CacheAdd(c, e) = [d EXCEPT !.current = Add(@, e)]
    BY DEF CacheAdd
  <1> HIDE DEF d
  <1>3. d.current \in TableSet(E) /\ d = Cache(d.current, d.generations, d.lost)
    BY <1>1, CacheParts
  <1>4. LosesNothing(d.current, t) /\ (t.lost = {} => Has(t, e.code, e.id))
    BY <1>3, AddHas DEF TableSet
  <1>5. CacheAdd(c, e) = u
    BY <1>2, <1>3 DEF Cache
  <1>6. u.current = t
    BY DEF Cache
  <1> HIDE DEF t
  <1>7. CacheLosesNothing(d, u)
    BY <1>3, <1>4, CurrentHas
  <1> HIDE DEF u
  <1>8. NothingLost(u) => CacheHas(u, e.code, e.id)
    BY <1>4, <1>6 DEF NothingLost, CacheHas
  <1>9. CacheLosesNothing(c, u)
    BY <1>1, <1>7 DEF CacheLosesNothing
  <1>10. QED
    BY <1>5, <1>8, <1>9

\* What a lookup keeps: all that does not equal the key, and what it answers.
GetHas(c, r, same) ==
  NothingLost(r.cache) =>
    /\ NothingLost(c)
    /\ \A code \in Nat, id \in Nat : id # 0 /\ id \notin same /\ CacheHas(c, code, id) =>
         CacheHas(r.cache, code, id)
    /\ ~IsEmpty(r.entry) => \/ r.cache = c
                            \/ CacheHas(r.cache, r.entry.code, r.entry.id)

LEMMA CacheGetHas ==
  ASSUME NEW E, Entries(E), NEW c, CacheInv(c, E), NEW key \in Nat, NEW same
  PROVE  LET r == CacheGet(c, key, same)
         IN  /\ GetHas(c, r, same)
             /\ IsEmpty(r.entry) => r.cache = c
             /\ \A id \in same : id # 0 /\ CacheHas(c, key, id) => ~IsEmpty(r.entry)
  <1> DEFINE e == Get(c.current, key, same)
             G == c.generations
             found == [i \in DOMAIN G |-> Found(G[i], key, same)]
             hits == {i \in DOMAIN found : ~IsEmpty(found[i].entry)}
             last == CHOOSE j \in hits : \A k \in hits : k <= j
  <1>1. c.current \in TableSet(E) /\ G \in Seq(TableSet(E)) /\ c = Cache(c.current, G, c.lost)
    BY CacheParts
  <1>2. CASE ~IsEmpty(e)
    <2> DEFINE r == CacheGet(c, key, same)
    <2>1. r = [entry |-> e, cache |-> c]
      BY <1>2 DEF CacheGet
    <2> HIDE DEF e
    <2>2. r.entry = e /\ r.cache = c
      BY <2>1
    <2> HIDE DEF r
    <2>3. QED
      BY <1>2, <2>2 DEF GetHas, r
  <1>3. CASE IsEmpty(e)
    <2>1. CacheGet(c, key, same) = MoveToCurrent(c, found)
      BY <1>3 DEF CacheGet
    <2>2. MoveToCurrent(c, found) =
            IF hits = {} THEN [entry |-> NoEntry, cache |-> c]
            ELSE [entry |-> found[last].entry,
                  cache |-> [c EXCEPT !.generations[last] = found[last].table,
                                      !.current = Add(@, found[last].entry)]]
      BY DEF MoveToCurrent
    <2>3. ASSUME NEW id \in same, id # 0, CacheHas(c, key, id) PROVE hits # {}
      <3>1. ~Has(c.current, key, id)
        BY <1>1, <1>3, <2>3, GetFinds DEF TableSet
      <3>2. PICK i \in 1 .. Len(G) : Has(G[i], key, id)
        BY <2>3, <3>1 DEF CacheHas
      <3>3. TableInv(G[i], E) /\ i \in DOMAIN G
        BY <1>1 DEF TableSet
      <3>4. ~IsEmpty(Found(G[i], key, same).entry)
        BY <2>3, <3>2, <3>3, GetFinds
      <3>5. i \in hits
        BY <3>3, <3>4
      <3>6. QED
        BY <3>5
    <2>4. CASE hits = {}
      <3> DEFINE r == [entry |-> NoEntry, cache |-> c]
      <3>1. r.entry = NoEntry /\ r.cache = c
        OBVIOUS
      <3>2. CacheGet(c, key, same) = r
        BY <2>1, <2>2, <2>4
      <3> HIDE DEF r, hits
      <3>3. GetHas(c, r, same)
        BY <3>1, EntryOrNone DEF GetHas
      <3>4. QED
        BY <2>3, <2>4, <3>1, <3>2, <3>3
    <2>5. CASE hits # {}
      <3>1. DOMAIN G = 1 .. Len(G) /\ Len(G) \in Nat /\ hits \subseteq 1 .. Len(G)
        BY <1>1
      <3>2. last \in hits
        <4> HIDE DEF hits, G
        <4>1. \E m \in hits : \A k \in hits : k <= m
          BY <2>5, <3>1, GreatestNumber
        <4>2. QED
          BY <4>1
      <3> HIDE DEF last
      <3> DEFINE x == Found(G[last], key, same)
                 t == Add(c.current, x.entry)
                 g == [G EXCEPT ![last] = x.table]
                 d == [c EXCEPT !.generations[last] = found[last].table,
                                !.current = Add(@, found[last].entry)]
      <3>3. last \in 1 .. Len(G) /\ ~IsEmpty(x.entry) /\ found[last] = x
        BY <3>1, <3>2
      <3>4. /\ Answers(E, x.entry, same) /\ x.entry.cookie = 0 /\ x.table.lost = G[last].lost
            /\ \A code \in Nat, id \in Nat :
                 id # 0 /\ id \notin same /\ Has(G[last], code, id) => Has(x.table, code, id)
        <4>1. TableInv(G[last], E)
          BY <1>1, <3>3 DEF TableSet
        <4>2. QED
          BY <4>1, FoundKeeps, FoundHas
      <3>5. x.entry \in E
        BY <3>3, <3>4, EntryOrNone DEF Answers
      <3>6. /\ LosesNothing(c.current, t)
            /\ t.lost = {} => Has(t, x.entry.code, x.entry.id)
        BY <1>1, <3>4, <3>5, AddHas DEF TableSet
      <3>7. d = Cache(t, g, c.lost)
        <4> DEFINE c1 == [c EXCEPT !.generations[last] = x.table]
        <4>1. d = [c1 EXCEPT !.current = Add(@, x.entry)]
          BY <3>3
        <4> HIDE DEF found, x
        <4>2. c1 = Cache(c.current, g, c.lost)
          BY <1>1 DEF Cache
        <4> HIDE DEF c1, g
        <4>3. QED
          BY <4>1, <4>2 DEF Cache
      <3>8. Len(g) = Len(G) /\ \A i \in 1 .. Len(G) : g[i] = IF i = last THEN x.table ELSE G[i]
        BY <1>1
      <3>9. d.current = t /\ d.generations = g /\ d.lost = c.lost
        <4> HIDE DEF d, t, g
        <4>1. QED
          BY <3>7 DEF Cache
      <3> DEFINE r == [entry |-> x.entry, cache |-> d]
      <3>10. CacheGet(c, key, same) = r
        BY <2>1, <2>2, <2>5, <3>3
      <3> HIDE DEF t, g, d, x
      <3>11. r.entry = x.entry /\ r.cache = d
        OBVIOUS
      <3> HIDE DEF r
      <3>12. NothingLost(d) => NothingLost(c)
        BY <3>3, <3>4, <3>6, <3>8, <3>9 DEF NothingLost, LosesNothing
      <3>13. ASSUME NothingLost(d), NEW code \in Nat, NEW id \in Nat, id # 0, id \notin same,
                    CacheHas(c, code, id)
             PROVE  CacheHas(d, code, id)
        <4>1. CASE Has(c.current, code, id)
          BY <3>6, <3>9, <3>13, <4>1 DEF NothingLost, LosesNothing, CacheHas
        <4>2. ASSUME NEW i \in 1 .. Len(G), Has(G[i], code, id) PROVE CacheHas(d, code, id)
          <5>1. Has(g[i], code, id)
            BY <3>4, <3>8, <3>13, <4>2
          <5>2. QED
            BY <3>8, <3>9, <5>1 DEF CacheHas
        <4>3. QED
          BY <3>13, <4>1, <4>2 DEF CacheHas
      <3>14. NothingLost(d) => CacheHas(d, x.entry.code, x.entry.id)
        BY <3>6, <3>9 DEF NothingLost, CacheHas
      <3>15. GetHas(c, r, same)
        BY <3>11, <3>12, <3>13, <3>14 DEF GetHas
      <3>16. QED
        BY <3>3, <3>10, <3>11, <3>15
    <2>6. QED
      BY <2>4, <2>5
  <1>4. QED
    BY <1>2, <1>3

LEMMA CacheHasEntry ==
  ASSUME NEW E, Entries(E), NEW c, CacheInv(c, E), NEW code \in Nat, NEW id, id # 0,
         CacheHas(c, code, id)
  PROVE  \E e \in CacheEntries(c) : e.id = id
  <1> DEFINE Of(t) == {e \in Range(t.entries) \cup Range(t.overflow) : ~IsEmpty(e)}
  <1>1. ASSUME NEW t \in TableSet(E), Has(t, code, id) PROVE \E e \in Of(t) : e.id = id
    <2> DEFINE b == Bucket(t, code)
    <2>1. TableInv(t, E)
      BY DEF TableSet
    <2>2. /\ t.entries \in [Buckets(t.step) -> E \cup {NoEntry}]
          /\ t.overflow \in [0 .. OverflowSize(t.step) - 1 -> E \cup {NoEntry}]
          /\ t.overflow_count \in Nat /\ t.overflow_count <= OverflowSize(t.step)
          /\ OverflowSize(t.step) \in Nat /\ b \in Buckets(t.step)
      BY <2>1, TableParts, Sizes, BucketIs
    <2>3. PICK e \in {t.entries[b]} \cup {t.overflow[s] : s \in Reached(t, b)} : e.id = id
      BY <1>1 DEF Has
    <2> HIDE DEF b
    <2>4. \A s \in Reached(t, b) : s \in DOMAIN t.overflow
      BY <2>2 DEF Reached, Live
    <2>5. e \in Range(t.entries) \cup Range(t.overflow)
      BY <2>2, <2>3, <2>4 DEF Range
    <2>6. ~IsEmpty(e)
      BY <2>3 DEF IsEmpty
    <2>7. QED
      BY <2>3, <2>5, <2>6
  <1>2. c.current \in TableSet(E) /\ \A i \in 1 .. Len(c.generations) : c.generations[i] \in TableSet(E)
    BY CacheParts
  <1>3. CacheEntries(c) = Of(c.current) \cup UNION {Of(c.generations[i]) : i \in 1 .. Len(c.generations)}
    BY DEF CacheEntries
  <1> HIDE DEF Of
  <1>4. QED
    BY <1>1, <1>2, <1>3 DEF CacheHas

-----------------------------------------------------------------------------
\* decodeVarInt reads what encodeVarInt wrote

\* the number whose digits are in c, from its last k digits on
Digits(h, c) ==
  h = [k \in 0 .. Len(c) |-> IF k = 0 THEN 0
                             ELSE (c[Len(c) - k + 1] % VINT_BASE) + VINT_BASE * h[k - 1]]

LEMMA DigitsExist ==
  ASSUME NEW c \in Text
  PROVE  /\ \E h : Digits(h, c)
         /\ \A h : Digits(h, c) => \A k \in 0 .. Len(c) : h[k] \in Nat
  <1> DEFINE L == Len(c)
             B == VINT_BASE
             Digit(k) == c[L - k + 1] % B
             S == [n \in 0 .. L |-> Nat]
             step == [n \in 1 .. L |-> [x \in Nat |-> Digit(n) + B * x]]
  <1>1. L \in Nat /\ B \in Nat /\ B > 1
    BY ValuesAssumption DEF Text
  <1>2. ASSUME NEW n \in 1 .. L, NEW x \in Nat PROVE Digit(n) + B * x \in Nat
    <2>1. L - n + 1 \in 1 .. L
      BY <1>1
    <2>2. c[L - n + 1] \in Nat
      BY <2>1 DEF Text
    <2>3. Digit(n) \in Nat
      BY <1>1, <2>2, Division
    <2> HIDE DEF Digit
    <2>4. QED
      BY <1>1, <2>3
  <1>3. \E h : Digits(h, c)
    <2>1. S[0] = Nat /\ \A n \in 1 .. L : S[n] = Nat /\ S[n - 1] = Nat
      BY <1>1
    <2>2. \A n \in 1 .. L : \A x \in Nat : step[n][x] = Digit(n) + B * x
      OBVIOUS
    <2> HIDE DEF S, step, Digit, L, B
    <2>3. \A n \in 1 .. L : \A x \in S[n - 1] : step[n][x] \in S[n]
      BY <1>2, <2>1, <2>2
    <2>4. 0 \in S[0]
      BY <2>1
    <2>5. PICK h : Recursive(h, L, 0, step) /\ \A n \in 0 .. L : h[n] \in S[n]
      BY <1>1, <2>3, <2>4, Recursion
    <2>6. \A n \in 0 .. L : n # 0 => n \in 1 .. L /\ n - 1 \in 0 .. L
      BY <1>1
    <2>7. \A n \in 0 .. L : n # 0 => step[n][h[n - 1]] = Digit(n) + B * h[n - 1]
      BY <2>1, <2>2, <2>5, <2>6
    <2>8. h = [k \in 0 .. L |-> IF k = 0 THEN 0 ELSE Digit(k) + B * h[k - 1]]
      BY <2>5, <2>7, Zenon DEF Recursive
    <2>9. Digits(h, c)
      BY <2>8 DEF Digits, Digit, L, B
    <2>10. QED
      BY <2>9
  <1>4. ASSUME NEW h, Digits(h, c) PROVE \A k \in 0 .. L : h[k] \in Nat
    <2> DEFINE T == {k \in 0 .. L : h[k] \in Nat}
    <2>1. h = [k \in 0 .. L |-> IF k = 0 THEN 0 ELSE Digit(k) + B * h[k - 1]]
      BY <1>4 DEF Digits
    <2> HIDE DEF Digit
    <2>2. 0 \in T
      BY <1>1, <2>1
    <2>3. ASSUME NEW n \in 1 .. L, n - 1 \in T PROVE n \in T
      <3>1. n \in 0 .. L /\ n # 0 /\ h[n - 1] \in Nat
        BY <1>1, <2>3
      <3>2. h[n] = Digit(n) + B * h[n - 1]
        BY <2>1, <3>1
      <3>3. QED
        BY <1>2, <3>1, <3>2
    <2>4. \A n \in 0 .. L : n \in T
      <3> HIDE DEF T, L
      <3>1. QED
        BY <1>1, <2>2, <2>3, Induction
    <2>5. QED
      BY <2>4
  <1>5. QED
    BY <1>3, <1>4

\* One more digit in front.
LEMMA DigitsMore ==
  ASSUME NEW a \in Nat, NEW w \in Text, NEW g, Digits(g, w), NEW h, Digits(h, <<a>> \o w)
  PROVE  h[Len(w) + 1] = (a % VINT_BASE) + VINT_BASE * g[Len(w)]
  <1> DEFINE c == <<a>> \o w
             L == Len(w)
             B == VINT_BASE
             T == {k \in 0 .. L : h[k] = g[k]}
  <1>1. L \in Nat /\ Len(c) = L + 1 /\ c[1] = a /\ \A i \in 2 .. L + 1 : c[i] = w[i - 1]
    BY DEF Text
  <1>2. Digits(h, c)
    OBVIOUS
  <1> HIDE DEF c
  <1>3. h = [k \in 0 .. L + 1 |-> IF k = 0 THEN 0 ELSE (c[(L + 1) - k + 1] % B) + B * h[k - 1]]
    BY <1>1, <1>2 DEF Digits
  <1>4. g = [k \in 0 .. L |-> IF k = 0 THEN 0 ELSE (w[L - k + 1] % B) + B * g[k - 1]]
    BY DEF Digits
  <1> HIDE DEF L, B
  <1>5. 0 \in T
    <2>1. h[0] = 0 /\ g[0] = 0
      BY <1>1, <1>3, <1>4
    <2>2. QED
      BY <1>1, <2>1
  <1>6. ASSUME NEW k \in 1 .. L, k - 1 \in T PROVE k \in T
    <2>1. k \in 0 .. L /\ k \in 0 .. L + 1 /\ k # 0 /\ h[k - 1] = g[k - 1]
      BY <1>1, <1>6
    <2>2. (L + 1) - k + 1 \in 2 .. L + 1 /\ ((L + 1) - k + 1) - 1 = L - k + 1
      BY <1>1
    <2>3. c[(L + 1) - k + 1] = w[L - k + 1]
      BY <1>1, <2>2
    <2>4. h[k] = (c[(L + 1) - k + 1] % B) + B * h[k - 1]
      BY <1>3, <2>1
    <2>5. g[k] = (w[L - k + 1] % B) + B * g[k - 1]
      BY <1>4, <2>1
    <2>6. QED
      BY <2>1, <2>3, <2>4, <2>5
  <1>7. L \in T
    <2>1. L \in 0 .. L
      BY <1>1
    <2> HIDE DEF T
    <2>2. QED
      BY <1>1, <1>5, <1>6, <2>1, Induction
  <1>8. L + 1 \in 0 .. L + 1 /\ L + 1 # 0 /\ (L + 1) - (L + 1) + 1 = 1 /\ (L + 1) - 1 = L
    BY <1>1
  <1>9. h[L + 1] = (c[1] % B) + B * h[L]
    BY <1>3, <1>8
  <1>10. QED
    BY <1>1, <1>7, <1>9 DEF L, B

LEMMA DigitsEncode ==
  ASSUME NEW n \in Nat, NEW h, Digits(h, encodeVarInt[n])
  PROVE  h[Len(encodeVarInt[n])] = n
  <1> DEFINE Reads(m) == \A f : Digits(f, encodeVarInt[m]) => f[Len(encodeVarInt[m])] = m
             D == {m \in Nat : ~Reads(m)}
             B == VINT_BASE
  <1>1. SUFFICES ASSUME D # {} PROVE FALSE
    OBVIOUS
  <1>2. PICK m \in D : \A k \in D : m <= k
    <2>1. D \in SUBSET Nat
      OBVIOUS
    <2> HIDE DEF D
    <2>2. QED
      BY <1>1, <2>1, LeastNumber
  <1>3. m \in Nat /\ ~Reads(m) /\ B \in Nat /\ B > 1
    BY <1>2, ValuesAssumption
  <1>4. PICK f : Digits(f, encodeVarInt[m]) /\ f[Len(encodeVarInt[m])] # m
    BY <1>3
  <1>5. CASE m < B
    <2>1. encodeVarInt[m] = <<m>> /\ Len(<<m>>) = 1 /\ <<m>>[1] = m
      BY <1>3, <1>5, EncodeIs
    <2>2. f = [k \in 0 .. 1 |-> IF k = 0 THEN 0 ELSE (<<m>>[1 - k + 1] % B) + B * f[k - 1]]
      BY <1>4, <2>1 DEF Digits
    <2>3. f[0] = 0 /\ f[1] = (m % B) + B * f[0]
      BY <2>1, <2>2
    <2>4. m % B = m
      <3>1. m = 0 * B + m
        BY <1>3
      <3>2. QED
        BY <1>3, <1>5, <3>1, Remainder
    <2>5. f[1] = m
      BY <1>3, <2>3, <2>4
    <2>6. QED
      BY <1>4, <2>1, <2>5
  <1>6. CASE ~(m < B)
    <2> DEFINE q == m \div B
               r == m % B
               a == r + B
               w == encodeVarInt[q]
    <2>1. q \in Nat /\ q < m /\ r \in Nat /\ r < B /\ m = q * B + r
      BY <1>3, <1>6, Smaller, Division
    <2>2. Reads(q)
      BY <1>2, <1>3, <2>1
    <2>3. encodeVarInt[m] = <<a>> \o w
      BY <1>3, <1>6, EncodeIs
    <2> HIDE DEF q, r
    <2>4. w \in Text /\ a \in Nat
      <3>1. CodeWord(w)
        BY <2>1, EncodeWord
      <3>2. a \in Nat
        BY <1>3, <2>1
      <3>3. QED
        BY <3>1, <3>2 DEF CodeWord
    <2>5. PICK g : Digits(g, w)
      BY <2>4, DigitsExist
    <2>6. g[Len(w)] = q
      BY <2>2, <2>5
    <2>7. a % B = r
      <3>1. a = 1 * B + r
        BY <1>3, <2>1
      <3>2. QED
        BY <1>3, <2>1, <2>4, <3>1, Remainder
    <2> HIDE DEF a, w
    <2>8. Len(<<a>> \o w) = Len(w) + 1
      BY <2>4 DEF Text
    <2>9. f[Len(w) + 1] = (a % B) + B * g[Len(w)]
      BY <1>4, <2>3, <2>4, <2>5, DigitsMore
    <2>10. B * q = q * B /\ q * B \in Nat
      BY <1>3, <2>1, Z3
    <2>11. f[Len(w) + 1] = m
      BY <1>3, <2>1, <2>6, <2>7, <2>9, <2>10
    <2>12. QED
      BY <1>4, <2>3, <2>8, <2>11
  <1>7. QED
    BY <1>5, <1>6

LEMMA DecodeEncoded ==
  ASSUME NEW n \in Nat, NEW bytes \in Text, Len(encodeVarInt[n]) <= Len(bytes),
         \A i \in 1 .. Len(encodeVarInt[n]) : bytes[i] = encodeVarInt[n][i]
  PROVE  decodeVarInt(bytes) = n
  <1> DEFINE c == encodeVarInt[n]
             L == Len(c)
             B == VINT_BASE
             ends == {i \in DOMAIN bytes : bytes[i] < B}
             last == Min(ends)
             high[k \in 0 .. last] ==
               IF k = 0 THEN 0 ELSE (bytes[last - k + 1] % B) + B * high[k - 1]
  <1>1. decodeVarInt(bytes) = high[last]
    BY DEF decodeVarInt
  <1>2. CodeWord(c) /\ B \in Nat
    BY EncodeWord, ValuesAssumption
  <1>3. c \in Text /\ L \in Nat /\ L >= 1 /\ c[L] < B /\ (\A i \in 1 .. L - 1 : c[i] >= B)
        /\ L <= Len(bytes) /\ (\A i \in 1 .. L : bytes[i] = c[i] /\ c[i] \in Nat)
        /\ DOMAIN bytes = 1 .. Len(bytes)
    BY <1>2 DEF CodeWord, Text
  <1>4. last = L
    <2> HIDE DEF c, L, B
    <2>1. L \in ends
      BY <1>3
    <2>2. \A i \in ends : L <= i
      <3>1. TAKE i \in ends
      <3>2. SUFFICES ASSUME i \in 1 .. L - 1 PROVE FALSE
        BY <1>3
      <3>3. i \in 1 .. L /\ bytes[i] < B /\ c[i] >= B
        BY <1>3, <3>2
      <3>4. QED
        BY <1>2, <1>3, <3>3
    <2>3. \A x, y \in ends : x \in Nat /\ y \in Nat
      BY <1>3
    <2> HIDE DEF ends
    <2>4. QED
      BY <2>1, <2>2, <2>3 DEF Min
  <1> HIDE DEF last
  <1>5. PICK h : Digits(h, c)
    BY <1>3, DigitsExist
  <1>6. h = [k \in 0 .. last |-> IF k = 0 THEN 0 ELSE (bytes[last - k + 1] % B) + B * h[k - 1]]
    <2>1. h = [k \in 0 .. L |-> IF k = 0 THEN 0 ELSE (c[L - k + 1] % B) + B * h[k - 1]]
      BY <1>5 DEF Digits
    <2> HIDE DEF c, L, B
    <2>2. \A k \in 0 .. L : k # 0 => L - k + 1 \in 1 .. L
      BY <1>3
    <2>3. \A k \in 0 .. L : k # 0 => c[L - k + 1] = bytes[L - k + 1]
      BY <1>3, <2>2
    <2>4. QED
      BY <1>4, <2>1, <2>3, Zenon
  <1> HIDE DEF c, L, B
  <1>7. high = [k \in 0 .. last |-> IF k = 0 THEN 0 ELSE (bytes[last - k + 1] % B) + B * high[k - 1]]
    BY <1>6, Zenon
  <1> HIDE DEF high
  <1>8. Digits(high, c)
    <2>1. \A k \in 0 .. L : k # 0 => L - k + 1 \in 1 .. L
      BY <1>3
    <2>2. \A k \in 0 .. L : k # 0 => c[L - k + 1] = bytes[L - k + 1]
      BY <1>3, <2>1
    <2>3. high = [k \in 0 .. L |-> IF k = 0 THEN 0 ELSE (c[L - k + 1] % B) + B * high[k - 1]]
      BY <1>4, <1>7, <2>2, Zenon
    <2>4. QED
      BY <2>3, Zenon DEF Digits, L, B
  <1>9. high[L] = n
    BY <1>8, DigitsEncode DEF c, L
  <1>10. QED
    BY <1>1, <1>4, <1>9

\* hash codes are numbers.
LEMMA HashCodeIs ==
  ASSUME NEW v \in Text
  PROVE  HashCode(v) \in Nat
  <1> DEFINE L == Len(v)
             R == Nat
             S == [n \in 0 .. L |-> R]
             Code(x, n) == (2 * x + v[n]) % HashCodes
             step == [n \in 1 .. L |-> [x \in R |-> Code(x, n)]]
             h[n \in 0 .. L] == IF n = 0 THEN 31 ELSE (2 * h[n - 1] + v[n]) % HashCodes
  <1>1. L \in Nat /\ HashCodes \in Nat /\ HashCodes > 0
    BY ValuesAssumption DEF Text
  <1>2. HashCode(v) = h[L] % HashCodes
    BY DEF HashCode
  <1>3. ASSUME NEW n \in 1 .. L, NEW x \in R PROVE Code(x, n) \in R
    <2>1. 2 * x + v[n] \in Nat
      BY DEF Text
    <2>2. QED
      BY <1>1, <2>1, Division
  <1>4. S[0] = R /\ \A n \in 1 .. L : S[n] = R /\ S[n - 1] = R
    BY <1>1
  <1>5. \A n \in 1 .. L : \A x \in R : step[n][x] = Code(x, n)
    OBVIOUS
  <1>6. 31 \in R
    OBVIOUS
  <1> HIDE DEF S, step, L, R
  <1>7. PICK g : Recursive(g, L, 31, step) /\ \A n \in 0 .. L : g[n] \in S[n]
    <2> HIDE DEF Code
    <2>1. \A n \in 1 .. L : \A x \in S[n - 1] : step[n][x] \in S[n]
      BY <1>3, <1>4, <1>5
    <2>2. 31 \in S[0]
      BY <1>4, <1>6
    <2>3. QED
      BY <1>1, <2>1, <2>2, Recursion
  <1>8. g = [n \in 0 .. L |-> IF n = 0 THEN 31 ELSE Code(g[n - 1], n)]
    <2> HIDE DEF Code
    <2>1. \A n \in 0 .. L : n # 0 => n \in 1 .. L /\ n - 1 \in 0 .. L
      BY <1>1
    <2>2. \A n \in 0 .. L : n # 0 => step[n][g[n - 1]] = Code(g[n - 1], n)
      BY <1>4, <1>5, <1>7, <2>1
    <2>3. QED
      BY <1>7, <2>2, Zenon DEF Recursive
  <1>9. h = [n \in 0 .. L |-> IF n = 0 THEN 31 ELSE Code(h[n - 1], n)]
    BY <1>8, Zenon
  <1> HIDE DEF h, Code
  <1> DEFINE T == {n \in 0 .. L : h[n] \in R}
  <1>10. 0 \in T
    BY <1>1, <1>6, <1>9
  <1>11. ASSUME NEW n \in 1 .. L, n - 1 \in T PROVE n \in T
    BY <1>1, <1>3, <1>9, <1>11
  <1>12. L \in T
    <2>1. L \in 0 .. L
      BY <1>1
    <2> HIDE DEF T
    <2>2. QED
      BY <1>1, <1>10, <1>11, <2>1, Induction
  <1>13. h[L] \in Nat
    BY <1>12 DEF R
  <1>14. QED
    BY <1>1, <1>2, <1>13, Division

-----------------------------------------------------------------------------
\* The memory

LEMMA Quotient ==
  ASSUME NEW c \in Nat, NEW d \in Nat, d > 0, NEW k \in Nat
  PROVE  /\ c < k * d => c \div d < k
         /\ k * d <= c => k <= c \div d
         /\ (c \div d) * d <= c /\ c < ((c \div d) + 1) * d
  <1> DEFINE q == c \div d
             r == c % d
  <1>1. q \in Nat /\ r \in Nat /\ r < d /\ c = q * d + r
    BY Division
  <1> HIDE DEF q, r
  <1>2. (q + 1) * d = q * d + d /\ q * d \in Nat /\ k * d \in Nat
    BY <1>1, Z3
  <1>3. ASSUME NEW a \in Nat, NEW b \in Nat, a <= b PROVE a * d <= b * d
    <2>1. PICK e \in Nat : b = a + e
      <3>1. b - a \in Nat /\ b = a + (b - a)
        BY <1>3
      <3>2. QED
        BY <3>1
    <2>2. b * d = a * d + e * d /\ a * d \in Nat /\ e * d \in Nat
      BY <2>1, Z3
    <2>3. QED
      BY <2>2
  <1>4. ASSUME c < k * d PROVE q < k
    <2>1. SUFFICES ASSUME k <= q PROVE FALSE
      BY <1>1
    <2>2. k * d <= q * d
      BY <1>1, <1>3, <2>1
    <2>3. QED
      BY <1>1, <1>2, <1>4, <2>2
  <1>5. ASSUME k * d <= c PROVE k <= q
    <2>1. SUFFICES ASSUME q + 1 <= k PROVE FALSE
      BY <1>1
    <2>2. q + 1 \in Nat
      BY <1>1
    <2>3. (q + 1) * d <= k * d
      BY <1>3, <2>1, <2>2
    <2>4. QED
      BY <1>1, <1>2, <1>5, <2>3
  <1>6. q * d <= c /\ c < (q + 1) * d
    BY <1>1, <1>2
  <1>7. QED
    BY <1>4, <1>5, <1>6 DEF q

\* Offsets, chunks and offsets in chunks.
LEMMA Offsets ==
  ASSUME NEW o \in Nat
  PROVE  /\ M!ChunkOf(o) \in Nat /\ M!ChunkOf(o) >= 1
         /\ M!OffsetIn(o) \in 0 .. chunk_size_ - 1
         /\ (M!ChunkOf(o) - 1) * chunk_size_ + M!OffsetIn(o) = o
         /\ (M!ChunkOf(o) - 1) * chunk_size_ <= o /\ o < M!ChunkOf(o) * chunk_size_
         /\ \A k \in Nat : o < k * chunk_size_ => M!ChunkOf(o) <= k
  <1> DEFINE q == o \div chunk_size_
             r == o % chunk_size_
  <1>1. chunk_size_ \in Nat /\ chunk_size_ > 0
    BY ValuesAssumption
  <1>2. q \in Nat /\ r \in Nat /\ r < chunk_size_ /\ o = q * chunk_size_ + r
    BY <1>1, Division
  <1>3. q * chunk_size_ <= o /\ o < (q + 1) * chunk_size_
    BY <1>1, Quotient
  <1>4. \A k \in Nat : o < k * chunk_size_ => q < k
    BY <1>1, Quotient
  <1>5. M!ChunkOf(o) = q + 1 /\ M!OffsetIn(o) = r
    BY DEF M!ChunkOf, M!OffsetIn
  <1> HIDE DEF q, r
  <1>6. (q + 1) - 1 = q
    BY <1>2
  <1>7. QED
    BY <1>1, <1>2, <1>3, <1>4, <1>5, <1>6

LEMMA MaxOf ==
  ASSUME NEW S \in SUBSET Nat, NEW n \in S, \A x \in S : x <= n
  PROVE  Max(S) = n /\ M!Max(S) = n
  <1> DEFINE top(x) == \A y \in S : x >= y
  <1>1. top(n) /\ \A x \in S : top(x) => x = n
    <2>1. \A x \in S : x \in Nat
      OBVIOUS
    <2>2. QED
      BY <2>1
  <1> HIDE DEF top
  <1>2. (CHOOSE x \in S : top(x)) = n
    BY <1>1
  <1>3. QED
    BY <1>2 DEF Max, M!Max, top

LEMMA MapParts ==
  ASSUME NEW m, MapInv(m)
  PROVE  /\ m.chunks \in Seq(ByteChunk) /\ Len(m.chunks) \in Nat /\ m.tail \in Nat
         /\ m.tail <= Len(m.chunks) * chunk_size_
         /\ Len(m.chunks) # 0 => (Len(m.chunks) - 1) * chunk_size_ < m.tail
         /\ ~m.persisted /\ m.persisted \in {FALSE}
         /\ m = [chunks |-> m.chunks, tail |-> m.tail, persisted |-> m.persisted]
  <1>1. /\ m \in [chunks : Seq(ByteChunk), tail : Nat, persisted : {FALSE}]
        /\ m.tail <= Len(m.chunks) * chunk_size_
        /\ m.chunks # <<>> => (Len(m.chunks) - 1) * chunk_size_ < m.tail
    BY DEF MapInv
  <1>2. m.chunks \in Seq(ByteChunk) /\ m.tail \in Nat /\ m.persisted \in {FALSE}
    BY <1>1
  <1>3. ~m.persisted
    BY <1>2
  <1>4. m = [chunks |-> m.chunks, tail |-> m.tail, persisted |-> m.persisted]
    BY <1>1
  <1>5. Len(m.chunks) \in Nat /\ (Len(m.chunks) # 0 => m.chunks # <<>>)
    BY <1>2
  <1>6. QED
    BY <1>1, <1>2, <1>3, <1>4, <1>5

\* A chunk that is there is not mapped again.
LEMMA GetChunkThere ==
  ASSUME NEW m, MapInv(m), NEW n \in Nat, n <= Len(m.chunks)
  PROVE  M!GetChunk(m, n) = m
  <1>1. m.chunks \in Seq(ByteChunk) /\ Len(m.chunks) \in Nat
    BY MapParts
  <1>2. M!Max({n, Len(m.chunks)}) = Len(m.chunks)
    <2> DEFINE S == {n, Len(m.chunks)}
    <2>1. S \in SUBSET Nat /\ Len(m.chunks) \in S /\ \A x \in S : x <= Len(m.chunks)
      BY <1>1
    <2> HIDE DEF S
    <2>2. M!Max(S) = Len(m.chunks)
      BY <2>1, MaxOf
    <2>3. QED
      BY <2>2 DEF S
  <1>3. [i \in 1 .. Len(m.chunks) |->
           IF i <= Len(m.chunks) THEN m.chunks[i] ELSE M!EmptyChunk] = m.chunks
    BY <1>1
  <1>4. M!GetChunk(m, n) = [m EXCEPT !.chunks = m.chunks]
    BY <1>2, <1>3 DEF M!GetChunk
  <1>5. [m EXCEPT !.chunks = m.chunks] = m
    <2>1. m \in [chunks : Seq(ByteChunk), tail : Nat, persisted : {FALSE}]
      BY DEF MapInv
    <2>2. QED
      BY <2>1, Zenon
  <1>6. QED
    BY <1>4, <1>5

LEMMA InContent ==
  ASSUME NEW m, MapInv(m)
  PROVE  /\ Content(m) \in Text /\ Len(Content(m)) = m.tail
         /\ \A o \in 0 .. m.tail - 1 : /\ M!ByteAt(m, o) \in Nat
                                       /\ Content(m)[o + 1] = M!ByteAt(m, o)
                                       /\ M!ChunkOf(o) <= Len(m.chunks)
  <1>1. /\ m.chunks \in Seq(ByteChunk) /\ Len(m.chunks) \in Nat /\ m.tail \in Nat
        /\ m.tail <= Len(m.chunks) * chunk_size_
    BY MapParts
  <1>2. chunk_size_ \in Nat /\ Len(m.chunks) * chunk_size_ \in Nat
    <2>1. chunk_size_ \in Nat
      BY ValuesAssumption
    <2>2. QED
      BY <1>1, <2>1, Z3
  <1>3. ASSUME NEW o \in 0 .. m.tail - 1
        PROVE  M!ByteAt(m, o) \in Nat /\ M!ChunkOf(o) <= Len(m.chunks)
    <2>1. o \in Nat /\ o < Len(m.chunks) * chunk_size_
      BY <1>1, <1>2
    <2>2. M!ChunkOf(o) \in 1 .. Len(m.chunks) /\ M!OffsetIn(o) \in 0 .. chunk_size_ - 1
      BY <1>1, <2>1, Offsets
    <2>3. m.chunks[M!ChunkOf(o)] \in ByteChunk
      BY <1>1, <2>2
    <2>4. m.chunks[M!ChunkOf(o)][M!OffsetIn(o)] \in Nat
      BY <2>2, <2>3 DEF ByteChunk
    <2>5. QED
      BY <1>1, <2>2, <2>4 DEF M!ByteAt
  <1>4. \A i \in 1 .. m.tail : i - 1 \in 0 .. m.tail - 1
    BY <1>1
  <1>5. Content(m) \in Seq(Nat) /\ Len(Content(m)) = m.tail
    BY <1>1, <1>3, <1>4 DEF Content
  <1>6. \A o \in 0 .. m.tail - 1 : Content(m)[o + 1] = M!ByteAt(m, o)
    BY <1>1 DEF Content
  <1>7. QED
    BY <1>3, <1>5, <1>6 DEF Text

\* What is appended comes behind what was appended before.
LEMMA AppendKeeps ==
  ASSUME NEW m, MapInv(m), NEW bytes \in Text
  PROVE  LET u == M!AppendBytes(m, bytes)
         IN  MapInv(u) /\ u.tail = m.tail + Len(bytes) /\ Content(u) = Content(m) \o bytes
  <1> DEFINE u == M!AppendBytes(m, bytes)
             cs == chunk_size_
             L == Len(m.chunks)
             end == m.tail + Len(bytes)
             N == M!ChunkOf(end - 1)
             mapped == M!GetChunk(m, N).chunks
             Byte(n, o) == IF o \in m.tail .. end - 1 THEN bytes[o - m.tail + 1]
                           ELSE mapped[n][M!OffsetIn(o)]
             chunks == [n \in DOMAIN mapped |-> [o \in 0 .. cs - 1 |-> Byte(n, (n - 1) * cs + o)]]
             Kept(w) == MapInv(w) /\ w.tail = m.tail + Len(bytes) /\ Content(w) = Content(m) \o bytes
  <1>1. /\ m.chunks \in Seq(ByteChunk) /\ L \in Nat /\ m.tail \in Nat /\ m.tail <= L * cs
        /\ L # 0 => (L - 1) * cs < m.tail
        /\ ~m.persisted
        /\ m = [chunks |-> m.chunks, tail |-> m.tail, persisted |-> m.persisted]
    BY MapParts
  <1>2. cs \in Nat /\ cs > 0
    BY ValuesAssumption
  <1>3. Len(bytes) \in Nat /\ \A i \in 1 .. Len(bytes) : bytes[i] \in Nat
    BY DEF Text
  <1>4. Content(m) \in Text /\ Len(Content(m)) = m.tail
        /\ \A o \in 0 .. m.tail - 1 : /\ Content(m)[o + 1] = M!ByteAt(m, o)
                                      /\ M!ChunkOf(o) <= L
    BY InContent
  <1>5. CASE bytes = <<>>
    <2>1. u = m /\ Len(bytes) = 0
      BY <1>5 DEF M!AppendBytes
    <2>2. Content(m) \o bytes = Content(m)
      BY <1>4, <1>5 DEF Text
    <2> HIDE DEF u
    <2>3. QED
      BY <1>1, <2>1, <2>2 DEF u
  <1>6. CASE bytes # <<>>
    <2>1. end \in Nat /\ end >= 1 /\ Len(bytes) >= 1 /\ end - 1 \in Nat
      BY <1>1, <1>3, <1>6 DEF Text
    <2>2. N \in Nat /\ N >= 1 /\ (N - 1) * cs <= end - 1 /\ end - 1 < N * cs
      BY <2>1, Offsets
    <2>3. L <= N
      <3>1. CASE L = 0
        BY <2>2, <3>1
      <3>2. CASE L # 0
        <4>1. L - 1 \in Nat /\ (L - 1) * cs <= end - 1
          <5>1. L - 1 \in Nat
            BY <1>1, <3>2
          <5>2. (L - 1) * cs \in Nat
            BY <1>2, <5>1, Z3
          <5>3. QED
            BY <1>1, <1>3, <2>1, <3>2, <5>1, <5>2
        <4> HIDE DEF L, end, cs
        <4>2. L - 1 <= (end - 1) \div cs
          BY <1>2, <2>1, <4>1, Quotient
        <4>3. N = ((end - 1) \div cs) + 1 /\ (end - 1) \div cs \in Nat
          BY <1>2, <2>1, Division DEF M!ChunkOf, cs
        <4> HIDE DEF N
        <4>4. QED
          BY <1>1, <2>2, <4>2, <4>3
      <3>3. QED
        BY <3>1, <3>2
    <2>4. mapped = [i \in 1 .. N |-> IF i <= L THEN m.chunks[i] ELSE M!EmptyChunk]
      <3> DEFINE S == {N, L}
      <3>1. S \in SUBSET Nat /\ N \in S /\ \A x \in S : x <= N
        BY <1>1, <2>2, <2>3
      <3> HIDE DEF S
      <3>2. M!Max(S) = N
        BY <3>1, MaxOf
      <3>3. M!Max({N, Len(m.chunks)}) = N
        BY <3>2 DEF S
      <3> HIDE DEF N
      <3>4. QED
        BY <1>1, <3>3 DEF M!GetChunk
    <2>5. u = [m EXCEPT !.tail = end, !.chunks = chunks]
      BY <1>6 DEF M!AppendBytes
    <2>6. u = [chunks |-> chunks, tail |-> end, persisted |-> m.persisted]
      <3> HIDE DEF u, chunks, end
      <3>1. u = [[m EXCEPT !.tail = end] EXCEPT !.chunks = chunks]
        BY <2>5
      <3> DEFINE w == [m EXCEPT !.tail = end]
      <3>2. w = [chunks |-> m.chunks, tail |-> end, persisted |-> m.persisted]
        BY <1>1
      <3> HIDE DEF w
      <3>3. [w EXCEPT !.chunks = chunks] = [chunks |-> chunks, tail |-> end, persisted |-> m.persisted]
        BY <3>2
      <3>4. QED
        BY <3>1, <3>3 DEF w
    <2> HIDE DEF N, mapped, L
    <2>7. \A n \in 1 .. N : mapped[n] \in ByteChunk /\ (n <= L => mapped[n] = m.chunks[n])
      <3>1. M!EmptyChunk \in ByteChunk
        BY DEF M!EmptyChunk, ByteChunk
      <3>2. ASSUME NEW n \in 1 .. N, n <= L PROVE m.chunks[n] \in ByteChunk
        <4>1. n \in 1 .. Len(m.chunks)
          BY <1>1, <3>2 DEF L
        <4>2. QED
          BY <1>1, <4>1
      <3>3. QED
        BY <2>4, <3>1, <3>2
    <2>8. DOMAIN mapped = 1 .. N
      BY <2>4
    <2>9. ASSUME NEW n \in 1 .. N, NEW o \in 0 .. cs - 1
          PROVE  Byte(n, (n - 1) * cs + o) \in Nat
      <3> DEFINE p == (n - 1) * cs + o
      <3>1. p \in Nat
        <4>1. n - 1 \in Nat
          BY <2>2
        <4>2. (n - 1) * cs \in Nat
          BY <1>2, <4>1, Z3
        <4>3. QED
          BY <1>2, <4>2
      <3> HIDE DEF p
      <3>2. M!OffsetIn(p) \in 0 .. cs - 1
        BY <3>1, Offsets
      <3>3. mapped[n][M!OffsetIn(p)] \in Nat
        BY <2>7, <3>2 DEF ByteChunk
      <3>4. p \in m.tail .. end - 1 => p - m.tail + 1 \in 1 .. Len(bytes)
        BY <1>1, <1>3, <3>1
      <3>5. Byte(n, p) \in Nat
        BY <1>3, <3>3, <3>4
      <3>6. QED
        BY <3>5 DEF p
    <2> HIDE DEF Byte
    <2>10. chunks = [n \in 1 .. N |-> [o \in 0 .. cs - 1 |-> Byte(n, (n - 1) * cs + o)]]
      BY <2>8
    <2>11. chunks \in Seq(ByteChunk) /\ Len(chunks) = N
      <3>1. \A n \in 1 .. N : [o \in 0 .. cs - 1 |-> Byte(n, (n - 1) * cs + o)] \in ByteChunk
        BY <2>9 DEF ByteChunk
      <3>2. chunks \in [1 .. N -> ByteChunk]
        BY <2>10, <3>1
      <3> HIDE DEF chunks
      <3>3. QED
        BY <2>2, <3>2
    <2>12. \A n \in 1 .. N, o \in 0 .. cs - 1 : chunks[n][o] = Byte(n, (n - 1) * cs + o)
      BY <2>10
    <2> HIDE DEF chunks
    <2>13. u.chunks = chunks /\ u.tail = end /\ u.persisted = m.persisted
      BY <2>6
    <2>14. MapInv(u)
      <3>1. u \in [chunks : Seq(ByteChunk), tail : Nat, persisted : {FALSE}]
        <4>1. PICK p \in {FALSE} : p = m.persisted
          BY MapParts
        <4>2. u = [chunks |-> chunks, tail |-> end, persisted |-> p]
          BY <2>6, <4>1, Zenon
        <4> HIDE DEF u, end
        <4>3. QED
          BY <2>1, <2>11, <4>2
      <3>2. N * cs \in Nat /\ (N - 1) * cs \in Int
        BY <1>2, <2>2, Z3
      <3>3. end <= N * cs /\ (N - 1) * cs < end
        BY <2>1, <2>2, <3>2
      <3>4. QED
        BY <2>11, <2>13, <3>1, <3>3 DEF MapInv
    <2>15. ASSUME NEW o \in 0 .. end - 1
           PROVE  M!ByteAt(u, o) = IF o < m.tail THEN M!ByteAt(m, o) ELSE bytes[o - m.tail + 1]
      <3> DEFINE n == M!ChunkOf(o)
                 i == M!OffsetIn(o)
      <3>1. o \in Nat /\ o < N * cs
        <4>1. N * cs \in Nat
          BY <1>2, <2>2, Z3
        <4>2. QED
          BY <2>1, <2>2, <4>1
      <3>2. n \in 1 .. N /\ i \in 0 .. cs - 1 /\ (n - 1) * cs + i = o
        BY <2>2, <3>1, Offsets
      <3>3. M!ByteAt(u, o) = chunks[n][i]
        BY <2>13 DEF M!ByteAt
      <3>4. chunks[n][i] = Byte(n, o)
        BY <2>12, <3>2
      <3>5. CASE o < m.tail
        <4>1. Byte(n, o) = mapped[n][i]
          BY <1>1, <3>1, <3>5 DEF Byte
        <4>2. n <= L
          BY <1>1, <1>4, <3>1, <3>5 DEF L
        <4>3. mapped[n] = m.chunks[n]
          BY <2>7, <3>2, <4>2
        <4>4. M!ByteAt(m, o) = m.chunks[n][i]
          BY DEF M!ByteAt
        <4>5. QED
          BY <3>3, <3>4, <3>5, <4>1, <4>3, <4>4
      <3>6. CASE ~(o < m.tail)
        <4>1. Byte(n, o) = bytes[o - m.tail + 1]
          BY <1>1, <2>1, <3>1, <3>6 DEF Byte
        <4>2. QED
          BY <3>3, <3>4, <3>6, <4>1
      <3>7. QED
        BY <3>5, <3>6
    <2>16. Content(u) = Content(m) \o bytes
      <3> DEFINE a == Content(u)
                 b == Content(m) \o bytes
      <3>1. a \in Text /\ Len(a) = end /\ \A o \in 0 .. end - 1 : a[o + 1] = M!ByteAt(u, o)
        BY <2>13, <2>14, InContent
      <3>2. b \in Text /\ Len(b) = end
            /\ (\A i \in 1 .. m.tail : b[i] = Content(m)[i])
            /\ (\A i \in m.tail + 1 .. end : b[i] = bytes[i - m.tail])
        <4>1. PICK c \in Text : c = Content(m) /\ Len(c) = m.tail
          BY <1>4
        <4> DEFINE d == c \o bytes
        <4>2. d \in Text /\ Len(d) = Len(c) + Len(bytes)
              /\ (\A i \in 1 .. Len(c) : d[i] = c[i])
              /\ (\A i \in Len(c) + 1 .. Len(c) + Len(bytes) : d[i] = bytes[i - Len(c)])
          BY <4>1 DEF Text
        <4> HIDE DEF d
        <4>3. b = d
          BY <4>1 DEF d
        <4>4. QED
          BY <4>1, <4>2, <4>3
      <3> HIDE DEF a, b
      <3>3. ASSUME NEW i \in 1 .. Len(a) PROVE a[i] = b[i]
        <4> DEFINE o == i - 1
        <4>1. o \in 0 .. end - 1 /\ i = o + 1 /\ i \in Nat
          BY <2>1, <3>1
        <4>2. a[i] = M!ByteAt(u, o)
          BY <3>1, <4>1
        <4>3. CASE o < m.tail
          <5>1. o \in 0 .. m.tail - 1 /\ i \in 1 .. m.tail
            BY <1>1, <4>1, <4>3
          <5>2. b[i] = M!ByteAt(m, o)
            BY <1>4, <3>2, <4>1, <5>1
          <5>3. QED
            BY <2>15, <4>1, <4>2, <4>3, <5>2
        <4>4. CASE ~(o < m.tail)
          <5>1. i \in m.tail + 1 .. end /\ i - m.tail = o - m.tail + 1
            BY <1>1, <2>1, <4>1, <4>4
          <5>2. QED
            BY <2>15, <3>2, <4>1, <4>2, <4>4, <5>1
        <4>5. QED
          BY <4>3, <4>4
      <3>4. a = b
        BY <3>1, <3>2, <3>3, SameText
      <3>5. QED
        BY <3>4 DEF a, b
    <2>17. Kept(u)
      BY <2>13, <2>14, <2>16
    <2>18. QED
      BY <2>17
  <1>7. QED
    BY <1>5, <1>6

\* What is written is what was appended, and the last file has some of it.
LEMMA WriteIs ==
  ASSUME NEW m, MapInv(m)
  PROVE  /\ M!Write(m, m.tail) = Content(m)
         /\ M!Write(M!Persist(m), m.tail) = Content(m)
         /\ m.chunks # <<>> => M!LastChunkSize(m) \in 1 .. chunk_size_
  <1> DEFINE cs == chunk_size_
             L == Len(m.chunks)
             p == M!Persist(m)
  <1>1. /\ m.chunks \in Seq(ByteChunk) /\ L \in Nat /\ m.tail \in Nat /\ m.tail <= L * cs
        /\ L # 0 => (L - 1) * cs < m.tail
        /\ ~m.persisted
        /\ m = [chunks |-> m.chunks, tail |-> m.tail, persisted |-> m.persisted]
    BY MapParts
  <1>2. cs \in Nat /\ cs > 0
    BY ValuesAssumption
  <1>3. (L - 1) * cs = L * cs - cs /\ L * cs \in Nat
    BY <1>1, <1>2, Z3
  <1>4. m.chunks = <<>> => m.tail = 0 /\ Content(m) = <<>>
    <2>1. m.chunks = <<>> => L = 0
      OBVIOUS
    <2>2. L = 0 => L * cs = 0
      BY <1>2
    <2>3. m.chunks = <<>> => m.tail = 0
      BY <1>1, <2>1, <2>2
    <2>4. m.tail = 0 => Content(m) = <<>>
      BY InContent DEF Text
    <2>5. QED
      BY <2>3, <2>4
  <1>5. M!LastChunkSize(m) = m.tail - (L - 1) * cs
    BY DEF M!LastChunkSize
  <1>6. m.chunks # <<>> => M!LastChunkSize(m) \in 1 .. cs
    <2>1. m.chunks # <<>> => L # 0
      BY <1>1
    <2> HIDE DEF L
    <2>2. QED
      BY <1>1, <1>2, <1>3, <1>5, <2>1
  <1>7. M!Write(m, m.tail) = Content(m)
    <2>1. M!Write(m, m.tail) = IF m.chunks = <<>> THEN <<>> ELSE [i \in 1 .. m.tail |-> M!ByteAt(m, i - 1)]
      BY <1>1 DEF M!Write
    <2>2. QED
      BY <1>4, <2>1 DEF Content
  <1>8. p.chunks = m.chunks /\ p.tail = m.tail /\ p.persisted
    BY <1>1 DEF M!Persist
  <1>9. M!Write(p, m.tail) = Content(m)
    <2> HIDE DEF p
    <2>1. \A o : M!ByteAt(p, o) = M!ByteAt(m, o)
      BY <1>8 DEF M!ByteAt
    <2>2. M!LastChunkSize(p) = m.tail - (L - 1) * cs
      BY <1>8 DEF M!LastChunkSize
    <2>3. (L - 1) * cs + M!LastChunkSize(p) = m.tail
      <3>1. L * cs - cs \in Int
        BY <1>2, <1>3
      <3>2. PICK k \in Int : k = (L - 1) * cs
        BY <1>3, <3>1
      <3>3. M!LastChunkSize(p) = m.tail - k
        BY <2>2, <3>2
      <3>4. k + M!LastChunkSize(p) = m.tail
        BY <1>1, <3>3
      <3>5. QED
        BY <3>2, <3>4
    <2>4. M!Write(p, m.tail) = IF m.chunks = <<>> THEN <<>>
                               ELSE [i \in 1 .. m.tail |-> M!ByteAt(p, i - 1)]
      <3>1. p.chunks # <<>> => (Len(p.chunks) - 1) * cs + M!LastChunkSize(p) = m.tail
        BY <1>8, <2>3
      <3>2. QED
        BY <1>8, <3>1 DEF M!Write
    <2>5. QED
      BY <1>4, <2>1, <2>4 DEF Content
  <1>10. QED
    BY <1>6, <1>7, <1>9

-----------------------------------------------------------------------------
\* Values, as they are stored

LEMMA StorableIs ==
  ASSUME NEW v, Storable(v)
  PROVE  /\ v \in Text /\ Len(v) \in Nat /\ Len(v) <= chunk_size_
         /\ kind # "string" => getVarIntLength(Len(v)) <= PROBE
  BY ValuesAssumption DEF Storable, Text

LEMMA PrefixIs ==
  ASSUME NEW v \in Text
  PROVE  /\ encodeVarInt[Len(v)] \in Text /\ getVarIntLength(Len(v)) = Len(encodeVarInt[Len(v)])
         /\ getVarIntLength(Len(v)) \in Nat /\ getVarIntLength(Len(v)) >= 1
         /\ Prefixed(v) \in Text /\ Len(Prefixed(v)) = getVarIntLength(Len(v)) + Len(v)
         /\ \A i \in 1 .. getVarIntLength(Len(v)) : Prefixed(v)[i] = encodeVarInt[Len(v)][i]
         /\ \A i \in 1 .. Len(v) : Prefixed(v)[getVarIntLength(Len(v)) + i] = v[i]
  <1>1. Len(v) \in Nat
    BY DEF Text
  <1>2. PICK c \in Text : c = encodeVarInt[Len(v)] /\ Len(c) >= 1
    BY <1>1, EncodeWord DEF CodeWord
  <1>3. getVarIntLength(Len(v)) = Len(c) /\ Len(c) \in Nat
    BY <1>2 DEF getVarIntLength, Text
  <1> DEFINE w == c \o v
  <1>4. /\ w \in Text /\ Len(w) = Len(c) + Len(v)
        /\ \A i \in 1 .. Len(c) : w[i] = c[i]
        /\ \A i \in Len(c) + 1 .. Len(c) + Len(v) : w[i] = v[i - Len(c)]
    BY DEF Text
  <1> HIDE DEF w
  <1>5. Prefixed(v) = w
    BY <1>2 DEF Prefixed, w
  <1>6. \A i \in 1 .. Len(v) : w[Len(c) + i] = v[i]
    <2>1. TAKE i \in 1 .. Len(v)
    <2>2. Len(c) + i \in Len(c) + 1 .. Len(c) + Len(v) /\ (Len(c) + i) - Len(c) = i
      BY <1>1, <1>3
    <2>3. QED
      BY <1>4, <2>2
  <1>7. QED
    BY <1>2, <1>3, <1>4, <1>5, <1>6

LEMMA TerminatedIs ==
  ASSUME NEW v \in Text
  PROVE  /\ Terminated(v) \in Text /\ Len(Terminated(v)) = Len(v) + 1
         /\ Terminated(v)[Len(v) + 1] = 0 /\ \A i \in 1 .. Len(v) : Terminated(v)[i] = v[i]
  BY DEF Text, Terminated

LEMMA StoredIs ==
  ASSUME NEW v \in Text
  PROVE  /\ Stored(v) \in Text /\ Len(Stored(v)) \in Nat
         /\ kind = "string" => Stored(v) = Terminated(v)
         /\ kind # "string" => Stored(v) = Prefixed(v)
  <1>1. Stored(v) \in Text /\ (kind = "string" => Stored(v) = Terminated(v))
         /\ (kind # "string" => Stored(v) = Prefixed(v))
    BY PrefixIs, TerminatedIs DEF Stored
  <1>2. QED
    BY <1>1 DEF Text

\* What was placed is still there when more comes behind it.
LEMMA PlacedStays ==
  ASSUME NEW a \in Text, NEW b \in Text, NEW w \in Text, NEW pt, Placed(a, pt, w)
  PROVE  Placed(a \o b, pt, w)
  <1>1. Len(a) \in Nat /\ Len(b) \in Nat /\ Len(w) \in Nat /\ Len(a \o b) = Len(a) + Len(b)
        /\ \A i \in 1 .. Len(a) : (a \o b)[i] = a[i]
    BY DEF Text
  <1>2. pt \in Nat /\ pt + Len(w) <= Len(a) /\ \A i \in 1 .. Len(w) : a[pt + i] = w[i]
    BY DEF Placed
  <1>3. \A i \in 1 .. Len(w) : pt + i \in 1 .. Len(a)
    BY <1>1, <1>2
  <1>4. QED
    BY <1>1, <1>2, <1>3 DEF Placed

\* What comes behind bytes is placed at their end, and what was placed in it is
\* that much further behind.
LEMMA PlacedBehind ==
  ASSUME NEW a \in Text, NEW b \in Text, NEW w \in Text, NEW pt, Placed(b, pt, w)
  PROVE  Placed(a \o b, Len(a) + pt, w)
  <1>1. Len(a) \in Nat /\ Len(b) \in Nat /\ Len(w) \in Nat /\ Len(a \o b) = Len(a) + Len(b)
        /\ \A i \in Len(a) + 1 .. Len(a) + Len(b) : (a \o b)[i] = b[i - Len(a)]
    BY DEF Text
  <1>2. pt \in Nat /\ pt + Len(w) <= Len(b) /\ \A i \in 1 .. Len(w) : b[pt + i] = w[i]
    BY DEF Placed
  <1>3. ASSUME NEW i \in 1 .. Len(w) PROVE (a \o b)[(Len(a) + pt) + i] = w[i]
    <2>1. (Len(a) + pt) + i \in Len(a) + 1 .. Len(a) + Len(b)
          /\ ((Len(a) + pt) + i) - Len(a) = pt + i
      BY <1>1, <1>2
    <2>2. QED
      BY <1>1, <1>2, <2>1
  <1>4. Len(a) + pt \in Nat /\ (Len(a) + pt) + Len(w) <= Len(a \o b)
    BY <1>1, <1>2
  <1>5. QED
    BY <1>3, <1>4 DEF Placed

LEMMA PlacedWhole ==
  ASSUME NEW b \in Text
  PROVE  Placed(b, 0, b)
  BY DEF Placed, Text

-----------------------------------------------------------------------------
\* Reading

LEMMA SubText ==
  ASSUME NEW s \in Text, NEW w \in Text, NEW m \in Nat, m + Len(w) <= Len(s),
         \A i \in 1 .. Len(w) : s[m + i] = w[i]
  PROVE  SubSeq(s, m + 1, m + Len(w)) = w
  <1> DEFINE x == SubSeq(s, m + 1, m + Len(w))
  <1>1. Len(s) \in Nat /\ Len(w) \in Nat
    BY DEF Text
  <1>2. x = [i \in 1 .. Len(w) |-> s[i + m]]
    BY <1>1 DEF Text
  <1>3. \A i \in 1 .. Len(w) : s[i + m] = w[i]
    <2>1. \A i \in 1 .. Len(w) : i + m = m + i
      BY <1>1
    <2>2. QED
      BY <2>1
  <1>4. w = [i \in 1 .. Len(w) |-> w[i]]
    BY DEF Text
  <1>5. QED
    BY <1>2, <1>3, <1>4, Zenon

\* the rest of s behind m
LEMMA RestText ==
  ASSUME NEW s \in Text, NEW m \in Nat, m <= Len(s)
  PROVE  /\ SubSeq(s, m + 1, Len(s)) \in Text /\ Len(SubSeq(s, m + 1, Len(s))) = Len(s) - m
         /\ \A i \in 1 .. Len(s) - m : SubSeq(s, m + 1, Len(s))[i] = s[m + i]
  <1>1. Len(s) \in Nat
    BY DEF Text
  <1>2. Len(s) = m + (Len(s) - m) /\ Len(s) - m \in Nat
    BY <1>1
  <1> DEFINE w == [i \in 1 .. Len(s) - m |-> s[m + i]]
  <1>3. w \in Text /\ Len(w) = Len(s) - m /\ \A i \in 1 .. Len(w) : s[m + i] = w[i]
    <2>1. \A i \in 1 .. Len(s) - m : m + i \in 1 .. Len(s)
      BY <1>1
    <2>2. \A i \in 1 .. Len(s) - m : s[m + i] \in Nat
      BY <2>1 DEF Text
    <2>3. QED
      BY <1>2, <2>2 DEF Text
  <1> HIDE DEF w
  <1>4. SubSeq(s, m + 1, m + Len(w)) = w
    BY <1>1, <1>2, <1>3, SubText
  <1>5. m + Len(w) = Len(s)
    BY <1>1, <1>3
  <1>6. QED
    BY <1>3, <1>4, <1>5

LEMMA MinOf ==
  ASSUME NEW S \in SUBSET Nat, NEW n \in S, \A x \in S : n <= x
  PROVE  Min(S) = n
  <1> DEFINE low(x) == \A y \in S : x <= y
  <1>1. low(n) /\ \A x \in S : low(x) => x = n
    <2>1. \A x \in S : x \in Nat
      OBVIOUS
    <2>2. QED
      BY <2>1
  <1> HIDE DEF low
  <1>2. (CHOOSE x \in S : low(x)) = n
    BY <1>1
  <1>3. QED
    BY <1>2 DEF Min, low

LEMMA StringReads ==
  ASSUME NEW bytes \in Text, NEW pt, NEW v \in Text, \A i \in 1 .. Len(v) : v[i] # 0,
         Placed(bytes, pt, Terminated(v))
  PROVE  CString(bytes, pt) = v
  <1> DEFINE ends == {i \in pt + 1 .. Len(bytes) : bytes[i] = 0}
             n == pt + Len(v) + 1
  <1>1. /\ pt \in Nat /\ n <= Len(bytes) /\ bytes[n] = 0 /\ Len(bytes) \in Nat /\ Len(v) \in Nat
        /\ \A i \in 1 .. Len(v) : bytes[pt + i] = v[i]
    <2>1. /\ Len(Terminated(v)) = Len(v) + 1 /\ Terminated(v)[Len(v) + 1] = 0
          /\ \A i \in 1 .. Len(v) : Terminated(v)[i] = v[i]
      BY TerminatedIs
    <2>2. Len(bytes) \in Nat /\ Len(v) \in Nat
      BY DEF Text
    <2>3. pt \in Nat /\ pt + (Len(v) + 1) <= Len(bytes)
          /\ \A i \in 1 .. Len(v) + 1 : bytes[pt + i] = Terminated(v)[i]
      BY <2>1 DEF Placed
    <2>4. bytes[pt + (Len(v) + 1)] = 0 /\ \A i \in 1 .. Len(v) : bytes[pt + i] = v[i]
      BY <2>1, <2>2, <2>3
    <2>5. n = pt + (Len(v) + 1)
      BY <2>2, <2>3
    <2>6. QED
      BY <2>2, <2>3, <2>4, <2>5
  <1>2. Min(ends) = n
    <2>1. n \in ends
      BY <1>1
    <2>2. \A i \in ends : n <= i
      <3>1. TAKE i \in ends
      <3>2. SUFFICES ASSUME i < n PROVE FALSE
        BY <1>1
      <3>3. i - pt \in 1 .. Len(v) /\ pt + (i - pt) = i
        BY <1>1, <3>2
      <3>4. bytes[i] = v[i - pt]
        BY <1>1, <3>3
      <3>5. QED
        BY <3>3, <3>4
    <2>3. ends \in SUBSET Nat
      BY <1>1
    <2> HIDE DEF ends, n
    <2>4. QED
      BY <2>1, <2>2, <2>3, MinOf
  <1>3. CString(bytes, pt) = SubSeq(bytes, pt + 1, Min(ends) - 1)
    BY DEF CString
  <1> HIDE DEF ends
  <1>4. Min(ends) - 1 = pt + Len(v) /\ pt + Len(v) <= Len(bytes)
    BY <1>1, <1>2
  <1>5. QED
    BY <1>1, <1>3, <1>4, SubText

LEMMA PrefixedReads ==
  ASSUME NEW bytes \in Text, NEW pt, NEW v \in Text, Placed(bytes, pt, Prefixed(v))
  PROVE  /\ decodeVarIntString(bytes, pt) = v
         /\ FullBuffer(bytes, pt) = Prefixed(v)
  <1> DEFINE k == getVarIntLength(Len(v))
             rest == SubSeq(bytes, pt + 1, Len(bytes))
             w == Prefixed(v)
             c == encodeVarInt[Len(v)]
  <1>1. /\ c \in Text /\ k = Len(c) /\ k \in Nat /\ k >= 1 /\ w \in Text
        /\ Len(w) = k + Len(v)
        /\ \A i \in 1 .. k : w[i] = c[i]
        /\ \A i \in 1 .. Len(v) : w[k + i] = v[i]
    BY PrefixIs
  <1>2. /\ pt \in Nat /\ pt + Len(w) <= Len(bytes)
        /\ \A i \in 1 .. Len(w) : bytes[pt + i] = w[i]
    BY DEF Placed
  <1>3. Len(bytes) \in Nat /\ Len(v) \in Nat
    BY DEF Text
  <1> HIDE DEF k, w, c
  <1>4. /\ rest \in Text /\ Len(rest) = Len(bytes) - pt
        /\ \A i \in 1 .. Len(bytes) - pt : rest[i] = bytes[pt + i]
    <2>1. pt \in Nat /\ pt <= Len(bytes)
      BY <1>1, <1>2, <1>3
    <2>2. QED
      BY <2>1, RestText
  <1> HIDE DEF rest
  <1>5. decodeVarInt(rest) = Len(v)
    <2>1. Len(c) <= Len(rest)
      BY <1>1, <1>2, <1>3, <1>4
    <2>2. \A i \in 1 .. Len(c) : rest[i] = c[i]
      <3>1. \A i \in 1 .. Len(c) : i \in 1 .. Len(bytes) - pt /\ i \in 1 .. Len(w)
        BY <1>1, <1>2, <1>3
      <3>2. QED
        BY <1>1, <1>2, <1>4, <3>1
    <2>3. QED
      BY <1>3, <1>4, <2>1, <2>2, DecodeEncoded DEF c
  <1>6. decodeVarIntString(bytes, pt) = SubSeq(bytes, (pt + k) + 1, (pt + k) + Len(v))
    BY <1>5 DEF decodeVarIntString, rest, k
  <1>7. pt + k \in Nat /\ (pt + k) + Len(v) <= Len(bytes)
        /\ \A i \in 1 .. Len(v) : bytes[(pt + k) + i] = v[i]
    <2>1. pt + k \in Nat /\ (pt + k) + Len(v) <= Len(bytes)
      BY <1>1, <1>2, <1>3
    <2>2. ASSUME NEW i \in 1 .. Len(v) PROVE bytes[(pt + k) + i] = v[i]
      <3>1. k + i \in 1 .. Len(w) /\ pt + (k + i) = (pt + k) + i
        BY <1>1, <1>2, <1>3
      <3>2. QED
        BY <1>1, <1>2, <3>1
    <2>3. QED
      BY <2>1, <2>2
  <1>8. decodeVarIntString(bytes, pt) = v
    BY <1>6, <1>7, SubText
  <1>9. FullBuffer(bytes, pt) = SubSeq(bytes, pt + 1, pt + k + Len(v))
    BY <1>5 DEF FullBuffer, rest, k
  <1>10. FullBuffer(bytes, pt) = w
    <2>1. pt + k + Len(v) = pt + Len(w)
      BY <1>1, <1>2, <1>3
    <2>2. QED
      BY <1>1, <1>2, <1>9, <2>1, SubText
  <1>11. QED
    BY <1>8, <1>10 DEF w

\* A string is read up to its first 0, wherever it is.
LEMMA CutPlaced ==
  ASSUME NEW w \in Text, NEW u \in Text, Len(u) <= Len(w),
         \A i \in 1 .. Len(u) : u[i] # 0 /\ u[i] = w[i], Terminated(w)[Len(u) + 1] = 0,
         NEW bytes \in Text, NEW pt, Placed(bytes, pt, Terminated(w))
  PROVE  CString(bytes, pt) = u
  <1>1. Len(u) \in Nat /\ Len(w) \in Nat /\ Len(bytes) \in Nat
    BY DEF Text
  <1>2. /\ Len(Terminated(w)) = Len(w) + 1 /\ Len(Terminated(u)) = Len(u) + 1
        /\ Terminated(u)[Len(u) + 1] = 0 /\ \A i \in 1 .. Len(u) : Terminated(u)[i] = u[i]
        /\ \A i \in 1 .. Len(w) : Terminated(w)[i] = w[i]
    BY TerminatedIs
  <1>3. pt \in Nat /\ pt + (Len(w) + 1) <= Len(bytes)
        /\ \A i \in 1 .. Len(w) + 1 : bytes[pt + i] = Terminated(w)[i]
    BY <1>2 DEF Placed
  <1>4. ASSUME NEW i \in 1 .. Len(u) + 1 PROVE bytes[pt + i] = Terminated(u)[i]
    <2>1. bytes[pt + i] = Terminated(w)[i]
      BY <1>1, <1>3
    <2>2. CASE i = Len(u) + 1
      BY <1>2, <2>1, <2>2
    <2>3. CASE i # Len(u) + 1
      <3>1. i \in 1 .. Len(u) /\ i \in 1 .. Len(w)
        BY <1>1, <2>3
      <3>2. QED
        BY <1>2, <2>1, <3>1
    <2>4. QED
      BY <2>2, <2>3
  <1>5. pt + (Len(u) + 1) <= Len(bytes)
    BY <1>1, <1>3
  <1>6. Placed(bytes, pt, Terminated(u))
    BY <1>2, <1>3, <1>4, <1>5 DEF Placed
  <1>7. QED
    BY <1>6, StringReads

LEMMA StringCut ==
  ASSUME NEW w \in Text
  PROVE  \E u \in Text :
           /\ Len(u) <= Len(w) /\ \A i \in 1 .. Len(u) : u[i] # 0 /\ u[i] = w[i]
           /\ Terminated(w)[Len(u) + 1] = 0 /\ UpToZero(w) = u
  <1> DEFINE S == {i \in 1 .. Len(w) + 1 : Terminated(w)[i] = 0}
  <1>1. Len(w) \in Nat /\ \A i \in 1 .. Len(w) : w[i] \in Nat
    BY DEF Text
  <1>2. /\ Terminated(w) \in Text /\ Terminated(w)[Len(w) + 1] = 0
        /\ \A i \in 1 .. Len(w) : Terminated(w)[i] = w[i]
    BY TerminatedIs
  <1>3. Len(w) + 1 \in S /\ S \in SUBSET Nat
    BY <1>1, <1>2
  <1>4. PICK n \in S : \A i \in S : n <= i
    <2> HIDE DEF S
    <2>1. QED
      BY <1>3, LeastNumber
  <1> DEFINE u == [i \in 1 .. n - 1 |-> w[i]]
  <1>5. n \in 1 .. Len(w) + 1 /\ n - 1 \in Nat /\ n - 1 <= Len(w) /\ (n - 1) + 1 = n
    BY <1>1, <1>4
  <1>6. u \in Text /\ Len(u) = n - 1 /\ \A i \in 1 .. n - 1 : u[i] = w[i]
    <2>1. \A i \in 1 .. n - 1 : w[i] \in Nat
      BY <1>1, <1>5
    <2>2. QED
      BY <1>5, <2>1 DEF Text
  <1> HIDE DEF u
  <1>7. ASSUME NEW i \in 1 .. n - 1 PROVE u[i] # 0
    <2>1. i \in 1 .. Len(w) /\ i \in 1 .. Len(w) + 1 /\ ~(n <= i)
      BY <1>1, <1>5
    <2>2. i \notin S
      BY <1>4, <2>1
    <2>3. QED
      BY <1>2, <1>6, <2>1, <2>2
  <1>8. Len(u) <= Len(w) /\ Terminated(w)[Len(u) + 1] = 0
        /\ \A i \in 1 .. Len(u) : u[i] # 0 /\ u[i] = w[i]
    BY <1>4, <1>5, <1>6, <1>7
  <1>9. Placed(Terminated(w), 0, Terminated(w))
    BY <1>2, PlacedWhole
  <1>10. UpToZero(w) = u
    BY <1>2, <1>6, <1>8, <1>9, CutPlaced DEF UpToZero
  <1>11. QED
    BY <1>6, <1>8, <1>10

\* What the pointer of p leads to.
LEMMA LeadsIs ==
  ASSUME NEW bytes, NEW p, Leads(bytes, p), kind # "int"
  PROVE  \E w \in Text :
           /\ Storable(w) /\ Means(p[1], w) /\ Placed(bytes, p[2], Stored(w))
           /\ Stored(w) \in Text /\ Len(w) \in Nat /\ (kind # "string" => w = p[1])
  <1>1. PICK w : Storable(w) /\ Means(p[1], w) /\ Placed(bytes, p[2], Stored(w))
    BY DEF Leads
  <1>2. w \in Text /\ Len(w) \in Nat
    BY <1>1, StorableIs
  <1>3. Stored(w) \in Text
    BY <1>2, StoredIs
  <1>4. kind # "string" => w = p[1]
    BY <1>1 DEF Means
  <1>5. QED
    BY <1>1, <1>2, <1>3, <1>4

LEMMA MayReadIs ==
  ASSUME NEW v \in Text, NEW w \in Text, Means(v, w), kind = "string"
  PROVE  MayRead(v, UpToZero(w))
  <1>1. PICK u \in Text :
          /\ Len(u) <= Len(w) /\ \A i \in 1 .. Len(u) : u[i] # 0 /\ u[i] = w[i]
          /\ Terminated(w)[Len(u) + 1] = 0 /\ UpToZero(w) = u
    BY StringCut
  <1>2. Len(u) \in Nat /\ Len(v) \in Nat /\ Len(w) \in Nat
    BY DEF Text
  <1>3. CASE w = v
    BY <1>3 DEF MayRead
  <1>4. ASSUME Len(v) = MAX_LENGTH, Len(v) <= Len(w), \A i \in 1 .. Len(v) : w[i] = v[i]
        PROVE  MayRead(v, u)
    <2>1. CASE Len(v) <= Len(u)
      <3>1. ASSUME NEW i \in 1 .. Len(v) PROVE u[0 + i] = v[i]
        <4>1. i \in 1 .. Len(u) /\ 0 + i = i
          BY <1>2, <2>1
        <4>2. QED
          BY <1>1, <1>4, <4>1
      <3>2. SubSeq(u, 0 + 1, 0 + Len(v)) = v
        <4> DEFINE n == 0
        <4>1. n \in Nat /\ n + Len(v) <= Len(u) /\ \A i \in 1 .. Len(v) : u[n + i] = v[i]
          BY <1>2, <2>1, <3>1
        <4> HIDE DEF n
        <4>2. SubSeq(u, n + 1, n + Len(v)) = v
          BY <1>1, <4>1, SubText
        <4>3. QED
          BY <4>2 DEF n
      <3>3. SubSeq(v, 0 + 1, 0 + Len(v)) = v
        BY <1>2, SubText
      <3>4. IsPrefix(v, u)
        BY <1>2, <2>1, <3>2, <3>3 DEF IsPrefix
      <3>5. QED
        BY <1>4, <3>4 DEF MayRead
    <2>2. CASE ~(Len(v) <= Len(u))
      <3>1. Len(u) + 1 \in 1 .. Len(v) /\ Len(u) + 1 \in 1 .. Len(w) /\ Len(u) <= Len(v)
        BY <1>2, <1>4, <2>2
      <3>2. /\ Terminated(v)[Len(u) + 1] = v[Len(u) + 1] /\ Terminated(w)[Len(u) + 1] = w[Len(u) + 1]
            /\ Terminated(v) \in Text
        BY <3>1, TerminatedIs
      <3>3. Terminated(v)[Len(u) + 1] = 0
        BY <1>1, <1>4, <3>1, <3>2
      <3>4. \A i \in 1 .. Len(u) : i \in 1 .. Len(v)
        BY <1>2, <3>1
      <3>5. \A i \in 1 .. Len(u) : u[i] # 0 /\ u[i] = v[i]
        BY <1>1, <1>4, <3>4
      <3>6. UpToZero(v) = u
        BY <3>1, <3>2, <3>3, <3>5, CutPlaced, PlacedWhole DEF UpToZero
      <3>7. QED
        BY <3>6 DEF MayRead
    <2>3. QED
      BY <2>1, <2>2
  <1>5. QED
    BY <1>1, <1>3, <1>4 DEF Means

LEMMA StringAt ==
  ASSUME NEW bytes \in Text, NEW pt, NEW w \in Text, Placed(bytes, pt, Terminated(w))
  PROVE  /\ CString(bytes, pt) = UpToZero(w)
         /\ UpToZero(w) \in Text /\ Len(UpToZero(w)) <= Len(w)
  BY StringCut, CutPlaced

LEMMA LeadsReads ==
  ASSUME NEW bytes \in Text, NEW p, Leads(bytes, p), kind \in {"string", "json", "vector", "int"}
  PROVE  MayRead(p[1], ReadValue(bytes, p[2]))
  <1> DEFINE v == p[1]
  <1>1. Storable(v) /\ v \in Text /\ (kind = "int" => p[2] = v[1])
    BY StorableIs DEF Leads
  <1>2. CASE kind = "string"
    <2>1. PICK w \in Text : Means(v, w) /\ Placed(bytes, p[2], Stored(w))
      BY <1>2, LeadsIs
    <2>2. CString(bytes, p[2]) = UpToZero(w)
      BY <1>2, <2>1, StoredIs, StringAt
    <2>3. ReadValue(bytes, p[2]) = UpToZero(w)
      BY <1>2, <2>2 DEF ReadValue, ReadString
    <2>4. QED
      BY <1>1, <1>2, <2>1, <2>3, MayReadIs
  <1>3. CASE kind = "json" \/ kind = "vector"
    <2>1. Placed(bytes, p[2], Prefixed(v))
      <3>1. PICK w \in Text : w = p[1] /\ Placed(bytes, p[2], Stored(w))
        BY <1>3, LeadsIs
      <3>2. QED
        BY <1>1, <1>3, <3>1, StoredIs
    <2>2. decodeVarIntString(bytes, p[2]) = v
      BY <1>1, <2>1, PrefixedReads
    <2>3. ReadValue(bytes, p[2]) = decodeVarIntString(bytes, p[2])
      BY <1>3 DEF ReadValue, ReadJson, ReadVector
    <2>4. QED
      BY <1>3, <2>2, <2>3 DEF MayRead
  <1> HIDE DEF v
  <1>4. CASE kind = "int"
    <2>1. Len(v) = 1 /\ v[1] = p[2]
      BY <1>1, <1>4 DEF Storable
    <2>2. v = <<p[2]>>
      BY <1>1, <2>1 DEF Text
    <2>3. QED
      BY <1>4, <2>2 DEF ReadValue, ReadInt, MayRead, v
  <1>5. QED
    BY <1>2, <1>3, <1>4

-----------------------------------------------------------------------------
\* Equal values

LEMMA PointersEntries ==
  ASSUME NEW pts
  PROVE  Entries(Pointers(pts))
  <1>1. Pointers(pts) \subseteq EntrySet
    BY DEF Pointers
  <1>2. ASSUME NEW e \in Pointers(pts), NEW c \in Nat
        PROVE  [e EXCEPT !.cookie = c] \in Pointers(pts)
    <2> DEFINE f == [e EXCEPT !.cookie = c]
    <2>1. e \in EntrySet
      BY <1>1
    <2>2. f \in EntrySet /\ f.id = e.id /\ f.code = e.code /\ f.length = e.length
      BY <2>1 DEF EntrySet
    <2> HIDE DEF f
    <2>3. f \in Pointers(pts)
      BY <2>2 DEF Pointers
    <2>4. QED
      BY <2>3 DEF f
  <1>3. QED
    BY <1>1, <1>2 DEF Entries

LEMMA CompareBegins ==
  ASSUME NEW m, MapInv(m), NEW w \in Text, NEW v \in Text, Len(v) <= Len(w), NEW pt,
         Placed(Content(m), pt, w), M!Compare(m, pt, v)
  PROVE  \A i \in 1 .. Len(v) : w[i] = v[i]
  <1>1. /\ Len(Content(m)) = m.tail /\ m.tail \in Nat
        /\ \A o \in 0 .. m.tail - 1 : Content(m)[o + 1] = M!ByteAt(m, o)
    BY InContent, MapParts
  <1>2. /\ pt \in Nat /\ pt + Len(w) <= m.tail /\ Len(w) \in Nat /\ Len(v) \in Nat
        /\ \A i \in 1 .. Len(w) : Content(m)[pt + i] = w[i]
    BY <1>1 DEF Placed, Text
  <1>3. \A i \in 1 .. Len(v) : M!ByteAt(m, pt + i - 1) = v[i]
    <2>1. DOMAIN v = 1 .. Len(v)
      BY DEF Text
    <2>2. QED
      BY <2>1 DEF M!Compare
  <1>4. ASSUME NEW i \in 1 .. Len(v) PROVE w[i] = v[i]
    <2>1. pt + i - 1 \in 0 .. m.tail - 1 /\ (pt + i - 1) + 1 = pt + i /\ i \in 1 .. Len(w)
      BY <1>1, <1>2
    <2>2. Content(m)[pt + i] = M!ByteAt(m, pt + i - 1)
      BY <1>1, <2>1
    <2>3. QED
      BY <1>2, <1>3, <2>1, <2>2
  <1>5. QED
    BY <1>4

LEMMA CompareIs ==
  ASSUME NEW m, MapInv(m), NEW w \in Text, NEW v \in Text, Len(v) = Len(w), NEW pt,
         Placed(Content(m), pt, w), M!Compare(m, pt, v)
  PROVE  v = w
  <1>1. Len(v) \in Nat /\ Len(v) <= Len(w)
    BY DEF Text
  <1>2. QED
    BY <1>1, CompareBegins, SameText

\* The bytes read to find a length are those of the value.
LEMMA BufferIs ==
  ASSUME NEW m, MapInv(m), NEW v \in Text, Len(v) >= MAX_LENGTH,
         getVarIntLength(Len(v)) <= PROBE,
         NEW pt, Placed(Content(m), pt, Prefixed(v))
  PROVE  /\ M!ChunkOf(pt + PROBE - 1) \in Nat
         /\ M!ChunkOf(pt + PROBE - 1) <= Len(m.chunks)
         /\ decodeVarInt(M!GetBuffer(m, pt, PROBE).bytes) = Len(v)
  <1> DEFINE k == getVarIntLength(Len(v))
             w == Prefixed(v)
             c == encodeVarInt[Len(v)]
             o == pt + PROBE - 1
             bytes == [i \in 1 .. PROBE |-> M!ByteAt(m, pt + i - 1)]
  <1>1. /\ c \in Text /\ k = Len(c) /\ k \in Nat /\ k >= 1 /\ w \in Text
        /\ Len(w) = k + Len(v)
        /\ \A i \in 1 .. k : w[i] = c[i]
    BY PrefixIs
  <1>2. /\ Len(Content(m)) = m.tail /\ m.tail \in Nat
        /\ \A x \in 0 .. m.tail - 1 : /\ M!ByteAt(m, x) \in Nat
                                      /\ Content(m)[x + 1] = M!ByteAt(m, x)
                                      /\ M!ChunkOf(x) <= Len(m.chunks)
    BY InContent, MapParts
  <1>3. /\ pt \in Nat /\ pt + Len(w) <= m.tail
        /\ \A i \in 1 .. Len(w) : Content(m)[pt + i] = w[i]
    BY <1>2 DEF Placed
  <1>4. Len(v) \in Nat /\ MAX_LENGTH \in Nat /\ PROBE \in Nat /\ PROBE >= 1 /\ PROBE <= MAX_LENGTH + 1
        /\ k <= PROBE
    BY ValuesAssumption DEF Text
  <1> HIDE DEF k, w, c
  <1>5. pt + PROBE <= m.tail
    <2>1. PICK n, l \in Nat : n = Len(w) /\ l = Len(v) /\ l >= MAX_LENGTH /\ n = k + l
      BY <1>1, <1>4 DEF Text
    <2>2. n >= PROBE
      BY <1>1, <1>4, <2>1
    <2>3. pt + n <= m.tail
      BY <1>3, <2>1
    <2>4. QED
      BY <1>2, <1>3, <1>4, <2>1, <2>2, <2>3
  <1>6. o \in 0 .. m.tail - 1
    <2>1. o = pt + PROBE - 1
      OBVIOUS
    <2> HIDE DEF o
    <2>2. QED
      BY <1>2, <1>3, <1>4, <1>5, <2>1
  <1> HIDE DEF o
  <1>7. M!ChunkOf(o) \in Nat /\ M!ChunkOf(o) <= Len(m.chunks)
    <2>1. o \in Nat
      BY <1>2, <1>6
    <2>2. QED
      BY <1>2, <1>6, <2>1, Offsets
  <1>8. M!GetChunk(m, M!ChunkOf(o)) = m
    BY <1>7, GetChunkThere
  <1>9. M!GetBuffer(m, pt, PROBE).bytes = bytes
    BY <1>8 DEF M!GetBuffer, o
  <1>10. \A i \in 1 .. PROBE : pt + i - 1 \in 0 .. m.tail - 1 /\ (pt + i - 1) + 1 = pt + i
    BY <1>2, <1>3, <1>4, <1>5
  <1>11. bytes \in Text /\ Len(bytes) = PROBE /\ \A i \in 1 .. PROBE : bytes[i] = Content(m)[pt + i]
    <2>1. \A i \in 1 .. PROBE : M!ByteAt(m, pt + i - 1) \in Nat
                                /\ M!ByteAt(m, pt + i - 1) = Content(m)[pt + i]
      BY <1>2, <1>10
    <2>2. bytes \in [1 .. PROBE -> Nat]
      BY <2>1
    <2>3. \A i \in 1 .. PROBE : bytes[i] = Content(m)[pt + i]
      BY <2>1
    <2> HIDE DEF bytes
    <2>4. bytes \in Seq(Nat) /\ Len(bytes) = PROBE
      BY <1>4, <2>2
    <2>5. bytes \in Text
      BY <1>4, <2>2, <2>4 DEF Text
    <2>6. QED
      BY <2>3, <2>4, <2>5
  <1> HIDE DEF bytes
  <1>12. \A i \in 1 .. Len(c) : bytes[i] = c[i]
    <2>1. \A i \in 1 .. Len(c) : i \in 1 .. PROBE /\ i \in 1 .. Len(w)
      BY <1>1, <1>4
    <2>2. QED
      BY <1>1, <1>3, <1>11, <2>1
  <1>13. decodeVarInt(bytes) = Len(v)
    <2>1. Len(c) <= Len(bytes)
      BY <1>1, <1>4, <1>11
    <2>2. QED
      BY <1>4, <1>11, <1>12, <2>1, DecodeEncoded DEF c
  <1>14. QED
    BY <1>7, <1>9, <1>13 DEF o

\* Only the pointers of a value equal it.
LEMMA SameValueIs ==
  ASSUME NEW m, MapInv(m), kind # "int", NEW pts, \A p \in pts : Leads(Content(m), p),
         NEW e \in Pointers(pts), NEW v, Storable(v), SameValue(m, e, v)
  PROVE  /\ Leads(Content(m), <<v, e.id - 1>>)
         /\ \E p \in pts : p[2] = e.id - 1 /\ (p[1] = v \/ (AtLimit(p[1]) /\ AtLimit(v)))
  <1>1. PICK p \in pts :
          /\ e.id = p[2] + 1
          /\ e.length = IF Len(p[1]) > MAX_LENGTH THEN MAX_LENGTH ELSE Len(p[1])
    BY DEF Pointers
  <1>2. PICK w \in Text :
          /\ Storable(w) /\ Means(p[1], w) /\ Placed(Content(m), p[2], Stored(w))
          /\ Stored(w) \in Text /\ Len(w) \in Nat /\ (kind # "string" => w = p[1])
    BY LeadsIs
  <1> DEFINE pt == p[2]
             q == <<v, pt>>
  <1>3. MAX_LENGTH \in Nat /\ v \in Text /\ Len(v) \in Nat /\ p[1] \in Text /\ Len(p[1]) \in Nat
    BY ValuesAssumption, StorableIs DEF Leads
  <1>4. e.id - 1 = pt /\ pt \in Nat
    BY <1>1 DEF Leads
  <1>5. q[1] = v /\ q[2] = pt /\ q = <<q[1], q[2]>>
    OBVIOUS
  <1> HIDE DEF pt, q
  <1>6. Placed(Content(m), pt, Stored(w))
    BY <1>2 DEF pt
  <1>7. ASSUME Means(v, w) PROVE Leads(Content(m), <<v, e.id - 1>>)
    <2>1. Leads(Content(m), q)
      BY <1>2, <1>4, <1>5, <1>6, <1>7 DEF Leads
    <2>2. QED
      BY <1>4, <2>1 DEF q
  <1>8. CASE kind = "string"
    <2>1. e.length = Len(v) /\ M!Compare(m, pt, v)
      BY <1>4, <1>8 DEF SameValue, SameString
    <2>2. Placed(Content(m), pt, w)
      <3>1. Placed(Content(m), pt, Terminated(w))
        BY <1>2, <1>6, <1>8, StoredIs
      <3>2. Len(Terminated(w)) = Len(w) + 1 /\ \A i \in 1 .. Len(w) : Terminated(w)[i] = w[i]
        BY <1>2, TerminatedIs
      <3>3. Len(Content(m)) \in Nat
        BY InContent DEF Text
      <3>4. QED
        BY <1>2, <3>1, <3>2, <3>3 DEF Placed
    <2>3. CASE Len(v) < MAX_LENGTH
      <3>1. Len(p[1]) = Len(v) /\ Len(p[1]) # MAX_LENGTH
        BY <1>1, <1>3, <2>1, <2>3
      <3>2. w = p[1]
        BY <1>2, <3>1 DEF Means
      <3>3. v = w
        BY <1>2, <1>3, <2>1, <2>2, <3>1, <3>2, CompareIs
      <3>4. Means(v, w)
        BY <3>3 DEF Means
      <3>5. QED
        BY <1>4, <1>7, <3>2, <3>3, <3>4 DEF pt
    <2>4. CASE ~(Len(v) < MAX_LENGTH)
      <3>1. Len(v) = MAX_LENGTH /\ Len(p[1]) >= MAX_LENGTH
        BY <1>1, <1>3, <2>1, <2>4
      <3>2. Len(v) <= Len(w)
        BY <1>2, <1>3, <3>1 DEF Means
      <3>3. \A i \in 1 .. Len(v) : w[i] = v[i]
        BY <1>2, <1>3, <2>1, <2>2, <3>2, CompareBegins
      <3>4. Means(v, w)
        BY <1>8, <3>1, <3>2, <3>3 DEF Means
      <3>5. AtLimit(p[1]) /\ AtLimit(v)
        BY <1>3, <1>8, <3>1 DEF AtLimit
      <3>6. QED
        BY <1>4, <1>7, <3>4, <3>5 DEF pt
    <2>5. QED
      BY <2>3, <2>4
  <1>9. CASE kind # "string"
    <2> DEFINE k == getVarIntLength(Len(w))
               length == IF e.length < MAX_LENGTH THEN e.length
                         ELSE decodeVarInt(M!GetBuffer(m, e.id - 1, PROBE).bytes)
    <2>1. length = Len(v) /\ M!Compare(m, (e.id - 1) + getVarIntLength(length), v)
      BY <1>9 DEF SameValue, SamePrefixed
    <2>2. Placed(Content(m), pt, Prefixed(w))
      BY <1>2, <1>6, <1>9, StoredIs
    <2>3. length = Len(w)
      <3>1. CASE Len(w) < MAX_LENGTH
        BY <1>1, <1>2, <1>3, <1>9, <3>1
      <3>2. CASE ~(Len(w) < MAX_LENGTH)
        <4>1. ~(e.length < MAX_LENGTH)
          BY <1>1, <1>2, <1>3, <1>9, <3>2
        <4>2. decodeVarInt(M!GetBuffer(m, pt, PROBE).bytes) = Len(w)
          BY <1>2, <1>3, <1>9, <2>2, <3>2, StorableIs, BufferIs
        <4>3. QED
          BY <1>4, <4>1, <4>2
      <3>3. QED
        BY <3>1, <3>2
    <2> HIDE DEF length
    <2>4. Len(v) = Len(w) /\ M!Compare(m, pt + k, v)
      BY <1>4, <2>1, <2>3
    <2>5. Placed(Content(m), pt + k, w)
      <3>1. /\ k \in Nat /\ Len(Prefixed(w)) = k + Len(w)
            /\ \A i \in 1 .. Len(w) : Prefixed(w)[k + i] = w[i]
        BY <1>2, PrefixIs
      <3>2. /\ pt + Len(Prefixed(w)) <= Len(Content(m)) /\ Len(Content(m)) \in Nat
            /\ \A i \in 1 .. Len(Prefixed(w)) : Content(m)[pt + i] = Prefixed(w)[i]
        BY <2>2, InContent DEF Placed, Text
      <3> HIDE DEF k
      <3>3. ASSUME NEW i \in 1 .. Len(w) PROVE Content(m)[(pt + k) + i] = w[i]
        <4>1. k + i \in 1 .. Len(Prefixed(w)) /\ pt + (k + i) = (pt + k) + i
          BY <1>2, <1>4, <3>1
        <4>2. QED
          BY <3>1, <3>2, <4>1
      <3>4. pt + k \in Nat /\ (pt + k) + Len(w) <= Len(Content(m))
        BY <1>2, <1>4, <3>1, <3>2
      <3>5. QED
        BY <3>3, <3>4 DEF Placed
    <2> HIDE DEF k
    <2>6. v = w
      BY <1>2, <1>3, <2>4, <2>5, CompareIs
    <2>7. Means(v, w) /\ w = p[1]
      BY <1>2, <1>9, <2>6 DEF Means
    <2>8. QED
      BY <1>4, <1>7, <2>6, <2>7 DEF pt
  <1>10. QED
    BY <1>8, <1>9

\* Looking for a value maps nothing.
LEMMA ProbedIs ==
  ASSUME MapInv(memory), kind # "int", \A p \in handed : Leads(Content(memory), p), NEW v
  PROVE  Probed(memory, v) = memory
  <1> DEFINE long == {p \in handed : /\ kind # "string" /\ HashCode(p[1]) = HashCode(v)
                                     /\ Len(p[1]) >= MAX_LENGTH}
             S == {Len(memory.chunks)} \cup {M!ChunkOf(p[2] + PROBE - 1) : p \in long}
  <1>1. Len(memory.chunks) \in Nat
    BY MapParts
  <1>2. ASSUME NEW p \in long
        PROVE  /\ M!ChunkOf(p[2] + PROBE - 1) \in Nat
               /\ M!ChunkOf(p[2] + PROBE - 1) <= Len(memory.chunks)
    <2>1. PICK w \in Text : Storable(w) /\ w = p[1] /\ Placed(Content(memory), p[2], Stored(w))
      BY LeadsIs
    <2>2. /\ Storable(p[1]) /\ Placed(Content(memory), p[2], Prefixed(p[1]))
          /\ Len(p[1]) >= MAX_LENGTH /\ p[1] \in Text /\ getVarIntLength(Len(p[1])) <= PROBE
      BY <2>1, StorableIs, StoredIs
    <2>3. QED
      BY <2>2, BufferIs
  <1>3. S \in SUBSET Nat /\ Len(memory.chunks) \in S /\ \A x \in S : x <= Len(memory.chunks)
    BY <1>1, <1>2
  <1> HIDE DEF S
  <1>4. Max(S) = Len(memory.chunks)
    BY <1>3, MaxOf
  <1>5. Probed(memory, v) = M!GetChunk(memory, Max(S))
    BY DEF Probed, S
  <1>6. QED
    BY <1>1, <1>4, <1>5, GetChunkThere

-----------------------------------------------------------------------------
\* The actions

\* A value that is new is put behind the others.
LEMMA CreateKeeps ==
  ASSUME NEW m, NEW size, NEW c, NEW pts, Holding(m, size, c, pts), kind # "int",
         NEW v, Storable(v)
  PROVE  Holding(M!AppendBytes(m, Stored(v)), size + Len(Stored(v)), c, pts \cup {<<v, size>>})
  <1> DEFINE w == Stored(v)
             u == M!AppendBytes(m, w)
             all == pts \cup {<<v, size>>}
  <1>1. MapInv(m) /\ size = m.tail /\ CacheInv(c, Pointers(pts))
        /\ \A p \in pts : Leads(Content(m), p)
    BY DEF Holding
  <1>2. w \in Text
    BY StorableIs, StoredIs
  <1>3. MapInv(u) /\ u.tail = m.tail + Len(w) /\ Content(u) = Content(m) \o w
    <2> HIDE DEF w
    <2>1. QED
      BY <1>1, <1>2, AppendKeeps
  <1>4. Content(m) \in Text /\ Len(Content(m)) = size /\ size \in Nat
    BY <1>1, InContent, MapParts
  <1> HIDE DEF u
  <1>5. ASSUME NEW p \in pts PROVE Leads(Content(u), p)
    <2>1. Leads(Content(m), p)
      BY <1>1
    <2>2. PICK x \in Text : /\ Storable(x) /\ Means(p[1], x) /\ Stored(x) \in Text
                            /\ Placed(Content(m), p[2], Stored(x))
      BY <2>1, LeadsIs
    <2>3. Placed(Content(u), p[2], Stored(x))
      BY <1>2, <1>3, <1>4, <2>2, PlacedStays
    <2>4. QED
      BY <2>1, <2>2, <2>3 DEF Leads
  <1>6. Leads(Content(u), <<v, size>>)
    <2>1. Placed(w, 0, w)
      BY <1>2, PlacedWhole
    <2>2. Placed(Content(m) \o w, Len(Content(m)) + 0, w)
      <3> HIDE DEF w
      <3>1. QED
        BY <1>2, <1>4, <2>1, PlacedBehind
    <2>3. Placed(Content(u), size, Stored(v))
      BY <1>3, <1>4, <2>2
    <2> DEFINE p == <<v, size>>
    <2>4. p[1] = v /\ p[2] = size /\ p = <<p[1], p[2]>>
      OBVIOUS
    <2> HIDE DEF p
    <2>5. Means(v, v)
      BY DEF Means
    <2>6. Leads(Content(u), p)
      BY <1>4, <2>3, <2>4, <2>5 DEF Leads
    <2>7. QED
      BY <2>6 DEF p
  <1>7. CacheInv(c, Pointers(all))
    <2>1. Pointers(pts) \subseteq Pointers(all)
      BY DEF Pointers
    <2>2. QED
      BY <1>1, <2>1, PointersEntries, CacheGrows
  <1>8. size + Len(w) = u.tail
    BY <1>1, <1>3
  <1>9. QED
    BY <1>3, <1>5, <1>6, <1>7, <1>8 DEF Holding, u

\* and its pointer may be put into the cache.
LEMMA RawPointerIs ==
  ASSUME NEW pts, NEW v \in Text, NEW size \in Nat
  PROVE  /\ RawPointer(size, HashCode(v), Len(v)) \in Pointers(pts \cup {<<v, size>>})
         /\ RawPointer(size, HashCode(v), Len(v)).cookie = 0
  <1> DEFINE e == RawPointer(size, HashCode(v), Len(v))
             p == <<v, size>>
  <1>1. MAX_LENGTH \in Nat /\ Len(v) \in Nat /\ HashCode(v) \in Nat
    BY ValuesAssumption, HashCodeIs DEF Text
  <1>2. /\ e.id = size + 1 /\ e.code = HashCode(v) /\ e.cookie = 0
        /\ e.length = IF Len(v) > MAX_LENGTH THEN MAX_LENGTH ELSE Len(v)
        /\ e = [id |-> e.id, code |-> e.code, cookie |-> e.cookie, length |-> e.length]
    BY DEF RawPointer
  <1> HIDE DEF e
  <1>3. e \in EntrySet
    BY <1>1, <1>2 DEF EntrySet
  <1>4. p[1] = v /\ p[2] = size /\ p \in pts \cup {<<v, size>>}
    OBVIOUS
  <1> HIDE DEF p
  <1>5. e \in Pointers(pts \cup {<<v, size>>})
    BY <1>2, <1>3, <1>4 DEF Pointers
  <1>6. QED
    BY <1>2, <1>5 DEF e

\* A value is found, and its pointer handed out again, or it is new.
LEMMA AddMinimizedKeeps ==
  ASSUME Holding(memory, values_buffer_size_, hash_, handed), kind # "int",
         NEW v, Storable(v), AddMinimized(v, Stored(v))
  PROVE  Holding(memory', values_buffer_size_', hash_', handed')
  <1> DEFINE E == Pointers(handed)
             same == {e.id : e \in {f \in CacheEntries(hash_) : SameValue(memory, f, v)}}
             found == CacheGet(hash_, HashCode(v), same)
             n == values_buffer_size_
             e == RawPointer(n, HashCode(v), Len(v))
  <1>1. MapInv(memory) /\ n = memory.tail /\ CacheInv(hash_, E)
        /\ \A p \in handed : Leads(Content(memory), p)
    BY DEF Holding
  <1>2. v \in Text /\ n \in Nat /\ Entries(E) /\ HashCode(v) \in Nat
    BY <1>1, StorableIs, MapParts, PointersEntries, HashCodeIs
  <1>3. Answers(E, found.entry, same) /\ CacheInv(found.cache, E)
    <2> HIDE DEF E, same
    <2>1. QED
      BY <1>1, <1>2, CacheGetKeeps
  <1>4. Probed(memory, v) = memory
    BY <1>1, ProbedIs
  <1>5. UseOrCreate(v, Stored(v), found, memory)
    BY <1>4 DEF AddMinimized
  <1> HIDE DEF found
  <1>6. CASE /\ ~IsEmpty(found.entry) /\ hash_' = found.cache /\ memory' = memory
             /\ HandOut(v, found.entry.id - 1) /\ UNCHANGED values_buffer_size_
    <2>1. found.entry.id \in same
      BY <1>3, <1>6 DEF Answers, IsEmpty, NoEntry
    <2>2. PICK f \in CacheEntries(hash_) : f.id = found.entry.id /\ SameValue(memory, f, v)
      BY <2>1
    <2>3. f \in E
      BY <1>1, <1>2, <2>2, CacheEntriesIn
    <2>4. Leads(Content(memory), <<v, f.id - 1>>)
      BY <1>1, <2>2, <2>3, SameValueIs
    <2> DEFINE F == Pointers(handed')
    <2>5. handed' = handed \cup {<<v, f.id - 1>>}
      BY <1>6, <2>2 DEF HandOut
    <2>6. E \subseteq F
      BY <2>5 DEF Pointers
    <2>7. Entries(F)
      BY PointersEntries
    <2>8. CacheInv(found.cache, F)
      <3> HIDE DEF E, F
      <3>1. QED
        BY <1>2, <1>3, <2>6, <2>7, CacheGrows
    <2>9. QED
      BY <1>1, <1>6, <2>4, <2>5, <2>8 DEF Holding
  <1>7. CASE /\ IsEmpty(found.entry) /\ hash_' = CacheAdd(found.cache, e)
             /\ CreateNewValue(v, memory, Stored(v))
    <2> DEFINE all == handed \cup {<<v, n>>}
    <2>1. /\ memory' = M!AppendBytes(memory, Stored(v))
          /\ values_buffer_size_' = n + Len(Stored(v)) /\ handed' = all
      BY <1>7 DEF CreateNewValue, HandOut
    <2>2. Holding(memory', values_buffer_size_', found.cache, all)
      <3>1. Holding(memory, n, found.cache, handed)
        BY <1>1, <1>3 DEF Holding
      <3>2. QED
        BY <2>1, <3>1, CreateKeeps
    <2>3. e \in Pointers(all) /\ e.cookie = 0
      BY <1>2, RawPointerIs
    <2> HIDE DEF e
    <2>4. CacheInv(CacheAdd(found.cache, e), Pointers(all))
      <3>1. CacheInv(found.cache, Pointers(all)) /\ Entries(Pointers(all))
        BY <2>2, PointersEntries DEF Holding
      <3> DEFINE F == Pointers(all)
      <3> HIDE DEF F
      <3>2. CacheInv(CacheAdd(found.cache, e), F)
        BY <2>3, <3>1, CacheAddKeeps DEF F
      <3>3. QED
        BY <3>2 DEF F
    <2>5. QED
      BY <1>7, <2>1, <2>2, <2>4 DEF Holding
  <1>8. QED
    BY <1>5, <1>6, <1>7 DEF UseOrCreate

\* Integers need no memory.
LEMMA IntKeeps ==
  ASSUME NEW m, NEW size, NEW c, NEW pts, Holding(m, size, c, pts), kind = "int",
         NEW v, Storable(v)
  PROVE  Holding(m, size, c, pts \cup {<<v, v[1]>>})
  <1> DEFINE q == <<v, v[1]>>
             all == pts \cup {q}
  <1>1. MapInv(m) /\ size = m.tail /\ CacheInv(c, Pointers(pts))
        /\ \A p \in pts : Leads(Content(m), p)
    BY DEF Holding
  <1>2. Len(v) = 1 /\ v \in Text /\ v[1] \in Nat
    <2>1. Len(v) = 1 /\ v \in Text
      BY StorableIs DEF Storable
    <2>2. v \in Seq(Nat)
      BY <2>1 DEF Text
    <2>3. \A i \in 1 .. Len(v) : v[i] \in Nat
      BY <2>2
    <2>4. 1 \in 1 .. Len(v)
      BY <2>1
    <2>5. QED
      BY <2>1, <2>3, <2>4
  <1>3. q[1] = v /\ q[2] = v[1] /\ q = <<q[1], q[2]>>
    OBVIOUS
  <1> HIDE DEF q
  <1>4. Leads(Content(m), q)
    BY <1>2, <1>3 DEF Leads
  <1>5. Pointers(pts) \subseteq Pointers(all)
    BY DEF Pointers
  <1>6. CacheInv(c, Pointers(all))
    <2> HIDE DEF all
    <2>1. QED
      BY <1>1, <1>5, PointersEntries, CacheGrows
  <1>7. \A p \in all : Leads(Content(m), p)
    BY <1>1, <1>4
  <1> HIDE DEF all
  <1>8. Holding(m, size, c, all)
    BY <1>1, <1>6, <1>7 DEF Holding
  <1>9. QED
    BY <1>8 DEF all, q

-----------------------------------------------------------------------------
\* What was stored is found

\* A value that is there compares equal, however the chunks divide it.
LEMMA CompareHolds ==
  ASSUME NEW m, MapInv(m), NEW v \in Text, Len(v) <= chunk_size_, NEW pt,
         Placed(Content(m), pt, v)
  PROVE  M!Compare(m, pt, v)
  <1>1. /\ Len(Content(m)) = m.tail /\ m.tail \in Nat
        /\ \A o \in 0 .. m.tail - 1 : /\ Content(m)[o + 1] = M!ByteAt(m, o)
                                      /\ M!ChunkOf(o) <= Len(m.chunks)
    BY InContent, MapParts
  <1>2. /\ pt \in Nat /\ pt + Len(v) <= m.tail /\ Len(v) \in Nat
        /\ DOMAIN v = 1 .. Len(v)
        /\ \A i \in 1 .. Len(v) : Content(m)[pt + i] = v[i]
    BY <1>1 DEF Placed, Text
  <1> DEFINE n == M!ChunkOf(pt)
  <1>3. chunk_size_ \in Nat /\ n \in Nat /\ pt < n * chunk_size_
    BY <1>2, ValuesAssumption, Offsets
  <1> HIDE DEF n
  <1>4. (n + 1) * chunk_size_ = n * chunk_size_ + chunk_size_ /\ n * chunk_size_ \in Nat
    BY <1>3, Z3
  <1>5. ASSUME NEW i \in 1 .. Len(v)
        PROVE  /\ M!ChunkOf(pt + i - 1) <= n + 1 /\ M!ChunkOf(pt + i - 1) <= Len(m.chunks)
               /\ M!ByteAt(m, pt + i - 1) = v[i]
    <2>1. /\ pt + i - 1 \in 0 .. m.tail - 1 /\ (pt + i - 1) + 1 = pt + i
          /\ pt + i - 1 \in Nat /\ pt + i - 1 < n * chunk_size_ + chunk_size_ /\ n + 1 \in Nat
      BY <1>1, <1>2, <1>3, <1>4
    <2>2. M!ChunkOf(pt + i - 1) <= n + 1
      <3> DEFINE o == pt + i - 1
                 k == n + 1
      <3>1. o \in Nat /\ k \in Nat /\ o < k * chunk_size_
        BY <1>4, <2>1
      <3> HIDE DEF o, k
      <3>2. M!ChunkOf(o) <= k
        BY <3>1, Offsets
      <3>3. QED
        BY <3>2 DEF o, k
    <2>3. M!ChunkOf(pt + i - 1) <= Len(m.chunks) /\ M!ByteAt(m, pt + i - 1) = Content(m)[pt + i]
      BY <1>1, <2>1
    <2>4. QED
      BY <1>2, <2>2, <2>3
  <1>6. QED
    BY <1>2, <1>5 DEF M!Compare, n

\* One pointer is not handed out for two values, but for strings at the limit.
Single(pts) ==
  \A p, q \in pts : p[2] = q[2] => p[1] = q[1] \/ (AtLimit(p[1]) /\ AtLimit(q[1]))

\* The pointers are in front of the end.
LEMMA LeadsBefore ==
  ASSUME NEW m, MapInv(m), kind # "int", NEW p, Leads(Content(m), p)
  PROVE  p[2] \in Nat /\ p[2] < m.tail
  <1>1. PICK w \in Text : Placed(Content(m), p[2], Stored(w))
    BY LeadsIs
  <1>2. Len(Stored(w)) \in Nat /\ Len(Stored(w)) >= 1
    <2>1. kind = "string" => Len(Stored(w)) = Len(w) + 1
      BY StoredIs, TerminatedIs
    <2>2. kind # "string" => /\ Len(Stored(w)) = getVarIntLength(Len(w)) + Len(w)
                             /\ getVarIntLength(Len(w)) \in Nat /\ getVarIntLength(Len(w)) >= 1
      BY StoredIs, PrefixIs
    <2>3. Len(w) \in Nat
      BY DEF Text
    <2>4. QED
      BY <2>1, <2>2, <2>3
  <1>3. Len(Content(m)) = m.tail /\ m.tail \in Nat
    BY InContent, MapParts
  <1>4. QED
    BY <1>1, <1>2, <1>3 DEF Placed

\* The cache recognizes what it has, but strings at the limit.
LEMMA SameValueHolds ==
  ASSUME NEW m, MapInv(m), kind \in {"string", "json", "vector"},
         NEW pts, \A p \in pts : Leads(Content(m), p),
         Single(pts), NEW e \in Pointers(pts), NEW v, <<v, e.id - 1>> \in pts, ~AtLimit(v)
  PROVE  e.code = HashCode(v) /\ SameValue(m, e, v)
  <1> DEFINE q == <<v, e.id - 1>>
             pt == e.id - 1
  <1>1. PICK p \in pts :
          /\ e.id = p[2] + 1 /\ e.code = HashCode(p[1])
          /\ e.length = IF Len(p[1]) > MAX_LENGTH THEN MAX_LENGTH ELSE Len(p[1])
    BY DEF Pointers
  <1>2. Leads(Content(m), p) /\ Leads(Content(m), q) /\ q[1] = v /\ q[2] = pt
    OBVIOUS
  <1>3. p[2] = pt
    BY <1>1, <1>2 DEF Leads
  <1>4. p[1] = v
    <2>1. q \in pts
      OBVIOUS
    <2> HIDE DEF q
    <2>2. QED
      BY <1>2, <1>3, <2>1 DEF Single
  <1> HIDE DEF q
  <1>5. /\ Storable(v) /\ Placed(Content(m), pt, Stored(v)) /\ v \in Text
        /\ Len(v) \in Nat /\ Len(v) <= chunk_size_
        /\ kind # "string" => getVarIntLength(Len(v)) <= PROBE
    <2>1. PICK w \in Text : Means(q[1], w) /\ Placed(Content(m), q[2], Stored(w))
      BY <1>2, LeadsIs
    <2>2. w = v
      <3>1. Len(v) \in Nat /\ MAX_LENGTH \in Nat
        BY <1>2, ValuesAssumption, StorableIs DEF Leads
      <3>2. QED
        BY <1>2, <2>1, <3>1 DEF Means, AtLimit
    <2>3. Storable(v)
      BY <1>2 DEF Leads
    <2>4. QED
      BY <1>2, <2>1, <2>2, <2>3, StorableIs
  <1>6. MAX_LENGTH \in Nat
    BY ValuesAssumption
  <1>7. e.code = HashCode(v)
        /\ e.length = IF Len(v) > MAX_LENGTH THEN MAX_LENGTH ELSE Len(v)
    BY <1>1, <1>4
  <1>8. Len(Content(m)) \in Nat
    BY InContent DEF Text
  <1> HIDE DEF pt
  <1>9. CASE kind = "string"
    <2>1. Placed(Content(m), pt, v)
      <3>1. Placed(Content(m), pt, Terminated(v))
        BY <1>5, <1>9, StoredIs
      <3>2. Len(Terminated(v)) = Len(v) + 1 /\ \A i \in 1 .. Len(v) : Terminated(v)[i] = v[i]
        BY <1>5, TerminatedIs
      <3>3. QED
        BY <1>5, <1>8, <3>1, <3>2 DEF Placed
    <2>2. M!Compare(m, pt, v)
      BY <1>5, <2>1, CompareHolds
    <2>3. Len(v) < MAX_LENGTH
      BY <1>5, <1>6, <1>9 DEF AtLimit
    <2>4. e.length = Len(v)
      BY <1>5, <1>6, <1>7, <2>3
    <2>5. QED
      BY <1>7, <1>9, <2>2, <2>4 DEF SameValue, SameString, pt
  <1>10. CASE kind # "string"
    <2> DEFINE k == getVarIntLength(Len(v))
               length == IF e.length < MAX_LENGTH THEN e.length
                         ELSE decodeVarInt(M!GetBuffer(m, pt, PROBE).bytes)
    <2>1. Placed(Content(m), pt, Prefixed(v))
      BY <1>5, <1>10, StoredIs
    <2>2. length = Len(v)
      <3>1. CASE Len(v) < MAX_LENGTH
        BY <1>5, <1>6, <1>7, <3>1
      <3>2. CASE ~(Len(v) < MAX_LENGTH)
        <4>1. ~(e.length < MAX_LENGTH)
          BY <1>5, <1>6, <1>7, <3>2
        <4>2. decodeVarInt(M!GetBuffer(m, pt, PROBE).bytes) = Len(v)
          BY <1>5, <1>6, <1>10, <2>1, <3>2, BufferIs
        <4>3. QED
          BY <4>1, <4>2
      <3>3. QED
        BY <3>1, <3>2
    <2>3. Placed(Content(m), pt + k, v)
      <3>1. /\ k \in Nat /\ Len(Prefixed(v)) = k + Len(v)
            /\ \A i \in 1 .. Len(v) : Prefixed(v)[k + i] = v[i]
        BY <1>5, PrefixIs
      <3>2. /\ pt \in Nat /\ pt + Len(Prefixed(v)) <= Len(Content(m))
            /\ \A i \in 1 .. Len(Prefixed(v)) : Content(m)[pt + i] = Prefixed(v)[i]
        BY <2>1 DEF Placed
      <3> HIDE DEF k
      <3>3. ASSUME NEW i \in 1 .. Len(v) PROVE Content(m)[(pt + k) + i] = v[i]
        <4>1. k + i \in 1 .. Len(Prefixed(v)) /\ pt + (k + i) = (pt + k) + i
          BY <1>5, <3>1, <3>2
        <4>2. QED
          BY <3>1, <3>2, <4>1
      <3>4. pt + k \in Nat /\ (pt + k) + Len(v) <= Len(Content(m))
        BY <1>5, <1>8, <3>1, <3>2
      <3>5. QED
        BY <3>3, <3>4 DEF Placed
    <2>4. M!Compare(m, pt + k, v)
      BY <1>5, <2>3, CompareHolds
    <2>5. SameValue(m, e, v)
      <3>1. SameValue(m, e, v) = SamePrefixed(m, e, v)
        BY <1>10 DEF SameValue
      <3>2. SamePrefixed(m, e, v) =
              (e.code = HashCode(v) /\ length = Len(v)
               /\ M!Compare(m, pt + getVarIntLength(length), v))
        BY DEF SamePrefixed, pt
      <3> HIDE DEF length
      <3>3. QED
        BY <1>7, <2>2, <2>4, <3>1, <3>2
    <2>6. QED
      BY <1>7, <2>5
  <1>11. QED
    BY <1>9, <1>10

\* No value has two pointers, but a string at the limit.
Once(pts) == \A p, q \in pts : p[1] = q[1] /\ ~AtLimit(p[1]) => p = q

\* Every other pointer is found with the hash code of its value.
AllFound(c, pts) == \A p \in pts : ~AtLimit(p[1]) => CacheHas(c, HashCode(p[1]), p[2] + 1)

Kept(c, pts) == Once(pts) /\ Single(pts) /\ AllFound(c, pts)

FoundInv ==
  minimize_ /\ phase = "feed" /\ NothingLost(hash_) =>
    IF kind = "int" THEN Once(handed) ELSE Kept(hash_, handed)

LEMMA AddMinimizedFinds ==
  ASSUME Holding(memory, values_buffer_size_, hash_, handed), kind \in {"string", "json", "vector"},
         NEW v, Storable(v), AddMinimized(v, Stored(v)),
         NothingLost(hash_) => Kept(hash_, handed)
  PROVE  NothingLost(hash_') => Kept(hash_', handed')
  <1> DEFINE E == Pointers(handed)
             same == {e.id : e \in {f \in CacheEntries(hash_) : SameValue(memory, f, v)}}
             found == CacheGet(hash_, HashCode(v), same)
             n == values_buffer_size_
             e == RawPointer(n, HashCode(v), Len(v))
             all == handed \cup {<<v, n>>}
  <1>1. MapInv(memory) /\ n = memory.tail /\ CacheInv(hash_, E)
        /\ \A p \in handed : Leads(Content(memory), p)
    BY DEF Holding
  <1>2. v \in Text /\ n \in Nat /\ Entries(E) /\ HashCode(v) \in Nat
    BY <1>1, StorableIs, MapParts, PointersEntries, HashCodeIs
  <1>3. /\ Answers(E, found.entry, same) /\ GetHas(hash_, found, same)
        /\ IsEmpty(found.entry) => found.cache = hash_
        /\ \A id \in same : id # 0 /\ CacheHas(hash_, HashCode(v), id) => ~IsEmpty(found.entry)
    <2> HIDE DEF E, same
    <2>1. QED
      BY <1>1, <1>2, CacheGetKeeps, CacheGetHas
  <1>4. Probed(memory, v) = memory
    BY <1>1, ProbedIs
  <1>5. UseOrCreate(v, Stored(v), found, memory)
    BY <1>4 DEF AddMinimized
  <1>6. ASSUME NEW id \in same
        PROVE  \E p \in handed : p[2] = id - 1 /\ (p[1] = v \/ (AtLimit(p[1]) /\ AtLimit(v)))
    <2>1. PICK f \in CacheEntries(hash_) : f.id = id /\ SameValue(memory, f, v)
      BY <1>6
    <2>2. f \in E
      BY <1>1, <1>2, <2>1, CacheEntriesIn
    <2>3. QED
      BY <1>1, <1>2, <2>1, <2>2, SameValueIs
  <1>7. ASSUME NEW p \in handed
        PROVE  /\ p = <<p[1], p[2]>> /\ p[2] \in Nat /\ p[2] + 1 \in Nat /\ p[2] + 1 # 0
               /\ (p[2] + 1) - 1 = p[2] /\ HashCode(p[1]) \in Nat
    <2>1. p = <<p[1], p[2]>> /\ p[2] \in Nat /\ p[1] \in Text
      BY <1>1, StorableIs DEF Leads
    <2>2. QED
      BY <2>1, HashCodeIs
  <1>8. ASSUME NEW p \in handed, p[1] = v, CacheHas(hash_, HashCode(v), p[2] + 1),
               ~AtLimit(v), Single(handed)
        PROVE  p[2] + 1 \in same
    <2>1. PICK f \in CacheEntries(hash_) : f.id = p[2] + 1
      BY <1>1, <1>2, <1>7, <1>8, CacheHasEntry
    <2>2. f \in E
      BY <1>1, <1>2, CacheEntriesIn
    <2>3. <<v, f.id - 1>> \in handed
      BY <1>7, <1>8, <2>1
    <2>4. SameValue(memory, f, v)
      BY <1>1, <1>8, <2>2, <2>3, SameValueHolds
    <2>5. QED
      BY <2>1, <2>4
  <1> HIDE DEF found, same
  <1>9. CASE /\ ~IsEmpty(found.entry) /\ hash_' = found.cache /\ HandOut(v, found.entry.id - 1)
    <2> DEFINE g == found.entry
    <2>1. g \in E /\ g.id \in same
      BY <1>3, <1>9, EntryOrNone, <1>2 DEF Answers
    <2> DEFINE q == <<v, g.id - 1>>
    <2>2. q[1] = v /\ q[2] = g.id - 1 /\ handed' = handed \cup {q}
      BY <1>9 DEF HandOut
    <2>3. PICK p0 \in handed : p0[2] = g.id - 1 /\ (p0[1] = v \/ (AtLimit(p0[1]) /\ AtLimit(v)))
      BY <1>6, <2>1
    <2>4. SUFFICES ASSUME NothingLost(found.cache) PROVE Kept(found.cache, handed \cup {q})
      BY <1>9, <2>2
    <2>5. Once(handed) /\ Single(handed) /\ AllFound(hash_, handed)
      BY <1>3, <2>4 DEF GetHas, Kept
    <2>6. ASSUME NEW p \in handed, ~AtLimit(p[1]), p[2] + 1 \notin same
          PROVE  CacheHas(found.cache, HashCode(p[1]), p[2] + 1)
      BY <1>3, <1>7, <2>4, <2>5, <2>6 DEF GetHas, AllFound
    <2>7. ASSUME NEW p \in handed, ~AtLimit(p[1]), p[2] + 1 \in same PROVE p[1] = v
      <3>1. PICK p1 \in handed : p1[2] = p[2] /\ (p1[1] = v \/ (AtLimit(p1[1]) /\ AtLimit(v)))
        BY <1>6, <1>7, <2>7
      <3>2. p1[1] = p[1]
        BY <2>5, <2>7, <3>1 DEF Single
      <3>3. QED
        BY <2>7, <3>1, <3>2
    <2>8. CASE ~AtLimit(v)
      <3>1. q \in handed
        BY <1>7, <2>2, <2>3, <2>8
      <3>2. g.code = HashCode(v)
        BY <1>1, <2>1, <2>5, <2>8, <3>1, SameValueHolds
      <3>3. handed \cup {q} = handed
        BY <3>1
      <3> HIDE DEF q
      <3>4. ASSUME NEW p \in handed, ~AtLimit(p[1]), p[2] + 1 \in same
            PROVE  CacheHas(found.cache, HashCode(p[1]), p[2] + 1)
        <4>1. p[1] = v
          BY <2>7, <3>4
        <4>2. p = q
          BY <2>2, <2>5, <3>1, <3>4, <4>1 DEF Once
        <4>3. g.id = p[2] + 1
          <5>1. g.id \in Nat /\ g.id - 1 = p[2]
            BY <1>2, <2>1, <2>2, <4>2, EntryOrNone
          <5>2. QED
            BY <5>1
        <4>4. found.cache = hash_ \/ CacheHas(found.cache, g.code, g.id)
          BY <1>3, <1>9, <2>4 DEF GetHas
        <4>5. CacheHas(hash_, HashCode(p[1]), p[2] + 1)
          BY <2>5, <3>4 DEF AllFound
        <4>6. QED
          BY <3>2, <4>1, <4>3, <4>4, <4>5
      <3>5. AllFound(found.cache, handed)
        BY <2>6, <3>4 DEF AllFound
      <3>6. QED
        BY <2>5, <3>3, <3>5 DEF Kept
    <2>9. CASE AtLimit(v)
      <3>1. AtLimit(p0[1])
        BY <2>3, <2>9
      <3> HIDE DEF q
      <3>2. Once(handed \cup {q})
        BY <2>2, <2>5, <2>9 DEF Once
      <3>3. ASSUME NEW p \in handed, p[2] = q[2] PROVE AtLimit(p[1])
        BY <2>2, <2>3, <2>5, <3>1, <3>3 DEF Single
      <3>4. Single(handed \cup {q})
        BY <2>2, <2>5, <2>9, <3>3 DEF Single
      <3>5. ASSUME NEW p \in handed, ~AtLimit(p[1])
            PROVE  CacheHas(found.cache, HashCode(p[1]), p[2] + 1)
        BY <2>6, <2>7, <2>9, <3>5
      <3>6. AllFound(found.cache, handed \cup {q})
        BY <2>2, <2>9, <3>5 DEF AllFound
      <3>7. QED
        BY <3>2, <3>4, <3>6 DEF Kept
    <2>10. QED
      BY <2>8, <2>9
  <1>10. CASE /\ IsEmpty(found.entry) /\ hash_' = CacheAdd(found.cache, e)
              /\ CreateNewValue(v, memory, Stored(v))
    <2>1. found.cache = hash_ /\ handed' = all
      BY <1>3, <1>10 DEF CreateNewValue, HandOut
    <2>2. e \in Pointers(all) /\ e.cookie = 0
      BY <1>2, RawPointerIs
    <2>3. e.code = HashCode(v) /\ e.id = n + 1
      BY DEF RawPointer
    <2>4. CacheInv(hash_, Pointers(all)) /\ Entries(Pointers(all))
      <3>1. E \subseteq Pointers(all)
        BY DEF Pointers
      <3>2. Entries(Pointers(all))
        BY PointersEntries
      <3>3. QED
        BY <1>1, <1>2, <3>1, <3>2, CacheGrows
    <2> DEFINE d == CacheAdd(hash_, e)
    <2>5. CacheLosesNothing(hash_, d) /\ (NothingLost(d) => CacheHas(d, e.code, e.id))
      <3> DEFINE F == Pointers(all)
      <3>1. e \in F /\ CacheInv(hash_, F) /\ Entries(F)
        BY <2>2, <2>4
      <3> HIDE DEF F, e
      <3>2. QED
        BY <2>2, <3>1, CacheAddHas
    <2>6. hash_' = d
      BY <1>10, <2>1
    <2> HIDE DEF d, e
    <2>7. SUFFICES ASSUME NothingLost(d) PROVE Kept(d, all)
      BY <2>1, <2>6
    <2>8. Once(handed) /\ Single(handed) /\ AllFound(hash_, handed)
      BY <2>5, <2>7 DEF CacheLosesNothing, Kept
    <2>9. ASSUME NEW p \in handed, ~AtLimit(p[1])
          PROVE  p[1] # v /\ CacheHas(d, HashCode(p[1]), p[2] + 1)
      <3>1. CacheHas(hash_, HashCode(p[1]), p[2] + 1)
        BY <2>8, <2>9 DEF AllFound
      <3>2. p[1] # v
        <4>1. SUFFICES ASSUME p[1] = v PROVE FALSE
          OBVIOUS
        <4>2. p[2] + 1 \in same
          BY <1>8, <2>8, <2>9, <3>1, <4>1
        <4>3. ~IsEmpty(found.entry)
          BY <1>3, <1>7, <3>1, <4>1, <4>2
        <4>4. QED
          BY <1>10, <4>3
      <3>3. QED
        BY <1>7, <2>5, <2>7, <3>1, <3>2 DEF CacheLosesNothing
    <2> DEFINE q == <<v, n>>
    <2>10. q[1] = v /\ q[2] = n /\ all = handed \cup {q}
      OBVIOUS
    <2> HIDE DEF q, all
    <2>11. Once(all)
      BY <2>8, <2>9, <2>10 DEF Once
    <2>12. \A p \in handed : p[2] # n
      <3>1. TAKE p \in handed
      <3>2. p[2] \in Nat /\ p[2] < n
        BY <1>1, LeadsBefore
      <3>3. QED
        BY <1>2, <3>2
    <2>13. Single(all)
      BY <2>8, <2>10, <2>12 DEF Single
    <2>14. AllFound(d, all)
      BY <2>3, <2>5, <2>7, <2>9, <2>10 DEF AllFound
    <2>15. QED
      BY <2>11, <2>13, <2>14 DEF Kept
  <1>11. QED
    BY <1>5, <1>9, <1>10 DEF UseOrCreate

-----------------------------------------------------------------------------
\* Adding and merging

\* The kind of a store never changes, and with it what its values look like.
LEMMA StoreStays ==
  ASSUME kind \in {"string", "json", "vector", "int"}, kind' = kind,
         phase' \in {"feed", "merge", "done"},
         Holding(memory', values_buffer_size_', hash_', handed'),
         files' = [i \in 1 .. Len(files') |-> files'[i]], Len(files') \in Nat,
         \A i \in 1 .. Len(files') : FileInv(files'[i])
  PROVE  StoreInv'
  <1>1. Holding(memory, values_buffer_size_, hash_, handed)'
    BY DEF Holding, Leads, Storable, Stored, Means
  <1>2. (\A i \in 1 .. Len(files) : FileInv(files[i]))'
    BY DEF FileInv, Leads, Storable, Stored, Means
  <1>3. QED
    BY <1>1, <1>2 DEF StoreInv

LEMMA AddValueKeeps ==
  ASSUME StoreInv, NEW v \in Values, AddValue(v)
  PROVE  Holding(memory', values_buffer_size_', hash_', handed')
  <1>1. Holding(memory, values_buffer_size_, hash_, handed)
    BY DEF StoreInv
  <1>2. v \in Text /\ Len(v) <= chunk_size_
    BY ValuesAssumption DEF Text
  <1>3. CASE AddString(v)
    <2>1. Storable(v)
      BY <1>2, <1>3 DEF AddString, Storable
    <2>2. AddMinimized(v, Stored(v)) /\ kind # "int"
      BY <1>2, <1>3, StoredIs DEF AddString
    <2>3. QED
      BY <1>1, <2>1, <2>2, AddMinimizedKeeps
  <1>4. CASE AddJson(v) \/ AddVector(v)
    <2>1. kind \in {"json", "vector"}
      BY <1>4 DEF AddJson, AddVector
    <2>2. Storable(v) /\ Stored(v) = Prefixed(v)
      BY <1>2, <2>1, StoredIs DEF Storable
    <2>3. CASE minimize_
      <3>1. AddMinimized(v, Stored(v))
        BY <1>4, <2>2, <2>3 DEF AddJson, AddVector
      <3>2. QED
        BY <1>1, <2>1, <2>2, <3>1, AddMinimizedKeeps
    <2>4. CASE ~minimize_
      <3>1. CreateNewValue(v, memory, Stored(v)) /\ hash_' = hash_
        BY <1>4, <2>2, <2>4 DEF AddJson, AddVector
      <3>2. /\ memory' = M!AppendBytes(memory, Stored(v))
            /\ values_buffer_size_' = values_buffer_size_ + Len(Stored(v))
            /\ handed' = handed \cup {<<v, values_buffer_size_>>}
        BY <3>1 DEF CreateNewValue, HandOut
      <3>3. QED
        BY <1>1, <2>1, <2>2, <3>1, <3>2, CreateKeeps
    <2>5. QED
      BY <2>3, <2>4
  <1>5. CASE AddInt(v)
    <2>1. Storable(v) /\ kind = "int"
      BY <1>2, <1>5 DEF AddInt, Storable
    <2>2. QED
      BY <1>1, <1>5, <2>1, IntKeeps DEF AddInt, HandOut
  <1>6. QED
    BY <1>3, <1>4, <1>5 DEF AddValue

LEMMA AddValueMergeKeeps ==
  ASSUME StoreInv, NEW f, FileInv(f), NEW p \in f.pts, AddValueMerge(f, p)
  PROVE  Holding(memory', values_buffer_size_', hash_', handed')
  <1> DEFINE v == p[1]
             pt == p[2]
  <1>1. Holding(memory, values_buffer_size_, hash_, handed)
    BY DEF StoreInv
  <1>2. f.bytes \in Text /\ Leads(f.bytes, p)
    BY DEF FileInv, Text
  <1>3. Storable(v) /\ v \in Text /\ (kind = "int" => pt = v[1])
    BY <1>2, StorableIs DEF Leads
  <1>4. CASE MergeString(f.bytes, pt)
    <2>1. kind = "string" /\ AddMinimized(CString(f.bytes, pt), Terminated(CString(f.bytes, pt)))
      BY <1>4 DEF MergeString
    <2>2. PICK w \in Text : Storable(w) /\ Placed(f.bytes, pt, Stored(w))
      BY <1>2, <2>1, LeadsIs
    <2> DEFINE u == UpToZero(w)
    <2>3. CString(f.bytes, pt) = u /\ u \in Text /\ Len(u) <= Len(w)
      BY <1>2, <2>1, <2>2, StoredIs, StringAt
    <2> HIDE DEF u
    <2>4. Storable(u)
      <3>1. Len(u) \in Nat /\ Len(w) \in Nat /\ Len(w) <= chunk_size_ /\ chunk_size_ \in Nat
        BY <2>2, <2>3, StorableIs, ValuesAssumption DEF Text
      <3>2. Len(u) <= chunk_size_
        BY <2>3, <3>1
      <3>3. QED
        BY <2>1, <2>3, <3>2 DEF Storable
    <2>5. AddMinimized(u, Stored(u))
      BY <2>1, <2>3, StoredIs
    <2>6. QED
      BY <1>1, <2>1, <2>4, <2>5, AddMinimizedKeeps
  <1>5. CASE MergeJson(f.bytes, pt) \/ MergeVector(f.bytes, pt)
    <2>1. kind \in {"json", "vector"}
      BY <1>5 DEF MergeJson, MergeVector
    <2>2. decodeVarIntString(f.bytes, pt) = v /\ FullBuffer(f.bytes, pt) = Stored(v)
      <3>1. PICK w \in Text : w = v /\ Placed(f.bytes, pt, Stored(w))
        BY <1>2, <2>1, LeadsIs
      <3>2. Placed(f.bytes, pt, Prefixed(v)) /\ Stored(v) = Prefixed(v)
        BY <1>3, <2>1, <3>1, StoredIs
      <3>3. QED
        BY <1>2, <1>3, <3>2, PrefixedReads
    <2>3. AddMinimized(v, Stored(v))
      BY <1>5, <2>2 DEF MergeJson, MergeVector
    <2>4. QED
      BY <1>1, <1>3, <2>1, <2>3, AddMinimizedKeeps
  <1>6. CASE MergeInt(pt)
    <2>1. kind = "int"
      BY <1>6 DEF MergeInt
    <2>2. v = <<pt>> /\ pt = v[1]
      <3>1. Len(v) = 1 /\ pt = v[1]
        BY <1>3, <2>1 DEF Storable
      <3>2. QED
        BY <1>3, <3>1 DEF Text
    <2>3. handed' = handed \cup {<<v, v[1]>>}
      BY <1>6, <2>2 DEF MergeInt, HandOut, ReadInt
    <2>4. QED
      BY <1>1, <1>3, <1>6, <2>1, <2>3, IntKeeps DEF MergeInt
  <1>7. QED
    BY <1>4, <1>5, <1>6 DEF AddValueMerge

\* A fresh store holds nothing.
LEMMA EmptyHolds == Holding(M!NewMap, 0, NewCache, {})
  <1> DEFINE m == M!NewMap
  <1>1. m.chunks = <<>> /\ m.tail = 0 /\ m \in [chunks : Seq(ByteChunk), tail : Nat, persisted : {FALSE}]
    BY DEF M!NewMap
  <1> HIDE DEF m
  <1>2. chunk_size_ \in Nat /\ Len(m.chunks) = 0
    BY <1>1, ValuesAssumption
  <1>3. MapInv(m)
    <2>1. Len(m.chunks) * chunk_size_ = 0
      BY <1>2
    <2>2. m.tail <= Len(m.chunks) * chunk_size_
      BY <1>1, <2>1
    <2>3. QED
      BY <1>1, <2>2 DEF MapInv
  <1>4. CacheInv(NewCache, Pointers({}))
    BY PointersEntries, NewCacheInv
  <1>5. QED
    BY <1>1, <1>3, <1>4 DEF Holding, m

\* What is written can be read.
LEMMA WrittenInv ==
  ASSUME Holding(memory, values_buffer_size_, hash_, handed)
  PROVE  FileInv(Written)
  <1>1. MapInv(memory) /\ values_buffer_size_ = memory.tail
        /\ \A p \in handed : Leads(Content(memory), p)
    BY DEF Holding
  <1>2. M!Write(M!Persist(memory), values_buffer_size_) = Content(memory)
    BY <1>1, WriteIs
  <1>3. Content(memory) \in Text /\ Len(Content(memory)) = values_buffer_size_
    BY <1>1, InContent
  <1> DEFINE f == Written
  <1>4. /\ f = [size |-> f.size, pts |-> f.pts, bytes |-> f.bytes]
        /\ f.size = values_buffer_size_ /\ f.pts = handed /\ f.bytes = Content(memory)
    BY <1>2 DEF Written
  <1> HIDE DEF f
  <1>5. FileInv(f)
    BY <1>1, <1>3, <1>4 DEF FileInv, Text
  <1>6. QED
    BY <1>5 DEF f

-----------------------------------------------------------------------------
\* Files one behind the other

FilesInv ==
  /\ files = [i \in 1 .. Len(files) |-> files[i]] /\ Len(files) \in Nat
  /\ \A i \in 1 .. Len(files) : FileInv(files[i])

\* h[n] is what is in the first n files.
Row(h) ==
  /\ h[0] = <<>> /\ \A n \in 0 .. Len(files) : h[n] \in Text
  /\ \A n \in 1 .. Len(files) : h[n] = h[n - 1] \o files[n].bytes

LEMMA PayloadsAre ==
  ASSUME FilesInv
  PROVE  \E h : Row(h) /\ Payloads = h[Len(files)]
  <1> DEFINE N == Len(files)
             S == [n \in 0 .. N |-> Text]
             step == [n \in 1 .. N |-> [x \in Text |-> x \o files[n].bytes]]
             bytes[n \in 0 .. N] == IF n = 0 THEN <<>> ELSE bytes[n - 1] \o files[n].bytes
  <1>1. N \in Nat /\ \A n \in 1 .. N : files[n].bytes \in Text
    BY DEF FilesInv, FileInv, Text
  <1>2. Payloads = bytes[N]
    BY DEF Payloads
  <1>3. <<>> \in Text
    BY DEF Text
  <1>4. S[0] = Text /\ \A n \in 1 .. N : S[n] = Text /\ S[n - 1] = Text
    BY <1>1
  <1>5. \A n \in 1 .. N : \A x \in Text : step[n][x] = x \o files[n].bytes
    OBVIOUS
  <1>6. \A n \in 1 .. N : \A x \in S[n - 1] : step[n][x] \in S[n]
    <2> HIDE DEF S, step, N
    <2>1. ASSUME NEW n \in 1 .. N, NEW x \in Text PROVE step[n][x] \in Text
      <3>1. step[n][x] = x \o files[n].bytes /\ files[n].bytes \in Text
        BY <1>1, <1>5
      <3>2. QED
        BY <3>1, Joined
    <2>2. QED
      BY <1>4, <2>1
  <1> HIDE DEF S, step, N
  <1>7. PICK g : Recursive(g, N, <<>>, step) /\ \A n \in 0 .. N : g[n] \in S[n]
    BY <1>1, <1>3, <1>4, <1>6, Recursion
  <1>8. \A n \in 0 .. N : n # 0 => n \in 1 .. N /\ n - 1 \in 0 .. N
    BY <1>1
  <1>9. \A n \in 0 .. N : g[n] \in Text
    BY <1>4, <1>7, <1>8
  <1>10. g = [n \in 0 .. N |-> IF n = 0 THEN <<>> ELSE g[n - 1] \o files[n].bytes]
    <2>1. \A n \in 0 .. N : n # 0 => step[n][g[n - 1]] = g[n - 1] \o files[n].bytes
      BY <1>5, <1>8, <1>9
    <2>2. QED
      BY <1>7, <2>1, Zenon DEF Recursive
  <1>11. bytes = [n \in 0 .. N |-> IF n = 0 THEN <<>> ELSE bytes[n - 1] \o files[n].bytes]
    BY <1>10, Zenon
  <1> HIDE DEF bytes
  <1> DEFINE T == {n \in 0 .. N : bytes[n] \in Text}
  <1>12. 0 \in T
    BY <1>1, <1>3, <1>11
  <1>13. ASSUME NEW n \in 1 .. N, n - 1 \in T PROVE n \in T
    <2>1. n \in 0 .. N /\ n # 0
      BY <1>1
    <2>2. bytes[n] = bytes[n - 1] \o files[n].bytes
      BY <1>11, <2>1
    <2>3. QED
      BY <1>1, <1>13, <2>1, <2>2, Joined
  <1>14. \A n \in 0 .. N : n \in T
    <2> HIDE DEF T
    <2>1. QED
      BY <1>1, <1>12, <1>13, Induction
  <1>15. bytes[0] = <<>> /\ \A n \in 1 .. N : bytes[n] = bytes[n - 1] \o files[n].bytes
    <2>1. 0 \in 0 .. N /\ \A n \in 1 .. N : n \in 0 .. N /\ n # 0
      BY <1>1
    <2>2. QED
      BY <1>11, <2>1
  <1>16. Row(bytes)
    BY <1>14, <1>15 DEF Row, N
  <1>17. QED
    BY <1>2, <1>16 DEF N

\* An offset is the length of what comes before.
LEMMA OffsetIs ==
  ASSUME FilesInv, NEW h, Row(h), NEW i \in 1 .. Len(files) + 1
  PROVE  Offset(i) = Len(h[i - 1])
  <1> DEFINE N == i - 1
             size[n \in 0 .. N] == IF n = 0 THEN 0 ELSE size[n - 1] + files[n].size
             g == [n \in 0 .. N |-> Len(h[n])]
             T == {n \in 0 .. N : size[n] = Len(h[n])}
  <1>1. N \in Nat /\ N <= Len(files) /\ Len(files) \in Nat
    BY DEF FilesInv
  <1>2. Offset(i) = size[N]
    BY DEF Offset
  <1>3. Len(h[0]) = 0
    BY DEF Row
  <1>4. \A n \in 1 .. N : n - 1 \in 0 .. N /\ Len(h[n]) = Len(h[n - 1]) + files[n].size
    <2>1. TAKE n \in 1 .. N
    <2>2. n \in 1 .. Len(files) /\ n - 1 \in 0 .. Len(files) /\ n - 1 \in 0 .. N
      BY <1>1
    <2>3. FileInv(files[n])
      BY <2>2 DEF FilesInv
    <2>4. files[n].bytes \in Seq(Nat) /\ files[n].size = Len(files[n].bytes)
      BY <2>3 DEF FileInv
    <2>5. h[n] = h[n - 1] \o files[n].bytes /\ h[n - 1] \in Seq(Nat)
      BY <2>2 DEF Row, Text
    <2>6. QED
      BY <2>2, <2>4, <2>5
  <1> HIDE DEF N
  <1>5. \A n \in 0 .. N : n # 0 => n \in 1 .. N
    BY <1>1
  <1>6. g = [n \in 0 .. N |-> IF n = 0 THEN 0 ELSE g[n - 1] + files[n].size]
    <2>1. \A n \in 0 .. N : Len(h[n]) = IF n = 0 THEN 0 ELSE g[n - 1] + files[n].size
      <3>1. TAKE n \in 0 .. N
      <3>2. CASE n = 0
        BY <1>3, <3>2
      <3>3. CASE n # 0
        <4>1. n - 1 \in 0 .. N /\ Len(h[n]) = Len(h[n - 1]) + files[n].size
          BY <1>4, <1>5, <3>3
        <4>2. QED
          BY <3>3, <4>1
      <3>4. QED
        BY <3>2, <3>3
    <2>2. QED
      BY <2>1, Zenon
  <1> HIDE DEF g
  <1>7. size = [n \in 0 .. N |-> IF n = 0 THEN 0 ELSE size[n - 1] + files[n].size]
    BY <1>6, Zenon
  <1> HIDE DEF size
  <1>8. 0 \in T
    BY <1>1, <1>3, <1>7
  <1>9. ASSUME NEW n \in 1 .. N, n - 1 \in T PROVE n \in T
    <2>1. n \in 0 .. N /\ n # 0
      BY <1>1
    <2>2. size[n] = size[n - 1] + files[n].size
      BY <1>7, <2>1
    <2>3. QED
      BY <1>4, <1>9, <2>1, <2>2
  <1>10. N \in T
    <2>1. N \in 0 .. N
      BY <1>1
    <2> HIDE DEF T
    <2>2. QED
      BY <1>1, <1>8, <1>9, <2>1, Induction
  <1>11. QED
    BY <1>2, <1>10 DEF N

\* What is in a file is in the row of all, behind its offset.
LEMMA PlacedInRow ==
  ASSUME FilesInv, NEW h, Row(h), NEW i \in 1 .. Len(files), NEW pt, NEW w \in Text,
         Placed(files[i].bytes, pt, w)
  PROVE  Placed(h[Len(files)], Len(h[i - 1]) + pt, w)
  <1> DEFINE N == Len(files)
             T == {n \in 0 .. N : n >= i => Placed(h[n], Len(h[i - 1]) + pt, w)}
  <1>1. N \in Nat /\ \A n \in 1 .. N : files[n].bytes \in Text
    BY DEF FilesInv, FileInv, Text
  <1>2. /\ \A n \in 0 .. N : h[n] \in Text
        /\ \A n \in 1 .. N : h[n] = h[n - 1] \o files[n].bytes
    BY DEF Row
  <1> HIDE DEF N
  <1>3. i \in 1 .. N
    BY DEF N
  <1>4. 0 \in T
    BY <1>1, <1>3
  <1>5. ASSUME NEW n \in 1 .. N, n - 1 \in T PROVE n \in T
    <2>1. n \in 0 .. N /\ n - 1 \in 0 .. N /\ h[n - 1] \in Text /\ files[n].bytes \in Text
          /\ h[n] = h[n - 1] \o files[n].bytes
      <3>1. n \in 0 .. N /\ n - 1 \in 0 .. N
        BY <1>1
      <3>2. files[n].bytes \in Text
        BY <1>1
      <3>3. h[n] = h[n - 1] \o files[n].bytes
        BY <1>2
      <3>4. h[n - 1] \in Text
        BY <1>2, <3>1
      <3>5. QED
        BY <3>1, <3>2, <3>3, <3>4
    <2>2. CASE n < i
      BY <1>1, <1>3, <2>1, <2>2
    <2>3. CASE n = i
      BY <2>1, <2>3, PlacedBehind
    <2>4. CASE n > i
      <3>1. Placed(h[n - 1], Len(h[i - 1]) + pt, w)
        BY <1>3, <1>5, <2>1, <2>4
      <3>2. QED
        BY <2>1, <3>1, PlacedStays
    <2>5. QED
      BY <1>3, <2>2, <2>3, <2>4
  <1>6. N \in T
    <2>1. N \in 0 .. N
      BY <1>1
    <2> HIDE DEF T
    <2>2. QED
      BY <1>1, <1>4, <1>5, <2>1, Induction
  <1>7. N >= i
    BY <1>1, <1>3
  <1>8. QED
    BY <1>6, <1>7 DEF N

\* The pointers of an append merge lead to their values.
LEMMA MergedInv ==
  ASSUME StoreInv, NEW merged,
         merged = [size  |-> Offset(Len(files) + 1),
                   bytes |-> Payloads,
                   pts   |-> UNION {{<<p[1], AddValueAppendMerge(i, p[2])>> : p \in files[i].pts}
                                      : i \in DOMAIN files}]
  PROVE  FileInv(merged)
  <1>1. FilesInv
    BY DEF StoreInv, FilesInv
  <1>2. PICK h : Row(h) /\ Payloads = h[Len(files)]
    BY <1>1, PayloadsAre
  <1>3. Len(files) \in Nat /\ h[Len(files)] \in Text
    BY <1>1, <1>2 DEF FilesInv, Row
  <1>4. Offset(Len(files) + 1) = Len(Payloads)
    <2>1. Len(files) + 1 \in 1 .. Len(files) + 1 /\ (Len(files) + 1) - 1 = Len(files)
      BY <1>3
    <2>2. QED
      BY <1>1, <1>2, <2>1, OffsetIs
  <1>5. ASSUME NEW q \in merged.pts PROVE Leads(Payloads, q)
    <2>1. PICK i \in DOMAIN files : \E p \in files[i].pts : q = <<p[1], AddValueAppendMerge(i, p[2])>>
      OBVIOUS
    <2>2. PICK p \in files[i].pts : q = <<p[1], AddValueAppendMerge(i, p[2])>>
      BY <2>1
    <2>3. i \in 1 .. Len(files)
      BY <1>1 DEF FilesInv
    <2>4. Leads(files[i].bytes, p)
      BY <1>1, <2>3 DEF FilesInv, FileInv
    <2>5. q[1] = p[1] /\ q[2] = AddValueAppendMerge(i, p[2]) /\ q = <<q[1], q[2]>>
      BY <2>2
    <2>6. CASE kind = "int"
      BY <2>4, <2>5, <2>6 DEF Leads, AddValueAppendMerge
    <2>7. CASE kind # "int"
      <3>1. PICK w \in Text : /\ Storable(w) /\ Means(p[1], w) /\ Stored(w) \in Text
                              /\ Placed(files[i].bytes, p[2], Stored(w))
        BY <2>4, <2>7, LeadsIs
      <3>2. Offset(i) = Len(h[i - 1])
        <4>1. i \in 1 .. Len(files) + 1
          BY <1>3, <2>3
        <4>2. QED
          BY <1>1, <1>2, <4>1, OffsetIs
      <3>3. q[2] = Len(h[i - 1]) + p[2]
        BY <2>5, <2>7, <3>2 DEF AddValueAppendMerge
      <3>4. Placed(Payloads, q[2], Stored(w))
        BY <1>1, <1>2, <2>3, <2>5, <3>1, <3>3, PlacedInRow
      <3>5. q[2] \in Nat
        BY <3>4 DEF Placed
      <3>6. QED
        BY <2>4, <2>5, <2>7, <3>1, <3>4, <3>5 DEF Leads
    <2>8. QED
      BY <2>6, <2>7
  <1>6. merged = [size |-> merged.size, pts |-> merged.pts, bytes |-> merged.bytes]
        /\ merged.size = Offset(Len(files) + 1) /\ merged.bytes = Payloads
    OBVIOUS
  <1>7. QED
    BY <1>2, <1>3, <1>4, <1>5, <1>6 DEF FileInv, Text

-----------------------------------------------------------------------------
\* The theorems

\* A file more is behind the others.
LEMMA FilesGrow ==
  ASSUME StoreInv, NEW f, FileInv(f), files' = Append(files, f)
  PROVE  /\ files' = [i \in 1 .. Len(files') |-> files'[i]] /\ Len(files') \in Nat
         /\ \A i \in 1 .. Len(files') : FileInv(files'[i])
  <1> DEFINE Good == {g \in {files[i] : i \in 1 .. Len(files)} \cup {f} : FileInv(g)}
             t == Append(files, f)
  <1>1. files = [i \in 1 .. Len(files) |-> files[i]] /\ Len(files) \in Nat
        /\ \A i \in 1 .. Len(files) : files[i] \in Good
    BY DEF StoreInv
  <1>2. f \in Good /\ \A g \in Good : FileInv(g)
    OBVIOUS
  <1> HIDE DEF Good
  <1>3. files \in Seq(Good)
    BY <1>1, IsASeq
  <1>4. t \in Seq(Good)
    BY <1>2, <1>3
  <1> HIDE DEF t
  <1>5. t = [i \in 1 .. Len(t) |-> t[i]] /\ Len(t) \in Nat /\ \A i \in 1 .. Len(t) : t[i] \in Good
    BY <1>4
  <1>6. t = [i \in 1 .. Len(t) |-> t[i]] /\ Len(t) \in Nat /\ \A i \in 1 .. Len(t) : FileInv(t[i])
    BY <1>2, <1>5
  <1>7. files' = t
    BY DEF t
  <1>8. QED
    BY <1>6, <1>7

LEMMA StoreInit == Init => StoreInv
  <1>1. SUFFICES ASSUME Init PROVE StoreInv
    OBVIOUS
  <1>2. Holding(memory, values_buffer_size_, hash_, handed)
    BY <1>1, EmptyHolds DEF Init, EmptyStore
  <1>3. files = [i \in 1 .. Len(files) |-> files[i]] /\ Len(files) = 0
    BY <1>1 DEF Init
  <1>4. QED
    BY <1>1, <1>2, <1>3 DEF Init, StoreInv

LEMMA StoreNext == StoreInv /\ [Next]_vars => StoreInv'
  <1>1. SUFFICES ASSUME StoreInv, [Next]_vars PROVE StoreInv'
    OBVIOUS
  <1>2. /\ kind \in {"string", "json", "vector", "int"} /\ phase \in {"feed", "merge", "done"}
        /\ Holding(memory, values_buffer_size_, hash_, handed)
        /\ files = [i \in 1 .. Len(files) |-> files[i]] /\ Len(files) \in Nat
        /\ \A i \in 1 .. Len(files) : FileInv(files[i])
    BY <1>1 DEF StoreInv
  <1>3. ASSUME NEW v \in Values, AddValue(v) PROVE StoreInv'
    <2>1. Holding(memory', values_buffer_size_', hash_', handed')
      BY <1>1, <1>3, AddValueKeeps
    <2>2. kind' = kind /\ phase' = phase /\ files' = files
      BY <1>3 DEF AddValue
    <2>3. QED
      BY <1>2, <2>1, <2>2, StoreStays
  <1>4. CASE CloseAndWrite
    <2>1. Holding(memory', values_buffer_size_', hash_', handed')
      BY <1>4, EmptyHolds DEF CloseAndWrite, FreshStore
    <2>2. kind' = kind /\ phase' \in {"feed", "merge", "done"} /\ files' = Append(files, Written)
      BY <1>4 DEF CloseAndWrite
    <2>3. FileInv(Written)
      BY <1>2, WrittenInv
    <2>4. QED
      BY <1>1, <1>2, <2>1, <2>2, <2>3, FilesGrow, StoreStays
  <1>5. ASSUME NEW i \in DOMAIN files, NEW p \in files[i].pts, AddValueMerge(files[i], p)
        PROVE  StoreInv'
    <2>1. FileInv(files[i])
      BY <1>2
    <2>2. Holding(memory', values_buffer_size_', hash_', handed')
      BY <1>1, <1>5, <2>1, AddValueMergeKeeps
    <2>3. kind' = kind /\ phase' = phase /\ files' = files
      BY <1>5 DEF AddValueMerge
    <2>4. QED
      BY <1>2, <2>2, <2>3, StoreStays
  <1>6. CASE FinishMerge
    <2>1. /\ kind' = kind /\ phase' \in {"feed", "merge", "done"} /\ files' = Append(files, Written)
          /\ memory' = memory /\ values_buffer_size_' = values_buffer_size_
          /\ hash_' = hash_ /\ handed' = handed
      BY <1>6 DEF FinishMerge
    <2>2. FileInv(Written)
      BY <1>2, WrittenInv
    <2>3. QED
      BY <1>1, <1>2, <2>1, <2>2, FilesGrow, StoreStays
  <1>7. CASE AppendMerge
    <2> DEFINE merged == [size  |-> Offset(Len(files) + 1),
                          bytes |-> Payloads,
                          pts   |-> UNION {{<<p[1], AddValueAppendMerge(i, p[2])>> : p \in files[i].pts}
                                             : i \in DOMAIN files}]
    <2>1. /\ kind' = kind /\ phase' \in {"feed", "merge", "done"} /\ files' = Append(files, merged)
          /\ memory' = memory /\ values_buffer_size_' = values_buffer_size_
          /\ hash_' = hash_ /\ handed' = handed
      BY <1>7 DEF AppendMerge
    <2>2. FileInv(merged)
      BY <1>1, MergedInv
    <2> HIDE DEF merged
    <2>3. QED
      BY <1>1, <1>2, <2>1, <2>2, FilesGrow, StoreStays
  <1>8. CASE UNCHANGED vars
    BY <1>2, <1>8, StoreStays DEF vars
  <1>9. QED
    BY <1>1, <1>3, <1>4, <1>5, <1>6, <1>7, <1>8 DEF Next

\* What a store has in memory, in its cache and in the files it wrote stays
\* consistent: each pointer is followed by the bytes of its value, or of a longer
\* one if it is that of a string at the limit, and the cache has no other entries
\* than such pointers, whatever the sizes of its tables (json_value_store.h,
\* string_value_store.h, minimization_hash.h, memory_map_manager.h).
THEOREM StoreInvariant == Spec => []StoreInv
  <1>1. Init => StoreInv
    BY StoreInit
  <1>2. StoreInv /\ [Next]_vars => StoreInv'
    BY StoreNext
  <1>3. QED
    BY <1>1, <1>2, PTL DEF Spec

\* The value that a pointer was handed out for is what is read back with it, in
\* the store and in every file it ends up in, whichever values are equal, share a
\* bucket of the cache, or cross the border of a chunk, and however the files are
\* merged; a file has as many bytes as its header says.  Exceptions are strings at
\* the limit (MayRead) and a cache whose table ran over (AddValue, AddValueMerge,
\* Write, GetValueAsString).
THEOREM ReadsBackTheorem == Spec => []ReadsBack
  <1>1. StoreInv => ReadsBack
    <2>1. SUFFICES ASSUME StoreInv PROVE ReadsBack
      OBVIOUS
    <2>2. ASSUME NEW p \in handed
          PROVE  MayRead(p[1], ReadValue(M!Write(memory, values_buffer_size_), p[2]))
      <3>1. MapInv(memory) /\ values_buffer_size_ = memory.tail /\ Leads(Content(memory), p)
        BY <2>1 DEF StoreInv, Holding
      <3>2. M!Write(memory, values_buffer_size_) = Content(memory) /\ Content(memory) \in Text
        BY <3>1, WriteIs, InContent
      <3>3. QED
        BY <2>1, <3>1, <3>2, LeadsReads DEF StoreInv
    <2>3. ASSUME NEW i \in DOMAIN files
          PROVE  /\ files[i].size = Len(files[i].bytes)
                 /\ \A p \in files[i].pts : MayRead(p[1], ReadValue(files[i].bytes, p[2]))
      <3>1. FileInv(files[i]) /\ kind \in {"string", "json", "vector", "int"}
        BY <2>1 DEF StoreInv
      <3>2. files[i].size = Len(files[i].bytes) /\ files[i].bytes \in Text
            /\ \A p \in files[i].pts : Leads(files[i].bytes, p)
        BY <3>1 DEF FileInv, Text
      <3>3. QED
        BY <3>1, <3>2, LeadsReads
    <2>4. QED
      BY <2>2, <2>3 DEF ReadsBack
  <1>2. QED
    BY <1>1, StoreInvariant, PTL

\* No chunk is ever mapped behind the last appended byte, not when equal values
\* are looked for either, so that cutting the last file never comes to a negative
\* size or to one behind its end (GetBuffer, Compare, Persist).
THEOREM NoChunkTheorem == Spec => []NoChunkBehindTail
  <1>1. StoreInv => NoChunkBehindTail
    BY WriteIs DEF StoreInv, Holding, NoChunkBehindTail
  <1>2. QED
    BY <1>1, StoreInvariant, PTL

LEMMA AddValueFinds ==
  ASSUME StoreInv, FoundInv, NEW v \in Values, AddValue(v)
  PROVE  FoundInv'
  <1>1. Holding(memory, values_buffer_size_, hash_, handed) /\ kind \in {"string", "json", "vector", "int"}
    BY DEF StoreInv
  <1>2. v \in Text /\ Len(v) <= chunk_size_
    BY ValuesAssumption DEF Text
  <1>3. phase = "feed" /\ phase' = "feed" /\ kind' = kind /\ minimize_' = minimize_
    BY DEF AddValue
  <1>4. CASE ~minimize_
    BY <1>3, <1>4 DEF FoundInv
  <1>5. ASSUME minimize_, kind # "int", Storable(v), AddMinimized(v, Stored(v)) PROVE FoundInv'
    <2>1. NothingLost(hash_) => Kept(hash_, handed)
      BY <1>3, <1>5 DEF FoundInv
    <2>2. NothingLost(hash_') => Kept(hash_', handed')
      BY <1>1, <1>5, <2>1, AddMinimizedFinds
    <2>3. QED
      BY <1>3, <1>5, <2>2 DEF FoundInv, Kept, Once, Single, AllFound, AtLimit
  <1>6. CASE minimize_ /\ AddString(v)
    <2>1. Storable(v)
      BY <1>2, <1>6 DEF AddString, Storable
    <2>2. AddMinimized(v, Stored(v)) /\ kind # "int"
      BY <1>2, <1>6, StoredIs DEF AddString
    <2>3. QED
      BY <1>5, <1>6, <2>1, <2>2
  <1>7. CASE minimize_ /\ (AddJson(v) \/ AddVector(v))
    <2>1. kind \in {"json", "vector"}
      BY <1>7 DEF AddJson, AddVector
    <2>2. Storable(v) /\ Stored(v) = Prefixed(v)
      BY <1>2, <2>1, StoredIs DEF Storable
    <2>3. AddMinimized(v, Stored(v))
      BY <1>7, <2>2 DEF AddJson, AddVector
    <2>4. QED
      BY <1>5, <1>7, <2>1, <2>2, <2>3
  <1>8. CASE minimize_ /\ AddInt(v)
    <2>1. kind = "int" /\ handed' = handed \cup {<<v, v[1]>>} /\ hash_' = hash_
      BY <1>8 DEF AddInt, HandOut
    <2>2. ASSUME NEW p \in handed, p[1] = v PROVE p = <<v, v[1]>>
      BY <1>1, <2>1, <2>2 DEF Holding, Leads
    <2>3. NothingLost(hash_) => Once(handed)
      BY <1>3, <1>8, <2>1 DEF FoundInv
    <2> DEFINE q == <<v, v[1]>>
    <2>4. q[1] = v /\ handed' = handed \cup {q} /\ \A p \in handed : p[1] = v => p = q
      BY <2>1, <2>2
    <2> HIDE DEF q
    <2>5. NothingLost(hash_') => Once(handed')
      BY <2>1, <2>3, <2>4 DEF Once
    <2>6. QED
      BY <1>3, <2>1, <2>5 DEF FoundInv, Once, AtLimit
  <1>9. QED
    BY <1>4, <1>6, <1>7, <1>8 DEF AddValue

LEMMA FoundNext == StoreInv /\ FoundInv /\ [Next]_vars => FoundInv'
  <1>1. SUFFICES ASSUME StoreInv, FoundInv, [Next]_vars PROVE FoundInv'
    OBVIOUS
  <1>2. ASSUME NEW v \in Values, AddValue(v) PROVE FoundInv'
    BY <1>1, <1>2, AddValueFinds
  <1>3. CASE CloseAndWrite
    <2>1. handed' = {}
      BY <1>3 DEF CloseAndWrite, FreshStore
    <2>2. QED
      BY <2>1 DEF FoundInv, Kept, Once, Single, AllFound
  <1>4. ASSUME NEW i \in DOMAIN files, NEW p \in files[i].pts, AddValueMerge(files[i], p)
        PROVE  FoundInv'
    BY <1>4 DEF AddValueMerge, FoundInv
  <1>5. CASE FinishMerge \/ AppendMerge
    BY <1>5 DEF FinishMerge, AppendMerge, FoundInv
  <1>6. CASE UNCHANGED vars
    BY <1>1, <1>6 DEF vars, FoundInv, Kept, Once, Single, AllFound, AtLimit
  <1>7. QED
    BY <1>1, <1>2, <1>3, <1>4, <1>5, <1>6 DEF Next

\* As long as the cache dropped nothing no value is stored twice, but a string at
\* the limit: of an equal value the cache still has the pointer, in the bucket of
\* its hash code and on the way from there through the cookies, after every
\* growth of a table and every move between generations, and the comparison
\* recognizes the value
\* (AddValue, LeastRecentlyUsedGenerationsCache, MinimizationHash::GetAndMove,
\* GrowAndRehash, RawPointerForCompare).
THEOREM FoundAgainTheorem == Spec => []FoundAgain
  <1>1. Init => FoundInv
    BY DEF Init, EmptyStore, FoundInv, Kept, Once, Single, AllFound
  <1>2. StoreInv /\ FoundInv /\ [Next]_vars => FoundInv'
    BY FoundNext
  <1>3. FoundInv => FoundAgain
    BY DEF FoundInv, FoundAgain, Kept, Once
  <1>4. QED
    BY <1>1, <1>2, <1>3, StoreInvariant, PTL DEF Spec
=============================================================================
