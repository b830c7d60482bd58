----------------------- MODULE DictionaryMergerProofs -----------------------
(***************************************************************************)
(* The merge loop of dictionary_merger.h computes MergedDictionary, feeds  *)
(* the generator in order and counts right, for any number of inputs, any  *)
(* keys and any .dk lists.                                                 *)
(*                                                                         *)
(* The argument: between two iterations every iterator points to the first *)
(* key of its dictionary behind top_key (Positions), so the key popped     *)
(* next is the smallest that is left and comes from its most recent input. *)
(* A key is past when the loop has dealt with it, and gone when it was not *)
(* written.  A list of deleted keys that still holds a key that is gone    *)
(* also holds a smaller one that is not (Lists): it is stuck there.  Hence *)
(* the keys that are gone are closed in the sense of Droppable (Dropping), *)
(* and no larger set is (Keeping).                                         *)
(***************************************************************************)
EXTENDS DictionaryMerger, FiniteSetTheorems, WellFoundedInduction, TLAPS

-----------------------------------------------------------------------------
\* Least and greatest members of sets of numbers

LEMMA LeastOf ==
    ASSUME NEW S \in SUBSET Nat, S # {}
    PROVE  \E m \in S : \A n \in S : m <= n
  <1>1. PICK m \in S : \A n \in S : ~(<<n, m>> \in OpToRel(<, Nat))
    BY NatLessThanWellFounded, WFMin
  <1>2. \A n \in S : ~(n < m)
    BY <1>1 DEF OpToRel
  <1>3. QED
    BY <1>2

LEMMA MinOf ==
    ASSUME NEW S \in SUBSET Nat, S # {}
    PROVE  Min(S) \in S /\ \A n \in S : Min(S) <= n
  BY LeastOf DEF Min

LEMMA GreatestInput ==
    ASSUME NEW S \in SUBSET Inputs, S # {}
    PROVE  \E m \in S : \A n \in S : n <= m
  <1> DEFINE T == {N - n : n \in S}
  <1>1. \A n \in S : n \in Nat /\ N - n \in Nat
    BY NAssumption DEF Inputs
  <1>2. T \in SUBSET Nat /\ T # {}
    BY <1>1
  <1>3. PICK t \in T : \A u \in T : t <= u
    BY <1>2, LeastOf
  <1>4. PICK m \in S : t = N - m
    BY <1>3
  <1>5. \A n \in S : N - m <= N - n
    BY <1>3, <1>4
  <1>6. QED
    BY <1>1, <1>5, NAssumption

-----------------------------------------------------------------------------

MergerType ==
    /\ dicts \in [Inputs -> SUBSET Keys] /\ dk \in [Inputs -> SUBSET Keys]
    /\ added \in 0..N /\ segments_pqueue \subseteq Inputs
    /\ at \in [Inputs -> Keys \cup {End}]
    /\ deleted_keys \in [Inputs -> SUBSET Keys]
    /\ segment_it \in Inputs \cup {0} /\ top_key \in Keys \cup {End}
    /\ output \in Seq(Keys \X Inputs)
    /\ stats \in [number_of_keys : Nat, deleted_keys : Nat, updated_keys : Nat]
    /\ pc \in {"add", "pop", "skip", "done"}

\* a is the first key of input i behind k.
Follows(i, k, a) ==
    IF \E x \in dicts[i] : x > k
    THEN a \in dicts[i] /\ a > k /\ \A x \in dicts[i] : x > k => a <= x
    ELSE a = End

\* i is the most recent input with the key.
Owner(k, i) == i \in Inputs /\ k \in dicts[i] /\ \A j \in Inputs : k \in dicts[j] => j <= i

Known(k) == \E i \in Inputs : k \in dicts[i]

Past(k) == k < top_key \/ (k = top_key /\ pc \in {"pop", "done"})

Written(k) == \E n \in 1..Len(output) : output[n][1] = k

Gone(k) == Known(k) /\ Past(k) /\ ~Written(k)

Positions ==
    /\ pc = "add" =>
         /\ top_key = End /\ output = <<>>
         /\ \A i \in Inputs : IF i <= added THEN Follows(i, 0, at[i]) ELSE at[i] = End
    /\ pc # "add" => added = N
    /\ pc \in {"pop", "done"} => \A i \in Inputs : Follows(i, top_key, at[i])
    /\ pc = "skip" =>
         /\ Owner(top_key, segment_it) /\ at[segment_it] = top_key
         /\ \A i \in Inputs \ {segment_it} :
               \/ Follows(i, top_key, at[i])
               \/ at[i] = top_key /\ top_key \in dicts[i]
    /\ pc = "done" => segments_pqueue = {}

Queued ==
    \A i \in Inputs : i \in segments_pqueue <=> at[i] # End /\ ~(pc = "skip" /\ i = segment_it)

Lists ==
    \A i \in Inputs :
        /\ deleted_keys[i] \subseteq dk[i]
        /\ i <= added /\ dicts[i] # {} => \A j \in dk[i] : j \in deleted_keys[i] \/ Gone(j)
        /\ \A j \in deleted_keys[i] : Gone(j) => \E m \in deleted_keys[i] : m < j /\ ~Gone(m)

Dropping ==
    \A k \in Keys, i \in Inputs : Owner(k, i) /\ Gone(k) =>
        k \in dk[i] /\ \A j \in dk[i] : j < k => Gone(j)

Keeping ==
    \A k \in Keys, i \in Inputs : Owner(k, i) /\ Written(k) =>
        k \notin dk[i] \/ \E j \in dk[i] : j < k /\ ~Gone(j)

Outputs ==
    \A n \in 1..Len(output) : Owner(output[n][1], output[n][2]) /\ Past(output[n][1])

-----------------------------------------------------------------------------
\* The helpers of the loop

LEMMA KeysAreNumbers == Keys \subseteq Nat /\ End \in Nat /\ End \notin Keys
  BY KeysAssumption DEF End

LEMMA AdvanceFollows ==
    ASSUME dicts \in [Inputs -> SUBSET Keys], NEW i \in Inputs, NEW k \in Nat
    PROVE  Follows(i, k, Advance(i, k)) /\ Advance(i, k) \in Keys \cup {End}
  <1> DEFINE rest == {j \in dicts[i] : j > k}
  <1>1. CASE rest = {}
    BY <1>1 DEF Advance, Follows
  <1>2. CASE rest # {}
    <2>1. rest \in SUBSET Nat /\ dicts[i] \subseteq Keys
      BY KeysAssumption
    <2>2. Min(rest) \in rest /\ \A n \in rest : Min(rest) <= n
      BY <1>2, <2>1, MinOf
    <2>3. Advance(i, k) = Min(rest)
      BY <1>2 DEF Advance
    <2>4. QED
      BY <2>1, <2>2, <2>3 DEF Follows
  <1>3. QED
    BY <1>1, <1>2

\* The smallest key in the queue, and of those with this key the most recent
LEMMA TopIs ==
    ASSUME MergerType, Queued, segments_pqueue # {}
    PROVE  /\ Top \in segments_pqueue
           /\ \A j \in segments_pqueue : at[Top] <= at[j] /\ (at[j] = at[Top] => j <= Top)
  <1> DEFINE A == {at[i] : i \in segments_pqueue}
  <1>1. segments_pqueue \subseteq Inputs /\ Inputs \subseteq Nat
    BY NAssumption DEF MergerType, Inputs
  <1>2. \A i \in segments_pqueue : at[i] \in Nat
    BY <1>1, KeysAssumption DEF MergerType, Queued, End
  <1>3. A \in SUBSET Nat /\ A # {}
    BY <1>2
  <1>4. PICK a \in A : \A b \in A : a <= b
    BY <1>3, LeastOf
  <1> DEFINE S == {i \in segments_pqueue : at[i] = a}
  <1>5. S \in SUBSET Inputs /\ S # {}
    BY <1>1, <1>4
  <1>6. PICK m \in S : \A n \in S : n <= m
    BY <1>5, GreatestInput
  <1>7. m \in segments_pqueue /\ \A j \in segments_pqueue \ {m} : Less(j, m)
    <2>1. ASSUME NEW j \in segments_pqueue \ {m} PROVE Less(j, m)
      <3>1. at[m] <= at[j] /\ at[m] \in Nat /\ at[j] \in Nat /\ j \in Nat /\ m \in Nat
        BY <1>1, <1>2, <1>4, <1>6
      <3>2. ~(j < m) => at[j] # at[m]
        BY <1>6, <3>1
      <3>3. QED
        BY <3>1, <3>2 DEF Less
    <2>2. QED
      BY <1>6, <2>1
  <1>8. Top \in segments_pqueue /\ \A j \in segments_pqueue \ {Top} : Less(j, Top)
    BY <1>7 DEF Top
  <1>9. ASSUME NEW j \in segments_pqueue
        PROVE  at[Top] <= at[j] /\ (at[j] = at[Top] => j <= Top)
    <2>1. at[Top] \in Nat /\ at[j] \in Nat /\ Top \in Nat /\ j \in Nat
      BY <1>1, <1>2, <1>8
    <2>2. CASE j = Top
      BY <2>1, <2>2
    <2>3. CASE j # Top
      BY <1>8, <2>1, <2>3 DEF Less
    <2>4. QED
      BY <2>2, <2>3
  <1>10. QED
    BY <1>8, <1>9

LEMMA BackIs ==
    ASSUME NEW list \in SUBSET Keys, NEW k \in Keys
    PROVE  /\ Back(list) = k => k \in list /\ \A j \in list : k <= j
           /\ k \in list /\ Back(list) # k => Back(list) \in list /\ Back(list) < k
                                              /\ \A j \in list : Back(list) <= j
  <1>1. CASE list = {}
    BY <1>1, KeysAssumption DEF Back, End
  <1>2. CASE list # {}
    <2>1. list \in SUBSET Nat /\ k \in Nat
      BY KeysAssumption
    <2>2. Min(list) \in list /\ \A n \in list : Min(list) <= n
      BY <1>2, <2>1, MinOf
    <2>3. PICK b \in list : b = Back(list) /\ \A n \in list : b <= n
      BY <1>2, <2>2 DEF Back
    <2>4. b \in Nat
      BY <2>1
    <2>5. QED
      BY <2>1, <2>3, <2>4
  <1>3. QED
    BY <1>1, <1>2

LEMMA OwnerIsNewest ==
    ASSUME MergerType, NEW k \in Keys, NEW i \in Inputs, Owner(k, i)
    PROVE  /\ HasKey(Inputs, Dict, k) /\ Newest(Inputs, Dict, Age, k) = i
           /\ Dict[i][k] = i
  <1>1. \A j \in Inputs : (Dict[j][k] # 0 <=> k \in dicts[j]) /\ Age[j] = j
                          /\ (k \in dicts[j] => Dict[j][k] = j) /\ j \in Nat
    BY NAssumption DEF Dict, Age, Inputs
  <1>2. Dict[i][k] # 0 /\ \A j \in Inputs : Dict[j][k] # 0 => Age[j] <= Age[i]
    BY <1>1 DEF Owner
  <1> DEFINE n == Newest(Inputs, Dict, Age, k)
  <1>3. n \in Inputs /\ Dict[n][k] # 0 /\ \A j \in Inputs : Dict[j][k] # 0 => Age[j] <= Age[n]
    BY <1>2 DEF Newest
  <1> HIDE DEF n
  <1>4. n <= i /\ i <= n
    BY <1>1, <1>2, <1>3
  <1>5. n = i
    BY <1>1, <1>3, <1>4
  <1>6. QED
    BY <1>1, <1>2, <1>5 DEF HasKey, Owner, n

LEMMA KnownHasOwner ==
    ASSUME MergerType, NEW k \in Keys, Known(k)
    PROVE  \E i \in Inputs : Owner(k, i)
  <1> DEFINE S == {i \in Inputs : k \in dicts[i]}
  <1>1. S \in SUBSET Inputs /\ S # {}
    BY DEF Known
  <1>2. PICK m \in S : \A n \in S : n <= m
    BY <1>1, GreatestInput
  <1>3. QED
    BY <1>2 DEF Owner

-----------------------------------------------------------------------------
\* The types

LEMMA TypeStep ==
    ASSUME MergerType, Queued, Positions, [Next]_vars
    PROVE  MergerType'
  <1>1. CASE UNCHANGED vars
    BY <1>1 DEF vars, MergerType
  <1>2. CASE Add
    <2>1. added + 1 \in Inputs /\ added + 1 \in 0..N
      BY <1>2, NAssumption DEF Add, MergerType, Inputs
    <2>2. Advance(added + 1, 0) \in Keys \cup {End}
      BY <2>1, AdvanceFollows DEF MergerType
    <2>3. at' \in [Inputs -> Keys \cup {End}] /\ deleted_keys' \in [Inputs -> SUBSET Keys]
      BY <1>2, <2>1, <2>2 DEF Add, MergerType
    <2>4. QED
      BY <1>2, <2>1, <2>3 DEF Add, MergerType, input
  <1>3. CASE Start \/ Finish
    BY <1>3 DEF Start, Finish, MergerType, input
  <1>4. CASE Pop
    <2>1. Top \in Inputs
      BY <1>4, TopIs DEF Pop, MergerType
    <2>2. QED
      BY <1>4, <2>1 DEF Pop, MergerType, input
  <1>5. CASE Skip
    <2>1. Top \in Inputs
      BY <1>5, TopIs DEF Skip, SameKeyQueued, MergerType
    <2>2. at[Top] \in Nat
      BY <2>1, KeysAreNumbers DEF MergerType
    <2>3. Advance(Top, at[Top]) \in Keys \cup {End}
      BY <2>1, <2>2, AdvanceFollows DEF MergerType
    <2>4. at' \in [Inputs -> Keys \cup {End}]
      BY <1>5, <2>1, <2>3 DEF Skip, MergerType
    <2>5. stats' \in [number_of_keys : Nat, deleted_keys : Nat, updated_keys : Nat]
      BY <1>5 DEF Skip, MergerType
    <2>6. QED
      BY <1>5, <2>4, <2>5 DEF Skip, MergerType, input
  <1>6. CASE Emit
    <2>1. segment_it \in Inputs /\ top_key \in Keys /\ top_key \in Nat
      BY <1>6, KeysAssumption DEF Emit, Positions, Owner, MergerType
    <2>2. Advance(segment_it, top_key) \in Keys \cup {End}
      BY <2>1, AdvanceFollows DEF MergerType
    <2>3. at' \in [Inputs -> Keys \cup {End}]
      BY <1>6, <2>2 DEF Emit, MergerType
    <2>4. deleted_keys' \in [Inputs -> SUBSET Keys]
      BY <1>6 DEF Emit, MergerType
    <2>5. Cardinality(ListsConsumed) \in Nat
      <3>1. IsFiniteSet(Inputs)
        BY NAssumption, FS_Interval DEF Inputs
      <3>2. ListsConsumed \subseteq Inputs
        BY DEF ListsConsumed
      <3>3. QED
        BY <3>1, <3>2, FS_Subset, FS_CardinalityType
    <2>6. stats' \in [number_of_keys : Nat, deleted_keys : Nat, updated_keys : Nat]
      BY <1>6, <2>5 DEF Emit, MergerType
    <2>7. output' \in Seq(Keys \X Inputs)
      <3>1. <<top_key, segment_it>> \in Keys \X Inputs
        BY <2>1
      <3>2. output' = output \/ output' = Append(output, <<top_key, segment_it>>)
        BY <1>6 DEF Emit
      <3>3. output \in Seq(Keys \X Inputs)
        BY DEF MergerType
      <3>4. QED
        BY <3>1, <3>2, <3>3
    <2>8. segments_pqueue' \subseteq Inputs
      BY <1>6, <2>1 DEF Emit, MergerType
    <2>9. QED
      BY <1>6, <2>3, <2>4, <2>6, <2>7, <2>8 DEF Emit, MergerType, input
  <1>7. QED
    BY <1>1, <1>2, <1>3, <1>4, <1>5, <1>6 DEF Next

-----------------------------------------------------------------------------
\* The iterators

\* Pop, first part: the key is the smallest one left, from its newest input.
LEMMA PopTakes ==
    ASSUME MergerType, Positions, Queued, Pop
    PROVE  /\ Top \in segments_pqueue /\ at[Top] \in Keys /\ top_key < at[Top]
           /\ Owner(at[Top], Top)
           /\ \A i \in Inputs : \A x \in dicts[i] :
                 x > top_key => at[Top] <= x /\ (x = at[Top] => at[i] = x)
           /\ \A i \in Inputs : Follows(i, at[Top], at[i])
                                \/ (at[i] = at[Top] /\ at[Top] \in dicts[i])
  <1> DEFINE k == at[Top]
  <1>1. /\ Top \in segments_pqueue /\ Top \in Inputs /\ pc = "pop"
        /\ \A j \in segments_pqueue : k <= at[j] /\ (at[j] = k => j <= Top)
    BY TopIs DEF Pop, MergerType
  <1>2. \A i \in Inputs : /\ Follows(i, top_key, at[i]) /\ dicts[i] \subseteq Nat
                          /\ i \in segments_pqueue <=> at[i] # End
                          /\ End \notin dicts[i]
    BY <1>1, KeysAssumption DEF Positions, Queued, MergerType, End
  <1>3. k \in Keys /\ k \in Nat /\ k # End /\ top_key \in Nat
    <2>1. k # End /\ k \in Keys \cup {End} /\ top_key \in Keys \cup {End}
      BY <1>1, <1>2 DEF MergerType
    <2>2. QED
      BY <2>1, KeysAreNumbers
  <1>4. k \in dicts[Top] /\ top_key < k
    BY <1>1, <1>2, <1>3 DEF Follows
  <1> HIDE DEF k
  <1>5. ASSUME NEW i \in Inputs, NEW x \in dicts[i], x > top_key
        PROVE  k <= x /\ (x = k => at[i] = k)
    <2>1. at[i] \in dicts[i] /\ at[i] <= x
      BY <1>2, <1>5 DEF Follows
    <2>2. k <= at[i]
      BY <1>1, <1>2, <2>1
    <2>3. at[i] \in Nat /\ x \in Nat
      BY <1>2, <2>1
    <2>4. QED
      BY <1>3, <2>1, <2>2, <2>3
  <1>6. ASSUME NEW j \in Inputs, k \in dicts[j] PROVE j <= Top
    <2>1. at[j] = k
      BY <1>4, <1>5, <1>6
    <2>2. QED
      BY <1>1, <1>2, <1>3, <2>1
  <1>7. Owner(k, Top)
    BY <1>1, <1>4, <1>6 DEF Owner
  <1>8. ASSUME NEW i \in Inputs
        PROVE  Follows(i, k, at[i]) \/ (at[i] = k /\ k \in dicts[i])
    <2>1. CASE \E x \in dicts[i] : x > top_key
      <3>1. at[i] \in dicts[i] /\ at[i] > top_key /\ \A x \in dicts[i] : x > top_key => at[i] <= x
        BY <1>2, <2>1 DEF Follows
      <3>2. at[i] \in Nat /\ k <= at[i]
        BY <1>2, <1>5, <3>1
      <3>3. CASE at[i] = k
        BY <3>1, <3>3
      <3>4. CASE at[i] # k
        <4>1. at[i] > k
          BY <1>3, <3>2, <3>4
        <4>2. \A x \in dicts[i] : x > k => x > top_key
          BY <1>2, <1>3, <1>4
        <4>3. QED
          BY <3>1, <4>1, <4>2 DEF Follows
      <3>5. QED
        BY <3>3, <3>4
    <2>2. CASE ~\E x \in dicts[i] : x > top_key
      <3>1. at[i] = End
        BY <1>2, <2>2 DEF Follows
      <3>2. ~\E x \in dicts[i] : x > k
        BY <1>2, <1>3, <1>4, <2>2
      <3>3. QED
        BY <3>1, <3>2 DEF Follows
    <2>3. QED
      BY <2>1, <2>2
  <1>9. QED
    BY <1>1, <1>3, <1>4, <1>5, <1>7, <1>8 DEF k

\* Emit, first part: every other iterator is behind the key already.
LEMMA EmitTakes ==
    ASSUME MergerType, Positions, Queued, Emit
    PROVE  /\ segment_it \in Inputs /\ top_key \in Keys /\ Owner(top_key, segment_it)
           /\ \A i \in Inputs \ {segment_it} : Follows(i, top_key, at[i]) /\ at[i] # top_key
           /\ Follows(segment_it, top_key, at'[segment_it])
           /\ \A i \in Inputs \ {segment_it} : at'[i] = at[i]
  <1>1. /\ segment_it \in Inputs /\ top_key \in Keys /\ Owner(top_key, segment_it)
        /\ pc = "skip" /\ ~SameKeyQueued
        /\ \A i \in Inputs \ {segment_it} : \/ Follows(i, top_key, at[i])
                                            \/ at[i] = top_key /\ top_key \in dicts[i]
    BY DEF Emit, Positions, Owner, MergerType
  <1>2. top_key \in Nat /\ top_key # End
    BY <1>1, KeysAssumption DEF End
  <1>3. ASSUME NEW i \in Inputs \ {segment_it}
        PROVE  Follows(i, top_key, at[i]) /\ at[i] # top_key
    <2>1. ASSUME at[i] = top_key PROVE FALSE
      <3>1. i \in segments_pqueue
        BY <1>1, <1>2, <2>1 DEF Queued
      <3>2. Top \in segments_pqueue /\ at[Top] <= top_key
        BY <2>1, <3>1, TopIs
      <3>3. Top \in Inputs \ {segment_it} /\ at[Top] # End
        BY <1>1, <3>2 DEF Queued, MergerType
      <3>4. at[Top] = top_key \/ at[Top] > top_key
        BY <1>1, <3>3 DEF Follows
      <3>5. at[Top] \in Nat
        BY <3>3, KeysAssumption DEF MergerType, End
      <3>6. at[Top] = top_key
        BY <1>2, <3>2, <3>4, <3>5
      <3>7. QED
        BY <1>1, <3>1, <3>6 DEF SameKeyQueued
    <2>2. QED
      BY <1>1, <2>1
  <1>4. at' = [at EXCEPT ![segment_it] = Advance(segment_it, top_key)]
    BY DEF Emit
  <1>5. Follows(segment_it, top_key, at'[segment_it])
    BY <1>1, <1>2, <1>4, AdvanceFollows DEF MergerType
  <1>6. QED
    BY <1>1, <1>3, <1>4, <1>5 DEF MergerType

LEMMA PositionsStep ==
    ASSUME MergerType, Positions, Queued, [Next]_vars
    PROVE  Positions' /\ Queued'
  <1>1. CASE UNCHANGED vars
    BY <1>1 DEF vars, Positions, Queued, Follows, Owner
  <1>2. CASE Add
    <2> DEFINE n == added + 1
    <2>1. n \in Inputs /\ added \in Nat /\ pc = "add" /\ pc' = "add" /\ added' = n
          /\ UNCHANGED <<dicts, top_key, output>>
      BY <1>2, NAssumption DEF Add, MergerType, Inputs, input
    <2>2. at'[n] = Advance(n, 0) /\ \A i \in Inputs : i # n => at'[i] = at[i]
      BY <1>2, <2>1 DEF Add, MergerType
    <2>3. Follows(n, 0, at'[n])
      BY <2>1, <2>2, AdvanceFollows DEF MergerType
    <2>4. at'[n] = End <=> dicts[n] = {}
      <3>1. dicts[n] \subseteq Keys /\ \A x \in dicts[n] : x > 0 /\ x # End
        BY <2>1, KeysAssumption DEF MergerType, End
      <3>2. QED
        BY <2>3, <3>1 DEF Follows
    <2>5. segments_pqueue' = IF dicts[n] = {} THEN segments_pqueue ELSE segments_pqueue \cup {n}
      BY <1>2 DEF Add
    <2>6. at[n] = End /\ n \notin segments_pqueue
      BY <2>1, NAssumption DEF Positions, Queued, Inputs
    <2> HIDE DEF n
    <2>7. Queued'
      BY <2>1, <2>2, <2>4, <2>5, <2>6 DEF Queued
    <2>8. \A i \in Inputs : (i <= n <=> i <= added \/ i = n)
      BY <2>1, NAssumption DEF Inputs, n
    <2>9. \A i \in Inputs : IF i <= n THEN Follows(i, 0, at'[i]) ELSE at'[i] = End
      BY <2>1, <2>2, <2>3, <2>8 DEF Positions
    <2>10. QED
      BY <2>1, <2>7, <2>9 DEF Positions, Follows
  <1>3. CASE Start
    <2>1. /\ UNCHANGED <<dicts, at, top_key, added, segments_pqueue>> /\ pc = "add" /\ pc' = "pop"
          /\ added = N /\ top_key = 0
      BY <1>3 DEF Start, input, Positions, End
    <2>2. \A i \in Inputs : i <= added
      BY <2>1, NAssumption DEF Inputs
    <2>3. \A i \in Inputs : Follows(i, top_key, at[i])
      BY <2>1, <2>2 DEF Positions
    <2>4. Queued'
      BY <2>1 DEF Queued
    <2>5. QED
      BY <2>1, <2>3, <2>4 DEF Positions, Follows
  <1>4. CASE Pop
    <2>1. /\ segment_it' = Top /\ top_key' = at[Top] /\ segments_pqueue' = segments_pqueue \ {Top}
          /\ pc = "pop" /\ pc' = "skip" /\ UNCHANGED <<dicts, added, at>>
      BY <1>4 DEF Pop, input
    <2>2. /\ Top \in segments_pqueue /\ Owner(at[Top], Top)
          /\ \A i \in Inputs : Follows(i, at[Top], at[i])
                               \/ (at[i] = at[Top] /\ at[Top] \in dicts[i])
      BY <1>4, PopTakes
    <2>3. Queued'
      BY <2>1, <2>2 DEF Queued
    <2>4. QED
      BY <2>1, <2>2, <2>3 DEF Positions, Follows, Owner
  <1>5. CASE Skip
    <2>1. /\ at' = [at EXCEPT ![Top] = Advance(Top, at[Top])]
          /\ segments_pqueue' = IF at'[Top] = End THEN segments_pqueue \ {Top}
                                ELSE segments_pqueue
          /\ segments_pqueue # {} /\ at[Top] = top_key
          /\ pc = "skip" /\ pc' = "skip" /\ UNCHANGED <<dicts, added, segment_it, top_key>>
      BY <1>5 DEF Skip, SameKeyQueued, input
    <2>2. PICK t : t = Top
      OBVIOUS
    <2>3. t \in segments_pqueue /\ t \in Inputs /\ t # segment_it
      BY <2>1, <2>2, TopIs DEF MergerType, Queued
    <2>4. Follows(t, top_key, at'[t])
      BY <2>1, <2>2, <2>3, AdvanceFollows, KeysAreNumbers DEF MergerType
    <2>5. \A i \in Inputs : i # t => at'[i] = at[i]
      BY <2>1, <2>2, <2>3 DEF MergerType
    <2>6. Queued'
      BY <2>1, <2>2, <2>3, <2>5 DEF Queued
    <2>7. QED
      BY <2>1, <2>3, <2>4, <2>5, <2>6 DEF Positions, Follows, Owner
  <1>6. CASE Emit
    <2>1. /\ segment_it \in Inputs
          /\ \A i \in Inputs \ {segment_it} : Follows(i, top_key, at[i]) /\ at'[i] = at[i]
          /\ Follows(segment_it, top_key, at'[segment_it])
      BY <1>6, EmitTakes
    <2>2. /\ segments_pqueue' = IF at'[segment_it] = End THEN segments_pqueue
                                ELSE segments_pqueue \cup {segment_it}
          /\ pc = "skip" /\ pc' = "pop" /\ UNCHANGED <<dicts, added, segment_it, top_key>>
      BY <1>6 DEF Emit, input
    <2>3. \A i \in Inputs : Follows(i, top_key, at'[i])
      BY <2>1
    <2>4. Queued'
      BY <2>1, <2>2 DEF Queued
    <2>5. QED
      BY <2>2, <2>3, <2>4 DEF Positions, Follows
  <1>7. CASE Finish
    <2>1. /\ UNCHANGED <<dicts, at, top_key, added, segments_pqueue>> /\ pc = "pop" /\ pc' = "done"
          /\ segments_pqueue = {}
      BY <1>7 DEF Finish, input
    <2>2. QED
      BY <2>1 DEF Positions, Queued, Follows
  <1>8. QED
    BY <1>1, <1>2, <1>3, <1>4, <1>5, <1>6, <1>7 DEF Next

-----------------------------------------------------------------------------
\* The lists of deleted keys and the output

ResultInv == Lists /\ Dropping /\ Keeping /\ Outputs /\ OutputSorted

\* Steps that deal with no key
LEMMA QuietKeepsResult ==
    ASSUME MergerType, ResultInv, UNCHANGED <<dicts, dk, deleted_keys, output, added>>,
           \A k \in Keys : Known(k) => (Past(k)' <=> Past(k))
    PROVE  ResultInv'
  <1>1. \A k : (Known(k)' <=> Known(k)) /\ (Written(k)' <=> Written(k))
               /\ \A i : Owner(k, i)' <=> Owner(k, i)
    BY DEF Known, Written, Owner
  <1>2. \A k \in Keys : Gone(k)' <=> Gone(k)
    BY <1>1 DEF Gone
  <1>3. \A i \in Inputs : dk[i] \subseteq Keys /\ deleted_keys[i] \subseteq Keys
    BY DEF MergerType
  <1>4. Lists'
    BY <1>2, <1>3 DEF ResultInv, Lists
  <1>5. Dropping' /\ Keeping'
    BY <1>1, <1>2, <1>3 DEF ResultInv, Dropping, Keeping
  <1>6. Outputs' /\ OutputSorted'
    <2>1. ASSUME NEW n \in 1..Len(output)
          PROVE  Owner(output[n][1], output[n][2])' /\ Past(output[n][1])'
      <3>1. Owner(output[n][1], output[n][2]) /\ Past(output[n][1])
        BY DEF ResultInv, Outputs
      <3>2. output[n][1] \in Keys /\ Known(output[n][1])
        BY <3>1 DEF Owner, Known, MergerType
      <3>3. QED
        BY <3>1, <3>2 DEF Past, Owner
    <2>2. QED
      BY <2>1 DEF ResultInv, Outputs, OutputSorted
  <1>7. QED
    BY <1>4, <1>5, <1>6 DEF ResultInv

LEMMA AddKeepsResult ==
    ASSUME MergerType, Positions, ResultInv, Add
    PROVE  ResultInv'
  <1>1. /\ UNCHANGED <<dicts, dk, top_key, output, pc>> /\ top_key = 0 /\ output = <<>>
        /\ added' = added + 1 /\ added \in Nat /\ added + 1 \in Inputs
    BY NAssumption DEF Add, input, Positions, MergerType, Inputs, End
  <1>2. \A k \in Keys : ~Gone(k)' /\ ~Gone(k) /\ ~Written(k)'
    <2>0. top_key = 0 /\ top_key' = 0 /\ pc = "add" /\ pc' = "add"
      BY <1>1 DEF Add
    <2>1. \A k \in Keys : ~Past(k) /\ ~Past(k)'
      <3>1. \A k \in Keys : k \in Nat /\ k > 0
        BY KeysAssumption
      <3>2. QED
        BY <2>0, <3>1 DEF Past
    <2>2. \A k : ~Written(k)'
      BY <1>1 DEF Written
    <2>3. QED
      BY <2>1, <2>2 DEF Gone
  <1>3. deleted_keys' = IF dicts[added + 1] = {} THEN deleted_keys
                        ELSE [deleted_keys EXCEPT ![added + 1] = dk[added + 1]]
    BY DEF Add
  <1>4. \A i \in Inputs : dk[i] \subseteq Keys /\ deleted_keys[i] \subseteq Keys
    BY DEF MergerType
  <1>5. Lists'
    <2>1. ASSUME NEW i \in Inputs
          PROVE  /\ deleted_keys'[i] \subseteq dk[i]
                 /\ i <= added + 1 /\ dicts[i] # {} => dk[i] \subseteq deleted_keys'[i]
      <3>1. CASE i = added + 1
        BY <1>3, <3>1 DEF MergerType, ResultInv, Lists
      <3>2. CASE i # added + 1
        <4>1. deleted_keys'[i] = deleted_keys[i] /\ (i <= added + 1 => i <= added)
          BY <1>1, <1>3, <3>2, NAssumption DEF MergerType, Inputs
        <4>2. QED
          BY <1>2, <1>4, <4>1 DEF ResultInv, Lists
      <3>3. QED
        BY <3>1, <3>2
    <2>2. QED
      BY <1>1, <1>2, <1>4, <2>1 DEF Lists
  <1>6. Dropping' /\ Keeping'
    BY <1>2 DEF Dropping, Keeping
  <1>7. Outputs' /\ OutputSorted'
    BY <1>1 DEF Outputs, OutputSorted
  <1>8. QED
    BY <1>5, <1>6, <1>7 DEF ResultInv

\* KeyDeleted: the key goes, and every list that has it at its back moves on.
LEMMA DropKeepsResult ==
    ASSUME MergerType, Positions, Queued, ResultInv, Emit, KeyDeleted
    PROVE  ResultInv'
  <1>1. /\ UNCHANGED <<dicts, dk, added, output, top_key>> /\ pc = "skip" /\ pc' = "pop"
        /\ \A i \in Inputs : deleted_keys'[i] = IF Back(deleted_keys[i]) = top_key
                                                THEN deleted_keys[i] \ {top_key}
                                                ELSE deleted_keys[i]
        /\ Back(deleted_keys[segment_it]) = top_key
    BY DEF Emit, KeyDeleted, ListsConsumed, input
  <1>2. /\ segment_it \in Inputs /\ top_key \in Keys /\ Owner(top_key, segment_it)
        /\ segment_it <= added
    BY EmitTakes, <1>1, NAssumption DEF Positions, Inputs
  <1>3. \A i \in Inputs : dk[i] \subseteq Keys /\ deleted_keys[i] \subseteq Keys
    BY DEF MergerType
  <1>4. \A k \in Keys : k \in Nat /\ (Past(k) <=> k < top_key)
                                  /\ (Past(k)' <=> k < top_key \/ k = top_key)
    BY <1>1, KeysAreNumbers DEF Past
  <1>5. \A k : (Known(k)' <=> Known(k)) /\ (Written(k)' <=> Written(k))
               /\ \A i : Owner(k, i)' <=> Owner(k, i)
    BY <1>1 DEF Known, Written, Owner
  <1>6. ~Written(top_key)
    BY <1>2, <1>4 DEF Written, ResultInv, Outputs
  <1>7. \A k \in Keys : Gone(k)' <=> Gone(k) \/ k = top_key
    BY <1>2, <1>4, <1>5, <1>6 DEF Gone, Known, Owner
  <1>8. \A k \in Keys : Gone(k) => k < top_key
    BY <1>4 DEF Gone
  <1>9. Lists'
    <2>1. ASSUME NEW i \in Inputs
          PROVE  /\ deleted_keys'[i] \subseteq dk[i]
                 /\ i <= added /\ dicts[i] # {} =>
                       \A j \in dk[i] : j \in deleted_keys'[i] \/ Gone(j)'
      BY <1>1, <1>2, <1>3, <1>7 DEF ResultInv, Lists
    <2>2. ASSUME NEW i \in Inputs, NEW j \in deleted_keys'[i], Gone(j)'
          PROVE  \E m \in deleted_keys'[i] : m < j /\ ~Gone(m)'
      <3>1. j \in deleted_keys[i] /\ j \in Keys
        BY <1>1, <1>3, <2>2
      <3>2. CASE j # top_key
        <4>1. PICK m \in deleted_keys[i] : m < j /\ ~Gone(m)
          BY <1>7, <2>2, <3>1, <3>2 DEF ResultInv, Lists
        <4>2. m \in Keys /\ m # top_key
          BY <1>2, <1>3, <1>4, <1>7, <1>8, <2>2, <3>1, <3>2, <4>1
        <4>3. QED
          BY <1>1, <1>7, <4>1, <4>2
      <3>3. CASE j = top_key
        <4>1. Back(deleted_keys[i]) # top_key
          BY <1>1, <2>2, <3>3
        <4>2. PICK m \in deleted_keys[i] : m < top_key /\ \A x \in deleted_keys[i] : m <= x
          BY <1>2, <1>3, <3>1, <3>3, <4>1, BackIs
        <4>3. m \in Keys /\ m # top_key
          BY <1>2, <1>3, <1>4, <4>2
        <4>4. ~Gone(m)
          BY <1>3, <1>4, <4>2, <4>3 DEF ResultInv, Lists
        <4>5. QED
          BY <1>1, <1>7, <3>3, <4>2, <4>3, <4>4
      <3>4. QED
        BY <3>2, <3>3
    <2>3. QED
      BY <1>1, <2>1, <2>2 DEF Lists
  <1>10. Dropping'
    <2>1. ASSUME NEW k \in Keys, NEW i \in Inputs, Owner(k, i), Gone(k)'
          PROVE  k \in dk[i] /\ \A j \in dk[i] : j < k => Gone(j)'
      <3>1. CASE k # top_key
        BY <1>3, <1>7, <2>1, <3>1 DEF ResultInv, Dropping
      <3>2. CASE k = top_key
        <4>1. i = segment_it
          BY <1>2, <2>1, <3>2, NAssumption DEF Owner, Inputs
        <4>2. k \in deleted_keys[i] /\ \A j \in deleted_keys[i] : k <= j
          BY <1>1, <1>2, <1>3, <3>2, <4>1, BackIs
        <4>3. dicts[i] # {} /\ i <= added
          BY <1>2, <2>1, <4>1 DEF Owner
        <4>4. ASSUME NEW j \in dk[i], j < k PROVE Gone(j)'
          <5>1. j \in Keys /\ j \notin deleted_keys[i]
            BY <1>3, <1>4, <4>2, <4>4
          <5>2. QED
            BY <1>7, <4>3, <5>1 DEF ResultInv, Lists
        <4>5. QED
          BY <4>2, <4>4 DEF ResultInv, Lists
      <3>3. QED
        BY <3>1, <3>2
    <2>2. QED
      BY <1>1, <1>5, <2>1 DEF Dropping
  <1>11. Keeping'
    <2>1. ASSUME NEW k \in Keys, NEW i \in Inputs, Owner(k, i), Written(k), k \in dk[i]
          PROVE  \E j \in dk[i] : j < k /\ ~Gone(j)'
      <3>1. PICK j \in dk[i] : j < k /\ ~Gone(j)
        BY <2>1 DEF ResultInv, Keeping
      <3>2. k < top_key
        BY <1>4, <2>1 DEF Written, ResultInv, Outputs
      <3>3. j \in Keys /\ j # top_key
        BY <1>2, <1>3, <1>4, <3>1, <3>2
      <3>4. QED
        BY <1>7, <3>1, <3>3
    <2>2. QED
      BY <1>1, <1>5, <2>1 DEF Keeping
  <1>12. Outputs' /\ OutputSorted'
    <2>1. \A n \in 1..Len(output) : output[n][1] \in Keys
      BY DEF MergerType
    <2>2. QED
      BY <1>1, <1>4, <2>1 DEF ResultInv, Outputs, OutputSorted, Past, Owner
  <1>13. QED
    BY <1>9, <1>10, <1>11, <1>12 DEF ResultInv

LEMMA WrittenNext ==
    ASSUME MergerType, NEW k \in Keys, NEW i \in Inputs, output' = Append(output, <<k, i>>)
    PROVE  \A x : Written(x)' <=> Written(x) \/ x = k
  <1>1. /\ Len(output) \in Nat /\ Len(output') = Len(output) + 1
        /\ \A n \in 1..Len(output) : output'[n] = output[n]
        /\ output'[Len(output) + 1] = <<k, i>>
    BY DEF MergerType
  <1>2. \A n : n \in 1..Len(output') <=> n \in 1..Len(output) \/ n = Len(output) + 1
    BY <1>1
  <1>3. ASSUME NEW x PROVE Written(x)' <=> Written(x) \/ x = k
    <2>1. ASSUME NEW n \in 1..Len(output'), output'[n][1] = x PROVE Written(x) \/ x = k
      BY <1>1, <1>2, <2>1 DEF Written
    <2>2. Written(x) => Written(x)'
      BY <1>1, <1>2 DEF Written
    <2>3. x = k => Written(x)'
      BY <1>1, <1>2 DEF Written
    <2>4. QED
      BY <2>1, <2>2, <2>3 DEF Written
  <1>4. QED
    BY <1>3

\* generator_->Add: the list of the newest input does not name the key, or is
\* stuck at a smaller one.
LEMMA WriteKeepsResult ==
    ASSUME MergerType, Positions, Queued, ResultInv, Emit, ~KeyDeleted
    PROVE  ResultInv'
  <1>1. /\ UNCHANGED <<dicts, dk, added, deleted_keys, top_key>> /\ pc = "skip" /\ pc' = "pop"
        /\ output' = Append(output, <<top_key, segment_it>>)
        /\ Back(deleted_keys[segment_it]) # top_key
    BY DEF Emit, KeyDeleted, input
  <1>2. /\ segment_it \in Inputs /\ top_key \in Keys /\ Owner(top_key, segment_it)
        /\ segment_it <= added
    BY EmitTakes, <1>1, NAssumption DEF Positions, Inputs
  <1>3. \A i \in Inputs : dk[i] \subseteq Keys /\ deleted_keys[i] \subseteq Keys
    BY DEF MergerType
  <1>4. \A k \in Keys : k \in Nat /\ (Past(k) <=> k < top_key)
                                  /\ (Past(k)' <=> k < top_key \/ k = top_key)
    BY <1>1, KeysAreNumbers DEF Past
  <1>5. /\ Len(output) \in Nat /\ Len(output') = Len(output) + 1
        /\ \A n \in 1..Len(output) : output'[n] = output[n] /\ output[n][1] \in Keys
        /\ output'[Len(output) + 1] = <<top_key, segment_it>>
    BY <1>1, <1>2 DEF MergerType
  <1>6. \A k : (Known(k)' <=> Known(k)) /\ \A i : Owner(k, i)' <=> Owner(k, i)
    BY <1>1 DEF Known, Owner
  <1>7. \A k : Written(k)' <=> Written(k) \/ k = top_key
    BY <1>1, <1>2, WrittenNext
  <1>8. \A k \in Keys : Gone(k)' <=> Gone(k)
    BY <1>4, <1>6, <1>7 DEF Gone
  <1>9. Lists' /\ Dropping'
    BY <1>1, <1>3, <1>6, <1>8 DEF ResultInv, Lists, Dropping
  <1>10. Keeping'
    <2>1. ASSUME NEW k \in Keys, NEW i \in Inputs, Owner(k, i), Written(k)', k \in dk[i]
          PROVE  \E j \in dk[i] : j < k /\ ~Gone(j)'
      <3>1. CASE k # top_key
        BY <1>3, <1>7, <1>8, <2>1, <3>1 DEF ResultInv, Keeping
      <3>2. CASE k = top_key
        <4>1. i = segment_it
          BY <1>2, <2>1, <3>2, NAssumption DEF Owner, Inputs
        <4>2. dicts[i] # {} /\ i <= added /\ ~Gone(k)
          BY <1>2, <1>4, <2>1, <3>2, <4>1 DEF Owner, Gone
        <4>3. k \in deleted_keys[i]
          BY <2>1, <4>2 DEF ResultInv, Lists
        <4>4. PICK m \in deleted_keys[i] : m < top_key /\ \A x \in deleted_keys[i] : m <= x
          BY <1>1, <1>2, <1>3, <3>2, <4>1, <4>3, BackIs
        <4>5. m \in Keys /\ m \in dk[i]
          BY <1>3, <4>4 DEF ResultInv, Lists
        <4>6. ~Gone(m)
          BY <1>3, <1>4, <4>4, <4>5 DEF ResultInv, Lists
        <4>7. QED
          BY <1>8, <3>2, <4>4, <4>5, <4>6
      <3>3. QED
        BY <3>1, <3>2
    <2>2. QED
      BY <1>1, <1>6, <2>1 DEF Keeping
  <1>11. \A n \in 1..Len(output) : output[n][1] < top_key
    BY <1>4, <1>5 DEF ResultInv, Outputs
  <1>12. Outputs'
    <2>1. ASSUME NEW n \in 1..Len(output')
          PROVE  Owner(output'[n][1], output'[n][2]) /\ output'[n][1] \in Keys
                 /\ (output'[n][1] < top_key \/ output'[n][1] = top_key)
      <3>1. CASE n \in 1..Len(output)
        BY <1>5, <1>11, <3>1 DEF ResultInv, Outputs
      <3>2. CASE n = Len(output) + 1
        BY <1>2, <1>5, <3>2
      <3>3. QED
        BY <1>5, <3>1, <3>2
    <2>2. QED
      BY <1>1, <2>1 DEF Outputs, Owner, Past
  <1>13. OutputSorted'
    <2>1. ASSUME NEW m \in 1..Len(output'), NEW n \in 1..Len(output'), m < n
          PROVE  output'[m][1] < output'[n][1]
      <3>1. m \in 1..Len(output)
        BY <1>5, <2>1
      <3>2. CASE n \in 1..Len(output)
        BY <1>5, <2>1, <3>1, <3>2 DEF ResultInv, OutputSorted
      <3>3. CASE n = Len(output) + 1
        BY <1>5, <1>11, <3>1, <3>3
      <3>4. QED
        BY <1>5, <3>2, <3>3
    <2>2. QED
      BY <2>1 DEF OutputSorted
  <1>14. QED
    BY <1>9, <1>10, <1>12, <1>13 DEF ResultInv

LEMMA ResultStep ==
    ASSUME MergerType, Positions, Queued, ResultInv, [Next]_vars
    PROVE  ResultInv'
  <1>1. CASE UNCHANGED vars
    BY <1>1, QuietKeepsResult DEF vars, Past
  <1>2. CASE Start
    <2>1. UNCHANGED <<dicts, dk, deleted_keys, output, added, top_key>> /\ top_key = 0
      BY <1>2 DEF Start, input, Positions, End
    <2>2. \A k \in Keys : ~Past(k) /\ ~Past(k)'
      BY <2>1, KeysAssumption DEF Past
    <2>3. QED
      BY <2>1, <2>2, QuietKeepsResult
  <1>3. CASE Pop
    <2>1. UNCHANGED <<dicts, dk, deleted_keys, output, added>>
          /\ top_key' = at[Top] /\ pc = "pop" /\ pc' = "skip"
      BY <1>3 DEF Pop, input
    <2>2. at[Top] \in Keys /\ top_key < at[Top]
          /\ \A i \in Inputs : \A x \in dicts[i] :
                x > top_key => at[Top] <= x /\ (x = at[Top] => at[i] = x)
      BY <1>3, PopTakes
    <2>3. top_key \in Nat /\ at[Top] \in Nat
      BY <2>2, KeysAreNumbers DEF MergerType
    <2>4. ASSUME NEW k \in Keys, Known(k) PROVE Past(k)' <=> Past(k)
      <3>1. k \in Nat /\ (k > top_key => at[Top] <= k)
        BY <2>2, <2>4, KeysAreNumbers DEF Known
      <3>2. QED
        BY <2>1, <2>2, <2>3, <3>1 DEF Past
    <2>5. QED
      BY <2>1, <2>4, QuietKeepsResult
  <1>4. CASE Skip
    <2>1. UNCHANGED <<dicts, dk, deleted_keys, output, added, top_key, pc>>
      BY <1>4 DEF Skip, input
    <2>2. QED
      BY <2>1, QuietKeepsResult DEF Past
  <1>5. CASE Finish
    <2>1. UNCHANGED <<dicts, dk, deleted_keys, output, added, top_key>>
          /\ pc = "pop" /\ pc' = "done"
      BY <1>5 DEF Finish, input
    <2>2. QED
      BY <2>1, QuietKeepsResult DEF Past
  <1>6. QED
    BY <1>1, <1>2, <1>3, <1>4, <1>5, AddKeepsResult, DropKeepsResult, WriteKeepsResult DEF Next

-----------------------------------------------------------------------------
\* The statistics

GoneKeys == {k \in Keys : Gone(k)}

\* The entries whose iterator has moved on
Consumed ==
    {p \in Inputs \X Keys : /\ p[2] \in dicts[p[1]]
                            /\ \/ p[2] < top_key
                               \/ p[2] = top_key /\ at[p[1]] # top_key}

Counted ==
    /\ stats.number_of_keys = Len(output)
    /\ stats.number_of_keys + stats.updated_keys + Cardinality(GoneKeys) = Cardinality(Consumed)
    /\ stats.deleted_keys >= Cardinality(GoneKeys)

LEMMA EntriesFinite ==
    /\ IsFiniteSet(Inputs) /\ IsFiniteSet(Inputs \X Keys)
    /\ IsFiniteSet(GoneKeys) /\ IsFiniteSet(Consumed)
    /\ Cardinality(GoneKeys) \in Nat /\ Cardinality(Consumed) \in Nat
  <1>1. IsFiniteSet(Inputs) /\ IsFiniteSet(Keys)
    BY NAssumption, KeysAssumption, FS_Interval DEF Inputs
  <1>2. IsFiniteSet(Inputs \X Keys)
    BY <1>1, FS_Product
  <1>3. GoneKeys \subseteq Keys /\ Consumed \subseteq Inputs \X Keys
    BY DEF GoneKeys, Consumed
  <1>4. IsFiniteSet(GoneKeys) /\ IsFiniteSet(Consumed)
    BY <1>1, <1>2, <1>3, FS_Subset
  <1>5. QED
    BY <1>1, <1>2, <1>4, FS_CardinalityType

\* Steps that deal with no entry
LEMMA QuietKeepsCounts ==
    ASSUME Counted, UNCHANGED <<output, stats>>, GoneKeys' = GoneKeys, Consumed' = Consumed
    PROVE  Counted'
  BY DEF Counted

LEMMA SkipCounts ==
    ASSUME MergerType, Positions, Queued, Counted, Skip
    PROVE  Counted'
  <1>1. /\ UNCHANGED <<dicts, output, top_key, pc>> /\ pc = "skip"
        /\ segments_pqueue # {} /\ at[Top] = top_key
        /\ at' = [at EXCEPT ![Top] = Advance(Top, at[Top])]
        /\ stats' = [stats EXCEPT !.updated_keys = @ + 1]
    BY DEF Skip, SameKeyQueued, input
  <1>2. PICK t : t = Top
    OBVIOUS
  <1>3. t \in Inputs /\ t # segment_it /\ at[t] = top_key /\ top_key \in Keys /\ top_key \in Nat
    BY <1>1, <1>2, TopIs, KeysAreNumbers DEF MergerType, Queued
  <1>4. top_key \in dicts[t]
    BY <1>1, <1>3, KeysAreNumbers DEF Positions, Follows
  <1>5. Follows(t, top_key, at'[t]) /\ \A i \in Inputs : i # t => at'[i] = at[i]
    BY <1>1, <1>2, <1>3, AdvanceFollows DEF MergerType
  <1>6. at'[t] # top_key
    BY <1>3, <1>5, KeysAreNumbers DEF Follows
  <1>7. Consumed' = Consumed \cup {<<t, top_key>>} /\ <<t, top_key>> \notin Consumed
    <2>1. \A p \in Inputs \X Keys : p \in Consumed' <=> p \in Consumed \/ p = <<t, top_key>>
      BY <1>1, <1>3, <1>4, <1>5, <1>6 DEF Consumed
    <2>2. <<t, top_key>> \in Inputs \X Keys /\ <<t, top_key>> \notin Consumed
      BY <1>3 DEF Consumed
    <2>3. Consumed' \subseteq Inputs \X Keys /\ Consumed \subseteq Inputs \X Keys
      BY DEF Consumed
    <2>4. QED
      BY <2>1, <2>2, <2>3
  <1>8. Cardinality(Consumed') = Cardinality(Consumed) + 1
    BY <1>7, EntriesFinite, FS_AddElement
  <1>9. GoneKeys' = GoneKeys
    BY <1>1 DEF GoneKeys, Gone, Known, Past, Written
  <1>10. /\ stats'.number_of_keys = stats.number_of_keys
         /\ stats'.updated_keys = stats.updated_keys + 1
         /\ stats'.deleted_keys = stats.deleted_keys
         /\ stats.number_of_keys \in Nat /\ stats.updated_keys \in Nat
    BY <1>1 DEF MergerType
  <1>11. Cardinality(GoneKeys) \in Nat /\ Cardinality(Consumed) \in Nat /\ output' = output
    BY <1>1, EntriesFinite
  <1>12. QED
    BY <1>8, <1>9, <1>10, <1>11 DEF Counted

LEMMA EmitCounts ==
    ASSUME MergerType, Positions, Queued, Outputs, Counted, Emit
    PROVE  Counted'
  <1>1. /\ UNCHANGED <<dicts, top_key>> /\ pc = "skip" /\ pc' = "pop"
        /\ IF KeyDeleted
           THEN /\ stats' = [stats EXCEPT !.deleted_keys = @ + Cardinality(ListsConsumed)]
                /\ output' = output
           ELSE /\ stats' = [stats EXCEPT !.number_of_keys = @ + 1]
                /\ output' = Append(output, <<top_key, segment_it>>)
    BY DEF Emit, input
  <1>2. PICK t : t = segment_it
    OBVIOUS
  <1>3. /\ t \in Inputs /\ top_key \in Keys /\ top_key \in Nat /\ Owner(top_key, t)
        /\ at[t] = top_key /\ top_key \in dicts[t]
        /\ \A i \in Inputs : i # t => at[i] # top_key /\ at'[i] = at[i]
        /\ Follows(t, top_key, at'[t])
    BY <1>1, <1>2, EmitTakes, KeysAreNumbers DEF Positions, Owner
  <1>4. at'[t] # top_key
    BY <1>3, KeysAreNumbers DEF Follows
  <1>5. Consumed' = Consumed \cup {<<t, top_key>>} /\ <<t, top_key>> \notin Consumed
    <2>1. \A p \in Inputs \X Keys : p \in Consumed' <=> p \in Consumed \/ p = <<t, top_key>>
      BY <1>1, <1>3, <1>4 DEF Consumed
    <2>2. <<t, top_key>> \in Inputs \X Keys /\ <<t, top_key>> \notin Consumed
      BY <1>3 DEF Consumed
    <2>3. Consumed' \subseteq Inputs \X Keys /\ Consumed \subseteq Inputs \X Keys
      BY DEF Consumed
    <2>4. QED
      BY <2>1, <2>2, <2>3
  <1>6. Cardinality(Consumed') = Cardinality(Consumed) + 1
    BY <1>5, EntriesFinite, FS_AddElement
  <1>7. \A k \in Keys : k \in Nat /\ (Past(k) <=> k < top_key)
                                  /\ (Past(k)' <=> k < top_key \/ k = top_key)
                                  /\ (Known(k)' <=> Known(k))
    BY <1>1, KeysAreNumbers DEF Past, Known
  <1>8. stats.number_of_keys \in Nat /\ stats.updated_keys \in Nat /\ stats.deleted_keys \in Nat
    BY DEF MergerType
  <1>9. CASE KeyDeleted
    <2>1. \A k : Written(k)' <=> Written(k)
      BY <1>1, <1>9 DEF Written
    <2>2. ~Written(top_key) /\ Known(top_key)
      BY <1>3, <1>7 DEF Written, Outputs, Known
    <2>3. GoneKeys' = GoneKeys \cup {top_key} /\ top_key \notin GoneKeys
      <3>1. \A k \in Keys : Gone(k)' <=> Gone(k) \/ k = top_key
        BY <1>7, <2>1, <2>2 DEF Gone
      <3>2. ~Gone(top_key)
        BY <1>3, <1>7 DEF Gone
      <3>3. QED
        BY <1>3, <3>1, <3>2 DEF GoneKeys
    <2>4. Cardinality(GoneKeys') = Cardinality(GoneKeys) + 1
      BY <2>3, EntriesFinite, FS_AddElement
    <2>5. Cardinality(ListsConsumed) \in Nat /\ Cardinality(ListsConsumed) >= 1
      <3>1. ListsConsumed \subseteq Inputs /\ t \in ListsConsumed
        BY <1>2, <1>3, <1>9 DEF ListsConsumed, KeyDeleted
      <3>2. IsFiniteSet(ListsConsumed)
        BY <3>1, EntriesFinite, FS_Subset
      <3>3. Cardinality(ListsConsumed) \in Nat /\ Cardinality(ListsConsumed) # 0
        BY <3>1, <3>2, FS_CardinalityType, FS_EmptySet
      <3>4. QED
        BY <3>3
    <2>6. /\ stats'.number_of_keys = stats.number_of_keys
          /\ stats'.updated_keys = stats.updated_keys
          /\ stats'.deleted_keys = stats.deleted_keys + Cardinality(ListsConsumed)
      BY <1>1, <1>9 DEF MergerType
    <2>7. Cardinality(GoneKeys) \in Nat /\ Cardinality(Consumed) \in Nat /\ output' = output
      BY <1>1, <1>9, EntriesFinite
    <2>8. stats.deleted_keys + Cardinality(ListsConsumed) >= Cardinality(GoneKeys) + 1
      BY <1>8, <2>5, <2>7 DEF Counted
    <2>9. stats.number_of_keys + stats.updated_keys + (Cardinality(GoneKeys) + 1)
            = Cardinality(Consumed) + 1
      BY <1>8, <2>7 DEF Counted
    <2>10. QED
      BY <1>6, <2>4, <2>6, <2>7, <2>8, <2>9 DEF Counted
  <1>10. CASE ~KeyDeleted
    <2>1. Len(output') = Len(output) + 1 /\ Len(output) \in Nat
      BY <1>1, <1>2, <1>3, <1>10 DEF MergerType
    <2>2. \A k : Written(k)' <=> Written(k) \/ k = top_key
      BY <1>1, <1>2, <1>3, <1>10, WrittenNext
    <2>3. GoneKeys' = GoneKeys
      BY <1>7, <2>2 DEF GoneKeys, Gone
    <2>4. /\ stats'.number_of_keys = stats.number_of_keys + 1
          /\ stats'.updated_keys = stats.updated_keys
          /\ stats'.deleted_keys = stats.deleted_keys
      BY <1>1, <1>10 DEF MergerType
    <2>5. QED
      BY <1>6, <1>8, <2>1, <2>3, <2>4, EntriesFinite DEF Counted
  <1>11. QED
    BY <1>9, <1>10

LEMMA CountedStep ==
    ASSUME MergerType, Positions, Queued, Outputs, Counted, [Next]_vars
    PROVE  Counted'
  <1>1. CASE UNCHANGED vars
    BY <1>1, QuietKeepsCounts DEF vars, GoneKeys, Consumed, Gone, Known, Past, Written
  <1>2. CASE Add
    <2>1. UNCHANGED <<dicts, output, stats, top_key, pc>> /\ top_key = 0
      BY <1>2 DEF Add, input, Positions, End
    <2>2. \A k \in Keys : k \in Nat /\ k # 0 /\ ~(k < 0)
      BY KeysAssumption
    <2>3. Consumed = {} /\ Consumed' = {}
      BY <2>1, <2>2 DEF Consumed
    <2>4. GoneKeys' = GoneKeys
      BY <2>1 DEF GoneKeys, Gone, Known, Past, Written
    <2>5. QED
      BY <2>1, <2>3, <2>4, QuietKeepsCounts
  <1>3. CASE Start
    <2>1. UNCHANGED <<dicts, output, stats, top_key, at>> /\ top_key = 0
      BY <1>3 DEF Start, input, Positions, End
    <2>2. Consumed' = Consumed
      BY <2>1 DEF Consumed
    <2>3. GoneKeys = {} /\ GoneKeys' = {}
      <3>1. \A k \in Keys : k \in Nat /\ k # 0 /\ ~(k < 0)
        BY KeysAssumption
      <3>2. QED
        BY <2>1, <3>1 DEF GoneKeys, Gone, Past
    <2>4. QED
      BY <2>1, <2>2, <2>3, QuietKeepsCounts
  <1>4. CASE Pop
    <2>1. UNCHANGED <<dicts, output, stats, at>>
          /\ top_key' = at[Top] /\ pc = "pop" /\ pc' = "skip"
      BY <1>4 DEF Pop, input
    <2>2. at[Top] \in Keys /\ top_key < at[Top]
          /\ \A i \in Inputs : \A x \in dicts[i] :
                x > top_key => at[Top] <= x /\ (x = at[Top] => at[i] = x)
      BY <1>4, PopTakes
    <2>3. top_key \in Nat /\ at[Top] \in Nat
      BY <2>2, KeysAreNumbers DEF MergerType
    <2>4. \A k \in Keys : Known(k) => (Past(k)' <=> Past(k))
      <3>1. \A k \in Keys : k \in Nat /\ (Known(k) /\ k > top_key => at[Top] <= k)
        BY <2>2, KeysAreNumbers DEF Known
      <3>2. QED
        BY <2>1, <2>2, <2>3, <3>1 DEF Past
    <2>5. GoneKeys' = GoneKeys
      BY <2>1, <2>4 DEF GoneKeys, Gone, Known, Written
    <2>6. ASSUME NEW i \in Inputs, NEW x \in Keys, x \in dicts[i]
          PROVE  (x < at[Top] \/ (x = at[Top] /\ at[i] # at[Top]))
                   <=> (x < top_key \/ (x = top_key /\ at[i] # top_key))
      <3>1. x \in Nat
        BY KeysAreNumbers
      <3>2. at[i] # top_key \/ x # top_key
        BY <2>1, <2>3, <2>6, <3>1, KeysAreNumbers DEF Positions, Follows
      <3>3. QED
        BY <2>2, <2>3, <2>6, <3>1, <3>2
    <2>7. Consumed' = Consumed
      BY <2>1, <2>6 DEF Consumed
    <2>8. QED
      BY <2>1, <2>5, <2>7, QuietKeepsCounts
  <1>5. CASE Finish
    <2>1. UNCHANGED <<dicts, output, stats, top_key, at>> /\ pc = "pop" /\ pc' = "done"
      BY <1>5 DEF Finish, input
    <2>2. QED
      BY <2>1, QuietKeepsCounts DEF GoneKeys, Consumed, Gone, Known, Past, Written
  <1>6. QED
    BY <1>1, <1>2, <1>3, <1>4, <1>5, SkipCounts, EmitCounts DEF Next

-----------------------------------------------------------------------------
\* The result

LEMMA MergerInit == Init => MergerType /\ Positions /\ Queued /\ ResultInv /\ Counted
  <1> SUFFICES ASSUME Init PROVE MergerType /\ Positions /\ Queued /\ ResultInv /\ Counted
    OBVIOUS
  <1>1. \A k \in Keys : k \in Nat /\ k # 0 /\ ~(k < 0)
    BY KeysAssumption
  <1>2. MergerType
    BY NAssumption DEF Init, MergerType
  <1>3. Positions /\ Queued
    BY NAssumption DEF Init, Positions, Queued, Inputs
  <1>4. \A k \in Keys : ~Past(k) /\ ~Gone(k) /\ ~Written(k)
    BY <1>1 DEF Init, Past, Gone, Written, End
  <1>5. Dropping /\ Keeping /\ Outputs /\ OutputSorted
    BY <1>4 DEF Init, Dropping, Keeping, Outputs, OutputSorted
  <1>6. Lists
    BY NAssumption DEF Init, Lists, Inputs
  <1>7. GoneKeys = {} /\ Consumed = {}
    BY <1>1, <1>4 DEF Init, GoneKeys, Consumed, End
  <1>8. Counted
    BY <1>7, FS_EmptySet DEF Init, Counted
  <1>9. QED
    BY <1>2, <1>3, <1>5, <1>6, <1>8 DEF ResultInv

\* When the loop has ended every key is past.
LEMMA AllPast ==
    ASSUME MergerType, Positions, Queued, pc = "done", NEW i \in Inputs, NEW k \in dicts[i]
    PROVE  Past(k) /\ at[i] = End
  <1>1. at[i] = End /\ Follows(i, top_key, at[i])
    BY DEF Positions, Queued
  <1>2. k \in Keys /\ dicts[i] \subseteq Keys /\ top_key \in Nat
    BY KeysAreNumbers DEF MergerType
  <1>3. ~(k > top_key)
    BY <1>1, <1>2, KeysAreNumbers DEF Follows
  <1>4. QED
    BY <1>1, <1>2, <1>3, KeysAreNumbers DEF Past

LEMMA DictionaryWritten ==
    ASSUME MergerType, ResultInv, NEW k \in Keys
    PROVE  /\ Written(k) => Owner(k, ToDictionary(output)[k]) /\ ToDictionary(output)[k] \in Inputs
           /\ ~Written(k) => ToDictionary(output)[k] = 0
  <1>1. CASE Written(k)
    <2> DEFINE n == CHOOSE n \in 1..Len(output) : output[n][1] = k
    <2>1. n \in 1..Len(output) /\ output[n][1] = k
      BY <1>1 DEF Written
    <2>2. ToDictionary(output)[k] = output[n][2]
      BY <1>1 DEF ToDictionary, Written
    <2> HIDE DEF n
    <2>3. Owner(k, output[n][2]) /\ output[n][2] \in Inputs
      BY <2>1 DEF ResultInv, Outputs, Owner
    <2>4. QED
      BY <1>1, <2>2, <2>3
  <1>2. CASE ~Written(k)
    BY <1>2 DEF ToDictionary, Written
  <1>3. QED
    BY <1>1, <1>2

\* The keys that are gone are the ones MergeSemantics drops.
LEMMA GoneIsDropped ==
    ASSUME MergerType, Positions, Queued, ResultInv, pc = "done"
    PROVE  \A k \in Keys : Known(k) => (Gone(k) <=> k \in Dropped(Inputs, Dict, dk, Age, Keys))
  <1>1. \A k \in Keys : Known(k) <=> HasKey(Inputs, Dict, k)
    BY NAssumption DEF Known, HasKey, Dict, Inputs
  <1>2. Droppable(GoneKeys, Inputs, Dict, dk, Age)
    <2>1. ASSUME NEW k \in GoneKeys
          PROVE  /\ Deleted(Inputs, Dict, dk, Age, k)
                 /\ \A j \in dk[Newest(Inputs, Dict, Age, k)] : j < k => j \in GoneKeys
      <3>1. k \in Keys /\ Gone(k) /\ Known(k)
        BY DEF GoneKeys, Gone
      <3>2. PICK i \in Inputs : Owner(k, i)
        BY <3>1, KnownHasOwner
      <3>3. Newest(Inputs, Dict, Age, k) = i /\ HasKey(Inputs, Dict, k)
        BY <3>1, <3>2, OwnerIsNewest
      <3>4. k \in dk[i] /\ \A j \in dk[i] : j < k => Gone(j)
        BY <3>1, <3>2 DEF ResultInv, Dropping
      <3>5. dk[i] \subseteq Keys
        BY DEF MergerType
      <3>6. QED
        BY <3>3, <3>4, <3>5 DEF Deleted, GoneKeys
    <2>2. QED
      BY <2>1 DEF Droppable
  <1>3. ASSUME NEW D \in SUBSET Keys, Droppable(D, Inputs, Dict, dk, Age)
        PROVE  D \subseteq GoneKeys
    <2> DEFINE S == {k \in D : ~Gone(k)}
    <2>1. ASSUME S # {} PROVE FALSE
      <3>1. S \in SUBSET Nat
        BY KeysAreNumbers
      <3>2. PICK k \in S : \A j \in S : k <= j
        BY <2>1, <3>1, LeastOf
      <3>3. k \in Keys /\ k \in D /\ ~Gone(k) /\ Deleted(Inputs, Dict, dk, Age, k)
            /\ \A j \in dk[Newest(Inputs, Dict, Age, k)] : j < k => j \in D
        BY <1>3, <3>2 DEF Droppable
      <3>4. Known(k)
        BY <1>1, <3>3 DEF Deleted
      <3>5. PICK i \in Inputs : Owner(k, i)
        BY <3>3, <3>4, KnownHasOwner
      <3>6. Newest(Inputs, Dict, Age, k) = i
        BY <3>3, <3>5, OwnerIsNewest
      <3>7. Past(k)
        BY <3>5, AllPast DEF Owner
      <3>8. Written(k)
        BY <3>3, <3>4, <3>7 DEF Gone
      <3>9. PICK j \in dk[i] : j < k /\ ~Gone(j)
        BY <3>3, <3>5, <3>6, <3>8 DEF ResultInv, Keeping, Deleted
      <3>10. j \in S
        BY <3>3, <3>6, <3>9
      <3>11. QED
        BY <3>1, <3>2, <3>9, <3>10
    <2>2. QED
      BY <2>1 DEF GoneKeys
  <1>4. GoneKeys \in SUBSET Keys
    BY DEF GoneKeys
  <1>5. Dropped(Inputs, Dict, dk, Age, Keys) = GoneKeys
    BY <1>2, <1>3, <1>4 DEF Dropped
  <1>6. QED
    BY <1>5 DEF GoneKeys

LEMMA ComputesIt ==
    ASSUME MergerType, Positions, Queued, ResultInv, pc = "done"
    PROVE  /\ ToDictionary(output) = MergedDictionary(Inputs, Dict, dk, Age, Keys)
           /\ \A k \in Keys : Known(k) /\ ~Deleted(Inputs, Dict, dk, Age, k)
                => ToDictionary(output)[k] = Newest(Inputs, Dict, Age, k)
  <1> DEFINE merged == MergedDictionary(Inputs, Dict, dk, Age, Keys)
             drop == Dropped(Inputs, Dict, dk, Age, Keys)
  <1>1. \A k \in Keys : merged[k] = IF ~HasKey(Inputs, Dict, k) \/ k \in drop THEN 0
                                    ELSE Dict[Newest(Inputs, Dict, Age, k)][k]
    BY DEF MergedDictionary
  <1>2. \A k \in Keys : Known(k) => (Gone(k) <=> k \in drop)
    BY GoneIsDropped
  <1>3. \A k \in Keys : Known(k) <=> HasKey(Inputs, Dict, k)
    BY NAssumption DEF Known, HasKey, Dict, Inputs
  <1> HIDE DEF merged, drop
  <1>4. ASSUME NEW k \in Keys
        PROVE  /\ ToDictionary(output)[k] = merged[k]
               /\ Known(k) /\ ~Deleted(Inputs, Dict, dk, Age, k)
                    => ToDictionary(output)[k] = Newest(Inputs, Dict, Age, k)
    <2>1. CASE ~Known(k)
      <3>1. ~Written(k)
        BY <2>1 DEF Written, ResultInv, Outputs, Owner, Known
      <3>2. QED
        BY <1>1, <1>3, <2>1, <3>1, DictionaryWritten
    <2>2. CASE Known(k)
      <3>1. PICK i \in Inputs : Owner(k, i)
        BY <2>2, KnownHasOwner
      <3>2. Newest(Inputs, Dict, Age, k) = i /\ Dict[i][k] = i /\ HasKey(Inputs, Dict, k)
        BY <3>1, OwnerIsNewest
      <3>3. Past(k)
        BY <3>1, AllPast DEF Owner
      <3>4. CASE Written(k)
        <4>1. ToDictionary(output)[k] = i
          BY <3>1, <3>4, DictionaryWritten, NAssumption DEF Owner, Inputs
        <4>2. k \notin drop
          BY <1>2, <2>2, <3>4 DEF Gone
        <4>3. QED
          BY <1>1, <3>2, <4>1, <4>2
      <3>5. CASE ~Written(k)
        <4>1. ToDictionary(output)[k] = 0
          BY <3>5, DictionaryWritten
        <4>2. Gone(k)
          BY <2>2, <3>3, <3>5 DEF Gone
        <4>3. k \in dk[i]
          BY <3>1, <4>2 DEF ResultInv, Dropping
        <4>4. QED
          BY <1>1, <1>2, <2>2, <3>2, <4>1, <4>2, <4>3 DEF Deleted
      <3>6. QED
        BY <3>4, <3>5
    <2>3. QED
      BY <2>1, <2>2
  <1>5. ToDictionary(output) = merged
    BY <1>4 DEF ToDictionary, merged, MergedDictionary
  <1>6. QED
    BY <1>4, <1>5 DEF merged

(***************************************************************************)
(* The inductive invariant of the merge loop: where the iterators, the     *)
(* queue and the lists of deleted keys stand, and what was written and     *)
(* counted (CompleteMerge, AppendMerge, KeyDeleted).                       *)
(***************************************************************************)
THEOREM MergerInvariant ==
    Spec => [](MergerType /\ Positions /\ Queued /\ ResultInv /\ Counted)
  <1>1. Init => MergerType /\ Positions /\ Queued /\ ResultInv /\ Counted
    BY MergerInit
  <1>2. MergerType /\ Positions /\ Queued /\ ResultInv /\ Counted /\ [Next]_vars
          => (MergerType /\ Positions /\ Queued /\ ResultInv /\ Counted)'
    BY TypeStep, PositionsStep, ResultStep, CountedStep DEF ResultInv
  <1>3. QED
    BY <1>1, <1>2, PTL DEF Spec

(***************************************************************************)
(* Whatever keys the inputs share and however many there are, the          *)
(* generator is fed strictly ascending keys (CompleteMerge).               *)
(***************************************************************************)
THEOREM SortedTheorem == Spec => []OutputSorted
  <1>1. ResultInv => OutputSorted
    BY DEF ResultInv
  <1>2. QED
    BY <1>1, MergerInvariant, PTL

(***************************************************************************)
(* The loop of dictionary_merger.h computes MergedDictionary, for any      *)
(* inputs: the outcome of a merge job in IndexWriter is what the merger    *)
(* really writes (CompleteMerge, KeyDeleted).                              *)
(***************************************************************************)
THEOREM MergeTheorem == Spec => []ComputesMergedDictionary
  <1>1. MergerType /\ Positions /\ Queued /\ ResultInv => ComputesMergedDictionary
    BY ComputesIt DEF ComputesMergedDictionary
  <1>2. QED
    BY <1>1, MergerInvariant, PTL

(***************************************************************************)
(* No value is lost in a merge: what the most recent input has, and its    *)
(* .dk list does not name, is written (CompleteMerge, KeyDeleted).         *)
(***************************************************************************)
THEOREM NothingLostTheorem == Spec => []NothingUndeletedDropped
  <1>1. MergerType /\ Positions /\ Queued /\ ResultInv => NothingUndeletedDropped
    <2>1. ASSUME MergerType PROVE \A k \in UNION {dicts[i] : i \in Inputs} : k \in Keys /\ Known(k)
      BY <2>1 DEF MergerType, Known
    <2>2. QED
      BY <2>1, ComputesIt DEF NothingUndeletedDropped
  <1>2. QED
    BY <1>1, MergerInvariant, PTL

(***************************************************************************)
(* Every entry of every input is counted once in the statistics: written,  *)
(* skipped for a more recent one, or dropped (CompleteMerge, MergeStats).  *)
(***************************************************************************)
THEOREM StatsTheorem == Spec => []StatsAddUp
  <1>1. ASSUME MergerType, Positions, Queued, ResultInv, Counted, pc = "done"
        PROVE  /\ Consumed = {p \in Inputs \X Keys : p[2] \in dicts[p[1]]}
               /\ GoneKeys = {k \in Keys : /\ \E i \in Inputs : k \in dicts[i]
                                           /\ ToDictionary(output)[k] = 0}
    <2>1. \A i \in Inputs : \A k \in dicts[i] : Past(k) /\ at[i] = End
      BY <1>1, AllPast
    <2>2. ASSUME NEW i \in Inputs, NEW k \in Keys, k \in dicts[i]
          PROVE  k < top_key \/ (k = top_key /\ at[i] # top_key)
      <3>1. Past(k) /\ at[i] # k
        BY <2>1, <2>2, KeysAreNumbers
      <3>2. QED
        BY <3>1 DEF Past
    <2>3. \A k \in Keys : Written(k) <=> ToDictionary(output)[k] # 0
      BY <1>1, DictionaryWritten, NAssumption DEF Inputs
    <2>4. QED
      BY <2>1, <2>2, <2>3 DEF Consumed, GoneKeys, Gone, Known
  <1>2. ASSUME MergerType, Positions, Queued, ResultInv, Counted
        PROVE  StatsAddUp
    <2>1. ASSUME pc = "done"
          PROVE  /\ Consumed = {p \in Inputs \X Keys : p[2] \in dicts[p[1]]}
                 /\ GoneKeys = {k \in Keys : /\ \E i \in Inputs : k \in dicts[i]
                                             /\ ToDictionary(output)[k] = 0}
      BY <1>1, <1>2, <2>1
    <2>2. QED
      BY <1>2, <2>1 DEF StatsAddUp, Counted
  <1>3. QED
    BY <1>2, MergerInvariant, PTL
=============================================================================
