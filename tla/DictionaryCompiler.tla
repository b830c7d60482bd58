--------------------------- MODULE DictionaryCompiler ---------------------------
(***************************************************************************)
(* The three compilers that turn calls of Add in any order into one        *)
(* dictionary: DictionaryCompiler, which sorts what fits into memory into  *)
(* chunk files and merges those at the end (dictionary_compiler.h);        *)
(* DictionaryIndexCompiler, which the index writer uses and which must     *)
(* respect the order of Add and Delete (dictionary_index_compiler.h); and  *)
(* SecondaryKeyDictionaryCompiler, which puts codes of the secondary keys  *)
(* in front of the key (secondary_key_dictionary_compiler.h,               *)
(* secondary_key_dictionary.h).                                            *)
(*                                                                         *)
(* A generator is what it accepts: entries in the order they were added.   *)
(* That it does so is shown in module Generator.  The value of an entry is *)
(* the number of the call that registered it.                              *)
(***************************************************************************)
EXTENDS Integers, Sequences, SequencesExt, FiniteSets, FiniteSetsExt

CONSTANTS
  Bytes, MaxKeyLength,  \* the keys
  MetaValues,           \* values of the secondary keys, 0 is the empty one
  NumSecondary,         \* how many secondary keys there are
  VINT_BASE,            \* 128: a varint digit is smaller than this
  MemoryLimit,          \* memory_limit_, in entries
  MaxCalls, MaxSecondaryCalls

ASSUME CompilerAssumption ==
  /\ Bytes \subseteq Nat /\ MaxKeyLength \in Nat /\ 0 \in MetaValues
  /\ NumSecondary \in Nat /\ VINT_BASE \in Nat /\ VINT_BASE > 2
  /\ MemoryLimit \in Nat \ {0} /\ MaxCalls \in Nat /\ MaxSecondaryCalls \in Nat

Keys == BoundedSeq(Bytes, MaxKeyLength)
Metas == [1 .. NumSecondary -> MetaValues]

VARIABLES
  class,              \* "dictionary", "index" or "secondary"
  phase,              \* "feed", "merge" or "compiled"
  key_values_,        \* entries in memory
  memory_estimate_,
  chunks,             \* the chunk files, each what its generator accepted
  position,           \* per chunk: its iterator while merging
  generator_,         \* what the final generator accepted
  replacements,       \* secondary_key_replacements_: a code per value
  current_index_,
  calls               \* history: every Add and Delete, and the chunk it went to

vars == <<class, phase, key_values_, memory_estimate_, chunks, position, generator_,
          replacements, current_index_, calls>>

-----------------------------------------------------------------------------
(* Sorting and generating.                                                 *)

Entry(key, deleted) == [key |-> key, value |-> Len(calls) + 1, deleted |-> deleted]

\* key_value_pair::operator<: the bytes of the key, nothing else
LessKey(a, b) ==
  \/ IsStrictPrefix(a, b)
  \/ \E i \in 1 .. Len(a) \cap 1 .. Len(b) :
       a[i] < b[i] /\ \A j \in 1 .. i - 1 : a[j] = b[j]

\* std::sort, block_indirect_sort: entries with equal keys in any order
Sorts(entries) ==
  {[i \in DOMAIN entries |-> entries[p[i]]] : p \in
     {p \in Surjection(DOMAIN entries, DOMAIN entries) :
        \A i \in 1 .. Len(entries) - 1 : ~LessKey(entries[p[i + 1]].key, entries[p[i]].key)}}

\* std::stable_sort, spinsort: equal keys stay in their order
StableSorts(entries) ==
  {[i \in DOMAIN entries |-> entries[p[i]]] : p \in
     {p \in Surjection(DOMAIN entries, DOMAIN entries) :
        \A i \in 1 .. Len(entries) - 1 :
          \/ LessKey(entries[p[i]].key, entries[p[i + 1]].key)
          \/ entries[p[i]].key = entries[p[i + 1]].key /\ p[i] < p[i + 1]}}

\* Generator::Add: a key equal to the last one is ignored; before the first
\* call the last key is the empty one, which therefore is never accepted
Accept(accepted, entry) ==
  LET last_key == IF accepted = <<>> THEN <<>> ELSE Last(accepted).key
  IN  IF entry.key = last_key THEN accepted ELSE Append(accepted, entry)

\* the loops over the sorted entries: those at the given places are added
Generate(entries, places) ==
  LET accepted[n \in 0 .. Len(entries)] ==
        IF n = 0 THEN <<>>
        ELSE IF n \in places THEN Accept(accepted[n - 1], entries[n])
        ELSE accepted[n - 1]
  IN  accepted[Len(entries)]

-----------------------------------------------------------------------------

Init ==
  /\ class \in {"dictionary", "index", "secondary"}
  /\ phase = "feed"
  /\ key_values_ = <<>> /\ memory_estimate_ = 0
  /\ chunks = <<>> /\ position = <<>> /\ generator_ = <<>>
  /\ replacements = [v \in {} |-> <<>>]
  /\ current_index_ = 2
  /\ calls = <<>>

\* mutant: the entries go to the chunk in the order they came
ChunkUnsorted(entries) ==
  /\ chunks' = Append(chunks, Generate(entries, DOMAIN entries))
  /\ key_values_' = <<>>

\* CreateChunk: sort, generate, write
CreateChunk(entries) ==
  /\ \E sorted \in Sorts(entries) :
       chunks' = Append(chunks, Generate(sorted, DOMAIN sorted))
  /\ key_values_' = <<>>

\* TriggerSortAndChunkGenerationIfNeeded
AddEntry(entry) ==
  LET entries  == Append(key_values_, entry)
      estimate == memory_estimate_ + 1
  IN  IF class # "index" /\ estimate >= MemoryLimit
      THEN /\ CreateChunk(entries)
           /\ memory_estimate_' = 0
      ELSE /\ key_values_' = entries
           /\ memory_estimate_' = estimate
           /\ UNCHANGED chunks

Record(key, meta, deleted) ==
  calls' = Append(calls, [key |-> key, meta |-> meta, deleted |-> deleted,
                          chunk |-> Len(chunks)])

\* Add of the first two compilers; once compiled they throw
Add(key) ==
  /\ class # "secondary" /\ phase = "feed"
  /\ AddEntry(Entry(key, FALSE))
  /\ Record(key, <<>>, FALSE)
  /\ UNCHANGED <<class, phase, position, generator_, replacements, current_index_>>

\* Delete of the index compiler, which does not look whether it is compiled
Delete(key) ==
  /\ class = "index"
  /\ AddEntry(Entry(key, TRUE))
  /\ IF phase = "feed" THEN Record(key, <<>>, TRUE) ELSE UNCHANGED calls
  /\ UNCHANGED <<class, phase, position, generator_, replacements, current_index_>>

-----------------------------------------------------------------------------
(* Secondary keys.                                                         *)

\* low digits first, all but the last one marked
encodeVarInt[n \in Nat] ==
  IF n < VINT_BASE THEN <<n>>
  ELSE <<(n % VINT_BASE) + VINT_BASE>> \o encodeVarInt[n \div VINT_BASE]

\* a value that is met for the first time gets the next code
Assign(state, v) ==
  IF v = 0 \/ v \in DOMAIN state.known THEN state
  ELSE [known |-> [w \in DOMAIN state.known \cup {v} |->
                     IF w = v THEN encodeVarInt[state.next] ELSE state.known[w]],
        next  |-> state.next + 1]

Assigned(meta) ==
  LET state[n \in 0 .. NumSecondary] ==
        IF n = 0 THEN [known |-> replacements, next |-> current_index_]
        ELSE Assign(state[n - 1], meta[n])
  IN  state[NumSecondary]

\* the code of a value, 1 for the empty one
CodeOf(known, v) == IF v = 0 THEN <<1>> ELSE known[v]

\* the codes of all secondary keys in a row
CodesOf(known, meta) ==
  LET path[n \in 0 .. NumSecondary] ==
        IF n = 0 THEN <<>> ELSE path[n - 1] \o CodeOf(known, meta[n])
  IN  path[NumSecondary]

AddSecondary(key, meta) ==
  /\ class = "secondary" /\ phase = "feed"
  /\ replacements' = Assigned(meta).known
  /\ current_index_' = Assigned(meta).next
  /\ AddEntry(Entry(CodesOf(replacements', meta) \o key, FALSE))
  /\ Record(key, meta, FALSE)
  /\ UNCHANGED <<class, phase, position, generator_>>

-----------------------------------------------------------------------------
(* Compile.                                                                *)

Accepted(entries) ==
  /\ generator_' = entries
  /\ key_values_' = <<>>
  /\ phase' = "compiled"

CompileSingleChunk ==
  /\ class # "index" /\ phase = "feed" /\ chunks = <<>>
  /\ \E sorted \in Sorts(key_values_) : Accepted(Generate(sorted, DOMAIN sorted))
  /\ UNCHANGED <<class, memory_estimate_, chunks, position, replacements, current_index_, calls>>

\* mutant: the first of equal keys stays
FirstOnes(entries) ==
  {i \in DOMAIN entries : ~entries[i].deleted /\ (i = 1 \/ entries[i - 1].key # entries[i].key)}

\* the loop of DictionaryIndexCompiler::Compile adds the last of equal keys,
\* if it is not a delete
LastOnes(entries) ==
  {i \in DOMAIN entries :
     ~entries[i].deleted /\ (i = Len(entries) \/ entries[i + 1].key # entries[i].key)}

CompileIndex ==
  /\ class = "index" /\ phase = "feed"
  /\ \E sorted \in StableSorts(key_values_) : Accepted(Generate(sorted, LastOnes(sorted)))
  /\ UNCHANGED <<class, memory_estimate_, chunks, position, replacements, current_index_, calls>>

\* CompileByMergingChunks: the last chunk, then an iterator on every chunk;
\* one that accepted nothing has an iterator at the empty key
StartMerge ==
  /\ class # "index" /\ phase = "feed" /\ chunks # <<>>
  /\ IF key_values_ # <<>> THEN CreateChunk(key_values_)
     ELSE UNCHANGED <<chunks, key_values_>>
  /\ position' = [i \in DOMAIN chunks' |-> 1]
  /\ phase' = "merge"
  /\ UNCHANGED <<class, memory_estimate_, generator_, replacements, current_index_, calls>>

Live == {i \in DOMAIN chunks : position[i] <= Len(chunks[i]) \/ (chunks[i] = <<>> /\ position[i] = 1)}

KeyAt(i) == IF chunks[i] = <<>> THEN <<>> ELSE chunks[i][position[i]].key

\* mutant: of equal keys the oldest chunk wins
TopOldest ==
  CHOOSE i \in Live : \A j \in Live \ {i} :
    LessKey(KeyAt(i), KeyAt(j)) \/ (KeyAt(i) = KeyAt(j) /\ i < j)

\* the top of the queue: the smallest key, of equal ones the newest chunk
Top ==
  CHOOSE i \in Live : \A j \in Live \ {i} :
    LessKey(KeyAt(i), KeyAt(j)) \/ (KeyAt(i) = KeyAt(j) /\ i > j)

\* one round: the other iterators at the same key move on as well
MergeNext ==
  /\ phase = "merge" /\ Live # {}
  /\ generator_' = IF chunks[Top] = <<>> THEN generator_
                   ELSE Accept(generator_, chunks[Top][position[Top]])
  /\ position' = [i \in DOMAIN chunks |->
                    position[i] + IF i \in Live /\ KeyAt(i) = KeyAt(Top) THEN 1 ELSE 0]
  /\ UNCHANGED <<class, phase, key_values_, memory_estimate_, chunks, replacements,
                 current_index_, calls>>

\* the chunk files are removed, the generator is closed
FinishMerge ==
  /\ phase = "merge" /\ Live = {}
  /\ chunks' = <<>> /\ position' = <<>>
  /\ phase' = "compiled"
  /\ UNCHANGED <<class, key_values_, memory_estimate_, generator_, replacements,
                 current_index_, calls>>

Next ==
  \/ /\ Len(calls) < MaxCalls
     /\ \E key \in Keys : Add(key)
  \/ /\ Len(calls) < MaxCalls /\ Len(key_values_) < MaxCalls
     /\ \E key \in Keys : Delete(key)
  \/ /\ Len(calls) < MaxSecondaryCalls
     /\ \E key \in Keys, meta \in Metas : AddSecondary(key, meta)
  \/ CompileSingleChunk \/ CompileIndex
  \/ StartMerge \/ MergeNext \/ FinishMerge

Spec == Init /\ [][Next]_vars

-----------------------------------------------------------------------------
(* Lookups in what was compiled.                                           *)

Find(key) == {generator_[i].value : i \in {j \in DOMAIN generator_ : generator_[j].key = key}}

\* GetStartState: the path of the codes, or none
StartPath(meta) ==
  IF \E i \in DOMAIN meta : meta[i] # 0 /\ meta[i] \notin DOMAIN replacements THEN {}
  ELSE {CodesOf(replacements, meta)}

\* only the secondary key compiler has codes
FindSecondary(meta, key) ==
  IF class = "secondary" THEN UNION {Find(path \o key) : path \in StartPath(meta)}
  ELSE Find(key)

CallsOf(key, meta) == {i \in DOMAIN calls : calls[i].key = key /\ calls[i].meta = meta}

-----------------------------------------------------------------------------

\* The generator gets every key once, in ascending order, from whichever
\* chunks it comes: an automaton can be built from nothing else.
Ascending ==
  \A s \in Range(chunks) \cup {generator_} :
    \A i \in 1 .. Len(s) - 1 : LessKey(s[i].key, s[i + 1].key)

\* What an index compiler compiled is what the calls leave behind: of every
\* key the last Add, unless it was deleted afterwards.
LastCallWins ==
  class = "index" /\ phase = "compiled" =>
    \A key \in Keys \ {<<>>} :
      LET of == CallsOf(key, <<>>)
      IN  Find(key) = IF of = {} \/ calls[Max(of)].deleted THEN {} ELSE {Max(of)}

\* What the other two compiled has every key that was added, with a value
\* of the last chunk it was added to; entries of one chunk are not ordered.
\* With secondary keys an entry is found under its own secondary keys and
\* under no others.  Only the empty key is never accepted.
LastChunkWins ==
  class # "index" /\ phase = "compiled" =>
    \A key \in Keys, meta \in IF class = "secondary" THEN Metas ELSE {<<>>} :
      LET of    == CallsOf(key, meta)
          last  == {i \in of : calls[i].chunk = calls[Max(of)].chunk}
          found == FindSecondary(meta, key)
      IN  IF of = {} \/ (key = <<>> /\ (class = "dictionary" \/ NumSecondary = 0)) THEN found = {}
          ELSE Cardinality(found) = 1 /\ found \subseteq last

=============================================================================
