--------------------------- MODULE MinimizationHash ---------------------------
(***************************************************************************)
(* The table in which equal states (and equal values) are found again, and *)
(* the cache of generations built from it, as operators on records         *)
(* (dictionary/fsa/internal/minimization_hash.h, lru_generation_cache.h,   *)
(* packed_state.h).  An entry names what was stored, its hash code and, as *)
(* "cookie", the slot of the next entry of its bucket in the overflow      *)
(* array.  Which stored things equal the key that is looked up is a        *)
(* parameter.  `lost' is history: an entry that should still be found was  *)
(* dropped on purpose (a long chain, a full array, a removed generation),  *)
(* or it was written behind the end of the overflow array, which nothing   *)
(* prevents when a table grows.  What the program does after such a write  *)
(* is undefined; the modules that use a cache end there.                   *)
(***************************************************************************)
EXTENDS Naturals, Sequences, SequencesExt

CONSTANTS
  hash_size_step_table_, \* the sizes of a table: primes, each about twice the
                         \* one before
  OverflowShare,         \* 4: the overflow array is this part of the table
  MaxCookie,             \* the overflow array is never larger than this
  OverflowLimit,         \* 8: overflow_limit_, the longest chain
  SizePerGeneration, MaxGenerations

NoEntry == [id |-> 0, code |-> 0, cookie |-> 0]

IsEmpty(e) == e.id = 0 /\ e.code = 0

\* the last size: how often a table may grow
HashSteps == Len(hash_size_step_table_)

HashSize(step) == hash_size_step_table_[step]

ASSUME HashAssumption ==
  /\ hash_size_step_table_ \in Seq(Nat) /\ hash_size_step_table_ # <<>>
  /\ OverflowShare \in Nat \ {0}
  /\ \A step \in 1 .. HashSteps : HashSize(step) \div OverflowShare > 1
  /\ MaxCookie \in Nat /\ MaxCookie > 1
  /\ OverflowLimit \in Nat /\ SizePerGeneration \in Nat \ {0}
  /\ MaxGenerations \in Nat /\ MaxGenerations > 1

OverflowSize(step) ==
  LET share == HashSize(step) \div OverflowShare
  IN  IF share < MaxCookie THEN share ELSE MaxCookie

\* 60% of the table
RehashLimit(step) == (HashSize(step) * 3) \div 5

\* the constructor and Clear
NewTable(step) ==
  [step |-> step, count |-> 0, overflow_count |-> 1, lost |-> {},
   entries  |-> [b \in 0 .. HashSize(step) - 1 |-> NoEntry],
   overflow |-> [i \in 0 .. OverflowSize(step) - 1 |-> NoEntry]]

\* Reset leaves the overflow array as it is: nothing points into it any more
Reset(t) ==
  [t EXCEPT !.count = 0, !.overflow_count = 1,
            !.entries = [b \in DOMAIN t.entries |-> NoEntry]]

Bucket(t, code) == code % HashSize(t.step)

\* the overflow slots of a bucket, followed through the cookies; 0 ends them
NextSlot(t, s) == IF s = 0 THEN 0 ELSE t.overflow[s].cookie

Slots(t, b) ==
  LET slot[n \in 0 .. OverflowSize(t.step)] ==
        IF n = 0 THEN t.entries[b].cookie ELSE NextSlot(t, slot[n - 1])
      used == {i \in 1 .. OverflowSize(t.step) + 1 : slot[i - 1] # 0}
  IN  [i \in used |-> slot[i - 1]]

EntriesAt(t, slots) == [i \in DOMAIN slots |-> t.overflow[slots[i]]]

Chain(t, b) ==
  IF IsEmpty(t.entries[b]) THEN <<>>
  ELSE <<t.entries[b]>> \o EntriesAt(t, Slots(t, b))

\* where a chain has an entry that equals the key, 0 if it has none
FirstSame(chain, same) ==
  LET hits == {i \in DOMAIN chain : chain[i].id \in same}
  IN  IF hits = {} THEN 0 ELSE Min(hits)

EntryOf(chain, i) == IF i = 0 THEN NoEntry ELSE chain[i]

FirstOf(chain, same) == EntryOf(chain, FirstSame(chain, same))

\* Get: the first entry of the bucket that equals the key
Get(t, code, same) == FirstOf(Chain(t, Bucket(t, code)), same)

-----------------------------------------------------------------------------

Losses == {"dropped", "overrun"}

Loses(t, how) == [t EXCEPT !.lost = @ \cup {how}]

\* into bucket b, which has these overflow slots
InsertInto(t, e, b, slots) ==
  LET tail     == slots[Len(slots)]
      store(u) == IF t.overflow_count < OverflowSize(t.step)
                  THEN [u EXCEPT !.overflow[t.overflow_count] = e, !.overflow_count = @ + 1]
                  ELSE Loses(t, "overrun")
  IN  IF IsEmpty(t.entries[b]) THEN [t EXCEPT !.entries[b] = e]
      ELSE IF t.overflow_count = MaxCookie THEN Loses(t, "dropped")
      ELSE IF slots = <<>> THEN store([t EXCEPT !.entries[b].cookie = t.overflow_count])
      ELSE IF Len(slots) > OverflowLimit THEN Loses(t, "dropped")
      ELSE store([t EXCEPT !.overflow[tail].cookie = t.overflow_count])

Insert(t, e) ==
  LET b == Bucket(t, e.code)
  IN  InsertInto(t, e, b, Slots(t, b))

\* entry n of the old table: its buckets, then its overflow array
OldEntry(t, n) ==
  IF n <= HashSize(t.step) THEN t.entries[n - 1] ELSE t.overflow[n - HashSize(t.step)]

InsertAgain(t, e) == IF IsEmpty(e) THEN t ELSE Insert(t, [e EXCEPT !.cookie = 0])

\* mutant: what is in the overflow array is forgotten
GrowHeads(t) ==
  LET table[n \in 0 .. HashSize(t.step)] ==
        IF n = 0 THEN [NewTable(t.step + 1) EXCEPT !.count = t.count, !.lost = t.lost]
        ELSE InsertAgain(table[n - 1], OldEntry(t, n))
  IN  table[HashSize(t.step)]

\* everything is inserted again, what was disconnected from its chain too
GrowAndRehash(t) ==
  LET last == HashSize(t.step) + t.overflow_count - 1
      table[n \in 0 .. last] ==
        IF n = 0 THEN [NewTable(t.step + 1) EXCEPT !.count = t.count, !.lost = t.lost]
        ELSE InsertAgain(table[n - 1], OldEntry(t, n))
  IN  table[last]

GrowIf(t, full) == IF full /\ t.step < HashSteps THEN GrowAndRehash(t) ELSE t

GrowIfTableFull(t) == GrowIf(t, t.count > RehashLimit(t.step))

GrowIfOverflowFull(t) ==
  GrowIf(t, t.overflow_count = OverflowSize(t.step) /\ OverflowSize(t.step) < MaxCookie)

\* Add: insert, and grow when the table or its overflow array is full
Add(t, e) ==
  GrowIfOverflowFull(GrowIfTableFull([Insert(t, e) EXCEPT !.count = @ + 1]))

\* the table after entry i of the chain of b was taken out of it, which
\* happens to the first two entries of a chain only
TakenOut(t, b, chain, i) ==
  IF i = 1 /\ chain[1].cookie # 0
  THEN [t EXCEPT !.entries[b] = t.overflow[chain[1].cookie]]
  ELSE IF i = 2 THEN [t EXCEPT !.entries[b].cookie = chain[2].cookie]
  ELSE t

TakeFirst(t, b, chain, same) ==
  LET i == FirstSame(chain, same)
  IN  [entry |-> [EntryOf(chain, i) EXCEPT !.cookie = 0], table |-> TakenOut(t, b, chain, i)]

\* GetAndMove: the entry found, and the table without it
Found(t, code, same) ==
  LET b == Bucket(t, code)
  IN  TakeFirst(t, b, Chain(t, b), same)

-----------------------------------------------------------------------------
(* LeastRecentlyUsedGenerationsCache.                                      *)

NewCache == [current |-> NewTable(1), generations |-> <<>>, lost |-> FALSE]

\* when the current generation is full the next one takes over; the oldest
\* one is used again when there are too many
FreshGeneration(c) ==
  IF c.current.count < SizePerGeneration THEN c
  ELSE IF Len(c.generations) + 1 = MaxGenerations
  THEN [current     |-> Reset(c.generations[1]),
        generations |-> Append(Tail(c.generations), c.current),
        lost        |-> TRUE]
  ELSE [c EXCEPT !.current = NewTable(1), !.generations = Append(@, c.current)]

CacheAdd(c, e) == [FreshGeneration(c) EXCEPT !.current = Add(@, e)]

\* the newest of the older generations that has it; what is found moves to
\* the current one
MoveToCurrent(c, found) ==
  LET hits == {i \in DOMAIN found : ~IsEmpty(found[i].entry)}
  IN  IF hits = {} THEN [entry |-> NoEntry, cache |-> c]
      ELSE LET i == CHOOSE j \in hits : \A k \in hits : k <= j
           IN  [entry |-> found[i].entry,
                cache |-> [c EXCEPT !.generations[i] = found[i].table,
                                    !.current = Add(@, found[i].entry)]]

\* the current generation first, then the older ones
CacheGet(c, code, same) ==
  IF ~IsEmpty(Get(c.current, code, same))
  THEN [entry |-> Get(c.current, code, same), cache |-> c]
  ELSE MoveToCurrent(c, [i \in DOMAIN c.generations |-> Found(c.generations[i], code, same)])

\* all entries of all generations
CacheEntries(c) ==
  LET Of(t) == {e \in Range(t.entries) \cup Range(t.overflow) : ~IsEmpty(e)}
  IN  Of(c.current) \cup UNION {Of(c.generations[i]) : i \in 1 .. Len(c.generations)}

\* nothing that was added was dropped
NothingLost(c) ==
  ~c.lost /\ c.current.lost = {} /\ \A i \in 1 .. Len(c.generations) : c.generations[i].lost = {}

\* a write behind the end of an overflow array
Overrun(c) ==
  \/ "overrun" \in c.current.lost
  \/ \E i \in 1 .. Len(c.generations) : "overrun" \in c.generations[i].lost

=============================================================================
