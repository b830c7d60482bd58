# keyvi: a TLA+ model of the index and its dictionaries

keyvi is a key-value library around an immutable finite state dictionary. Its
*index* adds writes to it: an index is a directory of immutable dictionaries
(segments), a table of contents and, per segment, lists of deleted keys. One
process writes, merges run beside it in threads and processes, and other
processes read the same directory. The models cover both layers: the index,
where concurrency and failure are, and the dictionary below it, where dense data
structures have to give back exactly what was put into them.

Paths below are relative to `src/keyvi/include/keyvi/` unless they start with
`doc/`, `tests/` or `bin/`.

## Inventory

| part | state it keeps | operations | what makes it correct |
|---|---|---|---|
| segment (`index/internal/segment.h`, `read_only_segment.h`) | files `.kv`, `.dk`, `.dkm`; the list readers consult; two lists for writing; flags `deletes_loaded`, `in_merge_`, `new_delete_` | DeleteKey, Persist, (lazy) load, ElectedForMerge, MergeFailed, RemoveFiles, three constructors | a persisted delete is never lost or undone; the second list holds only what was deleted since the election |
| index writer (`index/internal/index_writer_worker.h`) | compiler, segment list, merge jobs, flags; `index.toc` | tasks Add, Delete, Flush, Compile; scheduled task: FinalizeMerge, RunMerge, PersistDeletes, Compile; LoadIndex; shutdown | `index.toc` never names a missing file; what a flush covered is visible and durable; newer values win |
| merge job (`index/internal/merge_job.h`, `bin/keyvimerger`) | parents, output file, thread or process, exit code | Run, TryFinalize, Finalize | a failed merge changes nothing |
| merge policies (`tiered_merge_policy.h`, `simple_merge_policy.h`) | none | SelectMergeSegments | only adjacent, unmarked segments |
| dictionary merger (`dictionary/dictionary_merger.h`, `fsa/segment_iterator.h`) | priority queue of iterators, `.dk` lists, statistics | Add, Merge | newest value of every key, deleted keys dropped, sorted output |
| in-process lookup (`base_index_reader.h`) | none | operator[], Contains, GetNear, GetFuzzy | the newest segment with the key decides |
| index compiler (`dictionary_index_compiler.h`) | list of key/value/delete entries | Add, Delete, Compile | last entry of a key wins |
| active object (`util/active_object.h`) | queue, timer, worker thread | enqueue, run, stop | one task at a time; every task runs before the end |
| index API and lock (`index/index.h`) | file lock | Set, MSet, Delete, Flush, ForceMerge | one writer per directory; Flush returns after its effects |
| index reader (`index_reader_worker.h`, `read_only_index.h`) | segment list, map by name, modification time | ReloadIndex, ReloadDeletedKeys, UpdateWatcher | eventually sees the last flushed state; never a mixture |
| FSA generator, minimization hash, LRU generations (`dictionary/fsa/generator.h`, `internal/minimization_hash.h`, ...) | stack of unpacked states, hash tables | Add, CloseFeeding | the automaton accepts exactly the keys that were added |
| sparse array (`internal/sparse_array_builder.h`, `sparse_array_persistence.h`, bit vectors, position tracker) | buckets, taken positions | PersistState | states never overlap, transitions are found again |
| automata, traversers (`fsa/automata.h`, `*_traverser.h`, `entry_iterator.h`, `zip_state_traverser.h`) | position stack | traversal | visits the keys in order, once |
| value stores (`internal/*_value_store.h`) | values, dedup hash | AddValue, merge | a value is found at the offset returned for it |
| memory map manager (`internal/memory_map_manager.h`) | chunks, tail | Append, GetBuffer, Persist | bytes come back where they were put, across chunks |
| dictionary, compilers (`dictionary.h`, `dictionary_compiler.h`, secondary key variants) | chunks, parallel sort | Add, Compile, Get, prefix lookups | same map as the input |
| matching, completion (`matching/`, `completion/`) | traversal state | iterators | exactly the matches, in order |
| string distance (`stringdistance/`) | incremental matrix | Put, GetScore | equals the edit distance |
| small algorithms (`util/vint.h`, `jump_consistent_hash.h`, `bounded_priority_queue.h`) | - | encode, decode, hash | round trip, bounds |
| compression, vector, C API, command line tools, Python and Rust bindings | - | - | glue or wrappers of other libraries |

How they interact: `Index` turns calls into tasks of the active object; its one
worker thread executes them and, when its timer has passed, the scheduled task.
Tasks change the segment list (swapped as a whole under a mutex) and the files.
RunMerge marks segments and starts a job; the job reads `.kv` and `.dk` files and
writes a new `.kv` file; a later scheduled task finds it done, swaps the list,
writes `index.toc` and removes the old files. Readers in the process take the
current list and consult the segments; readers in other processes poll
`index.toc` and the `.dk`/`.dkm` files by modification time.

A dictionary is built by a compiler that sorts its input and feeds a generator;
the generator hands finished states to the sparse array builder and values to a
value store, both of which look for equal ones in a minimization hash and write
through the memory map manager. It is read through traversers; matchers drive
them, over one dictionary or, zipped, over all segments of an index.

What is hard here, at the lines where it bites, is listed under `hazards` in
`PROJECT.json`: deletes that arrive while a merge runs, merges that overlap, a
merge that fails, the death of the process between two writes of a file, lazily
loaded lists, callers that wait for a worker that waits for its timer, a reader
that sees half of a change; and below that, states overlaid in one array, tables
that drop entries on purpose, pointers moved by a merge, traversers that have to
stay in step, matrices with stale rows.

## Modules

The index:

- **Segment** - one segment: object and files as a record, every method of
  `Segment` and the parts of `ReadOnlySegment` it uses as an operator from
  segment to segment. `dict` maps keys to the number of the write that set them,
  0 is "not there". `NoFile` stands for a missing file. A vector of segments is a
  set ordered by `rank`. Files are written to a swap file and renamed, so a write
  is one step.
- **SegmentLife** (extends Segment) - one segment on its own: delete, flush, read,
  elect, failed merge, restart. History variables record what was deleted, what a
  flush covered and what was deleted since the election.
- **MergeSemantics** - what a merge yields, as a function of dictionaries, `.dk`
  lists and ages. `Dropped` says which deletes the merger really applies: the
  largest set of deleted keys such that all smaller keys of the same list are in it.
- **DictionaryMerger** (extends MergeSemantics) - the loop of `CompleteMerge` and
  `AppendMerge`, one action per iteration, with the order of the priority queue
  taken from the comparison operators. Checked against `MergedDictionary`.
- **IndexWriter** (extends Segment, MergeSemantics) - the worker as a program with
  a program counter, merge jobs, readers of the process, crash, shutdown, restart.
  A task is split where files or the segment list change: `PersistDeletes` per
  segment, `Compile` before `WriteToc`, `FinalizeMerge` at the swap, at `WriteToc`
  and at the removal of files. `pending` is what the compiler would write. The
  result of a job is `MergedDictionary` of what it found when it opened its
  inputs. Mapping of the program counter: `persist`/`compile`/`compile_toc` are
  `PersistDeletes`, `Compile` and its `WriteToc`; `finalize`/`merge_toc`/`remove`
  are `FinalizeMerge`; `run_merge` is `RunMerge` and the rest of `ScheduledTask`;
  `wait` and `finished` are the last task of the destructor and the end of the
  worker thread; `down` means there is no process. A *scenario*, chosen by Init, bounds
  keys, calls and faults and sets the number of merge slots and the threshold for
  merging in a process (**MCIndexWriter**).
- **IndexApi** - the calling side: `Index`, the active object with its queue,
  Set, Flush (mutex and condition variable), ForceMerge, the throttle loop, the
  scheduled task, destruction, the file lock and a second process that opens the
  same directory: it loads `index.toc`, waits for the lock, writes, and merges what
  it loaded at any time, also while it waits. `toc` says who wrote `index.toc` last
  and what it leads to, `gone` whose lists name files that the other process
  removed. Segments are only counted here. The queue is a library
  (moodycamel): it is modelled as what the code may rely on, one queue per thread
  whose heads are taken in any order.
- **IndexReader** (extends Segment, MergeSemantics) - a process that reads the
  directory. The writer is reduced to what it does to the files, one file at a
  time. Each of the reader's two threads (watcher, caller of Reload) takes one step
  per file access; modification times count seconds, and `index.toc` is written in
  the second of the last one or a later one. Part `CheckTime`/`ReadToc`/
  `Opens`/`Fails`/`Swap` is `ReloadIndex`, `LoadDk`/`LoadDkm` is `LoadDeletedKeys`.

The dictionary:

- **Automata** - the array of buckets as readers see it: transitions, final values,
  inner weights, overflow codes. The constants of `internal/constants.h` are
  parameters; an assumption keeps their order.
- **StateStore** - the abstract specification of the place where states are
  persisted: a state keeps its transitions and its value for ever, its weight may
  only rise, equal states may share an id.
- **SparseArray** (extends Automata) - `SparseArrayBuilder` and
  `SparseArrayPersistence`: search for a free place, zero byte scrambling, overflow
  codes, weights, the buffer. Shown to implement `StateStore`.
- **MinimizationHash** - the hash table with overflow chains, its growth through a
  list of sizes, and the cache of generations, as operators on records. An insertion
  behind the end of the overflow array, which the code does not check for, is noted
  in the table (`Overrun`).
- **Generator** (extends MinimizationHash), with **MCGenerator** - feeding and consuming the stack of
  unpacked states, persisting into a store of states (what `SparseArray`
  implements), closing.
- **MemoryMap**, **ValueStore** (extends MinimizationHash, MemoryMap), with
  **MCValueStore** - the value stores: deduplication, pointers with the length in
  them, chunks, the written file, merging value by value and append merging.
- **DictionaryCompiler** - the three compilers: sorted chunks and their merge, the
  index compiler with deletes, the secondary key compiler with its prefix codes.
- **StateTraverser** - one traverser with plain, weighted or near transitions; a
  dictionary is a function from keys to values and a state is the path to it.
- **ZipTraverser** (extends StateTraverser) - the traverser over several
  dictionaries with its heap. **DictionaryWalk** is what it promises: the walk over
  one dictionary with the union of the keys, where later ones win.
- **StringDistance** - the incremental matrix with its corridor. Cells that were
  never written do not exist: TLC stops at a read of one.
- **Matching** (extends ZipTraverser, StringDistance), with **MCMatching** - near,
  fuzzy, prefix, multiword and fuzzy multiword matching, all items, text lookup,
  minimum weights and the filter for deleted keys; one action per turn of a
  matcher's loop. With a search of type "free" the traverser is driven in any order.

The theorems, see below, are in **SegmentProofs**, **SegmentLifeProofs**,
**IndexWriterProofs**, **IndexApiProofs**, **IndexReaderProofs**,
**DictionaryMergerProofs**, **DictionaryCompilerProofs** and **ValueStoreProofs**.

Definitions named "mutant" change one definition the way a slip in the code
would; they show that each property depends on the code.

## Runs

| run | question | what holds |
|---|---|---|
| segment_life | can any sequence of operations on a segment lose a delete? | `FlushedDurable`, `PersistedBeforeMerge`, `DuringMergeIsNew`, `DeletedStaysDeleted`, `TypeOK` |
| merger | does the merge loop compute the merge? | `ComputesMergedDictionary`, `OutputSorted`, `NothingUndeletedDropped`, `StatsAddUp` |
| writer | deletes against two overlapping merges with an orderly end; a failed merge and a crash at any point with three slots; a merge that ignores a delete | `TocOpens`, `SetsSurvive`, `DurableUndisturbed`, `MergesApart`, `VisibleUnlessUnread`, `TypeOK`; `SetsSurvive` and `MergesApart` as long as no merge failed, the two about deletes (`DurableUndisturbed`, `VisibleUnlessUnread`) also without a crash and but for `ignored` keys |
| writer_live | does the index shrink to one segment? | `EventuallyOneSegment`, without failures |
| writer_failed | are flushed deletes durable when a merge fails? | no: `DurableAllowed` is violated, see below |
| api | do calls return, do flushes cover what they should, and what does the file lock protect from a second process? | `FlushCoversOwn`, `CallsReturn`, `LostOnlyIfOvertaken`, `LockProtects` |
| reader | does another process see one published state, and at last the current one? | `ListPublished`; `ReloadCovers` and `EventuallyConsistent` with three named exceptions |
| sparse_array | can overlaid states disturb each other? | `ImplementsStore` (refinement), `WritesInBuffer` |
| generator | does the automaton accept exactly the keys? | `AcceptsExactly`, `InnerWeights`, `Minimal` |
| values | do values come back from their pointers? | `ReadsBack`, `FoundAgain`, `NoChunkBehindTail` |
| compiler | does a dictionary hold what the calls left? | `Ascending`, `LastCallWins`, `LastChunkWins` |
| matching | are several dictionaries walked like one, and do the matchers find what they should? | `ImplementsWalk` (refinement), `FuzzyFindsExactly`, `NearFindsClosest`, `CompletesExactly`, `FuzzyCompletes`, `TextFindsLongest` |

`allowed[k]` in `IndexWriter` is the specification of near-realtime reads: it
collects the outcomes of all calls for `k` since the last finished flush, and the
last one before it. A lookup (`Visible`) and a restart (`Durable`) must return one
of them.

### Bounds

*Index.* Keys: three for the segment and the merger (the merger's order effects
need two keys in one list and one in another), one or two for the writer; deletes
of one key against two merges need only one, a delete that a merge ignores needs two
keys, three writes and two deletes. The scenario fields `segs`, `writes`,
`deletes`, `failures`, `crashes`, `closes` bound files, calls and faults: three
segments are the fewest with a merge and a neighbour, one failed merge followed by
another merge of the same segments needs three files, and `segs` leaves room to
compile every write and merge it twice. `threshold` (of keys, above which a merge
gets a process) is set so that threads and processes both occur; with the limit of
14 segments a merge of two is also forced into a process as soon as three are
listed (the code keeps a reserve of ten), which happens beside a second merge.
`MaxEntries`
bounds the entries of all merger inputs. The reader meets three segments, a merge
that succeeds or fails, one delete and one explicit Reload beside any number of
rounds of the watcher, which is enough for each of its exceptions and for their
repair. The API has two threads with two writes, one flush and one forced merge
between them, a limit of two segments, so that throttling happens, and a second
process that may open the directory at any time.

*Dictionary.* The format's constants are scaled down and keep their order: four
labels instead of 256, a compact window of 14 buckets, a buffer of 20, overflow
codes from 16, chunks of four bytes, pointers whose length stops at 3, tables that
grow twice, with chains of at most one and two or three generations. The sizes of
tables are not exact doubles, as the primes of the code are not: 4, 7 and 16 in the
generator, 4, 5 and 16 in the value stores, where the second is so small that its
overflow array can be overrun. The values include one with a zero byte and two that
begin alike, at the limit of the length and above it. Every limit is therefore crossed within a few calls: three states in
the array, four keys of up to three bytes in the generator, four values in a store
and two files of three values in a merge, five calls of a compiler with two
entries per chunk. Up to three dictionaries of up to three keys are zipped; the
matchers run on up to two segments whose keys were chosen to share beginnings,
contain characters of two bytes and separators.

Runs stop when their bounds are used up, or the computation ends, so
`CHECK_DEADLOCK FALSE` is set, except for the segment, which never stops and is
checked for deadlock.

### Fairness

- `IndexWriter`: a task that was begun goes on, a merge thread or process that was
  started ends, and strong fairness of the scheduled task: the active object looks
  at the clock after every task, so other tasks cannot put it off for ever, but it
  is not continuously enabled because other tasks run in between. Nothing is
  assumed of calls, readers, faults or shutdown.
- `IndexApi`: threads within a call, the worker and merges go on; strong fairness
  of the scheduled task as above, and of taking a task of each producer, since the
  consumer of the queue goes round the producers. Nobody has to call anything.
- `IndexReader`: the watcher and a caller within Reload go on. Nothing is assumed
  of the writer: `EventuallyConsistent` speaks of the time after its last step,
  wherever it stopped.
- The others state no liveness and assume no fairness.

## What the runs found

The run writer_failed shows a disagreement of the code with its own comment:

1. A failed job is never removed from the list (`index_writer_worker.h:353-371`).
   Its segments are marked as mergeable again at every scheduled task, also while
   another job merges them, and the deletes of that merge are moved away from the
   list that the merged segment would inherit: a flushed delete is lost. The job
   also occupies a slot for ever; with `failures |-> 1` in `CalmScenario` TLC
   refutes `EventuallyOneSegment`. A flushed value can suffer as well: the failed
   job `{2}` frees segment 2 while `{1, 2, 4}` is merged, 2 is elected again and its
   result keeps place 2, and then the result of `{1, 2, 4}` takes place 1, so an
   older value is found. This came up in the proof of `SetsSurvive`, which is
   therefore about histories without a failed merge; without that condition TLC
   refutes it with 6 files, 4 writes, a delete, three merges and one failure.

The passing properties are as strong as the code allows; where they stop short of
what one would expect, this is why:

2. The constructor of a merged segment writes the deletes it inherits to `.dk` but
   never loads them, while it claims that they are loaded (`segment.h:62-85`). A
   delete that was flushed, and visible, while the merge ran is undone for readers
   of the process when the merged segment is swapped in. On disk all is well.
   `VisibleUnlessUnread` shows that this is the only case.
3. `KeyDeleted` (`dictionary_merger.h:190`) looks only at the smallest key left in
   the list of the newest input of a key. If that list holds a smaller key that a
   newer input has overwritten, the list never advances and all later deletes of it
   are ignored. `ComputesMergedDictionary` says exactly which (`Dropped`). So an
   ordinary merge can undo a flushed delete: set 1 and 2, compile, delete 1 and 2,
   set 1, flush; the merge of both segments has key 2. This came up in the proof of
   `DurableUndisturbed`. The history variable `ignored` of `IndexWriter` collects
   these keys, and the two properties about deletes are about all others; with
   `IgnoredScenario` TLC refutes `DurableAllowed`. The test
   at `tests/keyvi/index/index_test.cpp:270` builds such inputs but looks at the
   index before they are merged.
4. A process that dies during a merge leaves `.dk` and `.dkm`. The next one joins
   them in memory (`segment.h:235`) but does not mark the list as changed, so the
   next election does not write it, although the comment at `segment.h:176` relies
   on that, and the merge reads an incomplete `.dk`. With `CrashInMerge = TRUE` in
   `SegmentLife.cfg` TLC refutes `PersistedBeforeMerge`. For the same reason
   `DurableUndisturbed` ends with the first crash.
5. `SimpleMergePolicy` elects segments on both sides of a running merge, and the
   result takes the place of the first parent: an older value overtakes a newer one
   (`simple_merge_policy.h:42`). With `Policy = "simple"` TLC refutes `SetsSurvive`.
   With `PolicyLoads = FALSE` in `SegmentLife.cfg`, which is what this policy does
   for two or more segments, TLC also refutes `DuringMergeIsNew`.
6. A reader stays behind, until `index.toc` has another time, after a second
   `index.toc` within the second it has already seen, after a Reload that threw, and
   after an older list was swapped in over a newer one by two reloads that
   overlapped (`index_reader_worker.h:103-139`). `spoiled` records each of the three
   when it happens, and not merely that reloads overlapped; `ReloadCovers` and
   `EventuallyConsistent` show that there is no fourth. A caller of Reload may
   also return before the watcher, which took the time first, has loaded the list.
7. The file lock is taken after the worker has loaded the index and released before
   it has written its last segment (`index.h:81`; the code remarks on the latter at
   line 85): two writers can overlap. `LockProtects` says what that costs. While
   the first process has the index open, its `index.toc` is safe from one that
   waits for the lock, except that the worker of the waiting one may merge what it
   loaded, overwrite `index.toc` and remove files. After that what the second
   process loaded stays, but what the first compiled after that load can be lost,
   or an `index.toc` can name files the other one removed.
8. The throttle loop (`index_writer_worker.h:263`) never ends with a limit of one
   segment: with `MaxSegments = 1` TLC refutes `CallsReturn`.
9. The check that keeps "zombie weights" away from states without a weight
   (`sparse_array_builder.h:412`) does not cover a state with a zero byte that is
   placed on the weight bucket of another, which then shows a weight.
   `ImplementsStore` compares the weights of all states and leaves out this one case
   (`ZeroByteAtWeight`).
10. Near traversers that reach one path on different ways are not equal
    (`comparable_state_traverser.h:234`), so the zip traverser over several segments
    shows a path more than once and with the value of an older segment
    (`DictionaryWalk!Stray`). `NearFindsClosest` says what is left: every closest
    key comes with its newest value; it may come again, but only with the value of a
    segment in which it is not deleted (the exact prefix itself also if it is), and
    with no value twice.
11. Over several segments the match at the exact prefix is taken from the oldest
    segment that has it (`fuzzy_matching.h:298`), every other key from the newest;
    the exact prefix is found although it was deleted in the newest segment, and
    missed if it was deleted in the oldest. `FuzzyFindsExactly` and
    `CompletesExactly` state this as it is (`AnsweredFrom`).
12. A string of exactly 65535 bytes may get the pointer of a longer one that begins
    with it and has its hash code, because the comparison ends where the length in
    the pointer does (`value_store_persistence.h:177`); a longer one is never found
    again. `ReadsBack` and `FoundAgain` allow this (`MayRead`, `AtLimit`) and no
    more. A string with a zero byte reads back up to it.
13. Fuzzy multiword completion walks the exact prefix along the query as given, not
    along its bag of words (`fuzzy_multiword_completion_matching.h:107`);
    `FuzzyCompletes` is about a prefix inside of the first word.
14. `LookupText` begins its loop at position 1 (`dictionary.h:154`): if the text
    begins with a single space, the word behind it is never looked up.
    `TextFindsLongest` names this as its one exception.
15. `GrowAndRehash` inserts everything again without a check of the new overflow
    array (`minimization_hash.h:391-434`, and `Insert` compares with the largest
    cookie only). The sizes are primes that about double, so entries of different
    buckets can meet in the larger table and more of them overflow than before; an
    overrun takes many that do. The values run reaches one with its small second
    table. What the program does then is undefined, so the properties of the users
    of a cache end there (`~Overrun`).

## Proofs

All theorems hold for every value of the constants that satisfies the named
assumptions, in particular for every set of keys and any number of segments,
threads, jobs and calls. None of the properties is inductive as it stands; the
inductive invariant of each module was checked with TLC on the runs' instances
before it was proved.

**A segment** (`SegmentProofs`, `SegmentLifeProofs`). `SegmentProofs` says of every
operator of `Segment` that it maps segments to segments, and which parts of one it
leaves alone.

- `TypeCorrect`: `TypeOK` is invariant, crashes during a merge included.
- `FlushedStaysDurable`, `ElectionPersists`: `FlushedDurable` and
  `PersistedBeforeMerge`, if the process does not die during a merge.
- `DeletedStays`: the action property `DeletedStaysDeleted`, same assumption.
- `HandsOverOnlyNew`: `DuringMergeIsNew`, if also the policy loads the lists.

A flushed delete stays in the files because `Persist` overwrites one of them with a
list that holds at least as much; that in turn depends on which flags are set.
`Bookkeeping` says how lists, files and flags fit together (its part `Consistent`,
in `Segment`, speaks of the segment alone), and every method is shown to keep it.
`LoadedBeforeMerge` strengthens it for the last theorem. The conditions on
`CrashInMerge` and `PolicyLoads` cannot be dropped (4 and 5 above).

**The merge** (`DictionaryMergerProofs`).

- `MergeTheorem`: at the end the loop has computed `MergedDictionary`
  (`ComputesMergedDictionary`). This is what entitles `IndexWriter` and
  `IndexReader` to use that function as the outcome of a merge.
- `SortedTheorem`, `NothingLostTheorem`, `StatsTheorem`: `OutputSorted`,
  `NothingUndeletedDropped`, `StatsAddUp`.

The invariant says where the loop stands: every iterator is at its first key behind
the current one (`Positions`) and in the queue unless exhausted (`Queued`); every
key behind was written from its most recent input or is `Gone`; a list has lost only
keys that are gone, and if a key of it is gone and still in the list then a smaller
one blocks it (`Lists`, `Dropping`, `Keeping`, `Outputs`). At the end the gone keys
are droppable, and no larger set is: the smallest key of the difference would have
been at the back of its list. `Counted` adds that the statistics are the sizes of
three sets that grow with the loop; for it keys are finite in number.

**The compilers** (`DictionaryCompilerProofs`), for any keys, number of calls, limit
of memory, and number of secondary keys.

- `AscendingTheorem`: `Ascending`. A generator builds an automaton only from keys
  that ascend; this is what `Generator` takes for granted.
- `LastCallTheorem`: `LastCallWins`. This entitles `IndexWriter` to describe what
  is compiled by the last call for each key.
- `LastChunkTheorem`: `LastChunkWins`, where the sort leaves the order of equal keys
  open, and the chunk decides.

`CompilerInv` ties every entry to the call that made it (`CallsInv`, `MemoryInv`; for
secondary keys through the codes given out so far), says that a chunk has the keys of
its calls once and in order (`ChunksInv`), that while chunks are merged the
generator has what the iterators left behind, from the newest chunk with the key, and
nothing of what is ahead (`MergeInv`), and what that means at the end
(`GeneratorInv`, `IndexInv`). The path of codes in front of a key belongs to one
tuple of secondary keys because varints of any length differ and none begins
another (`EncodeInjective`, `FirstCode`): only the last byte is smaller than
`VINT_BASE`. The loops of the code are recursive functions; that they have a value is
`Recursion` and `EncodeIs`, what it is follows by `Induction` over the set of turns
where it is right.

**The value stores** (`ValueStoreProofs`), for any values, size of a chunk, limit of
the length in a pointer, number of probed bytes, and any list of sizes and number
of the tables of the cache, up to an overrun of one that grows (15 above).

- `ReadsBackTheorem`: `ReadsBack`.
- `NoChunkTheorem`: `NoChunkBehindTail`.
- `FoundAgainTheorem`: `FoundAgain`. As long as no entry was dropped, no value is
  stored twice.

`StoreInv` (theorem `StoreInvariant`) has four parts. The chunks hold a text that
only grows at its end and reaches into the last chunk (`MapInv`; `AppendKeeps`,
`WriteIs`). A pointer handed out is followed in this text by the bytes of its value,
with terminator or length, or, for a string at the limit, by those of a longer one
that begins with it (`Leads`, `Means`); so it is in a written file, and in an append
merge it still is when the pointer is moved by the sizes in the headers before it
(`OffsetIs`, `PlacedInRow`). And the cache has no entries but pointers handed out
(`Pointers`): this has to survive insertion into overflow chains, growth in the
middle of an insertion, removal of an entry from its chain and the change of
generations, for which the tables must be sound: every cookie names a used slot
of the same bucket further on (`TableInv`, `CacheInv`; `InsertKeeps`, `GrowKeeps`,
`FoundKeeps`, `CacheGetKeeps`). Nothing is said about room in the overflow array,
because the code does not see to it. With this, an entry that compares equal is a
pointer of the value looked for (`SameValueIs`: the length in the pointer or, where
that is at its limit, the varint in front of the value, then all bytes), and the
bytes read to find a length are within the value (`BufferIs`, `ProbedIs`), so that
the comparison maps no chunk. Varints of any length decode to what was encoded
(`DecodeEncoded`).

`FoundAgain` needs the other direction. `StoreInv` says that nothing wrong is
reached; `FoundInv` adds that everything is: while nothing was dropped, every pointer
handed out is an entry that a lookup with the hash code of its value comes by
(`CacheHas`), no value has two pointers (`Once`) and no pointer two values
(`Single`), strings at the limit left out. A lookup comes by the slots that every
set closed under the cookies from the head of its bucket has (`Reached`). Cookies
name later slots, so a chain ends, and `GetFinds` and `CacheHasEntry` carry this to
what the code's loops return. Insertion hangs an overflow slot behind the last one
of the chain, or drops the entry where the cookies end or the chain is at its limit,
and the model records that (`InsertHas`). Growth inserts everything again
(`GrowHas`). An entry found in an older generation is cut out of its chain there and
added to the current table (`TakenOutHas`, `CacheGetHas`), and the change of
generations drops the oldest (`CacheAddHas`). Where a value was stored before, its
entry is reached and compares equal (`SameValueHolds`), so no second pointer is
handed out (`AddMinimizedFinds`).

**The writer** (`IndexWriterProofs`).

- `TypeTheorem`, `TocTheorem`: `TypeOK` and `TocOpens`, with both policies, merges
  that fail and a process that dies anywhere. `FilesInv`: names of files are used
  once, the output of a merge is in no list before it is swapped in, and when the
  files of the parents are removed neither list names them.
- `MergesTheorem`: `MergesApart` under the tiered policy. `ApartInv`: no job of the
  list fails by itself, parents are in the list and marked, jobs are disjoint, and
  parents form a run of neighbours, which stays one because segments are added
  behind all others and a merged one takes the place of a whole run.
- `SetsTheorem`: `SetsSurvive` under the tiered policy: what was set and flushed is
  what a lookup and a restart find. `ValuesInv`: the newest segment with the key has
  the value and none of its four lists names the key, in memory and, but for the
  time between the halves of `Compile`, in `index.toc`; a merge that has this
  segment as a parent writes the value and no parent has a delete of the key
  that arrived during the merge. That the merged segment does not fall behind another one
  needs `ApartInv`. The lists need not be complete for this, so a crash is allowed.
- `DurableTheorem`, `VisibleTheorem`: `DurableUndisturbed` and
  `VisibleUnlessUnread` under the tiered policy: what was flushed, deletes included,
  is what a restart and a lookup find. Here the lists have to be complete.
  `DeletesInv`: every segment is `Consistent` (`Booked`); a delete known to a
  segment is known to every older one with the key (`Deeper`), or a merge that drops
  the key would uncover it; it has been told to readers or waits for
  `PersistDeletes` (`Pending`), and where a merge may drop it readers know of it in
  the older segments too (`Behind`); a delete received during a merge reached all
  parents (`During`), and the output is what the newest parent says (`Exact`). With
  that, what a lookup finds is a permitted outcome (`Gone`, `Permitted`, `Values`).
  Where the merged segment answers, its newest parent did before; where another
  one answers, it did before or the merge dropped a delete that this one was told
  of. `Flow` and `Marks` locate the worker and tie the marks to running merges.

The simple policy is excluded because the statements are false for it (5 above),
failed merges because of 1, and for deletes ignored keys because of 3 and crashes
because of 4.

**The API** (`IndexApiProofs`).

- `FlushTheorem`: the action property `FlushCoversOwn`, its part about `ForceMerge`
  included.
- `EndTheorem`: `LostOnlyIfOvertaken`.
- `LockTheorem`: `LockProtects`, with a second process that may load, wait, write and
  merge at any moment.

`ApiInv` follows a write from the queue of its thread over the worker's hand and the
compiler to a segment (`Kept`), and says that a flush is the last task of its
thread's queue while the thread waits, that this queue is empty once the worker has
the flush, and the same for the last task of the destroying thread. The order
between threads is not used, because the queue does not give it. `SpinClean`: a
thread that only waits for merges has nothing in the queue. `LockInv` ties the
owner of the lock to the calls of both processes and says what `index.toc` leads
to, by who wrote it last; `LateInv` what a second process that loaded after the
end of the worker has. No overlap is excluded.

**The reader** (`IndexReaderProofs`).

- `PublishedTheorem`: `ListPublished`. A thread between reading `index.toc` and the
  swap carries a list that was published, whatever the writer does to the files.
- `ReloadCoversTheorem`: the action property `ReloadCovers`, with overlapping reloads.
  `TimeTaken`: if the time of an `index.toc` has been taken, the list in use is as
  new, or a thread that took it is going to read it or has read it, or a reason is
  on record. `CallerNew`: a caller that is loading has a list as new as what was in
  place when Reload was called. `CallerCovered`: so has the reader when the caller
  has swapped it in or was told by the time that there is nothing new, unless the
  watcher has it in hand.

**Assumptions.** `KeysAssumption` (keys are positive numbers; for the merger also
finitely many, as files are finite), `NoFileAssumption` (a missing file is not a
list of keys), `MainAssumption` (the destroying thread is one of the callers), the
bounds are natural numbers (`ApiBounds`, `ReaderBounds`, `NAssumption`), a merge may
take at least one segment (`SettingsAssumption`), scenarios have the fields of
`ScenarioType`; for the compilers bytes are numbers, the limit of memory is positive
and a varint digit can be 2, the first code given out (`CompilerAssumption`). For the
value stores (`ValuesAssumption`) values are bytes no longer than a chunk, which is
how far `Compare` reaches, and their length is encoded in at most `PROBE` bytes; the
number of probed bytes is not larger than a value whose length does not fit into the
pointer (8 against 65535). For the cache (`HashAssumption`) every overflow array has
two slots or more, the largest cookie is more than 1, and there are at least two
generations; the sizes of tables may be any list of numbers. TLC evaluates all
assumptions.

### Only model-checked

- Liveness (`EventuallyOneSegment`, `CallsReturn`, `EventuallyConsistent`), which is
  out of the prover's reach.
- `WritesInBuffer`: nothing in the code limits how far the search for a free overflow
  slot goes, so for all constants the property would rest on how full the array can
  become around a state, which is not modelled as a number.
- `ImplementsStore` of the sparse array: that the packed array implements the states
  written to it, over operators that place a state by a search.
- What the recursive algorithms compute for every input (edit distance, the
  automaton built from a list of keys, walks over dictionaries: `Generator`,
  `StringDistance`, `Matching` with `ImplementsWalk`) needs induction over the data
  with the whole algorithm as its parameter, which the provers cannot instantiate. The
  loops of the compilers could be put as recursive functions over numbers.

### Left open

Every safety property of the index, the merger, the compilers and the value stores is
a theorem. The next one would be `ImplementsStore` of the sparse array, step by step.

## Not modelled

- Compression (wrappers of other libraries), the vector file format (written once,
  behind an array of offsets; its values are in a modelled store), command line
  tools and bindings, wording of manifests and statistics, failures of the
  operating system in the memory map manager, the jump hash (floating point).
- `completion/*.h`, the older interface without callers in the library, and the
  bounded weighted traverser, which no lookup uses.
- Weak pointers through which readers share a list (`index_reader_worker.h:109`,
  `read_only_segment.h:94`): overlapping lookups may keep an older list in use
  longer than the models say. A lookup in the models takes the current list.
- The load of the index in the constructor against the first scheduled task
  (`index_writer_worker.h:120`), and the arithmetic of the automatic configuration
  (`index_auto_config.h:50`), whose results are constants here.
- The sliding windows of the sparse array are taken as wide enough, and offsets as
  unbounded: the 32 bit offset of `generator_adapter.h:104` and the reach of an
  overflow pointer (`sparse_array_builder.h:409`) are not checked.
- In the matchers: an exact prefix longer than the query in near matching, which
  throws (`near_matching.h:242`), and the read of row 1 of the distance matrix
  before it is written for an empty candidate (`needleman_wunsch.h:216`).
- A key whose secondary keys lead to state 0 (`secondary_key_dictionary.h:191`).
