---------------------------- MODULE IndexWriter -----------------------------
(***************************************************************************)
(* The writer of a keyvi index (index/internal/index_writer_worker.h): the *)
(* worker thread that executes the queued tasks one after the other, the   *)
(* merge jobs that run beside it in threads or processes, readers of the   *)
(* same process, and the death and restart of the process at any point.    *)
(*                                                                         *)
(* The worker is a little program with a program counter: what it does     *)
(* between two points where the files or the list of segments change is    *)
(* one action.  A segment is known by the number of its file (unique_path  *)
(* in the code).  The vector segments_ is the set of its members, ordered  *)
(* by rank; the table of contents index.toc is a set for the same reason.  *)
(***************************************************************************)
EXTENDS Segment, MergeSemantics, FiniteSetsExt

CONSTANTS
    Policy,                     \* "tiered" or "simple"
    MaxSegments,                \* IndexSettings
    MaxSegmentsPerMerge,        \* TIERED_MERGE_MAX_SEGMENT_PER_MERGE
    Scenarios,                  \* IndexSettings and the bounds of the model
    MaxSegIds                   \* bound: segment files ever created

(***************************************************************************)
(* A scenario is what stays the same for the life of an index.  merges is  *)
(* max_concurrent_merges, threshold is segment_external_merge_key_         *)
(* threshold (IndexSettings).  The rest bounds the model: the keys in use, *)
(* segment files, calls of Set and Delete, merges that fail, deaths of the *)
(* process, orderly shutdowns.                                             *)
(***************************************************************************)
ScenarioType ==
    [merges : Nat \ {0}, threshold : Nat, keys : SUBSET Keys, segs : 0..MaxSegIds,
     writes : Nat, deletes : Nat, failures : Nat, crashes : Nat, closes : Nat]

ASSUME PolicyAssumption == Policy \in {"tiered", "simple"}
ASSUME SettingsAssumption == MaxSegments \in Nat /\ MaxSegmentsPerMerge \in Nat \ {0}
ASSUME ScenariosAssumption == MaxSegIds \in Nat /\ Scenarios \subseteq ScenarioType

SegIds == 1..MaxSegIds

VARIABLES
    sc,             \* the scenario, which never changes
    has_compiler,   \* payload.compiler_ is set
    pending,        \* what it will compile: the last value of every key
    any_delete,     \* payload.any_delete_
    segments,       \* payload.segments_
    seg,            \* every segment: object and files
    toc,            \* the files index.toc lists
    merge_jobs,     \* payload.merge_jobs_, a job is known by its output file
    job,            \* the state of every job
    merge_enabled,  \* payload.merge_enabled_
    pc,             \* where the worker thread is
    task,           \* the task it is executing
    todo,           \* what is left of the loop it is in
    cur,            \* the job it is finalizing
    nextId,         \* the next unused file name
    count,          \* calls and faults so far
    ref,            \* history: the outcome of the last call for every key
    allowed,        \* history: what a lookup of every key may return
    ignored         \* history: keys that a merge kept although they were deleted

workerVars == <<pc, task, todo, cur, merge_enabled>>
compilerVars == <<has_compiler, pending, any_delete>>
jobVars == <<merge_jobs, job>>
fileVars == <<segments, seg, toc, nextId>>
historyVars == <<ref, allowed, ignored, sc>>    \* with the scenario, which no step changes
vars == <<workerVars, compilerVars, jobVars, fileVars, count, historyVars>>

NoJob == [segs |-> {}, external |-> FALSE, status |-> "none",
          out |-> [k \in Keys |-> Absent]]

Nothing == [k \in Keys |-> Absent]

Init ==
    /\ sc \in Scenarios
    /\ has_compiler = FALSE
    /\ pending = Nothing
    /\ any_delete = FALSE
    /\ segments = {}
    /\ seg = [i \in SegIds |-> NoSegment]
    /\ toc = {}
    /\ merge_jobs = {}
    /\ job = [i \in SegIds |-> NoJob]
    /\ merge_enabled = TRUE
    /\ pc = "down"
    /\ task = "none"
    /\ todo = {}
    /\ cur = 0
    /\ nextId = 1
    /\ count = [writes |-> 0, deletes |-> 0, failures |-> 0, crashes |-> 0, closes |-> 0]
    /\ ref = Nothing
    /\ allowed = [k \in Keys |-> {Absent}]
    /\ ignored = {}

-----------------------------------------------------------------------------
\* Lookups

Containing(S, k) == {i \in S : InDictionary(seg[i], k)}

\* The first segment with the key, searching from the end of the vector
NewestOf(S, k) ==
    CHOOSE i \in Containing(S, k) :
        \A j \in Containing(S, k) : seg[j].rank <= seg[i].rank

(***************************************************************************)
(* BaseIndexReader::operator[] and Contains: the newest segment that has   *)
(* the key decides.                                                        *)
(***************************************************************************)
Visible(k) ==
    IF Containing(segments, k) = {} \/ IsDeleted(seg[NewestOf(segments, k)], k)
    THEN Absent
    ELSE seg[NewestOf(segments, k)].dict[k]

\* What a process that opens the directory now finds.
Durable(k) ==
    IF Containing(toc, k) = {} \/ k \in OnDisk(seg[NewestOf(toc, k)])
    THEN Absent
    ELSE seg[NewestOf(toc, k)].dict[k]

\* A lookup in the writing process.  It loads the deleted keys if needed.
Get(k) ==
    /\ pc # "down"
    /\ Containing(segments, k) # {}
    /\ seg' = [seg EXCEPT ![NewestOf(segments, k)] = LazyLoadDeletedKeys(@)]
    /\ UNCHANGED <<workerVars, compilerVars, jobVars, segments, toc, nextId,
                   count, historyVars>>

-----------------------------------------------------------------------------
\* The tasks Set and Delete put into the queue

Outcome(k, v) ==
    /\ ref' = [ref EXCEPT ![k] = v]
    /\ allowed' = [allowed EXCEPT ![k] = @ \cup {v}]
    /\ UNCHANGED <<ignored, sc>>

\* IndexWriterWorker::Add; the value is the number of the write.
Add(k) ==
    /\ pc = "idle"
    /\ count.writes < sc.writes
    /\ count' = [count EXCEPT !.writes = @ + 1]
    /\ has_compiler' = TRUE
    /\ pending' = [pending EXCEPT ![k] = count.writes + 1]
    /\ Outcome(k, count.writes + 1)
    /\ UNCHANGED <<workerVars, any_delete, jobVars, fileVars>>

\* IndexWriterWorker::Delete
Delete(k) ==
    /\ pc = "idle"
    /\ count.deletes < sc.deletes
    /\ count' = [count EXCEPT !.deletes = @ + 1]
    /\ any_delete' = TRUE
    /\ pending' = [pending EXCEPT ![k] = Absent]
    /\ seg' = [i \in SegIds |-> IF i \in segments THEN DeleteKey(seg[i], k) ELSE seg[i]]
    /\ Outcome(k, Absent)
    /\ UNCHANGED <<workerVars, has_compiler, jobVars, segments, toc, nextId>>

-----------------------------------------------------------------------------
\* The other tasks: where they begin and where they end

Begin(t, at, work) ==
    /\ task' = t
    /\ pc' = at
    /\ todo' = work
    /\ UNCHANGED <<cur, merge_enabled, compilerVars, jobVars, fileVars, count, historyVars>>

\* The loop of PersistDeletes runs only if there was a delete.
ToPersist == IF any_delete THEN segments ELSE {}

\* Flush, both the synchronous and the asynchronous one
StartFlush == pc = "idle" /\ Begin("flush", "persist", ToPersist)

\* CompileIfThresholdIsHit queues a Compile of its own.
StartCompile == pc = "idle" /\ has_compiler /\ Begin("compile", "compile", {})

\* The timer of the active object
StartScheduled == pc = "idle" /\ Begin("scheduled", "finalize", merge_jobs)

(***************************************************************************)
(* A task ends.  After PersistDeletes and Compile everything executed so   *)
(* far is flushed: from here on a lookup has to return the last outcome.   *)
(* (The scheduled task returns early when there is nothing to flush.)      *)
(***************************************************************************)
EndTask ==
    /\ pc' = CASE task = "close" -> "wait"
               [] task = "last"  -> "finished"
               [] OTHER          -> "idle"
    /\ task' = IF task \in {"close", "last"} THEN task ELSE "none"
    /\ allowed' = IF task \in {"flush", "scheduled", "last"}
                  THEN [k \in Keys |-> {ref[k]}]
                  ELSE allowed
    /\ UNCHANGED <<todo, cur, ref, ignored, sc>>

-----------------------------------------------------------------------------
\* PersistDeletes and Compile

\* Vector order
FirstOf(S) == CHOOSE i \in S : \A j \in S : seg[i].rank <= seg[j].rank

PersistNext ==
    /\ pc = "persist"
    /\ todo # {}
    /\ seg' = [seg EXCEPT ![FirstOf(todo)] = PersistAndReload(@)]
    /\ todo' = todo \ {FirstOf(todo)}
    /\ UNCHANGED <<pc, task, cur, merge_enabled, compilerVars, jobVars, segments,
                   toc, nextId, count, historyVars>>

PersistDone ==
    /\ pc = "persist"
    /\ todo = {}
    /\ any_delete' = FALSE
    /\ pc' = "compile"
    /\ UNCHANGED <<task, todo, cur, merge_enabled, has_compiler, pending, jobVars,
                   fileVars, count, historyVars>>

NothingToCompile ==
    /\ pc = "compile"
    /\ ~has_compiler
    /\ EndTask
    /\ UNCHANGED <<merge_enabled, compilerVars, jobVars, fileVars, count>>

\* The first half of Compile: write the file, swap the list of segments.
\* The new segment goes behind all others: its number is the highest.
Compile ==
    /\ pc = "compile"
    /\ has_compiler
    /\ nextId \in 1..sc.segs
    /\ seg' = [seg EXCEPT ![nextId] = NewSegment(pending, nextId)]
    /\ segments' = segments \cup {nextId}
    /\ nextId' = nextId + 1
    /\ has_compiler' = FALSE
    /\ pending' = Nothing
    /\ pc' = "compile_toc"
    /\ UNCHANGED <<task, todo, cur, merge_enabled, any_delete, jobVars, toc, count,
                   historyVars>>

\* The second half: WriteToc
CompileToc ==
    /\ pc = "compile_toc"
    /\ toc' = segments
    /\ EndTask
    /\ UNCHANGED <<merge_enabled, compilerVars, jobVars, segments, seg, nextId, count>>

-----------------------------------------------------------------------------
\* FinalizeMerge: the loop over the merge jobs, in the order of their creation

Finalizing(j) == pc = "finalize" /\ todo # {} /\ j = Min(todo)

Done(j) == job[j].status \in {"ok", "failed"}

\* TryFinalize: a merge process that still runs is left alone.  (For a merge
\* thread the worker waits in join(): no action is enabled until it is done.)
StillRunning ==
    \E j \in merge_jobs :
        /\ Finalizing(j)
        /\ job[j].external /\ ~Done(j)
        /\ todo' = todo \ {j}
        /\ UNCHANGED <<pc, task, cur, merge_enabled, compilerVars, jobVars,
                       fileVars, count, historyVars>>

(***************************************************************************)
(* A job that failed: the segments may be merged again.  The job itself    *)
(* stays in the list, so this happens again at every scheduled task.       *)
(***************************************************************************)
FinalizeFailed ==
    \E j \in merge_jobs :
        /\ Finalizing(j)
        /\ job[j].status = "failed"
        /\ seg' = [i \in SegIds |-> IF i \in job[j].segs THEN MergeFailed(seg[i]) ELSE seg[i]]
        /\ todo' = todo \ {j}
        /\ UNCHANGED <<pc, task, cur, merge_enabled, compilerVars, jobVars, segments,
                       toc, nextId, count, historyVars>>

\* Mutant: the merged segment goes to the end of the vector.
MergedRankAtEnd(j) == nextId

\* The merged segment takes the place of the first of its parents.
MergedRank(j) == Min({seg[i].rank : i \in job[j].segs \cap segments})

\* The parents whose deletes the merged segment takes over
Inherit(j) == {seg[i] : i \in job[j].segs}

\* Mutant: the parents stay in the list.
AllRemain(j) == segments

\* The segments copied to the new list
Remaining(j) == segments \ job[j].segs

\* A job that was successful, first part: swap the list of segments
FinalizeSwap ==
    \E j \in merge_jobs :
        /\ Finalizing(j)
        /\ job[j].status = "ok"
        /\ cur' = j
        /\ pc' = "merge_toc"
        /\ segments' = Remaining(j)
                          \cup (IF job[j].segs \cap segments = {} THEN {} ELSE {j})
        /\ seg' = IF job[j].segs \cap segments = {} THEN seg
                  ELSE [seg EXCEPT ![j] = MergedSegment(@.dict, MergedRank(j), Inherit(j))]
        /\ UNCHANGED <<task, todo, merge_enabled, compilerVars, jobVars, toc, nextId,
                       count, historyVars>>

\* Mutant: the files are removed and no table of contents is written.
MergeWithoutToc ==
    /\ pc = "merge_toc"
    /\ pc' = "remove"
    /\ UNCHANGED <<task, todo, cur, merge_enabled, compilerVars, jobVars, segments,
                   seg, toc, nextId, count, historyVars>>

\* Second part: WriteToc
MergeToc ==
    /\ pc = "merge_toc"
    /\ toc' = segments
    /\ pc' = "remove"
    /\ UNCHANGED <<task, todo, cur, merge_enabled, compilerVars, jobVars, segments,
                   seg, nextId, count, historyVars>>

\* Third part: remove the files of the parents, forget the job.  The parents
\* are loaded first: the old list still refers to them.
RemoveOld ==
    /\ pc = "remove"
    /\ seg' = [i \in SegIds |-> IF i \in job[cur].segs
                                THEN RemoveFiles(LazyLoadDeletedKeys(seg[i]))
                                ELSE seg[i]]
    /\ merge_jobs' = merge_jobs \ {cur}
    /\ job' = [job EXCEPT ![cur] = NoJob]
    /\ todo' = todo \ {cur}
    /\ cur' = 0
    /\ pc' = "finalize"
    /\ UNCHANGED <<task, merge_enabled, compilerVars, segments, toc, nextId, count,
                   historyVars>>

FinalizeDone ==
    /\ pc = "finalize"
    /\ todo = {}
    /\ pc' = "run_merge"
    /\ UNCHANGED <<task, todo, cur, merge_enabled, compilerVars, jobVars, fileVars,
                   count, historyVars>>

-----------------------------------------------------------------------------
\* RunMerge and the merge policies

Unmarked == {i \in segments : ~seg[i].in_merge}

\* Mutant: a candidate does not end at a segment that is being merged.
RunAcross(i) == {j \in Unmarked : seg[i].rank <= seg[j].rank}

(***************************************************************************)
(* TieredMergePolicy: a candidate begins at any segment and extends to the *)
(* first one that takes part in a merge, at most MaxSegmentsPerMerge long. *)
(***************************************************************************)
Run(i) ==
    {j \in Unmarked : /\ seg[i].rank <= seg[j].rank
                      /\ \A m \in segments :
                            seg[i].rank <= seg[m].rank /\ seg[m].rank <= seg[j].rank
                                => m \in Unmarked}

CappedRun(i) ==
    {j \in Run(i) : Cardinality({m \in Run(i) : seg[m].rank < seg[j].rank})
                        < MaxSegmentsPerMerge}

\* A single segment is worth a merge only if there is something to purge.
WorthMerging(c) == Cardinality(c) > 1 \/ \E i \in c : HasDeletedKeys(seg[i])

(***************************************************************************)
(* SelectMergeSegments.  The score with which the tiered policy chooses    *)
(* among the candidates is a heuristic: any candidate may win.  The simple *)
(* policy takes every segment that is not in a merge.                      *)
(***************************************************************************)
Candidates ==
    IF Policy = "tiered"
    THEN {c \in {CappedRun(i) : i \in Unmarked} : WorthMerging(c)}
    ELSE {c \in {Unmarked} : c # {} /\ WorthMerging(c)}

\* The segments whose deleted keys the policy loads while it looks for one
LoadedByPolicy ==
    IF Policy = "tiered" \/ Cardinality(Unmarked) = 1 THEN Unmarked ELSE {}

AfterSelection ==
    [i \in SegIds |-> IF i \in LoadedByPolicy THEN LazyLoadDeletedKeys(seg[i]) ELSE seg[i]]

\* MergeJob::Run: small merges run in a thread, large ones in a process.
NumberOfKeys(c) == Cardinality({p \in c \X Keys : InDictionary(seg[p[1]], p[2])})

External(c) ==
    \/ Cardinality(segments) + Cardinality(c) + 10 > MaxSegments
    \/ NumberOfKeys(c) >= sc.threshold

\* What the scheduled task does after RunMerge
Refresh ==
    IF has_compiler \/ any_delete
    THEN /\ pc' = "persist"
         /\ todo' = ToPersist
         /\ UNCHANGED <<task, cur, historyVars>>
    ELSE EndTask

\* Mutant: off by one
SlotOffByOne == merge_enabled /\ Cardinality(merge_jobs) + 1 < sc.merges

\* merge_enabled_, and not max_concurrent_merges_ jobs in the list yet
MergeSlot == merge_enabled /\ Cardinality(merge_jobs) # sc.merges

NoMerge ==
    /\ pc = "run_merge"
    /\ \/ ~MergeSlot /\ UNCHANGED seg
       \/ MergeSlot /\ Candidates = {} /\ seg' = AfterSelection
    /\ Refresh
    /\ UNCHANGED <<merge_enabled, compilerVars, jobVars, segments, toc, nextId, count>>

RunMerge ==
    /\ pc = "run_merge"
    /\ MergeSlot
    /\ nextId \in 1..sc.segs
    /\ \E c \in Candidates :
         /\ seg' = [i \in SegIds |-> IF i \in c THEN ElectedForMerge(AfterSelection[i])
                                     ELSE AfterSelection[i]]
         /\ job' = [job EXCEPT ![nextId] = [NoJob EXCEPT !.segs = c,
                                                         !.external = External(c),
                                                         !.status = "running"]]
    /\ merge_jobs' = merge_jobs \cup {nextId}
    /\ nextId' = nextId + 1
    /\ Refresh
    /\ UNCHANGED <<merge_enabled, compilerVars, segments, toc, count>>

-----------------------------------------------------------------------------
\* The merge threads and processes

SetStatus(j, s) == [job EXCEPT ![j].status = s]

\* The keys that the newest of these segments with the key lists as deleted
DeletedIn(S) ==
    {k \in Keys : Containing(S, k) # {} /\ k \in ReadDeleted(seg[NewestOf(S, k)].dk)}

(***************************************************************************)
(* DictionaryMerger::Add for every parent: the merger opens the            *)
(* dictionaries and reads the .dk files.  The history notes the deleted    *)
(* keys that the output has nevertheless (see Dropped).                    *)
(***************************************************************************)
MergeLoad(j) ==
    /\ job[j].status = "running"
    /\ \A i \in job[j].segs : seg[i].kv
    /\ job' = [job EXCEPT ![j].status = "loaded",
                          ![j].out = MergedDictionary(job[j].segs,
                                        [i \in SegIds |-> seg[i].dict],
                                        [i \in SegIds |-> ReadDeleted(seg[i].dk)],
                                        [i \in SegIds |-> seg[i].rank], Keys)]
    /\ ignored' = ignored \cup {k \in DeletedIn(job[j].segs) : job'[j].out[k] # Absent}
    /\ UNCHANGED <<workerVars, compilerVars, merge_jobs, fileVars, count, ref, allowed, sc>>

\* A parent is gone: Add throws.
MergeLoadFails(j) ==
    /\ job[j].status = "running"
    /\ \E i \in job[j].segs : ~seg[i].kv
    /\ job' = SetStatus(j, "failed")
    /\ UNCHANGED <<workerVars, compilerVars, merge_jobs, fileVars, count, historyVars>>

\* Merge writes the output file.
MergeFinish(j) ==
    /\ job[j].status = "loaded"
    /\ job' = SetStatus(j, "ok")
    /\ seg' = [seg EXCEPT ![j] = [NoSegment EXCEPT !.dict = job[j].out, !.kv = TRUE]]
    /\ UNCHANGED <<workerVars, compilerVars, merge_jobs, segments, toc, nextId, count,
                   historyVars>>

\* The merge ends with an exception or a non-zero exit code.
MergeFails(j) ==
    /\ job[j].status \in {"running", "loaded"}
    /\ count.failures < sc.failures
    /\ count' = [count EXCEPT !.failures = @ + 1]
    /\ job' = SetStatus(j, "failed")
    /\ UNCHANGED <<workerVars, compilerVars, merge_jobs, fileVars, historyVars>>

-----------------------------------------------------------------------------
\* Shutdown, crash and start

\* ~IndexWriterWorker clears merge_enabled_ while the worker may be busy ...
RequestClose ==
    /\ pc # "down"
    /\ merge_enabled
    /\ count.closes < sc.closes
    /\ count' = [count EXCEPT !.closes = @ + 1]
    /\ merge_enabled' = FALSE
    /\ UNCHANGED <<pc, task, todo, cur, compilerVars, jobVars, fileVars, historyVars>>

\* ... and queues a last task: compile, wait for all merges.  Then the
\* active object runs the scheduled task one more time.
StartClose == pc = "idle" /\ ~merge_enabled /\ Begin("close", "compile", {})

WaitForMerges ==
    /\ pc = "wait"
    /\ \A j \in merge_jobs : Done(j)
    /\ Begin("last", "finalize", merge_jobs)

\* Everything in memory is gone, the files stay.
Down ==
    /\ has_compiler' = FALSE
    /\ pending' = Nothing
    /\ any_delete' = FALSE
    /\ segments' = {}
    /\ seg' = [i \in SegIds |->
                 [NoSegment EXCEPT !.dict = seg[i].dict, !.kv = seg[i].kv, !.dk = seg[i].dk,
                                   !.dkm = seg[i].dkm, !.rank = seg[i].rank]]
    /\ merge_jobs' = {}
    /\ job' = [i \in SegIds |-> NoJob]
    /\ merge_enabled' = TRUE
    /\ pc' = "down"
    /\ task' = "none"
    /\ todo' = {}
    /\ cur' = 0
    /\ UNCHANGED <<toc, nextId, historyVars>>

Shutdown == pc = "finished" /\ Down /\ UNCHANGED count

Crash ==
    /\ pc # "down"
    /\ count.crashes < sc.crashes
    /\ count' = [count EXCEPT !.crashes = @ + 1]
    /\ Down

\* LoadIndex.  What is found on disk is where the history starts again.
Open ==
    /\ pc = "down"
    /\ \A i \in toc : seg[i].kv
    /\ pc' = "idle"
    /\ segments' = toc
    /\ seg' = [i \in SegIds |-> IF i \in toc THEN OpenSegment(seg[i]) ELSE seg[i]]
    /\ ref' = [k \in Keys |-> Durable(k)]
    /\ allowed' = [k \in Keys |-> {Durable(k)}]
    /\ UNCHANGED <<task, todo, cur, merge_enabled, compilerVars, jobVars, toc, nextId, count,
                   ignored, sc>>

-----------------------------------------------------------------------------

Worker ==
    \/ StartFlush \/ StartCompile \/ StartScheduled \/ StartClose
    \/ PersistNext \/ PersistDone \/ NothingToCompile \/ Compile \/ CompileToc
    \/ StillRunning \/ FinalizeFailed \/ FinalizeSwap \/ MergeToc \/ RemoveOld
    \/ FinalizeDone \/ NoMerge \/ RunMerge \/ WaitForMerges \/ Shutdown

Merger(j) == MergeLoad(j) \/ MergeLoadFails(j) \/ MergeFinish(j) \/ MergeFails(j)

Next ==
    \/ \E k \in sc.keys : Add(k) \/ Delete(k) \/ Get(k)
    \/ Worker
    \/ \E j \in merge_jobs : Merger(j)
    \/ RequestClose \/ Crash \/ Open

Spec == Init /\ [][Next]_vars

(***************************************************************************)
(* A task that was begun goes on.  The active object looks at the clock    *)
(* after every task, so the scheduled task is never put off forever by     *)
(* other tasks: strong fairness.  A merge thread or process that was       *)
(* started ends.  Nothing is assumed of Set, Delete, Flush, readers,       *)
(* faults or shutdown.                                                     *)
(***************************************************************************)
TaskGoesOn ==
    \/ PersistNext \/ PersistDone \/ NothingToCompile \/ Compile \/ CompileToc
    \/ StillRunning \/ FinalizeFailed \/ FinalizeSwap \/ MergeToc \/ RemoveOld
    \/ FinalizeDone \/ NoMerge \/ RunMerge

MergeEnds(j) == j \in merge_jobs /\ (MergeLoad(j) \/ MergeLoadFails(j) \/ MergeFinish(j))

Fairness ==
    /\ WF_vars(TaskGoesOn)
    /\ SF_vars(StartScheduled)
    /\ \A j \in SegIds : WF_vars(MergeEnds(j))

FairSpec == Spec /\ Fairness

-----------------------------------------------------------------------------

JobType ==
    [segs : SUBSET SegIds, external : BOOLEAN, out : [Keys -> Nat],
     status : {"none", "running", "loaded", "ok", "failed"}]

CountType ==
    [writes : Nat, deletes : Nat, failures : Nat, crashes : Nat, closes : Nat]

(***************************************************************************)
(* Type invariant of IndexPayload (index_writer_worker.h:71-111), of the   *)
(* merge jobs and the directory.  No two segments of the list have the     *)
(* same place: FinalizeMerge and Compile build a vector.                   *)
(***************************************************************************)
TypeOK ==
    /\ sc \in Scenarios
    /\ has_compiler \in BOOLEAN /\ any_delete \in BOOLEAN /\ merge_enabled \in BOOLEAN
    /\ pending \in [Keys -> Nat]
    /\ segments \subseteq SegIds /\ toc \subseteq SegIds
    /\ seg \in [SegIds -> SegmentType]
    /\ merge_jobs \subseteq SegIds /\ todo \subseteq SegIds
    /\ job \in [SegIds -> JobType]
    /\ pc \in {"down", "idle", "persist", "compile", "compile_toc", "finalize",
               "merge_toc", "remove", "run_merge", "wait", "finished"}
    /\ task \in {"none", "flush", "compile", "scheduled", "close", "last"}
    /\ cur \in SegIds \cup {0}
    /\ nextId \in Nat
    /\ count \in CountType
    /\ ref \in [Keys -> Nat]
    /\ allowed \in [Keys -> SUBSET Nat]
    /\ ignored \subseteq Keys
    /\ \A i, j \in segments : seg[i].rank = seg[j].rank => i = j

(***************************************************************************)
(* Every file index.toc names exists, at every moment: LoadIndex and the   *)
(* constructor of Segment succeed whenever the process dies and starts     *)
(* again, and a reader never follows the list to a removed file (the order *)
(* of WriteToc and RemoveFiles in FinalizeMerge, of WriteToFile and        *)
(* WriteToc in Compile).                                                   *)
(***************************************************************************)
TocOpens == \A i \in toc : seg[i].kv

(***************************************************************************)
(* No merge has failed and the process was never killed so far.  A failed  *)
(* job is finalized again and again and a crash leaves a .dkm file behind: *)
(* after either, what this module says of deletes does not hold.           *)
(***************************************************************************)
Undisturbed == count.failures = 0 /\ count.crashes = 0

(***************************************************************************)
(* What is on disk is, for every key, the outcome of the last call that a  *)
(* flush has covered, or of a later one, at every moment: this is what a   *)
(* restart or another process finds (Index::Flush, index.h:121).           *)
(***************************************************************************)
DurableAllowed == \A k \in Keys : Durable(k) \in allowed[k]

(***************************************************************************)
(* DurableAllowed until the first merge fails or the process is killed     *)
(* (Flush, FinalizeMerge, the constructor of Segment for a merge), for all *)
(* keys but those that a merge has kept although they were deleted         *)
(* (DictionaryMerger::KeyDeleted).  Such a key stays out for good: older   *)
(* segments may still list the delete.                                     *)
(***************************************************************************)
DurableUndisturbed ==
    Undisturbed => \A k \in Keys \ ignored : Durable(k) \in allowed[k]

(***************************************************************************)
(* A value that was set and flushed is found, in the process and on disk,  *)
(* until the key is set or deleted again, whatever merges, crashes and     *)
(* restarts happen, as long as no merge has failed: a failed job frees its *)
(* segments again and again, also while another job merges them, and the   *)
(* result of that one can then be overtaken by an older value              *)
(* (FinalizeMerge, RunMerge, LoadIndex).                                   *)
(***************************************************************************)
SetsSurvive ==
    count.failures = 0 => \A k \in Keys :
        (ref[k] # Absent /\ allowed[k] = {ref[k]}) =>
            /\ Durable(k) = ref[k]
            /\ pc # "down" => Visible(k) = ref[k]

(***************************************************************************)
(* The parents of a merge in progress are in the list, marked, in no other *)
(* merge, and next to each other: otherwise the merged segment cannot take *)
(* the place of the first one without overtaking a newer value             *)
(* (RunMerge, TieredMergePolicy).  A failed job finalized again takes the  *)
(* marks away.                                                             *)
(***************************************************************************)
Active(j) == j \in merge_jobs /\ job[j].status # "failed"
                              /\ ~(pc \in {"merge_toc", "remove"} /\ j = cur)

MergesApart ==
    count.failures = 0 => \A j \in merge_jobs : Active(j) =>
        /\ \A i \in job[j].segs : i \in segments /\ seg[i].in_merge
        /\ \A j2 \in merge_jobs \ {j} : Active(j2) => job[j].segs \cap job[j2].segs = {}
        /\ \A i, m \in job[j].segs, between \in segments :
              seg[i].rank < seg[between].rank /\ seg[between].rank < seg[m].rank
                  => between \in job[j].segs

(***************************************************************************)
(* But for the keys that a merge has kept although they were deleted, a    *)
(* flushed delete is still visible in the writing process in one case      *)
(* only: the segment that answers is a merged one (its place is not its    *)
(* number), it inherited the delete and wrote it to its .dk file, but has  *)
(* not loaded a list of deleted keys yet (segment.h:62-85).                *)
(***************************************************************************)
VisibleUnlessUnread ==
    Undisturbed /\ pc # "down" => \A k \in Keys \ ignored :
        \/ Visible(k) \in allowed[k]
        \/ LET i == NewestOf(segments, k) IN
             /\ seg[i].rank # i
             /\ k \in seg[i].for_write /\ k \in OnDisk(seg[i])
             /\ ~seg[i].has_deleted_keys

(***************************************************************************)
(* Eventually the index consists of one segment, it stays so, and what is  *)
(* on disk is the outcome of the last calls, once no more calls come.      *)
(***************************************************************************)
EventuallyOneSegment ==
    <>[](pc = "down" \/ (Cardinality(segments) <= 1 /\ \A k \in Keys : Durable(k) = ref[k]))
=============================================================================
