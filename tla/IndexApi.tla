------------------------------ MODULE IndexApi ------------------------------
(***************************************************************************)
(* The calls of an index and the thread that executes them: index/index.h, *)
(* util/active_object.h and the calling side of                            *)
(* index/internal/index_writer_worker.h.  Threads put tasks into the queue *)
(* of the active object; its worker executes them one by one and, from     *)
(* time to time, the scheduled task.  Flush, ForceMerge and a throttled    *)
(* Set wait.  What the tasks do to segments and files is the subject of    *)
(* IndexWriter; here a segment is only counted.                            *)
(*                                                                         *)
(* The queue (moodycamel, not part of the repository's own code) is        *)
(* first-in first-out for the tasks of one thread only: there is one queue *)
(* per thread and the worker takes the head of any of them.                *)
(*                                                                         *)
(* A second process opens the same directory at any time.  It has loaded   *)
(* the index and its worker runs before it waits for the file lock, and    *)
(* the first process gives the lock back before its worker has ended: the  *)
(* two work on the same files with lists of their own.                     *)
(***************************************************************************)
EXTENDS Naturals, Sequences, FiniteSets, FiniteSetsExt

CONSTANTS
    Callers,                 \* threads that use the index
    Main,                    \* the one that destroys it
    CompileKeyThreshold,     \* IndexSettings
    MaxSegments,             \* IndexSettings
    NoOne,                   \* nobody holds the mutex
    MaxSets, MaxFlushes, MaxForced

ASSUME MainAssumption == Main \in Callers /\ NoOne \notin Callers
ASSUME ApiBounds ==
    {CompileKeyThreshold, MaxSegments, MaxSets, MaxFlushes, MaxForced} \subseteq Nat

VARIABLES
    queue,         \* tasks of every thread
    worker,        \* where the worker thread is, and the task it executes
    done,          \* done_
    compiler,      \* the writes the compiler has
    compiled,      \* the writes that are in a segment
    nsegs,         \* payload_.segments_->size()
    merge,         \* the merge job: its status and how many segments it merges
    merge_enabled,
    write_counter,
    call,          \* what every thread is in: [pc, ret]
    flush_mutex,
    flushed,
    own,           \* history: the writes of every thread
    count,         \* calls so far
    closing,       \* "open", "unlocked", "finish", "closed"
    lock,          \* who has the file lock
    other,         \* the second process: what it loaded, as how many segments,
                   \* what it wrote itself, whether it loaded too early
    toc,           \* index.toc: who wrote it, the writes it leads to
    gone           \* the processes whose list names files the other one removed

taskVars == <<compiler, compiled, nsegs, merge, toc, gone>>
callVars == <<call, flush_mutex, flushed, own, count, write_counter>>
vars == <<queue, worker, done, taskVars, callVars, merge_enabled, closing, lock, other>>

NoTask == [op |-> "none", arg |-> 0]
Task(op, a) == [op |-> op, arg |-> a]

\* compiler_active_object_.Size()
Size == MapThenSumSet(LAMBDA u : Len(queue[u]), Callers)

\* compiler_active_object_.Size() > 0
Pending == \E u \in Callers : queue[u] # <<>>

Enqueue(u, tasks) == queue' = [queue EXCEPT ![u] = @ \o tasks]

Init ==
    /\ queue = [u \in Callers |-> <<>>]
    /\ worker = [pc |-> "wait", task |-> NoTask]
    /\ done = FALSE
    /\ compiler = {} /\ compiled = {} /\ nsegs = 0
    /\ toc = [by |-> "first", writes |-> {}] /\ gone = {}
    /\ merge = [status |-> "none", n |-> 0]
    /\ merge_enabled = TRUE
    /\ write_counter = 0
    /\ call = [u \in Callers |-> [pc |-> "idle", ret |-> "idle"]]
    /\ flush_mutex = NoOne
    /\ flushed = [u \in Callers |-> FALSE]
    /\ own = [u \in Callers |-> {}]
    /\ count = [sets |-> 0, flushes |-> 0, forced |-> 0]
    /\ closing = "open"
    /\ lock = "first"
    /\ other = [pc |-> "none", loaded |-> {}, n |-> 0, own |-> {}, early |-> FALSE]

-----------------------------------------------------------------------------
\* The calling threads

callOnly == <<worker, done, taskVars, merge_enabled, closing, lock, other>>

Go(u, pc) == call' = [call EXCEPT ![u].pc = pc]
CallFlush(u, ret) == call' = [call EXCEPT ![u] = [pc |-> "lock", ret |-> ret]]

(***************************************************************************)
(* Set, MSet and Delete: queue the task, then CompileIfThresholdIsHit.     *)
(***************************************************************************)
Set(u) ==
    /\ closing = "open" /\ call[u].pc = "idle"
    /\ count.sets < MaxSets
    /\ LET w == count.sets + 1 IN
         /\ Enqueue(u, <<Task("set", w)>>)
         /\ own' = [own EXCEPT ![u] = @ \cup {w}]
         /\ count' = [count EXCEPT !.sets = w]
    /\ write_counter' = write_counter + 1
    /\ Go(u, IF write_counter + 1 > CompileKeyThreshold THEN "hit" ELSE "idle")
    /\ UNCHANGED <<callOnly, flush_mutex, flushed>>

\* CompileIfThresholdIsHit: compile, and begin to count anew
ThresholdHit(u) ==
    /\ call[u].pc = "hit"
    /\ Enqueue(u, <<Task("compile", 0)>>)
    /\ write_counter' = 0
    /\ Go(u, "throttle")
    /\ UNCHANGED <<callOnly, flush_mutex, flushed, own, count>>

\* too many segments: wait, flush, look again
Throttle(u) ==
    /\ call[u].pc = "throttle"
    /\ IF Size + nsegs >= MaxSegments THEN CallFlush(u, "throttle") ELSE Go(u, "idle")
    /\ UNCHANGED <<callOnly, queue, flush_mutex, flushed, own, count, write_counter>>

\* Flush, asynchronous or not
Flush(u, async) ==
    /\ closing = "open" /\ call[u].pc = "idle"
    /\ count.flushes < MaxFlushes
    /\ count' = [count EXCEPT !.flushes = @ + 1]
    /\ IF async
       THEN Enqueue(u, <<Task("flush async", 0)>>) /\ UNCHANGED call
       ELSE CallFlush(u, "idle") /\ UNCHANGED queue
    /\ UNCHANGED <<callOnly, flush_mutex, flushed, own, write_counter>>

\* Mutant: the mutex is released only after the wait.
LockKept(u) ==
    /\ call[u].pc = "lock" /\ flush_mutex = NoOne
    /\ flush_mutex' = u
    /\ flushed' = [flushed EXCEPT ![u] = FALSE]
    /\ Enqueue(u, <<Task("flush", u)>>)
    /\ Go(u, "wait")
    /\ UNCHANGED <<callOnly, own, count, write_counter>>

\* take flush_mutex_ and queue the task
FlushLock(u) ==
    /\ call[u].pc = "lock" /\ flush_mutex = NoOne
    /\ flush_mutex' = u
    /\ flushed' = [flushed EXCEPT ![u] = FALSE]
    /\ Enqueue(u, <<Task("flush", u)>>)
    /\ Go(u, "queued")
    /\ UNCHANGED <<callOnly, own, count, write_counter>>

\* c.wait(lock) releases the mutex.
FlushWait(u) ==
    /\ call[u].pc = "queued"
    /\ flush_mutex' = NoOne
    /\ Go(u, "wait")
    /\ UNCHANGED <<callOnly, queue, flushed, own, count, write_counter>>

\* Woken up, the mutex taken again, the flag seen
FlushReturn(u) ==
    /\ call[u].pc = "wait" /\ flush_mutex = NoOne
    /\ flushed[u]
    /\ Go(u, call[u].ret)
    /\ UNCHANGED <<callOnly, queue, flush_mutex, flushed, own, count, write_counter>>

\* ForceMerge(1)
ForceMerge(u) ==
    /\ closing = "open" /\ call[u].pc = "idle"
    /\ count.forced < MaxForced
    /\ count' = [count EXCEPT !.forced = @ + 1]
    /\ IF Pending THEN CallFlush(u, "spin") ELSE Go(u, "spin")
    /\ UNCHANGED <<callOnly, queue, flush_mutex, flushed, own, write_counter>>

\* One look at the number of segments, taken without a lock
Spin(u) ==
    /\ call[u].pc = "spin"
    /\ \/ nsegs <= 1 /\ Go(u, "idle")
       \/ nsegs > 1 /\ Pending /\ CallFlush(u, "spin")
    /\ UNCHANGED <<callOnly, queue, flush_mutex, flushed, own, count, write_counter>>

(***************************************************************************)
(* ~Index and ~IndexWriterWorker by the main thread, when no call is in    *)
(* progress any more: unlock, then queue the last compile, then queue the  *)
(* end of the worker.                                                      *)
(***************************************************************************)
Unlock ==
    /\ closing = "open"
    /\ \A u \in Callers : call[u].pc = "idle"
    /\ closing' = "unlocked"
    /\ lock' = "free"
    /\ UNCHANGED <<queue, worker, done, taskVars, callVars, merge_enabled, other>>

Close ==
    /\ closing = "unlocked"
    /\ merge_enabled' = FALSE
    /\ Enqueue(Main, <<Task("finish", 0), Task("done", 0)>>)
    /\ closing' = "closed"
    /\ UNCHANGED <<worker, done, taskVars, callVars, lock, other>>

-----------------------------------------------------------------------------
\* The worker thread

workerOnly == <<call, own, count, write_counter, closing, lock, other, merge_enabled>>

WriteToc(writes) == toc' = [by |-> "first", writes |-> writes]

\* Compile and WriteToc
Compile ==
    /\ nsegs' = nsegs + IF compiler = {} THEN 0 ELSE 1
    /\ compiled' = compiled \cup compiler
    /\ IF compiler = {} THEN UNCHANGED toc ELSE WriteToc(compiled \cup compiler)
    /\ compiler' = {}
    /\ UNCHANGED gone

\* wait_dequeue_timed: the oldest task of some thread
Dequeue(u) ==
    /\ worker.pc = "wait" /\ ~done
    /\ queue[u] # <<>>
    /\ worker' = [pc |-> "run", task |-> Head(queue[u])]
    /\ queue' = [queue EXCEPT ![u] = Tail(@)]
    /\ UNCHANGED <<done, taskVars, flush_mutex, flushed, workerOnly>>

Ran == worker' = [pc |-> "ran", task |-> NoTask]

RunSet ==
    /\ worker.pc = "run" /\ worker.task.op = "set"
    /\ compiler' = compiler \cup {worker.task.arg}
    /\ Ran
    /\ UNCHANGED <<queue, done, compiled, nsegs, merge, toc, gone, flush_mutex, flushed,
                   workerOnly>>

\* the tasks of CompileIfThresholdIsHit and of Flush(true)
RunCompile ==
    /\ worker.pc = "run" /\ worker.task.op \in {"compile", "flush async"}
    /\ Compile
    /\ Ran
    /\ UNCHANGED <<queue, done, merge, flush_mutex, flushed, workerOnly>>

\* Mutant: the caller is told before anything was compiled.
FlushEarly ==
    /\ worker.pc = "run" /\ worker.task.op = "flush"
    /\ flush_mutex = NoOne
    /\ flushed' = [flushed EXCEPT ![worker.task.arg] = TRUE]
    /\ worker' = [worker EXCEPT !.task = Task("compile", 0)]
    /\ UNCHANGED <<queue, done, taskVars, flush_mutex, workerOnly>>

\* the task of Flush: under the mutex, compile, set the flag, notify
RunFlush ==
    /\ worker.pc = "run" /\ worker.task.op = "flush"
    /\ flush_mutex = NoOne
    /\ Compile
    /\ flushed' = [flushed EXCEPT ![worker.task.arg] = TRUE]
    /\ Ran
    /\ UNCHANGED <<queue, done, merge, flush_mutex, workerOnly>>

\* the task of ~IndexWriterWorker; a merge that runs is waited for
RunFinish ==
    /\ worker.pc = "run" /\ worker.task.op = "finish"
    /\ merge.status # "running"
    /\ Compile
    /\ Ran
    /\ UNCHANGED <<queue, done, merge, flush_mutex, flushed, workerOnly>>

RunDone ==
    /\ worker.pc = "run" /\ worker.task.op = "done"
    /\ done' = TRUE
    /\ Ran
    /\ UNCHANGED <<queue, taskVars, flush_mutex, flushed, workerOnly>>

\* The interval has not passed yet.
NoSchedule ==
    /\ worker.pc = "ran" /\ ~done
    /\ worker' = [worker EXCEPT !.pc = "wait"]
    /\ UNCHANGED <<queue, done, taskVars, flush_mutex, flushed, workerOnly>>

\* Mutant: the last run of the scheduled task does not compile.
ScheduledWithoutLast ==
    /\ \/ worker.pc = "ran"
       \/ worker.pc = "wait" /\ Size = 0
    /\ LET merged == merge.status = "done"
           left   == IF merged THEN nsegs + 1 - merge.n ELSE nsegs
           start  == merge_enabled /\ (merged \/ merge.status = "none") /\ left > 1
       IN  /\ merge' = IF start THEN [status |-> "running", n |-> left]
                       ELSE IF merged THEN [status |-> "none", n |-> 0] ELSE merge
           /\ nsegs' = left + IF compiler = {} \/ done THEN 0 ELSE 1
           /\ IF ~done /\ compiler # {} THEN WriteToc(compiled \cup compiler) ELSE UNCHANGED toc
           /\ gone' = IF merged /\ other.pc # "none" THEN gone \cup {"second"} ELSE gone
    /\ compiled' = IF done THEN compiled ELSE compiled \cup compiler
    /\ compiler' = IF done THEN compiler ELSE {}
    /\ worker' = [pc |-> IF done THEN "ended" ELSE "wait", task |-> NoTask]
    /\ UNCHANGED <<queue, done, flush_mutex, flushed, workerOnly>>

(***************************************************************************)
(* ScheduledTask: finalize a merge that is done - the files of the merged  *)
(* segments are removed, whoever lists them - start one, compile.  It runs *)
(* after a task or after an idle wait, and a last time at the end.         *)
(***************************************************************************)
ScheduledTask ==
    /\ \/ worker.pc = "ran"
       \/ worker.pc = "wait" /\ Size = 0
    /\ LET merged == merge.status = "done"
           left   == IF merged THEN nsegs + 1 - merge.n ELSE nsegs
           start  == merge_enabled /\ (merged \/ merge.status = "none") /\ left > 1
       IN  /\ merge' = IF start THEN [status |-> "running", n |-> left]
                       ELSE IF merged THEN [status |-> "none", n |-> 0] ELSE merge
           /\ nsegs' = left + IF compiler = {} THEN 0 ELSE 1
           /\ IF merged \/ compiler # {} THEN WriteToc(compiled \cup compiler)
              ELSE UNCHANGED toc
           /\ gone' = IF merged /\ other.pc # "none" THEN gone \cup {"second"} ELSE gone
    /\ compiled' = compiled \cup compiler
    /\ compiler' = {}
    /\ worker' = [pc |-> IF done THEN "ended" ELSE "wait", task |-> NoTask]
    /\ UNCHANGED <<queue, done, flush_mutex, flushed, workerOnly>>

\* A merge thread or process ends.
MergeEnds ==
    /\ merge.status = "running"
    /\ merge' = [merge EXCEPT !.status = "done"]
    /\ UNCHANGED <<queue, worker, done, compiler, compiled, nsegs, toc, gone, flush_mutex,
                   flushed, workerOnly>>

-----------------------------------------------------------------------------
\* The second process

otherOnly == <<queue, worker, done, compiler, compiled, nsegs, merge, callVars, merge_enabled,
               closing>>

OtherWritesToc == toc' = [by |-> "second", writes |-> other.loaded \cup other'.own]

\* IndexWriterWorker(): LoadIndex, before the lock is asked for; a directory
\* that has no index.toc yet is not opened
OtherLoads ==
    /\ other.pc = "none" /\ toc.writes # {}
    /\ other' = [pc |-> "loaded", loaded |-> toc.writes, n |-> nsegs, own |-> {},
                 early |-> worker.pc # "ended"]
    /\ UNCHANGED <<otherOnly, lock, toc, gone>>

\* Mutant: the result of an attempt to lock is not looked at.
OtherTriesLock ==
    /\ other.pc = "loaded"
    /\ lock' = IF lock = "free" THEN "second" ELSE lock
    /\ other' = [other EXCEPT !.pc = "locked"]
    /\ UNCHANGED <<otherOnly, toc, gone>>

\* Index(): index_lock_.lock() blocks while the first process has it.
OtherLocks ==
    /\ other.pc = "loaded" /\ lock = "free"
    /\ lock' = "second"
    /\ other' = [other EXCEPT !.pc = "locked"]
    /\ UNCHANGED <<otherOnly, toc, gone>>

(***************************************************************************)
(* The constructor has returned: a first write, number 0, and its compile, *)
(* of which the first process knows nothing.                               *)
(***************************************************************************)
OtherCompiles ==
    /\ other.pc = "locked"
    /\ other' = [other EXCEPT !.pc = "wrote", !.own = {0}, !.n = @ + 1]
    /\ OtherWritesToc
    /\ UNCHANGED <<otherOnly, lock, gone>>

(***************************************************************************)
(* Its worker merges what it has loaded, also while its constructor still  *)
(* waits for the lock, and removes the files.                              *)
(***************************************************************************)
OtherMerges ==
    /\ other.n > 1
    /\ other' = [other EXCEPT !.n = 1]
    /\ OtherWritesToc
    /\ gone' = gone \cup {"first"}
    /\ UNCHANGED <<otherOnly, lock>>

-----------------------------------------------------------------------------
CallStep(u) ==
    \/ ThresholdHit(u) \/ Throttle(u)
    \/ FlushLock(u) \/ FlushWait(u) \/ FlushReturn(u) \/ Spin(u)

Call(u) ==
    \/ Set(u) \/ ForceMerge(u)
    \/ \E async \in BOOLEAN : Flush(u, async)

WorkerStep ==
    \/ RunSet \/ RunCompile \/ RunFlush \/ RunFinish \/ RunDone \/ NoSchedule
    \/ \E u \in Callers : Dequeue(u)

OtherStep == OtherLoads \/ OtherLocks \/ OtherCompiles \/ OtherMerges

Next ==
    \/ \E u \in Callers : Call(u) \/ CallStep(u)
    \/ Unlock \/ Close
    \/ WorkerStep \/ ScheduledTask \/ MergeEnds
    \/ OtherStep

Spec == Init /\ [][Next]_vars

(***************************************************************************)
(* Threads run, the worker too, and merges end.  The interval of the       *)
(* scheduled task passes again and again: a worker that is kept busy with  *)
(* flushes finds it passed after one of them, which takes strong fairness. *)
(* The consumer of the queue goes round the producers: the tasks of none   *)
(* of them wait for ever.                                                  *)
(***************************************************************************)
FairSpec ==
    /\ Spec
    /\ \A u \in Callers : WF_vars(CallStep(u)) /\ SF_vars(Dequeue(u))
    /\ WF_vars(WorkerStep)
    /\ SF_vars(ScheduledTask)
    /\ WF_vars(MergeEnds)

-----------------------------------------------------------------------------
Queued(u) == {queue[u][i].arg : i \in {j \in DOMAIN queue[u] : queue[u][j].op = "set"}}

InHand == IF worker.task.op = "set" THEN {worker.task.arg} ELSE {}

(***************************************************************************)
(* When a synchronous Flush returns, everything its thread has written is  *)
(* in a segment: other threads' tasks may still wait in the queue, its own *)
(* cannot.  When ForceMerge returns, what its thread has written has left  *)
(* the queue, but may still be in the hands of the worker or in a compiler *)
(* nobody has flushed (Flush, ForceMerge, ActiveObject).                   *)
(***************************************************************************)
FlushCoversOwn ==
    [][\A u \in Callers :
         /\ call[u].pc = "wait" /\ call'[u].pc # "wait" => own[u] \subseteq compiled
         /\ call[u].pc = "spin" /\ call'[u].pc = "idle" =>
              own[u] \subseteq compiled \cup compiler \cup InHand]_vars

(***************************************************************************)
(* After the end of the worker nothing the destroying thread wrote is      *)
(* lost, and a write of another thread is missing only if its task never   *)
(* left the queue: the end overtook it (~ActiveObject, ~IndexWriterWorker).*)
(***************************************************************************)
LostOnlyIfOvertaken ==
    worker.pc = "ended" =>
        /\ own[Main] \subseteq compiled
        /\ \A u \in Callers : own[u] \subseteq compiled \cup Queued(u)

(***************************************************************************)
(* Every call returns: a flush is executed, a throttled writer gets going  *)
(* again, ForceMerge reaches its number of segments, although callers and  *)
(* worker wait for each other with a mutex and a condition variable        *)
(* (Flush, CompileIfThresholdIsHit, ForceMerge).                           *)
(***************************************************************************)
CallsReturn == \A u \in Callers : call[u].pc # "idle" ~> call[u].pc = "idle"

(***************************************************************************)
(* What the file lock protects, and what it does not (Index(), ~Index).    *)
(* While the first process has the index open, index.toc leads to          *)
(* everything it compiled, although another one has loaded the directory   *)
(* and waits - unless the worker of that one has merged meanwhile.  Later, *)
(* what the second process loaded stays reachable, as long as the list in  *)
(* index.toc names no file the other process removed: only what was        *)
(* compiled after the load can be missing.  And nothing is missing if the  *)
(* load began after the worker of the first process had ended.             *)
(***************************************************************************)
LockProtects ==
    /\ closing = "open" /\ "first" \notin gone =>
         toc = [by |-> "first", writes |-> compiled]
    /\ toc.by \notin gone => other.loaded \subseteq toc.writes
    /\ other.pc # "none" /\ ~other.early =>
         toc.by \notin gone /\ toc.writes = compiled \cup other.own
=============================================================================
