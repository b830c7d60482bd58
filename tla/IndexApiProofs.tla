--------------------------- MODULE IndexApiProofs ---------------------------
(***************************************************************************)
(* Proofs about the calls of an index and the active object, for every     *)
(* number of threads, of calls and of queued tasks.                        *)
(*                                                                         *)
(* The argument follows a write on its way: it is in the queue of its      *)
(* thread, in the hands of the worker, in the compiler or in a segment     *)
(* (Kept).  A thread that waits for its flush queues nothing behind it, so *)
(* the flush is the last task of its queue (FlushLast) and, once the       *)
(* worker has it, that queue is empty (FlushRuns).  In the same way the    *)
(* end of the worker is the last task of the destroying thread (EndLast,   *)
(* EndRuns).                                                               *)
(***************************************************************************)
EXTENDS IndexApi, Integers, TLAPS

Ops == {"none", "compile", "flush async", "finish", "done"}

Tasks == [op : {"set"}, arg : Nat] \cup [op : {"flush"}, arg : Callers] \cup [op : Ops, arg : {0}]

Waiting == {"queued", "wait"}
Rets == {"idle", "throttle", "spin"}
CallStates == [pc : {"hit", "lock"} \cup Rets \cup Waiting, ret : Rets]

OtherType ==
    other \in [pc : {"none", "loaded", "locked", "wrote"}, loaded : SUBSET Nat, n : Int,
               own : SUBSET Nat, early : BOOLEAN]

\* Where the writes are
PlaceType ==
    /\ compiler \in SUBSET Nat /\ compiled \in SUBSET Nat
    /\ toc \in [by : {"first", "second"}, writes : SUBSET Nat]
    /\ gone \in SUBSET {"first", "second"}
    /\ nsegs \in Int
    /\ merge \in [status : {"none", "running", "done"}, n : Int]
    /\ OtherType

ApiType ==
    /\ queue \in [Callers -> Seq(Tasks)]
    /\ worker \in [pc : {"wait", "run", "ran", "ended"}, task : Tasks]
    /\ done \in BOOLEAN
    /\ call \in [Callers -> CallStates]
    /\ flushed \in [Callers -> BOOLEAN]
    /\ own \in [Callers -> SUBSET Nat]
    /\ count \in [sets : Nat, flushes : Nat, forced : Nat]
    /\ closing \in {"open", "unlocked", "closed"}

\* No write is lost on its way into a segment.
Kept == \A u \in Callers : own[u] \subseteq Queued(u) \cup InHand \cup compiler \cup compiled

FlushLast ==
    \A u \in Callers : \A i \in 1..Len(queue[u]) :
        queue[u][i].op = "flush" =>
            /\ i = Len(queue[u]) /\ queue[u][i].arg = u
            /\ call[u].pc \in Waiting /\ ~flushed[u]

FlushRuns ==
    worker.task.op = "flush" =>
        /\ queue[worker.task.arg] = <<>>
        /\ call[worker.task.arg].pc \in Waiting /\ ~flushed[worker.task.arg]

FlushedCovered ==
    \A u \in Callers : call[u].pc \in Waiting /\ flushed[u] => own[u] \subseteq compiled

NoCallAtTheEnd == closing # "open" => \A u \in Callers : call[u].pc = "idle"

EndLast ==
    \A u \in Callers : \A i \in 1..Len(queue[u]) :
        queue[u][i].op = "done" => u = Main /\ i = Len(queue[u]) /\ closing = "closed"

EndRuns ==
    /\ worker.task.op = "done" \/ done => queue[Main] = <<>> /\ closing = "closed"
    /\ done => worker.pc \in {"ran", "ended"}
    /\ worker.pc # "run" => worker.task = NoTask
    /\ worker.pc = "ended" => done /\ compiler = {}

\* A thread that only waits for merges has nothing in the queue.
SpinClean ==
    \A u \in Callers : call[u].pc = "spin" =>
        own[u] \subseteq compiled \cup compiler \cup InHand

\* The second process has the lock only when the first one has not; before it
\* has loaded, there is nothing of it; the lists of both are known.
LockInv ==
    /\ closing = "open" => lock = "first" /\ other.pc \in {"none", "loaded"}
    /\ closing = "open" /\ "first" \notin gone => toc.by = "first"
    /\ other.pc = "none" => /\ gone = {} /\ toc.by = "first"
                            /\ other.loaded = {} /\ other.n = 0 /\ other.own = {}
    /\ toc.writes = IF toc.by = "first" THEN compiled ELSE other.loaded \cup other.own
    /\ other.loaded \subseteq compiled

\* A second process that did not come too early has loaded everything.
LateInv ==
    other.pc # "none" /\ ~other.early =>
        /\ worker.pc = "ended" /\ other.loaded = compiled
        /\ "second" \notin gone
        /\ toc.by = "first" => "first" \notin gone /\ other.own = {}

TocComplete == LockInv /\ LateInv

QueueInv == FlushLast /\ FlushRuns /\ NoCallAtTheEnd /\ EndLast /\ EndRuns

ApiInv == ApiType /\ PlaceType /\ QueueInv /\ Kept /\ FlushedCovered /\ SpinClean /\ TocComplete

-----------------------------------------------------------------------------
\* Queues

LEMMA AppendedOne ==
    ASSUME NEW S, NEW s \in Seq(S), NEW e \in S
    PROVE  /\ s \o <<e>> \in Seq(S)
           /\ Len(s \o <<e>>) = Len(s) + 1
           /\ \A i \in 1..Len(s) : (s \o <<e>>)[i] = s[i]
           /\ (s \o <<e>>)[Len(s) + 1] = e
  OBVIOUS

LEMMA AppendedTwo ==
    ASSUME NEW S, NEW s \in Seq(S), NEW e \in S, NEW f \in S
    PROVE  /\ s \o <<e, f>> \in Seq(S)
           /\ Len(s \o <<e, f>>) = Len(s) + 2
           /\ \A i \in 1..Len(s) : (s \o <<e, f>>)[i] = s[i]
           /\ (s \o <<e, f>>)[Len(s) + 1] = e
           /\ (s \o <<e, f>>)[Len(s) + 2] = f
  OBVIOUS

LEMMA TailOf ==
    ASSUME NEW S, NEW s \in Seq(S), s # <<>>
    PROVE  /\ Tail(s) \in Seq(S)
           /\ Len(Tail(s)) = Len(s) - 1
           /\ \A i \in 1..Len(Tail(s)) : Tail(s)[i] = s[i + 1]
           /\ Head(s) = s[1] /\ Head(s) \in S
           /\ Len(s) \in Nat /\ Len(s) > 0
           /\ Len(s) = 1 => Tail(s) = <<>>
  OBVIOUS

LEMMA EnqueuedOne ==
    ASSUME queue \in [Callers -> Seq(Tasks)], NEW u \in Callers, NEW t \in Tasks,
           Enqueue(u, <<t>>)
    PROVE  /\ queue' \in [Callers -> Seq(Tasks)]
           /\ \A v \in Callers \ {u} : queue'[v] = queue[v]
           /\ Len(queue'[u]) = Len(queue[u]) + 1
           /\ \A i \in 1..Len(queue[u]) : queue'[u][i] = queue[u][i]
           /\ queue'[u][Len(queue[u]) + 1] = t
  <1>1. queue[u] \in Seq(Tasks)
    OBVIOUS
  <1>2. queue' = [queue EXCEPT ![u] = queue[u] \o <<t>>]
    BY DEF Enqueue
  <1>3. queue'[u] = queue[u] \o <<t>> /\ \A v \in Callers \ {u} : queue'[v] = queue[v]
    BY <1>2
  <1>4. queue[u] \o <<t>> \in Seq(Tasks)
    BY <1>1, AppendedOne
  <1>5. queue' \in [Callers -> Seq(Tasks)]
    BY <1>2, <1>4
  <1>6. QED
    BY <1>1, <1>3, <1>5, AppendedOne

LEMMA EnqueuedTwo ==
    ASSUME queue \in [Callers -> Seq(Tasks)], NEW u \in Callers, NEW t \in Tasks, NEW e \in Tasks,
           Enqueue(u, <<t, e>>)
    PROVE  /\ queue' \in [Callers -> Seq(Tasks)]
           /\ \A v \in Callers \ {u} : queue'[v] = queue[v]
           /\ Len(queue'[u]) = Len(queue[u]) + 2
           /\ \A i \in 1..Len(queue[u]) : queue'[u][i] = queue[u][i]
           /\ queue'[u][Len(queue[u]) + 1] = t
           /\ queue'[u][Len(queue[u]) + 2] = e
  <1>1. queue[u] \in Seq(Tasks)
    OBVIOUS
  <1>2. queue' = [queue EXCEPT ![u] = queue[u] \o <<t, e>>]
    BY DEF Enqueue
  <1>3. queue'[u] = queue[u] \o <<t, e>> /\ \A v \in Callers \ {u} : queue'[v] = queue[v]
    BY <1>2
  <1>4. queue[u] \o <<t, e>> \in Seq(Tasks)
    BY <1>1, AppendedTwo
  <1>5. queue' \in [Callers -> Seq(Tasks)]
    BY <1>2, <1>4
  <1>6. QED
    BY <1>1, <1>3, <1>5, AppendedTwo

LEMMA Dequeued ==
    ASSUME queue \in [Callers -> Seq(Tasks)], NEW u \in Callers, queue[u] # <<>>,
           queue' = [queue EXCEPT ![u] = Tail(@)]
    PROVE  /\ queue' \in [Callers -> Seq(Tasks)]
           /\ \A v \in Callers \ {u} : queue'[v] = queue[v]
           /\ Len(queue[u]) \in Nat /\ Len(queue[u]) > 0
           /\ Len(queue'[u]) = Len(queue[u]) - 1
           /\ \A i \in 1..Len(queue'[u]) : queue'[u][i] = queue[u][i + 1]
           /\ Head(queue[u]) = queue[u][1] /\ Head(queue[u]) \in Tasks
           /\ Len(queue[u]) = 1 => queue'[u] = <<>>
  <1>1. queue[u] \in Seq(Tasks)
    OBVIOUS
  <1>2. queue'[u] = Tail(queue[u]) /\ \A v \in Callers \ {u} : queue'[v] = queue[v]
    OBVIOUS
  <1>3. Tail(queue[u]) \in Seq(Tasks)
    BY <1>1, TailOf
  <1>4. queue' \in [Callers -> Seq(Tasks)]
    BY <1>3
  <1>5. QED
    BY <1>1, <1>2, <1>4, TailOf

-----------------------------------------------------------------------------
\* Types

LEMMA NoTaskType == NoTask \in Tasks
  BY DEF NoTask, Tasks, Ops

LEMMA TaskTypes ==
    /\ \A w \in Nat : Task("set", w) \in Tasks
    /\ \A u \in Callers : Task("flush", u) \in Tasks
    /\ \A op \in Ops : Task(op, 0) \in Tasks
  BY DEF Task, Tasks

LEMMA GoType ==
    ASSUME call \in [Callers -> CallStates], NEW u \in Callers,
           NEW pc \in {"hit", "lock"} \cup Rets \cup Waiting, Go(u, pc)
    PROVE  call' \in [Callers -> CallStates]
  BY DEF Go, CallStates

LEMMA CallFlushType ==
    ASSUME call \in [Callers -> CallStates], NEW u \in Callers, NEW ret \in Rets,
           CallFlush(u, ret)
    PROVE  call' \in [Callers -> CallStates]
  BY DEF CallFlush, CallStates

LEMMA CountType ==
    ASSUME NEW c \in [sets : Nat, flushes : Nat, forced : Nat]
    PROVE  /\ [c EXCEPT !.flushes = @ + 1] \in [sets : Nat, flushes : Nat, forced : Nat]
           /\ [c EXCEPT !.forced = @ + 1] \in [sets : Nat, flushes : Nat, forced : Nat]
  OBVIOUS

LEMMA InitInv == Init => ApiInv
  <1> SUFFICES ASSUME Init PROVE ApiInv
    OBVIOUS
  <1>1. ApiType
    <2>1. call \in [Callers -> CallStates]
      BY DEF Init, CallStates, Rets
    <2>2. count \in [sets : Nat, flushes : Nat, forced : Nat]
      BY DEF Init
    <2>3. worker \in [pc : {"wait", "run", "ran", "ended"}, task : Tasks]
      BY NoTaskType DEF Init
    <2>4. queue \in [Callers -> Seq(Tasks)]
      BY DEF Init
    <2>5. QED
      BY <2>1, <2>2, <2>3, <2>4 DEF Init, ApiType
  <1>a. PlaceType
    BY DEF Init, PlaceType, OtherType
  <1>2. QueueInv
    BY MainAssumption DEF Init, QueueInv, FlushLast, FlushRuns, NoCallAtTheEnd, EndLast, EndRuns, NoTask
  <1>3. Kept /\ FlushedCovered /\ SpinClean
    BY DEF Init, Kept, FlushedCovered, SpinClean
  <1>b. TocComplete
    BY DEF Init, TocComplete, LockInv, LateInv
  <1>4. QED
    BY <1>1, <1>2, <1>3, <1>a, <1>b DEF ApiInv

LEMMA CallType ==
    ASSUME ApiType, NEW u \in Callers, Call(u) \/ CallStep(u)
    PROVE  ApiType'
  <1> USE GoType, CallFlushType DEF ApiType, callOnly, taskVars, Rets, Waiting
  <1>1. CASE Set(u)
    <2>1. count.sets + 1 \in Nat /\ Task("set", count.sets + 1) \in Tasks
      BY TaskTypes
    <2>2. queue' \in [Callers -> Seq(Tasks)]
      BY <1>1, <2>1, EnqueuedOne DEF Set
    <2>3. QED
      BY <1>1, <2>1, <2>2 DEF Set
  <1>2. CASE ForceMerge(u)
    <2>1. call' \in [Callers -> CallStates]
      BY <1>2 DEF ForceMerge
    <2>2. count' \in [sets : Nat, flushes : Nat, forced : Nat]
      BY <1>2, CountType DEF ForceMerge
    <2>3. QED
      BY <1>2, <2>1, <2>2 DEF ForceMerge
  <1>3. ASSUME NEW async \in BOOLEAN, Flush(u, async) PROVE ApiType'
    <2>1. queue' \in [Callers -> Seq(Tasks)]
      BY <1>3, TaskTypes, EnqueuedOne DEF Flush, Ops
    <2>2. call' \in [Callers -> CallStates]
      BY <1>3 DEF Flush
    <2>3. count' \in [sets : Nat, flushes : Nat, forced : Nat]
      BY <1>3, CountType DEF Flush
    <2>4. QED
      BY <1>3, <2>1, <2>2, <2>3 DEF Flush
  <1>4. CASE ThresholdHit(u)
    <2>1. queue' \in [Callers -> Seq(Tasks)]
      BY <1>4, TaskTypes, EnqueuedOne DEF ThresholdHit, Ops
    <2>2. QED
      BY <1>4, <2>1 DEF ThresholdHit
  <1>5. CASE Throttle(u)
    BY <1>5 DEF Throttle
  <1>6. CASE FlushLock(u)
    <2>1. queue' \in [Callers -> Seq(Tasks)]
      BY <1>6, TaskTypes, EnqueuedOne DEF FlushLock
    <2>2. QED
      BY <1>6, <2>1 DEF FlushLock
  <1>7. CASE FlushWait(u)
    BY <1>7 DEF FlushWait
  <1>8. CASE FlushReturn(u)
    BY <1>8 DEF FlushReturn, CallStates
  <1>9. CASE Spin(u)
    BY <1>9 DEF Spin
  <1>10. QED
    BY <1>1, <1>2, <1>3, <1>4, <1>5, <1>6, <1>7, <1>8, <1>9 DEF Call, CallStep

LEMMA WorkerType ==
    ASSUME ApiType, WorkerStep \/ ScheduledTask \/ MergeEnds
    PROVE  ApiType'
  <1> USE NoTaskType DEF ApiType, workerOnly, taskVars, Ran
  <1>1. CASE RunSet
    <2>1. worker.task.arg \in Nat
      BY <1>1 DEF RunSet, Tasks, Ops
    <2>2. QED
      BY <1>1, <2>1 DEF RunSet
  <1>2. CASE RunCompile
    BY <1>2 DEF RunCompile
  <1>3. CASE RunFlush
    BY <1>3 DEF RunFlush
  <1>4. CASE RunFinish
    BY <1>4 DEF RunFinish
  <1>5. CASE RunDone
    BY <1>5 DEF RunDone
  <1>6. CASE NoSchedule
    BY <1>6 DEF NoSchedule
  <1>7. ASSUME NEW u \in Callers, Dequeue(u) PROVE ApiType'
    <2>1. queue' \in [Callers -> Seq(Tasks)] /\ Head(queue[u]) \in Tasks
      BY <1>7, Dequeued DEF Dequeue
    <2>2. QED
      BY <1>7, <2>1 DEF Dequeue
  <1>8. CASE ScheduledTask
    BY <1>8 DEF ScheduledTask
  <1>9. CASE MergeEnds
    BY <1>9 DEF MergeEnds
  <1>10. QED
    BY <1>1, <1>2, <1>3, <1>4, <1>5, <1>6, <1>7, <1>8, <1>9 DEF WorkerStep

LEMMA EndType ==
    ASSUME ApiType, Unlock \/ Close \/ OtherStep
    PROVE  ApiType'
  <1> USE DEF ApiType, callVars, taskVars, otherOnly
  <1>1. CASE Unlock
    BY <1>1 DEF Unlock
  <1>2. CASE Close
    <2>1. queue' \in [Callers -> Seq(Tasks)]
      BY <1>2, MainAssumption, TaskTypes, EnqueuedTwo DEF Close, Ops
    <2>2. QED
      BY <1>2, <2>1 DEF Close
  <1>3. CASE OtherStep
    BY <1>3 DEF OtherStep, OtherLoads, OtherLocks, OtherCompiles, OtherMerges
  <1>4. QED
    BY <1>1, <1>2, <1>3

LEMMA TocType ==
    ASSUME toc \in [by : {"first", "second"}, writes : SUBSET Nat], NEW W \in SUBSET Nat,
           toc' = toc \/ toc' = [by |-> "first", writes |-> W]
    PROVE  toc' \in [by : {"first", "second"}, writes : SUBSET Nat]
  <1>1. [by |-> "first", writes |-> W] \in [by : {"first", "second"}, writes : SUBSET Nat]
    OBVIOUS
  <1>2. QED
    BY <1>1

LEMMA CompilePlaces ==
    ASSUME PlaceType, Compile, UNCHANGED <<merge, other>>
    PROVE  PlaceType'
  <1>1. compiler' \in SUBSET Nat /\ compiled' \in SUBSET Nat /\ nsegs' \in Int /\ gone' = gone
    BY DEF PlaceType, Compile
  <1>2. toc' \in [by : {"first", "second"}, writes : SUBSET Nat]
    <2>1. toc' = toc \/ toc' = [by |-> "first", writes |-> compiled']
      BY DEF Compile, WriteToc
    <2>2. QED
      BY <1>1, <2>1, TocType DEF PlaceType
  <1>3. QED
    BY <1>1, <1>2 DEF PlaceType, OtherType

LEMMA OtherPlaces ==
    ASSUME PlaceType, OtherStep
    PROVE  PlaceType'
  <1> USE DEF PlaceType
  <1>1. UNCHANGED <<compiler, compiled, nsegs, merge>>
    BY DEF OtherStep, OtherLoads, OtherLocks, OtherCompiles, OtherMerges, otherOnly
  <1>2. OtherType' /\ gone' \in SUBSET {"first", "second"}
    <2>1. CASE OtherLoads
      BY <2>1 DEF OtherLoads, OtherType
    <2>2. CASE OtherLocks
      BY <2>2 DEF OtherLocks, OtherType
    <2>3. CASE OtherCompiles
      <3>1. other' = [other EXCEPT !.pc = "wrote", !.own = {0}, !.n = @ + 1] /\ gone' = gone
        BY <2>3 DEF OtherCompiles
      <3>2. other.n + 1 \in Int /\ {0} \in SUBSET Nat
        BY DEF OtherType
      <3>3. QED
        BY <3>1, <3>2 DEF OtherType
    <2>4. CASE OtherMerges
      BY <2>4 DEF OtherMerges, OtherType
    <2>5. QED
      BY <2>1, <2>2, <2>3, <2>4 DEF OtherStep
  <1>3. toc' = toc \/ OtherWritesToc
    BY DEF OtherStep, OtherLoads, OtherLocks, OtherCompiles, OtherMerges
  <1>4. toc' \in [by : {"first", "second"}, writes : SUBSET Nat]
    BY <1>2, <1>3 DEF OtherWritesToc, OtherType
  <1>5. QED
    BY <1>1, <1>2, <1>4

LEMMA PlaceStep ==
    ASSUME ApiType, PlaceType, [Next]_vars
    PROVE  PlaceType'
  <1>1. ASSUME UNCHANGED <<taskVars, other>> PROVE PlaceType'
    BY <1>1 DEF taskVars, PlaceType, OtherType
  <1>2. ASSUME NEW u \in Callers, Call(u) \/ CallStep(u) PROVE PlaceType'
    BY <1>1, <1>2 DEF Call, CallStep, Set, ForceMerge, Flush, ThresholdHit, Throttle, FlushLock,
                      FlushWait, FlushReturn, Spin, callOnly
  <1>3. CASE RunSet
    <2>1. worker.task.arg \in Nat
      BY <1>3 DEF RunSet, ApiType, Tasks, Ops
    <2>2. QED
      BY <1>3, <2>1 DEF RunSet, PlaceType, OtherType, workerOnly
  <1>4. CASE RunCompile \/ RunFlush \/ RunFinish
    BY <1>4, CompilePlaces DEF RunCompile, RunFlush, RunFinish, workerOnly
  <1>5. CASE RunDone \/ NoSchedule \/ (\E u \in Callers : Dequeue(u))
    BY <1>1, <1>5 DEF RunDone, NoSchedule, Dequeue, workerOnly
  <1>6. CASE ScheduledTask
    <2>1. /\ compiled' = compiled \cup compiler /\ compiler' = {} /\ other' = other
          /\ toc' = [by |-> "first", writes |-> compiled'] \/ toc' = toc
          /\ gone' = gone \/ gone' = gone \cup {"second"}
      BY <1>6 DEF ScheduledTask, workerOnly, WriteToc
    <2>2. nsegs' \in Int /\ merge' \in [status : {"none", "running", "done"}, n : Int]
      BY <1>6 DEF ScheduledTask, PlaceType
    <2>a. compiled' \in SUBSET Nat
      BY <2>1 DEF PlaceType
    <2>3. toc' \in [by : {"first", "second"}, writes : SUBSET Nat]
      BY <2>1, <2>a, TocType DEF PlaceType
    <2>4. QED
      BY <2>1, <2>2, <2>3, <2>a DEF PlaceType, OtherType
  <1>7. CASE MergeEnds
    BY <1>7 DEF MergeEnds, workerOnly, PlaceType, OtherType
  <1>8. CASE Unlock \/ Close \/ UNCHANGED vars
    BY <1>1, <1>8 DEF Unlock, Close, vars
  <1>9. QED
    BY <1>2, <1>3, <1>4, <1>5, <1>6, <1>7, <1>8, OtherPlaces DEF Next, WorkerStep

LEMMA TypeStep ==
    ASSUME ApiType, [Next]_vars
    PROVE  ApiType'
  <1>1. CASE UNCHANGED vars
    BY <1>1 DEF vars, taskVars, callVars, ApiType
  <1>2. QED
    BY <1>1, CallType, WorkerType, EndType DEF Next

-----------------------------------------------------------------------------
\* The order of the tasks in a queue

\* What a calling thread does leaves the other threads where they are.
LEMMA CallMoves ==
    ASSUME ApiType, NEW u \in Callers, NEW p, Go(u, p) \/ CallFlush(u, p)
    PROVE  /\ call'[u].pc \in {p, "lock"}
           /\ \A v \in Callers \ {u} : call'[v] = call[v]
  BY DEF ApiType, Go, CallFlush, CallStates

\* A thread that is not waiting for a flush queues a task, or none.
LEMMA QueueAfterCall ==
    ASSUME ApiType, QueueInv, ApiType', NEW u \in Callers, NEW t \in Tasks,
           closing = "open", closing' = "open", call[u].pc \notin Waiting,
           \A v \in Callers \ {u} : call'[v] = call[v] /\ flushed'[v] = flushed[v],
           Enqueue(u, <<t>>), t.op # "done",
           t.op = "flush" => t.arg = u /\ call'[u].pc \in Waiting /\ ~flushed'[u],
           UNCHANGED <<worker, done, compiler>>
    PROVE  QueueInv'
  <1> USE DEF ApiType, QueueInv
  <1>1. /\ \A v \in Callers \ {u} : queue'[v] = queue[v]
        /\ Len(queue'[u]) = Len(queue[u]) + 1
        /\ \A i \in 1..Len(queue[u]) : queue'[u][i] = queue[u][i]
        /\ queue'[u][Len(queue[u]) + 1] = t
        /\ Len(queue[u]) \in Nat
    BY EnqueuedOne
  <1>2. FlushLast'
    <2> SUFFICES ASSUME NEW v \in Callers, NEW i \in 1..Len(queue'[v]),
                        queue'[v][i].op = "flush"
                 PROVE  /\ i = Len(queue'[v]) /\ queue'[v][i].arg = v
                        /\ call'[v].pc \in Waiting /\ ~flushed'[v]
      BY DEF FlushLast
    <2>1. CASE v # u
      BY <2>1, <1>1 DEF FlushLast
    <2>2. CASE v = u /\ i \in 1..Len(queue[u])
      <3>1. queue[u][i].op = "flush"
        BY <2>2, <1>1
      <3>2. QED
        BY <3>1, <2>2 DEF FlushLast
    <2>3. CASE v = u /\ i = Len(queue[u]) + 1
      BY <2>3, <1>1
    <2>4. QED
      BY <2>1, <2>2, <2>3, <1>1
  <1>3. FlushRuns'
    BY <1>1 DEF FlushRuns, Tasks, Ops
  <1>4. EndLast'
    <2> SUFFICES ASSUME NEW v \in Callers, NEW i \in 1..Len(queue'[v]),
                        queue'[v][i].op = "done"
                 PROVE  FALSE
      BY DEF EndLast
    <2>1. CASE v # u
      BY <2>1, <1>1 DEF EndLast
    <2>2. CASE v = u /\ i \in 1..Len(queue[u])
      BY <2>2, <1>1 DEF EndLast
    <2>3. CASE v = u /\ i = Len(queue[u]) + 1
      BY <2>3, <1>1
    <2>4. QED
      BY <2>1, <2>2, <2>3, <1>1
  <1>5. EndRuns' /\ NoCallAtTheEnd'
    BY DEF EndRuns, NoCallAtTheEnd
  <1>6. QED
    BY <1>2, <1>3, <1>4, <1>5

\* A thread that is not in a flush, or has seen the end of it, goes on.
LEMMA QueueAfterMove ==
    ASSUME ApiType, QueueInv, ApiType', NEW u \in Callers,
           closing = "open", closing' = "open",
           call[u].pc \in Waiting => flushed[u] \/ call'[u].pc \in Waiting,
           \A v \in Callers \ {u} : call'[v] = call[v],
           UNCHANGED <<queue, flushed, worker, done, compiler>>
    PROVE  QueueInv'
  <1> USE DEF ApiType, QueueInv
  <1>1. \A v \in Callers : call[v].pc \in Waiting /\ ~flushed[v] => call'[v].pc \in Waiting
    OBVIOUS
  <1>2. FlushLast'
    BY <1>1 DEF FlushLast
  <1>3. FlushRuns'
    BY <1>1 DEF FlushRuns, Tasks, Ops
  <1>4. EndLast' /\ EndRuns' /\ NoCallAtTheEnd'
    BY DEF EndLast, EndRuns, NoCallAtTheEnd
  <1>5. QED
    BY <1>2, <1>3, <1>4

LEMMA CallQueue ==
    ASSUME ApiType, QueueInv, NEW u \in Callers, Call(u) \/ CallStep(u)
    PROVE  QueueInv'
  <1> USE DEF callOnly, taskVars
  <1>0. ApiType' /\ (call[u].pc # "idle" => closing = "open")
    BY CallType DEF QueueInv, NoCallAtTheEnd
  <1>1. CASE Set(u)
    <2>1. Task("set", count.sets + 1) \in Tasks
      BY TaskTypes DEF ApiType
    <2>2. \A v \in Callers \ {u} : call'[v] = call[v]
      BY <1>1, CallMoves DEF Set
    <2>3. QED
      BY <1>0, <1>1, <2>1, <2>2, QueueAfterCall DEF Set, Task, Waiting
  <1>2. CASE ForceMerge(u)
    <2>1. \A v \in Callers \ {u} : call'[v] = call[v]
      BY <1>2, CallMoves DEF ForceMerge
    <2>2. QED
      BY <1>0, <1>2, <2>1, QueueAfterMove DEF ForceMerge, Waiting
  <1>3. ASSUME NEW async \in BOOLEAN, Flush(u, async) PROVE QueueInv'
    <2>1. CASE async
      <3>1. Task("flush async", 0) \in Tasks
        BY TaskTypes DEF Ops
      <3>2. QED
        BY <1>0, <1>3, <2>1, <3>1, QueueAfterCall DEF Flush, Task, Waiting
    <2>2. CASE ~async
      <3>1. \A v \in Callers \ {u} : call'[v] = call[v]
        BY <1>3, <2>2, CallMoves DEF Flush
      <3>2. QED
        BY <1>0, <1>3, <2>2, <3>1, QueueAfterMove DEF Flush, Waiting
    <2>3. QED
      BY <2>1, <2>2
  <1>4. CASE ThresholdHit(u)
    <2>1. Task("compile", 0) \in Tasks
      BY TaskTypes DEF Ops
    <2>2. \A v \in Callers \ {u} : call'[v] = call[v]
      BY <1>4, CallMoves DEF ThresholdHit
    <2>3. QED
      BY <1>0, <1>4, <2>1, <2>2, QueueAfterCall DEF ThresholdHit, Task, Waiting
  <1>5. CASE Throttle(u)
    <2>1. \A v \in Callers \ {u} : call'[v] = call[v]
      BY <1>5, CallMoves DEF Throttle
    <2>2. QED
      BY <1>0, <1>5, <2>1, QueueAfterMove DEF Throttle, Waiting
  <1>6. CASE FlushLock(u)
    <2>1. Task("flush", u) \in Tasks
      BY TaskTypes
    <2>2. \A v \in Callers \ {u} : call'[v] = call[v] /\ flushed'[v] = flushed[v]
      BY <1>6, CallMoves DEF FlushLock, ApiType
    <2>3. call'[u].pc \in Waiting /\ ~flushed'[u]
      BY <1>6 DEF FlushLock, Go, Waiting, ApiType, CallStates
    <2>4. QED
      BY <1>0, <1>6, <2>1, <2>2, <2>3, QueueAfterCall DEF FlushLock, Task, Waiting
  <1>7. CASE FlushWait(u)
    <2>1. \A v \in Callers \ {u} : call'[v] = call[v]
      BY <1>7, CallMoves DEF FlushWait
    <2>2. call'[u].pc \in Waiting
      BY <1>7 DEF FlushWait, Go, Waiting, ApiType, CallStates
    <2>3. QED
      BY <1>0, <1>7, <2>1, <2>2, QueueAfterMove DEF FlushWait
  <1>8. CASE FlushReturn(u)
    <2>1. \A v \in Callers \ {u} : call'[v] = call[v]
      BY <1>8, CallMoves DEF FlushReturn
    <2>2. QED
      BY <1>0, <1>8, <2>1, QueueAfterMove DEF FlushReturn
  <1>9. CASE Spin(u)
    <2>1. \A v \in Callers \ {u} : call'[v] = call[v]
      BY <1>9, CallMoves DEF Spin
    <2>2. QED
      BY <1>0, <1>9, <2>1, QueueAfterMove DEF Spin, Waiting
  <1>10. QED
    BY <1>1, <1>2, <1>3, <1>4, <1>5, <1>6, <1>7, <1>8, <1>9 DEF Call, CallStep

\* A task that was executed leaves the worker without one.
LEMMA QueueAfterRun ==
    ASSUME ApiType, QueueInv, ApiType', worker.pc = "run", Ran,
           \A u \in Callers : flushed'[u] # flushed[u] =>
               worker.task.op = "flush" /\ u = worker.task.arg,
           done' = (done \/ worker.task.op = "done"),
           UNCHANGED <<queue, call, closing>>
    PROVE  QueueInv'
  <1> USE DEF ApiType, QueueInv
  <1>0. worker'.pc = "ran" /\ worker'.task = NoTask /\ NoTask.op = "none"
    BY DEF Ran, NoTask
  <1>1. FlushLast'
    <2>1. \A u \in Callers : Len(queue[u]) > 0 => flushed'[u] = flushed[u]
      BY DEF FlushRuns
    <2>2. QED
      BY <2>1 DEF FlushLast
  <1>2. FlushRuns'
    BY <1>0 DEF FlushRuns
  <1>3. EndLast' /\ NoCallAtTheEnd'
    BY DEF EndLast, NoCallAtTheEnd
  <1>4. EndRuns'
    BY <1>0 DEF EndRuns
  <1>5. QED
    BY <1>1, <1>2, <1>3, <1>4

LEMMA WorkerQueue ==
    ASSUME ApiType, QueueInv, WorkerStep \/ ScheduledTask \/ MergeEnds
    PROVE  QueueInv'
  <1> USE DEF workerOnly, taskVars
  <1>0. ApiType' /\ NoTask.op = "none"
    BY WorkerType DEF NoTask
  <1>1. CASE RunSet
    BY <1>0, <1>1, QueueAfterRun DEF RunSet, ApiType, QueueInv, EndRuns
  <1>2. CASE RunCompile
    BY <1>0, <1>2, QueueAfterRun DEF RunCompile, ApiType, QueueInv, EndRuns
  <1>3. CASE RunFlush
    BY <1>0, <1>3, QueueAfterRun DEF RunFlush, ApiType, QueueInv, EndRuns
  <1>4. CASE RunFinish
    BY <1>0, <1>4, QueueAfterRun DEF RunFinish, ApiType, QueueInv, EndRuns
  <1>5. CASE RunDone
    BY <1>0, <1>5, QueueAfterRun DEF RunDone, ApiType, QueueInv
  <1>6. CASE NoSchedule
    BY <1>0, <1>6 DEF NoSchedule, ApiType, QueueInv, FlushLast, FlushRuns, NoCallAtTheEnd,
                      EndLast, EndRuns
  <1>7. ASSUME NEW u \in Callers, Dequeue(u) PROVE QueueInv'
    <2> USE DEF ApiType, QueueInv
    <2>1. /\ queue[u] # <<>> /\ ~done /\ done' = done
          /\ worker'.pc = "run" /\ worker'.task = queue[u][1]
          /\ UNCHANGED <<call, flushed, closing>>
          /\ \A v \in Callers \ {u} : queue'[v] = queue[v]
          /\ Len(queue[u]) \in Nat /\ Len(queue[u]) > 0
          /\ Len(queue'[u]) = Len(queue[u]) - 1
          /\ \A i \in 1..Len(queue'[u]) : queue'[u][i] = queue[u][i + 1]
          /\ Len(queue[u]) = 1 => queue'[u] = <<>>
      BY <1>7, Dequeued DEF Dequeue
    <2>2. FlushLast'
      <3> SUFFICES ASSUME NEW v \in Callers, NEW i \in 1..Len(queue'[v]),
                          queue'[v][i].op = "flush"
                   PROVE  /\ i = Len(queue'[v]) /\ queue'[v][i].arg = v
                          /\ call'[v].pc \in Waiting /\ ~flushed'[v]
        BY DEF FlushLast
      <3>1. CASE v # u
        BY <3>1, <2>1 DEF FlushLast
      <3>2. CASE v = u
        <4>0. i \in 1..Len(queue'[u]) /\ queue'[u][i].op = "flush"
          BY <3>2
        <4>1. i + 1 \in 1..Len(queue[u]) /\ queue'[u][i] = queue[u][i + 1]
          BY <4>0, <2>1
        <4>2. /\ i + 1 = Len(queue[u]) /\ queue[u][i + 1].arg = u
              /\ call[u].pc \in Waiting /\ ~flushed[u]
          BY <4>0, <4>1 DEF FlushLast
        <4>3. QED
          BY <4>1, <4>2, <3>2, <2>1
      <3>3. QED
        BY <3>1, <3>2
    <2>3. FlushRuns'
      <3> SUFFICES ASSUME queue[u][1].op = "flush"
                   PROVE  /\ queue'[queue[u][1].arg] = <<>>
                          /\ call[queue[u][1].arg].pc \in Waiting /\ ~flushed[queue[u][1].arg]
        BY <2>1 DEF FlushRuns
      <3>1. 1 = Len(queue[u]) /\ queue[u][1].arg = u /\ call[u].pc \in Waiting /\ ~flushed[u]
        <4>1. 1 \in 1..Len(queue[u])
          BY <2>1
        <4>2. QED
          BY <4>1 DEF FlushLast
      <3>2. QED
        BY <3>1, <2>1
    <2>4. EndLast'
      <3> SUFFICES ASSUME NEW v \in Callers, NEW i \in 1..Len(queue'[v]),
                          queue'[v][i].op = "done"
                   PROVE  v = Main /\ i = Len(queue'[v]) /\ closing' = "closed"
        BY DEF EndLast
      <3>1. CASE v # u
        <4>1. i \in 1..Len(queue[v]) /\ queue[v][i].op = "done" /\ queue'[v] = queue[v]
          BY <3>1, <2>1
        <4>2. v = Main /\ i = Len(queue[v]) /\ closing = "closed"
          BY <4>1 DEF EndLast
        <4>3. QED
          BY <4>1, <4>2, <2>1
      <3>2. CASE v = u
        <4>1. i + 1 \in 1..Len(queue[u]) /\ queue[u][i + 1].op = "done"
          BY <3>2, <2>1
        <4>2. QED
          BY <4>1, <3>2, <2>1 DEF EndLast
      <3>3. QED
        BY <3>1, <3>2
    <2>5. EndRuns'
      <3>1. queue[u][1].op = "done" => u = Main /\ 1 = Len(queue[u]) /\ closing = "closed"
        <4>1. 1 \in 1..Len(queue[u])
          BY <2>1
        <4>2. QED
          BY <4>1 DEF EndLast
      <3>2. worker'.task.op = "done" => queue'[Main] = <<>> /\ closing' = "closed"
        BY <2>1, <3>1
      <3>3. QED
        BY <2>1, <3>2 DEF EndRuns
    <2>6. NoCallAtTheEnd'
      BY <2>1 DEF NoCallAtTheEnd
    <2>7. QED
      BY <2>2, <2>3, <2>4, <2>5, <2>6
  <1>8. CASE ScheduledTask
    <2>1. /\ worker.task = NoTask /\ worker'.task = NoTask /\ compiler' = {}
          /\ worker'.pc = (IF done THEN "ended" ELSE "wait")
          /\ UNCHANGED <<queue, done, flushed, call, closing>>
      BY <1>8 DEF ScheduledTask, QueueInv, EndRuns
    <2>2. QED
      BY <1>0, <2>1 DEF ApiType, QueueInv, FlushLast, FlushRuns, NoCallAtTheEnd, EndLast, EndRuns
  <1>9. CASE MergeEnds
    BY <1>9 DEF MergeEnds, QueueInv, FlushLast, FlushRuns, NoCallAtTheEnd, EndLast, EndRuns
  <1>10. QED
    BY <1>1, <1>2, <1>3, <1>4, <1>5, <1>6, <1>7, <1>8, <1>9 DEF WorkerStep

LEMMA EndQueue ==
    ASSUME ApiType, QueueInv, Unlock \/ Close \/ OtherStep
    PROVE  QueueInv'
  <1> USE DEF QueueInv, callVars, taskVars, otherOnly
  <1>1. CASE Unlock
    BY <1>1 DEF Unlock, FlushLast, FlushRuns, NoCallAtTheEnd, EndLast, EndRuns
  <1>2. CASE Close
    <2> DEFINE fin == Task("finish", 0)
               end == Task("done", 0)
    <2>1. /\ fin \in Tasks /\ end \in Tasks
          /\ fin.op = "finish" /\ end.op = "done" /\ Main \in Callers
      <3>1. "finish" \in Ops /\ "done" \in Ops
        BY DEF Ops
      <3>2. fin \in Tasks /\ end \in Tasks
        BY <3>1, TaskTypes
      <3>3. QED
        BY <3>2, MainAssumption DEF Task
    <2>2. /\ \A v \in Callers \ {Main} : queue'[v] = queue[v]
          /\ Len(queue[Main]) \in Nat
          /\ Len(queue'[Main]) = Len(queue[Main]) + 2
          /\ \A i \in 1..Len(queue[Main]) : queue'[Main][i] = queue[Main][i]
          /\ queue'[Main][Len(queue[Main]) + 1] = fin
          /\ queue'[Main][Len(queue[Main]) + 2] = end
      <3> HIDE DEF fin, end
      <3>1. Enqueue(Main, <<fin, end>>)
        BY <1>2 DEF Close, fin, end
      <3>2. queue[Main] \in Seq(Tasks) /\ queue \in [Callers -> Seq(Tasks)]
        BY <2>1 DEF ApiType
      <3>3. QED
        BY <3>1, <3>2, <2>1, EnqueuedTwo
    <2> HIDE DEF fin, end
    <2>3. /\ closing = "unlocked" /\ closing' = "closed"
          /\ UNCHANGED <<worker, done, call, flushed, compiler>>
          /\ \A v \in Callers : call[v].pc = "idle" /\ call[v].pc \notin Waiting
      BY <1>2 DEF Close, NoCallAtTheEnd, Waiting
    <2>4. FlushLast'
      <3> SUFFICES ASSUME NEW v \in Callers, NEW i \in 1..Len(queue'[v]),
                          queue'[v][i].op = "flush"
                   PROVE  FALSE
        BY DEF FlushLast
      <3>1. CASE v # Main
        BY <3>1, <2>2, <2>3 DEF FlushLast
      <3>2. CASE v = Main /\ i \in 1..Len(queue[Main])
        <4>1. queue[Main][i].op = "flush"
          BY <3>2, <2>2
        <4>2. QED
          BY <4>1, <3>2, <2>1, <2>3 DEF FlushLast
      <3>3. CASE v = Main /\ i \in {Len(queue[Main]) + 1, Len(queue[Main]) + 2}
        BY <3>3, <2>1, <2>2
      <3>4. QED
        BY <3>1, <3>2, <3>3, <2>2
    <2>5. FlushRuns'
      BY <2>3 DEF FlushRuns, ApiType, Tasks, Ops
    <2>6. EndLast'
      <3> SUFFICES ASSUME NEW v \in Callers, NEW i \in 1..Len(queue'[v]),
                          queue'[v][i].op = "done"
                   PROVE  v = Main /\ i = Len(queue'[v])
        BY <2>3 DEF EndLast
      <3>1. CASE v # Main
        BY <3>1, <2>2 DEF EndLast
      <3>2. CASE v = Main /\ i \in 1..Len(queue[Main])
        <4>1. queue[Main][i].op = "done"
          BY <3>2, <2>2
        <4>2. QED
          BY <4>1, <3>2, <2>1, <2>3 DEF EndLast
      <3>3. CASE v = Main /\ i \in {Len(queue[Main]) + 1, Len(queue[Main]) + 2}
        BY <3>3, <2>1, <2>2
      <3>4. QED
        BY <3>1, <3>2, <3>3, <2>2
    <2>7. EndRuns' /\ NoCallAtTheEnd'
      BY <2>3 DEF EndRuns, NoCallAtTheEnd
    <2>8. QED
      BY <2>4, <2>5, <2>6, <2>7
  <1>3. CASE OtherStep
    BY <1>3 DEF OtherStep, OtherLoads, OtherLocks, OtherCompiles, OtherMerges, FlushLast, FlushRuns, NoCallAtTheEnd,
                EndLast, EndRuns
  <1>4. QED
    BY <1>1, <1>2, <1>3

LEMMA QueueStep ==
    ASSUME ApiType, QueueInv, [Next]_vars
    PROVE  QueueInv'
  <1>1. CASE UNCHANGED vars
    BY <1>1 DEF vars, taskVars, callVars, QueueInv, FlushLast, FlushRuns, NoCallAtTheEnd,
                EndLast, EndRuns
  <1>2. QED
    BY <1>1, CallQueue, WorkerQueue, EndQueue DEF Next

-----------------------------------------------------------------------------
\* A write on its way

\* Queueing a task never makes a queued write disappear.
LEMMA QueuedStays ==
    ASSUME ApiType, NEW u \in Callers, NEW t \in Tasks, Enqueue(u, <<t>>)
    PROVE  /\ \A v \in Callers : Queued(v) \subseteq Queued(v)'
           /\ t.op = "set" => t.arg \in Queued(u)'
  <1>1. /\ queue' \in [Callers -> Seq(Tasks)] /\ queue \in [Callers -> Seq(Tasks)]
        /\ \A v \in Callers \ {u} : queue'[v] = queue[v]
        /\ Len(queue'[u]) = Len(queue[u]) + 1
        /\ \A i \in 1..Len(queue[u]) : queue'[u][i] = queue[u][i]
        /\ queue'[u][Len(queue[u]) + 1] = t
    BY EnqueuedOne DEF ApiType
  <1>2. /\ DOMAIN queue[u] = 1..Len(queue[u]) /\ Len(queue[u]) \in Nat
        /\ DOMAIN queue'[u] = 1..(Len(queue[u]) + 1)
    BY <1>1
  <1>3. ASSUME NEW v \in Callers, NEW w \in Queued(v) PROVE w \in Queued(v)'
    <2>1. PICK i \in DOMAIN queue[v] : queue[v][i].op = "set" /\ queue[v][i].arg = w
      BY <1>3 DEF Queued
    <2>2. i \in DOMAIN queue'[v] /\ queue'[v][i] = queue[v][i]
      <3>1. CASE v # u
        BY <1>1, <3>1
      <3>2. CASE v = u
        BY <1>1, <1>2, <3>2
      <3>3. QED
        BY <3>1, <3>2
    <2>3. QED
      BY <2>1, <2>2 DEF Queued
  <1>4. ASSUME t.op = "set" PROVE t.arg \in Queued(u)'
    <2>1. Len(queue[u]) + 1 \in DOMAIN queue'[u]
      BY <1>2
    <2>2. QED
      BY <1>1, <1>4, <2>1 DEF Queued
  <1>5. QED
    BY <1>3, <1>4

LEMMA QueuedAtEnd ==
    ASSUME ApiType, Close
    PROVE  \A v \in Callers : Queued(v) \subseteq Queued(v)'
  <1> DEFINE fin == Task("finish", 0)
             end == Task("done", 0)
  <1>0. fin \in Tasks /\ end \in Tasks /\ Main \in Callers
    <2>1. "finish" \in Ops /\ "done" \in Ops
      BY DEF Ops
    <2>2. QED
      BY <2>1, TaskTypes, MainAssumption
  <1>e. Enqueue(Main, <<fin, end>>)
    BY DEF Close
  <1> HIDE DEF fin, end
  <1>1. /\ queue' \in [Callers -> Seq(Tasks)] /\ queue \in [Callers -> Seq(Tasks)]
        /\ \A v \in Callers \ {Main} : queue'[v] = queue[v]
        /\ Len(queue'[Main]) = Len(queue[Main]) + 2
        /\ \A i \in 1..Len(queue[Main]) : queue'[Main][i] = queue[Main][i]
    BY <1>0, <1>e, EnqueuedTwo DEF ApiType
  <1>2. /\ DOMAIN queue[Main] = 1..Len(queue[Main]) /\ Len(queue[Main]) \in Nat
        /\ DOMAIN queue'[Main] = 1..(Len(queue[Main]) + 2)
    BY <1>0, <1>1
  <1>3. ASSUME NEW v \in Callers, NEW w \in Queued(v) PROVE w \in Queued(v)'
    <2>1. PICK i \in DOMAIN queue[v] : queue[v][i].op = "set" /\ queue[v][i].arg = w
      BY <1>3 DEF Queued
    <2>2. i \in DOMAIN queue'[v] /\ queue'[v][i] = queue[v][i]
      <3>1. CASE v # Main
        BY <1>1, <3>1
      <3>2. CASE v = Main
        BY <1>1, <1>2, <3>2
      <3>3. QED
        BY <3>1, <3>2
    <2>3. QED
      BY <2>1, <2>2 DEF Queued
  <1>4. QED
    BY <1>3

\* The worker that takes a task has it in hand.
LEMMA QueuedTaken ==
    ASSUME ApiType, NEW u \in Callers, Dequeue(u)
    PROVE  \A v \in Callers : Queued(v) \subseteq Queued(v)' \cup InHand'
  <1>1. /\ queue' \in [Callers -> Seq(Tasks)] /\ queue \in [Callers -> Seq(Tasks)]
        /\ \A v \in Callers \ {u} : queue'[v] = queue[v]
        /\ Len(queue[u]) \in Nat /\ Len(queue[u]) > 0
        /\ Len(queue'[u]) = Len(queue[u]) - 1
        /\ \A i \in 1..Len(queue'[u]) : queue'[u][i] = queue[u][i + 1]
        /\ worker'.task = queue[u][1]
    BY Dequeued DEF ApiType, Dequeue
  <1>2. /\ DOMAIN queue[u] = 1..Len(queue[u])
        /\ DOMAIN queue'[u] = 1..(Len(queue[u]) - 1)
    BY <1>1
  <1>3. ASSUME NEW v \in Callers, NEW w \in Queued(v) PROVE w \in Queued(v)' \cup InHand'
    <2>1. PICK i \in DOMAIN queue[v] : queue[v][i].op = "set" /\ queue[v][i].arg = w
      BY <1>3 DEF Queued
    <2>2. CASE v # u
      BY <1>1, <2>1, <2>2 DEF Queued
    <2>3. CASE v = u /\ i = 1
      BY <1>1, <2>1, <2>3 DEF InHand
    <2>4. CASE v = u /\ i # 1
      <3>1. i - 1 \in DOMAIN queue'[u] /\ queue'[u][i - 1] = queue[u][i]
        BY <1>1, <1>2, <2>4
      <3>2. QED
        BY <2>1, <2>4, <3>1 DEF Queued
    <2>5. QED
      BY <2>2, <2>3, <2>4
  <1>4. QED
    BY <1>3

LEMMA Compiles ==
    ASSUME Compile
    PROVE  compiled' = compiled \cup compiler
  BY DEF Compile

LEMMA KeptStep ==
    ASSUME ApiType, QueueInv, Kept, [Next]_vars
    PROVE  Kept'
  <1> USE DEF Kept
  <1>1. ASSUME NEW u \in Callers, Set(u) PROVE Kept'
    <2> DEFINE t == Task("set", count.sets + 1)
    <2>1. t \in Tasks /\ t.op = "set" /\ t.arg = count.sets + 1
      BY TaskTypes DEF ApiType, Task
    <2>2. Enqueue(u, <<t>>)
      BY <1>1 DEF Set
    <2> HIDE DEF t
    <2>3. /\ \A v \in Callers : Queued(v) \subseteq Queued(v)'
          /\ count.sets + 1 \in Queued(u)'
      BY <2>1, <2>2, QueuedStays
    <2>4. /\ UNCHANGED <<compiler, compiled, worker>> /\ InHand' = InHand
          /\ own'[u] = own[u] \cup {count.sets + 1}
          /\ \A v \in Callers \ {u} : own'[v] = own[v]
      BY <1>1 DEF Set, callOnly, taskVars, ApiType, InHand
    <2>5. QED
      BY <2>3, <2>4
  <1>2. ASSUME NEW u \in Callers, NEW t \in Tasks, Enqueue(u, <<t>>),
               UNCHANGED <<worker, compiler, compiled, own>>
        PROVE  Kept'
    BY <1>2, QueuedStays DEF InHand
  <1>3. ASSUME UNCHANGED <<queue, worker, compiler, compiled, own>>
        PROVE  Kept'
    BY <1>3 DEF InHand, Queued
  <1>4. ASSUME NEW u \in Callers, (Call(u) \/ CallStep(u)) /\ ~Set(u) PROVE Kept'
    <2>1. "compile" \in Ops /\ "flush async" \in Ops
      BY DEF Ops
    <2>2. CASE ThresholdHit(u)
      BY <1>2, <2>1, <2>2, TaskTypes DEF ThresholdHit, callOnly, taskVars
    <2>3. CASE FlushLock(u)
      BY <1>2, <2>3, TaskTypes DEF FlushLock, callOnly, taskVars
    <2>4. ASSUME NEW async \in BOOLEAN, Flush(u, async) PROVE Kept'
      BY <1>2, <1>3, <2>1, <2>4, TaskTypes DEF Flush, callOnly, taskVars
    <2>5. CASE Throttle(u) \/ FlushWait(u) \/ FlushReturn(u) \/ Spin(u) \/ ForceMerge(u)
      BY <1>3, <2>5 DEF Throttle, FlushWait, FlushReturn, Spin, ForceMerge, callOnly, taskVars
    <2>6. QED
      BY <1>4, <2>2, <2>3, <2>4, <2>5 DEF Call, CallStep
  <1>5. CASE RunSet
    BY <1>5 DEF RunSet, Ran, workerOnly, InHand, Queued, NoTask
  <1>6. ASSUME InHand = {}, UNCHANGED <<queue, own>>,
               compiled' = compiled \cup compiler \/ UNCHANGED <<compiled, compiler>>
        PROVE  Kept'
    BY <1>6 DEF Queued
  <1>7. CASE RunCompile
    BY <1>6, <1>7, Compiles DEF RunCompile, workerOnly, InHand
  <1>8. CASE RunFlush
    BY <1>6, <1>8, Compiles DEF RunFlush, workerOnly, InHand
  <1>9. CASE RunFinish
    BY <1>6, <1>9, Compiles DEF RunFinish, workerOnly, InHand
  <1>10. CASE RunDone
    BY <1>6, <1>10 DEF RunDone, workerOnly, taskVars, InHand
  <1>11. CASE NoSchedule
    BY <1>11 DEF NoSchedule, workerOnly, taskVars, InHand, Queued, ApiType
  <1>12. ASSUME NEW u \in Callers, Dequeue(u) PROVE Kept'
    <2>1. InHand = {}
      BY <1>12 DEF Dequeue, InHand, QueueInv, EndRuns, NoTask
    <2>2. UNCHANGED <<own, compiler, compiled>>
      BY <1>12 DEF Dequeue, workerOnly, taskVars
    <2>3. QED
      BY <1>12, <2>1, <2>2, QueuedTaken
  <1>13. CASE ScheduledTask
    <2>1. InHand = {}
      BY <1>13 DEF ScheduledTask, InHand, QueueInv, EndRuns, NoTask
    <2>2. UNCHANGED <<queue, own>> /\ compiled' = compiled \cup compiler
      BY <1>13 DEF ScheduledTask, workerOnly
    <2>3. QED
      BY <1>6, <2>1, <2>2
  <1>14. CASE Unlock \/ MergeEnds \/ OtherStep \/ UNCHANGED vars
    BY <1>3, <1>14 DEF Unlock, MergeEnds, OtherStep, OtherLoads, OtherLocks, OtherCompiles, OtherMerges, workerOnly,
                       otherOnly, taskVars, callVars, vars
  <1>15. CASE Close
    BY <1>15, QueuedAtEnd DEF Close, taskVars, callVars, InHand
  <1>16. QED
    BY <1>1, <1>4, <1>5, <1>7, <1>8, <1>9, <1>10, <1>11, <1>12, <1>13, <1>14, <1>15
       DEF Next, WorkerStep

\* What is in a segment stays there.
LEMMA CompiledGrows ==
    ASSUME [Next]_vars
    PROVE  compiled \subseteq compiled'
  <1> USE DEF callOnly, taskVars, workerOnly, otherOnly, callVars
  <1>1. ASSUME NEW u \in Callers, Call(u) \/ CallStep(u) PROVE compiled' = compiled
    BY <1>1 DEF Call, CallStep, Set, ForceMerge, Flush, ThresholdHit, Throttle, FlushLock,
                FlushWait, FlushReturn, Spin
  <1>2. CASE WorkerStep \/ ScheduledTask \/ MergeEnds
    BY <1>2, Compiles DEF WorkerStep, RunSet, RunCompile, RunFlush, RunFinish, RunDone, NoSchedule,
                Dequeue, ScheduledTask, MergeEnds
  <1>3. CASE Unlock \/ Close \/ OtherStep \/ UNCHANGED vars
    BY <1>3 DEF Unlock, Close, OtherStep, OtherLoads, OtherLocks, OtherCompiles, OtherMerges, vars
  <1>4. QED
    BY <1>1, <1>2, <1>3 DEF Next

LEMMA FlushedStep ==
    ASSUME ApiType, QueueInv, Kept, FlushedCovered, [Next]_vars
    PROVE  FlushedCovered'
  <1>0. compiled \subseteq compiled'
    BY CompiledGrows
  <1>1. CASE RunFlush
    <2> DEFINE u == worker.task.arg
    <2>1. queue[u] = <<>> /\ u \in Callers
      BY <1>1 DEF RunFlush, QueueInv, FlushRuns, ApiType, Tasks, Ops
    <2>2. Queued(u) = {} /\ InHand = {}
      BY <1>1, <2>1 DEF RunFlush, InHand, Queued
    <2>3. own[u] \subseteq compiled'
      BY <1>1, <2>1, <2>2, Compiles DEF RunFlush, Kept
    <2>4. UNCHANGED <<own, call>> /\ flushed' = [flushed EXCEPT ![u] = TRUE]
      BY <1>1 DEF RunFlush, workerOnly
    <2>5. QED
      BY <1>0, <2>3, <2>4 DEF FlushedCovered, ApiType
  <1>2. ASSUME UNCHANGED <<flushed, own, call>> PROVE FlushedCovered'
    BY <1>0, <1>2 DEF FlushedCovered
  <1>3. ASSUME NEW u \in Callers,
               Call(u) \/ CallStep(u)
        PROVE  FlushedCovered'
    <2>1. \A v \in Callers \ {u} : call'[v] = call[v]
      <3>1. (\E p : Go(u, p) \/ CallFlush(u, p)) \/ UNCHANGED call
        BY <1>3 DEF Call, CallStep, Set, ForceMerge, Flush, ThresholdHit, Throttle, FlushLock,
                    FlushWait, FlushReturn, Spin
      <3>2. QED
        BY <3>1, CallMoves
    <2>2. \A v \in Callers \ {u} : flushed'[v] = flushed[v] /\ own'[v] = own[v]
      BY <1>3 DEF Call, CallStep, Set, ForceMerge, Flush, ThresholdHit, Throttle, FlushLock,
                    FlushWait, FlushReturn, Spin, ApiType
    <2>3. call'[u].pc \in Waiting /\ flushed'[u] =>
            call[u].pc \in Waiting /\ flushed[u] /\ own'[u] = own[u]
      <3>1. CASE FlushLock(u)
        BY <3>1 DEF FlushLock, ApiType
      <3>2. CASE FlushWait(u)
        BY <3>2 DEF FlushWait, Waiting
      <3>3. CASE FlushReturn(u)
        BY <3>3 DEF FlushReturn, Waiting
      <3>4. CASE Set(u)
        BY <3>4 DEF Set, Go, ApiType, CallStates, Waiting
      <3>5. CASE ThresholdHit(u)
        BY <3>5 DEF ThresholdHit, Go, ApiType, CallStates, Waiting
      <3>6. CASE Throttle(u)
        <4>1. call'[u].pc \in {"throttle", "idle", "lock"}
          BY <3>6, CallMoves DEF Throttle
        <4>2. QED
          BY <4>1 DEF Waiting
      <3>7. CASE Spin(u)
        <4>1. call'[u].pc \in {"spin", "idle", "lock"}
          BY <3>7, CallMoves DEF Spin
        <4>2. QED
          BY <4>1 DEF Waiting
      <3>8. CASE ForceMerge(u)
        <4>1. call'[u].pc \in {"spin", "lock"}
          BY <3>8, CallMoves DEF ForceMerge
        <4>2. QED
          BY <4>1 DEF Waiting
      <3>9. ASSUME NEW async \in BOOLEAN, Flush(u, async)
            PROVE  call'[u].pc \in Waiting /\ flushed'[u] =>
                     call[u].pc \in Waiting /\ flushed[u] /\ own'[u] = own[u]
        <4>1. call'[u].pc \in {"idle", "lock"}
          BY <3>9, CallMoves DEF Flush
        <4>2. QED
          BY <4>1 DEF Waiting
      <3>10. QED
        BY <1>3, <3>1, <3>2, <3>3, <3>4, <3>5, <3>6, <3>7, <3>8, <3>9 DEF Call, CallStep
    <2>4. QED
      BY <1>0, <2>1, <2>2, <2>3 DEF FlushedCovered
  <1>4. CASE (WorkerStep /\ ~RunFlush) \/ ScheduledTask \/ MergeEnds
    BY <1>2, <1>4 DEF WorkerStep, RunSet, RunCompile, RunFinish, RunDone, NoSchedule, Dequeue,
                      ScheduledTask, MergeEnds, workerOnly
  <1>5. CASE Unlock \/ Close \/ OtherStep \/ UNCHANGED vars
    BY <1>2, <1>5 DEF Unlock, Close, OtherStep, OtherLoads, OtherLocks, OtherCompiles, OtherMerges, vars, callVars, otherOnly
  <1>6. QED
    BY <1>1, <1>3, <1>4, <1>5 DEF Next, WorkerStep

-----------------------------------------------------------------------------
\* ForceMerge

LEMMA SpinStep ==
    ASSUME ApiType, QueueInv, Kept, FlushedCovered, SpinClean, [Next]_vars
    PROVE  SpinClean'
  <1> USE DEF SpinClean
  <1>1. ASSUME NEW u \in Callers, Call(u) \/ CallStep(u) PROVE SpinClean'
    <2>1. UNCHANGED <<compiled, compiler, worker>> /\ InHand' = InHand
      BY <1>1 DEF Call, CallStep, Set, ForceMerge, Flush, ThresholdHit, Throttle, FlushLock,
                  FlushWait, FlushReturn, Spin, callOnly, taskVars, InHand
    <2>2. ASSUME NEW v \in Callers \ {u} PROVE call'[v] = call[v] /\ own'[v] = own[v]
      <3>1. (\E p : Go(u, p) \/ CallFlush(u, p)) \/ UNCHANGED call
        BY <1>1 DEF Call, CallStep, Set, ForceMerge, Flush, ThresholdHit, Throttle, FlushLock,
                    FlushWait, FlushReturn, Spin
      <3>2. own'[v] = own[v]
        BY <1>1 DEF Call, CallStep, Set, ForceMerge, Flush, ThresholdHit, Throttle, FlushLock,
                    FlushWait, FlushReturn, Spin, ApiType
      <3>3. QED
        BY <3>1, <3>2, CallMoves
    <2>3. call'[u].pc = "spin" => own'[u] \subseteq compiled \cup compiler \cup InHand
      <3>1. CASE FlushReturn(u)
        BY <3>1 DEF FlushReturn, FlushedCovered, Waiting
      <3>2. CASE ForceMerge(u)
        <4>1. CASE Pending
          <5>1. call'[u].pc = "lock"
            BY <3>2, <4>1 DEF ForceMerge, CallFlush, ApiType, CallStates
          <5>2. QED
            BY <5>1
        <4>2. CASE ~Pending
          <5>1. Queued(u) = {}
            BY <4>2 DEF Pending, Queued
          <5>2. QED
            BY <3>2, <5>1 DEF ForceMerge, Kept
        <4>3. QED
          BY <4>1, <4>2
      <3>3. CASE Spin(u)
        BY <3>3 DEF Spin
      <3>4. CASE Throttle(u)
        <4>1. call'[u].pc \in {"idle", "lock"}
          BY <3>4 DEF Throttle, Go, CallFlush, ApiType, CallStates
        <4>2. QED
          BY <4>1
      <3>5. CASE Set(u) \/ ThresholdHit(u) \/ FlushLock(u) \/ FlushWait(u)
        <4>1. call'[u].pc # "spin"
          BY <3>5 DEF Set, ThresholdHit, FlushLock, FlushWait, Go, ApiType, CallStates
        <4>2. QED
          BY <4>1
      <3>6. ASSUME NEW async \in BOOLEAN, Flush(u, async)
            PROVE  call'[u].pc # "spin"
        <4>1. call[u].pc = "idle" /\ (call' = call \/ CallFlush(u, "idle"))
          BY <3>6 DEF Flush
        <4>2. call'[u] = call[u] \/ call'[u].pc = "lock"
          BY <4>1 DEF CallFlush, ApiType
        <4>3. QED
          BY <4>1, <4>2
      <3>7. QED
        BY <1>1, <3>1, <3>2, <3>3, <3>4, <3>5, <3>6 DEF Call, CallStep
    <2>4. QED
      BY <2>1, <2>2, <2>3
  <1>2. ASSUME UNCHANGED <<call, own>>,
               compiled \cup compiler \cup InHand \subseteq compiled' \cup compiler' \cup InHand'
        PROVE  SpinClean'
    BY <1>2
  <1>3. ASSUME InHand = {}, UNCHANGED <<call, own>>,
               compiled' = compiled \cup compiler \/ UNCHANGED <<compiled, compiler>>
        PROVE  SpinClean'
    BY <1>3
  <1>4. CASE RunSet
    BY <1>2, <1>4 DEF RunSet, Ran, workerOnly, InHand, NoTask
  <1>5. CASE RunCompile \/ RunFlush \/ RunFinish
    BY <1>3, <1>5, Compiles DEF RunCompile, RunFlush, RunFinish, workerOnly, InHand
  <1>6. CASE RunDone
    BY <1>3, <1>6 DEF RunDone, workerOnly, taskVars, InHand
  <1>7. CASE NoSchedule
    BY <1>2, <1>7 DEF NoSchedule, workerOnly, taskVars, InHand, ApiType
  <1>8. ASSUME NEW u \in Callers, Dequeue(u) PROVE SpinClean'
    BY <1>3, <1>8 DEF Dequeue, InHand, QueueInv, EndRuns, NoTask, workerOnly, taskVars
  <1>9. CASE ScheduledTask
    <2>1. InHand = {}
      BY <1>9 DEF ScheduledTask, InHand, QueueInv, EndRuns, NoTask
    <2>2. QED
      BY <1>3, <1>9, <2>1 DEF ScheduledTask, workerOnly
  <1>10. CASE MergeEnds \/ Unlock \/ Close \/ OtherStep \/ UNCHANGED vars
    BY <1>2, <1>10 DEF MergeEnds, Unlock, Close, OtherStep, OtherLoads, OtherLocks, OtherCompiles,
                       OtherMerges, vars, workerOnly, otherOnly, taskVars, callVars, InHand
  <1>11. QED
    BY <1>1, <1>4, <1>5, <1>6, <1>7, <1>8, <1>9, <1>10 DEF Next, WorkerStep

-----------------------------------------------------------------------------
\* The two processes

\* The worker of the first process: it writes all it has compiled, or nothing,
\* and removes files the other one may list.
LEMMA TocWorker ==
    ASSUME TocComplete, worker.pc # "ended",
           UNCHANGED <<closing, lock, other>>,
           \/ toc' = [by |-> "first", writes |-> compiled']
           \/ toc' = toc /\ compiled' = compiled,
           compiled \subseteq compiled',
           gone' = gone \/ (gone' = gone \cup {"second"} /\ other.pc # "none")
    PROVE  TocComplete'
  <1> USE DEF TocComplete
  <1>1. toc'.writes = IF toc'.by = "first" THEN compiled' ELSE other'.loaded \cup other'.own
    BY DEF LockInv
  <1>2. toc'.by = "first" \/ toc' = toc
    OBVIOUS
  <1>3. LockInv'
    BY <1>1, <1>2 DEF LockInv
  <1>4. LateInv'
    BY DEF LateInv
  <1>5. QED
    BY <1>3, <1>4

LEMMA TocCompile ==
    ASSUME Compile
    PROVE  /\ gone' = gone /\ compiled \subseteq compiled'
           /\ \/ toc' = [by |-> "first", writes |-> compiled']
              \/ toc' = toc /\ compiled' = compiled
  BY DEF Compile, WriteToc

LEMMA TocOther ==
    ASSUME PlaceType, TocComplete, OtherStep
    PROVE  TocComplete'
  <1> USE DEF TocComplete
  <1>1. UNCHANGED <<worker, compiled, closing>>
    BY DEF OtherStep, OtherLoads, OtherLocks, OtherCompiles, OtherMerges, otherOnly
  <1>2. CASE OtherLoads
    <2>1. /\ other'.pc = "loaded" /\ other'.loaded = toc.writes /\ other'.own = {}
          /\ other'.early = (worker.pc # "ended") /\ other.pc = "none"
          /\ UNCHANGED <<lock, toc, gone>>
      BY <1>2 DEF OtherLoads
    <2>2. LockInv'
      BY <1>1, <2>1 DEF LockInv
    <2>3. LateInv'
      BY <1>1, <2>1 DEF LateInv, LockInv
    <2>4. QED
      BY <2>2, <2>3
  <1>3. CASE OtherLocks
    <2>1. /\ other'.pc = "locked" /\ other.pc = "loaded"
          /\ other'.loaded = other.loaded /\ other'.own = other.own
          /\ other'.early = other.early /\ closing # "open"
          /\ UNCHANGED <<toc, gone>>
      BY <1>3 DEF OtherLocks, LockInv, PlaceType, OtherType
    <2>2. LockInv' /\ LateInv'
      BY <1>1, <2>1 DEF LockInv, LateInv
    <2>3. QED
      BY <2>2
  <1>4. CASE OtherCompiles
    <2>1. /\ other'.pc = "wrote" /\ other.pc = "locked"
          /\ other'.loaded = other.loaded /\ other'.early = other.early
          /\ toc'.by = "second" /\ toc'.writes = other'.loaded \cup other'.own
          /\ UNCHANGED <<lock, gone>>
      BY <1>4 DEF OtherCompiles, OtherWritesToc, PlaceType, OtherType
    <2>2. LockInv' /\ LateInv'
      BY <1>1, <2>1 DEF LockInv, LateInv
    <2>3. QED
      BY <2>2
  <1>5. CASE OtherMerges
    <2>1. /\ other'.pc = other.pc /\ other.pc # "none"
          /\ other'.loaded = other.loaded /\ other'.early = other.early
          /\ toc'.by = "second" /\ toc'.writes = other'.loaded \cup other'.own
          /\ gone' = gone \cup {"first"} /\ UNCHANGED lock
      BY <1>5 DEF OtherMerges, OtherWritesToc, PlaceType, OtherType, LockInv
    <2>2. LockInv' /\ LateInv'
      BY <1>1, <2>1 DEF LockInv, LateInv
    <2>3. QED
      BY <2>2
  <1>6. QED
    BY <1>2, <1>3, <1>4, <1>5 DEF OtherStep

LEMMA TocStep ==
    ASSUME ApiType, PlaceType, QueueInv, TocComplete, [Next]_vars
    PROVE  TocComplete'
  <1>1. ASSUME UNCHANGED <<toc, gone, compiled, other, lock>>,
               closing' = closing \/ (closing' # "open" /\ lock' = lock),
               worker.pc = "ended" => worker'.pc = "ended"
        PROVE  TocComplete'
    BY <1>1 DEF TocComplete, LockInv, LateInv
  <1>2. ASSUME NEW u \in Callers, Call(u) \/ CallStep(u) PROVE TocComplete'
    BY <1>1, <1>2 DEF Call, CallStep, Set, ForceMerge, Flush, ThresholdHit, Throttle, FlushLock,
                      FlushWait, FlushReturn, Spin, callOnly, taskVars
  <1>3. CASE RunCompile \/ RunFlush \/ RunFinish
    BY <1>3, TocCompile, TocWorker DEF RunCompile, RunFlush, RunFinish, workerOnly
  <1>4. CASE RunSet \/ RunDone \/ NoSchedule
    BY <1>1, <1>4 DEF RunSet, RunDone, NoSchedule, workerOnly, taskVars
  <1>5. CASE (\E u \in Callers : Dequeue(u)) \/ MergeEnds \/ Close \/ UNCHANGED vars
    BY <1>1, <1>5 DEF Dequeue, MergeEnds, Close, vars, workerOnly, taskVars, callVars
  <1>6. CASE Unlock
    BY <1>6 DEF Unlock, taskVars, TocComplete, LockInv, LateInv
  <1>7. CASE ScheduledTask
    <2>1. worker.pc # "ended" /\ UNCHANGED <<closing, lock, other>>
      BY <1>7 DEF ScheduledTask, workerOnly
    <2>2. compiled' = compiled \cup compiler
      BY <1>7 DEF ScheduledTask
    <2>3. \/ toc' = [by |-> "first", writes |-> compiled']
          \/ toc' = toc /\ compiled' = compiled
      BY <1>7, <2>2 DEF ScheduledTask, WriteToc
    <2>4. gone' = gone \/ (gone' = gone \cup {"second"} /\ other.pc # "none")
      BY <1>7 DEF ScheduledTask
    <2>5. QED
      BY <2>1, <2>2, <2>3, <2>4, TocWorker
  <1>8. CASE OtherStep
    BY <1>8, TocOther
  <1>9. QED
    BY <1>2, <1>3, <1>4, <1>5, <1>6, <1>7, <1>8 DEF Next, WorkerStep

-----------------------------------------------------------------------------
(***************************************************************************)
(* The inductive invariant holds in every behaviour: tasks of one thread   *)
(* are executed in their order, no write is lost between the queue and the *)
(* segments, and index.toc follows (ActiveObject, Flush, Compile).         *)
(***************************************************************************)
THEOREM Invariance == Spec => []ApiInv
  <1>1. Init => ApiInv
    BY InitInv
  <1>2. ApiInv /\ [Next]_vars => ApiInv'
    BY TypeStep, PlaceStep, QueueStep, KeptStep, FlushedStep, SpinStep, TocStep DEF ApiInv
  <1>3. QED
    BY <1>1, <1>2, PTL DEF Spec

(***************************************************************************)
(* A synchronous Flush returns only when everything its thread wrote       *)
(* before is in a segment, and ForceMerge only when it has left the queue, *)
(* however many threads use the index (Flush, ForceMerge).                 *)
(***************************************************************************)
THEOREM FlushTheorem == Spec => FlushCoversOwn
  <1>1. ASSUME ApiInv, [Next]_vars, NEW u \in Callers, call'[u] # call[u]
        PROVE  Call(u) \/ CallStep(u)
    <2> USE <1>1 DEF ApiInv
    <2>1. ASSUME NEW v \in Callers \ {u}, Call(v) \/ CallStep(v) PROVE FALSE
      <3>1. (\E p : Go(v, p) \/ CallFlush(v, p)) \/ UNCHANGED call
        BY <2>1 DEF Call, CallStep, Set, ForceMerge, Flush, ThresholdHit, Throttle, FlushLock,
                    FlushWait, FlushReturn, Spin
      <3>2. QED
        BY <3>1, CallMoves
    <2>2. ASSUME WorkerStep \/ ScheduledTask \/ MergeEnds PROVE FALSE
      BY <2>2 DEF WorkerStep, RunSet, RunCompile, RunFlush, RunFinish, RunDone, NoSchedule,
                  Dequeue, ScheduledTask, MergeEnds, workerOnly
    <2>3. ASSUME Unlock \/ Close \/ OtherStep \/ UNCHANGED vars PROVE FALSE
      BY <2>3 DEF Unlock, Close, OtherStep, OtherLoads, OtherLocks, OtherCompiles, OtherMerges,
                  vars, callVars, otherOnly
    <2>4. QED
      BY <2>1, <2>2, <2>3 DEF Next
  <1>2. ASSUME ApiInv, [Next]_vars, NEW u \in Callers,
               call[u].pc = "wait", call'[u].pc # "wait"
        PROVE  own[u] \subseteq compiled
    <2>1. Call(u) \/ CallStep(u)
      BY <1>1, <1>2
    <2>2. FlushReturn(u)
      BY <1>2, <2>1 DEF Call, CallStep, Set, ForceMerge, Flush, ThresholdHit, Throttle,
                        FlushLock, FlushWait, Spin
    <2>3. QED
      BY <1>2, <2>2 DEF ApiInv, FlushReturn, FlushedCovered, Waiting
  <1>3. ASSUME ApiInv, NEW u \in Callers, call[u].pc = "spin"
        PROVE  own[u] \subseteq compiled \cup compiler \cup InHand
    BY <1>3 DEF ApiInv, SpinClean
  <1>4. ASSUME ApiInv, [Next]_vars
        PROVE  [\A u \in Callers :
                  /\ call[u].pc = "wait" /\ call'[u].pc # "wait" => own[u] \subseteq compiled
                  /\ call[u].pc = "spin" /\ call'[u].pc = "idle" =>
                       own[u] \subseteq compiled \cup compiler \cup InHand]_vars
    BY <1>2, <1>3, <1>4
  <1>5. QED
    BY <1>4, Invariance, PTL DEF Spec, FlushCoversOwn

(***************************************************************************)
(* The end of the worker loses nothing of the thread that destroys the     *)
(* index, and of another thread at most what is still in its queue         *)
(* (~ActiveObject, ~IndexWriterWorker).                                    *)
(***************************************************************************)
THEOREM EndTheorem == Spec => []LostOnlyIfOvertaken
  <1>1. ASSUME ApiInv PROVE LostOnlyIfOvertaken
    <2> SUFFICES ASSUME worker.pc = "ended"
                 PROVE  /\ own[Main] \subseteq compiled
                        /\ \A u \in Callers : own[u] \subseteq compiled \cup Queued(u)
      BY DEF LostOnlyIfOvertaken
    <2>1. /\ done /\ compiler = {} /\ worker.task = NoTask /\ queue[Main] = <<>>
      BY <1>1 DEF ApiInv, QueueInv, EndRuns
    <2>2. InHand = {} /\ Queued(Main) = {}
      BY <2>1 DEF InHand, NoTask, Queued
    <2>3. QED
      BY <1>1, <2>1, <2>2, MainAssumption DEF ApiInv, Kept
  <1>2. QED
    BY <1>1, Invariance, PTL

(***************************************************************************)
(* As long as the first process has the index open, its index.toc is safe  *)
(* from another one that waits for the lock, but for a merge of that one;  *)
(* later only what was compiled after the load of the second process can   *)
(* be missing, and nothing if it loaded after the end (Index(), ~Index).   *)
(***************************************************************************)
THEOREM LockTheorem == Spec => []LockProtects
  <1>1. ASSUME ApiInv PROVE LockProtects
    <2> USE <1>1 DEF ApiInv, TocComplete
    <2>1. toc = [by |-> toc.by, writes |-> toc.writes] /\ toc.by \in {"first", "second"}
      BY DEF PlaceType
    <2>2. closing = "open" /\ "first" \notin gone => toc = [by |-> "first", writes |-> compiled]
      BY <2>1 DEF LockInv
    <2>3. other.loaded \subseteq toc.writes
      BY DEF LockInv
    <2>4. other.pc # "none" /\ ~other.early =>
            toc.by \notin gone /\ toc.writes = compiled \cup other.own
      BY <2>1 DEF LockInv, LateInv
    <2>5. QED
      BY <2>2, <2>3, <2>4 DEF LockProtects
  <1>2. QED
    BY <1>1, Invariance, PTL
=============================================================================
