-------------------------- MODULE IndexReaderProofs -------------------------
(***************************************************************************)
(* Proofs about a reader in its own process, for every number of segments, *)
(* merges, reloads and every set of keys.                                  *)
(*                                                                         *)
(* A thread that has read the table of contents carries a list that was    *)
(* published, whatever the writer does meanwhile (ThreadsPublished).       *)
(* Whoever takes the time of index.toc reads it afterwards: once its time  *)
(* is taken the newest list is in use, or a thread has read it or is about *)
(* to (TimeTaken), unless one of the three reasons on record applies.      *)
(* That is what a Reload finds that does not look at index.toc because its *)
(* time is taken, and it stays so until this Reload returns                *)
(* (CallerCovered).                                                        *)
(***************************************************************************)
EXTENDS IndexReader, TLAPS

\* The labels between ReadToc and Swap
Opening == {"open", "new dk", "new dkm"}

\* Every thread has a program counter and its local variables.
ThreadShape ==
    th = [t \in Threads |->
            [pc |-> th[t].pc, todo |-> th[t].todo, files |-> th[t].files,
             version |-> th[t].version, dk |-> th[t].dk, asked |-> th[t].asked]]

TocShape == toc = [files |-> toc.files, version |-> toc.version]

ListOf(t) == [files |-> th[t].files, version |-> th[t].version]

ThreadsPublished == \A t \in Threads : th[t].pc \in Opening => ListOf(t) \in published

PublishedInv ==
    /\ ThreadShape /\ TocShape
    /\ toc \in published /\ segments \in published
    /\ ThreadsPublished

Numbers ==
    /\ toc.version \in Nat /\ segments.version \in Nat
    /\ toc_time \in Nat \ {0} /\ last_modification_time \in Nat
    /\ segments.version <= toc.version
    /\ \A t \in Threads : /\ th[t].version \in Nat /\ th[t].version <= toc.version
                          /\ th[t].asked \in Nat /\ th[t].asked <= toc.version

\* Thread t is going to swap in version v or a later one.
Brings(t, v) == th[t].pc = "toc" \/ (th[t].pc \in Opening /\ th[t].version >= v)

TimeTaken ==
    spoiled = {} /\ toc_time <= last_modification_time =>
        \/ segments.version = toc.version
        \/ \E t \in Threads : Brings(t, toc.version)

CallerNew == th["caller"].pc \in Opening => th["caller"].version >= th["caller"].asked

CallerCovered ==
    th["caller"].pc \in {"deletes", "dkm"} =>
        \/ segments.version >= th["caller"].asked
        \/ Brings("watcher", th["caller"].asked)
        \/ last_modification_time = 0
        \/ spoiled # {}

CoverInv == Numbers /\ TimeTaken /\ CallerNew /\ CallerCovered

ReaderInv == PublishedInv /\ CoverInv

-----------------------------------------------------------------------------
\* What the steps of the writer and of a reloading thread can do

LEMMA WritesToc ==
    ASSUME NEW f, WriteToc(f)
    PROVE  /\ toc' = [files |-> f, version |-> toc.version + 1]
           /\ published' = published \cup {toc'}
           /\ toc_time' \in {toc_time, toc_time + 1}
           /\ spoiled \subseteq spoiled'
           /\ toc_time' <= last_modification_time => spoiled' # {}
  BY DEF WriteToc

LEMMA WriterStep ==
    ASSUME Writer
    PROVE  /\ UNCHANGED <<th, segments, last_modification_time>>
           /\ \/ UNCHANGED <<toc, toc_time, published, spoiled>>
              \/ \E f : WriteToc(f)
  <1> USE DEF writerOnly, listVars
  <1>2. CASE WCompile
    BY <1>2 DEF WCompile
  <1>3. CASE WElect
    BY <1>3 DEF WElect
  <1>4. CASE WMerged
    BY <1>4 DEF WMerged
  <1>5. CASE WMergeFailed
    BY <1>5 DEF WMergeFailed
  <1>6. CASE \E k \in Keys : WDelete(k)
    BY <1>6 DEF WDelete
  <1>7. CASE \E i \in SegIds : WPersist(i) \/ WRemove(i) \/ WRemoveDkm(i)
    BY <1>7 DEF WPersist, WRemove, WRemoveDkm
  <1>8. QED
    BY <1>2, <1>3, <1>4, <1>5, <1>6, <1>7 DEF Writer

LEMMA OtherThread == Other("watcher") = "caller" /\ Other("caller") = "watcher"
  BY DEF Other, Threads

IsThread(r) ==
    r = [pc |-> r.pc, todo |-> r.todo, files |-> r.files, version |-> r.version,
         dk |-> r.dk, asked |-> r.asked]

LEMMA PutPc == ASSUME NEW r, IsThread(r), NEW x PROVE IsThread([r EXCEPT !.pc = x])
  BY DEF IsThread

LEMMA PutTodo == ASSUME NEW r, IsThread(r), NEW x PROVE IsThread([r EXCEPT !.todo = x])
  BY DEF IsThread

LEMMA PutDk == ASSUME NEW r, IsThread(r), NEW x PROVE IsThread([r EXCEPT !.dk = x])
  BY DEF IsThread

LEMMA PutAsked == ASSUME NEW r, IsThread(r), NEW x PROVE IsThread([r EXCEPT !.asked = x])
  BY DEF IsThread

LEMMA PutToc ==
    ASSUME NEW r, IsThread(r), NEW x, NEW y
    PROVE  IsThread([r EXCEPT !.files = x]) /\ IsThread([r EXCEPT !.version = y])
  BY DEF IsThread

LEMMA Replaced ==
    ASSUME ThreadShape, NEW t \in Threads, NEW r, IsThread(r), th' = [th EXCEPT ![t] = r]
    PROVE  th' = [th EXCEPT ![t] = th'[t]] /\ ThreadShape'
  <1>1. /\ DOMAIN th = Threads /\ th = [u \in Threads |-> th[u]]
        /\ \A u \in Threads : IsThread(th[u])
    BY DEF ThreadShape, IsThread
  <1>2. th'[t] = r /\ \A u \in Threads \ {t} : th'[u] = th[u]
    BY <1>1
  <1>3. \A u \in Threads : IsThread(th'[u])
    BY <1>1, <1>2
  <1>4. th' = [u \in Threads |-> th'[u]]
    BY <1>1
  <1>5. ThreadShape'
    BY <1>3, <1>4 DEF ThreadShape, IsThread
  <1>6. QED
    BY <1>2, <1>5

\* A thread has nothing to do with the local variables of the other one.
LEMMA ReloadFrame ==
    ASSUME ThreadShape, NEW t \in Threads, ReloadStep(t)
    PROVE  /\ th' = [th EXCEPT ![t] = th'[t]]
           /\ UNCHANGED <<toc, toc_time, published>>
           /\ ThreadShape'
  <1> USE DEF dirVars, listVars, startOnly
  <1>1. UNCHANGED <<toc, toc_time, published>>
    BY DEF ReloadStep, CheckTime, ReadToc, Opens, Fails, Swap, LoadDk, LoadDkm, Loaded
  <1>2. DOMAIN th = Threads /\ IsThread(th[t]) /\ IsThread(Idle)
    BY DEF ThreadShape, IsThread, Idle
  <1>3. \E r : IsThread(r) /\ th' = [th EXCEPT ![t] = r]
    <2>1. CASE CheckTime(t)
      <3> DEFINE asked == IF t = "caller" THEN toc.version ELSE 0
                 later == [[th[t] EXCEPT !.pc = "toc"] EXCEPT !.asked = asked]
                 skips == [[[th[t] EXCEPT !.pc = "deletes"] EXCEPT !.todo = segments.files]
                             EXCEPT !.asked = asked]
      <3>1. th' = [th EXCEPT ![t] = later] \/ th' = [th EXCEPT ![t] = skips]
        BY <2>1 DEF CheckTime
      <3>2. IsThread(later) /\ IsThread(skips)
        BY <1>2, PutPc, PutTodo, PutAsked
      <3>3. QED
        BY <3>1, <3>2
    <2>2. CASE ReadToc(t)
      <3> DEFINE todo == SelectSeq(toc.files, LAMBDA i : i \notin segments_by_name)
                 r == [[[[th[t] EXCEPT !.pc = "open"] EXCEPT !.files = toc.files]
                          EXCEPT !.version = toc.version] EXCEPT !.todo = todo]
      <3>1. th' = [th EXCEPT ![t] = r]
        BY <2>2 DEF ReadToc
      <3>2. IsThread(r)
        BY <1>2, PutPc, PutToc, PutTodo
      <3>3. QED
        BY <3>1, <3>2
    <2>3. CASE Opens(t)
      <3> DEFINE r == [th[t] EXCEPT !.pc = "new dk"]
      <3>1. th' = [th EXCEPT ![t] = r]
        BY <1>2, <2>3 DEF Opens, Goto
      <3>2. IsThread(r)
        BY <1>2, PutPc
      <3>3. QED
        BY <3>1, <3>2
    <2>4. CASE Fails(t) \/ Loaded(t)
      BY <1>2, <2>4 DEF Fails, Loaded
    <2>5. CASE Swap(t)
      <3> DEFINE r == [[[Idle EXCEPT !.pc = "deletes"] EXCEPT !.todo = th[t].files]
                         EXCEPT !.asked = th[t].asked]
      <3>1. th' = [th EXCEPT ![t] = r]
        BY <2>5 DEF Swap
      <3>2. IsThread(r)
        BY <1>2, PutPc, PutTodo, PutAsked
      <3>3. QED
        BY <3>1, <3>2
    <2>6. CASE LoadDk(t)
      <3> DEFINE back == IF th[t].pc = "deletes" THEN "deletes" ELSE "open"
                 next == IF back = "open" THEN "new dkm" ELSE "dkm"
                 found == ReadDeleted(seg[Head(th[t].todo)].dk)
                 r == [[th[t] EXCEPT !.todo = Tail(th[t].todo)] EXCEPT !.pc = back]
                 q == [[th[t] EXCEPT !.dk = found] EXCEPT !.pc = next]
      <3>1. \/ th' = [th EXCEPT ![t].todo = Tail(@), ![t].pc = back]
            \/ th' = [th EXCEPT ![t].dk = found, ![t].pc = next]
        BY <2>6 DEF LoadDk
      <3> HIDE DEF back, next, found
      <3>2. th' = [th EXCEPT ![t] = r] \/ th' = [th EXCEPT ![t] = q]
        BY <1>2, <3>1
      <3>3. IsThread(r) /\ IsThread(q)
        BY <1>2, PutPc, PutTodo, PutDk
      <3>4. QED
        BY <3>2, <3>3
    <2>7. CASE LoadDkm(t)
      <3> DEFINE next == IF th[t].pc = "dkm" THEN "deletes" ELSE "open"
                 r == [[[th[t] EXCEPT !.todo = Tail(th[t].todo)] EXCEPT !.dk = {}]
                         EXCEPT !.pc = next]
      <3>1. th' = [th EXCEPT ![t].todo = Tail(@), ![t].dk = {}, ![t].pc = next]
        BY <2>7 DEF LoadDkm
      <3> HIDE DEF next
      <3>2. th' = [th EXCEPT ![t] = r]
        BY <1>2, <3>1
      <3>3. IsThread(r)
        BY <1>2, PutPc, PutTodo, PutDk
      <3>4. QED
        BY <3>2, <3>3
    <2>8. QED
      BY <2>1, <2>2, <2>3, <2>4, <2>5, <2>6, <2>7 DEF ReloadStep
  <1>4. QED
    BY <1>1, <1>3, Replaced

\* CheckTime, when the time is taken already
Skips(t) ==
    /\ th[t].pc = "idle" /\ th'[t].pc = "deletes"
    /\ toc_time <= last_modification_time
    /\ th'[t].version = th[t].version
    /\ th'[t].asked = IF t = "caller" THEN toc.version ELSE 0
    /\ UNCHANGED <<segments, last_modification_time, spoiled>>

\* CheckTime, when it is not
Takes(t) ==
    /\ th[t].pc = "idle" /\ th'[t].pc = "toc"
    /\ th'[t].version = th[t].version
    /\ th'[t].asked = IF t = "caller" THEN toc.version ELSE 0
    /\ UNCHANGED segments
    /\ last_modification_time' = toc_time
    /\ spoiled' = {}

Reads(t) ==
    /\ th[t].pc = "toc" /\ th'[t].pc = "open"
    /\ th'[t].files = toc.files /\ th'[t].version = toc.version
    /\ th'[t].asked = th[t].asked
    /\ UNCHANGED <<segments, last_modification_time, spoiled>>

\* Opens, LoadDk, LoadDkm: on with the next segment
GoesOn(t) ==
    /\ \/ th[t].pc \in Opening /\ th'[t].pc \in Opening
       \/ th[t].pc \in {"deletes", "dkm"} /\ th'[t].pc \in {"deletes", "dkm"}
    /\ th'[t].files = th[t].files /\ th'[t].version = th[t].version
    /\ th'[t].asked = th[t].asked
    /\ UNCHANGED <<segments, last_modification_time, spoiled>>

GivesUp(t) ==
    /\ th[t].pc = "open" /\ th'[t] = Idle
    /\ UNCHANGED segments
    /\ IF t = "watcher" THEN last_modification_time' = 0
       ELSE UNCHANGED last_modification_time /\ spoiled' # {}

Swaps(t) ==
    /\ th[t].pc = "open" /\ th'[t].pc = "deletes"
    /\ th'[t].version = 0 /\ th'[t].asked = th[t].asked
    /\ segments' = ListOf(t)
    /\ UNCHANGED last_modification_time
    /\ spoiled' = {} => \/ th[t].version = toc.version
                        \/ spoiled = {} /\ ~(th[t].version < segments.version)

Ends(t) ==
    /\ th[t].pc = "deletes" /\ th'[t] = Idle
    /\ UNCHANGED <<segments, last_modification_time, spoiled>>

\* What a step does to the thread that takes it
LEMMA ReloadEffect ==
    ASSUME ThreadShape, NEW t \in Threads, ReloadStep(t)
    PROVE  \/ Skips(t) \/ Takes(t) \/ Reads(t) \/ GoesOn(t)
           \/ GivesUp(t) \/ Swaps(t) \/ Ends(t)
  <1> USE DEF listVars
  <1>0. /\ DOMAIN th = Threads
        /\ th[t] = [pc |-> th[t].pc, todo |-> th[t].todo, files |-> th[t].files,
                    version |-> th[t].version, dk |-> th[t].dk, asked |-> th[t].asked]
    BY DEF ThreadShape
  <1>1. CASE ReadToc(t)
    <2>1. /\ th[t].pc = "toc"
          /\ th'[t] = [th[t] EXCEPT !.pc = "open", !.files = toc.files, !.version = toc.version,
                                    !.todo = SelectSeq(toc.files, LAMBDA i : i \notin segments_by_name)]
          /\ UNCHANGED <<segments, last_modification_time, spoiled>>
      BY <1>0, <1>1 DEF ReadToc
    <2>2. Reads(t)
      BY <1>0, <2>1 DEF Reads
    <2>3. QED
      BY <2>2
  <1>2. CASE Opens(t)
    <2>1. /\ th'[t] = [th[t] EXCEPT !.pc = "new dk"] /\ th[t].pc = "open"
          /\ UNCHANGED <<segments, last_modification_time, spoiled>>
      BY <1>0, <1>2 DEF Opens, Goto
    <2>2. GoesOn(t)
      BY <1>0, <2>1 DEF Opening, GoesOn
    <2>3. QED
      BY <2>2
  <1>3. CASE LoadDk(t)
    <2> DEFINE back == IF th[t].pc = "deletes" THEN "deletes" ELSE "open"
    <2>1. /\ th[t].pc \in {"deletes", "new dk"}
          /\ \/ th'[t] = [th[t] EXCEPT !.todo = Tail(@), !.pc = back]
             \/ \E d : th'[t] = [th[t] EXCEPT !.dk = d, !.pc = IF back = "open" THEN "new dkm" ELSE "dkm"]
          /\ UNCHANGED <<segments, last_modification_time, spoiled>>
      BY <1>0, <1>3 DEF LoadDk
    <2>2. GoesOn(t)
      BY <1>0, <2>1 DEF Opening, GoesOn
    <2>3. QED
      BY <2>2
  <1>4. CASE LoadDkm(t)
    <2>1. /\ th[t].pc \in {"dkm", "new dkm"}
          /\ th'[t] = [th[t] EXCEPT !.todo = Tail(@), !.dk = {},
                                    !.pc = IF th[t].pc = "dkm" THEN "deletes" ELSE "open"]
          /\ UNCHANGED <<segments, last_modification_time, spoiled>>
      BY <1>0, <1>4 DEF LoadDkm
    <2>2. GoesOn(t)
      BY <1>0, <2>1 DEF Opening, GoesOn
    <2>3. QED
      BY <2>2
  <1>5. CASE CheckTime(t)
    <2> DEFINE asked == IF t = "caller" THEN toc.version ELSE 0
    <2>0. th[t].pc = "idle" /\ UNCHANGED segments
      BY <1>5 DEF CheckTime, Starts, startOnly
    <2>1. CASE toc_time <= last_modification_time
      <3>1. /\ th'[t] = [th[t] EXCEPT !.pc = "deletes", !.todo = segments.files, !.asked = asked]
            /\ UNCHANGED <<last_modification_time, spoiled>>
        BY <1>0, <1>5, <2>1 DEF CheckTime
      <3>2. Skips(t)
        BY <1>0, <2>0, <2>1, <3>1 DEF Skips
      <3>3. QED
        BY <3>2
    <2>2. CASE ~(toc_time <= last_modification_time)
      <3>1. /\ th'[t] = [th[t] EXCEPT !.pc = "toc", !.asked = asked]
            /\ last_modification_time' = toc_time /\ spoiled' = {}
        BY <1>0, <1>5, <2>2 DEF CheckTime
      <3>2. Takes(t)
        BY <1>0, <2>0, <3>1 DEF Takes
      <3>3. QED
        BY <3>2
    <2>3. QED
      BY <2>1, <2>2
  <1>6. CASE Fails(t)
    <2>1. th[t].pc = "open" /\ th'[t] = Idle /\ UNCHANGED segments
      BY <1>0, <1>6 DEF Fails
    <2>2. GivesUp(t)
      <3>1. CASE t = "watcher"
        BY <1>6, <2>1, <3>1 DEF Fails, GivesUp
      <3>2. CASE t # "watcher"
        BY <1>6, <2>1, <3>2 DEF Fails, GivesUp
      <3>3. QED
        BY <3>1, <3>2
    <2>3. QED
      BY <2>2
  <1>7. CASE Swap(t)
    <2>1. /\ th'[t] = [Idle EXCEPT !.pc = "deletes", !.todo = th[t].files, !.asked = th[t].asked]
          /\ th[t].pc = "open" /\ segments' = ListOf(t)
          /\ UNCHANGED last_modification_time
      BY <1>0, <1>7 DEF Swap, ListOf
    <2>2. spoiled' = {} => \/ th[t].version = toc.version
                           \/ spoiled = {} /\ ~(th[t].version < segments.version)
      BY <1>7 DEF Swap
    <2>3. Swaps(t)
      BY <2>1, <2>2 DEF Swaps, Idle
    <2>4. QED
      BY <2>3
  <1>8. CASE Loaded(t)
    <2>1. th'[t] = Idle /\ th[t].pc = "deletes"
      BY <1>0, <1>8 DEF Loaded
    <2>2. Ends(t)
      BY <1>8, <2>1 DEF Loaded, Ends
    <2>3. QED
      BY <2>2
  <1>9. QED
    BY <1>1, <1>2, <1>3, <1>4, <1>5, <1>6, <1>7, <1>8 DEF ReloadStep

-----------------------------------------------------------------------------
\* ListPublished

LEMMA PublishedInit == Init => PublishedInv
  <1> SUFFICES ASSUME Init PROVE PublishedInv
    OBVIOUS
  <1>1. \A t \in Threads : th[t] = Idle
    BY DEF Init
  <1>2. ThreadShape /\ ThreadsPublished
    BY <1>1 DEF Init, ThreadShape, ThreadsPublished, Opening, Idle
  <1>3. TocShape /\ toc \in published /\ segments \in published
    BY DEF Init, TocShape, FirstToc
  <1>4. QED
    BY <1>2, <1>3 DEF PublishedInv

LEMMA PublishedStep ==
    ASSUME PublishedInv, [Next]_vars
    PROVE  PublishedInv'
  <1> USE DEF PublishedInv
  <1>1. CASE Writer
    <2>1. UNCHANGED <<th, segments>> /\ published \subseteq published'
      BY <1>1, WriterStep, WritesToc
    <2>2. TocShape' /\ toc' \in published'
      BY <1>1, WriterStep, WritesToc DEF TocShape
    <2>3. QED
      BY <2>1, <2>2 DEF ThreadShape, ThreadsPublished, ListOf
  <1>2. ASSUME NEW t \in Threads, ReloadStep(t) PROVE PublishedInv'
    <2>1. /\ th' = [th EXCEPT ![t] = th'[t]]
          /\ UNCHANGED <<toc, published>>
          /\ ThreadShape' /\ TocShape' /\ toc' \in published'
      BY <1>2, ReloadFrame DEF TocShape
    <2> USE DEF Skips, Takes, Reads, GoesOn, GivesUp, Swaps, Ends
    <2>2. segments' \in published'
      BY <1>2, <2>1, ReloadEffect DEF ThreadsPublished, Opening
    <2>3. th'[t].pc \in Opening => ListOf(t)' \in published
      <3>1. CASE Reads(t)
        <4>1. ListOf(t)' = toc
          BY <3>1 DEF ListOf, TocShape
        <4>2. QED
          BY <4>1
      <3>2. CASE GoesOn(t)
        <4>1. ListOf(t)' = ListOf(t)
          BY <3>2 DEF ListOf
        <4>2. QED
          BY <3>2, <4>1 DEF ThreadsPublished, Opening
      <3>3. CASE Skips(t) \/ Takes(t) \/ GivesUp(t) \/ Swaps(t) \/ Ends(t)
        <4>1. th'[t].pc \in {"deletes", "toc", "idle"}
          BY <3>3 DEF Idle
        <4>2. QED
          BY <4>1 DEF Opening
      <3>4. QED
        BY <1>2, <3>1, <3>2, <3>3, ReloadEffect
    <2>4. ThreadsPublished'
      <3>1. \A u \in Threads \ {t} : th'[u] = th[u]
        BY <2>1 DEF ThreadShape
      <3>2. QED
        BY <2>1, <2>3, <3>1 DEF ThreadsPublished, ListOf
    <2>5. QED
      BY <2>1, <2>2, <2>4
  <1>3. CASE UNCHANGED vars
    BY <1>3 DEF vars, dirVars, listVars, ThreadShape, TocShape, ThreadsPublished, ListOf
  <1>4. QED
    BY <1>1, <1>2, <1>3 DEF Next

(***************************************************************************)
(* Whatever the writer does between two file accesses of a reload, the     *)
(* list the reader works with is one complete table of contents that was   *)
(* in place at some time (ReloadIndex).                                    *)
(***************************************************************************)
THEOREM PublishedTheorem == Spec => []ListPublished
  <1>1. PublishedInv /\ [Next]_vars => PublishedInv'
    BY PublishedStep
  <1>2. PublishedInv => ListPublished
    BY DEF PublishedInv, ListPublished
  <1>3. QED
    BY <1>1, <1>2, PublishedInit, PTL DEF Spec

-----------------------------------------------------------------------------
\* ReloadCovers

LEMMA CoverInit == Init => CoverInv
  <1> SUFFICES ASSUME Init PROVE CoverInv
    OBVIOUS
  <1>1. \A t \in Threads : th[t].pc = "idle" /\ th[t].version = 0 /\ th[t].asked = 0
    BY DEF Init, Idle
  <1>2. toc.version = 1 /\ segments.version = 1
    BY DEF Init, FirstToc
  <1>3. Numbers
    BY <1>1, <1>2 DEF Numbers, Init
  <1>4. TimeTaken /\ CallerNew /\ CallerCovered
    BY <1>1, <1>2 DEF TimeTaken, CallerNew, CallerCovered, Opening, Threads
  <1>5. QED
    BY <1>3, <1>4 DEF CoverInv

LEMMA CoverWriter ==
    ASSUME CoverInv, Writer
    PROVE  CoverInv'
  <1> USE DEF CoverInv
  <1>1. UNCHANGED <<th, segments, last_modification_time>>
    BY WriterStep
  <1>2. CASE UNCHANGED <<toc, toc_time, published, spoiled>>
    BY <1>1, <1>2 DEF Numbers, TimeTaken, CallerNew, CallerCovered, Brings
  <1>3. ASSUME NEW f, WriteToc(f) PROVE CoverInv'
    <2>1. /\ toc'.version = toc.version + 1
          /\ toc_time' \in {toc_time, toc_time + 1}
          /\ spoiled \subseteq spoiled'
          /\ toc_time' <= last_modification_time => spoiled' # {}
      BY <1>3, WritesToc
    <2>2. Numbers'
      BY <1>1, <2>1 DEF Numbers
    <2>3. TimeTaken'
      BY <1>1, <2>1 DEF TimeTaken
    <2>4. CallerNew'
      BY <1>1 DEF CallerNew
    <2>5. CallerCovered'
      BY <1>1, <2>1 DEF CallerCovered, Brings
    <2>6. QED
      BY <2>2, <2>3, <2>4, <2>5
  <1>4. QED
    BY <1>2, <1>3, WriterStep

LEMMA CoverReload ==
    ASSUME ThreadShape, CoverInv, NEW t \in Threads, ReloadStep(t)
    PROVE  CoverInv'
  <1> USE DEF CoverInv
  <1> DEFINE o == Other(t)
  <1>0. /\ (t = "watcher" /\ o = "caller") \/ (t = "caller" /\ o = "watcher")
        /\ o \in Threads /\ o # t /\ Threads = {t, o}
    BY OtherThread DEF Threads
  <1> HIDE DEF o
  <1>1. th'[o] = th[o] /\ UNCHANGED <<toc, toc_time>>
    BY <1>0, ReloadFrame DEF ThreadShape
  <1>2. Skips(t) \/ Takes(t) \/ Reads(t) \/ GoesOn(t) \/ GivesUp(t) \/ Swaps(t) \/ Ends(t)
    BY ReloadEffect
  <1>3. Idle.pc = "idle" /\ Idle.version = 0 /\ Idle.asked = 0
    BY DEF Idle
  <1>4. Numbers'
    <2>1. /\ th'[t].version \in Nat /\ th'[t].version <= toc.version
          /\ th'[t].asked \in Nat /\ th'[t].asked <= toc.version
      BY <1>2, <1>3 DEF Numbers, Skips, Takes, Reads, GoesOn, GivesUp, Swaps, Ends
    <2>2. /\ segments'.version \in Nat /\ segments'.version <= toc.version
          /\ last_modification_time' \in Nat
      BY <1>2 DEF Numbers, Skips, Takes, Reads, GoesOn, GivesUp, Swaps, Ends, ListOf
    <2>3. QED
      BY <1>0, <1>1, <2>1, <2>2 DEF Numbers
  <1>5. CallerNew'
    <2>1. CASE t = "caller"
      BY <1>2, <1>3, <2>1 DEF Numbers, CallerNew, Opening,
                              Skips, Takes, Reads, GoesOn, GivesUp, Swaps, Ends
    <2>2. CASE t # "caller"
      BY <1>0, <1>1, <2>2 DEF CallerNew
    <2>3. QED
      BY <2>1, <2>2
  <1>6. TimeTaken'
    <2> SUFFICES ASSUME spoiled' = {}, toc_time <= last_modification_time'
                 PROVE  \/ segments'.version = toc.version
                        \/ Brings(t, toc.version)' \/ Brings(o, toc.version)'
      BY <1>0, <1>1 DEF TimeTaken
    <2>1. CASE Skips(t) \/ GoesOn(t) \/ Ends(t)
      <3>1. UNCHANGED <<segments, last_modification_time, spoiled>>
        BY <2>1 DEF Skips, GoesOn, Ends
      <3>2. Brings(t, toc.version) => Brings(t, toc.version)'
        BY <1>1, <2>1 DEF Brings, Opening, Skips, GoesOn, Ends
      <3>3. Brings(o, toc.version) => Brings(o, toc.version)'
        BY <1>1 DEF Brings
      <3>4. QED
        BY <1>0, <1>1, <3>1, <3>2, <3>3 DEF TimeTaken
    <2>2. CASE Takes(t)
      BY <1>1, <2>2 DEF Takes, Brings
    <2>3. CASE Reads(t)
      <3>1. th'[t].pc = "open" /\ th'[t].version = toc.version /\ toc.version \in Nat
        BY <2>3 DEF Reads, Numbers
      <3>2. Brings(t, toc.version)'
        BY <1>1, <3>1 DEF Brings, Opening
      <3>3. QED
        BY <3>2
    <2>4. CASE GivesUp(t)
      BY <1>1, <2>4 DEF GivesUp, Numbers
    <2>5. CASE Swaps(t)
      <3>1. CASE th[t].version = toc.version
        BY <2>5, <3>1 DEF Swaps, ListOf
      <3>2. CASE th[t].version # toc.version
        <4>1. spoiled = {} /\ th[t].version >= segments.version /\ th[t].version < toc.version
          BY <2>5, <3>2 DEF Swaps, Numbers
        <4>2. segments.version # toc.version /\ ~Brings(t, toc.version)
          BY <2>5, <4>1 DEF Numbers, Brings, Swaps
        <4>3. Brings(o, toc.version)
          BY <1>0, <2>5, <4>1, <4>2 DEF TimeTaken, Swaps
        <4>4. QED
          BY <1>1, <4>3 DEF Brings
      <3>3. QED
        BY <3>1, <3>2
    <2>6. QED
      BY <1>2, <2>1, <2>2, <2>3, <2>4, <2>5
  <1>7. CallerCovered'
    <2>1. CASE t = "caller"
      <3>1. CASE Skips(t)
        <4>1. th'["caller"].asked = toc.version /\ last_modification_time # 0
          BY <2>1, <3>1 DEF Skips, Numbers
        <4>2. ~Brings(t, toc.version)
          BY <3>1 DEF Skips, Brings, Opening
        <4>3. \/ segments.version = toc.version \/ Brings("watcher", toc.version)
              \/ spoiled # {}
          BY <1>0, <2>1, <3>1, <4>2 DEF Skips, TimeTaken
        <4>4. QED
          BY <1>0, <1>1, <2>1, <3>1, <4>1, <4>3 DEF Skips, CallerCovered, Brings, Numbers
      <3>2. CASE Takes(t) \/ Reads(t) \/ GivesUp(t) \/ Ends(t)
        BY <1>3, <2>1, <3>2 DEF CallerCovered, Takes, Reads, GivesUp, Ends
      <3>3. CASE GoesOn(t)
        BY <1>0, <1>1, <2>1, <3>3 DEF CallerCovered, GoesOn, Opening, Brings
      <3>4. CASE Swaps(t)
        <4>1. segments'.version >= th'["caller"].asked
          BY <2>1, <3>4 DEF CallerNew, Swaps, Opening, ListOf
        <4>2. QED
          BY <4>1 DEF CallerCovered
      <3>5. QED
        BY <1>2, <3>1, <3>2, <3>3, <3>4
    <2>2. CASE t = "watcher"
      <3> DEFINE a == th["caller"].asked
      <3>0. o = "caller" /\ th'["caller"] = th["caller"] /\ a \in Nat /\ a <= toc.version
        BY <1>0, <1>1, <2>2 DEF Numbers, Threads
      <3> SUFFICES ASSUME th["caller"].pc \in {"deletes", "dkm"}
                   PROVE  \/ segments'.version >= a \/ Brings("watcher", a)'
                          \/ last_modification_time' = 0 \/ spoiled' # {}
        BY <3>0 DEF CallerCovered, Brings
      <3>1. \/ segments.version >= a \/ Brings("watcher", a)
            \/ last_modification_time = 0 \/ spoiled # {}
        BY DEF CallerCovered
      <3>2. CASE Skips(t) \/ GoesOn(t) \/ Ends(t)
        <4>1. UNCHANGED <<segments, last_modification_time, spoiled>>
          BY <3>2 DEF Skips, GoesOn, Ends
        <4>2. Brings("watcher", a) => Brings("watcher", a)'
          BY <2>2, <3>0, <3>2 DEF Brings, Opening, Skips, GoesOn, Ends
        <4>3. QED
          BY <3>1, <4>1, <4>2
      <3>3. CASE Takes(t)
        BY <2>2, <3>3 DEF Takes, Brings
      <3>4. CASE Reads(t)
        BY <2>2, <3>0, <3>4 DEF Reads, Brings, Opening, Numbers
      <3>5. CASE GivesUp(t)
        BY <2>2, <3>5 DEF GivesUp
      <3>6. CASE Swaps(t)
        <4>1. segments'.version = th[t].version /\ UNCHANGED last_modification_time
          BY <3>6 DEF Swaps, ListOf
        <4>2. CASE th[t].version = toc.version
          BY <3>0, <4>1, <4>2
        <4>3. CASE th[t].version # toc.version
          <5> SUFFICES ASSUME spoiled' = {} PROVE segments'.version >= a \/ last_modification_time' = 0
            OBVIOUS
          <5>1. spoiled = {} /\ th[t].version >= segments.version
            BY <3>6, <4>3 DEF Swaps, Numbers
          <5>2. CASE segments.version >= a
            BY <3>0, <4>1, <5>1, <5>2 DEF Numbers
          <5>3. CASE Brings("watcher", a)
            BY <2>2, <3>6, <4>1, <5>3 DEF Brings, Swaps
          <5>4. QED
            BY <3>1, <4>1, <5>1, <5>2, <5>3
        <4>4. QED
          BY <4>2, <4>3
      <3>7. QED
        BY <1>2, <3>2, <3>3, <3>4, <3>5, <3>6
    <2>3. QED
      BY <2>1, <2>2 DEF Threads
  <1>8. QED
    BY <1>4, <1>5, <1>6, <1>7

LEMMA CoverStep ==
    ASSUME ReaderInv, [Next]_vars
    PROVE  CoverInv'
  <1> USE DEF ReaderInv, PublishedInv
  <1>1. CASE Writer
    BY <1>1, CoverWriter
  <1>2. ASSUME NEW t \in Threads, ReloadStep(t) PROVE CoverInv'
    BY <1>2, CoverReload
  <1>3. CASE UNCHANGED vars
    BY <1>3 DEF vars, dirVars, listVars, CoverInv, Numbers, TimeTaken, CallerNew, CallerCovered,
                Brings
  <1>4. QED
    BY <1>1, <1>2, <1>3 DEF Next

(***************************************************************************)
(* A Reload that returns leaves the reader with a list as new as index.toc *)
(* was when it was called, or with a watcher that is loading it, also when *)
(* the two overlap, but for the three reasons on record: whoever takes the *)
(* time of index.toc reads it afterwards (ReloadIndex, Reload,             *)
(* UpdateWatcher).                                                         *)
(***************************************************************************)
THEOREM ReloadCoversTheorem == Spec => ReloadCovers
  <1>1. ReaderInv /\ [Next]_vars => ReaderInv'
    BY PublishedStep, CoverStep DEF ReaderInv
  <1>2. Init => ReaderInv
    BY PublishedInit, CoverInit DEF ReaderInv
  <1>3. ReaderInv =>
          [th["caller"].pc = "deletes" /\ th'["caller"].pc = "idle" =>
             \/ segments.version >= th["caller"].asked
             \/ Loading("watcher") \/ last_modification_time = 0
             \/ spoiled # {}]_vars
    BY DEF ReaderInv, CoverInv, CallerCovered, Brings, Opening, Loading
  <1>4. QED
    BY <1>1, <1>2, <1>3, PTL DEF Spec, ReloadCovers
=============================================================================
