---------------------------- MODULE IndexReader -----------------------------
(***************************************************************************)
(* A read-only index (index/read_only_index.h with                         *)
(* internal/index_reader_worker.h and internal/read_only_segment.h) in a   *)
(* process of its own, against the directory another process writes to.    *)
(*                                                                         *)
(* The writer is reduced to what it does to the directory, one file at a   *)
(* time; its segments are those of module Segment.  The reader has two     *)
(* threads that can reload: the watcher, which polls, and the caller of    *)
(* Reload.  Every file access of a reload is a step.  Modification times   *)
(* count the seconds in which index.toc was written.  A list of segments   *)
(* is known by what it lists: swapping in the same list again changes      *)
(* nothing.                                                                *)
(***************************************************************************)
EXTENDS Segment, MergeSemantics, Sequences, FiniteSetsExt

CONSTANTS
    MaxSegIds,  \* segment files ever created
    MaxDeletes, \* deletes of the writer
    MaxMerges,  \* merges of the writer
    MaxReloads  \* explicit calls of Reload

ASSUME ReaderBounds ==
    {MaxSegIds, MaxDeletes, MaxMerges, MaxReloads} \subseteq Nat

SegIds == 1..MaxSegIds
Threads == {"watcher", "caller"}

VARIABLES
    \* the writer and its directory
    seg,        \* the segments, objects of the writer and files
    toc,        \* index.toc: files and the number of this version
    toc_time,   \* its modification time
    merging,    \* the segments of the merge in progress
    doomed,     \* the segments whose files are being removed
    handback,   \* failed merge: segments whose .dkm file is still there
    published,  \* history: every toc that was ever in place
    count,      \* calls so far
    \* the reader
    last_modification_time,
    segments,   \* the current list: the toc it was built from
    segments_by_name,
    deleted,    \* the deleted keys of every opened segment, or NoFile
    th,         \* the reloading threads; asked is a history variable: the version
                \* of index.toc when Reload was called
    spoiled     \* history: why the reader may miss an update

dirVars == <<seg, toc, toc_time, merging, doomed, handback, published, count>>
listVars == <<segments, segments_by_name>>
vars == <<dirVars, listVars, last_modification_time, deleted, th, spoiled>>

ToSet(s) == {s[i] : i \in DOMAIN s}

Idle == [pc |-> "idle", todo |-> <<>>, files |-> <<>>, version |-> 0, dk |-> {}, asked |-> 0]

FirstToc == [files |-> <<1>>, version |-> 1]

(***************************************************************************)
(* IndexReaderWorker(): the first ReloadIndex, of an index with one        *)
(* segment in which every key is set.                                       *)
(***************************************************************************)
Init ==
    /\ seg = [i \in SegIds |-> IF i = 1 THEN NewSegment([k \in Keys |-> i], i)
                               ELSE NoSegment]
    /\ toc = FirstToc
    /\ toc_time = 1
    /\ merging = {} /\ doomed = {} /\ handback = {}
    /\ published = {FirstToc}
    /\ count = [deletes |-> 0, merges |-> 0, reloads |-> 0, segs |-> 1]
    /\ last_modification_time = 1
    /\ segments = FirstToc
    /\ segments_by_name = {1}
    /\ deleted = [i \in SegIds |-> NoFile]
    /\ th = [t \in Threads |-> Idle]
    /\ spoiled = {}

-----------------------------------------------------------------------------
\* The writer, as the directory sees it

(***************************************************************************)
(* WriteToc: write a part file, rename it, in the second of the last one   *)
(* or later.  If the reader has already taken the time of this second it   *)
(* will not look at the file again until it is written in another one.     *)
(***************************************************************************)
WriteToc(files) ==
    LET new == [files |-> files, version |-> toc.version + 1] IN
    /\ toc' = new
    /\ toc_time' \in {toc_time, toc_time + 1}
    /\ published' = published \cup {new}
    /\ spoiled' = IF toc_time' <= last_modification_time
                  THEN spoiled \cup {"same second"} ELSE spoiled

writerOnly == <<listVars, last_modification_time, deleted, th>>

\* Compile: a new segment with some of the keys, the value is its number
WCompile ==
    /\ doomed = {} /\ handback = {}
    /\ count.segs < MaxSegIds
    /\ LET i == count.segs + 1 IN
       \E K \in SUBSET Keys \ {{}} :
         /\ seg' = [seg EXCEPT ![i] = NewSegment([k \in Keys |-> IF k \in K THEN i ELSE Absent], i)]
         /\ WriteToc(Append(toc.files, i))
         /\ count' = [count EXCEPT !.segs = i]
    /\ UNCHANGED <<writerOnly, merging, doomed, handback>>

\* Delete: the segments in the table of contents note the key in memory.
WDelete(k) ==
    /\ doomed = {} /\ handback = {}
    /\ count.deletes < MaxDeletes
    /\ \E i \in ToSet(toc.files) : DeleteKey(seg[i], k) # seg[i]
    /\ seg' = [i \in SegIds |-> IF i \in ToSet(toc.files) THEN DeleteKey(seg[i], k) ELSE seg[i]]
    /\ count' = [count EXCEPT !.deletes = @ + 1]
    /\ UNCHANGED <<writerOnly, toc, toc_time, merging, doomed, handback, published, spoiled>>

Unsaved == {i \in ToSet(toc.files) : PersistAndReload(seg[i]) # seg[i]}

\* One round of the loop in PersistDeletes
WPersist(i) ==
    /\ doomed = {} /\ handback = {}
    /\ i \in Unsaved /\ \A j \in Unsaved : i <= j
    /\ seg' = [seg EXCEPT ![i] = PersistAndReload(@)]
    /\ UNCHANGED <<writerOnly, toc, toc_time, merging, doomed, handback, published, count,
                   spoiled>>

\* RunMerge: the segments are elected, what they had pending is written.
WElect ==
    /\ doomed = {} /\ handback = {} /\ merging = {}
    /\ count.merges < MaxMerges
    /\ Len(toc.files) > 1
    /\ merging' = ToSet(toc.files)
    /\ seg' = [i \in SegIds |-> IF i \in merging' THEN ElectedForMerge(seg[i]) ELSE seg[i]]
    /\ count' = [count EXCEPT !.merges = @ + 1]
    /\ UNCHANGED <<writerOnly, toc, toc_time, doomed, handback, published, spoiled>>

(***************************************************************************)
(* FinalizeMerge of a successful merge, up to WriteToc: the merged segment *)
(* takes the place of its parents.                                         *)
(***************************************************************************)
WMerged ==
    /\ doomed = {} /\ handback = {} /\ merging # {}
    /\ count.segs < MaxSegIds
    /\ LET m    == count.segs + 1
           part(f) == [i \in SegIds |-> f[i]]
           d    == MergedDictionary(merging, part([i \in SegIds |-> seg[i].dict]),
                                    part([i \in SegIds |-> ReadDeleted(seg[i].dk)]),
                                    part([i \in SegIds |-> seg[i].rank]), Keys)
       IN  /\ seg' = [seg EXCEPT ![m] = MergedSegment(d, Min(merging), {seg[i] : i \in merging})]
           /\ WriteToc(<<m>> \o SelectSeq(toc.files, LAMBDA i : i \notin merging))
           /\ count' = [count EXCEPT !.segs = m]
    /\ doomed' = merging
    /\ merging' = {}
    /\ UNCHANGED <<writerOnly, handback>>

\* RemoveFiles of the parents, file by file: .kv, then .dkm, then .dk
WRemove(i) ==
    /\ i \in doomed /\ \A j \in doomed : i <= j
    /\ LET s == seg[i] IN
       seg' = [seg EXCEPT ![i] = IF s.kv THEN [s EXCEPT !.kv = FALSE]
                                 ELSE IF s.dkm # NoFile THEN [s EXCEPT !.dkm = NoFile]
                                 ELSE [s EXCEPT !.dk = NoFile]]
    /\ doomed' = IF seg'[i].kv \/ seg'[i].dkm # NoFile \/ seg'[i].dk # NoFile
                 THEN doomed ELSE doomed \ {i}
    /\ UNCHANGED <<writerOnly, toc, toc_time, merging, handback, published, count, spoiled>>

\* FinalizeMerge of a failed merge: MergeFailed up to the removal of the .dkm
WMergeFailed ==
    /\ doomed = {} /\ handback = {} /\ merging # {}
    /\ seg' = [i \in SegIds |-> IF i \in merging
                                THEN [MergeFailed(seg[i]) EXCEPT !.dkm = seg[i].dkm]
                                ELSE seg[i]]
    /\ handback' = {i \in merging : seg[i].during_merge # {}}
    /\ merging' = {}
    /\ UNCHANGED <<writerOnly, toc, toc_time, doomed, published, count, spoiled>>

WRemoveDkm(i) ==
    /\ i \in handback /\ \A j \in handback : i <= j
    /\ seg' = [seg EXCEPT ![i].dkm = NoFile]
    /\ handback' = handback \ {i}
    /\ UNCHANGED <<writerOnly, toc, toc_time, merging, doomed, published, count, spoiled>>

-----------------------------------------------------------------------------
\* Reloading: ReloadIndex, then ReloadDeletedKeys, by the watcher or a caller

Busy(t) == th[t].pc # "idle"
Other(t) == CHOOSE u \in Threads : u # t
Goto(t, label) == th' = [th EXCEPT ![t].pc = label]

\* between taking the time and swapping in a list
Loading(t) == th[t].pc \in {"toc", "open", "new dk", "new dkm"}

(***************************************************************************)
(* The watcher starts a round after every sleep, and up to three times at  *)
(* once after a failed one: how long it waits makes no difference.  A      *)
(* caller starts one when it calls Reload.                                 *)
(***************************************************************************)
Starts(t) ==
    /\ th[t].pc = "idle"
    /\ IF t = "watcher"
       THEN UNCHANGED count
       ELSE /\ count.reloads < MaxReloads
            /\ count' = [count EXCEPT !.reloads = @ + 1]

startOnly == <<seg, toc, toc_time, merging, doomed, handback, published, listVars, deleted>>

\* ReloadIndex, first part: compare the times.  The time is taken before
\* anything is read.
CheckTime(t) ==
    /\ Starts(t)
    /\ LET asked == IF t = "caller" THEN toc.version ELSE 0
       IN  IF toc_time <= last_modification_time
           THEN /\ th' = [th EXCEPT ![t] = [@ EXCEPT !.pc = "deletes", !.todo = segments.files,
                                                     !.asked = asked]]
                /\ UNCHANGED <<last_modification_time, spoiled>>
           ELSE /\ th' = [th EXCEPT ![t] = [@ EXCEPT !.pc = "toc", !.asked = asked]]
                /\ last_modification_time' = toc_time
                /\ spoiled' = {}
    /\ UNCHANGED startOnly

(***************************************************************************)
(* Second part: parse the table of contents.  A segment that is loaded     *)
(* already is used again, the others are opened one after the other.       *)
(***************************************************************************)
ReadToc(t) ==
    /\ th[t].pc = "toc"
    /\ th' = [th EXCEPT ![t] =
                [@ EXCEPT !.pc = "open", !.files = toc.files, !.version = toc.version,
                          !.todo = SelectSeq(toc.files, LAMBDA i : i \notin segments_by_name)]]
    /\ UNCHANGED <<dirVars, listVars, last_modification_time, deleted, spoiled>>

\* ReadOnlySegment(): the dictionary, then the lists of deleted keys
Opens(t) ==
    /\ th[t].pc = "open" /\ th[t].todo # <<>>
    /\ seg[Head(th[t].todo)].kv
    /\ deleted' = [deleted EXCEPT ![Head(th[t].todo)] = NoFile]
    /\ Goto(t, "new dk")
    /\ UNCHANGED <<dirVars, listVars, last_modification_time, spoiled>>

\* Mutant: a failed reload does not forget the time.
FailKeepsTime(t) ==
    /\ th[t].pc = "open" /\ th[t].todo # <<>>
    /\ ~seg[Head(th[t].todo)].kv
    /\ th' = [th EXCEPT ![t] = Idle]
    /\ spoiled' = {}
    /\ UNCHANGED <<dirVars, listVars, last_modification_time, deleted>>

(***************************************************************************)
(* The file was removed by a merge after the table of contents was read:   *)
(* the constructor throws.  The watcher forgets the time and tries again;  *)
(* a caller of Reload gets the exception and the time stays.               *)
(***************************************************************************)
Fails(t) ==
    /\ th[t].pc = "open" /\ th[t].todo # <<>>
    /\ ~seg[Head(th[t].todo)].kv
    /\ th' = [th EXCEPT ![t] = Idle]
    /\ IF t = "watcher"
       THEN /\ last_modification_time' = 0
            /\ spoiled' = {}
       ELSE /\ spoiled' = spoiled \cup {"reload failed"}
            /\ UNCHANGED last_modification_time
    /\ UNCHANGED <<dirVars, listVars, deleted>>

\* Mutant: the list in use is extended instead of replaced.
SwapJoined(t) ==
    /\ th[t].pc = "open" /\ th[t].todo = <<>>
    /\ segments' = [files   |-> segments.files \o
                          SelectSeq(th[t].files, LAMBDA i : i \notin segments_by_name),
                    version |-> th[t].version]
    /\ segments_by_name' = ToSet(th[t].files)
    /\ th' = [th EXCEPT ![t] = [Idle EXCEPT !.pc = "deletes", !.todo = th[t].files,
                                            !.asked = th[t].asked]]
    /\ UNCHANGED <<dirVars, last_modification_time, deleted, spoiled>>

\* Mutant: the time is taken when the list is swapped in.
SwapTakesTime(t) ==
    /\ th[t].pc = "open" /\ th[t].todo = <<>>
    /\ segments' = [files |-> th[t].files, version |-> th[t].version]
    /\ segments_by_name' = ToSet(th[t].files)
    /\ th' = [th EXCEPT ![t] = [Idle EXCEPT !.pc = "deletes", !.todo = th[t].files,
                                            !.asked = th[t].asked]]
    /\ last_modification_time' = toc_time
    /\ spoiled' = IF th[t].version = toc.version THEN {}
                  ELSE IF th[t].version < segments.version THEN spoiled \cup {"swapped back"}
                  ELSE spoiled
    /\ UNCHANGED <<dirVars, deleted>>

(***************************************************************************)
(* Last part: swap in the new list.  The two threads share everything      *)
(* without a lock but this step: one that read index.toc before the other  *)
(* one did may come last, and its older list stays until index.toc has     *)
(* another time.                                                           *)
(***************************************************************************)
Swap(t) ==
    /\ th[t].pc = "open" /\ th[t].todo = <<>>
    /\ segments' = [files |-> th[t].files, version |-> th[t].version]
    /\ segments_by_name' = ToSet(th[t].files)
    /\ th' = [th EXCEPT ![t] = [Idle EXCEPT !.pc = "deletes", !.todo = th[t].files,
                                            !.asked = th[t].asked]]
    /\ spoiled' = IF th[t].version = toc.version THEN {}
                  ELSE IF th[t].version < segments.version THEN spoiled \cup {"swapped back"}
                  ELSE spoiled
    /\ UNCHANGED <<dirVars, last_modification_time, deleted>>

(***************************************************************************)
(* LoadDeletedKeys, for the next segment of the list or one just opened:   *)
(* if either file exists both are read, .dk first, .dkm in a second step.  *)
(***************************************************************************)
LoadDk(t) ==
    /\ th[t].pc \in {"deletes", "new dk"} /\ th[t].todo # <<>>
    /\ LET s == seg[Head(th[t].todo)]
           back == IF th[t].pc = "deletes" THEN "deletes" ELSE "open"
       IN  IF s.dk = NoFile /\ s.dkm = NoFile
           THEN th' = [th EXCEPT ![t].todo = Tail(@), ![t].pc = back]
           ELSE th' = [th EXCEPT ![t].dk = ReadDeleted(s.dk),
                                 ![t].pc = IF back = "open" THEN "new dkm" ELSE "dkm"]
    /\ UNCHANGED <<dirVars, listVars, last_modification_time, deleted, spoiled>>

LoadDkm(t) ==
    /\ th[t].pc \in {"dkm", "new dkm"}
    /\ LET i == Head(th[t].todo)
       IN  deleted' = [deleted EXCEPT ![i] = th[t].dk \cup ReadDeleted(seg[i].dkm)]
    /\ th' = [th EXCEPT ![t].todo = Tail(@), ![t].dk = {},
                        ![t].pc = IF th[t].pc = "dkm" THEN "deletes" ELSE "open"]
    /\ UNCHANGED <<dirVars, listVars, last_modification_time, spoiled>>

\* The end of a reload; the watcher sleeps.
Loaded(t) ==
    /\ th[t].pc = "deletes" /\ th[t].todo = <<>>
    /\ th' = [th EXCEPT ![t] = Idle]
    /\ UNCHANGED <<dirVars, listVars, last_modification_time, deleted, spoiled>>

-----------------------------------------------------------------------------
\* Lookups

\* operator[] on list l: the last segment of the list that has the key decides.
Lookup(l, k) ==
    LET with == SelectSeq(l.files, LAMBDA i : InDictionary(seg[i], k))
        i    == with[Len(with)]
    IN  IF with = <<>> \/ (deleted[i] # NoFile /\ k \in deleted[i])
        THEN Absent ELSE seg[i].dict[k]

-----------------------------------------------------------------------------
Writer ==
    \/ WCompile \/ WElect \/ WMerged \/ WMergeFailed
    \/ \E k \in Keys : WDelete(k)
    \/ \E i \in SegIds : WPersist(i) \/ WRemove(i) \/ WRemoveDkm(i)

ReloadStep(t) ==
    \/ CheckTime(t) \/ ReadToc(t) \/ Opens(t) \/ Fails(t)
    \/ Swap(t) \/ LoadDk(t) \/ LoadDkm(t) \/ Loaded(t)

Next ==
    \/ Writer
    \/ \E t \in Threads : ReloadStep(t)

Spec == Init /\ [][Next]_vars

(***************************************************************************)
(* The watcher is a thread of its own: it wakes up after every sleep and   *)
(* its steps do not wait for anyone.  Nothing is assumed of the writer.    *)
(***************************************************************************)
FairSpec ==
    /\ Spec
    /\ WF_vars(ReloadStep("watcher"))
    /\ WF_vars(Busy("caller") /\ ReloadStep("caller"))

-----------------------------------------------------------------------------
(***************************************************************************)
(* The list the reader works with is one table of contents the             *)
(* writer published, complete and in its order, never a mixture of two,    *)
(* and never shorter because a file was gone (ReloadIndex).                *)
(***************************************************************************)
ListPublished ==
    segments \in published

(***************************************************************************)
(* When Reload returns without an exception, the reader has a list that is *)
(* as new as index.toc was when Reload was called.  If not, the watcher    *)
(* has it in hand - it took the time of that index.toc, so that Reload did *)
(* not look at it, and is still loading, or failed and will look again -   *)
(* or one of three things happened: index.toc was written within the       *)
(* second whose time had been taken already, an earlier Reload threw after *)
(* taking the time, or an overlapping reload swapped an older list back in *)
(* (ReloadIndex, Reload, UpdateWatcher).                                   *)
(***************************************************************************)
ReloadCovers ==
    [][th["caller"].pc = "deletes" /\ th'["caller"].pc = "idle" =>
         \/ segments.version >= th["caller"].asked
         \/ Loading("watcher") \/ last_modification_time = 0
         \/ spoiled # {}]_vars

\* What another process that opens the directory now would find.
Durable(k) ==
    LET with == SelectSeq(toc.files, LAMBDA i : InDictionary(seg[i], k))
        i    == with[Len(with)]
    IN  IF with = <<>> \/ k \in OnDisk(seg[i]) THEN Absent ELSE seg[i].dict[k]

(***************************************************************************)
(* Once the writer rests, the reader finds exactly what is on disk, and    *)
(* keeps finding it, although files were removed while it opened them and  *)
(* the two lists of deleted keys are read one after the other, and         *)
(* although the watcher and a caller of Reload overlap.  Three things can  *)
(* spoil it: a toc written within the second whose time the reader had     *)
(* taken already, a Reload that threw after taking the time, and a list    *)
(* that an overlapping reload had read before and swapped in after a newer *)
(* one; a later toc repairs each of them (UpdateWatcher, ReloadIndex,      *)
(* LoadDeletedKeys).                                                       *)
(***************************************************************************)
EventuallyConsistent ==
    <>[](spoiled # {} \/ \A k \in Keys : Lookup(segments, k) = Durable(k))
=============================================================================
