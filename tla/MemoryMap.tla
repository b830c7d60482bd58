------------------------------ MODULE MemoryMap ------------------------------
(***************************************************************************)
(* The external memory of value stores and of the automaton: a byte buffer *)
(* spread over chunk files of equal size that are mapped when they are     *)
(* first touched (dictionary/fsa/internal/memory_map_manager.h), as        *)
(* operators on records.                                                   *)
(***************************************************************************)
EXTENDS Integers, Sequences, FiniteSetsExt

CONSTANT chunk_size_

NewMap == [chunks |-> <<>>, tail |-> 0, persisted |-> FALSE]

EmptyChunk == [i \in 0 .. chunk_size_ - 1 |-> 0]

ChunkOf(offset) == offset \div chunk_size_ + 1
OffsetIn(offset) == offset % chunk_size_

\* GetChunk, CreateMapping: all chunks up to the one asked for
GetChunk(m, n) ==
  [m EXCEPT !.chunks = [i \in 1 .. Max({n, Len(m.chunks)}) |->
                          IF i <= Len(m.chunks) THEN m.chunks[i] ELSE EmptyChunk]]

ByteAt(m, offset) == m.chunks[ChunkOf(offset)][OffsetIn(offset)]

\* Append, push_back: over as many chunks as the bytes need
AppendBytes(m, bytes) ==
  LET end    == m.tail + Len(bytes)
      mapped == GetChunk(m, ChunkOf(end - 1)).chunks
      Byte(n, offset) == IF offset \in m.tail .. end - 1 THEN bytes[offset - m.tail + 1]
                         ELSE mapped[n][OffsetIn(offset)]
  IN  IF bytes = <<>> THEN m
      ELSE [m EXCEPT !.tail = end,
                     !.chunks = [n \in DOMAIN mapped |->
                                   [o \in 0 .. chunk_size_ - 1 |->
                                      Byte(n, (n - 1) * chunk_size_ + o)]]]

\* GetBuffer copies from one or two chunks, mapping the second if need be;
\* GetAddress hands out what GetAddressQuickTestOk says is in one chunk
GetBuffer(m, offset, length) ==
  LET mapped == GetChunk(m, ChunkOf(offset + length - 1))
  IN  [map |-> mapped, bytes |-> [i \in 1 .. length |-> ByteAt(mapped, offset + i - 1)]]

\* Compare: within the first and the second chunk only
Compare(m, offset, bytes) ==
  \A i \in DOMAIN bytes :
    LET n == ChunkOf(offset + i - 1)
    IN  /\ n <= ChunkOf(offset) + 1 /\ n <= Len(m.chunks)
        /\ ByteAt(m, offset + i - 1) = bytes[i]

\* Persist: the last file is cut to what was appended
LastChunkSize(m) == m.tail - (Len(m.chunks) - 1) * chunk_size_

Persist(m) == [m EXCEPT !.persisted = TRUE]

\* Write: the files one after the other, or the mapped chunks up to the end
Write(m, end) ==
  LET size == IF ~m.persisted THEN end
              ELSE IF m.chunks = <<>> THEN 0
              ELSE (Len(m.chunks) - 1) * chunk_size_ + LastChunkSize(m)
  IN  IF m.chunks = <<>> THEN <<>> ELSE [i \in 1 .. size |-> ByteAt(m, i - 1)]

=============================================================================
