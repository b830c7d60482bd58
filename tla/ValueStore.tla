------------------------------ MODULE ValueStore ------------------------------
(***************************************************************************)
(* The value stores.  Strings with a terminator (string_value_store.h),    *)
(* json values and float vectors with their length in front                *)
(* (json_value_store.h, float_vector_value_store.h) are kept outside of    *)
(* the automaton: each gets a pointer that goes into the automaton; a      *)
(* value that was stored before is looked for in a cache, whose entries    *)
(* are compared with what is in external memory (value_store_persistence.h)*)
(* Integers are in the automaton themselves (int_value_store.h).           *)
(*                                                                         *)
(* Stores are filled, written to a file, and the files are merged: value   *)
(* by value through a new store, or by appending the files as they are.    *)
(* Encoding and compression of a value to bytes are left out: a value is   *)
(* its encoded bytes.                                                      *)
(***************************************************************************)
EXTENDS MinimizationHash, FiniteSets, FiniteSetsExt

CONSTANTS
  Values,           \* encoded values; those of one digit are also integers
  Vectors,          \* the ones that decode to vectors of size_ dimensions
  MaxAdds,          \* values added to source stores, all together
  MaxMerged,        \* values added to the merging store
  NumFiles,         \* files to merge
  MAX_LENGTH,       \* 65535: a pointer holds the length up to this
  PROBE,            \* 8: bytes read to find a length that is not in the pointer
  VINT_BASE,        \* 128: a varint digit is smaller than this
  HashCodes,        \* hash codes are smaller than this
  chunk_size_

M == INSTANCE MemoryMap

VARIABLES
  kind,        \* "string", "json", "vector" or "int"
  minimize_,   \* the parameter that turns the cache off
  phase,       \* "feed", "merge" or "done"
  append_,     \* merge_mode append
  memory,      \* values_extern_
  values_buffer_size_,
  hash_,       \* the cache
  handed,      \* the pointers handed out by this store: <<value, pointer>>
  files        \* what was written: properties and payload

vars == <<kind, minimize_, phase, append_, memory, values_buffer_size_, hash_, handed, files>>

-----------------------------------------------------------------------------
(* Encoding of lengths (util/vint.h).                                      *)

\* low digits first, all but the last one marked
encodeVarInt[n \in Nat] ==
  IF n < VINT_BASE THEN <<n>>
  ELSE <<(n % VINT_BASE) + VINT_BASE>> \o encodeVarInt[n \div VINT_BASE]

getVarIntLength(n) == Len(encodeVarInt[n])

\* the digits up to the first one without the mark
decodeVarInt(bytes) ==
  LET last == Min({i \in DOMAIN bytes : bytes[i] < VINT_BASE})
      high[n \in 0 .. last] ==
        IF n = 0 THEN 0 ELSE (bytes[last - n + 1] % VINT_BASE) + VINT_BASE * high[n - 1]
  IN  high[last]

\* values that Compare reaches within two chunks, with lengths whose digits
\* are all read
ASSUME ValuesAssumption ==
  /\ chunk_size_ \in Nat \ {0} /\ VINT_BASE \in Nat /\ VINT_BASE > 1
  /\ MAX_LENGTH \in Nat /\ PROBE \in 1 .. MAX_LENGTH + 1 /\ HashCodes \in Nat \ {0}
  /\ \A v \in Values : /\ v \in Seq(Nat) /\ Len(v) <= chunk_size_
                        /\ getVarIntLength(Len(v)) <= PROBE

\* skipVarInt, decodeVarIntString
decodeVarIntString(bytes, pt) ==
  LET length == decodeVarInt(SubSeq(bytes, pt + 1, Len(bytes)))
      start  == pt + getVarIntLength(length)
  IN  SubSeq(bytes, start + 1, start + length)

\* strings_ + fsa_value, up to the terminator
CString(bytes, pt) ==
  LET ends == {i \in pt + 1 .. Len(bytes) : bytes[i] = 0}
  IN  SubSeq(bytes, pt + 1, Min(ends) - 1)

(* GetValueAsString of the readers, without the decoding.                  *)

ReadString(bytes, pt) == CString(bytes, pt)
ReadJson(bytes, pt) == decodeVarIntString(bytes, pt)
ReadVector(bytes, pt) == decodeVarIntString(bytes, pt)
ReadInt(pt) == <<pt>>

ReadValue(bytes, pt) ==
  CASE kind = "string" -> ReadString(bytes, pt)
    [] kind = "json"   -> ReadJson(bytes, pt)
    [] kind = "vector" -> ReadVector(bytes, pt)
    [] kind = "int"    -> ReadInt(pt)

-----------------------------------------------------------------------------
(* Pointers in the cache.                                                  *)

HashCode(v) ==
  LET h[n \in 0 .. Len(v)] == IF n = 0 THEN 31 ELSE (2 * h[n - 1] + v[n]) % HashCodes
  IN  h[Len(v)] % HashCodes

\* mutant: the length is cast to 16 bits instead of being limited
RawPointerCast(pt, code, length) ==
  [id |-> pt + 1, code |-> code, cookie |-> 0, length |-> length % (MAX_LENGTH + 1)]

RawPointer(pt, code, length) ==
  [id |-> pt + 1, code |-> code, cookie |-> 0,
   length |-> IF length > MAX_LENGTH THEN MAX_LENGTH ELSE length]

\* RawPointerForCompareString::operator==
SameString(m, e, v) ==
  e.code = HashCode(v) /\ e.length = Len(v) /\ M!Compare(m, e.id - 1, v)

\* mutant: a length that does not fit is taken for the whole length
SamePrefixedCapped(m, e, v) ==
  /\ e.code = HashCode(v)
  /\ e.length = IF Len(v) > MAX_LENGTH THEN MAX_LENGTH ELSE Len(v)
  /\ M!Compare(m, e.id - 1 + getVarIntLength(Len(v)), SubSeq(v, 1, e.length))

\* RawPointerForCompare::operator==: the length in the pointer, or if that is
\* at its limit the one in front of the value
SamePrefixed(m, e, v) ==
  LET pt     == e.id - 1
      length == IF e.length < MAX_LENGTH THEN e.length
                ELSE decodeVarInt(M!GetBuffer(m, pt, PROBE).bytes)
  IN  /\ e.code = HashCode(v) /\ length = Len(v)
      /\ M!Compare(m, pt + getVarIntLength(length), v)

SameValue(m, e, v) == IF kind = "string" THEN SameString(m, e, v) ELSE SamePrefixed(m, e, v)

\* mutant: the bytes of a length are read for short values as well
ProbedAlways(m, v) ==
  LET like == {p \in handed : kind # "string" /\ HashCode(p[1]) = HashCode(v)}
  IN  M!GetChunk(m, Max({Len(m.chunks)} \cup {M!ChunkOf(p[2] + PROBE - 1) : p \in like}))

\* reading a length may map the chunk it reaches into
Probed(m, v) ==
  LET long == {p \in handed : /\ kind # "string" /\ HashCode(p[1]) = HashCode(v)
                              /\ Len(p[1]) >= MAX_LENGTH}
  IN  M!GetChunk(m, Max({Len(m.chunks)} \cup {M!ChunkOf(p[2] + PROBE - 1) : p \in long}))

-----------------------------------------------------------------------------
(* Adding values.                                                          *)

Terminated(v) == v \o <<0>>

Prefixed(v) == encodeVarInt[Len(v)] \o v

EmptyStore ==
  /\ memory = M!NewMap /\ values_buffer_size_ = 0 /\ hash_ = NewCache /\ handed = {}

FreshStore ==
  /\ memory' = M!NewMap /\ values_buffer_size_' = 0 /\ hash_' = NewCache /\ handed' = {}

Init ==
  /\ kind \in {"string", "json", "vector", "int"}
  /\ minimize_ \in BOOLEAN /\ (kind \in {"string", "int"} => minimize_)
  /\ append_ \in BOOLEAN
  /\ phase = "feed"
  /\ files = <<>>
  /\ EmptyStore

HandOut(v, pt) == handed' = handed \cup {<<v, pt>>}

\* the bytes of a value at the end of the buffer
CreateNewValue(v, map, bytes) ==
  /\ memory' = M!AppendBytes(map, bytes)
  /\ values_buffer_size_' = values_buffer_size_ + Len(bytes)
  /\ HandOut(v, values_buffer_size_)

\* found: the answer of the cache
UseOrCreate(v, bytes, found, probed) ==
  \/ /\ ~IsEmpty(found.entry)
     /\ hash_' = found.cache
     /\ memory' = probed
     /\ HandOut(v, found.entry.id - 1)
     /\ UNCHANGED values_buffer_size_
  \/ /\ IsEmpty(found.entry)
     /\ hash_' = CacheAdd(found.cache, RawPointer(values_buffer_size_, HashCode(v), Len(v)))
     /\ CreateNewValue(v, probed, bytes)

\* the value is looked for in the cache, else it is new and put into it
AddMinimized(v, bytes) ==
  LET same == {e.id : e \in {f \in CacheEntries(hash_) : SameValue(memory, f, v)}}
  IN  UseOrCreate(v, bytes, CacheGet(hash_, HashCode(v), same), Probed(memory, v))

AddString(v) == kind = "string" /\ AddMinimized(v, Terminated(v))

AddJson(v) ==
  /\ kind = "json"
  /\ IF minimize_ THEN AddMinimized(v, Prefixed(v))
     ELSE CreateNewValue(v, memory, Prefixed(v)) /\ UNCHANGED hash_

\* a vector with another number of dimensions is refused
AddVector(v) ==
  /\ kind = "vector" /\ v \in Vectors
  /\ IF minimize_ THEN AddMinimized(v, Prefixed(v))
     ELSE CreateNewValue(v, memory, Prefixed(v)) /\ UNCHANGED hash_

AddInt(v) ==
  /\ kind = "int" /\ Len(v) = 1
  /\ HandOut(v, v[1])
  /\ UNCHANGED <<memory, values_buffer_size_, hash_>>

AddValue(v) ==
  /\ phase = "feed" /\ Len(files) < NumFiles
  /\ AddString(v) \/ AddJson(v) \/ AddVector(v) \/ AddInt(v)
  /\ UNCHANGED <<kind, minimize_, phase, append_, files>>

\* CloseFeeding and Write: the size goes into the header, then the payload
Written ==
  [size |-> values_buffer_size_, pts |-> handed,
   bytes |-> M!Write(M!Persist(memory), values_buffer_size_)]

\* CloseFeeding frees the cache
CloseAndWrite ==
  /\ phase = "feed" /\ handed # {}
  /\ files' = Append(files, Written)
  /\ FreshStore
  /\ phase' = IF Len(files') = NumFiles THEN "merge" ELSE "feed"
  /\ UNCHANGED <<kind, minimize_, append_>>

(* AddValueMerge: the value is read from the payload of its file; the      *)
(* merging stores always use the cache.                                    *)

MergeString(bytes, pt) ==
  LET v == CString(bytes, pt)
  IN  kind = "string" /\ AddMinimized(v, Terminated(v))

\* the length and the value are copied as they are
FullBuffer(bytes, pt) ==
  LET length == decodeVarInt(SubSeq(bytes, pt + 1, Len(bytes)))
  IN  SubSeq(bytes, pt + 1, pt + getVarIntLength(length) + length)

MergeJson(bytes, pt) ==
  kind = "json" /\ AddMinimized(decodeVarIntString(bytes, pt), FullBuffer(bytes, pt))

MergeVector(bytes, pt) ==
  kind = "vector" /\ AddMinimized(decodeVarIntString(bytes, pt), FullBuffer(bytes, pt))

MergeInt(pt) ==
  /\ kind = "int"
  /\ HandOut(ReadInt(pt), pt)
  /\ UNCHANGED <<memory, values_buffer_size_, hash_>>

AddValueMerge(f, p) ==
  /\ phase = "merge" /\ ~append_
  /\ MergeString(f.bytes, p[2]) \/ MergeJson(f.bytes, p[2]) \/ MergeVector(f.bytes, p[2])
     \/ MergeInt(p[2])
  /\ UNCHANGED <<kind, minimize_, phase, append_, files>>

FinishMerge ==
  /\ phase = "merge" /\ ~append_ /\ handed # {}
  /\ files' = Append(files, Written)
  /\ phase' = "done"
  /\ UNCHANGED <<kind, minimize_, append_, memory, values_buffer_size_, hash_, handed>>

(* The append mergers: the files one behind the other.                     *)

\* the sizes in the headers of the files before
Offset(i) ==
  LET size[n \in 0 .. i - 1] == IF n = 0 THEN 0 ELSE size[n - 1] + files[n].size
  IN  size[i - 1]

\* their payloads in a row
Payloads ==
  LET bytes[n \in 0 .. Len(files)] == IF n = 0 THEN <<>> ELSE bytes[n - 1] \o files[n].bytes
  IN  bytes[Len(files)]

\* integers stay as they are
AddValueAppendMerge(i, pt) == IF kind = "int" THEN pt ELSE Offset(i) + pt

AppendMerge ==
  LET merged == [size  |-> Offset(Len(files) + 1),
                 bytes |-> Payloads,
                 pts   |-> UNION {{<<p[1], AddValueAppendMerge(i, p[2])>> : p \in files[i].pts}
                                    : i \in DOMAIN files}]
  IN  /\ phase = "merge" /\ append_
      /\ files' = Append(files, merged)
      /\ phase' = "done"
      /\ UNCHANGED <<kind, minimize_, append_, memory, values_buffer_size_, hash_, handed>>

Added == Cardinality(handed) + MapThenSumSet(LAMBDA i : Cardinality(files[i].pts), DOMAIN files)

\* Nothing is said of what follows an overrun of the cache.
Next ==
  /\ ~Overrun(hash_)
  /\ \/ \E v \in Values : Added < MaxAdds /\ AddValue(v)
     \/ CloseAndWrite
     \/ \E i \in DOMAIN files : \E p \in files[i].pts :
          Cardinality(handed) < MaxMerged /\ AddValueMerge(files[i], p)
     \/ FinishMerge
     \/ AppendMerge

Spec == Init /\ [][Next]_vars

-----------------------------------------------------------------------------

\* a string is read up to its first 0
UpToZero(v) == CString(Terminated(v), 0)

\* The pointer holds this limit, not the length of the string.
AtLimit(v) == kind = "string" /\ Len(v) >= MAX_LENGTH

\* A string of exactly that length may have been taken for a longer one with
\* its hash code that begins with it.
MayRead(v, r) ==
  \/ kind # "string" /\ r = v
  \/ kind = "string" /\ r = UpToZero(v)
  \/ kind = "string" /\ Len(v) = MAX_LENGTH /\ IsPrefix(v, r)

\* Every pointer handed out reads back as the value it was handed out for,
\* as long as the store is filled and in every file it ends up in: looking
\* for equal values, chunk borders and both ways of merging mix up nothing but
\* strings at the limit (MayRead).  A file holds as many bytes as its header
\* says, so that the pointers of an append merge are moved by the right amount
\* (AddValue, AddValueMerge, Write).
ReadsBack ==
  ~Overrun(hash_) =>
    /\ \A p \in handed : phase # "done" =>
         MayRead(p[1], ReadValue(M!Write(memory, values_buffer_size_), p[2]))
    /\ \A i \in DOMAIN files :
         /\ files[i].size = Len(files[i].bytes)
         /\ \A p \in files[i].pts : MayRead(p[1], ReadValue(files[i].bytes, p[2]))

\* No chunk was mapped behind the last appended byte, so that Persist can cut
\* the last file (memory_map_manager.h: GetBuffer, Persist, whose subtraction
\* is unsigned).
NoChunkBehindTail ==
  ~Overrun(hash_) /\ memory.chunks # <<>> => M!LastChunkSize(memory) \in 1 .. chunk_size_

\* As long as the cache dropped nothing no value is stored twice, but a string
\* whose length is not in its pointer (AddValue, RawPointerForCompare,
\* RawPointerForCompareString).
FoundAgain ==
  minimize_ /\ phase = "feed" /\ NothingLost(hash_) =>
    \A p, q \in handed : p[1] = q[1] /\ ~AtLimit(p[1]) => p = q

=============================================================================
