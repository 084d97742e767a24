-------------------------- MODULE MPMCQueueProofs ---------------------------
(***************************************************************************)
(* For any number of producers, consumers and values and any CHUNK_SIZE:   *)
(* the invariant of MPMCQueue, what follows from it for the accesses to    *)
(* chunks, and that MPMCQueue implements FifoQueue. After the structural   *)
(* invariant (MPMCQueueStepProofs) come its two other parts. A pop returns *)
(* the value pushed at the index it claimed: every step keeps ValueInv and *)
(* PendingInv, and is a step of FifoQueue or leaves the queue and the      *)
(* results of FifoQueue alone. And ref_count counts at least the pops that *)
(* hold a reference, so a chunk is not unlinked between the moment a pop   *)
(* counts its value as read and the moment it gives its reference back:    *)
(* every step keeps RefInv.                                                *)
(***************************************************************************)
EXTENDS MPMCQueueStepProofs

\* A step leaves the list of chunks and what the slots hold alone,
KeepsSlots == KeepsChunks /\ KeepsReady /\ KeepsValue
\* gives no push an index, another argument or a stored value,
FewerStored == \A q \in Producers :
  /\ Writing(q)' => Writing(q) /\ tail_idx'[q] = tail_idx[q] /\ sent'[q] = sent[q]
  /\ ppc'[q] = "publish" => ppc[q] = "publish" /\ write_chunk'[q] = write_chunk[q]
\* and leaves no more values to be taken.
FewerUntaken == \A i \in Nat : Untaken(i)' => Untaken(i)

\* What the slots hold of a push that has stored its value.
StoredInv == \A p \in Producers : ppc[p] = "publish" =>
  chunks[write_chunk[p]].slots[tail_idx[p] - Begin(write_chunk[p])].value = ArgOf(p)
\* What the ready slots hold.
HeldInv == \A k \in ChunkNums, o \in Offsets :
  chunks[k].slots[o].ready /\ Untaken(Begin(k) + o) =>
    chunks[k].slots[o].value = enqueued[Begin(k) + o + 1]
ArgInv == \A p \in Producers : Writing(p) => enqueued[tail_idx[p] + 1] = ArgOf(p)

\* The types that the indices of a slot have.
LEMMA SlotIndex ==
  ASSUME TypeOK, NEW k \in ChunkNums, NEW o \in Offsets
  PROVE  Begin(k) \in Nat /\ o \in Nat /\ Begin(k) + o \in Nat /\ InChunk(Begin(k) + o, k)
BY ChunkTypes, ChunkSizeAssumption DEF Offsets, InChunk

\* A slot is at one index.
LEMMA OneSlot ==
  ASSUME TypeOK, Geometry, NEW j \in ChunkNums, NEW i \in Offsets, NEW k \in ChunkNums,
         NEW o \in Offsets, Begin(j) + i = Begin(k) + o
  PROVE  j = k /\ i = o
<1>1. /\ Begin(j) \in Nat /\ i \in Nat /\ Begin(j) + i \in Nat /\ InChunk(Begin(j) + i, j)
      /\ Begin(k) \in Nat /\ o \in Nat /\ InChunk(Begin(k) + o, k)
  BY SlotIndex, Zenon
<1>2. j = k
  BY <1>1, OneChunk, Zenon
<1> QED BY <1>1, <1>2

\* A step that leaves the slots alone keeps what they hold.
LEMMA ValuesKept ==
  ASSUME SInv, ValueInv, KeepsSlots, FewerStored, FewerUntaken, UNCHANGED enqueued
  PROVE  ValueInv'
<1>g. ChunkNums' = ChunkNums /\ \A k \in ChunkNums : Begin(k)' = Begin(k)
  BY BeginKept, Zenon DEF KeepsSlots
<1>1. ArgInv'
  BY Zenon DEF ArgInv, ArgOf, FewerStored, ValueInv
<1>2. StoredInv'
  <2> SUFFICES ASSUME NEW p \in Producers, ppc'[p] = "publish"
               PROVE  chunks'[write_chunk'[p]].slots[tail_idx'[p] - Begin(write_chunk[p])'].value
                        = ArgOf(p)'
    BY Zenon DEF StoredInv
  <2>1. /\ ppc[p] = "publish" /\ write_chunk'[p] = write_chunk[p]
        /\ tail_idx'[p] = tail_idx[p] /\ ArgOf(p)' = ArgOf(p)
    BY Zenon DEF FewerStored, Writing, ArgOf
  <2>2. write_chunk[p] \in ChunkNums /\ tail_idx[p] - Begin(write_chunk[p]) \in Offsets
    BY <2>1, PushSlot, Zenon
  <2>3. chunks[write_chunk[p]].slots[tail_idx[p] - Begin(write_chunk[p])].value = ArgOf(p)
    BY <2>1, Zenon DEF ValueInv
  <2> QED BY <1>g, <2>1, <2>2, <2>3, Zenon DEF KeepsSlots, KeepsValue
<1>3. HeldInv'
  <2> SUFFICES ASSUME NEW k \in ChunkNums, NEW o \in Offsets,
                      chunks'[k].slots[o].ready, Untaken(Begin(k) + o)'
               PROVE  chunks'[k].slots[o].value = enqueued'[Begin(k)' + o + 1]
    BY <1>g, Zenon DEF HeldInv
  <2>1. Begin(k)' = Begin(k) /\ Begin(k) + o \in Nat
    BY <1>g, SlotIndex, Zenon DEF SInv
  <2>2. Untaken(Begin(k) + o)
    BY <2>1, Zenon DEF FewerUntaken, Untaken
  <2> QED BY <2>1, <2>2, Zenon DEF KeepsSlots, KeepsReady, KeepsValue, ValueInv
<1> QED BY <1>1, <1>2, <1>3, Zenon DEF ValueInv, ArgInv, StoredInv, HeldInv

\* The steps of push other than the CAS of tail_index_ (inl.h:7), the CAS of tail_chunk_
\* (inl.h:13), the store of the value and its publication (inl.h:27-28) touch no value.
PushQuiet(p) ==
  \/ LoadTailChunk(p) \/ LoadTailIndex(p) \/ CasTailIndexFails(p) \/ CheckFull(p)
  \/ CasTailChunkFails(p) \/ LinkChunk(p) \/ WriteWalk(p)
LEMMA PushQuietKeeps ==
  ASSUME SInv, NEW p \in Producers, PushQuiet(p)
  PROVE  KeepsSlots /\ FewerStored /\ UNCHANGED <<queue_vars, cvars>>
<1>1. UNCHANGED <<queue_vars, cvars, sent>> /\ (LinkChunk(p) \/ UNCHANGED chunks)
  BY Zenon DEF PushQuiet, LoadTailChunk, LoadTailIndex, CasTailIndexFails, CheckFull,
         CasTailChunkFails, LinkChunk, WriteWalk, shared, queue_vars
<1>2. KeepsSlots
  <2>1. CASE UNCHANGED chunks
    BY <2>1, ChunksUnchanged, Zenon DEF SInv, KeepsSlots, KeepsAll
  <2>2. CASE LinkChunk(p)
    <3>1. tail_chunk[p] \in ChunkNums /\ chunks' = [chunks EXCEPT ![tail_chunk[p]].next = TRUE]
      BY <2>2, LocalsTyped, Zenon DEF SInv, PushTyped, LinkChunk
    <3> QED BY <3>1, NextSet, Zenon DEF SInv, KeepsSlots
  <2> QED BY <1>1, <2>1, <2>2, Zenon
<1>3. PushTyped
  BY LocalsTyped, Zenon DEF SInv
<1>4. FewerStored
  <2>1. CASE LoadTailChunk(p) \/ LoadTailIndex(p) \/ CasTailIndexFails(p)
    BY Zenon, <1>1, <1>3, <2>1 DEF LoadTailChunk, LoadTailIndex, CasTailIndexFails, AtP, GoP,
                            PushTyped, FewerStored, Writing
  <2>2. CASE CheckFull(p) \/ CasTailChunkFails(p) \/ LinkChunk(p)
    BY Zenon, <1>1, <1>3, <2>2 DEF CheckFull, CasTailChunkFails, LinkChunk, AtP, GoP,
                            PushTyped, FewerStored, Writing
  <2>3. CASE WriteWalk(p)
    BY <1>1, <1>3, <2>3, Zenon DEF WriteWalk, AtP, GoP, PushTyped, FewerStored, Writing
  <2> QED BY <2>1, <2>2, <2>3, Zenon DEF PushQuiet
<1> QED BY <1>1, <1>2, <1>4, Zenon

\* The steps of pop other than the one that takes the value (inl.h:66-68) touch no value: the CAS
\* of head_index_ (inl.h:55) claims an index whose value is not taken.
PopQuiet(c) ==
  \/ LoadHeadIndex(c) \/ CheckReadCount(c) \/ CheckRefCount(c) \/ CheckNext(c)
  \/ CasHeadChunk(c) \/ CasHeadChunkFails(c) \/ DeleteChunk(c) \/ RefChunk(c)
  \/ CasHeadIndexFails(c) \/ ReadWalk(c) \/ UnrefChunk(c) \/ CountRead(c) \/ FinishPop(c)
LEMMA PopQuietKeeps ==
  ASSUME SInv, NEW c \in Consumers, PopQuiet(c)
  PROVE  /\ KeepsSlots /\ UNCHANGED <<pvars, enqueued, head_index_, tail_index_, value>>
         /\ \A d \in Consumers : /\ Taking(d)' <=> Taking(d)
                                 /\ Taking(d) => head_idx'[d] = head_idx[d]
<1>1. /\ UNCHANGED <<pvars, enqueued, head_index_, tail_index_, value>>
      /\ \/ RefChunk(c) \/ UnrefChunk(c) \/ CountRead(c) \/ FinishPop(c) \/ DeleteChunk(c)
         \/ UNCHANGED chunks
  BY Zenon DEF PopQuiet, LoadHeadIndex, CheckReadCount, CheckRefCount, CheckNext, CasHeadChunk,
         CasHeadChunkFails, DeleteChunk, RefChunk, CasHeadIndexFails, ReadWalk, UnrefChunk,
         CountRead, FinishPop, shared
<1>2. PopTyped
  BY LocalsTyped, Zenon DEF SInv
<1>3. KeepsSlots
  <2>1. CASE UNCHANGED chunks
    BY <2>1, ChunksUnchanged, Zenon DEF SInv, KeepsSlots, KeepsAll
  <2>2. CASE RefChunk(c) \/ UnrefChunk(c) \/ FinishPop(c)
    <3>1. /\ head_chunk[c] \in ChunkNums
          /\ \/ chunks' = [chunks EXCEPT ![head_chunk[c]].ref_count = @ + 1]
             \/ chunks' = [chunks EXCEPT ![head_chunk[c]].ref_count = @ - 1]
      BY <1>2, <2>2, Zenon DEF PopTyped, RefChunk, UnrefChunk, FinishPop
    <3> QED BY <3>1, RefCounted, Zenon DEF SInv, KeepsSlots, KeepsAll
  <2>3. CASE CountRead(c)
    <3>1. read_chunk[c] \in ChunkNums /\ chunks' = [chunks EXCEPT ![read_chunk[c]].read_count = @ + 1]
      BY <1>2, <2>3, Zenon DEF PopTyped, CountRead
    <3> QED BY <3>1, CountSet, Zenon DEF SInv, KeepsSlots
  <2>4. CASE DeleteChunk(c)
    <3>1. head_chunk[c] \in ChunkNums /\ chunks' = [chunks EXCEPT ![head_chunk[c]].deleted = TRUE]
      BY <1>2, <2>4, Zenon DEF PopTyped, DeleteChunk
    <3> QED BY <3>1, DeletedSet, Zenon DEF SInv, KeepsSlots
  <2> QED BY <1>1, <2>1, <2>2, <2>3, <2>4, Zenon
<1>4. ASSUME NEW d \in Consumers
      PROVE  (Taking(d)' <=> Taking(d)) /\ (Taking(d) => head_idx'[d] = head_idx[d])
  <2>1. CASE LoadHeadIndex(c)
    BY <1>2, <2>1, Zenon DEF LoadHeadIndex, AtC, GoC, PopTyped, Taking
  <2>2. CASE ReadWalk(c)
    BY <1>2, <2>2, Zenon DEF ReadWalk, AtC, GoC, PopTyped, Taking
  <2>3. CASE CheckReadCount(c) \/ CheckRefCount(c) \/ CheckNext(c) \/ CasHeadIndexFails(c)
    BY Zenon, <1>2, <2>3 DEF CheckReadCount, CheckRefCount, CheckNext, CasHeadIndexFails, AtC, GoC,
                      PopTyped, Taking
  <2>4. CASE CasHeadChunk(c) \/ CasHeadChunkFails(c) \/ DeleteChunk(c) \/ RefChunk(c)
    BY Zenon, <1>2, <2>4 DEF CasHeadChunk, CasHeadChunkFails, DeleteChunk, RefChunk, AtC, GoC,
                      PopTyped, Taking
  <2>5. CASE UnrefChunk(c) \/ CountRead(c) \/ FinishPop(c)
    BY <1>2, <2>5, Zenon DEF UnrefChunk, CountRead, FinishPop, AtC, GoC, PopTyped, Taking
  <2> QED BY <2>1, <2>2, <2>3, <2>4, <2>5, Zenon DEF PopQuiet
<1> QED BY <1>1, <1>3, <1>4, Zenon

\* The CAS of tail_index_ (inl.h:7) appends the argument of push at the claimed index.
LEMMA CasTailIndexValues ==
  ASSUME SInv, ValueInv, NEW p \in Producers, CasTailIndex(p)
  PROVE  ValueInv'
<1> PICK n \in Nat : n = tail_index_
  BY Zenon DEF SInv, TypeOK
<1>1. /\ UNCHANGED <<head_index_, chunks, tail_idx, sent, cvars>>
      /\ ppc' = [ppc EXCEPT ![p] = "full"] /\ write_chunk' = [write_chunk EXCEPT ![p] = tail_chunk[p]]
      /\ enqueued' = Append(enqueued, ArgOf(p)) /\ tail_idx[p] = n /\ ppc[p] = "cas_tail_index"
  BY Zenon DEF CasTailIndex, AtP, GoP
<1>2. /\ enqueued \in Seq(Values) /\ Len(enqueued) = n /\ PushTyped
      /\ ArgOf(p) \in Values /\ UNCHANGED <<ArgOf(p)>>
  BY <1>1, LocalsTyped, ArgInValues, Zenon DEF SInv, TypeOK, Indices, ArgOf
<1>3. enqueued'[n + 1] = ArgOf(p) /\ \A i \in 1 .. n : enqueued'[i] = enqueued[i]
  BY <1>1, <1>2
<1>4. ArgInv'
  <2> SUFFICES ASSUME NEW q \in Producers, Writing(q)' PROVE enqueued'[tail_idx'[q] + 1] = ArgOf(q)'
    BY Zenon DEF ArgInv
  <2>1. CASE q = p
    BY <1>1, <1>2, <1>3, <2>1, Zenon
  <2>2. CASE q # p
    <3>1. Writing(q) /\ tail_idx[q] \in Nat
      BY <1>1, <1>2, <2>2, Zenon DEF Writing, PushTyped
    <3>2. tail_idx[q] < n /\ enqueued[tail_idx[q] + 1] = ArgOf(q)
      BY <3>1, Zenon DEF SInv, Indices, ValueInv
    <3>3. tail_idx[q] + 1 \in 1 .. n
      BY <3>1, <3>2
    <3>4. enqueued'[tail_idx[q] + 1] = ArgOf(q)
      BY <1>3, <3>2, <3>3, Zenon
    <3> QED BY <1>1, <3>4, Zenon DEF ArgOf
  <2> QED BY <2>1, <2>2, Zenon
<1>5. StoredInv'
  BY <1>1, <1>2, Zenon DEF StoredInv, ValueInv, PushTyped, ArgOf, Begin
<1>6. HeldInv'
  <2> SUFFICES ASSUME NEW k \in ChunkNums, NEW o \in Offsets, chunks[k].slots[o].ready,
                      Untaken(Begin(k) + o)
               PROVE  chunks[k].slots[o].value = enqueued'[Begin(k) + o + 1]
    BY <1>1, Zenon DEF HeldInv, Untaken, Taking, Begin, ChunkNums, cvars
  <2>1. Begin(k) + o \in Nat /\ Begin(k) + o < n
    BY SlotIndex, Zenon DEF SInv, ReadyInv
  <2>2. chunks[k].slots[o].value = enqueued[Begin(k) + o + 1]
    BY Zenon DEF ValueInv
  <2>3. Begin(k) + o + 1 \in 1 .. n
    BY <2>1
  <2> QED BY <1>3, <2>2, <2>3, Zenon
<1> QED BY <1>4, <1>5, <1>6, Zenon DEF ValueInv, ArgInv, StoredInv, HeldInv

\* A new chunk (inl.h:12-13) has no ready slot.
LEMMA CasTailChunkValues ==
  ASSUME SInv, ValueInv, NEW p \in Producers, CasTailChunk(p)
  PROVE  ValueInv'
<1> PICK n \in Nat : n = Len(chunks)
  BY ChunkCount, Zenon DEF SInv
<1>n. n >= 1 /\ ChunkNums = 1 .. n /\ chunks \in Seq(Chunk) /\ n \in ChunkNums
  BY ChunkCount DEF SInv, ChunkNums, TypeOK
<1>a. tail_chunk[p] = n
  BY Zenon DEF CasTailChunk, SInv, Geometry
<1>b. Begin(n) \in Nat /\ CHUNK_SIZE \in Nat
  BY <1>n, ChunkTypes, ChunkSizeAssumption, Zenon DEF SInv
<1> PICK b \in Nat : b = Begin(n) + CHUNK_SIZE
  BY <1>b
<1>1. /\ UNCHANGED <<head_index_, enqueued, tail_idx, write_chunk, sent, cvars>>
      /\ ppc' = [ppc EXCEPT ![p] = "link"] /\ ppc[p] = "cas_tail_chunk"
      /\ chunks' = Append(chunks, NewChunk(b))
  BY <1>a, Zenon DEF CasTailChunk, AtP, GoP
<1>2. NewChunk(b) \in Chunk /\ \A o \in Offsets : ~NewChunk(b).slots[o].ready
  BY NewChunkTyped, Zenon DEF NewChunk
<1>3. /\ Len(chunks') = n + 1 /\ chunks'[n + 1] = NewChunk(b)
      /\ \A k \in ChunkNums : chunks'[k] = chunks[k]
  BY <1>n, <1>1, <1>2
<1>4. ChunkNums' = ChunkNums \cup {n + 1} /\ \A k \in ChunkNums : Begin(k)' = Begin(k)
  BY <1>n, <1>3 DEF ChunkNums, Begin
<1>5. \A q \in Producers : /\ Writing(q)' => Writing(q)
                           /\ ppc'[q] = "publish" => ppc[q] = "publish" /\ write_chunk[q] \in ChunkNums
  BY <1>1, LocalsTyped, Zenon DEF SInv, PushTyped, Writing
<1>6. ArgInv'
  BY <1>1, <1>5, Zenon DEF ArgInv, ValueInv, ArgOf
<1>7. StoredInv'
  BY <1>1, <1>3, <1>4, <1>5, Zenon DEF StoredInv, ValueInv, ArgOf
<1>8. HeldInv'
  <2> SUFFICES ASSUME NEW k \in ChunkNums', NEW o \in Offsets, chunks'[k].slots[o].ready,
                      Untaken(Begin(k) + o)'
               PROVE  chunks'[k].slots[o].value = enqueued'[Begin(k)' + o + 1]
    BY Zenon DEF HeldInv
  <2>1. k \in ChunkNums
    BY <1>2, <1>3, <1>4, Zenon
  <2>2. Untaken(Begin(k) + o)
    BY <1>1, <1>4, <2>1, Zenon DEF Untaken, Taking, cvars
  <2>3. chunks[k].slots[o].value = enqueued[Begin(k) + o + 1]
    BY <1>3, <2>1, <2>2, Zenon DEF ValueInv
  <2> QED BY <1>1, <1>3, <1>4, <2>1, <2>3, Zenon
<1> QED BY <1>6, <1>7, <1>8, Zenon DEF ValueInv, ArgInv, StoredInv, HeldInv

\* The value is stored (inl.h:27) in a slot that is not ready.
LEMMA StoreValueValues ==
  ASSUME SInv, ValueInv, NEW p \in Producers, StoreValue(p)
  PROVE  ValueInv'
<1> PICK k \in ChunkNums : k = write_chunk[p]
  BY LocalsTyped, Zenon DEF SInv, PushTyped
<1>0. ppc[p] = "store" /\ Writing(p)
  BY Zenon DEF StoreValue, AtP, Writing
<1> PICK o \in Offsets : o = tail_idx[p] - Begin(k)
  BY <1>0, PushSlot, Zenon
<1> PICK v : v = ArgOf(p)
  BY Zenon
<1>1. /\ UNCHANGED <<head_index_, enqueued, tail_idx, write_chunk, sent, cvars>>
      /\ ppc' = [ppc EXCEPT ![p] = "publish"]
  BY Zenon DEF StoreValue, GoP
<1>t. PushTyped /\ chunks[k].slots[o] \in Slot /\ Begin(k) \in Nat
  BY <1>0, PushSlot, ChunkTypes, LocalsTyped, Zenon DEF SInv
<1>2. Begin(k) + o = tail_idx[p]
  BY <1>t DEF PushTyped
<1>3. SlotUpdated(k, o, [chunks[k].slots[o] EXCEPT !.value = v])
  BY StoreWrites, Zenon
<1>4. /\ chunks'[k].slots[o].value = v /\ KeepsChunks
      /\ \A j \in ChunkNums, i \in Offsets : j # k \/ i # o => chunks'[j].slots[i] = chunks[j].slots[i]
      /\ chunks'[k].slots[o].ready = chunks[k].slots[o].ready
  BY <1>t, <1>3, Zenon DEF SlotUpdated, Slot
<1>5. ChunkNums' = ChunkNums /\ \A j \in ChunkNums : Begin(j)' = Begin(j)
  BY <1>4, BeginKept, Zenon
<1>6. ~chunks[k].slots[o].ready
  BY <1>0, <1>2, Zenon DEF SInv, ReadyInv
<1>7. ArgInv'
  BY <1>0, <1>1, <1>t, Zenon DEF PushTyped, ArgInv, ValueInv, ArgOf, Writing
<1>8. StoredInv'
  <2> SUFFICES ASSUME NEW q \in Producers, ppc'[q] = "publish"
               PROVE  chunks'[write_chunk'[q]].slots[tail_idx'[q] - Begin(write_chunk[q])'].value
                        = ArgOf(q)'
    BY Zenon DEF StoredInv
  <2>1. CASE q = p
    BY <1>1, <1>4, <1>5, <2>1, Zenon DEF ArgOf
  <2>2. CASE q # p
    <3>1. ppc[q] = "publish" /\ Writing(q)
      BY <1>1, <1>t, <2>2, Zenon DEF Writing, PushTyped
    <3> PICK j \in ChunkNums : j = write_chunk[q]
      BY LocalsTyped, Zenon DEF SInv, PushTyped
    <3> PICK i \in Offsets : i = tail_idx[q] - Begin(j)
      BY <3>1, PushSlot, Zenon
    <3>2. tail_idx[q] # tail_idx[p]
      BY <1>0, <2>2, <3>1, Zenon DEF SInv, Indices
    <3>3. Begin(j) + i = tail_idx[q]
      BY LocalsTyped, SlotIndex DEF SInv, PushTyped
    <3>4. j # k \/ i # o
      BY <1>2, <3>2, <3>3, Zenon
    <3>5. chunks[j].slots[i].value = ArgOf(q)
      BY <3>1, Zenon DEF ValueInv
    <3>6. chunks'[j].slots[i].value = ArgOf(q) /\ UNCHANGED ArgOf(q) /\ Begin(j)' = Begin(j)
      BY <1>1, <1>4, <1>5, <3>4, <3>5, Zenon DEF ArgOf
    <3> QED BY <1>1, <3>6, Zenon
  <2> QED BY <2>1, <2>2, Zenon
<1>9. HeldInv'
  <2> SUFFICES ASSUME NEW j \in ChunkNums, NEW i \in Offsets, chunks'[j].slots[i].ready,
                      Untaken(Begin(j) + i)'
               PROVE  chunks'[j].slots[i].value = enqueued'[Begin(j)' + i + 1]
    BY <1>5, Zenon DEF HeldInv
  <2>1. j # k \/ i # o
    BY <1>4, <1>6, Zenon
  <2>2. chunks'[j].slots[i] = chunks[j].slots[i]
    BY <1>4, <2>1, Zenon
  <2>3. Untaken(Begin(j) + i)
    BY <1>1, <1>5, Zenon DEF Untaken, Taking, cvars
  <2>4. chunks[j].slots[i].value = enqueued[Begin(j) + i + 1]
    BY <2>2, <2>3, Zenon DEF ValueInv
  <2> QED BY <1>1, <1>5, <2>2, <2>4, Zenon
<1> QED BY <1>7, <1>8, <1>9, Zenon DEF ValueInv, ArgInv, StoredInv, HeldInv

\* The slot made ready (inl.h:28) holds the argument of push, which is enqueued at its index.
LEMMA PublishValues ==
  ASSUME SInv, ValueInv, NEW p \in Producers, Publish(p)
  PROVE  ValueInv'
<1> PICK k \in ChunkNums : k = write_chunk[p]
  BY LocalsTyped, Zenon DEF SInv, PushTyped
<1>0. ppc[p] = "publish" /\ Writing(p)
  BY Zenon DEF Publish, AtP, Writing
<1> PICK o \in Offsets : o = tail_idx[p] - Begin(k)
  BY <1>0, PushSlot, Zenon
<1>1. /\ UNCHANGED <<head_index_, enqueued, tail_idx, write_chunk, cvars>>
      /\ ppc' = [ppc EXCEPT ![p] = "tail_chunk"] /\ sent' = [sent EXCEPT ![p] = @ + 1]
  BY Zenon DEF Publish, GoP
<1>t. PushTyped /\ chunks[k].slots[o] \in Slot /\ Begin(k) \in Nat
  BY <1>0, PushSlot, ChunkTypes, LocalsTyped, Zenon DEF SInv
<1>2. Begin(k) + o = tail_idx[p]
  BY <1>t DEF PushTyped
<1>3. SlotUpdated(k, o, [chunks[k].slots[o] EXCEPT !.ready = TRUE])
  BY PublishWrites, Zenon
<1>4. /\ chunks'[k].slots[o].value = chunks[k].slots[o].value /\ KeepsChunks
      /\ \A j \in ChunkNums, i \in Offsets : j # k \/ i # o => chunks'[j].slots[i] = chunks[j].slots[i]
  BY <1>t, <1>3, Zenon DEF SlotUpdated, Slot
<1>5. ChunkNums' = ChunkNums /\ \A j \in ChunkNums : Begin(j)' = Begin(j)
  BY <1>4, BeginKept, Zenon
<1>6. chunks[k].slots[o].value = enqueued[Begin(k) + o + 1]
  BY <1>0, <1>2, Zenon DEF ValueInv
<1>7. \A q \in Producers : Writing(q)' => q # p /\ Writing(q) /\ UNCHANGED ArgOf(q)
  BY <1>1, <1>t, Zenon DEF Writing, ArgOf, PushTyped
<1>8. ArgInv'
  BY <1>1, <1>7, Zenon DEF ArgInv, ValueInv
<1>9. KeepsValue
  BY <1>4, Zenon DEF KeepsValue
<1>10. StoredInv'
  <2> SUFFICES ASSUME NEW q \in Producers, ppc'[q] = "publish"
               PROVE  chunks'[write_chunk'[q]].slots[tail_idx'[q] - Begin(write_chunk[q])'].value
                        = ArgOf(q)'
    BY Zenon DEF StoredInv
  <2>1. ppc[q] = "publish" /\ UNCHANGED ArgOf(q)
    BY <1>1, <1>t, <1>7, Zenon DEF PushTyped, Writing
  <2> PICK j \in ChunkNums : j = write_chunk[q]
    BY <1>t, Zenon DEF PushTyped
  <2> PICK i \in Offsets : i = tail_idx[q] - Begin(j)
    BY <2>1, PushSlot, Zenon
  <2>2. chunks[j].slots[i].value = ArgOf(q)
    BY <2>1, Zenon DEF ValueInv
  <2>3. chunks'[j].slots[i].value = ArgOf(q)
    BY <1>9, <2>2, Zenon DEF KeepsValue
  <2>4. write_chunk'[q] = j /\ tail_idx'[q] - Begin(write_chunk[q])' = i
    BY <1>1, <1>5, Zenon
  <2> QED BY <2>1, <2>3, <2>4, Zenon
<1>11. HeldInv'
  <2> SUFFICES ASSUME NEW j \in ChunkNums, NEW i \in Offsets, chunks'[j].slots[i].ready,
                      Untaken(Begin(j) + i)'
               PROVE  chunks'[j].slots[i].value = enqueued'[Begin(j)' + i + 1]
    BY <1>5, Zenon DEF HeldInv
  <2>1. CASE j = k /\ i = o
    BY <1>1, <1>4, <1>5, <1>6, <2>1, Zenon
  <2>2. CASE j # k \/ i # o
    <3>1. chunks'[j].slots[i] = chunks[j].slots[i]
      BY <1>4, <2>2, Zenon
    <3>2. Untaken(Begin(j) + i)
      BY <1>1, <1>5, Zenon DEF Untaken, Taking, cvars
    <3> QED BY <1>1, <1>5, <3>1, <3>2 DEF ValueInv
  <2> QED BY <2>1, <2>2, Zenon
<1> QED BY <1>8, <1>10, <1>11, Zenon DEF ValueInv, ArgInv, StoredInv, HeldInv

\* What pop moves out of the slot (inl.h:66-68) is the value enqueued at the index it claimed, and
\* nobody else waits for it.
LEMMA TakeValueValues ==
  ASSUME SInv, ValueInv, NEW c \in Consumers, TakeValue(c)
  PROVE  ValueInv' /\ value' = [value EXCEPT ![c] = enqueued[head_idx[c] + 1]]
<1> PICK k \in ChunkNums : k = read_chunk[c]
  BY LocalsTyped, Zenon DEF SInv, PopTyped
<1>0. cpc[c] = "take" /\ Taking(c) /\ Claiming(c)
  BY Zenon DEF TakeValue, AtC, Taking, Claiming
<1> PICK o \in Offsets : o = ReadOffset(c)
  BY <1>0, PopSlot, Zenon
<1>1. /\ UNCHANGED <<head_index_, enqueued, head_idx, pvars>> /\ cpc' = [cpc EXCEPT ![c] = "count"]
      /\ value' = [value EXCEPT ![c] = chunks[k].slots[o].value] /\ chunks[k].slots[o].ready
  BY Zenon DEF TakeValue, GoC
<1>2. chunks[k].slots[o] \in Slot /\ Begin(k) + o = head_idx[c] /\ head_idx[c] < head_index_
  BY <1>0, PopSlot, Zenon
<1>3. chunks[k].slots[o].value = enqueued[head_idx[c] + 1]
  <2>1. Untaken(Begin(k) + o)
    BY <1>0, <1>2, Zenon DEF Untaken
  <2> QED BY <1>1, <1>2, <2>1, Zenon DEF ValueInv
<1>4. SlotUpdated(k, o, [chunks[k].slots[o] EXCEPT !.value = Nothing])
  BY TakeWrites, Zenon
<1>5. /\ KeepsChunks /\ chunks'[k].slots[o].ready = chunks[k].slots[o].ready
      /\ \A j \in ChunkNums, i \in Offsets : j # k \/ i # o => chunks'[j].slots[i] = chunks[j].slots[i]
  BY <1>2, <1>4, Zenon DEF SlotUpdated, Slot
<1>6. ChunkNums' = ChunkNums /\ \A j \in ChunkNums : Begin(j)' = Begin(j)
  BY <1>5, BeginKept, Zenon
<1>7. ArgInv'
  BY <1>1, Zenon DEF ArgInv, ValueInv, Writing, ArgOf, pvars
<1>8. StoredInv'
  <2> SUFFICES ASSUME NEW q \in Producers, ppc'[q] = "publish"
               PROVE  chunks'[write_chunk'[q]].slots[tail_idx'[q] - Begin(write_chunk[q])'].value
                        = ArgOf(q)'
    BY Zenon DEF StoredInv
  <2>0. /\ ppc[q] = "publish" /\ write_chunk'[q] = write_chunk[q]
        /\ tail_idx'[q] = tail_idx[q] /\ ArgOf(q)' = ArgOf(q)
    BY <1>1, Zenon DEF ArgOf, pvars
  <2> PICK j \in ChunkNums : j = write_chunk[q]
    BY LocalsTyped, Zenon DEF SInv, PushTyped
  <2> PICK i \in Offsets : i = tail_idx[q] - Begin(j)
    BY <2>0, PushSlot, Zenon
  <2>1. Begin(j) + i = tail_idx[q] /\ Writing(q)
    BY <2>0, LocalsTyped, SlotIndex DEF SInv, PushTyped, Writing
  <2>2. j # k \/ i # o
    BY <1>1, <2>1, Zenon DEF SInv, ReadyInv
  <2>3. chunks[j].slots[i].value = ArgOf(q)
    BY <2>0, Zenon DEF ValueInv
  <2>4. Begin(write_chunk[q])' = Begin(j)
    BY <1>6, <2>0, Zenon DEF Begin
  <2> QED BY <1>5, <2>0, <2>2, <2>3, <2>4
<1>9. HeldInv'
  <2> SUFFICES ASSUME NEW j \in ChunkNums', NEW i \in Offsets, chunks'[j].slots[i].ready,
                      Untaken(Begin(j) + i)'
               PROVE  chunks'[j].slots[i].value = enqueued'[Begin(j)' + i + 1]
    BY Zenon DEF HeldInv
  <2>0. j \in ChunkNums /\ Begin(j)' = Begin(j) /\ enqueued' = enqueued
    BY <1>1, <1>6, Zenon
  <2>1. \A d \in Consumers : Taking(d)' => Taking(d) /\ d # c
    BY <1>1, LocalsTyped, Zenon DEF SInv, PopTyped, Taking
  <2>2. Untaken(Begin(j) + i)
    BY <1>1, <2>0, <2>1, Zenon DEF Untaken
  <2>3. Begin(j) + i # head_idx[c]
    <3>1. \A d \in Consumers : Taking(d)' => head_idx[d] # head_idx[c]
      BY <1>0, <2>1, Zenon DEF SInv, Indices, Taking, Claiming
    <3>2. head_idx[c] \in Nat /\ head_index_ \in Nat
      BY Zenon DEF SInv, TypeOK
    <3> QED BY <1>1, <1>2, <2>0, <3>1, <3>2 DEF Untaken
  <2>4. j # k \/ i # o
    BY <1>2, <2>3, Zenon
  <2>5. chunks'[j].slots[i] = chunks[j].slots[i]
    BY <1>5, <2>0, <2>4, Zenon
  <2>6. chunks[j].slots[i].value = enqueued[Begin(j) + i + 1]
    BY <2>0, <2>2, <2>5, Zenon DEF ValueInv
  <2> QED BY <2>0, <2>5, <2>6, Zenon
<1> QED BY <1>1, <1>3, <1>7, <1>8, <1>9, Zenon DEF ValueInv, ArgInv, StoredInv, HeldInv

\* The steps of push keep what the slots hold.
LEMMA PushValues ==
  ASSUME SInv, ValueInv, NEW p \in Producers, PushStep(p)
  PROVE  ValueInv'
<1>1. CASE PushQuiet(p)
  <2>1. FewerUntaken
    BY <1>1, PushQuietKeeps, Zenon DEF FewerUntaken, Untaken, Taking, queue_vars, cvars
  <2> QED BY <1>1, <2>1, PushQuietKeeps, ValuesKept, Zenon DEF queue_vars
<1> QED BY Zenon, <1>1, CasTailIndexValues, CasTailChunkValues, StoreValueValues, PublishValues
        DEF PushStep, PushQuiet

\* So do the steps of pop: the CAS of head_index_ (inl.h:55) claims an index that was not claimed.
LEMMA PopValues ==
  ASSUME SInv, ValueInv, NEW c \in Consumers, PopStep(c)
  PROVE  ValueInv'
<1>1. CASE PopQuiet(c)
  <2>1. FewerUntaken
    BY <1>1, PopQuietKeeps, Zenon DEF FewerUntaken, Untaken
  <2>2. FewerStored
    BY <1>1, PopQuietKeeps, Zenon DEF FewerStored, Writing, pvars
  <2> QED BY <1>1, <2>1, <2>2, PopQuietKeeps, ValuesKept, Zenon
<1>2. CASE LoadHeadChunk(c) \/ CheckEmpty(c) \/ CasHeadIndex(c)
  <2>1. UNCHANGED <<chunks, enqueued, pvars>>
    BY <1>2, Zenon DEF LoadHeadChunk, CheckEmpty, CasHeadIndex, shared
  <2>2. KeepsSlots /\ FewerStored
    BY <2>1, ChunksUnchanged, Zenon DEF SInv, KeepsSlots, KeepsAll, FewerStored, Writing, pvars
  <2>3. FewerUntaken
    <3>1. /\ head_index_ \in Nat /\ head_index_' \in Nat /\ head_index_ <= head_index_'
          /\ \A d \in Consumers : Taking(d)' =>
               \/ Taking(d) /\ head_idx'[d] = head_idx[d]
               \/ head_idx'[d] = head_index_
      <4>t. PopTyped /\ head_index_ \in Nat
        BY LocalsTyped, Zenon DEF SInv, TypeOK
      <4>1. CASE LoadHeadChunk(c)
        BY <4>t, <4>1 DEF PopTyped, LoadHeadChunk, shared, AtC, GoC, Taking
      <4>2. CASE CheckEmpty(c)
        BY <4>t, <4>2 DEF PopTyped, CheckEmpty, shared, AtC, GoC, Taking
      <4>3. CASE CasHeadIndex(c)
        BY <4>t, <4>3 DEF PopTyped, CasHeadIndex, AtC, GoC, Taking
      <4> QED BY <1>2, <4>1, <4>2, <4>3, Zenon
    <3> QED BY <3>1 DEF FewerUntaken, Untaken
  <2> QED BY <2>1, <2>2, <2>3, ValuesKept, Zenon
<1> QED BY <1>1, <1>2, TakeValueValues, Zenon DEF PopStep, PopQuiet

\* A call of pop has no outcome before it takes a value or finds the queue empty.
LEMMA PopPending ==
  ASSUME SInv, PendingInv, NEW c \in Consumers, PopStep(c)
  PROVE  PendingInv'
<1> USE DEF PendingInv, PopTyped, AtC, GoC
<1>t. PopTyped
  BY LocalsTyped, Zenon DEF SInv
<1>1. CASE LoadHeadChunk(c) \/ LoadHeadIndex(c) \/ CheckEmpty(c) \/ TakeValue(c)
  BY <1>t, <1>1, Zenon DEF LoadHeadChunk, LoadHeadIndex, CheckEmpty, TakeValue
<1>2. CASE CheckReadCount(c) \/ CheckRefCount(c) \/ CheckNext(c) \/ CasHeadIndexFails(c)
  BY <1>t, <1>2, Zenon DEF CheckReadCount, CheckRefCount, CheckNext, CasHeadIndexFails
<1>3. CASE CasHeadChunk(c) \/ CasHeadChunkFails(c) \/ DeleteChunk(c) \/ RefChunk(c)
  BY <1>t, <1>3, Zenon DEF CasHeadChunk, CasHeadChunkFails, DeleteChunk, RefChunk
<1>4. CASE CasHeadIndex(c) \/ ReadWalk(c) \/ UnrefChunk(c) \/ CountRead(c) \/ FinishPop(c)
  BY <1>t, <1>4, Zenon DEF CasHeadIndex, ReadWalk, UnrefChunk, CountRead, FinishPop
<1> QED BY <1>1, <1>2, <1>3, <1>4, Zenon DEF PopStep

\* The queue and the results of FifoQueue, as Fifo maps them.
FifoContents == SubSeq(enqueued, head_index_ + 1, tail_index_)
FifoResult == [c \in Consumers |->
                 IF cpc[c] \in {"walk", "unref", "take"}
                 THEN enqueued[head_idx[c] + 1] ELSE value[c]]

\* The steps of FifoQueue under that mapping.
FifoPush(v) == FifoContents' = Append(FifoContents, v) /\ UNCHANGED FifoResult
FifoCallPop(c) == FifoResult' = [FifoResult EXCEPT ![c] = Pending] /\ UNCHANGED FifoContents
FifoPop(c) == /\ FifoResult[c] = Pending /\ FifoContents # <<>>
              /\ FifoResult' = [FifoResult EXCEPT ![c] = Head(FifoContents)]
              /\ FifoContents' = Tail(FifoContents)
FifoPopEmpty(c) == /\ FifoResult[c] = Pending /\ FifoContents = <<>>
                   /\ FifoResult' = [FifoResult EXCEPT ![c] = Empty]
                   /\ UNCHANGED FifoContents

\* A step that leaves alone what is mapped.
LEMMA FifoStutters ==
  ASSUME UNCHANGED <<enqueued, head_index_, tail_index_, value>>,
         \A d \in Consumers : /\ Taking(d)' <=> Taking(d)
                              /\ Taking(d) => head_idx'[d] = head_idx[d]
  PROVE  UNCHANGED <<FifoContents, FifoResult>>
BY Zenon DEF FifoContents, FifoResult, Taking

\* What was enqueued keeps its index when a push appends its value (inl.h:7).
LEMMA AppendKeeps ==
  ASSUME NEW S, NEW s \in Seq(S), NEW v \in S
  PROVE  \A i \in 1 .. Len(s) : Append(s, v)[i] = s[i]
OBVIOUS

\* push takes effect when its CAS claims an index (inl.h:7).
LEMMA CasTailIndexPushes ==
  ASSUME SInv, NEW p \in Producers, CasTailIndex(p)
  PROVE  ArgOf(p) \in Values /\ FifoPush(ArgOf(p))
<1> PICK n \in Nat : n = tail_index_
  BY Zenon DEF SInv, TypeOK
<1> PICK h \in Nat : h = head_index_
  BY Zenon DEF SInv, TypeOK
<1>1. /\ UNCHANGED <<head_index_, cvars>> /\ tail_index_' = n + 1
      /\ enqueued' = Append(enqueued, ArgOf(p)) /\ ppc[p] = "cas_tail_index"
  BY Zenon DEF CasTailIndex, AtP
<1>2. enqueued \in Seq(Values) /\ Len(enqueued) = n /\ h <= n /\ ArgOf(p) \in Values
  BY <1>1, ArgInValues, Zenon DEF SInv, TypeOK, Indices
<1>3. FifoContents' = Append(FifoContents, ArgOf(p))
  BY <1>1, <1>2 DEF FifoContents
<1>4. UNCHANGED FifoResult
  <2>1. \A c \in Consumers : Taking(c) => head_idx[c] \in Nat /\ head_idx[c] + 1 \in 1 .. n
    BY <1>2 DEF SInv, TypeOK, Indices, Taking, Claiming
  <2>2. \A i \in 1 .. n : enqueued'[i] = enqueued[i]
    BY <1>1, <1>2, AppendKeeps, Zenon
  <2> QED BY <1>1, <2>1, <2>2, Zenon DEF FifoResult, Taking, cvars
<1> QED BY <1>2, <1>3, <1>4, Zenon DEF FifoPush

\* pop takes effect when its CAS claims an index (inl.h:55): the head of the queue is its value.
LEMMA CasHeadIndexPops ==
  ASSUME SInv, PendingInv, NEW c \in Consumers, CasHeadIndex(c)
  PROVE  FifoPop(c)
<1> PICK n \in Nat : n = tail_index_
  BY Zenon DEF SInv, TypeOK
<1> PICK h \in Nat : h = head_index_
  BY Zenon DEF SInv, TypeOK
<1>1. /\ UNCHANGED <<enqueued, tail_index_, head_idx, value>> /\ head_index_' = h + 1
      /\ cpc' = [cpc EXCEPT ![c] = "walk"] /\ cpc[c] = "cas_head_index" /\ head_idx[c] = h
  BY Zenon DEF CasHeadIndex, AtC, GoC
<1>2. enqueued \in Seq(Values) /\ Len(enqueued) = n /\ h < n /\ cpc \in [Consumers -> PopPC]
  BY <1>1, Zenon DEF SInv, TypeOK, Indices
<1>3. FifoContents # <<>> /\ Head(FifoContents) = enqueued[h + 1]
  BY <1>2 DEF FifoContents
<1>4. FifoContents' = Tail(FifoContents)
  BY <1>1, <1>2 DEF FifoContents
<1>5. FifoResult[c] = Pending
  BY <1>1, Zenon DEF FifoResult, PendingInv
<1>6. FifoResult' = [FifoResult EXCEPT ![c] = enqueued[h + 1]]
  BY <1>1, <1>2, Zenon DEF FifoResult
<1> QED BY <1>3, <1>4, <1>5, <1>6, Zenon DEF FifoPop

\* pop that returns false (inl.h:39-41) does so when head_index_ has reached tail_index_.
LEMMA CheckEmptyPops ==
  ASSUME SInv, PendingInv, NEW c \in Consumers, CheckEmpty(c)
  PROVE  FifoPopEmpty(c) \/ UNCHANGED <<FifoContents, FifoResult>>
<1>1. /\ UNCHANGED <<enqueued, head_index_, tail_index_, head_idx>> /\ cpc[c] = "empty"
      /\ cpc \in [Consumers -> PopPC] /\ value \in [Consumers -> Values \cup {Nothing, Pending, Empty}]
  BY Zenon DEF CheckEmpty, AtC, shared, SInv, TypeOK
<1>2. UNCHANGED FifoContents
  BY <1>1, Zenon DEF FifoContents
<1>3. CASE head_idx[c] = tail_index_
  <2>1. /\ head_index_ = tail_index_ /\ enqueued \in Seq(Values) /\ Len(enqueued) = tail_index_
        /\ tail_index_ \in Nat
    BY <1>1, <1>3 DEF SInv, TypeOK, Indices
  <2>2. FifoContents = <<>>
    BY <2>1 DEF FifoContents
  <2>3. cpc' = [cpc EXCEPT ![c] = "head_chunk"] /\ value' = [value EXCEPT ![c] = Empty]
    BY <1>3, Zenon DEF CheckEmpty, GoC
  <2>4. FifoResult[c] = Pending
    BY <1>1, Zenon DEF FifoResult, PendingInv
  <2>5. FifoResult' = [FifoResult EXCEPT ![c] = Empty]
    BY <1>1, <2>3, Zenon DEF FifoResult
  <2> QED BY <1>2, <2>2, <2>4, <2>5, Zenon DEF FifoPopEmpty
<1>4. CASE head_idx[c] # tail_index_
  <2>1. cpc' = [cpc EXCEPT ![c] = "read_count"] /\ UNCHANGED value
    BY <1>4, Zenon DEF CheckEmpty, GoC
  <2> QED BY <1>1, <1>2, <2>1, Zenon DEF FifoResult
<1> QED BY <1>3, <1>4, Zenon

\* A new call of pop (inl.h:35).
LEMMA LoadHeadChunkCalls ==
  ASSUME SInv, NEW c \in Consumers, LoadHeadChunk(c)
  PROVE  FifoCallPop(c)
<1>1. /\ UNCHANGED <<enqueued, head_index_, tail_index_, head_idx>> /\ cpc[c] = "head_chunk"
      /\ cpc' = [cpc EXCEPT ![c] = "head_index"] /\ value' = [value EXCEPT ![c] = Pending]
      /\ cpc \in [Consumers -> PopPC] /\ value \in [Consumers -> Values \cup {Nothing, Pending, Empty}]
  BY Zenon DEF LoadHeadChunk, AtC, GoC, shared, SInv, TypeOK
<1> QED BY <1>1, Zenon DEF FifoCallPop, FifoContents, FifoResult

\* Taking the value (inl.h:66-68) makes the result what it was to be.
LEMMA TakeValueStutters ==
  ASSUME SInv, ValueInv, NEW c \in Consumers, TakeValue(c)
  PROVE  UNCHANGED <<FifoContents, FifoResult>>
<1>1. value' = [value EXCEPT ![c] = enqueued[head_idx[c] + 1]]
  BY TakeValueValues, Zenon
<1>2. /\ UNCHANGED <<enqueued, head_index_, tail_index_, head_idx>> /\ cpc[c] = "take"
      /\ cpc' = [cpc EXCEPT ![c] = "count"]
      /\ cpc \in [Consumers -> PopPC] /\ value \in [Consumers -> Values \cup {Nothing, Pending, Empty}]
  BY Zenon DEF TakeValue, AtC, GoC, SInv, TypeOK
<1> QED BY <1>1, <1>2, Zenon DEF FifoContents, FifoResult

-----------------------------------------------------------------------------
(* The references that pops hold *)

KeepsRefCount == \A k \in ChunkNums : chunks'[k].ref_count = chunks[k].ref_count

\* No chunk has more references than before that no pop holds.
NoRefLost ==
  \A k \in ChunkNums :
    chunks'[k].ref_count - Cardinality(Holders(k)') = chunks[k].ref_count - Cardinality(Holders(k))

\* The pops that hold a reference on a chunk are finitely many.
LEMMA HoldersFinite ==
  ASSUME FiniteSetFacts PROVE \A k : IsFiniteSet(Holders(k)) /\ Cardinality(Holders(k)) \in Nat
<1>1. \A k : Holders(k) \subseteq Consumers
  BY Zenon DEF Holders
<1> QED BY <1>1, ConsumersAssumption, Zenon DEF FiniteSetFacts, SubsetCounted

\* A step that replaces a chunk by one with the same ref_count.
LEMMA RefCountKept ==
  ASSUME TypeOK, NEW k \in ChunkNums, NEW ch, chunks' = [chunks EXCEPT ![k] = ch],
         ch.ref_count = chunks[k].ref_count
  PROVE  KeepsRefCount /\ Len(chunks') = Len(chunks)
<1>1. chunks \in Seq(Chunk) /\ k \in 1 .. Len(chunks) /\ ChunkNums = 1 .. Len(chunks)
  BY Zenon DEF TypeOK, ChunkNums
<1> QED BY <1>1 DEF KeepsRefCount

\* A step after which the chunks have the references and the holders they had.
LEMMA RefsKept ==
  ASSUME KeepsRefCount, \A k \in ChunkNums : Holders(k)' = Holders(k) PROVE NoRefLost
BY Zenon DEF KeepsRefCount, NoRefLost

\* The steps of push change no reference, and the chunk they add has none.
LEMMA PushRefs ==
  ASSUME FiniteSetFacts, SInv, RefInv, NEW p \in Producers, PushStep(p)
  PROVE  RefInv' /\ NoRefLost
<1> USE DEF SInv
<1>t. PushTyped /\ PopTyped
  BY LocalsTyped, Zenon
<1>1. UNCHANGED <<cvars, head_chunk_>>
  BY Zenon DEF PushStep, LoadTailChunk, LoadTailIndex, CasTailIndex, CasTailIndexFails, CheckFull,
         CasTailChunk, CasTailChunkFails, LinkChunk, WriteWalk, StoreValue, Publish, shared
<1>2. \A k : Holders(k)' = Holders(k)
  BY <1>1, Zenon DEF Holders, Holding, cvars
<1>3. HolderInv'
  BY <1>1, Zenon DEF RefInv, HolderInv, cvars
<1>4. ASSUME ~CasTailChunk(p) PROVE KeepsRefCount /\ Len(chunks') = Len(chunks)
  <2>1. CASE UNCHANGED chunks
    BY <2>1, Zenon DEF KeepsRefCount
  <2>2. CASE LinkChunk(p)
    <3> DEFINE ch == [chunks[tail_chunk[p]] EXCEPT !.next = TRUE]
    <3>1. tail_chunk[p] \in ChunkNums /\ chunks' = [chunks EXCEPT ![tail_chunk[p]] = ch]
      BY <1>t, <2>2, Zenon DEF PushTyped, LinkChunk
    <3>2. ch.ref_count = chunks[tail_chunk[p]].ref_count
      BY <3>1, ChunkTypes, Zenon DEF Chunk
    <3> QED BY <3>1, <3>2, RefCountKept, Zenon
  <2>3. CASE StoreValue(p) \/ Publish(p)
    <3> PICK k \in ChunkNums : k = write_chunk[p]
      BY <1>t, Zenon DEF PushTyped
    <3>1. PICK ss : chunks' = [chunks EXCEPT ![k] = [chunks[k] EXCEPT !.slots = ss]]
      BY <2>3, Zenon DEF StoreValue, Publish
    <3>2. [chunks[k] EXCEPT !.slots = ss].ref_count = chunks[k].ref_count
      BY ChunkTypes, Zenon DEF Chunk
    <3> QED BY <3>1, <3>2, RefCountKept, Zenon
  <2> QED BY <1>4, <2>1, <2>2, <2>3, Zenon
      DEF PushStep, LoadTailChunk, LoadTailIndex, CasTailIndex, CasTailIndexFails, CheckFull,
          CasTailChunkFails, WriteWalk, shared
<1>5. CASE ~CasTailChunk(p)
  <2>1. RefInv'
    BY <1>2, <1>3, <1>4, <1>5, Zenon DEF RefInv, HoldInv, KeepsRefCount, ChunkNums
  <2>2. NoRefLost
    BY <1>2, <1>4, <1>5, RefsKept, Zenon
  <2> QED BY <2>1, <2>2, Zenon
<1>6. CASE CasTailChunk(p)
  <2> PICK n \in Nat : n = Len(chunks)
    BY ChunkCount, Zenon
  <2>1. ChunkNums = 1 .. n /\ chunks \in Seq(Chunk)
    BY Zenon DEF ChunkNums, TypeOK
  <2>2. PICK b : chunks' = Append(chunks, NewChunk(b))
    BY <1>6, Zenon DEF CasTailChunk
  <2>3. Len(chunks') = n + 1 /\ chunks'[n + 1] = NewChunk(b) /\ \A k \in 1 .. n : chunks'[k] = chunks[k]
    BY <2>1, <2>2
  <2>4. Holders(n + 1) = {}
    BY <1>t, <2>1 DEF PopTyped, Holders, Holding
  <2>5. chunks'[n + 1].ref_count >= Cardinality(Holders(n + 1))
    <3>1. chunks'[n + 1].ref_count = 0
      BY <2>3 DEF NewChunk
    <3>2. Cardinality(Holders(n + 1)) = 0
      BY <2>4, Zenon DEF FiniteSetFacts, EmptyCounted
    <3> QED BY <3>1, <3>2
  <2>6. ChunkNums' = (1 .. n) \cup {n + 1}
    BY <2>3 DEF ChunkNums
  <2>7. HoldInv'
    BY <1>2, <2>1, <2>3, <2>5, <2>6, Zenon DEF RefInv, HoldInv
  <2>8. KeepsRefCount
    BY <2>1, <2>3, Zenon DEF KeepsRefCount
  <2>9. NoRefLost
    BY <1>2, <2>8, RefsKept, Zenon
  <2> QED BY <1>3, <2>7, <2>9, Zenon DEF RefInv
<1> QED BY <1>5, <1>6, Zenon

\* A step of pop c that leaves the references alone: c holds none that it did not hold.
LEMMA HoldKept ==
  ASSUME FiniteSetFacts, TypeOK, HoldInv, KeepsRefCount, Len(chunks') = Len(chunks),
         \A d \in Consumers, k \in ChunkNums : Holding(d, k)' => Holding(d, k)
  PROVE  HoldInv'
<1> SUFFICES ASSUME NEW k \in ChunkNums PROVE chunks'[k].ref_count >= Cardinality(Holders(k)')
  BY Zenon DEF HoldInv, ChunkNums
<1>1. Holders(k)' \subseteq Holders(k)
  BY Zenon DEF Holders
<1>2. /\ Cardinality(Holders(k)') <= Cardinality(Holders(k)) /\ Cardinality(Holders(k)') \in Nat
      /\ Cardinality(Holders(k)) \in Nat
  BY <1>1, HoldersFinite, Zenon DEF FiniteSetFacts, SubsetCounted
<1>3. chunks[k].ref_count \in Int
  BY ChunkTypes, Zenon DEF Chunk
<1> QED BY <1>2, <1>3 DEF HoldInv, KeepsRefCount

\* The chunks' ref_count after an increment or a decrement of one of them (inl.h:53, 64, 71).
LEMMA RefCountSet ==
  ASSUME TypeOK, NEW k \in ChunkNums, NEW r \in Int, chunks' = [chunks EXCEPT ![k].ref_count = r]
  PROVE  /\ Len(chunks') = Len(chunks) /\ chunks'[k].ref_count = r
         /\ \A j \in ChunkNums \ {k} : chunks'[j] = chunks[j]
<1>1. chunks \in Seq(Chunk) /\ k \in 1 .. Len(chunks) /\ ChunkNums = 1 .. Len(chunks) /\ chunks[k] \in Chunk
  BY DEF TypeOK, ChunkNums
<1>2. [chunks[k] EXCEPT !.ref_count = r].ref_count = r
  BY <1>1, Zenon DEF Chunk
<1> QED BY <1>1, <1>2

\* A pop that refers to its chunk (inl.h:53) is one more holder of it.
LEMMA RefHolds ==
  ASSUME FiniteSetFacts, SInv, RefInv, NEW c \in Consumers, RefChunk(c)
  PROVE  HoldInv' /\ NoRefLost
<1> PICK k \in ChunkNums : k = head_chunk[c]
  BY LocalsTyped, Zenon DEF SInv, PopTyped
<1> PICK r \in Int : r = chunks[k].ref_count
  BY ChunkTypes, Zenon DEF SInv, Chunk
<1>1. /\ chunks' = [chunks EXCEPT ![k].ref_count = r + 1] /\ cpc' = [cpc EXCEPT ![c] = "cas_head_index"]
      /\ UNCHANGED <<head_chunk, read_chunk>> /\ cpc[c] = "ref" /\ cpc \in [Consumers -> PopPC]
  BY Zenon DEF RefChunk, AtC, GoC, SInv, TypeOK
<1>2. /\ Len(chunks') = Len(chunks) /\ chunks'[k].ref_count = r + 1
      /\ \A j \in ChunkNums \ {k} : chunks'[j] = chunks[j]
  <2>1. r + 1 \in Int
    OBVIOUS
  <2> QED BY <1>1, <2>1, RefCountSet, Zenon DEF SInv
<1>3. Holders(k)' = Holders(k) \cup {c} /\ c \notin Holders(k)
  BY <1>1, Zenon DEF Holders, Holding
<1>4. Cardinality(Holders(k)') = Cardinality(Holders(k)) + 1 /\ Cardinality(Holders(k)) \in Nat
  <2>1. IsFiniteSet(Holders(k)) /\ Cardinality(Holders(k)) \in Nat
    BY HoldersFinite, Zenon
  <2> QED BY <1>3, <2>1, Zenon DEF FiniteSetFacts, AddedCounted
<1>5. \A j \in ChunkNums \ {k} : Holders(j)' = Holders(j)
  BY <1>1, Zenon DEF Holders, Holding
<1>6. r + 1 >= Cardinality(Holders(k)')
  BY <1>4 DEF RefInv, HoldInv
<1>7. HoldInv'
  BY <1>2, <1>5, <1>6, Zenon DEF RefInv, HoldInv, ChunkNums
<1>8. chunks'[k].ref_count - Cardinality(Holders(k)') = chunks[k].ref_count - Cardinality(Holders(k))
  BY <1>2, <1>4
<1>9. NoRefLost
  BY <1>2, <1>5, <1>8, Zenon DEF NoRefLost
<1> QED BY <1>7, <1>9, Zenon

\* A pop that gives its reference back (inl.h:64, 71) was a holder and is none any more.
LEMMA UnrefHolds ==
  ASSUME FiniteSetFacts, SInv, RefInv, NEW c \in Consumers, UnrefChunk(c) \/ FinishPop(c)
  PROVE  HoldInv' /\ NoRefLost
<1> PICK k \in ChunkNums : k = head_chunk[c]
  BY LocalsTyped, Zenon DEF SInv, PopTyped
<1> PICK r \in Int : r = chunks[k].ref_count
  BY ChunkTypes, Zenon DEF SInv, Chunk
<1>0. chunks' = [chunks EXCEPT ![k].ref_count = r - 1]
  BY Zenon DEF UnrefChunk, FinishPop
<1>1. /\ UNCHANGED <<head_chunk, read_chunk>> /\ cpc \in [Consumers -> PopPC]
      /\ \/ cpc[c] = "unref" /\ cpc' = [cpc EXCEPT ![c] = "take"] /\ read_chunk[c] # head_chunk[c]
         \/ cpc[c] = "finish" /\ cpc' = [cpc EXCEPT ![c] = "head_chunk"]
  BY Zenon DEF UnrefChunk, FinishPop, AtC, GoC, SInv, TypeOK, RefInv, HolderInv
<1>2. /\ Len(chunks') = Len(chunks) /\ chunks'[k].ref_count = r - 1
      /\ \A j \in ChunkNums \ {k} : chunks'[j] = chunks[j]
  <2>1. r - 1 \in Int /\ TypeOK
    BY DEF SInv
  <2> QED BY <1>0, <2>1, RefCountSet, Zenon
<1>3. Holders(k)' = Holders(k) \ {c} /\ c \in Holders(k)
  BY <1>1, Zenon DEF Holders, Holding
<1>4. Cardinality(Holders(k)') = Cardinality(Holders(k)) - 1 /\ Cardinality(Holders(k)) \in Nat
  <2>1. IsFiniteSet(Holders(k)) /\ Cardinality(Holders(k)) \in Nat
    BY HoldersFinite, Zenon
  <2> QED BY <1>3, <2>1, Zenon DEF FiniteSetFacts, RemovedCounted
<1>5. \A j \in ChunkNums \ {k} : Holders(j)' = Holders(j)
  BY <1>1, Zenon DEF Holders, Holding
<1>6. r - 1 >= Cardinality(Holders(k)')
  BY <1>4 DEF RefInv, HoldInv
<1>7. HoldInv'
  BY <1>2, <1>5, <1>6, Zenon DEF RefInv, HoldInv, ChunkNums
<1>8. chunks'[k].ref_count - Cardinality(Holders(k)') = chunks[k].ref_count - Cardinality(Holders(k))
  BY <1>2, <1>4
<1>9. NoRefLost
  BY <1>2, <1>5, <1>8, Zenon DEF NoRefLost
<1> QED BY <1>7, <1>9, Zenon

\* A step of pop that neither takes a reference nor gives one back.
PopRefsAlone(c) == PopStep(c) /\ ~RefChunk(c) /\ ~UnrefChunk(c) /\ ~FinishPop(c)

\* Such a step leaves every ref_count alone.
LEMMA PopKeepsRefCount ==
  ASSUME SInv, NEW c \in Consumers, PopRefsAlone(c)
  PROVE  KeepsRefCount /\ Len(chunks') = Len(chunks)
<1>t. PopTyped
  BY LocalsTyped, Zenon DEF SInv
<1>1. CASE UNCHANGED chunks
  BY <1>1, Zenon DEF KeepsRefCount
<1>2. CASE DeleteChunk(c)
  <2> DEFINE ch == [chunks[head_chunk[c]] EXCEPT !.deleted = TRUE]
  <2>1. head_chunk[c] \in ChunkNums /\ chunks' = [chunks EXCEPT ![head_chunk[c]] = ch]
    BY <1>t, <1>2, Zenon DEF PopTyped, DeleteChunk
  <2>2. ch.ref_count = chunks[head_chunk[c]].ref_count
    BY <2>1, ChunkTypes, Zenon DEF SInv, Chunk
  <2> QED BY <2>1, <2>2, RefCountKept, Zenon DEF SInv
<1>3. CASE CountRead(c)
  <2> DEFINE ch == [chunks[read_chunk[c]] EXCEPT !.read_count = @ + 1]
  <2>1. read_chunk[c] \in ChunkNums /\ chunks' = [chunks EXCEPT ![read_chunk[c]] = ch]
    BY <1>t, <1>3, Zenon DEF PopTyped, CountRead
  <2>2. ch.ref_count = chunks[read_chunk[c]].ref_count
    BY <2>1, ChunkTypes, Zenon DEF SInv, Chunk
  <2> QED BY <2>1, <2>2, RefCountKept, Zenon DEF SInv
<1>4. CASE TakeValue(c)
  <2> PICK k \in ChunkNums : k = read_chunk[c]
    BY <1>t, Zenon DEF PopTyped
  <2>1. PICK ss : chunks' = [chunks EXCEPT ![k] = [chunks[k] EXCEPT !.slots = ss]]
    BY <1>4, Zenon DEF TakeValue
  <2>2. [chunks[k] EXCEPT !.slots = ss].ref_count = chunks[k].ref_count
    BY ChunkTypes, Zenon DEF SInv, Chunk
  <2> QED BY <2>1, <2>2, RefCountKept, Zenon DEF SInv
<1> QED BY <1>1, <1>2, <1>3, <1>4, Zenon
    DEF PopRefsAlone, PopStep, LoadHeadChunk, LoadHeadIndex, CheckEmpty, CheckReadCount, CheckRefCount,
        CheckNext, CasHeadChunk, CasHeadChunkFails, CasHeadIndex, CasHeadIndexFails, ReadWalk,
        shared

\* No pop becomes a holder by it, and none stops being one but by the CAS of head_index_ that fails.
LEMMA PopHoldersAlone ==
  ASSUME SInv, NEW c \in Consumers, PopRefsAlone(c), NEW d \in Consumers, NEW k \in ChunkNums
  PROVE  /\ Holding(d, k)' => Holding(d, k)
         /\ Holding(d, k) => Holding(d, k)' \/ CasHeadIndexFails(c)
<1>t. PopTyped
  BY LocalsTyped, Zenon DEF SInv
<1> USE <1>t DEF PopTyped, AtC, GoC, Holding
<1>1. CASE LoadHeadChunk(c) \/ LoadHeadIndex(c) \/ CheckEmpty(c) \/ TakeValue(c)
  <2>1. CASE LoadHeadChunk(c)
    BY <2>1, Zenon DEF LoadHeadChunk
  <2>2. CASE LoadHeadIndex(c)
    BY <2>2, Zenon DEF LoadHeadIndex
  <2>3. CASE CheckEmpty(c)
    BY <2>3, Zenon DEF CheckEmpty
  <2>4. CASE TakeValue(c)
    BY <2>4, Zenon DEF TakeValue
  <2> QED BY <1>1, <2>1, <2>2, <2>3, <2>4, Zenon
<1>2. CASE CheckReadCount(c) \/ CheckRefCount(c) \/ CheckNext(c) \/ CasHeadIndexFails(c)
  <2>1. CASE CheckReadCount(c)
    BY <2>1, Zenon DEF CheckReadCount
  <2>2. CASE CheckRefCount(c)
    BY <2>2, Zenon DEF CheckRefCount
  <2>3. CASE CheckNext(c)
    BY <2>3, Zenon DEF CheckNext
  <2>4. CASE CasHeadIndexFails(c)
    BY <2>4, Zenon DEF CasHeadIndexFails
  <2> QED BY <1>2, <2>1, <2>2, <2>3, <2>4, Zenon
<1>3. CASE CasHeadChunk(c) \/ CasHeadChunkFails(c) \/ DeleteChunk(c)
  <2>1. CASE CasHeadChunk(c)
    BY <2>1, Zenon DEF CasHeadChunk
  <2>2. CASE CasHeadChunkFails(c)
    BY <2>2, Zenon DEF CasHeadChunkFails
  <2>3. CASE DeleteChunk(c)
    BY <2>3, Zenon DEF DeleteChunk
  <2> QED BY <1>3, <2>1, <2>2, <2>3, Zenon
<1>4. CASE CasHeadIndex(c) \/ CountRead(c)
  <2>1. CASE CasHeadIndex(c)
    BY <2>1, Zenon DEF CasHeadIndex
  <2>2. CASE CountRead(c)
    BY <2>2, Zenon DEF CountRead
  <2> QED BY <1>4, <2>1, <2>2, Zenon
<1>5. CASE ReadWalk(c)
  BY <1>5, Zenon DEF ReadWalk
<1> QED BY <1>1, <1>2, <1>3, <1>4, <1>5, Zenon DEF PopRefsAlone, PopStep

\* The steps of pop keep the references of the holders.
LEMMA PopHolds ==
  ASSUME FiniteSetFacts, SInv, RefInv, NEW c \in Consumers, PopStep(c)
  PROVE  HoldInv'
<1>1. CASE RefChunk(c) \/ UnrefChunk(c) \/ FinishPop(c)
  BY <1>1, RefHolds, UnrefHolds, Zenon
<1>2. CASE PopRefsAlone(c)
  BY <1>2, PopKeepsRefCount, PopHoldersAlone, HoldKept, Zenon DEF SInv, RefInv
<1> QED BY <1>1, <1>2, Zenon DEF PopRefsAlone

\* All steps of pop but one leave no reference behind that nobody holds.
LEMMA PopRefs ==
  ASSUME FiniteSetFacts, SInv, RefInv, NEW c \in Consumers, PopStep(c), ~CasHeadIndexFails(c)
  PROVE  NoRefLost
<1>1. CASE RefChunk(c) \/ UnrefChunk(c) \/ FinishPop(c)
  BY <1>1, RefHolds, UnrefHolds, Zenon
<1>2. CASE PopRefsAlone(c)
  <2>1. \A k \in ChunkNums : Holders(k)' = Holders(k)
    BY <1>2, PopHoldersAlone, Zenon DEF Holders
  <2> QED BY <1>2, <2>1, PopKeepsRefCount, RefsKept, Zenon
<1> QED BY <1>1, <1>2, Zenon DEF PopRefsAlone

\* A pop about to unlink a chunk (inl.h:43) has seen no reference to it, so no other pop is to give
\* one back; and a pop that counts its value as read (inl.h:69) has kept the chunk in the list.
LEMMA PopHolders ==
  ASSUME FiniteSetFacts, SInv, RefInv, NEW c \in Consumers, PopStep(c)
  PROVE  HolderInv'
<1>t. PopTyped
  BY LocalsTyped, Zenon DEF SInv
<1>n. head_chunk_ \in Nat
  BY DEF SInv, TypeOK, ChunkNums
<1> USE <1>t, <1>n DEF PopTyped, AtC, GoC, RefInv, HolderInv
<1>1. CASE LoadHeadChunk(c) \/ LoadHeadIndex(c) \/ CheckEmpty(c) \/ TakeValue(c)
  <2>1. CASE LoadHeadChunk(c)
    BY <2>1, Zenon DEF LoadHeadChunk, shared
  <2>2. CASE LoadHeadIndex(c)
    BY <2>2, Zenon DEF LoadHeadIndex, shared
  <2>3. CASE CheckEmpty(c)
    BY <2>3 DEF CheckEmpty, shared
  <2>4. CASE TakeValue(c)
    BY <2>4, Zenon DEF TakeValue, shared
  <2> QED BY <1>1, <2>1, <2>2, <2>3, <2>4, Zenon
<1>2. CASE CheckReadCount(c) \/ CheckNext(c) \/ CasHeadIndexFails(c) \/ CasHeadChunkFails(c)
  <2>1. CASE CheckReadCount(c)
    BY <2>1, Zenon DEF CheckReadCount, shared
  <2>2. CASE CheckNext(c)
    BY <2>2 DEF CheckNext, shared
  <2>3. CASE CasHeadIndexFails(c)
    BY <2>3, Zenon DEF CasHeadIndexFails, shared
  <2>4. CASE CasHeadChunkFails(c)
    BY <2>4, Zenon DEF CasHeadChunkFails, shared
  <2> QED BY <1>2, <2>1, <2>2, <2>3, <2>4, Zenon
<1>3. CASE DeleteChunk(c) \/ RefChunk(c) \/ CasHeadIndex(c) \/ UnrefChunk(c) \/ FinishPop(c)
  <2>1. CASE DeleteChunk(c)
    BY <2>1, Zenon DEF DeleteChunk
  <2>2. CASE RefChunk(c)
    BY <2>2, Zenon DEF RefChunk
  <2>3. CASE CasHeadIndex(c)
    BY <2>3, Zenon DEF CasHeadIndex
  <2>4. CASE UnrefChunk(c)
    BY <2>4, Zenon DEF UnrefChunk
  <2>5. CASE FinishPop(c)
    BY <2>5, Zenon DEF FinishPop
  <2> QED BY <1>3, <2>1, <2>2, <2>3, <2>4, <2>5, Zenon
<1>4. CASE ReadWalk(c)
  BY <1>4 DEF ReadWalk, shared
<1>5. CASE CheckRefCount(c)
  <2>1. ASSUME NEW d \in Consumers, cpc[d] = "finish", head_chunk[d] = head_chunk[c],
               chunks[head_chunk[c]].ref_count = 0
        PROVE  FALSE
    <3> PICK k \in ChunkNums : k = head_chunk[c]
      BY Zenon
    <3>1. d \in Holders(k)
      BY <2>1, Zenon DEF Holders, Holding
    <3>2. Cardinality(Holders(k)) # 0 /\ Cardinality(Holders(k)) \in Nat
      BY <3>1, HoldersFinite, Zenon DEF FiniteSetFacts, EmptyCounted
    <3>3. chunks[k].ref_count >= Cardinality(Holders(k))
      BY Zenon DEF HoldInv
    <3>4. chunks[k].ref_count = 0
      BY <2>1, Zenon
    <3> QED BY <3>2, <3>3, <3>4
  <2>2. /\ UNCHANGED <<head_chunk, read_chunk, head_chunk_>> /\ cpc[c] = "ref_count"
        /\ \/ cpc' = [cpc EXCEPT ![c] = "ref"]
           \/ cpc' = [cpc EXCEPT ![c] = "next"] /\ chunks[head_chunk[c]].ref_count = 0
    BY <1>5, Zenon DEF CheckRefCount, shared
  <2> QED BY <2>1, <2>2, Zenon
<1>6. CASE CasHeadChunk(c)
  <2>1. /\ UNCHANGED <<head_chunk, read_chunk>> /\ head_chunk_' = head_chunk_ + 1
        /\ cpc' = [cpc EXCEPT ![c] = "delete"] /\ cpc[c] = "cas_head_chunk" /\ head_chunk_ = head_chunk[c]
    BY <1>6, Zenon DEF CasHeadChunk
  <2>2. ASSUME NEW d \in Consumers, cpc[d] = "finish" PROVE head_chunk_ + 1 <= head_chunk[d]
    <3>1. head_chunk_ <= head_chunk[d] /\ head_chunk[d] # head_chunk_
      BY <2>1, <2>2, Zenon
    <3>2. head_chunk[d] \in Nat
      BY DEF ChunkNums
    <3> QED BY <3>1, <3>2
  <2> QED BY <2>1, <2>2, Zenon
<1>7. CASE CountRead(c)
  <2>1. /\ UNCHANGED <<head_chunk, read_chunk, head_chunk_>> /\ cpc[c] = "count"
        /\ \/ cpc' = [cpc EXCEPT ![c] = "finish"] /\ read_chunk[c] = head_chunk[c]
           \/ cpc' = [cpc EXCEPT ![c] = "head_chunk"]
    BY <1>7, Zenon DEF CountRead
  <2> PICK k \in ChunkNums : k = read_chunk[c]
    BY Zenon
  <2>2. Claiming(c) /\ InChunk(head_idx[c], k)
    BY <2>1, Zenon DEF SInv, PopInv, Claiming
  <2>3. ~Drained(k)
    BY <2>2, Zenon DEF Drained
  <2>4. head_chunk_ <= k
    BY <2>3 DEF SInv, ReclaimInv, ChunkNums
  <2>5. ASSUME NEW d \in Consumers, cpc[d] \in {"next", "cas_head_chunk"} PROVE head_chunk[d] # k
    <3>1. chunks[head_chunk[d]].read_count = CHUNK_SIZE
      BY <2>5, Zenon DEF SInv, PopInv
    <3> QED BY <2>3, <3>1, FullDrained, Zenon
  <2> QED BY <2>1, <2>4, <2>5
<1> QED BY <1>1, <1>2, <1>3, <1>4, <1>5, <1>6, <1>7, Zenon DEF PopStep

-----------------------------------------------------------------------------
(* The theorems *)

INSTANCE FiniteSetTheorems

\* The facts about finite sets that the lemmas above take as a hypothesis.
LEMMA FactsHold == FiniteSetFacts
<1>1. EmptyCounted
  BY FS_EmptySet, Zenon DEF EmptyCounted
<1>2. IntervalCounted
  BY FS_Interval, Zenon DEF IntervalCounted
<1>3. SubsetCounted
  BY FS_Subset, FS_CardinalityType, Zenon DEF SubsetCounted
<1>4. AddedCounted
  BY FS_AddElement, Zenon DEF AddedCounted
<1>5. RemovedCounted
  BY FS_RemoveElement, Zenon DEF RemovedCounted
<1> QED BY <1>1, <1>2, <1>3, <1>4, <1>5, Zenon DEF FiniteSetFacts

\* The constructor (mpmc_queue.h:35-41) establishes the invariant.
LEMMA InitSInv == Init => SInv
<1> SUFFICES ASSUME Init PROVE SInv
  BY Zenon
<1>0. NewChunk(0) \in Chunk /\ chunks = <<NewChunk(0)>>
  BY NewChunkTyped, Zenon DEF Init
<1>1. /\ chunks \in Seq(Chunk) /\ Len(chunks) = 1 /\ chunks[1] = NewChunk(0) /\ ChunkNums = 1 .. 1
      /\ ChunkNums = {1}
  BY <1>0 DEF ChunkNums
<1>2. Begin(1) = 0 /\ ~chunks[1].next /\ ~chunks[1].deleted /\ chunks[1].read_count = 0
  BY <1>1 DEF Begin, NewChunk
<1>3. \A o \in Offsets : ~chunks[1].slots[o].ready /\ o \in Nat
  BY <1>1, ChunkSizeAssumption DEF NewChunk, Offsets
<1>4. TypeOK
  <2>1. /\ enqueued \in Seq(Values) /\ 1 \in 1 .. Len(chunks) /\ 0 \in Nat
        /\ value \in [Consumers -> Values \cup {Nothing, Pending, Empty}]
    BY <1>1 DEF Init
  <2>2. ppc \in [Producers -> PushPC] /\ cpc \in [Consumers -> PopPC]
    BY Zenon DEF Init, PushPC, PopPC
  <2> QED BY <1>1, <2>1, <2>2, Zenon DEF Init, TypeOK
<1>5. Geometry
  BY <1>1, <1>2 DEF Init, Geometry
<1>6. Indices /\ PushInv /\ LinkInv /\ PopInv
  BY <1>1, <1>2 DEF Init, Indices, PushInv, LinkInv, PopInv, Writing, Claiming
<1>7. ReclaimInv /\ WaitingInv
  BY <1>1, <1>2 DEF Init, ReclaimInv, WaitingInv
<1>8. ReadCountExact
  <2>1. ReadIndices(1) = {}
    BY <1>2, ChunkSizeAssumption DEF Init, ReadIndices
  <2> QED BY <1>1, <1>2, <2>1, FactsHold, Zenon DEF FiniteSetFacts, EmptyCounted, ReadCountExact
<1>9. ReadyInv
  BY <1>1, <1>2, <1>3 DEF Init, ReadyInv
<1> QED BY <1>4, <1>5, <1>6, <1>7, <1>8, <1>9, Zenon DEF SInv

\* A crash and a stuttering step keep it.
LEMMA QuietSInv == SInv /\ (Crash \/ UNCHANGED vars) => SInv'
<1> SUFFICES ASSUME SInv, Crash \/ UNCHANGED vars PROVE SInv'
  BY Zenon
<1>1. UNCHANGED queue_vars /\ UNCHANGED pvars /\ UNCHANGED cvars /\ KeepsAll
  BY ChunksUnchanged, Zenon DEF SInv, Crash, vars, shared, queue_vars
<1>2. FewerWriting
  BY <1>1, Zenon DEF FewerWriting, Writing, pvars
<1>3. PushTyped' /\ crashed' \in BOOLEAN
  <2>1. crashed' \in BOOLEAN
    BY Zenon DEF SInv, TypeOK, Crash, vars, shared
  <2> QED BY <1>1, <2>1, LocalsTyped, PushTypedKept, Zenon DEF SInv, KeepsAll
<1>4. PushInv' /\ LinkInv'
  BY <1>1, PushersKept, LinkersKept, Zenon DEF SInv, KeepsAll, queue_vars
<1> QED BY <1>1, <1>2, <1>3, <1>4, PushLocally, Zenon

\* Every step of push and pop keeps it.
LEMMA NextSInv == SInv /\ [Next]_vars => SInv'
<1>1. ASSUME SInv, NEW p \in Producers, PushStep(p) PROVE SInv'
  BY <1>1, FactsHold, LoadTailChunkKeeps, LoadTailIndexKeeps, CasTailIndexKeeps, CasTailIndexFailsKeeps,
     CheckFullKeeps, CasTailChunkKeeps, CasTailChunkFailsKeeps, LinkChunkKeeps, WriteWalkKeeps,
     StoreValueKeeps, PublishKeeps DEF PushStep
<1>2. ASSUME SInv, NEW c \in Consumers, PopStep(c) PROVE SInv'
  BY <1>2, FactsHold, LoadHeadChunkKeeps, LoadHeadIndexKeeps, CheckEmptyKeeps, CheckReadCountKeeps,
     CheckRefCountKeeps, CheckNextKeeps, CasHeadChunkKeeps, CasHeadChunkFailsKeeps,
     DeleteChunkKeeps, RefChunkKeeps, CasHeadIndexKeeps, CasHeadIndexFailsKeeps, ReadWalkKeeps,
     UnrefChunkKeeps, TakeValueKeeps, CountReadKeeps, FinishPopKeeps DEF PopStep
<1> QED BY <1>1, <1>2, QuietSInv, Zenon DEF Next

\* The values and the references in the first state.
LEMMA InitRest == Init => ValueInv /\ PendingInv /\ RefInv
<1> SUFFICES ASSUME Init PROVE ValueInv /\ PendingInv /\ RefInv
  BY Zenon
<1>1. chunks = <<NewChunk(0)>> /\ ChunkNums = {1} /\ chunks[1] = NewChunk(0)
  BY DEF Init, ChunkNums
<1>2. (\A o \in Offsets : ~NewChunk(0).slots[o].ready) /\ NewChunk(0).ref_count = 0
  BY Zenon DEF NewChunk
<1>3. ValueInv
  BY <1>1, <1>2, Zenon DEF Init, ValueInv, Writing
<1>4. PendingInv /\ HolderInv
  BY Zenon DEF Init, PendingInv, HolderInv
<1>5. HoldInv
  <2>1. Holders(1) = {}
    BY Zenon DEF Init, Holders, Holding
  <2>2. Cardinality(Holders(1)) = 0
    BY <2>1, FactsHold, Zenon DEF FiniteSetFacts, EmptyCounted
  <2> QED BY <1>1, <1>2, <2>2 DEF HoldInv
<1> QED BY <1>3, <1>4, <1>5, Zenon DEF RefInv

\* A crash and a stuttering step keep them.
LEMMA QuietRest ==
  ASSUME ValueInv, PendingInv, RefInv, Crash \/ UNCHANGED vars
  PROVE  ValueInv' /\ PendingInv' /\ RefInv'
<1>1. UNCHANGED <<head_chunk_, head_index_, chunks, enqueued, pvars, cvars>>
  BY Zenon DEF Crash, vars, shared
<1>2. ValueInv'
  BY <1>1, Zenon DEF ValueInv, Untaken, Taking, Writing, ArgOf, Begin, ChunkNums, pvars, cvars
<1>3. PendingInv' /\ HolderInv'
  BY <1>1, Zenon DEF PendingInv, RefInv, HolderInv, cvars
<1>4. HoldInv'
  BY <1>1, Zenon DEF RefInv, HoldInv, Holders, Holding, ChunkNums, cvars
<1> QED BY <1>2, <1>3, <1>4, Zenon DEF RefInv

\* Every step keeps the whole invariant.
LEMMA NextIInv == IInv /\ [Next]_vars => IInv'
<1> SUFFICES ASSUME IInv, [Next]_vars PROVE IInv'
  BY Zenon
<1>1. SInv'
  BY NextSInv, Zenon DEF IInv
<1>2. ASSUME NEW p \in Producers, PushStep(p) PROVE ValueInv' /\ PendingInv' /\ RefInv'
  <2>1. PendingInv'
    <3>1. UNCHANGED cvars
      BY <1>2, Zenon DEF PushStep, LoadTailChunk, LoadTailIndex, CasTailIndex, CasTailIndexFails,
                  CheckFull, CasTailChunk, CasTailChunkFails, LinkChunk, WriteWalk, StoreValue,
                  Publish
    <3> QED BY <3>1, Zenon DEF IInv, PendingInv, cvars
  <2> QED BY <1>2, <2>1, FactsHold, PushValues, PushRefs, Zenon DEF IInv
<1>3. ASSUME NEW c \in Consumers, PopStep(c) PROVE ValueInv' /\ PendingInv' /\ RefInv'
  BY <1>3, FactsHold, PopValues, PopPending, PopHolds, PopHolders, Zenon DEF IInv, RefInv
<1>4. ValueInv' /\ PendingInv' /\ RefInv'
  BY <1>2, <1>3, QuietRest, Zenon DEF IInv, Next
<1> QED BY <1>1, <1>4, Zenon DEF IInv

\* The invariant of the queue holds for any number of producers, consumers and values and any
\* CHUNK_SIZE: every index is claimed by one push and one pop, the slot of a claimed index is in
\* a chunk that is not deleted, and a pop waits for the value enqueued at its index.
THEOREM QueueInvariant == Spec => []IInv
<1>1. Init => IInv
  BY InitSInv, InitRest, Zenon DEF IInv
<1> QED BY <1>1, NextIInv, PTL DEF Spec

\* read_count (inl.h:69) of every chunk is exactly the number of its indices that were popped.
THEOREM ReadCountIsExact == Spec => []ReadCountExact
<1>1. IInv => ReadCountExact
  BY Zenon DEF IInv, SInv
<1> QED BY <1>1, QueueInvariant, PTL

\* Every index of a drained chunk was read.
LEMMA DrainedRead ==
  ASSUME SInv, NEW k \in ChunkNums, Drained(k)
  PROVE  ReadIndices(k) = Begin(k) .. Begin(k) + CHUNK_SIZE - 1
<1>1. Begin(k) \in Nat /\ CHUNK_SIZE \in Nat /\ head_index_ \in Nat
  BY ChunkTypes, ChunkSizeAssumption, Zenon DEF SInv, TypeOK
<1>2. Begin(k) + CHUNK_SIZE <= head_index_ /\ \A c \in Consumers : Claiming(c) => ~InChunk(head_idx[c], k)
  BY Zenon DEF Drained
<1>3. ASSUME NEW i \in Begin(k) .. Begin(k) + CHUNK_SIZE - 1
      PROVE  i < head_index_ /\ \A c \in Consumers : ~Reading(c, i)
  <2>1. i < head_index_ /\ InChunk(i, k)
    BY <1>1, <1>2 DEF InChunk
  <2> QED BY <1>2, <2>1, Zenon DEF Reading, Claiming
<1> QED BY <1>3, Zenon DEF ReadIndices

\* pop deletes a chunk (inl.h:48) only when every value in it was taken out and its successor is
\* linked.
THEOREM DeletesOnlyDrained == Spec => []DeletedOnlyWhenDrained
<1>1. SInv => DeletedOnlyWhenDrained
  BY DrainedRead, Zenon DEF SInv, ReclaimInv, DeletedOnlyWhenDrained, ChunkNums
<1>2. IInv => SInv
  BY Zenon DEF IInv
<1> QED BY <1>1, <1>2, QueueInvariant, PTL

\* No push and no pop has a claimed index in a deleted chunk, and its successor is linked.
LEMMA DeletedNotClaimed ==
  ASSUME SInv, NEW k \in ChunkNums, chunks[k].deleted
  PROVE  /\ chunks[k].next
         /\ \A c \in Consumers : Claiming(c) => ~InChunk(head_idx[c], k)
         /\ \A p \in Producers : Writing(p) => ~InChunk(tail_idx[p], k)
<1>1. Drained(k) /\ chunks[k].next
  BY Zenon DEF SInv, ReclaimInv
<1>2. \A c \in Consumers : Claiming(c) => ~InChunk(head_idx[c], k)
  BY <1>1, Zenon DEF Drained
<1>3. ASSUME NEW p \in Producers, Writing(p), InChunk(tail_idx[p], k) PROVE FALSE
  <2>1. /\ Begin(k) \in Nat /\ tail_idx[p] \in Nat /\ CHUNK_SIZE \in Nat /\ head_index_ \in Nat
        /\ Begin(k) + CHUNK_SIZE <= head_index_
    BY <1>1, ChunkTypes, ChunkSizeAssumption, Zenon DEF SInv, TypeOK, Drained
  <2> DEFINE o == tail_idx[p] - Begin(k)
  <2>2. o \in Offsets /\ Begin(k) + o = tail_idx[p] /\ tail_idx[p] < head_index_
    BY <2>1, <1>3 DEF InChunk, Offsets
  <2> HIDE DEF o
  <2>3. \A c \in Consumers : Taking(c) => head_idx[c] # Begin(k) + o
    BY <1>2, <1>3, <2>2, Zenon DEF Taking, Claiming
  <2>4. chunks[k].slots[o].ready
    BY <2>2, <2>3 DEF SInv, ReadyInv
  <2> QED BY <1>3, <2>2, <2>4 DEF SInv, ReadyInv
<1> QED BY <1>1, <1>2, <1>3, Zenon

\* push fills and publishes a slot (inl.h:26-28), push links a chunk (inl.h:17) and pop takes and
\* counts a value (inl.h:66-69) only in a chunk that is not deleted.
THEOREM SlotsAccessedSafely == Spec => []SlotAccessSafe
<1>1. ASSUME SInv PROVE SlotAccessSafe
  <2>1. ASSUME NEW p \in Producers, ppc[p] \in {"store", "publish"}
        PROVE  ~chunks[write_chunk[p]].deleted
    <3>1. write_chunk[p] \in ChunkNums /\ InChunk(tail_idx[p], write_chunk[p]) /\ Writing(p)
      BY <1>1, <2>1 DEF SInv, TypeOK, PushInv, ChunkNums, Writing
    <3> QED BY <1>1, <3>1, DeletedNotClaimed, Zenon
  <2>2. ASSUME NEW p \in Producers, ppc[p] = "link" PROVE ~chunks[tail_chunk[p]].deleted
    <3>1. tail_chunk[p] \in ChunkNums /\ ~chunks[tail_chunk[p]].next
      BY <1>1, <2>2, Zenon DEF SInv, TypeOK, LinkInv, ChunkNums
    <3> QED BY <1>1, <3>1, DeletedNotClaimed, Zenon
  <2>3. ASSUME NEW c \in Consumers, cpc[c] \in {"take", "count"}
        PROVE  ~chunks[read_chunk[c]].deleted
    <3>1. read_chunk[c] \in ChunkNums /\ InChunk(head_idx[c], read_chunk[c]) /\ Claiming(c)
      BY <1>1, <2>3 DEF SInv, TypeOK, PopInv, ChunkNums, Claiming
    <3> QED BY <1>1, <3>1, DeletedNotClaimed, Zenon
  <2> QED BY <2>1, <2>2, <2>3, Zenon DEF SlotAccessSafe
<1>2. IInv => SlotAccessSafe
  BY <1>1, Zenon DEF IInv
<1> QED BY <1>2, QueueInvariant, PTL

\* When pop gives its reference on a chunk back (inl.h:70-72), after it has counted its value as
\* read, the chunk is not deleted.
THEOREM ReleasesSafely == Spec => []ReleaseSafe
<1>1. ASSUME IInv PROVE ReleaseSafe
  <2> SUFFICES ASSUME NEW c \in Consumers, cpc[c] = "finish", chunks[head_chunk[c]].deleted
               PROVE  FALSE
    BY Zenon DEF ReleaseSafe
  <2>1. head_chunk[c] \in ChunkNums /\ head_chunk[c] \in Nat /\ head_chunk_ \in Nat
    BY <1>1 DEF IInv, SInv, TypeOK, ChunkNums
  <2>2. head_chunk[c] < head_chunk_
    BY <1>1, <2>1, Zenon DEF IInv, SInv, ReclaimInv
  <2>3. head_chunk_ <= head_chunk[c]
    BY <1>1, Zenon DEF IInv, RefInv, HolderInv
  <2> QED BY <2>1, <2>2, <2>3
<1> QED BY <1>1, QueueInvariant, PTL

\* A reference that a pop has taken on a chunk (inl.h:53) is given back on every way out of pop but
\* the one where the CAS of head_index_ fails (inl.h:55).
THEOREM RefsReturned == Spec => RefsGivenBack
<1>1. ASSUME IInv, [Next]_vars, \A c \in Consumers : ~CasHeadIndexFails(c) PROVE NoRefLost
  <2>1. FiniteSetFacts /\ SInv /\ RefInv
    BY <1>1, FactsHold, Zenon DEF IInv
  <2>2. CASE Crash \/ UNCHANGED vars
    <3>1. UNCHANGED <<chunks, cvars>>
      BY <2>2, Zenon DEF Crash, vars, shared
    <3> QED BY <3>1, Zenon DEF NoRefLost, Holders, Holding, cvars
  <2> QED BY <1>1, <2>1, <2>2, PushRefs, PopRefs, Zenon DEF Next
<1>2. ASSUME NEW k \in ChunkNums, IInv, NoRefLost
      PROVE  ~(chunks'[k].ref_count - Cardinality(Holders(k)')
                 > chunks[k].ref_count - Cardinality(Holders(k)))
  <2>1. PICK n \in Int : n = chunks[k].ref_count - Cardinality(Holders(k))
    <3>1. chunks[k].ref_count \in Int /\ Cardinality(Holders(k)) \in Nat
      BY <1>2, ChunkTypes, HoldersFinite, FactsHold, Zenon DEF IInv, SInv, Chunk
    <3> QED BY <3>1
  <2>2. chunks'[k].ref_count - Cardinality(Holders(k)') = n
    BY <1>2, <2>1, Zenon DEF NoRefLost
  <2>3. ~(n > n)
    OBVIOUS
  <2> QED BY <2>1, <2>2, <2>3, Zenon
<1>3. IInv /\ [Next]_vars =>
        [\A k \in ChunkNums :
           chunks'[k].ref_count - Cardinality(Holders(k)') > chunks[k].ref_count - Cardinality(Holders(k))
             => \E c \in Consumers : CasHeadIndexFails(c)]_vars
  BY <1>1, <1>2, Zenon
<1> QED BY <1>3, QueueInvariant, PTL DEF Spec, RefsGivenBack

\* Every step of the queue is a step of FifoQueue or changes nothing of it.
LEMMA FifoSteps ==
  ASSUME IInv, [Next]_vars
  PROVE  \/ \E v \in Values : FifoPush(v)
         \/ \E c \in Consumers : FifoCallPop(c) \/ FifoPop(c) \/ FifoPopEmpty(c)
         \/ UNCHANGED <<FifoContents, FifoResult>>
<1> USE DEF IInv
<1>1. ASSUME NEW p \in Producers, PushStep(p)
      PROVE  (\E v \in Values : FifoPush(v)) \/ UNCHANGED <<FifoContents, FifoResult>>
  <2>1. CASE CasTailIndex(p)
    BY <2>1, CasTailIndexPushes, Zenon
  <2>2. CASE ~CasTailIndex(p)
    <3>1. UNCHANGED <<enqueued, head_index_, tail_index_, cvars>>
      BY <1>1, <2>2, Zenon DEF PushStep, LoadTailChunk, LoadTailIndex, CasTailIndexFails, CheckFull,
           CasTailChunk, CasTailChunkFails, LinkChunk, WriteWalk, StoreValue, Publish, shared
    <3> QED BY <3>1, FifoStutters, Zenon DEF Taking, cvars
  <2> QED BY <2>1, <2>2, Zenon
<1>2. ASSUME NEW c \in Consumers, PopStep(c)
      PROVE  \/ FifoCallPop(c) \/ FifoPop(c) \/ FifoPopEmpty(c)
             \/ UNCHANGED <<FifoContents, FifoResult>>
  <2>1. CASE PopQuiet(c)
    BY <2>1, PopQuietKeeps, FifoStutters, Zenon
  <2> QED BY Zenon, <1>2, <2>1, LoadHeadChunkCalls, CheckEmptyPops, CasHeadIndexPops, TakeValueStutters
      DEF PopStep, PopQuiet
<1>3. ASSUME Crash \/ UNCHANGED vars PROVE UNCHANGED <<FifoContents, FifoResult>>
  <2>1. UNCHANGED <<enqueued, head_index_, tail_index_, cvars>>
    BY <1>3, Zenon DEF Crash, vars, shared
  <2> QED BY <2>1, FifoStutters, Zenon DEF Taking, cvars
<1> QED BY <1>1, <1>2, <1>3, Zenon DEF Next

\* push and pop (inl.h:2-76) are linearizable for any number of threads: they implement an atomic
\* first-in first-out queue.
THEOREM QueueRefinesFifo == Spec => ImplementsFifo
<1>1. Init => Fifo!Init
  <2> SUFFICES ASSUME Init PROVE Fifo!Init
    BY Zenon
  <2>1. SubSeq(enqueued, head_index_ + 1, tail_index_) = <<>>
    BY DEF Init
  <2> QED BY <2>1, Zenon DEF Init, Fifo!Init
<1>2. IInv /\ [Next]_vars => [Fifo!Next]_Fifo!vars
  <2> SUFFICES ASSUME IInv, [Next]_vars PROVE [Fifo!Next]_Fifo!vars
    BY Zenon
  <2>1. ASSUME NEW v \in Values, FifoPush(v) PROVE Fifo!Push(v)
    BY <2>1, Zenon DEF FifoPush, Fifo!Push, FifoContents, FifoResult
  <2>2. ASSUME NEW c \in Consumers, FifoCallPop(c) PROVE Fifo!CallPop(c)
    BY <2>2, Zenon DEF FifoCallPop, Fifo!CallPop, FifoContents, FifoResult
  <2>3. ASSUME NEW c \in Consumers, FifoPop(c) PROVE Fifo!Pop(c)
    BY <2>3, Zenon DEF FifoPop, Fifo!Pop, FifoContents, FifoResult
  <2>4. ASSUME NEW c \in Consumers, FifoPopEmpty(c) PROVE Fifo!PopEmpty(c)
    BY <2>4, Zenon DEF FifoPopEmpty, Fifo!PopEmpty, FifoContents, FifoResult
  <2>5. ASSUME UNCHANGED <<FifoContents, FifoResult>> PROVE UNCHANGED Fifo!vars
    BY <2>5, Zenon DEF Fifo!vars, FifoContents, FifoResult
  <2> QED BY <2>1, <2>2, <2>3, <2>4, <2>5, FifoSteps, Zenon DEF Fifo!Next
<1> QED BY <1>1, <1>2, QueueInvariant, PTL DEF Spec, ImplementsFifo, Fifo!Spec
=============================================================================
