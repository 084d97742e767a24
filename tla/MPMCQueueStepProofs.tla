------------------------ MODULE MPMCQueueStepProofs -------------------------
(***************************************************************************)
(* Every step of push and of pop keeps the structural invariant of         *)
(* MPMCQueue.  The module begins with what the steps share: the parts of   *)
(* the invariant that a step keeps because of what it leaves alone (the    *)
(* lemmas named ...Kept), and what an update of one field of one chunk     *)
(* leaves alone.                                                           *)
(***************************************************************************)
EXTENDS MPMCQueueInv, FiniteSetFacts, TLAPS

\* What a step may leave as it is: the list of chunks, and each field of the chunks.
KeepsChunks ==
  /\ chunks' \in Seq(Chunk) /\ Len(chunks') = Len(chunks)
  /\ \A k \in ChunkNums : chunks'[k].begin_index = chunks[k].begin_index
KeepsNext == \A k \in ChunkNums : chunks'[k].next = chunks[k].next
KeepsReadCount == \A k \in ChunkNums : chunks'[k].read_count = chunks[k].read_count
KeepsDeleted == \A k \in ChunkNums : chunks'[k].deleted = chunks[k].deleted
KeepsReady == \A k \in ChunkNums, o \in Offsets : chunks'[k].slots[o].ready = chunks[k].slots[o].ready
KeepsValue == \A k \in ChunkNums, o \in Offsets : chunks'[k].slots[o].value = chunks[k].slots[o].value
KeepsAll == KeepsChunks /\ KeepsNext /\ KeepsReadCount /\ KeepsDeleted /\ KeepsReady

\* Pushes only give up claimed indices.
FewerWriting == \A q \in Producers : Writing(q)' => Writing(q) /\ tail_idx'[q] = tail_idx[q]
\* The pops claim the indices they claimed, and wait for the values they waited for.
SameClaiming == \A d \in Consumers : /\ Claiming(d)' <=> Claiming(d)
                                     /\ Claiming(d) => head_idx'[d] = head_idx[d]
SameClaims == SameClaiming /\ \A d \in Consumers : Taking(d)' <=> Taking(d)

\* The locals of push and of pop have their types.
PushTyped == /\ ppc \in [Producers -> PushPC] /\ sent \in [Producers -> Nat]
             /\ tail_idx \in [Producers -> Nat]
             /\ tail_chunk \in [Producers -> ChunkNums] /\ write_chunk \in [Producers -> ChunkNums]
PopTyped == /\ cpc \in [Consumers -> PopPC] /\ head_idx \in [Consumers -> Nat]
            /\ head_chunk \in [Consumers -> ChunkNums] /\ read_chunk \in [Consumers -> ChunkNums]
            /\ value \in [Consumers -> Values \cup {Nothing, Pending, Empty}]

queue_vars == <<head_chunk_, head_index_, tail_chunk_, tail_index_, enqueued>>

\* There is always at least one chunk (the constructor allocates it, mpmc_queue.h:35-41).
LEMMA ChunkCount == ASSUME TypeOK PROVE Len(chunks) \in Nat /\ Len(chunks) >= 1
<1>1. Len(chunks) \in Nat
  BY DEF TypeOK
<1> QED BY <1>1 DEF TypeOK

\* Every chunk in the list is a chunk and starts at a natural index.
LEMMA ChunkTypes == ASSUME TypeOK PROVE \A k \in ChunkNums : chunks[k] \in Chunk /\ Begin(k) \in Nat
<1>1. \A k \in ChunkNums : chunks[k] \in Chunk
  BY DEF TypeOK, ChunkNums
<1> QED BY <1>1, Zenon DEF Begin, Chunk

\* Chunks are neither added nor renumbered by a step that keeps them.
LEMMA BeginKept ==
  ASSUME KeepsChunks
  PROVE  ChunkNums' = ChunkNums /\ \A k \in ChunkNums : Begin(k)' = Begin(k)
BY Zenon DEF KeepsChunks, ChunkNums, Begin

\* The types of the locals are part of TypeOK.
LEMMA LocalsTyped == ASSUME TypeOK PROVE PushTyped /\ PopTyped
BY Zenon DEF TypeOK, PushTyped, PopTyped, ChunkNums

\* A step that keeps the members of the queue and the list of chunks is type correct if the locals
\* are.
LEMMA TypeKept ==
  ASSUME TypeOK, KeepsChunks, UNCHANGED queue_vars, crashed' \in BOOLEAN, PushTyped', PopTyped'
  PROVE  TypeOK'
<1>1. /\ chunks' \in Seq(Chunk) /\ 1 .. Len(chunks') = 1 .. Len(chunks) /\ ChunkNums' = 1 .. Len(chunks')
      /\ UNCHANGED <<head_chunk_, head_index_, tail_chunk_, tail_index_, enqueued>>
  BY Zenon DEF KeepsChunks, queue_vars, ChunkNums
<1> QED BY <1>1, Zenon DEF TypeOK, PushTyped, PopTyped

\* Locals that do not change keep their types.
LEMMA PushTypedKept == ASSUME PushTyped, KeepsChunks, UNCHANGED pvars PROVE PushTyped'
BY BeginKept, Zenon DEF PushTyped, pvars

\* The same for pop.
LEMMA PopTypedKept == ASSUME PopTyped, KeepsChunks, UNCHANGED cvars PROVE PopTyped'
BY BeginKept, Zenon DEF PopTyped, cvars

\* The chunk that next points to starts where this one ends.
LEMMA NextChunk ==
  ASSUME TypeOK, Geometry, NEW k \in ChunkNums, chunks[k].next
  PROVE  k + 1 \in ChunkNums /\ Begin(k + 1) = Begin(k) + CHUNK_SIZE
BY ChunkCount DEF Geometry, ChunkNums

\* head_index_ has reached the first chunk: the chunks before it are drained.
LEMMA HeadBegin ==
  ASSUME SInv PROVE Begin(head_chunk_) <= head_index_
<1>1. head_chunk_ \in ChunkNums /\ Begin(head_chunk_) \in Nat /\ head_index_ \in Nat
  BY ChunkTypes, Zenon DEF SInv, TypeOK, ChunkNums
<1>2. CASE head_chunk_ = 1
  BY <1>1, <1>2 DEF SInv, Geometry
<1>3. CASE head_chunk_ # 1
  <2>1. head_chunk_ - 1 \in ChunkNums /\ head_chunk_ = (head_chunk_ - 1) + 1
    BY <1>1, <1>3, ChunkCount DEF SInv, ChunkNums
  <2>2. Begin(head_chunk_) = Begin(head_chunk_ - 1) + CHUNK_SIZE
    BY <2>1, <1>1, Zenon DEF SInv, Geometry
  <2>3. Begin(head_chunk_ - 1) + CHUNK_SIZE <= head_index_
    BY <2>1, <1>1 DEF SInv, ReclaimInv, Drained, ChunkNums
  <2> QED BY <2>2, <2>3, Zenon
<1> QED BY <1>2, <1>3, Zenon

\* An index lies in one chunk.
LEMMA OneChunk ==
  ASSUME TypeOK, Geometry, NEW j \in ChunkNums, NEW k \in ChunkNums, NEW i \in Nat,
         InChunk(i, j), InChunk(i, k)
  PROVE  j = k
<1>1. Begin(j) \in Nat /\ Begin(k) \in Nat /\ CHUNK_SIZE \in Nat /\ j \in Nat /\ k \in Nat
  BY ChunkTypes, ChunkSizeAssumption DEF ChunkNums
<1>2. ~(j < k) /\ ~(k < j)
  BY <1>1 DEF Geometry, InChunk
<1> QED BY <1>1, <1>2

\* The chunks still cover consecutive ranges when tail_index_ only grows.
LEMMA GeometryKept ==
  ASSUME TypeOK, Geometry, KeepsChunks, KeepsNext, UNCHANGED tail_chunk_,
         tail_index_' \in Nat, tail_index_ <= tail_index_'
  PROVE  Geometry'
<1>1. ChunkNums' = ChunkNums /\ 1 \in ChunkNums
  BY BeginKept, ChunkCount DEF ChunkNums
<1>2. \A k \in ChunkNums : Begin(k)' = Begin(k) /\ Begin(k) \in Nat
  BY BeginKept, ChunkTypes, Zenon
<1>3. Begin(1)' = 0
  BY <1>1, <1>2, Zenon DEF Geometry, ChunkNums
<1>4. \A j, k \in ChunkNums' : j < k => Begin(j)' + CHUNK_SIZE <= Begin(k)'
  BY <1>1, <1>2 DEF Geometry
<1>5. \A j, k \in ChunkNums' : k = j + 1 => Begin(k)' = Begin(j)' + CHUNK_SIZE
  BY <1>1, <1>2 DEF Geometry
<1>6. \A k \in ChunkNums' : k > 1 => Begin(k)' < tail_index_'
  BY <1>1, <1>2 DEF Geometry, TypeOK
<1>7. \A k \in ChunkNums' : chunks'[k].next => k < Len(chunks')
  BY <1>1, <1>2, Zenon DEF Geometry, KeepsNext, KeepsChunks
<1> QED BY <1>3, <1>4, <1>5, <1>6, <1>7, Zenon DEF Geometry, KeepsChunks

\* No index is claimed twice when pushes only give up their claims.
LEMMA WritersIndicesKept ==
  ASSUME Indices, UNCHANGED queue_vars, FewerWriting, UNCHANGED cvars
  PROVE  Indices'
BY Zenon DEF Indices, FewerWriting, Claiming, queue_vars, cvars

\* Where the pushes are does not depend on the pops, nor on what the slots hold.
LEMMA PushersKept ==
  ASSUME TypeOK, PushInv, KeepsChunks, UNCHANGED pvars, UNCHANGED tail_index_
  PROVE  PushInv'
BY BeginKept, LocalsTyped, Zenon DEF PushTyped, PushInv, InChunk, pvars

\* Who links a chunk does not depend on the pops.
LEMMA LinkersKept ==
  ASSUME TypeOK, LinkInv, KeepsChunks, KeepsNext, UNCHANGED pvars
  PROVE  LinkInv'
BY LocalsTyped, Zenon DEF PushTyped, LinkInv, KeepsChunks, KeepsNext, pvars

\* Where the pops are does not depend on the pushes, nor on what the slots hold.
LEMMA PoppersKept ==
  ASSUME TypeOK, PopInv, KeepsChunks, KeepsNext, KeepsReadCount, UNCHANGED cvars,
         UNCHANGED head_chunk_, UNCHANGED head_index_
  PROVE  PopInv'
BY BeginKept, LocalsTyped, Zenon DEF PopTyped, PopInv, KeepsNext, KeepsReadCount, InChunk, cvars

\* The chunks before the first one stay drained while no index is claimed or given up.
LEMMA ReclaimedKept ==
  ASSUME TypeOK, ReclaimInv, KeepsChunks, KeepsNext, KeepsDeleted, SameClaiming,
         UNCHANGED head_chunk_, UNCHANGED head_index_
  PROVE  ReclaimInv'
BY BeginKept, Zenon DEF ReclaimInv, KeepsNext, KeepsDeleted, SameClaiming, InChunk, Drained

\* A step that keeps the claims of the pops keeps the set of indices read in every chunk.
LEMMA ReadIndicesKept ==
  ASSUME TypeOK, KeepsChunks, SameClaiming, UNCHANGED head_index_, NEW k \in ChunkNums
  PROVE  ReadIndices(k)' = ReadIndices(k)
<1>1. Begin(k)' = Begin(k) /\ head_index_' = head_index_
  BY BeginKept, Zenon
<1>2. \A c \in Consumers : \A i : Reading(c, i)' <=> Reading(c, i)
  BY Zenon DEF SameClaiming, Reading, Claiming
<1> QED BY <1>1, <1>2, Zenon DEF ReadIndices

\* So read_count stays exact when the step counts nothing.
LEMMA ReadCountKept ==
  ASSUME TypeOK, ReadCountExact, KeepsChunks, KeepsReadCount, SameClaiming, UNCHANGED head_index_
  PROVE  ReadCountExact'
BY ReadIndicesKept, Zenon DEF ReadCountExact, KeepsChunks, KeepsReadCount, ChunkNums

\* A claimed index past the last chunk is still waited for by the same pop.
LEMMA WaitingKept ==
  ASSUME TypeOK, WaitingInv, KeepsChunks, SameClaims, UNCHANGED head_index_
  PROVE  WaitingInv'
<1>1. Begin(Len(chunks))' = Begin(Len(chunks))
  BY BeginKept, ChunkCount DEF ChunkNums, KeepsChunks, Begin
<1>2. \A c \in Consumers : Taking(c) => Taking(c)' /\ head_idx'[c] = head_idx[c]
  BY Zenon DEF SameClaims, SameClaiming, Taking, Claiming
<1> QED BY <1>1, <1>2, Zenon DEF WaitingInv

\* The ready flags still say what was pushed and not yet taken.
LEMMA ReadyKept ==
  ASSUME TypeOK, ReadyInv, KeepsChunks, KeepsReady, SameClaims, FewerWriting,
         UNCHANGED head_index_, UNCHANGED tail_index_
  PROVE  ReadyInv'
<1> SUFFICES ASSUME NEW k \in ChunkNums, NEW o \in Offsets
             PROVE  /\ chunks'[k].slots[o].ready =>
                         /\ Begin(k)' + o < tail_index_'
                         /\ \A p \in Producers : Writing(p)' => tail_idx'[p] # Begin(k)' + o
                    /\ (/\ Begin(k)' + o < head_index_'
                        /\ \A c \in Consumers : Taking(c)' => head_idx'[c] # Begin(k)' + o)
                         => chunks'[k].slots[o].ready
  BY Zenon DEF ReadyInv, KeepsChunks, ChunkNums
<1>1. /\ Begin(k)' = Begin(k)
      /\ chunks'[k].slots[o].ready = chunks[k].slots[o].ready
  BY Zenon DEF KeepsChunks, KeepsReady, Begin
<1>2. \A c \in Consumers : Taking(c) => Taking(c)' /\ head_idx'[c] = head_idx[c]
  BY Zenon DEF SameClaims, SameClaiming, Taking, Claiming
<1> QED BY <1>1, <1>2 DEF ReadyInv, FewerWriting

\* A step of push that changes its own locals, or a value in a slot, keeps the invariant once it
\* is shown to keep where the pushes are.
LEMMA PushLocally ==
  ASSUME SInv, UNCHANGED queue_vars, UNCHANGED cvars, KeepsAll,
         FewerWriting, crashed' \in BOOLEAN, PushTyped', PushInv', LinkInv'
  PROVE  SInv'
<1>0. TypeOK'
  BY LocalsTyped, PopTypedKept, TypeKept, Zenon DEF SInv, KeepsAll
<1>t. tail_index_' \in Nat /\ tail_index_ <= tail_index_'
  BY DEF SInv, TypeOK, queue_vars
<1>1. SameClaims
  BY Zenon DEF SameClaims, SameClaiming, Claiming, Taking, cvars
<1>2. Geometry' /\ Indices'
  BY <1>t, GeometryKept, WritersIndicesKept, Zenon DEF SInv, KeepsAll, queue_vars
<1>3. PopInv' /\ ReclaimInv'
  BY <1>1, PoppersKept, ReclaimedKept, Zenon DEF SInv, KeepsAll, queue_vars, SameClaims
<1>4. ReadCountExact' /\ WaitingInv' /\ ReadyInv'
  BY <1>1, ReadCountKept, WaitingKept, ReadyKept, Zenon DEF SInv, KeepsAll, queue_vars, SameClaims
<1> QED BY <1>0, <1>2, <1>3, <1>4, Zenon DEF SInv

\* A step of pop that changes its own locals, or a reference count, keeps the invariant once it is
\* shown to keep where the pops are.
LEMMA PopLocally ==
  ASSUME SInv, UNCHANGED queue_vars, UNCHANGED pvars, KeepsAll,
         SameClaims, UNCHANGED crashed, PopTyped', Indices', PopInv'
  PROVE  SInv'
<1>0. TypeOK'
  <2>1. crashed' \in BOOLEAN
    BY Zenon DEF SInv, TypeOK
  <2> QED BY <2>1, LocalsTyped, PushTypedKept, TypeKept, Zenon DEF SInv, KeepsAll
<1>1. FewerWriting
  BY Zenon DEF FewerWriting, Writing, pvars
<1>2. Geometry' /\ PushInv' /\ LinkInv'
  <2>1. tail_index_' \in Nat /\ tail_index_ <= tail_index_'
    BY DEF SInv, TypeOK, queue_vars
  <2> QED BY <2>1, GeometryKept, PushersKept, LinkersKept, Zenon DEF SInv, KeepsAll, queue_vars
<1>3. ReclaimInv' /\ ReadCountExact'
  BY ReclaimedKept, ReadCountKept, Zenon DEF SInv, KeepsAll, queue_vars, SameClaims
<1>4. WaitingInv' /\ ReadyInv'
  BY <1>1, WaitingKept, ReadyKept, Zenon DEF SInv, KeepsAll, queue_vars
<1> QED BY <1>0, <1>2, <1>3, <1>4, Zenon DEF SInv

\* A step that leaves the chunks alone keeps every field of them.
LEMMA ChunksUnchanged == ASSUME TypeOK, UNCHANGED chunks PROVE KeepsAll /\ KeepsValue
BY Zenon
   DEF TypeOK, KeepsAll, KeepsChunks, KeepsNext, KeepsReadCount, KeepsDeleted, KeepsReady, KeepsValue

\* Replacing one chunk by another with the same begin_index.
LEMMA ChunkUpdated ==
  ASSUME TypeOK, NEW k \in ChunkNums, NEW ch \in Chunk, ch.begin_index = Begin(k),
         chunks' = [chunks EXCEPT ![k] = ch]
  PROVE  KeepsChunks /\ chunks'[k] = ch /\ \A j \in ChunkNums \ {k} : chunks'[j] = chunks[j]
<1>1. chunks \in Seq(Chunk) /\ k \in 1 .. Len(chunks)
  BY Zenon DEF TypeOK, ChunkNums
<1>2. /\ chunks' \in Seq(Chunk) /\ Len(chunks') = Len(chunks)
      /\ \A j \in 1 .. Len(chunks) : chunks'[j] = IF j = k THEN ch ELSE chunks[j]
  BY <1>1
<1> QED BY <1>2, Zenon DEF KeepsChunks, ChunkNums, Begin

\* ref_count (inl.h:53, 64, 71) is no part of the invariant of the slots.
LEMMA RefCounted ==
  ASSUME TypeOK, NEW k \in ChunkNums,
         \/ chunks' = [chunks EXCEPT ![k].ref_count = @ + 1]
         \/ chunks' = [chunks EXCEPT ![k].ref_count = @ - 1]
  PROVE  KeepsAll /\ KeepsValue
<1>1. chunks[k] \in Chunk
  BY ChunkTypes, Zenon
<1>2. ASSUME NEW r \in Int, chunks' = [chunks EXCEPT ![k].ref_count = r] PROVE KeepsAll /\ KeepsValue
  <2> DEFINE ch == [chunks[k] EXCEPT !.ref_count = r]
  <2>1. ch \in Chunk /\ ch.begin_index = Begin(k) /\ chunks' = [chunks EXCEPT ![k] = ch]
    BY <1>1, <1>2, Zenon DEF Chunk, Begin
  <2>2. KeepsChunks /\ chunks'[k] = ch /\ \A j \in ChunkNums \ {k} : chunks'[j] = chunks[j]
    BY <2>1, ChunkUpdated, Zenon
  <2>3. /\ ch.next = chunks[k].next /\ ch.read_count = chunks[k].read_count
        /\ ch.deleted = chunks[k].deleted /\ ch.slots = chunks[k].slots
    BY <1>1, Zenon DEF Chunk
  <2> QED BY <2>2, <2>3, Zenon DEF KeepsAll, KeepsNext, KeepsReadCount, KeepsDeleted, KeepsReady,
                             KeepsValue
<1>3. chunks[k].ref_count + 1 \in Int /\ chunks[k].ref_count - 1 \in Int
  BY <1>1 DEF Chunk
<1>4. \/ chunks' = [chunks EXCEPT ![k].ref_count = chunks[k].ref_count + 1]
      \/ chunks' = [chunks EXCEPT ![k].ref_count = chunks[k].ref_count - 1]
  BY Zenon
<1> QED BY <1>2, <1>3, <1>4, Zenon

\* sl replaces the slot at offset o of chunk k.
SlotUpdated(k, o, sl) ==
  /\ KeepsChunks /\ KeepsNext /\ KeepsReadCount /\ KeepsDeleted
  /\ chunks'[k].slots[o] = sl
  /\ \A j \in ChunkNums, i \in Offsets : j # k \/ i # o => chunks'[j].slots[i] = chunks[j].slots[i]

\* Replacing one slot of one chunk.
LEMMA SlotWritten ==
  ASSUME TypeOK, NEW k \in ChunkNums, NEW o \in Offsets, NEW sl \in Slot,
         chunks' = [chunks EXCEPT ![k].slots[o] = sl]
  PROVE  SlotUpdated(k, o, sl)
<1>1. chunks[k] \in Chunk
  BY ChunkTypes, Zenon
<1> DEFINE ss == [chunks[k].slots EXCEPT ![o] = sl]
<1> DEFINE ch == [chunks[k] EXCEPT !.slots = ss]
<1>2. /\ ss \in [Offsets -> Slot] /\ ss[o] = sl
      /\ \A i \in Offsets : i # o => ss[i] = chunks[k].slots[i]
  BY <1>1, Zenon DEF Chunk
<1>3. chunks' = [chunks EXCEPT ![k] = ch]
  BY Zenon
<1> HIDE DEF ss
<1>4. ch \in Chunk /\ ch.begin_index = Begin(k) /\ ch.slots = ss
  BY <1>1, <1>2, Zenon DEF Chunk, Begin
<1>5. ch.next = chunks[k].next /\ ch.read_count = chunks[k].read_count /\ ch.deleted = chunks[k].deleted
  BY <1>1, Zenon DEF Chunk
<1> HIDE DEF ch
<1>6. KeepsChunks /\ chunks'[k] = ch /\ \A j \in ChunkNums \ {k} : chunks'[j] = chunks[j]
  BY <1>3, <1>4, ChunkUpdated, Zenon
<1>7. KeepsNext /\ KeepsReadCount /\ KeepsDeleted
  BY <1>5, <1>6, Zenon DEF KeepsNext, KeepsReadCount, KeepsDeleted
<1>8. chunks'[k].slots[o] = sl
  BY <1>2, <1>4, <1>6, Zenon
<1>9. ASSUME NEW j \in ChunkNums, NEW i \in Offsets, j # k \/ i # o
      PROVE  chunks'[j].slots[i] = chunks[j].slots[i]
  BY <1>2, <1>4, <1>6, <1>9, Zenon
<1> QED BY <1>6, <1>7, <1>8, <1>9, Zenon DEF SlotUpdated

\* Storing next (inl.h:17) changes no other field.
LEMMA NextSet ==
  ASSUME TypeOK, NEW k \in ChunkNums, chunks' = [chunks EXCEPT ![k].next = TRUE]
  PROVE  /\ KeepsChunks /\ KeepsReadCount /\ KeepsDeleted /\ KeepsReady /\ KeepsValue
         /\ chunks'[k].next /\ \A j \in ChunkNums \ {k} : chunks'[j].next = chunks[j].next
<1>1. chunks[k] \in Chunk
  BY ChunkTypes, Zenon
<1> DEFINE ch == [chunks[k] EXCEPT !.next = TRUE]
<1>2. ch \in Chunk /\ ch.begin_index = Begin(k) /\ chunks' = [chunks EXCEPT ![k] = ch]
  BY <1>1, Zenon DEF Chunk, Begin
<1>3. KeepsChunks /\ chunks'[k] = ch /\ \A j \in ChunkNums \ {k} : chunks'[j] = chunks[j]
  BY <1>2, ChunkUpdated, Zenon
<1>4. /\ ch.next /\ ch.read_count = chunks[k].read_count
      /\ ch.deleted = chunks[k].deleted /\ ch.slots = chunks[k].slots
  BY <1>1, Zenon DEF Chunk
<1> HIDE DEF ch
<1>5. KeepsReadCount /\ KeepsDeleted
  BY <1>3, <1>4, Zenon DEF KeepsReadCount, KeepsDeleted
<1>6. KeepsReady /\ KeepsValue
  BY <1>3, <1>4, Zenon DEF KeepsReady, KeepsValue
<1> QED BY <1>3, <1>4, <1>5, <1>6, Zenon

\* Adding to read_count (inl.h:69) changes no other field.
LEMMA CountSet ==
  ASSUME TypeOK, NEW k \in ChunkNums, chunks' = [chunks EXCEPT ![k].read_count = @ + 1]
  PROVE  /\ KeepsChunks /\ KeepsNext /\ KeepsDeleted /\ KeepsReady /\ KeepsValue
         /\ chunks'[k].read_count = chunks[k].read_count + 1
         /\ \A j \in ChunkNums \ {k} : chunks'[j].read_count = chunks[j].read_count
<1>1. chunks[k] \in Chunk
  BY ChunkTypes, Zenon
<1> DEFINE ch == [chunks[k] EXCEPT !.read_count = @ + 1]
<1>2. ch \in Chunk /\ ch.begin_index = Begin(k) /\ chunks' = [chunks EXCEPT ![k] = ch]
  BY <1>1 DEF Chunk, Begin
<1>3. KeepsChunks /\ chunks'[k] = ch /\ \A j \in ChunkNums \ {k} : chunks'[j] = chunks[j]
  BY <1>2, ChunkUpdated, Zenon
<1>4. /\ ch.next = chunks[k].next /\ ch.read_count = chunks[k].read_count + 1
      /\ ch.deleted = chunks[k].deleted /\ ch.slots = chunks[k].slots
  BY <1>1, Zenon DEF Chunk
<1> HIDE DEF ch
<1>5. KeepsNext /\ KeepsDeleted
  BY <1>3, <1>4, Zenon DEF KeepsNext, KeepsDeleted
<1>6. KeepsReady /\ KeepsValue
  BY <1>3, <1>4, Zenon DEF KeepsReady, KeepsValue
<1> QED BY <1>3, <1>4, <1>5, <1>6, Zenon

\* Deleting a chunk (inl.h:48) changes no other chunk.
LEMMA DeletedSet ==
  ASSUME TypeOK, NEW k \in ChunkNums, chunks' = [chunks EXCEPT ![k].deleted = TRUE]
  PROVE  /\ KeepsChunks /\ KeepsNext /\ KeepsReadCount /\ KeepsReady /\ KeepsValue
         /\ \A j \in ChunkNums \ {k} : chunks'[j].deleted = chunks[j].deleted
<1>1. chunks[k] \in Chunk
  BY ChunkTypes, Zenon
<1> DEFINE ch == [chunks[k] EXCEPT !.deleted = TRUE]
<1>2. ch \in Chunk /\ ch.begin_index = Begin(k) /\ chunks' = [chunks EXCEPT ![k] = ch]
  BY <1>1, Zenon DEF Chunk, Begin
<1>3. KeepsChunks /\ chunks'[k] = ch /\ \A j \in ChunkNums \ {k} : chunks'[j] = chunks[j]
  BY <1>2, ChunkUpdated, Zenon
<1>4. /\ ch.next = chunks[k].next /\ ch.read_count = chunks[k].read_count
      /\ ch.slots = chunks[k].slots
  BY <1>1, Zenon DEF Chunk
<1> HIDE DEF ch
<1>5. KeepsNext /\ KeepsReadCount
  BY <1>3, <1>4, Zenon DEF KeepsNext, KeepsReadCount
<1>6. KeepsReady /\ KeepsValue
  BY <1>3, <1>4, Zenon DEF KeepsReady, KeepsValue
<1> QED BY <1>3, <1>4, <1>5, <1>6, Zenon

\* The chunk that push allocates (inl.h:12) is a chunk.
LEMMA NewChunkTyped == ASSUME NEW b \in Nat PROVE NewChunk(b) \in Chunk
<1> DEFINE ss == [o \in Offsets |-> [value |-> Nothing, ready |-> FALSE]]
<1>1. ss \in [Offsets -> Slot]
  BY Zenon DEF Slot
<1>2. NewChunk(b) = [begin_index |-> b, next |-> FALSE, read_count |-> 0, ref_count |-> 0,
                     slots |-> ss, deleted |-> FALSE]
  BY Zenon DEF NewChunk
<1> HIDE DEF ss
<1> QED BY <1>1, <1>2 DEF Chunk

\* The slot that push fills (inl.h:26-28) is a slot of the chunk it walked to.
LEMMA PushSlot ==
  ASSUME SInv, NEW p \in Producers, ppc[p] \in {"store", "publish"}
  PROVE  /\ write_chunk[p] \in ChunkNums /\ tail_idx[p] - Begin(write_chunk[p]) \in Offsets
         /\ chunks[write_chunk[p]].slots[tail_idx[p] - Begin(write_chunk[p])] \in Slot
<1>1. write_chunk[p] \in ChunkNums /\ tail_idx[p] \in Nat /\ InChunk(tail_idx[p], write_chunk[p])
  BY Zenon DEF SInv, TypeOK, PushInv, ChunkNums
<1>2. Begin(write_chunk[p]) \in Nat /\ chunks[write_chunk[p]] \in Chunk
  BY <1>1, ChunkTypes, Zenon DEF SInv
<1>3. tail_idx[p] - Begin(write_chunk[p]) \in Offsets
  BY <1>1, <1>2, ChunkSizeAssumption DEF InChunk, Offsets
<1> QED BY <1>1, <1>2, <1>3, Zenon DEF Chunk

\* What push stores is one of the values to be pushed.
LEMMA ArgInValues ==
  ASSUME TypeOK, PushInv, NEW p \in Producers, ppc[p] # "tail_chunk"
  PROVE  ArgOf(p) \in Values
<1>1. sent[p] \in 0 .. ItemsPerProducer[p] - 1
  <2>1. ItemsPerProducer[p] \in Nat
    BY ItemsAssumption, Zenon
  <2>2. sent[p] \in Nat /\ sent[p] < ItemsPerProducer[p]
    BY Zenon DEF SInv, TypeOK, PushInv
  <2> QED BY <2>1, <2>2
<1>2. ArgOf(p) \in {p} \X (0 .. ItemsPerProducer[p] - 1)
  BY <1>1, Zenon DEF ArgOf
<1> QED BY <1>2, Zenon DEF Values

\* push stores its argument in that slot (inl.h:27) and touches no other.
LEMMA StoreWrites ==
  ASSUME SInv, NEW p \in Producers, StoreValue(p),
         NEW k, k = write_chunk[p], NEW o, o = tail_idx[p] - Begin(k)
  PROVE  SlotUpdated(k, o, [chunks[k].slots[o] EXCEPT !.value = ArgOf(p)])
<1> DEFINE sl == [chunks[k].slots[o] EXCEPT !.value = ArgOf(p)]
<1>1. ppc[p] = "store" /\ chunks' = [chunks EXCEPT ![k].slots[o] = sl]
  BY Zenon DEF StoreValue, AtP
<1>2. k \in ChunkNums /\ o \in Offsets /\ chunks[k].slots[o] \in Slot
  BY <1>1, PushSlot, Zenon
<1>3. sl \in Slot
  BY <1>1, <1>2, ArgInValues, Zenon DEF SInv, Slot
<1> HIDE DEF sl
<1>4. SlotUpdated(k, o, sl)
  BY <1>1, <1>2, <1>3, SlotWritten, Zenon DEF SInv
<1> QED BY <1>4, Zenon DEF sl

\* push makes that slot ready (inl.h:28) and touches no other.
LEMMA PublishWrites ==
  ASSUME SInv, NEW p \in Producers, Publish(p),
         NEW k, k = write_chunk[p], NEW o, o = tail_idx[p] - Begin(k)
  PROVE  SlotUpdated(k, o, [chunks[k].slots[o] EXCEPT !.ready = TRUE])
<1> DEFINE sl == [chunks[k].slots[o] EXCEPT !.ready = TRUE]
<1>1. ppc[p] = "publish" /\ chunks' = [chunks EXCEPT ![k].slots[o] = sl]
  BY Zenon DEF Publish, AtP
<1>2. k \in ChunkNums /\ o \in Offsets /\ chunks[k].slots[o] \in Slot
  BY <1>1, PushSlot, Zenon
<1>3. sl \in Slot
  BY <1>2, Zenon DEF Slot
<1> HIDE DEF sl
<1>4. SlotUpdated(k, o, sl)
  BY <1>1, <1>2, <1>3, SlotWritten, Zenon DEF SInv
<1> QED BY <1>4, Zenon DEF sl

\* The slot that pop empties (inl.h:66-68) is the slot of the index it claimed, in the chunk it
\* walked to.
LEMMA PopSlot ==
  ASSUME SInv, NEW c \in Consumers, cpc[c] \in {"unref", "take", "count"}
  PROVE  /\ read_chunk[c] \in ChunkNums /\ ReadOffset(c) \in Offsets
         /\ chunks[read_chunk[c]].slots[ReadOffset(c)] \in Slot
         /\ Begin(read_chunk[c]) + ReadOffset(c) = head_idx[c]
         /\ InChunk(head_idx[c], read_chunk[c]) /\ head_idx[c] < head_index_
         /\ head_idx[c] \in Nat /\ Begin(read_chunk[c]) \in Nat
<1>1. /\ read_chunk[c] \in ChunkNums /\ head_idx[c] \in Nat /\ InChunk(head_idx[c], read_chunk[c])
      /\ head_idx[c] < head_index_
  BY Zenon DEF SInv, TypeOK, PopInv, ChunkNums, Indices, Claiming
<1>2. Begin(read_chunk[c]) \in Nat /\ chunks[read_chunk[c]] \in Chunk
  BY <1>1, ChunkTypes, Zenon DEF SInv
<1>3. ReadOffset(c) \in Offsets /\ Begin(read_chunk[c]) + ReadOffset(c) = head_idx[c]
  BY <1>1, <1>2, ChunkSizeAssumption DEF InChunk, Offsets, ReadOffset
<1> QED BY <1>1, <1>2, <1>3, Zenon DEF Chunk

\* pop moves the value out of that slot (inl.h:68) and touches no other.
LEMMA TakeWrites ==
  ASSUME SInv, NEW c \in Consumers, TakeValue(c),
         NEW k, k = read_chunk[c], NEW o, o = ReadOffset(c)
  PROVE  SlotUpdated(k, o, [chunks[k].slots[o] EXCEPT !.value = Nothing])
<1> DEFINE sl == [chunks[k].slots[o] EXCEPT !.value = Nothing]
<1>1. cpc[c] = "take" /\ chunks' = [chunks EXCEPT ![k].slots[o] = sl]
  BY Zenon DEF TakeValue, AtC
<1>2. k \in ChunkNums /\ o \in Offsets /\ chunks[k].slots[o] \in Slot
  BY <1>1, PopSlot, Zenon
<1>3. sl \in Slot
  BY <1>2, Zenon DEF Slot
<1> HIDE DEF sl
<1>4. SlotUpdated(k, o, sl)
  BY <1>1, <1>2, <1>3, SlotWritten, Zenon DEF SInv
<1> QED BY <1>4, Zenon DEF sl

\* A chunk whose read_count has reached CHUNK_SIZE (inl.h:42) is drained: the count is exact and a
\* chunk has CHUNK_SIZE indices, so none of them is still claimed.
LEMMA FullDrained ==
  ASSUME FiniteSetFacts, SInv, NEW k \in ChunkNums, chunks[k].read_count = CHUNK_SIZE
  PROVE  Drained(k) /\ ReadIndices(k) = Begin(k) .. Begin(k) + CHUNK_SIZE - 1
<1> DEFINE all == Begin(k) .. Begin(k) + CHUNK_SIZE - 1
<1>1. Begin(k) \in Nat /\ CHUNK_SIZE \in Nat /\ CHUNK_SIZE > 0 /\ head_index_ \in Nat
  BY ChunkTypes, ChunkSizeAssumption DEF SInv, TypeOK
<1>2. IsFiniteSet(all) /\ Cardinality(all) = CHUNK_SIZE
  <2>1. Begin(k) \in Int /\ Begin(k) + CHUNK_SIZE - 1 \in Int
    BY <1>1
  <2>2. /\ IsFiniteSet(all)
        /\ Cardinality(all) = IF Begin(k) > Begin(k) + CHUNK_SIZE - 1 THEN 0
                              ELSE (Begin(k) + CHUNK_SIZE - 1) - Begin(k) + 1
    BY <2>1, Zenon DEF FiniteSetFacts, IntervalCounted
  <2> QED BY <1>1, <2>2
<1>3. ReadIndices(k) \subseteq all
  BY Zenon DEF ReadIndices
<1>4. Cardinality(ReadIndices(k)) = CHUNK_SIZE
  BY Zenon DEF SInv, ReadCountExact, ChunkNums
<1>5. ReadIndices(k) = all
  <2> HIDE DEF all
  <2> QED BY <1>2, <1>3, <1>4, Zenon DEF FiniteSetFacts, SubsetCounted
<1>6. Begin(k) + CHUNK_SIZE - 1 \in ReadIndices(k)
  BY <1>1, <1>5
<1>7. Begin(k) + CHUNK_SIZE <= head_index_
  BY <1>1, <1>6 DEF ReadIndices
<1>8. \A c \in Consumers : Claiming(c) => ~InChunk(head_idx[c], k)
  <2> SUFFICES ASSUME NEW c \in Consumers, Claiming(c), InChunk(head_idx[c], k) PROVE FALSE
    BY Zenon
  <2>1. head_idx[c] \in Nat
    BY Zenon DEF SInv, TypeOK
  <2>2. head_idx[c] \in ReadIndices(k)
    BY <1>1, <1>5, <2>1 DEF InChunk
  <2> QED BY <2>2, Zenon DEF ReadIndices, Reading, Claiming
<1> QED BY <1>5, <1>7, <1>8, Zenon DEF Drained

-----------------------------------------------------------------------------
(* The steps of push *)

\* The last chunk starts at or before tail_index_, which only grows.
LEMMA LoadTailChunkKeeps == ASSUME SInv, NEW p \in Producers, LoadTailChunk(p) PROVE SInv'
<1> USE DEF LoadTailChunk, AtP, GoP
<1>t. PushTyped
  BY LocalsTyped, Zenon DEF SInv
<1>1. UNCHANGED queue_vars /\ UNCHANGED cvars /\ UNCHANGED chunks /\ UNCHANGED crashed
  BY Zenon DEF shared, queue_vars
<1>k. KeepsAll /\ crashed' \in BOOLEAN
  BY <1>1, ChunksUnchanged, Zenon DEF SInv, TypeOK
<1>2. FewerWriting
  BY <1>t, Zenon DEF PushTyped, FewerWriting, Writing
<1>3. PushTyped'
  BY <1>t, <1>1, Zenon DEF PushTyped, PushPC, SInv, TypeOK, ChunkNums
<1>4. PushInv'
  <2>1. tail_chunk_ \in ChunkNums /\ Begin(tail_chunk_) \in Nat /\ tail_index_ \in Nat
    BY ChunkTypes, Zenon DEF SInv, TypeOK, ChunkNums
  <2>2. Begin(tail_chunk_) <= tail_index_
    BY <2>1, ChunkCount DEF SInv, Geometry, ChunkNums
  <2> QED BY <1>t, <1>1, <2>2, Zenon DEF SInv, PushTyped, PushInv, Begin, InChunk, queue_vars
<1>5. LinkInv'
  <2>1. \A q \in Producers : ppc'[q] = "link" => ppc[q] = "link" /\ tail_chunk'[q] = tail_chunk[q]
    BY <1>t, Zenon DEF PushTyped
  <2> QED BY <1>1, <2>1, Zenon DEF SInv, LinkInv
<1> QED BY <1>k, <1>1, <1>2, <1>3, <1>4, <1>5, PushLocally, Zenon

\* The index loaded lies at or after the chunk loaded before it.
LEMMA LoadTailIndexKeeps == ASSUME SInv, NEW p \in Producers, LoadTailIndex(p) PROVE SInv'
<1> USE DEF LoadTailIndex, AtP, GoP
<1>t. PushTyped
  BY LocalsTyped, Zenon DEF SInv
<1>1. UNCHANGED queue_vars /\ UNCHANGED cvars /\ UNCHANGED chunks /\ UNCHANGED crashed
  BY Zenon DEF shared, queue_vars
<1>k. KeepsAll /\ crashed' \in BOOLEAN
  BY <1>1, ChunksUnchanged, Zenon DEF SInv, TypeOK
<1>2. FewerWriting
  BY <1>t, Zenon DEF PushTyped, FewerWriting, Writing
<1>3. PushTyped'
  BY <1>t, <1>1, Zenon DEF PushTyped, PushPC, SInv, TypeOK, ChunkNums
<1>4. PushInv'
  BY <1>t, <1>1, Zenon DEF SInv, PushTyped, PushInv, Begin, InChunk, queue_vars
<1>5. LinkInv'
  <2>1. \A q \in Producers : ppc'[q] = "link" => ppc[q] = "link" /\ tail_chunk'[q] = tail_chunk[q]
    BY <1>t, Zenon DEF PushTyped
  <2> QED BY <1>1, <2>1, Zenon DEF SInv, LinkInv
<1> QED BY <1>k, <1>1, <1>2, <1>3, <1>4, <1>5, PushLocally, Zenon

\* The CAS of tail_index_ hands its index to this push alone; no slot of it is ready yet.
LEMMA CasTailIndexKeeps == ASSUME SInv, NEW p \in Producers, CasTailIndex(p) PROVE SInv'
<1> USE DEF CasTailIndex, AtP, GoP
<1>a. ArgOf(p) \in Values /\ tail_index_ \in Nat /\ tail_idx[p] = tail_index_
  BY ArgInValues, Zenon DEF SInv, TypeOK
<1>b. enqueued' \in Seq(Values) /\ Len(enqueued') = tail_index_ + 1
  BY <1>a DEF SInv, TypeOK, Indices
<1>c. /\ ppc' = [ppc EXCEPT ![p] = "full"] /\ ppc \in [Producers -> PushPC]
      /\ UNCHANGED <<head_chunk_, head_index_, tail_chunk_, chunks, tail_chunk, tail_idx, sent, cvars>>
  BY Zenon DEF SInv, TypeOK
<1>k. KeepsAll /\ SameClaims
  BY ChunksUnchanged, Zenon DEF SInv, SameClaims, SameClaiming, Claiming, Taking, cvars
<1>1. TypeOK'
  <2>1. PushTyped'
    BY <1>c, LocalsTyped, Zenon DEF SInv, PushTyped, PushPC, ChunkNums
  <2>2. tail_index_' \in Nat
    BY <1>a
  <2> QED BY <1>b, <1>c, <2>1, <2>2, Zenon DEF SInv, TypeOK, PushTyped, ChunkNums, cvars
<1>2. Geometry'
  BY <1>a, <1>k, GeometryKept DEF SInv, KeepsAll
<1>w. \A q \in Producers : Writing(q)' => q = p \/ Writing(q)
  BY <1>c, Zenon DEF Writing
<1>3. Indices'
  <2>0. /\ \A q \in Producers : tail_idx[q] \in Nat /\ (Writing(q) => tail_idx[q] < tail_index_)
        /\ \A q, r \in Producers : Writing(q) /\ Writing(r) /\ tail_idx[q] = tail_idx[r] => q = r
        /\ tail_index_' = tail_index_ + 1 /\ tail_idx' = tail_idx
    BY <1>c, Zenon DEF SInv, TypeOK, Indices
  <2> HIDE DEF CasTailIndex
  <2>1. \A q \in Producers : Writing(q)' => tail_idx'[q] < tail_index_'
    BY <1>a, <1>w, <2>0
  <2>2. \A q, r \in Producers : Writing(q)' /\ Writing(r)' /\ tail_idx'[q] = tail_idx'[r] => q = r
    BY <1>a, <1>w, <2>0
  <2> USE DEF CasTailIndex
  <2>3. head_index_' <= tail_index_' /\ tail_index_' \in Nat /\ tail_index_ < tail_index_'
    BY <1>a DEF SInv, TypeOK, Indices
  <2>4. \A c \in Consumers : head_idx[c] \in Nat
    BY Zenon DEF SInv, TypeOK
  <2> QED BY <1>a, <1>b, <1>c, <2>1, <2>2, <2>3, <2>4 DEF SInv, Indices, Claiming, cvars
<1>4. PushInv'
  <2>1. \A q \in Producers : tail_chunk[q] \in ChunkNums /\ Begin(tail_chunk[q]) \in Nat
    BY ChunkTypes, LocalsTyped, Zenon DEF SInv, PushTyped
  <2>2. /\ write_chunk \in [Producers -> 1 .. Len(chunks)] /\ Begin(tail_chunk[p]) <= tail_idx[p]
        /\ sent[p] < ItemsPerProducer[p]
    BY Zenon DEF SInv, TypeOK, PushInv
  <2>3. /\ write_chunk'[p] = tail_chunk[p] /\ ppc'[p] = "full"
        /\ \A q \in Producers : q # p => write_chunk'[q] = write_chunk[q] /\ ppc'[q] = ppc[q]
    BY <1>c, <2>2, Zenon
  <2>4. tail_index_' = tail_index_ + 1
    BY Zenon
  <2> SUFFICES ASSUME NEW q \in Producers PROVE PushInv!(q)'
    BY Zenon DEF PushInv
  <2> HIDE DEF CasTailIndex
  <2>5. CASE q = p
    BY <1>c, <2>2, <2>3, <2>5, Zenon DEF SInv, PushInv, Begin
  <2>6. CASE q # p
    BY <1>a, <1>c, <2>1, <2>3, <2>4, <2>6 DEF SInv, PushInv, Begin, InChunk
  <2> QED BY <2>5, <2>6, Zenon
<1>5. LinkInv'
  BY <1>c, Zenon DEF SInv, LinkInv
<1>6. PopInv' /\ ReclaimInv'
  BY <1>k, PoppersKept, ReclaimedKept, Zenon DEF SInv, KeepsAll, SameClaims
<1>7. ReadCountExact' /\ WaitingInv'
  BY <1>k, ReadCountKept, WaitingKept, Zenon DEF SInv, KeepsAll, SameClaims
<1>8. ReadyInv'
  <2> SUFFICES ASSUME NEW k \in ChunkNums, NEW o \in Offsets PROVE ReadyInv!(k, o)'
    BY <1>c, Zenon DEF ReadyInv, ChunkNums
  <2>1. Begin(k) \in Nat /\ o \in Nat /\ Begin(k)' = Begin(k)
    BY ChunkTypes, ChunkSizeAssumption DEF SInv, Offsets, Begin
  <2>2. chunks[k].slots[o].ready => Begin(k) + o < tail_index_
    BY Zenon DEF SInv, ReadyInv
  <2>3. tail_index_' = tail_index_ + 1
    BY Zenon
  <2>4. chunks[k].slots[o].ready => Begin(k) + o < tail_index_' /\ tail_idx[p] # Begin(k) + o
    BY <1>a, <2>1, <2>2, <2>3
  <2> HIDE DEF CasTailIndex
  <2> QED BY <1>c, <1>w, <2>1, <2>4, Zenon DEF SInv, ReadyInv, Taking, cvars
<1> QED BY <1>1, <1>2, <1>3, <1>4, <1>5, <1>6, <1>7, <1>8, Zenon DEF SInv

\* A failed CAS of tail_index_ claims nothing.
LEMMA CasTailIndexFailsKeeps == ASSUME SInv, NEW p \in Producers, CasTailIndexFails(p) PROVE SInv'
<1> USE DEF CasTailIndexFails, AtP, GoP
<1>t. PushTyped
  BY LocalsTyped, Zenon DEF SInv
<1>1. UNCHANGED queue_vars /\ UNCHANGED cvars /\ UNCHANGED chunks /\ UNCHANGED crashed
  BY Zenon DEF shared, queue_vars
<1>k. KeepsAll /\ crashed' \in BOOLEAN
  BY <1>1, ChunksUnchanged, Zenon DEF SInv, TypeOK
<1>2. FewerWriting
  BY <1>t, Zenon DEF PushTyped, FewerWriting, Writing
<1>3. PushTyped'
  BY <1>t, Zenon DEF PushTyped, PushPC, shared, ChunkNums
<1>4. PushInv'
  BY <1>t, <1>1, Zenon DEF SInv, PushTyped, PushInv, Begin, InChunk, queue_vars
<1>5. LinkInv'
  <2>1. \A q \in Producers : ppc'[q] = "link" => ppc[q] = "link" /\ tail_chunk'[q] = tail_chunk[q]
    BY <1>t, Zenon DEF PushTyped
  <2> QED BY <1>1, <2>1, Zenon DEF SInv, LinkInv
<1> QED BY <1>k, <1>1, <1>2, <1>3, <1>4, <1>5, PushLocally, Zenon

\* The test tells whether the claimed index lies in the chunk.
LEMMA CheckFullKeeps == ASSUME SInv, NEW p \in Producers, CheckFull(p) PROVE SInv'
<1> USE DEF CheckFull, AtP, GoP
<1>t. PushTyped
  BY LocalsTyped, Zenon DEF SInv
<1>1. UNCHANGED queue_vars /\ UNCHANGED cvars /\ UNCHANGED chunks /\ UNCHANGED crashed
  BY Zenon DEF shared, queue_vars
<1>k. KeepsAll /\ crashed' \in BOOLEAN
  BY <1>1, ChunksUnchanged, Zenon DEF SInv, TypeOK
<1>2. FewerWriting
  BY <1>t, Zenon DEF PushTyped, FewerWriting, Writing
<1>3. PushTyped'
  BY <1>t, Zenon DEF PushTyped, PushPC, shared, ChunkNums
<1>4. PushInv'
  <2>1. /\ Begin(tail_chunk[p]) \in Nat /\ tail_idx[p] \in Nat /\ CHUNK_SIZE \in Nat
        /\ Begin(tail_chunk[p]) <= tail_idx[p] /\ write_chunk[p] = tail_chunk[p]
    BY <1>t, ChunkTypes, ChunkSizeAssumption, Zenon DEF SInv, PushTyped, PushInv
  <2>2. tail_idx[p] >= Begin(tail_chunk[p]) + CHUNK_SIZE \/ InChunk(tail_idx[p], write_chunk[p])
    BY <2>1 DEF InChunk
  <2> QED BY <1>t, <1>1, <2>2, Zenon DEF SInv, PushTyped, PushInv, Begin, InChunk, queue_vars
<1>5. LinkInv'
  <2>1. \A q \in Producers : ppc'[q] = "link" => ppc[q] = "link" /\ tail_chunk'[q] = tail_chunk[q]
    BY <1>t, Zenon DEF PushTyped
  <2> QED BY <1>1, <2>1, Zenon DEF SInv, LinkInv
<1> QED BY <1>k, <1>1, <1>2, <1>3, <1>4, <1>5, PushLocally, Zenon

\* The chunk published by the CAS of tail_chunk_ continues the indices and holds claimed ones at
\* most of pops that still wait: no index in it was read.
LEMMA CasTailChunkKeeps ==
  ASSUME FiniteSetFacts, SInv, NEW p \in Producers, CasTailChunk(p) PROVE SInv'
<1> USE DEF CasTailChunk, AtP, GoP
<1> PICK n \in Nat : n = Len(chunks)
  BY ChunkCount, Zenon DEF SInv
<1>n. /\ n >= 1 /\ n \in ChunkNums /\ ChunkNums = 1 .. n
      /\ tail_chunk[p] = n /\ tail_chunk_ = n
  <2>1. n >= 1
    BY ChunkCount, Zenon DEF SInv
  <2>2. tail_chunk[p] = n /\ tail_chunk_ = n
    BY Zenon DEF SInv, Geometry
  <2> QED BY <2>1, <2>2 DEF ChunkNums
<1>z. Begin(n) \in Nat /\ CHUNK_SIZE \in Nat /\ CHUNK_SIZE > 0
  BY <1>n, ChunkTypes, ChunkSizeAssumption DEF SInv
<1> PICK b \in Nat : b = Begin(n) + CHUNK_SIZE
  BY <1>z
<1>a. chunks' = Append(chunks, NewChunk(b)) /\ NewChunk(b) \in Chunk /\ chunks \in Seq(Chunk)
  BY <1>n, NewChunkTyped, Zenon DEF SInv, TypeOK
<1>d. /\ chunks' \in Seq(Chunk) /\ Len(chunks') = n + 1 /\ chunks'[n + 1] = NewChunk(b)
      /\ \A k \in ChunkNums : chunks'[k] = chunks[k]
  BY <1>a DEF ChunkNums
<1>e. /\ ChunkNums' = 1 .. n + 1
      /\ Begin(n + 1)' = b
      /\ \A k \in 1 .. n : Begin(k)' = Begin(k) /\ Begin(k) \in Nat
  <2>1. ChunkNums' = 1 .. n + 1
    BY <1>d, Zenon DEF ChunkNums
  <2>2. Begin(n + 1)' = b
    BY <1>d DEF Begin, NewChunk
  <2>3. \A k \in 1 .. n : Begin(k)' = Begin(k) /\ Begin(k) \in Nat
    BY <1>n, <1>d, ChunkTypes, Zenon DEF SInv, Begin
  <2> QED BY <2>1, <2>2, <2>3, Zenon
<1>f. /\ ~chunks'[n + 1].next /\ chunks'[n + 1].read_count = 0 /\ ~chunks'[n + 1].deleted
      /\ \A o \in Offsets : ~chunks'[n + 1].slots[o].ready
  BY <1>d DEF NewChunk
<1>u. \A k \in 1 .. n + 1 : k \in 1 .. n \/ k = n + 1
  OBVIOUS
<1>c. /\ ppc' = [ppc EXCEPT ![p] = "link"] /\ ppc \in [Producers -> PushPC]
      /\ ppc[p] = "cas_tail_chunk"
      /\ tail_chunk_' = n + 1
      /\ UNCHANGED <<head_chunk_, head_index_, tail_index_, enqueued, crashed,
                     tail_chunk, tail_idx, write_chunk, sent, cvars>>
  BY <1>n, Zenon DEF SInv, TypeOK
<1> HIDE DEF CasTailChunk
<1>g. b < tail_index_ /\ tail_index_ \in Nat
  <2>1. Begin(n) + CHUNK_SIZE <= tail_idx[p] /\ tail_idx[p] < tail_index_
    BY <1>n, <1>c, Zenon DEF SInv, PushInv, Indices, Writing
  <2> QED BY <2>1, <1>z DEF SInv, TypeOK
<1>h. \A k \in 1 .. n : Begin(k) + CHUNK_SIZE <= b
  BY <1>n, <1>z, <1>e DEF SInv, Geometry
<1>s. \A q \in Producers : Writing(q)' <=> Writing(q)
  BY <1>c, Zenon DEF Writing
<1>i. \A i \in 0 .. head_index_ - 1 : b <= i => \E c \in Consumers : Taking(c) /\ head_idx[c] = i
  BY Zenon DEF SInv, WaitingInv
<1>1. TypeOK'
  <2>1. 1 .. n \subseteq 1 .. Len(chunks') /\ tail_chunk_' \in 1 .. Len(chunks')
    BY <1>n, <1>d, <1>c
  <2>2. ppc' \in [Producers -> PushPC]
    BY <1>c, Zenon DEF PushPC
  <2> QED BY <1>c, <1>d, <2>1, <2>2, Zenon DEF SInv, TypeOK, cvars
<1>2. Geometry'
  <2>1. Begin(1)' = 0 /\ tail_chunk_' = Len(chunks')
    BY <1>c, <1>d, <1>e, <1>n DEF SInv, Geometry, ChunkNums
  <2>2. \A j, k \in ChunkNums' : j < k => Begin(j)' + CHUNK_SIZE <= Begin(k)'
    <3> SUFFICES ASSUME NEW j \in 1 .. n + 1, NEW k \in 1 .. n + 1, j < k
                 PROVE  Begin(j)' + CHUNK_SIZE <= Begin(k)'
      BY <1>e, Zenon
    <3>1. j \in 1 .. n
      OBVIOUS
    <3>2. CASE k \in 1 .. n
      BY <1>e, <1>n, <3>1, <3>2, Zenon DEF SInv, Geometry
    <3>3. CASE k = n + 1
      BY <1>e, <1>h, <3>1, <3>3, Zenon
    <3> QED BY <1>u, <3>2, <3>3, Zenon
  <2>3. \A j, k \in ChunkNums' : k = j + 1 => Begin(k)' = Begin(j)' + CHUNK_SIZE
    <3> SUFFICES ASSUME NEW j \in 1 .. n + 1, NEW k \in 1 .. n + 1, k = j + 1
                 PROVE  Begin(k)' = Begin(j)' + CHUNK_SIZE
      BY <1>e, Zenon
    <3>1. j \in 1 .. n
      OBVIOUS
    <3>2. CASE k \in 1 .. n
      BY <1>e, <1>n, <3>1, <3>2 DEF SInv, Geometry
    <3>3. CASE k = n + 1
      BY <1>e, <1>z, <3>3
    <3> QED BY <1>u, <3>2, <3>3, Zenon
  <2>4. \A k \in ChunkNums' : k > 1 => Begin(k)' < tail_index_'
    BY <1>c, <1>e, <1>g, <1>n, <1>u DEF SInv, Geometry
  <2>5. \A k \in ChunkNums' : chunks'[k].next => k < Len(chunks')
    BY <1>d, <1>e, <1>f, <1>u
  <2> QED BY <2>1, <2>2, <2>3, <2>4, <2>5, Zenon DEF Geometry
<1>3. Indices'
  BY <1>c, <1>s, Zenon DEF SInv, Indices, Claiming, cvars
<1>4. PushInv'
  <2>1. \A q \in Producers : tail_chunk[q] \in ChunkNums /\ write_chunk[q] \in ChunkNums
    BY Zenon DEF SInv, TypeOK, ChunkNums
  <2> QED BY <1>c, <1>e, <1>n, <2>1, Zenon DEF SInv, PushInv, InChunk
<1>5. LinkInv'
  <2>1. \A q \in Producers : tail_chunk[q] \in ChunkNums
    BY Zenon DEF SInv, TypeOK, ChunkNums
  <2>2. \A q \in Producers : ppc[q] = "link" => tail_chunk[q] < n
    BY Zenon DEF SInv, LinkInv
  <2>3. ~chunks[n].next
    BY <1>n DEF SInv, Geometry
  <2>4. \A q \in Producers : ppc'[q] = "link" => q = p \/ ppc[q] = "link"
    BY <1>c, Zenon
  <2> QED BY <1>c, <1>d, <1>n, <2>1, <2>2, <2>3, <2>4 DEF SInv, LinkInv
<1>6. PopInv'
  <2>1. \A c \in Consumers : head_chunk[c] \in ChunkNums /\ read_chunk[c] \in ChunkNums
    BY Zenon DEF SInv, TypeOK, ChunkNums
  <2> QED BY <1>c, <1>d, <1>e, <1>n, <2>1 DEF SInv, PopInv, InChunk, cvars
<1>7. ReclaimInv'
  <2>1. ~(n + 1 < head_chunk_)
    BY <1>n DEF SInv, TypeOK
  <2> QED BY <1>c, <1>d, <1>e, <1>f, <1>n, <1>u, <2>1, Zenon
             DEF SInv, ReclaimInv, Drained, InChunk, Claiming, cvars
<1>8. ReadCountExact'
  <2>1. \A k \in ChunkNums : ReadIndices(k)' = ReadIndices(k)
    BY <1>c, <1>e, <1>n, Zenon DEF ReadIndices, Reading, cvars
  <2>2. ReadIndices(n + 1)' = {}
    <3> SUFFICES ASSUME NEW i \in b .. b + CHUNK_SIZE - 1, i < head_index_,
                        \A c \in Consumers : ~Reading(c, i)
                 PROVE  FALSE
      BY <1>c, <1>e, <1>n DEF ReadIndices, Reading, cvars
    <3>1. i \in 0 .. head_index_ - 1 /\ b <= i
      BY <1>z DEF SInv, TypeOK
    <3> QED BY <1>i, <3>1, Zenon DEF Taking, Reading
  <2>3. Cardinality({}) = 0
    BY Zenon DEF FiniteSetFacts, EmptyCounted
  <2>4. \A k \in ChunkNums' : chunks'[k].read_count = Cardinality(ReadIndices(k)')
    BY <1>d, <1>e, <1>f, <1>n, <1>u, <2>1, <2>2, <2>3, Zenon DEF SInv, ReadCountExact
  <2> QED BY <2>4, Zenon DEF ReadCountExact, ChunkNums
<1>9. WaitingInv'
  <2>1. Begin(Len(chunks))' = b
    BY <1>d, <1>e, Zenon DEF Begin
  <2>2. ASSUME NEW i \in 0 .. head_index_ - 1, b + CHUNK_SIZE <= i PROVE b <= i
    BY <1>z, <2>2 DEF SInv, TypeOK
  <2> QED BY <1>c, <1>i, <2>1, <2>2, Zenon DEF WaitingInv, Taking, cvars
<1>10. ReadyInv'
  <2>1. \A k \in ChunkNums, o \in Offsets : ReadyInv!(k, o)'
    BY <1>c, <1>d, <1>e, <1>n, <1>s DEF SInv, ReadyInv, Taking, cvars
  <2>2. ASSUME NEW o \in Offsets PROVE ReadyInv!(n + 1, o)'
    <3>1. o \in Nat
      BY <1>z DEF Offsets
    <3>2. b + o < head_index_ => b + o \in 0 .. head_index_ - 1 /\ b <= b + o
      <4>1. b + o \in Nat /\ b <= b + o /\ head_index_ \in Nat
        BY <3>1 DEF SInv, TypeOK
      <4> QED BY <4>1
    <3> QED BY <1>c, <1>e, <1>f, <1>i, <3>2, Zenon DEF Taking, cvars
  <2> QED BY <1>e, <1>n, <1>u, <2>1, <2>2, Zenon DEF ReadyInv
<1> QED BY <1>1, <1>2, <1>3, <1>4, <1>5, <1>6, <1>7, <1>8, <1>9, <1>10, Zenon DEF SInv

\* A push that loses the race for the next chunk walks.
LEMMA CasTailChunkFailsKeeps == ASSUME SInv, NEW p \in Producers, CasTailChunkFails(p) PROVE SInv'
<1> USE DEF CasTailChunkFails, AtP, GoP
<1>t. PushTyped
  BY LocalsTyped, Zenon DEF SInv
<1>1. UNCHANGED queue_vars /\ UNCHANGED cvars /\ UNCHANGED chunks /\ UNCHANGED crashed
  BY Zenon DEF shared, queue_vars
<1>k. KeepsAll /\ crashed' \in BOOLEAN
  BY <1>1, ChunksUnchanged, Zenon DEF SInv, TypeOK
<1>2. FewerWriting
  BY <1>t, Zenon DEF PushTyped, FewerWriting, Writing
<1>3. PushTyped'
  BY <1>t, Zenon DEF PushTyped, PushPC, shared, ChunkNums
<1>4. PushInv'
  <2>1. Begin(tail_chunk[p]) \in Nat /\ tail_idx[p] \in Nat /\ CHUNK_SIZE \in Nat
    BY <1>t, ChunkTypes, ChunkSizeAssumption, Zenon DEF SInv, PushTyped
  <2>2. Begin(write_chunk[p]) <= tail_idx[p]
    BY <2>1 DEF SInv, PushInv
  <2>3. /\ ppc' = [ppc EXCEPT ![p] = "walk"] /\ ppc \in [Producers -> PushPC] /\ ppc[p] = "cas_tail_chunk"
        /\ UNCHANGED <<tail_chunk, tail_idx, write_chunk, sent, tail_index_, chunks>>
    BY <1>t, Zenon DEF PushTyped, shared
  <2> QED BY <2>2, <2>3 DEF SInv, PushInv, Begin, InChunk
<1>5. LinkInv'
  <2>1. \A q \in Producers : ppc'[q] = "link" => ppc[q] = "link" /\ tail_chunk'[q] = tail_chunk[q]
    BY <1>t, Zenon DEF PushTyped
  <2> QED BY <1>1, <2>1, Zenon DEF SInv, LinkInv
<1> QED BY <1>k, <1>1, <1>2, <1>3, <1>4, <1>5, PushLocally, Zenon

\* Only the push that published a chunk links it.
LEMMA LinkChunkKeeps == ASSUME SInv, NEW p \in Producers, LinkChunk(p) PROVE SInv'
<1> USE DEF LinkChunk, AtP, GoP
<1>t. tail_chunk[p] \in ChunkNums
  BY Zenon DEF SInv, TypeOK, ChunkNums
<1>k. /\ KeepsChunks /\ KeepsReadCount /\ KeepsDeleted /\ KeepsReady
      /\ chunks'[tail_chunk[p]].next
      /\ \A j \in ChunkNums \ {tail_chunk[p]} : chunks'[j].next = chunks[j].next
  BY <1>t, NextSet, Zenon DEF SInv
<1>c. /\ ppc' = [ppc EXCEPT ![p] = "walk"] /\ ppc \in [Producers -> PushPC]
      /\ UNCHANGED <<queue_vars, tail_chunk, tail_idx, write_chunk, sent, cvars>>
  BY Zenon DEF SInv, TypeOK, queue_vars
<1>b. ChunkNums' = ChunkNums /\ Len(chunks') = Len(chunks) /\ \A k \in ChunkNums : Begin(k)' = Begin(k) /\ Begin(k) \in Nat
  BY <1>k, BeginKept, ChunkTypes, Zenon DEF SInv, KeepsChunks
<1>y. PushTyped /\ PopTyped
  BY LocalsTyped, Zenon DEF SInv
<1>m. \A j \in ChunkNums : chunks[j].next => chunks'[j].next
  BY <1>k, Zenon
<1>s. SameClaims /\ FewerWriting
  BY <1>c, Zenon DEF SameClaims, SameClaiming, Claiming, Taking, cvars, FewerWriting, Writing
<1>1. TypeOK'
  <2>1. PushTyped'
    BY <1>y, <1>c, <1>b, Zenon DEF PushTyped, PushPC
  <2>2. crashed' \in BOOLEAN
    BY Zenon DEF SInv, TypeOK
  <2> QED BY <1>c, <1>k, <2>1, <2>2, LocalsTyped, PopTypedKept, TypeKept, Zenon DEF SInv
<1>2. Geometry'
  <2>1. \A k \in ChunkNums' : chunks'[k].next => k < Len(chunks')
    BY <1>b, <1>k, Zenon DEF SInv, Geometry, LinkInv
  <2>2. 1 \in ChunkNums
    BY ChunkCount DEF SInv, ChunkNums
  <2> QED BY <1>b, <1>c, <2>1, <2>2 DEF SInv, Geometry, queue_vars
<1>3. Indices'
  BY <1>c, <1>s, WritersIndicesKept, Zenon DEF SInv
<1>4. PushInv'
  <2>1. \A q \in Producers : tail_chunk[q] \in ChunkNums /\ write_chunk[q] \in ChunkNums /\ tail_idx[q] \in Nat
    BY Zenon DEF SInv, TypeOK, ChunkNums
  <2>2. Begin(write_chunk[p]) <= tail_idx[p]
    BY <1>b, <2>1, ChunkSizeAssumption DEF SInv, PushInv
  <2> QED BY <1>c, <1>b, <2>1, <2>2, Zenon DEF SInv, PushInv, InChunk, queue_vars
<1>5. LinkInv'
  <2>1. \A q \in Producers : tail_chunk[q] \in ChunkNums
    BY Zenon DEF SInv, TypeOK, ChunkNums
  <2>2. \A q \in Producers : ppc'[q] = "link" => ppc[q] = "link" /\ tail_chunk[q] # tail_chunk[p]
    BY <1>c, Zenon DEF SInv, LinkInv
  <2> QED BY <1>c, <1>b, <1>k, <2>1, <2>2, Zenon DEF SInv, LinkInv
<1>6. PopInv'
  BY <1>c, <1>b, <1>k, <1>m, <1>y
     DEF SInv, PopTyped, PopInv, InChunk, KeepsReadCount, queue_vars, cvars
<1>7. ReclaimInv'
  BY <1>c, <1>b, <1>k, <1>m, Zenon
     DEF SInv, ReclaimInv, Drained, InChunk, Claiming, KeepsDeleted, queue_vars, cvars
<1>8. ReadCountExact' /\ WaitingInv' /\ ReadyInv'
  BY <1>c, <1>s, <1>k, ReadCountKept, WaitingKept, ReadyKept, Zenon DEF SInv, queue_vars, SameClaims
<1> QED BY <1>1, <1>2, <1>3, <1>4, <1>5, <1>6, <1>7, <1>8, Zenon DEF SInv

\* The walk goes on while the chunk ends at or before the index, so it stops in the chunk of the
\* index.
LEMMA WriteWalkKeeps == ASSUME SInv, NEW p \in Producers, WriteWalk(p) PROVE SInv'
<1> USE DEF WriteWalk, AtP, GoP
<1>t. PushTyped
  BY LocalsTyped, Zenon DEF SInv
<1>w. /\ write_chunk[p] \in ChunkNums /\ Begin(write_chunk[p]) \in Nat
      /\ Begin(write_chunk[p]) <= tail_idx[p] /\ tail_idx[p] \in Nat /\ CHUNK_SIZE \in Nat
      /\ chunks[write_chunk[p]].next =>
           /\ write_chunk[p] + 1 \in ChunkNums
           /\ Begin(write_chunk[p] + 1) = Begin(write_chunk[p]) + CHUNK_SIZE
  <2>1. write_chunk[p] \in ChunkNums /\ Begin(write_chunk[p]) <= tail_idx[p] /\ tail_idx[p] \in Nat
    BY <1>t, Zenon DEF SInv, PushTyped, PushInv
  <2> QED BY <2>1, ChunkTypes, NextChunk, ChunkSizeAssumption, Zenon DEF SInv
<1>1. UNCHANGED queue_vars /\ UNCHANGED cvars /\ UNCHANGED chunks /\ UNCHANGED crashed
  BY Zenon DEF shared, queue_vars
<1>k. KeepsAll /\ crashed' \in BOOLEAN
  BY <1>1, ChunksUnchanged, Zenon DEF SInv, TypeOK
<1>2. FewerWriting
  BY <1>t, Zenon DEF PushTyped, FewerWriting, Writing
<1>3. PushTyped'
  BY <1>t, <1>w, <1>1, Zenon DEF PushTyped, PushPC, ChunkNums
<1>4. PushInv'
  <2> SUFFICES ASSUME NEW q \in Producers PROVE PushInv!(q)'
    BY Zenon DEF PushInv
  <2>1. CASE q # p
    <3>1. UNCHANGED <<tail_chunk, tail_idx, sent>> /\ ppc'[q] = ppc[q] /\ write_chunk'[q] = write_chunk[q]
      BY <1>t, <2>1, Zenon DEF PushTyped
    <3> QED BY <1>1, <3>1, Zenon DEF SInv, PushInv, Begin, InChunk, queue_vars
  <2>2. CASE q = p /\ Begin(write_chunk[p]) + CHUNK_SIZE <= tail_idx[p]
    <3>1. /\ ppc'[q] = "walk" /\ write_chunk'[q] = write_chunk[p] + 1
          /\ tail_idx' = tail_idx /\ sent' = sent /\ chunks[write_chunk[p]].next
      BY <1>t, <2>2, Zenon DEF PushTyped
    <3> QED BY <1>w, <1>1, <2>2, <3>1, Zenon DEF SInv, PushInv, Begin
  <2>3. CASE q = p /\ ~(Begin(write_chunk[p]) + CHUNK_SIZE <= tail_idx[p])
    <3>1. ppc'[q] = "store" /\ UNCHANGED <<write_chunk, tail_idx, sent>>
      BY <1>t, <2>3, Zenon DEF PushTyped
    <3>2. InChunk(tail_idx[p], write_chunk[p])
      BY <1>w, <2>3 DEF InChunk
    <3> QED BY <1>1, <2>3, <3>1, <3>2, Zenon DEF SInv, PushInv, Begin, InChunk
  <2> QED BY <2>1, <2>2, <2>3, Zenon
<1>5. LinkInv'
  <2>1. \A q \in Producers : ppc'[q] = "link" => ppc[q] = "link" /\ tail_chunk'[q] = tail_chunk[q]
    BY <1>t, Zenon DEF PushTyped
  <2> QED BY <1>1, <2>1, Zenon DEF SInv, LinkInv
<1> QED BY <1>k, <1>1, <1>2, <1>3, <1>4, <1>5, PushLocally, Zenon

\* Storing the value touches no flag and no count.
LEMMA StoreValueKeeps == ASSUME SInv, NEW p \in Producers, StoreValue(p) PROVE SInv'
<1> USE DEF StoreValue, AtP, GoP
<1> DEFINE k == write_chunk[p]
           o == tail_idx[p] - Begin(k)
           sl == [chunks[k].slots[o] EXCEPT !.value = ArgOf(p)]
<1>a. ArgOf(p) \in Values
  BY ArgInValues, Zenon DEF SInv
<1>b. k \in ChunkNums /\ o \in Offsets /\ chunks[k].slots[o] \in Slot
  BY PushSlot, Zenon
<1>c. sl \in Slot /\ sl.ready = chunks[k].slots[o].ready
  BY <1>a, <1>b, Zenon DEF Slot
<1>d. SlotUpdated(k, o, sl)
  BY StoreWrites, Zenon
<1>k. KeepsAll
  <2> HIDE DEF sl, k, o
  <2> QED BY <1>b, <1>c, <1>d, Zenon DEF SlotUpdated, KeepsAll, KeepsReady
<1>t. PushTyped /\ crashed \in BOOLEAN
  BY LocalsTyped, Zenon DEF SInv, TypeOK
<1>1. /\ UNCHANGED <<queue_vars, cvars, crashed, tail_chunk, tail_idx, write_chunk, sent>>
      /\ ppc' = [ppc EXCEPT ![p] = "publish"] /\ ppc[p] = "store"
  BY Zenon DEF queue_vars
<1> HIDE DEF StoreValue
<1>g. ChunkNums' = ChunkNums /\ \A j \in ChunkNums : Begin(j)' = Begin(j)
  BY <1>k, BeginKept, Zenon DEF KeepsAll
<1>2. FewerWriting
  BY <1>t, <1>1, Zenon DEF PushTyped, FewerWriting, Writing
<1>3. PushTyped'
  BY <1>t, <1>1, <1>g, Zenon DEF PushTyped, PushPC
<1>4. PushInv'
  BY <1>t, <1>1, <1>g, Zenon DEF SInv, PushTyped, PushInv, InChunk, queue_vars
<1>5. LinkInv'
  BY <1>t, <1>1, <1>k, Zenon DEF SInv, PushTyped, LinkInv, KeepsAll, KeepsChunks, KeepsNext
<1> QED BY <1>k, <1>t, <1>1, <1>2, <1>3, <1>4, <1>5, PushLocally, Zenon

\* The slot made ready is the one of the claimed index, which this push gives up.
LEMMA PublishKeeps == ASSUME SInv, NEW p \in Producers, Publish(p) PROVE SInv'
<1> USE DEF Publish, AtP, GoP
<1> DEFINE k == write_chunk[p]
           o == tail_idx[p] - Begin(k)
           sl == [chunks[k].slots[o] EXCEPT !.ready = TRUE]
<1>b. k \in ChunkNums /\ o \in Offsets /\ chunks[k].slots[o] \in Slot
  BY PushSlot, Zenon
<1>i. Begin(k) \in Nat /\ Begin(k) + o = tail_idx[p] /\ tail_idx[p] < tail_index_
  <2>1. Begin(k) \in Nat
    BY <1>b, ChunkTypes, Zenon DEF SInv
  <2>2. tail_idx[p] \in Nat /\ tail_idx[p] < tail_index_
    BY Zenon DEF SInv, TypeOK, Indices, Writing
  <2> QED BY <2>1, <2>2
<1>d. sl \in Slot /\ sl.ready
  BY <1>b, Zenon DEF Slot
<1>e. SlotUpdated(k, o, sl)
  BY PublishWrites, Zenon
<1>k. KeepsChunks /\ KeepsNext /\ KeepsReadCount /\ KeepsDeleted
  BY <1>e, Zenon DEF SlotUpdated
<1>c. /\ ppc' = [ppc EXCEPT ![p] = "tail_chunk"] /\ ppc \in [Producers -> PushPC]
      /\ UNCHANGED <<queue_vars, crashed, tail_chunk, tail_idx, write_chunk, cvars>>
      /\ sent' = [sent EXCEPT ![p] = @ + 1] /\ ppc[p] = "publish"
  BY Zenon DEF SInv, TypeOK, queue_vars
<1> HIDE DEF Publish
<1>t. PushTyped
  BY LocalsTyped, Zenon DEF SInv
<1>g. ChunkNums' = ChunkNums /\ \A j \in ChunkNums : Begin(j)' = Begin(j)
  BY <1>k, BeginKept, Zenon
<1> HIDE DEF k, o, sl
<1>s. SameClaims /\ FewerWriting
  BY <1>c, Zenon DEF SameClaims, SameClaiming, Claiming, Taking, cvars, FewerWriting, Writing
<1>1. TypeOK'
  <2>1. PushTyped'
    BY <1>t, <1>c, <1>g DEF PushTyped, PushPC
  <2>2. crashed' \in BOOLEAN
    BY <1>c, Zenon DEF SInv, TypeOK
  <2> QED BY <1>c, <1>k, <2>1, <2>2, LocalsTyped, PopTypedKept, TypeKept, Zenon DEF SInv
<1>2. Geometry' /\ Indices'
  <2>1. tail_index_' \in Nat /\ tail_index_ <= tail_index_'
    BY <1>c DEF SInv, TypeOK, queue_vars
  <2> QED BY <1>c, <1>s, <1>k, <2>1, GeometryKept, WritersIndicesKept, Zenon DEF SInv, queue_vars
<1>4. PushInv'
  BY <1>t, <1>c, <1>g, Zenon DEF SInv, PushTyped, PushInv, InChunk, queue_vars
<1>5. LinkInv'
  BY <1>t, <1>c, <1>k, Zenon DEF SInv, PushTyped, LinkInv, KeepsChunks, KeepsNext
<1>6. PopInv' /\ ReclaimInv'
  BY <1>c, <1>k, <1>s, PoppersKept, ReclaimedKept, Zenon DEF SInv, SameClaims, queue_vars
<1>7. ReadCountExact' /\ WaitingInv'
  BY <1>c, <1>k, <1>s, ReadCountKept, WaitingKept, Zenon DEF SInv, SameClaims, queue_vars
<1>8. ReadyInv'
  <2> SUFFICES ASSUME NEW j \in ChunkNums, NEW i \in Offsets PROVE ReadyInv!(j, i)'
    BY <1>g, Zenon DEF ReadyInv
  <2>1. Begin(j)' = Begin(j) /\ (chunks[j].slots[i].ready => chunks'[j].slots[i].ready)
    BY <1>g, <1>e, <1>d, Zenon DEF SlotUpdated
  <2>2. (j # k \/ i # o) => chunks'[j].slots[i].ready = chunks[j].slots[i].ready
    BY <1>e, Zenon DEF SlotUpdated
  <2>3. \A q \in Producers : q # p /\ Writing(q) => tail_idx[q] # tail_idx[p]
    BY <1>c, Zenon DEF SInv, Indices, Writing
  <2>4. \A q \in Producers : Writing(q)' => q # p /\ Writing(q)
    BY <1>c, Zenon DEF Writing
  <2>5. ASSUME chunks'[j].slots[i].ready
        PROVE  /\ Begin(j) + i < tail_index_
               /\ \A q \in Producers : Writing(q)' => tail_idx'[q] # Begin(j) + i
    <3>1. CASE j = k /\ i = o
      BY <1>c, <1>i, <2>3, <2>4, <3>1, Zenon
    <3>2. CASE j # k \/ i # o
      BY <1>c, <2>2, <2>4, <2>5, <3>2, Zenon DEF SInv, ReadyInv
    <3> QED BY <3>1, <3>2, Zenon
  <2> QED BY <1>c, <2>1, <2>5, Zenon DEF SInv, ReadyInv, Taking, cvars, queue_vars
<1> QED BY <1>1, <1>2, <1>4, <1>5, <1>6, <1>7, <1>8, Zenon DEF SInv
-----------------------------------------------------------------------------
\* The first chunk starts at or before head_index_, which only grows.
LEMMA LoadHeadChunkKeeps == ASSUME SInv, NEW c \in Consumers, LoadHeadChunk(c) PROVE SInv'
<1> USE DEF LoadHeadChunk, AtC, GoC
<1>t. PopTyped
  BY LocalsTyped, Zenon DEF SInv
<1>1. UNCHANGED <<queue_vars, crashed, pvars, chunks>>
  BY Zenon DEF shared, queue_vars
<1>k. KeepsAll
  BY <1>1, ChunksUnchanged, Zenon DEF SInv
<1>2. SameClaims
  BY <1>t, Zenon DEF PopTyped, SameClaims, SameClaiming, Claiming, Taking
<1>3. PopTyped'
  BY <1>t, <1>1, Zenon DEF PopTyped, PopPC, SInv, TypeOK, ChunkNums
<1>4. Indices'
  BY <1>t, <1>1, Zenon DEF SInv, PopTyped, Indices, Writing, Claiming, queue_vars, pvars
<1>5. PopInv'
  <2>1. Begin(head_chunk_) <= head_index_
    BY HeadBegin, Zenon
  <2> QED BY <1>t, <1>1, <2>1, Zenon DEF SInv, PopTyped, PopInv, Begin, InChunk, queue_vars
<1> QED BY <1>k, <1>1, <1>2, <1>3, <1>4, <1>5, PopLocally, Zenon

\* The index loaded lies at or after the chunk loaded before it.
LEMMA LoadHeadIndexKeeps == ASSUME SInv, NEW c \in Consumers, LoadHeadIndex(c) PROVE SInv'
<1> USE DEF LoadHeadIndex, AtC, GoC
<1>t. PopTyped
  BY LocalsTyped, Zenon DEF SInv
<1>1. UNCHANGED <<queue_vars, crashed, pvars, chunks>>
  BY Zenon DEF shared, queue_vars
<1>k. KeepsAll
  BY <1>1, ChunksUnchanged, Zenon DEF SInv
<1>2. SameClaims
  BY <1>t, Zenon DEF PopTyped, SameClaims, SameClaiming, Claiming, Taking
<1>3. PopTyped'
  BY <1>t, <1>1, Zenon DEF PopTyped, PopPC, SInv, TypeOK, ChunkNums
<1>4. Indices'
  <2>1. head_index_ <= head_index_
    BY DEF SInv, TypeOK
  <2>2. \A d \in Consumers : /\ cpc'[d] = IF d = c THEN "empty" ELSE cpc[d]
                            /\ head_idx'[d] = IF d = c THEN head_index_ ELSE head_idx[d]
    BY <1>t, Zenon DEF PopTyped
  <2> HIDE DEF LoadHeadIndex
  <2> QED BY <1>1, <2>1, <2>2, Zenon DEF SInv, Indices, Writing, Claiming, queue_vars, pvars
<1>5. PopInv'
  BY <1>t, <1>1, Zenon DEF SInv, PopTyped, PopInv, Begin, InChunk, queue_vars
<1> QED BY <1>k, <1>1, <1>2, <1>3, <1>4, <1>5, PopLocally, Zenon

\* pop goes on only with an index below tail_index_.
LEMMA CheckEmptyKeeps == ASSUME SInv, NEW c \in Consumers, CheckEmpty(c) PROVE SInv'
<1> USE DEF CheckEmpty, AtC, GoC
<1>t. PopTyped
  BY LocalsTyped, Zenon DEF SInv
<1>1. UNCHANGED <<queue_vars, crashed, pvars, chunks>>
  BY Zenon DEF shared, queue_vars
<1>k. KeepsAll
  BY <1>1, ChunksUnchanged, Zenon DEF SInv
<1>2. SameClaims
  BY <1>t, Zenon DEF PopTyped, SameClaims, SameClaiming, Claiming, Taking
<1>3. PopTyped'
  BY <1>t, <1>1, Zenon DEF PopTyped, PopPC, ChunkNums
<1>4. Indices'
  <2>1. head_idx[c] # tail_index_ => head_idx[c] < tail_index_
    BY <1>t DEF SInv, PopTyped, TypeOK, Indices
  <2>2. UNCHANGED <<enqueued, head_index_, tail_index_, head_idx, tail_idx, ppc>>
    BY Zenon DEF shared, pvars
  <2>3. cpc \in [Consumers -> PopPC]
    BY <1>t, Zenon DEF PopTyped
  <2>4. /\ \A d \in Consumers : d # c => cpc'[d] = cpc[d]
        /\ cpc'[c] = "head_chunk" \/ (cpc'[c] = "read_count" /\ head_idx[c] # tail_index_)
    <3>1. CASE head_idx[c] = tail_index_
      <4>1. cpc' = [cpc EXCEPT ![c] = "head_chunk"]
        BY <3>1, Zenon
      <4> QED BY <2>3, <4>1, Zenon
    <3>2. CASE head_idx[c] # tail_index_
      <4>1. cpc' = [cpc EXCEPT ![c] = "read_count"]
        BY <3>2, Zenon
      <4> QED BY <2>3, <3>2, <4>1, Zenon
    <3> QED BY <3>1, <3>2, Zenon
  <2> QED BY <2>1, <2>2, <2>4 DEF SInv, Indices, Writing, Claiming
<1>5. PopInv'
  BY <1>t, <1>1 DEF SInv, PopTyped, PopInv, Begin, InChunk, queue_vars
<1> QED BY <1>k, <1>1, <1>2, <1>3, <1>4, <1>5, PopLocally, Zenon

\* A full read_count does not change any more.
LEMMA CheckReadCountKeeps == ASSUME SInv, NEW c \in Consumers, CheckReadCount(c) PROVE SInv'
<1> USE DEF CheckReadCount, AtC, GoC
<1>t. PopTyped
  BY LocalsTyped, Zenon DEF SInv
<1>1. UNCHANGED <<queue_vars, crashed, pvars, chunks>>
  BY Zenon DEF shared, queue_vars
<1>k. KeepsAll
  BY <1>1, ChunksUnchanged, Zenon DEF SInv
<1>2. SameClaims
  BY <1>t, Zenon DEF PopTyped, SameClaims, SameClaiming, Claiming, Taking
<1>3. PopTyped'
  BY <1>t, <1>1, Zenon DEF PopTyped, PopPC, ChunkNums
<1>4. Indices'
  BY <1>t, <1>1, Zenon DEF SInv, PopTyped, Indices, Writing, Claiming, queue_vars, pvars
<1>5. PopInv'
  BY <1>t, <1>1, Zenon DEF SInv, PopTyped, PopInv, Begin, InChunk, queue_vars
<1> QED BY <1>k, <1>1, <1>2, <1>3, <1>4, <1>5, PopLocally, Zenon

\* The test of ref_count changes nothing else.
LEMMA CheckRefCountKeeps == ASSUME SInv, NEW c \in Consumers, CheckRefCount(c) PROVE SInv'
<1> USE DEF CheckRefCount, AtC, GoC
<1>t. PopTyped
  BY LocalsTyped, Zenon DEF SInv
<1>1. UNCHANGED <<queue_vars, crashed, pvars, chunks>>
  BY Zenon DEF shared, queue_vars
<1>k. KeepsAll
  BY <1>1, ChunksUnchanged, Zenon DEF SInv
<1>2. SameClaims
  BY <1>t, Zenon DEF PopTyped, SameClaims, SameClaiming, Claiming, Taking
<1>3. PopTyped'
  BY <1>t, <1>1, Zenon DEF PopTyped, PopPC, ChunkNums
<1>4. Indices'
  BY <1>t, <1>1, Zenon DEF SInv, PopTyped, Indices, Writing, Claiming, queue_vars, pvars
<1>5. PopInv'
  BY <1>t, <1>1, Zenon DEF SInv, PopTyped, PopInv, Begin, InChunk, queue_vars
<1> QED BY <1>k, <1>1, <1>2, <1>3, <1>4, <1>5, PopLocally, Zenon

\* pop goes on to unlink the chunk only with its successor linked.
LEMMA CheckNextKeeps == ASSUME SInv, NEW c \in Consumers, CheckNext(c) PROVE SInv'
<1> USE DEF CheckNext, AtC, GoC
<1>t. PopTyped
  BY LocalsTyped, Zenon DEF SInv
<1>1. UNCHANGED <<queue_vars, crashed, pvars, chunks>>
  BY Zenon DEF shared, queue_vars
<1>k. KeepsAll
  BY <1>1, ChunksUnchanged, Zenon DEF SInv
<1>2. SameClaims
  BY <1>t, Zenon DEF PopTyped, SameClaims, SameClaiming, Claiming, Taking
<1>3. PopTyped'
  BY <1>t, <1>1, Zenon DEF PopTyped, PopPC, ChunkNums
<1>4. Indices'
  BY <1>t, <1>1, Zenon DEF SInv, PopTyped, Indices, Writing, Claiming, queue_vars, pvars
<1>5. PopInv'
  BY <1>t, <1>1, Zenon DEF SInv, PopTyped, PopInv, Begin, InChunk, queue_vars
<1> QED BY <1>k, <1>1, <1>2, <1>3, <1>4, <1>5, PopLocally, Zenon

\* The chunk unlinked is full, hence drained, and its successor is linked.
LEMMA CasHeadChunkKeeps ==
  ASSUME FiniteSetFacts, SInv, NEW c \in Consumers, CasHeadChunk(c) PROVE SInv'
<1> USE DEF CasHeadChunk, AtC, GoC
<1> PICK k \in ChunkNums : k = head_chunk_
  BY Zenon DEF SInv, TypeOK, ChunkNums
<1>c. /\ cpc' = [cpc EXCEPT ![c] = "delete"] /\ cpc \in [Consumers -> PopPC] /\ cpc[c] = "cas_head_chunk"
      /\ head_chunk[c] = k /\ head_chunk_' = k + 1
      /\ UNCHANGED <<head_index_, tail_chunk_, tail_index_, chunks, enqueued, crashed,
                     pvars, head_chunk, head_idx, read_chunk, value>>
  BY Zenon DEF SInv, TypeOK
<1> HIDE DEF CasHeadChunk
<1>k. KeepsAll
  BY <1>c, ChunksUnchanged, Zenon DEF SInv
<1>n. Drained(k) /\ chunks[k].next /\ k + 1 \in 1 .. Len(chunks)
  <2>1. chunks[k].next /\ chunks[k].read_count = CHUNK_SIZE
    BY <1>c, Zenon DEF SInv, PopInv
  <2>2. k + 1 \in ChunkNums
    BY <2>1, NextChunk, Zenon DEF SInv
  <2> QED BY <2>1, <2>2, FullDrained, Zenon DEF ChunkNums
<1>s. SameClaims
  BY <1>c, Zenon DEF SameClaims, SameClaiming, Claiming, Taking
<1>1. TypeOK'
  BY <1>c, <1>n, Zenon DEF SInv, TypeOK, PopPC, pvars
<1>2. Geometry' /\ PushInv' /\ LinkInv'
  <2>1. tail_index_' \in Nat /\ tail_index_ <= tail_index_'
    BY <1>c DEF SInv, TypeOK
  <2> QED BY <1>c, <1>k, <2>1, GeometryKept, PushersKept, LinkersKept, Zenon DEF SInv, KeepsAll
<1>3. Indices'
  BY <1>c, Zenon DEF SInv, Indices, Claiming, Writing, pvars
<1>4. PopInv'
  <2>1. \A d \in Consumers : cpc[d] = "delete" => head_chunk[d] < k + 1
    BY DEF SInv, TypeOK, PopInv, ChunkNums
  <2>2. k < k + 1
    BY DEF ChunkNums
  <2> QED BY <1>c, <1>n, <2>1, <2>2, Zenon DEF SInv, PopInv, InChunk, Begin
<1>5. ReclaimInv'
  <2>1. \A j \in ChunkNums : j < k + 1 => j < k \/ j = k
    BY DEF ChunkNums
  <2>2. \A j \in ChunkNums : j < k => j < k + 1
    BY DEF ChunkNums
  <2>3. ChunkNums' = ChunkNums /\ \A j \in ChunkNums : Drained(j) => Drained(j)'
    BY <1>c, <1>s, Zenon DEF Drained, ChunkNums, InChunk, Begin, SameClaims, SameClaiming
  <2> QED BY <1>c, <1>n, <2>1, <2>2, <2>3, Zenon DEF SInv, ReclaimInv
<1>6. ReadCountExact' /\ WaitingInv'
  BY <1>c, <1>s, <1>k, ReadCountKept, WaitingKept, Zenon DEF SInv, KeepsAll, SameClaims
<1>7. ReadyInv'
  <2>1. FewerWriting
    BY <1>c, Zenon DEF FewerWriting, Writing, pvars
  <2> QED BY <1>c, <1>s, <1>k, <2>1, ReadyKept, Zenon DEF SInv, KeepsAll
<1> QED BY <1>1, <1>2, <1>3, <1>4, <1>5, <1>6, <1>7, Zenon DEF SInv

\* A pop that loses the race for the first chunk starts over.
LEMMA CasHeadChunkFailsKeeps == ASSUME SInv, NEW c \in Consumers, CasHeadChunkFails(c) PROVE SInv'
<1> USE DEF CasHeadChunkFails, AtC, GoC
<1>t. PopTyped
  BY LocalsTyped, Zenon DEF SInv
<1>1. UNCHANGED <<queue_vars, crashed, pvars, chunks>>
  BY Zenon DEF shared, queue_vars
<1>k. KeepsAll
  BY <1>1, ChunksUnchanged, Zenon DEF SInv
<1>2. SameClaims
  BY <1>t, Zenon DEF PopTyped, SameClaims, SameClaiming, Claiming, Taking
<1>3. PopTyped'
  BY <1>t, <1>1, Zenon DEF PopTyped, PopPC, ChunkNums
<1>4. Indices'
  BY <1>t, <1>1, Zenon DEF SInv, PopTyped, Indices, Writing, Claiming, queue_vars, pvars
<1>5. PopInv'
  BY <1>t, <1>1, Zenon DEF SInv, PopTyped, PopInv, Begin, InChunk, queue_vars
<1> QED BY <1>k, <1>1, <1>2, <1>3, <1>4, <1>5, PopLocally, Zenon

\* The chunk deleted was unlinked before.
LEMMA DeleteChunkKeeps == ASSUME SInv, NEW c \in Consumers, DeleteChunk(c) PROVE SInv'
<1> USE DEF DeleteChunk, AtC, GoC
<1>c. /\ cpc' = [cpc EXCEPT ![c] = "head_chunk"] /\ cpc \in [Consumers -> PopPC]
      /\ cpc[c] = "delete" /\ chunks' = [chunks EXCEPT ![head_chunk[c]].deleted = TRUE]
      /\ UNCHANGED <<queue_vars, crashed, pvars, head_chunk, head_idx, read_chunk, value>>
  BY Zenon DEF SInv, TypeOK, queue_vars
<1> HIDE DEF DeleteChunk
<1>h. \A d \in Consumers : head_chunk[d] \in ChunkNums /\ read_chunk[d] \in ChunkNums
  BY Zenon DEF SInv, TypeOK, ChunkNums
<1>k. /\ KeepsChunks /\ KeepsNext /\ KeepsReadCount /\ KeepsReady
      /\ \A j \in ChunkNums \ {head_chunk[c]} : chunks'[j].deleted = chunks[j].deleted
  BY <1>c, <1>h, DeletedSet, Zenon DEF SInv
<1>e. ChunkNums' = ChunkNums /\ \A j \in ChunkNums : Begin(j)' = Begin(j)
  BY <1>k, BeginKept, Zenon
<1>s. SameClaims /\ FewerWriting
  BY <1>c, Zenon DEF SameClaims, SameClaiming, Claiming, Taking, FewerWriting, Writing, pvars
<1>1. TypeOK'
  BY <1>c, <1>k, Zenon DEF SInv, TypeOK, PopPC, pvars, queue_vars, KeepsChunks
<1>2. Geometry' /\ PushInv' /\ LinkInv'
  <2>1. tail_index_' \in Nat /\ tail_index_ <= tail_index_'
    BY <1>c DEF SInv, TypeOK, queue_vars
  <2> QED BY <1>c, <1>k, <2>1, GeometryKept, PushersKept, LinkersKept, Zenon DEF SInv, queue_vars
<1>3. Indices'
  BY <1>c, Zenon DEF SInv, Indices, Claiming, Writing, pvars, queue_vars
<1>4. PopInv'
  BY <1>c, <1>e, <1>h, <1>k DEF SInv, PopInv, InChunk, KeepsNext, KeepsReadCount, queue_vars
<1>5. ReclaimInv'
  <2>1. head_chunk[c] < head_chunk_
    BY <1>c, Zenon DEF SInv, PopInv
  <2> QED BY <1>c, <1>e, <1>k, <1>s, <2>1, Zenon
          DEF SInv, ReclaimInv, Drained, InChunk, SameClaims, SameClaiming, KeepsNext, queue_vars
<1>6. ReadCountExact' /\ WaitingInv' /\ ReadyInv'
  BY <1>c, <1>s, <1>k, ReadCountKept, WaitingKept, ReadyKept, Zenon DEF SInv, queue_vars, SameClaims
<1> QED BY <1>1, <1>2, <1>3, <1>4, <1>5, <1>6, Zenon DEF SInv

\* Taking a reference touches no flag and no read count.
LEMMA RefChunkKeeps == ASSUME SInv, NEW c \in Consumers, RefChunk(c) PROVE SInv'
<1> USE DEF RefChunk, AtC, GoC
<1>t. PopTyped
  BY LocalsTyped, Zenon DEF SInv
<1>k. KeepsAll
  BY <1>t, RefCounted, Zenon DEF SInv, PopTyped
<1>1. /\ UNCHANGED <<queue_vars, crashed, pvars, head_chunk, head_idx, read_chunk, value>>
      /\ cpc' = [cpc EXCEPT ![c] = "cas_head_index"]
  BY Zenon DEF queue_vars
<1>b. ChunkNums' = ChunkNums /\ \A k \in ChunkNums : Begin(k)' = Begin(k)
  BY <1>k, BeginKept, Zenon DEF KeepsAll
<1>2. SameClaims
  BY <1>t, Zenon DEF PopTyped, SameClaims, SameClaiming, Claiming, Taking
<1>3. PopTyped'
  BY <1>t, <1>1, <1>b, Zenon DEF PopTyped, PopPC
<1>4. Indices'
  BY <1>t, <1>1 DEF SInv, PopTyped, Indices, Writing, Claiming, queue_vars, pvars
<1>5. PopInv'
  BY <1>t, <1>1, <1>b, <1>k DEF SInv, PopTyped, PopInv, InChunk, KeepsAll, KeepsNext,
     KeepsReadCount, queue_vars
<1> QED BY <1>k, <1>1, <1>2, <1>3, <1>4, <1>5, PopLocally, Zenon

\* The CAS of head_index_ hands its index to this pop alone; it lies in no drained chunk.
LEMMA CasHeadIndexKeeps == ASSUME SInv, NEW c \in Consumers, CasHeadIndex(c) PROVE SInv'
<1> USE DEF CasHeadIndex, AtC, GoC
<1> PICK i \in Nat : i = head_index_
  BY Zenon DEF SInv, TypeOK
<1>c. /\ cpc' = [cpc EXCEPT ![c] = "walk"] /\ cpc \in [Consumers -> PopPC] /\ cpc[c] = "cas_head_index"
      /\ read_chunk' = [read_chunk EXCEPT ![c] = head_chunk[c]]
      /\ head_idx[c] = i /\ head_index_' = i + 1
      /\ UNCHANGED <<head_chunk_, tail_chunk_, tail_index_, chunks, enqueued, crashed,
                     pvars, head_chunk, head_idx, value>>
  BY Zenon DEF SInv, TypeOK
<1>k. KeepsAll
  BY <1>c, ChunksUnchanged, Zenon DEF SInv
<1>t. i < tail_index_ /\ tail_index_ \in Nat
  BY <1>c, Zenon DEF SInv, TypeOK, Indices
<1> HIDE DEF CasHeadIndex
<1>s. /\ \A d \in Consumers : (Taking(d)' <=> Taking(d) \/ d = c)
      /\ \A d \in Consumers : (Claiming(d)' <=> Claiming(d) \/ d = c)
      /\ ~Claiming(c) /\ ~Taking(c)
  BY <1>c, Zenon DEF Claiming, Taking
<1>h. \A d \in Consumers : head_idx[d] \in Nat /\ (Claiming(d) => head_idx[d] < i)
  BY Zenon DEF SInv, TypeOK, Indices
<1>e. ChunkNums' = ChunkNums /\ \A j \in ChunkNums : Begin(j)' = Begin(j) /\ Begin(j) \in Nat
  BY <1>c, ChunkTypes, Zenon DEF SInv, ChunkNums, Begin
<1>1. TypeOK'
  BY <1>c DEF SInv, TypeOK, PopPC, pvars
<1>2. Geometry' /\ PushInv' /\ LinkInv'
  <2>1. tail_index_' \in Nat /\ tail_index_ <= tail_index_'
    BY <1>c, <1>t
  <2> QED BY <1>c, <1>k, <2>1, GeometryKept, PushersKept, LinkersKept, Zenon DEF SInv, KeepsAll
<1>3. Indices'
  <2>1. Len(enqueued') = tail_index_' /\ head_index_' <= tail_index_'
    BY <1>c, <1>t DEF SInv, Indices
  <2>2. /\ \A p \in Producers : Writing(p)' => tail_idx'[p] < tail_index_'
        /\ \A p, q \in Producers : Writing(p)' /\ Writing(q)' /\ tail_idx'[p] = tail_idx'[q] => p = q
    BY <1>c, Zenon DEF SInv, Indices, Writing, pvars
  <2>3. \A d \in Consumers : Claiming(d)' => head_idx'[d] < head_index_'
    BY <1>c, <1>h, <1>s
  <2>4. \A d, e \in Consumers : Claiming(d)' /\ Claiming(e)' /\ head_idx'[d] = head_idx'[e] => d = e
    <3>1. \A d, e \in Consumers : Claiming(d) /\ Claiming(e) /\ head_idx[d] = head_idx[e] => d = e
      BY Zenon DEF SInv, Indices
    <3>2. \A d \in Consumers : Claiming(d) => head_idx[d] # i
      BY <1>h
    <3> QED BY <1>c, <1>s, <3>1, <3>2, Zenon
  <2>5. \A d \in Consumers : cpc'[d] = "empty" => head_idx'[d] <= head_index_'
    <3>1. \A d \in Consumers : cpc[d] = "empty" => head_idx[d] <= i
      BY Zenon DEF SInv, Indices
    <3> QED BY <1>c, <1>h, <3>1
  <2>6. \A d \in Consumers :
       cpc'[d] \in {"read_count", "ref_count", "next", "cas_head_chunk", "ref", "cas_head_index"}
         => head_idx'[d] < tail_index_'
    BY <1>c, Zenon DEF SInv, Indices
  <2> QED BY <2>1, <2>2, <2>3, <2>4, <2>5, <2>6, Zenon DEF Indices
<1>4. PopInv'
  <2>1. \A d \in Consumers : head_chunk[d] \in ChunkNums /\ read_chunk[d] \in ChunkNums
    BY Zenon DEF SInv, TypeOK, ChunkNums
  <2>2. /\ read_chunk'[c] = head_chunk[c] /\ cpc'[c] = "walk"
        /\ \A d \in Consumers : d # c => read_chunk'[d] = read_chunk[d] /\ cpc'[d] = cpc[d]
    BY <1>c, Zenon DEF SInv, TypeOK
  <2>3. Begin(head_chunk[c]) <= head_idx[c]
    BY <1>c, Zenon DEF SInv, PopInv
  <2> SUFFICES ASSUME NEW d \in Consumers PROVE PopInv!(d)'
    BY Zenon DEF PopInv
  <2>4. CASE d = c
    BY <1>c, <1>e, <2>1, <2>2, <2>3, <2>4
  <2>5. CASE d # c
    <3>1. cpc[d] = "head_index" => Begin(head_chunk[d]) <= i + 1
      BY <1>e, <2>1 DEF SInv, PopInv
    <3> QED BY <1>c, <1>e, <2>1, <2>2, <2>5, <3>1, Zenon DEF SInv, PopInv, InChunk
  <2> QED BY <2>4, <2>5, Zenon
<1>5. ReclaimInv'
  <2>1. ASSUME NEW k \in ChunkNums, Drained(k) PROVE Drained(k)'
    <3>1. CHUNK_SIZE \in Nat
      BY ChunkSizeAssumption, Zenon
    <3>2. Begin(k) + CHUNK_SIZE <= i
      BY <2>1, Zenon DEF Drained
    <3>3. ~InChunk(i, k)
      BY <1>e, <3>1, <3>2 DEF InChunk
    <3>4. Begin(k) + CHUNK_SIZE <= i + 1
      BY <1>e, <3>1, <3>2
    <3> QED BY <1>c, <1>e, <1>s, <2>1, <3>3, <3>4, Zenon DEF Drained, InChunk
  <2> QED BY <1>c, <1>e, <2>1, Zenon DEF SInv, ReclaimInv
<1>6. ReadCountExact'
  <2>1. \A d \in Consumers, j \in Nat : Reading(d, j)' <=> Reading(d, j) \/ (d = c /\ j = i)
    BY <1>c, Zenon DEF Reading
  <2>2. ASSUME NEW k \in ChunkNums PROVE ReadIndices(k)' = ReadIndices(k)
    <3>1. \A j \in Begin(k) .. Begin(k) + CHUNK_SIZE - 1 : j \in Nat
      BY <1>e, ChunkSizeAssumption
    <3>2. \A j \in Begin(k) .. Begin(k) + CHUNK_SIZE - 1 :
            (j < i + 1 /\ \A d \in Consumers : ~Reading(d, j)')
              <=> (j < i /\ \A d \in Consumers : ~Reading(d, j))
      BY <2>1, <3>1
    <3>3. ReadIndices(k)' = {j \in Begin(k) .. Begin(k) + CHUNK_SIZE - 1 :
                              j < i + 1 /\ \A d \in Consumers : ~Reading(d, j)'}
      BY <1>c, <1>e, Zenon DEF ReadIndices
    <3> QED BY <3>2, <3>3, Zenon DEF ReadIndices
  <2> QED BY <1>c, <2>2, Zenon DEF SInv, ReadCountExact, ChunkNums
<1>7. WaitingInv'
  <2> SUFFICES ASSUME NEW j \in 0 .. i, Begin(Len(chunks)) + CHUNK_SIZE <= j
               PROVE  \E d \in Consumers : Taking(d)' /\ head_idx[d] = j
    BY <1>c DEF WaitingInv, Begin
  <2>1. CASE j = i
    BY <1>c, <1>s, <2>1, Zenon
  <2>2. CASE j # i
    <3>1. j \in 0 .. head_index_ - 1
      BY <2>2
    <3>2. \E d \in Consumers : Taking(d) /\ head_idx[d] = j
      BY <3>1, Zenon DEF SInv, WaitingInv
    <3> QED BY <1>s, <3>2, Zenon
  <2> QED BY <2>1, <2>2, Zenon
<1>8. ReadyInv'
  <2> SUFFICES ASSUME NEW k \in ChunkNums, NEW o \in Offsets PROVE ReadyInv!(k, o)'
    BY <1>e, Zenon DEF ReadyInv
  <2>1. Begin(k) + o \in Nat
    BY <1>e, ChunkSizeAssumption DEF Offsets
  <2>2. ASSUME Begin(k) + o < i + 1, \A d \in Consumers : Taking(d)' => head_idx[d] # Begin(k) + o
        PROVE  chunks[k].slots[o].ready
    <3>1. Begin(k) + o < i
      BY <1>c, <1>s, <2>1, <2>2
    <3> QED BY <1>s, <2>2, <3>1, Zenon DEF SInv, ReadyInv
  <2> QED BY <1>c, <1>e, <2>2, Zenon DEF SInv, ReadyInv, Writing, pvars
<1> QED BY <1>1, <1>2, <1>3, <1>4, <1>5, <1>6, <1>7, <1>8, Zenon DEF SInv

\* A failed CAS of head_index_ claims nothing.
LEMMA CasHeadIndexFailsKeeps == ASSUME SInv, NEW c \in Consumers, CasHeadIndexFails(c) PROVE SInv'
<1> USE DEF CasHeadIndexFails, AtC, GoC
<1>t. PopTyped
  BY LocalsTyped, Zenon DEF SInv
<1>1. UNCHANGED <<queue_vars, crashed, pvars, chunks>>
  BY Zenon DEF shared, queue_vars
<1>k. KeepsAll
  BY <1>1, ChunksUnchanged, Zenon DEF SInv
<1>2. SameClaims
  BY <1>t, Zenon DEF PopTyped, SameClaims, SameClaiming, Claiming, Taking
<1>3. PopTyped'
  BY <1>t, <1>1, Zenon DEF PopTyped, PopPC, ChunkNums
<1>4. Indices'
  BY <1>t, <1>1, Zenon DEF SInv, PopTyped, Indices, Writing, Claiming, queue_vars, pvars
<1>5. PopInv'
  BY <1>t, <1>1, Zenon DEF SInv, PopTyped, PopInv, Begin, InChunk, queue_vars
<1> QED BY <1>k, <1>1, <1>2, <1>3, <1>4, <1>5, PopLocally, Zenon

\* The walk of pop stops in the chunk of the claimed index.
LEMMA ReadWalkKeeps == ASSUME SInv, NEW c \in Consumers, ReadWalk(c) PROVE SInv'
<1> USE DEF ReadWalk, AtC, GoC
<1>t. PopTyped
  BY LocalsTyped, Zenon DEF SInv
<1>w. /\ read_chunk[c] \in ChunkNums /\ Begin(read_chunk[c]) \in Nat
      /\ Begin(read_chunk[c]) <= head_idx[c] /\ head_idx[c] \in Nat /\ CHUNK_SIZE \in Nat
      /\ chunks[read_chunk[c]].next =>
           /\ read_chunk[c] + 1 \in ChunkNums
           /\ Begin(read_chunk[c] + 1) = Begin(read_chunk[c]) + CHUNK_SIZE
  <2>1. read_chunk[c] \in ChunkNums /\ Begin(read_chunk[c]) <= head_idx[c] /\ head_idx[c] \in Nat
    BY <1>t, Zenon DEF SInv, PopTyped, PopInv
  <2> QED BY <2>1, ChunkTypes, NextChunk, ChunkSizeAssumption, Zenon DEF SInv
<1>1. UNCHANGED <<queue_vars, crashed, pvars, chunks>>
  BY Zenon DEF shared, queue_vars
<1>k. KeepsAll
  BY <1>1, ChunksUnchanged, Zenon DEF SInv
<1>2. SameClaims
  BY <1>t, Zenon DEF PopTyped, SameClaims, SameClaiming, Claiming, Taking
<1>3. PopTyped'
  BY <1>t, <1>w, <1>1, Zenon DEF PopTyped, PopPC, ChunkNums
<1>4. Indices'
  <2>1. \A d \in Consumers : cpc'[d] # cpc[d] => cpc[d] = "walk" /\ cpc'[d] \in {"unref", "take"}
    BY <1>t, Zenon DEF PopTyped
  <2>2. UNCHANGED head_idx
    BY Zenon
  <2> HIDE DEF ReadWalk
  <2> QED BY <1>1, <2>1, <2>2, Zenon DEF SInv, Indices, Writing, Claiming, queue_vars, pvars
<1>5. PopInv'
  <2> SUFFICES ASSUME NEW d \in Consumers PROVE PopInv!(d)'
    BY Zenon DEF PopInv
  <2>1. CASE d # c
    <3>1. UNCHANGED <<head_chunk, head_idx>> /\ cpc'[d] = cpc[d] /\ read_chunk'[d] = read_chunk[d]
      BY <1>t, <2>1, Zenon DEF PopTyped
    <3> QED BY <1>1, <3>1, Zenon DEF SInv, PopInv, Begin, InChunk, queue_vars
  <2>2. CASE d = c /\ Begin(read_chunk[c]) + CHUNK_SIZE <= head_idx[c]
    <3>1. /\ cpc'[d] = "walk" /\ read_chunk'[d] = read_chunk[c] + 1
          /\ head_idx' = head_idx /\ chunks[read_chunk[c]].next
      BY <1>t, <2>2, Zenon DEF PopTyped
    <3> QED BY <1>w, <1>1, <2>2, <3>1, Zenon DEF Begin
  <2>3. CASE d = c /\ ~(Begin(read_chunk[c]) + CHUNK_SIZE <= head_idx[c])
    <3>1. cpc'[d] \in {"unref", "take"} /\ UNCHANGED <<read_chunk, head_idx>>
      BY <1>t, <2>3, Zenon DEF PopTyped
    <3>2. InChunk(head_idx[c], read_chunk[c])
      BY <1>w, <2>3 DEF InChunk
    <3> QED BY <1>1, <2>3, <3>1, <3>2, Zenon DEF Begin, InChunk
  <2> QED BY <2>1, <2>2, <2>3, Zenon
<1> QED BY <1>k, <1>1, <1>2, <1>3, <1>4, <1>5, PopLocally, Zenon

\* Nor does giving it back early.
LEMMA UnrefChunkKeeps == ASSUME SInv, NEW c \in Consumers, UnrefChunk(c) PROVE SInv'
<1> USE DEF UnrefChunk, AtC, GoC
<1>t. PopTyped
  BY LocalsTyped, Zenon DEF SInv
<1>k. KeepsAll
  BY <1>t, RefCounted, Zenon DEF SInv, PopTyped
<1>1. /\ UNCHANGED <<queue_vars, crashed, pvars, head_chunk, head_idx, read_chunk, value>>
      /\ cpc' = [cpc EXCEPT ![c] = "take"]
  BY Zenon DEF queue_vars
<1>b. ChunkNums' = ChunkNums /\ \A k \in ChunkNums : Begin(k)' = Begin(k)
  BY <1>k, BeginKept, Zenon DEF KeepsAll
<1>2. SameClaims
  BY <1>t, Zenon DEF PopTyped, SameClaims, SameClaiming, Claiming, Taking
<1>3. PopTyped'
  BY <1>t, <1>1, <1>b, Zenon DEF PopTyped, PopPC
<1>4. Indices'
  BY <1>t, <1>1 DEF SInv, PopTyped, Indices, Writing, Claiming, queue_vars, pvars
<1>5. PopInv'
  BY <1>t, <1>1, <1>b, <1>k DEF SInv, PopTyped, PopInv, InChunk, KeepsAll, KeepsNext,
     KeepsReadCount, queue_vars
<1> QED BY <1>k, <1>1, <1>2, <1>3, <1>4, <1>5, PopLocally, Zenon

\* The value leaves a slot that was ready, in the chunk of the claimed index.
LEMMA TakeValueKeeps == ASSUME SInv, NEW c \in Consumers, TakeValue(c) PROVE SInv'
<1> USE DEF TakeValue, AtC, GoC
<1> DEFINE k == read_chunk[c]
           o == ReadOffset(c)
           sl == [chunks[k].slots[o] EXCEPT !.value = Nothing]
<1>b. /\ k \in ChunkNums /\ o \in Offsets /\ chunks[k].slots[o] \in Slot
      /\ Begin(k) + o = head_idx[c] /\ InChunk(head_idx[c], k) /\ head_idx[c] < head_index_
      /\ head_idx[c] \in Nat /\ Begin(k) \in Nat
  BY PopSlot, Zenon
<1>d. sl \in Slot /\ sl.ready = chunks[k].slots[o].ready
  BY <1>b, Zenon DEF Slot
<1>e. SlotUpdated(k, o, sl)
  BY TakeWrites, Zenon
<1>k. KeepsAll
  <2> HIDE DEF sl, k, o
  <2> QED BY <1>b, <1>d, <1>e, Zenon DEF SlotUpdated, KeepsAll, KeepsReady
<1>c. /\ cpc' = [cpc EXCEPT ![c] = "count"] /\ cpc \in [Consumers -> PopPC] /\ cpc[c] = "take"
      /\ value' = [value EXCEPT ![c] = chunks[k].slots[o].value]
      /\ chunks[k].slots[o].ready
      /\ UNCHANGED <<queue_vars, crashed, pvars, head_chunk, head_idx, read_chunk>>
  BY Zenon DEF SInv, TypeOK, queue_vars
<1> HIDE DEF TakeValue, sl, k, o
<1>s. SameClaiming /\ FewerWriting /\ \A d \in Consumers : d # c => (Taking(d)' <=> Taking(d))
  BY <1>c, Zenon DEF SameClaiming, Claiming, Taking, pvars, FewerWriting, Writing
<1>1. TypeOK'
  <2>1. value' \in [Consumers -> Values \cup {Nothing, Pending, Empty}]
    BY <1>b, <1>c, Zenon DEF SInv, TypeOK, Slot
  <2>2. cpc' \in [Consumers -> PopPC] /\ chunks' \in Seq(Chunk) /\ Len(chunks') = Len(chunks)
    BY <1>c, <1>k, Zenon DEF PopPC, KeepsAll, KeepsChunks
  <2> QED BY <1>c, <2>1, <2>2, Zenon DEF SInv, TypeOK, pvars, queue_vars
<1>2. Geometry' /\ PushInv' /\ LinkInv'
  <2>1. tail_index_' \in Nat /\ tail_index_ <= tail_index_'
    BY <1>c DEF SInv, TypeOK, queue_vars
  <2> QED BY <1>c, <1>k, <2>1, GeometryKept, PushersKept, LinkersKept, Zenon
             DEF SInv, KeepsAll, queue_vars
<1>3. Indices'
  BY <1>c, Zenon DEF SInv, Indices, Claiming, Writing, pvars, queue_vars
<1>4. PopInv'
  <2>1. \A d \in Consumers : head_chunk[d] \in ChunkNums /\ read_chunk[d] \in ChunkNums
    BY Zenon DEF SInv, TypeOK, ChunkNums
  <2>2. \A j \in ChunkNums : Begin(j)' = Begin(j) /\ chunks'[j].next = chunks[j].next
                             /\ chunks'[j].read_count = chunks[j].read_count
    BY <1>k, BeginKept, Zenon DEF KeepsAll, KeepsNext, KeepsReadCount
  <2> QED BY <1>c, <2>1, <2>2, Zenon DEF SInv, PopInv, InChunk, queue_vars
<1>5. ReclaimInv' /\ ReadCountExact'
  BY <1>c, <1>s, <1>k, ReclaimedKept, ReadCountKept, Zenon DEF SInv, KeepsAll, queue_vars
<1>6. WaitingInv'
  <2> SUFFICES ASSUME NEW i \in 0 .. head_index_ - 1, Begin(Len(chunks)) + CHUNK_SIZE <= i
               PROVE  \E d \in Consumers : Taking(d)' /\ head_idx'[d] = i
    <3>1. Begin(Len(chunks))' = Begin(Len(chunks))
      BY <1>k, BeginKept, ChunkCount DEF SInv, ChunkNums, KeepsAll, KeepsChunks, Begin
    <3> QED BY <1>c, <3>1, Zenon DEF WaitingInv, queue_vars
  <2>1. PICK d \in Consumers : Taking(d) /\ head_idx[d] = i
    BY Zenon DEF SInv, WaitingInv
  <2>2. d # c
    <3>1. Len(chunks) \in ChunkNums /\ Begin(Len(chunks)) \in Nat /\ CHUNK_SIZE \in Nat
      BY ChunkCount, ChunkTypes, ChunkSizeAssumption DEF SInv, ChunkNums
    <3>2. Begin(k) <= Begin(Len(chunks))
      BY <1>b, <3>1 DEF SInv, Geometry, ChunkNums
    <3>3. head_idx[c] < Begin(Len(chunks)) + CHUNK_SIZE
      BY <1>b, <3>1, <3>2 DEF InChunk
    <3> QED BY <1>b, <3>1, <3>3, <2>1
  <2> QED BY <1>c, <1>s, <2>1, <2>2, Zenon
<1>7. ReadyInv'
  <2> SUFFICES ASSUME NEW j \in ChunkNums, NEW i \in Offsets PROVE ReadyInv!(j, i)'
    BY <1>k, BeginKept, Zenon DEF ReadyInv, KeepsAll
  <2>1. Begin(j)' = Begin(j) /\ chunks'[j].slots[i].ready = chunks[j].slots[i].ready
    BY <1>k, BeginKept, Zenon DEF KeepsAll, KeepsReady
  <2>2. Begin(j) + i = head_idx[c] => j = k /\ i = o
    <3> SUFFICES ASSUME Begin(j) + i = head_idx[c] PROVE j = k /\ i = o
      BY Zenon
    <3>1. Begin(j) \in Nat /\ i \in Nat /\ i < CHUNK_SIZE /\ CHUNK_SIZE \in Nat /\ o \in Nat
      BY <1>b, ChunkTypes, ChunkSizeAssumption DEF SInv, Offsets
    <3>2. InChunk(head_idx[c], j)
      BY <3>1 DEF InChunk
    <3>3. j = k
      BY <1>b, <3>2, OneChunk, Zenon DEF SInv
    <3> QED BY <1>b, <3>1, <3>3
  <2>3. ASSUME Begin(j) + i < head_index_, \A d \in Consumers : Taking(d)' => head_idx[d] # Begin(j) + i
        PROVE  chunks[j].slots[i].ready
    <3>1. CASE Begin(j) + i = head_idx[c]
      BY <1>c, <2>2, <3>1, Zenon
    <3>2. CASE Begin(j) + i # head_idx[c]
      <4>1. \A d \in Consumers : Taking(d) => head_idx[d] # Begin(j) + i
        BY <1>s, <2>3, <3>2, Zenon
      <4> QED BY <2>3, <4>1, Zenon DEF SInv, ReadyInv
    <3> QED BY <3>1, <3>2, Zenon
  <2> QED BY <1>c, <1>s, <2>1, <2>3, Zenon DEF SInv, ReadyInv, FewerWriting, queue_vars
<1> QED BY <1>1, <1>2, <1>3, <1>4, <1>5, <1>6, <1>7, Zenon DEF SInv

\* Counting the claimed index adds one index to those read in its chunk and none elsewhere; the
\* chunk was not full before, for this index was missing.
LEMMA CountReadKeeps ==
  ASSUME FiniteSetFacts, SInv, NEW c \in Consumers, CountRead(c) PROVE SInv'
<1> USE DEF CountRead, AtC, GoC
<1> PICK k \in ChunkNums : k = read_chunk[c]
  BY PopSlot, Zenon
<1> PICK i \in Nat : i = head_idx[c]
  BY PopSlot, Zenon
<1>b. InChunk(i, k) /\ i < head_index_ /\ Begin(k) \in Nat /\ CHUNK_SIZE \in Nat
  BY PopSlot, ChunkSizeAssumption, Zenon
<1>k. /\ KeepsChunks /\ KeepsNext /\ KeepsDeleted /\ KeepsReady
      /\ chunks'[k].read_count = chunks[k].read_count + 1
      /\ \A j \in ChunkNums \ {k} : chunks'[j].read_count = chunks[j].read_count
  BY CountSet, Zenon DEF SInv
<1>c. /\ cpc' = [cpc EXCEPT ![c] = "finish"] \/ cpc' = [cpc EXCEPT ![c] = "head_chunk"]
      /\ cpc \in [Consumers -> PopPC] /\ cpc[c] = "count"
      /\ UNCHANGED <<queue_vars, crashed, pvars, head_chunk, head_idx, read_chunk, value>>
  BY Zenon DEF SInv, TypeOK, queue_vars
<1> HIDE DEF CountRead
<1>s. /\ \A d \in Consumers : (Taking(d)' <=> Taking(d))
      /\ \A d \in Consumers : (Claiming(d)' <=> Claiming(d) /\ d # c)
      /\ Claiming(c) /\ FewerWriting
  BY <1>c, Zenon DEF Claiming, Taking, pvars, FewerWriting, Writing
<1>e. ChunkNums' = ChunkNums /\ Len(chunks') = Len(chunks) /\ \A j \in ChunkNums : Begin(j)' = Begin(j)
  BY <1>k, BeginKept, Zenon DEF KeepsChunks
<1>f. chunks[k].read_count # CHUNK_SIZE
  BY <1>b, <1>s, FullDrained, Zenon DEF Drained
<1>1. TypeOK'
  <2>1. cpc' \in [Consumers -> PopPC] /\ chunks' \in Seq(Chunk) /\ Len(chunks') = Len(chunks)
    BY <1>c, <1>k, Zenon DEF PopPC, KeepsChunks
  <2> QED BY <1>c, <2>1, Zenon DEF SInv, TypeOK, pvars, queue_vars
<1>2. Geometry' /\ PushInv' /\ LinkInv'
  <2>1. tail_index_' \in Nat /\ tail_index_ <= tail_index_'
    BY <1>c DEF SInv, TypeOK, queue_vars
  <2> QED BY <1>c, <1>k, <2>1, GeometryKept, PushersKept, LinkersKept, Zenon DEF SInv, queue_vars
<1>3. Indices'
  <2>1. \A d \in Consumers : cpc'[d] # cpc[d] => cpc'[d] \in {"finish", "head_chunk"}
    BY <1>c, Zenon
  <2> QED BY <1>c, <1>s, <2>1, Zenon DEF SInv, Indices, Writing, pvars, queue_vars
<1>4. PopInv'
  <2>1. \A d \in Consumers : head_chunk[d] \in ChunkNums /\ read_chunk[d] \in ChunkNums
    BY Zenon DEF SInv, TypeOK, ChunkNums
  <2>2. \A d \in Consumers : cpc[d] \in {"ref_count", "next", "cas_head_chunk"} =>
          chunks'[head_chunk[d]].read_count = CHUNK_SIZE
    BY <1>f, <1>k, <2>1, Zenon DEF SInv, PopInv
  <2>3. \A d \in Consumers : cpc'[d] # cpc[d] => cpc'[d] \in {"finish", "head_chunk"}
    BY <1>c, Zenon
  <2> SUFFICES ASSUME NEW d \in Consumers PROVE PopInv!(d)'
    BY Zenon DEF PopInv
  <2>4. CASE cpc'[d] = cpc[d]
    BY <1>c, <1>e, <1>k, <2>1, <2>2, <2>4, Zenon DEF SInv, PopInv, InChunk, queue_vars, KeepsNext
  <2>5. CASE cpc'[d] \in {"finish", "head_chunk"}
    BY <2>5, Zenon
  <2> QED BY <2>3, <2>4, <2>5, Zenon
<1>5. ReclaimInv'
  BY <1>c, <1>e, <1>k, <1>s, Zenon
     DEF SInv, ReclaimInv, Drained, InChunk, KeepsNext, KeepsDeleted, queue_vars
<1>6. ReadCountExact'
  <2>1. \A d \in Consumers, j \in Nat : Reading(d, j)' <=> Reading(d, j) /\ d # c
    BY <1>c, Zenon DEF Reading
  <2>2. \A d \in Consumers : Reading(d, i) => d = c
    BY <1>s, Zenon DEF SInv, Indices, Reading, Claiming
  <2>3. \A j \in Nat : j # i => ~Reading(c, j)
    BY Zenon DEF Reading
  <2>4. Reading(c, i)
    BY <1>c, Zenon DEF Reading
  <2>5. \A j \in ChunkNums : Begin(j) \in Nat
    BY ChunkTypes, Zenon DEF SInv
  <2>6. ReadIndices(k)' = ReadIndices(k) \cup {i} /\ i \notin ReadIndices(k)
    <3>1. i \in Begin(k) .. Begin(k) + CHUNK_SIZE - 1
      BY <1>b DEF InChunk
    <3>2. \A j \in Begin(k) .. Begin(k) + CHUNK_SIZE - 1 : j \in Nat
      BY <1>b
    <3>3. \A j \in Begin(k) .. Begin(k) + CHUNK_SIZE - 1 :
            (\A d \in Consumers : ~Reading(d, j)') <=> j = i \/ (\A d \in Consumers : ~Reading(d, j))
      BY <2>1, <2>2, <2>3, <2>4, <3>2, Zenon
    <3>4. ReadIndices(k)' = {j \in Begin(k) .. Begin(k) + CHUNK_SIZE - 1 :
                              j < head_index_ /\ \A d \in Consumers : ~Reading(d, j)'}
      BY <1>c, <1>e, Zenon DEF ReadIndices, queue_vars
    <3>5. ReadIndices(k)' = ReadIndices(k) \cup {i}
      BY <1>b, <3>1, <3>3, <3>4, Zenon DEF ReadIndices
    <3> QED BY <2>4, <3>5, Zenon DEF ReadIndices
  <2>7. ASSUME NEW j \in ChunkNums, j # k PROVE ReadIndices(j)' = ReadIndices(j)
    <3>1. \A m \in Begin(j) .. Begin(j) + CHUNK_SIZE - 1 : m \in Nat /\ m # i
      <4> SUFFICES ASSUME i \in Begin(j) .. Begin(j) + CHUNK_SIZE - 1 PROVE FALSE
        BY <1>b, <2>5
      <4>1. InChunk(i, j)
        BY <1>b, <2>5 DEF InChunk
      <4> QED BY <1>b, <2>7, <4>1, OneChunk, Zenon DEF SInv
    <3>2. \A m \in Begin(j) .. Begin(j) + CHUNK_SIZE - 1 :
            (\A d \in Consumers : ~Reading(d, m)') <=> (\A d \in Consumers : ~Reading(d, m))
      BY <2>1, <2>3, <3>1, Zenon
    <3>3. ReadIndices(j)' = {m \in Begin(j) .. Begin(j) + CHUNK_SIZE - 1 :
                              m < head_index_ /\ \A d \in Consumers : ~Reading(d, m)'}
      BY <1>c, <1>e, Zenon DEF ReadIndices, queue_vars
    <3> QED BY <3>2, <3>3, Zenon DEF ReadIndices
  <2>8. IsFiniteSet(ReadIndices(k))
    <3>1. IsFiniteSet(Begin(k) .. Begin(k) + CHUNK_SIZE - 1)
      <4>1. Begin(k) \in Int /\ Begin(k) + CHUNK_SIZE - 1 \in Int
        BY <1>b
      <4> QED BY <4>1, Zenon DEF FiniteSetFacts, IntervalCounted
    <3>2. ReadIndices(k) \subseteq Begin(k) .. Begin(k) + CHUNK_SIZE - 1
      BY Zenon DEF ReadIndices
    <3> QED BY <3>1, <3>2, Zenon DEF FiniteSetFacts, SubsetCounted
  <2>9. Cardinality(ReadIndices(k)') = Cardinality(ReadIndices(k)) + 1
    BY <2>6, <2>8, Zenon DEF FiniteSetFacts, AddedCounted
  <2>10. \A j \in ChunkNums : chunks'[j].read_count = Cardinality(ReadIndices(j)')
    BY <1>k, <2>7, <2>9, Zenon DEF SInv, ReadCountExact, ChunkNums
  <2> QED BY <1>e, <2>10, Zenon DEF ReadCountExact, ChunkNums
<1>7. WaitingInv'
  <2>1. Begin(Len(chunks))' = Begin(Len(chunks))
    BY <1>e, ChunkCount DEF SInv, ChunkNums, Begin
  <2> QED BY <1>c, <1>s, <2>1, Zenon DEF SInv, WaitingInv, queue_vars
<1>8. ReadyInv'
  <2> SUFFICES ASSUME NEW j \in ChunkNums, NEW o \in Offsets PROVE ReadyInv!(j, o)'
    BY <1>e, Zenon DEF ReadyInv
  <2>1. Begin(j)' = Begin(j) /\ chunks'[j].slots[o].ready = chunks[j].slots[o].ready
    BY <1>e, <1>k, Zenon DEF KeepsReady
  <2>2. UNCHANGED <<head_index_, tail_index_, head_idx>>
    BY <1>c, Zenon DEF queue_vars
  <2>3. chunks[j].slots[o].ready =>
          Begin(j) + o < tail_index_ /\ \A p \in Producers : Writing(p)' => tail_idx'[p] # Begin(j) + o
    BY <1>s, Zenon DEF SInv, ReadyInv, FewerWriting
  <2>4. Begin(j) + o < head_index_ /\ (\A d \in Consumers : Taking(d)' => head_idx[d] # Begin(j) + o)
          => chunks[j].slots[o].ready
    BY <1>s, Zenon DEF SInv, ReadyInv
  <2> QED BY <2>1, <2>2, <2>3, <2>4, Zenon
<1> QED BY <1>1, <1>2, <1>3, <1>4, <1>5, <1>6, <1>7, <1>8, Zenon DEF SInv

\* Nor does giving it back at the end.
LEMMA FinishPopKeeps == ASSUME SInv, NEW c \in Consumers, FinishPop(c) PROVE SInv'
<1> USE DEF FinishPop, AtC, GoC
<1>t. PopTyped
  BY LocalsTyped, Zenon DEF SInv
<1>k. KeepsAll
  BY <1>t, RefCounted, Zenon DEF SInv, PopTyped
<1>1. /\ UNCHANGED <<queue_vars, crashed, pvars, head_chunk, head_idx, read_chunk, value>>
      /\ cpc' = [cpc EXCEPT ![c] = "head_chunk"]
  BY Zenon DEF queue_vars
<1>b. ChunkNums' = ChunkNums /\ \A k \in ChunkNums : Begin(k)' = Begin(k)
  BY <1>k, BeginKept, Zenon DEF KeepsAll
<1>2. SameClaims
  BY <1>t, Zenon DEF PopTyped, SameClaims, SameClaiming, Claiming, Taking
<1>3. PopTyped'
  BY <1>t, <1>1, <1>b, Zenon DEF PopTyped, PopPC
<1>4. Indices'
  BY <1>t, <1>1 DEF SInv, PopTyped, Indices, Writing, Claiming, queue_vars, pvars
<1>5. PopInv'
  BY <1>t, <1>1, <1>b, <1>k DEF SInv, PopTyped, PopInv, InChunk, KeepsAll, KeepsNext,
     KeepsReadCount, queue_vars
<1> QED BY <1>k, <1>1, <1>2, <1>3, <1>4, <1>5, PopLocally, Zenon
=============================================================================
