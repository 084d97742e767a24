---------------------------- MODULE MPMCQueueInv ----------------------------
(***************************************************************************)
(* The inductive invariant behind the safety properties of MPMCQueue.      *)
(***************************************************************************)
EXTENDS MPMCQueue

ChunkNums == 1 .. Len(chunks)

\* push has claimed tail_idx[p] (inl.h:7) and has not published the slot.
Writing(p) == ppc[p] \in {"full", "cas_tail_chunk", "link", "walk", "store", "publish"}
\* pop has claimed head_idx[c] (inl.h:55) and not yet taken the value, or not yet counted it.
Taking(c) == cpc[c] \in {"walk", "unref", "take"}
Claiming(c) == cpc[c] \in {"walk", "unref", "take", "count"}

\* The chunks cover consecutive ranges of indices; the last one is in use.
Geometry ==
  /\ tail_chunk_ = Len(chunks) /\ Begin(1) = 0
  /\ \A j, k \in ChunkNums : j < k => Begin(j) + CHUNK_SIZE <= Begin(k)
  /\ \A j, k \in ChunkNums : k = j + 1 => Begin(k) = Begin(j) + CHUNK_SIZE
  /\ \A k \in ChunkNums : k > 1 => Begin(k) < tail_index_
  /\ \A k \in ChunkNums : chunks[k].next => k < Len(chunks)

\* Indices in use.
Indices ==
  /\ Len(enqueued) = tail_index_
  /\ head_index_ <= tail_index_
  /\ \A p \in Producers : Writing(p) => tail_idx[p] < tail_index_
  /\ \A p, q \in Producers : Writing(p) /\ Writing(q) /\ tail_idx[p] = tail_idx[q] => p = q
  /\ \A c \in Consumers : Claiming(c) => head_idx[c] < head_index_
  /\ \A c, d \in Consumers : Claiming(c) /\ Claiming(d) /\ head_idx[c] = head_idx[d] => c = d
  /\ \A c \in Consumers : cpc[c] = "empty" => head_idx[c] <= head_index_
  /\ \A c \in Consumers :
       cpc[c] \in {"read_count", "ref_count", "next", "cas_head_chunk", "ref", "cas_head_index"}
         => head_idx[c] < tail_index_

\* Where a push is: its chunk starts at or before its index, and holds it in the end.
PushInv == \A p \in Producers :
  /\ ppc[p] # "tail_chunk" => sent[p] < ItemsPerProducer[p]
  /\ ppc[p] = "tail_index" => Begin(tail_chunk[p]) <= tail_index_
  /\ ppc[p] \in {"cas_tail_index", "full"} => Begin(tail_chunk[p]) <= tail_idx[p]
  /\ ppc[p] \in {"cas_tail_chunk", "link"} => Begin(tail_chunk[p]) + CHUNK_SIZE <= tail_idx[p]
  /\ ppc[p] \in {"full", "cas_tail_chunk", "link"} => write_chunk[p] = tail_chunk[p]
  /\ ppc[p] = "walk" => Begin(write_chunk[p]) <= tail_idx[p]
  /\ ppc[p] \in {"store", "publish"} => InChunk(tail_idx[p], write_chunk[p])

\* Exactly one push links a chunk's successor.
LinkInv ==
  /\ \A p \in Producers : ppc[p] = "link" =>
       tail_chunk[p] < Len(chunks) /\ ~chunks[tail_chunk[p]].next
  /\ \A p, q \in Producers :
       ppc[p] = "link" /\ ppc[q] = "link" /\ tail_chunk[p] = tail_chunk[q] => p = q

\* Where a pop is.
PopInv == \A c \in Consumers :
  /\ cpc[c] = "head_index" => Begin(head_chunk[c]) <= head_index_
  /\ cpc[c] \in {"empty", "read_count", "ref_count", "next", "cas_head_chunk", "ref",
                 "cas_head_index"} => Begin(head_chunk[c]) <= head_idx[c]
  /\ cpc[c] = "walk" => Begin(read_chunk[c]) <= head_idx[c]
  /\ cpc[c] \in {"unref", "take", "count"} => InChunk(head_idx[c], read_chunk[c])
  /\ cpc[c] \in {"ref_count", "next", "cas_head_chunk"} =>
       chunks[head_chunk[c]].read_count = CHUNK_SIZE
  /\ cpc[c] \in {"cas_head_chunk", "delete"} => chunks[head_chunk[c]].next
  /\ cpc[c] = "delete" => head_chunk[c] < head_chunk_

\* Every index of chunk k was popped and counted.
Drained(k) == /\ Begin(k) + CHUNK_SIZE <= head_index_
              /\ \A c \in Consumers : Claiming(c) => ~InChunk(head_idx[c], k)

ReclaimInv ==
  /\ \A k \in ChunkNums : k < head_chunk_ => Drained(k) /\ chunks[k].next
  /\ \A k \in ChunkNums : chunks[k].deleted => k < head_chunk_

\* A claimed index past the last chunk is still waited for.
WaitingInv == \A i \in 0 .. head_index_ - 1 :
  Begin(Len(chunks)) + CHUNK_SIZE <= i =>
    \E c \in Consumers : Taking(c) /\ head_idx[c] = i

\* A slot is ready only after its push, and is ready whenever its value was taken.
ReadyInv == \A k \in ChunkNums, o \in Offsets :
  /\ chunks[k].slots[o].ready =>
       /\ Begin(k) + o < tail_index_
       /\ \A p \in Producers : Writing(p) => tail_idx[p] # Begin(k) + o
  /\ (/\ Begin(k) + o < head_index_
      /\ \A c \in Consumers : Taking(c) => head_idx[c] # Begin(k) + o)
       => chunks[k].slots[o].ready

\* The structural part of the invariant: every index is claimed by one push and one pop, and the
\* slot of a claimed index is in a chunk that is not deleted.
SInv == /\ TypeOK /\ Geometry /\ Indices /\ PushInv /\ LinkInv /\ PopInv
        /\ ReclaimInv /\ ReadCountExact /\ WaitingInv /\ ReadyInv

\* Index i is not claimed yet, or its pop has not taken the value.
Untaken(i) == head_index_ <= i \/ \E c \in Consumers : Taking(c) /\ head_idx[c] = i

\* A ready slot holds the value enqueued at its index until a pop takes it.
ValueInv ==
  /\ \A p \in Producers : Writing(p) => enqueued[tail_idx[p] + 1] = ArgOf(p)
  /\ \A p \in Producers : ppc[p] = "publish" =>
       chunks[write_chunk[p]].slots[tail_idx[p] - Begin(write_chunk[p])].value = ArgOf(p)
  /\ \A k \in ChunkNums, o \in Offsets :
       chunks[k].slots[o].ready /\ Untaken(Begin(k) + o) =>
         chunks[k].slots[o].value = enqueued[Begin(k) + o + 1]

\* A call of pop has no outcome before it takes a value or finds the queue empty.
PendingInv == \A c \in Consumers :
  cpc[c] \notin {"head_chunk", "count", "finish"} => value[c] = Pending

\* Pop c holds a reference on chunk k.
Holding(c, k) == /\ head_chunk[c] = k
                 /\ \/ cpc[c] \in {"cas_head_index", "walk", "unref", "finish"}
                    \/ cpc[c] \in {"take", "count"} /\ read_chunk[c] = k
Holders(k) == {c \in Consumers : Holding(c, k)}

\* A chunk keeps a reference that no pop holds only where the CAS of head_index_ fails after the
\* chunk was referred to (inl.h:53-56): every other way out of pop gives back what it took.
RefsGivenBack ==
  [][\A k \in ChunkNums :
       chunks'[k].ref_count - Cardinality(Holders(k)') > chunks[k].ref_count - Cardinality(Holders(k))
         => \E c \in Consumers : CasHeadIndexFails(c)]_vars

\* The references on a chunk are at least those of the pops that hold one.
HoldInv == \A k \in ChunkNums : chunks[k].ref_count >= Cardinality(Holders(k))

\* Where the pops that refer to a chunk are: one that gave its reference back early reads from a
\* later chunk; one that is to give it back last still has the chunk it read from, which no other
\* pop is about to unlink and which is not unlinked.
HolderInv ==
  /\ \A c \in Consumers : cpc[c] = "unref" => read_chunk[c] # head_chunk[c]
  /\ \A c \in Consumers : cpc[c] = "finish" => read_chunk[c] = head_chunk[c]
  /\ \A c, d \in Consumers :
       cpc[c] \in {"next", "cas_head_chunk"} /\ cpc[d] = "finish" => head_chunk[c] # head_chunk[d]
  /\ \A c \in Consumers : cpc[c] = "finish" => head_chunk_ <= head_chunk[c]

RefInv == HoldInv /\ HolderInv

\* The invariant behind the safety properties.
IInv == SInv /\ ValueInv /\ PendingInv /\ RefInv
=============================================================================
