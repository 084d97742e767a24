----------------------------- MODULE MPMCQueue -----------------------------
(***************************************************************************)
(* util/mpmc_queue.h and util/mpmc_queue.inl.h: the unbounded lock-free    *)
(* queue that carries tasks to the executors.  The queue is a linked list  *)
(* of chunks of CHUNK_SIZE slots.  A push claims an index by a CAS of      *)
(* tail_index_, finds (or links) the chunk that holds it and fills the     *)
(* slot; a pop claims an index by a CAS of head_index_ and takes the value *)
(* out of the slot.  A pop that finds the first chunk read to its end      *)
(* unlinks and deletes it.                                                 *)
(*                                                                         *)
(* Every atomic load, store and read-modify-write is a step of its own; a  *)
(* step also covers the reads of constant fields (begin_index) next to it. *)
(* A weak CAS may fail spuriously.  Memory is sequentially consistent.     *)
(*                                                                         *)
(* A chunk is named by its place in the list: only the thread whose CAS of *)
(* tail_chunk_ succeeds publishes a chunk, and it publishes the next one.  *)
(* Reading or writing a deleted chunk is undefined: the process may crash, *)
(* or the access goes to what the memory last held.                        *)
(***************************************************************************)
EXTENDS Integers, Sequences, FiniteSets

CONSTANTS Producers,          \* the threads that call push
          Consumers,          \* the threads that call pop
          CHUNK_SIZE,         \* mpmc_queue.h:14, 4096 in the code
          ItemsPerProducer,   \* bound: how many values each producer pushes
          MaxRefs             \* bound: no spurious failure leaves more references than this

ASSUME ChunkSizeAssumption == CHUNK_SIZE \in Nat \ {0}
ASSUME ConsumersAssumption == IsFiniteSet(Consumers)
ASSUME ItemsAssumption == ItemsPerProducer \in [Producers -> Nat]
ASSUME MaxRefsAssumption == MaxRefs \in Nat

VARIABLES
  head_chunk_, head_index_, tail_chunk_, tail_index_,  \* the queue's members
  chunks,       \* every chunk published so far, in list order
  enqueued,     \* history: the value of the push that claimed index i, at i + 1
  crashed,      \* an access to a deleted chunk ended the process
  ppc, tail_chunk, tail_idx, write_chunk, sent,  \* push: its step and its locals
  cpc, head_chunk, head_idx, read_chunk, value   \* pop: its step and its locals

shared == <<head_chunk_, head_index_, tail_chunk_, tail_index_, chunks, enqueued, crashed>>
pvars == <<ppc, tail_chunk, tail_idx, write_chunk, sent>>
cvars == <<cpc, head_chunk, head_idx, read_chunk, value>>
vars == <<shared, pvars, cvars>>
-----------------------------------------------------------------------------
Values == UNION {{p} \X (0 .. ItemsPerProducer[p] - 1) : p \in Producers}
Nothing == <<>>                     \* a slot that holds no value
Pending == <<"pending">>            \* pop is running
Empty == <<"empty">>                \* pop returned false

Offsets == 0 .. CHUNK_SIZE - 1
Slot == [value : Values \cup {Nothing}, ready : BOOLEAN]
Chunk == [begin_index : Nat, next : BOOLEAN, read_count : Nat, ref_count : Int,
          slots : [Offsets -> Slot], deleted : BOOLEAN]

\* next is TRUE once it points to the chunk that follows in the list.
NewChunk(begin_index) ==
  [begin_index |-> begin_index, next |-> FALSE, read_count |-> 0, ref_count |-> 0,
   slots |-> [o \in Offsets |-> [value |-> Nothing, ready |-> FALSE]],
   deleted |-> FALSE]

Begin(k) == chunks[k].begin_index
\* Index i lies in chunk k.
InChunk(i, k) == Begin(k) <= i /\ i < Begin(k) + CHUNK_SIZE

Init == /\ head_chunk_ = 1 /\ tail_chunk_ = 1
        /\ head_index_ = 0 /\ tail_index_ = 0
        /\ chunks = <<NewChunk(0)>>
        /\ enqueued = <<>> /\ crashed = FALSE
        /\ ppc = [p \in Producers |-> "tail_chunk"]
        /\ tail_chunk = [p \in Producers |-> 1]
        /\ tail_idx = [p \in Producers |-> 0]
        /\ write_chunk = [p \in Producers |-> 1]
        /\ sent = [p \in Producers |-> 0]
        /\ cpc = [c \in Consumers |-> "head_chunk"]
        /\ head_chunk = [c \in Consumers |-> 1]
        /\ head_idx = [c \in Consumers |-> 0]
        /\ read_chunk = [c \in Consumers |-> 1]
        /\ value = [c \in Consumers |-> Pending]
-----------------------------------------------------------------------------
(* push *)
ArgOf(p) == <<p, sent[p]>>
AtP(p, at) == ~crashed /\ ppc[p] = at
GoP(p, to) == ppc' = [ppc EXCEPT ![p] = to]

LoadTailChunk(p) ==
  /\ AtP(p, "tail_chunk") /\ sent[p] < ItemsPerProducer[p]
  /\ tail_chunk' = [tail_chunk EXCEPT ![p] = tail_chunk_]
  /\ GoP(p, "tail_index")
  /\ UNCHANGED <<shared, tail_idx, write_chunk, sent, cvars>>

LoadTailIndex(p) ==
  /\ AtP(p, "tail_index")
  /\ tail_idx' = [tail_idx EXCEPT ![p] = tail_index_]
  /\ GoP(p, "cas_tail_index")
  /\ UNCHANGED <<shared, tail_chunk, write_chunk, sent, cvars>>

CasTailIndex(p) ==
  /\ AtP(p, "cas_tail_index") /\ tail_index_ = tail_idx[p]
  /\ tail_index_' = tail_index_ + 1
  /\ enqueued' = Append(enqueued, ArgOf(p))
  /\ write_chunk' = [write_chunk EXCEPT ![p] = tail_chunk[p]]
  /\ GoP(p, "full")
  /\ UNCHANGED <<head_chunk_, head_index_, tail_chunk_, chunks, crashed,
                 tail_chunk, tail_idx, sent, cvars>>

CasTailIndexFails(p) ==
  /\ AtP(p, "cas_tail_index")
  /\ GoP(p, "tail_chunk")
  /\ UNCHANGED <<shared, tail_chunk, tail_idx, write_chunk, sent, cvars>>

\* Does the claimed index lie past the chunk loaded as the last one?
CheckFull(p) ==
  /\ AtP(p, "full")
  /\ GoP(p, IF tail_idx[p] >= Begin(tail_chunk[p]) + CHUNK_SIZE
            THEN "cas_tail_chunk" ELSE "store")
  /\ UNCHANGED <<shared, tail_chunk, tail_idx, write_chunk, sent, cvars>>

\* The allocation of next_chunk is local until the CAS publishes it.
CasTailChunk(p) ==
  /\ AtP(p, "cas_tail_chunk") /\ tail_chunk_ = tail_chunk[p]
  /\ tail_chunk_' = tail_chunk_ + 1
  /\ chunks' = Append(chunks, NewChunk(Begin(tail_chunk[p]) + CHUNK_SIZE))
  /\ GoP(p, "link")
  /\ UNCHANGED <<head_chunk_, head_index_, tail_index_, enqueued, crashed,
                 tail_chunk, tail_idx, write_chunk, sent, cvars>>

CasTailChunkFails(p) ==
  /\ AtP(p, "cas_tail_chunk") /\ tail_chunk_ # tail_chunk[p]
  /\ GoP(p, "walk")
  /\ UNCHANGED <<shared, tail_chunk, tail_idx, write_chunk, sent, cvars>>

\* Mutant of LinkChunk: the successor is never stored.
LinkForgotten(p) ==
  /\ AtP(p, "link") /\ GoP(p, "walk")
  /\ UNCHANGED <<shared, tail_chunk, tail_idx, write_chunk, sent, cvars>>

LinkChunk(p) ==
  /\ AtP(p, "link")
  /\ chunks' = [chunks EXCEPT ![tail_chunk[p]].next = TRUE]
  /\ GoP(p, "walk")
  /\ UNCHANGED <<head_chunk_, head_index_, tail_chunk_, tail_index_, enqueued, crashed,
                 tail_chunk, tail_idx, write_chunk, sent, cvars>>

\* One turn of the loop; it waits where the next chunk is not linked yet.
WriteWalk(p) ==
  /\ AtP(p, "walk")
  /\ IF Begin(write_chunk[p]) + CHUNK_SIZE <= tail_idx[p]
     THEN /\ chunks[write_chunk[p]].next
          /\ write_chunk' = [write_chunk EXCEPT ![p] = @ + 1]
          /\ UNCHANGED ppc
     ELSE /\ GoP(p, "store")
          /\ UNCHANGED write_chunk
  /\ UNCHANGED <<shared, tail_chunk, tail_idx, sent, cvars>>

StoreValue(p) ==
  /\ AtP(p, "store")
  /\ chunks' = [chunks EXCEPT
       ![write_chunk[p]].slots[tail_idx[p] - Begin(write_chunk[p])].value = ArgOf(p)]
  /\ GoP(p, "publish")
  /\ UNCHANGED <<head_chunk_, head_index_, tail_chunk_, tail_index_, enqueued, crashed,
                 tail_chunk, tail_idx, write_chunk, sent, cvars>>

\* ready.store(true); push returns.
Publish(p) ==
  /\ AtP(p, "publish")
  /\ chunks' = [chunks EXCEPT
       ![write_chunk[p]].slots[tail_idx[p] - Begin(write_chunk[p])].ready = TRUE]
  /\ sent' = [sent EXCEPT ![p] = @ + 1]
  /\ GoP(p, "tail_chunk")
  /\ UNCHANGED <<head_chunk_, head_index_, tail_chunk_, tail_index_, enqueued, crashed,
                 tail_chunk, tail_idx, write_chunk, cvars>>

PushStep(p) ==
  \/ LoadTailChunk(p) \/ LoadTailIndex(p) \/ CasTailIndex(p) \/ CasTailIndexFails(p)
  \/ CheckFull(p) \/ CasTailChunk(p) \/ CasTailChunkFails(p) \/ LinkChunk(p)
  \/ WriteWalk(p) \/ StoreValue(p) \/ Publish(p)
-----------------------------------------------------------------------------
(* pop *)
AtC(c, at) == ~crashed /\ cpc[c] = at
GoC(c, to) == cpc' = [cpc EXCEPT ![c] = to]

LoadHeadChunk(c) ==
  /\ AtC(c, "head_chunk")
  /\ head_chunk' = [head_chunk EXCEPT ![c] = head_chunk_]
  /\ value' = [value EXCEPT ![c] = Pending]
  /\ GoC(c, "head_index")
  /\ UNCHANGED <<shared, pvars, head_idx, read_chunk>>

LoadHeadIndex(c) ==
  /\ AtC(c, "head_index")
  /\ head_idx' = [head_idx EXCEPT ![c] = head_index_]
  /\ GoC(c, "empty")
  /\ UNCHANGED <<shared, pvars, head_chunk, read_chunk, value>>

\* Loads tail_index_: pop returns false, or goes on.
CheckEmpty(c) ==
  /\ AtC(c, "empty")
  /\ IF head_idx[c] = tail_index_
     THEN GoC(c, "head_chunk") /\ value' = [value EXCEPT ![c] = Empty]
     ELSE GoC(c, "read_count") /\ UNCHANGED value
  /\ UNCHANGED <<shared, pvars, head_chunk, head_idx, read_chunk>>

\* Mutant of CheckReadCount: off by one.
ReadCountOffByOne(c) ==
  /\ AtC(c, "read_count")
  /\ GoC(c, IF chunks[head_chunk[c]].read_count >= CHUNK_SIZE - 1 THEN "ref_count" ELSE "ref")
  /\ UNCHANGED <<shared, pvars, head_chunk, head_idx, read_chunk, value>>

CheckReadCount(c) ==
  /\ AtC(c, "read_count")
  /\ GoC(c, IF chunks[head_chunk[c]].read_count = CHUNK_SIZE THEN "ref_count" ELSE "ref")
  /\ UNCHANGED <<shared, pvars, head_chunk, head_idx, read_chunk, value>>

\* Mutant of CheckRefCount: the references are not looked at.
RefCountIgnored(c) ==
  /\ AtC(c, "ref_count") /\ GoC(c, "next")
  /\ UNCHANGED <<shared, pvars, head_chunk, head_idx, read_chunk, value>>

CheckRefCount(c) ==
  /\ AtC(c, "ref_count")
  /\ GoC(c, IF chunks[head_chunk[c]].ref_count = 0 THEN "next" ELSE "ref")
  /\ UNCHANGED <<shared, pvars, head_chunk, head_idx, read_chunk, value>>

\* Mutant of CheckNext: the successor may be null.
NextUnchecked(c) ==
  /\ AtC(c, "next") /\ GoC(c, "cas_head_chunk")
  /\ UNCHANGED <<shared, pvars, head_chunk, head_idx, read_chunk, value>>

CheckNext(c) ==
  /\ AtC(c, "next")
  /\ GoC(c, IF chunks[head_chunk[c]].next THEN "cas_head_chunk" ELSE "head_chunk")
  /\ UNCHANGED <<shared, pvars, head_chunk, head_idx, read_chunk, value>>

CasHeadChunk(c) ==
  /\ AtC(c, "cas_head_chunk") /\ head_chunk_ = head_chunk[c]
  /\ head_chunk_' = head_chunk_ + 1
  /\ GoC(c, "delete")
  /\ UNCHANGED <<head_index_, tail_chunk_, tail_index_, chunks, enqueued, crashed,
                 pvars, head_chunk, head_idx, read_chunk, value>>

CasHeadChunkFails(c) ==
  /\ AtC(c, "cas_head_chunk")
  /\ GoC(c, "head_chunk")
  /\ UNCHANGED <<shared, pvars, head_chunk, head_idx, read_chunk, value>>

DeleteChunk(c) ==
  /\ AtC(c, "delete")
  /\ chunks' = [chunks EXCEPT ![head_chunk[c]].deleted = TRUE]
  /\ GoC(c, "head_chunk")
  /\ UNCHANGED <<head_chunk_, head_index_, tail_chunk_, tail_index_, enqueued, crashed,
                 pvars, head_chunk, head_idx, read_chunk, value>>

RefChunk(c) ==
  /\ AtC(c, "ref")
  /\ chunks' = [chunks EXCEPT ![head_chunk[c]].ref_count = @ + 1]
  /\ GoC(c, "cas_head_index")
  /\ UNCHANGED <<head_chunk_, head_index_, tail_chunk_, tail_index_, enqueued, crashed,
                 pvars, head_chunk, head_idx, read_chunk, value>>

CasHeadIndex(c) ==
  /\ AtC(c, "cas_head_index") /\ head_index_ = head_idx[c]
  /\ head_index_' = head_index_ + 1
  /\ read_chunk' = [read_chunk EXCEPT ![c] = head_chunk[c]]
  /\ GoC(c, "walk")
  /\ UNCHANGED <<head_chunk_, tail_chunk_, tail_index_, chunks, enqueued, crashed,
                 pvars, head_chunk, head_idx, value>>

\* The loop starts over and the reference taken on the chunk is not given back.
CasHeadIndexFails(c) ==
  /\ AtC(c, "cas_head_index")
  /\ head_index_ # head_idx[c] \/ chunks[head_chunk[c]].ref_count <= MaxRefs
  /\ GoC(c, "head_chunk")
  /\ UNCHANGED <<shared, pvars, head_chunk, head_idx, read_chunk, value>>

ReadWalk(c) ==
  /\ AtC(c, "walk")
  /\ IF Begin(read_chunk[c]) + CHUNK_SIZE <= head_idx[c]
     THEN /\ chunks[read_chunk[c]].next
          /\ read_chunk' = [read_chunk EXCEPT ![c] = @ + 1]
          /\ UNCHANGED cpc
     ELSE /\ GoC(c, IF read_chunk[c] # head_chunk[c] THEN "unref" ELSE "take")
          /\ UNCHANGED read_chunk
  /\ UNCHANGED <<shared, pvars, head_chunk, head_idx, value>>

\* The value lies in a later chunk: the reference on the first one is given back early.
UnrefChunk(c) ==
  /\ AtC(c, "unref")
  /\ chunks' = [chunks EXCEPT ![head_chunk[c]].ref_count = @ - 1]
  /\ GoC(c, "take")
  /\ UNCHANGED <<head_chunk_, head_index_, tail_chunk_, tail_index_, enqueued, crashed,
                 pvars, head_chunk, head_idx, read_chunk, value>>

ReadOffset(c) == head_idx[c] - Begin(read_chunk[c])

\* Mutant of TakeValue: ready is not awaited.
TakeUnready(c) ==
  /\ AtC(c, "take")
  /\ value' = [value EXCEPT ![c] = chunks[read_chunk[c]].slots[ReadOffset(c)].value]
  /\ GoC(c, "count")
  /\ UNCHANGED <<shared, pvars, head_chunk, head_idx, read_chunk>>

\* Waits for the slot to be ready and moves its value out.
TakeValue(c) ==
  /\ AtC(c, "take")
  /\ chunks[read_chunk[c]].slots[ReadOffset(c)].ready
  /\ value' = [value EXCEPT ![c] = chunks[read_chunk[c]].slots[ReadOffset(c)].value]
  /\ chunks' = [chunks EXCEPT ![read_chunk[c]].slots[ReadOffset(c)].value = Nothing]
  /\ GoC(c, "count")
  /\ UNCHANGED <<head_chunk_, head_index_, tail_chunk_, tail_index_, enqueued, crashed,
                 pvars, head_chunk, head_idx, read_chunk>>

\* Mutant of CountRead: counts in the first chunk, not in the one read from.
CountInFirstChunk(c) ==
  /\ AtC(c, "count")
  /\ chunks' = [chunks EXCEPT ![head_chunk[c]].read_count = @ + 1]
  /\ GoC(c, IF read_chunk[c] = head_chunk[c] THEN "finish" ELSE "head_chunk")
  /\ UNCHANGED <<head_chunk_, head_index_, tail_chunk_, tail_index_, enqueued, crashed,
                 pvars, head_chunk, head_idx, read_chunk, value>>

CountRead(c) ==
  /\ AtC(c, "count")
  /\ chunks' = [chunks EXCEPT ![read_chunk[c]].read_count = @ + 1]
  /\ GoC(c, IF read_chunk[c] = head_chunk[c] THEN "finish" ELSE "head_chunk")
  /\ UNCHANGED <<head_chunk_, head_index_, tail_chunk_, tail_index_, enqueued, crashed,
                 pvars, head_chunk, head_idx, read_chunk, value>>

\* Mutant of FinishPop: the reference is kept.
FinishWithoutUnref(c) ==
  /\ AtC(c, "finish") /\ GoC(c, "head_chunk")
  /\ UNCHANGED <<shared, pvars, head_chunk, head_idx, read_chunk, value>>

FinishPop(c) ==
  /\ AtC(c, "finish")
  /\ chunks' = [chunks EXCEPT ![head_chunk[c]].ref_count = @ - 1]
  /\ GoC(c, "head_chunk")
  /\ UNCHANGED <<head_chunk_, head_index_, tail_chunk_, tail_index_, enqueued, crashed,
                 pvars, head_chunk, head_idx, read_chunk, value>>

PopStep(c) ==
  \/ LoadHeadChunk(c) \/ LoadHeadIndex(c) \/ CheckEmpty(c) \/ CheckReadCount(c)
  \/ CheckRefCount(c) \/ CheckNext(c) \/ CasHeadChunk(c) \/ CasHeadChunkFails(c)
  \/ DeleteChunk(c) \/ RefChunk(c) \/ CasHeadIndex(c) \/ CasHeadIndexFails(c)
  \/ ReadWalk(c) \/ UnrefChunk(c) \/ TakeValue(c) \/ CountRead(c) \/ FinishPop(c)
-----------------------------------------------------------------------------
(* The chunk a thread's next step reads or writes *)
PushAccess(p) ==
  CASE ppc[p] \in {"full", "cas_tail_chunk", "link"} -> {tail_chunk[p]}
    [] ppc[p] \in {"walk", "store", "publish"} -> {write_chunk[p]}
    [] OTHER -> {}

PopAccess(c) ==
  CASE cpc[c] \in {"read_count", "ref_count", "next", "cas_head_chunk",
                   "ref", "unref", "finish"} -> {head_chunk[c]}
    [] cpc[c] \in {"walk", "take", "count"} -> {read_chunk[c]}
    [] OTHER -> {}

\* Undefined behaviour: an access to a deleted chunk ends the process.
Crash ==
  /\ ~crashed
  /\ \E k \in UNION ({PushAccess(p) : p \in Producers} \cup {PopAccess(c) : c \in Consumers}) :
       chunks[k].deleted
  /\ crashed' = TRUE
  /\ UNCHANGED <<head_chunk_, head_index_, tail_chunk_, tail_index_, chunks, enqueued,
                 pvars, cvars>>

Next == \/ \E p \in Producers : PushStep(p)
        \/ \E c \in Consumers : PopStep(c)
        \/ Crash

Spec == Init /\ [][Next]_vars

\* Threads are scheduled, and a CAS does not fail spuriously for ever.
Fairness == /\ \A p \in Producers : /\ WF_vars(PushStep(p))
                                    /\ SF_vars(CasTailIndex(p))
            /\ \A c \in Consumers : /\ WF_vars(PopStep(c))
                                    /\ SF_vars(CasHeadIndex(c))
                                    /\ SF_vars(CasHeadChunk(c))

FairSpec == Spec /\ Fairness
-----------------------------------------------------------------------------
(* Properties *)
PushPC == {"tail_chunk", "tail_index", "cas_tail_index", "full", "cas_tail_chunk",
           "link", "walk", "store", "publish"}
PopPC == {"head_chunk", "head_index", "empty", "read_count", "ref_count", "next",
          "cas_head_chunk", "delete", "ref", "cas_head_index", "walk", "unref",
          "take", "count", "finish"}

\* Every variable has its type, and every chunk number a thread holds names a published chunk.
TypeOK ==
  /\ chunks \in Seq(Chunk)
  /\ head_chunk_ \in 1 .. Len(chunks) /\ tail_chunk_ \in 1 .. Len(chunks)
  /\ head_index_ \in Nat /\ tail_index_ \in Nat
  /\ enqueued \in Seq(Values) /\ crashed \in BOOLEAN
  /\ ppc \in [Producers -> PushPC]
  /\ tail_chunk \in [Producers -> 1 .. Len(chunks)]
  /\ tail_idx \in [Producers -> Nat]
  /\ write_chunk \in [Producers -> 1 .. Len(chunks)]
  /\ sent \in [Producers -> Nat]
  /\ cpc \in [Consumers -> PopPC]
  /\ head_chunk \in [Consumers -> 1 .. Len(chunks)]
  /\ head_idx \in [Consumers -> Nat]
  /\ read_chunk \in [Consumers -> 1 .. Len(chunks)]
  /\ value \in [Consumers -> Values \cup {Nothing, Pending, Empty}]

\* A pop that claimed index i and has not counted it as read (inl.h:55-69).
Reading(c, i) == cpc[c] \in {"walk", "unref", "take", "count"} /\ head_idx[c] = i

\* The indices of chunk k whose values were taken out and counted.
ReadIndices(k) ==
  {i \in Begin(k) .. Begin(k) + CHUNK_SIZE - 1 :
     i < head_index_ /\ \A c \in Consumers : ~Reading(c, i)}

\* read_count of every chunk is exactly the number of its indices that were popped: no
\* interleaving of pops counts an index twice, in the wrong chunk, or not at all.
ReadCountExact ==
  \A k \in 1 .. Len(chunks) : chunks[k].read_count = Cardinality(ReadIndices(k))

\* A chunk is deleted (inl.h:48) only when all CHUNK_SIZE values in it were taken out and
\* its successor is linked, so no value and no part of the list is lost with it.
DeletedOnlyWhenDrained ==
  \A k \in 1 .. Len(chunks) : chunks[k].deleted =>
     /\ ReadIndices(k) = Begin(k) .. Begin(k) + CHUNK_SIZE - 1
     /\ chunks[k].next /\ k < head_chunk_

\* The accesses to a slot (inl.h:26-28, 66-69) and to the chunk being linked (inl.h:17) go to
\* chunks that are not deleted.
SlotAccessSafe ==
  /\ \A p \in Producers : /\ ppc[p] \in {"store", "publish"} => ~chunks[write_chunk[p]].deleted
                          /\ ppc[p] = "link" => ~chunks[tail_chunk[p]].deleted
  /\ \A c \in Consumers : cpc[c] \in {"take", "count"} => ~chunks[read_chunk[c]].deleted

\* The reference a pop holds on the chunk it reads from keeps that chunk until the pop gives it
\* back (inl.h:70-72), although the pop has counted its value as read before.
ReleaseSafe ==
  \A c \in Consumers : cpc[c] = "finish" => ~chunks[head_chunk[c]].deleted

\* push and pop are linearizable: they implement an atomic first-in first-out queue.  A push
\* takes effect when it claims its index (inl.h:7), a pop when it claims its index (inl.h:55)
\* or when it loads the tail index that shows the queue empty (inl.h:39).
Fifo == INSTANCE FifoQueue WITH
          queue <- SubSeq(enqueued, head_index_ + 1, tail_index_),
          result <- [c \in Consumers |->
                       IF cpc[c] \in {"walk", "unref", "take"}
                       THEN enqueued[head_idx[c] + 1] ELSE value[c]]
ImplementsFifo == Fifo!Spec

\* Every value that the producers are to push is popped in the end, unless the process crashed.
AllTaken == /\ \A p \in Producers : sent[p] = ItemsPerProducer[p]
            /\ head_index_ = tail_index_
            /\ \A c \in Consumers : cpc[c] \notin {"walk", "unref", "take"}
EventuallyAllPopped == <>(AllTaken \/ crashed)

\* test/mpmc_queue_test.cc, PushPopExactMatch: both threads return from their loops and every
\* value was popped.
PushPopExactMatch == <>AllTaken
=============================================================================
