---------------------------- MODULE InputBuffer -----------------------------
(***************************************************************************)
(* util/input_stream.h and input_stream.cc: the bytes a connection has     *)
(* received, in a list of blocks of kBlockSize bytes.  A buffer is a       *)
(* record, and each member function an operator on buffers.  back_up and   *)
(* skip are left out: ParseFromZeroCopyStream, the only reader of the      *)
(* stream, calls neither.                                                  *)
(*                                                                         *)
(* blocks runs from first_block_ to last_block_ and cur is the place of    *)
(* cur_block_ in it.  A byte is its number in the stream.                  *)
(***************************************************************************)
EXTENDS Integers, Sequences, FiniteSetsExt

CONSTANTS kBlockSize,   \* buffer_block.h:8, 8192 in the code
          Uint32Size    \* sizeof(uint32_t), 4 in the code

ASSUME BlockAssumption == kBlockSize \in Nat \ {0} /\ Uint32Size \in 1 .. kBlockSize

NewBlock == [begin |-> 0, data |-> <<>>]
End(block) == Len(block.data)
INT32_MAX == -1         \* the value of limit_ that means "no limit"

NewInputBuffer == [blocks |-> <<NewBlock>>, cur |-> 1, read_bytes_ |-> 0,
                   consumed_bytes_ |-> 0, limit_ |-> INT32_MAX]

Cur(b) == b.blocks[b.cur]
Available(b) == End(Cur(b)) - Cur(b).begin
Readable(block, n) == SubSeq(block.data, block.begin + 1, block.begin + n)

\* The room for one read(2).
get_buffer(b) == kBlockSize - End(b.blocks[Len(b.blocks)])

\* Mutant of recv_add: a full block is not followed by a new one.
RecvAddNoBlock(b, bytes) ==
  [b EXCEPT !.blocks[Len(b.blocks)].data = @ \o bytes, !.read_bytes_ = @ + Len(bytes)]

recv_add(b, bytes) ==
  LET r == [b EXCEPT !.blocks[Len(b.blocks)].data = @ \o bytes,
                     !.read_bytes_ = @ + Len(bytes)]
  IN  IF End(r.blocks[Len(r.blocks)]) = kBlockSize
      THEN [r EXCEPT !.blocks = Append(@, NewBlock)] ELSE r

\* Mutant of LeaveFullBlock: cur_block_ stays on a block that was read to its end.
StayOnFullBlock(b) == b

\* A block read to its end is left for the next one.
LeaveFullBlock(b) ==
  IF Cur(b).begin = kBlockSize /\ b.cur < Len(b.blocks) THEN [b EXCEPT !.cur = @ + 1] ELSE b

\* n bytes of the current block are read.
Consume(b, n) == [b EXCEPT !.blocks[b.cur].begin = @ + n,
                           !.consumed_bytes_ = @ + n, !.read_bytes_ = @ - n]

\* copied is the part of the number that memcpy put where it belongs.  The bytes of the second
\* block go to value + copy_len, which counts in uint32_t: not into the number.
fetch_uint32(b) ==
  LET copy_len == Min({Available(b), Uint32Size})
      first == Consume(b, copy_len)
      both == Consume([first EXCEPT !.cur = @ + 1], Uint32Size - copy_len)
  IN  [copied |-> Readable(Cur(b), copy_len),
       buf |-> LeaveFullBlock(IF copy_len < Uint32Size THEN both ELSE first)]

\* Mutant of next: the limit is not reduced by what is handed out.
NextUnlimited(b) ==
  IF Available(b) = 0 \/ b.limit_ = 0 THEN [ok |-> FALSE, bytes |-> <<>>, buf |-> b]
  ELSE [ok |-> TRUE, bytes |-> Readable(Cur(b), Available(b)),
        buf |-> LeaveFullBlock(Consume(b, Available(b)))]

next(b) ==
  IF Available(b) = 0 \/ b.limit_ = 0 THEN [ok |-> FALSE, bytes |-> <<>>, buf |-> b]
  ELSE LET size == IF b.limit_ = INT32_MAX THEN Available(b) ELSE Min({Available(b), b.limit_})
           c == Consume(b, size)
       IN  [ok |-> TRUE, bytes |-> Readable(Cur(b), size),
            buf |-> LeaveFullBlock(
                      [c EXCEPT !.limit_ = IF @ = INT32_MAX THEN @ ELSE @ - size])]

push_limit(b, limit) == [b EXCEPT !.limit_ = limit]
pop_limit(b) == [b EXCEPT !.limit_ = INT32_MAX]
=============================================================================
