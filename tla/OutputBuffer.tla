---------------------------- MODULE OutputBuffer ----------------------------
(***************************************************************************)
(* util/output_stream.h and output_stream.cc: the bytes a connection has   *)
(* still to send, in a list of blocks of kBlockSize bytes.  A buffer is a  *)
(* record, and each member function an operator from buffers to buffers;   *)
(* of a function with a loop, the operator is one turn of the loop.        *)
(*                                                                         *)
(* blocks runs from cur_block_ to last_block_.  A byte is its number in    *)
(* the stream.                                                             *)
(***************************************************************************)
EXTENDS Integers, Sequences, FiniteSetsExt

CONSTANTS kBlockSize,   \* buffer_block.h:8, 8192 in the code
          IOV_MAX,      \* how many blocks one writev takes, 1024 on Linux
          SizeMod       \* size_t counts modulo this number

ASSUME BufferAssumption == {kBlockSize, IOV_MAX, SizeMod} \subseteq Nat \ {0}

NewBlock == [begin |-> 0, end |-> 0, data |-> [i \in 1 .. kBlockSize |-> 0]]
NewOutputBuffer == [blocks |-> <<NewBlock>>, to_write_bytes_ |-> 0]

LastBlock(b) == b.blocks[Len(b.blocks)]
AddBlock(b) == [b EXCEPT !.blocks = Append(@, NewBlock)]
Room(b) == kBlockSize - LastBlock(b).end

\* n bytes of the stream, the first of them number from, are copied to data[at + 1 ..].
memcpy(block, at, from, n) ==
  [block EXCEPT !.data =
     [i \in 1 .. kBlockSize |-> IF i \in at + 1 .. at + n THEN from + i - at - 1 ELSE @[i]]]
-----------------------------------------------------------------------------
\* n bytes, which the last block has room for.  A block that is full is followed by a new one.
append(b, from, n) ==
  LET k == LastBlock(b)
      w == [memcpy(k, k.end, from, n) EXCEPT !.end = @ + n]
      r == [b EXCEPT !.blocks[Len(b.blocks)] = w, !.to_write_bytes_ = @ + n]
  IN  IF w.end = kBlockSize THEN AddBlock(r) ELSE r

\* The rest of the last block is handed out, or a new block if it is full.
next(b) ==
  LET r == IF LastBlock(b).end = kBlockSize THEN AddBlock(b) ELSE b
  IN  [r EXCEPT !.blocks[Len(r.blocks)].end = kBlockSize, !.to_write_bytes_ = @ + Room(r)]

\* Mutant of back_up: the counter keeps the bytes that were given back.
BackUpUncounted(b, count) ==
  [b EXCEPT !.blocks[Len(b.blocks)].end = @ - Min({count, @})]

back_up(b, count) ==
  LET n == Min({count, LastBlock(b).end})
  IN  [b EXCEPT !.blocks[Len(b.blocks)].end = @ - n, !.to_write_bytes_ = @ - n]

\* Mutant of send_add: a block whose last byte was taken off stays in front.
SendAddKeepsBlock(b, left) ==
  [b EXCEPT !.blocks[1].begin = @ + Min({left, b.blocks[1].end - @})]

\* left bytes are still to be taken off: those of cur_block_ are.  If that was its last byte the
\* block is deleted; the list never becomes empty.
send_add(b, left) ==
  LET n == Min({left, b.blocks[1].end - b.blocks[1].begin})
      r == [b EXCEPT !.blocks[1].begin = @ + n]
  IN  IF r.blocks[1].begin < kBlockSize THEN r
      ELSE [r EXCEPT !.blocks = IF Len(@) = 1 THEN <<NewBlock>> ELSE Tail(@)]
-----------------------------------------------------------------------------
\* The bytes between begin and end of the blocks in front of block j,
InFront(blocks, j) ==
  Cardinality(UNION {{i} \X (blocks[i].begin + 1 .. blocks[i].end) : i \in 1 .. j - 1})

\* and those of the first m blocks, in order.
BytesOf(blocks, m) ==
  [n \in 1 .. InFront(blocks, m + 1) |->
     LET j == CHOOSE j \in 1 .. m : n \in InFront(blocks, j) + 1 .. InFront(blocks, j + 1)
     IN  blocks[j].data[blocks[j].begin + n - InFront(blocks, j)]]

\* What the iovecs of one writev point to.
get_iovecs(b) == BytesOf(b.blocks, Min({Len(b.blocks), IOV_MAX}))

\* All the bytes to send.
Unsent(b) == BytesOf(b.blocks, Len(b.blocks))
=============================================================================
