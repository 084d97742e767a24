------------------------- MODULE FrameReaderProofs --------------------------
(***************************************************************************)
(* The safety of FrameReader for any block size, any number of messages of *)
(* any sizes and any way the bytes trickle in: TypeOK, NextNeverStarves    *)
(* and MessageAsSent.                                                      *)
(***************************************************************************)
EXTENDS FrameReader, TLAPS

-----------------------------------------------------------------------------
(* The invariant *)

\* How many bytes of the stream lie in front of block j.
Base(j) == (j - 1) * kBlockSize

Block == [begin : Nat, data : Seq(Int)]
Buffer == [blocks : Seq(Block), cur : Nat, read_bytes_ : Int, consumed_bytes_ : Int, limit_ : Int]

\* Block j of L, where cur_block_ is block c, when r bytes were received: all but the last are
\* full; those in front of cur_block_ are read, those behind it are not, and cur_block_ has bytes to
\* read or room for more.
BlockHolds(k, j, L, c, r) ==
  /\ k.data = Stream(Base(j) + 1, End(k))
  /\ j < L => End(k) = kBlockSize
  /\ j = L => End(k) < kBlockSize /\ r = Base(j) + End(k)
  /\ j < c => k.begin = kBlockSize
  /\ j > c => k.begin = 0
  /\ j = c => k.begin <= End(k) /\ k.begin < kBlockSize

\* The blocks hold the first r bytes of the stream in order.
BlocksHold(blocks, c, r) ==
  /\ blocks \in Seq(Block) /\ c \in 1 .. Len(blocks)
  /\ \A j \in 1 .. Len(blocks) : BlockHolds(blocks[j], j, Len(blocks), c, r)

\* The counters agree with the blocks.
BufferInv(b, r) ==
  /\ b \in Buffer
  /\ BlocksHold(b.blocks, b.cur, r)
  /\ b.consumed_bytes_ = Base(b.cur) + b.blocks[b.cur].begin
  /\ b.read_bytes_ = r - b.consumed_bytes_

\* Where recv_fn is, and the limit it has set: what the parser still lacks of the bytes that
\* recv_fn waited for, all of them received.
RecvInv ==
  /\ pc \in {"length", "message", "parse", "done"}
  /\ part \in 1 .. NumMessages + 1
  /\ pc = "done" <=> part = NumMessages + 1
  /\ need \in Nat
  /\ pc = "length" => need = Uint32Size
  /\ pc # "parse" => buf.limit_ = INT32_MAX /\ got = <<>>
  /\ pc = "parse" => /\ got \in Seq(Int)
                     /\ buf.limit_ = need - Len(got) /\ buf.limit_ \in 0 .. buf.read_bytes_

\* How many bytes of the stream recv_fn has taken, if each length was read in one piece.
FrameInv == LengthsWhole =>
  /\ pc \in {"length", "done"} => buf.consumed_bytes_ = FrameStart(part) - 1
  /\ pc \in {"message", "parse"} => need = sizes[part]
  /\ pc = "message" => buf.consumed_bytes_ = MessageStart(part) - 1
  /\ pc = "parse" => /\ buf.consumed_bytes_ = MessageStart(part) - 1 + Len(got)
                     /\ got = Stream(MessageStart(part), Len(got))

IInv == /\ sizes \in [1 .. NumMessages -> MessageSizes]
        /\ sent \in 0 .. Total /\ recvd \in 0 .. sent
        /\ BufferInv(buf, recvd)
        /\ RecvInv
        /\ FrameInv
-----------------------------------------------------------------------------
(* Blocks and bytes *)

\* Block j + 1 starts where a full block j ends,
LEMMA BaseFacts ==
  ASSUME NEW j \in Nat \ {0}
  PROVE  Base(1) = 0 /\ Base(j) \in Nat /\ Base(j + 1) = Base(j) + kBlockSize
<1>1. kBlockSize \in Nat
  BY BlockAssumption, Zenon
<1>2. j - 1 \in Nat /\ (j + 1) - 1 = (j - 1) + 1
  OBVIOUS
<1>3. \A a \in Nat : a * kBlockSize \in Nat /\ (a + 1) * kBlockSize = a * kBlockSize + kBlockSize
  BY <1>1
<1> QED BY <1>1, <1>2, <1>3 DEF Base

\* no block starts before an earlier one ends,
LEMMA BaseMonotone ==
  ASSUME NEW i \in Nat \ {0}, NEW j \in Nat \ {0}, i < j
  PROVE  Base(i) + kBlockSize <= Base(j)
<1>1. kBlockSize \in Nat
  BY BlockAssumption, Zenon
<1>2. PICK d \in Nat : j - 1 = (i - 1) + 1 + d
  <2>1. j - i - 1 \in Nat /\ j - 1 = (i - 1) + 1 + (j - i - 1)
    OBVIOUS
  <2> QED BY <2>1, Zenon
<1>3. ((i - 1) + 1 + d) * kBlockSize = (i - 1) * kBlockSize + kBlockSize + d * kBlockSize
  BY <1>1, <1>2
<1>4. d * kBlockSize \in Nat /\ (i - 1) * kBlockSize \in Nat
  BY <1>1, <1>2
<1> QED BY <1>1, <1>2, <1>3, <1>4 DEF Base

\* and the place of a byte in its block is its number in the stream modulo the size of a block.
LEMMA BaseModulo ==
  ASSUME NEW j \in Nat \ {0}, NEW r \in Nat, r < kBlockSize
  PROVE  (Base(j) + r) % kBlockSize = r
<1>1. kBlockSize \in Nat \ {0}
  BY BlockAssumption, Zenon
<1>2. \A q \in Nat : (q * kBlockSize + r) % kBlockSize = r
  BY <1>1
<1> QED BY <1>2 DEF Base

\* A run of the stream is a sequence of so many numbers.
LEMMA StreamFacts ==
  ASSUME NEW from \in Int, NEW n \in Nat
  PROVE  /\ Stream(from, n) \in Seq(Int) /\ Len(Stream(from, n)) = n
         /\ DOMAIN Stream(from, n) = 1 .. n
         /\ \A i \in 1 .. n : Stream(from, n)[i] = from + i - 1
BY DEF Stream

\* Sequences are equal if their elements are.
LEMMA SeqEqual ==
  ASSUME NEW s \in Seq(Int), NEW t \in Seq(Int), Len(s) = Len(t),
         \A i \in 1 .. Len(s) : s[i] = t[i]
  PROVE  s = t
BY SMTT(30)

\* A sequence whose first part is a and whose second is b is their concatenation.
LEMMA JoinSeq ==
  ASSUME NEW s \in Seq(Int), NEW a \in Seq(Int), NEW b \in Seq(Int), Len(s) = Len(a) + Len(b),
         \A i \in 1 .. Len(a) : a[i] = s[i], \A i \in 1 .. Len(b) : b[i] = s[Len(a) + i]
  PROVE  a \o b = s
<1>1. a \o b \in Seq(Int) /\ Len(a \o b) = Len(s)
  OBVIOUS
<1>2. \A i \in 1 .. Len(s) : (a \o b)[i] = s[i]
  <2> SUFFICES ASSUME NEW i \in 1 .. Len(s) PROVE (a \o b)[i] = s[i]
    BY Zenon
  <2>1. CASE i <= Len(a)
    BY <2>1
  <2>2. CASE i > Len(a)
    <3>1. i - Len(a) \in 1 .. Len(b) /\ Len(a) + (i - Len(a)) = i
      BY <2>2
    <3>2. (a \o b)[i] = b[i - Len(a)]
      BY <2>2
    <3>3. b[i - Len(a)] = s[Len(a) + (i - Len(a))]
      BY <3>1, Zenon
    <3> QED BY <3>1, <3>2, <3>3, Zenon
  <2> QED BY <2>1, <2>2
<1> QED BY <1>1, <1>2, SeqEqual, Zenon

\* Two runs of the stream, one behind the other, are a run.
LEMMA StreamJoin ==
  ASSUME NEW from \in Int, NEW m \in Nat, NEW n \in Nat
  PROVE  Stream(from, m) \o Stream(from + m, n) = Stream(from, m + n)
<1>1. m + n \in Nat /\ from + m \in Int
  OBVIOUS
<1> DEFINE s == Stream(from, m)
           t == Stream(from + m, n)
           u == Stream(from, m + n)
<1>2. s \in Seq(Int) /\ Len(s) = m /\ \A i \in 1 .. m : s[i] = from + i - 1
  BY StreamFacts, Zenon
<1>3. t \in Seq(Int) /\ Len(t) = n /\ \A i \in 1 .. n : t[i] = from + m + i - 1
  BY <1>1, StreamFacts, Zenon
<1>4. u \in Seq(Int) /\ Len(u) = m + n /\ \A i \in 1 .. m + n : u[i] = from + i - 1
  BY <1>1, StreamFacts, Zenon
<1> HIDE DEF s, t, u
<1>5. Len(u) = Len(s) + Len(t)
  BY <1>2, <1>3, <1>4, Zenon
<1>6. \A i \in 1 .. Len(s) : s[i] = u[i]
  BY <1>2, <1>4
<1>7. \A i \in 1 .. Len(t) : t[i] = u[Len(s) + i]
  BY <1>2, <1>3, <1>4
<1>8. s \o t = u
  BY <1>2, <1>3, <1>4, <1>5, <1>6, <1>7, JoinSeq, Zenon
<1> QED BY <1>8, Zenon DEF s, t, u

\* A part of a run of the stream is a run.
LEMMA StreamPart ==
  ASSUME NEW from \in Int, NEW m \in Nat, NEW a \in Nat, NEW n \in Nat, a + n <= m
  PROVE  SubSeq(Stream(from, m), a + 1, a + n) = Stream(from + a, n)
<1> DEFINE s == Stream(from, m)
           u == Stream(from + a, n)
           r == SubSeq(s, a + 1, a + n)
<1>1. /\ s \in Seq(Int) /\ Len(s) = m /\ \A i \in 1 .. m : s[i] = from + i - 1
      /\ u \in Seq(Int) /\ Len(u) = n /\ \A i \in 1 .. n : u[i] = from + a + i - 1
  BY StreamFacts
<1> HIDE DEF s, u
<1>2. r \in Seq(Int) /\ Len(r) = n /\ \A i \in 1 .. n : r[i] = s[a + i]
  BY <1>1
<1>3. \A i \in 1 .. n : r[i] = u[i]
  BY <1>1, <1>2
<1>4. r = u
  <2> HIDE DEF r
  <2> QED BY <1>1, <1>2, <1>3
<1> QED BY <1>4, Zenon DEF s, u
-----------------------------------------------------------------------------
(* The blocks *)

\* A block has a begin and an end.
LEMMA BlockFacts ==
  ASSUME NEW k \in Block
  PROVE  k.begin \in Nat /\ k.data \in Seq(Int) /\ End(k) \in Nat
BY DEF Block, End

\* So has each block of a list.
LEMMA ListFacts ==
  ASSUME NEW s \in Seq(Block)
  PROVE  /\ Len(s) \in Nat
         /\ \A j \in 1 .. Len(s) : s[j] \in Block /\ s[j].begin \in Nat /\ End(s[j]) \in Nat
<1>1. Len(s) \in Nat /\ \A j \in 1 .. Len(s) : s[j] \in Block
  OBVIOUS
<1> QED BY <1>1, BlockFacts, Zenon

\* Reading n bytes of a block moves its begin, and nothing else,
LEMMA BlockMoves ==
  ASSUME NEW k \in Block, NEW n \in Nat
  PROVE  LET u == [k EXCEPT !.begin = @ + n]
         IN  u \in Block /\ u.begin = k.begin + n /\ u.data = k.data
BY DEF Block

\* in a list of blocks too.
Moved(t, s, k, n) == t = [s EXCEPT ![k].begin = @ + n]

LEMMA BeginMoves ==
  ASSUME NEW s \in Seq(Block), NEW k \in 1 .. Len(s), NEW n \in Nat, NEW t, Moved(t, s, k, n)
  PROVE  /\ t \in Seq(Block) /\ Len(t) = Len(s)
         /\ \A j \in 1 .. Len(s) : j # k => t[j] = s[j]
         /\ t[k].begin = s[k].begin + n /\ t[k].data = s[k].data
<1>1. s[k] \in Block /\ s[k].begin \in Nat /\ Len(s) \in Nat
  BY ListFacts, Zenon
<1> DEFINE u == [s[k] EXCEPT !.begin = @ + n]
<1>2. u \in Block /\ u.begin = s[k].begin + n /\ u.data = s[k].data
  BY <1>1, BlockMoves, Zenon
<1>3. t = [s EXCEPT ![k] = u]
  BY Zenon DEF Moved
<1> HIDE DEF u
<1>4. t \in Seq(Block) /\ Len(t) = Len(s) /\ t[k] = u /\ \A j \in 1 .. Len(s) : j # k => t[j] = s[j]
  BY <1>1, <1>2, <1>3
<1> QED BY <1>2, <1>4, Zenon

\* What the invariant says of block c, which is cur_block_: it is full unless it is the last.
LEMMA CurHolds ==
  ASSUME NEW s, NEW c, NEW r \in Int, BlocksHold(s, c, r)
  PROVE  /\ s \in Seq(Block) /\ Len(s) \in Nat \ {0} /\ c \in 1 .. Len(s) /\ c \in Nat \ {0}
         /\ s[c].begin \in Nat /\ End(s[c]) \in Nat
         /\ s[c].begin <= End(s[c]) /\ s[c].begin < kBlockSize
         /\ s[c].data = Stream(Base(c) + 1, End(s[c]))
         /\ c < Len(s) => End(s[c]) = kBlockSize
         /\ End(s[Len(s)]) \in Nat /\ End(s[Len(s)]) < kBlockSize
         /\ r = Base(Len(s)) + End(s[Len(s)])
<1>1. s \in Seq(Block) /\ c \in 1 .. Len(s)
  BY Zenon DEF BlocksHold
<1>2. Len(s) \in Nat \ {0} /\ c \in Nat \ {0} /\ Len(s) \in 1 .. Len(s)
  BY <1>1, ListFacts
<1>3. s[c].begin \in Nat /\ End(s[c]) \in Nat /\ End(s[Len(s)]) \in Nat
  BY <1>1, <1>2, ListFacts, Zenon
<1>4. BlockHolds(s[c], c, Len(s), c, r) /\ BlockHolds(s[Len(s)], Len(s), Len(s), c, r)
  BY <1>1, <1>2, Zenon DEF BlocksHold
<1> QED BY <1>1, <1>2, <1>3, <1>4, Zenon DEF BlockHolds

\* Reading n bytes of cur_block_ keeps the invariant of the blocks; after its last byte cur_block_ is
\* the next one, which there is.
LEMMA ReadBlock ==
  ASSUME NEW s, NEW c, NEW r \in Int, BlocksHold(s, c, r), NEW n \in Nat,
         s[c].begin + n <= End(s[c]), NEW t, Moved(t, s, c, n)
  PROVE  /\ Len(t) = Len(s) /\ t[c].begin = s[c].begin + n
         /\ t[c].begin < kBlockSize => BlocksHold(t, c, r)
         /\ t[c].begin >= kBlockSize => /\ t[c].begin = kBlockSize
                                        /\ c < Len(s) /\ t[c + 1].begin = 0
                                        /\ BlocksHold(t, c + 1, r)
<1>1. /\ s \in Seq(Block) /\ Len(s) \in Nat \ {0} /\ c \in 1 .. Len(s) /\ c \in Nat \ {0}
      /\ s[c].begin \in Nat /\ End(s[c]) \in Nat
      /\ c < Len(s) => End(s[c]) = kBlockSize
      /\ End(s[Len(s)]) < kBlockSize
  BY CurHolds, Zenon
<1>2. /\ t \in Seq(Block) /\ Len(t) = Len(s)
      /\ \A j \in 1 .. Len(s) : j # c => t[j] = s[j]
      /\ t[c].begin = s[c].begin + n /\ t[c].data = s[c].data
  <2>1. s \in Seq(Block) /\ c \in 1 .. Len(s)
    BY <1>1, Zenon
  <2> QED BY <2>1, BeginMoves
<1>3. End(t[c]) = End(s[c])
  BY <1>2, Zenon DEF End
<1>4. kBlockSize \in Nat \ {0}
  BY BlockAssumption, Zenon
<1>5. \A j \in 1 .. Len(s) : BlockHolds(s[j], j, Len(s), c, r)
  BY Zenon DEF BlocksHold
<1>6. ASSUME t[c].begin < kBlockSize PROVE BlocksHold(t, c, r)
  <2> SUFFICES ASSUME NEW j \in 1 .. Len(s) PROVE BlockHolds(t[j], j, Len(s), c, r)
    BY <1>1, <1>2, Zenon DEF BlocksHold
  <2>1. CASE j # c
    BY <2>1, <1>2, <1>5, Zenon
  <2>2. CASE j = c
    <3>1. BlockHolds(s[c], c, Len(s), c, r)
      BY <1>1, <1>5, Zenon
    <3>2. t[c].begin <= End(t[c])
      BY <1>2, <1>3, Zenon
    <3> QED BY <1>1, <1>2, <1>3, <1>6, <2>2, <3>1, <3>2 DEF BlockHolds
  <2> QED BY <2>1, <2>2, Zenon
<1>7. ASSUME t[c].begin >= kBlockSize
      PROVE  /\ t[c].begin = kBlockSize /\ c < Len(s) /\ t[c + 1].begin = 0
             /\ BlocksHold(t, c + 1, r)
  <2>1. End(s[c]) >= kBlockSize
    BY <1>1, <1>2, <1>4, <1>7
  <2>2. c # Len(s)
    BY <1>1, <1>4, <2>1
  <2>3. c < Len(s) /\ c + 1 \in 1 .. Len(s) /\ c + 1 # c
    BY <1>1, <2>2
  <2>4. t[c].begin = kBlockSize
    BY <1>1, <1>2, <1>4, <1>7, <2>3
  <2>5. \A j \in 1 .. Len(s) : j > c => t[j].begin = 0
    BY <1>1, <1>2, <1>5 DEF BlockHolds
  <2>6. t[c + 1].begin = 0
    BY <1>1, <2>3, <2>5
  <2>7. ASSUME NEW j \in 1 .. Len(s) PROVE BlockHolds(t[j], j, Len(s), c + 1, r)
    <3>1. BlockHolds(s[j], j, Len(s), c, r)
      BY <1>5, Zenon
    <3>2. t[j].data = s[j].data /\ End(t[j]) = End(s[j])
      BY <1>2, <1>3, Zenon
    <3>3. j < c + 1 => t[j].begin = kBlockSize
      <4>1. j < c + 1 => j < c \/ j = c
        BY <1>1
      <4>2. j < c => t[j].begin = kBlockSize
        BY <1>1, <1>2, <3>1 DEF BlockHolds
      <4> QED BY <4>1, <4>2, <2>4, Zenon
    <3>4. (j > c + 1 => t[j].begin = 0) /\ (j = c + 1 => t[j].begin = 0)
      BY <1>1, <2>5
    <3>5. End(t[j]) \in Nat
      BY <1>2, ListFacts, Zenon
    <3> QED BY <1>4, <3>1, <3>2, <3>3, <3>4, <3>5 DEF BlockHolds
  <2> QED BY <1>2, <2>3, <2>4, <2>6, <2>7, Zenon DEF BlocksHold
<1> QED BY <1>2, <1>6, <1>7, Zenon

\* A new block is put behind the last.
LEMMA AppendFacts ==
  ASSUME NEW s \in Seq(Block), NEW k \in Block, NEW L \in Nat, Len(s) = L
  PROVE  /\ Append(s, k) \in Seq(Block) /\ Len(Append(s, k)) = L + 1 /\ Append(s, k)[L + 1] = k
         /\ \A j \in 1 .. L : Append(s, k)[j] = s[j]
OBVIOUS

\* Adding bytes to a block moves its end, and nothing else,
LEMMA BlockGrows ==
  ASSUME NEW k \in Block, NEW d \in Seq(Int)
  PROVE  LET u == [k EXCEPT !.data = @ \o d]
         IN  u \in Block /\ u.begin = k.begin /\ u.data = k.data \o d
<1>1. k.data \o d \in Seq(Int)
  BY BlockFacts
<1>2. \A x \in Seq(Int) : LET u == [k EXCEPT !.data = x]
                          IN  u \in Block /\ u.begin = k.begin /\ u.data = x
  BY Zenon DEF Block
<1> QED BY <1>1, <1>2, Zenon

\* in a list of blocks too.
Filled(t, s, k, d) == t = [s EXCEPT ![k].data = @ \o d]

LEMMA ListGrows ==
  ASSUME NEW s \in Seq(Block), NEW k \in 1 .. Len(s), NEW d \in Seq(Int), NEW t, Filled(t, s, k, d)
  PROVE  /\ t \in Seq(Block) /\ Len(t) = Len(s)
         /\ \A j \in 1 .. Len(s) : j # k => t[j] = s[j]
         /\ t[k].begin = s[k].begin /\ t[k].data = s[k].data \o d
<1>1. s[k] \in Block /\ Len(s) \in Nat
  BY ListFacts, Zenon
<1> DEFINE u == [s[k] EXCEPT !.data = @ \o d]
<1>2. u \in Block /\ u.begin = s[k].begin /\ u.data = s[k].data \o d
  BY <1>1, BlockGrows, Zenon
<1>3. t = [s EXCEPT ![k] = u]
  BY Zenon DEF Filled
<1> HIDE DEF u
<1>4. t \in Seq(Block) /\ Len(t) = Len(s) /\ t[k] = u /\ \A j \in 1 .. Len(s) : j # k => t[j] = s[j]
  BY <1>1, <1>2, <1>3
<1> QED BY <1>2, <1>4, Zenon

\* t is s with more bytes in its last block, r in all.
FilledHolds(t, s, c, r) ==
  /\ t \in Seq(Block) /\ t[c].begin = s[c].begin
  /\ End(t[Len(t)]) # kBlockSize => BlocksHold(t, c, r)
  /\ End(t[Len(t)]) = kBlockSize => /\ BlocksHold(Append(t, NewBlock), c, r)
                                    /\ Append(t, NewBlock)[c].begin = s[c].begin

\* The next n bytes of the stream, read into the last block, keep the invariant of the blocks, with
\* a new block behind the last if that is full now.
LEMMA FillBlock ==
  ASSUME NEW s, NEW c, NEW r \in Int, BlocksHold(s, c, r), NEW n \in Nat \ {0},
         End(s[Len(s)]) + n <= kBlockSize, NEW t, Filled(t, s, Len(s), Stream(r + 1, n))
  PROVE  FilledHolds(t, s, c, r + n)
<1> DEFINE L == Len(s)
           e == End(s[L])
<1>1. /\ s \in Seq(Block) /\ L \in Nat \ {0} /\ c \in 1 .. L /\ c \in Nat \ {0}
      /\ e \in Nat /\ e < kBlockSize /\ r = Base(L) + e
  BY CurHolds, Zenon
<1>2. L \in 1 .. L
  BY <1>1
<1>3. /\ t \in Seq(Block) /\ Len(t) = L
      /\ \A j \in 1 .. L : j # L => t[j] = s[j]
      /\ t[L].begin = s[L].begin /\ t[L].data = s[L].data \o Stream(r + 1, n)
  <2> DEFINE d == Stream(r + 1, n)
  <2>1. r + 1 \in Int /\ n \in Nat
    OBVIOUS
  <2>2. d \in Seq(Int)
    BY <2>1, StreamFacts, Zenon
  <2>3. Filled(t, s, L, d)
    BY Zenon
  <2> HIDE DEF d, L
  <2>4. /\ t \in Seq(Block) /\ Len(t) = Len(s)
        /\ \A j \in 1 .. Len(s) : j # L => t[j] = s[j]
        /\ t[L].begin = s[L].begin /\ t[L].data = s[L].data \o d
    <3>1. L \in 1 .. Len(s)
      BY <1>2, Zenon DEF L
    <3>2. s \in Seq(Block)
      BY <1>1, Zenon
    <3> QED BY <2>2, <2>3, <3>1, <3>2, ListGrows
  <2> QED BY <2>4, Zenon DEF L, d
<1>4. \A j \in 1 .. L : t[j].begin = s[j].begin
  BY <1>3, Zenon
<1>5. \A j \in 1 .. L : BlockHolds(s[j], j, L, c, r)
  BY Zenon DEF BlocksHold
<1> HIDE DEF L
<1>6. /\ kBlockSize \in Nat \ {0} /\ Base(L) \in Nat /\ Base(L + 1) = Base(L) + kBlockSize
  BY <1>1, BaseFacts, BlockAssumption, Zenon
<1>7. t[L].data = Stream(Base(L) + 1, e + n) /\ End(t[L]) = e + n
  <2>1. s[L].data = Stream(Base(L) + 1, e)
    BY <1>2, <1>5, Zenon DEF BlockHolds
  <2> HIDE DEF e
  <2>2. r + 1 = (Base(L) + 1) + e /\ Base(L) + 1 \in Int /\ e + n \in Nat
    BY <1>1, <1>6, SMTT(30)
  <2>3. Stream(Base(L) + 1, e) \o Stream((Base(L) + 1) + e, n) = Stream(Base(L) + 1, e + n)
    BY <1>1, <2>2, StreamJoin, ZenonT(30)
  <2>4. t[L].data = Stream(Base(L) + 1, e + n)
    BY <1>3, <2>1, <2>2, <2>3, Zenon
  <2> QED BY <2>2, <2>4, StreamFacts DEF End
<1> HIDE DEF e
<1>8. \A j \in 1 .. L : j < L => BlockHolds(t[j], j, L, c, r + n)
  <2> SUFFICES ASSUME NEW j \in 1 .. L, j < L PROVE BlockHolds(t[j], j, L, c, r + n)
    BY Zenon
  <2>1. t[j] = s[j] /\ j # L /\ BlockHolds(s[j], j, L, c, r)
    BY <1>1, <1>3, <1>5
  <2> QED BY <2>1, Zenon DEF BlockHolds
<1>9. BlockHolds(s[L], L, L, c, r)
  BY <1>2, <1>5, Zenon
<1>10. ASSUME e + n # kBlockSize PROVE BlocksHold(t, c, r + n)
  <2>1. e + n < kBlockSize /\ r + n = Base(L) + (e + n) /\ e + n >= e
    BY <1>1, <1>6, <1>10, SMTT(30) DEF L, e
  <2>2. s[L].begin \in Nat
    BY <1>1, <1>2, ListFacts, Zenon DEF L
  <2>3. L = c => t[L].begin <= End(t[L]) /\ t[L].begin < kBlockSize
    BY <1>1, <1>3, <1>7, <1>9, <2>1, <2>2, SMTT(30) DEF BlockHolds, e
  <2>4. BlockHolds(t[L], L, L, c, r + n)
    <3>1. ~(L < L) /\ ~(L < c)
      BY <1>1
    <3>2. L > c => t[L].begin = 0
      BY <1>3, <1>9, Zenon DEF BlockHolds
    <3> QED BY <1>7, <2>1, <2>3, <3>1, <3>2, Zenon DEF BlockHolds
  <2> QED BY <1>1, <1>3, <1>8, <2>4 DEF BlocksHold
<1>11. ASSUME e + n = kBlockSize
       PROVE  BlocksHold(Append(t, NewBlock), c, r + n) /\ Append(t, NewBlock)[c].begin = s[c].begin
  <2> DEFINE u == Append(t, NewBlock)
  <2>1. NewBlock \in Block /\ NewBlock.begin = 0 /\ NewBlock.data = <<>> /\ End(NewBlock) = 0
    BY DEF NewBlock, Block, End
  <2>2. /\ u \in Seq(Block) /\ Len(u) = L + 1 /\ u[L + 1] = NewBlock
        /\ \A j \in 1 .. L : u[j] = t[j]
    <3>1. t \in Seq(Block) /\ Len(t) = L /\ L \in Nat
      BY <1>1, <1>3, Zenon
    <3>2. NewBlock \in Block
      BY <2>1, Zenon
    <3> QED BY <3>1, <3>2, AppendFacts
  <2> HIDE DEF u
  <2>3. u[c].begin = s[c].begin
    BY <1>1, <1>4, <2>2, Zenon
  <2>4. ASSUME NEW j \in 1 .. L PROVE BlockHolds(u[j], j, L + 1, c, r + n)
    <3>1. u[j] = t[j] /\ t[j].begin = s[j].begin /\ BlockHolds(s[j], j, L, c, r)
      BY <1>4, <1>5, <2>2, Zenon
    <3>2. s[j].begin \in Nat
      BY <1>1, ListFacts, Zenon DEF L
    <3>3. t[j].data = Stream(Base(j) + 1, End(t[j])) /\ End(t[j]) = kBlockSize
      <4>1. CASE j < L
        BY <1>8, <4>1, Zenon DEF BlockHolds
      <4>2. CASE j = L
        BY <1>7, <1>11, <4>2, Zenon
      <4> QED BY <1>1, <4>1, <4>2
    <3>4. j = c => s[j].begin < kBlockSize
      BY <3>1, Zenon DEF BlockHolds
    <3>5. j < L + 1 /\ j # L + 1
      BY <1>1
    <3> QED BY <1>6, <3>1, <3>2, <3>3, <3>4, <3>5 DEF BlockHolds
  <2>5. BlockHolds(u[L + 1], L + 1, L + 1, c, r + n)
    <3>1. Stream(Base(L + 1) + 1, 0) = <<>>
      BY DEF Stream
    <3>2. r + n = Base(L + 1) + 0 /\ L + 1 > c /\ 0 < kBlockSize
      <4> DEFINE x == Base(L)
      <4>1. L \in Nat /\ c \in Nat /\ c <= L /\ e \in Nat /\ r = x + e
        BY <1>1
      <4>2. x \in Nat /\ kBlockSize \in Nat \ {0} /\ Base(L + 1) = x + kBlockSize
        BY <1>6, Zenon
      <4> HIDE DEF x
      <4>3. r + n = x + kBlockSize /\ x + kBlockSize = x + kBlockSize + 0
        BY <1>11, <4>1, <4>2
      <4>4. L + 1 > c /\ 0 < kBlockSize
        BY <4>1, <4>2
      <4> QED BY <4>2, <4>3, <4>4, Zenon
    <3> QED BY <1>1, <2>1, <2>2, <3>1, <3>2 DEF BlockHolds
  <2>6. \A j \in 1 .. L + 1 : BlockHolds(u[j], j, L + 1, c, r + n)
    BY <1>1, <2>4, <2>5, SMTT(30)
  <2>7. c \in 1 .. L + 1
    BY <1>1
  <2>8. BlocksHold(u, c, r + n)
    BY <2>2, <2>6, <2>7, Zenon DEF BlocksHold
  <2> QED BY <2>3, <2>8, Zenon DEF u
<1> QED BY <1>1, <1>3, <1>4, <1>7, <1>10, <1>11, Zenon DEF FilledHolds, L, e
-----------------------------------------------------------------------------
(* The member functions of InputBuffer *)

\* The fields of a buffer.
LEMMA BufferFacts ==
  ASSUME NEW b \in Buffer
  PROVE  /\ b.blocks \in Seq(Block) /\ b.cur \in Nat /\ b.read_bytes_ \in Int
         /\ b.consumed_bytes_ \in Int /\ b.limit_ \in Int
BY Zenon DEF Buffer

\* What the invariant says of cur_block_: it has bytes to read if any block has, and all there are if
\* it is the last.
LEMMA CurBlock ==
  ASSUME NEW r \in Int, NEW b, BufferInv(b, r)
  PROVE  /\ b.consumed_bytes_ \in Nat /\ b.read_bytes_ \in Nat
         /\ Available(b) \in 0 .. b.read_bytes_
         /\ Available(b) = 0 => b.read_bytes_ = 0
         /\ b.cur = Len(b.blocks) => Available(b) = b.read_bytes_
         /\ b.cur # Len(b.blocks) => Available(b) = kBlockSize - b.blocks[b.cur].begin
<1> DEFINE s == b.blocks
           c == b.cur
           L == Len(s)
           begin == s[c].begin
           end == End(s[c])
           last == End(s[L])
<1>1. /\ L \in Nat \ {0} /\ c \in 1 .. L /\ c \in Nat \ {0}
      /\ begin \in Nat /\ end \in Nat /\ begin <= end /\ begin < kBlockSize
      /\ c < L => end = kBlockSize
      /\ last \in Nat /\ r = Base(L) + last
  BY CurHolds, Zenon DEF BufferInv
<1>2. b.consumed_bytes_ = Base(c) + begin /\ b.read_bytes_ = r - b.consumed_bytes_
  BY Zenon DEF BufferInv
<1>3. Available(b) = end - begin
  BY Zenon DEF Available, Cur
<1>4. c = L => end = last
  BY Zenon
<1> DEFINE consumed == b.consumed_bytes_
           read == b.read_bytes_
<1> HIDE DEF s, c, L, begin, end, last, consumed, read
<1>5. Base(c) \in Nat /\ Base(L) \in Nat /\ kBlockSize \in Nat
  BY <1>1, BaseFacts, BlockAssumption, Zenon
<1>6. c # L => Base(c) + kBlockSize <= Base(L) /\ c < L
  BY <1>1, BaseMonotone
<1>7. consumed = Base(c) + begin /\ read = r - consumed
  BY <1>2, Zenon DEF consumed, read
<1>8. /\ consumed \in Nat /\ read \in Nat /\ end - begin \in 0 .. read
      /\ end - begin = 0 => read = 0
      /\ c = L => end - begin = read
      /\ c # L => end - begin = kBlockSize - begin
  BY <1>1, <1>4, <1>5, <1>6, <1>7
<1> QED BY <1>1, <1>3, <1>8, Zenon DEF s, c, L, begin, consumed, read

\* cur_block_ moves to the next block.
LEMMA NextBlock ==
  ASSUME NEW d \in Buffer
  PROVE  LET f == [d EXCEPT !.cur = @ + 1] IN
         /\ f \in Buffer /\ f.cur = d.cur + 1 /\ f.blocks = d.blocks /\ f.limit_ = d.limit_
         /\ f.consumed_bytes_ = d.consumed_bytes_ /\ f.read_bytes_ = d.read_bytes_
BY DEF Buffer

\* c is b after n bytes of cur_block_ were read.
Consumed(c, b, n) ==
  /\ Moved(c.blocks, b.blocks, b.cur, n) /\ c.cur = b.cur
  /\ c.consumed_bytes_ = b.consumed_bytes_ + n /\ c.read_bytes_ = b.read_bytes_ - n

\* Reading n bytes of cur_block_, and leaving it if that was its last, keeps the invariant and
\* takes the next n bytes of the stream.
LEMMA ConsumeKeeps ==
  ASSUME NEW r \in Int, NEW b, BufferInv(b, r), NEW n \in Nat, n <= Available(b),
         NEW d \in Buffer, Consumed(d, b, n)
  PROVE  /\ BufferInv(LeaveFullBlock(d), r)
         /\ LeaveFullBlock(d).consumed_bytes_ = d.consumed_bytes_
         /\ LeaveFullBlock(d).read_bytes_ = d.read_bytes_
         /\ LeaveFullBlock(d).limit_ = d.limit_
         /\ Readable(Cur(b), n) = Stream(b.consumed_bytes_ + 1, n)
<1> DEFINE s == b.blocks
           t == d.blocks
           c == b.cur
           begin == s[c].begin
           end == End(s[c])
<1>1. BlocksHold(s, c, r) /\ b.consumed_bytes_ = Base(c) + begin
  BY Zenon DEF BufferInv
<1>2. /\ c \in 1 .. Len(s) /\ c \in Nat \ {0} /\ begin \in Nat /\ end \in Nat
      /\ s[c].data = Stream(Base(c) + 1, end)
  BY <1>1, CurHolds, Zenon
<1>3. begin + n <= end
  <2>1. n <= end - begin
    BY Zenon DEF Available, Cur
  <2> HIDE DEF begin, end
  <2> QED BY <1>2, <2>1
<1>4. Moved(t, s, c, n) /\ d.cur = c
  BY Zenon DEF Consumed
<1>5. d.consumed_bytes_ = Base(c) + begin + n /\ d.read_bytes_ = r - d.consumed_bytes_
  <2>1. /\ b.read_bytes_ = r - b.consumed_bytes_ /\ b.consumed_bytes_ \in Int
        /\ d.consumed_bytes_ = b.consumed_bytes_ + n /\ d.read_bytes_ = b.read_bytes_ - n
    BY BufferFacts, Zenon DEF BufferInv, Consumed
  <2> HIDE DEF begin
  <2> QED BY <1>1, <2>1
<1>6. Readable(Cur(b), n) = Stream(b.consumed_bytes_ + 1, n)
  <2>1. Readable(Cur(b), n) = SubSeq(Stream(Base(c) + 1, end), begin + 1, begin + n)
    BY <1>2, Zenon DEF Readable, Cur
  <2>2. Base(c) \in Nat
    BY <1>2, BaseFacts, Zenon
  <2> HIDE DEF begin, end, c
  <2>3. SubSeq(Stream(Base(c) + 1, end), begin + 1, begin + n) = Stream((Base(c) + 1) + begin, n)
    <3>1. Base(c) + 1 \in Int
      BY <2>2
    <3> QED BY <1>2, <1>3, <3>1, StreamPart, ZenonT(60)
  <2>4. (Base(c) + 1) + begin = b.consumed_bytes_ + 1
    BY <1>1, <1>2, <2>2
  <2> QED BY <2>1, <2>3, <2>4, Zenon
<1>7. /\ Len(t) = Len(s) /\ t[c].begin = begin + n
      /\ t[c].begin < kBlockSize => BlocksHold(t, c, r)
      /\ t[c].begin >= kBlockSize => /\ t[c].begin = kBlockSize
                                     /\ c < Len(s) /\ t[c + 1].begin = 0
                                     /\ BlocksHold(t, c + 1, r)
  <2> HIDE DEF s, t, c
  <2>1. BlocksHold(s, c, r) /\ s[c].begin + n <= End(s[c]) /\ Moved(t, s, c, n)
    BY <1>1, <1>3, <1>4, Zenon
  <2> QED BY <2>1, ReadBlock, Zenon
<1>8. CASE t[c].begin >= kBlockSize
  <2> DEFINE f == [d EXCEPT !.cur = @ + 1]
  <2>1. LeaveFullBlock(d) = f
    BY <1>4, <1>7, <1>8, Zenon DEF LeaveFullBlock, Cur
  <2>2. /\ f \in Buffer /\ f.cur = c + 1 /\ f.blocks = t /\ f.limit_ = d.limit_
        /\ f.consumed_bytes_ = d.consumed_bytes_ /\ f.read_bytes_ = d.read_bytes_
    BY <1>4, NextBlock, Zenon
  <2>3. Base(c + 1) = Base(c) + kBlockSize /\ Base(c) \in Nat /\ kBlockSize \in Nat
    BY <1>2, BaseFacts, BlockAssumption, Zenon
  <2> HIDE DEF f, t, c, begin
  <2>4. f.consumed_bytes_ = Base(c + 1) + t[c + 1].begin
    <3>1. begin + n = kBlockSize /\ t[c + 1].begin = 0
      BY <1>7, <1>8, Zenon
    <3>2. f.consumed_bytes_ = Base(c) + begin + n
      BY <1>5, <2>2, Zenon
    <3> QED BY <1>2, <2>3, <3>1, <3>2, SMTT(30)
  <2>5. BufferInv(f, r)
    BY <1>5, <1>7, <1>8, <2>2, <2>4, Zenon DEF BufferInv
  <2> QED BY <1>6, <2>1, <2>2, <2>5, Zenon
<1>9. CASE ~(t[c].begin >= kBlockSize)
  <2>1. t[c].begin < kBlockSize
    BY <1>2, <1>7, <1>9, BlockAssumption, SMTT(30)
  <2>2. t[c].begin # kBlockSize
    BY <2>1, BlockAssumption
  <2>3. LeaveFullBlock(d) = d
    BY <1>4, <2>2, Zenon DEF LeaveFullBlock, Cur
  <2>4. d.consumed_bytes_ = Base(c) + t[c].begin
    <3>1. Base(c) \in Nat
      BY <1>2, BaseFacts, Zenon
    <3> HIDE DEF c, t, begin
    <3> QED BY <1>2, <1>5, <1>7, <3>1
  <2>5. BufferInv(d, r)
    BY <1>4, <1>5, <1>7, <2>1, <2>4, Zenon DEF BufferInv
  <2> QED BY <1>6, <2>3, <2>5, Zenon
<1> QED BY <1>8, <1>9, Zenon

\* q is b with other blocks and another number of bytes to read.
Received(q, b, blocks, read_bytes) ==
  /\ q \in Buffer /\ q.blocks = blocks /\ q.read_bytes_ = read_bytes /\ q.cur = b.cur
  /\ q.consumed_bytes_ = b.consumed_bytes_ /\ q.limit_ = b.limit_

\* That is what recv_add makes of the fields of a buffer when bytes are added,
LEMMA WithBytes ==
  ASSUME NEW b \in Buffer, NEW x \in Seq(Block), NEW y \in Int
  PROVE  Received([b EXCEPT !.blocks = x, !.read_bytes_ = y], b, x, y)
BY Zenon DEF Buffer, Received

\* and when a block is added.
LEMMA WithBlocks ==
  ASSUME NEW b \in Buffer, NEW x \in Seq(Block)
  PROVE  Received([b EXCEPT !.blocks = x], b, x, b.read_bytes_)
BY Zenon DEF Buffer, Received

\* recv_add takes up the next n bytes of the stream.
LEMMA RecvAddKeeps ==
  ASSUME NEW r \in Int, NEW b, BufferInv(b, r), NEW n \in Nat \ {0}, n <= get_buffer(b),
         NEW d, d = recv_add(b, Stream(r + 1, n))
  PROVE  /\ BufferInv(d, r + n) /\ d.limit_ = b.limit_
         /\ d.consumed_bytes_ = b.consumed_bytes_ /\ d.read_bytes_ = b.read_bytes_ + n
<1> DEFINE s == b.blocks
           bytes == Stream(r + 1, n)
           t == [s EXCEPT ![Len(s)].data = @ \o bytes]
           q == [b EXCEPT !.blocks = t, !.read_bytes_ = b.read_bytes_ + n]
<1>1. bytes \in Seq(Int) /\ Len(bytes) = n
  <2>1. r + 1 \in Int /\ n \in Nat
    OBVIOUS
  <2> QED BY <2>1, StreamFacts, Zenon
<1>2. b \in Buffer /\ b.read_bytes_ \in Int
  BY BufferFacts, Zenon DEF BufferInv
<1>3. [b EXCEPT !.blocks[Len(b.blocks)].data = @ \o bytes, !.read_bytes_ = @ + Len(bytes)] = q
  BY <1>1, <1>2, Zenon DEF Buffer
<1>4. End(s[Len(s)]) + n <= kBlockSize
  <2>1. End(s[Len(s)]) \in Nat
    BY CurHolds, Zenon DEF BufferInv
  <2>2. n <= kBlockSize - End(s[Len(s)])
    BY Zenon DEF get_buffer
  <2> DEFINE e == End(s[Len(s)])
  <2> HIDE DEF e
  <2> QED BY <2>1, <2>2, BlockAssumption DEF e
<1> DEFINE c == b.cur
<1>5. FilledHolds(t, s, c, r + n) /\ t \in Seq(Block)
  <2>1. BlocksHold(s, c, r)
    BY Zenon DEF BufferInv
  <2>2. Filled(t, s, Len(s), Stream(r + 1, n))
    BY Zenon DEF Filled
  <2> HIDE DEF s, t, c
  <2>3. FilledHolds(t, s, c, r + n)
    BY <1>4, <2>1, <2>2, FillBlock, Zenon
  <2> QED BY <2>3, Zenon DEF FilledHolds
<1> HIDE DEF t
<1>6. /\ q \in Buffer /\ q.blocks = t /\ q.read_bytes_ = b.read_bytes_ + n /\ q.cur = c
      /\ q.consumed_bytes_ = b.consumed_bytes_ /\ q.limit_ = b.limit_
  <2> DEFINE y == b.read_bytes_ + n
  <2>1. y \in Int
    BY <1>2
  <2>2. q = [b EXCEPT !.blocks = t, !.read_bytes_ = y]
    BY Zenon
  <2> HIDE DEF y
  <2>3. Received(q, b, t, y)
    BY <1>2, <1>5, <2>1, <2>2, WithBytes, Zenon
  <2> HIDE DEF q
  <2> QED BY <2>3, Zenon DEF y, Received
<1>7. /\ b.consumed_bytes_ = Base(c) + s[c].begin
      /\ b.read_bytes_ + n = (r + n) - b.consumed_bytes_
  <2>1. b.consumed_bytes_ = Base(c) + s[c].begin /\ b.read_bytes_ = r - b.consumed_bytes_
    BY Zenon DEF BufferInv
  <2>2. b.consumed_bytes_ \in Int
    BY <1>2, BufferFacts, Zenon
  <2> QED BY <2>1, <2>2
<1> HIDE DEF q
<1>8. CASE End(t[Len(t)]) # kBlockSize
  <2>1. d = q
    BY <1>3, <1>6, <1>8, Zenon DEF recv_add
  <2>2. BufferInv(q, r + n)
    BY <1>5, <1>6, <1>7, <1>8, Zenon DEF BufferInv, FilledHolds
  <2> QED BY <1>6, <2>1, <2>2, Zenon
<1>9. CASE End(t[Len(t)]) = kBlockSize
  <2> DEFINE f == [q EXCEPT !.blocks = Append(t, NewBlock)]
  <2>1. d = f
    BY <1>3, <1>6, <1>9, Zenon DEF recv_add
  <2>2. Append(t, NewBlock) \in Seq(Block)
    BY <1>5, <1>9, Zenon DEF BlocksHold, FilledHolds
  <2>3. /\ f \in Buffer /\ f.blocks = Append(t, NewBlock) /\ f.read_bytes_ = q.read_bytes_
        /\ f.cur = q.cur /\ f.consumed_bytes_ = q.consumed_bytes_ /\ f.limit_ = q.limit_
    BY <1>6, <2>2, WithBlocks, Zenon DEF Received
  <2> HIDE DEF f
  <2>4. BufferInv(f, r + n)
    BY <1>5, <1>6, <1>7, <1>9, <2>3, Zenon DEF BufferInv, FilledHolds
  <2> QED BY <1>6, <2>1, <2>3, <2>4, Zenon
<1> QED BY <1>8, <1>9, Zenon

\* The smaller of two numbers.
LEMMA MinTwo == ASSUME NEW x \in Int, NEW y \in Int PROVE Min({x, y}) = IF x <= y THEN x ELSE y
<1> DEFINE m == IF x <= y THEN x ELSE y
<1>1. m \in {x, y} /\ \A z \in {x, y} : m <= z
  OBVIOUS
<1>2. \A w \in {x, y} : (\A z \in {x, y} : w <= z) => w = m
  OBVIOUS
<1> QED BY <1>1, <1>2, Zenon DEF Min

\* q is b with other blocks after n bytes were read.
Taken(q, b, blocks, n) ==
  /\ q \in Buffer /\ q.blocks = blocks /\ q.cur = b.cur /\ q.limit_ = b.limit_
  /\ q.consumed_bytes_ = b.consumed_bytes_ + n /\ q.read_bytes_ = b.read_bytes_ - n

\* That is what Consume makes of the counters.
LEMMA WithoutBytes ==
  ASSUME NEW b \in Buffer, NEW x \in Seq(Block), NEW n \in Nat
  PROVE  Taken([b EXCEPT !.blocks = x, !.consumed_bytes_ = @ + n, !.read_bytes_ = @ - n], b, x, n)
<1> DEFINE q == [b EXCEPT !.blocks = x, !.consumed_bytes_ = @ + n, !.read_bytes_ = @ - n]
<1>1. q.consumed_bytes_ = b.consumed_bytes_ + n /\ q.read_bytes_ = b.read_bytes_ - n
  BY Zenon DEF Buffer
<1>2. q.blocks = x /\ q.cur = b.cur /\ q.limit_ = b.limit_
  BY Zenon DEF Buffer
<1>3. b.consumed_bytes_ + n \in Int /\ b.read_bytes_ - n \in Int
  BY BufferFacts
<1>4. q = [b EXCEPT !.blocks = x, !.consumed_bytes_ = b.consumed_bytes_ + n,
                    !.read_bytes_ = b.read_bytes_ - n]
  BY Zenon DEF Buffer
<1>5. \A u, v \in Int : [b EXCEPT !.blocks = x, !.consumed_bytes_ = u, !.read_bytes_ = v] \in Buffer
  BY Zenon DEF Buffer
<1>6. q \in Buffer
  BY <1>3, <1>4, <1>5, Zenon
<1> QED BY <1>1, <1>2, <1>6, Zenon DEF Taken

\* What Consume does to the fields of a buffer.
LEMMA ConsumeFields ==
  ASSUME NEW r \in Int, NEW b, BufferInv(b, r), NEW n \in Nat
  PROVE  /\ Consume(b, n) \in Buffer /\ Consumed(Consume(b, n), b, n)
         /\ Consume(b, n).limit_ = b.limit_
<1> DEFINE t == [b.blocks EXCEPT ![b.cur].begin = @ + n]
<1>1. b \in Buffer /\ b.consumed_bytes_ \in Int /\ b.read_bytes_ \in Int
  BY BufferFacts, Zenon DEF BufferInv
<1>2. Moved(t, b.blocks, b.cur, n)
  BY Zenon DEF Moved
<1>3. b.blocks \in Seq(Block) /\ b.cur \in 1 .. Len(b.blocks)
  BY Zenon DEF BufferInv, BlocksHold
<1>4. t \in Seq(Block)
  <2> HIDE DEF t
  <2> QED BY <1>2, <1>3, BeginMoves, Zenon
<1>5. Consume(b, n) = [b EXCEPT !.blocks = t, !.consumed_bytes_ = @ + n, !.read_bytes_ = @ - n]
  BY Zenon DEF Consume
<1> HIDE DEF t
<1>6. Taken(Consume(b, n), b, t, n)
  BY <1>1, <1>4, <1>5, WithoutBytes, ZenonT(30)
<1> QED BY <1>2, <1>6, Zenon DEF Consumed, Taken

\* A number is read in one piece if cur_block_ has all of it; either way fetch_uint32 takes its bytes.
LEMMA FetchKeeps ==
  ASSUME NEW r \in Int, NEW b, BufferInv(b, r), b.read_bytes_ >= Uint32Size,
         NEW f, f = fetch_uint32(b)
  PROVE  /\ BufferInv(f.buf, r) /\ f.buf.limit_ = b.limit_
         /\ f.buf.consumed_bytes_ = b.consumed_bytes_ + Uint32Size
         /\ Available(b) >= Uint32Size => f.copied = Stream(b.consumed_bytes_ + 1, Uint32Size)
<1> DEFINE copy_len == Min({Available(b), Uint32Size})
           first == Consume(b, copy_len)
           second == [first EXCEPT !.cur = @ + 1]
           both == Consume(second, Uint32Size - copy_len)
<1>1. f.copied = Readable(Cur(b), copy_len)
  BY Zenon DEF fetch_uint32
<1>2. f.buf = LeaveFullBlock(IF copy_len < Uint32Size THEN both ELSE first)
  BY Zenon DEF fetch_uint32
<1>3. /\ Uint32Size \in Nat \ {0} /\ kBlockSize \in Nat /\ Uint32Size <= kBlockSize
      /\ b.consumed_bytes_ \in Nat /\ b.read_bytes_ \in Nat /\ Available(b) \in Nat
      /\ Available(b) <= b.read_bytes_
      /\ b.cur = Len(b.blocks) => Available(b) = b.read_bytes_
  <2>1. /\ b.consumed_bytes_ \in Nat /\ b.read_bytes_ \in Nat
        /\ Available(b) \in 0 .. b.read_bytes_
        /\ b.cur = Len(b.blocks) => Available(b) = b.read_bytes_
    BY CurBlock, Zenon
  <2>2. Uint32Size \in Nat \ {0} /\ kBlockSize \in Nat /\ Uint32Size <= kBlockSize
    BY BlockAssumption
  <2>3. Available(b) \in Nat /\ Available(b) <= b.read_bytes_
    BY <2>1
  <2> QED BY <2>1, <2>2, <2>3, Zenon
<1>4. copy_len = IF Available(b) <= Uint32Size THEN Available(b) ELSE Uint32Size
  BY <1>3, MinTwo
<1>5. copy_len \in Nat /\ copy_len <= Available(b) /\ copy_len <= Uint32Size
  BY <1>3, <1>4
<1> HIDE DEF copy_len
<1>6. first \in Buffer /\ Consumed(first, b, copy_len) /\ first.limit_ = b.limit_
  BY <1>5, ConsumeFields, Zenon
<1>7. /\ BufferInv(LeaveFullBlock(first), r)
      /\ LeaveFullBlock(first).consumed_bytes_ = first.consumed_bytes_
      /\ LeaveFullBlock(first).read_bytes_ = first.read_bytes_
      /\ LeaveFullBlock(first).limit_ = first.limit_
      /\ Readable(Cur(b), copy_len) = Stream(b.consumed_bytes_ + 1, copy_len)
  <2> HIDE DEF first
  <2> QED BY <1>5, <1>6, ConsumeKeeps, Zenon
<1>8. /\ first.consumed_bytes_ = b.consumed_bytes_ + copy_len
      /\ first.read_bytes_ = b.read_bytes_ - copy_len
      /\ Moved(first.blocks, b.blocks, b.cur, copy_len) /\ first.cur = b.cur
  BY <1>6, Zenon DEF Consumed
<1> HIDE DEF first
<1>9. CASE copy_len = Uint32Size
  <2>1. f.buf = LeaveFullBlock(first)
    BY <1>2, <1>3, <1>9
  <2> QED BY <1>1, <1>6, <1>7, <1>8, <1>9, <2>1, Zenon
<1>10. CASE copy_len # Uint32Size
  <2>1. copy_len < Uint32Size /\ copy_len = Available(b) /\ ~(Available(b) >= Uint32Size)
    BY <1>3, <1>4, <1>10
  <2>2. f.buf = LeaveFullBlock(both)
    BY <1>2, <2>1, Zenon
  <2>3. b.cur # Len(b.blocks)
    BY <1>3, <2>1, Zenon
  <2> DEFINE begin == b.blocks[b.cur].begin
             c == b.cur
  <2>4. /\ c \in 1 .. Len(b.blocks) /\ c \in Nat \ {0} /\ begin \in Nat
        /\ Available(b) = kBlockSize - begin /\ b.consumed_bytes_ = Base(c) + begin
        /\ c < Len(b.blocks) /\ b.blocks \in Seq(Block)
    <3>1. /\ b.blocks \in Seq(Block) /\ c \in 1 .. Len(b.blocks) /\ c \in Nat \ {0}
          /\ begin \in Nat /\ b.consumed_bytes_ = Base(c) + begin /\ Len(b.blocks) \in Nat
      BY CurHolds, Zenon DEF BufferInv
    <3>2. Available(b) = kBlockSize - begin
      BY <2>3, CurBlock, Zenon
    <3> QED BY <2>3, <3>1, <3>2
  <2>5. first.blocks[c].begin = begin + copy_len /\ Len(first.blocks) = Len(b.blocks)
    <3> DEFINE s == b.blocks
               t == first.blocks
    <3>1. Moved(t, s, c, copy_len) /\ s \in Seq(Block) /\ c \in 1 .. Len(s)
      BY <1>8, <2>4, Zenon
    <3> HIDE DEF s, t, c
    <3>2. t[c].begin = s[c].begin + copy_len /\ Len(t) = Len(s)
      BY <1>5, <3>1, BeginMoves
    <3> QED BY <3>2, Zenon DEF s, t, c
  <2> HIDE DEF begin, c
  <2>6. begin + copy_len = kBlockSize
    BY <1>3, <2>1, <2>4
  <2>7. LeaveFullBlock(first) = second
    <3>1. Cur(first).begin = kBlockSize /\ first.cur < Len(first.blocks)
      BY <1>8, <2>4, <2>5, <2>6, Zenon DEF Cur, c
    <3> QED BY <3>1, Zenon DEF LeaveFullBlock
  <2>8. second.cur = c + 1 /\ BufferInv(second, r)
    BY <1>6, <1>7, <1>8, <2>7, NextBlock, Zenon DEF c
  <2>9. /\ second.consumed_bytes_ = b.consumed_bytes_ + copy_len
        /\ second.read_bytes_ = b.read_bytes_ - copy_len /\ second.limit_ = b.limit_
    BY <1>6, <1>7, <1>8, <2>7, Zenon
  <2> HIDE DEF second
  <2>10. second.blocks[c + 1].begin = 0
    <3>1. second.consumed_bytes_ = Base(c + 1) + second.blocks[c + 1].begin
      BY <2>8, Zenon DEF BufferInv
    <3>2. second.blocks[c + 1].begin \in Nat
      BY <2>8, CurHolds, Zenon DEF BufferInv
    <3>3. Base(c) \in Nat /\ Base(c + 1) = Base(c) + kBlockSize
      BY <2>4, BaseFacts, Zenon
    <3> DEFINE x == Base(c)
               y == second.blocks[c + 1].begin
    <3>4. b.consumed_bytes_ + copy_len = x + kBlockSize + y /\ b.consumed_bytes_ = x + begin
      BY <2>4, <2>9, <3>1, <3>3, Zenon
    <3>5. y \in Nat /\ x \in Nat
      BY <3>2, <3>3, Zenon
    <3> HIDE DEF x, y
    <3>6. y = 0
      BY <1>3, <1>5, <2>4, <2>6, <3>4, <3>5
    <3> QED BY <3>6, Zenon DEF y
  <2>11. Uint32Size - copy_len \in Nat /\ Uint32Size - copy_len <= Available(second)
    <3>1. CASE second.cur = Len(second.blocks)
      <4>1. Available(second) = second.read_bytes_
        BY <2>8, <3>1, CurBlock, Zenon
      <4> QED BY <1>3, <1>5, <2>9, <4>1
    <3>2. CASE second.cur # Len(second.blocks)
      <4>1. Available(second) = kBlockSize - 0
        BY <2>8, <2>10, <3>2, CurBlock, Zenon
      <4> QED BY <1>3, <1>5, <4>1
    <3> QED BY <3>1, <3>2, Zenon
  <2> DEFINE m == Uint32Size - copy_len
  <2>12. both \in Buffer /\ Consumed(both, second, m) /\ both.limit_ = second.limit_
    BY <2>8, <2>11, ConsumeFields, Zenon
  <2>13. /\ BufferInv(LeaveFullBlock(both), r)
         /\ LeaveFullBlock(both).consumed_bytes_ = both.consumed_bytes_
         /\ LeaveFullBlock(both).limit_ = both.limit_
    <3>1. m \in Nat /\ m <= Available(second)
      BY <2>11, Zenon
    <3> HIDE DEF both, m
    <3> QED BY <2>8, <2>12, <3>1, ConsumeKeeps, Zenon
  <2>14. both.consumed_bytes_ = b.consumed_bytes_ + Uint32Size
    <3>1. both.consumed_bytes_ = second.consumed_bytes_ + m
      BY <2>12, Zenon DEF Consumed
    <3> QED BY <1>3, <1>5, <2>9, <3>1
  <2> QED BY <2>1, <2>2, <2>9, <2>12, <2>13, <2>14, Zenon
<1> QED BY <1>9, <1>10, Zenon

\* q is b with another limit.
Limited(q, b, limit) ==
  /\ q \in Buffer /\ q.blocks = b.blocks /\ q.cur = b.cur /\ q.limit_ = limit
  /\ q.consumed_bytes_ = b.consumed_bytes_ /\ q.read_bytes_ = b.read_bytes_

\* That is what push_limit, pop_limit and next make of limit_.
LEMMA WithLimit ==
  ASSUME NEW b \in Buffer, NEW v \in Int PROVE Limited([b EXCEPT !.limit_ = v], b, v)
BY Zenon DEF Buffer, Limited

\* The limit has no part in the invariant of the buffer.
LEMMA LimitKeeps ==
  ASSUME NEW r \in Int, NEW b, BufferInv(b, r), NEW v \in Int
  PROVE  BufferInv([b EXCEPT !.limit_ = v], r) /\ Limited([b EXCEPT !.limit_ = v], b, v)
<1>1. b \in Buffer
  BY Zenon DEF BufferInv
<1>2. Limited([b EXCEPT !.limit_ = v], b, v)
  BY <1>1, WithLimit, Zenon
<1> QED BY <1>2, Zenon DEF BufferInv, Limited

\* m is what next returns for the next size bytes of the stream.
HandsOut(m, b, size, r) ==
  /\ size \in Nat \ {0} /\ size <= b.limit_
  /\ BufferInv(m.buf, r) /\ m.bytes = Stream(b.consumed_bytes_ + 1, size)
  /\ m.buf.consumed_bytes_ = b.consumed_bytes_ + size
  /\ m.buf.read_bytes_ = b.read_bytes_ - size /\ m.buf.limit_ = b.limit_ - size

\* Under a limit next hands out bytes unless the limit is used up or no byte is left.
LEMMA NextKeeps ==
  ASSUME NEW r \in Int, NEW b, BufferInv(b, r), b.limit_ \in Nat, NEW m, m = next(b)
  PROVE  IF b.limit_ = 0 \/ b.read_bytes_ = 0 THEN ~m.ok
         ELSE m.ok /\ \E size \in Nat \ {0} : HandsOut(m, b, size, r)
<1>1. /\ b.consumed_bytes_ \in Nat /\ b.read_bytes_ \in Nat
      /\ Available(b) \in 0 .. b.read_bytes_
      /\ Available(b) = 0 => b.read_bytes_ = 0
  BY CurBlock, Zenon
<1>2. Available(b) = 0 <=> b.read_bytes_ = 0
  BY <1>1
<1>3. CASE b.limit_ = 0 \/ b.read_bytes_ = 0
  <2>1. m = [ok |-> FALSE, bytes |-> <<>>, buf |-> b]
    BY <1>2, <1>3, Zenon DEF next
  <2> QED BY <1>3, <2>1
<1>4. CASE ~(b.limit_ = 0 \/ b.read_bytes_ = 0)
  <2> DEFINE size == Min({Available(b), b.limit_})
             c == Consume(b, size)
             d == [c EXCEPT !.limit_ = b.limit_ - size]
  <2>1. b.limit_ # INT32_MAX
    BY DEF INT32_MAX
  <2>2. size = IF Available(b) <= b.limit_ THEN Available(b) ELSE b.limit_
    BY <1>1, MinTwo
  <2>3. size \in Nat \ {0} /\ size <= b.limit_ /\ size <= Available(b)
    BY <1>1, <1>2, <1>4, <2>2
  <2>4. c \in Buffer /\ Consumed(c, b, size) /\ c.limit_ = b.limit_
    <3> HIDE DEF size
    <3>1. size \in Nat
      BY <2>3, Zenon
    <3> QED BY <3>1, ConsumeFields, Zenon
  <2>5. m = [ok |-> TRUE, bytes |-> Readable(Cur(b), size), buf |-> LeaveFullBlock(d)]
    BY <1>2, <1>4, <2>1, <2>4, Zenon DEF next
  <2> HIDE DEF size, c
  <2>6. Limited(d, c, b.limit_ - size)
    <3>1. b.limit_ - size \in Int
      BY <2>3
    <3> QED BY <2>4, <3>1, WithLimit, Zenon
  <2>7. d \in Buffer /\ Consumed(d, b, size) /\ d.limit_ = b.limit_ - size
    BY <2>4, <2>6, Zenon DEF Limited, Consumed
  <2> HIDE DEF d
  <2>8. /\ BufferInv(LeaveFullBlock(d), r)
        /\ LeaveFullBlock(d).consumed_bytes_ = d.consumed_bytes_
        /\ LeaveFullBlock(d).read_bytes_ = d.read_bytes_
        /\ LeaveFullBlock(d).limit_ = d.limit_
        /\ Readable(Cur(b), size) = Stream(b.consumed_bytes_ + 1, size)
    <3>1. size \in Nat /\ size <= Available(b)
      BY <2>3, Zenon
    <3> QED BY <2>7, <3>1, ConsumeKeeps, Zenon
  <2>9. d.consumed_bytes_ = b.consumed_bytes_ + size /\ d.read_bytes_ = b.read_bytes_ - size
    BY <2>7, Zenon DEF Consumed
  <2>10. m.ok /\ m.bytes = Readable(Cur(b), size) /\ m.buf = LeaveFullBlock(d)
    BY <2>5
  <2>11. HandsOut(m, b, size, r)
    BY <2>3, <2>7, <2>8, <2>9, <2>10, Zenon DEF HandsOut
  <2> QED BY <1>4, <2>3, <2>10, <2>11, Zenon
<1> QED BY <1>3, <1>4, Zenon

\* The last block has room.
LEMMA RoomLeft ==
  ASSUME NEW r \in Int, NEW b, BufferInv(b, r)
  PROVE  get_buffer(b) \in Nat \ {0}
<1> DEFINE k == b.blocks[Len(b.blocks)]
           L == Len(b.blocks)
<1>1. BlocksHold(b.blocks, b.cur, r)
  BY Zenon DEF BufferInv
<1>2. L \in 1 .. L /\ k \in Block
  BY <1>1 DEF BlocksHold
<1>3. BlockHolds(k, L, L, b.cur, r)
  BY <1>1, <1>2, Zenon DEF BlocksHold
<1> HIDE DEF k, L
<1>4. End(k) < kBlockSize
  BY <1>3, Zenon DEF BlockHolds
<1>5. End(k) \in Nat /\ kBlockSize \in Nat
  BY <1>2, BlockAssumption DEF Block, End
<1>6. get_buffer(b) = kBlockSize - End(k)
  BY Zenon DEF get_buffer, k
<1> QED BY <1>4, <1>5, <1>6

\* A new buffer is empty.
LEMMA NewBuffer == BufferInv(NewInputBuffer, 0)
<1>1. kBlockSize \in Nat \ {0} /\ Base(1) = 0
  BY BlockAssumption, BaseFacts, Zenon
<1>2. NewBlock \in Block /\ NewBlock.begin = 0 /\ NewBlock.data = <<>> /\ End(NewBlock) = 0
  BY DEF Block, NewBlock, End
<1>3. Stream(1, 0) = <<>>
  BY DEF Stream
<1>4. BlockHolds(NewBlock, 1, 1, 1, 0)
  BY <1>1, <1>2, <1>3 DEF BlockHolds
<1>5. BlocksHold(<<NewBlock>>, 1, 0)
  BY <1>2, <1>4 DEF BlocksHold
<1>6. NewInputBuffer \in Buffer
  BY <1>2 DEF NewInputBuffer, Buffer, INT32_MAX
<1>7. /\ NewInputBuffer.blocks = <<NewBlock>> /\ NewInputBuffer.cur = 1
      /\ NewInputBuffer.read_bytes_ = 0 /\ NewInputBuffer.consumed_bytes_ = 0
  BY Zenon DEF NewInputBuffer
<1> QED BY <1>1, <1>2, <1>5, <1>6, <1>7 DEF BufferInv
-----------------------------------------------------------------------------
(* recv_fn *)

\* The frames lie in the stream one behind the other.
FramesInRow ==
  /\ FrameStart(1) = 1
  /\ \A i \in 1 .. NumMessages + 1 : FrameStart(i) \in Nat \ {0}
  /\ \A i \in 1 .. NumMessages : FrameStart(i + 1) = FrameStart(i) + Uint32Size + sizes[i]

\* They stay where they are.
LEMMA FramesStay ==
  ASSUME sizes' = sizes
  PROVE  /\ LengthsWhole' <=> LengthsWhole
         /\ Total' = Total
         /\ FrameStart(part)' = FrameStart(part')
         /\ MessageStart(part)' = MessageStart(part')
BY Zenon DEF LengthsWhole, Total, MessageStart, FrameStart, BytesInFront

\* A length that does not lie across two blocks is all in cur_block_ when recv_fn fetches it.
LEMMA WholeLength ==
  ASSUME IInv, LengthsWhole, pc = "length", buf.read_bytes_ >= Uint32Size
  PROVE  Available(buf) >= Uint32Size
<1> DEFINE begin == buf.blocks[buf.cur].begin
<1>1. part \in 1 .. NumMessages /\ buf.consumed_bytes_ = FrameStart(part) - 1
  BY StreamAssumption DEF IInv, RecvInv, FrameInv
<1>2. (buf.consumed_bytes_ % kBlockSize) + Uint32Size <= kBlockSize
  BY <1>1, Zenon DEF LengthsWhole
<1>3. /\ buf.blocks \in Seq(Block) /\ buf.cur \in 1 .. Len(buf.blocks)
      /\ BlockHolds(Cur(buf), buf.cur, Len(buf.blocks), buf.cur, recvd)
      /\ buf.consumed_bytes_ = Base(buf.cur) + begin
  BY Zenon DEF IInv, BufferInv, BlocksHold, Cur
<1>4. begin \in Nat /\ begin < kBlockSize /\ buf.cur \in Nat \ {0}
  <2>1. Cur(buf) \in Block /\ Cur(buf).begin = begin
    BY <1>3 DEF Cur
  <2>2. Cur(buf).begin < kBlockSize
    BY <1>3, Zenon DEF BlockHolds
  <2> QED BY <1>3, <2>1, <2>2, SMTT(30) DEF Block
<1>5. buf.consumed_bytes_ % kBlockSize = begin
  <2> HIDE DEF begin
  <2> QED BY <1>3, <1>4, BaseModulo, Zenon
<1>6. recvd \in Int /\ BufferInv(buf, recvd)
  BY DEF IInv
<1>7. /\ buf.cur = Len(buf.blocks) => Available(buf) = buf.read_bytes_
      /\ buf.cur # Len(buf.blocks) => Available(buf) = kBlockSize - begin
  BY <1>6, CurBlock, Zenon
<1>8. kBlockSize \in Nat /\ Uint32Size \in Nat
  BY BlockAssumption
<1> HIDE DEF begin
<1> QED BY <1>2, <1>4, <1>5, <1>7, <1>8

\* Initially nothing was received,
LEMMA InitInv == ASSUME Init, FramesInRow PROVE IInv
<1>1. FrameStart(1) = 1 /\ Total \in Nat /\ 1 \in 1 .. NumMessages + 1 /\ 1 # NumMessages + 1
  BY StreamAssumption DEF FramesInRow, Total
<1>2. Uint32Size \in Nat
  BY BlockAssumption
<1>3. BufferInv(buf, recvd)
  BY NewBuffer, Zenon DEF Init
<1>4. buf.limit_ = INT32_MAX /\ buf.consumed_bytes_ = 0
  BY Zenon DEF Init, NewInputBuffer
<1>5. RecvInv
  BY <1>1, <1>2, <1>4, Zenon DEF Init, RecvInv
<1>6. FrameInv
  BY <1>1, <1>4 DEF Init, FrameInv
<1> QED BY <1>1, <1>3, <1>5, <1>6 DEF Init, IInv

\* bytes that arrive change nothing in the buffer,
LEMMA ArriveInv == ASSUME IInv, Arrive PROVE IInv'
<1>1. /\ sizes' = sizes /\ buf' = buf /\ recvd' = recvd /\ part' = part /\ pc' = pc
      /\ need' = need /\ got' = got
  BY Zenon DEF Arrive
<1>2. /\ LengthsWhole' <=> LengthsWhole
      /\ Total' = Total
      /\ FrameStart(part)' = FrameStart(part)
      /\ MessageStart(part)' = MessageStart(part)
  BY <1>1, FramesStay, Zenon
<1>3. sizes' \in [1 .. NumMessages -> MessageSizes] /\ BufferInv(buf', recvd')
  BY <1>1, Zenon DEF IInv
<1>4. sent' \in 0 .. Total /\ recvd' \in 0 .. sent'
  BY <1>1 DEF IInv, Arrive
<1>5. RecvInv'
  BY <1>1, Zenon DEF IInv, RecvInv
<1>6. FrameInv'
  BY <1>1, <1>2, Zenon DEF IInv, FrameInv
<1> QED BY <1>2, <1>3, <1>4, <1>5, <1>6, Zenon DEF IInv

\* async_read puts the next bytes of the stream behind those it has,
LEMMA AsyncReadInv == ASSUME IInv, AsyncRead PROVE IInv'
<1> DEFINE n == Min({sent - recvd, get_buffer(buf)})
<1>1. /\ sizes' = sizes /\ sent' = sent /\ part' = part /\ pc' = pc
      /\ need' = need /\ got' = got /\ pc \in {"length", "message"} /\ recvd' = recvd + n
      /\ buf' = recv_add(buf, Stream(recvd + 1, n)) /\ sent > recvd
  BY Zenon DEF AsyncRead
<1>2. /\ LengthsWhole' <=> LengthsWhole
      /\ Total' = Total
      /\ FrameStart(part)' = FrameStart(part)
      /\ MessageStart(part)' = MessageStart(part)
  BY <1>1, FramesStay, Zenon
<1>3. /\ sent \in Int /\ recvd \in Int /\ recvd >= 0 /\ recvd <= sent /\ BufferInv(buf, recvd)
  BY DEF IInv
<1>4. get_buffer(buf) \in Nat \ {0}
  BY <1>3, RoomLeft, Zenon
<1>5. n = IF sent - recvd <= get_buffer(buf) THEN sent - recvd ELSE get_buffer(buf)
  BY <1>3, <1>4, MinTwo
<1>6. n \in Nat \ {0} /\ n <= get_buffer(buf) /\ recvd + n <= sent
  BY <1>1, <1>3, <1>4, <1>5
<1> HIDE DEF n
<1>7. /\ BufferInv(buf', recvd + n) /\ buf'.limit_ = buf.limit_
      /\ buf'.consumed_bytes_ = buf.consumed_bytes_
  BY <1>1, <1>3, <1>6, RecvAddKeeps
<1>8. /\ sizes' \in [1 .. NumMessages -> MessageSizes] /\ sent' \in 0 .. Total
      /\ recvd' \in 0 .. sent'
  BY <1>1, <1>3, <1>6 DEF IInv
<1>9. RecvInv'
  BY <1>1, <1>7, Zenon DEF IInv, RecvInv
<1>10. FrameInv'
  BY <1>1, <1>2, <1>7, Zenon DEF IInv, FrameInv
<1> QED BY <1>1, <1>2, <1>7, <1>8, <1>9, <1>10, Zenon DEF IInv

\* fetch_uint32 takes the length of the message, if that length is in one block,
LEMMA FetchLengthInv == ASSUME IInv, FramesInRow, FetchLength PROVE IInv'
<1> DEFINE f == fetch_uint32(buf)
<1>1. /\ sizes' = sizes /\ sent' = sent /\ recvd' = recvd /\ part' = part /\ got' = got
      /\ pc = "length" /\ pc' = "message" /\ buf.read_bytes_ >= need /\ buf' = f.buf
      /\ need' \in IF f.copied = Stream(FrameStart(part), Uint32Size) THEN {sizes[part]}
                   ELSE Uint32
  BY Zenon DEF FetchLength
<1>2. /\ LengthsWhole' <=> LengthsWhole
      /\ Total' = Total
      /\ FrameStart(part)' = FrameStart(part)
      /\ MessageStart(part)' = MessageStart(part)
  BY <1>1, FramesStay, Zenon
<1>3. need = Uint32Size /\ part \in 1 .. NumMessages /\ got = <<>> /\ buf.limit_ = INT32_MAX
  BY <1>1, StreamAssumption DEF IInv, RecvInv
<1>4. recvd \in Int /\ BufferInv(buf, recvd)
  BY DEF IInv
<1>5. /\ BufferInv(f.buf, recvd) /\ f.buf.limit_ = buf.limit_
      /\ f.buf.consumed_bytes_ = buf.consumed_bytes_ + Uint32Size
      /\ Available(buf) >= Uint32Size => f.copied = Stream(buf.consumed_bytes_ + 1, Uint32Size)
  BY <1>1, <1>3, <1>4, FetchKeeps, Zenon
<1> HIDE DEF f
<1>6. /\ sizes' \in [1 .. NumMessages -> MessageSizes] /\ sent' \in 0 .. Total
      /\ recvd' \in 0 .. sent'
  BY <1>1, Zenon DEF IInv
<1>7. RecvInv'
  <2>1. need' \in Nat
    BY <1>1, <1>3, StreamAssumption, Zenon DEF IInv
  <2>2. part' \in 1 .. NumMessages + 1 /\ part' # NumMessages + 1
    BY <1>1, <1>3, StreamAssumption
  <2> QED BY <1>1, <1>3, <1>5, <2>1, <2>2, Zenon DEF RecvInv
<1>8. ASSUME LengthsWhole
      PROVE  need' = sizes[part] /\ buf'.consumed_bytes_ = MessageStart(part) - 1
  <2>1. Available(buf) >= Uint32Size
    BY <1>1, <1>3, <1>8, WholeLength, Zenon
  <2>2. buf.consumed_bytes_ = FrameStart(part) - 1
    BY <1>1, <1>8, Zenon DEF IInv, FrameInv
  <2>3. FrameStart(part) \in Nat /\ Uint32Size \in Nat
    BY <1>3, StreamAssumption, BlockAssumption DEF FramesInRow
  <2>4. buf.consumed_bytes_ + 1 = FrameStart(part)
    BY <2>2, <2>3
  <2>5. f.copied = Stream(FrameStart(part), Uint32Size)
    BY <1>5, <2>1, <2>4, Zenon
  <2>6. need' = sizes[part]
    BY <1>1, <2>5, Zenon
  <2> QED BY <1>1, <1>5, <2>2, <2>3, <2>6 DEF MessageStart
<1>9. FrameInv'
  BY <1>1, <1>2, <1>8, Zenon DEF FrameInv
<1> QED BY <1>1, <1>2, <1>5, <1>6, <1>7, <1>9, Zenon DEF IInv

\* push_limit limits the parser to the message, which is all there,
LEMMA StartParseInv == ASSUME IInv, FramesInRow, StartParse PROVE IInv'
<1>1. /\ sizes' = sizes /\ sent' = sent /\ recvd' = recvd /\ part' = part /\ got' = <<>>
      /\ pc = "message" /\ pc' = "parse" /\ buf.read_bytes_ >= need /\ need' = need
      /\ buf' = [buf EXCEPT !.limit_ = need]
  BY Zenon DEF StartParse, push_limit
<1>2. /\ LengthsWhole' <=> LengthsWhole
      /\ Total' = Total
      /\ FrameStart(part)' = FrameStart(part)
      /\ MessageStart(part)' = MessageStart(part)
  BY <1>1, FramesStay, Zenon
<1>3. need \in Nat /\ part \in 1 .. NumMessages
  BY <1>1, StreamAssumption DEF IInv, RecvInv
<1>4. recvd \in Int /\ BufferInv(buf, recvd)
  BY DEF IInv
<1>5. BufferInv(buf', recvd) /\ Limited(buf', buf, need)
  <2>1. need \in Int
    BY <1>3
  <2> QED BY <1>1, <1>4, <2>1, LimitKeeps, Zenon
<1>6. /\ buf'.limit_ = need /\ buf'.consumed_bytes_ = buf.consumed_bytes_
      /\ buf'.read_bytes_ = buf.read_bytes_
  BY <1>5, Zenon DEF Limited
<1>7. buf.read_bytes_ \in Nat /\ buf.consumed_bytes_ \in Nat
  BY <1>4, CurBlock, Zenon
<1>8. /\ sizes' \in [1 .. NumMessages -> MessageSizes] /\ sent' \in 0 .. Total
      /\ recvd' \in 0 .. sent'
  BY <1>1, Zenon DEF IInv
<1>9. RecvInv'
  BY <1>1, <1>3, <1>6, <1>7, StreamAssumption DEF IInv, RecvInv
<1>10. MessageStart(part) \in Int /\ Stream(MessageStart(part), 0) = <<>> /\ Len(<<>>) = 0
  BY <1>3, StreamAssumption, BlockAssumption DEF FramesInRow, MessageStart, Stream
<1>11. FrameInv'
  BY <1>1, <1>2, <1>6, <1>10 DEF IInv, FrameInv
<1> QED BY <1>1, <1>2, <1>5, <1>8, <1>9, <1>11, Zenon DEF IInv

\* Next hands out the bytes that follow those the parser has,
LEMMA ParserNextInv == ASSUME IInv, FramesInRow, ParserNext PROVE IInv'
<1> DEFINE m == next(buf)
<1>1. /\ sizes' = sizes /\ sent' = sent /\ recvd' = recvd /\ part' = part /\ need' = need
      /\ pc = "parse" /\ pc' = "parse" /\ m.ok /\ buf' = m.buf /\ got' = got \o m.bytes
  BY Zenon DEF ParserNext
<1>2. /\ LengthsWhole' <=> LengthsWhole
      /\ Total' = Total
      /\ FrameStart(part)' = FrameStart(part)
      /\ MessageStart(part)' = MessageStart(part)
  BY <1>1, FramesStay, Zenon
<1>3. /\ need \in Nat /\ part \in 1 .. NumMessages /\ got \in Seq(Int)
      /\ buf.limit_ = need - Len(got) /\ buf.limit_ \in 0 .. buf.read_bytes_
  BY <1>1, StreamAssumption DEF IInv, RecvInv
<1>4. recvd \in Int /\ BufferInv(buf, recvd)
  BY DEF IInv
<1>5. buf.read_bytes_ \in Nat /\ buf.consumed_bytes_ \in Nat /\ buf.limit_ \in Nat
  BY <1>3, <1>4, CurBlock
<1>6. PICK size \in Nat \ {0} : HandsOut(m, buf, size, recvd)
  BY <1>1, <1>4, <1>5, NextKeeps, Zenon
<1> HIDE DEF m
<1>7. /\ size <= buf.limit_ /\ BufferInv(buf', recvd)
      /\ m.bytes = Stream(buf.consumed_bytes_ + 1, size)
      /\ buf'.consumed_bytes_ = buf.consumed_bytes_ + size
      /\ buf'.read_bytes_ = buf.read_bytes_ - size /\ buf'.limit_ = buf.limit_ - size
  BY <1>1, <1>6, Zenon DEF HandsOut
<1>8. m.bytes \in Seq(Int) /\ Len(m.bytes) = size
  <2>1. buf.consumed_bytes_ + 1 \in Int /\ size \in Nat
    BY <1>5
  <2> QED BY <1>7, <2>1, StreamFacts, Zenon
<1>9. got' \in Seq(Int) /\ Len(got') = Len(got) + size
  <2>1. \A s, t \in Seq(Int) : s \o t \in Seq(Int) /\ Len(s \o t) = Len(s) + Len(t)
    OBVIOUS
  <2> QED BY <1>1, <1>3, <1>8, <2>1, Zenon
<1>10. /\ sizes' \in [1 .. NumMessages -> MessageSizes] /\ sent' \in 0 .. Total
       /\ recvd' \in 0 .. sent'
  BY <1>1, Zenon DEF IInv
<1>11. RecvInv'
  <2>1. Len(got) \in Nat
    BY <1>3
  <2>2. buf'.limit_ = need - Len(got') /\ buf'.limit_ \in 0 .. buf'.read_bytes_
    BY <1>3, <1>5, <1>7, <1>9, <2>1, SMTT(30)
  <2> QED BY <1>1, <1>3, <1>9, <2>2, StreamAssumption, Zenon DEF IInv, RecvInv
<1>12. ASSUME LengthsWhole
       PROVE  /\ need = sizes[part]
              /\ buf'.consumed_bytes_ = MessageStart(part) - 1 + Len(got')
              /\ got' = Stream(MessageStart(part), Len(got'))
  <2>1. /\ need = sizes[part] /\ buf.consumed_bytes_ = MessageStart(part) - 1 + Len(got)
        /\ got = Stream(MessageStart(part), Len(got))
    BY <1>1, <1>12, Zenon DEF IInv, FrameInv
  <2>2. MessageStart(part) \in Int /\ Len(got) \in Nat
    BY <1>3, StreamAssumption, BlockAssumption DEF FramesInRow, MessageStart
  <2>3. buf.consumed_bytes_ + 1 = MessageStart(part) + Len(got)
    BY <2>1, <2>2
  <2>4. got' = Stream(MessageStart(part), Len(got)) \o Stream(MessageStart(part) + Len(got), size)
    BY <1>1, <1>7, <2>1, <2>3, Zenon
  <2>5. got' = Stream(MessageStart(part), Len(got) + size)
    BY <2>2, <2>4, StreamJoin, Zenon
  <2> QED BY <1>7, <1>9, <2>1, <2>2, <2>5
<1>13. FrameInv'
  BY <1>1, <1>2, <1>12, Zenon DEF FrameInv
<1> QED BY <1>1, <1>2, <1>7, <1>10, <1>11, <1>13, Zenon DEF IInv

\* and when it has no more the parser has the message, and the next frame is next.
LEMMA ParseDoneInv == ASSUME IInv, FramesInRow, ParseDone PROVE IInv'
<1> DEFINE m == next(buf)
<1>1. /\ sizes' = sizes /\ sent' = sent /\ recvd' = recvd /\ part' = part + 1 /\ got' = <<>>
      /\ pc = "parse" /\ ~m.ok /\ need' = Uint32Size
      /\ pc' = IF part = NumMessages THEN "done" ELSE "length"
      /\ buf' = [buf EXCEPT !.limit_ = INT32_MAX]
  BY Zenon DEF ParseDone, pop_limit
<1>2. /\ LengthsWhole' <=> LengthsWhole
      /\ Total' = Total
      /\ FrameStart(part)' = FrameStart(part + 1)
      /\ MessageStart(part)' = MessageStart(part + 1)
  BY <1>1, FramesStay, Zenon
<1>3. /\ need \in Nat /\ part \in 1 .. NumMessages /\ got \in Seq(Int)
      /\ buf.limit_ = need - Len(got) /\ buf.limit_ \in 0 .. buf.read_bytes_
  BY <1>1, StreamAssumption DEF IInv, RecvInv
<1>4. recvd \in Int /\ BufferInv(buf, recvd)
  BY DEF IInv
<1>5. BufferInv(buf', recvd) /\ Limited(buf', buf, INT32_MAX)
  <2>1. INT32_MAX \in Int
    BY DEF INT32_MAX
  <2> QED BY <1>1, <1>4, <2>1, LimitKeeps, Zenon
<1>6. buf'.limit_ = INT32_MAX /\ buf'.consumed_bytes_ = buf.consumed_bytes_
  BY <1>5, Zenon DEF Limited
<1>7. /\ sizes' \in [1 .. NumMessages -> MessageSizes] /\ sent' \in 0 .. Total
      /\ recvd' \in 0 .. sent'
  BY <1>1, Zenon DEF IInv
<1>8. RecvInv'
  <2>1. /\ part' \in 1 .. NumMessages + 1 /\ Uint32Size \in Nat
        /\ part = NumMessages <=> part' = NumMessages + 1
    BY <1>1, <1>3, StreamAssumption, BlockAssumption
  <2> QED BY <1>1, <1>6, <2>1, Zenon DEF RecvInv
<1>9. Len(got) = need
  <2>1. buf.read_bytes_ \in Nat /\ buf.limit_ \in Nat
    BY <1>3, <1>4, CurBlock
  <2>2. buf.limit_ = 0 \/ buf.read_bytes_ = 0
    BY <1>1, <1>4, <2>1, NextKeeps, Zenon
  <2>3. buf.limit_ = 0 /\ Len(got) \in Nat
    BY <1>3, <2>1, <2>2
  <2> QED BY <1>3, <2>3
<1>10. ASSUME LengthsWhole
       PROVE  buf'.consumed_bytes_ = FrameStart(part + 1) - 1
  <2>1. buf.consumed_bytes_ = MessageStart(part) - 1 + Len(got) /\ need = sizes[part]
    BY <1>1, <1>10, Zenon DEF IInv, FrameInv
  <2>2. FrameStart(part) \in Int /\ FrameStart(part + 1) = FrameStart(part) + Uint32Size + sizes[part]
    BY <1>3, StreamAssumption DEF FramesInRow
  <2>3. Uint32Size \in Int /\ sizes[part] \in Int
    BY <1>3, <2>1, BlockAssumption
  <2>4. MessageStart(part) = FrameStart(part) + Uint32Size
    BY Zenon DEF MessageStart
  <2> QED BY <1>6, <1>9, <2>1, <2>2, <2>3, <2>4
<1>11. FrameInv'
  BY <1>1, <1>2, <1>10, Zenon DEF FrameInv
<1> QED BY <1>1, <1>2, <1>5, <1>7, <1>8, <1>11, Zenon DEF IInv

\* So the invariant holds in every state.
LEMMA StepInv == ASSUME IInv, FramesInRow, [Next]_vars PROVE IInv'
<1>1. CASE UNCHANGED vars
  <2>1. /\ sizes' = sizes /\ buf' = buf /\ recvd' = recvd /\ sent' = sent /\ part' = part
        /\ pc' = pc /\ need' = need /\ got' = got
    BY <1>1, Zenon DEF vars
  <2>2. /\ LengthsWhole' <=> LengthsWhole
        /\ Total' = Total
        /\ FrameStart(part)' = FrameStart(part)
        /\ MessageStart(part)' = MessageStart(part)
    BY <2>1, FramesStay, Zenon
  <2>3. RecvInv'
    BY <2>1, Zenon DEF IInv, RecvInv
  <2>4. FrameInv'
    BY <2>1, <2>2, Zenon DEF IInv, FrameInv
  <2> QED BY <2>1, <2>2, <2>3, <2>4, Zenon DEF IInv
<1> QED BY <1>1, ArriveInv, AsyncReadInv, FetchLengthInv, StartParseInv, ParserNextInv,
           ParseDoneInv, Zenon DEF Next, RecvFn

\* The blocks, the counters and recv_fn are what TypeOK says,
LEMMA InvTypeOK == ASSUME IInv PROVE TypeOK
<1> DEFINE s == buf.blocks
<1>1. /\ s \in Seq(Block) /\ buf.cur \in 1 .. Len(s) /\ buf \in Buffer
      /\ \A j \in 1 .. Len(s) : BlockHolds(s[j], j, Len(s), buf.cur, recvd)
      /\ buf.read_bytes_ = recvd - buf.consumed_bytes_
  BY Zenon DEF IInv, BufferInv, BlocksHold
<1>2. kBlockSize \in Nat \ {0}
  BY BlockAssumption, Zenon
<1>3. ASSUME NEW j \in 1 .. Len(s)
      PROVE  /\ s[j].begin \in 0 .. End(s[j]) /\ End(s[j]) <= kBlockSize
             /\ j < Len(s) => End(s[j]) = kBlockSize
  <2>1. BlockHolds(s[j], j, Len(s), buf.cur, recvd)
    BY <1>1, Zenon
  <2>2. s[j] \in Block /\ j \in Nat /\ Len(s) \in Nat /\ buf.cur \in Nat /\ buf.cur <= Len(s)
    BY <1>1
  <2> HIDE DEF s
  <2>3. s[j].begin \in Nat /\ End(s[j]) \in Nat
    BY <2>2 DEF Block, End
  <2> QED BY <1>2, <2>1, <2>2, <2>3 DEF BlockHolds
<1>4. buf.consumed_bytes_ \in Int /\ recvd \in Int
  BY <1>1, BufferFacts DEF IInv
<1>5. buf.read_bytes_ + buf.consumed_bytes_ = recvd
  BY <1>1, <1>4
<1> QED BY <1>1, <1>3, <1>5, Zenon DEF TypeOK, IInv, RecvInv

\* what the parser lacks was received, so Next finds it,
LEMMA InvNextNeverStarves == ASSUME IInv PROVE NextNeverStarves
<1> SUFFICES ASSUME pc = "parse", Len(got) < need PROVE next(buf).ok
  BY Zenon DEF NextNeverStarves
<1>1. /\ need \in Nat /\ got \in Seq(Int)
      /\ buf.limit_ = need - Len(got) /\ buf.limit_ \in 0 .. buf.read_bytes_
  BY Zenon DEF IInv, RecvInv
<1>2. recvd \in Int /\ BufferInv(buf, recvd)
  BY DEF IInv
<1>3. buf.read_bytes_ \in Nat /\ buf.limit_ \in Nat
  BY <1>1, <1>2, CurBlock
<1>4. buf.limit_ # 0 /\ buf.read_bytes_ # 0
  BY <1>1, <1>3
<1> QED BY <1>2, <1>3, <1>4, NextKeeps, Zenon

\* and what it has are bytes of the message.
LEMMA InvMessageAsSent == ASSUME IInv PROVE MessageAsSent
<1> SUFFICES ASSUME LengthsWhole, pc = "parse"
             PROVE  Len(got) <= sizes[part] /\ got = Stream(MessageStart(part), Len(got))
  BY Zenon DEF MessageAsSent
<1>1. /\ need \in Nat /\ got \in Seq(Int) /\ Len(got) \in Nat
      /\ buf.limit_ = need - Len(got) /\ buf.limit_ \in 0 .. buf.read_bytes_
  BY DEF IInv, RecvInv
<1>2. need = sizes[part] /\ got = Stream(MessageStart(part), Len(got))
  BY Zenon DEF IInv, FrameInv
<1> QED BY <1>1, <1>2
-----------------------------------------------------------------------------
(* The frames, and the theorems *)

\* The bytes of a frame are a number.
LEMMA FrameSize ==
  ASSUME sizes \in [1 .. NumMessages -> MessageSizes], NEW j \in 1 .. NumMessages
  PROVE  sizes[j] \in Nat /\ Uint32Size \in Nat /\ Uint32Size + sizes[j] \in Nat
<1>1. sizes[j] \in MessageSizes
  BY Zenon
<1>2. sizes[j] \in Nat
  BY <1>1, StreamAssumption, Zenon
<1> QED BY <1>2, BlockAssumption

INSTANCE FiniteSetTheorems

\* One frame has as many bytes as its length and its message have.
LEMMA FrameBytes ==
  ASSUME NEW i, NEW n \in Nat
  PROVE  IsFiniteSet({i} \X (1 .. n)) /\ Cardinality({i} \X (1 .. n)) = n
<1>1. IsFiniteSet({i}) /\ Cardinality({i}) = 1
  BY FS_Singleton, Zenon
<1>2. IsFiniteSet(1 .. n) /\ Cardinality(1 .. n) = n
  BY FS_Interval
<1>3. /\ IsFiniteSet({i} \X (1 .. n))
      /\ Cardinality({i} \X (1 .. n)) = Cardinality({i}) * Cardinality(1 .. n)
  BY <1>1, <1>2, FS_Product, Zenon
<1> QED BY <1>1, <1>2, <1>3

\* The frames in front of another are finitely many bytes.
LEMMA FrontFinite ==
  ASSUME sizes \in [1 .. NumMessages -> MessageSizes], NEW i \in 1 .. NumMessages + 1
  PROVE  IsFiniteSet(BytesInFront(i))
<1> DEFINE F == [j \in 1 .. i - 1 |-> {j} \X (1 .. Uint32Size + sizes[j])]
           S == {F[j] : j \in 1 .. i - 1}
<1>1. \A j \in 1 .. i - 1 : j \in 1 .. NumMessages
  BY StreamAssumption
<1>2. \A j \in 1 .. i - 1 : IsFiniteSet({j} \X (1 .. Uint32Size + sizes[j]))
  BY <1>1, FrameSize, FrameBytes, Zenon
<1>3. \A T \in S : IsFiniteSet(T)
  BY <1>2, Zenon
<1>4. IsFiniteSet(S)
  <2>1. IsFiniteSet(1 .. i - 1)
    BY StreamAssumption, FS_Interval
  <2>2. F \in Surjection(1 .. i - 1, S)
    BY Zenon DEF Surjection
  <2> HIDE DEF F, S
  <2> QED BY <2>1, <2>2, FS_Surjection, Zenon
<1>5. BytesInFront(i) = UNION S
  BY Zenon DEF BytesInFront
<1> HIDE DEF S
<1> QED BY <1>3, <1>4, <1>5, FS_UNION, Zenon

\* The frames lie one behind the other.
LEMMA Frames ==
  ASSUME sizes \in [1 .. NumMessages -> MessageSizes]
  PROVE  FramesInRow
<1>1. BytesInFront(1) = {} /\ Cardinality({}) = 0
  BY FS_EmptySet DEF BytesInFront
<1>2. \A i \in 1 .. NumMessages + 1 : IsFiniteSet(BytesInFront(i)) /\ Cardinality(BytesInFront(i)) \in Nat
  BY FrontFinite, FS_CardinalityType, Zenon
<1>3. ASSUME NEW i \in 1 .. NumMessages
      PROVE  FrameStart(i + 1) = FrameStart(i) + Uint32Size + sizes[i]
  <2> DEFINE frame == {i} \X (1 .. Uint32Size + sizes[i])
  <2>1. Uint32Size + sizes[i] \in Nat /\ Uint32Size \in Nat /\ sizes[i] \in Nat
    BY FrameSize, Zenon
  <2>2. IsFiniteSet(frame) /\ Cardinality(frame) = Uint32Size + sizes[i]
    BY <2>1, FrameBytes, Zenon
  <2>3. i \in 1 .. NumMessages + 1 /\ 1 .. (i + 1) - 1 = (1 .. i - 1) \cup {i}
    BY StreamAssumption
  <2>4. BytesInFront(i + 1) = BytesInFront(i) \cup frame
    BY <2>3, Zenon DEF BytesInFront
  <2>5. BytesInFront(i) \cap frame = {}
    <3>1. i \notin 1 .. i - 1
      BY StreamAssumption
    <3>2. \A x \in BytesInFront(i) : x[1] \in 1 .. i - 1
      BY DEF BytesInFront
    <3>3. \A x \in frame : x[1] = i
      BY Zenon
    <3> HIDE DEF frame
    <3> QED BY <3>1, <3>2, <3>3, Zenon
  <2>6. IsFiniteSet(BytesInFront(i)) /\ Cardinality(BytesInFront(i)) \in Nat
    BY <1>2, <2>3, Zenon
  <2> HIDE DEF frame
  <2>7. Cardinality(BytesInFront(i) \cup frame)
          = Cardinality(BytesInFront(i)) + Cardinality(frame) - Cardinality(BytesInFront(i) \cap frame)
    BY <2>2, <2>6, FS_Union, Zenon
  <2>8. Cardinality(BytesInFront(i + 1)) = Cardinality(BytesInFront(i)) + Cardinality(frame) - 0
    BY <1>1, <2>4, <2>5, <2>7, Zenon
  <2> QED BY <2>1, <2>2, <2>6, <2>8 DEF FrameStart
<1>4. FrameStart(1) = 1
  <2>1. Cardinality(BytesInFront(1)) = 0
    BY <1>1, Zenon
  <2> QED BY <2>1 DEF FrameStart
<1>5. \A i \in 1 .. NumMessages + 1 : FrameStart(i) \in Nat \ {0}
  BY <1>2 DEF FrameStart
<1> QED BY <1>3, <1>4, <1>5, Zenon DEF FramesInRow

\* The invariant holds throughout.
LEMMA Invariant == Spec => []IInv
<1>1. Init => IInv
  BY InitInv, Frames, Zenon DEF Init
<1>2. IInv /\ [Next]_vars => IInv'
  BY StepInv, Frames, Zenon DEF IInv
<1> QED BY <1>1, <1>2, PTL DEF Spec

\* The blocks of read_buf_ are within their size, all but the last are full, and read_bytes_ and
\* consumed_bytes_ agree with them, for any block size and any stream.
THEOREM TypeCorrect == Spec => []TypeOK
BY Invariant, InvTypeOK, PTL

\* Next never reports the end of a message while the parser lacks bytes that recv_fn waited for.
THEOREM NextNeverStarvesAlways == Spec => []NextNeverStarves
BY Invariant, InvNextNeverStarves, PTL

\* The parser gets the bytes of each message, in order and without a gap, and none of the next
\* frame, if no length lies across two blocks.
THEOREM MessagesAsSent == Spec => []MessageAsSent
BY Invariant, InvMessageAsSent, PTL
=============================================================================
