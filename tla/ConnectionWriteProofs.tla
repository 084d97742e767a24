----------------------- MODULE ConnectionWriteProofs ------------------------
(***************************************************************************)
(* The safety of ConnectionWrite, of PollConnection and UringConnection,   *)
(* for any sizes of blocks, messages and the socket's send buffer: TypeOK, *)
(* WireInOrder, SizeToWrite, InFlightIntact and BackLeftComesBack.         *)
(***************************************************************************)
EXTENDS ConnectionWrite, TLAPS

-----------------------------------------------------------------------------
(* The inductive invariant *)

\* n bytes of the stream behind its first t.
Stream(t, n) == [i \in 1 .. n |-> t + i]

Blocks == [begin : 0 .. kBlockSize, end : 0 .. kBlockSize, data : [1 .. kBlockSize -> Nat]]

Buffer == [blocks : Seq(Blocks), to_write_bytes_ : Nat]

\* Block j begins behind that many bytes of the stream, when base bytes were in blocks that are
\* deleted by now: all blocks but the last are full.
From(base, j) == base + (j - 1) * kBlockSize

\* Block k of the list holds, behind the first from bytes of the stream, those among the first a.
HoldsBytes(k, from, a) == \A i \in 1 .. k.end : from + i <= a => k.data[i] = from + i

\* The blocks hold the stream from byte base on to byte a; u bytes at the end are not filled yet.
Holds(blocks, base, a, u) ==
  /\ blocks \in Seq(Blocks) /\ Len(blocks) > 0 /\ base \in 0 .. a /\ a \in Nat /\ u \in Nat
  /\ a + u = From(base, Len(blocks)) + blocks[Len(blocks)].end
  /\ blocks[Len(blocks)].begin + u <= blocks[Len(blocks)].end
  /\ blocks[1].begin < kBlockSize
  /\ \A j \in 1 .. Len(blocks) :
       /\ j < Len(blocks) => blocks[j].end = kBlockSize
       /\ j > 1 => blocks[j].begin = 0
       /\ HoldsBytes(blocks[j], From(base, j), a)

\* The bytes that the kernel took and send_add has not taken off the buffer.
Owed == IF pc = "writev" THEN nwrite
        ELSE IF pc = "send_add" THEN left
        ELSE IF cqe # NoCqe /\ cqe[1] > 0 THEN cqe[1] ELSE 0

\* t bytes were taken off the buffer: what that says of the counters, the wire and the ring.
CountInv(t) ==
  /\ buf.to_write_bytes_ = IF pc = "send_add" THEN (appended + unused - t - left) % SizeMod
                           ELSE appended + unused - t
  /\ NothingSentTwice => /\ Len(wire) = t + Owed /\ Len(wire) <= appended
                         /\ wire = Stream(0, Len(wire))
  /\ sqe # NoSqe => sqe = Stream(t, Len(sqe)) /\ t + Len(sqe) <= appended

BufAt(base, t) ==
  /\ Holds(buf.blocks, base, appended, unused)
  /\ t = base + buf.blocks[1].begin /\ CountInv(t)

BufInv == \E base, t \in 0 .. appended : BufAt(base, t)

\* The bytes of the message at hand that are not put into the buffer yet, the loop's apart.
Pending == IF pc = "append" /\ Len(parts) = 2 THEN parts[1] + PrefixSize + parts[2]
           ELSE IF pc = "append" THEN parts[1]
           ELSE IF pc = "serialize" /\ Len(parts) = 1 THEN PrefixSize + parts[1]
           ELSE 0

MessageInv ==
  /\ pc \in {"append", "serialize"} => appended + left + Pending <= MaxBytes
  /\ pc = "append" => Len(parts) \in {1, 2}
  /\ pc = "serialize" => Len(parts) \in {0, 1}
  /\ pc \notin {"append", "serialize"} => parts = <<>>
  /\ pc # "serialize" => unused = 0

RingInv ==
  /\ policy = "poll" => sqe = NoSqe /\ cqe = NoCqe /\ back_left_ = 0
  /\ policy = "uring" => pc # "writev"
  /\ pc = "send_add" => sqe = NoSqe /\ cqe = NoCqe
  /\ sqe # NoSqe => cqe = NoCqe /\ Len(sqe) <= back_left_ /\ back_left_ <= MaxBytes
  /\ cqe # NoCqe => /\ Len(cqe) = 1 /\ cqe[1] \in {ECONNRESET} \cup 1 .. MaxBytes
                    /\ back_left_ \in 1 .. MaxBytes /\ cqe[1] <= back_left_
                    /\ steady => cqe[1] = back_left_
  /\ BackLeftComesBack

WriteTypeOK ==
  /\ policy \in {"poll", "uring"} /\ steady \in BOOLEAN
  /\ buf \in Buffer
  /\ wire \in Seq(Nat) /\ sqe \in Seq(Nat) /\ cqe \in Seq(Int) /\ parts \in Seq(Nat)
  /\ appended \in 0 .. MaxBytes /\ room \in 0 .. SendBuffer /\ back_left_ \in 0 .. MaxBytes + 1
  /\ {left, unused, nwrite, need_write} \subseteq Nat
  /\ pc \in {"idle", "append", "serialize", "async_write", "writev", "send_add"}
  /\ at \in {"wait", "write"} /\ epollout \in BOOLEAN

Inv == WriteTypeOK /\ MessageInv /\ RingInv /\ BufInv
-----------------------------------------------------------------------------
(* The blocks *)

\* Each block begins where the one in front of it ends,
LEMMA FromFacts ==
  ASSUME NEW base \in Nat, NEW j \in Nat \ {0}
  PROVE  /\ From(base, 1) = base /\ From(base, j) \in Nat
         /\ From(base, j + 1) = From(base, j) + kBlockSize
         /\ From(base + kBlockSize, j) = From(base, j + 1)
<1>1. kBlockSize \in Nat
  BY BufferAssumption, Zenon
<1>2. j - 1 \in Nat /\ (j + 1) - 1 = (j - 1) + 1
  OBVIOUS
<1>3. \A a \in Nat : a * kBlockSize \in Nat /\ (a + 1) * kBlockSize = a * kBlockSize + kBlockSize
  BY <1>1
<1> QED BY <1>1, <1>2, <1>3 DEF From

\* and no block begins before an earlier one ends.
LEMMA FromMonotone ==
  ASSUME NEW base \in Nat, NEW i \in Nat \ {0}, NEW j \in Nat \ {0}, i < j
  PROVE  From(base, i) + kBlockSize <= From(base, j)
<1>1. kBlockSize \in Nat
  BY BufferAssumption, Zenon
<1>2. PICK d \in Nat : j - 1 = (i - 1) + 1 + d
  <2>1. j - i - 1 \in Nat /\ j - 1 = (i - 1) + 1 + (j - i - 1)
    OBVIOUS
  <2> QED BY <2>1, Zenon
<1>3. ((i - 1) + 1 + d) * kBlockSize = (i - 1) * kBlockSize + kBlockSize + d * kBlockSize
  BY <1>1, <1>2
<1>4. d * kBlockSize \in Nat /\ (i - 1) * kBlockSize \in Nat
  BY <1>1, <1>2
<1> QED BY <1>1, <1>2, <1>3, <1>4 DEF From

\* The fields of a block.
LEMMA BlockFacts ==
  ASSUME NEW k \in Blocks
  PROVE  /\ k.begin \in 0 .. kBlockSize /\ k.end \in 0 .. kBlockSize /\ k.data \in [1 .. kBlockSize -> Nat]
         /\ kBlockSize \in Nat \ {0} /\ k.begin \in Nat /\ k.end \in Nat
BY BufferAssumption DEF Blocks

\* A list of blocks that holds a part of the stream.
LEMMA HoldsFacts ==
  ASSUME NEW s, NEW base, NEW a, NEW u, Holds(s, base, a, u)
  PROVE  /\ s \in Seq(Blocks) /\ Len(s) \in Nat \ {0} /\ base \in Nat /\ a \in Nat /\ u \in Nat
         /\ From(base, Len(s)) \in Nat /\ From(base, Len(s)) <= a
         /\ \A j \in 1 .. Len(s) : s[j] \in Blocks /\ s[j].begin \in Nat /\ s[j].end \in Nat
         /\ s[1] \in Blocks /\ s[Len(s)] \in Blocks /\ s[1].begin \in Nat /\ s[Len(s)].end \in Nat
<1>1. s \in Seq(Blocks) /\ Len(s) \in Nat \ {0} /\ base \in Nat /\ a \in Nat /\ u \in Nat
  BY DEF Holds
<1>2. \A j \in 1 .. Len(s) : s[j] \in Blocks
  BY <1>1
<1>3. \A j \in 1 .. Len(s) : s[j].begin \in Nat /\ s[j].end \in Nat
  BY <1>2, BlockFacts, Zenon
<1>4. 1 \in 1 .. Len(s) /\ Len(s) \in 1 .. Len(s)
  BY <1>1
<1>5. From(base, Len(s)) \in Nat
  BY <1>1, FromFacts, Zenon
<1>6. /\ a + u = From(base, Len(s)) + s[Len(s)].end
      /\ s[Len(s)].begin + u <= s[Len(s)].end
  BY Zenon DEF Holds
<1>7. From(base, Len(s)) <= a
  BY <1>1, <1>3, <1>4, <1>5, <1>6
<1> QED BY <1>1, <1>2, <1>3, <1>4, <1>5, <1>7, Zenon

\* Block k can take the place of the last block: it holds the bytes up to a, and u more.
BlockHolds(k, begin, from, a, u) ==
  /\ a \in Nat /\ u \in Nat /\ k \in Blocks /\ k.begin = begin /\ a + u = from + k.end /\ k.begin + u <= k.end
  /\ HoldsBytes(k, from, a)

LastHolds(k, s, base, a, u) == BlockHolds(k, s[Len(s)].begin, From(base, Len(s)), a, u)

\* t is s with k for its last block.
LastReplaced(t, s, k) ==
  /\ t \in Seq(Blocks) /\ Len(t) = Len(s) /\ t[Len(s)] = k
  /\ \A j \in 1 .. Len(s) : j < Len(s) => t[j] = s[j]

\* That is what an EXCEPT does.
LEMMA ReplaceLast ==
  ASSUME NEW s \in Seq(Blocks), Len(s) > 0, NEW k \in Blocks
  PROVE  LastReplaced([s EXCEPT ![Len(s)] = k], s, k)
BY DEF LastReplaced

\* t is as long as s, as many bytes were taken off, and it holds the stream up to a.
HoldsLike(t, s, base, a, u) ==
  Holds(t, base, a, u) /\ Len(t) = Len(s) /\ t[1].begin = s[1].begin

\* Then the list with it holds the stream up to a.
LEMMA LastChanged ==
  ASSUME NEW s, NEW base, NEW a, NEW u, Holds(s, base, a, u),
         NEW b, NEW v, NEW k, LastHolds(k, s, base, b, v), a <= b,
         NEW t, LastReplaced(t, s, k)
  PROVE  HoldsLike(t, s, base, b, v)
<1>1. /\ s \in Seq(Blocks) /\ Len(s) \in Nat \ {0} /\ base \in Nat /\ a \in Nat /\ u \in Nat
      /\ From(base, Len(s)) \in Nat /\ From(base, Len(s)) <= a
  BY HoldsFacts, Zenon
<1>2. b \in Nat /\ v \in Nat /\ k \in Blocks /\ k.begin = s[Len(s)].begin
  BY Zenon DEF LastHolds, BlockHolds
<1>3. /\ t \in Seq(Blocks) /\ Len(t) = Len(s) /\ t[Len(t)] = k
      /\ \A j \in 1 .. Len(s) : j < Len(s) => t[j] = s[j]
  BY Zenon DEF LastReplaced
<1>4. t[1].begin = s[1].begin
  <2>1. CASE Len(s) = 1
    BY <1>2, <1>3, <2>1, Zenon
  <2>2. CASE Len(s) > 1
    <3>1. t[1] = s[1]
      BY <1>1, <1>3, <2>2
    <3> QED BY <3>1, Zenon
  <2>3. \A n \in Nat \ {0} : n = 1 \/ n > 1
    OBVIOUS
  <2> QED BY <1>1, <2>1, <2>2, <2>3, Zenon
<1>5. base \in 0 .. b
  BY <1>1, <1>2 DEF Holds
<1>6. b + v = From(base, Len(t)) + t[Len(t)].end /\ t[Len(t)].begin + v <= t[Len(t)].end
  BY <1>3, Zenon DEF LastHolds, BlockHolds
<1>7. t[1].begin < kBlockSize
  BY <1>4, Zenon DEF Holds
<1>8. ASSUME NEW j \in 1 .. Len(t)
      PROVE  /\ j < Len(t) => t[j].end = kBlockSize
             /\ j > 1 => t[j].begin = 0
             /\ HoldsBytes(t[j], From(base, j), b)
  <2>1. CASE j = Len(t)
    <3>1. j > 1 => s[j].begin = 0
      BY <1>1, <1>3, Zenon DEF Holds
    <3>2. HoldsBytes(k, From(base, Len(s)), b)
      BY Zenon DEF LastHolds, BlockHolds
    <3>3. j = Len(s) /\ t[j] = k /\ ~(j < Len(t))
      BY <1>1, <1>3, <2>1
    <3>4. j > 1 => k.begin = 0
      BY <1>2, <3>1, <3>3, Zenon
    <3> QED BY <3>2, <3>3, <3>4, Zenon
  <2>2. CASE j # Len(t)
    <3>1. j \in 1 .. Len(s) /\ j < Len(s) /\ j \in Nat \ {0} /\ t[j] = s[j]
      BY <1>1, <1>3, <2>2
    <3>2. s[j].end = kBlockSize /\ (j > 1 => s[j].begin = 0) /\ HoldsBytes(s[j], From(base, j), a)
      BY <3>1, Zenon DEF Holds
    <3>3. From(base, j) + kBlockSize <= From(base, Len(s)) /\ From(base, j) \in Nat
      BY <1>1, <3>1, FromMonotone, FromFacts, Zenon
    <3>4. \A i \in 1 .. kBlockSize : From(base, j) + i <= a
      BY <1>1, <3>3, BufferAssumption
    <3>5. HoldsBytes(s[j], From(base, j), b)
      BY <3>2, <3>4, Zenon DEF HoldsBytes
    <3> QED BY <3>1, <3>2, <3>5, <1>3, Zenon
  <2> QED BY <2>1, <2>2, Zenon
<1>9. Holds(t, base, b, v)
  BY <1>1, <1>2, <1>3, <1>5, <1>6, <1>7, <1>8, Zenon DEF Holds
<1> QED BY <1>3, <1>4, <1>9, Zenon DEF HoldsLike

\* A new block.
LEMMA NewBlockFacts == NewBlock \in Blocks /\ NewBlock.begin = 0 /\ NewBlock.end = 0
BY BufferAssumption DEF NewBlock, Blocks

\* A full list that gets a new block holds what it held.
LEMMA BlockAdded ==
  ASSUME NEW s, NEW base, NEW a, Holds(s, base, a, 0), s[Len(s)].end = kBlockSize,
         NEW t, t = Append(s, NewBlock)
  PROVE  /\ Holds(t, base, a, 0) /\ t[1].begin = s[1].begin
         /\ Len(t) = Len(s) + 1 /\ t[Len(t)] = NewBlock
<1>1. /\ s \in Seq(Blocks) /\ Len(s) \in Nat \ {0} /\ base \in Nat /\ a \in Nat
      /\ From(base, Len(s)) \in Nat
  BY HoldsFacts, Zenon
<1>2. /\ t \in Seq(Blocks) /\ Len(t) = Len(s) + 1 /\ t[Len(t)] = NewBlock
      /\ \A j \in 1 .. Len(s) : t[j] = s[j]
  BY <1>1, NewBlockFacts
<1>3. t[1] = s[1]
  BY <1>1, <1>2
<1>4. From(base, Len(s) + 1) = From(base, Len(s)) + kBlockSize
  BY <1>1, FromFacts, Zenon
<1>5. a + 0 = From(base, Len(t)) + t[Len(t)].end /\ t[Len(t)].begin + 0 <= t[Len(t)].end
  <2>1. a + 0 = From(base, Len(s)) + kBlockSize
    BY Zenon DEF Holds
  <2> QED BY <2>1, <1>1, <1>2, <1>4, NewBlockFacts, BufferAssumption
<1>6. ASSUME NEW j \in 1 .. Len(t)
      PROVE  /\ j < Len(t) => t[j].end = kBlockSize
             /\ j > 1 => t[j].begin = 0
             /\ HoldsBytes(t[j], From(base, j), a)
  <2>1. CASE j = Len(t)
    <3>1. HoldsBytes(NewBlock, From(base, j), a)
      BY NewBlockFacts DEF HoldsBytes
    <3> QED BY <1>1, <1>2, <2>1, <3>1, NewBlockFacts
  <2>2. CASE j # Len(t)
    <3>1. j \in 1 .. Len(s) /\ t[j] = s[j]
      BY <1>1, <1>2, <2>2
    <3>2. /\ j < Len(s) => s[j].end = kBlockSize
          /\ j > 1 => s[j].begin = 0
          /\ HoldsBytes(s[j], From(base, j), a)
      BY <3>1, Zenon DEF Holds
    <3>3. s[j].end = kBlockSize
      BY <1>1, <3>1, <3>2
    <3> QED BY <3>1, <3>2, <3>3, Zenon
  <2> QED BY <2>1, <2>2, Zenon
<1>7. base \in 0 .. a /\ t[1].begin < kBlockSize
  BY <1>3, Zenon DEF Holds
<1>8. Holds(t, base, a, 0)
  BY <1>1, <1>2, <1>5, <1>6, <1>7 DEF Holds
<1> QED BY <1>2, <1>3, <1>8, Zenon
-----------------------------------------------------------------------------
(* The member functions of the buffer *)

\* The lesser of two numbers.
LEMMA MinTwo == ASSUME NEW x \in Int, NEW y \in Int PROVE Min({x, y}) = IF x <= y THEN x ELSE y
<1> DEFINE m == IF x <= y THEN x ELSE y
<1>1. m \in {x, y} /\ \A z \in {x, y} : m <= z
  OBVIOUS
<1>2. \A w \in {x, y} : (\A z \in {x, y} : w <= z) => w = m
  OBVIOUS
<1> QED BY <1>1, <1>2, Zenon DEF Min

\* d is k's data with n bytes of the stream from byte f on behind the first p.
Copied(d, k, p, f, n) == \A i \in 1 .. kBlockSize :
  /\ i \in p + 1 .. p + n => d[i] = f + i - p - 1
  /\ i \notin p + 1 .. p + n => d[i] = k.data[i]

CopyOf(w, k, p, f, n) ==
  w \in Blocks /\ w.begin = k.begin /\ w.end = k.end /\ Copied(w.data, k, p, f, n)

\* The arguments of memcpy.
Copies(k, p, f, n) == k \in Blocks /\ p \in Nat /\ f \in Nat \ {0} /\ n \in Nat

\* memcpy writes n bytes behind the first p of the block's data.
LEMMA MemcpyFacts ==
  ASSUME NEW k, NEW p, NEW f, NEW n, Copies(k, p, f, n)
  PROVE  CopyOf(memcpy(k, p, f, n), k, p, f, n)
<1> USE DEF Copies
<1> DEFINE d == [i \in 1 .. kBlockSize |-> IF i \in p + 1 .. p + n THEN f + i - p - 1 ELSE k.data[i]]
<1>1. memcpy(k, p, f, n) = [k EXCEPT !.data = d]
  BY Zenon DEF memcpy
<1>2. d \in [1 .. kBlockSize -> Nat]
  BY BlockFacts
<1>3. Copied(d, k, p, f, n)
  BY Zenon DEF Copied
<1> HIDE DEF d
<1>4. [k EXCEPT !.data = d] \in Blocks /\ [k EXCEPT !.data = d].data = d
  BY <1>2, Zenon DEF Blocks
<1>5. [k EXCEPT !.data = d].begin = k.begin /\ [k EXCEPT !.data = d].end = k.end
  BY Zenon DEF Blocks
<1> QED BY <1>1, <1>3, <1>4, <1>5, Zenon DEF CopyOf

\* w is block k with the n bytes behind byte a of the stream in its places from p + 1 on.
Fills(w, k, from, a, p, n, f) ==
  /\ k \in Blocks /\ w \in Blocks /\ from \in Nat /\ a \in Nat /\ p \in Nat /\ n \in Nat
  /\ f = a + 1 /\ a = from + p /\ k.begin <= p /\ p <= k.end /\ HoldsBytes(k, from, a)
  /\ w.begin = k.begin /\ Copied(w.data, k, p, f, n)

\* A block that gets the n bytes behind byte a of the stream in its next n places holds them.
LEMMA FillBlock ==
  ASSUME NEW k, NEW from, NEW a, NEW p, NEW n, NEW f, NEW w, Fills(w, k, from, a, p, n, f),
         NEW c, NEW v, c = a + n, c + v = from + w.end, v \in Nat
  PROVE  BlockHolds(w, k.begin, from, c, v) /\ a <= c
<1>1. /\ k \in Blocks /\ w \in Blocks /\ from \in Nat /\ a \in Nat /\ p \in Nat /\ n \in Nat
      /\ f = a + 1 /\ a = from + p /\ k.begin <= p /\ p <= k.end /\ HoldsBytes(k, from, a)
      /\ w.begin = k.begin /\ Copied(w.data, k, p, f, n)
  BY Zenon DEF Fills
<1>2. /\ kBlockSize \in Nat /\ k.end \in 0 .. kBlockSize /\ k.begin \in Nat /\ k.end \in Nat
      /\ w.end \in 0 .. kBlockSize /\ w.end \in Nat
  BY <1>1, BlockFacts, Zenon
<1>3. c \in Nat /\ a <= c /\ w.begin + v <= w.end
  BY <1>2, <1>1
<1>4. ASSUME NEW i \in 1 .. w.end, from + i <= c
      PROVE  w.data[i] = from + i
  <2>1. i \in 1 .. kBlockSize
    BY <1>2
  <2>2. /\ i \in p + 1 .. p + n => w.data[i] = f + i - p - 1
        /\ i \notin p + 1 .. p + n => w.data[i] = k.data[i]
    BY <1>1, <2>1, Zenon DEF Copied
  <2>3. CASE i > p
    <3>1. i \in p + 1 .. p + n /\ f + i - p - 1 = from + i
      BY <1>2, <1>4, <1>1, <2>3
    <3> QED BY <2>2, <3>1, Zenon
  <2>4. CASE i <= p
    <3>1. i \notin p + 1 .. p + n /\ i \in 1 .. k.end /\ from + i <= a
      BY <1>2, <1>1, <2>4
    <3>2. k.data[i] = from + i
      BY <1>1, <3>1, Zenon DEF HoldsBytes
    <3> QED BY <2>2, <3>1, <3>2, Zenon
  <2>5. i > p \/ i <= p
    BY <1>2, <1>1
  <2> QED BY <2>3, <2>4, <2>5, Zenon
<1>5. HoldsBytes(w, from, c)
  BY <1>4, Zenon DEF HoldsBytes
<1> QED BY <1>3, <1>5, <1>1, Zenon DEF BlockHolds

\* q has the counter n, and blocks that hold the stream up to byte a, as many taken off as from b.
Kept(q, b, base, a, u, n) ==
  /\ q \in Buffer /\ Holds(q.blocks, base, a, u)
  /\ q.blocks[1].begin = b.blocks[1].begin /\ q.to_write_bytes_ = n

\* q is b with k for its last block and the counter n.
LastWritten(q, b, k, n) ==
  q \in Buffer /\ LastReplaced(q.blocks, b.blocks, k) /\ q.to_write_bytes_ = n

\* That is what an EXCEPT of the two makes of b.
LEMMA WriteLast ==
  ASSUME NEW b \in Buffer, Len(b.blocks) > 0, NEW k \in Blocks, NEW n \in Nat
  PROVE  LastWritten([b EXCEPT !.blocks[Len(b.blocks)] = k, !.to_write_bytes_ = n], b, k, n)
<1> DEFINE t == [b.blocks EXCEPT ![Len(b.blocks)] = k]
           q == [b EXCEPT !.blocks[Len(b.blocks)] = k, !.to_write_bytes_ = n]
<1>1. b.blocks \in Seq(Blocks)
  BY Zenon DEF Buffer
<1>2. LastReplaced(t, b.blocks, k)
  BY <1>1, ReplaceLast, Zenon
<1>3. q.blocks = t /\ q.to_write_bytes_ = n
  BY Zenon DEF Buffer
<1>4. t \in Seq(Blocks)
  BY <1>2, Zenon DEF LastReplaced
<1>5. q \in Buffer
  <2>1. q = [[b EXCEPT !.blocks = t] EXCEPT !.to_write_bytes_ = n]
    BY Zenon
  <2> HIDE DEF t, q
  <2> QED BY <1>4, <2>1, Zenon DEF Buffer
<1> HIDE DEF t, q
<1>6. LastWritten(q, b, k, n)
  BY <1>2, <1>3, <1>5, Zenon DEF LastWritten
<1> QED BY <1>6, Zenon DEF q

\* A block that can take the place of the last one keeps the buffer in order.
LEMMA WrittenKeeps ==
  ASSUME NEW b \in Buffer, NEW base, NEW a, NEW u, Holds(b.blocks, base, a, u),
         NEW k, NEW c, NEW v, a <= c,
         LastHolds(k, b.blocks, base, c, v),
         NEW q, NEW n, LastWritten(q, b, k, n)
  PROVE  Kept(q, b, base, c, v, n) /\ Len(q.blocks) = Len(b.blocks) /\ LastBlock(q) = k
<1>1. LastReplaced(q.blocks, b.blocks, k) /\ q \in Buffer /\ q.to_write_bytes_ = n
  BY Zenon DEF LastWritten
<1>2. HoldsLike(q.blocks, b.blocks, base, c, v)
  BY <1>1, LastChanged, Zenon
<1>3. /\ Holds(q.blocks, base, c, v) /\ Len(q.blocks) = Len(b.blocks)
      /\ q.blocks[1].begin = b.blocks[1].begin
  BY <1>2, Zenon DEF HoldsLike
<1>4. LastBlock(q) = k
  BY <1>1, <1>3, Zenon DEF LastBlock, LastReplaced
<1> QED BY <1>1, <1>3, <1>4, Zenon DEF Kept

\* AddBlock behind a full block keeps it too.
LEMMA AddBlockKeeps ==
  ASSUME NEW b \in Buffer, NEW base, NEW a, Holds(b.blocks, base, a, 0),
         LastBlock(b).end = kBlockSize
  PROVE  /\ Kept(AddBlock(b), b, base, a, 0, b.to_write_bytes_)
         /\ LastBlock(AddBlock(b)) = NewBlock
<1> DEFINE t == Append(b.blocks, NewBlock)
           q == AddBlock(b)
<1>1. b.blocks \in Seq(Blocks) /\ b.to_write_bytes_ \in Nat /\ t \in Seq(Blocks)
  BY NewBlockFacts DEF Buffer
<1>2. q = [blocks |-> t, to_write_bytes_ |-> b.to_write_bytes_]
  BY DEF AddBlock, Buffer
<1>3. b.blocks[Len(b.blocks)].end = kBlockSize
  BY Zenon DEF LastBlock
<1>4. /\ Holds(t, base, a, 0) /\ t[1].begin = b.blocks[1].begin
      /\ Len(t) = Len(b.blocks) + 1 /\ t[Len(t)] = NewBlock
  BY <1>3, BlockAdded, Zenon
<1> HIDE DEF t, q
<1>5. q \in Buffer /\ q.blocks = t /\ q.to_write_bytes_ = b.to_write_bytes_
  BY <1>1, <1>2, Zenon DEF Buffer
<1>6. Kept(q, b, base, a, 0, b.to_write_bytes_)
  BY <1>4, <1>5, Zenon DEF Kept
<1>7. LastBlock(q) = NewBlock
  BY <1>4, <1>5, Zenon DEF LastBlock
<1> QED BY <1>6, <1>7, Zenon DEF q

\* What is known of the last block.
LEMMA LastFacts ==
  ASSUME NEW b \in Buffer, NEW base, NEW a, NEW u, Holds(b.blocks, base, a, u)
  PROVE  /\ LastBlock(b) \in Blocks /\ Len(b.blocks) > 0 /\ b.to_write_bytes_ \in Nat
         /\ LastBlock(b).begin \in 0 .. kBlockSize /\ LastBlock(b).end \in 0 .. kBlockSize
         /\ From(base, Len(b.blocks)) \in Nat /\ a \in Nat /\ u \in Nat /\ kBlockSize \in Nat \ {0}
         /\ a + u = From(base, Len(b.blocks)) + LastBlock(b).end
         /\ LastBlock(b).begin + u <= LastBlock(b).end
         /\ HoldsBytes(LastBlock(b), From(base, Len(b.blocks)), a)
<1>1. /\ LastBlock(b) \in Blocks /\ Len(b.blocks) > 0 /\ From(base, Len(b.blocks)) \in Nat
      /\ a \in Nat /\ u \in Nat /\ Len(b.blocks) \in 1 .. Len(b.blocks)
  BY HoldsFacts DEF LastBlock
<1>2. /\ a + u = From(base, Len(b.blocks)) + LastBlock(b).end
      /\ LastBlock(b).begin + u <= LastBlock(b).end
      /\ HoldsBytes(LastBlock(b), From(base, Len(b.blocks)), a)
  BY <1>1, Zenon DEF Holds, LastBlock
<1>3. b.to_write_bytes_ \in Nat
  BY Zenon DEF Buffer
<1> QED BY <1>1, <1>2, <1>3, BlockFacts, Zenon

\* Two steps in a row that keep a buffer keep it.
LEMMA KeptTwice ==
  ASSUME NEW b, NEW q, NEW r, NEW base, NEW a, NEW u, NEW m, NEW c, NEW v, NEW n,
         Kept(q, b, base, a, u, m), Kept(r, q, base, c, v, n)
  PROVE  Kept(r, b, base, c, v, n)
BY Zenon DEF Kept

\* A block with another end.
LEMMA EndMoves ==
  ASSUME NEW k \in Blocks, NEW e \in 0 .. kBlockSize
  PROVE  /\ [k EXCEPT !.end = e] \in Blocks /\ [k EXCEPT !.end = e].end = e
         /\ [k EXCEPT !.end = e].begin = k.begin /\ [k EXCEPT !.end = e].data = k.data
BY Zenon DEF Blocks

\* Behind the last byte of the last block there is room for n bytes: append puts them there.
LEMMA AppendKeeps ==
  ASSUME NEW b \in Buffer, NEW base, NEW a, Holds(b.blocks, base, a, 0), NEW n \in 0 .. Room(b),
         NEW f, f = a + 1, NEW c, c = a + n
  PROVE  Kept(append(b, f, n), b, base, c, 0, b.to_write_bytes_ + n)
<1> DEFINE k == LastBlock(b)
           p == k.end
           e == p + n
           m == memcpy(k, p, f, n)
           w == [m EXCEPT !.end = e]
           t == b.to_write_bytes_ + n
           r == [b EXCEPT !.blocks[Len(b.blocks)] = w, !.to_write_bytes_ = t]
           from == From(base, Len(b.blocks))
<1>1. append(b, f, n) = IF [m EXCEPT !.end = m.end + n].end = kBlockSize
                        THEN AddBlock([b EXCEPT !.blocks[Len(b.blocks)] = [m EXCEPT !.end = m.end + n],
                                                !.to_write_bytes_ = t])
                        ELSE [b EXCEPT !.blocks[Len(b.blocks)] = [m EXCEPT !.end = m.end + n],
                                       !.to_write_bytes_ = t]
  BY Zenon DEF append
<1>2. /\ k \in Blocks /\ Len(b.blocks) > 0 /\ b.to_write_bytes_ \in Nat
      /\ k.begin \in 0 .. kBlockSize /\ p \in 0 .. kBlockSize
      /\ from \in Nat /\ a \in Nat /\ kBlockSize \in Nat \ {0}
      /\ a + 0 = from + p /\ k.begin + 0 <= p
      /\ HoldsBytes(k, from, a)
  BY LastFacts, Zenon
<1>3. Room(b) = kBlockSize - p
  BY Zenon DEF Room
<1> HIDE DEF k, p, m, w, t, r, from
<1>4. n \in Nat /\ p \in Nat /\ f \in Nat \ {0} /\ e \in 0 .. kBlockSize
  BY <1>2, <1>3
<1>5. a = from + p /\ k.begin <= p /\ p <= p /\ c + 0 = from + e /\ 0 \in Nat
  BY <1>2, <1>4
<1> HIDE DEF e
<1>6. m \in Blocks /\ m.begin = k.begin /\ m.end = p /\ Copied(m.data, k, p, f, n)
  <2>1. Copies(k, p, f, n)
    BY <1>2, <1>4, Zenon DEF Copies
  <2>2. CopyOf(m, k, p, f, n)
    BY <2>1, MemcpyFacts, Zenon DEF m
  <2> QED BY <2>2, Zenon DEF p, CopyOf
<1>7. w \in Blocks /\ w.end = e /\ w.begin = k.begin /\ w.data = m.data
  BY <1>4, <1>6, EndMoves, Zenon DEF w
<1>8. BlockHolds(w, k.begin, from, c, 0) /\ a <= c
  <2>1. p <= k.end
    BY <1>5, Zenon DEF p
  <2>2. Fills(w, k, from, a, p, n, f)
    BY <1>2, <1>4, <1>5, <1>6, <1>7, <2>1, Zenon DEF Fills
  <2>3. c + 0 = from + w.end
    BY <1>5, <1>7, Zenon
  <2> QED BY <1>5, <2>2, <2>3, FillBlock, Zenon
<1>9. t \in Nat
  BY <1>2, <1>4 DEF t
<1>15. LastHolds(w, b.blocks, base, c, 0)
  BY <1>8, Zenon DEF LastHolds, LastBlock, k, from
<1>10. LastWritten(r, b, w, t)
  BY <1>2, <1>7, <1>9, WriteLast, Zenon DEF r
<1>11. Kept(r, b, base, c, 0, t) /\ LastBlock(r) = w
  BY <1>8, <1>10, <1>15, WrittenKeeps, Zenon
<1>12. append(b, f, n) = IF w.end = kBlockSize THEN AddBlock(r) ELSE r
  <2>1. w = [m EXCEPT !.end = m.end + n]
    BY <1>6, Zenon DEF w, e
  <2> QED BY <1>1, <2>1, Zenon DEF r
<1>13. CASE w.end = kBlockSize
  <2>1. r \in Buffer /\ Holds(r.blocks, base, c, 0) /\ r.to_write_bytes_ = t
    BY <1>11, Zenon DEF Kept
  <2>2. Kept(AddBlock(r), r, base, c, 0, t)
    BY <1>11, <1>13, <2>1, AddBlockKeeps, Zenon
  <2>3. Kept(AddBlock(r), b, base, c, 0, t)
    BY <1>11, <2>2, KeptTwice, Zenon
  <2> QED BY <1>12, <1>13, <2>3, Zenon DEF t
<1>14. CASE w.end # kBlockSize
  BY <1>11, <1>12, <1>14, Zenon DEF t
<1> QED BY <1>13, <1>14, Zenon

\* What next hands out.
HandedOut(b) == Room(b) + IF Room(b) = 0 THEN kBlockSize ELSE 0

\* next counts what it hands out: it is there to be filled.
LEMMA NextKeeps ==
  ASSUME NEW b \in Buffer, NEW base, NEW a, Holds(b.blocks, base, a, 0)
  PROVE  /\ HandedOut(b) \in 1 .. kBlockSize
         /\ Kept(next(b), b, base, a, HandedOut(b), b.to_write_bytes_ + HandedOut(b))
<1> DEFINE r == IF LastBlock(b).end = kBlockSize THEN AddBlock(b) ELSE b
<1>1. /\ LastBlock(b) \in Blocks /\ LastBlock(b).end \in 0 .. kBlockSize
      /\ kBlockSize \in Nat \ {0} /\ b.to_write_bytes_ \in Nat
  BY LastFacts, Zenon
<1>2. Kept(r, b, base, a, 0, b.to_write_bytes_)
      /\ Room(r) = HandedOut(b) /\ HandedOut(b) \in 1 .. kBlockSize
  <2>1. CASE LastBlock(b).end = kBlockSize
    <3>1. Kept(r, b, base, a, 0, b.to_write_bytes_) /\ LastBlock(r) = NewBlock
      BY <2>1, AddBlockKeeps, Zenon
    <3>2. Room(r) = kBlockSize /\ Room(b) = 0
      BY <1>1, <2>1, <3>1, NewBlockFacts DEF Room
    <3>3. HandedOut(b) = kBlockSize
      BY <1>1, <3>2 DEF HandedOut
    <3> QED BY <1>1, <3>1, <3>2, <3>3
  <2>2. CASE LastBlock(b).end # kBlockSize
    <3>1. Kept(b, b, base, a, 0, b.to_write_bytes_)
      BY Zenon DEF Kept
    <3>2. Room(b) \in 1 .. kBlockSize
      BY <1>1, <2>2 DEF Room
    <3>3. HandedOut(b) = Room(b)
      BY <1>1, <3>2 DEF HandedOut
    <3> QED BY <2>2, <3>1, <3>2, <3>3, Zenon
  <2> QED BY <2>1, <2>2, Zenon
<1> DEFINE k == LastBlock(r)
           w == [k EXCEPT !.end = kBlockSize]
           n == HandedOut(b)
           c == b.to_write_bytes_ + n
           from == From(base, Len(r.blocks))
           q == [r EXCEPT !.blocks[Len(r.blocks)] = w, !.to_write_bytes_ = c]
<1>3. next(b) = [r EXCEPT !.blocks[Len(r.blocks)].end = kBlockSize,
                          !.to_write_bytes_ = r.to_write_bytes_ + Room(r)]
  BY Zenon DEF next
<1> HIDE DEF r
<1>4. r \in Buffer /\ Holds(r.blocks, base, a, 0) /\ r.to_write_bytes_ = b.to_write_bytes_
  BY <1>2, Zenon DEF Kept
<1>5. /\ k \in Blocks /\ Len(r.blocks) > 0 /\ k.end \in 0 .. kBlockSize /\ k.begin \in 0 .. kBlockSize
      /\ from \in Nat /\ a \in Nat /\ a + 0 = from + k.end /\ k.begin + 0 <= k.end
      /\ HoldsBytes(k, from, a)
  BY <1>4, LastFacts, Zenon
<1>6. next(b) = q
  BY <1>2, <1>3, <1>4, Zenon DEF LastBlock
<1>7. n = kBlockSize - k.end /\ n \in Nat
  BY <1>1, <1>2 DEF Room
<1> HIDE DEF k, n, from
<1> HIDE DEF w, q
<1>15. a = from + k.end /\ k.begin <= k.end
  BY <1>5
<1>8. /\ kBlockSize \in 0 .. kBlockSize /\ a + n = from + kBlockSize /\ k.begin + n <= kBlockSize
      /\ c \in Nat /\ a <= a
  <2>1. kBlockSize \in Nat /\ from \in Nat /\ a \in Nat /\ k.end \in Nat /\ k.begin \in Nat /\ k.end <= kBlockSize
    BY <1>1, <1>5
  <2>2. a + n = from + kBlockSize
    BY <1>7, <1>15, <2>1
  <2>3. k.begin + n <= kBlockSize
    BY <1>7, <1>15, <2>1
  <2>4. c \in Nat
    BY <1>1, <1>7
  <2>5. kBlockSize \in 0 .. kBlockSize /\ a <= a
    BY <2>1
  <2> QED BY <2>2, <2>3, <2>4, <2>5, Zenon
<1>9. w \in Blocks /\ w.end = kBlockSize /\ w.begin = k.begin /\ w.data = k.data
  BY <1>5, <1>8, EndMoves, Zenon DEF w
<1>10. HoldsBytes(w, from, a)
  <2>1. \A i \in 1 .. kBlockSize : from + i <= a => i \in 1 .. k.end
    BY <1>1, <1>5
  <2> QED BY <1>5, <1>9, <2>1, Zenon DEF HoldsBytes
<1>16. BlockHolds(w, k.begin, from, a, n)
  BY <1>5, <1>7, <1>8, <1>9, <1>10, Zenon DEF BlockHolds
<1>11. LastHolds(w, r.blocks, base, a, n)
  BY <1>16, Zenon DEF LastHolds, LastBlock, k, from
<1>12. LastWritten(q, r, w, c)
  BY <1>4, <1>5, <1>8, <1>9, WriteLast, Zenon DEF q
<1> HIDE DEF c
<1>13. Kept(q, r, base, a, n, c)
  BY <1>4, <1>8, <1>11, <1>12, WrittenKeeps, Zenon
<1>14. Kept(q, b, base, a, n, c)
  BY <1>2, <1>13, KeptTwice, Zenon
<1> QED BY <1>2, <1>6, <1>14, Zenon DEF c, n

\* An EXCEPT of the last block leaves the counter alone.
LEMMA WriteLastOnly ==
  ASSUME NEW b \in Buffer, Len(b.blocks) > 0, NEW k \in Blocks
  PROVE  LastWritten([b EXCEPT !.blocks[Len(b.blocks)] = k], b, k, b.to_write_bytes_)
<1> DEFINE n == b.to_write_bytes_
<1>1. n \in Nat
  BY Zenon DEF Buffer
<1>2. [b EXCEPT !.blocks[Len(b.blocks)] = k]
        = [b EXCEPT !.blocks[Len(b.blocks)] = k, !.to_write_bytes_ = n]
  BY Zenon DEF Buffer
<1> HIDE DEF n
<1>3. LastWritten([b EXCEPT !.blocks[Len(b.blocks)] = k, !.to_write_bytes_ = n], b, k, n)
  BY <1>1, WriteLast, Zenon
<1> QED BY <1>2, <1>3, Zenon DEF n

\* The bytes that protobuf puts into the memory it got are the next of the stream.
LEMMA FillKeeps ==
  ASSUME NEW b \in Buffer, NEW base, NEW a, NEW u, Holds(b.blocks, base, a, u), NEW n \in 0 .. u,
         NEW f, f = a + 1, NEW c, c = a + n, NEW v, v = u - n
  PROVE  Kept([b EXCEPT !.blocks[Len(b.blocks)] = memcpy(LastBlock(b), LastBlock(b).end - u, f, n)],
              b, base, c, v, b.to_write_bytes_)
<1> DEFINE k == LastBlock(b)
           p == k.end - u
           w == memcpy(k, p, f, n)
           q == [b EXCEPT !.blocks[Len(b.blocks)] = w]
           from == From(base, Len(b.blocks))
<1>1. /\ k \in Blocks /\ Len(b.blocks) > 0
      /\ k.begin \in 0 .. kBlockSize /\ k.end \in 0 .. kBlockSize
      /\ from \in Nat /\ a \in Nat /\ u \in Nat /\ kBlockSize \in Nat \ {0}
      /\ a + u = from + k.end /\ k.begin + u <= k.end /\ HoldsBytes(k, from, a)
  BY LastFacts, Zenon
<1> HIDE DEF k, w, q, from
<1>2. k.end \in Nat /\ k.begin \in Nat /\ n \in Nat /\ v \in Nat /\ f \in Nat \ {0}
  BY <1>1
<1>3. p \in Nat /\ a = from + p /\ k.begin <= p /\ p <= k.end /\ c + v = from + k.end
  <2> DEFINE ke == k.end
             kb == k.begin
  <2>1. /\ ke \in Nat /\ kb \in Nat /\ n \in Nat /\ from \in Nat /\ a \in Nat /\ u \in Nat
        /\ a + u = from + ke /\ kb + u <= ke
    BY <1>1, <1>2, Zenon
  <2> HIDE DEF ke, kb
  <2>2. ke - u \in Nat /\ a = from + (ke - u) /\ kb <= ke - u /\ ke - u <= ke
    BY <2>1
  <2>3. c + v = from + ke
    BY <2>1
  <2> QED BY <2>2, <2>3, Zenon DEF ke, kb
<1> HIDE DEF p
<1>4. CopyOf(w, k, p, f, n)
  <2>1. Copies(k, p, f, n)
    BY <1>1, <1>2, <1>3, Zenon DEF Copies
  <2> QED BY <2>1, MemcpyFacts, Zenon DEF w
<1>5. Fills(w, k, from, a, p, n, f) /\ w \in Blocks /\ w.end = k.end
  BY <1>1, <1>2, <1>3, <1>4, Zenon DEF Fills, CopyOf
<1>6. BlockHolds(w, k.begin, from, c, v) /\ a <= c
  <2>1. c + v = from + w.end
    BY <1>3, <1>5, Zenon
  <2> QED BY <1>2, <1>5, <2>1, FillBlock, Zenon
<1>7. LastHolds(w, b.blocks, base, c, v)
  BY <1>6, Zenon DEF LastHolds, LastBlock, k, from
<1>8. LastWritten(q, b, w, b.to_write_bytes_)
  BY <1>1, <1>5, WriteLastOnly, Zenon DEF q
<1>9. Kept(q, b, base, c, v, b.to_write_bytes_)
  BY <1>6, <1>7, <1>8, WrittenKeeps, Zenon
<1> QED BY <1>9, Zenon DEF q, w, p, k

\* back_up gives back what was not filled.
LEMMA BackUpKeeps ==
  ASSUME NEW b \in Buffer, NEW base, NEW a, NEW u, Holds(b.blocks, base, a, u),
         u <= b.to_write_bytes_
  PROVE  Kept(back_up(b, u), b, base, a, 0, b.to_write_bytes_ - u)
<1> DEFINE k == LastBlock(b)
           e == k.end - u
           w == [k EXCEPT !.end = e]
           c == b.to_write_bytes_ - u
           q == [b EXCEPT !.blocks[Len(b.blocks)] = w, !.to_write_bytes_ = c]
           from == From(base, Len(b.blocks))
<1>1. /\ k \in Blocks /\ Len(b.blocks) > 0 /\ b.to_write_bytes_ \in Nat
      /\ k.begin \in 0 .. kBlockSize /\ k.end \in 0 .. kBlockSize
      /\ from \in Nat /\ a \in Nat /\ u \in Nat /\ kBlockSize \in Nat \ {0}
      /\ a + u = from + k.end /\ k.begin + u <= k.end /\ HoldsBytes(k, from, a)
  BY LastFacts, Zenon
<1> HIDE DEF k, w, q, from
<1>2. k.end \in Nat /\ k.begin \in Nat /\ u <= k.end /\ c \in Nat
  <2>1. k.end \in Nat /\ k.begin \in Nat
    BY <1>1
  <2>2. u <= k.end
    BY <1>1, <2>1
  <2>3. c \in Nat
    BY <1>1
  <2> QED BY <2>1, <2>2, <2>3, Zenon
<1>3. Min({u, k.end}) = u
  <2>1. u \in Int /\ k.end \in Int
    BY <1>1, <1>2
  <2> QED BY <1>2, <2>1, MinTwo, Zenon
<1>4. e \in 0 .. kBlockSize /\ a + 0 = from + e /\ k.begin + 0 <= e /\ e <= k.end /\ a <= a /\ 0 \in Nat
  <2> DEFINE ke == k.end
             kb == k.begin
  <2>1. /\ ke \in Nat /\ kb \in Nat /\ from \in Nat /\ a \in Nat /\ u \in Nat /\ kBlockSize \in Nat
        /\ a + u = from + ke /\ kb + u <= ke /\ ke <= kBlockSize
    BY <1>1, <1>2
  <2> HIDE DEF ke, kb
  <2>2. ke - u \in 0 .. kBlockSize /\ a + 0 = from + (ke - u) /\ kb + 0 <= ke - u /\ ke - u <= ke
    BY <2>1
  <2>3. a <= a /\ 0 \in Nat
    BY <2>1
  <2> QED BY <2>2, <2>3, Zenon DEF ke, kb
<1> HIDE DEF e, c
<1>5. w \in Blocks /\ w.end = e /\ w.begin = k.begin /\ w.data = k.data
  BY <1>1, <1>4, EndMoves, Zenon DEF w
<1>6. HoldsBytes(w, from, a)
  <2>1. \A i \in 1 .. e : i \in 1 .. k.end
    BY <1>2, <1>4
  <2> QED BY <1>1, <1>5, <2>1, Zenon DEF HoldsBytes
<1>7. BlockHolds(w, k.begin, from, a, 0)
  BY <1>1, <1>4, <1>5, <1>6, Zenon DEF BlockHolds
<1>8. LastHolds(w, b.blocks, base, a, 0)
  BY <1>7, Zenon DEF LastHolds, LastBlock, k, from
<1>9. LastWritten(q, b, w, c)
  BY <1>1, <1>2, <1>5, WriteLast, Zenon DEF q
<1>10. Kept(q, b, base, a, 0, c)
  BY <1>4, <1>8, <1>9, WrittenKeeps, Zenon
<1>11. back_up(b, u) = [b EXCEPT !.blocks[Len(b.blocks)].end = k.end - u, !.to_write_bytes_ = c]
  BY <1>3, Zenon DEF back_up, k, c, LastBlock
<1>12. back_up(b, u) = q
  BY <1>11, Zenon DEF q, w, e, k, LastBlock
<1> QED BY <1>10, <1>12, Zenon DEF c

\* An empty list begins anywhere in the stream.
LEMMA EmptyHolds ==
  ASSUME NEW a \in Nat
  PROVE  Holds(<<NewBlock>>, a, a, 0) /\ <<NewBlock>>[1].begin = 0
<1> DEFINE t == <<NewBlock>>
<1>1. NewBlock \in Blocks /\ NewBlock.begin = 0 /\ NewBlock.end = 0
  BY NewBlockFacts, Zenon
<1>2. t \in Seq(Blocks) /\ Len(t) = 1 /\ t[1] = NewBlock
  BY <1>1
<1> HIDE DEF t
<1>3. From(a, 1) = a /\ kBlockSize > 0
  BY FromFacts, BufferAssumption
<1>4. \A j \in 1 .. Len(t) : j = 1
  BY <1>2
<1>5. HoldsBytes(NewBlock, From(a, 1), a)
  BY <1>1 DEF HoldsBytes
<1>6. \A j \in 1 .. Len(t) :
        /\ j < Len(t) => t[j].end = kBlockSize
        /\ j > 1 => t[j].begin = 0
        /\ HoldsBytes(t[j], From(a, j), a)
  BY <1>2, <1>4, <1>5
<1>7. /\ a + 0 = From(a, Len(t)) + t[Len(t)].end /\ t[Len(t)].begin + 0 <= t[Len(t)].end
      /\ t[1].begin < kBlockSize
  BY <1>1, <1>2, <1>3
<1>8. Len(t) > 0 /\ a \in 0 .. a /\ 0 \in Nat
  BY <1>2
<1>9. Holds(t, a, a, 0)
  BY <1>2, <1>6, <1>7, <1>8, Zenon DEF Holds
<1> QED BY <1>1, <1>2, <1>9, Zenon DEF t

\* t is s with k for its first block.
FirstReplaced(t, s, k) ==
  /\ t \in Seq(Blocks) /\ Len(t) = Len(s) /\ t[1] = k
  /\ \A j \in 1 .. Len(s) : j > 1 => t[j] = s[j]

\* The first block with n more bytes taken off.
FirstTaken(k, s, n) ==
  /\ k \in Blocks /\ k.begin = s[1].begin + n /\ k.end = s[1].end /\ k.data = s[1].data
  /\ n \in Nat /\ k.begin <= k.end

\* A list of which bytes are taken off its first block holds what it held,
LEMMA FirstMoved ==
  ASSUME NEW s, NEW base, NEW a, Holds(s, base, a, 0), NEW k, NEW n, FirstTaken(k, s, n),
         NEW t, FirstReplaced(t, s, k), k.begin < kBlockSize
  PROVE  Holds(t, base, a, 0)
<1>1. /\ s \in Seq(Blocks) /\ Len(s) \in Nat \ {0} /\ base \in Nat /\ a \in Nat
      /\ base \in 0 .. a
  BY HoldsFacts, Zenon DEF Holds
<1>2. /\ t \in Seq(Blocks) /\ Len(t) = Len(s) /\ t[1] = k
      /\ \A j \in 1 .. Len(s) : j > 1 => t[j] = s[j]
  BY Zenon DEF FirstReplaced
<1>3. k.end = s[1].end /\ k.data = s[1].data /\ k.begin <= k.end /\ k.begin \in Nat /\ k.end \in Nat
  BY BlockFacts, Zenon DEF FirstTaken
<1>4. ASSUME NEW j \in 1 .. Len(s) PROVE t[j].end = s[j].end /\ t[j].data = s[j].data
  <2>1. CASE j = 1
    BY <1>2, <1>3, <2>1, Zenon
  <2>2. CASE j > 1
    BY <1>2, <2>2, Zenon
  <2> QED BY <1>1, <2>1, <2>2
<1>5. a + 0 = From(base, Len(t)) + t[Len(t)].end
  <2>1. Len(s) \in 1 .. Len(s) /\ a + 0 = From(base, Len(s)) + s[Len(s)].end
    BY <1>1 DEF Holds
  <2> QED BY <1>2, <1>4, <2>1, Zenon
<1>6. t[Len(t)].begin + 0 <= t[Len(t)].end
  <2>1. CASE Len(s) = 1
    BY <1>2, <1>3, <2>1
  <2>2. CASE Len(s) # 1
    <3>1. Len(s) > 1 /\ Len(s) \in 1 .. Len(s)
      <4>1. \A m \in Nat \ {0} : m # 1 => m > 1 /\ m \in 1 .. m
        OBVIOUS
      <4> QED BY <1>1, <2>2, <4>1, Zenon
    <3>2. t[Len(s)] = s[Len(s)]
      BY <1>2, <3>1, Zenon
    <3>3. s[Len(s)].begin + 0 <= s[Len(s)].end
      BY Zenon DEF Holds
    <3> QED BY <1>2, <3>2, <3>3, Zenon
  <2> QED BY <2>1, <2>2, Zenon
<1>7. ASSUME NEW j \in 1 .. Len(t)
      PROVE  /\ j < Len(t) => t[j].end = kBlockSize
             /\ j > 1 => t[j].begin = 0
             /\ HoldsBytes(t[j], From(base, j), a)
  <2>1. j \in 1 .. Len(s) /\ t[j].end = s[j].end /\ t[j].data = s[j].data /\ (j > 1 => t[j] = s[j])
    BY <1>2, <1>4, Zenon
  <2>2. /\ j < Len(s) => s[j].end = kBlockSize
        /\ j > 1 => s[j].begin = 0
        /\ HoldsBytes(s[j], From(base, j), a)
    BY <2>1, Zenon DEF Holds
  <2>3. HoldsBytes(t[j], From(base, j), a)
    BY <2>1, <2>2, Zenon DEF HoldsBytes
  <2> QED BY <1>2, <2>1, <2>2, <2>3, Zenon
<1> QED BY <1>1, <1>2, <1>5, <1>6, <1>7, Zenon DEF Holds

\* and so does one whose first block is deleted, if there is another.
LEMMA FirstDeleted ==
  ASSUME NEW s, NEW base, NEW a, Holds(s, base, a, 0), Len(s) > 1,
         NEW t, NEW k, FirstReplaced(t, s, k), NEW c, c = base + kBlockSize
  PROVE  Holds(Tail(t), c, a, 0) /\ Tail(t)[1].begin = 0
<1> DEFINE z == Tail(t)
<1>1. /\ s \in Seq(Blocks) /\ Len(s) \in Nat \ {0} /\ base \in Nat /\ a \in Nat
      /\ From(base, Len(s)) \in Nat /\ From(base, Len(s)) <= a
  BY HoldsFacts, Zenon
<1>2. /\ t \in Seq(Blocks) /\ Len(t) = Len(s)
      /\ \A j \in 1 .. Len(s) : j > 1 => t[j] = s[j]
  BY Zenon DEF FirstReplaced
<1>3. z \in Seq(Blocks) /\ Len(z) = Len(s) - 1 /\ Len(z) > 0 /\ Len(z) \in 1 .. Len(z)
      /\ \A j \in 1 .. Len(z) : z[j] = t[j + 1]
  BY <1>1, <1>2
<1> HIDE DEF z
<1>4. \A j \in 1 .. Len(z) : j + 1 \in 1 .. Len(s) /\ z[j] = s[j + 1] /\ j \in Nat \ {0} /\ j + 1 > 1
  BY <1>1, <1>2, <1>3
<1>5. \A j \in 1 .. Len(z) : From(c, j) = From(base, j + 1)
  BY <1>1, <1>4, FromFacts, Zenon
<1>6. c \in 0 .. a
  <2>1. From(base, 1) = base /\ From(base, 1) + kBlockSize <= From(base, Len(s))
    BY <1>1, FromFacts, FromMonotone
  <2> QED BY <1>1, <2>1, BufferAssumption
<1>7. Len(z) + 1 = Len(s) /\ z[Len(z)] = s[Len(s)] /\ From(c, Len(z)) = From(base, Len(s))
  BY <1>1, <1>3, <1>4, <1>5
<1>8. a + 0 = From(c, Len(z)) + z[Len(z)].end /\ z[Len(z)].begin + 0 <= z[Len(z)].end
  BY <1>7, Zenon DEF Holds
<1>9. ASSUME NEW j \in 1 .. Len(z)
      PROVE  /\ j < Len(z) => z[j].end = kBlockSize
             /\ z[j].begin = 0
             /\ HoldsBytes(z[j], From(c, j), a)
  <2>1. /\ j + 1 < Len(s) => s[j + 1].end = kBlockSize
        /\ s[j + 1].begin = 0
        /\ HoldsBytes(s[j + 1], From(base, j + 1), a)
    BY <1>4, Zenon DEF Holds
  <2>2. j < Len(z) => j + 1 < Len(s)
    BY <1>1, <1>3
  <2> QED BY <1>4, <1>5, <2>1, <2>2, Zenon
<1>10. z[1].begin = 0 /\ z[1].begin < kBlockSize
  <2>1. 1 \in 1 .. Len(z)
    BY <1>3
  <2> QED BY <1>9, <2>1, BufferAssumption
<1>11. Holds(z, c, a, 0)
  BY <1>1, <1>3, <1>6, <1>8, <1>9, <1>10, Zenon DEF Holds
<1> QED BY <1>10, <1>11, Zenon DEF z

\* b with k for its first block.
LEMMA WriteFirst ==
  ASSUME NEW b \in Buffer, Len(b.blocks) > 0, NEW k \in Blocks
  PROVE  /\ [b EXCEPT !.blocks[1] = k] \in Buffer
         /\ FirstReplaced([b EXCEPT !.blocks[1] = k].blocks, b.blocks, k)
         /\ [b EXCEPT !.blocks[1] = k].to_write_bytes_ = b.to_write_bytes_
<1> DEFINE t == [b.blocks EXCEPT ![1] = k]
           q == [b EXCEPT !.blocks[1] = k]
<1>1. b.blocks \in Seq(Blocks) /\ b.to_write_bytes_ \in Nat
  BY Zenon DEF Buffer
<1>2. FirstReplaced(t, b.blocks, k)
  BY <1>1 DEF FirstReplaced
<1>3. q = [b EXCEPT !.blocks = t]
  BY Zenon
<1> HIDE DEF t, q
<1>4. t \in Seq(Blocks)
  BY <1>2, Zenon DEF FirstReplaced
<1>5. q \in Buffer /\ q.blocks = t /\ q.to_write_bytes_ = b.to_write_bytes_
  BY <1>1, <1>3, <1>4, Zenon DEF Buffer
<1> QED BY <1>2, <1>5, Zenon DEF q

\* q is b with n bytes taken off: its blocks hold the stream from byte c on.
TakenOff(q, b, base, c, a, n) ==
  /\ q \in Buffer /\ Holds(q.blocks, c, a, 0) /\ q.to_write_bytes_ = b.to_write_bytes_
  /\ c \in 0 .. a /\ c + q.blocks[1].begin = base + b.blocks[1].begin + n

\* The first block has n bytes or more: they are taken off.
LEMMA SendAddKeeps ==
  ASSUME NEW b \in Buffer, NEW base, NEW a, Holds(b.blocks, base, a, 0), NEW x \in Nat,
         NEW n, n = Min({x, b.blocks[1].end - b.blocks[1].begin})
  PROVE  /\ n \in 0 .. x /\ (x > 0 /\ b.blocks[1].begin < b.blocks[1].end => n > 0)
         /\ \E c : TakenOff(send_add(b, x), b, base, c, a, n)
<1> DEFINE s == b.blocks
           k == [s[1] EXCEPT !.begin = s[1].begin + n]
           r == [b EXCEPT !.blocks[1] = k]
<1>1. /\ send_add(b, x) = IF r.blocks[1].begin < kBlockSize THEN r
                          ELSE [r EXCEPT !.blocks = IF Len(@) = 1 THEN <<NewBlock>> ELSE Tail(@)]
  <2>1. [b EXCEPT !.blocks[1].begin = @ + n] = r
    BY Zenon
  <2> QED BY <2>1, Zenon DEF send_add
<1> HIDE DEF k, r
<1>2. /\ s \in Seq(Blocks) /\ Len(s) \in Nat \ {0} /\ s[1] \in Blocks
      /\ base \in Nat /\ a \in Nat
  BY HoldsFacts, Zenon
<1>3. s[1].begin \in Nat /\ s[1].end \in Nat /\ s[1].end <= kBlockSize /\ kBlockSize \in Nat \ {0}
  BY <1>2, BlockFacts
<1>4. s[1].begin <= s[1].end
  <2>1. CASE Len(s) = 1
    <3>1. s[Len(s)].begin + 0 <= s[Len(s)].end
      BY Zenon DEF Holds
    <3> QED BY <1>3, <2>1, <3>1
  <2>2. CASE Len(s) # 1
    <3>1. 1 \in 1 .. Len(s) /\ 1 < Len(s)
      <4>1. \A m \in Nat \ {0} : m # 1 => 1 \in 1 .. m /\ 1 < m
        OBVIOUS
      <4> QED BY <1>2, <2>2, <4>1, Zenon
    <3>2. s[1].end = kBlockSize /\ s[1].begin < kBlockSize
      BY <3>1, Zenon DEF Holds
    <3> QED BY <1>3, <3>2
  <2> QED BY <2>1, <2>2, Zenon
<1>5. /\ n \in Nat /\ n \in 0 .. x /\ s[1].begin + n <= s[1].end
      /\ x > 0 /\ s[1].begin < s[1].end => n > 0
  <2> DEFINE e == s[1].end
             f == s[1].begin
  <2>1. e \in Nat /\ f \in Nat /\ f <= e /\ n = Min({x, e - f}) /\ e - f \in Int /\ x \in Int
    BY <1>3, <1>4
  <2> HIDE DEF e, f
  <2>2. n = IF x <= e - f THEN x ELSE e - f
    BY <2>1, MinTwo, Zenon
  <2>3. n \in Nat /\ n \in 0 .. x /\ f + n <= e /\ (x > 0 /\ f < e => n > 0)
    BY <2>1, <2>2
  <2> QED BY <2>3, Zenon DEF e, f
<1>6. FirstTaken(k, s, n)
  <2>1. s[1].begin + n \in 0 .. kBlockSize
    BY <1>3, <1>5
  <2>2. /\ k \in Blocks /\ k.begin = s[1].begin + n /\ k.end = s[1].end /\ k.data = s[1].data
    BY <1>2, <2>1, Zenon DEF k, Blocks
  <2> QED BY <1>5, <2>2, Zenon DEF FirstTaken
<1>7. /\ r \in Buffer /\ FirstReplaced(r.blocks, s, k) /\ r.to_write_bytes_ = b.to_write_bytes_
  <2>1. k \in Blocks /\ Len(s) > 0
    BY <1>2, <1>6 DEF FirstTaken
  <2> QED BY <2>1, WriteFirst, Zenon DEF r
<1>8. r.blocks[1] = k /\ Len(r.blocks) = Len(s) /\ r.blocks \in Seq(Blocks)
  BY <1>7, Zenon DEF FirstReplaced
<1>9. k.begin = s[1].begin + n /\ k.end = s[1].end /\ k.begin \in Nat /\ k.begin <= k.end
  BY <1>6, BlockFacts, Zenon DEF FirstTaken
<1>10. CASE k.begin < kBlockSize
  <2>1. send_add(b, x) = r
    BY <1>1, <1>8, <1>10, Zenon
  <2>2. Holds(r.blocks, base, a, 0)
    BY <1>6, <1>7, <1>10, FirstMoved, Zenon
  <2>3. base \in 0 .. a /\ base + r.blocks[1].begin = base + s[1].begin + n
    BY <1>2, <1>3, <1>5, <1>8, <1>9 DEF Holds
  <2>4. TakenOff(r, b, base, base, a, n)
    BY <1>7, <2>2, <2>3, Zenon DEF TakenOff
  <2> QED BY <1>5, <2>1, <2>4, Zenon
<1>11. CASE ~(k.begin < kBlockSize)
  <2> DEFINE c == base + kBlockSize
             z == IF Len(r.blocks) = 1 THEN <<NewBlock>> ELSE Tail(r.blocks)
             q == [r EXCEPT !.blocks = z]
  <2>1. send_add(b, x) = q
    BY <1>1, <1>8, <1>11, Zenon
  <2>2. k.begin = kBlockSize /\ s[1].end = kBlockSize
    BY <1>3, <1>9, <1>11
  <2>3. Holds(z, c, a, 0) /\ z[1].begin = 0 /\ c \in 0 .. a
    <3>1. CASE Len(s) = 1
      <4>1. z = <<NewBlock>>
        BY <1>8, <3>1, Zenon
      <4>2. a + 0 = From(base, 1) + s[1].end /\ From(base, 1) = base
        BY <1>2, <3>1, FromFacts, Zenon DEF Holds
      <4>3. a = c
        BY <1>2, <1>3, <2>2, <4>2
      <4> HIDE DEF z, c
      <4>4. Holds(z, a, a, 0) /\ z[1].begin = 0
        BY <1>2, <4>1, EmptyHolds, Zenon
      <4> QED BY <1>2, <4>3, <4>4
    <3>2. CASE Len(s) # 1
      <4>1. Len(s) > 1
        <5>1. \A m \in Nat \ {0} : m # 1 => m > 1
          OBVIOUS
        <5> QED BY <1>2, <3>2, <5>1, Zenon
      <4>2. z = Tail(r.blocks)
        BY <1>8, <3>2, Zenon
      <4>3. Holds(Tail(r.blocks), c, a, 0) /\ Tail(r.blocks)[1].begin = 0
        BY <1>7, <4>1, FirstDeleted, Zenon
      <4>4. c \in 0 .. a
        BY <4>3, Zenon DEF Holds
      <4> QED BY <4>2, <4>3, <4>4, Zenon
    <3> QED BY <3>1, <3>2, Zenon
  <2>4. q \in Buffer /\ q.blocks = z /\ q.to_write_bytes_ = b.to_write_bytes_
    <3>1. z \in Seq(Blocks)
      BY <2>3, Zenon DEF Holds
    <3> HIDE DEF z
    <3> QED BY <1>7, <3>1, Zenon DEF Buffer
  <2>5. c + z[1].begin = base + s[1].begin + n
    <3> DEFINE f == s[1].begin
    <3>1. f + n = kBlockSize /\ f \in Nat /\ n \in Nat /\ kBlockSize \in Nat /\ base \in Nat
      BY <1>2, <1>3, <1>5, <1>9, <2>2, Zenon
    <3> HIDE DEF z, f
    <3>2. c + 0 = base + f + n
      BY <3>1
    <3> QED BY <2>3, <3>2, Zenon DEF f
  <2> HIDE DEF c, z, q
  <2>6. TakenOff(q, b, base, c, a, n)
    BY <2>3, <2>4, <2>5, Zenon DEF TakenOff
  <2> QED BY <1>5, <2>1, <2>6, Zenon
<1> QED BY <1>10, <1>11, Zenon
-----------------------------------------------------------------------------
(* The stream *)

\* A run of the stream is a sequence of so many numbers.
LEMMA StreamFacts ==
  ASSUME NEW t \in Nat, NEW n \in Nat
  PROVE  /\ Stream(t, n) \in Seq(Nat) /\ Len(Stream(t, n)) = n
         /\ \A i \in 1 .. n : Stream(t, n)[i] = t + i
BY DEF Stream

\* Sequences are equal if their elements are.
LEMMA SeqEqual ==
  ASSUME NEW s \in Seq(Nat), NEW z \in Seq(Nat), Len(s) = Len(z),
         \A i \in 1 .. Len(s) : s[i] = z[i]
  PROVE  s = z
OBVIOUS

\* What a sequence of numbers holds are numbers.
LEMMA SeqElement == ASSUME NEW s \in Seq(Nat), NEW i \in 1 .. Len(s) PROVE s[i] \in Nat
OBVIOUS

\* A sequence that is not empty has a length.
LEMMA SeqNonEmpty == ASSUME NEW s \in Seq(Nat), s # <<>> PROVE Len(s) \in Nat /\ Len(s) > 0
OBVIOUS

\* A run of the stream and the run behind it are a run.
LEMMA StreamJoin ==
  ASSUME NEW m \in Nat, NEW n \in Nat
  PROVE  Stream(0, m) \o Stream(m, n) = Stream(0, m + n)
<1> DEFINE s == Stream(0, m)
           z == Stream(m, n)
           r == Stream(0, m + n)
           j == s \o z
<1>1. s \in Seq(Nat) /\ Len(s) = m /\ \A i \in 1 .. m : s[i] = 0 + i
  BY StreamFacts, Zenon
<1>2. z \in Seq(Nat) /\ Len(z) = n /\ \A i \in 1 .. n : z[i] = m + i
  BY StreamFacts, Zenon
<1>3. r \in Seq(Nat) /\ Len(r) = m + n /\ \A i \in 1 .. m + n : r[i] = 0 + i
  BY StreamFacts
<1> HIDE DEF s, z, r
<1>4. j \in Seq(Nat) /\ Len(j) = m + n
  BY <1>1, <1>2
<1>5. ASSUME NEW i \in 1 .. m + n PROVE j[i] = r[i]
  <2>1. r[i] = i
    BY <1>3
  <2>2. CASE i <= m
    <3>1. i \in 1 .. m /\ j[i] = s[i]
      BY <1>1, <1>2, <2>2
    <3> QED BY <1>1, <2>1, <3>1
  <2>3. CASE i > m
    <3>1. i - m \in 1 .. n /\ m + (i - m) = i
      BY <2>3
    <3>2. j[i] = z[i - m]
      BY <1>1, <1>2, <2>3
    <3>3. z[i - m] = m + (i - m)
      BY <1>2, <3>1, Zenon
    <3> QED BY <2>1, <3>1, <3>2, <3>3, Zenon
  <2>4. i <= m \/ i > m
    OBVIOUS
  <2> QED BY <2>2, <2>3, <2>4, Zenon
<1>6. j = r
  <2> HIDE DEF j
  <2>1. Len(j) = Len(r) /\ \A i \in 1 .. Len(j) : j[i] = r[i]
    BY <1>3, <1>4, <1>5, Zenon
  <2> QED BY <1>3, <1>4, <2>1, SeqEqual, Zenon
<1> QED BY <1>6, Zenon DEF s, z, r

\* The first bytes of a run are a run.
LEMMA StreamPart ==
  ASSUME NEW t \in Nat, NEW m \in Nat, NEW n \in 0 .. m
  PROVE  SubSeq(Stream(t, m), 1, n) = Stream(t, n)
<1> DEFINE s == Stream(t, m)
           z == Stream(t, n)
           r == SubSeq(s, 1, n)
<1>1. s \in Seq(Nat) /\ Len(s) = m /\ \A i \in 1 .. m : s[i] = t + i
  BY StreamFacts, Zenon
<1>2. z \in Seq(Nat) /\ Len(z) = n /\ \A i \in 1 .. n : z[i] = t + i
  BY StreamFacts
<1> HIDE DEF s, z
<1>3. r \in Seq(Nat) /\ Len(r) = n /\ \A i \in 1 .. n : r[i] = s[i]
  BY <1>1
<1>4. r = z
  <2> HIDE DEF r
  <2>1. Len(r) = Len(z) /\ \A i \in 1 .. Len(r) : r[i] = z[i]
    BY <1>1, <1>2, <1>3
  <2> QED BY <1>2, <1>3, <2>1, SeqEqual, Zenon
<1> QED BY <1>4, Zenon DEF s, z
-----------------------------------------------------------------------------
(* The counters *)

\* size_t holds what is less than SizeMod.
LEMMA ModFacts ==
  ASSUME NEW x \in Int
  PROVE  x % SizeMod \in 0 .. SizeMod - 1 /\ (x \in 0 .. SizeMod - 1 => x % SizeMod = x)
BY BufferAssumption

\* No more bytes are taken off than were put in.
LEMMA TakenBound ==
  ASSUME NEW s, NEW base, NEW a, NEW u, Holds(s, base, a, u)
  PROVE  base + s[1].begin \in 0 .. a /\ base \in 0 .. a
<1>1. /\ Len(s) \in Nat \ {0} /\ base \in Nat /\ a \in Nat /\ u \in Nat
      /\ From(base, Len(s)) \in Nat /\ From(base, Len(s)) <= a
      /\ s[1].begin \in Nat /\ s[Len(s)].end \in Nat
  BY HoldsFacts, Zenon
<1>2. From(base, 1) = base
  BY <1>1, FromFacts, Zenon
<1>3. CASE Len(s) = 1
  <2>1. a + u = base + s[1].end /\ s[1].begin + u <= s[1].end
    BY <1>2, <1>3, Zenon DEF Holds
  <2> QED BY <1>1, <1>3, <2>1 DEF Holds
<1>4. CASE Len(s) # 1
  <2>1. 1 < Len(s)
    <3>1. \A m \in Nat \ {0} : m # 1 => 1 < m
      OBVIOUS
    <3> QED BY <1>1, <1>4, <3>1, Zenon
  <2>2. base + kBlockSize <= From(base, Len(s))
    BY <1>1, <1>2, <2>1, FromMonotone
  <2>3. s[1].begin < kBlockSize /\ base \in 0 .. a /\ kBlockSize \in Nat
    BY BufferAssumption, Zenon DEF Holds
  <2> QED BY <1>1, <2>2, <2>3
<1> QED BY <1>3, <1>4, Zenon

\* What BufInv says of the buffer as long as send_add is not at work.
LEMMA CountFacts ==
  ASSUME WriteTypeOK, NEW base, NEW t, BufAt(base, t)
  PROVE  /\ t \in 0 .. appended /\ base \in 0 .. appended /\ t \in Nat /\ base \in Nat
         /\ appended \in Nat /\ unused \in Nat /\ buf \in Buffer
         /\ Holds(buf.blocks, base, appended, unused)
<1>1. Holds(buf.blocks, base, appended, unused) /\ t = base + buf.blocks[1].begin
  BY Zenon DEF BufAt
<1>2. t \in 0 .. appended /\ base \in 0 .. appended
  BY <1>1, TakenBound, Zenon
<1>3. appended \in Nat /\ unused \in Nat /\ buf \in Buffer
  BY WriteAssumption DEF WriteTypeOK
<1> QED BY <1>1, <1>2, <1>3

\* A part of a sum that is within a bound is within it.
LEMMA SumBound ==
  ASSUME NEW x, NEW y, NEW z, NEW m, x + y + z <= m,
         x \in Nat /\ y \in Nat /\ z \in Nat /\ m \in Nat
  PROVE  x \in 0 .. m
OBVIOUS

\* BufInv from its parts.
LEMMA BufInvNext ==
  ASSUME NEW base, NEW t, WriteTypeOK', BufAt(base, t)'
  PROVE  BufInv'
<1>1. Holds(buf'.blocks, base, appended', unused') /\ t = base + buf'.blocks[1].begin
  BY Zenon DEF BufAt
<1>2. t \in 0 .. appended' /\ base \in 0 .. appended'
  BY <1>1, TakenBound, Zenon
<1> QED BY <1>2, Zenon DEF BufInv

\* A step that neither changes the buffer nor writes.
LEMMA BufStays ==
  ASSUME NEW base, NEW t, BufAt(base, t),
         UNCHANGED <<policy, steady, buf, wire, appended, unused, sqe, cqe>>,
         Owed' = Owed, (pc' = "send_add") <=> (pc = "send_add"), pc = "send_add" => left' = left
  PROVE  BufAt(base, t)'
<1>1. Holds(buf.blocks, base, appended, unused) /\ t = base + buf.blocks[1].begin /\ CountInv(t)
  BY Zenon DEF BufAt
<1>2. Holds(buf.blocks, base, appended, unused)' /\ t = base + buf'.blocks[1].begin
  BY <1>1, Zenon
<1>3. CountInv(t)'
  BY <1>1, Zenon DEF CountInv, NothingSentTwice
<1> QED BY <1>2, <1>3, Zenon DEF BufAt

\* The executor puts bytes into the buffer or hands out memory.
LEMMA BufGrows ==
  ASSUME WriteTypeOK, NEW base, NEW t, BufAt(base, t),
         UNCHANGED <<policy, steady, wire, sqe, cqe>>,
         pc \in {"idle", "append", "serialize", "async_write"},
         pc' \in {"idle", "append", "serialize", "async_write"},
         NEW n, Kept(buf', buf, base, appended', unused', n),
         n = appended' + unused' - t, appended <= appended'
  PROVE  BufAt(base, t)'
<1>1. t = base + buf.blocks[1].begin /\ CountInv(t)
  BY Zenon DEF BufAt
<1>2. /\ Holds(buf'.blocks, base, appended', unused')
      /\ buf'.blocks[1].begin = buf.blocks[1].begin /\ buf'.to_write_bytes_ = n
  BY Zenon DEF Kept
<1>3. t = base + buf'.blocks[1].begin
  BY <1>1, <1>2, Zenon
<1>4. Owed' = Owed /\ NothingSentTwice' = NothingSentTwice
  BY Zenon DEF Owed, NothingSentTwice
<1>5. /\ t \in Nat /\ appended \in Nat /\ appended' \in Nat
  BY <1>2, CountFacts, HoldsFacts, Zenon
<1>6. NothingSentTwice => /\ Len(wire) = t + Owed /\ Len(wire) <= appended
                          /\ wire = Stream(0, Len(wire))
  BY <1>1, Zenon DEF CountInv
<1>7. sqe # NoSqe => sqe = Stream(t, Len(sqe)) /\ t + Len(sqe) <= appended
  BY <1>1, Zenon DEF CountInv
<1>8. Len(wire) \in Nat /\ Len(sqe) \in Nat
  BY DEF WriteTypeOK
<1>9. (Len(wire) <= appended => Len(wire) <= appended') /\ (t + Len(sqe) <= appended => t + Len(sqe) <= appended')
  BY <1>5, <1>8
<1>10. CountInv(t)'
  <2>1. buf'.to_write_bytes_ = appended' + unused' - t /\ pc' # "send_add"
    BY <1>2, Zenon
  <2>2. NothingSentTwice' => /\ Len(wire') = t + Owed' /\ Len(wire') <= appended'
                             /\ wire' = Stream(0, Len(wire'))
    BY <1>4, <1>6, <1>9, Zenon
  <2>3. sqe' # NoSqe => sqe' = Stream(t, Len(sqe')) /\ t + Len(sqe') <= appended'
    BY <1>7, <1>9, Zenon
  <2> QED BY <2>1, <2>2, <2>3, Zenon DEF CountInv
<1> QED BY <1>2, <1>3, <1>10, Zenon DEF BufAt

\* At first the buffer is empty.
LEMMA InitInv == ASSUME Init PROVE Inv
<1>1. WriteTypeOK
  <2>1. NewOutputBuffer \in Buffer
    BY NewBlockFacts DEF Buffer, NewOutputBuffer
  <2>2. steady \in BOOLEAN /\ epollout \in BOOLEAN
    BY Zenon DEF Init
  <2>3. /\ wire \in Seq(Nat) /\ sqe \in Seq(Nat) /\ cqe \in Seq(Int) /\ parts \in Seq(Nat)
    BY DEF Init, NoSqe, NoCqe
  <2>4. /\ appended \in 0 .. MaxBytes /\ room \in 0 .. SendBuffer /\ back_left_ \in 0 .. MaxBytes + 1
        /\ {left, unused, nwrite, need_write} \subseteq Nat
    BY WriteAssumption DEF Init
  <2> QED BY <2>1, <2>2, <2>3, <2>4, Zenon DEF Init, WriteTypeOK
<1>2. MessageInv
  BY Zenon DEF Init, MessageInv
<1>3. RingInv
  BY DEF Init, RingInv, BackLeftComesBack
<1>4. BufInv
  <2>1. buf.blocks = <<NewBlock>> /\ buf.to_write_bytes_ = 0
    BY Zenon DEF Init, NewOutputBuffer
  <2>2. Holds(buf.blocks, 0, appended, unused) /\ 0 = 0 + buf.blocks[1].begin
    BY <2>1, EmptyHolds DEF Init
  <2>3. CountInv(0)
    <3>1. wire = <<>> /\ Len(wire) = 0 /\ Owed = 0 /\ sqe = NoSqe /\ appended = 0 /\ unused = 0 /\ pc = "idle"
      BY Zenon DEF Init, Owed, NoCqe
    <3>2. wire = Stream(0, Len(wire))
      <4>1. Stream(0, 0) \in Seq(Nat) /\ Len(Stream(0, 0)) = 0
        BY StreamFacts, Zenon
      <4>2. Stream(0, 0) = <<>>
        BY <4>1
      <4> QED BY <3>1, <4>2, Zenon
    <3> QED BY <2>1, <3>1, <3>2 DEF CountInv
  <2>4. BufAt(0, 0)
    BY <2>2, <2>3, Zenon DEF BufAt
  <2> QED BY <2>4 DEF BufInv, Init
<1> QED BY <1>1, <1>2, <1>3, <1>4, Zenon DEF Inv
-----------------------------------------------------------------------------
(* The steps: a message *)

\* StartMessage only sets the loop of append up.
LEMMA StartMessageInv ==
  ASSUME Inv, NEW header \in MessageSizes, NEW body \in MessageSizes, StartMessage(header, body)
  PROVE  Inv'
<1>1. header \in Nat /\ body \in Nat /\ PrefixSize \in Nat /\ MaxBytes \in Nat
  BY WriteAssumption, Zenon
<1>2. parts' \in Seq(Nat) /\ Len(parts') = 2 /\ parts'[1] = header /\ parts'[2] = body
  BY <1>1 DEF StartMessage
<1>3. WriteTypeOK'
  BY <1>1, <1>2, Zenon DEF Inv, WriteTypeOK, StartMessage, pollvars, ringvars
<1>4. MessageInv'
  <2>1. unused' = 0
    BY Zenon DEF Inv, MessageInv, StartMessage
  <2>2. Pending' = header + PrefixSize + body
    BY <1>2, Zenon DEF Pending, StartMessage
  <2>3. appended' + left' + Pending' <= MaxBytes
    <3>1. appended \in Nat
      BY WriteAssumption DEF Inv, WriteTypeOK
    <3>2. appended' = appended /\ left' = PrefixSize /\ appended + 2 * PrefixSize + header + body <= MaxBytes
      BY Zenon DEF StartMessage
    <3> QED BY <1>1, <2>2, <3>1, <3>2
  <2> QED BY <1>2, <2>1, <2>3, Zenon DEF MessageInv, StartMessage
<1>5. RingInv'
  BY Zenon DEF Inv, RingInv, BackLeftComesBack, StartMessage, ringvars
<1>6. BufInv'
  <2>1. PICK base, t : BufAt(base, t)
    BY Zenon DEF Inv, BufInv
  <2>2. UNCHANGED <<policy, steady, buf, wire, appended, unused, sqe, cqe>>
    BY Zenon DEF StartMessage, ringvars
  <2>3. Owed' = Owed /\ pc' # "send_add" /\ pc # "send_add"
    BY Zenon DEF Owed, StartMessage, ringvars
  <2>4. BufAt(base, t)'
    BY <2>1, <2>2, <2>3, BufStays, Zenon
  <2> QED BY <1>3, <2>4, BufInvNext, Zenon
<1> QED BY <1>3, <1>4, <1>5, <1>6, Zenon DEF Inv

\* What AppendLength does, with n for the bytes of this turn.
AppendTurn(n) ==
  /\ n \in 0 .. left /\ n \in 0 .. Room(buf)
  /\ buf' = append(buf, appended + 1, n) /\ appended' = appended + n
  /\ IF n = left THEN pc' = "serialize" /\ left' = Head(parts) /\ parts' = Tail(parts)
     ELSE pc' = "append" /\ left' = left - n /\ parts' = parts

\* AppendLength puts the bytes of the length behind those in the buffer.
LEMMA AppendLengthInv == ASSUME Inv, AppendLength PROVE Inv'
<1>1. PICK base, t : BufAt(base, t)
  BY Zenon DEF Inv, BufInv
<1>2. /\ pc = "append" /\ UNCHANGED <<policy, steady, wire, at, unused, pollvars, ringvars>>
      /\ unused = 0 /\ WriteTypeOK
  BY Zenon DEF AppendLength, Inv, MessageInv
<1>3. /\ t \in Nat /\ appended \in Nat /\ buf \in Buffer /\ Holds(buf.blocks, base, appended, 0)
  BY <1>1, <1>2, CountFacts, Zenon
<1>4. left \in Nat /\ Room(buf) \in Nat
  <2>1. LastBlock(buf).end \in 0 .. kBlockSize /\ kBlockSize \in Nat
    BY <1>3, LastFacts, Zenon
  <2>2. Room(buf) \in Nat
    BY <2>1 DEF Room
  <2> QED BY <1>2, <2>2, Zenon DEF WriteTypeOK
<1>5. PICK n : AppendTurn(n)
  <2> DEFINE n == Min({left, Room(buf)})
  <2>1. n \in 0 .. left /\ n \in 0 .. Room(buf)
    BY <1>4, MinTwo
  <2>2. AppendTurn(n)
    BY <1>2, <2>1, Zenon DEF AppendLength, AppendTurn
  <2> QED BY <2>2, Zenon
<1>6. n \in Nat /\ n <= left /\ appended' = appended + n /\ n \in 0 .. Room(buf)
  BY <1>4, <1>5 DEF AppendTurn
<1>7. Kept(buf', buf, base, appended', unused', buf.to_write_bytes_ + n)
  <2> DEFINE f == appended + 1
             c == appended + n
  <2>1. buf' = append(buf, f, n) /\ appended' = c /\ unused' = 0
    BY <1>2, <1>5, Zenon DEF AppendTurn
  <2>2. f = appended + 1 /\ c = appended + n
    BY Zenon
  <2> HIDE DEF f, c
  <2>3. Kept(append(buf, f, n), buf, base, c, 0, buf.to_write_bytes_ + n)
    BY <1>3, <1>6, <2>2, AppendKeeps, Zenon
  <2> QED BY <2>1, <2>3, Zenon
<1>8. /\ parts \in Seq(Nat) /\ Len(parts) \in {1, 2} /\ appended + left + Pending <= MaxBytes
      /\ Pending = IF Len(parts) = 2 THEN parts[1] + PrefixSize + parts[2] ELSE parts[1]
  BY <1>2, Zenon DEF Inv, WriteTypeOK, MessageInv, Pending
<1>9. /\ PrefixSize \in Nat /\ MaxBytes \in Nat /\ parts[1] \in Nat /\ (Len(parts) = 2 => parts[2] \in Nat)
      /\ Pending \in Nat
  BY <1>8, WriteAssumption
<1>10. /\ pc' \in {"append", "serialize"} /\ left' \in Nat /\ parts' \in Seq(Nat)
       /\ appended' + left' + Pending' <= MaxBytes
       /\ pc' = "append" => Len(parts') \in {1, 2}
       /\ pc' = "serialize" => Len(parts') \in {0, 1}
  <2>1. CASE n = left
    <3>1. pc' = "serialize" /\ left' = parts[1] /\ parts' = Tail(parts)
      BY <1>5, <2>1 DEF AppendTurn
    <3>2. /\ parts' \in Seq(Nat) /\ Len(parts') = Len(parts) - 1
          /\ Len(parts) = 2 => parts'[1] = parts[2]
      BY <1>8, <3>1
    <3>3. Pending' = IF Len(parts) = 2 THEN PrefixSize + parts[2] ELSE 0
      BY <1>8, <3>1, <3>2 DEF Pending
    <3>4. appended' + left' + Pending' <= MaxBytes
      <4>1. appended' + left' = appended + left + parts[1]
        BY <1>3, <1>4, <1>6, <1>9, <2>1, <3>1, Zenon
      <4> DEFINE h == parts[1]
                 x == Pending
                 y == Pending'
      <4>2. h + y = x /\ y \in Nat
        <5>1. CASE Len(parts) = 2
          BY <1>8, <1>9, <3>3, <5>1
        <5>2. CASE Len(parts) = 1
          BY <1>8, <1>9, <3>3, <5>2
        <5> QED BY <1>8, <5>1, <5>2, Zenon
      <4>3. /\ h \in Nat /\ x \in Nat /\ appended + left + x <= MaxBytes /\ MaxBytes \in Nat
            /\ appended' + left' = appended + left + h
        BY <1>8, <1>9, <4>1, Zenon
      <4> HIDE DEF h, x, y
      <4>4. appended + left + h + y <= MaxBytes
        BY <1>3, <1>4, <4>2, <4>3
      <4>5. appended' + left' + y <= MaxBytes
        BY <4>3, <4>4, Zenon
      <4> QED BY <4>5, Zenon DEF y
    <3>5. Len(parts') \in {0, 1}
      BY <1>8, <3>2
    <3> QED BY <1>9, <3>1, <3>2, <3>4, <3>5, Zenon
  <2>2. CASE n # left
    <3>1. pc' = "append" /\ left' = left - n /\ parts' = parts
      BY <1>5, <2>2, Zenon DEF AppendTurn
    <3>2. Pending' = Pending
      BY <1>2, <3>1, Zenon DEF Pending
    <3> QED BY <1>3, <1>4, <1>6, <1>8, <1>9, <3>1, <3>2
  <2> QED BY <2>1, <2>2, Zenon
<1>11. appended' \in 0 .. MaxBytes /\ buf' \in Buffer
  <2>1. Pending' \in Nat
    BY <1>10, WriteAssumption DEF Pending
  <2>2. appended' \in Nat /\ left' \in Nat
    BY <1>3, <1>6, <1>10
  <2>3. appended' \in 0 .. MaxBytes
    <3> DEFINE y == Pending'
    <3>1. y \in Nat /\ appended' + left' + y <= MaxBytes
      BY <1>10, <2>1, Zenon
    <3>2. MaxBytes \in Nat
      BY WriteAssumption, Zenon
    <3> HIDE DEF y
    <3> QED BY <2>2, <3>1, <3>2, SumBound, Zenon
  <2> QED BY <1>7, <2>3, Zenon DEF Kept
<1>12. WriteTypeOK'
  BY <1>2, <1>10, <1>11, Zenon DEF WriteTypeOK, pollvars, ringvars
<1>13. MessageInv'
  BY <1>2, <1>10, Zenon DEF MessageInv
<1>14. RingInv'
  BY <1>2, <1>10, Zenon DEF Inv, RingInv, BackLeftComesBack, ringvars
<1>15. BufInv'
  <2>1. buf.to_write_bytes_ = appended + 0 - t
    BY <1>1, <1>2, Zenon DEF BufAt, CountInv
  <2>2. buf.to_write_bytes_ + n = appended' + unused' - t /\ appended <= appended'
    BY <1>2, <1>3, <1>6, <2>1
  <2>3. UNCHANGED <<policy, steady, wire, sqe, cqe>>
    BY <1>2, Zenon DEF ringvars
  <2>4. BufAt(base, t)'
    BY <1>1, <1>2, <1>7, <1>10, <2>2, <2>3, BufGrows, Zenon
  <2> QED BY <1>12, <2>4, BufInvNext, Zenon
<1> QED BY <1>12, <1>13, <1>14, <1>15, Zenon DEF Inv

\* SerializeNext hands memory out.
LEMMA SerializeNextInv == ASSUME Inv, SerializeNext PROVE Inv'
<1>1. PICK base, t : BufAt(base, t)
  BY Zenon DEF Inv, BufInv
<1>2. /\ pc = "serialize" /\ unused = 0 /\ WriteTypeOK
      /\ UNCHANGED <<policy, steady, wire, pc, at, left, appended, parts, pollvars, ringvars>>
      /\ buf' = next(buf) /\ unused' = HandedOut(buf)
  BY Zenon DEF SerializeNext, Inv, HandedOut
<1>3. /\ t \in Nat /\ appended \in Nat /\ buf \in Buffer /\ Holds(buf.blocks, base, appended, 0)
  BY <1>1, <1>2, CountFacts, Zenon
<1>4. /\ HandedOut(buf) \in 1 .. kBlockSize
      /\ Kept(next(buf), buf, base, appended, HandedOut(buf), buf.to_write_bytes_ + HandedOut(buf))
  BY <1>3, NextKeeps, Zenon
<1>5. unused' \in Nat /\ Kept(buf', buf, base, appended', unused', buf.to_write_bytes_ + unused')
  BY <1>2, <1>4
<1>6. WriteTypeOK'
  <2>1. buf' \in Buffer
    BY <1>5, Zenon DEF Kept
  <2> QED BY <1>2, <1>5, <2>1, Zenon DEF WriteTypeOK, pollvars, ringvars
<1>7. MessageInv'
  BY <1>2, Zenon DEF Inv, MessageInv, Pending
<1>8. RingInv'
  BY <1>2, Zenon DEF Inv, RingInv, BackLeftComesBack, ringvars
<1>9. BufInv'
  <2>1. buf.to_write_bytes_ = appended + 0 - t
    BY <1>1, <1>2, Zenon DEF BufAt, CountInv
  <2>2. buf.to_write_bytes_ + unused' = appended' + unused' - t /\ appended <= appended'
    BY <1>2, <1>3, <1>5, <2>1
  <2>3. UNCHANGED <<policy, steady, wire, sqe, cqe>>
    BY <1>2, Zenon DEF ringvars
  <2>4. BufAt(base, t)'
    BY <1>1, <1>2, <1>5, <2>2, <2>3, BufGrows, Zenon
  <2> QED BY <1>6, <2>4, BufInvNext, Zenon
<1> QED BY <1>6, <1>7, <1>8, <1>9, Zenon DEF Inv

\* SerializeBytes fills it.
LEMMA SerializeBytesInv == ASSUME Inv, SerializeBytes PROVE Inv'
<1>1. PICK base, t : BufAt(base, t)
  BY Zenon DEF Inv, BufInv
<1>2. /\ pc = "serialize" /\ WriteTypeOK
      /\ UNCHANGED <<policy, steady, wire, pc, at, parts, pollvars, ringvars>>
  BY Zenon DEF SerializeBytes, Inv
<1>3. /\ t \in Nat /\ appended \in Nat /\ unused \in Nat /\ left \in Nat /\ buf \in Buffer
      /\ Holds(buf.blocks, base, appended, unused)
  BY <1>1, <1>2, CountFacts, Zenon DEF WriteTypeOK
<1> DEFINE n == Min({left, unused})
           f == appended + 1
<1>4. n \in 0 .. unused /\ n \in 0 .. left /\ n \in Nat
  BY <1>3, MinTwo
<1>5. /\ buf' = [buf EXCEPT !.blocks[Len(buf.blocks)] =
                              memcpy(LastBlock(buf), LastBlock(buf).end - unused, f, n)]
      /\ appended' = appended + n /\ left' = left - n /\ unused' = unused - n
  BY Zenon DEF SerializeBytes, LastBlock
<1>6. f = appended + 1
  BY Zenon
<1> HIDE DEF n, f
<1>7. Kept(buf', buf, base, appended', unused', buf.to_write_bytes_)
  BY <1>3, <1>4, <1>5, <1>6, FillKeeps, Zenon
<1>8. appended' \in 0 .. MaxBytes /\ left' \in Nat /\ unused' \in Nat /\ appended' + left' = appended + left
      /\ appended <= appended' /\ appended' + unused' - t = appended + unused - t
  <2>1. Pending \in Nat /\ appended + left + Pending <= MaxBytes /\ MaxBytes \in Nat
    <3>1. appended + left + Pending <= MaxBytes /\ Len(parts) \in {0, 1} /\ parts \in Seq(Nat)
      BY <1>2, Zenon DEF Inv, MessageInv, WriteTypeOK
    <3>2. PrefixSize \in Nat /\ MaxBytes \in Nat
      BY WriteAssumption, Zenon
    <3>3. Len(parts) = 1 => parts[1] \in Nat
      <4>1. 1 \in 1 .. 1
        OBVIOUS
      <4> QED BY <3>1, <4>1, SeqElement, Zenon
    <3>4. Pending \in Nat
      BY <1>2, <3>2, <3>3 DEF Pending
    <3> QED BY <3>1, <3>2, <3>4, Zenon
  <2> DEFINE x == Pending
  <2> HIDE DEF x
  <2>2. x \in Nat /\ appended + left + x <= MaxBytes /\ MaxBytes \in Nat
    BY <2>1, Zenon DEF x
  <2>3. left' \in Nat /\ unused' \in Nat /\ appended' + left' = appended + left
    BY <1>3, <1>4, <1>5
  <2>4. appended <= appended' /\ appended' + unused' - t = appended + unused - t /\ appended' \in Nat
    BY <1>3, <1>4, <1>5
  <2>5. appended' + left' + x <= MaxBytes
    BY <2>2, <2>3, Zenon
  <2>6. appended' \in 0 .. MaxBytes
    BY <2>2, <2>3, <2>4, <2>5, SumBound, Zenon
  <2> QED BY <2>3, <2>4, <2>6, Zenon
<1>9. WriteTypeOK'
  <2>1. buf' \in Buffer
    BY <1>7, Zenon DEF Kept
  <2> QED BY <1>2, <1>8, <2>1, Zenon DEF WriteTypeOK, pollvars, ringvars
<1>10. MessageInv'
  <2>1. Pending' = Pending
    BY <1>2, Zenon DEF Pending
  <2> QED BY <1>2, <1>8, <2>1, Zenon DEF Inv, MessageInv
<1>11. RingInv'
  BY <1>2, Zenon DEF Inv, RingInv, BackLeftComesBack, ringvars
<1>12. BufInv'
  <2>1. buf.to_write_bytes_ = appended + unused - t
    BY <1>1, <1>2, Zenon DEF BufAt, CountInv
  <2>2. buf.to_write_bytes_ = appended' + unused' - t
    BY <1>8, <2>1, Zenon
  <2>3. UNCHANGED <<policy, steady, wire, sqe, cqe>>
    BY <1>2, Zenon DEF ringvars
  <2>4. BufAt(base, t)'
    BY <1>1, <1>2, <1>7, <1>8, <2>2, <2>3, BufGrows, Zenon
  <2> QED BY <1>9, <2>4, BufInvNext, Zenon
<1> QED BY <1>9, <1>10, <1>11, <1>12, Zenon DEF Inv

\* SerializeDone gives back what is left of it.
LEMMA SerializeDoneInv == ASSUME Inv, SerializeDone PROVE Inv'
<1>1. PICK base, t : BufAt(base, t)
  BY Zenon DEF Inv, BufInv
<1>2. /\ pc = "serialize" /\ left = 0 /\ WriteTypeOK
      /\ UNCHANGED <<policy, steady, wire, appended, parts, pollvars, ringvars>>
      /\ buf' = back_up(buf, unused) /\ unused' = 0
  BY Zenon DEF SerializeDone, Inv
<1>3. /\ t \in Nat /\ t <= appended /\ appended \in Nat /\ unused \in Nat /\ buf \in Buffer
      /\ Holds(buf.blocks, base, appended, unused)
  BY <1>1, <1>2, CountFacts
<1>4. buf.to_write_bytes_ = appended + unused - t
  BY <1>1, <1>2, Zenon DEF BufAt, CountInv
<1>5. Kept(buf', buf, base, appended', unused', buf.to_write_bytes_ - unused)
  <2>1. unused <= buf.to_write_bytes_
    BY <1>3, <1>4
  <2> QED BY <1>2, <1>3, <2>1, BackUpKeeps, Zenon
<1>6. /\ parts = <<>> => pc' \in {"idle", "async_write"} /\ at' \in {"wait", "write"} /\ left' = 0
      /\ parts # <<>> => pc' = "append" /\ at' = at /\ left' = PrefixSize
  BY Zenon DEF SerializeDone, ResumeWrite
<1>7. /\ parts \in Seq(Nat) /\ Len(parts) \in {0, 1} /\ appended + 0 + Pending <= MaxBytes
      /\ Pending = IF Len(parts) = 1 THEN PrefixSize + parts[1] ELSE 0
  BY <1>2, Zenon DEF Inv, WriteTypeOK, MessageInv, Pending
<1>8. PrefixSize \in Nat
  BY WriteAssumption, Zenon
<1>9. WriteTypeOK'
  <2>1. buf' \in Buffer
    BY <1>5, Zenon DEF Kept
  <2>2. pc' \in {"idle", "append", "async_write"} /\ at' \in {"wait", "write"} /\ left' \in Nat
    BY <1>2, <1>6, <1>8, Zenon DEF WriteTypeOK
  <2> QED BY <1>2, <2>1, <2>2, Zenon DEF WriteTypeOK, pollvars, ringvars
<1>10. MessageInv'
  <2>1. CASE parts = <<>>
    BY <1>2, <1>6, <2>1, Zenon DEF MessageInv
  <2>2. CASE parts # <<>>
    <3>1. Len(parts) = 1 /\ parts[1] \in Nat
      BY <1>7, <2>2
    <3>2. Pending' = parts[1]
      BY <1>2, <1>6, <2>2, <3>1 DEF Pending
    <3>3. appended' + left' + Pending' <= MaxBytes
      BY <1>2, <1>3, <1>6, <1>7, <1>8, <2>2, <3>1, <3>2
    <3> QED BY <1>2, <1>6, <2>2, <3>1, <3>3, Zenon DEF MessageInv
  <2> QED BY <2>1, <2>2, Zenon
<1>11. RingInv'
  BY <1>2, <1>6, Zenon DEF Inv, RingInv, BackLeftComesBack, ringvars
<1>12. BufInv'
  <2>1. buf.to_write_bytes_ - unused = appended' + unused' - t /\ appended <= appended'
    BY <1>2, <1>3, <1>4
  <2>2. UNCHANGED <<policy, steady, wire, sqe, cqe>>
    BY <1>2, Zenon DEF ringvars
  <2>3. pc' \in {"idle", "append", "serialize", "async_write"}
    BY <1>6, Zenon
  <2>4. BufAt(base, t)'
    BY <1>1, <1>2, <1>5, <2>1, <2>2, <2>3, BufGrows, Zenon
  <2> QED BY <1>9, <2>4, BufInvNext, Zenon
<1> QED BY <1>9, <1>10, <1>11, <1>12, Zenon DEF Inv
-----------------------------------------------------------------------------
(* The steps: send_add *)

\* send_add starts with the n bytes that a write has taken, which the counter no longer counts.
LEMMA StartSendAddBuf ==
  ASSUME Inv, NEW n \in Int, StartSendAdd(n), pc \in {"idle", "writev"},
         UNCHANGED <<policy, steady, wire, appended, unused, sqe>>, sqe = NoSqe,
         NothingSentTwice => Owed = IF n <= 0 THEN 0 ELSE n
  PROVE  WriteTypeOK' => BufInv'
<1>1. PICK base, t : BufAt(base, t)
  BY Zenon DEF Inv, BufInv
<1>2. WriteTypeOK /\ unused = 0 /\ unused' = 0
  BY Zenon DEF Inv, MessageInv
<1>3. /\ t \in Nat /\ t <= appended /\ appended \in Nat /\ buf \in Buffer
      /\ Holds(buf.blocks, base, appended, 0)
  BY <1>1, <1>2, CountFacts
<1>4. /\ t = base + buf.blocks[1].begin /\ buf.to_write_bytes_ = appended + 0 - t
      /\ NothingSentTwice => /\ Len(wire) = t + Owed /\ Len(wire) <= appended
                             /\ wire = Stream(0, Len(wire))
  BY <1>1, <1>2, Zenon DEF BufAt, CountInv
<1>5. pc' = "send_add" /\ left' = (IF n <= 0 THEN 0 ELSE n) /\ left' \in Nat
  BY DEF StartSendAdd
<1>6. buf'.blocks = buf.blocks /\ buf'.to_write_bytes_ = (appended + 0 - t - left') % SizeMod
  <2>1. CASE n <= 0
    <3>1. buf' = buf /\ left' = 0
      BY <2>1, Zenon DEF StartSendAdd
    <3>2. appended + 0 - t \in 0 .. SizeMod - 1 /\ appended + 0 - t - left' = appended + 0 - t
      <4>1. appended <= MaxBytes /\ MaxBytes \in Nat /\ MaxBytes < SizeMod /\ SizeMod \in Nat
        BY <1>2, WriteAssumption, BufferAssumption DEF WriteTypeOK
      <4> QED BY <1>3, <3>1, <4>1
    <3>3. (appended + 0 - t) % SizeMod = appended + 0 - t
      BY <1>3, <3>2, ModFacts
    <3> QED BY <1>4, <3>1, <3>2, <3>3, Zenon
  <2>2. CASE ~(n <= 0)
    <3>1. buf' = [buf EXCEPT !.to_write_bytes_ = (buf.to_write_bytes_ - n) % SizeMod] /\ left' = n
      BY <2>2, Zenon DEF StartSendAdd
    <3>2. /\ buf'.blocks = buf.blocks
          /\ buf'.to_write_bytes_ = (buf.to_write_bytes_ - n) % SizeMod
      <4> DEFINE m == (buf.to_write_bytes_ - n) % SizeMod
      <4> HIDE DEF m
      <4>1. buf' = [buf EXCEPT !.to_write_bytes_ = m]
        BY <3>1, Zenon DEF m
      <4>2. buf'.blocks = buf.blocks /\ buf'.to_write_bytes_ = m
        BY <1>3, <4>1, Zenon DEF Buffer
      <4> QED BY <4>2, Zenon DEF m
    <3>3. buf.to_write_bytes_ - n = appended + 0 - t - left'
      <4>1. buf.to_write_bytes_ = appended + 0 - t /\ left' = n
        BY <1>4, <3>1, Zenon
      <4> QED BY <1>3, <4>1
    <3> QED BY <3>2, <3>3, Zenon
  <2> QED BY <2>1, <2>2, Zenon
<1>7. Owed' = left'
  BY <1>5, Zenon DEF Owed
<1>8. CountInv(t)'
  <2>1. NothingSentTwice' = NothingSentTwice
    BY Zenon DEF NothingSentTwice
  <2>2. NothingSentTwice' => /\ Len(wire') = t + Owed' /\ Len(wire') <= appended'
                             /\ wire' = Stream(0, Len(wire'))
    BY <1>4, <1>5, <1>7, <2>1, Zenon
  <2>3. buf'.to_write_bytes_ = (appended' + unused' - t - left') % SizeMod
    BY <1>2, <1>6, Zenon
  <2> QED BY <1>5, <2>2, <2>3, Zenon DEF CountInv
<1>9. BufAt(base, t)'
  <2>1. Holds(buf'.blocks, base, appended', unused') /\ t = base + buf'.blocks[1].begin
    BY <1>2, <1>3, <1>4, <1>6, Zenon
  <2> QED BY <1>8, <2>1, Zenon DEF BufAt
<1> QED BY <1>9, BufInvNext, Zenon

\* The buffer that StartSendAdd leaves.
LEMMA StartSendAddType ==
  ASSUME WriteTypeOK, NEW n \in Int, StartSendAdd(n)
  PROVE  buf' \in Buffer /\ left' \in Nat /\ pc' = "send_add"
<1>1. buf \in Buffer
  BY Zenon DEF WriteTypeOK
<1>2. CASE n <= 0
  BY <1>1, <1>2, Zenon DEF StartSendAdd
<1>3. CASE ~(n <= 0)
  <2> DEFINE m == (buf.to_write_bytes_ - n) % SizeMod
  <2>1. buf' = [buf EXCEPT !.to_write_bytes_ = m] /\ left' = n
    BY <1>3, Zenon DEF StartSendAdd
  <2>2. m \in Nat
    <3>1. buf.to_write_bytes_ - n \in Int
      BY <1>1 DEF Buffer
    <3>2. m \in 0 .. SizeMod - 1 /\ SizeMod \in Nat
      BY <3>1, ModFacts, BufferAssumption, Zenon
    <3> HIDE DEF m
    <3> QED BY <3>2
  <2> HIDE DEF m
  <2>3. buf' \in Buffer
    BY <1>1, <2>1, <2>2, Zenon DEF Buffer
  <2> QED BY <1>3, <2>1, <2>3 DEF StartSendAdd
<1> QED BY <1>2, <1>3, Zenon

\* A turn of the loop takes the bytes of the first block off.
LEMMA SendAddInv == ASSUME Inv, SendAdd PROVE Inv'
<1>1. PICK base, t : BufAt(base, t)
  BY Zenon DEF Inv, BufInv
<1>2. /\ pc = "send_add" /\ WriteTypeOK /\ unused = 0 /\ left \in Nat
      /\ UNCHANGED <<policy, steady, wire, pc, at, msgvars, pollvars, ringvars>>
  BY Zenon DEF SendAdd, Inv, MessageInv, WriteTypeOK
<1>3. /\ t \in Nat /\ appended \in Nat /\ buf \in Buffer /\ Holds(buf.blocks, base, appended, 0)
      /\ base \in Nat
  BY <1>1, <1>2, CountFacts, Zenon
<1>4. /\ t = base + buf.blocks[1].begin /\ buf.to_write_bytes_ = (appended + 0 - t - left) % SizeMod
      /\ NothingSentTwice => /\ Len(wire) = t + left /\ Len(wire) <= appended
                             /\ wire = Stream(0, Len(wire))
  BY <1>1, <1>2, Zenon DEF BufAt, CountInv, Owed
<1>5. PICK n : n = Min({left, buf.blocks[1].end - buf.blocks[1].begin})
  BY Zenon
<1>6. buf' = send_add(buf, left) /\ left' = left - n
  BY <1>5, Zenon DEF SendAdd
<1>7. n \in 0 .. left /\ \E c : TakenOff(send_add(buf, left), buf, base, c, appended, n)
  BY <1>2, <1>3, <1>5, SendAddKeeps, Zenon
<1>8. PICK c : TakenOff(buf', buf, base, c, appended, n)
  BY <1>6, <1>7, Zenon
<1>9. /\ buf' \in Buffer /\ Holds(buf'.blocks, c, appended, 0)
      /\ buf'.to_write_bytes_ = buf.to_write_bytes_
      /\ c + buf'.blocks[1].begin = base + buf.blocks[1].begin + n
  BY <1>8, Zenon DEF TakenOff
<1>10. n \in Nat /\ n <= left /\ left' \in Nat
  BY <1>2, <1>6, <1>7
<1>11. WriteTypeOK'
  BY <1>2, <1>9, <1>10, Zenon DEF WriteTypeOK, msgvars, pollvars, ringvars
<1>12. MessageInv'
  BY <1>2, Zenon DEF Inv, MessageInv, msgvars
<1>13. RingInv'
  BY <1>2, Zenon DEF Inv, RingInv, BackLeftComesBack, ringvars
<1>14. BufInv'
  <2> DEFINE x == t + n
  <2>1. x = c + buf'.blocks[1].begin
    BY <1>4, <1>9, Zenon
  <2>2. appended + 0 - x - left' = appended + 0 - t - left /\ x + left' = t + left
    BY <1>2, <1>3, <1>6, <1>10
  <2> HIDE DEF x
  <2>3. appended' = appended /\ unused' = 0 /\ wire' = wire /\ sqe' = NoSqe /\ Owed' = left' /\ pc' = "send_add"
    BY <1>2, Zenon DEF Inv, RingInv, Owed, msgvars, ringvars
  <2>4. NothingSentTwice' = NothingSentTwice
    BY <1>2, Zenon DEF NothingSentTwice
  <2>5. CountInv(x)'
    <3>1. buf'.to_write_bytes_ = (appended' + unused' - x - left') % SizeMod
      BY <1>4, <1>9, <2>2, <2>3, Zenon
    <3>2. NothingSentTwice' => /\ Len(wire') = x + Owed' /\ Len(wire') <= appended'
                               /\ wire' = Stream(0, Len(wire'))
      <4>1. NothingSentTwice' => Len(wire) = x + left'
        BY <1>4, <2>2, <2>4, Zenon
      <4> QED BY <1>4, <2>3, <2>4, <4>1, Zenon
    <3> QED BY <2>3, <3>1, <3>2, Zenon DEF CountInv
  <2>6. BufAt(c, x)'
    <3>1. Holds(buf'.blocks, c, appended', unused')
      BY <1>9, <2>3, Zenon
    <3> QED BY <2>1, <2>5, <3>1, Zenon DEF BufAt
  <2> QED BY <1>11, <2>6, BufInvNext, Zenon
<1> QED BY <1>11, <1>12, <1>13, <1>14, Zenon DEF Inv

\* All is taken off, and the counter is exact again.
LEMMA SendAddDoneInv == ASSUME Inv, SendAddDone PROVE Inv'
<1>1. PICK base, t : BufAt(base, t)
  BY Zenon DEF Inv, BufInv
<1>2. /\ pc = "send_add" /\ left = 0 /\ WriteTypeOK /\ unused = 0 /\ parts = <<>>
      /\ sqe = NoSqe /\ cqe = NoCqe
      /\ UNCHANGED <<policy, steady, buf, wire, left, msgvars, room, need_write, nwrite, ringvars>>
  BY Zenon DEF SendAddDone, Inv, MessageInv, RingInv
<1>3. pc' \in {"idle", "async_write"} /\ at' \in {"wait", "write"} /\ epollout' \in BOOLEAN
  <2>1. at \in {"wait", "write"} /\ epollout \in BOOLEAN
    BY <1>2, Zenon DEF WriteTypeOK
  <2>2. CASE policy = "poll" /\ nwrite < need_write
    BY <2>1, <2>2, Zenon DEF SendAddDone
  <2>3. CASE ~(policy = "poll" /\ nwrite < need_write)
    BY <2>1, <2>3, Zenon DEF SendAddDone, ResumeWrite
  <2> QED BY <2>2, <2>3, Zenon
<1>4. WriteTypeOK'
  <2>1. UNCHANGED <<policy, steady, buf, wire, left, appended, parts, unused, room, need_write, nwrite,
                    back_left_, sqe, cqe>>
    BY <1>2, Zenon DEF msgvars, ringvars
  <2> QED BY <1>2, <1>3, <2>1, Zenon DEF WriteTypeOK
<1>5. MessageInv'
  BY <1>2, <1>3, Zenon DEF MessageInv, msgvars
<1>6. RingInv'
  BY <1>2, <1>3, Zenon DEF Inv, RingInv, BackLeftComesBack, ringvars
<1>7. BufInv'
  <2>1. /\ t \in Nat /\ t <= appended /\ appended \in Nat /\ appended <= MaxBytes
        /\ Holds(buf.blocks, base, appended, unused)
    BY <1>1, <1>2, CountFacts DEF WriteTypeOK
  <2>2. /\ t = base + buf.blocks[1].begin
        /\ buf.to_write_bytes_ = (appended + unused - t - left) % SizeMod
        /\ NothingSentTwice => /\ Len(wire) = t + left /\ Len(wire) <= appended
                               /\ wire = Stream(0, Len(wire))
    BY <1>1, <1>2, Zenon DEF BufAt, CountInv, Owed
  <2> DEFINE x == appended + unused - t
  <2>3. appended + unused - t - left = x /\ x \in 0 .. SizeMod - 1 /\ x \in Int
    <3>1. MaxBytes \in Nat /\ SizeMod \in Nat /\ kBlockSize \in Nat /\ MaxBytes + kBlockSize < SizeMod
      BY WriteAssumption, BufferAssumption, Zenon
    <3> QED BY <1>2, <2>1, <3>1
  <2> HIDE DEF x
  <2>4. buf.to_write_bytes_ = x
    BY <2>2, <2>3, ModFacts, Zenon
  <2>5. /\ buf' = buf /\ wire' = wire /\ appended' = appended /\ unused' = unused /\ sqe' = NoSqe
        /\ Owed' = 0 /\ Owed' = left /\ pc' # "send_add" /\ NothingSentTwice' = NothingSentTwice
    BY <1>2, <1>3, Zenon DEF Owed, NothingSentTwice, msgvars, ringvars
  <2>6. CountInv(t)'
    <3>1. buf'.to_write_bytes_ = appended' + unused' - t
      BY <2>4, <2>5, Zenon DEF x
    <3>2. NothingSentTwice' => /\ Len(wire') = t + Owed' /\ Len(wire') <= appended'
                               /\ wire' = Stream(0, Len(wire'))
      BY <2>2, <2>5, Zenon
    <3> QED BY <2>5, <3>1, <3>2, Zenon DEF CountInv
  <2>7. BufAt(base, t)'
    BY <2>1, <2>2, <2>5, <2>6, Zenon DEF BufAt
  <2> QED BY <1>4, <2>7, BufInvNext, Zenon
<1> QED BY <1>4, <1>5, <1>6, <1>7, Zenon DEF Inv
-----------------------------------------------------------------------------
(* The steps: PollConnection *)

\* The steps that neither touch the buffer nor write anything.
LEMMA QuietInv ==
  ASSUME Inv, UNCHANGED <<policy, steady, buf, wire, left, msgvars, ringvars>>,
         pc \in {"idle", "async_write"}, pc' \in {"idle", "async_write", "writev"},
         at' \in {"wait", "write"}, epollout' \in BOOLEAN, room' \in 0 .. SendBuffer,
         {need_write', nwrite'} \subseteq Nat,
         pc' = "writev" => policy = "poll" /\ nwrite' = 0
  PROVE  Inv'
<1>1. PICK base, t : BufAt(base, t)
  BY Zenon DEF Inv, BufInv
<1>2. UNCHANGED <<policy, steady, buf, wire, left, appended, parts, unused, back_left_, sqe, cqe>>
  BY Zenon DEF msgvars, ringvars
<1>3. WriteTypeOK'
  BY <1>2, Zenon DEF Inv, WriteTypeOK
<1>4. MessageInv'
  BY <1>2, Zenon DEF Inv, MessageInv
<1>5. RingInv'
  BY <1>2 DEF Inv, RingInv, BackLeftComesBack
<1>6. Owed' = Owed
  BY <1>2, Zenon DEF Inv, RingInv, Owed
<1>7. BufAt(base, t)'
  BY <1>1, <1>2, <1>6, BufStays, Zenon
<1> QED BY <1>3, <1>4, <1>5, <1>7, BufInvNext, Zenon DEF Inv

\* async_write begins.
LEMMA AsyncWriteInv == ASSUME Inv, AsyncWrite PROVE Inv'
<1>1. WriteTypeOK
  BY Zenon DEF Inv
<1>2. buf.to_write_bytes_ \in Nat
  BY <1>1, Zenon DEF WriteTypeOK, Buffer
<1>3. {need_write', nwrite'} \subseteq Nat /\ room' \in 0 .. SendBuffer /\ at' \in {"wait", "write"}
  BY <1>1, <1>2 DEF AsyncWrite, WriteTypeOK
<1>4. epollout' \in BOOLEAN
  BY <1>1, Zenon DEF AsyncWrite, WriteTypeOK
<1> QED BY <1>3, <1>4, QuietInv, Zenon DEF AsyncWrite

\* EPOLLOUT resumes send_fn.
LEMMA WriteEventInv == ASSUME Inv, WriteEvent PROVE Inv'
<1>1. WriteTypeOK
  BY Zenon DEF Inv
<1>2. {need_write', nwrite'} \subseteq Nat /\ room' \in 0 .. SendBuffer
  BY <1>1, Zenon DEF WriteEvent, WriteTypeOK
<1>3. epollout' \in BOOLEAN /\ pc' \in {"idle", "async_write"} /\ at' \in {"wait", "write"}
  BY <1>1, Zenon DEF WriteEvent, ResumeWrite
<1> QED BY <1>2, <1>3, QuietInv, Zenon DEF WriteEvent

\* The peer reads.
LEMMA PeerReadsInv == ASSUME Inv, PeerReads PROVE Inv'
<1>1. PICK base, t : BufAt(base, t)
  BY Zenon DEF Inv, BufInv
<1>2. UNCHANGED <<policy, steady, buf, wire, pc, at, left, appended, parts, unused, epollout, need_write,
                  nwrite, back_left_, sqe, cqe>>
  BY Zenon DEF PeerReads, msgvars, ringvars
<1>3. room' \in 0 .. SendBuffer
  <2>1. room \in 0 .. SendBuffer /\ SendBuffer \in Nat /\ room' \in room + 1 .. SendBuffer
    BY WriteAssumption, Zenon DEF PeerReads, Inv, WriteTypeOK
  <2> QED BY <2>1
<1>4. WriteTypeOK'
  BY <1>2, <1>3, Zenon DEF Inv, WriteTypeOK
<1>5. Pending' = Pending /\ Owed' = Owed
  BY <1>2, Zenon DEF Pending, Owed
<1>6. MessageInv'
  BY <1>2, <1>5, Zenon DEF Inv, MessageInv
<1>7. RingInv'
  BY <1>2, Zenon DEF Inv, RingInv, BackLeftComesBack
<1>8. BufAt(base, t)'
  BY <1>1, <1>2, <1>5, BufStays, Zenon
<1> QED BY <1>4, <1>6, <1>7, <1>8, BufInvNext, Zenon DEF Inv

\* What was written is to be taken off.
LEMMA WrittenInv == ASSUME Inv, Written PROVE Inv'
<1>1. /\ pc = "writev" /\ WriteTypeOK /\ StartSendAdd(nwrite) /\ nwrite \in Nat /\ nwrite \in Int
      /\ UNCHANGED <<policy, steady, wire, at, appended, parts, unused, room, epollout, need_write, nwrite,
                     back_left_, sqe, cqe>>
  BY DEF Written, Inv, WriteTypeOK, msgvars, pollvars, ringvars
<1>2. policy = "poll" /\ sqe = NoSqe /\ cqe = NoCqe /\ parts = <<>> /\ unused = 0
  BY <1>1, Zenon DEF Inv, RingInv, MessageInv, WriteTypeOK
<1>3. buf' \in Buffer /\ left' \in Nat /\ pc' = "send_add"
  BY <1>1, StartSendAddType, Zenon
<1>4. WriteTypeOK'
  BY <1>1, <1>3, Zenon DEF WriteTypeOK
<1>5. MessageInv'
  BY <1>1, <1>2, <1>3, Zenon DEF MessageInv
<1>6. RingInv'
  BY <1>1, <1>2, <1>3, Zenon DEF Inv, RingInv, BackLeftComesBack
<1>7. Owed = IF nwrite <= 0 THEN 0 ELSE nwrite
  BY <1>1 DEF Owed
<1>8. BufInv'
  BY <1>1, <1>2, <1>4, <1>7, StartSendAddBuf, Zenon
<1> QED BY <1>4, <1>5, <1>6, <1>8, Zenon DEF Inv

\* The iovecs are what comes behind the t bytes that were taken off, at least a byte if there is one.
IovecsHold(iovs, t) ==
  /\ iovs = Stream(t, Len(iovs)) /\ Len(iovs) \in Nat /\ t + Len(iovs) <= appended
  /\ t < appended => Len(iovs) > 0

\* A sequence behind another.
LEMMA ConcatFacts ==
  ASSUME NEW u \in Seq(Nat), NEW v \in Seq(Nat)
  PROVE  u \o v \in Seq(Nat) /\ Len(u \o v) = Len(u) + Len(v)
<1>1. u \o v \in Seq(Nat)
  OBVIOUS
<1>2. Len(u \o v) = Len(u) + Len(v)
  OBVIOUS
<1> QED BY <1>1, <1>2, Zenon

\* The kernel takes n bytes behind those it has.
LEMMA WireGrows ==
  ASSUME NEW t \in Nat, NEW m \in Nat, NEW n \in 0 .. m, NEW iovs, iovs = Stream(t, m),
         wire \in Seq(Nat), wire' = wire \o SubSeq(iovs, 1, n)
  PROVE  /\ wire' \in Seq(Nat)
         /\ Len(wire) = t /\ wire = Stream(0, Len(wire)) =>
              wire' = Stream(0, Len(wire')) /\ Len(wire') = t + n
<1> DEFINE z == SubSeq(iovs, 1, n)
<1>1. z = Stream(t, n) /\ n \in Nat
  BY StreamPart
<1> HIDE DEF z
<1>2. z \in Seq(Nat) /\ Len(z) = n
  BY <1>1, StreamFacts, Zenon
<1>3. wire' = wire \o z
  BY Zenon DEF z
<1>4. wire' \in Seq(Nat) /\ Len(wire') = Len(wire) + n
  <2>1. wire \o z \in Seq(Nat) /\ Len(wire \o z) = Len(wire) + Len(z)
    BY <1>2, ConcatFacts, Zenon
  <2> QED BY <1>2, <1>3, <2>1, Zenon
<1>5. ASSUME Len(wire) = t, wire = Stream(0, Len(wire)) PROVE wire' = Stream(0, t + n)
  <2>1. wire = Stream(0, t)
    BY <1>5, Zenon
  <2>2. Stream(0, t) \o Stream(t, n) = Stream(0, t + n)
    BY <1>1, StreamJoin, Zenon
  <2> QED BY <1>1, <1>3, <2>1, <2>2, Zenon
<1>6. ASSUME Len(wire) = t PROVE Len(wire') = t + n
  BY <1>4, <1>6, Zenon
<1> QED BY <1>4, <1>5, <1>6, Zenon

\* writev takes a part of the iovecs.
LEMMA WritevInv ==
  ASSUME Inv, Writev, NEW base, NEW t, BufAt(base, t), IovecsHold(get_iovecs(buf), t)
  PROVE  Inv'
<1>1. /\ pc = "writev" /\ WriteTypeOK /\ room \in 0 .. SendBuffer /\ nwrite \in Nat /\ SendBuffer \in Nat
      /\ UNCHANGED <<policy, buf, pc, at, left, appended, parts, unused, epollout, need_write,
                     back_left_, sqe, cqe>>
      /\ steady' = (steady /\ nwrite = 0)
  BY WriteAssumption, Zenon DEF Writev, Inv, WriteTypeOK, msgvars, ringvars
<1>2. policy = "poll" /\ sqe = NoSqe /\ cqe = NoCqe /\ parts = <<>> /\ unused = 0 /\ back_left_ = 0
  BY <1>1, Zenon DEF Inv, RingInv, MessageInv, WriteTypeOK
<1>3. PICK iovs : iovs = get_iovecs(buf)
  BY Zenon
<1>4. PICK n : n = Min({room, Len(iovs)})
  BY Zenon
<1>5. /\ wire' = wire \o SubSeq(iovs, 1, n) /\ room' = room - n /\ nwrite' = nwrite + n
  BY <1>3, <1>4, Zenon DEF Writev
<1>6. /\ iovs = Stream(t, Len(iovs)) /\ Len(iovs) \in Nat /\ t + Len(iovs) <= appended
  BY <1>3, Zenon DEF IovecsHold
<1>7. n \in 0 .. Len(iovs) /\ n \in 0 .. room /\ n \in Nat
  BY <1>1, <1>4, <1>6, MinTwo
<1>8. /\ t \in Nat /\ appended \in Nat /\ Holds(buf.blocks, base, appended, unused) /\ wire \in Seq(Nat)
  BY <1>1, CountFacts, Zenon DEF WriteTypeOK
<1>9. /\ wire' \in Seq(Nat)
      /\ Len(wire) = t /\ wire = Stream(0, Len(wire)) => wire' = Stream(0, Len(wire')) /\ Len(wire') = t + n
  BY <1>5, <1>6, <1>7, <1>8, WireGrows, Zenon
<1>10. room' \in 0 .. SendBuffer /\ nwrite' \in Nat
  BY <1>1, <1>5, <1>7
<1>11. steady' \in BOOLEAN
  BY <1>1, Zenon
<1>12. WriteTypeOK'
  BY <1>1, <1>9, <1>10, <1>11, Zenon DEF WriteTypeOK
<1>13. MessageInv'
  BY <1>1, <1>2, Zenon DEF MessageInv
<1>14. RingInv'
  BY <1>1, <1>2 DEF RingInv, BackLeftComesBack
<1>15. BufInv'
  <2>1. /\ t = base + buf.blocks[1].begin /\ buf.to_write_bytes_ = appended + unused - t
        /\ NothingSentTwice => /\ Len(wire) = t + nwrite /\ wire = Stream(0, Len(wire))
    BY <1>1, Zenon DEF BufAt, CountInv, Owed
  <2>2. ASSUME NothingSentTwice' PROVE /\ Len(wire') = t + Owed' /\ Len(wire') <= appended
                                       /\ wire' = Stream(0, Len(wire'))
    <3>1. steady /\ nwrite = 0
      BY <1>1, <1>2, <2>2, Zenon DEF NothingSentTwice
    <3>2. Len(wire) = t /\ wire = Stream(0, Len(wire))
      BY <1>8, <2>1, <3>1 DEF NothingSentTwice
    <3>3. Owed' = n
      BY <1>1, <1>5, <1>7, <3>1 DEF Owed
    <3>4. wire' = Stream(0, Len(wire')) /\ Len(wire') = t + n
      BY <1>9, <3>2, Zenon
    <3>5. t + n <= appended
      BY <1>6, <1>7, <1>8
    <3> QED BY <3>3, <3>4, <3>5, Zenon
  <2>3. CountInv(t)'
    BY <1>1, <1>2, <2>1, <2>2, Zenon DEF CountInv
  <2>4. BufAt(base, t)'
    BY <1>1, <1>8, <2>1, <2>3, Zenon DEF BufAt
  <2> QED BY <1>12, <2>4, BufInvNext, Zenon
<1> QED BY <1>12, <1>13, <1>14, <1>15, Zenon DEF Inv
-----------------------------------------------------------------------------
(* The steps: UringConnection *)

\* A writev is out, and send_fn waits.
LEMMA AsyncWriteSuspendsInv == ASSUME Inv, AsyncWriteSuspends PROVE Inv'
<1>1. WriteTypeOK
  BY Zenon DEF Inv
<1>2. /\ {need_write', nwrite'} \subseteq Nat /\ room' \in 0 .. SendBuffer /\ at' \in {"wait", "write"}
  BY <1>1, Zenon DEF AsyncWriteSuspends, WriteTypeOK, pollvars
<1>3. epollout' \in BOOLEAN
  BY <1>1, Zenon DEF AsyncWriteSuspends, WriteTypeOK, pollvars
<1> QED BY <1>2, <1>3, QuietInv, Zenon DEF AsyncWriteSuspends

\* A writev of the iovecs is submitted, when none is out.
LEMMA AsyncWriteSubmitsInv ==
  ASSUME Inv, AsyncWriteSubmits, NEW base, NEW t, BufAt(base, t), IovecsHold(get_iovecs(buf), t)
  PROVE  Inv'
<1>1. /\ pc = "async_write" /\ pc' = "idle" /\ WriteTypeOK /\ policy = "uring"
      /\ back_left_ = 0 /\ back_left_' = buf.to_write_bytes_ /\ buf.to_write_bytes_ > 0
      /\ UNCHANGED <<policy, steady, buf, wire, at, left, appended, parts, unused, room, epollout,
                     need_write, nwrite, cqe>>
  BY Zenon DEF AsyncWriteSubmits, Inv, msgvars, pollvars
<1>2. cqe = NoCqe /\ parts = <<>> /\ unused = 0
  BY <1>1 DEF Inv, RingInv, MessageInv
<1>3. /\ t \in Nat /\ t <= appended /\ appended \in Nat /\ appended <= MaxBytes /\ MaxBytes \in Nat
      /\ Holds(buf.blocks, base, appended, unused)
  BY <1>1, CountFacts, WriteAssumption DEF WriteTypeOK
<1>4. /\ t = base + buf.blocks[1].begin /\ buf.to_write_bytes_ = appended + unused - t
      /\ NothingSentTwice => /\ Len(wire) = t + Owed /\ Len(wire) <= appended
                             /\ wire = Stream(0, Len(wire))
  BY <1>1, Zenon DEF BufAt, CountInv
<1>5. back_left_' = appended - t /\ back_left_' \in 1 .. MaxBytes /\ t < appended
  BY <1>1, <1>2, <1>3, <1>4
<1>6. /\ sqe' = Stream(t, Len(sqe')) /\ Len(sqe') \in Nat /\ t + Len(sqe') <= appended /\ Len(sqe') > 0
  <2>1. sqe' = get_iovecs(buf)
    BY Zenon DEF AsyncWriteSubmits
  <2> QED BY <1>5, <2>1, Zenon DEF IovecsHold
<1>7. sqe' \in Seq(Nat) /\ sqe' # NoSqe
  <2>1. Stream(t, Len(sqe')) \in Seq(Nat)
    BY <1>3, <1>6, StreamFacts, Zenon
  <2> QED BY <1>6, <2>1 DEF NoSqe
<1>8. WriteTypeOK'
  BY <1>1, <1>3, <1>5, <1>7 DEF WriteTypeOK
<1>9. MessageInv'
  BY <1>1, <1>2, Zenon DEF MessageInv
<1>10. RingInv'
  <2>1. Len(sqe') <= back_left_'
    BY <1>3, <1>5, <1>6
  <2>2. back_left_' <= MaxBytes
    BY <1>3, <1>5
  <2> QED BY <1>1, <1>2, <1>7, <2>1, <2>2, Zenon DEF RingInv, BackLeftComesBack
<1>11. BufInv'
  <2>1. Owed' = Owed /\ NothingSentTwice' = NothingSentTwice
    BY <1>1, Zenon DEF Owed, NothingSentTwice
  <2>2. NothingSentTwice' => /\ Len(wire') = t + Owed' /\ Len(wire') <= appended'
                             /\ wire' = Stream(0, Len(wire'))
    BY <1>1, <1>4, <2>1, Zenon
  <2>3. CountInv(t)'
    BY <1>1, <1>4, <1>6, <2>2, Zenon DEF CountInv
  <2>4. BufAt(base, t)'
    BY <1>1, <1>3, <1>4, <2>3, Zenon DEF BufAt
  <2> QED BY <1>8, <2>4, BufInvNext, Zenon
<1> QED BY <1>8, <1>9, <1>10, <1>11, Zenon DEF Inv

\* What holds when a writev is in flight.
LEMMA InFlightFacts ==
  ASSUME Inv, sqe # NoSqe, NEW base, NEW t, BufAt(base, t)
  PROVE  /\ policy = "uring" /\ pc \notin {"writev", "send_add"} /\ cqe = NoCqe /\ Owed = 0
         /\ Len(sqe) \in Nat /\ Len(sqe) > 0 /\ Len(sqe) <= back_left_ /\ back_left_ \in 1 .. MaxBytes
         /\ sqe = Stream(t, Len(sqe)) /\ t + Len(sqe) <= appended
         /\ t \in Nat /\ appended \in Nat /\ wire \in Seq(Nat) /\ Holds(buf.blocks, base, appended, unused)
         /\ t = base + buf.blocks[1].begin /\ buf.to_write_bytes_ = appended + unused - t
         /\ Len(wire) = t /\ wire = Stream(0, Len(wire))
<1>1. policy = "uring" /\ pc \notin {"writev", "send_add"} /\ cqe = NoCqe
  BY Zenon DEF Inv, RingInv, WriteTypeOK
<1>2. Owed = 0
  BY <1>1, Zenon DEF Owed
<1>3. Len(sqe) \in Nat /\ Len(sqe) > 0
  BY SeqNonEmpty, Zenon DEF Inv, WriteTypeOK, NoSqe
<1>4. Len(sqe) <= back_left_ /\ back_left_ <= MaxBytes /\ back_left_ \in Nat /\ MaxBytes \in Nat
  BY WriteAssumption DEF Inv, RingInv, WriteTypeOK
<1>5. back_left_ \in 1 .. MaxBytes
  BY <1>3, <1>4
<1>6. t \in Nat /\ appended \in Nat /\ wire \in Seq(Nat) /\ Holds(buf.blocks, base, appended, unused)
  BY CountFacts, Zenon DEF Inv, WriteTypeOK
<1>7. /\ t = base + buf.blocks[1].begin /\ buf.to_write_bytes_ = appended + unused - t
      /\ sqe = Stream(t, Len(sqe)) /\ t + Len(sqe) <= appended
      /\ NothingSentTwice => Len(wire) = t + Owed /\ wire = Stream(0, Len(wire))
  BY <1>1, Zenon DEF BufAt, CountInv
<1>8. NothingSentTwice
  BY <1>1, Zenon DEF NothingSentTwice
<1>9. Len(wire) = t /\ wire = Stream(0, Len(wire))
  BY <1>2, <1>6, <1>7, <1>8
<1> QED BY <1>1, <1>2, <1>3, <1>4, <1>5, <1>6, <1>7, <1>9, Zenon

\* The kernel takes a part of the writev.
LEMMA KernelWritesInv == ASSUME Inv, KernelWrites PROVE Inv'
<1>1. PICK base, t : BufAt(base, t)
  BY Zenon DEF Inv, BufInv
<1>2. PICK n \in 1 .. Len(sqe) : /\ wire' = wire \o SubSeq(sqe, 1, n) /\ cqe' = <<n>>
                                 /\ steady' = (steady /\ n = back_left_)
  BY Zenon DEF KernelWrites
<1>3. /\ sqe # NoSqe /\ sqe' = NoSqe /\ WriteTypeOK
      /\ UNCHANGED <<policy, buf, pc, at, left, appended, parts, unused, room, epollout, need_write, nwrite,
                     back_left_>>
  BY Zenon DEF KernelWrites, Inv, msgvars, pollvars
<1>4. /\ policy = "uring" /\ pc \notin {"writev", "send_add"} /\ Owed = 0
      /\ Len(sqe) \in Nat /\ Len(sqe) <= back_left_ /\ back_left_ \in 1 .. MaxBytes
      /\ sqe = Stream(t, Len(sqe)) /\ t + Len(sqe) <= appended
      /\ t \in Nat /\ appended \in Nat /\ wire \in Seq(Nat) /\ Holds(buf.blocks, base, appended, unused)
      /\ t = base + buf.blocks[1].begin /\ buf.to_write_bytes_ = appended + unused - t
      /\ Len(wire) = t /\ wire = Stream(0, Len(wire))
  BY <1>1, <1>3, InFlightFacts, Zenon
<1>5. n \in Nat /\ n > 0 /\ n <= Len(sqe) /\ n \in 0 .. Len(sqe) /\ MaxBytes \in Nat
  BY <1>2, <1>4, WriteAssumption
<1>6. wire' \in Seq(Nat) /\ wire' = Stream(0, Len(wire')) /\ Len(wire') = t + n
  BY <1>2, <1>4, <1>5, WireGrows, Zenon
<1>7. /\ cqe' \in Seq(Int) /\ Len(cqe') = 1 /\ cqe'[1] = n /\ cqe' # NoCqe
  BY <1>2, <1>5 DEF NoCqe
<1>8. sqe' \in Seq(Nat)
  BY <1>3 DEF NoSqe
<1>9. steady' \in BOOLEAN /\ (steady' => n = back_left_)
  BY <1>2, Zenon
<1>10. WriteTypeOK'
  BY <1>3, <1>6, <1>7, <1>8, <1>9, Zenon DEF WriteTypeOK
<1>11. MessageInv'
  <2>1. Pending' = Pending
    BY <1>3, Zenon DEF Pending
  <2> QED BY <1>3, <2>1, Zenon DEF Inv, MessageInv
<1>12. RingInv'
  <2>1. n \in 1 .. MaxBytes /\ n <= back_left_
    BY <1>4, <1>5
  <2> QED BY <1>3, <1>4, <1>7, <1>9, <2>1, Zenon DEF RingInv, BackLeftComesBack
<1>13. BufInv'
  <2>1. Owed' = n
    BY <1>3, <1>4, <1>5, <1>7, Zenon DEF Owed
  <2>2. t + n <= appended
    BY <1>4, <1>5
  <2>3. CountInv(t)'
    <3>1. Len(wire') = t + Owed' /\ Len(wire') <= appended' /\ wire' = Stream(0, Len(wire'))
      BY <1>3, <1>6, <2>1, <2>2, Zenon
    <3>2. buf'.to_write_bytes_ = appended' + unused' - t /\ pc' # "send_add" /\ sqe' = NoSqe
      BY <1>3, <1>4, Zenon
    <3> QED BY <3>1, <3>2, Zenon DEF CountInv
  <2>4. BufAt(base, t)'
    BY <1>3, <1>4, <2>3, Zenon DEF BufAt
  <2> QED BY <1>10, <2>4, BufInvNext, Zenon
<1> QED BY <1>10, <1>11, <1>12, <1>13, Zenon DEF Inv

\* The kernel fails.
LEMMA KernelFailsInv == ASSUME Inv, KernelFails PROVE Inv'
<1>1. PICK base, t : BufAt(base, t)
  BY Zenon DEF Inv, BufInv
<1>2. /\ sqe # NoSqe /\ sqe' = NoSqe /\ cqe' = <<ECONNRESET>> /\ steady' = FALSE /\ WriteTypeOK
      /\ UNCHANGED <<policy, buf, wire, pc, at, left, appended, parts, unused, room, epollout, need_write,
                     nwrite, back_left_>>
  BY Zenon DEF KernelFails, Inv, msgvars, pollvars
<1>3. /\ policy = "uring" /\ pc \notin {"writev", "send_add"} /\ Owed = 0 /\ back_left_ \in 1 .. MaxBytes
      /\ t \in Nat /\ appended \in Nat /\ Len(sqe) \in Nat /\ t + Len(sqe) <= appended
      /\ Holds(buf.blocks, base, appended, unused)
      /\ t = base + buf.blocks[1].begin /\ buf.to_write_bytes_ = appended + unused - t
      /\ Len(wire) = t /\ wire = Stream(0, Len(wire))
  BY <1>1, <1>2, InFlightFacts, Zenon
<1>4. cqe' \in Seq(Int) /\ Len(cqe') = 1 /\ cqe'[1] = -1 /\ cqe' # NoCqe /\ ECONNRESET = -1
  BY <1>2 DEF NoCqe, ECONNRESET
<1>5. sqe' \in Seq(Nat)
  BY <1>2 DEF NoSqe
<1>6. WriteTypeOK'
  BY <1>2, <1>4, <1>5, Zenon DEF WriteTypeOK
<1>7. MessageInv'
  <2>1. Pending' = Pending
    BY <1>2, Zenon DEF Pending
  <2> QED BY <1>2, <2>1, Zenon DEF Inv, MessageInv
<1>8. RingInv'
  <2>1. -1 <= back_left_
    BY <1>3
  <2> QED BY <1>2, <1>3, <1>4, <2>1, Zenon DEF RingInv, BackLeftComesBack
<1>9. BufInv'
  <2>1. Owed' = 0
    BY <1>2, <1>3, <1>4 DEF Owed
  <2>2. CountInv(t)'
    <3>1. Len(wire') = t + Owed' /\ Len(wire') <= appended' /\ wire' = Stream(0, Len(wire'))
      BY <1>2, <1>3, <2>1
    <3>2. buf'.to_write_bytes_ = appended' + unused' - t /\ pc' # "send_add" /\ sqe' = NoSqe
      BY <1>2, <1>3, Zenon
    <3> QED BY <3>1, <3>2, Zenon DEF CountInv
  <2>3. BufAt(base, t)'
    BY <1>2, <1>3, <2>2, Zenon DEF BufAt
  <2> QED BY <1>6, <2>3, BufInvNext, Zenon
<1> QED BY <1>6, <1>7, <1>8, <1>9, Zenon DEF Inv

\* The completion: what the kernel took is to be taken off, and back_left_ counts the rest.
LEMMA CompletionInv == ASSUME Inv, Completion PROVE Inv'
<1>1. /\ cqe # NoCqe /\ pc = "idle" /\ WriteTypeOK /\ StartSendAdd(cqe[1]) /\ cqe' = NoCqe
      /\ back_left_' = (back_left_ - cqe[1]) % SizeMod
      /\ UNCHANGED <<policy, steady, wire, at, appended, parts, unused, room, epollout, need_write, nwrite, sqe>>
  BY Zenon DEF Completion, Inv, msgvars, pollvars
<1>2. PICK n : n = cqe[1]
  BY Zenon
<1>3. /\ policy = "uring" /\ sqe = NoSqe /\ parts = <<>> /\ unused = 0
      /\ n \in {-1} \cup 1 .. MaxBytes /\ back_left_ \in 1 .. MaxBytes /\ n <= back_left_
      /\ steady => n = back_left_
  BY <1>1, <1>2, Zenon DEF Inv, RingInv, MessageInv, WriteTypeOK, ECONNRESET
<1>4. n \in Int /\ MaxBytes \in Nat /\ SizeMod \in Nat /\ MaxBytes + 1 < SizeMod
  <2>1. MaxBytes \in Nat /\ SizeMod \in Nat /\ kBlockSize \in Nat \ {0} /\ MaxBytes + kBlockSize < SizeMod
    BY WriteAssumption, BufferAssumption, Zenon
  <2> QED BY <1>3, <2>1
<1>5. back_left_ - n \in 0 .. MaxBytes + 1 /\ back_left_ - n \in 0 .. SizeMod - 1
  BY <1>3, <1>4
<1>6. back_left_' = back_left_ - n
  BY <1>1, <1>2, <1>5, ModFacts
<1>7. back_left_' \in 0 .. MaxBytes + 1 /\ (steady => back_left_' = 0)
  BY <1>3, <1>4, <1>5, <1>6
<1>8. buf' \in Buffer /\ left' \in Nat /\ pc' = "send_add"
  BY <1>1, <1>2, <1>4, StartSendAddType, Zenon
<1>9. cqe' \in Seq(Int)
  BY <1>1 DEF NoCqe
<1>10. WriteTypeOK'
  BY <1>1, <1>7, <1>8, <1>9, Zenon DEF WriteTypeOK
<1>11. MessageInv'
  BY <1>1, <1>3, <1>8, Zenon DEF MessageInv
<1>12. RingInv'
  BY <1>1, <1>3, <1>7, <1>8 DEF RingInv, BackLeftComesBack
<1>13. Owed = IF n <= 0 THEN 0 ELSE n
  BY <1>1, <1>2, <1>4 DEF Owed
<1>14. StartSendAdd(n)
  BY <1>1, <1>2, Zenon
<1>15. BufInv'
  BY <1>1, <1>3, <1>4, <1>10, <1>13, <1>14, StartSendAddBuf, Zenon
<1> QED BY <1>10, <1>11, <1>12, <1>15, Zenon DEF Inv
-----------------------------------------------------------------------------
(* The bytes in the blocks *)

\* A number lies in one of the intervals of kBlockSize numbers.
LEMMA Division ==
  ASSUME NEW x \in Nat
  PROVE  \E q \in Nat : q * kBlockSize <= x /\ x < q * kBlockSize + kBlockSize
<1>1. kBlockSize \in Nat \ {0}
  BY BufferAssumption, Zenon
<1>2. x \div kBlockSize \in Nat /\ x % kBlockSize \in 0 .. kBlockSize - 1
  BY <1>1
<1> DEFINE q == x \div kBlockSize
           r == x % kBlockSize
<1>3. q \in Nat /\ r \in 0 .. kBlockSize - 1 /\ x = q * kBlockSize + r
  BY <1>1, <1>2
<1> HIDE DEF q, r
<1>4. q * kBlockSize \in Nat
  BY <1>1, <1>3
<1>5. q * kBlockSize <= x /\ x < q * kBlockSize + kBlockSize
  BY <1>1, <1>3, <1>4
<1> QED BY <1>3, <1>5, Zenon

\* The bytes in front of a block.
Front(s, j) == UNION {{i} \X (s[i].begin + 1 .. s[i].end) : i \in 1 .. j - 1}

\* What is known of InFront: block j's bytes lie behind byte From(base, j) of the stream.
Places(s, base) ==
  \A j \in 1 .. Len(s) :
    /\ InFront(s, j) = From(base, j) + s[j].begin - (base + s[1].begin)
    /\ InFront(s, j + 1) = From(base, j) + s[j].end - (base + s[1].begin)

\* No block begins behind its end.
LEMMA BeginEnd ==
  ASSUME NEW s, NEW base, NEW a, NEW u, Holds(s, base, a, u), NEW j \in 1 .. Len(s)
  PROVE  s[j].begin <= s[j].end
<1>1. Len(s) \in Nat /\ s[j] \in Blocks /\ s[j].begin \in Nat /\ s[j].end \in Nat /\ j \in Nat
  BY HoldsFacts
<1>2. CASE j = Len(s)
  <2>1. s[Len(s)].begin + u <= s[Len(s)].end /\ u \in Nat
    BY Zenon DEF Holds
  <2> QED BY <1>1, <1>2, <2>1
<1>3. CASE j # Len(s)
  <2>1. j < Len(s)
    BY <1>1, <1>3
  <2>2. s[j].end = kBlockSize
    BY <2>1, Zenon DEF Holds
  <2> QED BY <1>1, <2>2, BlockFacts
<1> QED BY <1>2, <1>3, Zenon

\* Each byte behind the first T = base + begin is in one of the first m blocks.
LEMMA InBlock ==
  ASSUME NEW s, NEW base, NEW a, NEW u, Holds(s, base, a, u), NEW m \in 1 .. Len(s), NEW p \in Nat,
         base + s[1].begin < p, p <= From(base, m) + s[m].end
  PROVE  \E j \in 1 .. m : From(base, j) + s[j].begin < p /\ p <= From(base, j) + s[j].end
<1>1. /\ Len(s) \in Nat \ {0} /\ base \in Nat /\ m \in Nat \ {0} /\ m <= Len(s)
      /\ s[1].begin \in Nat /\ s[m] \in Blocks
      /\ \A j \in 1 .. Len(s) : s[j].begin \in Nat /\ s[j].end \in Nat
  BY HoldsFacts
<1>2. s[m].end \in Nat /\ s[m].end <= kBlockSize /\ kBlockSize \in Nat \ {0}
  BY <1>1, BlockFacts
<1>3. p - 1 - base \in Nat
  BY <1>1
<1>4. PICK q \in Nat : q * kBlockSize <= p - 1 - base /\ p - 1 - base < q * kBlockSize + kBlockSize
  BY <1>3, Division, Zenon
<1> DEFINE j == q + 1
           d == q * kBlockSize
<1>5. j \in Nat \ {0} /\ d \in Nat /\ From(base, j) = base + d
  <2>1. d \in Nat /\ (q + 1) - 1 = q
    BY <1>2
  <2> QED BY <2>1 DEF From
<1>6. d <= p - 1 - base /\ p - 1 - base < d + kBlockSize
  BY <1>4, Zenon
<1> HIDE DEF j, d
<1>7. From(base, j) < p /\ p <= From(base, j) + kBlockSize
  BY <1>1, <1>2, <1>5, <1>6
<1>8. j <= m
  <2>1. SUFFICES ASSUME m < j PROVE FALSE
    BY <1>1, <1>5
  <2>2. From(base, m) + kBlockSize <= From(base, j)
    BY <1>1, <1>5, <2>1, FromMonotone, Zenon
  <2>3. From(base, m) \in Nat /\ From(base, j) \in Nat
    BY <1>1, <1>5, FromFacts, Zenon
  <2> QED BY <1>2, <1>7, <2>2, <2>3
<1>9. j \in 1 .. m /\ j \in 1 .. Len(s)
  BY <1>1, <1>5, <1>8
<1>10. p <= From(base, j) + s[j].end
  <2>1. CASE j = m
    BY <2>1, Zenon
  <2>2. CASE j # m
    <3>1. j < Len(s)
      BY <1>1, <1>5, <1>8, <2>2
    <3>2. s[j].end = kBlockSize
      BY <1>9, <3>1, Zenon DEF Holds
    <3> QED BY <1>7, <3>2, Zenon
  <2> QED BY <2>1, <2>2, Zenon
<1>11. From(base, j) + s[j].begin < p
  <2>1. CASE j = 1
    <3>1. From(base, 1) = base
      BY <1>1, FromFacts, Zenon
    <3> QED BY <2>1, <3>1, Zenon
  <2>2. CASE j # 1
    <3>1. j > 1
      BY <1>5, <2>2
    <3>2. s[j].begin = 0
      BY <1>9, <3>1, Zenon DEF Holds
    <3>3. From(base, j) \in Nat
      BY <1>1, <1>5, FromFacts, Zenon
    <3> QED BY <1>7, <3>2, <3>3
  <2> QED BY <2>1, <2>2, Zenon
<1> QED BY <1>9, <1>10, <1>11, Zenon

INSTANCE FiniteSetTheorems

\* The bytes in a block.
LEMMA BlockBytes ==
  ASSUME NEW i, NEW x \in Nat, NEW y \in Nat, x <= y
  PROVE  IsFiniteSet({i} \X (x + 1 .. y)) /\ Cardinality({i} \X (x + 1 .. y)) = y - x
<1>1. IsFiniteSet({i}) /\ Cardinality({i}) = 1
  BY FS_Singleton, Zenon
<1>2. IsFiniteSet(x + 1 .. y) /\ Cardinality(x + 1 .. y) = y - x
  <2>1. x + 1 \in Int /\ y \in Int /\ (IF x + 1 > y THEN 0 ELSE y - (x + 1) + 1) = y - x
    OBVIOUS
  <2>2. \A z \in Int : /\ IsFiniteSet(z .. y)
                       /\ Cardinality(z .. y) = IF z > y THEN 0 ELSE y - z + 1
    BY <2>1, FS_Interval, Zenon
  <2> QED BY <2>1, <2>2, Zenon
<1>3. /\ IsFiniteSet({i} \X (x + 1 .. y))
      /\ Cardinality({i} \X (x + 1 .. y)) = Cardinality({i}) * Cardinality(x + 1 .. y)
  BY <1>1, <1>2, FS_Product, Zenon
<1>4. 1 * (y - x) = y - x
  OBVIOUS
<1> QED BY <1>1, <1>2, <1>3, <1>4, Zenon

\* The first block holds no byte that is in front of it, and there are finitely many in front of any.
LEMMA FrontFinite ==
  ASSUME NEW s \in Seq(Blocks), NEW j \in 1 .. Len(s)
  PROVE  IsFiniteSet(Front(s, j)) /\ InFront(s, j) = Cardinality(Front(s, j)) /\ InFront(s, j) \in Nat
<1>1. kBlockSize \in Nat /\ j \in Nat /\ Len(s) \in Nat
  BY BufferAssumption
<1>2. IsFiniteSet(1 .. j) /\ IsFiniteSet(1 .. kBlockSize)
  BY <1>1, FS_Interval
<1>3. IsFiniteSet((1 .. j) \X (1 .. kBlockSize))
  BY <1>2, FS_Product, Zenon
<1>4. ASSUME NEW i \in 1 .. j - 1
      PROVE  {i} \X (s[i].begin + 1 .. s[i].end) \subseteq (1 .. j) \X (1 .. kBlockSize)
  <2>1. i \in 1 .. j /\ i \in 1 .. Len(s)
    BY <1>1
  <2>2. s[i] \in Blocks
    BY <2>1
  <2>3. s[i].begin \in Nat /\ s[i].end \in Nat /\ s[i].end <= kBlockSize
    BY <1>1, <2>2, BlockFacts
  <2>4. s[i].begin + 1 .. s[i].end \subseteq 1 .. kBlockSize
    BY <1>1, <2>3
  <2> QED BY <2>1, <2>4, Zenon
<1>5. Front(s, j) \subseteq (1 .. j) \X (1 .. kBlockSize)
  BY <1>4, Zenon DEF Front
<1>6. IsFiniteSet(Front(s, j))
  BY <1>3, <1>5, FS_Subset, Zenon
<1>7. Cardinality(Front(s, j)) \in Nat
  BY <1>6, FS_CardinalityType, Zenon
<1>8. InFront(s, j) = Cardinality(Front(s, j))
  BY Zenon DEF InFront, Front
<1> QED BY <1>6, <1>7, <1>8, Zenon

\* The bytes of block j come behind those in front of it.
LEMMA FrontStep ==
  ASSUME NEW s \in Seq(Blocks), NEW j \in 1 .. Len(s), s[j].begin <= s[j].end
  PROVE  InFront(s, j + 1) = InFront(s, j) + (s[j].end - s[j].begin)
<1> DEFINE new == {j} \X (s[j].begin + 1 .. s[j].end)
<1>1. s[j] \in Blocks
  OBVIOUS
<1>2. s[j].begin \in Nat /\ s[j].end \in Nat
  BY <1>1, BlockFacts, Zenon
<1>3. IsFiniteSet(new) /\ Cardinality(new) = s[j].end - s[j].begin
  BY <1>2, BlockBytes, Zenon
<1>4. 1 .. (j + 1) - 1 = (1 .. j - 1) \cup {j}
  OBVIOUS
<1>5. Front(s, j + 1) = Front(s, j) \cup new
  BY <1>4, Zenon DEF Front
<1>6. Front(s, j) \cap new = {}
  <2>1. j \notin 1 .. j - 1
    OBVIOUS
  <2>2. \A x \in Front(s, j) : x[1] \in 1 .. j - 1
    BY DEF Front
  <2>3. \A x \in new : x[1] = j
    BY Zenon
  <2> HIDE DEF new
  <2> QED BY <2>1, <2>2, <2>3, Zenon
<1>7. IsFiniteSet(Front(s, j)) /\ InFront(s, j) = Cardinality(Front(s, j)) /\ InFront(s, j) \in Nat
  BY FrontFinite, Zenon
<1> HIDE DEF new
<1>8. Cardinality(Front(s, j) \cup new)
        = Cardinality(Front(s, j)) + Cardinality(new) - Cardinality(Front(s, j) \cap new)
  BY <1>3, <1>7, FS_Union, Zenon
<1>9. Cardinality({}) = 0
  BY FS_EmptySet, Zenon
<1>10. InFront(s, j + 1) = Cardinality(Front(s, j + 1))
  BY Zenon DEF InFront, Front
<1>11. InFront(s, j + 1) = InFront(s, j) + (s[j].end - s[j].begin) - 0
  BY <1>3, <1>5, <1>6, <1>7, <1>8, <1>9, <1>10, Zenon
<1> QED BY <1>2, <1>7, <1>11

\* In front of block j are j - 1 full blocks, without what was taken off the first.
LEMMA FrontAt ==
  ASSUME NEW s, NEW base, NEW a, NEW u, Holds(s, base, a, u), NEW j \in 1 .. Len(s)
  PROVE  InFront(s, j) = From(base, j) + s[j].begin - (base + s[1].begin)
<1>1. /\ s \in Seq(Blocks) /\ Len(s) \in Nat \ {0} /\ base \in Nat /\ s[1] \in Blocks
      /\ s[1].begin \in Nat /\ j \in Nat \ {0} /\ j <= Len(s)
  BY HoldsFacts
<1>2. kBlockSize \in Nat /\ s[1].begin <= kBlockSize
  BY <1>1, BlockFacts
<1>3. CASE j = 1
  <2>1. Front(s, 1) = {}
    BY DEF Front
  <2>2. Cardinality({}) = 0
    BY FS_EmptySet, Zenon
  <2>3. InFront(s, 1) = Cardinality(Front(s, 1))
    BY Zenon DEF InFront, Front
  <2>4. From(base, 1) = base
    BY <1>1, FromFacts, Zenon
  <2>5. InFront(s, 1) = 0
    BY <2>1, <2>2, <2>3, Zenon
  <2> QED BY <1>1, <1>3, <2>4, <2>5
<1>4. CASE j # 1
  <2> DEFINE b == s[1].begin
             first == {1} \X (b + 1 .. kBlockSize)
             rest == (2 .. j - 1) \X (1 .. kBlockSize)
  <2>1. j >= 2 /\ 1 .. j - 1 = {1} \cup (2 .. j - 1)
    BY <1>1, <1>4
  <2>2. s[1].end = kBlockSize /\ s[j].begin = 0
    BY <1>1, <2>1 DEF Holds
  <2>3. ASSUME NEW i \in 2 .. j - 1 PROVE s[i].begin = 0 /\ s[i].end = kBlockSize
    <3>1. i \in 1 .. Len(s) /\ i > 1 /\ i < Len(s)
      BY <1>1
    <3> QED BY <3>1, Zenon DEF Holds
  <2>4. Front(s, j) = first \cup rest
    <3> DEFINE G(i) == {i} \X (s[i].begin + 1 .. s[i].end)
    <3>1. Front(s, j) = UNION {G(i) : i \in 1 .. j - 1}
      BY Zenon DEF Front
    <3>2. G(1) = first
      BY <2>2, Zenon
    <3>3. \A i \in 2 .. j - 1 : G(i) = {i} \X (1 .. kBlockSize)
      BY <2>3
    <3> HIDE DEF G, first
    <3>4. UNION {G(i) : i \in 2 .. j - 1} = rest
      <4>1. \A S, K : UNION {{i} \X K : i \in S} = S \X K
        OBVIOUS
      <4>2. {G(i) : i \in 2 .. j - 1} = {{i} \X (1 .. kBlockSize) : i \in 2 .. j - 1}
        BY <3>3, Zenon
      <4> QED BY <4>1, <4>2, Zenon
    <3>5. UNION {G(i) : i \in 1 .. j - 1} = G(1) \cup UNION {G(i) : i \in 2 .. j - 1}
      BY <2>1, Zenon
    <3> HIDE DEF rest
    <3> QED BY <3>1, <3>2, <3>4, <3>5, Zenon
  <2>5. first \cap rest = {}
    <3>1. 1 \notin 2 .. j - 1
      OBVIOUS
    <3> QED BY <3>1, Zenon
  <2>6. IsFiniteSet(first) /\ Cardinality(first) = kBlockSize - b
    BY <1>1, <1>2, BlockBytes, Zenon
  <2>7. IsFiniteSet(rest) /\ Cardinality(rest) = (j - 2) * kBlockSize
    <3>1. \A n \in Int : 2 <= n + 1 => IsFiniteSet(2 .. n) /\ Cardinality(2 .. n) = n - 1
      BY FS_Interval
    <3>2. j - 1 \in Int /\ 2 <= (j - 1) + 1 /\ (j - 1) - 1 = j - 2
      BY <1>1, <2>1
    <3>3. IsFiniteSet(2 .. j - 1) /\ Cardinality(2 .. j - 1) = j - 2
      BY <3>1, <3>2, Zenon
    <3>4. IsFiniteSet(1 .. kBlockSize) /\ Cardinality(1 .. kBlockSize) = kBlockSize
      <4>1. \A n \in Nat : IsFiniteSet(1 .. n) /\ Cardinality(1 .. n) = n
        BY FS_Interval
      <4> QED BY <1>2, <4>1, Zenon
    <3>5. IsFiniteSet(rest) /\ Cardinality(rest) = Cardinality(2 .. j - 1) * Cardinality(1 .. kBlockSize)
      BY <3>3, <3>4, FS_Product, Zenon
    <3> HIDE DEF rest
    <3> QED BY <3>3, <3>4, <3>5, Zenon
  <2> HIDE DEF first, rest
  <2>8. Cardinality(first \cup rest) = Cardinality(first) + Cardinality(rest) - Cardinality(first \cap rest)
    BY <2>6, <2>7, FS_Union, Zenon
  <2>9. Cardinality({}) = 0
    BY FS_EmptySet, Zenon
  <2>10. InFront(s, j) = Cardinality(Front(s, j))
    BY Zenon DEF InFront, Front
  <2>11. InFront(s, j) = (kBlockSize - b) + (j - 2) * kBlockSize - 0
    BY <2>4, <2>5, <2>6, <2>7, <2>8, <2>9, <2>10, Zenon
  <2>12. (j - 1) * kBlockSize = (j - 2) * kBlockSize + kBlockSize /\ (j - 2) * kBlockSize \in Nat
    <3>1. \A n \in Nat : n * kBlockSize \in Nat /\ (n + 1) * kBlockSize = n * kBlockSize + kBlockSize
      BY <1>2
    <3>2. j - 2 \in Nat /\ (j - 2) + 1 = j - 1
      BY <1>1, <2>1
    <3> QED BY <3>1, <3>2, Zenon
  <2>13. From(base, j) = base + (j - 1) * kBlockSize
    BY Zenon DEF From
  <2> DEFINE d == (j - 2) * kBlockSize
             c == (j - 1) * kBlockSize
  <2>14. /\ c = d + kBlockSize /\ d \in Nat /\ From(base, j) = base + c
         /\ InFront(s, j) = (kBlockSize - b) + d - 0 /\ b \in Nat
    BY <1>1, <2>11, <2>12, <2>13, Zenon
  <2> HIDE DEF c, d
  <2>15. InFront(s, j) = From(base, j) + 0 - (base + b)
    BY <1>1, <1>2, <2>14
  <2> QED BY <2>2, <2>15, Zenon
<1> QED BY <1>3, <1>4, Zenon

\* So the blocks' bytes lie one behind the other.
LEMMA InPlace ==
  ASSUME NEW s, NEW base, NEW a, NEW u, Holds(s, base, a, u)
  PROVE  Places(s, base)
<1> SUFFICES ASSUME NEW j \in 1 .. Len(s)
             PROVE  /\ InFront(s, j) = From(base, j) + s[j].begin - (base + s[1].begin)
                    /\ InFront(s, j + 1) = From(base, j) + s[j].end - (base + s[1].begin)
  BY Zenon DEF Places
<1>1. /\ s \in Seq(Blocks) /\ Len(s) \in Nat \ {0} /\ base \in Nat /\ s[1].begin \in Nat
      /\ s[j] \in Blocks /\ s[j].begin \in Nat /\ s[j].end \in Nat /\ j \in Nat \ {0}
  BY HoldsFacts
<1>2. InFront(s, j) = From(base, j) + s[j].begin - (base + s[1].begin)
  BY FrontAt, Zenon
<1>3. s[j].begin <= s[j].end
  BY BeginEnd, Zenon
<1>4. InFront(s, j + 1) = InFront(s, j) + (s[j].end - s[j].begin)
  BY <1>1, <1>3, FrontStep, Zenon
<1>5. From(base, j) \in Nat
  BY <1>1, FromFacts, Zenon
<1>6. InFront(s, j + 1) = From(base, j) + s[j].end - (base + s[1].begin)
  BY <1>1, <1>2, <1>4, <1>5
<1> QED BY <1>2, <1>6, Zenon

\* The bytes of a block are among those of its data.
LEMMA BlockData ==
  ASSUME NEW k \in Blocks
  PROVE  k.data \in [1 .. kBlockSize -> Nat] /\ 1 .. k.end \subseteq 1 .. kBlockSize
<1>1. k.data \in [1 .. kBlockSize -> Nat] /\ k.end \in 0 .. kBlockSize /\ kBlockSize \in Nat
  BY BlockFacts, Zenon
<1> QED BY <1>1

\* Byte t + n of the stream, and a block that holds the bytes between b and e behind the first f.
Placed(n, t, f, b, e, x, y) ==
  /\ n \in Nat /\ t \in Nat /\ f \in Nat /\ b \in Nat /\ e \in Nat
  /\ x = f + b - t /\ y = f + e - t

\* The block holds it, if it is between b and e,
LEMMA PlacedIn ==
  ASSUME NEW n, NEW t, NEW f, NEW b, NEW e, NEW x, NEW y, Placed(n, t, f, b, e, x, y),
         f + b < t + n, t + n <= f + e
  PROVE  n \in x + 1 .. y
BY DEF Placed

\* at this place.
LEMMA PlacedAt ==
  ASSUME NEW n, NEW t, NEW f, NEW b, NEW e, NEW x, NEW y, Placed(n, t, f, b, e, x, y),
         n \in x + 1 .. y
  PROVE  b + n - x \in 1 .. e /\ f + (b + n - x) = t + n
BY DEF Placed

\* A block with no byte behind the first t holds none,
LEMMA PlacedSize ==
  ASSUME NEW n, NEW t, NEW f, NEW b, NEW e, NEW x, NEW y, Placed(n, t, f, b, e, x, y),
         x \in Nat, b <= e
  PROVE  y \in Nat
BY DEF Placed

\* and a byte in front of its end is at most its last.
LEMMA PlacedReach ==
  ASSUME NEW n, NEW t, NEW f, NEW b, NEW e, NEW x, NEW y, Placed(n, t, f, b, e, x, y),
         n \in 1 .. y
  PROVE  t + n \in Nat /\ t < t + n /\ t + n <= f + e
BY DEF Placed

\* The bytes of the first m blocks are those of the stream behind the bytes that were taken off, as
\* far as they are filled.
LEMMA BytesFacts ==
  ASSUME NEW s, NEW base, NEW a, NEW u, Holds(s, base, a, u), NEW m \in 1 .. Len(s),
         NEW t, t = base + s[1].begin, NEW z, z = From(base, m) + s[m].end - t
  PROVE  /\ z \in Nat /\ BytesOf(s, m) \in Seq(Nat) /\ Len(BytesOf(s, m)) = z
         /\ \A n \in 1 .. z : t + n <= a => BytesOf(s, m)[n] = t + n
<1>1. /\ s \in Seq(Blocks) /\ Len(s) \in Nat \ {0} /\ base \in Nat /\ s[1].begin \in Nat /\ a \in Nat
      /\ \A j \in 1 .. Len(s) : s[j] \in Blocks /\ s[j].begin \in Nat /\ s[j].end \in Nat
  BY HoldsFacts, Zenon
<1>2. Places(s, base)
  BY InPlace, Zenon
<1>3. t \in Nat /\ m \in Nat /\ m <= Len(s)
  BY <1>1
<1>4. ASSUME NEW j \in 1 .. m
      PROVE  /\ InFront(s, j) = From(base, j) + s[j].begin - t
             /\ InFront(s, j + 1) = From(base, j) + s[j].end - t
             /\ s[j].begin \in Nat /\ s[j].end \in Nat /\ From(base, j) \in Nat
             /\ InFront(s, j) \in Nat /\ s[j] \in Blocks /\ j \in 1 .. Len(s)
  <2>1. j \in 1 .. Len(s) /\ j \in Nat \ {0}
    BY <1>3
  <2>2. From(base, j) \in Nat
    BY <1>1, <2>1, FromFacts, Zenon
  <2>3. InFront(s, j) \in Nat
    BY <1>1, <2>1, FrontFinite, Zenon
  <2> QED BY <1>1, <1>2, <2>1, <2>2, <2>3, Zenon DEF Places
<1>5. z = InFront(s, m + 1)
  BY <1>4
<1>6. z \in Nat
  <2>1. m \in 1 .. m
    BY <1>3
  <2>2. /\ InFront(s, m) = From(base, m) + s[m].begin - t /\ InFront(s, m) \in Nat
        /\ s[m].begin \in Nat /\ s[m].end \in Nat /\ From(base, m) \in Nat
    BY <1>4, <2>1, Zenon
  <2>3. s[m].begin <= s[m].end
    BY <1>3, <2>1, BeginEnd, Zenon
  <2>4. Placed(0, t, From(base, m), s[m].begin, s[m].end, InFront(s, m), z)
    BY <1>3, <2>2, Zenon DEF Placed
  <2> QED BY <2>2, <2>3, <2>4, PlacedSize, Zenon
<1> DEFINE In(n, j) == n \in InFront(s, j) + 1 .. InFront(s, j + 1)
           J(n) == CHOOSE j \in 1 .. m : In(n, j)
           V(n) == s[J(n)].data[s[J(n)].begin + n - InFront(s, J(n))]
<1>7. BytesOf(s, m) = [n \in 1 .. z |-> V(n)]
  BY <1>5, Zenon DEF BytesOf
<1>8. ASSUME NEW n \in 1 .. z PROVE J(n) \in 1 .. m /\ In(n, J(n))
  <2>1. t + n \in Nat /\ t < t + n /\ t + n <= From(base, m) + s[m].end /\ n \in Nat
    <3>1. m \in 1 .. m
      BY <1>3
    <3>2. s[m].end \in Nat /\ From(base, m) \in Nat
      BY <1>4, <3>1, Zenon
    <3>3. n \in Nat
      BY <1>6
    <3>4. Placed(n, t, From(base, m), 0, s[m].end, From(base, m) + 0 - t, z)
      BY <1>3, <3>2, <3>3, Zenon DEF Placed
    <3>5. t + n \in Nat /\ t < t + n /\ t + n <= From(base, m) + s[m].end
      BY <3>4, PlacedReach, Zenon
    <3> QED BY <3>3, <3>5, Zenon
  <2>2. PICK j \in 1 .. m : From(base, j) + s[j].begin < t + n /\ t + n <= From(base, j) + s[j].end
    BY <2>1, InBlock, Zenon
  <2>3. In(n, j)
    <3> DEFINE f == From(base, j)
               b == s[j].begin
               e == s[j].end
               x == InFront(s, j)
               y == InFront(s, j + 1)
    <3>1. x = f + b - t /\ y = f + e - t /\ b \in Nat /\ e \in Nat /\ f \in Nat
      BY <1>4, Zenon
    <3>2. f + b < t + n /\ t + n <= f + e /\ t \in Nat /\ n \in Nat
      BY <1>3, <2>1, <2>2, Zenon
    <3> HIDE DEF f, b, e, x, y
    <3>3. Placed(n, t, f, b, e, x, y)
      BY <3>1, <3>2, Zenon DEF Placed
    <3>4. n \in x + 1 .. y
      BY <3>2, <3>3, PlacedIn, Zenon
    <3> QED BY <3>4, Zenon DEF x, y
  <2> HIDE DEF In
  <2> QED BY <2>3, Zenon
<1>9. ASSUME NEW n \in 1 .. z PROVE V(n) \in Nat /\ (t + n <= a => V(n) = t + n)
  <2> DEFINE j == J(n)
             i == s[j].begin + n - InFront(s, j)
  <2>1. j \in 1 .. m /\ In(n, j)
    BY <1>8, Zenon
  <2> HIDE DEF j
  <2>2. /\ InFront(s, j) = From(base, j) + s[j].begin - t
        /\ InFront(s, j + 1) = From(base, j) + s[j].end - t
        /\ s[j].begin \in Nat /\ s[j].end \in Nat /\ From(base, j) \in Nat
        /\ InFront(s, j) \in Nat /\ s[j] \in Blocks /\ j \in 1 .. Len(s)
    BY <1>4, <2>1, Zenon
  <2>3. n \in Nat
    BY <1>6
  <2>4. i \in 1 .. s[j].end /\ From(base, j) + i = t + n
    <3> DEFINE f == From(base, j)
               b == s[j].begin
               e == s[j].end
               x == InFront(s, j)
               y == InFront(s, j + 1)
    <3>1. x = f + b - t /\ y = f + e - t /\ b \in Nat /\ e \in Nat /\ f \in Nat
      BY <2>2, Zenon
    <3>2. n \in x + 1 .. y /\ t \in Nat /\ n \in Nat
      BY <1>3, <2>1, <2>3, Zenon
    <3> HIDE DEF f, b, e, x, y
    <3>3. Placed(n, t, f, b, e, x, y)
      BY <3>1, <3>2, Zenon DEF Placed
    <3>4. b + n - x \in 1 .. e /\ f + (b + n - x) = t + n
      BY <3>2, <3>3, PlacedAt
    <3> QED BY <3>4, Zenon DEF f, b, e, x
  <2>5. V(n) = s[j].data[i]
    BY Zenon DEF j
  <2> HIDE DEF i
  <2>6. s[j].data[i] \in Nat
    <3>1. s[j].data \in [1 .. kBlockSize -> Nat] /\ 1 .. s[j].end \subseteq 1 .. kBlockSize
      BY <2>2, BlockData, Zenon
    <3>2. i \in 1 .. kBlockSize
      BY <2>4, <3>1, Zenon
    <3> QED BY <3>1, <3>2, Zenon
  <2>7. HoldsBytes(s[j], From(base, j), a)
    BY <2>2, Zenon DEF Holds
  <2>8. t + n <= a => s[j].data[i] = t + n
    BY <2>4, <2>7, Zenon DEF HoldsBytes
  <2> QED BY <2>5, <2>6, <2>8, Zenon
<1> HIDE DEF V
<1>10. BytesOf(s, m) \in [1 .. z -> Nat] /\ \A n \in 1 .. z : BytesOf(s, m)[n] = V(n)
  BY <1>7, <1>9, Zenon
<1>11. \A f \in [1 .. z -> Nat] : f \in Seq(Nat) /\ Len(f) = z
  BY <1>6
<1>12. BytesOf(s, m) \in Seq(Nat) /\ Len(BytesOf(s, m)) = z
  BY <1>10, <1>11, Zenon
<1> QED BY <1>6, <1>9, <1>10, <1>12, Zenon

\* Everything in the buffer: as many bytes as were put in or handed out and not taken off.
LEMMA UnsentFacts ==
  ASSUME NEW base, NEW t, Holds(buf.blocks, base, appended, unused), t = base + buf.blocks[1].begin
  PROVE  /\ Unsent(buf) \in Seq(Nat) /\ Len(Unsent(buf)) = appended + unused - t
         /\ \A n \in 1 .. appended - t : Unsent(buf)[n] = t + n
<1> DEFINE s == buf.blocks
           m == Len(s)
           z == From(base, m) + s[m].end - t
<1>1. /\ m \in Nat \ {0} /\ base \in Nat /\ appended \in Nat /\ unused \in Nat /\ s[1].begin \in Nat
      /\ From(base, m) \in Nat /\ s[m].end \in Nat
  BY HoldsFacts, Zenon
<1>2. m \in 1 .. Len(s) /\ t \in Nat
  BY <1>1
<1>3. /\ z \in Nat /\ BytesOf(s, m) \in Seq(Nat) /\ Len(BytesOf(s, m)) = z
      /\ \A n \in 1 .. z : t + n <= appended => BytesOf(s, m)[n] = t + n
  BY <1>2, BytesFacts
<1>4. appended + unused = From(base, m) + s[m].end
  BY Zenon DEF Holds
<1>5. z = appended + unused - t
  <2>1. \A x, w \in Nat : x + w - t = (x + w) - t
    BY <1>2
  <2>2. z = (From(base, m) + s[m].end) - t
    BY <1>1, <2>1, Zenon
  <2>3. appended + unused - t = (appended + unused) - t
    BY <1>1, <2>1, Zenon
  <2> QED BY <1>4, <2>2, <2>3, Zenon
<1>6. Unsent(buf) = BytesOf(s, m)
  BY Zenon DEF Unsent
<1> HIDE DEF s, m, z
<1>7. \A n \in 1 .. appended - t : n \in 1 .. z /\ t + n <= appended
  <2>1. appended \in Nat /\ unused \in Nat /\ t \in Nat
    BY <1>1, <1>2, Zenon
  <2> QED BY <1>5, <2>1
<1> QED BY <1>3, <1>5, <1>6, <1>7, Zenon

\* Sequences whose elements are those of the stream.
LEMMA IsStream ==
  ASSUME NEW f \in Seq(Nat), NEW t \in Nat, \A n \in 1 .. Len(f) : f[n] = t + n
  PROVE  f = Stream(t, Len(f))
<1> DEFINE g == Stream(t, Len(f))
<1>1. g \in Seq(Nat) /\ Len(g) = Len(f) /\ \A i \in 1 .. Len(f) : g[i] = t + i
  <2>1. Len(f) \in Nat
    OBVIOUS
  <2> QED BY <2>1, StreamFacts, Zenon
<1> HIDE DEF g
<1>2. \A i \in 1 .. Len(f) : f[i] = g[i]
  BY <1>1, Zenon
<1>3. f = g
  BY <1>1, <1>2, SeqEqual, Zenon
<1> QED BY <1>3, Zenon DEF g

\* The iovecs of a writev.
LEMMA Iovecs ==
  ASSUME NEW base, NEW t, Holds(buf.blocks, base, appended, 0), t = base + buf.blocks[1].begin
  PROVE  IovecsHold(get_iovecs(buf), t)
<1> DEFINE s == buf.blocks
           m == Min({Len(s), IOV_MAX})
           z == From(base, m) + s[m].end - t
           f == BytesOf(s, m)
<1>1. /\ Len(s) \in Nat \ {0} /\ base \in Nat /\ appended \in Nat /\ s[1].begin \in Nat
      /\ From(base, Len(s)) \in Nat /\ From(base, Len(s)) <= appended
      /\ \A j \in 1 .. Len(s) : s[j] \in Blocks /\ s[j].begin \in Nat /\ s[j].end \in Nat
  BY HoldsFacts, Zenon
<1>2. m \in 1 .. Len(s) /\ m \in Nat \ {0}
  <2>1. \A x \in Nat \ {0}, y \in Nat \ {0} : Min({x, y}) \in 1 .. x /\ Min({x, y}) \in Nat \ {0}
    BY MinTwo
  <2>2. IOV_MAX \in Nat \ {0}
    BY BufferAssumption, Zenon
  <2> QED BY <1>1, <2>1, <2>2, Zenon
<1>3. get_iovecs(buf) = f
  BY Zenon DEF get_iovecs
<1> HIDE DEF m
<1>4. t \in Nat /\ s[m].end \in Nat /\ s[m] \in Blocks /\ From(base, m) \in Nat
  <2>1. From(base, m) \in Nat
    BY <1>1, <1>2, FromFacts, Zenon
  <2>2. \A x, w \in Nat : x + w \in Nat
    OBVIOUS
  <2>3. t \in Nat
    BY <1>1, <2>2, Zenon
  <2> QED BY <1>1, <1>2, <2>1, <2>3, Zenon
<1>5. /\ z \in Nat /\ f \in Seq(Nat) /\ Len(f) = z
      /\ \A n \in 1 .. z : t + n <= appended => f[n] = t + n
  BY <1>2, BytesFacts
<1>6. t + z = From(base, m) + s[m].end
  <2>1. \A x, w \in Nat : t + (x + w - t) = x + w
    BY <1>4
  <2> QED BY <1>4, <2>1, Zenon
<1> HIDE DEF f
<1>7. t + z <= appended /\ (t < appended => z > 0)
  <2>1. CASE m = Len(s)
    <3>1. appended + 0 = From(base, m) + s[m].end
      BY <2>1, Zenon DEF Holds
    <3>2. appended + 0 = t + z /\ appended \in Nat /\ t \in Nat /\ z \in Nat
      BY <1>1, <1>4, <1>5, <1>6, <3>1, Zenon
    <3> HIDE DEF z
    <3> QED BY <3>2
  <2>2. CASE m # Len(s)
    <3>1. m < Len(s)
      BY <1>1, <1>2, <2>2
    <3>2. s[m].end = kBlockSize /\ s[1].begin < kBlockSize /\ kBlockSize \in Nat
      BY <1>2, <3>1, BufferAssumption, Zenon DEF Holds
    <3>3. From(base, m) + kBlockSize <= From(base, Len(s))
      BY <1>1, <1>2, <3>1, FromMonotone, Zenon
    <3>4. base <= From(base, m)
      <4>1. CASE m = 1
        BY <1>1, <4>1, FromFacts
      <4>2. CASE m # 1
        <5>1. 1 < m /\ 1 \in Nat \ {0}
          BY <1>2, <4>2
        <5>2. From(base, 1) + kBlockSize <= From(base, m) /\ From(base, 1) = base
          BY <1>1, <1>2, <5>1, FromMonotone, FromFacts, Zenon
        <5> QED BY <1>1, <1>4, <3>2, <5>2
      <4> QED BY <4>1, <4>2, Zenon
    <3> DEFINE x == From(base, m)
               w == From(base, Len(s))
               b == s[1].begin
    <3>5. /\ t + z = x + kBlockSize /\ t = base + b /\ x + kBlockSize <= w /\ base <= x /\ w <= appended
          /\ b < kBlockSize /\ {t, z, x, w, base, b, appended, kBlockSize} \subseteq Nat
      BY <1>1, <1>4, <1>5, <1>6, <3>2, <3>3, <3>4, Zenon
    <3> HIDE DEF x, w, b, z
    <3> QED BY <3>5
  <2> QED BY <2>1, <2>2, Zenon
<1>8. \A n \in 1 .. z : t + n <= appended
  <2>1. t \in Nat /\ z \in Nat /\ appended \in Nat /\ t + z <= appended
    BY <1>1, <1>4, <1>5, <1>7, Zenon
  <2> HIDE DEF z
  <2> QED BY <2>1
<1>9. f = Stream(t, Len(f))
  BY <1>4, <1>5, <1>8, IsStream, Zenon
<1> HIDE DEF z
<1> QED BY <1>3, <1>5, <1>7, <1>9, Zenon DEF IovecsHold
-----------------------------------------------------------------------------
(* The invariant, and the theorems *)

\* A step that changes nothing.
LEMMA StutterInv == ASSUME Inv, UNCHANGED vars PROVE Inv'
<1>1. PICK base, t : BufAt(base, t)
  BY Zenon DEF Inv, BufInv
<1>2. UNCHANGED <<policy, steady, buf, wire, pc, at, left, appended, parts, unused, room, epollout,
                  need_write, nwrite, back_left_, sqe, cqe>>
  BY Zenon DEF vars, msgvars, pollvars, ringvars
<1>3. WriteTypeOK'
  BY <1>2, Zenon DEF Inv, WriteTypeOK
<1>4. Pending' = Pending /\ Owed' = Owed
  BY <1>2, Zenon DEF Pending, Owed
<1>5. MessageInv'
  BY <1>2, <1>4, Zenon DEF Inv, MessageInv
<1>6. RingInv'
  BY <1>2, Zenon DEF Inv, RingInv, BackLeftComesBack
<1>7. BufAt(base, t)'
  BY <1>1, <1>2, <1>4, BufStays, Zenon
<1> QED BY <1>3, <1>5, <1>6, <1>7, BufInvNext, Zenon DEF Inv

\* Each step keeps the invariant.
LEMMA StepInv == ASSUME Inv, [Next]_vars PROVE Inv'
<1>1. ASSUME NEW header \in MessageSizes, NEW body \in MessageSizes, StartMessage(header, body)
      PROVE  Inv'
  BY <1>1, StartMessageInv, Zenon
<1>2. CASE AppendLength
  BY <1>2, AppendLengthInv, Zenon
<1>3. CASE SerializeNext
  BY <1>3, SerializeNextInv
<1>4. CASE SerializeBytes
  BY <1>4, SerializeBytesInv, Zenon
<1>5. CASE SerializeDone
  BY <1>5, SerializeDoneInv, Zenon
<1>6. CASE SendAdd
  BY <1>6, SendAddInv, Zenon
<1>7. CASE SendAddDone
  BY <1>7, SendAddDoneInv, Zenon
<1>8. CASE AsyncWrite
  BY <1>8, AsyncWriteInv, Zenon
<1>9. PICK base, t : BufAt(base, t)
  BY Zenon DEF Inv, BufInv
<1>10. unused = 0 => IovecsHold(get_iovecs(buf), t)
  BY <1>9, Iovecs, Zenon DEF BufAt
<1>11. CASE Writev
  <2>1. unused = 0
    BY <1>11 DEF Writev, Inv, MessageInv
  <2> QED BY <1>9, <1>10, <1>11, <2>1, WritevInv, Zenon
<1>12. CASE Written
  BY <1>12, WrittenInv, Zenon
<1>13. CASE WriteEvent
  BY <1>13, WriteEventInv, Zenon
<1>14. CASE AsyncWriteSuspends
  BY <1>14, AsyncWriteSuspendsInv, Zenon
<1>15. CASE AsyncWriteSubmits
  <2>1. unused = 0
    BY <1>15 DEF AsyncWriteSubmits, Inv, MessageInv
  <2> QED BY <1>9, <1>10, <1>15, <2>1, AsyncWriteSubmitsInv, Zenon
<1>16. CASE Completion
  BY <1>16, CompletionInv, Zenon
<1>17. CASE PeerReads
  BY <1>17, PeerReadsInv, Zenon
<1>18. CASE KernelWrites
  BY <1>18, KernelWritesInv, Zenon
<1>19. CASE KernelFails
  BY <1>19, KernelFailsInv, Zenon
<1>20. CASE UNCHANGED vars
  BY <1>20, StutterInv, Zenon
<1> QED BY <1>1, <1>2, <1>3, <1>4, <1>5, <1>6, <1>7, <1>8, <1>11, <1>12, <1>13, <1>14, <1>15, <1>16,
           <1>17, <1>18, <1>19, <1>20, Zenon DEF Next, RunsOn

\* The invariant holds throughout.
LEMMA Invariant == Spec => []Inv
<1>1. Init => Inv
  BY InitInv, Zenon
<1>2. Inv /\ [Next]_vars => Inv'
  BY StepInv, Zenon
<1> QED BY <1>1, <1>2, PTL DEF Spec

\* The counters are numbers that size_t holds.
LEMMA CounterBound ==
  ASSUME Inv
  PROVE  buf.to_write_bytes_ \in 0 .. SizeMod - 1 /\ back_left_ \in 0 .. SizeMod - 1
<1>1. PICK base, t : BufAt(base, t)
  BY Zenon DEF Inv, BufInv
<1>2. /\ MaxBytes \in Nat /\ SizeMod \in Nat /\ kBlockSize \in Nat \ {0} /\ MaxBytes + kBlockSize < SizeMod
  BY WriteAssumption, BufferAssumption, Zenon
<1>3. back_left_ \in 0 .. MaxBytes + 1 /\ appended \in 0 .. MaxBytes
  BY Zenon DEF Inv, WriteTypeOK
<1>4. back_left_ \in 0 .. SizeMod - 1
  BY <1>2, <1>3
<1>5. t \in Nat /\ t <= appended /\ unused \in Nat /\ Holds(buf.blocks, base, appended, unused)
  BY <1>1, CountFacts DEF Inv
<1>6. unused <= kBlockSize
  <2> DEFINE k == buf.blocks[Len(buf.blocks)]
  <2>1. k \in Blocks /\ k.begin + unused <= k.end
    BY <1>5, HoldsFacts, Zenon DEF Holds
  <2> HIDE DEF k
  <2>2. k.begin \in Nat /\ k.end \in Nat /\ k.end \in 0 .. kBlockSize
    BY <2>1, BlockFacts, Zenon
  <2> QED BY <1>2, <1>5, <2>1, <2>2
<1>7. CASE pc = "send_add"
  <2>1. buf.to_write_bytes_ = (appended + unused - t - left) % SizeMod
    BY <1>1, <1>7, Zenon DEF BufAt, CountInv
  <2>2. appended + unused - t - left \in Int
    <3>1. left \in Nat /\ appended \in Nat
      BY <1>2, <1>3 DEF Inv, WriteTypeOK
    <3> QED BY <1>5, <3>1
  <2> QED BY <1>4, <2>1, <2>2, ModFacts, Zenon
<1>8. CASE pc # "send_add"
  <2>1. buf.to_write_bytes_ = appended + unused - t
    BY <1>1, <1>8, Zenon DEF BufAt, CountInv
  <2> QED BY <1>2, <1>3, <1>4, <1>5, <1>6, <2>1
<1> QED BY <1>7, <1>8, Zenon

\* The blocks are as TypeOK says.
LEMMA BlocksTyped ==
  ASSUME NEW base, Holds(buf.blocks, base, appended, unused), NEW i \in 1 .. Len(buf.blocks),
         NEW k, k = buf.blocks[i]
  PROVE  /\ k.begin \in 0 .. k.end /\ k.end \in 0 .. kBlockSize
         /\ i < Len(buf.blocks) => k.end = kBlockSize
         /\ i > 1 => k.begin = 0
<1>1. k \in Blocks
  BY HoldsFacts, Zenon
<1>2. k.begin \in Nat /\ k.end \in Nat /\ k.end \in 0 .. kBlockSize
  BY <1>1, BlockFacts, Zenon
<1>3. k.begin <= k.end
  BY BeginEnd, Zenon
<1>4. (i < Len(buf.blocks) => k.end = kBlockSize) /\ (i > 1 => k.begin = 0)
  BY Zenon DEF Holds
<1>5. k.begin \in 0 .. k.end
  BY <1>2, <1>3
<1> QED BY <1>2, <1>4, <1>5, Zenon

\* As long as bytes are to be taken off that were put in, the first block has some.
LEMMA FirstHasBytes ==
  ASSUME NEW base, Holds(buf.blocks, base, appended, 0), base + buf.blocks[1].begin < appended
  PROVE  buf.blocks[1].begin < buf.blocks[1].end
<1> DEFINE s == buf.blocks
<1>1. Len(s) \in Nat \ {0} /\ base \in Nat /\ s[1].begin \in Nat /\ s[1].end \in Nat /\ appended \in Nat
  BY HoldsFacts
<1>2. CASE Len(s) = 1
  <2>1. appended + 0 = From(base, 1) + s[1].end
    BY <1>2, Zenon DEF Holds
  <2>2. From(base, 1) = base
    BY <1>1, FromFacts, Zenon
  <2>3. appended + 0 = base + s[1].end
    BY <2>1, <2>2, Zenon
  <2> QED BY <1>1, <2>3
<1>3. CASE Len(s) # 1
  <2>1. \A n \in Nat \ {0} : n # 1 => 1 < n /\ 1 \in 1 .. n
    OBVIOUS
  <2>2. 1 < Len(s) /\ 1 \in 1 .. Len(s)
    BY <1>1, <1>3, <2>1, Zenon
  <2> QED BY <2>2, Zenon DEF Holds
<1> QED BY <1>2, <1>3, Zenon

\* TypeOK from the invariant.
LEMMA InvTypeOK == ASSUME Inv PROVE TypeOK
<1>1. PICK base, t : BufAt(base, t)
  BY Zenon DEF Inv, BufInv
<1>2. WriteTypeOK
  BY Zenon DEF Inv
<1>3. Holds(buf.blocks, base, appended, unused) /\ t = base + buf.blocks[1].begin /\ CountInv(t)
  BY <1>1, Zenon DEF BufAt
<1>4. \A i \in 1 .. Len(buf.blocks) : LET k == buf.blocks[i] IN
        /\ k.begin \in 0 .. k.end /\ k.end \in 0 .. kBlockSize
        /\ i < Len(buf.blocks) => k.end = kBlockSize
        /\ i > 1 => k.begin = 0
  BY <1>3, BlocksTyped, Zenon
<1>5. NothingSentTwice /\ pc = "send_add" /\ left > 0 => buf.blocks[1].begin < buf.blocks[1].end
  <2> SUFFICES ASSUME NothingSentTwice, pc = "send_add", left > 0
               PROVE  buf.blocks[1].begin < buf.blocks[1].end
    BY Zenon
  <2>1. Len(wire) = t + left /\ Len(wire) <= appended /\ unused = 0
    BY <1>3, Zenon DEF CountInv, Owed, Inv, MessageInv
  <2>2. t \in Nat /\ appended \in Nat /\ left \in Nat
    BY <1>1, <1>2, CountFacts, Zenon DEF WriteTypeOK
  <2>3. t < appended
    BY <2>1, <2>2
  <2> QED BY <1>3, <2>1, <2>3, FirstHasBytes, Zenon
<1>6. cqe = NoCqe \/ cqe[1] \in ECONNRESET .. MaxBytes
  <2>1. cqe # NoCqe => cqe[1] \in {ECONNRESET} \cup 1 .. MaxBytes
    BY Zenon DEF Inv, RingInv
  <2>2. {ECONNRESET} \cup 1 .. MaxBytes \subseteq ECONNRESET .. MaxBytes
    BY WriteAssumption DEF ECONNRESET
  <2> QED BY <2>1, <2>2, Zenon
<1>7. /\ policy \in {"poll", "uring"} /\ appended \in 0 .. MaxBytes /\ room \in 0 .. SendBuffer
      /\ {left, unused, nwrite} \subseteq Nat
      /\ pc \in {"idle", "append", "serialize", "async_write", "writev", "send_add"}
      /\ at \in {"wait", "write"}
  BY <1>2, Zenon DEF WriteTypeOK
<1>8. steady \in BOOLEAN /\ epollout \in BOOLEAN
  BY <1>2, Zenon DEF WriteTypeOK
<1> QED BY <1>4, <1>5, <1>6, <1>7, <1>8, CounterBound, Zenon DEF TypeOK

\* WireInOrder from the invariant.
LEMMA InvWireInOrder == ASSUME Inv PROVE WireInOrder
<1>1. PICK base, t : BufAt(base, t)
  BY Zenon DEF Inv, BufInv
<1>2. NothingSentTwice => wire = Stream(0, Len(wire)) /\ Len(wire) \in Nat
  BY <1>1 DEF BufAt, CountInv, Inv, WriteTypeOK
<1>3. \A n \in Nat : Stream(0, n) = [i \in 1 .. n |-> i]
  BY DEF Stream
<1> QED BY <1>2, <1>3, Zenon DEF WireInOrder

\* SizeToWrite from the invariant.
LEMMA InvSizeToWrite == ASSUME Inv PROVE SizeToWrite
<1> SUFFICES ASSUME NothingSentTwice, pc \notin {"writev", "send_add"}, cqe = NoCqe
             PROVE  /\ buf.to_write_bytes_ = appended - Len(wire) + unused
                    /\ Len(Unsent(buf)) = buf.to_write_bytes_
                    /\ \A i \in 1 .. appended - Len(wire) : Unsent(buf)[i] = Len(wire) + i
  BY Zenon DEF SizeToWrite
<1>1. PICK base, t : BufAt(base, t)
  BY Zenon DEF Inv, BufInv
<1>2. t \in Nat /\ appended \in Nat /\ unused \in Nat
  BY <1>1, CountFacts, Zenon DEF Inv
<1>3. Holds(buf.blocks, base, appended, unused) /\ t = base + buf.blocks[1].begin /\ CountInv(t)
  BY <1>1, Zenon DEF BufAt
<1>4. buf.to_write_bytes_ = appended + unused - t /\ Len(wire) = t + 0
  BY <1>3, Zenon DEF CountInv, Owed
<1>5. Len(wire) = t
  BY <1>2, <1>4
<1>6. appended + unused - t = appended - t + unused
  BY <1>2
<1>7. Len(Unsent(buf)) = appended + unused - t /\ \A n \in 1 .. appended - t : Unsent(buf)[n] = t + n
  BY <1>3, UnsentFacts, Zenon
<1> QED BY <1>4, <1>5, <1>6, <1>7, Zenon

\* InFlightIntact from the invariant.
LEMMA InvInFlightIntact == ASSUME Inv PROVE InFlightIntact
<1> SUFFICES ASSUME sqe # NoSqe
             PROVE  Len(sqe) <= Len(Unsent(buf)) /\ sqe = SubSeq(Unsent(buf), 1, Len(sqe))
  BY Zenon DEF InFlightIntact
<1>1. PICK base, t : BufAt(base, t)
  BY Zenon DEF Inv, BufInv
<1>2. /\ Len(sqe) \in Nat /\ sqe = Stream(t, Len(sqe)) /\ t + Len(sqe) <= appended
      /\ t \in Nat /\ appended \in Nat /\ Holds(buf.blocks, base, appended, unused)
      /\ t = base + buf.blocks[1].begin
  BY <1>1, InFlightFacts, Zenon
<1> DEFINE f == Unsent(buf)
           n == Len(sqe)
           g == SubSeq(f, 1, n)
<1>3. /\ f \in Seq(Nat) /\ Len(f) = appended + unused - t
      /\ \A i \in 1 .. appended - t : f[i] = t + i
  BY <1>2, UnsentFacts, Zenon
<1>4. unused \in Nat /\ sqe \in Seq(Nat)
  BY Zenon DEF Inv, WriteTypeOK
<1> HIDE DEF f
<1>5. n <= Len(f) /\ n \in Nat /\ \A i \in 1 .. n : i \in 1 .. appended - t
  <2>1. n \in Nat /\ t + n <= appended /\ t \in Nat /\ appended \in Nat /\ Len(f) = appended + unused - t
    BY <1>2, <1>3, Zenon
  <2> HIDE DEF n
  <2> QED BY <1>4, <2>1
<1>6. g \in Seq(Nat) /\ Len(g) = n /\ \A i \in 1 .. n : g[i] = f[i]
  <2> HIDE DEF n
  <2> QED BY <1>3, <1>5
<1> HIDE DEF g
<1>7. \A i \in 1 .. Len(g) : g[i] = t + i
  BY <1>3, <1>5, <1>6, Zenon
<1>8. g = Stream(t, Len(g))
  BY <1>2, <1>6, <1>7, IsStream, Zenon
<1>9. g = sqe
  BY <1>2, <1>6, <1>8, Zenon
<1> QED BY <1>5, <1>9, Zenon DEF g, f, n

\* The blocks of write_buf_ stay within their size, the counters never wrap around, and the loop of
\* send_add ends, for blocks, messages and send buffers of any size.
THEOREM TypeCorrect == Spec => []TypeOK
BY Invariant, InvTypeOK, PTL

\* The peer of a PollConnection or a UringConnection receives the bytes in order, none twice and
\* none left out, unless a PollConnection needs a second writev in one async_write.
THEOREM InOrder == Spec => []WireInOrder
BY Invariant, InvWireInOrder, PTL

\* to_write_bytes_ counts what write_buf_ holds, and that is what is not on the wire.
THEOREM CountsBytes == Spec => []SizeToWrite
BY Invariant, InvSizeToWrite, PTL

\* No append, next, back_up or send_add touches the memory that a writev in flight points to.
THEOREM InFlight == Spec => []InFlightIntact
BY Invariant, InvInFlightIntact, PTL

\* As long as writes are whole, back_left_ of a UringConnection keeps send_fn waiting only for a
\* completion that comes.
THEOREM BackLeft == Spec => []BackLeftComesBack
<1>1. Inv => BackLeftComesBack
  BY Zenon DEF Inv, RingInv
<1> QED BY <1>1, Invariant, PTL
=============================================================================
