-------------------------- MODULE RpcServerProofs ---------------------------
(***************************************************************************)
(* The safety of RpcServer for any number of requests, any send buffer and *)
(* a ring of any length, under each policy.                                *)
(***************************************************************************)
EXTENDS RpcServer, ConnectionProofs

-----------------------------------------------------------------------------
(* The invariant of the connection and of the loop *)

LoopInv ==
  /\ main \in {"accept", "push", "cas", "ring"} /\ loop \in {"tasks", "arm", "wait", "cqes"}
  /\ should_notify_ \in BOOLEAN /\ spawned \in 0 .. 2
  /\ (main = "push" => spawned \in 0 .. 1) /\ (main \in {"cas", "ring"} => spawned \in 1 .. 2)

\* A wakeup that was claimed is in the ring, or in the hands of spawn.
WakeInv ==
  loop = "wait" /\ ~should_notify_ /\ ~overlap /\ ~crashed =>
    Cqes("wake") # {} \/ (main = "ring" /\ (at["main"] # "no" \/ Queued("wake")))

\* A read is in the ring while recv_fn waits for it, a writev while back_left_ counts messages.
AwaitInv ==
  /\ (InRing("read") => Suspended) /\ (Suspended /\ ~overlap => InRing("read"))
  /\ InRing("write") => back_left_ > 0
  /\ polite /\ back_left_ > 0 /\ ~overlap => InRing("write")
  /\ back_left_ \in 0 .. Len(write_buf_)
  /\ \A e \in Cqes("write") : e.n <= back_left_ /\ (polite => e.n = back_left_)
  /\ \A e \in Cqes("read") : e.n = 0 => e.units = <<>> /\ (polite => peer = "fin")

\* The coroutines start in their order, and end only when the connection is closed.
FramesInv ==
  /\ ConnTypeOK
  /\ send_fn = "done" \/ recv_fn = "done" => closed_
  /\ (recv_fn # "new" => send_fn # "new") /\ (send_fn = "new" => write_buf_ = <<>>)
  /\ ~closed_ /\ ~crashed => IF send_fn = "write" THEN back_left_ > 0 ELSE write_buf_ = <<>>
  /\ crashed => closed_ \/ peer = "reset" \/ overlap

UringInv == RingInv /\ LoopInv /\ WakeInv /\ AwaitInv /\ FramesInv

-----------------------------------------------------------------------------
(* The invariant of the requests and the responses *)

\* What the completions in the ring are about: units read, messages written.
UnitsOf(cqes) == IF cqes = {} THEN <<>> ELSE (CHOOSE e \in cqes : TRUE).units
CountOf(cqes) == IF cqes = {} THEN 0 ELSE Max({0, (CHOOSE e \in cqes : TRUE).n})
Pending == UnitsOf(Cqes("read"))
Written == CountOf(Cqes("write"))

\* The responses are numbered from one, on the wire and on in the buffer.
Responses == Len(wire) - Written + Len(write_buf_)
OrderInv ==
  /\ wire \in Seq(Nat) /\ write_buf_ \in Seq(Nat) /\ Written \in 0 .. Len(write_buf_)
  /\ \A i \in 1 .. Len(wire) : wire[i] = i
  /\ \A i \in 1 .. Len(write_buf_) : write_buf_[i] = Len(wire) - Written + i

\* The units on their way to recv_fn follow the ones it has handled, without a gap.
Stream == (read_buf_ \o Pending) \o sock
InBody == recv_fn \in {"body", "body_wait"}
Receiving == recv_fn \in {"new", "head", "head_wait", "body", "body_wait"}
Handled == 2 * Responses + IF InBody THEN 1 ELSE 0
StreamInv ==
  /\ policy \in DOMAIN MaxRequests /\ sent \in Nat /\ sent <= 2 * MaxRequests[policy]
  /\ read_buf_ \in Seq(RingUnits) /\ Pending \in Seq(RingUnits) /\ sock \in Seq(RingUnits)
  /\ \A i \in 1 .. Len(Stream) : Stream[i].n \in 1 .. sent
  /\ 2 * Responses <= sent
  /\ Receiving => /\ \A i \in 1 .. Len(Stream) : Stream[i].n = Handled + i
                  /\ Handled + Len(Stream) <= sent
                  /\ peer # "reset" => Handled + Len(Stream) = sent

\* A polite peer sends what recv_fn takes, and closes when all is answered.
PoliteInv ==
  polite => /\ \A i \in 1 .. Len(Stream) : Stream[i].good
            /\ peer # "reset"
            /\ closed_ \/ recv_fn \in {"close", "done", "spin"} => peer = "fin"
            /\ peer = "fin" => sent = 2 * Len(wire)

Inv == /\ poll => PollInv /\ flight = {} /\ cq = <<>>
       /\ uring => UringInv /\ PoliteInv
       /\ OrderInv /\ StreamInv

-----------------------------------------------------------------------------
(* Steps of requests and responses *)

\* There is at most one completion of a kind, and it is all that counts.
LEMMA CqeData ==
  /\ UnitsOf({}) = <<>> /\ CountOf({}) = 0
  /\ \A e : UnitsOf({e}) = e.units /\ CountOf({e}) = Max({0, e.n})
<1>1. ASSUME NEW e PROVE (CHOOSE x \in {e} : TRUE) = e
  BY Zenon
<1> QED BY <1>1, Zenon DEF UnitsOf, CountOf

\* The units stay where they are or move on in their order, and recv_fn stays in its request.
LEMMA StreamKept ==
  ASSUME StreamInv, Stream' = Stream, UNCHANGED <<policy, sent>>,
         read_buf_' \in Seq(RingUnits), Pending' \in Seq(RingUnits), sock' \in Seq(RingUnits),
         Responses' = Responses, peer' # "reset" => peer # "reset",
         Receiving' => Receiving /\ (InBody' <=> InBody)
  PROVE  StreamInv'
<1>1. Receiving' => Receiving /\ Handled' = Handled
  BY Zenon DEF Handled
<1> QED BY <1>1, Zenon DEF StreamInv

\* The pieces of the stream.
LEMMA StreamPieces ==
  \A a, b, c \in Seq(RingUnits) :
    /\ (a \o b) \o c \in Seq(RingUnits) /\ Len((a \o b) \o c) = Len(a) + Len(b) + Len(c)
    /\ \A i \in 1 .. Len(a) + Len(b) : ((a \o b) \o c)[i] = (a \o b)[i]
    /\ \A i \in 1 .. Len(c) : ((a \o b) \o c)[Len(a) + Len(b) + i] = c[i]
<1> SUFFICES ASSUME NEW a \in Seq(RingUnits), NEW b \in Seq(RingUnits), NEW c \in Seq(RingUnits)
             PROVE  /\ (a \o b) \o c \in Seq(RingUnits) /\ Len((a \o b) \o c) = Len(a) + Len(b) + Len(c)
                    /\ \A i \in 1 .. Len(a) + Len(b) : ((a \o b) \o c)[i] = (a \o b)[i]
                    /\ \A i \in 1 .. Len(c) : ((a \o b) \o c)[Len(a) + Len(b) + i] = c[i]
  BY Zenon
<1>1. a \o b \in Seq(RingUnits) /\ Len(a \o b) = Len(a) + Len(b)
  OBVIOUS
<1> QED BY <1>1

\* The first unit is gone, of a part or of the whole.
LEMMA TailJoin == \A s, c \in Seq(RingUnits) : s # <<>> => Tail(s) \o c = Tail(s \o c)
OBVIOUS

\* recv_fn takes the first unit, and counts it, or goes no further.
LEMMA StreamTail ==
  ASSUME StreamInv, read_buf_ # <<>>, read_buf_' = Tail(read_buf_), Pending' = Pending,
         UNCHANGED <<sock, policy, sent, peer>>, Responses' \in Int, 2 * Responses' <= sent,
         Receiving, Responses \in Int, Receiving' => Handled' = Handled + 1
  PROVE  /\ StreamInv' /\ Len(Stream) > 0 /\ Len(Stream) \in Nat
         /\ \A i \in 1 .. Len(Stream') : i + 1 \in 1 .. Len(Stream) /\ Stream'[i] = Stream[i + 1]
<1>1. /\ read_buf_ \in Seq(RingUnits) /\ Pending \in Seq(RingUnits) /\ sock \in Seq(RingUnits) /\ sent \in Nat
      /\ Handled \in Int
  BY DEF StreamInv, Handled
<1>2. /\ Stream \in Seq(RingUnits) /\ Stream' = Tail(Stream) /\ read_buf_' \in Seq(RingUnits)
  <2>1. (read_buf_ \o Pending) \o sock \in Seq(RingUnits)
    BY <1>1, StreamPieces, Zenon
  <2>2. /\ read_buf_ \o Pending \in Seq(RingUnits) /\ read_buf_' \in Seq(RingUnits)
        /\ Len(read_buf_) > 0 /\ Len(read_buf_') = Len(read_buf_) - 1
    BY <1>1
  <2>3. read_buf_' \o Pending = Tail(read_buf_ \o Pending) /\ read_buf_ \o Pending # <<>>
    BY <1>1, <2>2
  <2>4. Tail(read_buf_ \o Pending) \o sock = Tail((read_buf_ \o Pending) \o sock)
    BY <1>1, <2>2, <2>3, TailJoin, Zenon
  <2> QED BY <2>1, <2>2, <2>3, <2>4, Zenon DEF Stream
<1>3. Len(Stream) > 0
  <2>1. Len(Stream) = Len(read_buf_) + Len(Pending) + Len(sock)
    BY <1>1, StreamPieces, Zenon DEF Stream
  <2> QED BY <1>1, <2>1
<1>4. /\ Len(Stream') = Len(Stream) - 1
      /\ \A i \in 1 .. Len(Stream') : i + 1 \in 1 .. Len(Stream) /\ Stream'[i] = Stream[i + 1]
  <2> HIDE DEF Stream
  <2> QED BY <1>2, <1>3
<1>5. \A i \in 1 .. Len(Stream') : Stream'[i].n \in 1 .. sent
  BY <1>4, Zenon DEF StreamInv
<1>6. ASSUME Receiving'
      PROVE  /\ \A i \in 1 .. Len(Stream') : Stream'[i].n = Handled' + i
             /\ Handled' + Len(Stream') = Handled + Len(Stream)
  <2>1. \A i \in 1 .. Len(Stream') : Stream'[i].n = Handled + (i + 1)
    BY <1>4, Zenon DEF StreamInv
  <2>2. Len(Stream) \in Nat
    BY <1>2
  <2> HIDE DEF Stream
  <2> QED BY <1>1, <1>4, <1>6, <2>1, <2>2
<1>7. Len(Stream) \in Nat
  BY <1>2
<1> QED BY <1>1, <1>2, <1>3, <1>4, <1>5, <1>6, <1>7, Zenon DEF StreamInv

\* The first unit of the stream is the first of the buffer.
LEMMA StreamHead ==
  ASSUME StreamInv, read_buf_ # <<>>
  PROVE  /\ Head(read_buf_) \in RingUnits /\ Stream[1] = Head(read_buf_)
         /\ 1 \in 1 .. Len(Stream) /\ Len(Stream) \in Nat
<1>1. read_buf_ \in Seq(RingUnits) /\ Pending \in Seq(RingUnits) /\ sock \in Seq(RingUnits)
  BY Zenon DEF StreamInv
<1>2. /\ Len(Stream) = Len(read_buf_) + Len(Pending) + Len(sock)
      /\ \A i \in 1 .. Len(read_buf_) + Len(Pending) : Stream[i] = (read_buf_ \o Pending)[i]
  BY <1>1, StreamPieces, Zenon DEF Stream
<1>3. /\ Len(read_buf_) > 0 /\ Len(read_buf_) \in Nat /\ Len(Pending) \in Nat /\ Len(sock) \in Nat
      /\ Head(read_buf_) \in RingUnits /\ (read_buf_ \o Pending)[1] = Head(read_buf_)
  BY <1>1
<1>4. 1 \in 1 .. Len(read_buf_) + Len(Pending) /\ 1 \in 1 .. Len(Stream) /\ Len(Stream) \in Nat
  BY <1>2, <1>3
<1> QED BY <1>2, <1>3, <1>4, Zenon

\* A unit comes, at the end of a part or of the whole.
LEMMA AppendJoin ==
  \A s, c \in Seq(RingUnits) : \A u \in RingUnits : s \o Append(c, u) = Append(s \o c, u)
OBVIOUS

\* The peer sends one unit more.
LEMMA StreamGrows ==
  ASSUME StreamInv, NEW good \in BOOLEAN, sent < 2 * MaxRequests[policy], MaxRequests[policy] \in Nat,
         sock' = Append(sock, [n |-> sent + 1, good |-> good]), sent' = sent + 1,
         Pending' = Pending, UNCHANGED <<read_buf_, wire, write_buf_, policy, recv_fn, peer>>,
         Responses' = Responses, Responses \in Int, peer # "reset"
  PROVE  /\ StreamInv' /\ Len(Stream') = Len(Stream) + 1 /\ Stream'[Len(Stream')].good = good
         /\ \A i \in 1 .. Len(Stream') : i = Len(Stream') \/ (i \in 1 .. Len(Stream) /\ Stream'[i] = Stream[i])
<1> DEFINE u == [n |-> sent + 1, good |-> good]
<1>1. /\ read_buf_ \in Seq(RingUnits) /\ Pending \in Seq(RingUnits) /\ sock \in Seq(RingUnits) /\ sent \in Nat
      /\ Handled \in Int /\ Handled' = Handled /\ (Receiving' <=> Receiving)
  BY DEF StreamInv, Handled, Receiving, InBody
<1>2. u \in RingUnits /\ u.n = sent + 1 /\ u.good = good /\ sock' = Append(sock, u)
  BY <1>1 DEF RingUnits
<1> HIDE DEF u
<1>3. Stream \in Seq(RingUnits) /\ sock' \in Seq(RingUnits) /\ Stream' = Append(Stream, u)
  <2>1. (read_buf_ \o Pending) \o sock \in Seq(RingUnits) /\ read_buf_ \o Pending \in Seq(RingUnits)
    BY <1>1
  <2>2. (read_buf_ \o Pending) \o Append(sock, u) = Append((read_buf_ \o Pending) \o sock, u)
    BY <1>1, <1>2, <2>1, AppendJoin, Zenon
  <2>3. sock' \in Seq(RingUnits)
    BY <1>1, <1>2
  <2> QED BY <1>2, <2>1, <2>2, <2>3, Zenon DEF Stream
<1>4. /\ Len(Stream) \in Nat /\ Len(Stream') = Len(Stream) + 1 /\ Stream'[Len(Stream')] = u
      /\ \A i \in 1 .. Len(Stream') : i = Len(Stream') \/ (i \in 1 .. Len(Stream) /\ Stream'[i] = Stream[i])
  <2> HIDE DEF Stream
  <2> QED BY <1>2, <1>3
<1>5. sent' \in Nat /\ sent' <= 2 * MaxRequests[policy] /\ sent + 1 \in 1 .. sent' /\ 2 * Responses <= sent'
      /\ \A k \in 1 .. sent : k \in 1 .. sent'
  <2>1. 2 * Responses <= sent
    BY Zenon DEF StreamInv
  <2> QED BY <1>1, <2>1
<1>6. \A i \in 1 .. Len(Stream') : Stream'[i].n \in 1 .. sent'
  <2>1. \A i \in 1 .. Len(Stream) : Stream[i].n \in 1 .. sent
    BY Zenon DEF StreamInv
  <2> QED BY <1>2, <1>4, <1>5, <2>1, Zenon
<1>7. ASSUME Receiving
      PROVE  /\ \A i \in 1 .. Len(Stream') : Stream'[i].n = Handled + i
             /\ Handled + Len(Stream') = sent'
  <2>1. /\ \A i \in 1 .. Len(Stream) : Stream[i].n = Handled + i
        /\ Handled + Len(Stream) = sent
    BY <1>7, Zenon DEF StreamInv
  <2>2. Handled + Len(Stream') = sent + 1
    <3>1. Handled \in Int /\ Len(Stream) \in Nat /\ Len(Stream') = Len(Stream) + 1 /\ Handled + Len(Stream) = sent
      BY <1>1, <1>4, <2>1, Zenon
    <3> QED BY <3>1
  <2> QED BY <1>2, <1>4, <2>1, <2>2, Zenon
<1>8. Receiving => Handled + Len(Stream') <= sent'
  BY <1>5, <1>7
<1> QED BY <1>1, <1>2, <1>3, <1>4, <1>5, <1>6, <1>7, <1>8, Zenon DEF StreamInv

\* A reset takes away what is in the socket.
LEMMA StreamCut ==
  ASSUME StreamInv, sock' = <<>>, peer' = "reset", Pending' = Pending, Responses' = Responses,
         Responses \in Int, UNCHANGED <<read_buf_, policy, sent, recv_fn>>
  PROVE  StreamInv'
<1>1. /\ read_buf_ \in Seq(RingUnits) /\ Pending \in Seq(RingUnits) /\ sock \in Seq(RingUnits) /\ sent \in Nat
      /\ Handled \in Int /\ Handled' = Handled /\ (Receiving' <=> Receiving)
  BY DEF StreamInv, Handled, Receiving, InBody
<1>2. Stream' = read_buf_ \o Pending /\ sock' \in Seq(RingUnits)
  <2>1. (read_buf_ \o Pending) \o <<>> = read_buf_ \o Pending
    BY <1>1
  <2>2. <<>> \in Seq(RingUnits)
    OBVIOUS
  <2> QED BY <2>1, <2>2, Zenon DEF Stream
<1>3. /\ Len(Stream') \in Nat /\ Len(Stream) \in Nat /\ Len(Stream') <= Len(Stream)
      /\ \A i \in 1 .. Len(Stream') : i \in 1 .. Len(Stream) /\ Stream'[i] = Stream[i]
  <2>1. /\ Len(Stream) = Len(read_buf_) + Len(Pending) + Len(sock)
        /\ \A i \in 1 .. Len(read_buf_) + Len(Pending) : Stream[i] = (read_buf_ \o Pending)[i]
    BY <1>1, StreamPieces, Zenon DEF Stream
  <2>2. Len(read_buf_ \o Pending) = Len(read_buf_) + Len(Pending)
    BY <1>1
  <2>3. Len(sock) \in Nat /\ Len(read_buf_) + Len(Pending) \in Nat
    BY <1>1
  <2>4. \A i \in 1 .. Len(read_buf_) + Len(Pending) : i \in 1 .. Len(Stream)
    BY <2>1, <2>3
  <2>5. Len(Stream) \in Nat /\ Len(read_buf_) + Len(Pending) <= Len(Stream)
    BY <2>1, <2>3
  <2> QED BY <1>2, <2>1, <2>2, <2>3, <2>4, <2>5, Zenon
<1>4. \A i \in 1 .. Len(Stream') : /\ Stream'[i].n \in 1 .. sent
                                   /\ Receiving => Stream'[i].n = Handled + i
  BY <1>3, Zenon DEF StreamInv
<1>5. Receiving => Handled + Len(Stream') <= sent
  <2>1. Receiving => Handled + Len(Stream) <= sent
    BY Zenon DEF StreamInv
  <2> QED BY <1>1, <1>3, <2>1
<1> QED BY <1>1, <1>2, <1>4, <1>5, Zenon DEF StreamInv

\* Nothing is answered and nothing is written.
LEMMA OrderKept ==
  ASSUME OrderInv, UNCHANGED <<wire, write_buf_>>, Written' = Written
  PROVE  OrderInv' /\ Responses' = Responses
BY Zenon DEF OrderInv, Responses

\* What is on the wire is a part of the responses.
LEMMA OrderCounts ==
  ASSUME OrderInv
  PROVE  /\ Responses \in Nat /\ Len(wire) \in Nat /\ Len(wire) <= Responses /\ Written \in Nat
         /\ Len(write_buf_) \in Nat /\ Written <= Len(write_buf_)
         /\ Responses = Len(wire) - Written + Len(write_buf_)
<1>1. wire \in Seq(Nat) /\ write_buf_ \in Seq(Nat) /\ Written \in 0 .. Len(write_buf_)
  BY Zenon DEF OrderInv
<1>2. Len(wire) \in Nat /\ Len(write_buf_) \in Nat
  BY <1>1
<1> QED BY <1>1, <1>2 DEF Responses

\* The next response is put into the buffer.
LEMMA OrderAppends ==
  ASSUME OrderInv, UNCHANGED wire, Written' = Written, write_buf_' = Append(write_buf_, Responses + 1)
  PROVE  OrderInv' /\ Responses' = Responses + 1
<1>1. /\ wire \in Seq(Nat) /\ write_buf_ \in Seq(Nat)
      /\ \A i \in 1 .. Len(wire) : wire[i] = i
      /\ \A i \in 1 .. Len(write_buf_) : write_buf_[i] = Len(wire) - Written + i
  BY Zenon DEF OrderInv
<1>2. /\ Responses \in Nat /\ Len(wire) \in Nat /\ Written \in Nat
      /\ Len(write_buf_) \in Nat /\ Written <= Len(write_buf_)
      /\ Responses = Len(wire) - Written + Len(write_buf_)
  BY OrderCounts, Zenon
<1>3. /\ write_buf_' \in Seq(Nat) /\ Len(write_buf_') = Len(write_buf_) + 1
      /\ \A i \in 1 .. Len(write_buf_) : write_buf_'[i] = write_buf_[i]
      /\ write_buf_'[Len(write_buf_) + 1] = Responses + 1
  BY <1>1, <1>2
<1>4. /\ Written \in 0 .. Len(write_buf_')
      /\ \A i \in 1 .. Len(write_buf_') : i \in 1 .. Len(write_buf_) \/ i = Len(write_buf_) + 1
      /\ Responses + 1 = Len(wire) - Written + (Len(write_buf_) + 1)
  BY <1>2, <1>3
<1>5. \A i \in 1 .. Len(write_buf_') : write_buf_'[i] = Len(wire) - Written + i
  BY <1>1, <1>3, <1>4, Zenon
<1>6. Responses' = Responses + 1
  BY <1>3, <1>4, Zenon DEF Responses
<1> QED BY <1>1, <1>3, <1>4, <1>5, <1>6, Zenon DEF OrderInv

\* The kernel writes the first n, and its completion is to come.
LEMMA OrderWrites ==
  ASSUME OrderInv, Written = 0, NEW n \in 0 .. Len(write_buf_), Written' = n,
         wire' = wire \o SubSeq(write_buf_, 1, n), UNCHANGED write_buf_
  PROVE  OrderInv' /\ Responses' = Responses /\ Len(wire') = Len(wire) + n
<1>1. /\ wire \in Seq(Nat) /\ write_buf_ \in Seq(Nat) /\ Len(wire) \in Nat /\ Len(write_buf_) \in Nat
      /\ \A i \in 1 .. Len(wire) : wire[i] = i
      /\ \A i \in 1 .. Len(write_buf_) : write_buf_[i] = Len(wire) - Written + i
  BY OrderCounts, Zenon DEF OrderInv
<1>2. \A i \in 1 .. Len(write_buf_) : write_buf_[i] = Len(wire) + i
  BY <1>1
<1> DEFINE s == SubSeq(write_buf_, 1, n)
<1>3. s \in Seq(Nat) /\ Len(s) = n /\ \A i \in 1 .. n : s[i] = write_buf_[i] /\ i \in 1 .. Len(write_buf_)
  BY <1>1
<1>4. \A i \in 1 .. n : s[i] = Len(wire) + i
  BY <1>2, <1>3, Zenon
<1> HIDE DEF s
<1>5. /\ wire' \in Seq(Nat) /\ Len(wire') = Len(wire) + n /\ \A i \in 1 .. Len(wire') : wire'[i] = i
  BY <1>1, <1>3, <1>4 DEF s
<1>6. Len(wire') - n = Len(wire) - Written
  <2>1. Len(wire) \in Nat /\ Len(wire') = Len(wire) + n
    BY <1>1, <1>5, Zenon
  <2> QED BY <2>1
<1>7. Responses' = Responses
  BY <1>6, Zenon DEF Responses
<1> QED BY <1>1, <1>5, <1>6, <1>7, Zenon DEF OrderInv

\* The completion is seen, and what was written is taken out of the buffer.
LEMMA OrderSeen ==
  ASSUME OrderInv, UNCHANGED wire, Written' = 0,
         write_buf_' = SubSeq(write_buf_, Written + 1, Len(write_buf_))
  PROVE  OrderInv' /\ Responses' = Responses /\ Len(write_buf_') = Len(write_buf_) - Written
<1>1. /\ wire \in Seq(Nat) /\ write_buf_ \in Seq(Nat) /\ Len(wire) \in Nat /\ Len(write_buf_) \in Nat
      /\ Written \in 0 .. Len(write_buf_)
      /\ \A i \in 1 .. Len(wire) : wire[i] = i
      /\ \A i \in 1 .. Len(write_buf_) : write_buf_[i] = Len(wire) - Written + i
  BY OrderCounts, Zenon DEF OrderInv
<1>2. /\ write_buf_' \in Seq(Nat) /\ Len(write_buf_') = Len(write_buf_) - Written
      /\ \A i \in 1 .. Len(write_buf_') : /\ write_buf_'[i] = write_buf_[Written + i]
                                          /\ Written + i \in 1 .. Len(write_buf_)
  BY <1>1
<1>3. \A i \in 1 .. Len(write_buf_') : write_buf_'[i] = Len(wire) - Written + (Written + i)
  BY <1>1, <1>2, Zenon
<1>4. /\ \A i \in 1 .. Len(write_buf_') : Len(wire) - Written + (Written + i) = Len(wire) - 0 + i
      /\ Len(wire) - 0 + Len(write_buf_') = Len(wire) - Written + Len(write_buf_)
      /\ 0 \in 0 .. Len(write_buf_')
  <2>1. /\ Len(wire) \in Nat /\ Len(write_buf_) \in Nat /\ Written \in 0 .. Len(write_buf_)
        /\ Len(write_buf_') = Len(write_buf_) - Written
    BY <1>1, <1>2, Zenon
  <2> QED BY <2>1
<1>5. Responses' = Responses
  BY <1>4, Zenon DEF Responses
<1> QED BY <1>1, <1>2, <1>3, <1>4, <1>5, Zenon DEF OrderInv

\* The poll's write moves messages from the buffer to the wire.
LEMMA OrderMoves ==
  ASSUME wire \in Seq(Nat), NEW buf \in Seq(Nat), wire' \in Seq(Nat), write_buf_' \in Seq(Nat),
         \A i \in 1 .. Len(wire) : wire[i] = i, \A i \in 1 .. Len(buf) : buf[i] = Len(wire) + i,
         wire' \o write_buf_' = wire \o buf, Written' = 0
  PROVE  OrderInv' /\ Responses' = Len(wire) + Len(buf)
<1>1. \A i \in 1 .. Len(wire \o buf) : (wire \o buf)[i] = i
  OBVIOUS
<1>2. \A i \in 1 .. Len(wire' \o write_buf_') : (wire' \o write_buf_')[i] = i
  BY <1>1, Zenon
<1>3. Len(wire') \in Nat /\ Len(write_buf_') \in Nat /\ Len(wire' \o write_buf_') = Len(wire') + Len(write_buf_')
  OBVIOUS
<1>4. /\ \A i \in 1 .. Len(wire') : (wire' \o write_buf_')[i] = wire'[i] /\ i \in 1 .. Len(wire' \o write_buf_')
      /\ \A i \in 1 .. Len(write_buf_') : /\ (wire' \o write_buf_')[Len(wire') + i] = write_buf_'[i]
                                          /\ Len(wire') + i \in 1 .. Len(wire' \o write_buf_')
  <2>1. \A r, b \in Seq(Nat) :
          /\ \A i \in 1 .. Len(r) : (r \o b)[i] = r[i] /\ i \in 1 .. Len(r \o b)
          /\ \A i \in 1 .. Len(b) : (r \o b)[Len(r) + i] = b[i] /\ Len(r) + i \in 1 .. Len(r \o b)
    OBVIOUS
  <2> QED BY <2>1, Zenon
<1>5. /\ \A i \in 1 .. Len(wire') : wire'[i] = i
      /\ \A i \in 1 .. Len(write_buf_') : write_buf_'[i] = Len(wire') + i
  BY <1>2, <1>4, Zenon
<1>6. \A i \in 1 .. Len(write_buf_') : write_buf_'[i] = Len(wire') - 0 + i
  BY <1>3, <1>5
<1>7. Len(wire' \o write_buf_') = Len(wire) + Len(buf)
  OBVIOUS
<1>8. Responses' = Len(wire) + Len(buf) /\ 0 \in 0 .. Len(write_buf_')
  BY <1>3, <1>7 DEF Responses
<1> QED BY <1>5, <1>6, <1>8, Zenon DEF OrderInv

\* What a read takes from the socket comes behind what was read before.
LEMMA MoveUnits ==
  \A r, s \in Seq(RingUnits) : \A n \in 0 .. Len(s) :
    /\ r \o SubSeq(s, 1, n) \in Seq(RingUnits) /\ Len(r \o SubSeq(s, 1, n)) = Len(r) + n
    /\ SubSeq(s, n + 1, Len(s)) \in Seq(RingUnits)
    /\ (r \o SubSeq(s, 1, n)) \o SubSeq(s, n + 1, Len(s)) = r \o s
BY MoveSeq, Zenon

\* The body that recv_fn takes out of the buffer is that of the next request to be answered.
LEMMA NextRequest ==
  ASSUME OrderInv, StreamInv, recv_fn = "body", read_buf_ # <<>>
  PROVE  RequestOf(Head(read_buf_)) = Responses + 1 /\ 2 * (Responses + 1) <= sent
<1>2. Responses \in Nat
  BY OrderCounts, Zenon
<1>3. Receiving /\ Handled = 2 * Responses + 1
  BY Zenon DEF Receiving, Handled, InBody
<1>4. /\ Head(read_buf_) \in RingUnits /\ 1 \in 1 .. Len(Stream) /\ Len(Stream) \in Nat
      /\ Head(read_buf_).n = Handled + 1 /\ Handled + Len(Stream) <= sent /\ sent \in Nat
  <2>1. Head(read_buf_) \in RingUnits /\ Stream[1] = Head(read_buf_) /\ 1 \in 1 .. Len(Stream) /\ Len(Stream) \in Nat
    BY StreamHead, Zenon
  <2>2. Head(read_buf_).n = Handled + 1 /\ Handled + Len(Stream) <= sent /\ sent \in Nat
    BY <1>3, <2>1, Zenon DEF StreamInv
  <2> QED BY <2>1, <2>2, Zenon
<1>5. RequestOf(Head(read_buf_)) = Responses + 1 /\ 2 * (Responses + 1) <= sent
  <2>1. \A r \in Nat : (2 * r + 1) \div 2 = r
    OBVIOUS
  <2>2. \A r, h, n \in Nat : \A l \in Nat : h = 2 * r + 1 /\ l >= 1 /\ h + l <= n => 2 * (r + 1) <= n
    OBVIOUS
  <2>3. \A r \in Nat : (2 * r + 1) + 1 + 1 = 2 * (r + 1) + 1 /\ r + 1 \in Nat /\ 2 * r + 1 \in Nat
    OBVIOUS
  <2>4. Len(Stream) >= 1
    BY <1>4
  <2>5. RequestOf(Head(read_buf_)) = Responses + 1
    BY <1>2, <1>3, <1>4, <2>1, <2>3, Zenon DEF RequestOf
  <2>6. 2 * (Responses + 1) <= sent
    BY <1>2, <1>3, <1>4, <2>2, <2>3, <2>4, Zenon
  <2> QED BY <2>5, <2>6, Zenon
<1> QED BY <1>5, Zenon

-----------------------------------------------------------------------------
(* The poll policies *)

PollServerInv == PollInv /\ flight = {} /\ cq = <<>> /\ OrderInv /\ StreamInv

\* There are no completions.
LEMMA NoCqes == ASSUME cq = <<>> PROVE Cqes("read") = {} /\ Cqes("write") = {}
<1>1. \A e : e \notin Range(<<>>)
  BY DEF Range
<1> QED BY <1>1, Zenon DEF Cqes

\* No completions, hence nothing in them.
LEMMA PollData ==
  ASSUME PollServerInv, UNCHANGED cq
  PROVE  /\ Pending = <<>> /\ Written = 0 /\ Pending' = <<>> /\ Written' = 0
         /\ <<>> \in Seq(RingUnits) /\ Responses = Len(wire) + Len(write_buf_) /\ Responses \in Nat
         /\ \A i \in 1 .. Len(wire) : wire[i] = i
         /\ \A i \in 1 .. Len(write_buf_) : write_buf_[i] = Len(wire) + i
         /\ wire \in Seq(Nat) /\ write_buf_ \in Seq(Nat)
<1>1. Pending = <<>> /\ Written = 0 /\ Pending' = <<>> /\ Written' = 0
  <2>1. Cqes("read") = {} /\ Cqes("write") = {}
    BY NoCqes, Zenon DEF PollServerInv
  <2>2. Cqes("read")' = Cqes("read") /\ Cqes("write")' = Cqes("write")
    BY Zenon DEF Cqes
  <2> QED BY <2>1, <2>2, CqeData, Zenon DEF Pending, Written
<1>2. /\ wire \in Seq(Nat) /\ write_buf_ \in Seq(Nat) /\ Len(wire) \in Nat /\ Responses \in Nat
      /\ \A i \in 1 .. Len(wire) : wire[i] = i
      /\ \A i \in 1 .. Len(write_buf_) : write_buf_[i] = Len(wire) - Written + i
  BY OrderCounts, Zenon DEF PollServerInv, OrderInv
<1>3. Len(wire) - Written = Len(wire)
  BY <1>1, <1>2
<1>4. \A i \in 1 .. Len(write_buf_) : write_buf_[i] = Len(wire) + i
  BY <1>2, <1>3, Zenon
<1>5. Responses = Len(wire) + Len(write_buf_)
  BY <1>3, Zenon DEF Responses
<1>6. <<>> \in Seq(RingUnits)
  OBVIOUS
<1> QED BY <1>1, <1>2, <1>4, <1>5, <1>6, Zenon

\* A step that may move responses to the wire, and units to the buffer.
LEMMA PollMoves ==
  ASSUME PollServerInv, PollInv', UNCHANGED <<flight, cq, policy, sent>>,
         wire' \o write_buf_' = wire \o write_buf_,
         read_buf_' \in Seq(RingUnits), sock' \in Seq(RingUnits), read_buf_' \o sock' = read_buf_ \o sock,
         peer' # "reset" => peer # "reset",
         Receiving' => Receiving /\ (InBody' <=> InBody)
  PROVE  PollServerInv'
<1>1. StreamInv /\ cq' = <<>> /\ flight' = {} /\ wire' \in Seq(Nat) /\ write_buf_' \in Seq(Nat)
  BY Zenon DEF PollServerInv, PollInv
<1>2. /\ Pending = <<>> /\ Pending' = <<>> /\ Written' = 0 /\ <<>> \in Seq(RingUnits)
      /\ Responses = Len(wire) + Len(write_buf_)
      /\ \A i \in 1 .. Len(wire) : wire[i] = i
      /\ \A i \in 1 .. Len(write_buf_) : write_buf_[i] = Len(wire) + i
      /\ wire \in Seq(Nat) /\ write_buf_ \in Seq(Nat)
  BY PollData, Zenon
<1>3. OrderInv' /\ Responses' = Responses
  BY <1>1, <1>2, OrderMoves, Zenon
<1>4. Stream' = Stream
  <2>1. read_buf_ \in Seq(RingUnits)
    BY <1>1, Zenon DEF StreamInv
  <2>2. \A s \in Seq(RingUnits) : s \o <<>> = s
    OBVIOUS
  <2> QED BY <1>2, <2>1, <2>2, Zenon DEF Stream
<1>5. StreamInv'
  BY <1>1, <1>2, <1>3, <1>4, StreamKept, Zenon
<1> QED BY <1>1, <1>3, <1>5, Zenon DEF PollServerInv

\* A step that moves nothing.
LEMMA PollStays ==
  ASSUME PollServerInv, PollInv', UNCHANGED <<flight, cq, policy, sent>>,
         UNCHANGED <<wire, write_buf_, read_buf_, sock>>,
         peer' # "reset" => peer # "reset",
         Receiving' => Receiving /\ (InBody' <=> InBody)
  PROVE  PollServerInv'
<1>1. read_buf_ \in Seq(RingUnits) /\ sock \in Seq(RingUnits)
  BY Zenon DEF PollServerInv, StreamInv
<1> QED BY <1>1, PollMoves, Zenon

\* start() accepts the connection and spawns its coroutines.
LEMMA PollStartStep ==
  ASSUME PollServerInv, Accept \/ PollSpawn, UNCHANGED <<poll_vars, sent>>
  PROVE  PollServerInv'
<1>1. UNCHANGED <<conn_vars, flight, cq>>
  BY Zenon DEF Accept, PollSpawn, ring_vars
<1>2. PollInv'
  BY <1>1, PollKept, Zenon DEF PollServerInv
<1>3. UNCHANGED <<policy, wire, write_buf_, read_buf_, sock, peer, recv_fn>>
  BY <1>1, Zenon DEF conn_vars, peer_vars, env, bufs
<1> QED BY <1>1, <1>2, <1>3, PollStays, Zenon DEF Receiving, InBody

\* The executor runs the tasks, polls, and handles events.
LEMMA PollExecutorStep ==
  ASSUME PollServerInv, PollStep, UNCHANGED <<uring_vars, sent>>
  PROVE  PollServerInv'
<1>1. PollInv /\ read_buf_ \in Seq(RingUnits) /\ sock \in Seq(RingUnits) /\ UNCHANGED <<flight, cq>>
  BY Zenon DEF PollServerInv, StreamInv, uring_vars, ring_vars
<1>2. CASE StartSend
  <2>1. UNCHANGED <<policy, wire, write_buf_, read_buf_, sock, peer, recv_fn>>
    BY <1>2, Zenon DEF StartSend, peer_vars, env, bufs
  <2> QED BY <1>1, <1>2, <2>1, StartSendKeeps, PollStays, Zenon DEF Receiving, InBody
<1>3. CASE StartRecv
  <2>1. UNCHANGED <<policy, wire, write_buf_, read_buf_, sock, peer>> /\ recv_fn = "new" /\ recv_fn' = "head"
    BY <1>3, Zenon DEF StartRecv, peer_vars, env, bufs
  <2>2. Receiving /\ (InBody' <=> InBody)
    BY <2>1, Zenon DEF Receiving, InBody
  <2> QED BY <1>1, <1>3, <2>1, <2>2, StartRecvKeeps, PollStays, Zenon
<1>4. CASE ConnStep
  <2>1. PollInv' /\ wire' \o write_buf_' = wire \o write_buf_
    BY <1>1, <1>4, ConnStepKeeps, Zenon
  <2>2. /\ UNCHANGED <<policy, peer, sock, read_buf_>>
        /\ recv_fn' \in {recv_fn, "done"} \/ (Suspended /\ recv_fn' = ResumeIn[recv_fn])
    <3>1. CASE FinishRecv
      BY <3>1, Zenon DEF FinishRecv, peer_vars, env
    <3>2. CASE PollWait
      BY <3>2, Zenon DEF PollWait, peer_vars, env, bufs
    <3>3. ASSUME NEW rest, HandleHangUp(rest)
          PROVE  UNCHANGED <<policy, peer, sock, read_buf_, recv_fn>>
      BY <3>3, Zenon DEF HandleHangUp, peer_vars, env
    <3>4. ASSUME NEW ready, HandleWrite(ready)
          PROVE  UNCHANGED <<policy, peer, sock, read_buf_, recv_fn>>
      BY <3>4, Zenon DEF HandleWrite, env
    <3>5. CASE HandleRead
      BY <3>5, Zenon DEF HandleRead, peer_vars, env, bufs
    <3>6. CASE EpollLoop
      BY <3>3, <3>4, <3>5, <3>6, Zenon DEF EpollLoop, EpollHangUp, EpollWrite, EpollRead
    <3>7. CASE KqueueLoop
      BY <3>3, <3>4, <3>5, <3>7, Zenon DEF KqueueLoop, KqueueEof, KqueueWrite, KqueueRead
    <3> QED BY <1>4, <3>1, <3>2, <3>6, <3>7, Zenon DEF ConnStep
  <2>3. Receiving' => Receiving /\ (InBody' <=> InBody)
    BY <2>2 DEF Receiving, InBody, Suspended, ResumeIn
  <2> QED BY <1>1, <2>1, <2>2, <2>3, PollMoves, Zenon
<1> QED BY <1>2, <1>3, <1>4, Zenon DEF PollStep

\* recv_fn reads what is in the socket, or sees its end.
LEMMA PollReceiveStep ==
  ASSUME PollServerInv, AsyncRead, UNCHANGED <<uring_vars, sent>>
  PROVE  PollServerInv'
<1>1. PollInv /\ read_buf_ \in Seq(RingUnits) /\ sock \in Seq(RingUnits) /\ UNCHANGED <<flight, cq>>
  BY Zenon DEF PollServerInv, StreamInv, uring_vars, ring_vars
<1>2. PollInv' /\ wire' \o write_buf_' = wire \o write_buf_
  BY <1>1, AsyncReadKeeps, Zenon
<1>3. recv_fn \in {"head", "body"} /\ UNCHANGED <<policy, peer>>
  BY Zenon DEF AsyncRead, env
<1>4. PICK n \in 0 .. Len(sock) :
        /\ read_buf_' = read_buf_ \o SubSeq(sock, 1, n) /\ sock' = SubSeq(sock, n + 1, Len(sock))
        /\ recv_fn' \in {recv_fn, WaitIn[recv_fn]}
  <2>1. /\ Len(sock) \in 0 .. Len(sock) /\ \A n \in 1 .. Len(sock) : n \in 0 .. Len(sock)
        /\ 0 \in 0 .. Len(sock)
    BY <1>1
  <2> QED BY <2>1, Zenon DEF AsyncRead, ReadSome, ReadClosed
<1>5. /\ read_buf_' \in Seq(RingUnits) /\ sock' \in Seq(RingUnits) /\ read_buf_' \o sock' = read_buf_ \o sock
      /\ recv_fn' \in {recv_fn, WaitIn[recv_fn]}
  BY <1>1, <1>4, MoveUnits, Zenon
<1>6. Receiving' => Receiving /\ (InBody' <=> InBody)
  BY <1>3, <1>5 DEF Receiving, InBody, WaitIn
<1> QED BY <1>1, <1>2, <1>3, <1>5, <1>6, PollMoves, Zenon

\* recv_fn goes on to the body, or gives up.
LEMMA PollHandleStep ==
  ASSUME PollServerInv, ~crashed, read_buf_ # <<>>, read_buf_' = Tail(read_buf_),
         recv_fn \in {"head", "body"}, recv_fn' = "close" \/ (recv_fn = "head" /\ recv_fn' = "body"),
         UNCHANGED <<policy, manners, peer, sock, unread, closed_, write_buf_, wire, send_fn, crashed>>,
         UNCHANGED <<poll_vars, uring_vars, sent>>
  PROVE  PollServerInv'
<1>1. PollInv /\ OrderInv /\ StreamInv /\ UNCHANGED <<flight, cq>> /\ cq = <<>> /\ flight = {}
  BY Zenon DEF PollServerInv, uring_vars, ring_vars
<1>2. PollInv'
  <2>1. crashed = FALSE /\ edge' \subseteq Filters /\ UNCHANGED <<interest, events>>
    BY <1>1, Zenon DEF PollInv, PollTypeOK, ConnTypeOK, poll_vars
  <2>2. recv_fn # "new" /\ recv_fn' # "new" /\ recv_fn' # "done"
    BY Zenon
  <2> QED BY <1>1, <2>1, <2>2, QuietKeeps, Zenon
<1>3. Pending = <<>> /\ Written = 0 /\ Pending' = <<>> /\ Written' = 0
  BY <1>1, PollData, Zenon
<1>4. OrderInv' /\ Responses' = Responses /\ Responses \in Nat
  BY <1>1, <1>3, OrderKept, OrderCounts, Zenon
<1>5. Receiving /\ (Receiving' => Handled' = Handled + 1)
  BY <1>4 DEF Receiving, Handled, InBody
<1>6. StreamInv'
  <2>1. Responses \in Int /\ Responses' \in Int
    BY <1>4
  <2>2. 2 * Responses' <= sent
    BY <1>1, <1>4, Zenon DEF StreamInv
  <2> QED BY <1>1, <1>3, <1>5, <2>1, <2>2, StreamTail, Zenon
<1> QED BY <1>1, <1>2, <1>4, <1>6, Zenon DEF PollServerInv

\* A response is put into the buffer, and send_fn is resumed.
LEMMA PollRespondStep ==
  ASSUME PollServerInv, ~crashed, read_buf_ # <<>>, read_buf_' = Tail(read_buf_),
         recv_fn = "body", recv_fn' = "head",
         NEW buf, buf = Append(write_buf_, RequestOf(Head(read_buf_))),
         ResumeWrite(buf, closed_), AddWriteEvent(interest, edge), UNCHANGED <<events, uring_vars>>,
         UNCHANGED <<policy, manners, peer, sock, closed_, sent>>
  PROVE  PollServerInv'
<1>1. PollInv /\ OrderInv /\ StreamInv /\ UNCHANGED <<flight, cq>> /\ cq = <<>> /\ flight = {}
  BY Zenon DEF PollServerInv, uring_vars, ring_vars
<1>2. RequestOf(Head(read_buf_)) = Responses + 1 /\ 2 * (Responses + 1) <= sent
  BY <1>1, NextRequest, Zenon
<1>3. /\ Pending = <<>> /\ Pending' = <<>> /\ Written' = 0
      /\ Responses = Len(wire) + Len(write_buf_) /\ Responses \in Nat
      /\ \A i \in 1 .. Len(wire) : wire[i] = i
      /\ \A i \in 1 .. Len(write_buf_) : write_buf_[i] = Len(wire) + i
      /\ wire \in Seq(Nat) /\ write_buf_ \in Seq(Nat)
  BY <1>1, PollData, Zenon
<1>4. /\ buf \in Seq(Nat) /\ Len(wire) + Len(buf) = Responses + 1
      /\ \A i \in 1 .. Len(buf) : buf[i] = Len(wire) + i
  <2>2. Responses + 1 \in Nat /\ Len(wire) \in Nat
    BY <1>3
  <2>3. /\ buf \in Seq(Nat) /\ Len(buf) = Len(write_buf_) + 1 /\ Len(write_buf_) \in Nat
        /\ buf[Len(write_buf_) + 1] = Responses + 1
        /\ \A i \in 1 .. Len(write_buf_) : buf[i] = write_buf_[i]
    <3>1. buf = Append(write_buf_, Responses + 1)
      BY <1>2, Zenon
    <3>2. write_buf_ \in Seq(Nat) /\ Responses + 1 \in Nat
      BY <1>3, <2>2, Zenon
    <3> QED BY <3>1, <3>2
  <2>4. Len(wire) + Len(buf) = Responses + 1 /\ Responses + 1 = Len(wire) + (Len(write_buf_) + 1)
    BY <1>3, <2>2, <2>3
  <2>5. \A i \in 1 .. Len(buf) : i \in 1 .. Len(write_buf_) \/ i = Len(write_buf_) + 1
    BY <2>3
  <2> QED BY <1>3, <2>3, <2>4, <2>5, Zenon
<1>5. PollInv' /\ wire' \o write_buf_' = wire \o buf
  <2>1. crashed = FALSE /\ edge \in SUBSET Filters /\ interest \in SUBSET interest /\ events' \subseteq events
    BY <1>1, Zenon DEF PollInv, PollTypeOK, ConnTypeOK
  <2>2. recv_fn # "new" /\ recv_fn' # "done"
    BY Zenon
  <2> QED BY <1>1, <1>4, <2>1, <2>2, ResumeWriteKeeps, Zenon
<1>6. OrderInv' /\ Responses' = Responses + 1
  <2>1. wire' \in Seq(Nat) /\ write_buf_' \in Seq(Nat)
    BY <1>5, Zenon DEF PollInv
  <2> QED BY <1>3, <1>4, <1>5, <2>1, OrderMoves, Zenon
<1>7. Receiving /\ Handled' = Handled + 1
  BY <1>3, <1>6 DEF Receiving, Handled, InBody
<1>8. StreamInv'
  <2>1. Responses \in Int /\ Responses' \in Int /\ 2 * Responses' <= sent
    BY <1>2, <1>3, <1>6
  <2> QED BY <1>1, <1>3, <1>7, <2>1, StreamTail, Zenon
<1> QED BY <1>1, <1>5, <1>6, <1>8, Zenon DEF PollServerInv

\* recv_fn, under the poll policies.
LEMMA PollRecvStep ==
  ASSUME PollServerInv, poll, Receive \/ HandleHead \/ HeadMissing \/ HandleBody
  PROVE  PollServerInv'
<1>1. ~uring
  BY Zenon DEF uring, poll
<1>2. CASE Receive
  BY <1>1, <1>2, PollReceiveStep, Zenon DEF Receive
<1>3. CASE HandleHead
  <2>1. /\ ~crashed /\ read_buf_ # <<>> /\ recv_fn = "head" /\ read_buf_' = Tail(read_buf_)
        /\ UNCHANGED <<policy, manners, peer, sock, unread, closed_, write_buf_, wire, send_fn, crashed>>
        /\ UNCHANGED <<poll_vars, uring_vars, sent>> /\ recv_fn' \in {"body", "close"}
    BY <1>3, Zenon DEF HandleHead, RecvFn, peer_vars, env
  <2> QED BY <2>1, PollHandleStep, Zenon
<1>4. CASE HeadMissing
  <2>1. /\ ~crashed /\ recv_fn = "head" /\ recv_fn' = "close" /\ UNCHANGED <<poll_vars, uring_vars, sent>>
        /\ UNCHANGED <<policy, manners, peer, sock, unread, closed_, read_buf_, write_buf_, wire, send_fn, crashed>>
    BY <1>4, Zenon DEF HeadMissing, RecvFn, peer_vars, env, bufs
  <2>2. PollInv /\ crashed = FALSE /\ edge' \subseteq Filters /\ UNCHANGED <<interest, events, flight, cq>>
    BY <2>1, Zenon DEF PollServerInv, PollInv, PollTypeOK, ConnTypeOK, poll_vars, uring_vars, ring_vars
  <2>3. recv_fn # "new" /\ recv_fn' # "new" /\ recv_fn' # "done" /\ ~Receiving'
    BY <2>1, Zenon DEF Receiving
  <2>4. PollInv'
    BY <2>1, <2>2, <2>3, QuietKeeps, Zenon
  <2> QED BY <2>1, <2>2, <2>3, <2>4, PollStays, Zenon
<1>5. CASE HandleBody
  <2>1. /\ ~crashed /\ read_buf_ # <<>> /\ recv_fn = "body" /\ read_buf_' = Tail(read_buf_)
        /\ UNCHANGED <<policy, manners, peer, sock, closed_, sent>>
    BY <1>5, Zenon DEF HandleBody, RecvFn, env
  <2>2. CASE UNCHANGED <<write_buf_, wire, unread, send_fn, crashed, poll_vars, uring_vars>> /\ recv_fn' = "close"
    BY <2>1, <2>2, PollHandleStep, Zenon
  <2>3. CASE Respond(Append(write_buf_, RequestOf(Head(read_buf_)))) /\ recv_fn' = "head"
    BY <1>1, <2>1, <2>3, PollRespondStep, Zenon DEF Respond
  <2> QED BY <1>5, <2>2, <2>3, Zenon DEF HandleBody
<1> QED BY <1>2, <1>3, <1>4, <1>5, Zenon

\* The peer sends, stops sending, resets, reads.
LEMMA PollPeerStep ==
  ASSUME PollServerInv, poll,
         \/ \E good \in BOOLEAN : PeerSend(good)
         \/ PeerDone \/ (Peer(PeerReset, Filters) /\ UNCHANGED sent) \/ (Peer(PeerReads, {"OUT"}) /\ UNCHANGED sent)
  PROVE  PollServerInv'
<1>1. PollInv /\ OrderInv /\ StreamInv /\ cq = <<>> /\ flight = {}
  BY Zenon DEF PollServerInv
<1>2. /\ "IN" \in Filters /\ "OUT" \in Filters
  BY Zenon DEF Filters
<1>3. PollInv' /\ UNCHANGED <<flight, cq>>
  <2>1. ASSUME NEW good \in BOOLEAN, PeerSend(good) PROVE PollInv' /\ UNCHANGED uring_vars
    BY <1>1, <1>2, <2>1, PeerKeeps, Zenon DEF PeerSend, Peer
  <2>2. PeerDone => PollInv' /\ UNCHANGED uring_vars
    BY <1>1, <1>2, PeerKeeps, Zenon DEF PeerDone, Peer
  <2>3. Peer(PeerReset, Filters) => PollInv' /\ UNCHANGED uring_vars
    BY <1>1, PeerKeeps, Zenon DEF Peer
  <2>4. Peer(PeerReads, {"OUT"}) => PollInv' /\ UNCHANGED uring_vars
    BY <1>1, <1>2, PeerKeeps, Zenon DEF Peer
  <2> QED BY <2>1, <2>2, <2>3, <2>4, Zenon DEF uring_vars, ring_vars
<1>4. /\ Pending = <<>> /\ Pending' = <<>> /\ Written = 0 /\ Written' = 0 /\ Responses \in Nat
  BY <1>3, PollData, Zenon
<1>5. Responses \in Int
  BY <1>4
<1>6. UNCHANGED <<wire, write_buf_>> => OrderInv' /\ Responses' = Responses
  BY <1>1, <1>4, OrderKept, Zenon
<1>7. ASSUME NEW good \in BOOLEAN, PeerSend(good) PROVE PollServerInv'
  <2>1. /\ sent < 2 * MaxRequests[policy] /\ sent' = sent + 1
        /\ Arrives([n |-> sent + 1, good |-> good])
    BY <1>7, Zenon DEF PeerSend, Peer
  <2>2. /\ peer = "open" /\ sock' = Append(sock, [n |-> sent + 1, good |-> good])
        /\ UNCHANGED <<policy, peer, read_buf_, write_buf_, wire, recv_fn>>
    BY <2>1, Zenon DEF Arrives, env, bufs
  <2>3. peer # "reset"
    BY <2>2, Zenon
  <2>4. MaxRequests[policy] \in Nat
    BY <1>1, RequestsAssumption, Zenon DEF StreamInv
  <2>5. OrderInv' /\ Responses' = Responses
    BY <1>6, <2>2, Zenon
  <2>6. StreamInv'
    BY <1>1, <1>4, <1>5, <2>1, <2>2, <2>3, <2>4, <2>5, StreamGrows, Zenon
  <2> QED BY <1>1, <1>3, <2>5, <2>6, Zenon DEF PollServerInv
<1>8. CASE Peer(PeerReset, Filters) /\ UNCHANGED sent
  <2>1. peer' = "reset" /\ sock' = <<>> /\ UNCHANGED <<policy, read_buf_, write_buf_, wire, recv_fn>>
    BY <1>8, Zenon DEF Peer, PeerReset, env, bufs
  <2>2. OrderInv' /\ Responses' = Responses
    BY <1>6, <2>1, Zenon
  <2>3. StreamInv'
    BY <1>1, <1>4, <1>5, <1>8, <2>1, <2>2, StreamCut, Zenon
  <2> QED BY <1>1, <1>3, <2>2, <2>3, Zenon DEF PollServerInv
<1>9. CASE PeerDone
  <2>1. UNCHANGED <<policy, sock, read_buf_, write_buf_, wire, recv_fn, sent>> /\ peer = "open"
    <3>1. PeerFin /\ UNCHANGED sent
      BY <1>9, Zenon DEF PeerDone, Peer
    <3> QED BY <3>1, Zenon DEF PeerFin, env, bufs
  <2>2. peer # "reset"
    BY <2>1, Zenon
  <2> QED BY <1>3, <2>1, <2>2, PollStays, Zenon DEF Receiving, InBody
<1>10. CASE Peer(PeerReads, {"OUT"}) /\ UNCHANGED sent
  <2>1. UNCHANGED <<policy, peer, sock, read_buf_, write_buf_, wire, recv_fn>>
    BY <1>10, Zenon DEF Peer, PeerReads, env, bufs
  <2> QED BY <1>3, <1>10, <2>1, PollStays, Zenon DEF Receiving, InBody
<1> QED BY <1>7, <1>8, <1>9, <1>10, Zenon

-----------------------------------------------------------------------------
(* The ring and the loop of the executor *)

UringServerInv == UringInv /\ OrderInv /\ StreamInv /\ PoliteInv

\* A step that moves no unit and no message.
LEMMA DataKept ==
  ASSUME OrderInv, StreamInv, PoliteInv, SameCqes,
         UNCHANGED <<policy, manners, peer, sock, read_buf_, write_buf_, wire, sent>>,
         Receiving' => Receiving /\ (InBody' <=> InBody),
         polite /\ (closed_' \/ recv_fn' \in {"close", "done", "spin"}) => peer = "fin"
  PROVE  OrderInv' /\ StreamInv' /\ PoliteInv'
<1>1. Pending' = Pending /\ Written' = Written
  BY Zenon DEF SameCqes, Pending, Written
<1>2. OrderInv' /\ Responses' = Responses
  BY <1>1, OrderKept, Zenon
<1>3. Stream' = Stream
  BY <1>1, Zenon DEF Stream
<1>4. read_buf_' \in Seq(RingUnits) /\ Pending' \in Seq(RingUnits) /\ sock' \in Seq(RingUnits)
  BY <1>1, Zenon DEF StreamInv
<1>5. StreamInv'
  BY <1>2, <1>3, <1>4, StreamKept, Zenon
<1>6. PoliteInv'
  BY <1>3, Zenon DEF PoliteInv, polite
<1> QED BY <1>2, <1>5, <1>6, Zenon

\* A step that leaves the connection to itself; a crash comes from two threads at the ring.
LEMMA QuietStep ==
  ASSUME UringServerInv, ~crashed, crashed' \in BOOLEAN, crashed' => overlap',
         RingInv', LoopInv', WakeInv', SameCqes, KeepsOps,
         UNCHANGED <<peer_vars, bufs, send_fn, recv_fn, back_left_, sent>>
  PROVE  UringServerInv'
<1>1. UNCHANGED <<policy, manners, peer, sock, unread, closed_, read_buf_, write_buf_, wire, send_fn,
                  recv_fn, back_left_, sent>>
  BY Zenon DEF peer_vars, env, bufs
<1>2. AwaitInv'
  <2>1. /\ (overlap => overlap') /\ (InRing("read")' => InRing("read")) /\ (InRing("write")' => InRing("write"))
        /\ InRing("read") => InRing("read")' \/ overlap'
        /\ InRing("write") => InRing("write")' \/ overlap'
    BY Zenon DEF KeepsOps
  <2>2. AwaitInv
    BY Zenon DEF UringServerInv, UringInv
  <2> QED BY <1>1, <2>1, <2>2, Zenon DEF AwaitInv, SameCqes, polite, Suspended
<1>3. FramesInv'
  <2>1. FramesInv
    BY Zenon DEF UringServerInv, UringInv
  <2>2. {closed_', crashed'} \subseteq BOOLEAN
    BY <1>1, <2>1, Zenon DEF FramesInv, ConnTypeOK
  <2> QED BY <1>1, <2>1, <2>2, Zenon DEF FramesInv, ConnTypeOK
<1>4. OrderInv' /\ StreamInv' /\ PoliteInv'
  <2>1. Receiving' => Receiving /\ (InBody' <=> InBody)
    BY <1>1, Zenon DEF Receiving, InBody
  <2>2. polite /\ (closed_' \/ recv_fn' \in {"close", "done", "spin"}) => peer = "fin"
    BY <1>1, Zenon DEF UringServerInv, PoliteInv
  <2> QED BY <1>1, <2>1, <2>2, DataKept, Zenon DEF UringServerInv
<1> QED BY <1>2, <1>3, <1>4, Zenon DEF UringServerInv, UringInv

\* A step without the ring.
LEMMA RingSame ==
  ASSUME RingInv, UNCHANGED ring_vars
  PROVE  /\ RingInv' /\ SameCqes /\ KeepsOps /\ UNCHANGED <<at, overlap>>
         /\ \A o : Cqes(o)' = Cqes(o) /\ (Queued(o)' <=> Queued(o)) /\ (InRing(o)' <=> InRing(o))
<1>1. UNCHANGED <<sq, at, op, sqe, flight, cq, overlap>>
  BY Zenon DEF ring_vars
<1>2. \A o : /\ Cqes(o)' = Cqes(o) /\ (Queued(o)' <=> Queued(o)) /\ (InHand(o)' <=> InHand(o))
             /\ (OneSqe(o)' <=> OneSqe(o)) /\ (OneCqe(o)' <=> OneCqe(o))
  BY <1>1, Zenon DEF Cqes, Queued, InHand, OneSqe, OneCqe
<1>3. \A o : (InRing(o)' <=> InRing(o)) /\ (OneInRing(o)' <=> OneInRing(o))
  BY <1>1, <1>2, Zenon DEF InRing, OneInRing
<1>4. RingTyped' /\ Alone'
  BY <1>1, Zenon DEF RingInv, RingTyped, Alone
<1> QED BY <1>1, <1>2, <1>3, <1>4, Zenon DEF RingInv, SameCqes, KeepsOps

\* spawn is about to take an entry.
LEMMA MainWants ==
  ASSUME RingInv, Wants("main", "wake"), UNCHANGED <<sq, sqe, flight, cq, overlap>>
  PROVE  RingInv' /\ SameCqes /\ KeepsOps /\ at'["main"] # "no"
<1>1. /\ at \in [Threads -> {"no", "tail", "take", "prep"}] /\ op \in [Threads -> Ops]
      /\ "loop" \in Threads /\ "main" \in Threads
  BY Zenon DEF RingInv, RingTyped, Threads
<1>2. /\ at' \in [Threads -> {"no", "tail", "take", "prep"}] /\ op' \in [Threads -> Ops]
      /\ at'["main"] = "tail" /\ at'["loop"] = at["loop"] /\ op'["main"] = "wake" /\ op'["loop"] = op["loop"]
  <2>1. "wake" \in Ops /\ "main" # "loop"
    BY Zenon DEF Ops
  <2> QED BY <1>1, <2>1, Zenon DEF Wants
<1>3. "tail" # "take" /\ "tail" # "prep" /\ "tail" # "no" /\ "wake" \notin {"read", "write"}
  BY Zenon
<1>4. \A o : /\ Cqes(o)' = Cqes(o) /\ (Queued(o)' <=> Queued(o)) /\ (InHand(o)' <=> InHand(o))
             /\ (OneSqe(o)' <=> OneSqe(o)) /\ (OneCqe(o)' <=> OneCqe(o))
  BY <1>2, Zenon DEF Cqes, Queued, InHand, OneSqe, OneCqe
<1>5. \A o : (InRing(o)' <=> InRing(o)) /\ (OneInRing(o)' <=> OneInRing(o))
  BY <1>4, Zenon DEF InRing, OneInRing
<1>6. RingTyped'
  BY <1>2, <1>3, Zenon DEF RingInv, RingTyped
<1>7. Alone'
  <2> SUFFICES ASSUME ~overlap'
               PROVE  /\ at'["main"] \in {"take", "prep"} => at'["loop"] \notin {"take", "prep"}
                      /\ \A u \in Threads :
                           /\ at'[u] = "take" => sqe'[u] = Len(sq') + 1
                           /\ at'[u] = "prep" => Len(sq') > 0 /\ sqe'[u] = Len(sq') /\ sq'[Len(sq')] = "unset"
    BY Zenon DEF Alone
  <2>1. \A u \in Threads : /\ at[u] = "take" => sqe[u] = Len(sq) + 1
                           /\ at[u] = "prep" => Len(sq) > 0 /\ sqe[u] = Len(sq) /\ sq[Len(sq)] = "unset"
    BY Zenon DEF RingInv, Alone
  <2>2. \A u \in Threads : at'[u] = at[u] \/ at'[u] = "tail"
    BY <1>2, Zenon DEF Threads
  <2> QED BY <1>2, <1>3, <2>1, <2>2, Zenon
<1> QED BY <1>2, <1>3, <1>4, <1>5, <1>6, <1>7, Zenon DEF RingInv, SameCqes, KeepsOps

\* The wakeup, by a step that leaves the flag and the two threads' places.
LEMMA WakeKept ==
  ASSUME WakeInv, ~crashed, UNCHANGED <<loop, main, should_notify_>>, overlap => overlap',
         Cqes("wake") # {} => Cqes("wake")' # {},
         ~overlap' /\ WakeHeld => WakeHeld'
  PROVE  WakeInv'
BY Zenon DEF WakeInv, WakeHeld

\* A thread's step at the ring.
LEMMA UseRingStep ==
  ASSUME UringServerInv, NEW t \in Threads, UseRing(t), UNCHANGED sent
  PROVE  UringServerInv'
<1>1. /\ ~crashed /\ UNCHANGED <<main, spawned, loop, should_notify_>>
      /\ UNCHANGED <<peer_vars, bufs, send_fn, recv_fn, back_left_, sent>>
  BY Zenon DEF UseRing
<1>2. RingInv /\ LoopInv /\ WakeInv
  BY Zenon DEF UringServerInv, UringInv
<1>3. /\ RingInv' /\ SameCqes /\ KeepsOps /\ (~overlap' /\ WakeHeld => WakeHeld')
      /\ (crashed' => overlap') /\ (Cqes("wake") # {} => Cqes("wake")' # {})
  BY <1>2, UseRingKeeps, Zenon
<1>4. crashed' \in BOOLEAN
  <2>1. crashed \in BOOLEAN
    BY Zenon DEF UringServerInv, UringInv, FramesInv, ConnTypeOK
  <2>2. (sqe[t] < 0) \in BOOLEAN
    OBVIOUS
  <2>3. UNCHANGED crashed \/ crashed' = (sqe[t] < 0)
    BY Zenon DEF UseRing, RingFull, LoadSqeTail, StoreSqeTail, PrepSqe
  <2> QED BY <2>1, <2>2, <2>3, Zenon
<1>5. LoopInv'
  BY <1>1, <1>2, Zenon DEF LoopInv
<1>6. WakeInv'
  <2>1. overlap => overlap'
    BY <1>3, Zenon DEF KeepsOps
  <2> QED BY <1>1, <1>2, <1>3, <2>1, WakeKept, Zenon
<1> QED BY <1>1, <1>3, <1>4, <1>5, <1>6, QuietStep, Zenon

\* A step of start() or of the loop that does not touch the ring.
LEMMA PlacesStep ==
  ASSUME UringServerInv, ~crashed, UNCHANGED <<conn_vars, ring_vars, back_left_, sent>>,
         LoopInv', WakeInv'
  PROVE  UringServerInv'
<1>1. UNCHANGED <<peer_vars, bufs, send_fn, recv_fn, back_left_, sent>> /\ UNCHANGED crashed
  BY Zenon DEF conn_vars
<1>2. RingInv' /\ SameCqes /\ KeepsOps
  BY RingSame, Zenon DEF UringServerInv, UringInv
<1>3. crashed' \in BOOLEAN /\ (crashed' => overlap')
  BY <1>1, Zenon DEF UringServerInv, UringInv, FramesInv, ConnTypeOK
<1> QED BY <1>1, <1>2, <1>3, QuietStep, Zenon

\* A step that submits.
LEMMA SubmitStep ==
  ASSUME UringServerInv, ~crashed, NEW t \in Threads, Submit(t), at[t] = "no",
         UNCHANGED <<conn_vars, at, op, back_left_, sent>>, LoopInv', WakeInv'
  PROVE  UringServerInv'
<1>1. UNCHANGED <<peer_vars, bufs, send_fn, recv_fn, back_left_, sent>> /\ UNCHANGED crashed
  BY Zenon DEF conn_vars
<1>2. RingInv' /\ SameCqes /\ KeepsOps
  <2>1. RingInv /\ at[t] \in {"no", "tail"} /\ UNCHANGED <<at, op>>
    BY Zenon DEF UringServerInv, UringInv
  <2> QED BY <2>1, SubmitKeeps, Zenon
<1>3. crashed' \in BOOLEAN /\ (crashed' => overlap')
  BY <1>1, Zenon DEF UringServerInv, UringInv, FramesInv, ConnTypeOK
<1> QED BY <1>1, <1>2, <1>3, QuietStep, Zenon

\* The thread of start().
LEMMA SpawnerStep ==
  ASSUME UringServerInv, Accept \/ Spawner, UNCHANGED <<poll_vars, sent>>
  PROVE  UringServerInv'
<1>1. LoopInv /\ WakeInv /\ RingInv
  BY Zenon DEF UringServerInv, UringInv
<1>2. CASE Accept
  <2>1. /\ main = "accept" /\ spawned = 0 /\ ~crashed /\ main' = "push"
        /\ UNCHANGED <<conn_vars, ring_vars, back_left_, sent>> /\ UNCHANGED <<spawned, loop, should_notify_>>
    BY <1>2, Zenon DEF Accept
  <2>2. LoopInv'
    <3>1. 0 \in 0 .. 1
      OBVIOUS
    <3>2. "push" # "cas" /\ "push" # "ring"
      BY Zenon
    <3> QED BY <1>1, <2>1, <3>1, <3>2, Zenon DEF LoopInv
  <2>3. WakeInv'
    <3>1. UNCHANGED overlap /\ Cqes("wake")' = Cqes("wake") /\ "accept" # "ring" /\ UNCHANGED crashed
      BY <1>1, <2>1, RingSame, Zenon DEF conn_vars
    <3> QED BY <1>1, <2>1, <3>1, Zenon DEF WakeInv
  <2> QED BY <2>1, <2>2, <2>3, PlacesStep, Zenon
<1>3. CASE SpawnPush
  <2>1. /\ main = "push" /\ ~crashed /\ spawned' = spawned + 1 /\ main' = "cas"
        /\ UNCHANGED <<conn_vars, ring_vars, back_left_, sent>> /\ UNCHANGED <<loop, should_notify_>>
    BY <1>3, Zenon DEF SpawnPush
  <2>2. LoopInv'
    <3>1. spawned \in 0 .. 1
      BY <1>1, <2>1, Zenon DEF LoopInv
    <3>2. spawned' \in 1 .. 2 /\ spawned' \in 0 .. 2 /\ "cas" # "push"
      BY <2>1, <3>1
    <3> QED BY <1>1, <2>1, <3>2, Zenon DEF LoopInv
  <2>3. WakeInv'
    <3>1. UNCHANGED overlap /\ Cqes("wake")' = Cqes("wake") /\ "push" # "ring" /\ UNCHANGED crashed
      BY <1>1, <2>1, RingSame, Zenon DEF conn_vars
    <3> QED BY <1>1, <2>1, <3>1, Zenon DEF WakeInv
  <2> QED BY <2>1, <2>2, <2>3, PlacesStep, Zenon
<1>4. CASE SpawnCas
  <2>1. /\ main = "cas" /\ ~crashed /\ should_notify_' = FALSE
        /\ UNCHANGED <<conn_vars, back_left_, sent>> /\ UNCHANGED <<spawned, loop>>
        /\ UNCHANGED <<sq, sqe, flight, cq, overlap>>
    BY <1>4, Zenon DEF SpawnCas
  <2>2. spawned \in 1 .. 2 /\ spawned \in 0 .. 2
    BY <1>1, <2>1, Zenon DEF LoopInv
  <2>3. CASE should_notify_ /\ main' = "ring" /\ Wants("main", "wake")
    <3>1. RingInv' /\ SameCqes /\ KeepsOps /\ at'["main"] # "no"
      BY <1>1, <2>1, <2>3, MainWants, Zenon
    <3>2. LoopInv'
      <4>1. "ring" # "push"
        BY Zenon
      <4> QED BY <1>1, <2>1, <2>2, <2>3, <4>1, Zenon DEF LoopInv
    <3>3. WakeInv'
      BY <2>3, <3>1, Zenon DEF WakeInv
    <3>4. /\ UNCHANGED <<peer_vars, bufs, send_fn, recv_fn, back_left_, sent>>
          /\ crashed' \in BOOLEAN /\ ~crashed'
      BY <2>1, Zenon DEF conn_vars, UringServerInv, UringInv, FramesInv, ConnTypeOK
    <3> QED BY <2>1, <3>1, <3>2, <3>3, <3>4, QuietStep, Zenon
  <2>4. CASE ~should_notify_ /\ main' = AfterSpawn /\ WantsNothing
    <3>1. UNCHANGED ring_vars
      BY <2>1, <2>4, Zenon DEF ring_vars, WantsNothing
    <3>2. LoopInv'
      <4>1. main' = (IF spawned = 2 THEN "accept" ELSE "push") /\ (spawned # 2 => spawned \in 0 .. 1)
        BY <2>2, <2>4 DEF AfterSpawn
      <4>2. "accept" \notin {"push", "cas", "ring"} /\ "push" \notin {"cas", "ring"}
        BY Zenon
      <4> QED BY <1>1, <2>1, <2>2, <4>1, <4>2, Zenon DEF LoopInv
    <3>3. WakeInv'
      <4>1. /\ UNCHANGED overlap /\ Cqes("wake")' = Cqes("wake") /\ main # "ring" /\ UNCHANGED <<crashed, loop>>
            /\ ~should_notify_
        BY <1>1, <2>1, <2>4, <3>1, RingSame, Zenon DEF conn_vars
      <4> QED BY <1>1, <4>1, Zenon DEF WakeInv
    <3>4. UNCHANGED <<conn_vars, ring_vars, back_left_, sent>>
      BY <2>1, <3>1, Zenon
    <3> QED BY <2>1, <3>2, <3>3, <3>4, PlacesStep, Zenon
  <2> QED BY <1>4, <2>3, <2>4, Zenon DEF SpawnCas
<1>5. CASE UseRing("main")
  BY <1>5, UseRingStep, Zenon DEF Threads
<1>6. CASE SpawnSubmit
  <2>1. /\ main = "ring" /\ at["main"] = "no" /\ ~crashed /\ Submit("main") /\ main' = AfterSpawn
        /\ UNCHANGED <<conn_vars, at, op, back_left_, sent>> /\ UNCHANGED <<spawned, loop, should_notify_>>
    BY <1>6, Zenon DEF SpawnSubmit
  <2>2. "main" \in Threads /\ at["main"] \in {"no", "tail"} /\ UNCHANGED <<at, op>>
    BY <2>1, Zenon DEF Threads
  <2>3. LoopInv'
    <3>1. spawned \in 1 .. 2 /\ spawned \in 0 .. 2
      BY <1>1, <2>1, Zenon DEF LoopInv
    <3>2. main' = (IF spawned = 2 THEN "accept" ELSE "push") /\ (spawned # 2 => spawned \in 0 .. 1)
      BY <2>1, <3>1 DEF AfterSpawn
    <3>3. "accept" \notin {"push", "cas", "ring"} /\ "push" \notin {"cas", "ring"}
      BY Zenon
    <3> QED BY <1>1, <2>1, <3>1, <3>2, <3>3, Zenon DEF LoopInv
  <2>4. WakeInv'
    <3>1. KeepsOps /\ (Queued("wake") \/ Cqes("wake") # {} => Cqes("wake")' # {})
      BY <1>1, <2>1, <2>2, SubmitKeeps, Zenon
    <3>2. overlap => overlap'
      BY <3>1, Zenon DEF KeepsOps
    <3> QED BY <1>1, <2>1, <3>1, <3>2, Zenon DEF WakeInv
  <2> QED BY <2>1, <2>2, <2>3, <2>4, SubmitStep, Zenon
<1> QED BY <1>2, <1>3, <1>4, <1>5, <1>6, Zenon DEF Spawner

\* A completion that is not of the connection is taken from the queue.
LEMMA OtherCqe ==
  ASSUME RingInv, NEW o \in {"wake", "unset"}, Seen(o), UNCHANGED <<at, op>>
  PROVE  RingInv' /\ SameCqes /\ KeepsOps
<1>1. /\ at["loop"] = "no" /\ cq # <<>> /\ Head(cq).op = o /\ cq' = Tail(cq)
      /\ UNCHANGED <<sq, sqe, flight, overlap>>
  BY Zenon DEF Seen, InLoop
<1>2. /\ cq' \in Seq(CQE) /\ (\A x : x # Head(cq).op => Cqes(x)' = Cqes(x))
      /\ \A x \in {"read", "write"} : OneCqe(x)' /\ Cqes(x)' \subseteq Cqes(x)
  BY <1>1, TailCqes, Zenon
<1>3. SameCqes
  <2>1. "read" # o /\ "write" # o
    BY Zenon
  <2> QED BY <1>1, <1>2, <2>1, Zenon DEF SameCqes
<1>4. /\ RingInv'
      /\ \A x : (Queued(x)' <=> Queued(x)) /\ (x \in flight' <=> x \in flight) /\ ~InHand(x)
      /\ UNCHANGED <<at, op>> => \A x : ~InHand(x)'
  BY <1>1, <1>2, LoopKeeps, Zenon
<1>5. KeepsOps
  <2> SUFFICES ASSUME NEW x \in {"read", "write"} PROVE InRing(x)' <=> InRing(x)
    BY <1>1, Zenon DEF KeepsOps
  <2>1. Cqes(x)' = Cqes(x)
    BY <1>3, Zenon DEF SameCqes
  <2>2. (Queued(x)' <=> Queued(x)) /\ (x \in flight' <=> x \in flight) /\ ~InHand(x) /\ ~InHand(x)'
    BY <1>4, Zenon
  <2> QED BY <2>1, <2>2, Zenon DEF InRing
<1> QED BY <1>3, <1>4, <1>5, Zenon

\* The loop outside of the coroutines.
LEMMA LoopStep ==
  ASSUME UringServerInv, UNCHANGED <<poll_vars, sent>>,
         NoMoreTasks \/ Arm \/ WaitCqe \/ NoMoreCqes \/ UseRing("loop") \/ WakeCqe \/ NullCqe
  PROVE  UringServerInv'
<1>1. LoopInv /\ WakeInv /\ RingInv
  BY Zenon DEF UringServerInv, UringInv
<1>2. "arm" # "wait" /\ "cqes" # "wait" /\ "tasks" # "wait"
  BY Zenon
<1>3. CASE NoMoreTasks
  <2>1. /\ at["loop"] = "no" /\ ~crashed /\ Submit("loop") /\ loop' = "arm"
        /\ UNCHANGED <<conn_vars, at, op, back_left_, sent>> /\ UNCHANGED <<main, spawned, should_notify_>>
    BY <1>3, Zenon DEF NoMoreTasks, InLoop
  <2>2. LoopInv' /\ WakeInv'
    BY <1>1, <1>2, <2>1, Zenon DEF LoopInv, WakeInv
  <2> QED BY <2>1, <2>2, SubmitStep, Zenon DEF Threads
<1>4. CASE Arm
  <2>1. /\ ~crashed /\ loop' = "wait" /\ should_notify_' = TRUE
        /\ UNCHANGED <<conn_vars, ring_vars, back_left_, sent>> /\ UNCHANGED <<main, spawned>>
    BY <1>4, Zenon DEF Arm, InLoop
  <2>2. LoopInv' /\ WakeInv'
    BY <1>1, <2>1, Zenon DEF LoopInv, WakeInv
  <2> QED BY <2>1, <2>2, PlacesStep, Zenon
<1>5. CASE WaitCqe \/ NoMoreCqes
  <2>1. /\ ~crashed /\ loop' \in {"cqes", "tasks"}
        /\ UNCHANGED <<conn_vars, ring_vars, back_left_, sent>> /\ UNCHANGED <<main, spawned, should_notify_>>
    BY <1>5, Zenon DEF WaitCqe, NoMoreCqes, InLoop
  <2>2. LoopInv' /\ WakeInv'
    BY <1>1, <1>2, <2>1, Zenon DEF LoopInv, WakeInv
  <2> QED BY <2>1, <2>2, PlacesStep, Zenon
<1>6. CASE UseRing("loop")
  BY <1>6, UseRingStep, Zenon DEF Threads
<1>7. ASSUME WakeCqe \/ NullCqe PROVE UringServerInv'
  <2>1. /\ ~crashed /\ loop = "cqes" /\ UNCHANGED loop /\ should_notify_' \in {FALSE, should_notify_}
        /\ UNCHANGED <<peer_vars, bufs, send_fn, recv_fn, back_left_, sent>> /\ UNCHANGED <<main, spawned, crashed>>
    BY <1>7, Zenon DEF WakeCqe, NullCqe, Seen, InLoop, conn_vars
  <2>2. RingInv' /\ SameCqes /\ KeepsOps
    <3>1. /\ UNCHANGED <<at, op>>
          /\ Seen("wake") \/ Seen("unset")
      BY <1>7, Zenon DEF WakeCqe, NullCqe
    <3> QED BY <1>1, <3>1, OtherCqe, Zenon
  <2>3. LoopInv' /\ WakeInv'
    BY <1>1, <1>2, <2>1, Zenon DEF LoopInv, WakeInv
  <2>4. crashed' \in BOOLEAN /\ (crashed' => overlap')
    BY <2>1, Zenon DEF UringServerInv, UringInv, FramesInv, ConnTypeOK
  <2> QED BY <2>1, <2>2, <2>3, <2>4, QuietStep, Zenon
<1> QED BY <1>3, <1>4, <1>5, <1>6, <1>7, Zenon

\* A task is run for the first time: send_fn, then recv_fn.
LEMMA RunTaskStep ==
  ASSUME UringServerInv, RunTask, UNCHANGED <<poll_vars, sent>>
  PROVE  UringServerInv'
<1>1. /\ loop = "tasks" /\ ~crashed /\ UNCHANGED <<main, spawned, loop, should_notify_, ring_vars, back_left_>>
      /\ UNCHANGED <<policy, manners, peer, sock, unread, closed_, read_buf_, write_buf_, wire, crashed, sent>>
  BY Zenon DEF RunTask, InLoop, uring_vars, peer_vars, env, bufs
<1>2. recv_fn \in {"new", "head_wait", "body_wait", "done"}
  <2>1. ~Running /\ recv_fn \in {"new", "head", "body", "close", "head_wait", "body_wait", "done", "spin"}
    BY Zenon DEF RunTask, InLoop, UringServerInv, UringInv, FramesInv, ConnTypeOK
  <2> QED BY <2>1, Zenon DEF Running
<1>3. \/ send_fn = "new" /\ send_fn' = "wait" /\ UNCHANGED recv_fn
      \/ recv_fn = "new" /\ recv_fn' = "head" /\ UNCHANGED send_fn /\ send_fn # "new"
  <2>1. IF send_fn = "new" THEN send_fn' = "wait" /\ UNCHANGED recv_fn ELSE recv_fn' = "head" /\ UNCHANGED send_fn
    BY Zenon DEF RunTask
  <2>2. recv_fn = "new"
    <3>1. Started < spawned /\ spawned \in 0 .. 2
      BY Zenon DEF RunTask, UringServerInv, UringInv, LoopInv
    <3> QED BY <3>1 DEF Started
  <2> QED BY <2>1, <2>2, Zenon
<1>4. RingInv' /\ SameCqes /\ UNCHANGED overlap /\ \A o : Cqes(o)' = Cqes(o) /\ (InRing(o)' <=> InRing(o))
  BY <1>1, RingSame, Zenon DEF UringServerInv, UringInv
<1>5. LoopInv' /\ WakeInv'
  <2>1. "tasks" # "wait"
    BY Zenon
  <2> QED BY <1>1, <2>1, Zenon DEF UringServerInv, UringInv, LoopInv, WakeInv
<1>6. (Suspended' <=> Suspended) /\ (Receiving' <=> Receiving) /\ (InBody' <=> InBody)
      /\ (recv_fn' \in {"close", "done", "spin"} => recv_fn \in {"close", "done", "spin"})
      /\ (recv_fn' = "done" => recv_fn = "done")
  BY <1>3, Zenon DEF Suspended, Receiving, InBody
<1>7. AwaitInv'
  <2>1. AwaitInv
    BY Zenon DEF UringServerInv, UringInv
  <2> QED BY <1>1, <1>4, <1>6, <2>1, Zenon DEF AwaitInv, polite
<1>8. FramesInv'
  <2>1. FramesInv
    BY Zenon DEF UringServerInv, UringInv
  <2>2. ConnTypeOK'
    BY <1>1, <1>3, <2>1, Zenon DEF FramesInv, ConnTypeOK
  <2>3. /\ send_fn' \notin {"new", "write", "done"} \/ send_fn' = send_fn
        /\ send_fn' # "new" => send_fn # "new" \/ send_fn' = "wait"
        /\ send_fn' # "new"
        /\ send_fn' = "write" <=> send_fn = "write"
    BY <1>3, Zenon
  <2> QED BY <1>1, <1>4, <1>6, <2>1, <2>2, <2>3, Zenon DEF FramesInv
<1>9. OrderInv' /\ StreamInv' /\ PoliteInv'
  <2>1. polite /\ (closed_' \/ recv_fn' \in {"close", "done", "spin"}) => peer = "fin"
    BY <1>1, <1>6, Zenon DEF UringServerInv, PoliteInv
  <2> QED BY <1>1, <1>4, <1>6, <2>1, DataKept, Zenon DEF UringServerInv
<1> QED BY <1>4, <1>5, <1>7, <1>8, <1>9, Zenon DEF UringServerInv, UringInv

-----------------------------------------------------------------------------
(* The peer under the uring policy *)

\* What the peer does is not seen before the kernel completes something.
LEMMA PeerQuiet ==
  ASSUME UringInv, ~crashed, UNCHANGED <<manners, closed_, write_buf_, send_fn, recv_fn, crashed>>,
         UNCHANGED uring_vars, unread' \in Nat, peer' \in {"open", "fin", "reset"},
         polite /\ peer = "fin" => peer' = "fin"
  PROVE  UringInv' /\ Pending' = Pending /\ Written' = Written
<1>1. UNCHANGED <<main, spawned, loop, should_notify_, ring_vars, back_left_>>
  BY Zenon DEF uring_vars
<1>2. /\ RingInv' /\ SameCqes /\ UNCHANGED <<at, overlap>>
      /\ \A o : Cqes(o)' = Cqes(o) /\ (Queued(o)' <=> Queued(o)) /\ (InRing(o)' <=> InRing(o))
  BY <1>1, RingSame, Zenon DEF UringInv
<1>3. LoopInv' /\ WakeInv'
  BY <1>1, <1>2, Zenon DEF UringInv, LoopInv, WakeInv
<1>4. AwaitInv'
  <2>1. AwaitInv
    BY Zenon DEF UringInv
  <2> QED BY <1>1, <1>2, <2>1, Zenon DEF AwaitInv, polite, Suspended
<1>5. FramesInv'
  <2>1. FramesInv
    BY Zenon DEF UringInv
  <2> QED BY <1>1, <2>1, Zenon DEF FramesInv, ConnTypeOK
<1>6. Pending' = Pending /\ Written' = Written
  BY <1>2, Zenon DEF SameCqes, Pending, Written
<1> QED BY <1>2, <1>3, <1>4, <1>5, <1>6, Zenon DEF UringInv

\* The peer sends.
LEMMA PeerSendStep ==
  ASSUME UringServerInv, uring, NEW good \in BOOLEAN, PeerSend(good)
  PROVE  UringServerInv'
<1>1. /\ sent < 2 * MaxRequests[policy] /\ (good \/ rude) /\ sent' = sent + 1 /\ UNCHANGED uring_vars
      /\ Arrives([n |-> sent + 1, good |-> good])
  BY Zenon DEF PeerSend, Peer
<1>2. /\ peer = "open" /\ ~crashed /\ sock' = Append(sock, [n |-> sent + 1, good |-> good])
      /\ UNCHANGED <<policy, manners, peer, unread, closed_, read_buf_, write_buf_, wire, send_fn, recv_fn, crashed>>
  BY <1>1, Zenon DEF Arrives, env, bufs
<1>3. UringInv /\ OrderInv /\ StreamInv /\ PoliteInv
  BY Zenon DEF UringServerInv
<1>4. UringInv' /\ Pending' = Pending /\ Written' = Written
  <2>1. unread' \in Nat /\ peer' \in {"open", "fin", "reset"}
    BY <1>2, <1>3, Zenon DEF UringInv, FramesInv, ConnTypeOK
  <2> QED BY <1>1, <1>2, <1>3, <2>1, PeerQuiet, Zenon
<1>5. OrderInv' /\ Responses' = Responses
  BY <1>2, <1>3, <1>4, OrderKept, Zenon
<1>6. /\ StreamInv' /\ Len(Stream') = Len(Stream) + 1 /\ Stream'[Len(Stream')].good = good
      /\ \A i \in 1 .. Len(Stream') : i = Len(Stream') \/ (i \in 1 .. Len(Stream) /\ Stream'[i] = Stream[i])
  <2>1. peer # "reset"
    BY <1>2, Zenon
  <2>2. MaxRequests[policy] \in Nat
    BY <1>3, RequestsAssumption, Zenon DEF StreamInv
  <2>3. Responses \in Int
    BY <1>3, OrderCounts
  <2> QED BY <1>1, <1>2, <1>3, <1>4, <1>5, <2>1, <2>2, <2>3, StreamGrows, Zenon
<1>7. PoliteInv'
  <2>1. polite => good
    BY <1>1, Zenon DEF polite, rude
  <2>2. peer # "fin"
    BY <1>2, Zenon
  <2> QED BY <1>2, <1>3, <1>6, <2>1, <2>2, Zenon DEF PoliteInv, polite
<1> QED BY <1>4, <1>5, <1>6, <1>7, Zenon DEF UringServerInv

\* The peer stops sending, resets, reads.
LEMMA PeerStep ==
  ASSUME UringServerInv, uring,
         PeerDone \/ (Peer(PeerReset, Filters) /\ UNCHANGED sent) \/ (Peer(PeerReads, {"OUT"}) /\ UNCHANGED sent)
  PROVE  UringServerInv'
<1>1. UringInv /\ OrderInv /\ StreamInv /\ PoliteInv
  BY Zenon DEF UringServerInv
<1>2. /\ ~crashed /\ UNCHANGED uring_vars
      /\ UNCHANGED <<policy, manners, closed_, read_buf_, write_buf_, wire, send_fn, recv_fn, crashed, sent>>
  BY Zenon DEF PeerDone, Peer, PeerFin, PeerReset, PeerReads, env, bufs
<1>3. /\ unread \in Nat /\ peer \in {"open", "fin", "reset"}
  BY <1>1, Zenon DEF UringInv, FramesInv, ConnTypeOK
<1>4. /\ unread' \in Nat /\ peer' \in {"open", "fin", "reset"} /\ (polite /\ peer = "fin" => peer' = "fin")
  <2>1. CASE PeerDone
    <3>1. peer' = "fin" /\ UNCHANGED unread
      BY <2>1, Zenon DEF PeerDone, Peer, PeerFin
    <3> QED BY <1>3, <3>1, Zenon
  <2>2. CASE Peer(PeerReset, Filters)
    <3>1. peer' = "reset" /\ UNCHANGED unread /\ rude
      BY <2>2, Zenon DEF Peer, PeerReset
    <3>2. ~polite
      BY <3>1, Zenon DEF rude, polite
    <3> QED BY <1>3, <3>1, <3>2, Zenon
  <2>3. CASE Peer(PeerReads, {"OUT"})
    <3>1. unread > 0 /\ unread' = unread - 1 /\ UNCHANGED peer
      BY <2>3, Zenon DEF Peer, PeerReads
    <3>2. unread' \in Nat
      BY <1>3, <3>1
    <3> QED BY <1>3, <3>1, <3>2, Zenon
  <2> QED BY <2>1, <2>2, <2>3, Zenon
<1>5. UringInv' /\ Pending' = Pending /\ Written' = Written
  BY <1>1, <1>2, <1>4, PeerQuiet, Zenon
<1>6. OrderInv' /\ Responses' = Responses
  BY <1>1, <1>2, <1>5, OrderKept, Zenon
<1>7. CASE PeerDone \/ Peer(PeerReads, {"OUT"})
  <2>1. UNCHANGED sock /\ (peer' # "reset" => peer # "reset")
    <3>1. UNCHANGED sock /\ (peer = "open" \/ UNCHANGED peer)
      BY <1>7, Zenon DEF PeerDone, Peer, PeerFin, PeerReads
    <3> QED BY <3>1, Zenon
  <2>2. Stream' = Stream
    BY <1>2, <1>5, <2>1, Zenon DEF Stream
  <2>3. StreamInv'
    <3>1. Receiving' => Receiving /\ (InBody' <=> InBody)
      BY <1>2, Zenon DEF Receiving, InBody
    <3>2. read_buf_' \in Seq(RingUnits) /\ Pending' \in Seq(RingUnits) /\ sock' \in Seq(RingUnits)
      BY <1>1, <1>2, <1>5, <2>1, Zenon DEF StreamInv
    <3> QED BY <1>1, <1>2, <1>6, <2>1, <2>2, <3>1, <3>2, StreamKept, Zenon
  <2>4. PoliteInv'
    <3>1. \/ UNCHANGED peer
          \/ peer' = "fin" /\ (polite => sent = 2 * Len(wire))
      BY <1>7, Zenon DEF PeerDone, Peer, PeerFin, PeerReads
    <3>2. "fin" # "reset"
      BY Zenon
    <3> QED BY <1>1, <1>2, <2>2, <3>1, <3>2, Zenon DEF PoliteInv, polite
  <2> QED BY <1>5, <1>6, <2>3, <2>4, Zenon DEF UringServerInv
<1>8. CASE Peer(PeerReset, Filters)
  <2>1. rude /\ peer' = "reset" /\ sock' = <<>>
    BY <1>8, Zenon DEF Peer, PeerReset
  <2>2. Responses \in Int
    BY <1>1, OrderCounts
  <2>3. StreamInv'
    BY <1>1, <1>2, <1>5, <1>6, <2>1, <2>2, StreamCut, Zenon
  <2>4. ~polite'
    BY <1>2, <2>1, Zenon DEF polite, rude
  <2> QED BY <1>5, <1>6, <2>3, <2>4, Zenon DEF UringServerInv, PoliteInv
<1> QED BY <1>7, <1>8, Zenon

-----------------------------------------------------------------------------
(* The kernel *)

\* A completion leaves the executor's threads where they are.
LEMMA CompletesPlaces ==
  ASSUME UringInv, NEW o \in {"read", "write"}, NEW n \in Int, NEW units \in Seq(RingUnits),
         Completes(o, n, units)
  PROVE  /\ LoopInv' /\ WakeInv' /\ ~crashed
         /\ UNCHANGED <<main, spawned, loop, should_notify_, back_left_, overlap>>
<1>1. ~crashed /\ UNCHANGED <<main, spawned, loop, should_notify_, back_left_, overlap>>
  BY Zenon DEF Completes
<1>2. (WakeHeld => WakeHeld') /\ (\A x : x # o => Cqes(x)' = Cqes(x))
  BY CompletesKeeps, Zenon DEF UringInv
<1>3. Cqes("wake")' = Cqes("wake")
  <2>1. "wake" # o
    BY Zenon
  <2> QED BY <1>2, <2>1, Zenon
<1>4. WakeInv'
  BY <1>1, <1>2, <1>3, WakeKept, Zenon DEF UringInv
<1>5. LoopInv'
  BY <1>1, Zenon DEF UringInv, LoopInv
<1> QED BY <1>1, <1>4, <1>5, Zenon

\* A read is completed, with what is in the socket, at the end of file, or with an error.
LEMMA KernelReadStep ==
  ASSUME UringServerInv, KernelReads, UNCHANGED <<poll_vars, sent>>
  PROVE  UringServerInv'
<1>1. UringInv /\ OrderInv /\ StreamInv /\ PoliteInv /\ RingInv /\ AwaitInv /\ FramesInv
  BY Zenon DEF UringServerInv, UringInv
<1>2. UNCHANGED <<policy, manners, peer, unread, closed_, read_buf_, write_buf_, wire, send_fn, recv_fn, crashed, sent>>
  BY Zenon DEF KernelReads, env, bufs
<1>3. read_buf_ \in Seq(RingUnits) /\ sock \in Seq(RingUnits) /\ <<>> \in Seq(RingUnits)
  <2>1. <<>> \in Seq(RingUnits)
    OBVIOUS
  <2> QED BY <1>1, <2>1, Zenon DEF StreamInv
<1>4. PICK n \in Int, units \in Seq(RingUnits) :
        /\ Completes("read", n, units) /\ sock' \in Seq(RingUnits)
        /\ (read_buf_ \o units) \o sock' = read_buf_ \o sock
        /\ n = 0 => units = <<>> /\ (polite => peer = "fin")
  <2>1. CASE \E n \in 1 .. Len(sock) : /\ Completes("read", n, SubSeq(sock, 1, n))
                                       /\ sock' = SubSeq(sock, n + 1, Len(sock))
    <3>1. PICK n \in 1 .. Len(sock) : /\ Completes("read", n, SubSeq(sock, 1, n))
                                      /\ sock' = SubSeq(sock, n + 1, Len(sock))
      BY <2>1, Zenon
    <3>2. n \in 0 .. Len(sock) /\ n # 0 /\ n \in Int
      BY <1>3
    <3>3. SubSeq(sock, 1, n) \in Seq(RingUnits)
      BY <1>3, <3>2
    <3>4. /\ SubSeq(sock, n + 1, Len(sock)) \in Seq(RingUnits)
          /\ (read_buf_ \o SubSeq(sock, 1, n)) \o SubSeq(sock, n + 1, Len(sock)) = read_buf_ \o sock
      BY <1>3, <3>2, MoveUnits, Zenon
    <3> QED BY <3>1, <3>2, <3>3, <3>4, Zenon
  <2>2. CASE /\ UNCHANGED sock
             /\ \/ peer = "fin" /\ Completes("read", 0, <<>>)
                \/ peer = "reset" /\ \E n \in {Error, 0} : Completes("read", n, <<>>)
    <3>1. (read_buf_ \o <<>>) \o sock = read_buf_ \o sock
      BY <1>3
    <3>2. PICK n \in {Error, 0} : Completes("read", n, <<>>) /\ peer \in {"fin", "reset"}
      BY <2>2, Zenon
    <3>3. n \in Int
      BY DEF Error
    <3>4. polite => peer = "fin"
      BY <1>1, <3>2, Zenon DEF PoliteInv
    <3> QED BY <1>3, <2>2, <3>1, <3>2, <3>3, <3>4, Zenon
  <2> QED BY <2>1, <2>2, Zenon DEF KernelReads
<1>5. /\ RingInv' /\ (\A x \in {"read", "write"} : InRing(x)' <=> InRing(x))
      /\ Cqes("read") = {} /\ Cqes("read")' = {Cqe("read", n, units)}
      /\ \A x : x # "read" => Cqes(x)' = Cqes(x)
  BY <1>1, <1>4, CompletesKeeps, Zenon
<1>6. /\ LoopInv' /\ WakeInv' /\ UNCHANGED <<back_left_, overlap>>
  BY <1>1, <1>4, CompletesPlaces, Zenon
<1>7. Cqes("write")' = Cqes("write")
  <2>1. "write" # "read"
    BY Zenon
  <2> QED BY <1>5, <2>1, Zenon
<1>8. AwaitInv'
  <2>1. \A e \in Cqes("read")' : e.n = 0 => e.units = <<>> /\ (polite' => peer' = "fin")
    <3>1. Cqe("read", n, units).n = n /\ Cqe("read", n, units).units = units
      BY Zenon DEF Cqe
    <3> QED BY <1>2, <1>4, <1>5, <3>1, Zenon DEF polite
  <2> QED BY <1>1, <1>2, <1>5, <1>6, <1>7, <2>1, Zenon DEF AwaitInv, polite, Suspended
<1>9. FramesInv'
  BY <1>1, <1>2, <1>6, Zenon DEF FramesInv, ConnTypeOK
<1>10. Pending = <<>> /\ Pending' = units /\ Written' = Written
  <2>1. Cqe("read", n, units).units = units
    BY Zenon DEF Cqe
  <2> QED BY <1>5, <1>7, <2>1, CqeData, Zenon DEF Pending, Written
<1>11. OrderInv' /\ Responses' = Responses
  BY <1>1, <1>2, <1>10, OrderKept, Zenon
<1>12. Stream' = Stream
  <2>1. (read_buf_ \o <<>>) \o sock = read_buf_ \o sock
    BY <1>3
  <2> QED BY <1>2, <1>4, <1>10, <2>1, Zenon DEF Stream
<1>13. StreamInv'
  <2>1. Receiving' => Receiving /\ (InBody' <=> InBody)
    BY <1>2, Zenon DEF Receiving, InBody
  <2>2. read_buf_' \in Seq(RingUnits) /\ Pending' \in Seq(RingUnits) /\ sock' \in Seq(RingUnits)
    BY <1>2, <1>3, <1>4, <1>10, Zenon
  <2> QED BY <1>1, <1>2, <1>11, <1>12, <2>1, <2>2, StreamKept, Zenon
<1>14. PoliteInv'
  BY <1>1, <1>2, <1>12, Zenon DEF PoliteInv, polite
<1> QED BY <1>5, <1>6, <1>8, <1>9, <1>11, <1>13, <1>14, Zenon DEF UringServerInv, UringInv

\* While a writev is in flight a polite peer has not closed, and what it asked for is in the buffer.
LEMMA PoliteWaits ==
  ASSUME UringServerInv, InRing("write"), Cqes("write") = {}
  PROVE  /\ Written = 0 /\ back_left_ \in 1 .. Len(write_buf_)
         /\ polite => peer # "fin" /\ ~closed_ /\ peer # "reset"
<1>1. Written = 0
  BY CqeData, Zenon DEF Written
<1>2. back_left_ > 0 /\ back_left_ \in 0 .. Len(write_buf_)
  BY Zenon DEF UringServerInv, UringInv, AwaitInv
<1>3. Len(wire) \in Nat /\ Len(write_buf_) \in Nat /\ Responses = Len(wire) - Written + Len(write_buf_)
  BY OrderCounts, Zenon DEF UringServerInv
<1>4. 2 * Responses <= sent
  BY Zenon DEF UringServerInv, StreamInv
<1>5. sent # 2 * Len(wire)
  BY <1>1, <1>2, <1>3, <1>4
<1>6. back_left_ \in 1 .. Len(write_buf_)
  BY <1>2, <1>3
<1> QED BY <1>1, <1>5, <1>6, Zenon DEF UringServerInv, PoliteInv

\* A writev is completed, in full or in part, or fails, which may end the process.
LEMMA KernelWriteStep ==
  ASSUME UringServerInv, KernelWrites, UNCHANGED <<poll_vars, sent>>
  PROVE  UringServerInv'
<1>1. UringInv /\ OrderInv /\ StreamInv /\ PoliteInv /\ RingInv /\ AwaitInv /\ FramesInv
  BY Zenon DEF UringServerInv, UringInv
<1>2. UNCHANGED <<policy, manners, peer, sock, closed_, read_buf_, write_buf_, send_fn, recv_fn, sent>>
  BY Zenon DEF KernelWrites, env
<1>3. <<>> \in Seq(RingUnits) /\ Error \in Int /\ Max({0, Error}) = 0 /\ Error <= 0
  BY MaxOfTwo DEF Error
<1>4. ASSUME NEW n \in Int, Completes("write", n, <<>>)
      PROVE  /\ RingInv' /\ LoopInv' /\ WakeInv' /\ UNCHANGED <<back_left_, overlap>> /\ ~crashed
             /\ (InRing("read")' <=> InRing("read")) /\ (InRing("write")' <=> InRing("write"))
             /\ Cqes("read")' = Cqes("read") /\ Pending' = Pending
             /\ Cqes("write")' = {Cqe("write", n, <<>>)} /\ Written' = Max({0, n})
             /\ Written = 0 /\ back_left_ \in 1 .. Len(write_buf_)
             /\ polite => peer # "fin" /\ ~closed_ /\ peer # "reset"
  <2>1. /\ RingInv' /\ (\A x \in {"read", "write"} : InRing(x)' <=> InRing(x)) /\ InRing("write")
        /\ Cqes("write") = {} /\ Cqes("write")' = {Cqe("write", n, <<>>)}
        /\ \A x : x # "write" => Cqes(x)' = Cqes(x)
    BY <1>1, <1>3, <1>4, CompletesKeeps, Zenon
  <2>2. /\ LoopInv' /\ WakeInv' /\ UNCHANGED <<back_left_, overlap>> /\ ~crashed
    BY <1>1, <1>3, <1>4, CompletesPlaces, Zenon
  <2>3. Cqes("read")' = Cqes("read")
    <3>1. "read" # "write"
      BY Zenon
    <3> QED BY <2>1, <3>1, Zenon
  <2>4. Pending' = Pending /\ Written' = Max({0, n})
    <3>1. Cqe("write", n, <<>>).n = n
      BY Zenon DEF Cqe
    <3> QED BY <2>1, <2>3, <3>1, CqeData, Zenon DEF Pending, Written
  <2>5. /\ Written = 0 /\ back_left_ \in 1 .. Len(write_buf_)
        /\ polite => peer # "fin" /\ ~closed_ /\ peer # "reset"
    BY <2>1, PoliteWaits, Zenon
  <2> QED BY <2>1, <2>2, <2>3, <2>4, <2>5, Zenon
<1>5. ASSUME NEW n \in Int, Completes("write", n, <<>>), n <= back_left_, polite => n = back_left_
      PROVE  AwaitInv'
  <2>1. \A e \in Cqes("write")' : e.n <= back_left_' /\ (polite' => e.n = back_left_')
    <3>1. Cqe("write", n, <<>>).n = n
      BY Zenon DEF Cqe
    <3> QED BY <1>2, <1>4, <1>5, <3>1, Zenon DEF polite
  <2> QED BY <1>1, <1>2, <1>4, <1>5, <2>1, Zenon DEF AwaitInv, polite, Suspended
<1>6. ASSUME Pending' = Pending, Responses' = Responses PROVE StreamInv' /\ Stream' = Stream
  <2>1. Stream' = Stream
    BY <1>2, <1>6, Zenon DEF Stream
  <2>2. Receiving' => Receiving /\ (InBody' <=> InBody)
    BY <1>2, Zenon DEF Receiving, InBody
  <2>3. read_buf_' \in Seq(RingUnits) /\ Pending' \in Seq(RingUnits) /\ sock' \in Seq(RingUnits)
    BY <1>1, <1>2, <1>6, Zenon DEF StreamInv
  <2> QED BY <1>1, <1>2, <1>6, <2>1, <2>2, <2>3, StreamKept, Zenon
<1>7. CASE \E n \in IF polite THEN {back_left_} ELSE 1 .. back_left_ :
             /\ Completes("write", n, <<>>) /\ wire' = wire \o SubSeq(write_buf_, 1, n)
             /\ unread' = unread + n /\ UNCHANGED crashed
  <2>1. PICK n \in IF polite THEN {back_left_} ELSE 1 .. back_left_ :
             /\ Completes("write", n, <<>>) /\ wire' = wire \o SubSeq(write_buf_, 1, n)
             /\ unread' = unread + n /\ UNCHANGED crashed
    BY <1>7, Zenon
  <2>2. back_left_ \in 0 .. Len(write_buf_) /\ Len(write_buf_) \in Nat
    BY <1>1, OrderCounts, Zenon DEF AwaitInv
  <2>3. n \in Int /\ n <= back_left_ /\ (polite => n = back_left_)
    BY <2>2
  <2>4. back_left_ \in 1 .. Len(write_buf_)
    BY <1>4, <2>1, <2>3, Zenon
  <2>5. n \in 0 .. Len(write_buf_) /\ n \in Nat /\ Max({0, n}) = n
    <3>1. n \in Nat /\ n <= Len(write_buf_)
      BY <2>2, <2>4
    <3> QED BY <2>2, <3>1, MaxOfTwo
  <2>6. OrderInv' /\ Responses' = Responses
    BY <1>1, <1>2, <1>4, <2>1, <2>3, <2>5, OrderWrites, Zenon
  <2>7. StreamInv' /\ Stream' = Stream
    BY <1>4, <1>6, <2>1, <2>3, <2>6, Zenon
  <2>8. PoliteInv'
    BY <1>1, <1>2, <1>4, <2>1, <2>3, <2>7, Zenon DEF PoliteInv, polite
  <2>9. FramesInv'
    <3>1. unread' \in Nat
      <4>1. unread \in Nat
        BY <1>1, Zenon DEF FramesInv, ConnTypeOK
      <4> QED BY <2>1, <2>5, <4>1
    <3> QED BY <1>1, <1>2, <1>4, <2>1, <2>3, <3>1, Zenon DEF FramesInv, ConnTypeOK
  <2>10. AwaitInv'
    BY <1>5, <2>1, <2>3, Zenon
  <2> QED BY <1>4, <2>1, <2>3, <2>6, <2>7, <2>8, <2>9, <2>10, Zenon DEF UringServerInv, UringInv
<1>8. CASE /\ closed_ \/ peer = "reset"
           /\ Completes("write", Error, <<>>)
           /\ crashed' \in IF closed_ THEN {TRUE} ELSE BOOLEAN
           /\ UNCHANGED <<wire, unread>>
  <2>1. ~polite /\ back_left_ \in 1 .. Len(write_buf_) /\ Len(write_buf_) \in Nat
    BY <1>1, <1>3, <1>4, <1>8, OrderCounts, Zenon
  <2>2. Error <= back_left_
    BY <1>3, <2>1
  <2>3. AwaitInv'
    BY <1>3, <1>5, <1>8, <2>1, <2>2, Zenon
  <2>4. Pending' = Pending /\ Written' = Written
    BY <1>3, <1>4, <1>8, Zenon
  <2>5. OrderInv' /\ Responses' = Responses
    BY <1>1, <1>2, <1>8, <2>4, OrderKept, Zenon
  <2>6. StreamInv'
    BY <1>6, <2>4, <2>5, Zenon
  <2>7. PoliteInv'
    BY <1>2, <2>1, Zenon DEF PoliteInv, polite
  <2>8. FramesInv'
    <3>1. crashed' \in BOOLEAN
      BY <1>8, Zenon
    <3> QED BY <1>1, <1>2, <1>3, <1>4, <1>8, <3>1, Zenon DEF FramesInv, ConnTypeOK
  <2> QED BY <1>3, <1>4, <1>8, <2>3, <2>5, <2>6, <2>7, <2>8, Zenon DEF UringServerInv, UringInv
<1> QED BY <1>7, <1>8, Zenon DEF KernelWrites

-----------------------------------------------------------------------------
(* The coroutines under the uring policy *)

\* resume_write: send_fn runs until it waits for data, waits for a writev, or ends because the
\* connection is closed; a writev is started only when none is in flight.
LEMMA UringResumeRuns ==
  ASSUME send_fn \in {"new", "wait", "write", "done"}, NEW buf \in Seq(Nat), NEW left \in 0 .. Len(buf),
         NEW closed \in BOOLEAN, UringResumeWrite(buf, left, closed)
  PROVE  /\ crashed' \in BOOLEAN /\ (crashed' => send_fn \in {"new", "done"})
         /\ send_fn' \in {"new", "wait", "write", "done"} /\ (send_fn' = "new" <=> send_fn = "new")
         /\ send_fn' = "done" => closed \/ send_fn = "done"
         /\ back_left_' \in 0 .. Len(buf)
         /\ \/ UNCHANGED <<at, op>> /\ back_left_' = left
            \/ Wants("loop", "write") /\ left = 0 /\ back_left_' > 0
         /\ ~closed /\ ~crashed' => IF send_fn' = "write" THEN back_left_' > 0 ELSE buf = <<>>
         /\ left = 0 /\ back_left_' > 0 => Wants("loop", "write")
<1> DEFINE goes_on == send_fn = "wait" \/ (send_fn = "write" /\ ~closed /\ buf # <<>>)
           starts == goes_on /\ left = 0 /\ buf # <<>>
<1>1. /\ back_left_' = IF starts THEN Len(buf) ELSE left
      /\ IF starts THEN Wants("loop", "write") ELSE WantsNothing
  BY Zenon DEF UringResumeWrite
<1>2. Len(buf) \in Nat /\ (buf # <<>> => Len(buf) > 0) /\ left \in Nat /\ ~(0 > 0)
  OBVIOUS
<1>3. crashed' \in BOOLEAN /\ (crashed' <=> send_fn \in {"new", "done"})
  <2>1. crashed' = (send_fn \in {"new", "done"})
    BY Zenon DEF UringResumeWrite
  <2>2. (send_fn \in {"new", "done"}) \in BOOLEAN
    OBVIOUS
  <2>3. crashed' \in BOOLEAN
    BY <2>1, <2>2, Zenon
  <2>4. crashed' <=> send_fn \in {"new", "done"}
    BY <2>1, Zenon
  <2> QED BY <2>3, <2>4, Zenon
<1>4. /\ back_left_' \in 0 .. Len(buf)
      /\ starts => Wants("loop", "write") /\ left = 0 /\ back_left_' > 0
      /\ ~starts => UNCHANGED <<at, op>> /\ back_left_' = left
  <2>1. starts => Wants("loop", "write") /\ left = 0 /\ back_left_' = Len(buf) /\ buf # <<>>
    BY <1>1, Zenon
  <2>2. ~starts => UNCHANGED <<at, op>> /\ back_left_' = left
    BY <1>1, Zenon DEF WantsNothing
  <2>3. Len(buf) \in 0 .. Len(buf)
    BY <1>2
  <2> HIDE DEF starts
  <2>4. back_left_' \in 0 .. Len(buf)
    BY <2>1, <2>2, <2>3, Zenon
  <2>5. starts => back_left_' > 0
    BY <1>2, <2>1, Zenon
  <2> QED BY <2>1, <2>2, <2>4, <2>5, Zenon
<1>5. /\ send_fn \in {"new", "done"} => send_fn' = send_fn
      /\ send_fn \in {"wait", "write"} => send_fn' \in {"wait", "write", "done"}
      /\ send_fn \in {"wait", "write"} /\ ~closed => send_fn' \in {"wait", "write"}
      /\ ~closed /\ send_fn' = "write" /\ send_fn \in {"wait", "write"} => left > 0 \/ starts
      /\ ~closed /\ send_fn' = "wait" /\ send_fn \in {"wait", "write"} => buf = <<>>
  <2>0. send_fn' = IF send_fn \in {"new", "done"} THEN send_fn
                   ELSE IF goes_on /\ left > 0 THEN "write"
                   ELSE IF closed THEN "done" ELSE IF starts THEN "write" ELSE "wait"
    BY Zenon DEF UringResumeWrite
  <2>1. send_fn \in {"new", "done"} => send_fn' = send_fn
    <3> HIDE DEF goes_on, starts
    <3> QED BY <2>0, Zenon
  <2>2. ASSUME send_fn \in {"wait", "write"}
        PROVE  send_fn' = IF goes_on /\ left > 0 THEN "write"
                          ELSE IF closed THEN "done" ELSE IF starts THEN "write" ELSE "wait"
    <3>1. send_fn \notin {"new", "done"}
      BY <2>2, Zenon
    <3> HIDE DEF goes_on, starts
    <3> QED BY <2>0, <3>1, Zenon
  <2>3. ASSUME send_fn \in {"wait", "write"}, ~closed, ~(goes_on /\ left > 0), ~starts PROVE buf = <<>>
    <3>1. left = 0 \/ left > 0
      BY <1>2
    <3> QED BY <2>3, <3>1, Zenon
  <2>4. "wait" # "write" /\ "wait" # "done" /\ "write" # "done"
    BY Zenon
  <2> HIDE DEF goes_on, starts
  <2> QED BY <2>1, <2>2, <2>3, <2>4, Zenon
<1>6. /\ send_fn' \in {"new", "wait", "write", "done"} /\ (send_fn' = "new" <=> send_fn = "new")
      /\ send_fn' = "done" => closed \/ send_fn = "done"
  <2> HIDE DEF starts
  <2> QED BY <1>5, Zenon
<1>7. ~closed /\ ~crashed' => IF send_fn' = "write" THEN back_left_' > 0 ELSE buf = <<>>
  <2> HIDE DEF starts
  <2>1. ~crashed' => send_fn \in {"wait", "write"}
    BY <1>3, Zenon
  <2> QED BY <1>4, <1>5, <2>1, Zenon
<1>8. left = 0 /\ back_left_' > 0 => Wants("loop", "write")
  <2> HIDE DEF starts
  <2> QED BY <1>2, <1>4, Zenon
<1> QED BY <1>3, <1>4, <1>6, <1>7, <1>8, Zenon

\* The executor's thread asks for a read or a writev, or for nothing.
LEMMA WantKeeps ==
  ASSUME UringInv, ~crashed, at["loop"] = "no", UNCHANGED <<sq, sqe, flight, cq, overlap>>,
         UNCHANGED <<main, spawned, loop, should_notify_>>,
         NEW w \in {"read", "write"}, UNCHANGED <<at, op>> \/ (Wants("loop", w) /\ ~InRing(w))
  PROVE  /\ RingInv' /\ LoopInv' /\ WakeInv' /\ SameCqes
         /\ \A o : o # w => (InRing(o)' <=> InRing(o))
         /\ (UNCHANGED <<at, op>> => (InRing(w)' <=> InRing(w))) /\ (Wants("loop", w) => InRing(w)')
<1>1. RingInv /\ LoopInv /\ WakeInv
  BY Zenon DEF UringInv
<1>2. \A o : Cqes(o)' = Cqes(o) /\ (OneCqe(o)' <=> OneCqe(o))
  BY Zenon DEF Cqes, OneCqe
<1>3. cq' \in Seq(CQE) /\ \A o \in {"read", "write"} : OneCqe(o)' /\ Cqes(o)' \subseteq Cqes(o)
  BY <1>1, <1>2, Zenon DEF RingInv, RingTyped, OneInRing
<1>4. UNCHANGED <<at, op>> \/ (Wants("loop", w) /\ ~Queued(w) /\ w \notin flight /\ Cqes(w)' = {})
  BY <1>2, Zenon DEF InRing
<1>5. /\ RingInv' /\ at'["main"] = at["main"]
      /\ \A o : (Queued(o)' <=> Queued(o)) /\ (o \in flight' <=> o \in flight) /\ ~InHand(o)
      /\ UNCHANGED <<at, op>> => \A o : ~InHand(o)'
      /\ Wants("loop", w) => \A o : InHand(o)' <=> o = w
  BY <1>1, <1>3, <1>4, LoopKeeps, Zenon
<1>6. LoopInv' /\ WakeInv'
  BY <1>1, <1>2, <1>5, Zenon DEF LoopInv, WakeInv
<1> QED BY <1>2, <1>4, <1>5, <1>6, Zenon DEF InRing, SameCqes

\* A completion of the connection is taken from the queue, and a writev is asked for or not.
LEMMA SeenKeeps ==
  ASSUME UringInv, NEW o \in {"read", "write"}, Seen(o), should_notify_' = should_notify_,
         UNCHANGED <<at, op>> \/ (Wants("loop", "write") /\ (o = "write" \/ ~InRing("write")))
  PROVE  /\ RingInv' /\ LoopInv' /\ WakeInv' /\ Head(cq) \in CQE /\ UNCHANGED overlap /\ ~crashed
         /\ InRing(o) /\ Cqes(o) = {Head(cq)} /\ Cqes(o)' = {}
         /\ \A v \in {"read", "write"} : v # o => Cqes(v)' = Cqes(v)
         /\ InRing("read")' <=> o # "read" /\ InRing("read")
         /\ UNCHANGED <<at, op>> => (InRing("write")' <=> o # "write" /\ InRing("write"))
         /\ Wants("loop", "write") => InRing("write")'
<1>1. RingInv /\ LoopInv /\ WakeInv
  BY Zenon DEF UringInv
<1>2. /\ at["loop"] = "no" /\ loop = "cqes" /\ ~crashed /\ cq # <<>> /\ Head(cq).op = o /\ cq' = Tail(cq)
      /\ UNCHANGED <<sq, sqe, flight, overlap>> /\ UNCHANGED <<main, spawned, loop>>
  BY Zenon DEF Seen, InLoop
<1>3. /\ Head(cq) \in CQE /\ cq' \in Seq(CQE)
      /\ \A v : v # Head(cq).op => Cqes(v)' = Cqes(v)
      /\ \A v \in {"read", "write"} : /\ OneCqe(v)' /\ Cqes(v)' \subseteq Cqes(v)
                                      /\ v = Head(cq).op => Cqes(v)' = {} /\ Cqes(v) = {Head(cq)} /\ InRing(v)
  BY <1>1, <1>2, TailCqes, Zenon
<1>4. InRing(o) /\ Cqes(o) = {Head(cq)} /\ Cqes(o)' = {} /\ \A v : v # o => Cqes(v)' = Cqes(v)
  BY <1>2, <1>3, Zenon
<1>5. ~InHand(o) /\ ~Queued(o) /\ o \notin flight
  <2>1. Cqes(o) # {}
    BY <1>4, Zenon
  <2> QED BY <1>1, <2>1, Zenon DEF RingInv, OneInRing
<1>6. UNCHANGED <<at, op>> \/ (Wants("loop", "write") /\ ~Queued("write") /\ "write" \notin flight /\ Cqes("write")' = {})
  BY <1>4, <1>5, Zenon DEF InRing
<1>7. /\ RingInv'
      /\ \A v : (Queued(v)' <=> Queued(v)) /\ (v \in flight' <=> v \in flight) /\ ~InHand(v)
      /\ UNCHANGED <<at, op>> => \A v : ~InHand(v)'
      /\ Wants("loop", "write") => \A v : InHand(v)' <=> v = "write"
  BY <1>1, <1>2, <1>3, <1>6, LoopKeeps, Zenon
<1>8. LoopInv' /\ WakeInv'
  <2>1. "cqes" # "wait"
    BY Zenon
  <2> QED BY <1>1, <1>2, <2>1, Zenon DEF LoopInv, WakeInv
<1>9. InRing("read")' <=> o # "read" /\ InRing("read")
  <2>1. ~InHand("read")'
    <3>1. "read" # "write"
      BY Zenon
    <3> QED BY <1>6, <1>7, <3>1, Zenon
  <2> QED BY <1>4, <1>5, <1>7, <2>1, Zenon DEF InRing
<1>10. /\ UNCHANGED <<at, op>> => (InRing("write")' <=> o # "write" /\ InRing("write"))
       /\ Wants("loop", "write") => InRing("write")'
  BY <1>4, <1>5, <1>7, Zenon DEF InRing
<1> QED BY <1>2, <1>3, <1>4, <1>7, <1>8, <1>9, <1>10, Zenon

\* recv_fn goes on without the ring.
LEMMA RecvQuiet ==
  ASSUME UringInv, ~crashed, UNCHANGED <<manners, peer, unread, write_buf_, send_fn, crashed>>,
         UNCHANGED uring_vars, recv_fn \in {"head", "body", "close"},
         recv_fn' \in {"head", "body", "close", "done"}, closed_' \in {closed_, TRUE},
         recv_fn' = "done" => closed_'
  PROVE  UringInv' /\ SameCqes /\ Pending' = Pending /\ Written' = Written
<1>1. UNCHANGED <<main, spawned, loop, should_notify_, ring_vars, back_left_>>
  BY Zenon DEF uring_vars
<1>2. /\ RingInv' /\ SameCqes /\ UNCHANGED <<at, overlap>>
      /\ \A o : Cqes(o)' = Cqes(o) /\ (Queued(o)' <=> Queued(o)) /\ (InRing(o)' <=> InRing(o))
  BY <1>1, RingSame, Zenon DEF UringInv
<1>3. LoopInv' /\ WakeInv'
  BY <1>1, <1>2, Zenon DEF UringInv, LoopInv, WakeInv
<1>4. ~Suspended /\ ~Suspended' /\ recv_fn # "new" /\ recv_fn' # "new" /\ recv_fn # "done"
  BY Zenon DEF Suspended
<1>5. AwaitInv'
  <2>1. AwaitInv
    BY Zenon DEF UringInv
  <2> QED BY <1>1, <1>2, <1>4, <2>1, Zenon DEF AwaitInv, polite
<1>6. FramesInv'
  <2>1. FramesInv
    BY Zenon DEF UringInv
  <2>2. ConnTypeOK'
    BY <2>1, Zenon DEF FramesInv, ConnTypeOK
  <2> QED BY <1>1, <1>4, <2>1, <2>2, Zenon DEF FramesInv
<1>7. Pending' = Pending /\ Written' = Written
  BY <1>2, Zenon DEF SameCqes, Pending, Written
<1> QED BY <1>2, <1>3, <1>5, <1>6, <1>7, Zenon DEF UringInv

\* async_read: a read is asked for, and recv_fn is suspended, unless the connection is closed.
LEMMA UringReceiveStep ==
  ASSUME UringServerInv, UringAsyncRead, UNCHANGED <<poll_vars, sent>>
  PROVE  UringServerInv'
<1>1. UringInv /\ AwaitInv /\ FramesInv /\ PoliteInv /\ OrderInv /\ StreamInv
  BY Zenon DEF UringServerInv, UringInv
<1>2. /\ recv_fn \in {"head", "body"} /\ at["loop"] = "no" /\ ~crashed
      /\ UNCHANGED <<policy, manners, peer, sock, unread, closed_, read_buf_, write_buf_, wire, send_fn, crashed, sent>>
      /\ UNCHANGED <<sq, sqe, flight, cq, overlap>> /\ UNCHANGED <<main, spawned, loop, should_notify_>>
      /\ UNCHANGED back_left_
  BY Zenon DEF UringAsyncRead, peer_vars, env, bufs
<1>3. \/ ~closed_ /\ Wants("loop", "read") /\ recv_fn' = WaitIn[recv_fn]
      \/ closed_ /\ recv_fn' = "spin" /\ UNCHANGED <<at, op>>
  BY Zenon DEF UringAsyncRead, WantsNothing
<1>4. ~Suspended /\ recv_fn # "new" /\ recv_fn # "done"
  BY <1>2, Zenon DEF Suspended
<1>5. ~InRing("read")
  BY <1>1, <1>4, Zenon DEF AwaitInv
<1>6. /\ RingInv' /\ LoopInv' /\ WakeInv' /\ SameCqes
      /\ \A o : o # "read" => (InRing(o)' <=> InRing(o))
      /\ (UNCHANGED <<at, op>> => (InRing("read")' <=> InRing("read"))) /\ (Wants("loop", "read") => InRing("read")')
  BY <1>1, <1>2, <1>3, <1>5, WantKeeps, Zenon
<1>7. InRing("write")' <=> InRing("write")
  <2>1. "write" # "read"
    BY Zenon
  <2> QED BY <1>6, <2>1, Zenon
<1>8. /\ recv_fn' \in {"head_wait", "body_wait", "spin"} /\ recv_fn' \notin {"new", "done"}
      /\ Suspended' <=> recv_fn' # "spin"
      /\ (recv_fn' = "spin" => closed_) /\ recv_fn' # "close"
      /\ Receiving' => Receiving /\ (InBody' <=> InBody)
      /\ recv_fn' = "spin" => UNCHANGED <<at, op>>
      /\ recv_fn' # "spin" => Wants("loop", "read")
  BY <1>2, <1>3 DEF WaitIn, Suspended, Receiving, InBody
<1>9. AwaitInv'
  BY <1>1, <1>2, <1>5, <1>6, <1>7, <1>8, Zenon DEF AwaitInv, SameCqes, polite
<1>10. FramesInv'
  <2>1. ConnTypeOK'
    BY <1>1, <1>2, <1>8, Zenon DEF FramesInv, ConnTypeOK
  <2> QED BY <1>1, <1>2, <1>4, <1>8, <2>1, Zenon DEF FramesInv
<1>11. OrderInv' /\ StreamInv' /\ PoliteInv'
  <2>1. polite /\ (closed_' \/ recv_fn' \in {"close", "done", "spin"}) => peer = "fin"
    BY <1>1, <1>2, <1>8, Zenon DEF PoliteInv
  <2> QED BY <1>1, <1>2, <1>6, <1>8, <2>1, DataKept, Zenon
<1> QED BY <1>6, <1>9, <1>10, <1>11, Zenon DEF UringServerInv, UringInv

\* recv_fn has no head to handle, or ends.
LEMMA UringEndStep ==
  ASSUME UringServerInv, UNCHANGED <<poll_vars, sent>>, HeadMissing \/ UringFinishRecv
  PROVE  UringServerInv'
<1>1. UringInv /\ OrderInv /\ StreamInv /\ PoliteInv
  BY Zenon DEF UringServerInv
<1>2. /\ ~crashed /\ UNCHANGED uring_vars /\ closed_' \in {closed_, TRUE}
      /\ UNCHANGED <<policy, manners, peer, sock, unread, read_buf_, write_buf_, wire, send_fn, crashed, sent>>
      /\ \/ recv_fn = "head" /\ recv_fn' = "close" /\ closed_ /\ UNCHANGED closed_
         \/ recv_fn = "close" /\ recv_fn' = "done" /\ closed_'
  BY Zenon DEF HeadMissing, RecvFn, UringFinishRecv, peer_vars, env, bufs
<1>3. /\ recv_fn \in {"head", "body", "close"} /\ recv_fn' \in {"head", "body", "close", "done"}
      /\ (recv_fn' = "done" => closed_') /\ (Receiving' => Receiving /\ (InBody' <=> InBody))
  BY <1>2, Zenon DEF Receiving
<1>4. UringInv' /\ SameCqes
  BY <1>1, <1>2, <1>3, RecvQuiet, Zenon
<1>5. polite /\ (closed_' \/ recv_fn' \in {"close", "done", "spin"}) => peer = "fin"
  BY <1>1, <1>2, Zenon DEF PoliteInv
<1>6. OrderInv' /\ StreamInv' /\ PoliteInv'
  BY <1>1, <1>2, <1>3, <1>4, <1>5, DataKept, Zenon
<1> QED BY <1>4, <1>6, Zenon DEF UringServerInv

\* recv_fn takes a unit that is good, which is all that a polite peer sends.
LEMMA PoliteTail ==
  ASSUME StreamInv, PoliteInv, read_buf_ # <<>>,
         \A i \in 1 .. Len(Stream') : i + 1 \in 1 .. Len(Stream) /\ Stream'[i] = Stream[i + 1],
         UNCHANGED <<manners, peer, closed_, wire, sent>>,
         recv_fn' \in {"close", "done", "spin"} => ~Head(read_buf_).good
  PROVE  PoliteInv'
<1>1. Stream[1] = Head(read_buf_) /\ 1 \in 1 .. Len(Stream)
  BY StreamHead, Zenon
<1>2. polite => Head(read_buf_).good
  BY <1>1, Zenon DEF PoliteInv
<1> QED BY <1>2, Zenon DEF PoliteInv, polite

\* A head is handled, or a body that is not good.
LEMMA UringHandleStep ==
  ASSUME UringServerInv, UNCHANGED <<poll_vars, sent>>, ~crashed, read_buf_ # <<>>,
         recv_fn \in {"head", "body"}, UNCHANGED uring_vars, read_buf_' = Tail(read_buf_),
         UNCHANGED <<policy, manners, peer, sock, unread, closed_, write_buf_, wire, send_fn, crashed>>,
         \/ recv_fn' = "close" /\ ~Head(read_buf_).good
         \/ recv_fn = "head" /\ recv_fn' = "body"
  PROVE  UringServerInv'
<1>1. UringInv /\ OrderInv /\ StreamInv /\ PoliteInv
  BY Zenon DEF UringServerInv
<1>2. UringInv' /\ SameCqes /\ Pending' = Pending /\ Written' = Written
  <2>1. recv_fn \in {"head", "body", "close"} /\ recv_fn' \in {"head", "body", "close", "done"} /\ recv_fn' # "done"
    BY Zenon
  <2> QED BY <1>1, <2>1, RecvQuiet, Zenon
<1>3. OrderInv' /\ Responses' = Responses /\ Responses \in Nat
  BY <1>1, <1>2, OrderKept, OrderCounts, Zenon
<1>4. Receiving /\ (Receiving' => Handled' = Handled + 1)
  BY <1>3 DEF Receiving, Handled, InBody
<1>5. /\ StreamInv'
      /\ \A i \in 1 .. Len(Stream') : i + 1 \in 1 .. Len(Stream) /\ Stream'[i] = Stream[i + 1]
  <2>1. Responses \in Int /\ Responses' \in Int
    BY <1>3
  <2>2. 2 * Responses' <= sent
    BY <1>1, <1>3, Zenon DEF StreamInv
  <2> QED BY <1>1, <1>2, <1>4, <2>1, <2>2, StreamTail, Zenon
<1>6. PoliteInv'
  <2>1. "body" \notin {"close", "done", "spin"}
    BY Zenon
  <2> QED BY <1>1, <1>5, <2>1, PoliteTail, Zenon
<1> QED BY <1>2, <1>3, <1>5, <1>6, Zenon DEF UringServerInv

\* The frames, after send_fn was resumed with a connection that is up or was closed before.
LEMMA ResumedFrames ==
  ASSUME FramesInv, ~crashed, send_fn # "new", NEW buf \in Seq(Nat), NEW left \in 0 .. Len(buf),
         UringResumeWrite(buf, left, closed_), write_buf_' = buf,
         UNCHANGED <<manners, peer, closed_>>, unread' = unread, recv_fn' \in {recv_fn, "head"}
  PROVE  FramesInv'
<1>1. ConnTypeOK /\ send_fn \in {"new", "wait", "write", "done"} /\ closed_ \in BOOLEAN
  BY Zenon DEF FramesInv, ConnTypeOK
<1>2. /\ crashed' \in BOOLEAN /\ (crashed' => send_fn \in {"new", "done"})
      /\ send_fn' \in {"new", "wait", "write", "done"} /\ (send_fn' = "new" <=> send_fn = "new")
      /\ send_fn' = "done" => closed_ \/ send_fn = "done"
      /\ ~closed_ /\ ~crashed' => IF send_fn' = "write" THEN back_left_' > 0 ELSE buf = <<>>
  BY <1>1, UringResumeRuns, Zenon
<1>3. ConnTypeOK'
  BY <1>1, <1>2, Zenon DEF ConnTypeOK
<1>4. send_fn = "done" \/ recv_fn = "done" => closed_
  BY Zenon DEF FramesInv
<1>5. "head" # "done"
  BY Zenon
<1> QED BY <1>2, <1>3, <1>4, <1>5, Zenon DEF FramesInv

\* A response is put into the buffer, and send_fn is resumed.
LEMMA UringRespondStep ==
  ASSUME UringServerInv, ~crashed, at["loop"] = "no", recv_fn = "body", recv_fn' = "head",
         read_buf_ # <<>>, read_buf_' = Tail(read_buf_), Head(read_buf_).good,
         NEW buf, buf = Append(write_buf_, RequestOf(Head(read_buf_))), write_buf_' = buf,
         UringResumeWrite(buf, back_left_, closed_),
         UNCHANGED <<sq, sqe, flight, cq, overlap>>, UNCHANGED <<main, spawned, loop, should_notify_>>,
         UNCHANGED <<policy, manners, peer, sock, unread, closed_, wire, sent>>
  PROVE  UringServerInv'
<1>1. UringInv /\ AwaitInv /\ FramesInv /\ PoliteInv /\ OrderInv /\ StreamInv
  BY Zenon DEF UringServerInv, UringInv
<1>2. /\ Responses \in Nat /\ Len(write_buf_) \in Nat /\ write_buf_ \in Seq(Nat)
      /\ back_left_ \in 0 .. Len(write_buf_)
  BY <1>1, OrderCounts, Zenon DEF OrderInv, AwaitInv
<1>3. Receiving /\ Handled = 2 * Responses + 1 /\ ~Suspended
  BY Zenon DEF Receiving, Handled, InBody, Suspended
<1>5. RequestOf(Head(read_buf_)) = Responses + 1 /\ 2 * (Responses + 1) <= sent
  BY <1>1, NextRequest, Zenon
<1>6. buf \in Seq(Nat) /\ Len(buf) = Len(write_buf_) + 1 /\ back_left_ \in 0 .. Len(buf) /\ buf # <<>>
  <2>1. Responses + 1 \in Nat
    BY <1>2
  <2>2. buf \in Seq(Nat) /\ Len(buf) = Len(write_buf_) + 1
    BY <1>2, <1>5, <2>1
  <2> QED BY <1>2, <2>2
<1>7. /\ back_left_' \in 0 .. Len(buf)
      /\ \/ UNCHANGED <<at, op>> /\ back_left_' = back_left_
         \/ Wants("loop", "write") /\ back_left_ = 0 /\ back_left_' > 0
  <2>1. send_fn \in {"new", "wait", "write", "done"} /\ closed_ \in BOOLEAN
    BY <1>1, Zenon DEF FramesInv, ConnTypeOK
  <2> QED BY <1>6, <2>1, UringResumeRuns, Zenon
<1>8. back_left_ = 0 => ~InRing("write")
  <2>1. ~(0 > 0)
    OBVIOUS
  <2> QED BY <1>1, <2>1, Zenon DEF AwaitInv
<1>9. /\ RingInv' /\ LoopInv' /\ WakeInv' /\ SameCqes
      /\ \A o : o # "write" => (InRing(o)' <=> InRing(o))
      /\ UNCHANGED <<at, op>> => (InRing("write")' <=> InRing("write"))
      /\ Wants("loop", "write") => InRing("write")'
  BY <1>1, <1>7, <1>8, WantKeeps, Zenon
<1>10. InRing("read")' <=> InRing("read")
  <2>1. "write" # "read"
    BY Zenon
  <2> QED BY <1>9, <2>1, Zenon
<1>11. AwaitInv'
  <2>1. ~Suspended'
    BY Zenon DEF Suspended
  <2>2. back_left_ = 0 => Cqes("write") = {}
    BY <1>8, Zenon DEF InRing
  <2>3. \A e \in Cqes("write")' : e.n <= back_left_' /\ (polite' => e.n = back_left_')
    BY <1>1, <1>7, <1>9, <2>2, Zenon DEF AwaitInv, SameCqes, polite
  <2>4. InRing("write")' => back_left_' > 0
    BY <1>1, <1>7, <1>9, Zenon DEF AwaitInv
  <2>5. polite' /\ back_left_' > 0 /\ ~overlap' => InRing("write")'
    BY <1>1, <1>7, <1>9, Zenon DEF AwaitInv, polite
  <2>6. \A e \in Cqes("read")' : e.n = 0 => e.units = <<>> /\ (polite' => peer' = "fin")
    BY <1>1, <1>9, Zenon DEF AwaitInv, SameCqes, polite
  <2>7. ~InRing("read")'
    BY <1>1, <1>3, <1>10, Zenon DEF AwaitInv
  <2> QED BY <1>7, <2>1, <2>3, <2>4, <2>5, <2>6, <2>7, Zenon DEF AwaitInv
<1>12. FramesInv'
  <2>1. recv_fn # "new"
    BY Zenon
  <2>2. send_fn # "new"
    BY <1>1, <2>1, Zenon DEF FramesInv
  <2> QED BY <1>1, <1>6, <2>2, ResumedFrames, Zenon
<1>13. Pending' = Pending /\ Written' = Written
  BY <1>9, Zenon DEF SameCqes, Pending, Written
<1>14. OrderInv' /\ Responses' = Responses + 1
  BY <1>1, <1>5, <1>13, OrderAppends, Zenon
<1>15. /\ StreamInv'
       /\ \A i \in 1 .. Len(Stream') : i + 1 \in 1 .. Len(Stream) /\ Stream'[i] = Stream[i + 1]
  <2>1. Responses \in Int /\ Responses' \in Int /\ 2 * Responses' <= sent
    BY <1>2, <1>5, <1>14
  <2>2. Handled' = Handled + 1
    <3>1. ~InBody'
      BY Zenon DEF InBody
    <3> QED BY <1>2, <1>3, <1>14, <3>1 DEF Handled
  <2> QED BY <1>1, <1>3, <1>13, <2>1, <2>2, StreamTail, Zenon
<1>16. PoliteInv'
  <2>1. "head" \notin {"close", "done", "spin"}
    BY Zenon
  <2> QED BY <1>1, <1>15, <2>1, PoliteTail, Zenon
<1> QED BY <1>9, <1>11, <1>12, <1>14, <1>15, <1>16, Zenon DEF UringServerInv, UringInv

\* recv_fn, under the uring policy.
LEMMA UringRecvStep ==
  ASSUME UringServerInv, uring, Receive \/ HandleHead \/ HeadMissing \/ HandleBody
  PROVE  UringServerInv'
<1>1. ~poll
  BY Zenon DEF uring, poll
<1>2. CASE Receive
  <2>1. UringAsyncRead /\ UNCHANGED <<poll_vars, sent>>
    BY <1>1, <1>2, Zenon DEF Receive
  <2> QED BY <2>1, UringReceiveStep, Zenon
<1>3. CASE HandleHead
  <2>1. /\ ~crashed /\ read_buf_ # <<>> /\ recv_fn = "head" /\ UNCHANGED uring_vars /\ read_buf_' = Tail(read_buf_)
        /\ UNCHANGED <<policy, manners, peer, sock, unread, closed_, write_buf_, wire, send_fn, crashed>>
        /\ UNCHANGED <<poll_vars, sent>>
        /\ recv_fn' = IF Head(read_buf_).good THEN "body" ELSE "close"
    BY <1>3, Zenon DEF HandleHead, RecvFn, peer_vars, env
  <2> QED BY <2>1, UringHandleStep, Zenon
<1>4. CASE HeadMissing
  <2>1. UNCHANGED <<poll_vars, sent>>
    BY <1>4, Zenon DEF HeadMissing
  <2> QED BY <1>4, <2>1, UringEndStep, Zenon
<1>5. CASE HandleBody
  <2>1. /\ ~crashed /\ read_buf_ # <<>> /\ recv_fn = "body" /\ at["loop"] = "no" /\ read_buf_' = Tail(read_buf_)
        /\ UNCHANGED <<policy, manners, peer, sock, closed_, sent>>
    BY <1>5, Zenon DEF HandleBody, RecvFn, env
  <2>2. CASE /\ ~Head(read_buf_).good /\ recv_fn' = "close"
             /\ UNCHANGED <<write_buf_, wire, unread, send_fn, crashed, poll_vars, uring_vars>>
    BY <2>1, <2>2, UringHandleStep, Zenon
  <2>3. CASE /\ Head(read_buf_).good /\ recv_fn' = "head"
             /\ Respond(Append(write_buf_, RequestOf(Head(read_buf_))))
    <3> DEFINE buf == Append(write_buf_, RequestOf(Head(read_buf_)))
    <3>1. /\ write_buf_' = buf /\ UringResumeWrite(buf, back_left_, closed_)
          /\ UNCHANGED <<wire, unread, poll_vars, main, spawned, loop, should_notify_, sq, sqe, flight, cq, overlap>>
      BY <1>1, <2>3, Zenon DEF Respond
    <3>2. buf = Append(write_buf_, RequestOf(Head(read_buf_)))
      BY Zenon
    <3> HIDE DEF buf
    <3> QED BY <2>1, <2>3, <3>1, <3>2, UringRespondStep, Zenon
  <2> QED BY <1>5, <2>2, <2>3, Zenon DEF HandleBody
<1> QED BY <1>2, <1>3, <1>4, <1>5, Zenon

\* The units of a completed read come into the buffer, if there are any.
LEMMA ReadSeen ==
  ASSUME OrderInv, StreamInv, PoliteInv, Suspended, Head(cq) \in CQE,
         Cqes("read") = {Head(cq)}, Cqes("read")' = {}, Cqes("write")' = Cqes("write"),
         UNCHANGED <<policy, manners, peer, sock, write_buf_, wire, sent>>,
         read_buf_' = read_buf_ \o Head(cq).units, recv_fn' = ResumeIn[recv_fn],
         polite /\ closed_' => peer = "fin"
  PROVE  /\ OrderInv' /\ StreamInv' /\ PoliteInv'
         /\ recv_fn' \in {"head", "body"} /\ ~Suspended' /\ recv_fn # "new" /\ recv_fn # "done"
<1>1. Pending = Head(cq).units /\ Pending' = <<>> /\ Written' = Written
  BY CqeData, Zenon DEF Pending, Written
<1>2. OrderInv' /\ Responses' = Responses
  BY <1>1, OrderKept, Zenon
<1>3. /\ read_buf_ \in Seq(RingUnits) /\ Pending \in Seq(RingUnits) /\ sock \in Seq(RingUnits)
  BY Zenon DEF StreamInv
<1>4. /\ recv_fn' \in {"head", "body"} /\ ~Suspended' /\ recv_fn # "new" /\ recv_fn # "done"
      /\ Receiving' => Receiving /\ (InBody' <=> InBody)
  BY DEF Suspended, ResumeIn, Receiving, InBody
<1>5. Stream' = Stream /\ read_buf_' \in Seq(RingUnits) /\ Pending' \in Seq(RingUnits)
  <2>1. /\ read_buf_ \o Pending \in Seq(RingUnits) /\ <<>> \in Seq(RingUnits)
        /\ (read_buf_ \o Pending) \o <<>> = read_buf_ \o Pending
    BY <1>3
  <2> QED BY <1>1, <2>1, Zenon DEF Stream
<1>6. StreamInv'
  BY <1>2, <1>3, <1>4, <1>5, StreamKept, Zenon
<1>7. PoliteInv'
  <2>1. recv_fn' \notin {"close", "done", "spin"}
    BY <1>4, Zenon
  <2> QED BY <1>5, <2>1, Zenon DEF PoliteInv, polite
<1> QED BY <1>2, <1>4, <1>6, <1>7, Zenon

\* Bytes were read, or an error came.
LEMMA ReadCqeStep ==
  ASSUME UringServerInv, ReadCqe, UNCHANGED <<poll_vars, sent>>
  PROVE  UringServerInv'
<1>1. UringInv /\ AwaitInv /\ FramesInv /\ PoliteInv /\ OrderInv /\ StreamInv
  BY Zenon DEF UringServerInv, UringInv
<1>2. /\ Seen("read") /\ read_buf_' = read_buf_ \o Head(cq).units /\ crashed' = ~Suspended /\ ResumeRead
      /\ UNCHANGED <<policy, manners, peer, sock, unread, closed_, write_buf_, wire, send_fn, sent>>
      /\ should_notify_' = should_notify_ /\ UNCHANGED <<at, op>> /\ UNCHANGED back_left_
  BY Zenon DEF ReadCqe, peer_vars, env
<1>3. /\ RingInv' /\ LoopInv' /\ WakeInv' /\ Head(cq) \in CQE /\ UNCHANGED overlap /\ ~crashed
      /\ InRing("read") /\ Cqes("read") = {Head(cq)} /\ Cqes("read")' = {}
      /\ \A v \in {"read", "write"} : v # "read" => Cqes(v)' = Cqes(v)
      /\ InRing("read")' <=> "read" # "read" /\ InRing("read")
      /\ UNCHANGED <<at, op>> => (InRing("write")' <=> "read" # "write" /\ InRing("write"))
  BY <1>1, <1>2, SeenKeeps, Zenon
<1>4. Cqes("write")' = Cqes("write") /\ (InRing("write")' <=> InRing("write")) /\ ~InRing("read")'
  <2>1. "write" # "read"
    BY Zenon
  <2> QED BY <1>2, <1>3, <2>1, Zenon
<1>5. Suspended /\ recv_fn' = ResumeIn[recv_fn]
  BY <1>1, <1>2, <1>3, Zenon DEF AwaitInv, ResumeRead
<1>6. /\ OrderInv' /\ StreamInv' /\ PoliteInv'
      /\ recv_fn' \in {"head", "body"} /\ ~Suspended' /\ recv_fn # "new" /\ recv_fn # "done"
  <2>1. polite /\ closed_' => peer = "fin"
    BY <1>1, <1>2, Zenon DEF PoliteInv
  <2> QED BY <1>1, <1>2, <1>3, <1>4, <1>5, <2>1, ReadSeen, Zenon
<1>7. AwaitInv'
  BY <1>1, <1>2, <1>3, <1>4, <1>6, Zenon DEF AwaitInv, polite
<1>8. FramesInv'
  <2>1. crashed' \in BOOLEAN /\ ~crashed'
    BY <1>2, <1>5, Zenon
  <2>2. ConnTypeOK'
    BY <1>1, <1>2, <1>6, <2>1, Zenon DEF FramesInv, ConnTypeOK
  <2>3. recv_fn' # "done"
    BY <1>6, Zenon
  <2> QED BY <1>1, <1>2, <1>3, <1>6, <2>1, <2>2, <2>3, Zenon DEF FramesInv
<1> QED BY <1>3, <1>6, <1>7, <1>8, Zenon DEF UringServerInv, UringInv

\* The end of file: the connection is closed, and both coroutines go on.
LEMMA EofCqeStep ==
  ASSUME UringServerInv, EofCqe, UNCHANGED <<poll_vars, sent>>
  PROVE  UringServerInv'
<1>1. UringInv /\ AwaitInv /\ FramesInv /\ PoliteInv /\ OrderInv /\ StreamInv
  BY Zenon DEF UringServerInv, UringInv
<1>2. /\ Seen("read") /\ Head(cq).n = 0 /\ closed_' = TRUE /\ ResumeRead
      /\ UNCHANGED <<policy, manners, peer, sock, unread, read_buf_, write_buf_, wire, sent>>
      /\ should_notify_' = should_notify_
  BY Zenon DEF EofCqe, peer_vars, env
<1>3. /\ write_buf_ \in Seq(Nat) /\ send_fn \in {"new", "wait", "write", "done"} /\ TRUE \in BOOLEAN
      /\ back_left_ \in 0 .. Len(write_buf_)
  BY <1>1, Zenon DEF OrderInv, FramesInv, ConnTypeOK, AwaitInv
<1>4. /\ crashed' \in BOOLEAN /\ back_left_' \in 0 .. Len(write_buf_)
      /\ send_fn' \in {"new", "wait", "write", "done"} /\ (send_fn' = "new" <=> send_fn = "new")
      /\ \/ UNCHANGED <<at, op>> /\ back_left_' = back_left_
         \/ Wants("loop", "write") /\ back_left_ = 0 /\ back_left_' > 0
  <2>1. CASE back_left_ = 0
    <3>1. UringResumeWrite(write_buf_, 0, TRUE) /\ 0 \in 0 .. Len(write_buf_)
      BY <1>3, <2>1, Zenon DEF EofCqe
    <3> QED BY <1>3, <2>1, <3>1, UringResumeRuns, Zenon
  <2>2. CASE back_left_ # 0
    <3>1. crashed' = ~Suspended /\ UNCHANGED <<at, op>> /\ UNCHANGED <<send_fn, back_left_>>
      BY <2>2, Zenon DEF EofCqe, WantsNothing
    <3>2. (~Suspended) \in BOOLEAN
      BY Zenon DEF Suspended
    <3>3. crashed' \in BOOLEAN
      BY <3>1, <3>2, Zenon
    <3> QED BY <1>3, <3>1, <3>3, Zenon
  <2> QED BY <2>1, <2>2, Zenon
<1>5. back_left_ = 0 => ~InRing("write")
  <2>1. ~(0 > 0)
    OBVIOUS
  <2> QED BY <1>1, <2>1, Zenon DEF AwaitInv
<1>6. /\ RingInv' /\ LoopInv' /\ WakeInv' /\ Head(cq) \in CQE /\ UNCHANGED overlap /\ ~crashed
      /\ InRing("read") /\ Cqes("read") = {Head(cq)} /\ Cqes("read")' = {}
      /\ \A v \in {"read", "write"} : v # "read" => Cqes(v)' = Cqes(v)
      /\ InRing("read")' <=> "read" # "read" /\ InRing("read")
      /\ UNCHANGED <<at, op>> => (InRing("write")' <=> "read" # "write" /\ InRing("write"))
      /\ Wants("loop", "write") => InRing("write")'
  BY <1>1, <1>2, <1>4, <1>5, SeenKeeps, Zenon
<1>7. /\ Cqes("write")' = Cqes("write") /\ ~InRing("read")'
      /\ UNCHANGED <<at, op>> => (InRing("write")' <=> InRing("write"))
  <2>1. "write" # "read"
    BY Zenon
  <2> QED BY <1>6, <2>1, Zenon
<1>8. Suspended /\ recv_fn' = ResumeIn[recv_fn]
  BY <1>1, <1>2, <1>6, Zenon DEF AwaitInv, ResumeRead
<1>9. Head(cq).units = <<>> /\ (polite => peer = "fin")
  BY <1>1, <1>2, <1>6, Zenon DEF AwaitInv
<1>10. /\ OrderInv' /\ StreamInv' /\ PoliteInv'
       /\ recv_fn' \in {"head", "body"} /\ ~Suspended' /\ recv_fn # "new" /\ recv_fn # "done"
  <2>1. read_buf_ \in Seq(RingUnits)
    BY <1>1, Zenon DEF StreamInv
  <2>2. read_buf_ \o <<>> = read_buf_
    BY <2>1
  <2>3. read_buf_' = read_buf_ \o Head(cq).units
    BY <1>2, <1>9, <2>2, Zenon
  <2> QED BY <1>1, <1>2, <1>6, <1>7, <1>8, <1>9, <2>3, ReadSeen, Zenon
<1>11. AwaitInv'
  <2>1. back_left_ = 0 => Cqes("write") = {}
    BY <1>5, Zenon DEF InRing
  <2>2. \A e \in Cqes("write")' : e.n <= back_left_' /\ (polite' => e.n = back_left_')
    BY <1>1, <1>2, <1>4, <1>7, <2>1, Zenon DEF AwaitInv, polite
  <2>3. InRing("write")' => back_left_' > 0
    BY <1>1, <1>4, <1>7, Zenon DEF AwaitInv
  <2>4. polite' /\ back_left_' > 0 /\ ~overlap' => InRing("write")'
    BY <1>1, <1>2, <1>4, <1>6, <1>7, Zenon DEF AwaitInv, polite
  <2> QED BY <1>2, <1>4, <1>6, <1>7, <1>10, <2>2, <2>3, <2>4, Zenon DEF AwaitInv
<1>12. FramesInv'
  <2>1. ConnTypeOK'
    BY <1>1, <1>2, <1>4, <1>10, Zenon DEF FramesInv, ConnTypeOK
  <2> QED BY <1>1, <1>2, <1>4, <1>10, <2>1, Zenon DEF FramesInv
<1> QED BY <1>6, <1>10, <1>11, <1>12, Zenon DEF UringServerInv, UringInv

\* A writev is completed: what it wrote leaves the buffer, and send_fn goes on.
LEMMA WriteCqeStep ==
  ASSUME UringServerInv, WriteCqe, UNCHANGED <<poll_vars, sent>>
  PROVE  UringServerInv'
<1>1. UringInv /\ AwaitInv /\ FramesInv /\ PoliteInv /\ OrderInv /\ StreamInv
  BY Zenon DEF UringServerInv, UringInv
<1> DEFINE n == Max({0, Head(cq).n})
           rest == SubSeq(write_buf_, n + 1, Len(write_buf_))
           left == back_left_ - n
<1>2. /\ Seen("write") /\ write_buf_' = rest /\ UringResumeWrite(rest, left, closed_)
      /\ UNCHANGED <<policy, manners, peer, sock, unread, closed_, read_buf_, wire, recv_fn, sent>>
      /\ should_notify_' = should_notify_
  BY Zenon DEF WriteCqe, peer_vars, env
<1>3. /\ Head(cq) \in CQE /\ InRing("write") /\ Cqes("write") = {Head(cq)} /\ ~crashed
  <2>1. RingInv /\ cq # <<>> /\ cq' = Tail(cq) /\ Head(cq).op = "write" /\ ~crashed
    BY <1>1, <1>2, Zenon DEF UringInv, Seen, InLoop
  <2> QED BY <2>1, TailCqes, Zenon
<1>4. /\ Head(cq).n \in Int /\ Head(cq).n <= back_left_ /\ (polite => Head(cq).n = back_left_)
      /\ back_left_ > 0 /\ back_left_ \in 0 .. Len(write_buf_) /\ Len(write_buf_) \in Nat
      /\ write_buf_ \in Seq(Nat)
  <2>1. Head(cq).n \in Int
    BY <1>3, Zenon DEF CQE
  <2>2. /\ Head(cq).n <= back_left_ /\ (polite => Head(cq).n = back_left_)
        /\ back_left_ > 0 /\ back_left_ \in 0 .. Len(write_buf_)
    BY <1>1, <1>3, Zenon DEF AwaitInv
  <2>3. Len(write_buf_) \in Nat /\ write_buf_ \in Seq(Nat)
    BY <1>1, OrderCounts, Zenon DEF OrderInv
  <2> QED BY <2>1, <2>2, <2>3, Zenon
<1>5. n = Written
  BY <1>3, CqeData, Zenon DEF Written
<1>6. n \in Nat /\ n <= back_left_ /\ (polite => n = back_left_)
  <2>1. n = IF 0 >= Head(cq).n THEN 0 ELSE Head(cq).n
    BY <1>4, MaxOfTwo
  <2> HIDE DEF n
  <2> QED BY <1>4, <2>1
<1> HIDE DEF n
<1>7. /\ rest \in Seq(Nat) /\ Len(rest) = Len(write_buf_) - n /\ left \in 0 .. Len(rest)
      /\ (polite => left = 0)
  <2>1. rest \in Seq(Nat) /\ Len(rest) = Len(write_buf_) - n
    BY <1>4, <1>6
  <2> QED BY <1>4, <1>6, <2>1
<1> HIDE DEF rest, left
<1>8. /\ back_left_' \in 0 .. Len(rest)
      /\ \/ UNCHANGED <<at, op>> /\ back_left_' = left
         \/ Wants("loop", "write") /\ left = 0 /\ back_left_' > 0
      /\ left = 0 /\ back_left_' > 0 => Wants("loop", "write")
  <2>1. send_fn \in {"new", "wait", "write", "done"} /\ closed_ \in BOOLEAN
    BY <1>1, Zenon DEF FramesInv, ConnTypeOK
  <2> QED BY <1>2, <1>7, <2>1, UringResumeRuns, Zenon
<1>9. /\ RingInv' /\ LoopInv' /\ WakeInv' /\ UNCHANGED overlap /\ Cqes("write")' = {}
      /\ \A v \in {"read", "write"} : v # "write" => Cqes(v)' = Cqes(v)
      /\ InRing("read")' <=> "write" # "read" /\ InRing("read")
      /\ UNCHANGED <<at, op>> => (InRing("write")' <=> "write" # "write" /\ InRing("write"))
      /\ Wants("loop", "write") => InRing("write")'
  BY <1>1, <1>2, <1>8, SeenKeeps, Zenon
<1>10. /\ Cqes("read")' = Cqes("read") /\ (InRing("read")' <=> InRing("read"))
       /\ UNCHANGED <<at, op>> => ~InRing("write")'
  <2>1. "write" # "read"
    BY Zenon
  <2> QED BY <1>9, <2>1, Zenon
<1>11. AwaitInv'
  <2>1. InRing("write")' => back_left_' > 0
    BY <1>8, <1>10, Zenon
  <2>2. polite' /\ back_left_' > 0 /\ ~overlap' => InRing("write")'
    BY <1>2, <1>7, <1>8, <1>9, Zenon DEF polite
  <2>3. back_left_' \in 0 .. Len(write_buf_')
    BY <1>2, <1>8, Zenon
  <2> QED BY <1>1, <1>2, <1>9, <1>10, <2>1, <2>2, <2>3, Zenon DEF AwaitInv, polite, Suspended
<1>12. FramesInv'
  <2>1. write_buf_ # <<>>
    BY <1>4
  <2>2. send_fn # "new"
    BY <1>1, <2>1, Zenon DEF FramesInv
  <2> QED BY <1>1, <1>2, <1>3, <1>7, <2>2, ResumedFrames, Zenon
<1>13. Pending' = Pending /\ Written' = 0
  BY <1>9, <1>10, CqeData, Zenon DEF Pending, Written
<1>14. OrderInv' /\ Responses' = Responses
  <2>1. write_buf_' = SubSeq(write_buf_, Written + 1, Len(write_buf_))
    BY <1>2, <1>5, Zenon DEF rest
  <2> QED BY <1>1, <1>2, <1>13, <2>1, OrderSeen, Zenon
<1>15. Stream' = Stream
  BY <1>2, <1>13, Zenon DEF Stream
<1>16. StreamInv'
  <2>1. Receiving' => Receiving /\ (InBody' <=> InBody)
    BY <1>2, Zenon DEF Receiving, InBody
  <2>2. read_buf_' \in Seq(RingUnits) /\ Pending' \in Seq(RingUnits) /\ sock' \in Seq(RingUnits)
    BY <1>1, <1>2, <1>13, Zenon DEF StreamInv
  <2> QED BY <1>1, <1>2, <1>14, <1>15, <2>1, <2>2, StreamKept, Zenon
<1>17. PoliteInv'
  BY <1>1, <1>2, <1>15, Zenon DEF PoliteInv, polite
<1> QED BY <1>9, <1>11, <1>12, <1>14, <1>16, <1>17, Zenon DEF UringServerInv, UringInv

\* The executor's thread in its loop, under the uring policy.
LEMMA UringLoopStep ==
  ASSUME UringServerInv, UringLoop, UNCHANGED <<poll_vars, sent>>
  PROVE  UringServerInv'
<1>1. CASE RunTask
  BY <1>1, RunTaskStep, Zenon
<1>2. CASE NoMoreTasks \/ Arm \/ WaitCqe \/ NoMoreCqes \/ UseRing("loop") \/ WakeCqe \/ NullCqe
  BY <1>2, LoopStep, Zenon
<1>3. CASE EofCqe
  BY <1>3, EofCqeStep, Zenon
<1>4. CASE ReadCqe
  BY <1>4, ReadCqeStep, Zenon
<1>5. CASE WriteCqe
  BY <1>5, WriteCqeStep, Zenon
<1>6. CASE UringFinishRecv
  BY <1>6, UringEndStep, Zenon
<1> QED BY <1>1, <1>2, <1>3, <1>4, <1>5, <1>6, Zenon DEF UringLoop

-----------------------------------------------------------------------------
(* The invariant *)

\* A connection starts with nothing sent, received or in the ring.
LEMMA InitInv == Init => Inv
<1> SUFFICES ASSUME Init PROVE Inv
  BY Zenon
<1>1. ConnInit /\ PollInit /\ UringInit /\ policy \in DOMAIN MaxRequests /\ sent = 0
  BY Zenon DEF Init
<1>2. /\ sq = <<>> /\ cq = <<>> /\ flight = {} /\ overlap = FALSE /\ back_left_ = 0
      /\ at = [t \in Threads |-> "no"] /\ op = [t \in Threads |-> "unset"] /\ sqe = [t \in Threads |-> 0]
      /\ main = "accept" /\ spawned = 0 /\ loop = "tasks" /\ should_notify_ = FALSE
  BY <1>1, Zenon DEF UringInit
<1>3. /\ peer = "open" /\ sock = <<>> /\ unread = 0 /\ closed_ = FALSE /\ read_buf_ = <<>>
      /\ write_buf_ = <<>> /\ wire = <<>> /\ send_fn = "new" /\ recv_fn = "new" /\ crashed = FALSE
      /\ manners \in {"polite", "hasty", "rude"}
  BY <1>1, Zenon DEF ConnInit
<1>4. \A o : Cqes(o) = {} /\ ~InHand(o) /\ ~Queued(o) /\ ~InRing(o) /\ OneInRing(o)
  <2> SUFFICES ASSUME NEW o PROVE Cqes(o) = {} /\ ~InHand(o) /\ ~Queued(o) /\ ~InRing(o) /\ OneInRing(o)
    BY Zenon
  <2>1. Cqes(o) = {}
    <3>1. \A e : e \notin Range(<<>>)
      BY DEF Range
    <3> QED BY <1>2, <3>1, Zenon DEF Cqes
  <2>2. ~InHand(o)
    BY <1>2, Zenon DEF InHand, Threads
  <2>3. 1 .. Len(sq) = {} /\ 1 .. Len(cq) = {}
    BY <1>2
  <2>4. ~Queued(o) /\ OneSqe(o) /\ OneCqe(o)
    BY <2>3, Zenon DEF Queued, OneSqe, OneCqe
  <2> QED BY <1>2, <2>1, <2>2, <2>4, Zenon DEF InRing, OneInRing
<1>5. Pending = <<>> /\ Written = 0
  BY <1>4, CqeData, Zenon DEF Pending, Written
<1>6. OrderInv /\ Responses = 0
  <2>1. <<>> \in Seq(Nat) /\ Len(<<>>) = 0 /\ 1 .. 0 = {} /\ 0 \in 0 .. 0 /\ 0 - 0 + 0 = 0
    OBVIOUS
  <2> QED BY <1>3, <1>5, <2>1, Zenon DEF OrderInv, Responses
<1>7. Stream = <<>> /\ Len(Stream) = 0 /\ 1 .. Len(Stream) = {}
  <2>1. (<<>> \o <<>>) \o <<>> = <<>> /\ Len(<<>>) = 0 /\ 1 .. 0 = {}
    OBVIOUS
  <2> QED BY <1>3, <1>5, <2>1, Zenon DEF Stream
<1>8. StreamInv
  <2>1. Handled = 0 /\ Handled + Len(Stream) = 0 /\ 2 * Responses = 0
    <3>1. ~InBody
      BY <1>3, Zenon DEF InBody
    <3> QED BY <1>6, <1>7, <3>1 DEF Handled
  <2>2. MaxRequests[policy] \in Nat
    BY <1>1, RequestsAssumption, Zenon
  <2>3. 0 \in Nat /\ 0 <= 2 * MaxRequests[policy] /\ 0 <= 0 /\ <<>> \in Seq(RingUnits)
    BY <2>2
  <2> QED BY <1>1, <1>3, <1>5, <1>7, <2>1, <2>3, Zenon DEF StreamInv
<1>9. PoliteInv
  <2>1. recv_fn \notin {"close", "done", "spin"} /\ peer # "fin" /\ peer # "reset"
    BY <1>3, Zenon
  <2> QED BY <1>3, <1>7, <2>1, Zenon DEF PoliteInv
<1>10. RingInv
  <2>1. /\ sq \in Seq(Ops) /\ Len(sq) <= MAX_RING_LEN /\ cq \in Seq(CQE)
    BY <1>2, RingAssumption
  <2>2. /\ at \in [Threads -> {"no", "tail", "take", "prep"}] /\ op \in [Threads -> Ops]
        /\ op["loop"] = "unset" /\ op["main"] = "unset" /\ \A t \in Threads : at[t] = "no"
        /\ sqe \in [Threads -> Int] /\ \A t \in Threads : sqe[t] = 0
    BY <1>2 DEF Threads, Ops
  <2>3. 0 <= MAX_RING_LEN /\ "main" \in Threads /\ "loop" \in Threads
    BY RingAssumption DEF Threads
  <2>4. "unset" # "wake" /\ "unset" \notin {"read", "write"} /\ "no" # "take" /\ "no" # "prep"
    BY Zenon
  <2>5. RingTyped
    BY <1>2, <2>1, <2>2, <2>3, <2>4, Zenon DEF RingTyped
  <2>6. Alone
    BY <2>2, <2>3, <2>4, Zenon DEF Alone
  <2> QED BY <1>4, <2>5, <2>6, Zenon DEF RingInv
<1>11. LoopInv /\ WakeInv
  <2>1. "accept" # "push" /\ "accept" # "cas" /\ "accept" # "ring" /\ "tasks" # "wait" /\ 0 \in 0 .. 2
    OBVIOUS
  <2> QED BY <1>2, <2>1, Zenon DEF LoopInv, WakeInv
<1>12. AwaitInv
  <2>1. ~Suspended /\ ~(back_left_ > 0) /\ back_left_ \in 0 .. Len(write_buf_)
    BY <1>2, <1>3 DEF Suspended
  <2> QED BY <1>4, <2>1, Zenon DEF AwaitInv
<1>13. FramesInv
  <2>1. "new" # "write" /\ "new" # "done" /\ 0 \in Nat
    BY Zenon
  <2> QED BY <1>3, <2>1, Zenon DEF FramesInv, ConnTypeOK
<1>14. PollInv
  BY <1>1, InitPollInv, Zenon
<1> QED BY <1>2, <1>6, <1>8, <1>9, <1>10, <1>11, <1>12, <1>13, <1>14, Zenon DEF Inv, UringInv

\* The policy of an executor is chosen once (executor.h).
LEMMA PolicyKept == ASSUME Next PROVE policy' = policy
<1>1. /\ \A u : Arrives(u) => policy' = policy
      /\ PeerFin \/ PeerReset \/ PeerReads => policy' = policy
  BY Zenon DEF Arrives, PeerFin, PeerReset, PeerReads, env
<1>2. CASE \E good \in BOOLEAN : PeerSend(good)
  BY <1>1, <1>2, Zenon DEF PeerSend, Peer
<1>3. CASE PeerDone \/ Peer(PeerReset, Filters) \/ Peer(PeerReads, {"OUT"})
  BY <1>1, <1>3, Zenon DEF PeerDone, Peer
<1>4. CASE KernelRead \/ KernelWrite
  BY <1>4, Zenon DEF KernelRead, KernelWrite, KernelReads, KernelWrites, env
<1>5. \A t : UseRing(t) => policy' = policy
  BY Zenon DEF UseRing, peer_vars, env
<1>6. CASE Start
  BY <1>5, <1>6, Zenon
     DEF Start, Accept, PollSpawn, Spawner, SpawnPush, SpawnCas, SpawnSubmit, conn_vars, peer_vars, env
<1>7. CASE Receive \/ HandleHead \/ HeadMissing \/ HandleBody
  BY <1>7, Zenon
     DEF Receive, AsyncRead, UringAsyncRead, HandleHead, HeadMissing, HandleBody, peer_vars, env
<1>8. CASE PollStep
  <2>1. FinishRecv \/ PollWait \/ HandleRead \/ StartSend \/ StartRecv => policy' = policy
    BY Zenon DEF FinishRecv, PollWait, HandleRead, StartSend, StartRecv, peer_vars, env
  <2>2. /\ \A r : HandleHangUp(r) => policy' = policy
        /\ \A r : HandleWrite(r) => policy' = policy
    BY Zenon DEF HandleHangUp, HandleWrite, peer_vars, env
  <2>3. EpollLoop \/ KqueueLoop => policy' = policy
    BY <2>1, <2>2, Zenon
      
          DEF EpollLoop, EpollHangUp, EpollWrite, EpollRead, KqueueLoop, KqueueEof, KqueueWrite, KqueueRead
  <2> QED BY <1>8, <2>1, <2>3, Zenon DEF PollStep, ConnStep
<1>9. CASE UringLoop
  <2>1. RunTask \/ EofCqe \/ ReadCqe \/ WriteCqe \/ UringFinishRecv => policy' = policy
    BY Zenon DEF RunTask, EofCqe, ReadCqe, WriteCqe, UringFinishRecv, peer_vars, env
  <2>2. NoMoreTasks \/ Arm \/ WaitCqe \/ NoMoreCqes \/ WakeCqe \/ NullCqe => policy' = policy
    BY Zenon DEF NoMoreTasks, Arm, WaitCqe, NoMoreCqes, WakeCqe, NullCqe, conn_vars, peer_vars, env
  <2> QED BY <1>5, <1>9, <2>1, <2>2, Zenon DEF UringLoop
<1>10. CASE Executor
  BY <1>7, <1>8, <1>9, <1>10, Zenon DEF Executor
<1> QED BY <1>2, <1>3, <1>4, <1>6, <1>10, Zenon DEF Next

\* Every step keeps the invariant, under the policy at hand.
LEMMA NextInv == Inv /\ [Next]_vars => Inv'
<1>1. ASSUME Inv, Next, uring PROVE Inv'
  <2>1. UringServerInv /\ ~poll
    BY <1>1, Zenon DEF Inv, UringServerInv, uring, poll
  <2>2. ASSUME NEW good \in BOOLEAN, PeerSend(good) PROVE UringServerInv'
    BY <1>1, <2>1, <2>2, PeerSendStep, Zenon
  <2>3. PeerDone \/ (Peer(PeerReset, Filters) /\ UNCHANGED sent) \/ (Peer(PeerReads, {"OUT"}) /\ UNCHANGED sent)
          => UringServerInv'
    BY <1>1, <2>1, PeerStep, Zenon
  <2>4. KernelRead => UringServerInv'
    BY <2>1, KernelReadStep, Zenon DEF KernelRead
  <2>5. KernelWrite => UringServerInv'
    BY <2>1, KernelWriteStep, Zenon DEF KernelWrite
  <2>6. Start => UringServerInv'
    BY <2>1, SpawnerStep, Zenon DEF Start
  <2>7. Executor => UringServerInv'
    BY <1>1, <2>1, UringRecvStep, UringLoopStep, Zenon DEF Executor
  <2>8. UringServerInv'
    BY <1>1, <2>1, <2>2, <2>3, <2>4, <2>5, <2>6, <2>7, Zenon DEF Next
  <2>9. ~poll'
    BY <1>1, <2>1, PolicyKept, Zenon DEF poll
  <2> QED BY <2>8, <2>9, Zenon DEF Inv, UringServerInv
<1>2. ASSUME Inv, Next, poll PROVE Inv'
  <2>1. PollServerInv /\ ~uring
    BY <1>2, Zenon DEF Inv, PollServerInv, uring, poll
  <2>2. ~KernelRead /\ ~KernelWrite
    <3>1. \A o, n, u : ~Completes(o, n, u)
      BY <2>1, Zenon DEF PollServerInv, Completes
    <3> QED BY <3>1, Zenon DEF KernelRead, KernelWrite, KernelReads, KernelWrites
  <2>3. Start => PollServerInv'
    BY <2>1, PollStartStep, Zenon DEF Start
  <2>4. Executor => PollServerInv'
    BY <1>2, <2>1, PollRecvStep, PollExecutorStep, Zenon DEF Executor
  <2>5. PollServerInv'
    BY <1>2, <2>1, <2>2, <2>3, <2>4, PollPeerStep, Zenon DEF Next
  <2>6. ~uring'
    BY <1>2, <2>1, PolicyKept, Zenon DEF uring
  <2> QED BY <2>5, <2>6, Zenon DEF Inv, PollServerInv
<1>3. Inv => poll \/ uring
  <2>1. Inv => policy \in DOMAIN MaxRequests
    BY Zenon DEF Inv, StreamInv
  <2> QED BY <2>1, RequestsAssumption, Zenon DEF Policies, poll, uring
<1>4. ASSUME Inv, UNCHANGED vars PROVE Inv'
  <2>1. UNCHANGED <<conn_vars, poll_vars, uring_vars, sent>>
    BY <1>4, Zenon DEF vars
  <2>2. ASSUME poll PROVE Inv'
    <3>1. PollInv' /\ UNCHANGED <<policy, wire, write_buf_, read_buf_, sock, peer, recv_fn, flight, cq>>
      BY <1>4, <2>1, <2>2, PollKept, Zenon
         DEF Inv, conn_vars, peer_vars, env, bufs, uring_vars, ring_vars
    <3>2. PollServerInv' /\ ~uring'
      <4>1. PollServerInv /\ ~uring
        BY <1>4, <2>2, Zenon DEF Inv, PollServerInv, uring, poll
      <4> QED BY <2>1, <3>1, <4>1, PollStays, Zenon DEF Receiving, InBody, uring
    <3> QED BY <3>2, Zenon DEF Inv, PollServerInv
  <2>3. ASSUME uring PROVE Inv'
    <3>1. UringServerInv /\ ~poll
      BY <1>4, <2>3, Zenon DEF Inv, UringServerInv, uring, poll
    <3>2. /\ UNCHANGED <<policy, manners, peer, sock, unread, closed_, read_buf_, write_buf_, wire, send_fn, recv_fn, crashed>>
          /\ UNCHANGED <<main, spawned, loop, should_notify_, ring_vars, back_left_>>
      BY <2>1, Zenon DEF conn_vars, peer_vars, env, bufs, uring_vars
    <3>3. RingInv' /\ SameCqes /\ UNCHANGED <<at, overlap>>
          /\ \A o : Cqes(o)' = Cqes(o) /\ (Queued(o)' <=> Queued(o)) /\ (InRing(o)' <=> InRing(o))
      BY <3>1, <3>2, RingSame, Zenon DEF UringServerInv, UringInv
    <3>4. LoopInv' /\ WakeInv'
      BY <3>1, <3>2, <3>3, Zenon DEF UringServerInv, UringInv, LoopInv, WakeInv
    <3>5. AwaitInv'
      BY <3>1, <3>2, <3>3, Zenon DEF UringServerInv, UringInv, AwaitInv, polite, Suspended
    <3>6. FramesInv'
      BY <3>1, <3>2, <3>3, Zenon DEF UringServerInv, UringInv, FramesInv, ConnTypeOK
    <3>7. OrderInv' /\ StreamInv' /\ PoliteInv'
      BY <2>1, <3>1, <3>2, <3>3, DataKept, Zenon DEF UringServerInv, PoliteInv, Receiving, InBody
    <3> QED BY <3>1, <3>2, <3>3, <3>4, <3>5, <3>6, <3>7, Zenon DEF Inv, UringInv, poll
  <2> QED BY <1>3, <1>4, <2>2, <2>3, Zenon
<1> QED BY <1>1, <1>2, <1>3, <1>4, Zenon

-----------------------------------------------------------------------------
(* What the invariant implies *)

\* The completion that Unwritten looks for is the one that Written counts.
LEMMA UnwrittenIs ==
  ASSUME Inv
  PROVE  Unwritten = SubSeq(write_buf_, 1 + Written, Len(write_buf_))
<1> DEFINE seen == {i \in DOMAIN cq : cq[i].op = "write" /\ cq[i].n > 0}
           written == {cq[i].n : i \in seen}
<1>1. OneCqe("write") /\ cq \in Seq(CQE)
  <2>1. CASE poll
    <3>1. cq = <<>>
      BY <2>1, Zenon DEF Inv
    <3>2. cq \in Seq(CQE) /\ 1 .. Len(cq) = {}
      BY <3>1
    <3> QED BY <3>2, Zenon DEF OneCqe
  <2>2. CASE uring
    BY <2>2, Zenon DEF Inv, UringInv, RingInv, RingTyped, OneInRing
  <2>3. poll \/ uring
    <3>1. policy \in DOMAIN MaxRequests
      BY Zenon DEF Inv, StreamInv
    <3> QED BY <3>1, RequestsAssumption, Zenon DEF Policies, poll, uring
  <2> QED BY <2>1, <2>2, <2>3, Zenon
<1>2. DOMAIN cq = 1 .. Len(cq) /\ \A i \in DOMAIN cq : cq[i] \in CQE
  BY <1>1
<1>3. Max({0}) = 0
  <2>1. Max({0, 0}) = 0
    BY MaxOfTwo
  <2>2. {0, 0} = {0}
    BY Zenon
  <2> QED BY <2>1, <2>2, Zenon
<1>4. CASE Cqes("write") = {}
  <2>1. seen = {}
    BY <1>4, Zenon DEF Cqes, Range
  <2>2. {0} \cup written = {0}
    BY <2>1, Zenon
  <2>3. Written = 0
    BY <1>4, CqeData, Zenon DEF Written
  <2> QED BY <1>3, <2>2, <2>3, Zenon DEF Unwritten
<1>5. CASE Cqes("write") # {}
  <2>1. PICK k \in DOMAIN cq : cq[k].op = "write"
    BY <1>5, Zenon DEF Cqes, Range
  <2>2. \A i \in DOMAIN cq : cq[i].op = "write" => i = k
    BY <1>1, <1>2, <2>1, Zenon DEF OneCqe
  <2>3. Cqes("write") = {cq[k]}
    BY <2>1, <2>2, Zenon DEF Cqes, Range
  <2>4. Written = Max({0, cq[k].n})
    BY <2>3, CqeData, Zenon DEF Written
  <2>5. cq[k].n \in Int
    BY <1>2, <2>1, Zenon DEF CQE
  <2>6. CASE cq[k].n > 0
    <3>1. seen = {k}
      BY <2>1, <2>2, <2>6, Zenon
    <3>2. {0} \cup written = {0, cq[k].n}
      BY <3>1, Zenon
    <3> QED BY <2>4, <3>2, Zenon DEF Unwritten
  <2>7. CASE ~(cq[k].n > 0)
    <3>1. seen = {}
      BY <2>2, <2>7, Zenon
    <3>2. {0} \cup written = {0}
      BY <3>1, Zenon
    <3>3. Max({0, cq[k].n}) = 0
      <4>1. 0 >= cq[k].n /\ 0 \in Int
        BY <2>5, <2>7
      <4> QED BY <2>5, <4>1, MaxOfTwo, Zenon
    <3> QED BY <1>3, <2>4, <3>2, <3>3, Zenon DEF Unwritten
  <2> QED BY <2>6, <2>7, Zenon
<1> QED BY <1>4, <1>5, Zenon

\* What is received was sent.
LEMMA ReceivedWasSent ==
  ASSUME StreamInv
  PROVE  Range(sock) \cup Range(read_buf_) \subseteq [n : 1 .. sent, good : BOOLEAN]
<1>1. /\ read_buf_ \in Seq(RingUnits) /\ Pending \in Seq(RingUnits) /\ sock \in Seq(RingUnits)
      /\ \A i \in 1 .. Len(Stream) : Stream[i].n \in 1 .. sent
  BY Zenon DEF StreamInv
<1>2. /\ Stream \in Seq(RingUnits) /\ Len(Stream) = Len(read_buf_) + Len(Pending) + Len(sock)
      /\ \A i \in 1 .. Len(read_buf_) + Len(Pending) : Stream[i] = (read_buf_ \o Pending)[i]
      /\ \A i \in 1 .. Len(sock) : Stream[Len(read_buf_) + Len(Pending) + i] = sock[i]
  BY <1>1, StreamPieces, Zenon DEF Stream
<1>3. Len(read_buf_) \in Nat /\ Len(Pending) \in Nat /\ Len(sock) \in Nat
  BY <1>1
<1>4. \A i \in 1 .. Len(Stream) : Stream[i] \in [n : 1 .. sent, good : BOOLEAN]
  <2>1. \A u \in RingUnits : u.n \in 1 .. sent => u \in [n : 1 .. sent, good : BOOLEAN]
    BY Zenon DEF RingUnits
  <2>2. \A i \in 1 .. Len(Stream) : Stream[i] \in RingUnits
    BY <1>2
  <2> QED BY <1>1, <2>1, <2>2, Zenon
<1>5. ASSUME NEW i \in DOMAIN read_buf_ PROVE read_buf_[i] \in [n : 1 .. sent, good : BOOLEAN]
  <2>1. i \in 1 .. Len(read_buf_) + Len(Pending) /\ (read_buf_ \o Pending)[i] = read_buf_[i]
    BY <1>1, <1>3, <1>5
  <2>2. i \in 1 .. Len(Stream)
    BY <1>2, <1>3, <2>1
  <2> QED BY <1>2, <1>4, <2>1, <2>2, Zenon
<1>6. ASSUME NEW i \in DOMAIN sock PROVE sock[i] \in [n : 1 .. sent, good : BOOLEAN]
  <2>1. i \in 1 .. Len(sock)
    BY <1>1, <1>6
  <2>2. Len(read_buf_) + Len(Pending) + i \in 1 .. Len(Stream)
    BY <1>2, <1>3, <2>1
  <2> QED BY <1>2, <1>4, <2>1, <2>2, Zenon
<1> QED BY <1>5, <1>6, Zenon DEF Range

\* A sequence behind another.
LEMMA JoinedSeq ==
  \A a, b \in Seq(Nat) :
    /\ Len(a \o b) = Len(a) + Len(b) /\ DOMAIN (a \o b) = 1 .. Len(a \o b) /\ a \o b \in Seq(Nat)
    /\ \A i \in 1 .. Len(a) : (a \o b)[i] = a[i]
    /\ \A i \in 1 .. Len(a \o b) :
         i \in 1 .. Len(a) \/ (i - Len(a) \in 1 .. Len(b) /\ (a \o b)[i] = b[i - Len(a)])
OBVIOUS

\* A sequence without its first n elements.
LEMMA RestOfSeq ==
  \A s \in Seq(Nat) : \A n \in Nat :
    n <= Len(s) => /\ SubSeq(s, 1 + n, Len(s)) \in Seq(Nat) /\ Len(SubSeq(s, 1 + n, Len(s))) = Len(s) - n
                   /\ \A i \in 1 .. Len(s) - n : SubSeq(s, 1 + n, Len(s))[i] = s[n + i]
OBVIOUS

\* The invariant holds in every state that is reached.
LEMMA Invariance == Spec => []Inv
BY InitInv, NextInv, PTL DEF Spec

\* A connection runs under one of the policies.
LEMMA PolicyOf == ASSUME Inv PROVE poll \/ uring
<1>1. policy \in DOMAIN MaxRequests
  BY Zenon DEF Inv, StreamInv
<1> QED BY <1>1, RequestsAssumption, Zenon DEF Policies, poll, uring
-----------------------------------------------------------------------------
(* The theorems *)

\* Every variable of the server has its type, and what is received was sent, under each policy.
THEOREM TypeCorrect == Spec => []TypeOK
<1>1. Inv => TypeOK
  <2> SUFFICES ASSUME Inv PROVE TypeOK
    BY Zenon
  <2>1. ConnTypeOK /\ (poll => PollTypeOK)
    BY PolicyOf, Zenon DEF Inv, PollInv, UringInv, FramesInv
  <2>2. uring => UringTypeOK
    BY Zenon DEF Inv, UringInv, RingInv, RingTyped, LoopInv, AwaitInv, UringTypeOK
  <2>3. sent \in 0 .. 2 * MaxRequests[policy]
    <3>1. policy \in DOMAIN MaxRequests /\ sent \in Nat /\ sent <= 2 * MaxRequests[policy]
      BY Zenon DEF Inv, StreamInv
    <3>2. MaxRequests[policy] \in Nat
      BY <3>1, RequestsAssumption, Zenon
    <3> QED BY <3>1, <3>2
  <2>4. Range(sock) \cup Range(read_buf_) \subseteq [n : 1 .. sent, good : BOOLEAN]
    BY ReceivedWasSent, Zenon DEF Inv
  <2> QED BY <2>1, <2>2, <2>3, <2>4, Zenon DEF TypeOK
<1> QED BY <1>1, Invariance, PTL

\* The responses on the wire and in the buffer are those to the requests received in full, in their
\* order, one each (rpc_server.cc:135-170), whatever reads and writes the kernel cuts them into.
THEOREM InOrder == Spec => []ResponsesInOrder
<1>1. Inv => ResponsesInOrder
  <2> SUFFICES ASSUME Inv PROVE ResponsesInOrder
    BY Zenon
  <2>1. OrderInv /\ 2 * Responses <= sent /\ sent \in Nat
    BY Zenon DEF Inv, StreamInv
  <2>2. /\ wire \in Seq(Nat) /\ write_buf_ \in Seq(Nat)
        /\ Responses \in Nat /\ Len(wire) \in Nat /\ Written \in Nat
        /\ Len(write_buf_) \in Nat /\ Written <= Len(write_buf_)
        /\ Responses = Len(wire) - Written + Len(write_buf_)
    BY <2>1, OrderCounts, Zenon DEF OrderInv
  <2> DEFINE u == Unwritten
             all == wire \o u
  <2>3. /\ u \in Seq(Nat) /\ Len(u) = Len(write_buf_) - Written
        /\ \A i \in 1 .. Len(u) : u[i] = write_buf_[Written + i]
    <3>1. u = SubSeq(write_buf_, 1 + Written, Len(write_buf_))
      BY UnwrittenIs, Zenon
    <3>2. /\ SubSeq(write_buf_, 1 + Written, Len(write_buf_)) \in Seq(Nat)
          /\ Len(SubSeq(write_buf_, 1 + Written, Len(write_buf_))) = Len(write_buf_) - Written
          /\ \A i \in 1 .. Len(write_buf_) - Written :
               SubSeq(write_buf_, 1 + Written, Len(write_buf_))[i] = write_buf_[Written + i]
      BY <2>2, RestOfSeq, Zenon
    <3> HIDE DEF u
    <3> QED BY <3>1, <3>2, Zenon
  <2> HIDE DEF u
  <2>4. \A i \in 1 .. Len(u) : u[i] = Len(wire) + i
    <3> SUFFICES ASSUME NEW i \in 1 .. Len(u) PROVE u[i] = Len(wire) + i
      BY Zenon
    <3>1. Written + i \in 1 .. Len(write_buf_)
      BY <2>2, <2>3
    <3>2. u[i] = Len(wire) - Written + (Written + i)
      BY <2>1, <2>3, <3>1, Zenon DEF OrderInv
    <3> QED BY <2>2, <3>2
  <2>5. /\ Len(all) = Len(wire) + Len(u) /\ DOMAIN all = 1 .. Len(all) /\ all \in Seq(Nat)
        /\ \A i \in 1 .. Len(wire) : all[i] = wire[i]
        /\ \A i \in 1 .. Len(all) : i \in 1 .. Len(wire) \/ (i - Len(wire) \in 1 .. Len(u) /\ all[i] = u[i - Len(wire)])
    BY <2>2, <2>3, JoinedSeq, Zenon
  <2>6. \A i \in 1 .. Len(all) : all[i] = i
    <3> SUFFICES ASSUME NEW i \in 1 .. Len(all) PROVE all[i] = i
      BY Zenon
    <3>1. CASE i \in 1 .. Len(wire)
      BY <2>1, <2>5, <3>1, Zenon DEF OrderInv
    <3>2. CASE i - Len(wire) \in 1 .. Len(u) /\ all[i] = u[i - Len(wire)]
      <4>1. all[i] = Len(wire) + (i - Len(wire))
        BY <2>4, <3>2, Zenon
      <4>2. Len(wire) + (i - Len(wire)) = i
        BY <2>2
      <4> QED BY <4>1, <4>2, Zenon
    <3> QED BY <2>5, <3>1, <3>2, Zenon
  <2> HIDE DEF all
  <2>7. all = [i \in 1 .. Len(all) |-> i]
    BY <2>5, <2>6
  <2>8. Len(all) <= sent \div 2
    <3>1. Len(all) = Responses
      BY <2>2, <2>3, <2>5
    <3>2. \A r, n \in Nat : 2 * r <= n => r <= n \div 2
      OBVIOUS
    <3> QED BY <2>1, <2>2, <3>1, <3>2, Zenon
  <2> QED BY <2>7, <2>8, Zenon DEF ResponsesInOrder, all, u
<1> QED BY <1>1, Invariance, PTL

\* No coroutine is resumed that was destroyed while the connection is up, unless two threads met in
\* the ring (connection.h:38-43, uring_exector.cc:106).
THEOREM NoStrayResume == Spec => []CrashOnlyWhenDownOrRaced
<1>1. Inv => CrashOnlyWhenDownOrRaced
  BY PolicyOf, Zenon
     DEF Inv, PollInv, UringInv, FramesInv, CrashOnlyWhenDown, CrashOnlyWhenDownOrRaced
<1> QED BY <1>1, Invariance, PTL

\* Under the poll policies a response that is left in the buffer has the write event registered, or
\* reported (awaitable.cc:22-26).
THEOREM NoneForgotten == Spec => []ResponseNotForgotten
<1>1. Inv => ResponseNotForgotten
  BY Zenon DEF Inv, PollInv, SendInv, NoMessageForgotten, ResponseNotForgotten
<1> QED BY <1>1, Invariance, PTL

\* Under the uring policy a loop that waits with should_notify_ taken has its wakeup on the way
\* (uring_exector.cc:38, 104-115).
THEOREM WakeupOnTheWay == Spec => []RingWakeupNotSwallowed
<1>1. Inv => RingWakeupNotSwallowed
  <2>1. Cqes("wake") # {} => \E i \in DOMAIN cq : cq[i].op = "wake"
    BY Zenon DEF Cqes, Range
  <2> QED BY <2>1, Zenon DEF Inv, UringInv, WakeInv, RingWakeupNotSwallowed
<1> QED BY <1>1, Invariance, PTL

INSTANCE FiniteSetTheorems

\* The cardinality of a set with at most one element.
LEMMA CardinalityOfOne ==
  ASSUME NEW S, \A x, y \in S : x = y
  PROVE  Cardinality(S) = IF S = {} THEN 0 ELSE 1
<1>1. CASE S = {}
  BY <1>1, FS_EmptySet, Zenon
<1>2. CASE S # {}
  <2>1. PICK x : S = {x}
    <3>1. PICK y : y \in S
      BY <1>2, Zenon
    <3>2. S = {y}
      BY <3>1, Zenon
    <3> QED BY <3>2, Zenon
  <2> QED BY <1>2, <2>1, FS_Singleton, Zenon
<1> QED BY <1>1, <1>2, Zenon

\* An operation of a coroutine is counted once when it is in the ring.
LEMMA CountOfOne ==
  ASSUME RingInv, NEW o \in {"read", "write"}
  PROVE  Count(o) = IF InRing(o) THEN 1 ELSE 0
<1>1. OneInRing(o) /\ sq \in Seq(Ops) /\ cq \in Seq(CQE)
  BY Zenon DEF RingInv, RingTyped
<1>2. DOMAIN sq = 1 .. Len(sq) /\ DOMAIN cq = 1 .. Len(cq)
  BY <1>1
<1>3. Cardinality({i \in DOMAIN sq : sq[i] = o}) = IF Queued(o) THEN 1 ELSE 0
  <2>1. \A i, j \in {k \in DOMAIN sq : sq[k] = o} : i = j
    BY <1>1, <1>2, Zenon DEF OneInRing, OneSqe
  <2>2. {i \in DOMAIN sq : sq[i] = o} # {} <=> Queued(o)
    BY <1>2, Zenon DEF Queued
  <2> QED BY <2>1, <2>2, CardinalityOfOne, Zenon
<1>4. Cardinality(flight \cap {o}) = IF o \in flight THEN 1 ELSE 0
  <2>1. \A x, y \in flight \cap {o} : x = y
    BY Zenon
  <2>2. flight \cap {o} # {} <=> o \in flight
    BY Zenon
  <2> QED BY <2>1, <2>2, CardinalityOfOne, Zenon
<1>5. Cardinality({i \in DOMAIN cq : cq[i].op = o}) = IF Cqes(o) # {} THEN 1 ELSE 0
  <2>1. \A i, j \in {k \in DOMAIN cq : cq[k].op = o} : i = j
    BY <1>1, <1>2, Zenon DEF OneInRing, OneCqe
  <2>2. {i \in DOMAIN cq : cq[i].op = o} # {} <=> Cqes(o) # {}
    BY Zenon DEF Cqes, Range
  <2> QED BY <2>1, <2>2, CardinalityOfOne, Zenon
<1>6. Count(o) = (IF InHand(o) THEN 1 ELSE 0) + (IF Queued(o) THEN 1 ELSE 0)
                 + (IF o \in flight THEN 1 ELSE 0) + (IF Cqes(o) # {} THEN 1 ELSE 0)
  BY <1>3, <1>4, <1>5, Zenon DEF Count, InHand
<1>7. /\ InHand(o) => ~Queued(o) /\ o \notin flight /\ Cqes(o) = {}
      /\ Queued(o) => o \notin flight /\ Cqes(o) = {}
      /\ o \in flight => Cqes(o) = {}
  BY <1>1, Zenon DEF OneInRing
<1>8. CASE InHand(o)
  <2>1. Count(o) = 1 + 0 + 0 + 0 /\ InRing(o)
    BY <1>6, <1>7, <1>8, Zenon DEF InRing
  <2> QED BY <2>1
<1>9. CASE ~InHand(o) /\ Queued(o)
  <2>1. Count(o) = 0 + 1 + 0 + 0 /\ InRing(o)
    BY <1>6, <1>7, <1>9, Zenon DEF InRing
  <2> QED BY <2>1
<1>10. CASE ~InHand(o) /\ ~Queued(o) /\ o \in flight
  <2>1. Count(o) = 0 + 0 + 1 + 0 /\ InRing(o)
    BY <1>6, <1>7, <1>10, Zenon DEF InRing
  <2> QED BY <2>1
<1>11. CASE ~InHand(o) /\ ~Queued(o) /\ o \notin flight /\ Cqes(o) # {}
  <2>1. Count(o) = 0 + 0 + 0 + 1 /\ InRing(o)
    BY <1>6, <1>11, Zenon DEF InRing
  <2> QED BY <2>1
<1>12. CASE ~InHand(o) /\ ~Queued(o) /\ o \notin flight /\ Cqes(o) = {}
  <2>1. Count(o) = 0 + 0 + 0 + 0 /\ ~InRing(o)
    BY <1>6, <1>12, Zenon DEF InRing
  <2> QED BY <2>1
<1> QED BY <1>8, <1>9, <1>10, <1>11, <1>12, Zenon

\* Under the uring policy each coroutine's operation is in the ring exactly while it waits, and in
\* one place (uring_connection.cc), as long as the threads do not meet in the ring.
THEOREM OneOperationEach == Spec => []AwaitedInRing
<1>1. Inv => AwaitedInRing
  <2> SUFFICES ASSUME Inv, uring, ~overlap, ~crashed
               PROVE  /\ Count("read") = IF Suspended THEN 1 ELSE 0
                      /\ Count("write") <= IF back_left_ > 0 THEN 1 ELSE 0
                      /\ polite => Count("write") = IF back_left_ > 0 THEN 1 ELSE 0
                      /\ write_buf_ # <<>> /\ ~closed_ => back_left_ > 0
    BY Zenon DEF AwaitedInRing
  <2>1. RingInv /\ AwaitInv /\ FramesInv
    BY Zenon DEF Inv, UringInv
  <2>2. /\ Count("read") = IF InRing("read") THEN 1 ELSE 0
        /\ Count("write") = IF InRing("write") THEN 1 ELSE 0
    BY <2>1, CountOfOne, Zenon
  <2>3. /\ InRing("read") <=> Suspended
        /\ InRing("write") => back_left_ > 0
        /\ polite /\ back_left_ > 0 => InRing("write")
    BY <2>1, Zenon DEF AwaitInv
  <2>4. write_buf_ # <<>> /\ ~closed_ => back_left_ > 0
    BY <2>1, Zenon DEF FramesInv
  <2>5. 1 <= 1 /\ 0 <= 1 /\ 0 <= 0
    OBVIOUS
  <2>6. Count("write") <= IF back_left_ > 0 THEN 1 ELSE 0
    BY <2>2, <2>3, <2>5, Zenon
  <2> QED BY <2>2, <2>3, <2>4, <2>6, Zenon
<1> QED BY <1>1, Invariance, PTL
=============================================================================
