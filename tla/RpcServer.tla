----------------------------- MODULE RpcServer ------------------------------
(***************************************************************************)
(* One connection of RpcServer (server/rpc_server.cc), from start() that   *)
(* accepts it to the end of its coroutines, under both policies: what its  *)
(* recv_fn does with the requests, on top of PollConnection or of          *)
(* UringExecutor.  A response is the number of its request.                *)
(***************************************************************************)
EXTENDS PollConnection, UringExecutor

CONSTANT MaxRequests     \* bound: how many requests the peer sends, under each policy

Policies == {"epoll", "kqueue", "uring"}

ASSUME RequestsAssumption ==
  DOMAIN MaxRequests \subseteq Policies /\ \A p \in DOMAIN MaxRequests : MaxRequests[p] \in Nat

VARIABLE sent            \* how many units the peer sent

vars == <<conn_vars, poll_vars, uring_vars, sent>>

poll == policy \in {"epoll", "kqueue"}
uring == policy = "uring"

Init == ConnInit /\ PollInit /\ UringInit /\ policy \in DOMAIN MaxRequests /\ sent = 0

\* Unit n is the head of a request when n is odd, its body when n is even.
RequestOf(unit) == (unit.n + 1) \div 2

\* external: what the peer does, and what the poll makes of it.
Peer(A, filters) == /\ A
                    /\ IF poll THEN Notified(filters) ELSE UNCHANGED poll_vars
                    /\ UNCHANGED uring_vars

\* It sends, and stops sending; a polite one does so when all is answered.
PeerSend(good) ==
  /\ sent < 2 * MaxRequests[policy] /\ (good \/ rude)
  /\ Peer(Arrives([n |-> sent + 1, good |-> good]), {"IN"})
  /\ sent' = sent + 1

PeerDone ==
  /\ polite => sent = 2 * Len(wire) /\ unread = 0
  /\ Peer(PeerFin, {"IN"})
  /\ UNCHANGED sent
-----------------------------------------------------------------------------
\* The loops around async_read.  The one for the body does not look at closed().
Receive ==
  /\ read_buf_ = <<>> /\ (recv_fn = "body" \/ ~closed_)
  /\ \/ poll /\ AsyncRead /\ UNCHANGED uring_vars
     \/ uring /\ UringAsyncRead /\ UNCHANGED poll_vars
  /\ UNCHANGED sent

\* The executor's thread is in recv_fn, and not in the ring.
RecvFn(place) == recv_fn = place /\ at["loop"] = "no" /\ ~crashed

\* The head is there: its header is parsed and checked, service and method are looked up.
HandleHead ==
  /\ RecvFn("head") /\ read_buf_ # <<>>
  /\ read_buf_' = Tail(read_buf_)
  /\ recv_fn' = IF Head(read_buf_).good THEN "body" ELSE "close"
  /\ UNCHANGED <<peer_vars, closed_, write_buf_, wire, send_fn, crashed, poll_vars, uring_vars,
                 sent>>

HeadMissing ==
  /\ RecvFn("head") /\ read_buf_ = <<>> /\ closed_
  /\ recv_fn' = "close"
  /\ UNCHANGED <<peer_vars, bufs, send_fn, crashed, poll_vars, uring_vars, sent>>

\* The response is in the buffer: resume_write.
Respond(buf) ==
  \/ /\ poll /\ ResumeWrite(buf, closed_) /\ AddWriteEvent(interest, edge)
     /\ UNCHANGED <<events, uring_vars>>
  \/ /\ uring /\ write_buf_' = buf /\ UringResumeWrite(buf, back_left_, closed_)
     /\ UNCHANGED <<wire, unread, poll_vars, main, spawned, loop, should_notify_, sq, sqe, flight,
                    cq, overlap>>

\* The body is there: it is parsed, the method called, the response put into the buffer.
HandleBody ==
  /\ RecvFn("body") /\ read_buf_ # <<>>
  /\ read_buf_' = Tail(read_buf_)
  /\ \/ /\ ~Head(read_buf_).good /\ recv_fn' = "close"
        /\ UNCHANGED <<write_buf_, wire, unread, send_fn, crashed, poll_vars, uring_vars>>
     \/ /\ Head(read_buf_).good /\ recv_fn' = "head"
        /\ Respond(Append(write_buf_, RequestOf(Head(read_buf_))))
  /\ UNCHANGED <<env, peer, sock, closed_, sent>>
-----------------------------------------------------------------------------
\* spawn under the poll policy; EpollExecutor is about its wakeup.
PollSpawn ==
  /\ main = "push" /\ ~crashed
  /\ spawned' = spawned + 1 /\ main' = IF spawned = 0 THEN "push" ELSE "accept"
  /\ UNCHANGED <<conn_vars, loop, should_notify_, ring_vars, back_left_>>

\* The thread of start(), and the thread of the executor.
Start == (Accept \/ (poll /\ PollSpawn) \/ (uring /\ Spawner)) /\ UNCHANGED <<poll_vars, sent>>

PollStep == (StartSend /\ spawned >= 1) \/ (StartRecv /\ spawned = 2) \/ ConnStep

Executor == \/ Receive \/ HandleHead \/ HeadMissing \/ HandleBody
            \/ poll /\ PollStep /\ UNCHANGED <<uring_vars, sent>>
            \/ uring /\ UringLoop /\ UNCHANGED <<poll_vars, sent>>

\* external: the kernel completes what is in the ring.
KernelRead == KernelReads /\ UNCHANGED <<poll_vars, sent>>
KernelWrite == KernelWrites /\ UNCHANGED <<poll_vars, sent>>

Next == \/ \E good \in BOOLEAN : PeerSend(good)
        \/ PeerDone
        \/ Peer(PeerReset, Filters) /\ UNCHANGED sent
        \/ Peer(PeerReads, {"OUT"}) /\ UNCHANGED sent
        \/ KernelRead \/ KernelWrite
        \/ Start \/ Executor

Spec == Init /\ [][Next]_vars

\* Both threads run, the peer reads what it is sent, and the kernel completes what it can.
FairSpec == /\ Spec /\ WF_vars(Start) /\ WF_vars(Executor)
            /\ WF_vars(KernelRead) /\ WF_vars(KernelWrite)
            /\ WF_vars(Peer(PeerReads, {"OUT"}) /\ UNCHANGED sent)
-----------------------------------------------------------------------------
\* Every variable has its type; what is received was sent.
TypeOK ==
  /\ ConnTypeOK /\ (poll => PollTypeOK) /\ (uring => UringTypeOK)
  /\ sent \in 0 .. 2 * MaxRequests[policy]
  /\ Range(sock) \cup Range(read_buf_) \subseteq [n : 1 .. sent, good : BOOLEAN]

\* What of the buffer is not on the wire: the completion of a writev may still be in the ring.
Unwritten ==
  LET written == {cq[i].n : i \in {i \in DOMAIN cq : cq[i].op = "write" /\ cq[i].n > 0}}
  IN  SubSeq(write_buf_, 1 + Max({0} \cup written), Len(write_buf_))

\* The responses, written or still in the buffer, are those to the requests received in full, in
\* their order, one each, however reads and writes are cut and send_fn is resumed from two sides.
ResponsesInOrder ==
  /\ wire \o Unwritten = [i \in 1 .. Len(wire \o Unwritten) |-> i]
  /\ Len(wire \o Unwritten) <= sent \div 2

\* Under the poll policy a response waits in the buffer only while the kernel will resume send_fn.
ResponseNotForgotten == poll => NoMessageForgotten

\* While the connection is up no coroutine is resumed that was destroyed, unless two threads were
\* at the ring at the same time (uring_exector.cc:106).
CrashOnlyWhenDownOrRaced == CrashOnlyWhenDown \/ (uring /\ overlap)

\* Under the uring policy what the coroutines wait for is in the ring, once: a read exactly while
\* recv_fn is suspended, never two into one buffer; a writev exactly while back_left_ counts
\* messages, if the peer takes it whole; and nothing when the connection is gone, whose memory the
\* kernel would use.  Two threads at the ring at the same time lose entries.
AwaitedInRing ==
  uring /\ ~overlap /\ ~crashed =>
    /\ Count("read") = IF Suspended THEN 1 ELSE 0
    /\ Count("write") <= IF back_left_ > 0 THEN 1 ELSE 0
    /\ polite => Count("write") = IF back_left_ > 0 THEN 1 ELSE 0
    /\ write_buf_ # <<>> /\ ~closed_ => back_left_ > 0

\* Under the uring policy the flag never swallows a wakeup: a loop that waits with should_notify_
\* taken has the eventfd's write in the ring, or a spawn is about to submit it.
RingWakeupNotSwallowed ==
  uring /\ loop = "wait" /\ ~should_notify_ /\ ~overlap /\ ~crashed =>
    main = "ring" \/ \E i \in DOMAIN cq : cq[i].op = "wake"

\* A task was pushed between the loop's last empty pop and its store of should_notify_
\* (uring_exector.cc:31-38), or two threads met in the ring: nobody wakes the loop.
Stranded == uring /\ (overlap \/ (loop = "wait" /\ Started < spawned /\ cq = <<>> /\ main = "accept"))

\* Again and again every request that the peer has sent in full is answered, while it stays and
\* reads.
RequestsAnswered == polite => []<>(Len(wire) = sent \div 2 \/ Stranded)

\* When a peer that owes and is owed nothing has closed, both coroutines end and the descriptor
\* is closed.  kqueue's loop closes the connection itself at EV_EOF and resumes nobody
\* (kqueue_executor.cc:74-82).
IdleEofDestroysCoroutines ==
  polite /\ policy # "kqueue" /\ peer = "fin" ~> Released \/ Stranded

\* The same, whenever a peer closes that is not rude
\* ("read EOF, connection close, destory coroutine", awaitable.cc:15).
EofDestroysCoroutines == ~rude /\ peer = "fin" ~> Released
=============================================================================
