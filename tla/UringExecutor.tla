--------------------------- MODULE UringExecutor ----------------------------
(***************************************************************************)
(* A connection under the uring policy: UringExecutor                      *)
(* (scheduler/uring_exector.cc) with its loop, its wakeup and its ring,    *)
(* and the UringConnection (net/uring_connection.cc) whose reads and       *)
(* writes go through that ring.  The thread that runs RpcServer::start     *)
(* spawns the two coroutines of a connection.                              *)
(*                                                                         *)
(* The ring belongs to no thread: spawn takes an entry of the submission   *)
(* queue and submits while the loop does the same, without a lock.         *)
(* io_uring_get_sqe reads the tail of the queue and stores it back one     *)
(* higher, in two steps; an entry is filled in after it was taken.  An     *)
(* entry that is submitted before it is filled in is taken for the no-op   *)
(* that a ring starts with.                                                *)
(***************************************************************************)
EXTENDS Connection

CONSTANT MAX_RING_LEN    \* uring_exector.cc:13, 16384 in the code

ASSUME RingAssumption == MAX_RING_LEN \in Nat \ {0}

Threads == {"main", "loop"}
Other(t) == IF t = "main" THEN "loop" ELSE "main"

VARIABLES
  main,            \* where start() is: "accept", "push", "cas", "ring"
  spawned,         \* how many of its two tasks it has pushed
  loop,            \* where the loop is: "tasks", "arm", "wait", "cqes"
  should_notify_,
  sq,              \* the submission queue: operations, or "unset"
  at,              \* a thread's place in io_uring_get_sqe and prep: "no", "tail", "take", "prep"
  op, sqe,         \* what it is to prepare there; the place in sq it read as the tail
  flight,          \* the operations the kernel is at
  cq,              \* the completion queue
  back_left_,      \* in messages
  overlap          \* history: a thread used the ring while the other had an entry in its hands

ring_vars == <<sq, at, op, sqe, flight, cq, overlap>>
uring_vars == <<main, spawned, loop, should_notify_, ring_vars, back_left_>>

UringInit ==
  /\ main = "accept" /\ spawned = 0 /\ loop = "tasks" /\ should_notify_ = FALSE
  /\ sq = <<>> /\ at = [t \in Threads |-> "no"]
  /\ op = [t \in Threads |-> "unset"] /\ sqe = [t \in Threads |-> 0]
  /\ flight = {} /\ cq = <<>> /\ back_left_ = 0 /\ overlap = FALSE
-----------------------------------------------------------------------------
(* The ring *)

\* A thread is about to put operation o into the ring.
Wants(t, o) == at' = [at EXCEPT ![t] = "tail"] /\ op' = [op EXCEPT ![t] = o]
WantsNothing == UNCHANGED <<at, op>>

Overlaps(t) == overlap' = (overlap \/ at[Other(t)] \in {"take", "prep"})

Cqe(o, n, units) == [op |-> o, n |-> n, units |-> units]

\* io_uring_submit: the kernel takes all entries; the write to the eventfd is done at once.
Submit(t) ==
  /\ flight' = flight \cup (Range(sq) \cap {"read", "write"})
  /\ LET now == {i \in DOMAIN sq : sq[i] \in {"wake", "unset"}}
     IN  \E k \in 0 .. Len(sq) : \E done \in Bijection(1 .. k, now) :
           /\ \A i, j \in DOMAIN done : i < j => done[i] < done[j]
           /\ cq' = cq \o [i \in DOMAIN done |-> Cqe(sq[done[i]], 0, <<>>)]
  /\ sq' = <<>>
  /\ sqe' = [u \in Threads |-> IF at[u] \in {"take", "prep"} THEN Max({-1, sqe[u] - Len(sq)}) ELSE 0]
  /\ Overlaps(t)

\* io_uring_get_sqe: no entry is free, so the caller submits and tries again, or
RingFull(t) ==
  /\ at[t] = "tail" /\ Len(sq) >= MAX_RING_LEN
  /\ Submit(t)
  /\ UNCHANGED <<at, op, crashed>>

LoadSqeTail(t) ==
  /\ at[t] = "tail" /\ Len(sq) < MAX_RING_LEN
  /\ sqe' = [sqe EXCEPT ![t] = Len(sq) + 1] /\ at' = [at EXCEPT ![t] = "take"]
  /\ Overlaps(t)
  /\ UNCHANGED <<sq, op, flight, cq, crashed>>

\* sqe_tail is stored one higher, which takes entries away from a thread that was faster.  A tail
\* behind what the kernel has taken is a ring full of old entries to it: nothing is known then.
StoreSqeTail(t) ==
  /\ at[t] = "take"
  /\ crashed' = (sqe[t] < 0)
  /\ sq' = IF sqe[t] > Len(sq) THEN Append(sq, "unset") ELSE SubSeq(sq, 1, sqe[t])
  /\ at' = [at EXCEPT ![t] = "prep"]
  /\ Overlaps(t)
  /\ UNCHANGED <<op, sqe, flight, cq>>

\* io_uring_prep_*: the entry is filled in, if it is still in the queue.
PrepSqe(t) ==
  /\ at[t] = "prep"
  /\ sq' = IF sqe[t] \in DOMAIN sq THEN [sq EXCEPT ![sqe[t]] = op[t]] ELSE sq
  /\ at' = [at EXCEPT ![t] = "no"] /\ sqe' = [sqe EXCEPT ![t] = 0]
  /\ op' = [op EXCEPT ![t] = "unset"]
  /\ Overlaps(t)
  /\ UNCHANGED <<flight, cq, crashed>>

UseRing(t) ==
  /\ ~crashed
  /\ RingFull(t) \/ LoadSqeTail(t) \/ StoreSqeTail(t) \/ PrepSqe(t)
  /\ UNCHANGED <<peer_vars, bufs, send_fn, recv_fn, main, spawned, loop, should_notify_, back_left_>>
-----------------------------------------------------------------------------
(* external: the kernel completes an operation *)

Completes(o, n, units) ==
  /\ o \in flight /\ ~crashed
  /\ flight' = flight \ {o} /\ cq' = Append(cq, Cqe(o, n, units))
  /\ UNCHANGED <<main, spawned, loop, should_notify_, sq, at, op, sqe, back_left_, overlap>>

Error == -1

KernelReads ==
  /\ \/ \E n \in 1 .. Len(sock) :
          /\ Completes("read", n, SubSeq(sock, 1, n))
          /\ sock' = SubSeq(sock, n + 1, Len(sock))
     \/ sock = <<>> /\ peer = "fin" /\ Completes("read", 0, <<>>) /\ UNCHANGED sock
     \/ peer = "reset" /\ (\E n \in {Error, 0} : Completes("read", n, <<>>)) /\ UNCHANGED sock
  /\ UNCHANGED <<env, peer, unread, bufs, send_fn, recv_fn, crashed>>

\* While the peer is polite, the socket has room for all of a writev.  A write after shutdown
\* raises SIGPIPE; one to a reset connection does, or fails.
KernelWrites ==
  /\ \/ /\ ~closed_ /\ peer # "reset"
        /\ \E n \in IF polite THEN {back_left_} ELSE 1 .. back_left_ :
             /\ polite \/ n <= Room
             /\ Completes("write", n, <<>>)
             /\ wire' = wire \o SubSeq(write_buf_, 1, n) /\ unread' = unread + n
             /\ UNCHANGED crashed
     \/ /\ closed_ \/ peer = "reset"
        /\ Completes("write", Error, <<>>)
        /\ crashed' \in IF closed_ THEN {TRUE} ELSE BOOLEAN
        /\ UNCHANGED <<wire, unread>>
  /\ UNCHANGED <<env, peer, sock, closed_, read_buf_, write_buf_, send_fn, recv_fn>>
-----------------------------------------------------------------------------
(* The coroutines *)

\* Mutant of UringResumeWrite: async_write does not look at what is in flight.
WriteTwice(buf, left, closed) ==
  LET goes_on == send_fn = "wait" \/ (send_fn = "write" /\ ~closed /\ buf # <<>>)
      starts == goes_on /\ buf # <<>>
  IN  /\ crashed' = (send_fn \in {"new", "done"})
      /\ send_fn' = IF starts THEN "write" ELSE IF goes_on THEN "wait" ELSE send_fn
      /\ back_left_' = IF starts THEN Len(buf) ELSE left
      /\ IF starts THEN Wants("loop", "write") ELSE WantsNothing

\* resume_write, with buf to write, left of it in flight, and the connection closed or not:
\* send_fn runs until it is suspended or returns.  async_write waits for a writev in flight, and
\* starts one when there is none.
UringResumeWrite(buf, left, closed) ==
  LET goes_on == send_fn = "wait" \/ (send_fn = "write" /\ ~closed /\ buf # <<>>)
      starts == goes_on /\ left = 0 /\ buf # <<>>
  IN  /\ crashed' = (send_fn \in {"new", "done"})
      /\ send_fn' = IF send_fn \in {"new", "done"} THEN send_fn
                    ELSE IF goes_on /\ left > 0 THEN "write"
                    ELSE IF closed THEN "done"
                    ELSE IF starts THEN "write" ELSE "wait"
      /\ back_left_' = IF starts THEN Len(buf) ELSE left
      /\ IF starts THEN Wants("loop", "write") ELSE WantsNothing

\* async_read always puts a read into the ring.  ReadAwaiter does not suspend recv_fn when the
\* connection is closed, and a loop that does not ask for that reads again, for ever.
UringAsyncRead ==
  /\ recv_fn \in {"head", "body"} /\ at["loop"] = "no" /\ ~crashed
  /\ \/ ~closed_ /\ Wants("loop", "read") /\ recv_fn' = WaitIn[recv_fn]
     \/ closed_ /\ recv_fn' = "spin" /\ WantsNothing
  /\ UNCHANGED <<peer_vars, bufs, send_fn, crashed, main, spawned, loop, should_notify_, sq, sqe,
                 flight, cq, back_left_, overlap>>

UringFinishRecv ==
  /\ recv_fn = "close" /\ at["loop"] = "no" /\ ~crashed
  /\ closed_' = TRUE /\ recv_fn' = "done"
  /\ UNCHANGED <<peer_vars, read_buf_, write_buf_, wire, send_fn, crashed, uring_vars>>
-----------------------------------------------------------------------------
(* RpcServer::start and UringExecutor::spawn *)

Accept ==
  /\ main = "accept" /\ spawned = 0 /\ ~crashed
  /\ main' = "push"
  /\ UNCHANGED <<conn_vars, spawned, loop, should_notify_, ring_vars, back_left_>>

\* spawn of send_fn, then of recv_fn: push the task,
SpawnPush ==
  /\ main = "push" /\ ~crashed
  /\ spawned' = spawned + 1 /\ main' = "cas"
  /\ UNCHANGED <<conn_vars, loop, should_notify_, ring_vars, back_left_>>

\* What start() does behind a call of spawn.
AfterSpawn == IF spawned = 2 THEN "accept" ELSE "push"

\* claim the wakeup of the loop, if it is owed one,
SpawnCas ==
  /\ main = "cas" /\ ~crashed
  /\ \/ should_notify_ /\ main' = "ring" /\ Wants("main", "wake")
     \/ ~should_notify_ /\ main' = AfterSpawn /\ WantsNothing
  /\ should_notify_' = FALSE
  /\ UNCHANGED <<conn_vars, spawned, loop, sq, sqe, flight, cq, overlap, back_left_>>

\* Mutant of SpawnSubmit: the entry is left to the loop to submit.
SubmitForgotten ==
  /\ main = "ring" /\ at["main"] = "no" /\ ~crashed
  /\ main' = AfterSpawn
  /\ UNCHANGED <<conn_vars, spawned, loop, should_notify_, ring_vars, back_left_>>

\* and submit the write to the eventfd.
SpawnSubmit ==
  /\ main = "ring" /\ at["main"] = "no" /\ ~crashed
  /\ Submit("main") /\ main' = AfterSpawn
  /\ UNCHANGED <<conn_vars, spawned, loop, should_notify_, at, op, back_left_>>

Spawner == SpawnPush \/ SpawnCas \/ UseRing("main") \/ SpawnSubmit
-----------------------------------------------------------------------------
(* The loop *)

Started == IF recv_fn # "new" THEN 2 ELSE IF send_fn # "new" THEN 1 ELSE 0
\* The loop's thread is not inside a coroutine.
InLoop(place) == loop = place /\ ~Running /\ at["loop"] = "no" /\ ~crashed

\* A task is popped and run: send_fn waits for data, recv_fn starts.
RunTask ==
  /\ InLoop("tasks") /\ Started < spawned
  /\ IF send_fn = "new" THEN send_fn' = "wait" /\ UNCHANGED recv_fn
                        ELSE recv_fn' = "head" /\ UNCHANGED send_fn
  /\ UNCHANGED <<peer_vars, bufs, crashed, uring_vars>>

NoMoreTasks ==
  /\ InLoop("tasks") /\ Started = spawned
  /\ Submit("loop") /\ loop' = "arm"
  /\ UNCHANGED <<conn_vars, main, spawned, should_notify_, at, op, back_left_>>

Arm ==
  /\ InLoop("arm")
  /\ should_notify_' = TRUE /\ loop' = "wait"
  /\ UNCHANGED <<conn_vars, main, spawned, ring_vars, back_left_>>

WaitCqe ==
  /\ InLoop("wait") /\ cq # <<>>
  /\ loop' = "cqes"
  /\ UNCHANGED <<conn_vars, main, spawned, should_notify_, ring_vars, back_left_>>

NoMoreCqes ==
  /\ InLoop("cqes") /\ cq = <<>>
  /\ loop' = "tasks"
  /\ UNCHANGED <<conn_vars, main, spawned, should_notify_, ring_vars, back_left_>>

\* The next completion is taken from the queue.
Seen(o) == /\ InLoop("cqes") /\ cq # <<>> /\ Head(cq).op = o
           /\ cq' = Tail(cq)
           /\ UNCHANGED <<main, spawned, loop, sq, sqe, flight, overlap>>

\* The eventfd, and an entry without a connection.
WakeCqe ==
  /\ Seen("wake")
  /\ should_notify_' = FALSE
  /\ UNCHANGED <<conn_vars, at, op, back_left_>>

NullCqe ==
  /\ Seen("unset")
  /\ UNCHANGED <<conn_vars, should_notify_, at, op, back_left_>>

ResumeRead == recv_fn' = IF Suspended THEN ResumeIn[recv_fn] ELSE recv_fn

\* End of file: close, let send_fn end unless a writev is in flight, and resume recv_fn.
EofCqe ==
  /\ Seen("read") /\ Head(cq).n = 0
  /\ closed_' = TRUE
  /\ IF back_left_ = 0 THEN UringResumeWrite(write_buf_, 0, TRUE)
     ELSE crashed' = ~Suspended /\ WantsNothing /\ UNCHANGED <<send_fn, back_left_>>
  /\ ResumeRead
  /\ UNCHANGED <<peer_vars, read_buf_, write_buf_, wire, should_notify_>>

\* Bytes, or an error, which recv_add takes for none.
ReadCqe ==
  /\ Seen("read") /\ Head(cq).n # 0
  /\ read_buf_' = read_buf_ \o Head(cq).units
  /\ crashed' = ~Suspended /\ ResumeRead
  /\ UNCHANGED <<peer_vars, closed_, write_buf_, wire, send_fn, should_notify_, at, op, back_left_>>

\* send_add and resume_write.  An error leaves back_left_ above zero for good.
WriteCqe ==
  /\ Seen("write")
  /\ LET n == Max({0, Head(cq).n})
         rest == SubSeq(write_buf_, n + 1, Len(write_buf_))
     IN  write_buf_' = rest /\ UringResumeWrite(rest, back_left_ - n, closed_)
  /\ UNCHANGED <<peer_vars, closed_, read_buf_, wire, recv_fn, should_notify_>>

UringLoop ==
  \/ RunTask \/ NoMoreTasks \/ Arm \/ WaitCqe \/ NoMoreCqes \/ UseRing("loop")
  \/ WakeCqe \/ NullCqe \/ EofCqe \/ ReadCqe \/ WriteCqe \/ UringFinishRecv
-----------------------------------------------------------------------------
(* Properties *)
Count(o) == (IF at["loop"] # "no" /\ op["loop"] = o THEN 1 ELSE 0)
            + Cardinality({i \in DOMAIN sq : sq[i] = o})
            + Cardinality(flight \cap {o})
            + Cardinality({i \in DOMAIN cq : cq[i].op = o})

\* Every variable has its type.
UringTypeOK ==
  /\ main \in {"accept", "push", "cas", "ring"} /\ spawned \in 0 .. 2
  /\ loop \in {"tasks", "arm", "wait", "cqes"}
  /\ Len(sq) <= MAX_RING_LEN /\ flight \subseteq {"read", "write"}
  /\ back_left_ \in 0 .. Len(write_buf_)
  /\ {should_notify_, overlap} \subseteq BOOLEAN
=============================================================================
