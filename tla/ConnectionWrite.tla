--------------------------- MODULE ConnectionWrite --------------------------
(***************************************************************************)
(* The sending side of a connection.  The coroutine send_fn of the server  *)
(* (server/rpc_server.cc) and of the client puts messages into the         *)
(* OutputBuffer, and async_write hands its bytes to the kernel: at once,   *)
(* to a non-blocking socket, in a PollConnection (net/poll_connection.cc); *)
(* by a writev that completes later in a UringConnection                   *)
(* (net/uring_connection.cc), whose completion UringExecutor takes from    *)
(* the ring (scheduler/uring_exector.cc).  There at most one writev is     *)
(* meant to be in flight; back_left_ counts its bytes.                     *)
(***************************************************************************)
EXTENDS OutputBuffer

CONSTANTS MessageSizes,     \* how many bytes a serialized header or message may take
          PrefixSize,       \* the length in front of each, 4 in the code
          MaxBytes,         \* bound: how many bytes are sent in all
          SendBuffer        \* the room in the socket's send buffer

ASSUME WriteAssumption ==
  /\ MessageSizes \subseteq Nat /\ {PrefixSize, SendBuffer} \subseteq Nat \ {0}
  /\ MaxBytes \in Nat /\ MaxBytes + kBlockSize < SizeMod

VARIABLES policy,           \* which connection the SchedPolicy of the executor calls for
          steady,           \* so far one writev was enough for each async_write
          buf,              \* write_buf_
          appended,         \* how many bytes were put into it
          wire,             \* the bytes the kernel accepted, in order
          pc,               \* what the executor's thread is doing
          at,               \* where send_fn is: in WaitWriteAwaiter ("wait") or async_write ("write")
          parts,            \* the parts of the message that are still to be put into the buffer
          left,             \* the bytes that the loop at hand has still to do
          unused,           \* what protobuf got from next and has not filled
          room,             \* poll: free space in the socket's send buffer
          epollout,         \* poll: EPOLLOUT is registered
          need_write, nwrite,
          back_left_,
          sqe,              \* uring: the bytes of the iovecs of the writev in flight, or NoSqe
          cqe               \* uring: <<the result of the completed writev>>, or NoCqe

msgvars == <<appended, parts, unused>>
pollvars == <<room, epollout, need_write, nwrite>>
ringvars == <<back_left_, sqe, cqe>>
vars == <<policy, steady, buf, wire, pc, at, left, msgvars, pollvars, ringvars>>

NoSqe == <<>>
NoCqe == <<>>
ECONNRESET == -1            \* a negative result: the writev failed

Init == /\ policy \in {"poll", "uring"} /\ steady = TRUE
        /\ buf = NewOutputBuffer /\ wire = <<>> /\ pc = "idle" /\ at = "wait"
        /\ appended = 0 /\ parts = <<>> /\ left = 0 /\ unused = 0
        /\ room = SendBuffer /\ epollout = FALSE /\ need_write = 0 /\ nwrite = 0
        /\ back_left_ = 0 /\ sqe = NoSqe /\ cqe = NoCqe

\* send_fn goes on: from WaitWriteAwaiter to async_write, and from there to WaitWriteAwaiter, which
\* does not suspend it if there are bytes to write.
ResumeWrite ==
  LET writes == at = "wait" \/ buf'.to_write_bytes_ > 0
  IN  /\ pc' = IF writes THEN "async_write" ELSE "idle"
      /\ at' = IF writes THEN "write" ELSE "wait"
-----------------------------------------------------------------------------
(* A message *)
\* A response, or a request: a header and a body, each behind its length.
StartMessage(header, body) ==
  /\ pc = "idle"
  /\ appended + 2 * PrefixSize + header + body <= MaxBytes
  /\ parts' = <<header, body>> /\ left' = PrefixSize /\ pc' = "append"
  /\ UNCHANGED <<policy, steady, buf, wire, at, appended, unused, pollvars, ringvars>>

\* A turn of the loop of append.
AppendLength ==
  /\ pc = "append"
  /\ LET n == Min({left, Room(buf)}) IN
     /\ buf' = append(buf, appended + 1, n) /\ appended' = appended + n
     /\ IF n = left THEN pc' = "serialize" /\ left' = Head(parts) /\ parts' = Tail(parts)
        ELSE left' = left - n /\ UNCHANGED <<pc, parts>>
  /\ UNCHANGED <<policy, steady, wire, at, unused, pollvars, ringvars>>

\* external: SerializeToZeroCopyStream takes memory with Next while it has bytes left, or once more
\* than it needs,
SerializeNext ==
  /\ pc = "serialize" /\ unused = 0
  /\ buf' = next(buf) /\ unused' = Room(buf) + IF Room(buf) = 0 THEN kBlockSize ELSE 0
  /\ UNCHANGED <<policy, steady, wire, pc, at, left, appended, parts, pollvars, ringvars>>

\* fills it
SerializeBytes ==
  /\ pc = "serialize" /\ left > 0 /\ unused > 0
  /\ LET n == Min({left, unused}) IN
     /\ buf' = [buf EXCEPT !.blocks[Len(buf.blocks)] =
                              memcpy(@, @.end - unused, appended + 1, n)]
     /\ appended' = appended + n /\ left' = left - n /\ unused' = unused - n
  /\ UNCHANGED <<policy, steady, wire, pc, at, parts, pollvars, ringvars>>

\* and gives back what it did not use.  Then comes the next part, or resume_write.
SerializeDone ==
  /\ pc = "serialize" /\ left = 0
  /\ buf' = back_up(buf, unused) /\ unused' = 0
  /\ IF parts = <<>> THEN ResumeWrite /\ left' = 0
     ELSE pc' = "append" /\ left' = PrefixSize /\ UNCHANGED at
  /\ UNCHANGED <<policy, steady, wire, appended, parts, pollvars, ringvars>>
-----------------------------------------------------------------------------
(* send_add: the loop, and what its caller does after it *)
StartSendAdd(n) ==
  /\ pc' = "send_add"
  /\ left' = IF n <= 0 THEN 0 ELSE n
  /\ buf' = IF n <= 0 THEN buf ELSE [buf EXCEPT !.to_write_bytes_ = (@ - n) % SizeMod]

SendAdd ==
  /\ pc = "send_add" /\ left > 0
  /\ buf' = send_add(buf, left)
  /\ left' = left - Min({left, buf.blocks[1].end - buf.blocks[1].begin})
  /\ UNCHANGED <<policy, steady, wire, pc, at, msgvars, pollvars, ringvars>>

\* Mutant of SendAddDone: send_fn does not wait for the event after a short write.
DoneNoEvent ==
  /\ pc = "send_add" /\ left = 0
  /\ pc' = "idle" /\ at' = "wait"
  /\ UNCHANGED <<policy, steady, buf, wire, left, msgvars, pollvars, ringvars>>

\* In a PollConnection send_fn itself goes on: after a short write it waits for EPOLLOUT.  The
\* executor of a UringConnection calls resume_write.
SendAddDone ==
  /\ pc = "send_add" /\ left = 0
  /\ UNCHANGED <<policy, steady, buf, wire, left, msgvars, room, need_write, nwrite, ringvars>>
  /\ IF policy = "poll" /\ nwrite < need_write THEN pc' = "idle" /\ epollout' = TRUE /\ UNCHANGED at
     ELSE ResumeWrite /\ UNCHANGED epollout
-----------------------------------------------------------------------------
(* PollConnection *)
AsyncWrite ==
  /\ policy = "poll" /\ pc = "async_write"
  /\ need_write' = buf.to_write_bytes_ /\ nwrite' = 0 /\ pc' = "writev"
  /\ UNCHANGED <<policy, steady, buf, wire, at, left, msgvars, room, epollout, ringvars>>

\* writev takes what fits into the send buffer.
Writev ==
  /\ pc = "writev" /\ nwrite < need_write /\ room > 0
  /\ LET iovs == get_iovecs(buf)
         n == Min({room, Len(iovs)})
     IN  /\ wire' = wire \o SubSeq(iovs, 1, n)
         /\ room' = room - n /\ nwrite' = nwrite + n
  /\ steady' = (steady /\ nwrite = 0)
  /\ UNCHANGED <<policy, buf, pc, at, left, msgvars, epollout, need_write, ringvars>>

\* Mutant of Written: what was to be written is taken off.
WrittenAll ==
  /\ pc = "writev" /\ (nwrite >= need_write \/ room = 0)
  /\ StartSendAdd(need_write)
  /\ UNCHANGED <<policy, steady, wire, at, msgvars, pollvars, ringvars>>

\* All is written, or the kernel says EAGAIN.
Written ==
  /\ pc = "writev" /\ (nwrite >= need_write \/ room = 0)
  /\ StartSendAdd(nwrite)
  /\ UNCHANGED <<policy, steady, wire, at, msgvars, pollvars, ringvars>>

\* EPOLLOUT, once: resumes send_fn wherever it is suspended (in WaitWriteAwaiter, when a message
\* resumed it before the event came).
WriteEvent ==
  /\ policy = "poll" /\ pc = "idle" /\ epollout /\ room > 0
  /\ epollout' = FALSE
  /\ UNCHANGED <<policy, steady, buf, wire, left, msgvars, room, need_write, nwrite, ringvars>>
  /\ ResumeWrite

\* external: the peer reads and the send buffer drains.
PeerReads ==
  /\ room < SendBuffer
  /\ room' \in room + 1 .. SendBuffer
  /\ UNCHANGED <<policy, steady, buf, wire, pc, at, left, msgvars>>
  /\ UNCHANGED <<epollout, need_write, nwrite, ringvars>>
-----------------------------------------------------------------------------
(* UringConnection *)
\* A writev is out: wait for its completion.
AsyncWriteSuspends ==
  /\ policy = "uring" /\ pc = "async_write" /\ back_left_ > 0
  /\ pc' = "idle"
  /\ UNCHANGED <<policy, steady, buf, wire, at, left, msgvars, pollvars, ringvars>>

\* Mutant of AsyncWriteSubmits: back_left_ is not set, so that nothing holds up a second writev.
SubmitsUncounted ==
  /\ policy = "uring" /\ pc = "async_write" /\ back_left_ = 0 /\ buf.to_write_bytes_ > 0
  /\ sqe' = sqe \o get_iovecs(buf)
  /\ pc' = "idle"
  /\ UNCHANGED <<policy, steady, buf, wire, at, left, msgvars, pollvars, back_left_, cqe>>

\* There is something to write: WaitWriteAwaiter lets send_fn go on with nothing only when the
\* connection is closed.
AsyncWriteSubmits ==
  /\ policy = "uring" /\ pc = "async_write" /\ back_left_ = 0 /\ buf.to_write_bytes_ > 0
  /\ back_left_' = buf.to_write_bytes_ /\ sqe' = get_iovecs(buf)
  /\ pc' = "idle"
  /\ UNCHANGED <<policy, steady, buf, wire, at, left, msgvars, pollvars, cqe>>

\* external: the kernel performs the writev, or a part of it, or fails.
KernelWrites ==
  /\ sqe # NoSqe /\ cqe = NoCqe
  /\ \E n \in 1 .. Len(sqe) :
       /\ wire' = wire \o SubSeq(sqe, 1, n)
       /\ cqe' = <<n>>
       /\ steady' = (steady /\ n = back_left_)
  /\ sqe' = NoSqe
  /\ UNCHANGED <<policy, buf, pc, at, left, msgvars, pollvars, back_left_>>

KernelFails ==
  /\ sqe # NoSqe /\ cqe = NoCqe
  /\ cqe' = <<ECONNRESET>> /\ sqe' = NoSqe /\ steady' = FALSE
  /\ UNCHANGED <<policy, buf, wire, pc, at, left, msgvars, pollvars, back_left_>>

\* Mutant of Completion: Connection::send_add is called, which knows nothing of back_left_.
CompletionKeepsBackLeft ==
  /\ cqe # NoCqe /\ pc = "idle"
  /\ StartSendAdd(cqe[1]) /\ cqe' = NoCqe
  /\ UNCHANGED <<policy, steady, wire, at, msgvars, pollvars, back_left_, sqe>>

\* The executor takes the completion: send_add(cqe->res), then resume_write.
Completion ==
  /\ cqe # NoCqe /\ pc = "idle"
  /\ back_left_' = (back_left_ - cqe[1]) % SizeMod
  /\ StartSendAdd(cqe[1]) /\ cqe' = NoCqe
  /\ UNCHANGED <<policy, steady, wire, at, msgvars, pollvars, sqe>>
-----------------------------------------------------------------------------
\* What the executor's thread does.
RunsOn == \/ AppendLength \/ SerializeNext \/ SerializeBytes \/ SerializeDone
          \/ SendAdd \/ SendAddDone \/ AsyncWrite \/ Writev \/ Written \/ WriteEvent
          \/ AsyncWriteSuspends \/ AsyncWriteSubmits \/ Completion

Next == \/ \E header, body \in MessageSizes : StartMessage(header, body)
        \/ RunsOn \/ PeerReads \/ KernelWrites \/ KernelFails

Spec == Init /\ [][Next]_vars

\* The executor runs, the peer keeps reading, and the kernel completes what was submitted.
FairSpec == Spec /\ WF_vars(RunsOn) /\ WF_vars(PeerReads) /\ WF_vars(KernelWrites)
-----------------------------------------------------------------------------
\* A PollConnection that needs a second writev in one async_write, because the socket has made room
\* in between or the first did not take all blocks, sends bytes twice: the loop gets the same iovecs
\* again (poll_connection.cc:47-52).
NothingSentTwice == policy = "poll" => steady

\* The blocks of the buffer are within their size, all but the last are full and all but the first
\* untouched; the counters are numbers that size_t holds; and the loop of send_add always ends: it
\* finds bytes in the first block as long as some are to be taken off.
TypeOK ==
  /\ policy \in {"poll", "uring"} /\ steady \in BOOLEAN
  /\ \A i \in 1 .. Len(buf.blocks) : LET k == buf.blocks[i] IN
       /\ k.begin \in 0 .. k.end /\ k.end \in 0 .. kBlockSize
       /\ i < Len(buf.blocks) => k.end = kBlockSize
       /\ i > 1 => k.begin = 0
  /\ buf.to_write_bytes_ \in 0 .. SizeMod - 1 /\ back_left_ \in 0 .. SizeMod - 1
  /\ NothingSentTwice /\ pc = "send_add" /\ left > 0 => buf.blocks[1].begin < buf.blocks[1].end
  /\ appended \in 0 .. MaxBytes /\ room \in 0 .. SendBuffer /\ {left, unused, nwrite} \subseteq Nat
  /\ pc \in {"idle", "append", "serialize", "async_write", "writev", "send_add"}
  /\ at \in {"wait", "write"} /\ epollout \in BOOLEAN
  /\ cqe = NoCqe \/ cqe[1] \in ECONNRESET .. MaxBytes

\* The peer receives the bytes in the order they were put into the buffer, none twice and none
\* left out, however writes are cut short, fail, and blocks are freed.
WireInOrder == NothingSentTwice => wire = [i \in 1 .. Len(wire) |-> i]

\* Whenever no write is half accounted for, the buffer holds exactly the bytes that are not on the
\* wire, in order, and what protobuf has not filled yet, and counts them ("size to write to fd",
\* output_stream.h:38).
SizeToWrite ==
  NothingSentTwice /\ pc \notin {"writev", "send_add"} /\ cqe = NoCqe =>
    /\ buf.to_write_bytes_ = appended - Len(wire) + unused
    /\ Len(Unsent(buf)) = buf.to_write_bytes_
    /\ \A i \in 1 .. appended - Len(wire) : Unsent(buf)[i] = Len(wire) + i

\* The memory that a writev in flight points to holds the bytes it is meant to send: appending to
\* the buffer neither overwrites nor frees them, and no second writev covers them.
InFlightIntact ==
  sqe # NoSqe => Len(sqe) <= Len(Unsent(buf)) /\ sqe = SubSeq(Unsent(buf), 1, Len(sqe))

\* back_left_ counts bytes of a writev whose completion is still to come
\* ("if there are bytes left to back, suspend", uring_connection.cc:36): while send_fn is
\* suspended because of it, there is a completion that will resume send_fn.  After a short writev
\* it would count bytes that no writev covers.
BackLeftComesBack == steady /\ back_left_ > 0 => sqe # NoSqe \/ cqe # NoCqe

\* Again and again everything put into the buffer so far has reached the wire.
AllSent == []<>(~steady \/ Len(wire) = appended)
=============================================================================
