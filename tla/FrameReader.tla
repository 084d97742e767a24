----------------------------- MODULE FrameReader ----------------------------
(***************************************************************************)
(* How recv_fn (server/rpc_server.cc, client/client_channel.cc) takes      *)
(* frames out of the byte stream: a length, that many bytes of a message,  *)
(* the next length, and so on (header and body alternate).  The bytes come *)
(* through PollConnection::async_read and InputBuffer; protobuf takes a    *)
(* message out with Next until Next returns false.                         *)
(***************************************************************************)
EXTENDS InputBuffer

CONSTANTS MessageSizes,    \* how many bytes a message may take
          Uint32,          \* bound: the numbers a uint32_t may hold
          NumMessages      \* bound: how many messages the peer sends

ASSUME StreamAssumption ==
  MessageSizes \subseteq Uint32 /\ Uint32 \subseteq Nat /\ NumMessages \in Nat \ {0}

VARIABLES sizes,           \* the sizes of the messages the peer sends, in order
          buf,             \* read_buf_
          sent,            \* how many bytes of the stream have reached the socket
          recvd,           \* how many of them were read from the socket
          part,            \* which message is being received
          pc, need,        \* what recv_fn waits for
          got              \* the bytes the parser has of this message

vars == <<sizes, buf, sent, recvd, part, pc, need, got>>

\* Where the stream's frame i starts, behind the bytes of the frames in front of it: each is a
\* length and a message.
BytesInFront(i) == UNION {{j} \X (1 .. Uint32Size + sizes[j]) : j \in 1 .. i - 1}
FrameStart(i) == 1 + Cardinality(BytesInFront(i))
MessageStart(i) == FrameStart(i) + Uint32Size
Total == FrameStart(NumMessages + 1) - 1
Stream(from, n) == [i \in 1 .. n |-> from + i - 1]

Init == /\ sizes \in [1 .. NumMessages -> MessageSizes]
        /\ buf = NewInputBuffer
        /\ sent = 0 /\ recvd = 0 /\ part = 1
        /\ pc = "length" /\ need = Uint32Size
        /\ got = <<>>

\* external: bytes arrive.
Arrive == /\ sent < Total
          /\ sent' \in sent + 1 .. Total
          /\ UNCHANGED <<sizes, buf, recvd, part, pc, need, got>>

\* Mutant of AsyncRead: reads past the end of the block.
ReadTooMuch ==
  /\ pc \in {"length", "message"} /\ buf.read_bytes_ < need
  /\ sent > recvd
  /\ buf' = recv_add(buf, Stream(recvd + 1, sent - recvd)) /\ recvd' = sent
  /\ UNCHANGED <<sizes, sent, part, pc, need, got>>

\* The loop around async_read: too few bytes are there, read what fits into the last block.
AsyncRead ==
  /\ pc \in {"length", "message"} /\ buf.read_bytes_ < need
  /\ sent > recvd
  /\ LET n == Min({sent - recvd, get_buffer(buf)})
     IN buf' = recv_add(buf, Stream(recvd + 1, n)) /\ recvd' = recvd + n
  /\ UNCHANGED <<sizes, sent, part, pc, need, got>>

\* fetch_uint32: a number that memcpy did not fill may be anything.
FetchLength ==
  /\ pc = "length" /\ buf.read_bytes_ >= need
  /\ LET f == fetch_uint32(buf)
         actual == f.copied = Stream(FrameStart(part), Uint32Size)
     IN  /\ buf' = f.buf
         /\ need' \in IF actual THEN {sizes[part]} ELSE Uint32
  /\ pc' = "message"
  /\ UNCHANGED <<sizes, sent, recvd, part, got>>

StartParse ==
  /\ pc = "message" /\ buf.read_bytes_ >= need
  /\ buf' = push_limit(buf, need)
  /\ pc' = "parse" /\ got' = <<>>
  /\ UNCHANGED <<sizes, sent, recvd, part, need>>

\* external: protobuf parses what Next hands out,
ParserNext ==
  /\ pc = "parse"
  /\ LET n == next(buf)
     IN  n.ok /\ buf' = n.buf /\ got' = got \o n.bytes
  /\ UNCHANGED <<sizes, sent, recvd, part, pc, need>>

\* and is done when Next returns false.
ParseDone ==
  /\ pc = "parse" /\ ~next(buf).ok
  /\ buf' = pop_limit(buf)
  /\ part' = part + 1
  /\ pc' = IF part = NumMessages THEN "done" ELSE "length"
  /\ need' = Uint32Size /\ got' = <<>>
  /\ UNCHANGED <<sizes, sent, recvd>>

RecvFn == AsyncRead \/ FetchLength \/ StartParse \/ ParserNext \/ ParseDone

Next == Arrive \/ RecvFn

Spec == Init /\ [][Next]_vars

\* The bytes arrive and the executor runs recv_fn.
FairSpec == Spec /\ WF_vars(Arrive) /\ WF_vars(RecvFn)
-----------------------------------------------------------------------------
\* The blocks are within their size, all but the last are full, and the counters agree with them:
\* read_bytes_ is what is left to read and consumed_bytes_ what was taken.
TypeOK ==
  /\ sizes \in [1 .. NumMessages -> MessageSizes]
  /\ buf.cur \in 1 .. Len(buf.blocks)
  /\ \A i \in 1 .. Len(buf.blocks) : LET k == buf.blocks[i] IN
       /\ k.begin \in 0 .. End(k) /\ End(k) <= kBlockSize
       /\ i < Len(buf.blocks) => End(k) = kBlockSize
  /\ buf.read_bytes_ + buf.consumed_bytes_ = recvd
  /\ recvd \in 0 .. sent /\ sent \in 0 .. Total
  /\ pc \in {"length", "message", "parse", "done"}

\* Next never reports the end of a message early: as long as the parser lacks bytes of the message
\* that recv_fn waited for, cur_block_ has some, whatever block they ended up in.
NextNeverStarves == pc = "parse" /\ Len(got) < need => next(buf).ok

\* No length lies across two blocks; fetch_uint32 does not put such a length together
\* (input_stream.cc:47).
LengthsWhole ==
  \A i \in 1 .. NumMessages : ((FrameStart(i) - 1) % kBlockSize) + Uint32Size <= kBlockSize

\* The parser gets the bytes of the message the peer sent, in order, without a gap, and none of the
\* next frame, wherever the blocks begin and end and however the bytes trickle in.
MessageAsSent ==
  LengthsWhole /\ pc = "parse" =>
    Len(got) <= sizes[part] /\ got = Stream(MessageStart(part), Len(got))

\* The number fetched from the stream is the one the peer put there
\* ("fetch uint32_t from input stream", input_stream.h:61).
LengthFetched == pc \in {"message", "parse"} => need = sizes[part]

\* Every message of the stream is parsed in the end, if no length lies across two blocks.
AllParsed == LengthsWhole => <>(pc = "done")
=============================================================================
