-------------------------- MODULE ConnectionProofs --------------------------
(***************************************************************************)
(* What the steps of a connection keep, for whatever recv_fn does with the *)
(* bytes: ClientChannelProofs and RpcServerProofs build on it.             *)
(*                                                                         *)
(* PollConnection comes first; a message is a number there.  Then come the *)
(* steps of the ring of UringExecutor, whoever takes them: of the          *)
(* operations of a coroutine, one read and one write at most are in the    *)
(* ring, from the entry of the submission queue to the completion,         *)
(* whatever the other thread does with the ring meanwhile.                 *)
(***************************************************************************)
EXTENDS PollConnection, UringExecutor, TLAPS

\* send_fn is suspended for the socket only with the write event on its way, and else has nothing
\* to write, as long as the connection is up.
SendInv ==
  ~closed_ /\ ~crashed =>
    IF send_fn = "write" THEN "OUT" \in interest \cup events ELSE write_buf_ = <<>>

\* What CrashOnlyWhenDown and NoMessageForgotten need to be inductive.
PollInv ==
  /\ ConnTypeOK /\ PollTypeOK
  /\ write_buf_ \in Seq(Nat) /\ wire \in Seq(Nat)
  /\ send_fn = "done" \/ recv_fn = "done" => closed_
  /\ recv_fn # "new" => send_fn # "new"
  /\ interest # {} \/ events # {} => recv_fn # "new"
  /\ ~closed_ /\ recv_fn # "new" => "IN" \in interest
  /\ SendInv /\ CrashOnlyWhenDown
-----------------------------------------------------------------------------
(* Sequences *)

\* What the operators on sequences yield.
LEMMA SeqFacts ==
  \A S : /\ <<>> \in Seq(S)
         /\ \A s \in Seq(S) :
              /\ Len(s) \in Nat /\ DOMAIN s = 1 .. Len(s) /\ \A i \in 1 .. Len(s) : s[i] \in S
              /\ s # <<>> => Head(s) \in S
              /\ \A e \in S : Append(s, e) \in Seq(S)
OBVIOUS

\* The rest of a sequence that is not empty.
LEMMA SeqTail == \A S : \A s \in Seq(S) : s # <<>> => Tail(s) \in Seq(S)
OBVIOUS

\* A sequence is what its two parts make together.
LEMMA JoinSeq ==
  ASSUME NEW S, NEW s \in Seq(S), NEW a \in Seq(S), NEW b \in Seq(S), Len(s) = Len(a) + Len(b),
         \A i \in 1 .. Len(a) : a[i] = s[i], \A i \in 1 .. Len(b) : b[i] = s[Len(a) + i]
  PROVE  a \o b = s
<1>1. a \o b \in Seq(S) /\ Len(a \o b) = Len(s)
  OBVIOUS
<1>2. \A i \in 1 .. Len(s) : (a \o b)[i] = s[i]
  <2> SUFFICES ASSUME NEW i \in 1 .. Len(s) PROVE (a \o b)[i] = s[i]
    BY Zenon
  <2>1. CASE i <= Len(a)
    BY <2>1
  <2>2. CASE i > Len(a)
    <3>1. i - Len(a) \in 1 .. Len(b) /\ Len(a) + (i - Len(a)) = i
      BY <2>2
    <3>2. (a \o b)[i] = b[i - Len(a)]
      BY <2>2
    <3>3. b[i - Len(a)] = s[Len(a) + (i - Len(a))]
      BY <3>1, Zenon
    <3> QED BY <3>1, <3>2, <3>3, Zenon
  <2> QED BY <2>1, <2>2
<1> QED BY <1>1, <1>2

\* A sequence cut in two.
LEMMA SplitSeq ==
  ASSUME NEW S, NEW s \in Seq(S), NEW n \in 0 .. Len(s)
  PROVE  /\ SubSeq(s, 1, n) \in Seq(S) /\ Len(SubSeq(s, 1, n)) = n
         /\ SubSeq(s, n + 1, Len(s)) \in Seq(S)
         /\ SubSeq(s, 1, n) \o SubSeq(s, n + 1, Len(s)) = s
<1>1. Len(s) \in Nat /\ n \in Nat /\ n <= Len(s)
  BY SeqFacts
<1> DEFINE a == SubSeq(s, 1, n)
           b == SubSeq(s, n + 1, Len(s))
<1>2. a \in Seq(S) /\ Len(a) = n
  BY <1>1
<1>3. \A i \in 1 .. n : a[i] = s[i]
  BY <1>1
<1>4. b \in Seq(S) /\ Len(b) = Len(s) - n
  BY <1>1
<1>5. \A i \in 1 .. Len(s) - n : b[i] = s[n + i]
  BY <1>1
<1> HIDE DEF a, b
<1>6. Len(s) = Len(a) + Len(b)
  BY <1>1, <1>2, <1>4
<1>7. (\A i \in 1 .. Len(a) : a[i] = s[i]) /\ \A i \in 1 .. Len(b) : b[i] = s[Len(a) + i]
  BY <1>2, <1>3, <1>4, <1>5, Zenon
<1>8. a \o b = s
  BY <1>2, <1>4, <1>6, <1>7, JoinSeq, Zenon
<1> QED BY <1>2, <1>4, <1>8, Zenon DEF a, b

\* The first n elements of a sequence are moved to the end of another.
LEMMA MoveSeq ==
  \A S : \A r, s \in Seq(S) : \A n \in 0 .. Len(s) :
    /\ r \o SubSeq(s, 1, n) \in Seq(S) /\ Len(r \o SubSeq(s, 1, n)) = Len(r) + n
    /\ SubSeq(s, n + 1, Len(s)) \in Seq(S)
    /\ (r \o SubSeq(s, 1, n)) \o SubSeq(s, n + 1, Len(s)) = r \o s
<1> SUFFICES ASSUME NEW S, NEW r \in Seq(S), NEW s \in Seq(S), NEW n \in 0 .. Len(s)
             PROVE  /\ r \o SubSeq(s, 1, n) \in Seq(S) /\ Len(r \o SubSeq(s, 1, n)) = Len(r) + n
                    /\ SubSeq(s, n + 1, Len(s)) \in Seq(S)
                    /\ (r \o SubSeq(s, 1, n)) \o SubSeq(s, n + 1, Len(s)) = r \o s
  BY Zenon
<1>1. PICK a \in Seq(S) : a = SubSeq(s, 1, n) /\ Len(a) = n
  BY SplitSeq, Zenon
<1>2. PICK b \in Seq(S) : b = SubSeq(s, n + 1, Len(s)) /\ a \o b = s
  BY <1>1, SplitSeq, Zenon
<1>3. r \o a \in Seq(S) /\ Len(r \o a) = Len(r) + n
  <2>1. Len(r) \in Nat /\ n \in Nat
    BY SeqFacts
  <2>2. r \o a \in Seq(S) /\ Len(r \o a) = Len(r) + Len(a)
    OBVIOUS
  <2> QED BY <1>1, <2>2, Zenon
<1>4. (r \o a) \o b = r \o (a \o b)
  OBVIOUS
<1> QED BY <1>1, <1>2, <1>3, <1>4, Zenon

\* The same for messages.
LEMMA MoveMessages ==
  \A r, s \in Seq(Nat) : \A n \in 0 .. Len(s) :
    /\ r \o SubSeq(s, 1, n) \in Seq(Nat) /\ Len(r \o SubSeq(s, 1, n)) = Len(r) + n
    /\ SubSeq(s, n + 1, Len(s)) \in Seq(Nat)
    /\ (r \o SubSeq(s, 1, n)) \o SubSeq(s, n + 1, Len(s)) = r \o s
  BY MoveSeq, Zenon
-----------------------------------------------------------------------------
(* send_fn *)

\* async_write (poll_connection.cc:43-69) moves messages from the buffer to the socket, in order
\* and no more than the socket takes, and raises SIGPIPE only when the connection is down.
LEMMA AsyncWriteMoves ==
  ASSUME wire \in Seq(Nat), unread \in 0 .. SendBuffer,
         NEW buf \in Seq(Nat), NEW closed \in BOOLEAN, NEW w \in AsyncWrite(buf, closed)
  PROVE  /\ w.wire \in Seq(Nat) /\ w.left \in Seq(Nat) /\ w.sigpipe \in BOOLEAN
         /\ w.wire \o w.left = wire \o buf
         /\ unread + Len(w.wire) - Len(wire) \in 0 .. SendBuffer
         /\ w.sigpipe => closed \/ peer = "reset"
<1>1. CASE buf # <<>> /\ (closed \/ peer = "reset")
  <2>1. w.wire = wire /\ w.left = buf /\ w.sigpipe \in BOOLEAN
    BY <1>1, Zenon DEF AsyncWrite
  <2>2. Len(wire) \in Nat
    BY SeqFacts, Zenon
  <2> QED BY <1>1, <2>1, <2>2, PeerAssumption
<1>2. CASE ~(buf # <<>> /\ (closed \/ peer = "reset"))
  <2> PICK n \in 0 .. Len(buf) : n <= Room /\ n = IF Len(buf) < Room THEN Len(buf) ELSE Room
    BY SeqFacts, PeerAssumption DEF Room
  <2>1. w = [wire |-> wire \o SubSeq(buf, 1, n), left |-> SubSeq(buf, n + 1, Len(buf)),
             sigpipe |-> FALSE]
    BY <1>2, Zenon DEF AsyncWrite
  <2>2. /\ w.wire = wire \o SubSeq(buf, 1, n) /\ w.left = SubSeq(buf, n + 1, Len(buf))
        /\ w.sigpipe = FALSE
    BY <2>1, Zenon
  <2>3. /\ w.wire \in Seq(Nat) /\ Len(w.wire) = Len(wire) + n /\ w.left \in Seq(Nat)
        /\ w.wire \o w.left = wire \o buf
    <3> DEFINE sent == wire \o SubSeq(buf, 1, n)  rest == SubSeq(buf, n + 1, Len(buf))
    <3>1. sent \in Seq(Nat) /\ Len(sent) = Len(wire) + n /\ rest \in Seq(Nat) /\ sent \o rest = wire \o buf
      BY MoveMessages, Zenon
    <3> HIDE DEF sent, rest
    <3>2. w.wire = sent /\ w.left = rest
      BY <2>2, Zenon DEF sent, rest
    <3> QED BY <3>1, <3>2, Zenon
  <2>4. unread + Len(w.wire) - Len(wire) \in 0 .. SendBuffer
    <3>1. Len(wire) \in Nat
      BY SeqFacts, Zenon
    <3> QED BY <2>3, <3>1, PeerAssumption DEF Room
  <2> QED BY <2>2, <2>3, <2>4, Zenon
<1> QED BY <1>1, <1>2, Zenon

\* resume_write (connection.h:41-43) and what send_fn does then (rpc_server.cc:183-189): it keeps the order of the messages,
\* it crashes only without a frame or when the connection is down, it ends only when the connection
\* is closed, and else it waits for the socket or has written everything.
LEMMA ResumeWriteRuns ==
  ASSUME wire \in Seq(Nat), unread \in 0 .. SendBuffer, crashed = FALSE,
         send_fn \in {"new", "wait", "write", "done"},
         NEW buf \in Seq(Nat), NEW closed \in BOOLEAN, ResumeWrite(buf, closed)
  PROVE  /\ wire' \in Seq(Nat) /\ write_buf_' \in Seq(Nat) /\ wire' \o write_buf_' = wire \o buf
         /\ unread' \in 0 .. SendBuffer /\ crashed' \in BOOLEAN
         /\ send_fn' \in {"new", "wait", "write", "done"} /\ (send_fn' = "new" <=> send_fn = "new")
         /\ crashed' => send_fn \in {"new", "done"} \/ closed \/ peer = "reset"
         /\ send_fn' = "done" => send_fn = "done" \/ closed
         /\ ~closed /\ send_fn' = "wait" => write_buf_' = <<>>
<1>1. CASE send_fn \in {"new", "done"}
  BY <1>1, Zenon DEF ResumeWrite
<1>2. CASE send_fn = "write" /\ closed
  BY <1>2, Zenon DEF ResumeWrite
<1>3. CASE send_fn = "wait" \/ (send_fn = "write" /\ ~closed)
  <2>1. PICK w \in AsyncWrite(buf, closed) :
          /\ crashed' = w.sigpipe /\ wire' = w.wire /\ write_buf_' = w.left
          /\ unread' = unread + Len(w.wire) - Len(wire)
          /\ send_fn' = IF closed THEN "done" ELSE IF w.left = <<>> THEN "wait" ELSE "write"
    BY <1>3, Zenon DEF ResumeWrite
  <2>2. /\ w.wire \in Seq(Nat) /\ w.left \in Seq(Nat) /\ w.sigpipe \in BOOLEAN
        /\ w.wire \o w.left = wire \o buf
        /\ unread + Len(w.wire) - Len(wire) \in 0 .. SendBuffer
        /\ w.sigpipe => closed \/ peer = "reset"
    BY AsyncWriteMoves, Zenon
  <2> QED BY <1>3, <2>1, <2>2, Zenon
<1> QED BY <1>1, <1>2, <1>3, Zenon

\* WriteAwaiter (awaitable.cc:22-34) adds the write event to what is registered, when send_fn is
\* suspended and the connection is registered.
LEMMA AddWriteEventAdds ==
  ASSUME NEW registered \in SUBSET Filters, NEW ready \in SUBSET Filters,
         AddWriteEvent(registered, ready)
  PROVE  /\ interest' \subseteq Filters /\ edge' \subseteq Filters /\ registered \subseteq interest'
         /\ "IN" \in registered /\ send_fn' = "write" => "OUT" \in interest'
<1>1. CASE send_fn' # "write"
  BY <1>1, Zenon DEF AddWriteEvent
<1>2. CASE send_fn' = "write" /\ epoll
  <2>1. EpollAddWrite(registered, ready)
    BY <1>2, Zenon DEF AddWriteEvent
  <2> QED BY <2>1, Zenon DEF EpollAddWrite, Filters
<1>3. CASE send_fn' = "write" /\ ~epoll
  <2>1. KqueueAddWrite(registered, ready)
    BY <1>3, Zenon DEF AddWriteEvent
  <2> QED BY <2>1, Zenon DEF KqueueAddWrite, Filters, If
<1> QED BY <1>1, <1>2, <1>3, Zenon

-----------------------------------------------------------------------------
(* The steps *)

\* The invariant holds for a connection that was just accepted or opened.
LEMMA InitPollInv == ASSUME ConnInit, PollInit PROVE PollInv
<1>1. <<>> \in Seq(Nat)
  BY SeqFacts, Zenon
<1>2. 0 \in Nat /\ 0 \in 0 .. SendBuffer
  BY PeerAssumption
<1> QED BY <1>1, <1>2, Zenon
        DEF ConnInit, PollInit, PollInv, ConnTypeOK, PollTypeOK, SendInv, CrashOnlyWhenDown, Filters

\* A step that leaves the connection alone.
LEMMA PollKept == ASSUME PollInv, UNCHANGED <<conn_vars, poll_vars>> PROVE PollInv'
<1>1. UNCHANGED <<manners, peer, unread, closed_, write_buf_, wire, send_fn, recv_fn, crashed, interest,
                  edge, events>>
  BY Zenon DEF conn_vars, peer_vars, env, bufs, poll_vars
<1>2. ConnTypeOK' /\ PollTypeOK'
  BY <1>1, Zenon DEF PollInv, ConnTypeOK, PollTypeOK
<1>3. SendInv' /\ CrashOnlyWhenDown'
  BY <1>1, Zenon DEF PollInv, SendInv, CrashOnlyWhenDown
<1> QED BY <1>1, <1>2, <1>3, Zenon DEF PollInv

\* A step that may close the connection, or go on in recv_fn, and leaves send_fn alone.
LEMMA QuietKeeps ==
  ASSUME PollInv, crashed = FALSE,
         UNCHANGED <<manners, peer, unread, write_buf_, wire, send_fn, interest, events, crashed>>,
         edge' \subseteq Filters, closed_' \in {closed_, TRUE},
         recv_fn' \in {"new", "head", "body", "close", "head_wait", "body_wait", "done", "spin"},
         recv_fn' = "new" <=> recv_fn = "new", recv_fn' = "done" => recv_fn = "done" \/ closed_'
  PROVE  PollInv'
<1>1. ConnTypeOK' /\ PollTypeOK'
  BY Zenon DEF PollInv, ConnTypeOK, PollTypeOK
<1>2. /\ (write_buf_ \in Seq(Nat) /\ wire \in Seq(Nat))'
      /\ (send_fn = "done" \/ recv_fn = "done" => closed_)'
      /\ (recv_fn # "new" => send_fn # "new")'
      /\ (interest # {} \/ events # {} => recv_fn # "new")'
      /\ (~closed_ /\ recv_fn # "new" => "IN" \in interest)'
  BY Zenon DEF PollInv
<1>3. SendInv' /\ CrashOnlyWhenDown'
  BY Zenon DEF PollInv, SendInv, CrashOnlyWhenDown, ConnTypeOK
<1> QED BY <1>1, <1>2, <1>3, Zenon DEF PollInv

\* What the peer does (it sends, closes, resets, reads) is put on the ready list and changes
\* nothing else of the connection.
LEMMA PeerKeeps ==
  ASSUME PollInv, NEW f \in SUBSET Filters, Notified(f),
         \/ \E unit : Arrives(unit)
         \/ PeerFin \/ PeerReset \/ PeerReads
  PROVE  PollInv'
<1>1. /\ UNCHANGED <<manners, closed_, write_buf_, wire, send_fn, recv_fn, interest, events, crashed>>
      /\ crashed = FALSE /\ peer' \in {peer, "fin", "reset"} /\ unread' \in {unread, unread - 1}
      /\ unread' # unread => unread > 0
  BY Zenon DEF Arrives, PeerFin, PeerReset, PeerReads, Notified, env, bufs, PollInv, ConnTypeOK
<1>2. edge' \subseteq Filters
  BY Zenon DEF Notified, Wakes, Filters, PollInv, PollTypeOK
<1>3. unread' \in 0 .. SendBuffer /\ unread' \in Nat
  BY <1>1, PeerAssumption DEF PollInv, PollTypeOK
<1>4. ConnTypeOK' /\ PollTypeOK'
  BY <1>1, <1>2, <1>3, Zenon DEF PollInv, ConnTypeOK, PollTypeOK
<1> QED BY <1>1, <1>4, Zenon DEF PollInv, SendInv, CrashOnlyWhenDown

\* send_fn is resumed by the loop or by recv_fn, with the connection registered for reading: the
\* events handed to AddWriteEvent are those that stay registered.
LEMMA ResumeWriteKeeps ==
  ASSUME PollInv, crashed = FALSE, recv_fn # "new", NEW buf \in Seq(Nat), ResumeWrite(buf, closed_),
         NEW registered \in SUBSET interest, "IN" \in interest => "IN" \in registered,
         NEW ready \in SUBSET Filters, AddWriteEvent(registered, ready),
         UNCHANGED <<manners, peer, closed_>>, events' \subseteq events,
         recv_fn' \in {"head", "body", "close", "head_wait", "body_wait", "done"},
         recv_fn' = "done" => recv_fn = "done"
  PROVE  PollInv' /\ wire' \o write_buf_' = wire \o buf
<1>1. /\ wire \in Seq(Nat) /\ unread \in 0 .. SendBuffer /\ closed_ \in BOOLEAN
      /\ send_fn \in {"new", "wait", "write", "done"} /\ send_fn # "new"
      /\ send_fn = "done" \/ recv_fn = "done" => closed_
      /\ ~closed_ => "IN" \in registered
      /\ registered \in SUBSET Filters /\ events' \subseteq Filters \cup {"HUP"}
      /\ manners \in {"polite", "hasty", "rude"} /\ peer \in {"open", "fin", "reset"}
  BY Zenon DEF PollInv, ConnTypeOK, PollTypeOK
<1>2. /\ wire' \in Seq(Nat) /\ write_buf_' \in Seq(Nat) /\ wire' \o write_buf_' = wire \o buf
      /\ unread' \in 0 .. SendBuffer /\ crashed' \in BOOLEAN
      /\ send_fn' \in {"new", "wait", "write", "done"} /\ (send_fn' = "new" <=> send_fn = "new")
      /\ crashed' => send_fn \in {"new", "done"} \/ closed_ \/ peer = "reset"
      /\ send_fn' = "done" => send_fn = "done" \/ closed_
      /\ ~closed_ /\ send_fn' = "wait" => write_buf_' = <<>>
  BY <1>1, ResumeWriteRuns, Zenon
<1>3. /\ interest' \subseteq Filters /\ edge' \subseteq Filters /\ registered \subseteq interest'
      /\ "IN" \in registered /\ send_fn' = "write" => "OUT" \in interest'
  BY <1>1, AddWriteEventAdds, Zenon
<1>4. unread' \in Nat
  BY <1>2, PeerAssumption
<1>5. ConnTypeOK' /\ PollTypeOK'
  BY <1>1, <1>2, <1>3, <1>4, Zenon DEF ConnTypeOK, PollTypeOK
<1>6. SendInv'
  BY <1>1, <1>2, <1>3, Zenon DEF SendInv
<1>7. CrashOnlyWhenDown'
  BY <1>1, <1>2, Zenon DEF CrashOnlyWhenDown
<1>8. /\ (send_fn = "done" \/ recv_fn = "done" => closed_)'
      /\ (recv_fn # "new" => send_fn # "new")'
      /\ (interest # {} \/ events # {} => recv_fn # "new")'
      /\ (~closed_ /\ recv_fn # "new" => "IN" \in interest)'
  BY <1>1, <1>2, <1>3, Zenon
<1> QED BY <1>2, <1>5, <1>6, <1>7, <1>8, Zenon DEF PollInv

\* async_read and ReadAwaiter (poll_connection.cc:9-41, awaitable.cc:13-20): whatever is read of the
\* socket, and whether the end was seen.
LEMMA AsyncReadKeeps ==
  ASSUME PollInv, AsyncRead
  PROVE  PollInv' /\ wire' \o write_buf_' = wire \o write_buf_
<1>1. recv_fn \in {"head", "body"} /\ crashed = FALSE /\ UNCHANGED <<manners, peer, events>>
  BY Zenon DEF AsyncRead, env, PollInv, ConnTypeOK
<1>2. ASSUME NEW n, ReadSome(n) PROVE PollInv' /\ wire' \o write_buf_' = wire \o write_buf_
  <2>1. /\ UNCHANGED <<closed_, write_buf_, wire, unread, send_fn, interest, edge, crashed>>
        /\ recv_fn' \in {"head", "body", "head_wait", "body_wait"}
    BY <1>1, <1>2 DEF ReadSome, WaitIn
  <2>2. edge' \subseteq Filters
    BY <2>1, Zenon DEF PollInv, PollTypeOK
  <2> QED BY <1>1, <2>1, <2>2, QuietKeeps, Zenon
<1>3. ASSUME NEW n, ReadClosed(n) PROVE PollInv' /\ wire' \o write_buf_' = wire \o write_buf_
  <2>1. /\ closed_' = TRUE /\ ResumeWrite(write_buf_, TRUE) /\ interest' = {} /\ edge' = {}
        /\ UNCHANGED recv_fn
    BY <1>3, Zenon DEF ReadClosed
  <2>2. /\ wire \in Seq(Nat) /\ unread \in 0 .. SendBuffer /\ write_buf_ \in Seq(Nat)
        /\ send_fn \in {"new", "wait", "write", "done"} /\ send_fn # "new"
    BY <1>1, Zenon DEF PollInv, ConnTypeOK, PollTypeOK
  <2>3. /\ wire' \in Seq(Nat) /\ write_buf_' \in Seq(Nat) /\ wire' \o write_buf_' = wire \o write_buf_
        /\ unread' \in 0 .. SendBuffer /\ crashed' \in BOOLEAN
        /\ send_fn' \in {"new", "wait", "write", "done"} /\ send_fn' # "new"
    BY <1>1, <2>1, <2>2, ResumeWriteRuns, Zenon
  <2>4. unread' \in Nat
    BY <2>3, PeerAssumption
  <2>5. ConnTypeOK' /\ PollTypeOK'
    BY <1>1, <2>1, <2>3, <2>4, Zenon DEF PollInv, ConnTypeOK, PollTypeOK
  <2>6. SendInv' /\ CrashOnlyWhenDown'
    BY <2>1, Zenon DEF SendInv, CrashOnlyWhenDown
  <2> QED BY <1>1, <2>1, <2>3, <2>5, <2>6, Zenon DEF PollInv
<1> QED BY <1>2, <1>3, Zenon DEF AsyncRead

\* send_fn starts, waits for data and has none.
LEMMA StartSendKeeps == ASSUME PollInv, StartSend PROVE PollInv'
<1>1. /\ send_fn = "new" /\ crashed = FALSE /\ send_fn' = "wait"
      /\ UNCHANGED <<manners, peer, unread, closed_, write_buf_, wire, recv_fn, interest, edge, events,
                     crashed>>
  BY Zenon DEF StartSend, peer_vars, env, bufs, PollInv, ConnTypeOK
<1>2. ConnTypeOK' /\ PollTypeOK'
  BY <1>1, Zenon DEF PollInv, ConnTypeOK, PollTypeOK
<1>3. SendInv' /\ CrashOnlyWhenDown'
  BY <1>1, Zenon DEF PollInv, SendInv, CrashOnlyWhenDown
<1> QED BY <1>1, <1>2, <1>3, Zenon DEF PollInv

\* recv_fn starts and registers for reading (awaitable.cc:6-11).
LEMMA StartRecvKeeps == ASSUME PollInv, StartRecv PROVE PollInv'
<1>1. /\ recv_fn = "new" /\ send_fn # "new" /\ crashed = FALSE /\ recv_fn' = "head"
      /\ interest' = {"IN"} /\ edge' = IF ReadReady THEN IF epoll THEN Filters ELSE {"IN"} ELSE {}
      /\ UNCHANGED <<manners, peer, unread, closed_, write_buf_, wire, send_fn, events, crashed>>
  BY Zenon DEF StartRecv, peer_vars, env, bufs, PollInv, ConnTypeOK
<1>2. interest' \subseteq Filters /\ edge' \subseteq Filters
  BY <1>1, Zenon DEF Filters
<1>3. ConnTypeOK' /\ PollTypeOK'
  BY <1>1, <1>2, Zenon DEF PollInv, ConnTypeOK, PollTypeOK
<1>4. "OUT" \notin interest /\ "OUT" \notin events
  BY <1>1, Zenon DEF PollInv
<1>5. SendInv' /\ CrashOnlyWhenDown'
  BY <1>1, <1>4, Zenon DEF PollInv, SendInv, CrashOnlyWhenDown
<1> QED BY <1>1, <1>3, <1>5, Zenon DEF PollInv

\* The end of recv_fn closes the connection (rpc_server.cc:173-181).
LEMMA FinishRecvKeeps == ASSUME PollInv, FinishRecv PROVE PollInv'
<1>1. /\ recv_fn = "close" /\ crashed = FALSE /\ closed_' = TRUE /\ recv_fn' = "done"
      /\ edge' = edge \cup IF closed_ THEN {} ELSE Wakes({"OUT"})
      /\ UNCHANGED <<manners, peer, unread, write_buf_, wire, send_fn, interest, events, crashed>>
  BY Zenon DEF FinishRecv, peer_vars, env, PollInv, ConnTypeOK
<1>2. edge' \subseteq Filters
  BY <1>1, Zenon DEF Wakes, Filters, PollInv, PollTypeOK
<1> QED BY <1>1, <1>2, QuietKeeps, Zenon

\* epoll_wait and kevent (epoll_exector.cc:45-56) take nothing away from what is registered.
LEMMA PollWaitKeeps == ASSUME PollInv, PollWait PROVE PollInv'
<1>1. /\ interest # {} /\ events = {} /\ edge' = {} /\ crashed = FALSE
      /\ events' = IF epoll THEN EpollEvents ELSE KqueueEvents
      /\ UNCHANGED <<manners, peer, unread, closed_, write_buf_, wire, send_fn, recv_fn, interest,
                     crashed>>
  BY Zenon DEF PollWait, InPoll, peer_vars, env, bufs, PollInv, ConnTypeOK
<1>2. events' \subseteq Filters \cup {"HUP"}
  BY <1>1, Zenon DEF EpollEvents, KqueueEvents, If, Filters
<1>3. ConnTypeOK' /\ PollTypeOK'
  BY <1>1, <1>2, Zenon DEF PollInv, ConnTypeOK, PollTypeOK
<1>4. SendInv' /\ CrashOnlyWhenDown'
  BY <1>1, Zenon DEF PollInv, SendInv, CrashOnlyWhenDown
<1> QED BY <1>1, <1>3, <1>4, Zenon DEF PollInv

\* A hang-up closes the connection and takes it out of the poll (socket.h:22-27).
LEMMA HangUpKeeps == ASSUME PollInv, NEW rest \in SUBSET events, HandleHangUp(rest) PROVE PollInv'
<1>1. /\ "HUP" \in events /\ closed_' = TRUE /\ interest' = {} /\ edge' = {} /\ events' = rest
      /\ crashed' \in BOOLEAN
      /\ UNCHANGED <<manners, peer, unread, write_buf_, wire, send_fn, recv_fn>>
  BY Zenon DEF HandleHangUp, Released, peer_vars, env
<1>2. ConnTypeOK' /\ PollTypeOK'
  BY <1>1, Zenon DEF PollInv, ConnTypeOK, PollTypeOK
<1>3. SendInv' /\ CrashOnlyWhenDown'
  BY <1>1, Zenon DEF SendInv, CrashOnlyWhenDown
<1> QED BY <1>1, <1>2, <1>3, Zenon DEF PollInv

\* A write event resumes send_fn (connection.h:41-43) after it was taken back.
LEMMA HandleWriteKeeps ==
  ASSUME PollInv, NEW ready \in SUBSET Filters, HandleWrite(ready)
  PROVE  PollInv' /\ wire' \o write_buf_' = wire \o write_buf_
<1>1. /\ crashed = FALSE /\ "OUT" \in events /\ ResumeWrite(write_buf_, closed_)
      /\ AddWriteEvent(interest \ {"OUT"}, ready) /\ events' \subseteq events
      /\ UNCHANGED <<manners, peer, closed_, recv_fn>>
  BY Zenon DEF HandleWrite, InPoll, env, PollInv, ConnTypeOK
<1>2. /\ recv_fn # "new" /\ write_buf_ \in Seq(Nat)
      /\ recv_fn \in {"head", "body", "close", "head_wait", "body_wait", "done"}
  BY <1>1, Zenon DEF HandleWrite, InPoll, Running, PollInv, ConnTypeOK
<1>3. interest \ {"OUT"} \in SUBSET interest /\ ("IN" \in interest => "IN" \in interest \ {"OUT"})
  BY Zenon
<1> QED BY <1>1, <1>2, <1>3, ResumeWriteKeeps, Zenon

\* A read event resumes recv_fn (connection.h:38-40).
LEMMA HandleReadKeeps == ASSUME PollInv, HandleRead PROVE PollInv'
<1>1. /\ crashed = FALSE /\ events' = events \ {"IN"}
      /\ UNCHANGED <<manners, peer, unread, closed_, write_buf_, wire, send_fn, interest, edge>>
  BY Zenon DEF HandleRead, InPoll, peer_vars, env, bufs, PollInv, ConnTypeOK
<1>2. \/ /\ recv_fn \in {"head_wait", "body_wait"} /\ recv_fn' \in {"head", "body"} /\ UNCHANGED crashed
      \/ recv_fn = "done" /\ crashed' = TRUE /\ UNCHANGED recv_fn
  BY DEF HandleRead, Suspended, ResumeIn
<1>3. ConnTypeOK' /\ PollTypeOK'
  BY <1>1, <1>2, Zenon DEF PollInv, ConnTypeOK, PollTypeOK
<1>4. SendInv' /\ CrashOnlyWhenDown'
  BY <1>1, <1>2, Zenon DEF PollInv, SendInv, CrashOnlyWhenDown
<1> QED BY <1>1, <1>2, <1>3, <1>4, Zenon DEF PollInv

\* What the executor does by itself keeps the invariant, and the messages in their order.
LEMMA ConnStepKeeps ==
  ASSUME PollInv, ConnStep
  PROVE  PollInv' /\ wire' \o write_buf_' = wire \o write_buf_
<1>1. CASE FinishRecv
  BY <1>1, FinishRecvKeeps, Zenon DEF FinishRecv
<1>2. CASE PollWait
  BY <1>2, PollWaitKeeps, Zenon DEF PollWait, bufs
<1>3. ASSUME NEW rest \in SUBSET events, HandleHangUp(rest)
      PROVE  PollInv' /\ wire' \o write_buf_' = wire \o write_buf_
  BY <1>3, HangUpKeeps, Zenon DEF HandleHangUp
<1>4. ASSUME NEW ready \in SUBSET Filters, HandleWrite(ready)
      PROVE  PollInv' /\ wire' \o write_buf_' = wire \o write_buf_
  BY <1>4, HandleWriteKeeps, Zenon
<1>5. CASE HandleRead
  BY <1>5, HandleReadKeeps, Zenon DEF HandleRead, bufs
<1>6. edge \subseteq Filters
  BY Zenon DEF PollInv, PollTypeOK
<1>7. CASE EpollHangUp \/ KqueueEof
  BY <1>3, <1>7, Zenon DEF EpollHangUp, KqueueEof
<1>8. CASE EpollWrite \/ KqueueWrite
  BY <1>4, <1>6, <1>8, Zenon DEF EpollWrite, KqueueWrite
<1>9. CASE EpollRead \/ KqueueRead
  BY <1>5, <1>9, Zenon DEF EpollRead, KqueueRead
<1> QED BY <1>1, <1>2, <1>7, <1>8, <1>9, Zenon DEF ConnStep, EpollLoop, KqueueLoop
-----------------------------------------------------------------------------
(* The invariant of the ring *)

Ops == {"read", "write", "wake", "unset"}
RingUnits == [n : Nat, good : BOOLEAN]
CQE == [op : Ops, n : Int, units : Seq(RingUnits)]

\* Where an operation is between a coroutine's wish and the loop that sees its completion.
InHand(o) == at["loop"] # "no" /\ op["loop"] = o
Queued(o) == \E i \in 1 .. Len(sq) : sq[i] = o
Cqes(o) == {e \in Range(cq) : e.op = o}
InRing(o) == InHand(o) \/ Queued(o) \/ o \in flight \/ Cqes(o) # {}

\* It is in one place at a time,
OneSqe(o) == \A i, j \in 1 .. Len(sq) : sq[i] = o /\ sq[j] = o => i = j
OneCqe(o) == \A i, j \in 1 .. Len(cq) : cq[i].op = o /\ cq[j].op = o => i = j
OneInRing(o) ==
  /\ OneSqe(o) /\ OneCqe(o)
  /\ InHand(o) => ~Queued(o)
  /\ InHand(o) \/ Queued(o) => o \notin flight
  /\ InHand(o) \/ Queued(o) \/ o \in flight => Cqes(o) = {}

RingTyped ==
  /\ sq \in Seq(Ops) /\ Len(sq) <= MAX_RING_LEN
  /\ at \in [Threads -> {"no", "tail", "take", "prep"}]
  /\ op \in [Threads -> Ops] /\ op["loop"] # "wake" /\ op["main"] \notin {"read", "write"}
  /\ at["main"] # "no" => op["main"] = "wake"
  /\ sqe \in [Threads -> Int] /\ \A t \in Threads : sqe[t] <= MAX_RING_LEN
  /\ flight \subseteq {"read", "write"}
  /\ cq \in Seq(CQE) /\ overlap \in BOOLEAN

\* and until two threads meet in the ring, an entry in a thread's hands is the last of the queue.
Alone ==
  ~overlap =>
    /\ at["main"] \in {"take", "prep"} => at["loop"] \notin {"take", "prep"}
    /\ \A t \in Threads :
         /\ at[t] = "take" => sqe[t] = Len(sq) + 1
         /\ at[t] = "prep" => Len(sq) > 0 /\ sqe[t] = Len(sq) /\ sq[Len(sq)] = "unset"

RingInv == RingTyped /\ Alone /\ OneInRing("read") /\ OneInRing("write")

\* What a step of the ring does to an operation: nothing, or it loses it when threads overlap.
SameCqes == Cqes("read")' = Cqes("read") /\ Cqes("write")' = Cqes("write")
KeepsOps ==
  /\ overlap => overlap'
  /\ \A o \in {"read", "write"} : /\ InRing(o)' => InRing(o)
                                  /\ InRing(o) => InRing(o)' \/ overlap'

-----------------------------------------------------------------------------
(* Steps of the ring *)

\* The larger of two.
LEMMA MaxOfTwo == \A a, b \in Int : Max({a, b}) = IF a >= b THEN a ELSE b
<1> SUFFICES ASSUME NEW a \in Int, NEW b \in Int PROVE Max({a, b}) = IF a >= b THEN a ELSE b
  BY Zenon
<1>1. \E x \in {a, b} : \A y \in {a, b} : x >= y
  OBVIOUS
<1>2. Max({a, b}) \in {a, b} /\ \A y \in {a, b} : Max({a, b}) >= y
  BY <1>1, Zenon DEF Max
<1> QED BY <1>2

\* The completion queue with more at its end.
LEMMA CqesAppended ==
  ASSUME cq \in Seq(CQE), NEW new \in Seq(CQE), cq' = cq \o new, NEW o, OneCqe(o),
         \A i \in 1 .. Len(new) : new[i].op # o
  PROVE  cq' \in Seq(CQE) /\ Cqes(o)' = Cqes(o) /\ OneCqe(o)'
<1>1. /\ cq' \in Seq(CQE) /\ Len(cq) \in Nat /\ Len(new) \in Nat /\ Len(cq') = Len(cq) + Len(new)
      /\ \A i \in 1 .. Len(cq) : cq'[i] = cq[i]
      /\ \A i \in 1 .. Len(cq') : i \in 1 .. Len(cq) \/ (i - Len(cq) \in 1 .. Len(new) /\ cq'[i] = new[i - Len(cq)])
      /\ DOMAIN cq = 1 .. Len(cq) /\ DOMAIN cq' = 1 .. Len(cq')
  OBVIOUS
<1>2. \A i \in 1 .. Len(cq) : i \in 1 .. Len(cq')
  BY <1>1
<1>3. \A i \in 1 .. Len(cq') : cq'[i].op = o => i \in 1 .. Len(cq) /\ cq'[i] = cq[i]
  BY <1>1, Zenon
<1>4. OneCqe(o)'
  <2> SUFFICES ASSUME NEW i \in 1 .. Len(cq'), NEW j \in 1 .. Len(cq'), cq'[i].op = o, cq'[j].op = o
               PROVE  i = j
    BY Zenon DEF OneCqe
  <2>2. /\ i \in 1 .. Len(cq) /\ cq[i].op = o
        /\ j \in 1 .. Len(cq) /\ cq[j].op = o
    BY <1>3, Zenon
  <2> QED BY <2>2, Zenon DEF OneCqe
<1>5. Cqes(o)' = Cqes(o)
  <2>1. Cqes(o) = {e \in {cq[i] : i \in 1 .. Len(cq)} : e.op = o}
    BY <1>1, Zenon DEF Cqes, Range
  <2>2. Cqes(o)' = {e \in {cq'[i] : i \in 1 .. Len(cq')} : e.op = o}
    BY <1>1, Zenon DEF Cqes, Range
  <2>3. ASSUME NEW e \in Cqes(o) PROVE e \in Cqes(o)'
    <3>1. PICK i \in 1 .. Len(cq) : e = cq[i] /\ e.op = o
      BY <2>1, <2>3, Zenon
    <3> QED BY <1>1, <1>2, <2>2, <3>1, Zenon
  <2>4. ASSUME NEW e \in Cqes(o)' PROVE e \in Cqes(o)
    <3>1. PICK i \in 1 .. Len(cq') : e = cq'[i] /\ e.op = o
      BY <2>2, <2>4, Zenon
    <3> QED BY <1>3, <2>1, <3>1, Zenon
  <2> QED BY <2>3, <2>4, Zenon
<1> QED BY <1>1, <1>4, <1>5, Zenon

\* io_uring_submit by a thread that has no entry in its hands: the operations move on, and the
\* write to the eventfd is completed.
LEMMA SubmitKeeps ==
  ASSUME RingInv, NEW t \in Threads, Submit(t), at[t] \in {"no", "tail"}, UNCHANGED <<at, op>>
  PROVE  /\ RingInv' /\ SameCqes /\ KeepsOps
         /\ Queued("wake") \/ Cqes("wake") # {} => Cqes("wake")' # {}
<1> DEFINE now == {i \in DOMAIN sq : sq[i] \in {"wake", "unset"}}
<1>1. /\ sq \in Seq(Ops) /\ Len(sq) \in Nat /\ DOMAIN sq = 1 .. Len(sq) /\ cq \in Seq(CQE)
      /\ \A i \in 1 .. Len(sq) : sq[i] \in Ops
  <2>1. sq \in Seq(Ops) /\ cq \in Seq(CQE)
    BY Zenon DEF RingInv, RingTyped
  <2> QED BY <2>1
<1>2. PICK k \in 0 .. Len(sq) : \E done \in Bijection(1 .. k, now) :
        cq' = cq \o [i \in DOMAIN done |-> Cqe(sq[done[i]], 0, <<>>)]
  BY Zenon DEF Submit
<1>3. PICK done \in Bijection(1 .. k, now) :
        cq' = cq \o [i \in DOMAIN done |-> Cqe(sq[done[i]], 0, <<>>)]
  BY <1>2, Zenon
<1>4. /\ k \in Nat /\ DOMAIN done = 1 .. k /\ \A i \in 1 .. k : done[i] \in now
      /\ \A j \in now : \E i \in 1 .. k : done[i] = j
  <2>1. done \in [1 .. k -> now]
    BY Zenon DEF Bijection, Injection
  <2>2. k \in Nat
    BY <1>1
  <2> QED BY <2>1, <2>2, Zenon DEF Bijection, Surjection
<1> DEFINE added == [i \in 1 .. k |-> Cqe(sq[done[i]], 0, <<>>)]
<1>5. /\ added \in Seq(CQE) /\ cq' = cq \o added /\ Len(added) = k
      /\ \A i \in 1 .. k : added[i].op = sq[done[i]] /\ sq[done[i]] \in {"wake", "unset"}
  <2>1. \A i \in 1 .. k : sq[done[i]] \in {"wake", "unset"} /\ sq[done[i]] \in Ops
    BY <1>1, <1>4, Zenon
  <2>2. \A i \in 1 .. k : Cqe(sq[done[i]], 0, <<>>) \in CQE
    <3>1. <<>> \in Seq(RingUnits) /\ 0 \in Int
      OBVIOUS
    <3> QED BY <2>1, <3>1, Zenon DEF Cqe, CQE
  <2>3. \A i \in 1 .. k : Cqe(sq[done[i]], 0, <<>>).op = sq[done[i]]
    BY Zenon DEF Cqe
  <2>4. cq' = cq \o added
    BY <1>3, <1>4, Zenon
  <2>5. added \in Seq(CQE) /\ Len(added) = k
    BY <1>3, <2>2
  <2> QED BY <2>1, <2>3, <2>4, <2>5, Zenon
<1> HIDE DEF added
<1>6. ASSUME NEW o \in {"read", "write"}, OneInRing(o)
      PROVE  cq' \in Seq(CQE) /\ Cqes(o)' = Cqes(o) /\ OneCqe(o)'
  <2>1. \A i \in 1 .. Len(added) : added[i].op # o
    BY <1>5, <1>6, Zenon
  <2> QED BY <1>1, <1>5, <1>6, <2>1, CqesAppended, Zenon DEF OneInRing
<1>7. /\ sq' = <<>> /\ Len(sq') = 0 /\ 1 .. Len(sq') = {}
      /\ \A o : Queued(o)' = FALSE
  <2>1. sq' = <<>>
    BY Zenon DEF Submit
  <2>2. Len(sq') = 0 /\ 1 .. Len(sq') = {}
    BY <2>1
  <2> QED BY <2>1, <2>2, Zenon DEF Queued
<1>8. \A o \in {"read", "write"} : o \in flight' <=> o \in flight \/ Queued(o)
  <2>1. flight' = flight \cup (Range(sq) \cap {"read", "write"})
    BY Zenon DEF Submit
  <2>2. \A o : o \in Range(sq) <=> Queued(o)
    BY <1>1, Zenon DEF Range, Queued
  <2> QED BY <2>1, <2>2, Zenon
<1>9. ASSUME NEW o \in {"read", "write"}, OneInRing(o)
      PROVE  OneInRing(o)' /\ (InRing(o)' <=> InRing(o))
  <2>1. InHand(o)' <=> InHand(o)
    BY Zenon DEF InHand
  <2>2. InRing(o)' <=> InRing(o)
    BY <1>6, <1>7, <1>8, <1>9, <2>1, Zenon DEF InRing
  <2>3. OneInRing(o)'
    BY <1>6, <1>7, <1>8, <1>9, <2>1, Zenon DEF OneInRing, OneSqe
  <2> QED BY <2>2, <2>3, Zenon
<1>10. overlap' \in BOOLEAN /\ (overlap => overlap') /\ (~overlap' => \A u \in Threads : at[u] \in {"no", "tail"})
  <2>1. overlap' = (overlap \/ at[Other(t)] \in {"take", "prep"}) /\ overlap \in BOOLEAN
    BY Zenon DEF Submit, Overlaps, RingInv, RingTyped
  <2>2. \A u \in Threads : u = t \/ u = Other(t)
    BY Zenon DEF Threads, Other
  <2>3. \A u \in Threads : at[u] \in {"no", "tail", "take", "prep"}
    BY Zenon DEF RingInv, RingTyped
  <2> QED BY <2>1, <2>2, <2>3, Zenon
<1>11. RingTyped'
  <2>1. sqe' \in [Threads -> Int] /\ \A u \in Threads : sqe'[u] <= MAX_RING_LEN
    <3>1. sqe' = [u \in Threads |-> IF at[u] \in {"take", "prep"} THEN Max({-1, sqe[u] - Len(sq)}) ELSE 0]
      BY Zenon DEF Submit
    <3>2. sqe \in [Threads -> Int] /\ \A u \in Threads : sqe[u] <= MAX_RING_LEN
      BY Zenon DEF RingInv, RingTyped
    <3>3. \A u \in Threads : Max({-1, sqe[u] - Len(sq)}) \in Int /\ Max({-1, sqe[u] - Len(sq)}) <= MAX_RING_LEN
      <4> TAKE u \in Threads
      <4>1. sqe[u] \in Int /\ sqe[u] <= MAX_RING_LEN /\ sqe[u] - Len(sq) \in Int /\ -1 \in Int
        BY <1>1, <3>2
      <4>2. Max({-1, sqe[u] - Len(sq)}) = IF -1 >= sqe[u] - Len(sq) THEN -1 ELSE sqe[u] - Len(sq)
        BY <4>1, MaxOfTwo, Zenon
      <4> QED BY <1>1, <4>1, <4>2, RingAssumption
    <3>4. 0 <= MAX_RING_LEN /\ 0 \in Int
      BY RingAssumption
    <3> QED BY <3>1, <3>3, <3>4, Zenon
  <2>2. flight' \subseteq {"read", "write"}
    BY Zenon DEF Submit, RingInv, RingTyped
  <2>3. sq' \in Seq(Ops) /\ Len(sq') <= MAX_RING_LEN
    BY <1>7, RingAssumption
  <2>4. cq' \in Seq(CQE)
    BY <1>6, Zenon DEF RingInv
  <2> QED BY <1>10, <2>1, <2>2, <2>3, <2>4, Zenon DEF RingInv, RingTyped
<1>12. Alone'
  <2>1. ~overlap' => \A u \in Threads : at'[u] # "take" /\ at'[u] # "prep"
    BY <1>10, Zenon
  <2> QED BY <2>1, Zenon DEF Alone, Threads
<1>13. Queued("wake") \/ Cqes("wake") # {} => Cqes("wake")' # {}
  <2>1. /\ \A i \in 1 .. Len(cq) : i \in DOMAIN cq' /\ cq'[i] = cq[i]
        /\ \A i \in 1 .. k : Len(cq) + i \in DOMAIN cq' /\ cq'[Len(cq) + i] = added[i]
        /\ DOMAIN cq = 1 .. Len(cq)
    BY <1>1, <1>5
  <2>2. ASSUME Queued("wake") PROVE Cqes("wake")' # {}
    <3>1. PICK j \in 1 .. Len(sq) : sq[j] = "wake"
      BY <2>2, Zenon DEF Queued
    <3>2. PICK i \in 1 .. k : done[i] = j
      BY <1>1, <1>4, <3>1, Zenon
    <3>3. cq'[Len(cq) + i].op = "wake" /\ cq'[Len(cq) + i] \in Range(cq')
      BY <1>5, <2>1, <3>1, <3>2, Zenon DEF Range
    <3> QED BY <3>3, Zenon DEF Cqes
  <2>3. ASSUME Cqes("wake") # {} PROVE Cqes("wake")' # {}
    <3>1. PICK i \in 1 .. Len(cq) : cq[i].op = "wake"
      BY <2>1, <2>3, Zenon DEF Cqes, Range
    <3>2. cq'[i].op = "wake" /\ cq'[i] \in Range(cq')
      BY <2>1, <3>1, Zenon DEF Range
    <3> QED BY <3>2, Zenon DEF Cqes
  <2> QED BY <2>2, <2>3, Zenon
<1>14. OneInRing("read") /\ OneInRing("write")
  BY Zenon DEF RingInv
<1> QED BY <1>6, <1>9, <1>10, <1>11, <1>12, <1>13, <1>14, Zenon DEF RingInv, SameCqes, KeepsOps

\* The write to the eventfd that spawn wants is on its way.
WakeHeld == Cqes("wake") # {} \/ at["main"] # "no" \/ Queued("wake")

\* What a step does with the flag overlap, and what is known when it stays off.
LEMMA OverlapKept ==
  ASSUME RingInv, NEW t \in Threads, Overlaps(t)
  PROVE  /\ overlap' \in BOOLEAN /\ (overlap => overlap')
         /\ ~overlap' => ~overlap /\ \A u \in Threads : u # t => at[u] \notin {"take", "prep"}
<1>1. overlap' = (overlap \/ at[Other(t)] \in {"take", "prep"}) /\ overlap \in BOOLEAN
  BY Zenon DEF Overlaps, RingInv, RingTyped
<1>2. \A u \in Threads : u # t => u = Other(t)
  BY DEF Threads, Other
<1> QED BY <1>1, <1>2, Zenon

\* io_uring_get_sqe reads the tail.
LEMMA LoadSqeTailKeeps ==
  ASSUME RingInv, NEW t \in Threads, LoadSqeTail(t)
  PROVE  RingInv' /\ SameCqes /\ KeepsOps /\ (~overlap' /\ WakeHeld => WakeHeld')
<1>1. /\ at[t] = "tail" /\ Len(sq) < MAX_RING_LEN /\ sqe' = [sqe EXCEPT ![t] = Len(sq) + 1]
      /\ at' = [at EXCEPT ![t] = "take"] /\ Overlaps(t) /\ UNCHANGED <<sq, op, flight, cq>>
  BY Zenon DEF LoadSqeTail
<1>2. /\ at \in [Threads -> {"no", "tail", "take", "prep"}] /\ sqe \in [Threads -> Int]
      /\ Len(sq) \in Nat /\ "loop" \in Threads /\ "main" \in Threads
      /\ \A u \in Threads : sqe[u] <= MAX_RING_LEN
  <2>1. sq \in Seq(Ops)
    BY Zenon DEF RingInv, RingTyped
  <2>2. Len(sq) \in Nat
    BY <2>1
  <2> QED BY <2>2, Zenon DEF RingInv, RingTyped, Threads
<1>3. /\ at' \in [Threads -> {"no", "tail", "take", "prep"}] /\ at'[t] = "take"
      /\ \A u \in Threads : u # t => at'[u] = at[u]
      /\ \A u \in Threads : at'[u] = "no" <=> at[u] = "no"
  BY <1>1, <1>2, Zenon
<1>4. /\ sqe' \in [Threads -> Int] /\ sqe'[t] = Len(sq) + 1
      /\ \A u \in Threads : sqe'[u] <= MAX_RING_LEN /\ (u # t => sqe'[u] = sqe[u])
  BY <1>1, <1>2, RingAssumption
<1>5. \A o : /\ (InHand(o)' <=> InHand(o)) /\ (Queued(o)' <=> Queued(o)) /\ Cqes(o)' = Cqes(o)
             /\ (OneSqe(o)' <=> OneSqe(o)) /\ (OneCqe(o)' <=> OneCqe(o))
             /\ (o \in flight' <=> o \in flight)
  <2>1. \A o : InHand(o)' <=> InHand(o)
    BY <1>1, <1>2, <1>3, Zenon DEF InHand
  <2>2. \A o : (Queued(o)' <=> Queued(o)) /\ (OneSqe(o)' <=> OneSqe(o))
    BY <1>1, Zenon DEF Queued, OneSqe
  <2>3. \A o : Cqes(o)' = Cqes(o) /\ (OneCqe(o)' <=> OneCqe(o)) /\ (o \in flight' <=> o \in flight)
    BY <1>1, Zenon DEF Cqes, OneCqe
  <2> QED BY <2>1, <2>2, <2>3, Zenon
<1>6. /\ overlap' \in BOOLEAN /\ (overlap => overlap')
      /\ ~overlap' => ~overlap /\ \A u \in Threads : u # t => at[u] \notin {"take", "prep"}
  BY <1>1, OverlapKept, Zenon
<1>7. RingTyped'
  BY <1>1, <1>2, <1>3, <1>4, <1>6, Zenon DEF RingInv, RingTyped
<1>8. Alone'
  <2> SUFFICES ASSUME ~overlap'
               PROVE  /\ at'["main"] \in {"take", "prep"} => at'["loop"] \notin {"take", "prep"}
                      /\ \A u \in Threads :
                           /\ at'[u] = "take" => sqe'[u] = Len(sq') + 1
                           /\ at'[u] = "prep" => Len(sq') > 0 /\ sqe'[u] = Len(sq') /\ sq'[Len(sq')] = "unset"
    BY Zenon DEF Alone
  <2>1. \A u \in Threads : u # t => at'[u] \notin {"take", "prep"}
    BY <1>3, <1>6, Zenon
  <2>2. "main" # "loop"
    BY Zenon
  <2> QED BY <1>1, <1>2, <1>3, <1>4, <2>1, <2>2, Zenon
<1>9. OneInRing("read")' /\ OneInRing("write")'
  BY <1>5, Zenon DEF RingInv, OneInRing
<1>10. KeepsOps /\ SameCqes /\ (WakeHeld <=> WakeHeld')
  BY <1>2, <1>3, <1>5, <1>6, Zenon DEF KeepsOps, SameCqes, InRing, WakeHeld
<1> QED BY <1>7, <1>8, <1>9, <1>10, Zenon DEF RingInv

\* io_uring_get_sqe stores the tail; alone, it adds an entry.
LEMMA StoreSqeTailKeeps ==
  ASSUME RingInv, NEW t \in Threads, StoreSqeTail(t)
  PROVE  /\ RingInv' /\ SameCqes /\ KeepsOps /\ (~overlap' /\ WakeHeld => WakeHeld')
         /\ crashed' => overlap'
<1>1. /\ at[t] = "take" /\ at' = [at EXCEPT ![t] = "prep"] /\ Overlaps(t)
      /\ sq' = IF sqe[t] > Len(sq) THEN Append(sq, "unset") ELSE SubSeq(sq, 1, sqe[t])
      /\ crashed' = (sqe[t] < 0) /\ UNCHANGED <<op, sqe, flight, cq>>
  BY Zenon DEF StoreSqeTail
<1>2. /\ at \in [Threads -> {"no", "tail", "take", "prep"}] /\ sqe \in [Threads -> Int]
      /\ sq \in Seq(Ops) /\ "loop" \in Threads /\ "main" \in Threads
      /\ Len(sq) <= MAX_RING_LEN /\ \A u \in Threads : sqe[u] <= MAX_RING_LEN
  BY Zenon DEF RingInv, RingTyped, Threads
<1>3. /\ at' \in [Threads -> {"no", "tail", "take", "prep"}] /\ at'[t] = "prep"
      /\ \A u \in Threads : u # t => at'[u] = at[u]
      /\ \A u \in Threads : at'[u] = "no" <=> at[u] = "no"
  BY <1>1, <1>2, Zenon
<1>4. /\ overlap' \in BOOLEAN /\ (overlap => overlap')
      /\ ~overlap' => ~overlap /\ \A u \in Threads : u # t => at[u] \notin {"take", "prep"}
  BY <1>1, OverlapKept, Zenon
<1>5. ~overlap' => sqe[t] = Len(sq) + 1
  BY <1>1, <1>4, Zenon DEF RingInv, Alone
<1>6. /\ sq' \in Seq(Ops) /\ Len(sq') <= MAX_RING_LEN /\ Len(sq') \in Nat
      /\ \A i \in 1 .. Len(sq') : sq'[i] = "unset" \/ (i \in 1 .. Len(sq) /\ sq'[i] = sq[i])
      /\ ~overlap' => /\ Len(sq') = sqe[t] /\ Len(sq') > 0 /\ sq'[Len(sq')] = "unset"
                      /\ \A i \in 1 .. Len(sq) : i \in 1 .. Len(sq') /\ sq'[i] = sq[i]
  <2>1. "unset" \in Ops /\ Len(sq) \in Nat /\ sqe[t] \in Int /\ sqe[t] <= MAX_RING_LEN
    BY <1>2 DEF Ops
  <2>2. CASE sqe[t] > Len(sq)
    <3>1. sq' = Append(sq, "unset")
      BY <1>1, <2>2, Zenon
    <3>2. /\ sq' \in Seq(Ops) /\ Len(sq') = Len(sq) + 1 /\ sq'[Len(sq) + 1] = "unset"
          /\ \A i \in 1 .. Len(sq) : sq'[i] = sq[i]
      BY <1>2, <2>1, <3>1
    <3>3. /\ Len(sq') <= MAX_RING_LEN /\ Len(sq') \in Nat /\ Len(sq') > 0 /\ sq'[Len(sq')] = "unset"
          /\ (~overlap' => Len(sq') = sqe[t])
      BY <1>5, <2>1, <2>2, <3>2, RingAssumption
    <3>4. /\ \A i \in 1 .. Len(sq') : i \in 1 .. Len(sq) \/ i = Len(sq')
          /\ \A i \in 1 .. Len(sq) : i \in 1 .. Len(sq')
      BY <2>1, <3>2
    <3> QED BY <3>2, <3>3, <3>4, Zenon
  <2>3. CASE ~(sqe[t] > Len(sq))
    <3>1. overlap'
      BY <1>5, <2>1, <2>3
    <3>2. sq' = SubSeq(sq, 1, sqe[t])
      BY <1>1, <2>3, Zenon
    <3>3. CASE sqe[t] < 1
      <4>1. sq' = <<>>
        BY <1>2, <2>1, <3>2, <3>3
      <4> QED BY <2>1, <3>1, <4>1, RingAssumption
    <3>4. CASE sqe[t] >= 1
      <4>1. /\ sq' \in Seq(Ops) /\ Len(sq') = sqe[t]
            /\ \A i \in 1 .. sqe[t] : sq'[i] = sq[i]
        BY <1>2, <2>1, <2>3, <3>2, <3>4
      <4> QED BY <2>1, <2>3, <3>1, <4>1
    <3> QED BY <2>1, <3>3, <3>4
  <2> QED BY <2>2, <2>3, Zenon
<1>7. ASSUME NEW o, o # "unset"
      PROVE  /\ Queued(o)' => Queued(o)
             /\ Queued(o) => Queued(o)' \/ overlap'
             /\ OneSqe(o) => OneSqe(o)'
  <2>1. \A i \in 1 .. Len(sq') : sq'[i] = o => i \in 1 .. Len(sq) /\ sq[i] = o
    BY <1>6, <1>7, Zenon
  <2>2. OneSqe(o) => OneSqe(o)'
    BY <2>1, Zenon DEF OneSqe
  <2> QED BY <1>6, <2>1, <2>2, Zenon DEF Queued
<1>8. \A o : /\ (InHand(o)' <=> InHand(o)) /\ Cqes(o)' = Cqes(o) /\ (OneCqe(o)' <=> OneCqe(o))
             /\ (o \in flight' <=> o \in flight)
  <2>1. \A o : InHand(o)' <=> InHand(o)
    BY <1>1, <1>2, <1>3, Zenon DEF InHand
  <2>2. \A o : Cqes(o)' = Cqes(o) /\ (OneCqe(o)' <=> OneCqe(o)) /\ (o \in flight' <=> o \in flight)
    BY <1>1, Zenon DEF Cqes, OneCqe
  <2> QED BY <2>1, <2>2, Zenon
<1>9. RingTyped'
  BY <1>1, <1>2, <1>3, <1>4, <1>6, Zenon DEF RingInv, RingTyped
<1>10. Alone'
  <2> SUFFICES ASSUME ~overlap'
               PROVE  /\ at'["main"] \in {"take", "prep"} => at'["loop"] \notin {"take", "prep"}
                      /\ \A u \in Threads :
                           /\ at'[u] = "take" => sqe'[u] = Len(sq') + 1
                           /\ at'[u] = "prep" => Len(sq') > 0 /\ sqe'[u] = Len(sq') /\ sq'[Len(sq')] = "unset"
    BY Zenon DEF Alone
  <2>1. \A u \in Threads : u # t => at'[u] \notin {"take", "prep"}
    BY <1>3, <1>4, Zenon
  <2>2. "main" # "loop" /\ sqe'[t] = Len(sq') /\ at'[t] # "take"
    BY <1>1, <1>3, <1>6, Zenon
  <2> QED BY <1>2, <1>6, <2>1, <2>2, Zenon
<1>11. \A o \in {"read", "write", "wake"} : o # "unset"
  BY Zenon
<1>12. OneInRing("read")' /\ OneInRing("write")'
  BY <1>7, <1>8, <1>11, Zenon DEF RingInv, OneInRing
<1>13. KeepsOps /\ SameCqes
  BY <1>4, <1>7, <1>8, <1>11, Zenon DEF KeepsOps, SameCqes, InRing
<1>14. ~overlap' /\ WakeHeld => WakeHeld'
  BY <1>2, <1>3, <1>7, <1>8, <1>11, Zenon DEF WakeHeld
<1>15. crashed' => overlap'
  <2>1. Len(sq) \in Nat /\ sqe[t] \in Int
    BY <1>2
  <2>2. sqe[t] < 0 => overlap'
    BY <1>5, <2>1
  <2> QED BY <1>1, <2>2, Zenon
<1> QED BY <1>9, <1>10, <1>12, <1>13, <1>14, <1>15, Zenon DEF RingInv

\* io_uring_prep_*: the operation goes from the hands of the thread into the queue.
LEMMA PrepSqeKeeps ==
  ASSUME RingInv, NEW t \in Threads, PrepSqe(t)
  PROVE  RingInv' /\ SameCqes /\ KeepsOps /\ (~overlap' /\ WakeHeld => WakeHeld')
<1>1. /\ at[t] = "prep" /\ at' = [at EXCEPT ![t] = "no"] /\ Overlaps(t)
      /\ sq' = IF sqe[t] \in DOMAIN sq THEN [sq EXCEPT ![sqe[t]] = op[t]] ELSE sq
      /\ sqe' = [sqe EXCEPT ![t] = 0] /\ op' = [op EXCEPT ![t] = "unset"] /\ UNCHANGED <<flight, cq>>
  BY Zenon DEF PrepSqe
<1>2. /\ at \in [Threads -> {"no", "tail", "take", "prep"}] /\ sqe \in [Threads -> Int]
      /\ op \in [Threads -> Ops] /\ op["loop"] # "wake" /\ op["main"] \notin {"read", "write"}
      /\ at["main"] # "no" => op["main"] = "wake"
      /\ sq \in Seq(Ops) /\ "loop" \in Threads /\ "main" \in Threads
      /\ Len(sq) <= MAX_RING_LEN /\ \A u \in Threads : sqe[u] <= MAX_RING_LEN
  BY Zenon DEF RingInv, RingTyped, Threads
<1>3. /\ at' \in [Threads -> {"no", "tail", "take", "prep"}] /\ at'[t] = "no"
      /\ \A u \in Threads : u # t => at'[u] = at[u]
  BY <1>1, <1>2, Zenon
<1>4. /\ op' \in [Threads -> Ops] /\ op'[t] = "unset"
      /\ \A u \in Threads : u # t => op'[u] = op[u]
  BY <1>1, <1>2, Zenon DEF Ops
<1>5. /\ sqe' \in [Threads -> Int] /\ \A u \in Threads : sqe'[u] <= MAX_RING_LEN /\ (u # t => sqe'[u] = sqe[u])
  BY <1>1, <1>2, RingAssumption
<1>6. /\ overlap' \in BOOLEAN /\ (overlap => overlap')
      /\ ~overlap' => ~overlap /\ \A u \in Threads : u # t => at[u] \notin {"take", "prep"}
  BY <1>1, OverlapKept, Zenon
<1>7. ~overlap' => Len(sq) > 0 /\ sqe[t] = Len(sq) /\ sq[Len(sq)] = "unset"
  BY <1>1, <1>6, Zenon DEF RingInv, Alone
<1>8. /\ sq' \in Seq(Ops) /\ Len(sq') = Len(sq) /\ Len(sq) \in Nat
      /\ \A i \in 1 .. Len(sq) : sq'[i] = sq[i] \/ (i = sqe[t] /\ sq'[i] = op[t])
      /\ ~overlap' => sqe[t] \in 1 .. Len(sq) /\ sq[sqe[t]] = "unset" /\ sq'[sqe[t]] = op[t]
  <2>1. op[t] \in Ops /\ DOMAIN sq = 1 .. Len(sq) /\ Len(sq) \in Nat
    BY <1>2
  <2>2. CASE sqe[t] \in 1 .. Len(sq)
    <3>1. sq' = [sq EXCEPT ![sqe[t]] = op[t]]
      BY <1>1, <2>1, <2>2, Zenon
    <3>2. sq' \in Seq(Ops) /\ Len(sq') = Len(sq) /\ \A i \in 1 .. Len(sq) : sq'[i] = IF i = sqe[t] THEN op[t] ELSE sq[i]
      BY <1>2, <2>1, <2>2, <3>1
    <3> QED BY <1>7, <2>1, <2>2, <3>2, Zenon
  <2>3. CASE sqe[t] \notin 1 .. Len(sq)
    <3>1. sq' = sq
      BY <1>1, <2>1, <2>3, Zenon
    <3>2. ~overlap' => sqe[t] \in 1 .. Len(sq)
      BY <1>7, <2>1
    <3> QED BY <1>2, <2>1, <2>3, <3>1, <3>2, Zenon
  <2> QED BY <2>2, <2>3, Zenon
<1>9. \A o : Cqes(o)' = Cqes(o) /\ (OneCqe(o)' <=> OneCqe(o)) /\ (o \in flight' <=> o \in flight)
  BY <1>1, Zenon DEF Cqes, OneCqe
<1>10. ASSUME NEW o, o # "unset", op[t] # o
       PROVE  /\ Queued(o)' => Queued(o)
              /\ Queued(o) => Queued(o)' \/ overlap'
              /\ OneSqe(o) => OneSqe(o)'
  <2>1. \A i \in 1 .. Len(sq') : sq'[i] = o => i \in 1 .. Len(sq) /\ sq[i] = o
    BY <1>8, <1>10, Zenon
  <2>2. \A i \in 1 .. Len(sq) : sq[i] = o => overlap' \/ sq'[i] = o
    BY <1>8, <1>10, Zenon
  <2> QED BY <1>8, <2>1, <2>2, Zenon DEF OneSqe, Queued
<1>11. ASSUME NEW o \in {"read", "write"}, OneInRing(o)
       PROVE  OneInRing(o)' /\ (InRing(o)' => InRing(o)) /\ (InRing(o) => InRing(o)' \/ overlap')
  <2>1. o # "unset" /\ o # "wake"
    BY <1>11, Zenon
  <2>2. CASE op[t] # o
    <3>1. InHand(o)' <=> InHand(o)
      BY <1>2, <1>3, <1>4, <2>1, <2>2, Zenon DEF InHand
    <3>2. OneInRing(o)'
      BY <1>9, <1>10, <1>11, <2>1, <2>2, <3>1, Zenon DEF OneInRing
    <3> QED BY <1>9, <1>10, <2>1, <2>2, <3>1, <3>2, Zenon DEF InRing
  <2>3. CASE op[t] = o
    <3>1. t = "loop"
      BY <1>2, <2>3, <1>11, Zenon DEF Threads
    <3>2. InHand(o) /\ ~InHand(o)'
      BY <1>1, <1>3, <2>3, <3>1, Zenon DEF InHand
    <3>3. ~Queued(o) /\ o \notin flight /\ Cqes(o) = {}
      BY <1>11, <3>2, Zenon DEF OneInRing
    <3>4. \A i \in 1 .. Len(sq') : sq'[i] = o => i = sqe[t]
      BY <1>8, <3>3, Zenon DEF Queued
    <3>5. OneSqe(o)'
      BY <3>4, Zenon DEF OneSqe
    <3>6. OneInRing(o)'
      BY <1>9, <1>11, <3>2, <3>3, <3>5, Zenon DEF OneInRing
    <3>7. Queued(o)' \/ overlap'
      BY <1>8, <2>3, Zenon DEF Queued
    <3> QED BY <3>2, <3>6, <3>7, Zenon DEF InRing
  <2> QED BY <2>2, <2>3, Zenon
<1>12. RingTyped'
  <2>1. op'["loop"] # "wake" /\ op'["main"] \notin {"read", "write"} /\ (at'["main"] # "no" => op'["main"] = "wake")
    BY <1>2, <1>3, <1>4, Zenon
  <2> QED BY <1>1, <1>2, <1>3, <1>4, <1>5, <1>6, <1>8, <2>1, Zenon DEF RingInv, RingTyped
<1>13. Alone'
  <2>1. ~overlap' => \A u \in Threads : at'[u] \notin {"take", "prep"}
    BY <1>3, <1>6, Zenon
  <2> QED BY <1>2, <2>1, Zenon DEF Alone
<1>14. ~overlap' /\ WakeHeld => WakeHeld'
  <2>1. CASE t = "main"
    <3>1. op[t] = "wake"
      BY <1>1, <1>2, <2>1, Zenon
    <3>2. Queued("wake")' \/ overlap'
      BY <1>8, <3>1, Zenon DEF Queued
    <3> QED BY <3>2, Zenon DEF WakeHeld
  <2>2. CASE t = "loop"
    <3>1. op[t] # "wake" /\ at'["main"] = at["main"] /\ "wake" # "unset"
      BY <1>2, <1>3, <2>2, Zenon
    <3> QED BY <1>9, <1>10, <3>1, Zenon DEF WakeHeld
  <2> QED BY <2>1, <2>2, Zenon DEF Threads
<1>15. OneInRing("read")' /\ OneInRing("write")' /\ KeepsOps /\ SameCqes
  BY <1>6, <1>9, <1>11, Zenon DEF RingInv, KeepsOps, SameCqes
<1> QED BY <1>12, <1>13, <1>14, <1>15, Zenon DEF RingInv

\* Every step of a thread at the ring; only two at once can lose the tail.
LEMMA UseRingKeeps ==
  ASSUME RingInv, NEW t \in Threads, UseRing(t)
  PROVE  /\ RingInv' /\ SameCqes /\ KeepsOps /\ (~overlap' /\ WakeHeld => WakeHeld')
         /\ (crashed' => overlap') /\ (Cqes("wake") # {} => Cqes("wake")' # {})
<1>1. ~crashed /\ (RingFull(t) \/ LoadSqeTail(t) \/ StoreSqeTail(t) \/ PrepSqe(t))
  BY Zenon DEF UseRing
<1>2. CASE RingFull(t)
  <2>1. Submit(t) /\ at[t] = "tail" /\ UNCHANGED <<at, op>> /\ UNCHANGED crashed
    BY <1>2, Zenon DEF RingFull
  <2>2. /\ RingInv' /\ SameCqes /\ KeepsOps
        /\ Queued("wake") \/ Cqes("wake") # {} => Cqes("wake")' # {}
    BY <2>1, SubmitKeeps, Zenon
  <2> QED BY <1>1, <2>1, <2>2, Zenon DEF WakeHeld
<1>3. CASE LoadSqeTail(t)
  <2>1. UNCHANGED crashed /\ Cqes("wake")' = Cqes("wake")
    BY <1>3, Zenon DEF LoadSqeTail, Cqes
  <2> QED BY <1>1, <1>3, <2>1, LoadSqeTailKeeps, Zenon
<1>4. CASE StoreSqeTail(t)
  <2>1. Cqes("wake")' = Cqes("wake")
    BY <1>4, Zenon DEF StoreSqeTail, Cqes
  <2> QED BY <1>4, <2>1, StoreSqeTailKeeps, Zenon
<1>5. CASE PrepSqe(t)
  <2>1. UNCHANGED crashed /\ Cqes("wake")' = Cqes("wake")
    BY <1>5, Zenon DEF PrepSqe, Cqes
  <2> QED BY <1>1, <1>5, <2>1, PrepSqeKeeps, Zenon
<1> QED BY <1>1, <1>2, <1>3, <1>4, <1>5, Zenon

\* The kernel completes an operation that it is at.
LEMMA CompletesKeeps ==
  ASSUME RingInv, NEW o \in {"read", "write"}, NEW n \in Int, NEW units \in Seq(RingUnits),
         Completes(o, n, units)
  PROVE  /\ RingInv' /\ (\A x \in {"read", "write"} : InRing(x)' <=> InRing(x)) /\ InRing(o)
         /\ ~InHand(o) /\ ~Queued(o) /\ Cqes(o) = {} /\ Cqes(o)' = {Cqe(o, n, units)}
         /\ \A x : x # o => Cqes(x)' = Cqes(x)
         /\ (WakeHeld => WakeHeld')
<1> DEFINE e == Cqe(o, n, units)
<1>1. /\ o \in flight /\ flight' = flight \ {o} /\ cq' = Append(cq, e)
      /\ UNCHANGED <<sq, at, op, sqe, overlap>>
  BY Zenon DEF Completes
<1>2. e \in CQE /\ e.op = o
  <2>1. o \in Ops
    BY Zenon DEF Ops
  <2> QED BY <2>1, Zenon DEF CQE, Cqe
<1> HIDE DEF e
<1>3. cq \in Seq(CQE)
  BY Zenon DEF RingInv, RingTyped
<1>4. /\ cq' \in Seq(CQE) /\ Len(cq) \in Nat /\ Len(cq') = Len(cq) + 1 /\ cq'[Len(cq')] = e
      /\ \A i \in 1 .. Len(cq) : i \in 1 .. Len(cq') /\ cq'[i] = cq[i]
      /\ DOMAIN cq = 1 .. Len(cq) /\ DOMAIN cq' = 1 .. Len(cq')
      /\ Len(cq') \in 1 .. Len(cq')
      /\ \A i \in 1 .. Len(cq') : i \in 1 .. Len(cq) \/ i = Len(cq')
  <2>1. /\ cq' \in Seq(CQE) /\ Len(cq) \in Nat /\ Len(cq') = Len(cq) + 1 /\ cq'[Len(cq) + 1] = e
        /\ \A i \in 1 .. Len(cq) : cq'[i] = cq[i]
        /\ DOMAIN cq = 1 .. Len(cq) /\ DOMAIN cq' = 1 .. Len(cq')
    BY <1>1, <1>2, <1>3
  <2> QED BY <2>1
<1>5. OneInRing(o) /\ ~InHand(o) /\ ~Queued(o) /\ Cqes(o) = {}
  BY <1>1, Zenon DEF RingInv, OneInRing
<1>6. \A x : /\ Cqes(x) = {y \in {cq[i] : i \in 1 .. Len(cq)} : y.op = x}
             /\ Cqes(x)' = {y \in {cq'[i] : i \in 1 .. Len(cq')} : y.op = x}
  BY <1>4, Zenon DEF Cqes, Range
<1>7. \A i \in 1 .. Len(cq) : cq[i].op # o
  BY <1>5, <1>6, Zenon
<1>8. Cqes(o)' = {e} /\ OneCqe(o)'
  <2>1. \A i \in 1 .. Len(cq') : cq'[i].op = o => i = Len(cq')
    BY <1>4, <1>7, Zenon
  <2>2. OneCqe(o)'
    BY <2>1, Zenon DEF OneCqe
  <2>3. e \in Cqes(o)'
    BY <1>2, <1>4, <1>6, Zenon
  <2>4. ASSUME NEW y \in Cqes(o)' PROVE y = e
    <3>1. PICK i \in 1 .. Len(cq') : y = cq'[i] /\ y.op = o
      BY <1>6, <2>4, Zenon
    <3> QED BY <1>4, <2>1, <3>1, Zenon
  <2> QED BY <2>2, <2>3, <2>4, Zenon
<1>9. ASSUME NEW x, x # o PROVE Cqes(x)' = Cqes(x) /\ (OneCqe(x) => OneCqe(x)')
  <2>1. \A i \in 1 .. Len(cq') : cq'[i].op = x => i \in 1 .. Len(cq) /\ cq[i].op = x /\ cq'[i] = cq[i]
    BY <1>2, <1>4, <1>9, Zenon
  <2>2. OneCqe(x) => OneCqe(x)'
    BY <2>1, Zenon DEF OneCqe
  <2>3. ASSUME NEW y \in Cqes(x)' PROVE y \in Cqes(x)
    <3>1. PICK i \in 1 .. Len(cq') : y = cq'[i] /\ y.op = x
      BY <1>6, <2>3, Zenon
    <3> QED BY <1>6, <2>1, <3>1, Zenon
  <2>4. ASSUME NEW y \in Cqes(x) PROVE y \in Cqes(x)'
    <3>1. PICK i \in 1 .. Len(cq) : y = cq[i] /\ y.op = x
      BY <1>6, <2>4, Zenon
    <3> QED BY <1>4, <1>6, <3>1, Zenon
  <2> QED BY <2>2, <2>3, <2>4, Zenon
<1>10. \A x : (InHand(x)' <=> InHand(x)) /\ (Queued(x)' <=> Queued(x)) /\ (OneSqe(x)' <=> OneSqe(x))
  BY <1>1, Zenon DEF InHand, Queued, OneSqe
<1>11. o \notin flight' /\ \A x : x # o => (x \in flight' <=> x \in flight)
  BY <1>1, Zenon
<1>12. ASSUME NEW x \in {"read", "write"}, OneInRing(x)
       PROVE  OneInRing(x)' /\ (InRing(x)' <=> InRing(x))
  <2>1. CASE x = o
    BY <1>1, <1>5, <1>8, <1>10, <1>11, <2>1, Zenon DEF OneInRing, InRing
  <2>2. CASE x # o
    BY <1>9, <1>10, <1>11, <1>12, <2>2, Zenon DEF OneInRing, InRing
  <2> QED BY <2>1, <2>2, Zenon
<1>13. RingTyped' /\ Alone'
  BY <1>1, <1>4, Zenon DEF RingInv, RingTyped, Alone
<1>14. WakeHeld => WakeHeld'
  <2>1. "wake" # o
    BY Zenon
  <2> QED BY <1>1, <1>9, <1>10, <2>1, Zenon DEF WakeHeld
<1>15. RingInv' /\ \A x \in {"read", "write"} : InRing(x)' <=> InRing(x)
  BY <1>12, <1>13, Zenon DEF RingInv
<1> QED BY <1>1, <1>5, <1>8, <1>9, <1>14, <1>15, Zenon DEF e, InRing

\* The loop takes the next completion from the queue.
LEMMA TailCqes ==
  ASSUME RingInv, cq # <<>>, cq' = Tail(cq)
  PROVE  /\ Head(cq) \in CQE /\ cq' \in Seq(CQE) /\ Head(cq) \in Cqes(Head(cq).op)
         /\ \A o : o # Head(cq).op => Cqes(o)' = Cqes(o)
         /\ \A o \in {"read", "write"} :
              /\ OneCqe(o)' /\ Cqes(o)' \subseteq Cqes(o)
              /\ o = Head(cq).op => Cqes(o)' = {} /\ Cqes(o) = {Head(cq)} /\ InRing(o)
<1>1. cq \in Seq(CQE)
  BY Zenon DEF RingInv, RingTyped
<1>2. /\ Head(cq) \in CQE /\ cq' \in Seq(CQE) /\ Len(cq) \in Nat /\ Len(cq') = Len(cq) - 1 /\ Head(cq) = cq[1]
      /\ 1 \in 1 .. Len(cq) /\ \A i \in 1 .. Len(cq') : i + 1 \in 1 .. Len(cq) /\ i + 1 # 1 /\ cq'[i] = cq[i + 1]
      /\ \A i \in 1 .. Len(cq) : i = 1 \/ (i - 1 \in 1 .. Len(cq') /\ cq'[i - 1] = cq[i])
      /\ DOMAIN cq = 1 .. Len(cq) /\ DOMAIN cq' = 1 .. Len(cq')
  BY <1>1
<1>3. \A x : /\ Cqes(x) = {y \in {cq[i] : i \in 1 .. Len(cq)} : y.op = x}
             /\ Cqes(x)' = {y \in {cq'[i] : i \in 1 .. Len(cq')} : y.op = x}
  BY <1>2, Zenon DEF Cqes, Range
<1>4. ASSUME NEW o PROVE Cqes(o)' \subseteq Cqes(o) /\ (o # Head(cq).op => Cqes(o)' = Cqes(o))
  <2>1. ASSUME NEW y \in Cqes(o)' PROVE y \in Cqes(o)
    <3>1. PICK i \in 1 .. Len(cq') : y = cq'[i] /\ y.op = o
      BY <1>3, <2>1, Zenon
    <3>2. i + 1 \in 1 .. Len(cq) /\ y = cq[i + 1]
      BY <1>2, <3>1, Zenon
    <3> QED BY <1>3, <3>1, <3>2, Zenon
  <2>2. ASSUME o # Head(cq).op, NEW y \in Cqes(o) PROVE y \in Cqes(o)'
    <3>1. PICK i \in 1 .. Len(cq) : y = cq[i] /\ y.op = o
      BY <1>3, <2>2, Zenon
    <3>2. i - 1 \in 1 .. Len(cq') /\ y = cq'[i - 1]
      BY <1>2, <2>2, <3>1, Zenon
    <3> QED BY <1>3, <3>1, <3>2, Zenon
  <2> QED BY <2>1, <2>2, Zenon
<1>5. ASSUME NEW o, OneCqe(o) PROVE OneCqe(o)'
  <2> SUFFICES ASSUME NEW i \in 1 .. Len(cq'), NEW j \in 1 .. Len(cq'), cq'[i].op = o, cq'[j].op = o
               PROVE  i = j
    BY Zenon DEF OneCqe
  <2>1. i + 1 \in 1 .. Len(cq) /\ cq[i + 1].op = o /\ j + 1 \in 1 .. Len(cq) /\ cq[j + 1].op = o
    BY <1>2, Zenon
  <2>2. i + 1 = j + 1
    BY <1>5, <2>1, Zenon DEF OneCqe
  <2> QED BY <1>2, <2>2
<1>6. ASSUME NEW o, OneCqe(o), o = Head(cq).op PROVE Cqes(o)' = {} /\ Cqes(o) = {Head(cq)}
  <2>1. \A i \in 1 .. Len(cq) : cq[i].op = o => i = 1
    BY <1>2, <1>6, Zenon DEF OneCqe
  <2>2. \A i \in 1 .. Len(cq') : cq'[i].op # o
    <3> TAKE i \in 1 .. Len(cq')
    <3>1. i + 1 \in 1 .. Len(cq) /\ i + 1 # 1 /\ cq'[i] = cq[i + 1]
      BY <1>2, Zenon
    <3> QED BY <2>1, <3>1, Zenon
  <2>3. Cqes(o)' = {}
    BY <1>3, <2>2, Zenon
  <2>4. Head(cq) \in Cqes(o)
    BY <1>2, <1>3, <1>6, Zenon
  <2>5. ASSUME NEW y \in Cqes(o) PROVE y = Head(cq)
    <3>1. PICK i \in 1 .. Len(cq) : y = cq[i] /\ y.op = o
      BY <1>3, <2>5, Zenon
    <3> QED BY <1>2, <2>1, <3>1, Zenon
  <2> QED BY <2>3, <2>4, <2>5, Zenon
<1>7. \A o \in {"read", "write"} : OneCqe(o)
  BY Zenon DEF RingInv, OneInRing
<1>8. Head(cq) \in Cqes(Head(cq).op)
  BY <1>2, <1>3, Zenon
<1> QED BY <1>2, <1>4, <1>5, <1>6, <1>7, <1>8, Zenon DEF InRing

\* The loop's thread, with no entry in its hands, takes completions and may want an operation that
\* is not in the ring.
LEMMA LoopKeeps ==
  ASSUME RingInv, at["loop"] = "no", UNCHANGED <<sq, sqe, flight, overlap>>, cq' \in Seq(CQE),
         \A o \in {"read", "write"} : OneCqe(o)' /\ Cqes(o)' \subseteq Cqes(o),
         NEW w \in {"read", "write"},
         \/ UNCHANGED <<at, op>>
         \/ Wants("loop", w) /\ ~Queued(w) /\ w \notin flight /\ Cqes(w)' = {}
  PROVE  /\ RingInv' /\ at'["main"] = at["main"]
         /\ \A o : (Queued(o)' <=> Queued(o)) /\ (o \in flight' <=> o \in flight) /\ ~InHand(o)
         /\ UNCHANGED <<at, op>> => \A o : ~InHand(o)'
         /\ Wants("loop", w) => \A o : InHand(o)' <=> o = w
<1>1. /\ at \in [Threads -> {"no", "tail", "take", "prep"}] /\ op \in [Threads -> Ops]
      /\ "loop" \in Threads /\ "main" \in Threads
  BY Zenon DEF RingInv, RingTyped, Threads
<1>2. \A o : /\ (Queued(o)' <=> Queued(o)) /\ (o \in flight' <=> o \in flight) /\ ~InHand(o)
             /\ (OneSqe(o)' <=> OneSqe(o))
  BY Zenon DEF Queued, InHand, OneSqe
<1>3. CASE UNCHANGED <<at, op>>
  <2>1. \A o : ~InHand(o)'
    BY <1>3, Zenon DEF InHand
  <2>2. RingTyped' /\ Alone'
    BY <1>3, Zenon DEF RingInv, RingTyped, Alone
  <2>3. OneInRing("read")' /\ OneInRing("write")'
    BY <1>2, <2>1, Zenon DEF RingInv, OneInRing
  <2>4. Wants("loop", w) => FALSE
    <3>1. Wants("loop", w) => at'["loop"] = "tail"
      BY <1>1, Zenon DEF Wants
    <3> QED BY <1>3, <3>1, Zenon
  <2> QED BY <1>2, <1>3, <2>1, <2>2, <2>3, <2>4, Zenon DEF RingInv
<1>4. CASE Wants("loop", w) /\ ~Queued(w) /\ w \notin flight /\ Cqes(w)' = {}
  <2>1. /\ at' \in [Threads -> {"no", "tail", "take", "prep"}] /\ op' \in [Threads -> Ops]
        /\ at'["loop"] = "tail" /\ at'["main"] = at["main"] /\ op'["loop"] = w /\ op'["main"] = op["main"]
    <3>1. w \in Ops /\ "main" # "loop"
      BY Zenon DEF Ops
    <3> QED BY <1>1, <1>4, <3>1, Zenon DEF Wants
  <2>2. \A o : InHand(o)' <=> o = w
    BY <2>1, Zenon DEF InHand
  <2>3. RingTyped'
    <3>1. w # "wake"
      BY Zenon
    <3> QED BY <2>1, <3>1, Zenon DEF RingInv, RingTyped
  <2>4. Alone'
    <3> SUFFICES ASSUME ~overlap'
                 PROVE  /\ at'["main"] \in {"take", "prep"} => at'["loop"] \notin {"take", "prep"}
                        /\ \A u \in Threads :
                             /\ at'[u] = "take" => sqe'[u] = Len(sq') + 1
                             /\ at'[u] = "prep" => Len(sq') > 0 /\ sqe'[u] = Len(sq') /\ sq'[Len(sq')] = "unset"
      BY Zenon DEF Alone
    <3>1. \A u \in Threads : /\ at[u] = "take" => sqe[u] = Len(sq) + 1
                             /\ at[u] = "prep" => Len(sq) > 0 /\ sqe[u] = Len(sq) /\ sq[Len(sq)] = "unset"
      BY Zenon DEF RingInv, Alone
    <3>2. \A u \in Threads : at'[u] = at[u] \/ at'[u] = "tail"
      BY <2>1, Zenon DEF Threads
    <3>3. "tail" # "take" /\ "tail" # "prep"
      BY Zenon
    <3> QED BY <2>1, <3>1, <3>2, <3>3, Zenon
  <2>5. OneInRing("read")' /\ OneInRing("write")'
    BY <1>2, <1>4, <2>2, Zenon DEF RingInv, OneInRing
  <2>6. UNCHANGED <<at, op>> => FALSE
    BY <2>1, Zenon
  <2> QED BY <1>2, <2>1, <2>2, <2>3, <2>4, <2>5, <2>6, Zenon DEF RingInv
<1> QED BY <1>3, <1>4, Zenon
=============================================================================
