------------------------ MODULE ClientChannelProofs -------------------------
(***************************************************************************)
(* The safety of ClientChannel for any finite set of calls and any send    *)
(* buffer: TypeOK, RightCallback, NoCallLost and CrashOnlyWhenDown.        *)
(***************************************************************************)
EXTENDS ClientChannel, ConnectionProofs, FiniteSetTheorems

\* The units of responses; those of a polite server are good.
Units == {u \in [part : {"head", "body"}, id : Int, good : BOOLEAN] : polite => u.good}

UnitsInv == sock \in Seq(Units) /\ read_buf_ \in Seq(Units) /\ answering \in Seq(Units)

Ids == 0 .. request_id_ - 1

\* Every call made waits in the executor's queue or was given an id, once.
CallsInv ==
  /\ called \subseteq Calls /\ tasks \in Seq(called)
  /\ request_id_ \in Nat /\ issued \in [Ids -> called]
  /\ \A i, j \in 1 .. Len(tasks) : tasks[i] = tasks[j] => i = j
  /\ \A i, j \in Ids : issued[i] = issued[j] => i = j
  /\ \A i \in 1 .. Len(tasks), j \in Ids : tasks[i] # issued[j]
  /\ called = Range(tasks) \cup Range(issued)
  /\ Cardinality(called) = Len(tasks) + request_id_

\* The sessions are of ids given out.
SessionsInv ==
  /\ DOMAIN id2session_ \subseteq Ids
  /\ id2session_ = [i \in DOMAIN id2session_ |-> issued[i]]

\* The ids whose callback has run have no session any more.
RanInv ==
  /\ ran \in Seq(Calls \X Int)
  /\ \A i \in 1 .. Len(ran) :
       /\ ran[i][2] \in Ids /\ ran[i][2] \notin DOMAIN id2session_
       /\ issued[ran[i][2]] = ran[i][1]
  /\ Cardinality(Completed) = Len(ran)

\* With a polite server an id without a session is one whose callback has run.
PoliteInv ==
  polite =>
    /\ \A id \in Ids : id \in DOMAIN id2session_ \/ \E i \in 1 .. Len(ran) : ran[i][2] = id
    /\ request_id_ = Cardinality(DOMAIN id2session_) + Len(ran)

Inv == PollInv /\ UnitsInv /\ CallsInv /\ SessionsInv /\ RanInv /\ PoliteInv

-----------------------------------------------------------------------------
(* The steps that leave the client's calls alone *)

\* Nothing of CallsInv, SessionsInv, RanInv and PoliteInv is about the connection.
LEMMA CallsKept ==
  ASSUME CallsInv, SessionsInv, RanInv, PoliteInv, UNCHANGED client_vars, UNCHANGED manners
  PROVE  CallsInv' /\ SessionsInv' /\ RanInv' /\ PoliteInv'
<1>1. UNCHANGED <<called, tasks, request_id_, id2session_, issued, ran>>
  BY Zenon DEF client_vars
<1>2. CallsInv'
  BY <1>1, Zenon DEF CallsInv, Ids
<1>3. SessionsInv'
  BY <1>1, Zenon DEF SessionsInv, Ids
<1>4. RanInv'
  BY <1>1, Zenon DEF RanInv, Ids, Completed
<1>5. PoliteInv'
  BY <1>1, Zenon DEF PoliteInv, Ids, polite
<1> QED BY <1>2, <1>3, <1>4, <1>5, Zenon

\* Nothing of UnitsInv is about the calls.
LEMMA UnitsKept ==
  ASSUME UnitsInv, UNCHANGED <<manners, sock, read_buf_, answering>> PROVE UnitsInv'
BY Zenon DEF UnitsInv, Units, polite

\* The steps of the connection that the client shares with the server.
LEMMA SharedSteps ==
  ASSUME Inv, UNCHANGED <<client_vars, server_vars>>,
         StartSend \/ StartRecv \/ ConnStep
  PROVE  Inv'
<1>1. PollInv'
  BY StartSendKeeps, StartRecvKeeps, ConnStepKeeps, Zenon DEF Inv
<1>2. UNCHANGED <<manners, sock, read_buf_>>
  <2>1. CASE StartSend \/ StartRecv
    BY <2>1, Zenon DEF StartSend, StartRecv, peer_vars, env, bufs
  <2>2. CASE FinishRecv \/ PollWait
    BY <2>2, Zenon DEF FinishRecv, PollWait, peer_vars, env, bufs
  <2>3. CASE EpollLoop
    BY <2>3, Zenon
       DEF EpollLoop, EpollHangUp, EpollWrite, EpollRead, HandleHangUp, HandleWrite, HandleRead,
                peer_vars, env, bufs
  <2>4. CASE KqueueLoop
    BY <2>4, Zenon
       DEF KqueueLoop, KqueueEof, KqueueWrite, KqueueRead, HandleHangUp, HandleWrite, HandleRead,
                peer_vars, env, bufs
  <2> QED BY <2>1, <2>2, <2>3, <2>4, Zenon DEF ConnStep
<1>3. UNCHANGED answering /\ UNCHANGED client_vars
  BY Zenon DEF server_vars
<1>4. UnitsInv'
  BY <1>2, <1>3, UnitsKept, Zenon DEF Inv
<1> QED BY <1>1, <1>2, <1>3, <1>4, CallsKept, Zenon DEF Inv

\* A response begins.
LEMMA AnswerKeeps == ASSUME Inv, NEW id \in Int, NEW good \in BOOLEAN, Answer(id, good) PROVE Inv'
<1>1. /\ UNCHANGED <<conn_vars, poll_vars, client_vars>> /\ (polite => good)
      /\ \E i \in {id, Unknown} : answering' = <<[part |-> "head", id |-> i, good |-> TRUE],
                                                 [part |-> "body", id |-> i, good |-> good]>>
  BY Zenon DEF Answer, polite, rude
<1>2. UNCHANGED <<manners, sock, read_buf_>>
  BY <1>1, Zenon DEF conn_vars, peer_vars, env, bufs
<1>3. PollInv'
  BY <1>1, PollKept, Zenon DEF Inv
<1>4. answering' \in Seq(Units)
  <2>1. PICK i \in {id, Unknown} : answering' = <<[part |-> "head", id |-> i, good |-> TRUE],
                                                  [part |-> "body", id |-> i, good |-> good]>>
    BY <1>1, Zenon
  <2>2. i \in Int
    BY DEF Unknown
  <2>3. /\ [part |-> "head", id |-> i, good |-> TRUE] \in Units
        /\ [part |-> "body", id |-> i, good |-> good] \in Units
    BY <1>1, <2>2, Zenon DEF Units
  <2> QED BY <2>1, <2>3
<1>5. UnitsInv'
  BY <1>2, <1>4, Zenon DEF Inv, UnitsInv, Units, polite
<1> QED BY <1>1, <1>2, <1>3, <1>5, CallsKept, Zenon DEF Inv

\* A unit of it arrives.
LEMMA ServerSendKeeps == ASSUME Inv, ServerSend PROVE Inv'
<1>1. /\ answering # <<>> /\ Arrives(Head(answering)) /\ Notified({"IN"})
      /\ answering' = Tail(answering) /\ UNCHANGED client_vars
  BY Zenon DEF ServerSend
<1>2. sock' = Append(sock, Head(answering)) /\ UNCHANGED <<manners, read_buf_>>
  BY <1>1, Zenon DEF Arrives, env, bufs
<1>3. PollInv'
  <2>1. {"IN"} \in SUBSET Filters
    BY Zenon DEF Filters
  <2> QED BY <1>1, <2>1, PeerKeeps, Zenon DEF Inv
<1>4. Head(answering) \in Units /\ Tail(answering) \in Seq(Units)
  BY <1>1, SeqFacts, SeqTail, Zenon DEF Inv, UnitsInv
<1>5. sock' \in Seq(Units)
  BY <1>2, <1>4, SeqFacts, Zenon DEF Inv, UnitsInv
<1>6. UnitsInv'
  BY <1>1, <1>2, <1>4, <1>5, Zenon DEF Inv, UnitsInv, Units, polite
<1> QED BY <1>1, <1>2, <1>3, <1>6, CallsKept, Zenon DEF Inv

\* The server closes, resets or reads.
LEMMA ServerPeerKeeps == ASSUME Inv, ServerCloses \/ ServerReads PROVE Inv'
<1>1. UNCHANGED client_vars /\ UNCHANGED answering
  BY Zenon DEF ServerCloses, ServerReads, server_vars
<1>2. UNCHANGED <<manners, read_buf_>> /\ sock' \in {sock, <<>>}
  BY Zenon DEF ServerCloses, ServerReads, PeerFin, PeerReset, PeerReads, env, bufs
<1>3. PollInv'
  <2>1. {"IN"} \in SUBSET Filters /\ {"OUT"} \in SUBSET Filters /\ Filters \in SUBSET Filters
    BY Zenon DEF Filters
  <2> QED BY <2>1, PeerKeeps, Zenon DEF Inv, ServerCloses, ServerReads
<1>4. sock' \in Seq(Units)
  BY <1>2, SeqFacts, Zenon DEF Inv, UnitsInv
<1>5. UnitsInv'
  BY <1>1, <1>2, <1>4, Zenon DEF Inv, UnitsInv, Units, polite
<1> QED BY <1>1, <1>2, <1>3, <1>5, CallsKept, Zenon DEF Inv

\* close() from another thread (client_channel.cc:56-58), before or while recv_fn reads; recv_fn ends
\* its loops; the header of a response.
LEMMA CloseKeeps ==
  ASSUME Inv, Close \/ CloseDuringRead \/ ReceiveEnds \/ HandleHead
  PROVE  Inv'
<1>1. /\ crashed = FALSE /\ UNCHANGED client_vars /\ UNCHANGED <<manners, sock, answering>>
      /\ UNCHANGED <<peer, unread, write_buf_, wire, send_fn, events, crashed>>
  BY Zenon DEF Close, CloseDuringRead, ReceiveEnds, HandleHead, Inv, PollInv, ConnTypeOK, server_vars,
               peer_vars, env, bufs
<1>2. CASE Close \/ ReceiveEnds \/ HandleHead
  <2>1. edge' \subseteq Filters /\ closed_' \in {closed_, TRUE} /\ UNCHANGED interest
    <3>1. CASE Close
      BY <3>1, Zenon DEF Close, Wakes, Filters, Inv, PollInv, PollTypeOK
    <3>2. CASE ReceiveEnds \/ HandleHead
      BY <3>2, Zenon DEF ReceiveEnds, HandleHead, bufs, Inv, PollInv, PollTypeOK
    <3> QED BY <1>2, <3>1, <3>2, Zenon
  <2>2. /\ recv_fn' \in {"new", "head", "body", "close", "head_wait", "body_wait", "done", "spin"}
        /\ (recv_fn' = "new" <=> recv_fn = "new")
        /\ recv_fn' = "done" => recv_fn = "done"
    <3>1. CASE Close
      BY <3>1, Zenon DEF Close, Inv, PollInv, ConnTypeOK
    <3>2. CASE ReceiveEnds \/ HandleHead
      BY <3>2, Zenon DEF ReceiveEnds, HandleHead
    <3> QED BY <1>2, <3>1, <3>2, Zenon
  <2>3. PollInv'
    BY <1>1, <2>1, <2>2, QuietKeeps, Zenon DEF Inv
  <2>4. read_buf_' \in Seq(Units)
    <3>1. read_buf_' = read_buf_ \/ (read_buf_ # <<>> /\ read_buf_' = Tail(read_buf_))
      BY <1>2, Zenon DEF Close, ReceiveEnds, HandleHead, bufs
    <3> QED BY <3>1, SeqTail, Zenon DEF Inv, UnitsInv
  <2>5. UnitsInv'
    BY <1>1, <2>4, Zenon DEF Inv, UnitsInv, Units, polite
  <2> QED BY <1>1, <2>3, <2>5, CallsKept, Zenon DEF Inv
<1>3. CASE CloseDuringRead
  <2>1. /\ closed_' = TRUE /\ interest' = {} /\ edge' = {} /\ UNCHANGED <<recv_fn, read_buf_>>
        /\ recv_fn \in {"head", "body"}
    BY <1>3, Zenon DEF CloseDuringRead
  <2>2. ConnTypeOK' /\ PollTypeOK'
    BY <1>1, <2>1, Zenon DEF Inv, PollInv, ConnTypeOK, PollTypeOK
  <2>3. PollInv'
    BY <1>1, <2>1, <2>2, Zenon DEF Inv, PollInv, SendInv, CrashOnlyWhenDown
  <2>4. UnitsInv'
    BY <1>1, <2>1, UnitsKept, Zenon DEF Inv
  <2> QED BY <1>1, <2>3, <2>4, CallsKept, Zenon DEF Inv
<1> QED BY <1>2, <1>3, Zenon

\* recv_fn reads.
LEMMA ReceiveKeeps == ASSUME Inv, Receive PROVE Inv'
<1>1. AsyncRead /\ UNCHANGED client_vars /\ UNCHANGED <<manners, answering>>
  BY Zenon DEF Receive, AsyncRead, server_vars, env
<1>2. PollInv'
  BY <1>1, AsyncReadKeeps, Zenon DEF Inv
<1>3. /\ \A n \in 0 .. Len(sock) : /\ read_buf_ \o SubSeq(sock, 1, n) \in Seq(Units)
                                   /\ SubSeq(sock, n + 1, Len(sock)) \in Seq(Units)
      /\ Len(sock) \in 0 .. Len(sock) /\ \A n \in 1 .. Len(sock) : n \in 0 .. Len(sock)
      /\ sock = <<>> => 0 \in 0 .. Len(sock)
  <2>1. sock \in Seq(Units) /\ read_buf_ \in Seq(Units) /\ Len(sock) \in Nat
    BY SeqFacts, Zenon DEF Inv, UnitsInv
  <2>2. \A r, s \in Seq(Units) : \A n \in 0 .. Len(s) :
          r \o SubSeq(s, 1, n) \in Seq(Units) /\ SubSeq(s, n + 1, Len(s)) \in Seq(Units)
    BY MoveSeq, Zenon
  <2>3. Len(sock) \in 0 .. Len(sock) /\ \A n \in 1 .. Len(sock) : n \in 0 .. Len(sock)
    BY <2>1
  <2>4. sock = <<>> => 0 \in 0 .. Len(sock)
    BY <2>1
  <2> QED BY <2>1, <2>2, <2>3, <2>4, Zenon
<1>4. PICK n \in 0 .. Len(sock) : /\ read_buf_' = read_buf_ \o SubSeq(sock, 1, n)
                                  /\ sock' = SubSeq(sock, n + 1, Len(sock))
  BY <1>1, <1>3, Zenon DEF AsyncRead, ReadSome, ReadClosed
<1>5. UnitsInv'
  BY <1>1, <1>3, <1>4, Zenon DEF Inv, UnitsInv, Units, polite
<1> QED BY <1>1, <1>2, <1>5, CallsKept, Zenon DEF Inv

-----------------------------------------------------------------------------
(* The steps that make, send and complete calls *)

\* An element is appended to a sequence.
LEMMA AppendToSet ==
  ASSUME NEW S, NEW s \in Seq(S), NEW e \in S
  PROVE  /\ Append(s, e) \in Seq(S) /\ Len(Append(s, e)) = Len(s) + 1 /\ Len(s) \in Nat
         /\ \A i \in 1 .. Len(s) : Append(s, e)[i] = s[i]
         /\ Append(s, e)[Len(s) + 1] = e
         /\ Range(Append(s, e)) = Range(s) \cup {e}
<1>1. /\ Append(s, e) \in Seq(S) /\ Len(Append(s, e)) = Len(s) + 1 /\ Len(s) \in Nat
      /\ \A i \in 1 .. Len(s) : Append(s, e)[i] = s[i]
      /\ Append(s, e)[Len(s) + 1] = e
      /\ DOMAIN s = 1 .. Len(s) /\ DOMAIN Append(s, e) = 1 .. Len(s) + 1
  OBVIOUS
<1>2. \A i \in 1 .. Len(s) + 1 : i \in 1 .. Len(s) \/ i = Len(s) + 1
  BY <1>1
<1>3. \A i \in 1 .. Len(s) : i \in 1 .. Len(s) + 1
  BY <1>1
<1>4. Len(s) + 1 \in 1 .. Len(s) + 1
  BY <1>1
<1>5. Range(Append(s, e)) = Range(s) \cup {e}
  BY <1>1, <1>2, <1>3, <1>4, Zenon DEF Range
<1> QED BY <1>1, <1>5, Zenon

\* The first element is taken off a sequence.
LEMMA TailToSet ==
  ASSUME NEW S, NEW s \in Seq(S), s # <<>>
  PROVE  /\ Head(s) \in S /\ Tail(s) \in Seq(S) /\ Len(s) \in Nat /\ Len(Tail(s)) = Len(s) - 1
         /\ Head(s) = s[1] /\ Len(s) >= 1
         /\ \A i \in 1 .. Len(s) - 1 : Tail(s)[i] = s[i + 1]
         /\ Range(s) = Range(Tail(s)) \cup {Head(s)}
<1>1. /\ Head(s) \in S /\ Tail(s) \in Seq(S) /\ Len(s) \in Nat /\ Len(Tail(s)) = Len(s) - 1
      /\ Head(s) = s[1] /\ Len(s) >= 1
      /\ \A i \in 1 .. Len(s) - 1 : Tail(s)[i] = s[i + 1]
      /\ DOMAIN s = 1 .. Len(s) /\ DOMAIN Tail(s) = 1 .. Len(s) - 1
  OBVIOUS
<1>2. \A i \in 1 .. Len(s) : i = 1 \/ (i - 1 \in 1 .. Len(s) - 1 /\ (i - 1) + 1 = i)
  BY <1>1
<1>3. 1 \in 1 .. Len(s) /\ \A i \in 1 .. Len(s) - 1 : i + 1 \in 1 .. Len(s)
  BY <1>1
<1>4. \A i \in 1 .. Len(s) : s[i] = Head(s) \/ \E j \in 1 .. Len(s) - 1 : Tail(s)[j] = s[i]
  BY <1>1, <1>2, Zenon
<1>5. Range(s) = Range(Tail(s)) \cup {Head(s)}
  <2> PICK n : n = Len(s) - 1
    BY Zenon
  <2>0. Range(s) = {s[i] : i \in 1 .. Len(s)} /\ Range(Tail(s)) = {Tail(s)[i] : i \in 1 .. n}
    BY <1>1, Zenon DEF Range
  <2>1. Range(s) \subseteq Range(Tail(s)) \cup {Head(s)}
    BY <1>4, <2>0, Zenon
  <2>2. Head(s) \in Range(s)
    BY <1>1, <1>3, <2>0, Zenon
  <2>3. \A i \in 1 .. n : Tail(s)[i] \in Range(s)
    <3> SUFFICES ASSUME NEW i \in 1 .. n PROVE Tail(s)[i] \in Range(s)
      BY Zenon
    <3>1. i + 1 \in 1 .. Len(s) /\ Tail(s)[i] = s[i + 1]
      BY <1>1, <1>3, Zenon
    <3> QED BY <2>0, <3>1, Zenon
  <2>4. Range(Tail(s)) \subseteq Range(s)
    BY <2>0, <2>3, Zenon
  <2> QED BY <2>1, <2>2, <2>4, Zenon
<1> QED BY <1>1, <1>5, Zenon

\* The calls made are finitely many, and so are the ids given out and the callbacks run.
LEMMA CallsFinite ==
  ASSUME CallsInv, SessionsInv, RanInv
  PROVE  /\ IsFiniteSet(called) /\ Cardinality(called) \in Nat
         /\ Cardinality(called) <= Cardinality(Calls)
         /\ IsFiniteSet(DOMAIN id2session_) /\ Cardinality(DOMAIN id2session_) \in Nat
         /\ IsFiniteSet(Completed) /\ Cardinality(Completed) \in Nat
<1>1. called \subseteq Calls /\ request_id_ \in Nat /\ DOMAIN id2session_ \subseteq 0 .. request_id_ - 1
  BY Zenon DEF CallsInv, SessionsInv, Ids
<1>2. Completed \subseteq Calls
  <2>1. \A i \in 1 .. Len(ran) : ran[i][1] \in Calls
    <3>1. \A i \in 1 .. Len(ran) : ran[i] \in Calls \X Int
      BY SeqFacts, Zenon DEF RanInv
    <3> QED BY <3>1, Zenon
  <2> QED BY <2>1, Zenon DEF Completed
<1>3. IsFiniteSet(0 .. request_id_ - 1)
  BY <1>1, FS_Interval
<1> QED BY <1>1, <1>2, <1>3, CallsAssumption, FS_Subset, FS_CardinalityType, Zenon

\* CallMethod (client_channel.cc:158-193) hands a new call to the executor.
LEMMA CallMethodKeeps == ASSUME Inv, NEW c \in Calls, CallMethod(c) PROVE Inv'
<1>1. /\ c \notin called /\ called' = called \cup {c} /\ tasks' = Append(tasks, c)
      /\ UNCHANGED <<conn_vars, poll_vars, request_id_, id2session_, issued, ran, server_vars>>
  BY Zenon DEF CallMethod
<1>2. PollInv' /\ UNCHANGED <<manners, sock, read_buf_, answering>>
  BY <1>1, PollKept, Zenon DEF Inv, conn_vars, peer_vars, env, bufs, server_vars
<1>3. UnitsInv'
  BY <1>2, UnitsKept, Zenon DEF Inv
<1>4. /\ called \subseteq Calls /\ tasks \in Seq(called) /\ request_id_ \in Nat /\ issued \in [Ids -> called]
      /\ \A i, j \in 1 .. Len(tasks) : tasks[i] = tasks[j] => i = j
      /\ \A i \in 1 .. Len(tasks), j \in Ids : tasks[i] # issued[j]
      /\ called = Range(tasks) \cup Range(issued)
      /\ Cardinality(called) = Len(tasks) + request_id_
  BY Zenon DEF Inv, CallsInv
<1>5. PICK S : S = called \cup {c} /\ tasks \in Seq(S) /\ c \in S
  <2>1. tasks \in Seq(called \cup {c})
    BY <1>4
  <2> QED BY <2>1, Zenon
<1>6. /\ tasks' \in Seq(S) /\ Len(tasks') = Len(tasks) + 1 /\ Len(tasks) \in Nat
      /\ \A i \in 1 .. Len(tasks) : tasks'[i] = tasks[i]
      /\ tasks'[Len(tasks) + 1] = c
      /\ Range(tasks') = Range(tasks) \cup {c}
  BY <1>1, <1>5, AppendToSet
<1>7. (\A i \in 1 .. Len(tasks) : tasks[i] # c) /\ (\A j \in Ids : issued[j] # c)
  BY <1>1, <1>4, SeqFacts
<1>8. \A i \in 1 .. Len(tasks') : i \in 1 .. Len(tasks) \/ i = Len(tasks) + 1
  BY <1>6
<1>9. \A i, j \in 1 .. Len(tasks') : tasks'[i] = tasks'[j] => i = j
  BY <1>4, <1>6, <1>7, <1>8, Zenon
<1>10. \A i \in 1 .. Len(tasks'), j \in Ids : tasks'[i] # issued[j]
  BY <1>4, <1>6, <1>7, <1>8, Zenon
<1>11. Cardinality(called') = Len(tasks') + request_id_
  <2>1. Cardinality(called \cup {c}) = Cardinality(called) + 1
    BY <1>1, CallsFinite, FS_AddElement, Zenon DEF Inv
  <2> QED BY <1>1, <1>4, <1>6, <2>1
<1>12. CallsInv'
  <2>1. called' \subseteq Calls /\ issued \in [Ids -> called'] /\ called' = Range(tasks') \cup Range(issued)
    BY <1>1, <1>4, <1>6, Zenon
  <2>2. tasks' \in Seq(called')
    BY <1>1, <1>5, <1>6, Zenon
  <2> QED BY <1>1, <1>9, <1>10, <1>11, <2>1, <2>2, Zenon DEF Inv, CallsInv, Ids
<1>13. SessionsInv' /\ RanInv'
  <2>1. UNCHANGED <<request_id_, id2session_, issued, ran>>
    BY <1>1, Zenon
  <2>2. SessionsInv'
    BY <2>1, Zenon DEF Inv, SessionsInv, Ids
  <2>3. RanInv'
    BY <2>1, Zenon DEF Inv, RanInv, Ids, Completed
  <2> QED BY <2>2, <2>3, Zenon
<1>14. PoliteInv'
  BY <1>1, <1>2, Zenon DEF Inv, PoliteInv, Ids, polite
<1> QED BY <1>2, <1>3, <1>12, <1>13, <1>14, Zenon DEF Inv

\* The lambda of CallMethod (client_channel.cc:165-191) gives the next call a new id and a session.
LEMMA IdGiven ==
  ASSUME CallsInv, SessionsInv, RanInv, PoliteInv, tasks # <<>>, UNCHANGED <<manners, called, ran>>,
         tasks' = Tail(tasks), request_id_' = request_id_ + 1,
         id2session_' = With(id2session_, request_id_, Head(tasks)),
         issued' = With(issued, request_id_, Head(tasks))
  PROVE  CallsInv' /\ SessionsInv' /\ RanInv' /\ PoliteInv'
<1>1. /\ called \subseteq Calls /\ tasks \in Seq(called) /\ request_id_ \in Nat /\ issued \in [Ids -> called]
      /\ \A i, j \in 1 .. Len(tasks) : tasks[i] = tasks[j] => i = j
      /\ \A i, j \in Ids : issued[i] = issued[j] => i = j
      /\ \A i \in 1 .. Len(tasks), j \in Ids : tasks[i] # issued[j]
      /\ called = Range(tasks) \cup Range(issued)
      /\ Cardinality(called) = Len(tasks) + request_id_
  BY Zenon DEF CallsInv
<1>2. PICK k \in Nat : k = request_id_
  BY <1>1, Zenon
<1>3. PICK c \in called : c = Head(tasks)
  BY <1>1, TailToSet, Zenon
<1>4. /\ tasks' \in Seq(called) /\ Len(tasks) \in Nat /\ Len(tasks') = Len(tasks) - 1
      /\ c = tasks[1] /\ Len(tasks) >= 1
      /\ \A i \in 1 .. Len(tasks) - 1 : tasks'[i] = tasks[i + 1]
      /\ Range(tasks) = Range(tasks') \cup {c}
  BY <1>1, <1>3, TailToSet, Zenon
<1>5. /\ Ids' = Ids \cup {k} /\ k \notin Ids /\ k \in Ids' /\ Ids \subseteq Ids'
      /\ Ids = 0 .. k - 1
  BY <1>2 DEF Ids
<1>6. /\ issued' \in [Ids' -> called] /\ issued'[k] = c
      /\ \A i \in Ids : issued'[i] = issued[i]
  <2>1. issued' = [x \in Ids \cup {k} |-> IF x = k THEN c ELSE issued[x]]
    BY <1>1, <1>2, <1>3, Zenon DEF With
  <2>2. /\ DOMAIN issued = Ids /\ c \in called /\ \A i \in Ids : issued[i] \in called
    BY <1>1, <1>3, Zenon
  <2>3. \A x \in Ids \cup {k} : (IF x = k THEN c ELSE issued[x]) \in called
    BY <2>2, Zenon
  <2>4. issued' \in [Ids \cup {k} -> called]
    BY <2>1, <2>3, Zenon
  <2>5. issued'[k] = c /\ \A i \in Ids : issued'[i] = issued[i]
    BY <1>5, <2>1, Zenon
  <2> QED BY <1>5, <2>4, <2>5, Zenon
<1>7. 1 \in 1 .. Len(tasks) /\ \A i \in 1 .. Len(tasks') : i \in 1 .. Len(tasks) - 1 /\ i + 1 \in 1 .. Len(tasks)
  BY <1>4
<1>8. CallsInv'
  <2>1. \A i, j \in 1 .. Len(tasks') : tasks'[i] = tasks'[j] => i = j
    <3> SUFFICES ASSUME NEW i \in 1 .. Len(tasks'), NEW j \in 1 .. Len(tasks'), tasks'[i] = tasks'[j]
                 PROVE  i = j
      BY Zenon
    <3>1. /\ i + 1 \in 1 .. Len(tasks) /\ j + 1 \in 1 .. Len(tasks)
          /\ tasks'[i] = tasks[i + 1] /\ tasks'[j] = tasks[j + 1]
      BY <1>4, <1>7, Zenon
    <3>2. i + 1 = j + 1
      BY <1>1, <3>1, Zenon
    <3> QED BY <1>4, <3>2
  <2>2. \A i, j \in Ids' : issued'[i] = issued'[j] => i = j
    <3>1. \A i \in Ids : issued[i] # c
      BY <1>1, <1>4, <1>7, Zenon
    <3> SUFFICES ASSUME NEW i \in Ids', NEW j \in Ids', issued'[i] = issued'[j] PROVE i = j
      BY Zenon
    <3>2. (i = k \/ i \in Ids) /\ (j = k \/ j \in Ids)
      BY <1>5, Zenon
    <3>3. CASE i \in Ids /\ j \in Ids
      BY <1>1, <1>6, <3>3, Zenon
    <3>4. CASE i = k \/ j = k
      BY <1>6, <3>1, <3>2, <3>4, Zenon
    <3> QED BY <3>2, <3>3, <3>4, Zenon
  <2>3. \A i \in 1 .. Len(tasks'), j \in Ids' : tasks'[i] # issued'[j]
    <3> SUFFICES ASSUME NEW i \in 1 .. Len(tasks'), NEW j \in Ids' PROVE tasks'[i] # issued'[j]
      BY Zenon
    <3>1. tasks'[i] = tasks[i + 1] /\ i + 1 \in 1 .. Len(tasks) /\ i + 1 # 1
      BY <1>4, <1>7
    <3>2. tasks[i + 1] # c /\ \A l \in Ids : tasks[i + 1] # issued[l]
      BY <1>1, <1>4, <1>7, <3>1, Zenon
    <3> QED BY <1>5, <1>6, <3>1, <3>2, Zenon
  <2>4. called = Range(tasks') \cup Range(issued')
    <3>1. Range(issued') = Range(issued) \cup {c}
      <4>1. DOMAIN issued = Ids /\ DOMAIN issued' = Ids \cup {k}
        BY <1>1, <1>5, <1>6, Zenon
      <4>2. {issued'[x] : x \in Ids \cup {k}} = {issued[x] : x \in Ids} \cup {c}
        <5>1. \A x \in Ids \cup {k} : issued'[x] = c \/ \E y \in Ids : issued'[x] = issued[y]
          BY <1>6, Zenon
        <5>2. c = issued'[k] /\ \A y \in Ids : issued[y] = issued'[y]
          BY <1>6, Zenon
        <5> HIDE <1>6
        <5> QED BY <5>1, <5>2
      <4> QED BY <4>1, <4>2, Zenon DEF Range
    <3> QED BY <1>1, <1>4, <3>1, Zenon
  <2>5. Cardinality(called) = Len(tasks') + request_id_' /\ request_id_' \in Nat
    BY <1>1, <1>4
  <2> QED BY <1>1, <1>4, <1>6, <2>1, <2>2, <2>3, <2>4, <2>5, Zenon DEF CallsInv
<1>9. DOMAIN id2session_' = DOMAIN id2session_ \cup {k} /\ DOMAIN id2session_ \subseteq Ids
  BY <1>2, Zenon DEF With, SessionsInv
<1>10. SessionsInv'
  <2>1. id2session_' = [i \in DOMAIN id2session_' |-> IF i = k THEN c ELSE id2session_[i]]
    BY <1>2, <1>3, <1>9, Zenon DEF With
  <2>2. \A i \in DOMAIN id2session_ : id2session_[i] = issued[i]
    BY Zenon DEF SessionsInv
  <2>3. \A i \in DOMAIN id2session_' : (IF i = k THEN c ELSE id2session_[i]) = issued'[i]
    BY <1>6, <1>9, <2>2, Zenon
  <2>4. id2session_' = [i \in DOMAIN id2session_' |-> issued'[i]]
    BY <2>1, <2>3, Zenon
  <2>5. DOMAIN id2session_' \subseteq Ids'
    BY <1>5, <1>9, Zenon
  <2> QED BY <2>4, <2>5, Zenon DEF SessionsInv
<1>11. RanInv'
  <2>1. \A i \in 1 .. Len(ran) :
          /\ ran[i][2] \in Ids' /\ ran[i][2] \notin DOMAIN id2session_'
          /\ issued'[ran[i][2]] = ran[i][1]
    BY <1>5, <1>6, <1>9, Zenon DEF RanInv
  <2> QED BY <2>1, Zenon DEF RanInv, Completed
<1>12. PoliteInv'
  <2> SUFFICES ASSUME polite
               PROVE  /\ \A id \in Ids' : id \in DOMAIN id2session_' \/ \E i \in 1 .. Len(ran) : ran[i][2] = id
                      /\ request_id_' = Cardinality(DOMAIN id2session_') + Len(ran)
    BY Zenon DEF PoliteInv, polite
  <2>1. \A id \in Ids' : id \in DOMAIN id2session_' \/ \E i \in 1 .. Len(ran) : ran[i][2] = id
    BY <1>5, <1>9, Zenon DEF PoliteInv
  <2>2. Cardinality(DOMAIN id2session_ \cup {k}) = Cardinality(DOMAIN id2session_) + 1
    <3>1. IsFiniteSet(DOMAIN id2session_) /\ k \notin DOMAIN id2session_
      BY <1>5, <1>9, CallsFinite, Zenon
    <3> QED BY <3>1, FS_AddElement, Zenon
  <2>3. request_id_ = Cardinality(DOMAIN id2session_) + Len(ran) /\ Cardinality(DOMAIN id2session_) \in Nat
    BY CallsFinite, Zenon DEF PoliteInv
  <2>4. Len(ran) \in Nat
    BY SeqFacts, Zenon DEF RanInv
  <2> QED BY <1>9, <2>1, <2>2, <2>3, <2>4
<1> QED BY <1>8, <1>10, <1>11, <1>12, Zenon

\* It puts the request into the buffer and resumes send_fn.
LEMMA SendRequestKeeps == ASSUME Inv, SendRequest PROVE Inv'
<1>1. /\ Idle /\ tasks # <<>> /\ tasks' = Tail(tasks) /\ request_id_' = request_id_ + 1
      /\ id2session_' = With(id2session_, request_id_, Head(tasks))
      /\ issued' = With(issued, request_id_, Head(tasks))
      /\ ResumeWrite(Append(write_buf_, request_id_), closed_) /\ AddWriteEvent(interest, edge)
      /\ UNCHANGED <<manners, peer, sock, closed_, read_buf_, recv_fn, events, called, ran, answering>>
  BY Zenon DEF SendRequest, env, server_vars
<1>2. CallsInv' /\ SessionsInv' /\ RanInv' /\ PoliteInv'
  BY <1>1, IdGiven, Zenon DEF Inv
<1>3. UnitsInv'
  BY <1>1, UnitsKept, Zenon DEF Inv
<1>4. PollInv'
  <2>1. Append(write_buf_, request_id_) \in Seq(Nat)
    BY SeqFacts, Zenon DEF Inv, PollInv, CallsInv
  <2>2. /\ crashed = FALSE /\ recv_fn # "new" /\ edge \in SUBSET Filters
        /\ recv_fn \in {"head", "body", "close", "head_wait", "body_wait", "done"}
    BY <1>1, Zenon DEF Idle, Running, Inv, PollInv, ConnTypeOK, PollTypeOK
  <2>3. interest \in SUBSET interest /\ events \subseteq events
    BY Zenon
  <2> QED BY <1>1, <2>1, <2>2, <2>3, ResumeWriteKeeps, Zenon DEF Inv
<1> QED BY <1>2, <1>3, <1>4, Zenon DEF Inv

\* The session of response r is erased; its callback runs unless the body cannot be parsed
\* (client_channel.cc:100-128).
LEMMA SessionEnds ==
  ASSUME CallsInv, SessionsInv, RanInv, PoliteInv, NEW r \in DOMAIN id2session_,
         UNCHANGED <<manners, called, tasks, request_id_, issued>>,
         id2session_' = Restrict(id2session_, DOMAIN id2session_ \ {r}),
         ran' = Append(ran, <<id2session_[r], r>>) \/ (~polite /\ UNCHANGED ran)
  PROVE  CallsInv' /\ SessionsInv' /\ RanInv' /\ PoliteInv'
<1>1. CallsInv'
  BY Zenon DEF CallsInv, Ids
<1>2. /\ DOMAIN id2session_ \subseteq Ids /\ issued \in [Ids -> called] /\ called \subseteq Calls
      /\ \A i, j \in Ids : issued[i] = issued[j] => i = j
      /\ Ids' = Ids /\ Ids \subseteq Int /\ \A i \in DOMAIN id2session_ : id2session_[i] = issued[i]
  <2>1. Ids' = Ids /\ Ids \subseteq Int
    BY DEF Ids, CallsInv
  <2>2. \A i \in DOMAIN id2session_ : id2session_[i] = issued[i]
    BY Zenon DEF SessionsInv
  <2> QED BY <2>1, <2>2, Zenon DEF CallsInv, SessionsInv
<1>3. /\ DOMAIN id2session_' = DOMAIN id2session_ \ {r}
      /\ id2session_' = [i \in DOMAIN id2session_ \ {r} |-> id2session_[i]]
  BY Zenon DEF Restrict
<1>4. SessionsInv'
  <2>1. [i \in DOMAIN id2session_ \ {r} |-> id2session_[i]] = [i \in DOMAIN id2session_ \ {r} |-> issued[i]]
    BY <1>2, Zenon
  <2>2. id2session_' = [i \in DOMAIN id2session_' |-> issued'[i]]
    BY <1>3, <2>1, Zenon
  <2>3. DOMAIN id2session_' \subseteq Ids'
    BY <1>2, <1>3, Zenon
  <2> QED BY <2>2, <2>3, Zenon DEF SessionsInv
<1>5. CASE ~polite /\ UNCHANGED ran
  <2>0. UNCHANGED ran
    BY <1>5, Zenon
  <2>1. RanInv'
    <3>1. \A i \in 1 .. Len(ran) : /\ ran[i][2] \in Ids' /\ ran[i][2] \notin DOMAIN id2session_'
                                   /\ issued'[ran[i][2]] = ran[i][1]
      BY <1>2, <1>3, Zenon DEF RanInv
    <3> QED BY <2>0, <3>1, Zenon DEF RanInv, Completed
  <2>2. PoliteInv'
    BY <1>5, Zenon DEF PoliteInv, polite
  <2> QED BY <1>1, <1>4, <2>1, <2>2, Zenon
<1>6. CASE ran' = Append(ran, <<id2session_[r], r>>)
  <2>1. PICK c \in Calls : c = issued[r] /\ c = id2session_[r]
    BY <1>2, Zenon
  <2>2. r \in Ids /\ r \in Int /\ <<c, r>> \in Calls \X Int
    BY <1>2, <2>1, Zenon
  <2>3. ran \in Seq(Calls \X Int) /\ ran' = Append(ran, <<c, r>>)
    BY <1>6, <2>1, Zenon DEF RanInv
  <2>4. /\ ran' \in Seq(Calls \X Int) /\ Len(ran') = Len(ran) + 1 /\ Len(ran) \in Nat
        /\ \A i \in 1 .. Len(ran) : ran'[i] = ran[i]
        /\ ran'[Len(ran) + 1] = <<c, r>>
    <3>1. PICK S : S = Calls \X Int
      BY Zenon
    <3>2. PICK e \in S : e = <<c, r>>
      BY <2>2, <3>1, Zenon
    <3>3. ran \in Seq(S) /\ ran' = Append(ran, e)
      BY <2>3, <3>1, <3>2, Zenon
    <3>4. /\ Append(ran, e) \in Seq(S) /\ Len(Append(ran, e)) = Len(ran) + 1 /\ Len(ran) \in Nat
          /\ \A i \in 1 .. Len(ran) : Append(ran, e)[i] = ran[i]
          /\ Append(ran, e)[Len(ran) + 1] = e
      BY <3>3
    <3> QED BY <3>1, <3>2, <3>3, <3>4, Zenon
  <2>5. /\ \A i \in 1 .. Len(ran') : i \in 1 .. Len(ran) \/ i = Len(ran) + 1
        /\ \A i \in 1 .. Len(ran) : i \in 1 .. Len(ran')
        /\ Len(ran) + 1 \in 1 .. Len(ran')
    BY <2>4
  <2>6. ran'[Len(ran) + 1][1] = c /\ ran'[Len(ran) + 1][2] = r
    BY <2>4
  <2>7. \A i \in 1 .. Len(ran) : /\ ran[i][2] \in Ids /\ ran[i][2] \notin DOMAIN id2session_
                                 /\ issued[ran[i][2]] = ran[i][1]
    BY Zenon DEF RanInv
  <2>8. \A i \in 1 .. Len(ran') : /\ ran'[i][2] \in Ids' /\ ran'[i][2] \notin DOMAIN id2session_'
                                  /\ issued'[ran'[i][2]] = ran'[i][1]
    <3> TAKE i \in 1 .. Len(ran')
    <3>1. CASE i \in 1 .. Len(ran)
      BY <1>2, <1>3, <2>4, <2>7, <3>1, Zenon
    <3>2. CASE i = Len(ran) + 1
      BY <1>2, <1>3, <2>1, <2>2, <2>6, <3>2, Zenon
    <3> QED BY <2>5, <3>1, <3>2, Zenon
  <2>9. Completed' = Completed \cup {c}
    <3>1. \A i \in 1 .. Len(ran') : ran'[i][1] = c \/ \E j \in 1 .. Len(ran) : ran'[i][1] = ran[j][1]
      BY <2>4, <2>5, <2>6, Zenon
    <3>2. \A i \in 1 .. Len(ran) : \E j \in 1 .. Len(ran') : ran[i][1] = ran'[j][1]
      BY <2>4, <2>5, Zenon
    <3>3. \E j \in 1 .. Len(ran') : c = ran'[j][1]
      BY <2>5, <2>6, Zenon
    <3>4. Completed = {ran[i][1] : i \in 1 .. Len(ran)} /\ Completed' = {ran'[i][1] : i \in 1 .. Len(ran')}
      BY Zenon DEF Completed
    <3>5. Completed' \subseteq Completed \cup {c}
      <4>1. \A j \in 1 .. Len(ran) : ran[j][1] \in Completed
        BY <3>4, Zenon
      <4>2. \A i \in 1 .. Len(ran') : ran'[i][1] \in Completed \cup {c}
        BY <3>1, <4>1, Zenon
      <4> QED BY <3>4, <4>2, Zenon
    <3>6. Completed \subseteq Completed' /\ c \in Completed'
      BY <3>2, <3>3, <3>4, Zenon
    <3> QED BY <3>5, <3>6, Zenon
  <2>10. c \notin Completed
    <3>1. \A i \in 1 .. Len(ran) : ran[i][1] # c
      <4> SUFFICES ASSUME NEW i \in 1 .. Len(ran), ran[i][1] = c PROVE FALSE
        BY Zenon
      <4>1. ran[i][2] \in Ids /\ issued[ran[i][2]] = issued[r]
        BY <2>1, <2>7, Zenon
      <4>2. ran[i][2] = r
        BY <1>2, <2>2, <4>1, Zenon
      <4> QED BY <2>7, <4>2, Zenon
    <3> QED BY <3>1, Zenon DEF Completed
  <2>11. Cardinality(Completed') = Cardinality(Completed) + 1
    BY <2>9, <2>10, CallsFinite, FS_AddElement, Zenon
  <2>12. Cardinality(Completed) = Len(ran)
    BY Zenon DEF RanInv
  <2>13. Cardinality(Completed') = Len(ran')
    BY <2>4, <2>11, <2>12, Zenon
  <2>14. RanInv'
    <3> HIDE <1>6
    <3> QED BY <2>4, <2>8, <2>13, Zenon DEF RanInv
  <2>15. PoliteInv'
    <3> SUFFICES ASSUME polite
                 PROVE  /\ \A id \in Ids : id \in DOMAIN id2session_' \/ \E i \in 1 .. Len(ran') : ran'[i][2] = id
                        /\ request_id_ = Cardinality(DOMAIN id2session_') + Len(ran')
      BY <1>2, Zenon DEF PoliteInv, polite
    <3>1. /\ \A id \in Ids : id \in DOMAIN id2session_ \/ \E i \in 1 .. Len(ran) : ran[i][2] = id
          /\ request_id_ = Cardinality(DOMAIN id2session_) + Len(ran)
      BY Zenon DEF PoliteInv
    <3>2. \E i \in 1 .. Len(ran') : ran'[i][2] = r
      BY <2>5, <2>6, Zenon
    <3>3. \A id \in Ids : id \in DOMAIN id2session_' \/ \E i \in 1 .. Len(ran') : ran'[i][2] = id
      BY <1>3, <2>4, <2>5, <3>1, <3>2, Zenon
    <3>4. Cardinality(DOMAIN id2session_ \ {r}) = Cardinality(DOMAIN id2session_) - 1
      <4>1. \A S : \A x \in S : IsFiniteSet(S) => Cardinality(S \ {x}) = Cardinality(S) - 1
        BY FS_RemoveElement, Zenon
      <4> QED BY <4>1, CallsFinite, Zenon
    <3>5. Cardinality(DOMAIN id2session_) \in Nat
      BY CallsFinite, Zenon
    <3>6. request_id_ = Cardinality(DOMAIN id2session_') + Len(ran')
      <4> HIDE <1>6
      <4> QED BY <1>3, <2>4, <3>1, <3>4, <3>5
    <3> QED BY <3>3, <3>6, Zenon
  <2> QED BY <1>1, <1>4, <2>14, <2>15, Zenon
<1> QED BY <1>5, <1>6, Zenon

\* The body of a response.
LEMMA HandleBodyKeeps == ASSUME Inv, HandleBody PROVE Inv'
<1>1. /\ crashed = FALSE /\ recv_fn = "body" /\ recv_fn' = "head" /\ read_buf_ # <<>>
      /\ UNCHANGED <<manners, peer, sock, unread, write_buf_, wire, send_fn, interest, edge, closed_,
                     events, crashed, answering, called, tasks, request_id_, issued>>
  BY Zenon DEF HandleBody, Inv, PollInv, ConnTypeOK, server_vars, peer_vars, env
<1>2. PollInv'
  <2>1. edge' \subseteq Filters
    BY <1>1, Zenon DEF Inv, PollInv, PollTypeOK
  <2>2. recv_fn' # "new" /\ recv_fn # "new" /\ recv_fn' # "done"
    BY <1>1, Zenon
  <2> QED BY <1>1, <2>1, <2>2, QuietKeeps, Zenon DEF Inv
<1>3. UnitsInv'
  <2>1. read_buf_' = read_buf_ \/ read_buf_' = Tail(read_buf_)
    BY Zenon DEF HandleBody
  <2>2. read_buf_' \in Seq(Units)
    BY <1>1, <2>1, SeqTail, Zenon DEF Inv, UnitsInv
  <2> QED BY <1>1, <2>2, Zenon DEF Inv, UnitsInv, Units, polite
<1>4. CASE Head(read_buf_).id \notin DOMAIN id2session_
  <2>1. UNCHANGED client_vars
    BY <1>1, <1>4, Zenon DEF HandleBody, client_vars
  <2> QED BY <1>1, <1>2, <1>3, <2>1, CallsKept, Zenon DEF Inv
<1>5. CASE Head(read_buf_).id \in DOMAIN id2session_
  <2>1. PICK r \in DOMAIN id2session_ : r = Head(read_buf_).id
    BY <1>5, Zenon
  <2>2. polite => Head(read_buf_).good
    <3>1. Head(read_buf_) \in Units
      BY <1>1, SeqFacts, SeqTail, Zenon DEF Inv, UnitsInv
    <3> QED BY <3>1, Zenon DEF Units
  <2>3. /\ id2session_' = Restrict(id2session_, DOMAIN id2session_ \ {r})
        /\ ran' = Append(ran, <<id2session_[r], r>>) \/ (~polite /\ UNCHANGED ran)
    BY <1>5, <2>1, <2>2, Zenon DEF HandleBody
  <2>4. CallsInv' /\ SessionsInv' /\ RanInv' /\ PoliteInv'
    BY <1>1, <2>3, SessionEnds, Zenon DEF Inv
  <2> QED BY <1>2, <1>3, <2>4, Zenon DEF Inv
<1> QED BY <1>4, <1>5, Zenon

-----------------------------------------------------------------------------
(* The theorems *)

\* Inv holds before the channel is used.
LEMMA InitInv == ASSUME Init PROVE Inv
<1>1. /\ called = {} /\ tasks = <<>> /\ request_id_ = 0 /\ id2session_ = <<>> /\ issued = <<>>
      /\ answering = <<>> /\ ran = <<>> /\ sock = <<>> /\ read_buf_ = <<>>
  BY Zenon DEF Init, ConnInit
<1>2. PollInv
  BY InitPollInv, Zenon DEF Init
<1>3. UnitsInv
  BY <1>1, SeqFacts, Zenon DEF UnitsInv
<1>4. Ids = {} /\ 1 .. Len(tasks) = {} /\ 1 .. Len(ran) = {} /\ Len(tasks) = 0 /\ Len(ran) = 0
  BY <1>1 DEF Ids
<1>5. DOMAIN issued = {} /\ DOMAIN id2session_ = {} /\ DOMAIN tasks = {}
  BY <1>1
<1>6. Cardinality({}) = 0
  BY FS_EmptySet, Zenon
<1>7. CallsInv
  <2>1. issued \in [Ids -> called] /\ tasks \in Seq(called) /\ request_id_ \in Nat
    BY <1>1, <1>4
  <2>2. Range(tasks) = {} /\ Range(issued) = {}
    BY <1>5, Zenon DEF Range, Range
  <2>3. Cardinality(called) = Len(tasks) + request_id_
    BY <1>1, <1>4, <1>6
  <2> QED BY <1>1, <1>4, <2>1, <2>2, <2>3, Zenon DEF CallsInv
<1>8. SessionsInv
  <2>1. id2session_ = [i \in {} |-> issued[i]]
    BY <1>1
  <2> QED BY <1>5, <2>1, Zenon DEF SessionsInv
<1>9. RanInv
  <2>1. ran \in Seq(Calls \X Int)
    BY <1>1, SeqFacts, Zenon
  <2>2. Completed = {}
    BY <1>4, Zenon DEF Completed
  <2> QED BY <1>4, <1>6, <2>1, <2>2, Zenon DEF RanInv
<1>10. PoliteInv
  <2>1. request_id_ = Cardinality(DOMAIN id2session_) + Len(ran)
    BY <1>1, <1>4, <1>5, <1>6
  <2> QED BY <1>4, <2>1, Zenon DEF PoliteInv
<1> QED BY <1>2, <1>3, <1>7, <1>8, <1>9, <1>10, Zenon DEF Inv

\* Every step keeps Inv.
LEMMA NextKeeps == ASSUME Inv, [Next]_vars PROVE Inv'
<1>1. CASE \E c \in Calls : CallMethod(c)
  BY <1>1, CallMethodKeeps, Zenon
<1>2. CASE Close \/ CloseDuringRead \/ ReceiveEnds \/ HandleHead
  BY <1>2, CloseKeeps, Zenon
<1>3. CASE \E id \in 0 .. request_id_ - 1, good \in BOOLEAN : Answer(id, good)
  <2>1. PICK id \in 0 .. request_id_ - 1, good \in BOOLEAN : Answer(id, good)
    BY <1>3, Zenon
  <2>2. id \in Int
    BY <2>1
  <2> QED BY <2>1, <2>2, AnswerKeeps, Zenon
<1>4. CASE ServerSend
  BY <1>4, ServerSendKeeps, Zenon
<1>5. CASE ServerCloses \/ ServerReads
  BY <1>5, ServerPeerKeeps, Zenon
<1>6. CASE SendRequest
  BY <1>6, SendRequestKeeps, Zenon
<1>7. CASE Receive
  BY <1>7, ReceiveKeeps, Zenon
<1>8. CASE HandleBody
  BY <1>8, HandleBodyKeeps, Zenon
<1>9. CASE (StartSend \/ StartRecv \/ ConnStep) /\ UNCHANGED <<client_vars, server_vars>>
  BY <1>9, SharedSteps, Zenon
<1>10. CASE UNCHANGED vars
  <2>1. /\ UNCHANGED <<conn_vars, poll_vars>> /\ UNCHANGED client_vars
        /\ UNCHANGED <<manners, sock, read_buf_, answering>>
    BY <1>10, Zenon DEF vars, conn_vars, peer_vars, env, bufs, server_vars
  <2> QED BY <2>1, PollKept, UnitsKept, CallsKept, Zenon DEF Inv
<1> QED BY <1>1, <1>2, <1>3, <1>4, <1>5, <1>6, <1>7, <1>8, <1>9, <1>10, Zenon DEF Next, Client, Server

\* Inv is an invariant of the channel.
LEMMA InvHolds == Spec => []Inv
<1>1. Init => Inv
  BY InitInv, Zenon
<1>2. Inv /\ [Next]_vars => Inv'
  BY NextKeeps, Zenon
<1> QED BY <1>1, <1>2, PTL DEF Spec

\* Every variable of a client has its type; in particular every session is of an id that was
\* given to a request, and no more ids are given than there are calls (client_channel.cc:165-191).
THEOREM ChannelTyped == Spec => []TypeOK
<1>1. ASSUME Inv PROVE TypeOK
  <2>1. ConnTypeOK /\ PollTypeOK
    BY <1>1, Zenon DEF Inv, PollInv
  <2>2. /\ called \subseteq Calls /\ tasks \in Seq(called) /\ issued \in [Ids -> called]
        /\ request_id_ \in Nat /\ Cardinality(called) = Len(tasks) + request_id_
        /\ called = Range(tasks) \cup Range(issued)
    BY <1>1, Zenon DEF Inv, CallsInv
  <2>3. request_id_ \in 0 .. Cardinality(Calls)
    <3>1. Cardinality(called) <= Cardinality(Calls) /\ Cardinality(called) \in Nat
      BY <1>1, CallsFinite, Zenon DEF Inv
    <3>2. Len(tasks) \in Nat /\ Cardinality(Calls) \in Nat
      BY <2>2, SeqFacts, CallsAssumption, FS_CardinalityType, Zenon
    <3> QED BY <2>2, <3>1, <3>2
  <2>4. id2session_ \in [DOMAIN id2session_ -> called] /\ DOMAIN id2session_ \subseteq 0 .. request_id_ - 1
    <3>1. DOMAIN id2session_ \subseteq Ids /\ id2session_ = [i \in DOMAIN id2session_ |-> issued[i]]
      BY <1>1, Zenon DEF Inv, SessionsInv
    <3>2. \A i \in DOMAIN id2session_ : issued[i] \in called
      BY <2>2, <3>1, Zenon
    <3> QED BY <3>1, <3>2, Zenon DEF Ids
  <2> QED BY <2>1, <2>2, <2>3, <2>4, Zenon DEF TypeOK
<1> QED BY <1>1, InvHolds, PTL

\* A callback runs at most once and with the response to its own request, however many calls there
\* are and in whatever order, and whatever else, the server sends (client_channel.cc:100-128).
THEOREM CallbacksRight == Spec => []RightCallback
<1>1. ASSUME Inv PROVE RightCallback
  <2>1. DOMAIN issued = Ids
    BY <1>1, Zenon DEF Inv, CallsInv
  <2> QED BY <1>1, <2>1, Zenon DEF Inv, RanInv, RightCallback
<1> QED BY <1>1, InvHolds, PTL

\* With a server that only sends what a request asks for, each call made is either queued or has a
\* session or has had its callback run: none is lost, none is in two places.
THEOREM CallsKeptTrack == Spec => []NoCallLost
<1>1. ASSUME Inv PROVE NoCallLost
  <2> SUFFICES ASSUME polite
               PROVE  /\ called = Range(tasks) \cup Range(id2session_) \cup Completed
                      /\ Cardinality(called) = Len(tasks) + Cardinality(DOMAIN id2session_) + Len(ran)
    BY Zenon DEF NoCallLost
  <2>1. /\ called = Range(tasks) \cup Range(issued) /\ Cardinality(called) = Len(tasks) + request_id_
        /\ DOMAIN issued = Ids /\ tasks \in Seq(called)
    BY <1>1, Zenon DEF Inv, CallsInv
  <2>2. /\ \A i \in DOMAIN id2session_ : i \in Ids /\ id2session_[i] = issued[i]
        /\ \A i \in 1 .. Len(ran) : ran[i][2] \in Ids /\ issued[ran[i][2]] = ran[i][1]
    BY <1>1, Zenon DEF Inv, SessionsInv, RanInv
  <2>3. /\ \A id \in Ids : id \in DOMAIN id2session_ \/ \E i \in 1 .. Len(ran) : ran[i][2] = id
        /\ request_id_ = Cardinality(DOMAIN id2session_) + Len(ran)
    BY <1>1, Zenon DEF Inv, PoliteInv
  <2>4. Range(issued) = Range(id2session_) \cup Completed
    <3>1. /\ Range(issued) = {issued[x] : x \in Ids}
          /\ Range(id2session_) = {id2session_[x] : x \in DOMAIN id2session_}
          /\ Completed = {ran[i][1] : i \in 1 .. Len(ran)}
      BY <2>1, Zenon DEF Range, Completed
    <3>2. \A x \in Ids : issued[x] \in Range(id2session_) \cup Completed
      <4>1. \A x \in DOMAIN id2session_ : issued[x] \in Range(id2session_)
        BY <2>2, <3>1, Zenon
      <4>2. \A i \in 1 .. Len(ran) : issued[ran[i][2]] \in Completed
        BY <2>2, <3>1, Zenon
      <4> QED BY <2>3, <4>1, <4>2, Zenon
    <3>3. \A x \in DOMAIN id2session_ : id2session_[x] \in Range(issued)
      BY <2>2, <3>1, Zenon
    <3>4. \A i \in 1 .. Len(ran) : ran[i][1] \in Range(issued)
      BY <2>2, <3>1, Zenon
    <3>5. Range(issued) \subseteq Range(id2session_) \cup Completed
      BY <3>1, <3>2, Zenon
    <3>6. Range(id2session_) \cup Completed \subseteq Range(issued)
      BY <3>1, <3>3, <3>4, Zenon
    <3> QED BY <3>5, <3>6, Zenon
  <2>5. Cardinality(called) = Len(tasks) + Cardinality(DOMAIN id2session_) + Len(ran)
    <3>1. Len(tasks) \in Nat /\ Len(ran) \in Nat /\ Cardinality(DOMAIN id2session_) \in Nat
      BY <1>1, <2>1, SeqFacts, CallsFinite, Zenon DEF Inv, RanInv
    <3> QED BY <2>1, <2>3, <3>1
  <2>6. called = Range(tasks) \cup Range(id2session_) \cup Completed
    BY <2>1, <2>4, Zenon
  <2> QED BY <2>5, <2>6, Zenon
<1> QED BY <1>1, InvHolds, PTL

\* The send coroutine of a client is resumed after its end only once the connection is closed.
THEOREM ChannelCrashesDown == Spec => []CrashOnlyWhenDown
<1>1. Inv => CrashOnlyWhenDown
  BY Zenon DEF Inv, PollInv
<1> QED BY <1>1, InvHolds, PTL
=============================================================================
