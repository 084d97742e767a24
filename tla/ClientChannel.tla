---------------------------- MODULE ClientChannel ---------------------------
(***************************************************************************)
(* client/client_channel.cc under the poll policy, on top of               *)
(* PollConnection: CallMethod hands a request to the executor, which gives *)
(* it an id and a session and sends it; recv_fn finds the session of a     *)
(* response and runs its callback; close() may be called by any thread.    *)
(* A request on the wire is its id.                                        *)
(***************************************************************************)
EXTENDS PollConnection

CONSTANT Calls           \* the calls the users make

ASSUME CallsAssumption == IsFiniteSet(Calls)

VARIABLES
  called,          \* the calls made
  tasks,           \* the calls whose lambda is in the executor's queue
  request_id_, id2session_,
  issued,          \* history: the call each id was given to
  answering,       \* the units the server still sends of a response
  answered,        \* the ids the server has answered
  ran              \* history: the callbacks run, each with the id of the response it got

client_vars == <<called, tasks, request_id_, id2session_, issued, ran>>
server_vars == <<answering, answered>>
vars == <<conn_vars, poll_vars, client_vars, server_vars>>

Init == /\ ConnInit /\ PollInit /\ policy \in {"epoll", "kqueue"}
        /\ called = {} /\ tasks = <<>> /\ request_id_ = 0 /\ id2session_ = <<>> /\ issued = <<>>
        /\ answering = <<>> /\ answered = {} /\ ran = <<>>
-----------------------------------------------------------------------------
(* external: the server answers the requests it has read, in any order *)

Unknown == -1

\* A response of two units begins; a bad one has an id nobody asked for, or a bad body.
Answer(id, good) ==
  /\ answering = <<>> /\ id \in Range(SubSeq(wire, 1, Len(wire) - unread)) \ answered
  /\ good \/ rude
  /\ \E i \in IF good THEN {id} ELSE {id, Unknown} :
       answering' = <<[part |-> "head", id |-> i, good |-> TRUE],
                      [part |-> "body", id |-> i, good |-> good]>>
  /\ answered' = answered \cup {id}
  /\ UNCHANGED <<conn_vars, poll_vars, client_vars>>

ServerSend ==
  /\ answering # <<>>
  /\ Arrives(Head(answering)) /\ Notified({"IN"}) /\ answering' = Tail(answering)
  /\ UNCHANGED <<client_vars, answered>>

ServerCloses ==
  /\ (~polite /\ PeerFin /\ Notified({"IN"})) \/ (PeerReset /\ Notified(Filters))
  /\ UNCHANGED <<client_vars, server_vars>>

ServerReads == PeerReads /\ Notified({"OUT"}) /\ UNCHANGED <<client_vars, server_vars>>
-----------------------------------------------------------------------------
(* The users' threads *)

CallMethod(c) ==
  /\ c \notin called /\ ~crashed
  /\ called' = called \cup {c} /\ tasks' = Append(tasks, c)
  /\ UNCHANGED <<conn_vars, poll_vars, request_id_, id2session_, issued, ran, server_vars>>

\* close() shuts the socket down, which wakes up whoever polls it.
Close ==
  /\ ~polite /\ ~closed_ /\ ~crashed
  /\ closed_' = TRUE /\ edge' = edge \cup Wakes({"OUT"})
  /\ UNCHANGED <<peer_vars, read_buf_, write_buf_, wire, send_fn, recv_fn,
                 interest, events, crashed, client_vars, server_vars>>

\* close() comes after async_read found nothing and before ReadAwaiter looks: recv_fn goes on.
CloseDuringRead ==
  /\ ~polite /\ ~closed_ /\ ~crashed
  /\ recv_fn \in {"head", "body"} /\ read_buf_ = <<>> /\ sock = <<>> /\ peer = "open"
  /\ closed_' = TRUE /\ interest' = {} /\ edge' = {}
  /\ UNCHANGED <<peer_vars, read_buf_, write_buf_, wire, send_fn, recv_fn,
                 events, crashed, client_vars, server_vars>>
-----------------------------------------------------------------------------
(* The executor *)

Idle == ~Running /\ events = {} /\ recv_fn # "new" /\ ~crashed

\* Map f with value v for key k.
With(f, k, v) == [x \in DOMAIN f \cup {k} |-> IF x = k THEN v ELSE f[x]]

\* Mutant of SendRequest: all requests get the same id.
IdNotCounted ==
  /\ Idle /\ tasks # <<>>
  /\ tasks' = Tail(tasks)
  /\ id2session_' = With(id2session_, request_id_, Head(tasks))
  /\ issued' = With(issued, request_id_, Head(tasks))
  /\ ResumeWrite(Append(write_buf_, request_id_), closed_)
  /\ AddWriteEvent(interest, edge)
  /\ UNCHANGED <<env, peer, sock, closed_, read_buf_, recv_fn, events, called, request_id_,
                 ran, server_vars>>

\* The lambda of CallMethod.
SendRequest ==
  /\ Idle /\ tasks # <<>>
  /\ tasks' = Tail(tasks)
  /\ request_id_' = request_id_ + 1
  /\ id2session_' = With(id2session_, request_id_, Head(tasks))
  /\ issued' = With(issued, request_id_, Head(tasks))
  /\ ResumeWrite(Append(write_buf_, request_id_), closed_)
  /\ AddWriteEvent(interest, edge)
  /\ UNCHANGED <<env, peer, sock, closed_, read_buf_, recv_fn, events, called, ran,
                 server_vars>>

\* The loops around async_read.
Receive ==
  /\ read_buf_ = <<>> /\ ~closed_
  /\ AsyncRead
  /\ UNCHANGED <<client_vars, server_vars>>

ReceiveEnds ==
  /\ recv_fn \in {"head", "body"} /\ read_buf_ = <<>> /\ closed_ /\ ~crashed
  /\ recv_fn' = "close"
  /\ UNCHANGED <<peer_vars, bufs, send_fn, interest, edge, events, crashed,
                 client_vars, server_vars>>

\* The header of a response.  What is no header (a body left behind) is taken for one all the same:
\* its length is never reached, or it cannot be parsed.
HandleHead ==
  /\ recv_fn = "head" /\ read_buf_ # <<>> /\ ~crashed
  /\ \/ /\ Head(read_buf_).part = "head"
        /\ recv_fn' = "body" /\ read_buf_' = Tail(read_buf_)
     \/ /\ Head(read_buf_).part = "body"
        /\ recv_fn' \in {"close"} \cup (IF closed_ THEN {} ELSE {"head_wait"})
        /\ UNCHANGED read_buf_
  /\ UNCHANGED <<peer_vars, closed_, write_buf_, wire, send_fn, interest, edge,
                 events, crashed, client_vars, server_vars>>

\* Mutant of HandleBody: the oldest session is taken, as if responses came in order.
OldestSession ==
  /\ recv_fn = "body" /\ read_buf_ # <<>> /\ id2session_ # <<>> /\ ~crashed
  /\ recv_fn' = "head" /\ read_buf_' = Tail(read_buf_)
  /\ LET oldest == CHOOSE i \in DOMAIN id2session_ : \A j \in DOMAIN id2session_ : i <= j
     IN  /\ id2session_' = Restrict(id2session_, DOMAIN id2session_ \ {oldest})
         /\ ran' = Append(ran, <<id2session_[oldest], Head(read_buf_).id>>)
  /\ UNCHANGED <<peer_vars, closed_, write_buf_, wire, send_fn, interest, edge,
                 events, crashed, called, tasks, request_id_, issued, server_vars>>

\* The body of a response: without a session it stays in the buffer; with one, the session is
\* erased, the body parsed (in part, if it is bad), and then the callback run.
HandleBody ==
  /\ recv_fn = "body" /\ read_buf_ # <<>> /\ ~crashed
  /\ recv_fn' = "head"
  /\ LET response == Head(read_buf_)
     IN  \/ /\ response.id \notin DOMAIN id2session_
            /\ UNCHANGED <<read_buf_, id2session_, ran>>
         \/ /\ response.id \in DOMAIN id2session_
            /\ id2session_' = Restrict(id2session_, DOMAIN id2session_ \ {response.id})
            /\ \/ response.good /\ read_buf_' = Tail(read_buf_)
                  /\ ran' = Append(ran, <<id2session_[response.id], response.id>>)
               \/ ~response.good /\ read_buf_' \in {read_buf_, Tail(read_buf_)} /\ UNCHANGED ran
  /\ UNCHANGED <<peer_vars, closed_, write_buf_, wire, send_fn, interest, edge,
                 events, crashed, called, tasks, request_id_, issued, server_vars>>

Client == \/ SendRequest \/ Receive \/ ReceiveEnds \/ HandleHead \/ HandleBody
          \/ (StartSend \/ StartRecv \/ ConnStep) /\ UNCHANGED <<client_vars, server_vars>>

Server == ServerSend \/ \E id \in 0 .. request_id_ - 1, good \in BOOLEAN : Answer(id, good)

Next == \/ \E c \in Calls : CallMethod(c)
        \/ Close \/ CloseDuringRead
        \/ Server \/ ServerCloses \/ ServerReads
        \/ Client

Spec == Init /\ [][Next]_vars

\* The executor runs, and the server reads requests and answers them.
FairSpec == Spec /\ WF_vars(Client) /\ WF_vars(Server) /\ WF_vars(ServerReads)
-----------------------------------------------------------------------------
\* Every variable has its type.
TypeOK ==
  /\ ConnTypeOK /\ PollTypeOK
  /\ called \subseteq Calls /\ Range(tasks) \subseteq called
  /\ request_id_ \in 0 .. Cardinality(Calls)
  /\ id2session_ \in [DOMAIN id2session_ -> called]
  /\ DOMAIN id2session_ \subseteq 0 .. request_id_ - 1

\* The calls whose callback has run.
Completed == {ran[i][1] : i \in 1 .. Len(ran)}

\* A callback runs at most once, and with the response to its own request, however responses
\* overtake each other.
RightCallback ==
  /\ \A i \in 1 .. Len(ran) : ran[i][2] \in DOMAIN issued /\ issued[ran[i][2]] = ran[i][1]
  /\ Cardinality(Completed) = Len(ran)

\* With a polite server, a call never loses its callback: it is queued, or has a session, or its
\* callback has run, and only one of these.
NoCallLost ==
  polite =>
    /\ called = Range(tasks) \cup Range(id2session_) \cup Completed
    /\ Cardinality(called) = Len(tasks) + Cardinality(DOMAIN id2session_) + Len(ran)

\* While the server answers and nobody closes, the callback of every call is run.
CallsComplete == \A c \in Calls : polite /\ c \in called ~> c \in Completed
=============================================================================
