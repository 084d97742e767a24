--------------------------- MODULE PollConnection ---------------------------
(***************************************************************************)
(* A connection under the poll policy: the PollConnection                  *)
(* (net/poll_connection.cc) that the coroutines send_fn and recv_fn share, *)
(* the awaiters that suspend them (scheduler/awaitable.cc), and the part   *)
(* of the loops of EpollExecutor and KqueueExecutor that resumes them.     *)
(* Both use edge-triggered events.  epoll has one entry for a connection   *)
(* and reports it with all that is ready; kqueue has a filter for reading  *)
(* and one for writing, and reports each by itself.                        *)
(***************************************************************************)
EXTENDS Connection

VARIABLES
  interest,      \* the events registered, of Filters
  edge,          \* those on the ready list, all or none under epoll
  events         \* what the executor was told and has not handled yet

poll_vars == <<interest, edge, events>>

Filters == {"IN", "OUT"}
epoll == policy = "epoll"

PollInit == interest = {} /\ edge = {} /\ events = {}
-----------------------------------------------------------------------------
(* external: the kernel *)

ReadReady == sock # <<>> \/ peer # "open"
HangUp == peer = "reset" \/ (peer = "fin" /\ closed_)
Writable == "OUT" \in interest /\ Room > 0

If(flag, condition) == IF condition THEN {flag} ELSE {}

EpollEvents == If("HUP", HangUp) \cup If("IN", ReadReady) \cup If("OUT", Writable)

\* A filter whose side of the socket has ended reports EV_EOF, here "HUP".
KqueueEvents ==
  LET read == "IN" \in edge /\ ReadReady
      write == "OUT" \in edge
      write_eof == closed_ \/ peer = "reset"
  IN  If("HUP", (read /\ peer # "open") \/ (write /\ write_eof))
      \cup If("IN", read /\ peer = "open") \cup If("OUT", write /\ Writable /\ ~write_eof)

\* What is put on the ready list when something happens to filters f.
Wakes(f) == IF epoll THEN IF interest = {} THEN {} ELSE Filters ELSE f \cap interest
Notified(f) == edge' = edge \cup Wakes(f) /\ UNCHANGED <<interest, events>>
-----------------------------------------------------------------------------
(* send_fn *)

\* Mutant of AsyncWrite: send_add does not take what was written out of the buffer.
SendAddForgotten(buf, closed) ==
  {[wire |-> wire \o SubSeq(buf, 1, n), left |-> buf, sigpipe |-> FALSE] :
     n \in {IF Len(buf) < Room THEN Len(buf) ELSE Room}}

\* Mutant of AsyncWrite: the send buffer is taken to be unbounded.
WriteAll(buf, closed) == {[wire |-> wire \o buf, left |-> <<>>, sigpipe |-> FALSE]}

\* What async_write writes of buf, and what is left.  A write after shutdown raises SIGPIPE, which
\* nobody handles; a write to a reset connection does, or fails.
AsyncWrite(buf, closed) ==
  IF buf # <<>> /\ (closed \/ peer = "reset")
  THEN [wire : {wire}, left : {buf}, sigpipe : IF closed THEN {TRUE} ELSE BOOLEAN]
  ELSE LET n == IF Len(buf) < Room THEN Len(buf) ELSE Room
       IN  {[wire |-> wire \o SubSeq(buf, 1, n), left |-> SubSeq(buf, n + 1, Len(buf)),
             sigpipe |-> FALSE]}

\* resume_write, with buf to write and the connection closed or not: send_fn runs until it is
\* suspended or returns.  Its frame must be there to resume.
ResumeWrite(buf, closed) ==
  \/ /\ send_fn \in {"new", "done"}
     /\ crashed' = TRUE /\ write_buf_' = buf
     /\ UNCHANGED <<wire, unread, send_fn>>
  \/ /\ send_fn = "write" /\ closed
     /\ send_fn' = "done" /\ write_buf_' = buf
     /\ UNCHANGED <<wire, unread, crashed>>
  \/ /\ send_fn = "wait" \/ (send_fn = "write" /\ ~closed)
     /\ \E w \in AsyncWrite(buf, closed) :
          /\ crashed' = w.sigpipe /\ wire' = w.wire /\ write_buf_' = w.left
          /\ unread' = unread + Len(w.wire) - Len(wire)
          /\ send_fn' = IF closed THEN "done" ELSE IF w.left = <<>> THEN "wait" ELSE "write"

\* Mutant of AddWriteEvent: the event is not registered.
WriteEventForgotten(registered, ready) == interest' = registered /\ edge' = ready

\* epoll modifies the entry of a connection that it knows, and looks at the socket again: it has no
\* room, but may have something to read.
EpollAddWrite(registered, ready) ==
  /\ interest' = IF registered = {} THEN {} ELSE Filters
  /\ edge' = IF ReadReady THEN Filters ELSE ready

\* kqueue adds the filter for writing, which is ready when the connection was reset.
KqueueAddWrite(registered, ready) ==
  /\ interest' = registered \cup {"OUT"}
  /\ edge' = ready \cup If("OUT", peer = "reset")

\* WriteAwaiter asks for the event when send_fn is suspended.
AddWriteEvent(registered, ready) ==
  IF send_fn' # "write" THEN interest' = registered /\ edge' = ready
  ELSE IF epoll THEN EpollAddWrite(registered, ready) ELSE KqueueAddWrite(registered, ready)

\* The executor runs the tasks of start() in order: send_fn waits for data, and
StartSend ==
  /\ send_fn = "new" /\ ~crashed
  /\ send_fn' = "wait"
  /\ UNCHANGED <<peer_vars, bufs, recv_fn, interest, edge, events, crashed>>
-----------------------------------------------------------------------------
(* recv_fn *)

\* recv_fn registers for reading and starts its loop.
StartRecv ==
  /\ recv_fn = "new" /\ send_fn # "new" /\ ~crashed
  /\ recv_fn' = "head" /\ interest' = {"IN"}
  /\ edge' = IF ReadReady THEN IF epoll THEN Filters ELSE {"IN"} ELSE {}
  /\ UNCHANGED <<peer_vars, bufs, send_fn, events, crashed>>

\* Mutant of ReadSome: the coroutine is suspended though bytes were read.
SuspendAlways(n) ==
  /\ read_buf_' = read_buf_ \o SubSeq(sock, 1, n) /\ sock' = SubSeq(sock, n + 1, Len(sock))
  /\ recv_fn' = WaitIn[recv_fn]
  /\ UNCHANGED <<closed_, write_buf_, wire, unread, send_fn, interest, edge, crashed>>

\* The first n units are read; the coroutine is suspended when there were none.
ReadSome(n) ==
  /\ read_buf_' = read_buf_ \o SubSeq(sock, 1, n) /\ sock' = SubSeq(sock, n + 1, Len(sock))
  /\ recv_fn' = IF n = 0 THEN WaitIn[recv_fn] ELSE recv_fn
  /\ UNCHANGED <<closed_, write_buf_, wire, unread, send_fn, interest, edge, crashed>>

\* Mutant of ReadClosed: send_fn is not resumed.
ReadClosedSilent(n) ==
  /\ closed_' = TRUE
  /\ read_buf_' = read_buf_ \o SubSeq(sock, 1, n) /\ sock' = SubSeq(sock, n + 1, Len(sock))
  /\ interest' = {} /\ edge' = {}
  /\ UNCHANGED <<write_buf_, wire, unread, send_fn, recv_fn, crashed>>

\* End of file, an error, or the connection is closed already: close, resume_write, recv_add; then
\* ReadAwaiter takes the connection out of the poll, and the coroutine goes on.
ReadClosed(n) ==
  /\ closed_' = TRUE
  /\ read_buf_' = read_buf_ \o SubSeq(sock, 1, n) /\ sock' = SubSeq(sock, n + 1, Len(sock))
  /\ ResumeWrite(write_buf_, TRUE)
  /\ interest' = {} /\ edge' = {}
  /\ UNCHANGED recv_fn

\* async_read takes the whole queue and sees what is behind it, or as much as the block has room
\* for.
AsyncRead ==
  /\ recv_fn \in {"head", "body"} /\ ~crashed
  /\ \/ ~closed_ /\ \E n \in 1 .. Len(sock) : ReadSome(n)
     \/ ~closed_ /\ sock = <<>> /\ peer = "open" /\ ReadSome(0)
     \/ closed_ /\ \E n \in 1 .. Len(sock) : ReadClosed(n)
     \/ (closed_ \/ peer # "open") /\ ReadClosed(Len(sock))
  /\ UNCHANGED <<env, peer, events>>

\* Mutant of FinishRecv: the connection stays open.
FinishRecvOpen ==
  /\ recv_fn = "close" /\ ~crashed
  /\ recv_fn' = "done"
  /\ UNCHANGED <<peer_vars, bufs, send_fn, interest, edge, events, crashed>>

\* The end of recv_fn.  shutdown wakes up whoever polls the socket.
FinishRecv ==
  /\ recv_fn = "close" /\ ~crashed
  /\ closed_' = TRUE /\ edge' = edge \cup IF closed_ THEN {} ELSE Wakes({"OUT"})
  /\ recv_fn' = "done"
  /\ UNCHANGED <<peer_vars, read_buf_, write_buf_, wire, send_fn, interest,
                 events, crashed>>
-----------------------------------------------------------------------------
(* The executor *)

\* The executor's thread is not inside recv_fn.
InPoll == ~Running /\ ~crashed

PollWait ==
  /\ InPoll /\ edge # {} /\ interest # {} /\ events = {} /\ ~Released
  /\ events' = IF epoll THEN EpollEvents ELSE KqueueEvents
  /\ edge' = {}
  /\ UNCHANGED <<peer_vars, bufs, send_fn, recv_fn, interest, crashed>>

\* The connection is closed and taken out of the poll; nobody is resumed.  Under kqueue an event
\* handled before may have released the connection.
HandleHangUp(rest) ==
  /\ InPoll /\ "HUP" \in events
  /\ closed_' = TRUE /\ interest' = {} /\ edge' = {} /\ events' = rest
  /\ crashed' = Released
  /\ UNCHANGED <<peer_vars, read_buf_, write_buf_, wire, send_fn, recv_fn>>

EpollHangUp == epoll /\ HandleHangUp({})
KqueueEof == ~epoll /\ HandleHangUp(events \ {"HUP"})

\* The write event is taken back, and send_fn resumed.
HandleWrite(ready) ==
  /\ InPoll /\ "OUT" \in events
  /\ ResumeWrite(write_buf_, closed_) /\ AddWriteEvent(interest \ {"OUT"}, ready)
  /\ events' = events \ {"OUT"}
  /\ UNCHANGED <<env, peer, sock, closed_, read_buf_, recv_fn>>

EpollWrite == epoll /\ "HUP" \notin events /\ HandleWrite(IF ReadReady THEN Filters ELSE edge)
KqueueWrite == ~epoll /\ HandleWrite(edge \ {"OUT"})

HandleRead ==
  /\ InPoll /\ events' = events \ {"IN"}
  /\ \/ Suspended /\ recv_fn' = ResumeIn[recv_fn] /\ UNCHANGED crashed
     \/ recv_fn = "done" /\ crashed' = TRUE /\ UNCHANGED recv_fn
  /\ UNCHANGED <<peer_vars, bufs, send_fn, interest, edge>>

EpollRead == epoll /\ events = {"IN"} /\ HandleRead
KqueueRead == ~epoll /\ "IN" \in events /\ HandleRead

EpollLoop == EpollHangUp \/ EpollWrite \/ EpollRead
KqueueLoop == KqueueEof \/ KqueueWrite \/ KqueueRead

\* What the executor does by itself for a connection.
ConnStep == FinishRecv \/ PollWait \/ EpollLoop \/ KqueueLoop
-----------------------------------------------------------------------------
\* Every variable has its type, and no more than the send buffer holds is under way.
PollTypeOK ==
  /\ unread \in 0 .. SendBuffer
  /\ interest \subseteq Filters /\ edge \subseteq Filters /\ events \subseteq Filters \cup {"HUP"}

\* A message waits in the buffer only while send_fn is suspended with the write event
\* registered, so that the kernel will resume it.
NoMessageForgotten ==
  write_buf_ # <<>> /\ ~closed_ /\ ~crashed /\ recv_fn # "done" =>
    send_fn = "write" /\ "OUT" \in interest \cup events
=============================================================================
