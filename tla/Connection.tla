----------------------------- MODULE Connection -----------------------------
(***************************************************************************)
(* net/connection.h: what a connection is under every policy - a socket,   *)
(* two buffers, and the handles of the coroutines send_fn and recv_fn that *)
(* share it - and its peer, which acts at any time.  PollConnection and    *)
(* UringExecutor add how the coroutines read, write and are resumed;       *)
(* RpcServer and ClientChannel what recv_fn does with the bytes.           *)
(*                                                                         *)
(* A message is received as two units, its head (length, header, length)   *)
(* and its body; FrameReader is about what is inside.  It is sent as one   *)
(* unit; ConnectionWrite is about its bytes.                               *)
(***************************************************************************)
EXTENDS Integers, Sequences, FiniteSetsExt, Functions

CONSTANT SendBuffer      \* how many messages the socket takes before EAGAIN

ASSUME PeerAssumption == SendBuffer \in Nat \ {0}

VARIABLES
  policy,        \* what waits for the connection's events: "epoll", "kqueue", "uring"
  manners,       \* of the peer: "polite" (nobody closes while there is work), "hasty" (closes
                 \* at any time), "rude" (also resets, or sends what recv_fn rejects)
  peer,          \* "open", "fin" (sends no more), "reset"
  sock, unread,  \* the kernel's receive queue; messages the peer has not read
  closed_,       \* socket.h:39
  read_buf_, write_buf_, wire,   \* units read, messages to write, messages written
  send_fn,       \* where send_fn is: "new", "wait" (for data), "write" (for the socket), "done"
  recv_fn,       \* where recv_fn is: running in "head", "body", "close"; suspended in
                 \* "head_wait", "body_wait"; "new"; "done"; "spin" (in a loop that does not end)
  crashed        \* a coroutine was resumed that has no frame, or SIGPIPE came

env == <<policy, manners>>
peer_vars == <<env, peer, sock, unread>>
bufs == <<closed_, read_buf_, write_buf_, wire>>
conn_vars == <<peer_vars, bufs, send_fn, recv_fn, crashed>>

polite == manners = "polite"
rude == manners = "rude"
Room == SendBuffer - unread

ConnInit ==
  /\ manners \in {"polite", "hasty", "rude"}
  /\ peer = "open" /\ sock = <<>> /\ unread = 0
  /\ closed_ = FALSE /\ read_buf_ = <<>> /\ write_buf_ = <<>> /\ wire = <<>>
  /\ send_fn = "new" /\ recv_fn = "new" /\ crashed = FALSE

\* Both coroutines are gone.
Released == send_fn = "done" /\ recv_fn = "done"

WaitIn == [head |-> "head_wait", body |-> "body_wait"]
ResumeIn == [head_wait |-> "head", body_wait |-> "body"]
Running == recv_fn \in {"head", "body", "close", "spin"}
Suspended == recv_fn \in {"head_wait", "body_wait"}
-----------------------------------------------------------------------------
(* external: the peer *)

Arrives(unit) ==
  /\ peer = "open" /\ ~crashed
  /\ sock' = Append(sock, unit)
  /\ UNCHANGED <<env, peer, unread, bufs, send_fn, recv_fn, crashed>>

PeerFin ==
  /\ peer = "open" /\ ~crashed
  /\ peer' = "fin"
  /\ UNCHANGED <<env, sock, unread, bufs, send_fn, recv_fn, crashed>>

PeerReset ==
  /\ rude /\ peer # "reset" /\ ~crashed
  /\ peer' = "reset" /\ sock' = <<>>
  /\ UNCHANGED <<env, unread, bufs, send_fn, recv_fn, crashed>>

PeerReads ==
  /\ unread > 0 /\ peer # "reset" /\ ~crashed
  /\ unread' = unread - 1
  /\ UNCHANGED <<env, peer, sock, bufs, send_fn, recv_fn, crashed>>
-----------------------------------------------------------------------------
\* Every variable has its type.
ConnTypeOK ==
  /\ manners \in {"polite", "hasty", "rude"}
  /\ peer \in {"open", "fin", "reset"} /\ unread \in Nat
  /\ send_fn \in {"new", "wait", "write", "done"}
  /\ recv_fn \in {"new", "head", "body", "close", "head_wait", "body_wait", "done", "spin"}
  /\ {closed_, crashed} \subseteq BOOLEAN

\* As long as the connection is up, no coroutine is resumed that was destroyed: resume_read and
\* resume_write (connection.h:38-43) only meet live frames, whatever events, completions and
\* requests come in which order.
CrashOnlyWhenDown == crashed => closed_ \/ peer = "reset"
=============================================================================
