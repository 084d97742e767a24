---------------------------- MODULE MCRpcServer -----------------------------
(* The number of requests for RpcServer. *)
EXTENDS RpcServer

Requests == [epoll |-> 3, kqueue |-> 3, uring |-> 2]
EpollRequests == [epoll |-> 2]
=============================================================================
