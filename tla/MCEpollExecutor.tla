-------------------------- MODULE MCEpollExecutor --------------------------
(* Instances of EpollExecutor for TLC *)
EXTENDS EpollExecutor, TLC

CONSTANTS s1, s2
=============================================================================
