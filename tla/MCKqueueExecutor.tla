-------------------------- MODULE MCKqueueExecutor -------------------------
(* Instances of KqueueExecutor for TLC *)
EXTENDS KqueueExecutor, TLC

CONSTANTS s1, s2
=============================================================================
