-------------------------- MODULE MCClientChannel ---------------------------
(* Calls for ClientChannel. *)
EXTENDS ClientChannel, TLC

CONSTANTS c1, c2
TwoCalls == {c1, c2}
=============================================================================
