---------------------------- MODULE MCMPMCQueue ----------------------------
(* Instances of MPMCQueue for TLC *)
EXTENDS MPMCQueueInv, TLC

CONSTANTS p1, p2, c1, c2

ThreeItems == [p \in Producers |-> 3]
\* p1 pushes twice, p2 once
TwoAndOne == [p \in Producers |-> IF p = p1 THEN 2 ELSE 1]

Symmetry == Permutations(Consumers)
=============================================================================
