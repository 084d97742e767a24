--------------------------- MODULE FiniteSetFacts ---------------------------
(***************************************************************************)
(* What the proofs use of the theory of finite sets, as formulas.  A lemma *)
(* that counts takes FiniteSetFacts as a hypothesis.  The module of the    *)
(* theorems brings in FiniteSetTheorems behind its lemmas, proves          *)
(* FiniteSetFacts from it and discharges the hypothesis: so that library,  *)
(* which is large, is in the context of the few proofs that need it.       *)
(***************************************************************************)
EXTENDS Integers, FiniteSets

EmptyCounted == Cardinality({}) = 0 /\ \A S : IsFiniteSet(S) /\ Cardinality(S) = 0 => S = {}

IntervalCounted == \A a, b \in Int :
  IsFiniteSet(a .. b) /\ Cardinality(a .. b) = IF a > b THEN 0 ELSE b - a + 1

SubsetCounted == \A S : IsFiniteSet(S) => \A T \in SUBSET S :
  /\ IsFiniteSet(T) /\ Cardinality(S) \in Nat /\ Cardinality(T) \in Nat
  /\ Cardinality(T) <= Cardinality(S)
  /\ Cardinality(S) = Cardinality(T) => S = T

AddedCounted == \A S : IsFiniteSet(S) => \A x : x \notin S =>
  IsFiniteSet(S \cup {x}) /\ Cardinality(S \cup {x}) = Cardinality(S) + 1

RemovedCounted == \A S : IsFiniteSet(S) => \A x \in S :
  IsFiniteSet(S \ {x}) /\ Cardinality(S \ {x}) = Cardinality(S) - 1

FiniteSetFacts ==
  EmptyCounted /\ IntervalCounted /\ SubsetCounted /\ AddedCounted /\ RemovedCounted
=============================================================================
