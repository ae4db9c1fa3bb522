---------------------------- MODULE MCTaskStore ----------------------------
(* Instances of TaskStore for TLC: one teachback and the work it blocks. *)
EXTENDS TaskStore, TLC

CONSTANTS h1, h2, a, b, m

OwnerMC == [t \in Tasks |-> m]
BlockersMC == [t \in Tasks |-> IF t = b THEN {a} ELSE {}]
Symmetry == Permutations(Hooks)
=============================================================================
