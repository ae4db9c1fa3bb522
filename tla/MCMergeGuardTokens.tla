------------------------- MODULE MCMergeGuardTokens -------------------------
(* Instances of MergeGuardTokens for TLC. *)
EXTENDS MergeGuardTokens, TLC

\* Processes of one role are interchangeable.
Symmetry == Permutations(Readers) \cup Permutations(Minters)
=============================================================================
