--------------------------- MODULE MCManagedFile ---------------------------
(* Instances of ManagedFile for TLC, with the token counts of the source. *)
EXTENDS ManagedFile

Budgets == [working |-> 800, retrieved |-> 500]
=============================================================================
