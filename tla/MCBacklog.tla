----------------------------- MODULE MCBacklog -----------------------------
(* Two sessions, two items: see MCBacklog.cfg. *)
EXTENDS Backlog, TLC

Symmetry == Permutations(Sessions)
=============================================================================
