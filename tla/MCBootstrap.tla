---------------------------- MODULE MCBootstrap ----------------------------
(***************************************************************************)
(* Instances of Bootstrap for TLC.                                         *)
(***************************************************************************)
EXTENDS Bootstrap

CONSTANTS w1, w2   \* marker writers

=============================================================================
