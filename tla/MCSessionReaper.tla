-------------------------- MODULE MCSessionReaper --------------------------
(***************************************************************************)
(* Instances of SessionReaper for TLC.                                     *)
(***************************************************************************)
EXTENDS SessionReaper

CONSTANTS s1, s2, s3   \* sessions

\* Sessions of the present version are alike.
Newer == Permutations(Sessions \ Legacy)

=============================================================================
