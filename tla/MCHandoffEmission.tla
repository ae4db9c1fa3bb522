-------------------------- MODULE MCHandoffEmission --------------------------
(***************************************************************************)
(* Instances of HandoffEmission for TLC.                                   *)
(***************************************************************************)
EXTENDS HandoffEmission

CONSTANTS b1, b2, b3,            \* fires
          handoff, site          \* keys: a handoff, a dispatch site

MCEntries == [fire : Fires, key : Keys, kind : {"event", "skip"}]

\* Two fires emit the handoff; the third a dispatch site, then the handoff.
MCPlan == [f \in Fires |-> IF f = b3 THEN <<site, handoff>> ELSE <<handoff>>]
=============================================================================
