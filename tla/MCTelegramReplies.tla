------------------------- MODULE MCTelegramReplies -------------------------
(* Instances of TelegramReplies for TLC. *)
EXTENDS TelegramReplies, TLC

CONSTANTS a1, a2

\* One question waits as long as cleanup_stale_futures lets it, the other asked
\* to wait longer.
MCTimeout == (a1 :> 1) @@ (a2 :> 2)
=============================================================================
