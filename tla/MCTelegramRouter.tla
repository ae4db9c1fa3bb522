-------------------------- MODULE MCTelegramRouter --------------------------
(***************************************************************************)
(* Instances of TelegramRouter for TLC.                                    *)
(***************************************************************************)
EXTENDS TelegramRouter

CONSTANTS a, b, c   \* sessions

=============================================================================
