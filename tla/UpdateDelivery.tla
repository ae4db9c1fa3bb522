--------------------------- MODULE UpdateDelivery ---------------------------
(***************************************************************************)
(* What the coordinated sessions promise about the updates of the chat:    *)
(* an update from the authorized chat is handed to at most one session, at *)
(* most once, and every session sees its updates in the order of the chat. *)
(* Updates may be declared repeatable, but not once they were handed out.  *)
(* Nothing is promised about updates that are never handed to anybody.     *)
(***************************************************************************)
EXTENDS Naturals, Sequences, SequencesExt

CONSTANTS
    Sessions,    \* server processes
    MaxUpdates   \* bound: length of the chat

VARIABLES
    posted,      \* posted[u]: update u comes from the authorized chat
    delivered,   \* delivered[s]: the updates handed to s, oldest first
    repeatable   \* updates that may be handed out again, and out of order

vars == <<posted, delivered, repeatable>>

Handed == UNION {ToSet(delivered[s]) : s \in Sessions}

Init ==
    /\ posted = <<>>
    /\ delivered = [s \in Sessions |-> <<>>]
    /\ repeatable = {}

Post ==
    /\ Len(posted) < MaxUpdates
    /\ \E auth \in BOOLEAN : posted' = Append(posted, auth)
    /\ UNCHANGED <<delivered, repeatable>>

\* Only of updates that nobody has may it be unknown whether they come again.
Loosen(U) ==
    /\ U \cap Handed \subseteq repeatable
    /\ repeatable' = repeatable \cup U
    /\ UNCHANGED <<posted, delivered>>

Deliver(s, u) ==
    /\ posted[u]
    /\ u \notin repeatable =>
         /\ u \notin Handed
         /\ \A v \in ToSet(delivered[s]) \ repeatable : v < u
    /\ delivered' = [delivered EXCEPT ![s] = Append(@, u)]
    /\ UNCHANGED <<posted, repeatable>>

Next ==
    \/ Post
    \/ \E U \in SUBSET (DOMAIN posted) : Loosen(U)
    \/ \E s \in Sessions, u \in DOMAIN posted : Deliver(s, u)

Spec == Init /\ [][Next]_vars
=============================================================================
