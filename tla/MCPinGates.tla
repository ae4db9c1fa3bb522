----------------------------- MODULE MCPinGates -----------------------------
(* PinGates with caps that a few pins reach: the first session finds an empty
   section, one with stale pins, or one that is over both caps. *)
EXTENDS PinGates

CONSTANTS a, b

Found == {<<>>,
          <<[name |-> a, kind |-> "small", stale |-> TRUE],
            [name |-> b, kind |-> "small", stale |-> TRUE]>>,
          <<[name |-> a, kind |-> "huge", stale |-> FALSE],
            [name |-> b, kind |-> "small", stale |-> TRUE],
            [name |-> b, kind |-> "big", stale |-> FALSE]>>}
=============================================================================
