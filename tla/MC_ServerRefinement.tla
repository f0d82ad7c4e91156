------------------------- MODULE MC_ServerRefinement -------------------------
(* Instances of ServerRefinement for TLC. *)
EXTENDS ServerRefinement

CONSTANTS c1, c2

OneShutdown ==
    [c \in Client |-> IF c = c1 THEN {"shutdown", "ping"} ELSE {"compile", "ping"}]
=============================================================================
