--------------------------- MODULE MC_CaborServer ---------------------------
(***************************************************************************)
(* Instances of CaborServer for TLC: two connections, of which one or both *)
(* may ask for the shutdown.                                               *)
(***************************************************************************)
EXTENDS CaborServer, TLC

CONSTANTS c1, c2

\* One peer may shut the server down, the others compile or ping.
OneShutdown ==
    [c \in Client |-> IF c = c1 THEN {"shutdown", "ping"} ELSE {"compile", "ping"}]

\* Any peer may send any command.
AnyCommand == [c \in Client |-> Request]

AllSymmetric == Permutations(Client)
=============================================================================
