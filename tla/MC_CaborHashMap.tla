-------------------------- MODULE MC_CaborHashMap --------------------------
(* Three names of four collide in the first of two slots. *)
EXTENDS CaborHashMap

CONSTANTS k1, k2, k3, k4

Names == {k1, k2, k3, k4}
Collisions == [k \in Names |-> IF k = k4 THEN 1 ELSE 0]
=============================================================================
