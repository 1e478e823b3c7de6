------------------------- MODULE MCOpenRouterCredit -------------------------
(* Instances of OpenRouterCredit for TLC. *)
EXTENDS OpenRouterCredit

CONSTANTS a1, a2, j1, j2, j3, x1, x2

MCAccountOf == [j \in Jobs |-> IF j = j3 THEN a2 ELSE a1]
=============================================================================
