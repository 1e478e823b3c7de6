--------------------------- MODULE MCSpendPolicy ---------------------------
(* Instances of SpendPolicy for TLC. *)
EXTENDS SpendPolicy

CONSTANTS c1, c2, c3, p1, p2

MCProcessOf == [c \in Calls |-> IF c = c2 /\ p2 \in Processes THEN p2 ELSE p1]
=============================================================================
