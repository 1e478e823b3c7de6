----------------------------- MODULE MCPaywall -----------------------------
(* Instances of Paywall for TLC. *)
EXTENDS Paywall, TLC

CONSTANTS r1, r2, r3, u1, u2, s1, s2

MCUserOf == [r \in Requests |-> IF r = r3 THEN u2 ELSE u1]
MCFunds == [u \in Users |-> IF u = u1 THEN 2 ELSE 1]

(* Requests of one user, and instances, are interchangeable. *)
Symmetry == Permutations(Requests \ {r3}) \cup Permutations(Servers)
=============================================================================
