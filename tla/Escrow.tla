------------------------------- MODULE Escrow -------------------------------
(***************************************************************************)
(* What the payment-session program promises, with nothing of how it keeps *)
(* the promise: no token accounts, no UserMint, no signatures, no rent.    *)
(*                                                                         *)
(* A party holds tokens.  A user earmarks part of its tokens for a         *)
(* merchant; what is earmarked leaves the user only as a payment to that   *)
(* merchant, or is released by the user.  Only what is not earmarked can   *)
(* be earmarked again or withdrawn.                                        *)
(***************************************************************************)
EXTENDS Naturals, FiniteSets, Totals

CONSTANTS Users, Parties, Merchants, Mints, InitialHolding, MaxAmount

VARIABLES holding, earmark

vars == <<holding, earmark>>

Init ==
    /\ holding = InitialHolding
    /\ earmark = [x \in Users \X Merchants \X Mints |-> 0]

Amounts == 1 .. MaxAmount

Earmarked(u, k) == Total([m \in Merchants |-> earmark[<<u, m, k>>]])

Move(p, q, k, n) ==
    /\ n <= holding[<<p, k>>]
    /\ holding' = IF p = q THEN holding
                  ELSE [holding EXCEPT ![<<p, k>>] = @ - n, ![<<q, k>>] = @ + n]

(* Tokens that no user owns move freely. *)
Spend(p, q, k, n) ==
    /\ p \notin Users
    /\ Move(p, q, k, n)
    /\ UNCHANGED earmark

Withdraw(u, q, k, n) ==
    /\ Earmarked(u, k) + n <= holding[<<u, k>>]
    /\ Move(u, q, k, n)
    /\ UNCHANGED earmark

Earmark(u, m, k, n) ==
    /\ Earmarked(u, k) + n <= holding[<<u, k>>]
    /\ earmark' = [earmark EXCEPT ![<<u, m, k>>] = @ + n]
    /\ UNCHANGED holding

Pay(u, m, k, n) ==
    /\ n <= earmark[<<u, m, k>>]
    /\ Move(u, m, k, n)
    /\ earmark' = [earmark EXCEPT ![<<u, m, k>>] = @ - n]

Release(u, m, k) ==
    /\ earmark' = [earmark EXCEPT ![<<u, m, k>>] = 0]
    /\ UNCHANGED holding

Next ==
    \E k \in Mints :
        \/ \E p, q \in Parties, n \in Amounts : Spend(p, q, k, n)
        \/ \E u \in Users, q \in Parties, n \in Amounts : Withdraw(u, q, k, n)
        \/ \E u \in Users, m \in Merchants, n \in Amounts :
              Earmark(u, m, k, n) \/ Pay(u, m, k, n)
        \/ \E u \in Users, m \in Merchants : Release(u, m, k)

Spec == Init /\ [][Next]_vars

(* A user never owes more than it has. *)
Covered ==
    \A u \in Users, k \in Mints : Earmarked(u, k) <= holding[<<u, k>>]
=============================================================================
