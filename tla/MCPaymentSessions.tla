------------------------- MODULE MCPaymentSessions -------------------------
(***************************************************************************)
(* Instances of PaymentSessions for TLC.                                   *)
(***************************************************************************)
EXTENDS PaymentSessionsEscrow

CONSTANTS u1, u2, w1, w2, m1, dk, usdc, eurc, a1, a1b, a2, am, aw, e1, ew

MCAuthority == [u \in Users |-> IF u = u1 THEN w1 ELSE w2]
MCOwner == [a \in Accounts |-> CASE a \in {a1, a1b, e1} -> u1
                                 [] a = a2 -> u2
                                 [] a = am -> m1
                                 [] OTHER -> w1]
MCMintOf == [a \in Accounts |-> IF a \in {e1, ew} THEN eurc ELSE usdc]

(* At first every token is in the wallet of w1. *)
MCInitialBalance == [a \in Accounts |-> IF a \in {aw, ew} THEN U64Max ELSE 0]
=============================================================================
