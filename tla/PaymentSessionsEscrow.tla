----------------------- MODULE PaymentSessionsEscrow -----------------------
(***************************************************************************)
(* PaymentSessions seen as an Escrow.                                      *)
(***************************************************************************)
EXTENDS PaymentSessions

(* The abstract state: what each party holds over its accounts, and what   *)
(* each session has remaining.                                             *)
EscrowHolding == [x \in (Users \cup Keys) \X Mints |-> Holding(x[1], x[2])]

EscrowInitialHolding ==
    [x \in (Users \cup Keys) \X Mints |->
        Total([a \in Accounts |-> IF HoldsMint(a, x[1], x[2]) THEN InitialBalance[a] ELSE 0])]

Ideal == INSTANCE Escrow WITH
    Parties <- Users \cup Keys,
    InitialHolding <- EscrowInitialHolding,
    MaxAmount <- U64Max,
    holding <- EscrowHolding,
    earmark <- remaining

(* The program implements the escrow: every instruction is an escrow step  *)
(* or leaves holdings and earmarks alone.                                  *)
ImplementsEscrow == Ideal!Spec
=============================================================================
