---------------------------- MODULE CreditLedger ----------------------------
(***************************************************************************)
(* What a server of prepaid credit promises its buyers, with nothing of    *)
(* holds, retries, receipts that arrive late or files with account names.  *)
(*                                                                         *)
(* A receipt adds credit to one account, once.  An account spends its own  *)
(* credit and no more than it has; credit does not get lost otherwise.     *)
(***************************************************************************)
EXTENDS Naturals

CONSTANTS
    Accounts,
    Receipts,
    Prices,    \* what a receipt may be worth
    Costs      \* what a use may cost

VARIABLES
    accepted,  \* receipts that were credited
    credit,    \* all that an account was ever credited with
    spent      \* all that it has spent

vars == <<accepted, credit, spent>>

Init ==
    /\ accepted = {}
    /\ credit = [a \in Accounts |-> 0]
    /\ spent = [a \in Accounts |-> 0]

Accept(s) ==
    /\ s \notin accepted
    /\ accepted' = accepted \cup {s}
    /\ \E a \in Accounts, n \in Prices : credit' = [credit EXCEPT ![a] = @ + n]
    /\ UNCHANGED spent

Spend(a, n) ==
    /\ spent[a] + n <= credit[a]
    /\ spent' = [spent EXCEPT ![a] = @ + n]
    /\ UNCHANGED <<accepted, credit>>

Next ==
    \/ \E s \in Receipts : Accept(s)
    \/ \E a \in Accounts, n \in Costs : Spend(a, n)

Spec == Init /\ [][Next]_vars
=============================================================================
