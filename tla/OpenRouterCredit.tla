-------------------------- MODULE OpenRouterCredit --------------------------
(***************************************************************************)
(* The credit ledger of the OpenRouter gateway                             *)
(* (examples/openrouter/server.ts): accounts are topped up with the        *)
(* receipt of a session, and each completion locks a worst-case hold       *)
(* before OpenRouter is called and settles it against the real cost        *)
(* afterwards.  Requests interleave wherever a handler awaits.             *)
(***************************************************************************)
EXTENDS Integers, FiniteSets, Totals

CONSTANTS
    Accounts,    \* refIds
    Jobs,        \* completion requests
    AccountOf,   \* the account a job names
    Signatures,  \* receipts that clients show
    MaxCredit,   \* bound on what one receipt is credited with
    MaxHold,     \* bound on a hold
    MaxCost,     \* bound on what OpenRouter bills for one generation
    MaxTries     \* attempts to read the cost: 8 in the code

ASSUME CreditAssumption ==
    /\ IsFiniteSet(Accounts) /\ IsFiniteSet(Jobs)
    /\ AccountOf \in [Jobs -> Accounts]
    /\ MaxCredit \in Nat /\ MaxHold \in Nat /\ MaxCost \in Nat
    /\ MaxTries \in Nat \ {0}

VARIABLES
    remaining,  \* accounts: remaining
    charged,    \* accounts: charged
    seen,       \* signatures already credited
    pc,         \* where a job stands, in the end its outcome
    hold,       \* what a job asked for
    locked,     \* what a job holds of its account now
    tries,      \* failed attempts to read a job's cost
    bill,       \* what OpenRouter bills for a job
    credited    \* history: all that an account was credited with

vars == <<remaining, charged, seen, pc, hold, locked, tries, bill, credited>>

Outcomes == {"refused", "rejected", "aborted", "billed", "unpriced", "unread"}

Init ==
    /\ remaining = [a \in Accounts |-> 0]
    /\ charged = [a \in Accounts |-> 0]
    /\ seen = {}
    /\ pc = [j \in Jobs |-> "new"]
    /\ hold = [j \in Jobs |-> 0]
    /\ locked = [j \in Jobs |-> 0]
    /\ tries = [j \in Jobs |-> 0]
    /\ bill = [j \in Jobs |-> 0]
    /\ credited = [a \in Accounts |-> 0]
-----------------------------------------------------------------------------
Least(m, n) == IF m <= n THEN m ELSE n

Covers_Any(left, h) == left > 0

Covers(left, h) == left >= h

Fresh(s) == s \notin seen

LastTry_Never(n) == FALSE

LastTry(n) == n + 1 = MaxTries

(* settle never takes more than the hold. *)
Debit_Uncapped(cost, h) == cost

Debit(cost, h) == Least(cost, h)

Returned_Nothing(h, debit) == 0

Returned(h, debit) == h - debit

(* The handler ends: what it holds goes back, less the debit. *)
End(j, outcome, debit) ==
    LET a == AccountOf[j]
    IN  /\ remaining' = [remaining EXCEPT ![a] = @ + Returned(locked[j], debit)]
        /\ charged' = [charged EXCEPT ![a] = @ + debit]
        /\ locked' = [locked EXCEPT ![j] = 0]
        /\ pc' = [pc EXCEPT ![j] = outcome]
-----------------------------------------------------------------------------
(* POST /topup.  The amount is resolved without waiting: the token is      *)
(* known, so the handler runs from the look at seen to its answer.         *)
TopUp(a, s, n) ==
    /\ Fresh(s)
    /\ seen' = seen \cup {s}
    /\ remaining' = [remaining EXCEPT ![a] = @ + n]
    /\ credited' = [credited EXCEPT ![a] = @ + n]
    /\ UNCHANGED <<charged, pc, hold, locked, tries, bill>>

(* POST /v1/chat/completions, up to where the model's price is awaited ... *)
Estimate(j, h) ==
    /\ pc[j] = "new"
    /\ hold' = [hold EXCEPT ![j] = h]
    /\ pc' = [pc EXCEPT ![j] = "estimated"]
    /\ UNCHANGED <<remaining, charged, seen, locked, tries, bill, credited>>

(* ... and on from there: the account is looked at after the wait.         *)
Lock(j) ==
    LET a == AccountOf[j]
    IN  /\ pc[j] = "estimated"
        /\ Covers(remaining[a], hold[j])
        /\ remaining' = [remaining EXCEPT ![a] = @ - hold[j]]
        /\ locked' = [locked EXCEPT ![j] = hold[j]]
        /\ pc' = [pc EXCEPT ![j] = "calling"]
        /\ UNCHANGED <<charged, seen, hold, tries, bill, credited>>

Refuse(j) ==
    /\ pc[j] = "estimated"
    /\ ~Covers(remaining[AccountOf[j]], hold[j])
    /\ pc' = [pc EXCEPT ![j] = "refused"]
    /\ UNCHANGED <<remaining, charged, seen, hold, locked, tries, bill, credited>>

(* OpenRouter answers with an error status. *)
Rejected(j) ==
    /\ pc[j] = "calling"
    /\ End(j, "rejected", 0)
    /\ UNCHANGED <<seen, hold, tries, bill, credited>>

(* The call, or reading its answer, throws; OpenRouter may bill for it.    *)
Aborted(j, cost) ==
    /\ pc[j] = "calling"
    /\ bill' = [bill EXCEPT ![j] = cost]
    /\ End(j, "aborted", 0)
    /\ UNCHANGED <<seen, hold, tries, credited>>

(* The whole answer is there; its cost is asked for if it names an id.     *)
Answered(j, cost) ==
    /\ pc[j] = "calling"
    /\ bill' = [bill EXCEPT ![j] = cost]
    /\ pc' = [pc EXCEPT ![j] = "pricing"]
    /\ UNCHANGED <<remaining, charged, seen, hold, locked, tries, credited>>

AnsweredWithoutId(j, cost) ==
    /\ pc[j] = "calling"
    /\ bill' = [bill EXCEPT ![j] = cost]
    /\ End(j, "unpriced", hold[j])
    /\ UNCHANGED <<seen, hold, tries, credited>>

(* The cost is known ... *)
Priced(j) ==
    /\ pc[j] = "pricing"
    /\ End(j, "billed", Debit(bill[j], hold[j]))
    /\ UNCHANGED <<seen, hold, tries, bill, credited>>

(* ... or not yet: an error status, or an answer without a cost.  The      *)
(* count of attempts starts again after the last one, when it is over.     *)
NotPriced(j) ==
    /\ pc[j] = "pricing"
    /\ tries' = [tries EXCEPT ![j] = (@ + 1) % MaxTries]
    /\ IF LastTry(tries[j])
       THEN End(j, "unpriced", hold[j])
       ELSE UNCHANGED <<remaining, charged, locked, pc>>
    /\ UNCHANGED <<seen, hold, bill, credited>>

(* Asking for the cost throws, and with it settle: the catch around the    *)
(* call gives the hold back.                                               *)
PricingThrows(j) ==
    /\ pc[j] = "pricing"
    /\ End(j, "unread", 0)
    /\ UNCHANGED <<seen, hold, tries, bill, credited>>
-----------------------------------------------------------------------------
Holds == 1 .. MaxHold
Costs == 0 .. MaxCost

JobStep(j) ==
    \/ \E h \in Holds : Estimate(j, h)
    \/ Lock(j) \/ Refuse(j) \/ Rejected(j)
    \/ \E c \in Costs : Aborted(j, c) \/ Answered(j, c) \/ AnsweredWithoutId(j, c)
    \/ Priced(j) \/ NotPriced(j) \/ PricingThrows(j)

Next ==
    \/ \E a \in Accounts, s \in Signatures, n \in 1 .. MaxCredit : TopUp(a, s, n)
    \/ \E j \in Jobs : JobStep(j)

Spec == Init /\ [][Next]_vars

(* The gateway goes on with each request, and each call it makes ends.     *)
FairSpec == Spec /\ \A j \in Jobs : WF_vars(JobStep(j))
-----------------------------------------------------------------------------
JobsOf(a) == {j \in Jobs : AccountOf[j] = a}

Locked(a) == Total([j \in JobsOf(a) |-> locked[j]])

(* The type of the state; no account is ever overdrawn, however many       *)
(* completions of one account wait for a price or for OpenRouter.          *)
TypeOK ==
    /\ remaining \in [Accounts -> Nat]
    /\ charged \in [Accounts -> Nat]
    /\ seen \subseteq Signatures
    /\ pc \in [Jobs -> {"new", "estimated", "calling", "pricing"} \cup Outcomes]
    /\ hold \in [Jobs -> 0 .. MaxHold]
    /\ locked \in [Jobs -> 0 .. MaxHold]
    /\ tries \in [Jobs -> 0 .. MaxTries - 1]
    /\ bill \in [Jobs -> Costs]
    /\ credited \in [Accounts -> Nat]

(* Credit is neither lost nor made: all that an account was credited with  *)
(* is still there, charged, or held by a request on its way - through      *)
(* every path that ends a completion.  Each receipt was credited once.     *)
Conserved ==
    /\ \A a \in Accounts : credited[a] = remaining[a] + charged[a] + Locked(a)
    /\ Total(credited) <= MaxCredit * Cardinality(seen)

(* No completion is charged more than it was allowed to cost, nor more     *)
(* than OpenRouter billed when that could be read.                         *)
ChargedWithinHold ==
    \A a \in Accounts :
        charged[a] <= Total([j \in JobsOf(a) |->
            CASE pc[j] = "billed" -> Least(bill[j], hold[j])
              [] pc[j] = "unpriced" -> hold[j]
              [] OTHER -> 0])

(* Credit does not stay locked: each completion ends, and holds nothing.   *)
EveryHoldSettled ==
    \A j \in Jobs : pc[j] # "new" ~> pc[j] \in Outcomes /\ locked[j] = 0
-----------------------------------------------------------------------------
(* The gateway's ledger seen as a CreditLedger.  What a completion holds   *)
(* is still the account's until it is charged.                             *)
Ledger == INSTANCE CreditLedger WITH
    Receipts <- Signatures,
    Prices <- 1 .. MaxCredit,
    Costs <- 1 .. MaxHold,
    accepted <- seen,
    credit <- [a \in Accounts |-> remaining[a] + charged[a] + Locked(a)],
    spent <- charged

(* Holds keep the promise of a credit ledger: locking, settling, giving    *)
(* back and failing anywhere in between neither make nor lose credit, nor  *)
(* charge an account for more than it has, at any single step.             *)
KeepsLedger == Ledger!Spec
=============================================================================
