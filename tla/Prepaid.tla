------------------------------ MODULE Prepaid ------------------------------
(***************************************************************************)
(* Prepaid credit end to end: runs of the buyer's program, the credit that *)
(* a server gives for receipts, and the session behind a receipt.  There   *)
(* are two such pairs of programs:                                         *)
(*   "metered"   examples/metered, whose runs either buy or use, and       *)
(*   "gateway"   examples/openrouter, whose runs buy when they need to and *)
(*               then use; OpenRouterCredit has the detail of such a use.  *)
(*                                                                         *)
(* All runs are of one wallet on one machine: they share the file that     *)
(* names the account, which is truncated and then written; a file that is  *)
(* truncated reads like none.  The server verifies a receipt by its        *)
(* signature only, and never charges the session.                          *)
(***************************************************************************)
EXTENDS Integers, FiniteSets, Totals

CONSTANTS
    Runs,
    MaxUnits,   \* bound on what a run buys or uses
    TopupUnits, \* TOPUP_AMOUNT of the gateway's client
    NoRef

ASSUME PrepaidAssumption ==
    /\ IsFiniteSet(Runs)
    /\ MaxUnits \in Nat \ {0}
    /\ TopupUnits \in Nat \ {0}
    /\ NoRef \notin Runs

VARIABLES
    client,    \* which pair of programs
    alone,     \* nobody starts a run while another is under way
    file,      \* the refId in the file; each run would make up its own
    cut,       \* history: a run broke off between truncating and writing the file
    session,   \* whether the session is open
    pc, ref, units, again, sig,   \* the runs
    remaining, used, seen,        \* the server, by refId
    paid,      \* history: what the session was opened with, by payment
    credited   \* history: what a refId was credited with

run == <<pc, ref, units, again, sig>>
server == <<remaining, used, seen>>
kind == <<client, alone>>
saved == <<file, cut>>
books == <<paid, credited>>
vars == <<kind, saved, session, run, server, books>>

Refs == Runs

(* A run pays at most twice; again says for which time. *)
Payments == Runs \X BOOLEAN

Payment(r) == <<r, again[r]>>

Ends == {"ended", "adrift", "sent", "asked"}

Steps ==
    {"new", "loaded", "saving", "checking", "opening", "opened", "posting", "credited",
     "using"} \cup Ends

Init ==
    /\ client \in {"metered", "gateway"}
    /\ alone \in BOOLEAN
    /\ file = NoRef
    /\ cut = FALSE
    /\ session = FALSE
    /\ pc = [r \in Runs |-> "new"]
    /\ ref = [r \in Runs |-> NoRef]
    /\ units = [r \in Runs |-> 0]
    /\ again = [r \in Runs |-> FALSE]
    /\ sig = [r \in Runs |-> <<r, FALSE>>]
    /\ remaining = [x \in Refs |-> 0]
    /\ used = [x \in Refs |-> 0]
    /\ seen = {}
    /\ paid = [p \in Payments |-> 0]
    /\ credited = [x \in Refs |-> 0]
-----------------------------------------------------------------------------
Gateway == client = "gateway"

Loaded_MadeUp(r) == r

Loaded(r) == IF file = NoRef THEN r ELSE file

(* One unit stands for the 1000 base units that a first look asks for. *)
Enough(r) == remaining[ref[r]] >= IF again[r] THEN units[r] ELSE 1

(* TOPUP, or more if the server said that more was needed. *)
Price(r) ==
    IF ~Gateway \/ (again[r] /\ units[r] > TopupUnits) THEN units[r] ELSE TopupUnits

Covered_Any(x, n) == remaining[x] > 0

Covered(x, n) == remaining[x] >= n

Fresh_Always(p) == TRUE

Fresh(p) == p \notin seen

Go(r, from, to) ==
    /\ pc[r] = from
    /\ pc' = [pc EXCEPT ![r] = to]
-----------------------------------------------------------------------------
(* A command is given: the file is read, or a refId is made up.            *)
Start(r, n, first) ==
    /\ alone => \A q \in Runs : pc[q] \in Ends \cup {"new"}
    /\ Go(r, "new", first)
    /\ ref' = [ref EXCEPT ![r] = Loaded(r)]
    /\ units' = [units EXCEPT ![r] = n]
    /\ UNCHANGED <<kind, saved, session, again, sig, server, books>>

Buy(r, n) == ~Gateway /\ Start(r, n, "opening")

(* Without a file there is nothing to use. *)
UseCredit(r, n) == ~Gateway /\ file # NoRef /\ Start(r, n, "using")

Chat(r, n) == Gateway /\ Start(r, n, "loaded")

(* saveRef: the gateway's client saves the refId first of all, the metered *)
(* one when the credit is there.  Another run may have saved its own by    *)
(* now; and the file is truncated ...                                      *)
SaveRef(r) ==
    /\ Go(r, IF Gateway THEN "loaded" ELSE "credited", "saving")
    /\ file' = NoRef
    /\ UNCHANGED <<kind, cut, session, ref, units, again, sig, server, books>>

(* ... before it is written. *)
WriteRef(r) ==
    /\ Go(r, "saving", IF Gateway THEN "checking" ELSE "ended")
    /\ file' = ref[r]
    /\ UNCHANGED <<kind, cut, session, ref, units, again, sig, server, books>>

(* ensureCredit opens a session unless the account shows enough. *)
Check(r) ==
    /\ Go(r, "checking", IF Enough(r) THEN "using" ELSE "opening")
    /\ UNCHANGED <<kind, saved, session, ref, units, again, sig, server, books>>
-----------------------------------------------------------------------------
(* The program opens the session, for a run that waits or has gone.        *)
OpenSession(r) ==
    /\ \/ Go(r, "opening", "opened")
       \/ Go(r, "adrift", "ended")
    /\ ~session
    /\ session' = TRUE
    /\ paid' = [paid EXCEPT ![Payment(r)] = Price(r)]
    /\ sig' = [sig EXCEPT ![r] = Payment(r)]
    /\ UNCHANGED <<kind, saved, ref, units, again, server, credited>>

OpenReturns(r) ==
    /\ Go(r, "opened", "posting")
    /\ UNCHANGED <<kind, saved, session, ref, units, again, sig, server, books>>

(* Two runs that open a session of one amount on one blockhash have made   *)
(* one transaction: both calls return with its signature.                  *)
SameTransaction(r, q) ==
    /\ pc[q] \in {"opened", "posting"} /\ Price(q) = Price(r)
    /\ Go(r, "opening", "opened")
    /\ sig' = [sig EXCEPT ![r] = sig[q]]
    /\ UNCHANGED <<kind, saved, session, ref, units, again, server, books>>

(* POST /topup, which runs without waiting up to its answer.               *)
TopUp(r) ==
    /\ \/ Go(r, "posting", "credited")
       \/ Go(r, "sent", "ended")
    /\ Fresh(sig[r])
    /\ seen' = seen \cup {sig[r]}
    /\ remaining' = [remaining EXCEPT ![ref[r]] = @ + Price(r)]
    /\ credited' = [credited EXCEPT ![ref[r]] = @ + Price(r)]
    /\ UNCHANGED <<kind, saved, session, ref, units, again, sig, used, paid>>

(* 409: this signature was already credited. *)
Replay(r) ==
    /\ Go(r, "posting", "ended")
    /\ ~Fresh(sig[r])
    /\ UNCHANGED <<kind, saved, session, ref, units, again, sig, server, books>>

(* The gateway's client goes on to use what it has bought. *)
CreditAnswered(r) ==
    /\ Gateway
    /\ Go(r, "credited", "using")
    /\ UNCHANGED <<kind, saved, session, ref, units, again, sig, server, books>>

(* POST /use, or a completion, which is paid from credit ... *)
Serve(r) ==
    /\ \/ Go(r, "using", "ended")
       \/ Go(r, "asked", "ended")
    /\ Covered(ref[r], units[r])
    /\ remaining' = [remaining EXCEPT ![ref[r]] = @ - units[r]]
    /\ used' = [used EXCEPT ![ref[r]] = @ + units[r]]
    /\ UNCHANGED <<kind, saved, session, ref, units, again, sig, seen, books>>

(* ... or refused with 402; the gateway's client then buys what is needed  *)
(* and tries again, once.                                                  *)
PaymentRequired(r) ==
    /\ Go(r, "using", IF Gateway /\ ~again[r] THEN "checking" ELSE "ended")
    /\ ~Covered(ref[r], units[r])
    /\ again' = [again EXCEPT ![r] = TRUE]
    /\ UNCHANGED <<kind, saved, session, ref, units, sig, server, books>>

(* A call throws, or the run is killed; the transaction of openSession may *)
(* settle all the same, and a request that was sent may arrive.            *)
Fail(r) ==
    /\ \/ Go(r, "opening", "adrift")
       \/ Go(r, "posting", "sent")
       \/ Go(r, "using", "asked")
       \/ \E step \in Steps \ (Ends \cup {"new"}) : Go(r, step, "ended")
    /\ cut' = (cut \/ pc[r] = "saving")
    /\ UNCHANGED <<kind, file, session, ref, units, again, sig, server, books>>

(* The user closes the session, with another tool. *)
CloseSession ==
    /\ session
    /\ session' = FALSE
    /\ UNCHANGED <<kind, saved, run, server, books>>
-----------------------------------------------------------------------------
Next ==
    \/ \E r \in Runs :
        \/ \E n \in 1 .. MaxUnits : Buy(r, n) \/ UseCredit(r, n) \/ Chat(r, n)
        \/ SaveRef(r) \/ WriteRef(r) \/ Check(r) \/ OpenSession(r) \/ OpenReturns(r)
        \/ \E q \in Runs : SameTransaction(r, q)
        \/ TopUp(r) \/ Replay(r) \/ CreditAnswered(r)
        \/ Serve(r) \/ PaymentRequired(r) \/ Fail(r)
    \/ CloseSession

Spec == Init /\ [][Next]_vars
-----------------------------------------------------------------------------
(* The type of the state; no account is overdrawn by runs that use it at   *)
(* the same time, and what several runs bought for it adds up.             *)
TypeOK ==
    /\ client \in {"metered", "gateway"}
    /\ alone \in BOOLEAN /\ cut \in BOOLEAN /\ session \in BOOLEAN
    /\ file \in Refs \cup {NoRef}
    /\ pc \in [Runs -> Steps]
    /\ ref \in [Runs -> Refs \cup {NoRef}]
    /\ units \in [Runs -> 0 .. MaxUnits]
    /\ again \in [Runs -> BOOLEAN]
    /\ sig \in [Runs -> Payments]
    /\ remaining \in [Refs -> Nat] /\ used \in [Refs -> Nat]
    /\ seen \subseteq Payments
    /\ paid \in [Payments -> Nat] /\ credited \in [Refs -> Nat]
    /\ \A x \in Refs : credited[x] = remaining[x] + used[x]

(* The server credits only what a session was opened with, although it     *)
(* cannot look at the payment: not for a call that threw, and once when    *)
(* two runs come with the receipt of one transaction.                      *)
CreditIsPaid == Total(credited) <= Total(paid)

(* The gateway's client loses track of its credit only in the moment in    *)
(* which it rewrites its file: if its runs follow each other and none      *)
(* breaks off in that moment, wherever else they do, what was credited is  *)
(* on the account that the file names, or is just being given back to it.  *)
CreditIsReachable ==
    Gateway /\ alone /\ ~cut =>
        \A x \in Refs : credited[x] > 0 =>
            x = file \/ \E r \in Runs : pc[r] = "saving" /\ ref[r] = x
-----------------------------------------------------------------------------
(* The server seen as a CreditLedger. *)
Ledger == INSTANCE CreditLedger WITH
    Accounts <- Refs,
    Receipts <- Payments,
    Prices <- {TopupUnits} \cup 1 .. MaxUnits,
    Costs <- 1 .. MaxUnits,
    accepted <- seen,
    credit <- [x \in Refs |-> remaining[x] + used[x]],
    spent <- used

(* The server keeps the promise of a credit ledger, for runs that overlap, *)
(* share a receipt, break off, or whose requests arrive when they are gone *)
(* - the same promise as the gateway with its holds (OpenRouterCredit).    *)
KeepsLedger == Ledger!Spec
=============================================================================
