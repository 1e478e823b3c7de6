---------------------------- MODULE SpendPolicy ----------------------------
(***************************************************************************)
(* The spend limits of a client: Policy (packages/core/src/policy.ts), its *)
(* file journal (journal-fs.ts), and the order in which HyperPay           *)
(* (packages/core/src/client.ts) checks a payment, submits it and records  *)
(* it.  crates/hyperpay has the same three steps in the same order.        *)
(*                                                                         *)
(* One token, with both caps configured; a payment that the allow or deny  *)
(* list refuses is never begun, like one above a cap.  Submission is seen  *)
(* only through what it can do to the payment: settle and return, settle   *)
(* and report an error, settle after an error was reported, or not settle. *)
(* Calls that pay alike on one blockhash send one transaction, which       *)
(* settles once and answers each of them; whether two calls that pay the   *)
(* same amount do is left open.                                            *)
(***************************************************************************)
EXTENDS Naturals, FiniteSets, Totals

CONSTANTS
    Calls,        \* slots for payments that are under way at one time
    Nobody,       \* no call
    Processes,    \* processes that share the journal file
    ProcessOf,    \* the process a call runs in
    MaxPerTx,
    DailyCap,
    MaxUnits,     \* bound on a single amount
    MaxSettled,   \* bound on all that is ever settled (of the model)
    MaxAgain,     \* bound on what shared transactions answer again (of the model)
    MaxDay,       \* bound on the days the model looks at
    KeptDays,     \* days the journal keeps: 30 in the code
    InitUserPays, \* the token is SOL, which init_user spends too
    Crashes       \* processes may die

ASSUME CallsAssumption ==
    /\ IsFiniteSet(Calls)
    /\ Calls # {}
    /\ Nobody \notin Calls
    /\ ProcessOf \in [Calls -> Processes]

ASSUME CapsAssumption ==
    /\ MaxPerTx \in Nat /\ DailyCap \in Nat /\ MaxUnits \in Nat
    /\ MaxSettled \in Nat /\ MaxAgain \in Nat /\ MaxDay \in Nat
    /\ KeptDays \in Nat \ {0}
    /\ InitUserPays \in BOOLEAN /\ Crashes \in BOOLEAN

Days == 0 .. MaxDay

VARIABLES
    day,       \* the UTC day
    journal,   \* by day, what the file says; 0 where it has no entry
    torn,      \* the file is truncated and not written yet
    pc,        \* where a payment stands
    amount,    \* units of a payment
    busy,      \* the call whose record() is running in a process
    copy,      \* the journal as that record() will write it
    landed,    \* the payments, by amount, that have settled
    settled,   \* history: by day, what was really paid
    again,     \* history: units of calls that another call's payment answered
    recorded   \* history: by day, what record() was called with

vars == <<day, journal, torn, pc, amount, busy, copy, landed, settled, again, recorded>>

Steps == {"idle", "sending", "adrift", "settled", "recording", "writing"}

Init ==
    /\ day = 0
    /\ journal = [d \in Days |-> 0]
    /\ torn = FALSE
    /\ pc = [c \in Calls |-> "idle"]
    /\ amount = [c \in Calls |-> 0]
    /\ busy = [p \in Processes |-> Nobody]
    /\ copy = [p \in Processes |-> [d \in Days |-> 0]]
    /\ landed = {}
    /\ settled = [d \in Days |-> 0]
    /\ again = 0
    /\ recorded = [d \in Days |-> 0]
-----------------------------------------------------------------------------
(* check and record run without an await: within one process nothing else  *)
(* happens between their steps, but another process may.                   *)
Free(c) == busy[ProcessOf[c]] = Nobody

(* A file that cannot be parsed counts as an empty journal. *)
Read == IF torn THEN [d \in Days |-> 0] ELSE journal

WithinTx_Unlimited(n) == TRUE

WithinTx(n) == n <= MaxPerTx

WithinDay_SpentOnly(n) == Read[day] <= DailyCap

WithinDay(n) == Read[day] + n <= DailyCap

(* The last KeptDays days that have an entry. *)
Prune_KeepingOldest(j) ==
    [d \in Days |->
        IF Cardinality({e \in 0 .. d - 1 : j[e] > 0}) < KeptDays THEN j[d] ELSE 0]

Prune(j) ==
    [d \in Days |->
        IF Cardinality({e \in d + 1 .. MaxDay : j[e] > 0}) < KeptDays THEN j[d] ELSE 0]

Recordable_Sent(c) == pc[c] \in {"sending", "settled"}

Recordable(c) == pc[c] = "settled"
-----------------------------------------------------------------------------
Begin(c, n) ==
    /\ pc[c] = "idle"
    /\ pc' = [pc EXCEPT ![c] = "sending"]
    /\ amount' = [amount EXCEPT ![c] = n]
    /\ UNCHANGED <<day, journal, torn, busy, copy, landed, settled, again, recorded>>

(* topUp, openSession, deposit, charge and withdraw: check, then submit. *)
Pay(c, n) ==
    /\ Free(c)
    /\ WithinTx(n)
    /\ WithinDay(n)
    /\ Begin(c, n)

(* initUser submits without a check. *)
InitUser(c, n) ==
    /\ InitUserPays
    /\ Free(c)
    /\ Begin(c, n)

(* The transaction settles, for a caller that is still waiting ... *)
Settle(c) ==
    /\ pc[c] \in {"sending", "adrift"}
    /\ Total(settled) + amount[c] <= MaxSettled
    /\ settled' = [settled EXCEPT ![day] = @ + amount[c]]
    /\ landed' = landed \cup {amount[c]}
    /\ pc' = [pc EXCEPT ![c] = IF pc[c] = "sending" THEN "settled" ELSE "idle"]
    /\ UNCHANGED <<day, journal, torn, amount, busy, copy, again, recorded>>

(* ... or it is the transaction of another call, which pays no second time *)
(* and whose settlement both callers see ...                               *)
SameTransaction(c) ==
    /\ pc[c] = "sending"
    /\ amount[c] \in landed
    /\ again + amount[c] <= MaxAgain
    /\ again' = again + amount[c]
    /\ pc' = [pc EXCEPT ![c] = "settled"]
    /\ UNCHANGED <<day, journal, torn, amount, busy, copy, landed, settled, recorded>>

(* ... or it never settles. *)
Vanish(c) ==
    /\ pc[c] \in {"sending", "adrift"}
    /\ pc' = [pc EXCEPT ![c] = "idle"]
    /\ UNCHANGED <<day, journal, torn, amount, busy, copy, landed, settled, again, recorded>>

(* signAndSubmit throws although the transaction may settle, or has. *)
GiveUp(c) ==
    /\ pc[c] \in {"sending", "settled"}
    /\ pc' = [pc EXCEPT ![c] = IF pc[c] = "sending" THEN "adrift" ELSE "idle"]
    /\ UNCHANGED <<day, journal, torn, amount, busy, copy, landed, settled, again, recorded>>
-----------------------------------------------------------------------------
(* record: read the journal, add, prune, and write the file, which         *)
(* truncates it first.                                                     *)

ReadJournal(c) ==
    /\ Recordable(c)
    /\ Free(c)
    /\ pc' = [pc EXCEPT ![c] = "recording"]
    /\ busy' = [busy EXCEPT ![ProcessOf[c]] = c]
    /\ copy' = [copy EXCEPT ![ProcessOf[c]] = Prune([Read EXCEPT ![day] = @ + amount[c]])]
    /\ recorded' = [recorded EXCEPT ![day] = @ + amount[c]]
    /\ UNCHANGED <<day, journal, torn, amount, landed, settled, again>>

Truncate(c) ==
    /\ pc[c] = "recording"
    /\ torn' = TRUE
    /\ pc' = [pc EXCEPT ![c] = "writing"]
    /\ UNCHANGED <<day, journal, amount, busy, copy, landed, settled, again, recorded>>

WriteJournal(c) ==
    /\ pc[c] = "writing"
    /\ journal' = copy[ProcessOf[c]]
    /\ torn' = FALSE
    /\ pc' = [pc EXCEPT ![c] = "idle"]
    /\ busy' = [busy EXCEPT ![ProcessOf[c]] = Nobody]
    /\ UNCHANGED <<day, amount, copy, landed, settled, again, recorded>>

(* A process dies; its transactions that were sent are still out there. *)
Crash(p) ==
    /\ Crashes
    /\ pc' = [c \in Calls |->
                IF ProcessOf[c] # p THEN pc[c]
                ELSE IF pc[c] \in {"sending", "adrift"} THEN "adrift" ELSE "idle"]
    /\ busy' = [busy EXCEPT ![p] = Nobody]
    /\ UNCHANGED <<day, journal, torn, amount, copy, landed, settled, again, recorded>>

Midnight ==
    /\ day < MaxDay
    /\ day' = day + 1
    /\ UNCHANGED <<journal, torn, pc, amount, busy, copy, landed, settled, again, recorded>>
-----------------------------------------------------------------------------
Amounts == 1 .. MaxUnits

CallStep(c) ==
    \/ \E n \in Amounts : Pay(c, n) \/ InitUser(c, n)
    \/ Settle(c) \/ SameTransaction(c) \/ Vanish(c) \/ GiveUp(c)
    \/ ReadJournal(c) \/ Truncate(c) \/ WriteJournal(c)

Next ==
    \/ \E c \in Calls : CallStep(c)
    \/ \E p \in Processes : Crash(p)
    \/ Midnight

Spec == Init /\ [][Next]_vars
-----------------------------------------------------------------------------
(* Properties. *)

InFlight(c) == pc[c] \in {"sending", "settled", "recording", "writing"}

(* Units that were let through and are neither recorded nor given up.      *)
Outstanding == Total([c \in Calls |-> IF InFlight(c) THEN amount[c] ELSE 0])

(* The most that one checked payment can be. *)
Largest == IF MaxPerTx <= DailyCap THEN MaxPerTx ELSE DailyCap

(* The type of the state; a process that records is in one call of its     *)
(* own, and no amount exceeds the per-transaction cap.                     *)
TypeOK ==
    /\ day \in Days
    /\ journal \in [Days -> Nat]
    /\ torn \in BOOLEAN
    /\ pc \in [Calls -> Steps]
    /\ amount \in [Calls -> Nat]
    /\ \A c \in Calls : InFlight(c) => amount[c] <= Largest
    /\ busy \in [Processes -> Calls \cup {Nobody}]
    /\ copy \in [Processes -> [Days -> Nat]]
    /\ landed \subseteq Nat
    /\ settled \in [Days -> Nat]
    /\ again \in Nat
    /\ recorded \in [Days -> Nat]

(* check sees only what is recorded already, so payments under way at the  *)
(* same time can pass the daily cap together.  In one process the excess   *)
(* is bounded all the same: what today's journal shows and what is still   *)
(* in flight stay within the cap and one largest payment for each other    *)
(* call - with one call at a time, within the cap - also across midnight.  *)
OvershootBounded ==
    journal[day] + Outstanding <= DailyCap + (Cardinality(Calls) - 1) * Largest

(* In one process no record is lost: once record() is done, the journal of *)
(* today shows all that was recorded today, whatever was pruned.           *)
NoLostRecord ==
    (\A c \in Calls : pc[c] \notin {"recording", "writing"})
        => Read[day] = recorded[day]

(* What the journal claims beyond what was paid is what calls recorded     *)
(* that a transaction of another call answered: over all days, with lost   *)
(* updates, torn files, crashes and any number of processes.               *)
JournalNeverOverstates ==
    Total(Read) <= Total(settled) + again
=============================================================================
