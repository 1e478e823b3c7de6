----------------------------- MODULE Submission -----------------------------
(***************************************************************************)
(* Sending a transaction and waiting for its fate: signAndSubmit and       *)
(* confirmSignature of packages/solana/src/engine.ts, and with ExpiryCheck *)
(* FALSE sign_and_submit and confirm of crates/hyperpay/src/engine.rs.     *)
(*                                                                         *)
(* A signature is a function of the message and the key.  Two calls that   *)
(* carry the same payload and were built on the same blockhash are one     *)
(* transaction, so a transaction is <<payload, blockhash>>; a blockhash is *)
(* named by the height it was read at.                                     *)
(***************************************************************************)
EXTENDS Naturals

CONSTANTS
    Calls,        \* calls of signAndSubmit
    Payloads,     \* what the instructions and the fee payer say
    Payload,      \* the payload of each call
    MaxHeight,    \* bound on the block height (of the model, not the code)
    ValidFor,     \* blocks a blockhash stays valid for
    ExpiryCheck,  \* the engine gives up when the blockhash has expired
    Forks         \* a block may be dropped before it is confirmed

ASSUME SubmissionAssumption ==
    /\ Payload \in [Calls -> Payloads]
    /\ MaxHeight \in Nat
    /\ ValidFor \in Nat
    /\ ExpiryCheck \in BOOLEAN
    /\ Forks \in BOOLEAN

Heights == 0 .. MaxHeight
Transactions == Payloads \X Heights

VARIABLES
    height,     \* confirmed block height
    status,     \* of a transaction, in the ledger
    pc,         \* where a call stands, in the end its outcome
    blockhash,  \* what a call was built on
    checks,     \* heightChecks, as far as it matters
    late        \* the call's deadline has passed

vars == <<height, status, pc, blockhash, checks, late>>

Statuses == {"unsent", "pending", "processed", "reverting", "confirmed", "failed"}
Outcomes == {"ok", "failed", "expired", "timeout", "error"}

Tx(c) == <<Payload[c], blockhash[c]>>
LastValid(t) == t[2] + ValidFor
Final(t) == status[t] \in {"confirmed", "failed"}

Init ==
    /\ height = 0
    /\ status = [t \in Transactions |-> "unsent"]
    /\ pc = [c \in Calls |-> "idle"]
    /\ blockhash = [c \in Calls |-> 0]
    /\ checks = [c \in Calls |-> 0]
    /\ late = [c \in Calls |-> FALSE]
-----------------------------------------------------------------------------
(* What getSignatureStatuses makes of a transaction.  An error is reported *)
(* at whatever commitment it was met: status.err is set in "reverting",    *)
(* a failure that is processed but not confirmed, as well as in "failed".  *)

Errored(s) == s \in {"reverting", "failed"}

Settled_Processed(s) == s \in {"processed", "confirmed"}

Settled(s) == s = "confirmed"

NoStatus(s) == s \in {"unsent", "pending"}

NextCheck(n) == (n + 1) % 3

OutOfTime_Never(c) == FALSE

OutOfTime(c) == late[c]

HasExpired_AtOnce(t) == height > t[2]

HasExpired(t) == height > LastValid(t)
-----------------------------------------------------------------------------
(* signAndSubmit *)

(* The blockhash is read and the transaction signed. *)
Build(c) ==
    /\ pc[c] = "idle"
    /\ pc' = [pc EXCEPT ![c] = "built"]
    /\ blockhash' = [blockhash EXCEPT ![c] = height]
    /\ UNCHANGED <<height, status, checks, late>>

Reached(t) ==
    status' = IF status[t] = "unsent" THEN [status EXCEPT ![t] = "pending"] ELSE status

(* A transaction that was sent before is answered with its signature. *)
Send(c) ==
    /\ pc[c] = "built"
    /\ pc' = [pc EXCEPT ![c] = "polling"]
    /\ Reached(Tx(c))
    /\ UNCHANGED <<height, blockhash, checks, late>>

(* Reading the blockhash, sending, or polling throws.  A request whose     *)
(* answer is lost may still have arrived.                                  *)
Throw(c) ==
    /\ pc[c] \in {"idle", "built", "polling"}
    /\ pc' = [pc EXCEPT ![c] = "error"]
    /\ UNCHANGED status \/ (pc[c] = "built" /\ Reached(Tx(c)))
    /\ UNCHANGED <<height, blockhash, checks, late>>
-----------------------------------------------------------------------------
(* confirmSignature.  The deadline is looked at only at the loop's head.   *)

Polls(c) == pc[c] = "polling" /\ ~OutOfTime(c)

SeeError(c) ==
    /\ Polls(c)
    /\ Errored(status[Tx(c)])
    /\ pc' = [pc EXCEPT ![c] = "failed"]
    /\ UNCHANGED <<height, status, blockhash, checks, late>>

SeeSettled(c) ==
    /\ Polls(c)
    /\ ~Errored(status[Tx(c)])
    /\ Settled(status[Tx(c)])
    /\ pc' = [pc EXCEPT ![c] = "ok"]
    /\ UNCHANGED <<height, status, blockhash, checks, late>>

(* Every third undecided answer that shows no status at all is followed by *)
(* a look at the block height.                                             *)
SeeUndecided(c) ==
    LET s == status[Tx(c)]
        n == NextCheck(checks[c])
    IN  /\ Polls(c)
        /\ ~Errored(s) /\ ~Settled(s)
        /\ checks' = [checks EXCEPT ![c] = n]
        /\ pc' = [pc EXCEPT ![c] =
                    IF ExpiryCheck /\ n = 0 /\ NoStatus(s) THEN "checking" ELSE "polling"]
        /\ UNCHANGED <<height, status, blockhash, late>>

SeeExpired(c) ==
    /\ pc[c] = "checking"
    /\ HasExpired(Tx(c))
    /\ pc' = [pc EXCEPT ![c] = "expired"]
    /\ UNCHANGED <<height, status, blockhash, checks, late>>

(* Not expired, or the height could not be read (it then counts as 0). *)
PollAgain(c) ==
    /\ pc[c] = "checking"
    /\ pc' = [pc EXCEPT ![c] = "polling"]
    /\ UNCHANGED <<height, status, blockhash, checks, late>>

TimeOut(c) ==
    /\ pc[c] = "polling"
    /\ OutOfTime(c)
    /\ pc' = [pc EXCEPT ![c] = "timeout"]
    /\ UNCHANGED <<height, status, blockhash, checks, late>>

(* Sixty seconds have passed since the first poll. *)
Deadline(c) ==
    /\ pc[c] \in {"polling", "checking"}
    /\ ~late[c]
    /\ late' = [late EXCEPT ![c] = TRUE]
    /\ UNCHANGED <<height, status, pc, blockhash, checks>>
-----------------------------------------------------------------------------
(* The ledger.  Only a block no higher than LastValid can hold t; a node   *)
(* may report the height of a block before the statuses in it.             *)

Settle(t, from, to) ==
    /\ status[t] \in from
    /\ height <= LastValid(t)
    /\ status' = [status EXCEPT ![t] = to]
    /\ UNCHANGED <<height, pc, blockhash, checks, late>>

Process(t) == Settle(t, {"pending"}, "processed")
Revert(t) == Settle(t, {"pending"}, "reverting")
Confirm(t) == Settle(t, {"processed"}, "confirmed")
ConfirmError(t) == Settle(t, {"reverting"}, "failed")

Fork(t) ==
    /\ Forks
    /\ status[t] \in {"processed", "reverting"}
    /\ status' = [status EXCEPT ![t] = "pending"]
    /\ UNCHANGED <<height, pc, blockhash, checks, late>>

Advance ==
    /\ height < MaxHeight
    /\ height' = height + 1
    /\ UNCHANGED <<status, pc, blockhash, checks, late>>
-----------------------------------------------------------------------------
LedgerStep(t) ==
    Process(t) \/ Revert(t) \/ Confirm(t) \/ ConfirmError(t) \/ Fork(t)

(* What the caller's process does, by itself. *)
CallStep(c) ==
    \/ Build(c) \/ Send(c)
    \/ SeeError(c) \/ SeeSettled(c) \/ SeeUndecided(c)
    \/ SeeExpired(c) \/ PollAgain(c) \/ TimeOut(c)

Next ==
    \/ Advance
    \/ \E t \in Transactions : LedgerStep(t)
    \/ \E c \in Calls : CallStep(c) \/ Throw(c) \/ Deadline(c)

Spec == Init /\ [][Next]_vars

(* The caller's process keeps running, each request is answered in the     *)
(* end, and the clock runs.  Nothing is asked of the ledger: it may never  *)
(* take the transaction, nor advance.                                      *)
Fairness == \A c \in Calls : WF_vars(CallStep(c)) /\ WF_vars(Deadline(c))

FairSpec == Spec /\ Fairness
-----------------------------------------------------------------------------
TypeOK ==
    /\ height \in Heights
    /\ status \in [Transactions -> Statuses]
    /\ pc \in [Calls -> {"idle", "built", "polling", "checking"} \cup Outcomes]
    /\ blockhash \in [Calls -> Heights]
    /\ checks \in [Calls -> 0 .. 2]
    /\ late \in [Calls -> BOOLEAN]

(* A call that returns normally has settled for good: no fork can take the *)
(* transaction back, and it did not fail.  confirmSignature returns on     *)
(* 'confirmed' and 'finalized' only.                                       *)
OkIsSettled == \A c \in Calls : pc[c] = "ok" => status[Tx(c)] = "confirmed"

(* After "expired" nothing changes any more: a transaction that had not    *)
(* settled when the caller was told so never will, so building a new one   *)
(* then cannot pay twice.                                                  *)
NothingAfterExpiry ==
    \A c \in Calls : pc[c] = "expired" /\ ~Final(Tx(c)) => ~Final(Tx(c))'

ExpiredIsFinal == [][NothingAfterExpiry]_vars

(* No call waits forever, even for a transaction the ledger never takes.   *)
EveryCallReturns == \A c \in Calls : pc[c] # "idle" ~> pc[c] \in Outcomes

(* "expired unconfirmed [...] It did not settle.": what confirmSignature   *)
(* says when it gives up on the blockhash.                                 *)
ExpiredMeansNotSettled ==
    \A c \in Calls : pc[c] = "expired" => status[Tx(c)] # "confirmed"
-----------------------------------------------------------------------------
(* Submission seen as a Settlement: what a caller may conclude from the    *)
(* way a call ends.                                                        *)
Stage(p) ==
    CASE p \in {"built", "polling", "checking"} -> "waiting"
      [] p \in {"failed", "timeout", "error"} -> "threw"
      [] OTHER -> p

Promise == INSTANCE Settlement WITH
    Carried <- [c \in Calls |-> {t \in Transactions : t[1] = Payload[c]}],
    Unsigned <- [c \in Calls |-> <<Payload[c], 0>>],
    call <- [c \in Calls |-> Stage(pc[c])],
    signed <- [c \in Calls |-> Tx(c)],
    sent <- {t \in Transactions : status[t] # "unsent"},
    settled <- {t \in Transactions : status[t] = "confirmed"},
    dead <- {t \in Transactions : HasExpired(t)}

(* Polling, expiry and deadlines keep the promise of Settlement: whatever  *)
(* commitment a status has, whatever is forked off and whenever the height *)
(* is read.                                                                *)
KeepsPromise == Promise!Spec
=============================================================================
