----------------------------- MODULE Settlement -----------------------------
(***************************************************************************)
(* What a call that sends a transaction promises, with nothing of how it   *)
(* finds out: no blockhashes, block heights, polls, deadlines or forks.    *)
(*                                                                         *)
(* A call signs one transaction, which other calls may share.  What was    *)
(* sent may settle, also behind the back of a call that threw; what has    *)
(* settled stays so.  A transaction may die, and then it settles no more.  *)
(***************************************************************************)
CONSTANTS
    Calls,
    Transactions,
    Carried,  \* the transactions that a call may sign
    Unsigned  \* what stands for the transaction of a call that has signed none

VARIABLES
    call,     \* "idle", "waiting", "ok", "threw" or "expired"
    signed,   \* the transaction of each call
    sent,     \* transactions that may have reached the ledger
    settled,  \* transactions that have taken effect
    dead      \* transactions that no block can hold any more

vars == <<call, signed, sent, settled, dead>>

Init ==
    /\ call = [c \in Calls |-> "idle"]
    /\ signed = Unsigned
    /\ sent = {}
    /\ settled = {}
    /\ dead = {}

Sign(c, t) ==
    /\ call[c] = "idle"
    /\ t \in Carried[c]
    /\ t \notin dead
    /\ call' = [call EXCEPT ![c] = "waiting"]
    /\ signed' = [signed EXCEPT ![c] = t]
    /\ UNCHANGED <<sent, settled, dead>>

Send(c) ==
    /\ call[c] = "waiting"
    /\ sent' = sent \cup {signed[c]}
    /\ UNCHANGED <<call, signed, settled, dead>>

Answer(c, answer) ==
    /\ call' = [call EXCEPT ![c] = answer]
    /\ UNCHANGED <<signed, settled, dead>>

(* Only a transaction that has settled lets its call return, ...           *)
Return(c) ==
    /\ call[c] = "waiting"
    /\ signed[c] \in settled
    /\ Answer(c, "ok")
    /\ UNCHANGED sent

(* ... and only one that is dead lets its call say that it expired.        *)
Expire(c) ==
    /\ call[c] = "waiting"
    /\ signed[c] \in dead
    /\ Answer(c, "expired")
    /\ UNCHANGED sent

(* A call that throws says nothing of its transaction, which may just have *)
(* been sent.                                                              *)
Throw(c) ==
    /\ call[c] \in {"idle", "waiting"}
    /\ Answer(c, "threw")
    /\ UNCHANGED sent \/ (call[c] = "waiting" /\ sent' = sent \cup {signed[c]})

Settle(t) ==
    /\ t \in sent \ (settled \cup dead)
    /\ settled' = settled \cup {t}
    /\ UNCHANGED <<call, signed, sent, dead>>

Die ==
    /\ dead \subseteq dead'
    /\ UNCHANGED <<call, signed, sent, settled>>

Next ==
    \/ \E c \in Calls :
          \/ \E t \in Transactions : Sign(c, t)
          \/ Send(c) \/ Return(c) \/ Expire(c) \/ Throw(c)
    \/ \E t \in Transactions : Settle(t)
    \/ Die

Spec == Init /\ [][Next]_vars
=============================================================================
