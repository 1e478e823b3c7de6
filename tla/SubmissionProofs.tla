-------------------------- MODULE SubmissionProofs --------------------------
(***************************************************************************)
(* Theorems about Submission, for any number of calls and payloads, with   *)
(* or without the expiry check, and on a ledger with or without forks.     *)
(***************************************************************************)
EXTENDS Submission, TLAPS

(* ExpiredIsFinal rests on why a call was told so: the height it saw is    *)
(* past the last block that can hold its transaction, and so are all later *)
(* heights.                                                                *)
ExpiredIsPast == \A c \in Calls : pc[c] = "expired" => height > LastValid(Tx(c))

IInv == TypeOK /\ OkIsSettled /\ ExpiredIsPast

-----------------------------------------------------------------------------
LEMMA TransactionType ==
    ASSUME TypeOK, NEW c \in Calls
    PROVE  /\ Tx(c) \in Transactions
           /\ height \in Nat /\ LastValid(Tx(c)) \in Nat
BY SubmissionAssumption DEF TypeOK, Tx, Transactions, Heights, LastValid

(* A step of one call that leaves the ledger alone.                        *)
LEMMA QuietCallStep ==
    ASSUME IInv, NEW c \in Calls,
           NEW p \in {"idle", "built", "polling", "checking"} \cup Outcomes,
           p = "ok" => pc[c] # "idle" /\ status[Tx(c)] = "confirmed",
           p = "expired" => height > LastValid(Tx(c)),
           pc' = [pc EXCEPT ![c] = p],
           UNCHANGED <<height, status, blockhash>>,
           checks' \in [Calls -> 0 .. 2], late' \in [Calls -> BOOLEAN]
    PROVE  IInv'
<1>1. TypeOK'
  BY DEF IInv, TypeOK
<1>2. \A d \in Calls : Tx(d)' = Tx(d) /\ pc'[d] = IF d = c THEN p ELSE pc[d]
  BY DEF IInv, TypeOK, Tx
<1>3. OkIsSettled'
  BY <1>2 DEF IInv, OkIsSettled
<1>4. ExpiredIsPast'
  BY <1>2 DEF IInv, ExpiredIsPast, LastValid
<1>5. QED
  BY <1>1, <1>3, <1>4 DEF IInv

(* A call's request reaches the ledger, which may have it already.         *)
LEMMA ReachedStep ==
    ASSUME IInv, NEW c \in Calls, pc[c] = "built", NEW p \in {"polling", "error"},
           pc' = [pc EXCEPT ![c] = p], Reached(Tx(c)),
           UNCHANGED <<height, blockhash, checks, late>>
    PROVE  IInv'
<1>1. Tx(c) \in Transactions
  BY TransactionType DEF IInv
<1>2. TypeOK'
  BY <1>1 DEF IInv, TypeOK, Reached, Statuses, Outcomes
<1>3. \A d \in Calls : Tx(d)' = Tx(d) /\ pc'[d] = IF d = c THEN p ELSE pc[d]
  BY DEF IInv, TypeOK, Tx
<1>4. \A t \in Transactions : status[t] = "confirmed" => status'[t] = "confirmed"
  BY <1>1 DEF IInv, TypeOK, Reached
<1>5. OkIsSettled'
  BY <1>3, <1>4, TransactionType DEF IInv, OkIsSettled
<1>6. ExpiredIsPast'
  BY <1>3 DEF IInv, ExpiredIsPast, LastValid
<1>7. QED
  BY <1>2, <1>5, <1>6 DEF IInv

(* No step of the ledger takes a confirmed transaction back.               *)
LEMMA LedgerKeepsIInv ==
    ASSUME IInv, NEW t \in Transactions, LedgerStep(t)
    PROVE  IInv'
<1> USE DEF LedgerStep, Process, Revert, Confirm, ConfirmError, Fork, Settle
<1>1. /\ status' \in [Transactions -> Statuses]
      /\ UNCHANGED <<height, pc, blockhash, checks, late>>
      /\ \A x \in Transactions : status[x] = "confirmed" => status'[x] = "confirmed"
  BY DEF IInv, TypeOK, Statuses
<1>2. \A d \in Calls : Tx(d)' = Tx(d)
  BY <1>1 DEF Tx
<1>3. TypeOK'
  BY <1>1 DEF IInv, TypeOK
<1>4. OkIsSettled'
  BY <1>1, <1>2, TransactionType DEF IInv, OkIsSettled
<1>5. ExpiredIsPast'
  BY <1>1, <1>2 DEF IInv, ExpiredIsPast, LastValid
<1>6. QED
  BY <1>3, <1>4, <1>5 DEF IInv

LEMMA CallKeepsIInv ==
    ASSUME IInv, NEW c \in Calls, CallStep(c) \/ Throw(c) \/ Deadline(c)
    PROVE  IInv'
<1>1. /\ TypeOK /\ checks[c] \in 0 .. 2
      /\ checks \in [Calls -> 0 .. 2] /\ late \in [Calls -> BOOLEAN]
  BY DEF IInv, TypeOK
<1>2. CASE Build(c)
  <2>1. TypeOK'
    BY <1>1, <1>2 DEF Build, TypeOK
  <2>2. \A d \in Calls : /\ d # c => Tx(d)' = Tx(d) /\ pc'[d] = pc[d]
                         /\ pc'[c] = "built"
    BY <1>1, <1>2 DEF Build, TypeOK, Tx
  <2>3. OkIsSettled'
    BY <1>2, <2>2 DEF IInv, OkIsSettled, Build
  <2>4. ExpiredIsPast'
    BY <1>2, <2>2 DEF IInv, ExpiredIsPast, Build, LastValid
  <2>5. QED
    BY <2>1, <2>3, <2>4 DEF IInv
<1>3. CASE Send(c)
  BY <1>3, ReachedStep DEF Send
<1>4. CASE SeeError(c)
  BY <1>1, <1>4, QuietCallStep DEF SeeError, Outcomes
<1>5. CASE SeeSettled(c)
  BY <1>1, <1>5, QuietCallStep DEF SeeSettled, Settled, Polls, Outcomes
<1>6. CASE SeeUndecided(c)
  <2> DEFINE n == NextCheck(checks[c])
             p == IF ExpiryCheck /\ n = 0 /\ NoStatus(status[Tx(c)]) THEN "checking" ELSE "polling"
  <2>1. n \in 0 .. 2
    BY <1>1 DEF NextCheck
  <2>2. /\ checks' \in [Calls -> 0 .. 2] /\ pc' = [pc EXCEPT ![c] = p]
        /\ UNCHANGED <<height, status, blockhash, late>>
    BY <1>1, <1>6, <2>1 DEF SeeUndecided
  <2>3. p \in {"checking", "polling"}
    OBVIOUS
  <2> HIDE DEF p
  <2>4. QED
    BY <1>1, <2>2, <2>3, QuietCallStep
<1>7. CASE SeeExpired(c)
  BY <1>1, <1>7, QuietCallStep DEF SeeExpired, HasExpired, Outcomes
<1>8. CASE PollAgain(c)
  BY <1>1, <1>8, QuietCallStep DEF PollAgain
<1>9. CASE TimeOut(c)
  BY <1>1, <1>9, QuietCallStep DEF TimeOut, Outcomes
<1>10. CASE Throw(c)
  <2>1. CASE UNCHANGED status
    BY <1>1, <1>10, <2>1, QuietCallStep DEF Throw, Outcomes
  <2>2. CASE pc[c] = "built" /\ Reached(Tx(c))
    BY <1>10, <2>2, ReachedStep DEF Throw
  <2>3. QED
    BY <1>10, <2>1, <2>2 DEF Throw
<1>11. CASE Deadline(c)
  <2>1. TypeOK'
    BY <1>1, <1>11 DEF Deadline, TypeOK
  <2>2. OkIsSettled' /\ ExpiredIsPast'
    BY <1>11 DEF Deadline, IInv, OkIsSettled, ExpiredIsPast, Tx, LastValid
  <2>3. QED
    BY <2>1, <2>2 DEF IInv
<1>12. QED
  BY <1>2, <1>3, <1>4, <1>5, <1>6, <1>7, <1>8, <1>9, <1>10, <1>11 DEF CallStep

-----------------------------------------------------------------------------
(* The invariant. *)

LEMMA InitIInv == Init => IInv
BY SubmissionAssumption
   DEF Init, IInv, TypeOK, OkIsSettled, ExpiredIsPast, Heights, Statuses

LEMMA NextIInv == IInv /\ [Next]_vars => IInv'
<1> SUFFICES ASSUME IInv, [Next]_vars
             PROVE  IInv'
  OBVIOUS
<1>1. CASE Advance
  <2>1. height \in Nat /\ MaxHeight \in Nat /\ height' \in Heights /\ height' > height
    BY <1>1, SubmissionAssumption DEF Advance, IInv, TypeOK, Heights
  <2>2. TypeOK'
    BY <1>1, <2>1 DEF Advance, IInv, TypeOK
  <2>3. OkIsSettled'
    BY <1>1 DEF Advance, IInv, OkIsSettled, Tx
  <2>4. ExpiredIsPast'
    <3>1. \A c \in Calls : LastValid(Tx(c))' = LastValid(Tx(c)) /\ LastValid(Tx(c)) \in Nat
      BY <1>1, TransactionType DEF Advance, IInv, Tx, LastValid
    <3>2. QED
      BY <1>1, <2>1, <3>1 DEF Advance, IInv, ExpiredIsPast
  <2>5. QED
    BY <2>2, <2>3, <2>4 DEF IInv
<1>2. CASE UNCHANGED vars
  BY <1>2 DEF vars, IInv, TypeOK, OkIsSettled, ExpiredIsPast, Tx, LastValid
<1>3. QED
  BY <1>1, <1>2, LedgerKeepsIInv, CallKeepsIInv DEF Next

(* Once a call has been told "expired", its transaction can settle no      *)
(* more, because a block that could hold it would have to be older.        *)
LEMMA ExpiryStep ==
    ASSUME IInv, [Next]_vars
    PROVE  NothingAfterExpiry
<1> SUFFICES ASSUME NEW c \in Calls, pc[c] = "expired", ~Final(Tx(c))
             PROVE  ~Final(Tx(c))'
  BY DEF NothingAfterExpiry
<1>1. /\ TypeOK /\ Tx(c) \in Transactions
      /\ height \in Nat /\ LastValid(Tx(c)) \in Nat /\ height > LastValid(Tx(c))
  BY TransactionType DEF IInv, ExpiredIsPast
<1>2. Tx(c)' = Tx(c)
  <2>1. blockhash' = blockhash \/ \E d \in Calls : Build(d)
    BY DEF Next, Advance, LedgerStep, Process, Revert, Confirm, ConfirmError, Fork, Settle,
           CallStep, Send, SeeError, SeeSettled, SeeUndecided, SeeExpired, PollAgain,
           TimeOut, Throw, Deadline, vars
  <2>2. blockhash'[c] = blockhash[c]
    BY <1>1, <2>1 DEF Build, TypeOK
  <2>3. QED
    BY <2>2 DEF Tx
<1>3. status'[Tx(c)] \notin {"confirmed", "failed"}
  <2>1. CASE status' = status
    BY <2>1 DEF Final
  <2>2. ASSUME NEW d \in Calls, Reached(Tx(d))
        PROVE  status'[Tx(c)] \notin {"confirmed", "failed"}
    BY <1>1, <2>2, TransactionType DEF Reached, Final, TypeOK
  <2>3. ASSUME NEW t \in Transactions, LedgerStep(t)
        PROVE  status'[Tx(c)] \notin {"confirmed", "failed"}
    <3>1. CASE t = Tx(c)
      BY <1>1, <2>3, <3>1
         DEF LedgerStep, Process, Revert, Confirm, ConfirmError, Fork, Settle, TypeOK
    <3>2. CASE t # Tx(c)
      BY <1>1, <2>3, <3>2
         DEF LedgerStep, Process, Revert, Confirm, ConfirmError, Fork, Settle, TypeOK, Final
    <3>3. QED
      BY <3>1, <3>2
  <2>4. QED
    BY <2>1, <2>2, <2>3
       DEF Next, Advance, CallStep, Build, Send, SeeError, SeeSettled, SeeUndecided,
           SeeExpired, PollAgain, TimeOut, Throw, Deadline, vars
<1>4. QED
  BY <1>2, <1>3 DEF Final

-----------------------------------------------------------------------------
(* The state keeps its type. *)
THEOREM SubmissionTypeCorrect == Spec => []TypeOK
<1>1. IInv => TypeOK
  BY DEF IInv
<1>2. QED
  BY <1>1, InitIInv, NextIInv, PTL DEF Spec

(* A call that returns normally has settled for good, forks or not.        *)
THEOREM OkSettled == Spec => []OkIsSettled
<1>1. IInv => OkIsSettled
  BY DEF IInv
<1>2. QED
  BY <1>1, InitIInv, NextIInv, PTL DEF Spec

(* A transaction that had not settled when its caller was told "expired"   *)
(* never will.                                                             *)
THEOREM ExpiryIsFinal == Spec => ExpiredIsFinal
<1>1. IInv /\ [Next]_vars => [NothingAfterExpiry]_vars
  BY ExpiryStep
<1>2. QED
  BY <1>1, InitIInv, NextIInv, PTL DEF Spec, ExpiredIsFinal

-----------------------------------------------------------------------------
(* The promise of Settlement. *)

(* What a step of one call that leaves the ledger and the signatures alone *)
(* is to Settlement.                                                       *)
LEMMA QuietCallView ==
    ASSUME TypeOK, NEW c \in Calls, NEW p, pc' = [pc EXCEPT ![c] = p]
    PROVE  [d \in Calls |-> Stage(pc[d])]'
              = [[d \in Calls |-> Stage(pc[d])] EXCEPT ![c] = Stage(p)]
<1>1. \A d \in Calls : pc'[d] = IF d = c THEN p ELSE pc[d]
  BY DEF TypeOK
<1>2. \A d \in Calls : Stage(pc[d])' = IF d = c THEN Stage(p) ELSE Stage(pc[d])
  BY <1>1 DEF Stage
<1>3. QED
  BY <1>2

LEMMA QuietLedgerView ==
    ASSUME UNCHANGED <<height, status, blockhash>>
    PROVE  UNCHANGED <<[d \in Calls |-> Tx(d)],
                       {t \in Transactions : status[t] # "unsent"},
                       {t \in Transactions : status[t] = "confirmed"},
                       {t \in Transactions : HasExpired(t)}>>
BY DEF Tx, HasExpired, LastValid

(* A request that reaches the ledger is one more transaction that was      *)
(* sent, or one that was sent before.                                      *)
LEMMA ReachedView ==
    ASSUME TypeOK, NEW c \in Calls, Reached(Tx(c)), UNCHANGED <<height, blockhash>>
    PROVE  /\ {t \in Transactions : status[t] # "unsent"}'
                 = {t \in Transactions : status[t] # "unsent"} \cup {Tx(c)}
           /\ UNCHANGED <<[d \in Calls |-> Tx(d)],
                           {t \in Transactions : status[t] = "confirmed"},
                           {t \in Transactions : HasExpired(t)}>>
<1>1. Tx(c) \in Transactions
  BY TransactionType
<1>2. \A t \in Transactions :
         status'[t] = IF t = Tx(c) /\ status[t] = "unsent" THEN "pending" ELSE status[t]
  BY <1>1 DEF TypeOK, Reached
<1>3. \A t \in Transactions : (status[t] = "confirmed")' <=> status[t] = "confirmed"
  BY <1>2
<1>4. \A t \in Transactions :
         (status[t] # "unsent")' <=> status[t] # "unsent" \/ t = Tx(c)
  BY <1>2
<1>5. UNCHANGED <<[d \in Calls |-> Tx(d)], {t \in Transactions : HasExpired(t)}>>
  BY DEF Tx, HasExpired, LastValid
<1>6. QED
  BY <1>1, <1>3, <1>4, <1>5

(* Every step of a call is a step of Settlement or is hidden from it.      *)
LEMMA CallStepIsPromised ==
    ASSUME IInv, NEW c \in Calls, CallStep(c) \/ Throw(c) \/ Deadline(c)
    PROVE  [Promise!Next]_(Promise!vars)
<1>1. /\ TypeOK /\ Tx(c) \in Transactions
      /\ height \in Nat /\ LastValid(Tx(c)) \in Nat
      /\ \A p : Stage(p) = CASE p \in {"built", "polling", "checking"} -> "waiting"
                              [] p \in {"failed", "timeout", "error"} -> "threw"
                              [] OTHER -> p
  BY TransactionType DEF IInv, Stage
<1>2. ASSUME NEW p \in {"failed", "timeout", "error"},
             pc[c] \in {"idle", "built", "polling", "checking"},
             pc' = [pc EXCEPT ![c] = p], UNCHANGED <<height, status, blockhash>>
      PROVE  Promise!Throw(c)
  <2>1. Stage(pc[c]) \in {"idle", "waiting"} /\ Stage(p) = "threw"
    BY <1>1, <1>2
  <2>2. QED
    BY <1>1, <1>2, <2>1, QuietCallView, QuietLedgerView DEF Promise!Throw, Promise!Answer
<1>3. ASSUME NEW p \in {"polling", "checking"}, pc[c] \in {"built", "polling", "checking"},
             pc' = [pc EXCEPT ![c] = p], UNCHANGED <<height, status, blockhash>>
      PROVE  UNCHANGED Promise!vars
  <2>1. Stage(p) = Stage(pc[c])
    BY <1>1, <1>3
  <2>2. [d \in Calls |-> Stage(pc[d])]' = [d \in Calls |-> Stage(pc[d])]
    BY <1>1, <1>3, <2>1, QuietCallView
  <2>3. QED
    BY <1>3, <2>2, QuietLedgerView DEF Promise!vars
<1>4. CASE Build(c)
  <2> DEFINE t == <<Payload[c], height>>
  <2>1. t \in Transactions /\ t[1] = Payload[c] /\ ~HasExpired(t)
    BY <1>1, SubmissionAssumption DEF TypeOK, Transactions, HasExpired, LastValid
  <2>2. [d \in Calls |-> Tx(d)]' = [[d \in Calls |-> Tx(d)] EXCEPT ![c] = t]
    BY <1>1, <1>4 DEF Build, TypeOK, Tx
  <2>3. /\ UNCHANGED {x \in Transactions : status[x] # "unsent"}
        /\ UNCHANGED {x \in Transactions : status[x] = "confirmed"}
        /\ UNCHANGED {x \in Transactions : HasExpired(x)}
    BY <1>4 DEF Build, HasExpired, LastValid
  <2>4. pc[c] = "idle" /\ pc' = [pc EXCEPT ![c] = "built"]
    BY <1>4 DEF Build
  <2>5. Stage(pc[c]) = "idle" /\ Stage("built") = "waiting"
    BY <1>1, <2>4
  <2>6. Promise!Sign(c, t)
    BY <1>1, <2>1, <2>2, <2>3, <2>4, <2>5, QuietCallView DEF Promise!Sign
  <2>7. QED
    BY <2>1, <2>6 DEF Promise!Next
<1>5. CASE Send(c)
  <2>1. pc[c] = "built" /\ pc' = [pc EXCEPT ![c] = "polling"]
    BY <1>5 DEF Send
  <2>2. Stage(pc[c]) = "waiting" /\ Stage("polling") = "waiting"
    BY <1>1, <2>1
  <2>3. [d \in Calls |-> Stage(pc[d])]' = [d \in Calls |-> Stage(pc[d])]
    BY <1>1, <2>1, <2>2, QuietCallView
  <2>4. Promise!Send(c)
    BY <1>1, <1>5, <2>2, <2>3, ReachedView DEF Send, Promise!Send
  <2>5. QED
    BY <2>4 DEF Promise!Next
<1>6. CASE SeeSettled(c)
  <2>1. /\ pc[c] = "polling" /\ pc' = [pc EXCEPT ![c] = "ok"]
        /\ status[Tx(c)] = "confirmed" /\ UNCHANGED <<height, status, blockhash>>
    BY <1>6 DEF SeeSettled, Polls, Settled
  <2>2. Stage(pc[c]) = "waiting" /\ Stage("ok") = "ok"
    BY <1>1, <2>1
  <2>3. Promise!Return(c)
    BY <1>1, <2>1, <2>2, QuietCallView, QuietLedgerView DEF Promise!Return, Promise!Answer
  <2>4. QED
    BY <2>3 DEF Promise!Next
<1>7. CASE SeeExpired(c)
  <2>1. /\ pc[c] = "checking" /\ pc' = [pc EXCEPT ![c] = "expired"]
        /\ HasExpired(Tx(c)) /\ UNCHANGED <<height, status, blockhash>>
    BY <1>7 DEF SeeExpired
  <2>2. Stage(pc[c]) = "waiting" /\ Stage("expired") = "expired"
    BY <1>1, <2>1
  <2>3. Promise!Expire(c)
    BY <1>1, <2>1, <2>2, QuietCallView, QuietLedgerView DEF Promise!Expire, Promise!Answer
  <2>4. QED
    BY <2>3 DEF Promise!Next
<1>8. CASE Throw(c)
  <2>1. CASE UNCHANGED status
    BY <1>2, <1>8, <2>1 DEF Throw, Promise!Next
  <2>2. CASE pc[c] = "built" /\ Reached(Tx(c))
    <3>1. Stage(pc[c]) = "waiting" /\ Stage("error") = "threw"
      BY <1>1, <2>2
    <3>2. Promise!Throw(c)
      BY <1>1, <1>8, <2>2, <3>1, QuietCallView, ReachedView
         DEF Throw, Promise!Throw, Promise!Answer
    <3>3. QED
      BY <3>2 DEF Promise!Next
  <2>3. QED
    BY <1>8, <2>1, <2>2 DEF Throw
<1>9. CASE SeeError(c) \/ TimeOut(c)
  BY <1>2, <1>9 DEF SeeError, TimeOut, Polls, Promise!Next
<1>10. CASE SeeUndecided(c) \/ PollAgain(c)
  BY <1>3, <1>10 DEF SeeUndecided, PollAgain, Polls
<1>11. CASE Deadline(c)
  <2>1. UNCHANGED <<height, status, pc, blockhash>>
    BY <1>11 DEF Deadline
  <2>2. QED
    BY <2>1, QuietLedgerView DEF Promise!vars, Stage
<1>12. QED
  BY <1>4, <1>5, <1>6, <1>7, <1>8, <1>9, <1>10, <1>11 DEF CallStep

(* A transaction settles when it is confirmed, in a block that may hold    *)
(* it; all else that the ledger does with it is hidden from Settlement.    *)
LEMMA LedgerStepIsPromised ==
    ASSUME IInv, NEW t \in Transactions, LedgerStep(t)
    PROVE  [Promise!Next]_(Promise!vars)
<1>1. /\ TypeOK
      /\ UNCHANGED <<height, pc, blockhash>>
      /\ UNCHANGED <<[d \in Calls |-> Stage(pc[d])], [d \in Calls |-> Tx(d)],
                      {x \in Transactions : HasExpired(x)}>>
  BY DEF IInv, LedgerStep, Process, Revert, Confirm, ConfirmError, Fork, Settle,
         Tx, HasExpired, LastValid
<1>2. \A x \in Transactions : (status[x] # "unsent")' <=> status[x] # "unsent"
  BY <1>1 DEF TypeOK, LedgerStep, Process, Revert, Confirm, ConfirmError, Fork, Settle
<1>3. CASE Confirm(t)
  <2>1. \A x \in Transactions : (status[x] = "confirmed")' <=> status[x] = "confirmed" \/ x = t
    BY <1>1, <1>3 DEF Confirm, Settle, TypeOK
  <2>2. status[t] = "processed" /\ ~HasExpired(t)
    BY <1>1, <1>3, SubmissionAssumption
       DEF Confirm, Settle, HasExpired, TypeOK, Heights, Transactions, LastValid
  <2>3. Promise!Settle(t)
    BY <1>1, <1>2, <2>1, <2>2 DEF Promise!Settle
  <2>4. QED
    BY <2>3 DEF Promise!Next
<1>4. CASE ~Confirm(t)
  <2>1. \A x \in Transactions : (status[x] = "confirmed")' <=> status[x] = "confirmed"
    BY <1>1, <1>4 DEF TypeOK, LedgerStep, Process, Revert, ConfirmError, Fork, Settle
  <2>2. QED
    BY <1>1, <1>2, <2>1 DEF Promise!vars
<1>5. QED
  BY <1>3, <1>4

-----------------------------------------------------------------------------
(* What callers may conclude from the way their calls end: a call returns  *)
(* only when its transaction has settled, says "expired" only of one that  *)
(* can settle no more, and anything that settles was sent by a call.       *)
THEOREM PromiseKept == Spec => KeepsPromise
<1>1. Init => Promise!Init
  <2> SUFFICES ASSUME Init
               PROVE  Promise!Init
    OBVIOUS
  <2>1. [c \in Calls |-> Stage(pc[c])] = [c \in Calls |-> "idle"]
    BY DEF Init, Stage
  <2>2. [c \in Calls |-> Tx(c)] = [c \in Calls |-> <<Payload[c], 0>>]
    BY DEF Init, Tx
  <2>3. /\ {t \in Transactions : status[t] # "unsent"} = {}
        /\ {t \in Transactions : status[t] = "confirmed"} = {}
    BY DEF Init
  <2>4. {t \in Transactions : HasExpired(t)} = {}
    BY SubmissionAssumption DEF Init, HasExpired, LastValid, Transactions, Heights
  <2>5. QED
    BY <2>1, <2>2, <2>3, <2>4 DEF Promise!Init
<1>2. IInv /\ [Next]_vars => [Promise!Next]_(Promise!vars)
  <2> SUFFICES ASSUME IInv, [Next]_vars
               PROVE  [Promise!Next]_(Promise!vars)
    OBVIOUS
  <2>1. CASE Advance
    <3>1. \A t \in Transactions : HasExpired(t) => HasExpired(t)'
      BY <2>1, SubmissionAssumption
         DEF Advance, IInv, TypeOK, HasExpired, LastValid, Transactions, Heights
    <3>2. UNCHANGED <<[c \in Calls |-> Stage(pc[c])], [c \in Calls |-> Tx(c)],
                      {t \in Transactions : status[t] # "unsent"},
                      {t \in Transactions : status[t] = "confirmed"}>>
      BY <2>1 DEF Advance, Tx
    <3>3. Promise!Die
      BY <3>1, <3>2 DEF Promise!Die
    <3>4. QED
      BY <3>3 DEF Promise!Next
  <2>2. CASE UNCHANGED vars
    BY <2>2, QuietLedgerView DEF vars, Promise!vars
  <2>3. QED
    BY <2>1, <2>2, CallStepIsPromised, LedgerStepIsPromised DEF Next
<1>3. QED
  BY <1>1, <1>2, InitIInv, NextIInv, PTL DEF Spec, KeepsPromise, Promise!Spec
=============================================================================
