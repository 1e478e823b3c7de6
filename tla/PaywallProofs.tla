--------------------------- MODULE PaywallProofs ---------------------------
(***************************************************************************)
(* Theorems about Paywall, for any number of requests, users and           *)
(* instances.  What is known of a charge by itself is taken from           *)
(* SubmissionProofs: each step of a paywall is a step of Submission or     *)
(* leaves it alone.                                                        *)
(***************************************************************************)
EXTENDS Paywall, FiniteSetTheorems, TLAPS

(* The same instance as Net, with the theorems. *)
Sub == INSTANCE SubmissionProofs WITH
    Calls <- Requests, Payloads <- Users, Payload <- UserOf, Forks <- FALSE

-----------------------------------------------------------------------------
(* The theorems of Sub hold because its assumption does. *)
LEMMA SubmissionAssumed == Sub!SubmissionAssumption
BY PaywallAssumption DEF PaywallAssumption, Sub!SubmissionAssumption

(* What Net and Sub define is the same. *)
LEMMA OneNet ==
    /\ Net!Init = Sub!Init
    /\ Net!TypeOK = Sub!TypeOK
    /\ Net!Advance = Sub!Advance
    /\ Net!Transactions = Sub!Transactions
    /\ \A c : Net!Tx(c) = Sub!Tx(c)
BY DEF Net!Init, Sub!Init, Net!TypeOK, Sub!TypeOK, Net!Advance, Sub!Advance,
       Net!Transactions, Sub!Transactions, Net!Heights, Sub!Heights, Net!Tx, Sub!Tx,
       Net!Statuses, Sub!Statuses, Net!Outcomes, Sub!Outcomes

LEMMA OneCall ==
    ASSUME NEW c \in Requests
    PROVE  /\ Net!CallStep(c) => Sub!CallStep(c)
           /\ Net!Throw(c) => Sub!Throw(c)
           /\ Net!Deadline(c) => Sub!Deadline(c)
<1>1. Net!Build(c) => Sub!Build(c)
  BY DEF Net!Build, Sub!Build
<1>2. Net!Send(c) => Sub!Send(c)
  BY OneNet DEF Net!Send, Sub!Send, Net!Reached, Sub!Reached
<1>3. Net!SeeError(c) => Sub!SeeError(c)
  BY OneNet DEF Net!SeeError, Sub!SeeError, Net!Polls, Sub!Polls,
     Net!OutOfTime, Sub!OutOfTime, Net!Errored, Sub!Errored
<1>4. Net!SeeSettled(c) => Sub!SeeSettled(c)
  BY OneNet DEF Net!SeeSettled, Sub!SeeSettled, Net!Polls, Sub!Polls,
     Net!OutOfTime, Sub!OutOfTime, Net!Errored, Sub!Errored, Net!Settled, Sub!Settled
<1>5. Net!SeeUndecided(c) => Sub!SeeUndecided(c)
  BY OneNet DEF Net!SeeUndecided, Sub!SeeUndecided, Net!Polls, Sub!Polls,
     Net!OutOfTime, Sub!OutOfTime, Net!Errored, Sub!Errored, Net!Settled, Sub!Settled,
     Net!NextCheck, Sub!NextCheck, Net!NoStatus, Sub!NoStatus
<1>6. Net!SeeExpired(c) => Sub!SeeExpired(c)
  BY OneNet DEF Net!SeeExpired, Sub!SeeExpired, Net!HasExpired, Sub!HasExpired,
     Net!LastValid, Sub!LastValid
<1>7. Net!PollAgain(c) => Sub!PollAgain(c)
  BY DEF Net!PollAgain, Sub!PollAgain
<1>8. Net!TimeOut(c) => Sub!TimeOut(c)
  BY DEF Net!TimeOut, Sub!TimeOut, Net!OutOfTime, Sub!OutOfTime
<1>9. Net!Throw(c) => Sub!Throw(c)
  BY OneNet DEF Net!Throw, Sub!Throw, Net!Reached, Sub!Reached
<1>10. Net!Deadline(c) => Sub!Deadline(c)
  BY DEF Net!Deadline, Sub!Deadline
<1>11. QED
  BY <1>1, <1>2, <1>3, <1>4, <1>5, <1>6, <1>7, <1>8, <1>9, <1>10
     DEF Net!CallStep, Sub!CallStep

(* No step of a paywall does to its charges what a charge by itself could  *)
(* not do.                                                                 *)
LEMMA StepIsNetStep == [Next]_vars => [Sub!Next]_netVars
<1> SUFFICES ASSUME [Next]_vars
             PROVE  [Sub!Next]_netVars
  OBVIOUS
<1>1. CASE UNCHANGED netVars
  BY <1>1
<1>2. ASSUME NEW r \in Requests, ChargeStep(r) \/ ChargeThrows(r) \/ ChargeDeadline(r)
      PROVE  Sub!Next
  BY <1>2, OneCall DEF ChargeStep, ChargeThrows, ChargeDeadline, Sub!Next
<1>3. ASSUME NEW t \in Net!Transactions,
             Net!Process(t) \/ Net!Revert(t) \/ Net!Confirm(t) \/ Net!ConfirmError(t)
      PROVE  Sub!Next
  BY <1>3, OneNet
     DEF Net!Process, Net!Revert, Net!Confirm, Net!ConfirmError, Net!Settle, Net!LastValid,
         Sub!Process, Sub!Revert, Sub!Confirm, Sub!ConfirmError, Sub!Settle, Sub!LastValid,
         Sub!LedgerStep, Sub!Next
<1>4. CASE Ledger
  BY <1>3, <1>4, OneNet DEF Ledger, Sub!Next
<1>5. QED
  BY <1>1, <1>2, <1>3, <1>4
     DEF Next, Verdict, Ask, Accept, Refuse, Serve, ChargeFailed, Expire, Restart,
         CloseSession, ChargeLands, ChargeReverts, vars

-----------------------------------------------------------------------------
(* References.  A reference that was accepted is in no store any more, and *)
(* no two instances have handed out the same one; that makes              *)
(* ReferenceUsedOnce inductive.                                            *)

Phases == {"new", "challenged", "charging", "served", "refused", "dropped"}

ShopTypeOK ==
    /\ issued \in Nat
    /\ stale \in Nat
    /\ store \in [Servers -> SUBSET (1 .. issued)]
    /\ phase \in [Requests -> Phases]
    /\ home \in [Requests -> Servers \cup {NoServer}]
    /\ ref \in [Requests -> 0 .. issued]
    /\ \A r \in Requests : phase[r] = "charging" => home[r] \in Servers

StoresApart == \A s, z \in Servers : s # z => store[s] \cap store[z] = {}

UsedIsGone == \A r \in Requests, s \in Servers : ref[r] \notin store[s]

RefInv == ShopTypeOK /\ StoresApart /\ UsedIsGone /\ ReferenceUsedOnce

(* A new challenge, whatever entries the store had lost by then.           *)
LEMMA ChallengeKeepsRefInv ==
    ASSUME RefInv, NEW s \in Servers, NEW r \in Requests, NEW p \in Phases \ {"charging"},
           NEW entries \in SUBSET store[s],
           Challenge(s, entries), Answer(r, p), UNCHANGED <<stale, home, ref>>
    PROVE  RefInv'
<1> USE DEF RefInv, ShopTypeOK, Challenge, Answer, Put
<1>1. /\ issued' = issued + 1 /\ issued' \in Nat
      /\ 1 .. issued \subseteq 1 .. issued' /\ 0 .. issued \subseteq 0 .. issued'
      /\ issued + 1 \in 1 .. issued' /\ issued + 1 \notin 0 .. issued
      /\ 1 .. issued \subseteq 0 .. issued
  OBVIOUS
<1>2. /\ store'[s] \subseteq store[s] \cup {issued + 1}
      /\ \A z \in Servers : z # s => store'[z] = store[z]
      /\ DOMAIN store' = Servers
  OBVIOUS
<1>3. ShopTypeOK'
  <2>1. store' \in [Servers -> SUBSET (1 .. issued')]
    BY <1>1
  <2>2. phase' \in [Requests -> Phases] /\ \A q \in Requests : q # r => phase'[q] = phase[q]
    OBVIOUS
  <2>3. QED
    BY <1>1, <2>1, <2>2
<1>4. \A z \in Servers : issued + 1 \notin store[z]
  BY <1>1
<1>5. StoresApart'
  BY <1>2, <1>4 DEF StoresApart
<1>6. UsedIsGone'
  BY <1>1, <1>2 DEF UsedIsGone
<1>7. ReferenceUsedOnce'
  BY DEF ReferenceUsedOnce
<1>8. QED
  BY <1>3, <1>5, <1>6, <1>7

LEMMA AcceptKeepsRefInv ==
    ASSUME RefInv, NEW r \in Requests, NEW s \in Servers, NEW x \in 1 .. issued,
           Accept(r, s, x)
    PROVE  RefInv'
<1> USE DEF RefInv, ShopTypeOK, Accept, Answer, Taken, Valid
<1>1. /\ x \in store[s] /\ x # 0
      /\ store'[s] = store[s] \ {x}
      /\ \A z \in Servers : z # s => store'[z] = store[z]
      /\ ref'[r] = x
      /\ \A q \in Requests : q # r => ref'[q] = ref[q] /\ ref[q] # x
  BY DEF UsedIsGone
<1>2. ShopTypeOK'
  BY DEF Phases
<1>3. StoresApart'
  BY <1>1 DEF StoresApart
<1>4. UsedIsGone'
  <2>1. \A z \in Servers : x \notin store'[z]
    BY <1>1 DEF StoresApart
  <2>2. QED
    BY <1>1, <2>1 DEF UsedIsGone
<1>5. ReferenceUsedOnce'
  BY <1>1 DEF ReferenceUsedOnce
<1>6. QED
  BY <1>2, <1>3, <1>4, <1>5

LEMMA NextRefInv == RefInv /\ [Next]_vars => RefInv'
<1> SUFFICES ASSUME RefInv, [Next]_vars
             PROVE  RefInv'
  OBVIOUS
<1> USE DEF Phases
<1>1. ASSUME NEW r \in Requests, NEW s \in Servers, Ask(r, s)
      PROVE  RefInv'
  BY <1>1, ChallengeKeepsRefInv DEF Ask
<1>2. ASSUME NEW r \in Requests, NEW s \in Servers, NEW x \in 1 .. issued, Refuse(r, s, x)
      PROVE  RefInv'
  BY <1>2, ChallengeKeepsRefInv DEF Refuse, Taken
<1>3. ASSUME NEW r \in Requests, Serve(r)
      PROVE  RefInv'
  BY <1>3 DEF Serve, Answer, RefInv, ShopTypeOK, StoresApart, UsedIsGone, ReferenceUsedOnce
<1>4. ASSUME NEW r \in Requests, ChargeFailed(r)
      PROVE  RefInv'
  <2>1. home[r] \in Servers
    BY <1>4 DEF ChargeFailed, RefInv, ShopTypeOK
  <2>2. QED
    BY <1>4, <2>1, ChallengeKeepsRefInv DEF ChargeFailed
<1>5. CASE Expire
  BY <1>5 DEF Expire, RefInv, ShopTypeOK, StoresApart, UsedIsGone, ReferenceUsedOnce
<1>6. ASSUME NEW s \in Servers, Restart(s)
      PROVE  RefInv'
  <2> USE DEF Restart, RefInv, ShopTypeOK
  <2>1. /\ store' \in [Servers -> SUBSET (1 .. issued)]
        /\ \A z \in Servers : store'[z] \subseteq store[z]
    BY <1>6
  <2>2. /\ phase' \in [Requests -> Phases]
        /\ \A r \in Requests : phase'[r] = "charging" => phase[r] = "charging"
    BY <1>6
  <2>3. ShopTypeOK'
    BY <1>6, <2>1, <2>2
  <2>4. StoresApart' /\ UsedIsGone'
    BY <1>6, <2>1 DEF StoresApart, UsedIsGone
  <2>5. QED
    BY <1>6, <2>3, <2>4 DEF ReferenceUsedOnce
<1>7. CASE UNCHANGED shopVars
  BY <1>7 DEF shopVars, RefInv, ShopTypeOK, StoresApart, UsedIsGone, ReferenceUsedOnce
<1>8. QED
  BY <1>1, <1>2, <1>3, <1>4, <1>5, <1>6, <1>7, AcceptKeepsRefInv
     DEF Next, Verdict, ChargeStep, ChargeThrows, ChargeDeadline, ChargeLands,
         ChargeReverts, CloseSession, Ledger, vars

(* However requests are repeated and to whatever instance, and whatever    *)
(* restarts, a reference starts one charge at most.                        *)
THEOREM ReferencesUsedOnce == Spec => []ReferenceUsedOnce
<1>1. Init => RefInv
  BY DEF Init, RefInv, ShopTypeOK, StoresApart, UsedIsGone, ReferenceUsedOnce, Phases
<1>2. RefInv => ReferenceUsedOnce
  BY DEF RefInv
<1>3. QED
  BY <1>1, <1>2, NextRefInv, PTL DEF Spec

-----------------------------------------------------------------------------
(* Payment.  What a session has paid is the number of its transactions     *)
(* that the rollup has taken, and who is served has a call that came back. *)

Taking(s) == s \in {"processed", "confirmed"}

PaidFor(u) == {t \in Sub!Transactions : t[1] = u /\ Taking(status[t])}

PaidIsTaken ==
    /\ paid \in [Users -> Nat]
    /\ \A u \in Users : paid[u] = Cardinality(PaidFor(u))

ServedIsOk == \A r \in Requests : phase[r] = "served" => pc[r] = "ok"

PayInv == Sub!IInv /\ PaidIsTaken /\ ServedIsOk /\ ShopTypeOK

LEMMA PaidForIsFinite ==
    ASSUME NEW u \in Users
    PROVE  IsFiniteSet(PaidFor(u))
<1>1. IsFiniteSet(Sub!Heights)
  BY PaywallAssumption, FS_Interval DEF PaywallAssumption, Sub!Heights
<1>2. IsFiniteSet({u} \X Sub!Heights)
  BY <1>1, FS_Singleton, FS_Product
<1>3. PaidFor(u) \subseteq {u} \X Sub!Heights
  BY DEF PaidFor, Sub!Transactions
<1>4. QED
  BY <1>2, <1>3, FS_Subset

(* No other step than ChargeLands lets a transaction in or out.            *)
LEMMA QuietLedger ==
    ASSUME PaidIsTaken, UNCHANGED paid,
           \A t \in Sub!Transactions : Taking(status[t])' <=> Taking(status[t])
    PROVE  PaidIsTaken'
<1>1. \A u \in Users : PaidFor(u)' = PaidFor(u)
  BY DEF PaidFor, Sub!Transactions, Sub!Heights
<1>2. QED
  BY <1>1 DEF PaidIsTaken

LEMMA LandingIsPaid ==
    ASSUME PayInv, NEW t \in Sub!Transactions, ChargeLands(t)
    PROVE  PaidIsTaken'
<1> DEFINE w == t[1]
<1>1. /\ w \in Users /\ paid \in [Users -> Nat]
      /\ status \in [Sub!Transactions -> Sub!Statuses]
  BY DEF PayInv, PaidIsTaken, Sub!Transactions, Sub!IInv, Sub!TypeOK
<1>2. /\ status[t] = "pending"
      /\ status' = [status EXCEPT ![t] = "processed"]
      /\ paid' = [paid EXCEPT ![w] = @ + 1]
  BY DEF ChargeLands, Net!Process, Net!Settle
<1>3. PaidFor(w)' = PaidFor(w) \cup {t} /\ t \notin PaidFor(w)
  BY <1>1, <1>2 DEF PaidFor, Taking, Sub!Transactions, Sub!Heights
<1>4. Cardinality(PaidFor(w)') = Cardinality(PaidFor(w)) + 1
  BY <1>1, <1>3, PaidForIsFinite, FS_AddElement
<1>5. \A u \in Users : u # w => PaidFor(u)' = PaidFor(u)
  BY <1>1, <1>2 DEF PaidFor, Taking, Sub!Transactions, Sub!Heights
<1>6. QED
  BY <1>1, <1>2, <1>4, <1>5 DEF PayInv, PaidIsTaken

(* Steps of the calls: only requests in charging, and no payment.          *)
LEMMA CallKeepsPayment ==
    ASSUME PayInv, NEW r \in Requests, phase[r] = "charging",
           Net!CallStep(r) \/ Net!Throw(r) \/ Net!Deadline(r),
           UNCHANGED <<shopVars, bankVars>>
    PROVE  PaidIsTaken' /\ ServedIsOk'
<1>1. /\ Sub!TypeOK
      /\ pc \in [Requests -> {"idle", "built", "polling", "checking"} \cup Sub!Outcomes]
  BY DEF PayInv, Sub!IInv, Sub!TypeOK
<1> USE DEF Net!CallStep, Net!Build, Net!Send, Net!SeeError, Net!SeeSettled,
            Net!SeeUndecided, Net!SeeExpired, Net!PollAgain, Net!TimeOut, Net!Throw,
            Net!Deadline
<1>2. UNCHANGED status \/ Net!Reached(Net!Tx(r))
  OBVIOUS
<1>3. \A t \in Sub!Transactions : Taking(status[t])' <=> Taking(status[t])
  BY <1>1, <1>2 DEF Net!Reached, Taking, Sub!TypeOK
<1>4. \A q \in Requests : q # r => pc'[q] = pc[q]
  BY <1>1
<1>5. ServedIsOk'
  BY <1>4 DEF ServedIsOk, PayInv, shopVars
<1>6. QED
  BY <1>3, <1>5, QuietLedger DEF PayInv, bankVars

LEMMA NextPayInv == PayInv /\ RefInv /\ [Next]_vars => PayInv'
<1> SUFFICES ASSUME PayInv, RefInv, [Next]_vars
             PROVE  PayInv'
  OBVIOUS
<1>1. Sub!IInv' /\ ShopTypeOK'
  BY StepIsNetStep, Sub!NextIInv, NextRefInv, SubmissionAssumed
     DEF netVars, Sub!vars, PayInv, RefInv
<1> SUFFICES PaidIsTaken' /\ ServedIsOk'
  BY <1>1 DEF PayInv
<1>2. /\ phase \in [Requests -> Phases]
      /\ pc \in [Requests -> {"idle", "built", "polling", "checking"} \cup Sub!Outcomes]
  BY DEF PayInv, ShopTypeOK, Sub!IInv, Sub!TypeOK
<1>3. UNCHANGED <<bankVars, netVars>> => PaidIsTaken'
  BY QuietLedger DEF PayInv, bankVars, netVars
<1>4. ASSUME NEW r \in Requests, NEW s \in Servers, NEW x \in 1 .. issued,
             Accept(r, s, x) \/ Refuse(r, s, x)
      PROVE  PaidIsTaken' /\ ServedIsOk'
  BY <1>2, <1>3, <1>4 DEF Accept, Refuse, Answer, netVars, PayInv, ServedIsOk
<1>5. ASSUME NEW r \in Requests, NEW s \in Servers, Ask(r, s)
      PROVE  PaidIsTaken' /\ ServedIsOk'
  BY <1>2, <1>3, <1>5 DEF Ask, Answer, netVars, PayInv, ServedIsOk
<1>6. ASSUME NEW r \in Requests, Serve(r) \/ ChargeFailed(r)
      PROVE  PaidIsTaken' /\ ServedIsOk'
  BY <1>2, <1>3, <1>6 DEF Serve, ChargeFailed, Answer, Paid, netVars, PayInv, ServedIsOk
<1>7. CASE Expire
  BY <1>3, <1>7 DEF Expire, netVars, PayInv, ServedIsOk
<1>8. ASSUME NEW s \in Servers, Restart(s)
      PROVE  PaidIsTaken' /\ ServedIsOk'
  BY <1>2, <1>3, <1>8 DEF Restart, netVars, PayInv, ServedIsOk
<1>9. ASSUME NEW r \in Requests, ChargeStep(r) \/ ChargeThrows(r) \/ ChargeDeadline(r)
      PROVE  PaidIsTaken' /\ ServedIsOk'
  BY <1>9, CallKeepsPayment DEF ChargeStep, ChargeThrows, ChargeDeadline
<1>10. ASSUME NEW t \in Sub!Transactions, ChargeLands(t)
       PROVE  PaidIsTaken' /\ ServedIsOk'
  BY <1>10, LandingIsPaid
     DEF ChargeLands, Net!Process, Net!Settle, shopVars, PayInv, ServedIsOk
<1>11. ASSUME NEW t \in Sub!Transactions,
              ChargeReverts(t) \/ Net!Confirm(t) \/ Net!ConfirmError(t),
              UNCHANGED <<shopVars, bankVars>>
       PROVE  PaidIsTaken' /\ ServedIsOk'
  <2>1. \A z \in Sub!Transactions : Taking(status[z])' <=> Taking(status[z])
    BY <1>11 DEF ChargeReverts, Net!Revert, Net!Confirm, Net!ConfirmError, Net!Settle,
       Taking, PayInv, Sub!IInv, Sub!TypeOK
  <2>2. UNCHANGED pc
    BY <1>11 DEF ChargeReverts, Net!Revert, Net!Confirm, Net!ConfirmError, Net!Settle
  <2>3. QED
    BY <1>11, <2>1, <2>2, QuietLedger DEF shopVars, bankVars, PayInv, ServedIsOk
<1>12. ASSUME Net!Advance, UNCHANGED <<shopVars, bankVars>>
       PROVE  PaidIsTaken' /\ ServedIsOk'
  BY <1>12, QuietLedger DEF Net!Advance, shopVars, bankVars, PayInv, ServedIsOk
<1>13. ASSUME NEW u \in Users, CloseSession(u)
       PROVE  PaidIsTaken' /\ ServedIsOk'
  BY <1>13, QuietLedger DEF CloseSession, shopVars, netVars, PayInv, ServedIsOk
<1>14. CASE UNCHANGED vars
  BY <1>3, <1>14 DEF vars, shopVars, netVars, PayInv, ServedIsOk
<1>15. QED
  BY <1>4, <1>5, <1>6, <1>7, <1>8, <1>9, <1>10, <1>11, <1>12, <1>13, <1>14, OneNet
     DEF Next, Verdict, Ledger, ChargeReverts

(* Whoever is served waited for a transaction that settled, and the        *)
(* user's session has paid for each such transaction.                      *)
THEOREM NothingIsFree == Spec => []ServedIsSettled
<1>1. Init => PayInv /\ RefInv
  <2> SUFFICES ASSUME Init
               PROVE  PayInv /\ RefInv
    OBVIOUS
  <2>1. RefInv
    BY DEF Init, RefInv, ShopTypeOK, StoresApart, UsedIsGone, ReferenceUsedOnce, Phases
  <2>2. Sub!IInv
    BY Sub!InitIInv, OneNet, SubmissionAssumed DEF Init
  <2>3. \A u \in Users : PaidFor(u) = {}
    BY OneNet DEF Init, Net!Init, PaidFor, Taking
  <2>4. PaidIsTaken
    BY <2>3, FS_EmptySet DEF Init, PaidIsTaken
  <2>5. QED
    BY <2>1, <2>2, <2>4 DEF Init, PayInv, RefInv, ServedIsOk
<1>2. PayInv => ServedIsSettled
  <2> SUFFICES ASSUME PayInv, NEW u \in Users
               PROVE  LET mine == {r \in Served : UserOf[r] = u}
                      IN  /\ \A r \in mine : status[Net!Tx(r)] = "confirmed"
                          /\ Cardinality({Net!Tx(r) : r \in mine}) <= paid[u]
    BY DEF ServedIsSettled
  <2> DEFINE mine == {r \in Served : UserOf[r] = u}
             waited == {Net!Tx(r) : r \in mine}
  <2>1. \A r \in mine : /\ status[Net!Tx(r)] = "confirmed"
                        /\ Net!Tx(r) \in PaidFor(u)
    <3> SUFFICES ASSUME NEW r \in mine
                 PROVE  status[Net!Tx(r)] = "confirmed" /\ Net!Tx(r) \in PaidFor(u)
      OBVIOUS
    <3>1. r \in Requests /\ pc[r] = "ok" /\ Sub!Tx(r) = Net!Tx(r) /\ Sub!Tx(r)[1] = u
      BY OneNet DEF PayInv, ServedIsOk, Served, Sub!Tx
    <3>2. Sub!Tx(r) \in Sub!Transactions
      BY <3>1, PaywallAssumption
         DEF PayInv, Sub!IInv, Sub!TypeOK, Sub!Tx, Sub!Transactions, PaywallAssumption
    <3>3. QED
      BY <3>1, <3>2 DEF PayInv, Sub!IInv, Sub!OkIsSettled, PaidFor, Taking
  <2>2. waited \subseteq PaidFor(u)
    BY <2>1
  <2>3. Cardinality(waited) <= Cardinality(PaidFor(u))
    BY <2>2, PaidForIsFinite, FS_Subset
  <2>4. QED
    BY <2>1, <2>3 DEF PayInv, PaidIsTaken
<1>3. QED
  BY <1>1, <1>2, NextPayInv, NextRefInv, PTL DEF Spec

(* The charges of a paywall are calls of Submission and keep its promise:  *)
(* verify may take the way a charge ended for what Settlement says of it,  *)
(* also after the instance that waited for it is gone.                     *)
THEOREM ChargesKeepPromise == Spec => Sub!KeepsPromise
<1>1. Init => Sub!Init
  BY OneNet DEF Init
<1>2. [Next]_vars => [Sub!Next]_(Sub!vars)
  BY StepIsNetStep DEF Sub!vars, netVars
<1>3. Spec => Sub!Spec
  BY <1>1, <1>2, PTL DEF Spec, Sub!Spec
<1>4. QED
  BY <1>3, SubmissionAssumed, Sub!PromiseKept, PTL
=============================================================================
