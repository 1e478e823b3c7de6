----------------------- MODULE OpenRouterCreditProofs -----------------------
(***************************************************************************)
(* Theorems about the credit ledger, for any accounts, any number of       *)
(* completions at one time, and any prices and holds.                      *)
(***************************************************************************)
EXTENDS OpenRouterCredit, TotalsTheorems

(* What a job's end may have charged: the amounts of ChargedWithinHold.    *)
Due == [j \in Jobs |-> CASE pc[j] = "billed" -> Least(bill[j], hold[j])
                         [] pc[j] = "unpriced" -> hold[j]
                         [] OTHER -> 0]

DueOf(a) == Total([j \in JobsOf(a) |-> Due[j]])

(* Conserved is not inductive: what a job's end gives back is computed     *)
(* from its hold, so the hold must be what is locked, from Lock to the end *)
(* and at no other time.                                                   *)
LockIsHold ==
    \A j \in Jobs :
        locked[j] = IF pc[j] \in {"calling", "pricing"} THEN hold[j] ELSE 0

IInv == TypeOK /\ IsFiniteSet(seen) /\ LockIsHold /\ Conserved /\ ChargedWithinHold

-----------------------------------------------------------------------------
(* Helpers. *)

(* The sum over an account's jobs changes with the job that changes, and   *)
(* for its account only.                                                   *)
LEMMA JobUpdate ==
    ASSUME NEW f \in [Jobs -> Nat], NEW g \in [Jobs -> Nat], NEW j \in Jobs,
           \A i \in Jobs : i # j => g[i] = f[i], NEW a \in Accounts
    PROVE  LET F == Total([i \in JobsOf(a) |-> f[i]])
               G == Total([i \in JobsOf(a) |-> g[i]])
           IN  /\ F \in Nat
               /\ G = IF AccountOf[j] = a THEN F - f[j] + g[j] ELSE F
<1> DEFINE ff == [i \in JobsOf(a) |-> f[i]]
           gg == [i \in JobsOf(a) |-> g[i]]
<1>1. IsFiniteSet(JobsOf(a)) /\ JobsOf(a) \subseteq Jobs
  BY CreditAssumption, FS_Subset DEF JobsOf
<1>2. ff \in [JobsOf(a) -> Nat] /\ gg \in [JobsOf(a) -> Nat]
  BY <1>1
<1>3. Total(ff) \in Nat
  <2> HIDE DEF ff
  <2>1. QED
    BY <1>1, <1>2, TotalType
<1>4. CASE AccountOf[j] = a
  <2>1. j \in JobsOf(a) /\ gg = [ff EXCEPT ![j] = g[j]] /\ ff[j] = f[j] /\ g[j] \in Nat
    BY <1>1, <1>4 DEF JobsOf
  <2>2. Total([ff EXCEPT ![j] = g[j]]) = Total(ff) - ff[j] + g[j]
    <3> HIDE DEF ff
    <3>1. QED
      BY <1>1, <1>2, <2>1, TotalUpdate
  <2>3. QED
    BY <1>3, <1>4, <2>1, <2>2
<1>5. CASE AccountOf[j] # a
  <2>1. gg = ff
    BY <1>1, <1>5 DEF JobsOf
  <2>2. QED
    BY <1>3, <1>5, <2>1
<1>6. QED
  BY <1>4, <1>5

(* The ranges that every step needs.                                       *)
LEMMA DueType ==
    ASSUME TypeOK
    PROVE  /\ Due \in [Jobs -> Nat] /\ locked \in [Jobs -> Nat]
           /\ \A a \in Accounts : Locked(a) \in Nat /\ DueOf(a) \in Nat
<1>1. Due \in [Jobs -> Nat] /\ locked \in [Jobs -> Nat]
  <2>1. \A j \in Jobs : hold[j] \in Nat /\ bill[j] \in Nat /\ Least(bill[j], hold[j]) \in Nat
    BY CreditAssumption DEF TypeOK, Costs, Least
  <2>2. QED
    BY <2>1, CreditAssumption DEF Due, TypeOK
<1>2. ASSUME NEW a \in Accounts
      PROVE  Locked(a) \in Nat /\ DueOf(a) \in Nat
  <2>1. IsFiniteSet(JobsOf(a)) /\ JobsOf(a) \subseteq Jobs
    BY CreditAssumption, FS_Subset DEF JobsOf
  <2> DEFINE l == [i \in JobsOf(a) |-> locked[i]]
             e == [i \in JobsOf(a) |-> Due[i]]
  <2>2. l \in [JobsOf(a) -> Nat] /\ e \in [JobsOf(a) -> Nat]
    BY <1>1, <2>1
  <2>3. Total(l) \in Nat /\ Total(e) \in Nat
    <3> HIDE DEF l, e
    <3>1. QED
      BY <2>1, <2>2, TotalType
  <2>4. QED
    BY <2>3 DEF Locked, DueOf
<1>3. QED
  BY <1>1, <1>2

(* ChargedWithinHold, with the sum named.                                  *)
LEMMA ChargedWithinDue ==
    ChargedWithinHold <=> \A a \in Accounts : charged[a] <= DueOf(a)
<1>1. ASSUME NEW a \in Accounts
      PROVE  [j \in JobsOf(a) |-> CASE pc[j] = "billed" -> Least(bill[j], hold[j])
                                    [] pc[j] = "unpriced" -> hold[j]
                                    [] OTHER -> 0]
             = [j \in JobsOf(a) |-> Due[j]]
  BY DEF Due, JobsOf
<1>2. QED
  BY <1>1 DEF ChargedWithinHold, DueOf

-----------------------------------------------------------------------------
(* One job changes, and moves money between remaining, charged and what it *)
(* holds, of its own account.                                              *)
LEMMA MoneyStep ==
    ASSUME TypeOK, TypeOK', Conserved, ChargedWithinHold, NEW j \in Jobs,
           \A i \in Jobs : i # j => locked'[i] = locked[i] /\ Due'[i] = Due[i],
           \A a \in Accounts : a # AccountOf[j] =>
              remaining'[a] = remaining[a] /\ charged'[a] = charged[a],
           LET a == AccountOf[j]
           IN  /\ remaining'[a] + charged'[a] + locked'[j]
                    = remaining[a] + charged[a] + locked[j]
               /\ charged'[a] - charged[a] <= Due'[j] - Due[j],
           UNCHANGED <<credited, seen>>
    PROVE  Conserved' /\ ChargedWithinHold'
<1>1. /\ Due \in [Jobs -> Nat] /\ locked \in [Jobs -> Nat]
      /\ Due' \in [Jobs -> Nat] /\ locked' \in [Jobs -> Nat]
  BY DueType, CreditAssumption DEF TypeOK, Due, Costs, Least
<1>2. ASSUME NEW a \in Accounts
      PROVE  /\ Locked(a) \in Nat /\ DueOf(a) \in Nat
             /\ Locked(a)' = IF AccountOf[j] = a
                             THEN Locked(a) - locked[j] + locked'[j] ELSE Locked(a)
             /\ DueOf(a)' = IF AccountOf[j] = a
                            THEN DueOf(a) - Due[j] + Due'[j] ELSE DueOf(a)
  <2>1. /\ Locked(a) \in Nat
        /\ Locked(a)' = IF AccountOf[j] = a
                        THEN Locked(a) - locked[j] + locked'[j] ELSE Locked(a)
    <3> DEFINE p == locked
               q == locked'
    <3>1. /\ Locked(a) = Total([i \in JobsOf(a) |-> p[i]])
          /\ Locked(a)' = Total([i \in JobsOf(a) |-> q[i]])
      BY DEF Locked, JobsOf
    <3>2. p \in [Jobs -> Nat] /\ q \in [Jobs -> Nat] /\ \A i \in Jobs : i # j => q[i] = p[i]
      BY <1>1
    <3> HIDE DEF p, q
    <3>3. /\ Total([i \in JobsOf(a) |-> p[i]]) \in Nat
          /\ Total([i \in JobsOf(a) |-> q[i]])
               = IF AccountOf[j] = a
                 THEN Total([i \in JobsOf(a) |-> p[i]]) - p[j] + q[j]
                 ELSE Total([i \in JobsOf(a) |-> p[i]])
      BY <3>2, JobUpdate
    <3>4. QED
      BY <3>1, <3>3 DEF p, q
  <2>2. /\ DueOf(a) \in Nat
        /\ DueOf(a)' = IF AccountOf[j] = a
                       THEN DueOf(a) - Due[j] + Due'[j] ELSE DueOf(a)
    <3> DEFINE p == Due
               q == Due'
    <3>1. /\ DueOf(a) = Total([i \in JobsOf(a) |-> p[i]])
          /\ DueOf(a)' = Total([i \in JobsOf(a) |-> q[i]])
      BY DEF DueOf, JobsOf
    <3>2. p \in [Jobs -> Nat] /\ q \in [Jobs -> Nat] /\ \A i \in Jobs : i # j => q[i] = p[i]
      BY <1>1
    <3> HIDE DEF p, q
    <3>3. /\ Total([i \in JobsOf(a) |-> p[i]]) \in Nat
          /\ Total([i \in JobsOf(a) |-> q[i]])
               = IF AccountOf[j] = a
                 THEN Total([i \in JobsOf(a) |-> p[i]]) - p[j] + q[j]
                 ELSE Total([i \in JobsOf(a) |-> p[i]])
      BY <3>2, JobUpdate
    <3>4. QED
      BY <3>1, <3>3 DEF p, q
  <2>3. QED
    BY <2>1, <2>2
<1>3. \A a \in Accounts : /\ remaining[a] \in Nat /\ remaining'[a] \in Nat
                          /\ charged[a] \in Nat /\ charged'[a] \in Nat
                          /\ credited[a] \in Nat
  BY DEF TypeOK
<1>4. /\ locked[j] \in Nat /\ locked'[j] \in Nat /\ Due[j] \in Nat /\ Due'[j] \in Nat
      /\ AccountOf[j] \in Accounts
  BY <1>1, CreditAssumption
<1>5. Conserved'
  <2>1. ASSUME NEW a \in Accounts
        PROVE  credited'[a] = remaining'[a] + charged'[a] + Locked(a)'
    <3>1. credited[a] = remaining[a] + charged[a] + Locked(a)
      BY DEF Conserved
    <3>2. QED
      BY <1>2, <1>3, <1>4, <3>1
  <2>2. QED
    BY <2>1 DEF Conserved
<1>6. ChargedWithinHold'
  <2>1. ASSUME NEW a \in Accounts
        PROVE  charged'[a] <= DueOf(a)'
    <3>1. charged[a] <= DueOf(a)
      BY ChargedWithinDue
    <3>2. QED
      BY <1>2, <1>3, <1>4, <3>1
  <2>2. QED
    BY <2>1 DEF ChargedWithinHold, DueOf, Due, JobsOf
<1>7. QED
  BY <1>5, <1>6

(* The handler ends.                                                       *)
LEMMA EndStep ==
    ASSUME IInv, NEW j \in Jobs, pc[j] \in {"calling", "pricing"},
           NEW outcome \in Outcomes, NEW debit \in Nat, debit <= hold[j],
           End(j, outcome, debit),
           bill' \in [Jobs -> Costs], tries' \in [Jobs -> 0 .. MaxTries - 1],
           \A i \in Jobs : i # j => bill'[i] = bill[i],
           debit <= CASE outcome = "billed" -> Least(bill'[j], hold[j])
                      [] outcome = "unpriced" -> hold[j]
                      [] OTHER -> 0,
           UNCHANGED <<seen, hold, credited>>
    PROVE  IInv'
<1>1. TypeOK /\ IsFiniteSet(seen) /\ LockIsHold /\ Conserved /\ ChargedWithinHold
  BY DEF IInv
<1> DEFINE a == AccountOf[j]
<1>2. /\ a \in Accounts /\ MaxHold \in Nat
      /\ hold[j] \in 0 .. MaxHold /\ locked[j] = hold[j]
      /\ remaining[a] \in Nat /\ charged[a] \in Nat
  BY <1>1, CreditAssumption DEF TypeOK, LockIsHold
<1>3. /\ remaining' = [remaining EXCEPT ![a] = @ + (hold[j] - debit)]
      /\ charged' = [charged EXCEPT ![a] = @ + debit]
      /\ locked' = [locked EXCEPT ![j] = 0]
      /\ pc' = [pc EXCEPT ![j] = outcome]
  BY <1>2 DEF End, Returned
<1>4. hold[j] - debit \in Nat
  BY <1>2
<1> HIDE DEF a
<1>5. TypeOK'
  BY <1>1, <1>2, <1>3, <1>4 DEF TypeOK
<1>6. LockIsHold'
  BY <1>1, <1>3 DEF LockIsHold, TypeOK, Outcomes
<1>7. Due[j] = 0 /\ debit <= Due'[j] /\ \A i \in Jobs : i # j => Due'[i] = Due[i]
  BY <1>1, <1>3 DEF Due, TypeOK
<1>8. Conserved' /\ ChargedWithinHold'
  <2>1. \A i \in Jobs : i # j => locked'[i] = locked[i]
    BY <1>1, <1>3 DEF TypeOK
  <2>2. \A b \in Accounts : b # a => remaining'[b] = remaining[b] /\ charged'[b] = charged[b]
    BY <1>1, <1>3 DEF TypeOK
  <2>3. remaining'[a] + charged'[a] + locked'[j] = remaining[a] + charged[a] + locked[j]
    <3>1. /\ remaining'[a] = remaining[a] + (hold[j] - debit)
          /\ charged'[a] = charged[a] + debit
          /\ locked'[j] = 0
      BY <1>1, <1>2, <1>3 DEF TypeOK
    <3>2. QED
      BY <1>2, <3>1
  <2>4. charged'[a] - charged[a] <= Due'[j] - Due[j]
    <3>1. charged'[a] = charged[a] + debit
      BY <1>1, <1>2, <1>3 DEF TypeOK
    <3>2. Due'[j] \in Nat
      BY <1>5, DueType, CreditAssumption DEF TypeOK, Due, Costs, Least
    <3>3. QED
      BY <1>2, <1>7, <3>1, <3>2
  <2>5. QED
    BY <1>1, <1>5, <1>7, <2>1, <2>2, <2>3, <2>4, MoneyStep DEF a
<1>9. QED
  BY <1>1, <1>5, <1>6, <1>8 DEF IInv

(* What a completion does before and between: it takes a hold, or nothing. *)
LEMMA IdleStep ==
    ASSUME IInv, NEW j \in Jobs,
           UNCHANGED <<remaining, charged, seen, locked, credited>>,
           TypeOK', LockIsHold',
           \A i \in Jobs : Due'[i] = Due[i]
    PROVE  IInv'
<1>1. Conserved'
  BY DEF IInv, Conserved, Locked
<1>2. ChargedWithinHold'
  <2>1. Due' = Due
    BY DEF Due
  <2>2. \A a \in Accounts : DueOf(a)' = DueOf(a)
    BY <2>1 DEF DueOf, JobsOf
  <2>3. \A a \in Accounts : charged'[a] <= DueOf(a)'
    BY <2>2, ChargedWithinDue DEF IInv
  <2>4. QED
    BY <2>3 DEF ChargedWithinHold, DueOf, Due, JobsOf
<1>3. QED
  BY <1>1, <1>2 DEF IInv

LEMMA LockStep ==
    ASSUME IInv, NEW j \in Jobs, Lock(j)
    PROVE  IInv'
<1> DEFINE a == AccountOf[j]
<1>1. TypeOK /\ IsFiniteSet(seen) /\ LockIsHold /\ Conserved /\ ChargedWithinHold
  BY DEF IInv
<1>2. /\ a \in Accounts /\ MaxHold \in Nat
      /\ hold[j] \in 0 .. MaxHold /\ locked[j] = 0
      /\ remaining[a] \in Nat /\ hold[j] <= remaining[a]
      /\ pc[j] = "estimated"
  BY <1>1, CreditAssumption DEF TypeOK, LockIsHold, Lock, Covers
<1>3. /\ remaining' = [remaining EXCEPT ![a] = @ - hold[j]]
      /\ locked' = [locked EXCEPT ![j] = hold[j]]
      /\ pc' = [pc EXCEPT ![j] = "calling"]
      /\ UNCHANGED <<charged, seen, hold, tries, bill, credited>>
  BY DEF Lock
<1> HIDE DEF a
<1>4. TypeOK'
  BY <1>1, <1>2, <1>3 DEF TypeOK
<1>5. LockIsHold'
  BY <1>1, <1>3 DEF LockIsHold, TypeOK
<1>6. \A i \in Jobs : Due'[i] = Due[i]
  BY <1>1, <1>2, <1>3 DEF Due, TypeOK
<1>7. Conserved' /\ ChargedWithinHold'
  <2>1. \A i \in Jobs : i # j => locked'[i] = locked[i]
    BY <1>1, <1>3 DEF TypeOK
  <2>2. \A b \in Accounts : b # a => remaining'[b] = remaining[b] /\ charged'[b] = charged[b]
    BY <1>1, <1>3 DEF TypeOK
  <2>3. /\ charged'[a] = charged[a] /\ charged[a] \in Nat
        /\ remaining'[a] + charged'[a] + locked'[j] = remaining[a] + charged[a] + locked[j]
    BY <1>1, <1>2, <1>3 DEF TypeOK
  <2>4. charged'[a] - charged[a] <= Due'[j] - Due[j]
    BY <1>1, <1>6, <2>3, DueType
  <2>5. QED
    BY <1>1, <1>3, <1>4, <1>6, <2>1, <2>2, <2>3, <2>4, MoneyStep DEF a
<1>8. QED
  BY <1>1, <1>3, <1>4, <1>5, <1>7 DEF IInv

(* A receipt is credited: once, because seen has it from then on.          *)
LEMMA TopUpStep ==
    ASSUME IInv, NEW a \in Accounts, NEW s \in Signatures, NEW n \in 1 .. MaxCredit,
           TopUp(a, s, n)
    PROVE  IInv'
<1>1. TypeOK /\ IsFiniteSet(seen) /\ LockIsHold /\ Conserved /\ ChargedWithinHold
  BY DEF IInv
<1>2. n \in Nat /\ n <= MaxCredit /\ MaxCredit \in Nat
  BY CreditAssumption
<1>3. TypeOK'
  BY <1>1, <1>2 DEF TopUp, TypeOK
<1>4. IsFiniteSet(seen') /\ Cardinality(seen') = Cardinality(seen) + 1 /\ Cardinality(seen) \in Nat
  BY <1>1, FS_AddElement, FS_CardinalityType DEF TopUp, Fresh
<1>5. LockIsHold'
  BY <1>1 DEF TopUp, LockIsHold
<1>6. ChargedWithinHold'
  BY <1>1 DEF TopUp, ChargedWithinHold
<1>7. Total(credited') <= MaxCredit * Cardinality(seen')
  <2>1. credited \in [Accounts -> Nat] /\ credited[a] + n \in Nat
    BY <1>1, <1>2 DEF TypeOK
  <2>2. /\ Total(credited) \in Nat
        /\ Total([credited EXCEPT ![a] = credited[a] + n])
              = Total(credited) - credited[a] + (credited[a] + n)
    <3> DEFINE p == credited[a] + n
    <3>1. p \in Nat /\ Total(credited) \in Nat
      BY <2>1, CreditAssumption, TotalType
    <3> HIDE DEF p
    <3>2. Total([credited EXCEPT ![a] = p]) = Total(credited) - credited[a] + p
      BY <2>1, <3>1, CreditAssumption, TotalUpdate
    <3>3. QED
      BY <3>1, <3>2 DEF p
  <2>3. Total(credited') = Total(credited) + n
    BY <1>2, <2>1, <2>2 DEF TopUp
  <2>4. Total(credited) <= MaxCredit * Cardinality(seen)
    BY <1>1 DEF Conserved
  <2> DEFINE c == Cardinality(seen)
             t == Total(credited)
  <2>5. c \in Nat /\ t \in Nat /\ t <= MaxCredit * c
    BY <1>4, <2>2, <2>4
  <2> HIDE DEF c, t
  <2>6. t + n <= MaxCredit * (c + 1)
    BY <1>2, <2>5
  <2>7. QED
    BY <1>4, <2>3, <2>6 DEF c, t
<1>8. \A b \in Accounts : credited'[b] = remaining'[b] + charged'[b] + Locked(b)'
  <2>1. ASSUME NEW b \in Accounts
        PROVE  credited'[b] = remaining'[b] + charged'[b] + Locked(b)'
    <3>1. Locked(b)' = Locked(b) /\ Locked(b) \in Nat
      BY <1>1, DueType DEF TopUp, Locked
    <3>2. credited[b] = remaining[b] + charged[b] + Locked(b)
      BY <1>1 DEF Conserved
    <3>3. QED
      BY <1>1, <1>2, <3>1, <3>2 DEF TopUp, TypeOK
  <2>2. QED
    BY <2>1
<1>9. QED
  BY <1>1, <1>3, <1>4, <1>5, <1>6, <1>7, <1>8 DEF IInv, Conserved

-----------------------------------------------------------------------------
(* The invariant. *)

LEMMA InitIInv == Init => IInv
<1> SUFFICES ASSUME Init
             PROVE  IInv
  OBVIOUS
<1>1. TypeOK
  BY CreditAssumption DEF Init, TypeOK, Costs
<1>2. IsFiniteSet(seen) /\ Cardinality(seen) = 0
  BY FS_EmptySet DEF Init
<1>3. LockIsHold
  BY DEF Init, LockIsHold
<1>4. ASSUME NEW a \in Accounts
      PROVE  Locked(a) = 0
  <2> DEFINE l == [i \in JobsOf(a) |-> locked[i]]
  <2>1. IsFiniteSet(JobsOf(a)) /\ l \in [JobsOf(a) -> Nat] /\ \A i \in JobsOf(a) : l[i] = 0
    BY CreditAssumption, FS_Subset DEF JobsOf, Init
  <2>2. Total(l) = 0
    <3> HIDE DEF l
    <3>1. QED
      BY <2>1, TotalZero
  <2>3. QED
    BY <2>2 DEF Locked
<1>5. Total(credited) = 0
  BY CreditAssumption, TotalZero DEF Init
<1>6. Conserved
  BY <1>2, <1>4, <1>5, CreditAssumption DEF Conserved, Init
<1>7. ChargedWithinHold
  <2>1. \A a \in Accounts : charged[a] = 0 /\ DueOf(a) \in Nat
    BY <1>1, DueType DEF Init
  <2>2. QED
    BY <2>1, ChargedWithinDue
<1>8. QED
  BY <1>1, <1>2, <1>3, <1>6, <1>7 DEF IInv

(* One step of a completion, with one case for each way on and each way    *)
(* out.                                                                    *)
LEMMA JobKeepsIInv ==
    ASSUME IInv, NEW j \in Jobs, JobStep(j)
    PROVE  IInv'
<1>1. TypeOK /\ LockIsHold
  BY DEF IInv
<1>2. /\ hold[j] \in 0 .. MaxHold /\ hold[j] \in Nat /\ MaxHold \in Nat /\ MaxCost \in Nat
      /\ bill[j] \in Costs /\ bill[j] \in Nat
      /\ tries[j] \in 0 .. MaxTries - 1 /\ MaxTries \in Nat \ {0}
  BY <1>1, CreditAssumption DEF TypeOK, Costs
<1>3. ASSUME NEW h \in Holds, Estimate(j, h)
      PROVE  IInv'
  <2>1. TypeOK'
    BY <1>1, <1>2, <1>3 DEF TypeOK, Estimate, Holds
  <2>2. LockIsHold'
    BY <1>1, <1>3 DEF LockIsHold, Estimate, TypeOK
  <2>3. \A i \in Jobs : Due'[i] = Due[i]
    BY <1>1, <1>3 DEF Due, Estimate, TypeOK
  <2>4. QED
    BY <1>3, <2>1, <2>2, <2>3, IdleStep DEF Estimate
<1>4. CASE Lock(j)
  BY <1>4, LockStep
<1>5. CASE Refuse(j)
  <2>1. TypeOK'
    BY <1>1, <1>5 DEF TypeOK, Refuse, Outcomes
  <2>2. LockIsHold'
    BY <1>1, <1>5 DEF LockIsHold, Refuse, TypeOK
  <2>3. \A i \in Jobs : Due'[i] = Due[i]
    BY <1>1, <1>5 DEF Due, Refuse, TypeOK
  <2>4. QED
    BY <1>5, <2>1, <2>2, <2>3, IdleStep DEF Refuse
<1>6. CASE Rejected(j)
  <2>1. bill' = bill /\ tries' = tries
    BY <1>6 DEF Rejected
  <2>2. QED
    BY <1>1, <1>2, <1>6, <2>1, EndStep DEF Rejected, Outcomes, TypeOK
<1>7. ASSUME NEW cost \in Costs, Aborted(j, cost)
      PROVE  IInv'
  <2>1. /\ bill' \in [Jobs -> Costs] /\ tries' \in [Jobs -> 0 .. MaxTries - 1]
        /\ \A i \in Jobs : i # j => bill'[i] = bill[i]
    BY <1>1, <1>7 DEF Aborted, TypeOK
  <2>2. QED
    BY <1>2, <1>7, <2>1, EndStep DEF Aborted, Outcomes
<1>8. ASSUME NEW cost \in Costs, Answered(j, cost)
      PROVE  IInv'
  <2>1. TypeOK'
    BY <1>1, <1>8 DEF TypeOK, Answered
  <2>2. LockIsHold'
    BY <1>1, <1>8 DEF LockIsHold, Answered, TypeOK
  <2>3. \A i \in Jobs : Due'[i] = Due[i]
    BY <1>1, <1>8 DEF Due, Answered, TypeOK
  <2>4. QED
    BY <1>8, <2>1, <2>2, <2>3, IdleStep DEF Answered
<1>9. ASSUME NEW cost \in Costs, AnsweredWithoutId(j, cost)
      PROVE  IInv'
  <2>1. /\ bill' \in [Jobs -> Costs] /\ tries' \in [Jobs -> 0 .. MaxTries - 1]
        /\ \A i \in Jobs : i # j => bill'[i] = bill[i]
    BY <1>1, <1>9 DEF AnsweredWithoutId, TypeOK
  <2>2. QED
    BY <1>2, <1>9, <2>1, EndStep DEF AnsweredWithoutId, Outcomes
<1>10. CASE Priced(j)
  <2>1. bill' = bill /\ tries' = tries
    BY <1>10 DEF Priced
  <2>2. Debit(bill[j], hold[j]) \in Nat /\ Debit(bill[j], hold[j]) <= hold[j]
    BY <1>2 DEF Debit, Least
  <2>3. Debit(bill[j], hold[j]) = Least(bill'[j], hold[j])
    BY <2>1 DEF Debit
  <2> DEFINE debit == Debit(bill[j], hold[j])
  <2>4. End(j, "billed", debit) /\ UNCHANGED <<seen, hold, credited>> /\ pc[j] = "pricing"
    BY <1>10 DEF Priced
  <2> HIDE DEF debit
  <2>5. debit \in Nat /\ debit <= hold[j] /\ debit <= Least(bill'[j], hold[j])
    BY <1>2, <2>2, <2>3 DEF debit
  <2>6. QED
    BY <1>1, <1>2, <2>1, <2>4, <2>5, EndStep DEF Outcomes, TypeOK
<1>11. CASE NotPriced(j)
  <2>1. tries' \in [Jobs -> 0 .. MaxTries - 1]
    <3>1. (tries[j] + 1) % MaxTries \in 0 .. MaxTries - 1
      BY <1>2
    <3>2. QED
      BY <1>1, <1>11, <3>1 DEF NotPriced, TypeOK
  <2>2. CASE LastTry(tries[j])
    <3>1. bill' = bill
      BY <1>11 DEF NotPriced
    <3>2. QED
      BY <1>1, <1>2, <1>11, <2>1, <2>2, <3>1, EndStep DEF NotPriced, Outcomes, TypeOK
  <2>3. CASE ~LastTry(tries[j])
    <3>1. UNCHANGED <<remaining, charged, locked, pc, seen, hold, bill, credited>>
      BY <1>11, <2>3 DEF NotPriced
    <3>2. TypeOK'
      BY <1>1, <2>1, <3>1 DEF TypeOK
    <3>3. LockIsHold' /\ \A i \in Jobs : Due'[i] = Due[i]
      BY <1>1, <3>1 DEF LockIsHold, Due
    <3>4. QED
      BY <3>1, <3>2, <3>3, IdleStep
  <2>4. QED
    BY <2>2, <2>3
<1>12. CASE PricingThrows(j)
  <2>1. bill' = bill /\ tries' = tries
    BY <1>12 DEF PricingThrows
  <2>2. QED
    BY <1>1, <1>2, <1>12, <2>1, EndStep DEF PricingThrows, Outcomes, TypeOK
<1>13. QED
  BY <1>3, <1>4, <1>5, <1>6, <1>7, <1>8, <1>9, <1>10, <1>11, <1>12 DEF JobStep

LEMMA NextIInv == IInv /\ [Next]_vars => IInv'
<1> SUFFICES ASSUME IInv, [Next]_vars
             PROVE  IInv'
  OBVIOUS
<1>1. CASE UNCHANGED vars
  BY <1>1 DEF vars, IInv, TypeOK, LockIsHold, Conserved, Locked, ChargedWithinHold
<1>2. CASE Next
  BY <1>2, TopUpStep, JobKeepsIInv DEF Next
<1>3. QED
  BY <1>1, <1>2

(* The ledger keeps its type; above all no account is overdrawn, however   *)
(* many completions of it wait at one time.                                *)
THEOREM CreditTypeCorrect == Spec => []TypeOK
<1>1. IInv => TypeOK
  BY DEF IInv
<1>2. QED
  BY <1>1, InitIInv, NextIInv, PTL DEF Spec

(* Credit is neither lost nor made, along every path out of a completion.  *)
THEOREM CreditConserved == Spec => []Conserved
<1>1. IInv => Conserved
  BY DEF IInv
<1>2. QED
  BY <1>1, InitIInv, NextIInv, PTL DEF Spec

(* No completion is charged more than its hold, nor more than was billed.  *)
THEOREM ChargesAreBounded == Spec => []ChargedWithinHold
<1>1. IInv => ChargedWithinHold
  BY DEF IInv
<1>2. QED
  BY <1>1, InitIInv, NextIInv, PTL DEF Spec

-----------------------------------------------------------------------------
(* The gateway's ledger implements CreditLedger. *)

(* The abstract account's credit, as Ledger maps it.                       *)
CreditView == [a \in Accounts |-> remaining[a] + charged[a] + Locked(a)]

(* Because credit is conserved, the view is what the account was credited  *)
(* with: a hold that is taken, settled or given back does not show in it.  *)
(* As no hold is negative, that covers what is charged.                    *)
Balanced ==
    /\ CreditView = credited
    /\ \A a \in Accounts : charged[a] <= credited[a]

LEMMA IInvIsBalanced == IInv => Balanced
<1> SUFFICES ASSUME IInv
             PROVE  Balanced
  OBVIOUS
<1>1. credited \in [Accounts -> Nat]
  BY DEF IInv, TypeOK
<1>2. \A a \in Accounts :
        /\ remaining[a] \in Nat /\ charged[a] \in Nat /\ Locked(a) \in Nat
        /\ credited[a] = remaining[a] + charged[a] + Locked(a)
  BY DueType DEF IInv, TypeOK, Conserved
<1>3. CreditView = credited
  BY <1>1, <1>2 DEF CreditView
<1>4. \A a \in Accounts : charged[a] <= credited[a]
  BY <1>2
<1>5. QED
  BY <1>3, <1>4 DEF Balanced

(* A job's step charges its account nothing or something within its hold,  *)
(* and nobody else.                                                        *)
LEMMA JobCharges ==
    ASSUME IInv, NEW j \in Jobs, JobStep(j)
    PROVE  /\ UNCHANGED <<seen, credited>>
           /\ \E debit \in 0 .. MaxHold :
                charged' = [charged EXCEPT ![AccountOf[j]] = @ + debit]
<1> DEFINE Charges(debit) == charged' = [charged EXCEPT ![AccountOf[j]] = @ + debit]
<1>1. /\ hold[j] \in 0 .. MaxHold /\ MaxHold \in Nat /\ bill[j] \in Nat
      /\ charged \in [Accounts -> Nat] /\ AccountOf[j] \in Accounts
  BY CreditAssumption DEF IInv, TypeOK, Costs
<1>2. 0 \in 0 .. MaxHold /\ Debit(bill[j], hold[j]) \in 0 .. MaxHold
  BY <1>1 DEF Debit, Least
<1>3. charged' = charged => Charges(0)
  BY <1>1
<1>4. \A outcome : End(j, outcome, 0) => Charges(0)
  BY DEF End
<1>5. \A outcome : End(j, outcome, hold[j]) => Charges(hold[j])
  BY DEF End
<1>6. Priced(j) => Charges(Debit(bill[j], hold[j]))
  BY DEF Priced, End
<1>7. UNCHANGED <<seen, credited>>
  BY DEF JobStep, Estimate, Lock, Refuse, Rejected, Aborted, Answered, AnsweredWithoutId,
     Priced, NotPriced, PricingThrows
<1>8. Charges(0) \/ Charges(hold[j]) \/ Charges(Debit(bill[j], hold[j]))
  <2> HIDE DEF Charges
  <2>1. QED
    BY <1>3, <1>4, <1>5, <1>6 DEF JobStep, Estimate, Lock, Refuse, Rejected, Aborted,
       Answered, AnsweredWithoutId, NotPriced, PricingThrows
<1>9. QED
  BY <1>1, <1>2, <1>7, <1>8

LEMMA JobStepIsPromised ==
    ASSUME IInv, Balanced, Balanced', NEW j \in Jobs, JobStep(j)
    PROVE  [Ledger!Next]_Ledger!vars
<1> DEFINE a == AccountOf[j]
<1>1. PICK debit \in 0 .. MaxHold : charged' = [charged EXCEPT ![a] = @ + debit]
  BY JobCharges
<1>2. UNCHANGED <<seen, credited>> /\ UNCHANGED CreditView
  BY JobCharges DEF Balanced
<1>3. a \in Accounts /\ charged \in [Accounts -> Nat] /\ MaxHold \in Nat
  BY CreditAssumption DEF IInv, TypeOK
<1>4. CASE debit = 0
  <2>1. charged' = charged
    BY <1>1, <1>3, <1>4
  <2>2. QED
    BY <1>2, <2>1 DEF Ledger!vars, CreditView
<1>5. CASE debit # 0
  <2>1. debit \in 1 .. MaxHold
    BY <1>3, <1>5
  <2>2. charged[a] + debit <= CreditView[a]
    <3>1. charged'[a] = charged[a] + debit
      BY <1>1, <1>3
    <3>2. charged'[a] <= credited'[a]
      BY <1>3 DEF Balanced
    <3>3. CreditView[a] = credited'[a]
      BY <1>2 DEF Balanced
    <3>4. QED
      BY <3>1, <3>2, <3>3
  <2>3. Ledger!Spend(a, debit)
    BY <1>1, <1>2, <2>2 DEF Ledger!Spend, CreditView
  <2>4. QED
    BY <1>3, <2>1, <2>3 DEF Ledger!Next
<1>6. QED
  BY <1>4, <1>5

LEMMA TopUpIsPromised ==
    ASSUME IInv, Balanced, Balanced', NEW a \in Accounts, NEW s \in Signatures,
           NEW n \in 1 .. MaxCredit, TopUp(a, s, n)
    PROVE  Ledger!Next
<1>1. /\ s \notin seen /\ seen' = seen \cup {s}
      /\ credited' = [credited EXCEPT ![a] = @ + n]
      /\ UNCHANGED charged
  BY DEF TopUp, Fresh
<1>2. CreditView' = [CreditView EXCEPT ![a] = @ + n]
  BY <1>1 DEF Balanced
<1>3. Ledger!Accept(s)
  BY <1>1, <1>2 DEF Ledger!Accept, CreditView
<1>4. QED
  BY <1>3 DEF Ledger!Next

(* The gateway's ledger keeps the promise of CreditLedger at every single  *)
(* step: holds, settlements, failures and late prices neither make nor     *)
(* lose credit, a receipt counts once, and no charge exceeds the credit.   *)
THEOREM HoldsKeepLedger == Spec => KeepsLedger
<1>1. Init => Ledger!Init
  <2> SUFFICES ASSUME Init
               PROVE  Ledger!Init
    OBVIOUS
  <2>1. CreditView = [a \in Accounts |-> 0]
    BY InitIInv, IInvIsBalanced DEF Init, Balanced
  <2>2. QED
    BY <2>1 DEF Init, Ledger!Init, CreditView
<1>2. IInv /\ Balanced /\ Balanced' /\ [Next]_vars => [Ledger!Next]_Ledger!vars
  <2> SUFFICES ASSUME IInv, Balanced, Balanced', [Next]_vars
               PROVE  [Ledger!Next]_Ledger!vars
    OBVIOUS
  <2>1. CASE UNCHANGED vars
    <3>1. UNCHANGED <<seen, charged>> /\ UNCHANGED CreditView
      BY <2>1 DEF vars, Balanced
    <3>2. QED
      BY <3>1 DEF Ledger!vars, CreditView
  <2>2. CASE Next
    BY <2>2, JobStepIsPromised, TopUpIsPromised DEF Next
  <2>3. QED
    BY <2>1, <2>2
<1>3. QED
  BY <1>1, <1>2, InitIInv, NextIInv, IInvIsBalanced, PTL DEF Spec, KeepsLedger, Ledger!Spec
=============================================================================
