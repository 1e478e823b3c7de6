------------------------- MODULE SpendPolicyProofs -------------------------
(***************************************************************************)
(* Theorems about SpendPolicy in one process that does not die: the case   *)
(* the limits are meant for.  Any number of payments may be under way.     *)
(***************************************************************************)
EXTENDS SpendPolicy, TotalsTheorems

(* All calls run in one process, which lives, and every payment of the     *)
(* token is checked.                                                       *)
OneProcess ==
    /\ \A c, d \in Calls : ProcessOf[c] = ProcessOf[d]
    /\ ~Crashes
    /\ ~InitUserPays

Recording(c) == pc[c] \in {"recording", "writing"}

(* The process records for one call at a time, and only while it does can  *)
(* the file be truncated.                                                  *)
OneRecorder ==
    /\ \A c \in Calls : Recording(c) <=> busy[ProcessOf[c]] = c
    /\ torn => \E c \in Calls : pc[c] = "writing"

(* No day that is still to come has an entry. *)
FutureEmpty ==
    \A d \in Days : d > day =>
        /\ journal[d] = 0
        /\ recorded[d] = 0
        /\ \A c \in Calls : Recording(c) => copy[ProcessOf[c]][d] = 0

(* What is about to be written adds the call's amount to today's entry, or *)
(* to yesterday's when midnight has passed, and completes today's record.  *)
CopyCurrent ==
    \A c \in Calls : Recording(c) =>
        /\ copy[ProcessOf[c]][day] <= journal[day] + amount[c]
        /\ copy[ProcessOf[c]][day] = recorded[day]

JournalCurrent ==
    (\A c \in Calls : ~Recording(c)) => journal[day] = recorded[day]

(* OvershootBounded alone is not inductive: a write replaces the whole     *)
(* file, so what it replaces it with must be known since the read.         *)
IInv ==
    /\ TypeOK
    /\ OneRecorder
    /\ FutureEmpty
    /\ CopyCurrent
    /\ JournalCurrent
    /\ OvershootBounded

Weight == [c \in Calls |-> IF InFlight(c) THEN amount[c] ELSE 0]

-----------------------------------------------------------------------------
(* Helpers. *)

LEMMA CapsAreNat ==
    /\ Largest \in Nat /\ Largest <= MaxPerTx /\ Largest <= DailyCap
    /\ Cardinality(Calls) \in Nat \ {0}
    /\ (Cardinality(Calls) - 1) * Largest \in Nat
    /\ Cardinality(Calls) * Largest = (Cardinality(Calls) - 1) * Largest + Largest
    /\ 0 \in Days /\ Days \subseteq Nat
<1>1. Largest \in Nat /\ Largest <= MaxPerTx /\ Largest <= DailyCap
  BY CapsAssumption DEF Largest
<1>2. Cardinality(Calls) \in Nat \ {0}
  BY CallsAssumption, FS_CardinalityType, FS_EmptySet
<1>3. \A n \in Nat \ {0}, m \in Nat : (n - 1) * m \in Nat /\ n * m = (n - 1) * m + m
  OBVIOUS
<1>4. 0 \in Days /\ Days \subseteq Nat
  BY CapsAssumption DEF Days
<1>5. QED
  BY <1>1, <1>2, <1>3, <1>4

(* What is in flight is the sum of the weights, none above the largest     *)
(* payment.                                                                *)
LEMMA WeightType ==
    ASSUME TypeOK
    PROVE  /\ Weight \in [Calls -> Nat]
           /\ \A c \in Calls : Weight[c] <= Largest
           /\ Outstanding = Total(Weight) /\ Outstanding \in Nat
<1>1. Weight \in [Calls -> Nat] /\ \A c \in Calls : Weight[c] <= Largest
  BY CapsAreNat DEF TypeOK, Weight
<1>2. Outstanding = Total(Weight)
  BY DEF Outstanding, Weight
<1>3. QED
  BY <1>1, <1>2, CallsAssumption, TotalType

(* A step that changes the weight of one call changes what is in flight by *)
(* the difference; whatever that call weighs, the others together weigh at *)
(* most a largest payment each.                                            *)
LEMMA OneWeightChanges ==
    ASSUME TypeOK, NEW c \in Calls, NEW n \in Nat,
           Weight' = [Weight EXCEPT ![c] = n]
    PROVE  /\ Outstanding' = Outstanding - Weight[c] + n
           /\ Outstanding - Weight[c] <= (Cardinality(Calls) - 1) * Largest
           /\ Outstanding - Weight[c] \in Nat
<1>1. /\ Weight \in [Calls -> Nat]
      /\ \A d \in Calls : Weight[d] <= Largest
      /\ Outstanding = Total(Weight)
  BY WeightType
<1>2. Outstanding' = Total(Weight')
  BY DEF Outstanding, Weight
<1>3. Total([Weight EXCEPT ![c] = n]) = Total(Weight) - Weight[c] + n
  <2>1. IsFiniteSet(Calls)
    BY CallsAssumption
  <2>2. QED
    BY <1>1, <2>1, TotalUpdate, Zenon
<1>4. /\ Total(Weight) = Cardinality(Rest(Weight, c)) + Weight[c]
      /\ Cardinality(Rest(Weight, c)) \in Nat
      /\ Cardinality(Rest(Weight, c)) <= (Cardinality(Calls) - 1) * Largest
  BY <1>1, CallsAssumption, CapsAreNat, TotalSplit, TotalAtMost
<1>5. QED
  BY <1>1, <1>2, <1>3, <1>4

(* The last KeptDays entries include today's when no later day has one, and *)
(* prune changes no entry that it keeps.                                   *)
LEMMA PruneKeepsToday ==
    ASSUME NEW j \in [Days -> Nat], NEW t \in Days,
           \A d \in Days : d > t => j[d] = 0
    PROVE  /\ Prune(j) \in [Days -> Nat]
           /\ Prune(j)[t] = j[t]
           /\ \A d \in Days : d > t => Prune(j)[d] = 0
<1>1. \A d \in Days : Prune(j)[d] \in {0, j[d]}
  BY DEF Prune
<1>2. {e \in t + 1 .. MaxDay : j[e] > 0} = {}
  BY CapsAssumption, CapsAreNat DEF Days
<1>3. Cardinality({e \in t + 1 .. MaxDay : j[e] > 0}) < KeptDays
  BY <1>2, FS_EmptySet, CapsAssumption
<1>4. Prune(j)[t] = j[t]
  BY <1>3 DEF Prune
<1>5. Prune(j) \in [Days -> Nat]
  BY DEF Prune
<1>6. QED
  BY <1>1, <1>4, <1>5

-----------------------------------------------------------------------------
(* The invariant holds initially. *)
LEMMA InitIInv == Init => IInv
<1> SUFFICES ASSUME Init PROVE IInv
  OBVIOUS
<1>1. TypeOK
  BY CapsAreNat, CallsAssumption DEF Init, TypeOK, Steps, InFlight
<1>2. OneRecorder /\ FutureEmpty /\ CopyCurrent /\ JournalCurrent
  BY CapsAreNat, CallsAssumption
     DEF Init, OneRecorder, FutureEmpty, CopyCurrent, JournalCurrent, Recording
<1>3. Outstanding = 0
  <2>1. \A c \in Calls : Weight[c] = 0
    BY DEF Init, Weight, InFlight
  <2>2. Weight \in [Calls -> Nat] /\ Outstanding = Total(Weight)
    BY <1>1, WeightType
  <2>3. QED
    BY <2>1, <2>2, CallsAssumption, TotalZero
<1>4. journal[day] = 0
  BY CapsAreNat DEF Init
<1>5. OvershootBounded
  <2> DEFINE K == (Cardinality(Calls) - 1) * Largest
  <2>1. K \in Nat
    BY CapsAreNat
  <2>2. journal[day] + Outstanding <= DailyCap + K
    <3> HIDE DEF K
    <3>1. QED
      BY <1>3, <1>4, <2>1, CapsAssumption
  <2>3. QED
    BY <2>2 DEF OvershootBounded
<1>6. QED
  BY <1>1, <1>2, <1>5 DEF IInv

(* check and record find the process free: nobody records and the file is  *)
(* whole.                                                                  *)
LEMMA FreeMeansQuiet ==
    ASSUME OneProcess, TypeOK, OneRecorder, NEW c \in Calls, Free(c)
    PROVE  /\ \A d \in Calls : ~Recording(d)
           /\ ~torn
           /\ Read = journal
<1>1. \A d \in Calls : ~Recording(d)
  BY CallsAssumption DEF OneProcess, OneRecorder, Free
<1>2. ~torn
  BY <1>1 DEF OneRecorder, Recording
<1>3. QED
  BY <1>1, <1>2 DEF Read

(* Only one call records at a time. *)
LEMMA RecorderIsAlone ==
    ASSUME OneProcess, OneRecorder, NEW c \in Calls, Recording(c)
    PROVE  \A d \in Calls : d # c => ~Recording(d)
BY DEF OneProcess, OneRecorder

(* A step that leaves the file and its recorder alone keeps what the       *)
(* invariant says of them.                                                 *)
LEMMA QuietStep ==
    ASSUME IInv, UNCHANGED <<day, journal, torn, busy, copy, recorded>>,
           \A c \in Calls : /\ Recording(c)' <=> Recording(c)
                            /\ Recording(c) => pc'[c] = pc[c] /\ amount'[c] = amount[c]
    PROVE  (OneRecorder /\ FutureEmpty /\ CopyCurrent /\ JournalCurrent)'
<1>1. OneRecorder'
  BY DEF IInv, OneRecorder, Recording
<1>2. FutureEmpty'
  BY DEF IInv, FutureEmpty
<1>3. CopyCurrent'
  BY DEF IInv, CopyCurrent
<1>4. JournalCurrent'
  BY DEF IInv, JournalCurrent
<1>5. QED
  BY <1>1, <1>2, <1>3, <1>4

(* A step that leaves the journal alone and lets one call give its amount  *)
(* up, or adds no weight, keeps the bound.                                 *)
LEMMA WeightDrops ==
    ASSUME TypeOK, OvershootBounded, UNCHANGED <<day, journal>>,
           NEW c \in Calls, NEW n \in Nat, n <= Weight[c],
           Weight' = [Weight EXCEPT ![c] = n]
    PROVE  OvershootBounded'
<1> DEFINE K == (Cardinality(Calls) - 1) * Largest
<1>1. /\ Outstanding' = Outstanding - Weight[c] + n
      /\ Outstanding \in Nat /\ Weight[c] \in Nat
  BY OneWeightChanges, WeightType
<1>2. K \in Nat /\ journal[day] \in Nat /\ DailyCap \in Nat
  BY CapsAreNat, CapsAssumption DEF TypeOK
<1>3. journal[day] + Outstanding <= DailyCap + K
  BY DEF OvershootBounded
<1>4. journal'[day'] + Outstanding' <= DailyCap + K
  <2> HIDE DEF K
  <2>1. QED
    BY <1>1, <1>2, <1>3
<1>5. QED
  BY <1>4 DEF OvershootBounded, Largest

-----------------------------------------------------------------------------
(* Every action keeps the invariant. *)

LEMMA PayKeeps ==
    ASSUME OneProcess, IInv, NEW c \in Calls, NEW n \in Amounts, Pay(c, n)
    PROVE  IInv'
<1> USE DEF IInv
<1>1. n \in Nat /\ n <= Largest
  <2>1. n \in Nat /\ Read[day] \in Nat /\ Read[day] + n <= DailyCap /\ n <= MaxPerTx
    BY CapsAssumption DEF Amounts, Pay, WithinDay, WithinTx, Read, TypeOK
  <2>2. QED
    BY <2>1, CapsAssumption DEF Largest
<1>2. TypeOK'
  BY <1>1 DEF TypeOK, Pay, Begin, Steps, InFlight, Largest
<1>3. (OneRecorder /\ FutureEmpty /\ CopyCurrent /\ JournalCurrent)'
  <2>1. UNCHANGED <<day, journal, torn, busy, copy, recorded>>
    BY DEF Pay, Begin
  <2>2. \A d \in Calls : /\ Recording(d)' <=> Recording(d)
                         /\ Recording(d) => pc'[d] = pc[d] /\ amount'[d] = amount[d]
    BY DEF Pay, Begin, Recording, TypeOK
  <2>3. QED
    BY <2>1, <2>2, QuietStep
<1>4. OvershootBounded'
  <2> DEFINE K == (Cardinality(Calls) - 1) * Largest
  <2>1. Weight' = [Weight EXCEPT ![c] = n]
    BY DEF Pay, Begin, Weight, InFlight, TypeOK
  <2>2. /\ Outstanding' = Outstanding - Weight[c] + n
        /\ Outstanding - Weight[c] <= K
        /\ Outstanding \in Nat /\ Weight[c] \in Nat
    BY <1>1, <2>1, OneWeightChanges, WeightType
  <2>3. journal[day] + n <= DailyCap
    BY FreeMeansQuiet DEF Pay, WithinDay
  <2>4. journal'[day'] = journal[day] /\ journal[day] \in Nat
    BY DEF Pay, Begin, TypeOK
  <2>5. journal'[day'] + Outstanding' <= DailyCap + K
    <3>1. K \in Nat /\ DailyCap \in Nat
      BY CapsAreNat, CapsAssumption
    <3> HIDE DEF K
    <3>2. QED
      BY <1>1, <2>2, <2>3, <2>4, <3>1
  <2>6. QED
    BY <2>5 DEF OvershootBounded, Largest
<1>5. QED
  BY <1>2, <1>3, <1>4

(* The steps of a submission: the payment settles, is one that has settled *)
(* for another call, vanishes or is given up by its caller.                *)
LEMMA SubmissionKeeps ==
    ASSUME OneProcess, IInv, NEW c \in Calls,
           Settle(c) \/ SameTransaction(c) \/ Vanish(c) \/ GiveUp(c)
    PROVE  IInv'
<1> USE DEF IInv
<1>1. /\ pc[c] \in {"sending", "adrift", "settled"}
      /\ pc' = [pc EXCEPT ![c] = pc'[c]]
      /\ pc'[c] \in {"idle", "settled", "adrift"}
      /\ pc'[c] = "settled" => pc[c] = "sending"
      /\ UNCHANGED <<day, journal, torn, amount, busy, copy, recorded>>
  BY DEF Settle, SameTransaction, Vanish, GiveUp, TypeOK
<1>2. TypeOK'
  <2>1. settled' \in [Days -> Nat]
    BY <1>1 DEF Settle, SameTransaction, Vanish, GiveUp, TypeOK
  <2>2. pc' \in [Calls -> Steps] /\ \A d \in Calls : InFlight(d)' => InFlight(d)
    BY <1>1 DEF TypeOK, Steps, InFlight
  <2>3. landed' \subseteq Nat
    <3>1. landed' = landed \/ landed' = landed \cup {amount[c]}
      BY DEF Settle, SameTransaction, Vanish, GiveUp
    <3>2. landed \subseteq Nat /\ amount[c] \in Nat
      BY DEF TypeOK
    <3>3. QED
      BY <3>1, <3>2
  <2>4. again' \in Nat
    BY DEF Settle, SameTransaction, Vanish, GiveUp, TypeOK
  <2>5. QED
    BY <1>1, <2>1, <2>2, <2>3, <2>4 DEF TypeOK, Largest
<1>3. (OneRecorder /\ FutureEmpty /\ CopyCurrent /\ JournalCurrent)'
  <2>1. \A d \in Calls : /\ Recording(d)' <=> Recording(d)
                         /\ Recording(d) => pc'[d] = pc[d] /\ amount'[d] = amount[d]
    BY <1>1 DEF Recording, TypeOK
  <2>2. QED
    BY <1>1, <2>1, QuietStep
<1>4. OvershootBounded'
  <2>1. Weight'[c] \in Nat /\ Weight'[c] <= Weight[c]
    BY <1>1 DEF Weight, InFlight, TypeOK
  <2>2. Weight' = [Weight EXCEPT ![c] = Weight'[c]]
    BY <1>1 DEF Weight, InFlight, TypeOK
  <2>3. QED
    BY <1>1, <2>1, <2>2, WeightDrops
<1>5. QED
  BY <1>2, <1>3, <1>4

LEMMA ReadJournalKeeps ==
    ASSUME OneProcess, IInv, NEW c \in Calls, ReadJournal(c)
    PROVE  IInv'
<1> USE DEF IInv
<1> DEFINE p == ProcessOf[c]
           j == [journal EXCEPT ![day] = @ + amount[c]]
<1>1. p \in Processes /\ day \in Days /\ amount[c] \in Nat
  BY CallsAssumption DEF TypeOK
<1>2. /\ \A d \in Calls : ~Recording(d)
      /\ ~torn
      /\ Read = journal
  BY FreeMeansQuiet DEF ReadJournal
<1>3. /\ j \in [Days -> Nat]
      /\ \A d \in Days : d > day => j[d] = 0
      /\ j[day] = journal[day] + amount[c]
  BY <1>1 DEF TypeOK, FutureEmpty, Days
<1>4. /\ Prune(j) \in [Days -> Nat]
      /\ Prune(j)[day] = journal[day] + amount[c]
      /\ \A d \in Days : d > day => Prune(j)[d] = 0
  BY <1>1, <1>3, PruneKeepsToday
<1>5. copy' = [copy EXCEPT ![p] = Prune(j)]
  BY <1>2 DEF ReadJournal
<1> HIDE DEF j
<1>6. \A d \in Calls : ProcessOf[d] = p
  BY DEF OneProcess
<1>7. copy'[p] = Prune(j)
  BY <1>1, <1>5 DEF TypeOK
<1>8. \A d \in Calls : Recording(d)' <=> d = c
  BY <1>2 DEF ReadJournal, Recording, TypeOK
<1>9. TypeOK'
  <2>1. copy' \in [Processes -> [Days -> Nat]]
    BY <1>4, <1>5 DEF TypeOK
  <2>2. busy' \in [Processes -> Calls \cup {Nobody}]
    BY DEF ReadJournal, TypeOK
  <2>3. recorded' \in [Days -> Nat]
    BY <1>1 DEF ReadJournal, TypeOK
  <2>4. pc' \in [Calls -> Steps] /\ \A d \in Calls : InFlight(d)' => InFlight(d)
    BY DEF ReadJournal, Recordable, TypeOK, Steps, InFlight
  <2>5. UNCHANGED <<day, journal, torn, amount, landed, settled, again>>
    BY DEF ReadJournal
  <2>6. QED
    BY <2>1, <2>2, <2>3, <2>4, <2>5 DEF TypeOK, Largest
<1>10. OneRecorder'
  <2>1. busy'[p] = c
    BY <1>1 DEF ReadJournal, TypeOK
  <2>2. ~torn'
    BY <1>2 DEF ReadJournal
  <2>3. QED
    BY <1>6, <1>8, <2>1, <2>2 DEF OneRecorder
<1>11. FutureEmpty'
  <2>1. UNCHANGED <<day, journal>>
    BY DEF ReadJournal
  <2>2. \A d \in Days : d > day => recorded'[d] = 0
    BY <1>1 DEF ReadJournal, TypeOK, FutureEmpty, Days
  <2>3. QED
    BY <1>4, <1>6, <1>7, <2>1, <2>2 DEF FutureEmpty
<1>12. CopyCurrent'
  <2>1. UNCHANGED <<day, journal, amount>>
    BY DEF ReadJournal
  <2>2. recorded'[day] = journal[day] + amount[c]
    BY <1>1, <1>2 DEF ReadJournal, TypeOK, JournalCurrent
  <2>3. journal[day] + amount[c] \in Nat
    BY <1>1 DEF TypeOK
  <2>4. QED
    BY <1>4, <1>6, <1>7, <1>8, <2>1, <2>2, <2>3 DEF CopyCurrent
<1>13. JournalCurrent'
  BY <1>8 DEF JournalCurrent
<1>14. OvershootBounded'
  <2>1. Weight[c] \in Nat /\ Weight[c] <= Weight[c] /\ UNCHANGED <<day, journal>>
    BY WeightType DEF ReadJournal
  <2>2. Weight' = [Weight EXCEPT ![c] = Weight[c]]
    BY DEF ReadJournal, Recordable, Weight, InFlight, TypeOK
  <2>3. QED
    BY <2>1, <2>2, WeightDrops
<1>15. QED
  BY <1>9, <1>10, <1>11, <1>12, <1>13, <1>14

LEMMA TruncateKeeps ==
    ASSUME OneProcess, IInv, NEW c \in Calls, Truncate(c)
    PROVE  IInv'
<1> USE DEF IInv
<1>1. /\ UNCHANGED <<day, journal, amount, busy, copy, landed, settled, again, recorded>>
      /\ \A d \in Calls : Recording(d)' <=> Recording(d)
      /\ \A d \in Calls : InFlight(d)' <=> InFlight(d)
      /\ pc' \in [Calls -> Steps] /\ pc'[c] = "writing" /\ torn' = TRUE
  BY DEF Truncate, Recording, InFlight, TypeOK, Steps
<1>2. TypeOK'
  BY <1>1 DEF TypeOK, Largest
<1>3. OneRecorder'
  BY <1>1 DEF OneRecorder
<1>4. (FutureEmpty /\ CopyCurrent /\ JournalCurrent)'
  BY <1>1 DEF FutureEmpty, CopyCurrent, JournalCurrent
<1>5. OvershootBounded'
  <2>1. Weight[c] \in Nat /\ Weight[c] <= Weight[c]
    BY WeightType
  <2>2. Weight' = [Weight EXCEPT ![c] = Weight[c]]
    BY <1>1 DEF Weight
  <2>3. QED
    BY <1>1, <2>1, <2>2, WeightDrops
<1>6. QED
  BY <1>2, <1>3, <1>4, <1>5

LEMMA WriteJournalKeeps ==
    ASSUME OneProcess, IInv, NEW c \in Calls, WriteJournal(c)
    PROVE  IInv'
<1> USE DEF IInv
<1> DEFINE p == ProcessOf[c]
<1>1. /\ p \in Processes /\ day \in Days /\ Recording(c)
      /\ copy[p] \in [Days -> Nat] /\ amount[c] \in Nat /\ journal[day] \in Nat
  BY CallsAssumption DEF WriteJournal, Recording, TypeOK
<1>2. /\ UNCHANGED <<day, amount, copy, landed, settled, again, recorded>>
      /\ journal' = copy[p] /\ torn' = FALSE
  BY DEF WriteJournal
<1>3. \A d \in Calls : ~Recording(d)'
  <2>1. \A d \in Calls : d # c => ~Recording(d)
    BY <1>1, RecorderIsAlone
  <2>2. QED
    BY <2>1 DEF WriteJournal, Recording, TypeOK
<1>4. TypeOK'
  <2>1. busy' \in [Processes -> Calls \cup {Nobody}]
    BY DEF WriteJournal, TypeOK
  <2>2. pc' \in [Calls -> Steps] /\ \A d \in Calls : InFlight(d)' => InFlight(d)
    BY DEF WriteJournal, TypeOK, Steps, InFlight
  <2>3. QED
    BY <1>1, <1>2, <2>1, <2>2 DEF TypeOK, Largest
<1>5. OneRecorder'
  <2>1. busy'[p] = Nobody
    BY <1>1 DEF WriteJournal, TypeOK
  <2>2. \A d \in Calls : busy'[ProcessOf[d]] # d
    BY <2>1, CallsAssumption DEF OneProcess
  <2>3. QED
    BY <1>2, <1>3, <2>2 DEF OneRecorder
<1>6. FutureEmpty'
  BY <1>1, <1>2, <1>3 DEF FutureEmpty
<1>7. CopyCurrent'
  BY <1>3 DEF CopyCurrent
<1>8. JournalCurrent'
  BY <1>1, <1>2 DEF CopyCurrent, JournalCurrent
<1>9. OvershootBounded'
  <2> DEFINE K == (Cardinality(Calls) - 1) * Largest
  <2>1. Weight' = [Weight EXCEPT ![c] = 0]
    BY DEF WriteJournal, Weight, InFlight, TypeOK
  <2>2. Weight[c] = amount[c]
    BY DEF WriteJournal, Weight, InFlight
  <2>3. Outstanding' = Outstanding - amount[c] + 0 /\ Outstanding \in Nat
    BY <2>1, <2>2, OneWeightChanges, WeightType
  <2>4. journal'[day'] \in Nat /\ journal'[day'] <= journal[day] + amount[c]
    BY <1>1, <1>2 DEF CopyCurrent
  <2>5. journal[day] + Outstanding <= DailyCap + K
    BY DEF OvershootBounded
  <2>6. journal'[day'] + Outstanding' <= DailyCap + K
    <3>1. K \in Nat /\ DailyCap \in Nat
      BY CapsAreNat, CapsAssumption
    <3> HIDE DEF K
    <3>2. QED
      BY <1>1, <2>3, <2>4, <2>5, <3>1
  <2>7. QED
    BY <2>6 DEF OvershootBounded, Largest
<1>10. QED
  BY <1>4, <1>5, <1>6, <1>7, <1>8, <1>9

(* Midnight empties today's entry, and what is in flight is at most a      *)
(* largest payment for every call, one of which the cap itself covers.     *)
LEMMA MidnightKeeps ==
    ASSUME IInv, Midnight
    PROVE  IInv'
<1> USE DEF IInv
<1>1. /\ UNCHANGED <<journal, torn, pc, amount, busy, copy, landed, settled, again, recorded>>
      /\ day \in Days /\ day' = day + 1 /\ day' \in Days /\ day' > day
      /\ \A d \in Days : d > day' => d > day
  BY CapsAssumption DEF Midnight, Days, TypeOK
<1>2. TypeOK'
  BY <1>1 DEF TypeOK, InFlight, Largest
<1>3. OneRecorder'
  BY <1>1 DEF OneRecorder, Recording
<1>4. FutureEmpty'
  BY <1>1 DEF FutureEmpty, Recording
<1>5. CopyCurrent'
  <2>1. \A c \in Calls : Recording(c) => copy[ProcessOf[c]][day'] = 0
    BY <1>1 DEF FutureEmpty
  <2>2. journal[day'] = 0 /\ recorded[day'] = 0
    BY <1>1 DEF FutureEmpty
  <2>3. \A c \in Calls : amount[c] \in Nat /\ 0 <= 0 + amount[c]
    BY DEF TypeOK
  <2>4. QED
    BY <1>1, <2>1, <2>2, <2>3 DEF CopyCurrent, Recording
<1>6. JournalCurrent'
  BY <1>1 DEF FutureEmpty, JournalCurrent
<1>7. OvershootBounded'
  <2> DEFINE K == (Cardinality(Calls) - 1) * Largest
  <2>1. Outstanding <= K + Largest /\ Outstanding \in Nat
    <3>1. PICK c \in Calls : TRUE
      BY CallsAssumption
    <3>2. Total(Weight) <= Cardinality(Calls) * Largest
      BY <3>1, CallsAssumption, CapsAreNat, WeightType, TotalAtMost, Zenon
    <3>3. QED
      BY <3>2, CapsAreNat, WeightType
  <2>2. Outstanding' = Outstanding /\ journal'[day'] = 0
    BY <1>1 DEF Outstanding, InFlight, FutureEmpty
  <2>3. journal'[day'] + Outstanding' <= DailyCap + K
    <3>1. K \in Nat /\ DailyCap \in Nat /\ Largest \in Nat /\ Largest <= DailyCap
      BY CapsAreNat, CapsAssumption
    <3> HIDE DEF K
    <3>2. QED
      BY <2>1, <2>2, <3>1
  <2>4. QED
    BY <2>3 DEF OvershootBounded, Largest
<1>8. QED
  BY <1>2, <1>3, <1>4, <1>5, <1>6, <1>7

LEMMA StepIInv == OneProcess /\ IInv /\ [Next]_vars => IInv'
<1> SUFFICES ASSUME OneProcess, IInv, [Next]_vars PROVE IInv'
  OBVIOUS
<1>1. ASSUME NEW c \in Calls, NEW n \in Amounts, Pay(c, n) PROVE IInv'
  BY <1>1, PayKeeps
<1>2. ASSUME NEW c \in Calls, NEW n \in Amounts, InitUser(c, n) PROVE IInv'
  BY <1>2 DEF InitUser, OneProcess
<1>3. ASSUME NEW c \in Calls, Settle(c) \/ SameTransaction(c) \/ Vanish(c) \/ GiveUp(c)
      PROVE  IInv'
  BY <1>3, SubmissionKeeps
<1>4. ASSUME NEW c \in Calls, ReadJournal(c) PROVE IInv'
  BY <1>4, ReadJournalKeeps
<1>5. ASSUME NEW c \in Calls, Truncate(c) PROVE IInv'
  BY <1>5, TruncateKeeps
<1>6. ASSUME NEW c \in Calls, WriteJournal(c) PROVE IInv'
  BY <1>6, WriteJournalKeeps
<1>7. ASSUME NEW p \in Processes, Crash(p) PROVE IInv'
  BY <1>7 DEF Crash, OneProcess
<1>8. CASE Midnight
  BY <1>8, MidnightKeeps
<1>9. CASE UNCHANGED vars
  BY <1>9 DEF vars, IInv, TypeOK, OneRecorder, FutureEmpty, CopyCurrent, JournalCurrent,
              OvershootBounded, Outstanding, InFlight, Recording, Largest
<1>10. QED
  BY <1>1, <1>2, <1>3, <1>4, <1>5, <1>6, <1>7, <1>8, <1>9 DEF Next, CallStep

-----------------------------------------------------------------------------
(* The theorems. *)

LEMMA AlwaysIInv ==
    ASSUME OneProcess
    PROVE  Spec => []IInv
<1>1. Init => IInv
  BY InitIInv
<1>2. IInv /\ [Next]_vars => IInv'
  BY StepIInv
<1>3. QED
  BY <1>1, <1>2, PTL DEF Spec

(* Every reachable state is well typed; no payment that check let through  *)
(* is above a cap.                                                         *)
THEOREM SpendTypeCorrect ==
    ASSUME OneProcess
    PROVE  Spec => []TypeOK
<1>1. IInv => TypeOK
  BY DEF IInv
<1>2. QED
  BY <1>1, AlwaysIInv, PTL

(* However many payments one process has under way, today's journal and    *)
(* what is in flight exceed the daily cap by at most one largest payment   *)
(* for each other call, also across midnight and whatever prune keeps.     *)
THEOREM ExcessIsBounded ==
    ASSUME OneProcess
    PROVE  Spec => []OvershootBounded
<1>1. IInv => OvershootBounded
  BY DEF IInv
<1>2. QED
  BY <1>1, AlwaysIInv, PTL

(* In one process today's entry is all that record was called with today,  *)
(* whenever no record is running, for every number of days that is kept.   *)
THEOREM RecordsAreKept ==
    ASSUME OneProcess
    PROVE  Spec => []NoLostRecord
<1>1. IInv => NoLostRecord
  BY DEF IInv, OneRecorder, JournalCurrent, NoLostRecord, Recording, Read
<1>2. QED
  BY <1>1, AlwaysIInv, PTL

-----------------------------------------------------------------------------
(* Any number of processes, which may crash, and unchecked payments.       *)
(* JournalNeverOverstates needs to know what is going to be written: what  *)
(* a process has read and added to is at most what has settled or answered *)
(* once more, without what did and is not recorded yet.                    *)

Owed == [c \in Calls |-> IF pc[c] = "settled" THEN amount[c] ELSE 0]

LedgerTypeOK ==
    /\ day \in Days
    /\ journal \in [Days -> Nat]
    /\ torn \in BOOLEAN
    /\ pc \in [Calls -> Steps]
    /\ amount \in [Calls -> Nat]
    /\ copy \in [Processes -> [Days -> Nat]]
    /\ settled \in [Days -> Nat]
    /\ again \in Nat

NothingInvented ==
    /\ Total(journal) + Total(Owed) <= Total(settled) + again
    /\ \A p \in Processes : Total(copy[p]) + Total(Owed) <= Total(settled) + again

LedgerInv == LedgerTypeOK /\ NothingInvented

LEMMA LedgerTotals ==
    ASSUME LedgerTypeOK
    PROVE  /\ Owed \in [Calls -> Nat] /\ Total(Owed) \in Nat
           /\ IsFiniteSet(Days) /\ IsFiniteSet(Calls)
           /\ Total(journal) \in Nat /\ Total(settled) \in Nat /\ again \in Nat
           /\ \A p \in Processes : Total(copy[p]) \in Nat
           /\ Read \in [Days -> Nat] /\ Total(Read) \in Nat /\ Total(Read) <= Total(journal)
<1>1. IsFiniteSet(Days) /\ IsFiniteSet(Calls)
  BY CapsAssumption, CallsAssumption, FS_Interval DEF Days
<1>2. Owed \in [Calls -> Nat]
  BY DEF Owed, LedgerTypeOK
<1>3. Read \in [Days -> Nat] /\ \A d \in Days : Read[d] <= journal[d]
  BY DEF Read, LedgerTypeOK
<1>4. Total(Read) <= Total(journal)
  BY <1>1, <1>3, TotalMonotone DEF LedgerTypeOK
<1>5. QED
  BY <1>1, <1>2, <1>3, <1>4, TotalType DEF LedgerTypeOK

(* prune adds nothing. *)
LEMMA PruneAddsNothing ==
    ASSUME NEW j \in [Days -> Nat]
    PROVE  Prune(j) \in [Days -> Nat] /\ Total(Prune(j)) <= Total(j)
<1>1. Prune(j) \in [Days -> Nat] /\ \A d \in Days : Prune(j)[d] <= j[d]
  BY DEF Prune
<1>2. IsFiniteSet(Days)
  BY CapsAssumption, FS_Interval DEF Days
<1>3. QED
  BY <1>1, <1>2, TotalMonotone

(* Units added to a day are added to the sum. *)
LEMMA AddedToDay ==
    ASSUME NEW f \in [Days -> Nat], NEW d \in Days, NEW n \in Nat
    PROVE  /\ [f EXCEPT ![d] = @ + n] \in [Days -> Nat]
           /\ Total([f EXCEPT ![d] = @ + n]) = Total(f) + n
<1> DEFINE m == f[d] + n
<1>1. IsFiniteSet(Days) /\ f[d] \in Nat /\ m \in Nat
  <2>1. IsFiniteSet(Days)
    BY CapsAssumption, FS_Interval DEF Days
  <2>2. QED
    BY <2>1
<1>2. Total(f) \in Nat
  BY <1>1, TotalType
<1>3. [f EXCEPT ![d] = @ + n] = [f EXCEPT ![d] = m]
  OBVIOUS
<1>4. Total([f EXCEPT ![d] = m]) = Total(f) - f[d] + m
  <2> HIDE DEF m
  <2>1. QED
    BY <1>1, TotalUpdate
<1>5. QED
  BY <1>1, <1>2, <1>3, <1>4

(* Steps that read, write and settle nothing: a call may only leave        *)
(* "settled".                                                              *)
LEMMA OwesLess ==
    ASSUME LedgerInv, LedgerTypeOK', UNCHANGED <<journal, copy, settled, again>>,
           \A c \in Calls : Owed'[c] <= Owed[c]
    PROVE  NothingInvented'
<1>1. Total(Owed') <= Total(Owed)
  BY LedgerTotals, TotalMonotone DEF LedgerInv, LedgerTypeOK, Owed
<1>2. Total(Owed') \in Nat
  BY LedgerTotals, TotalType DEF LedgerInv, LedgerTypeOK, Owed
<1>3. QED
  BY <1>1, <1>2, LedgerTotals DEF LedgerInv, NothingInvented

LEMMA NextLedgerType == LedgerTypeOK /\ [Next]_vars => LedgerTypeOK'
<1> SUFFICES ASSUME LedgerTypeOK, [Next]_vars
             PROVE  LedgerTypeOK'
  OBVIOUS
<1> USE DEF LedgerTypeOK, Steps
<1>1. ASSUME NEW c \in Calls, NEW n \in Amounts, Pay(c, n) \/ InitUser(c, n)
      PROVE  LedgerTypeOK'
  BY <1>1 DEF Pay, InitUser, Begin, Amounts
<1>2. ASSUME NEW c \in Calls, Settle(c) \/ SameTransaction(c) \/ Vanish(c) \/ GiveUp(c)
      PROVE  LedgerTypeOK'
  BY <1>2 DEF Settle, SameTransaction, Vanish, GiveUp
<1>3. ASSUME NEW c \in Calls, ReadJournal(c)
      PROVE  LedgerTypeOK'
  <2>1. Read \in [Days -> Nat] /\ day \in Days /\ amount[c] \in Nat
    BY LedgerTotals
  <2> DEFINE j == [Read EXCEPT ![day] = @ + amount[c]]
  <2>2. j \in [Days -> Nat]
    BY <2>1, AddedToDay
  <2>3. Prune(j) \in [Days -> Nat]
    <3> HIDE DEF j
    <3>1. QED
      BY <2>2, PruneAddsNothing
  <2>4. QED
    BY <1>3, <2>3 DEF ReadJournal
<1>4. ASSUME NEW c \in Calls, Truncate(c) \/ WriteJournal(c)
      PROVE  LedgerTypeOK'
  <2>1. copy[ProcessOf[c]] \in [Days -> Nat]
    BY CallsAssumption
  <2>2. QED
    BY <1>4, <2>1 DEF Truncate, WriteJournal
<1>5. ASSUME NEW p \in Processes, Crash(p)
      PROVE  LedgerTypeOK'
  BY <1>5 DEF Crash
<1>6. CASE Midnight
  BY <1>6, CapsAssumption DEF Midnight, Days
<1>7. QED
  BY <1>1, <1>2, <1>3, <1>4, <1>5, <1>6 DEF Next, CallStep, vars

(* What settles is owed to the journal as long as the caller waits for it. *)
LEMMA SettleKeepsLedger ==
    ASSUME LedgerInv, LedgerTypeOK', NEW c \in Calls, Settle(c)
    PROVE  NothingInvented'
<1> DEFINE n == IF pc[c] = "sending" THEN amount[c] ELSE 0
<1>1. /\ LedgerTypeOK /\ settled \in [Days -> Nat] /\ day \in Days
      /\ amount[c] \in Nat /\ n \in Nat /\ n <= amount[c]
  BY DEF LedgerInv, LedgerTypeOK
<1>2. Total(settled') = Total(settled) + amount[c]
  BY <1>1, AddedToDay DEF Settle
<1>3. Total(Owed') = Total(Owed) + n
  <2>1. Owed' = [Owed EXCEPT ![c] = n] /\ Owed[c] = 0
    BY <1>1 DEF Settle, Owed, LedgerTypeOK
  <2>2. Owed \in [Calls -> Nat] /\ IsFiniteSet(Calls) /\ Total(Owed) \in Nat
    BY <1>1, LedgerTotals
  <2> HIDE DEF n
  <2>3. Total([Owed EXCEPT ![c] = n]) = Total(Owed) - Owed[c] + n
    BY <1>1, <2>2, TotalUpdate
  <2>4. QED
    BY <1>1, <2>1, <2>2, <2>3
<1>4. UNCHANGED <<journal, copy, again>>
  BY DEF Settle
<1> HIDE DEF n
<1>5. QED
  BY <1>1, <1>2, <1>3, <1>4, LedgerTotals DEF LedgerInv, NothingInvented

(* A shared transaction is owed to the journal once more, and counted so.  *)
LEMMA SameKeepsLedger ==
    ASSUME LedgerInv, LedgerTypeOK', NEW c \in Calls, SameTransaction(c)
    PROVE  NothingInvented'
<1>1. LedgerTypeOK /\ amount[c] \in Nat
  BY DEF LedgerInv, LedgerTypeOK
<1>2. Total(Owed') = Total(Owed) + amount[c]
  <2>1. Owed' = [Owed EXCEPT ![c] = amount[c]] /\ Owed[c] = 0
    BY <1>1 DEF SameTransaction, Owed, LedgerTypeOK
  <2>2. Owed \in [Calls -> Nat] /\ IsFiniteSet(Calls) /\ Total(Owed) \in Nat
    BY <1>1, LedgerTotals
  <2>3. Total([Owed EXCEPT ![c] = amount[c]]) = Total(Owed) - Owed[c] + amount[c]
    BY <1>1, <2>2, TotalUpdate
  <2>4. QED
    BY <1>1, <2>1, <2>2, <2>3
<1>3. again' = again + amount[c] /\ UNCHANGED <<journal, copy, settled>>
  BY DEF SameTransaction
<1>4. QED
  BY <1>1, <1>2, <1>3, LedgerTotals DEF LedgerInv, NothingInvented

(* What record is about to write is what the file shows and what was owed. *)
LEMMA ReadKeepsLedger ==
    ASSUME LedgerInv, LedgerTypeOK', NEW c \in Calls, ReadJournal(c)
    PROVE  NothingInvented'
<1> DEFINE p == ProcessOf[c]
           j == [Read EXCEPT ![day] = @ + amount[c]]
<1>1. /\ LedgerTypeOK /\ p \in Processes /\ amount[c] \in Nat /\ day \in Days
      /\ copy \in [Processes -> [Days -> Nat]]
  BY CallsAssumption DEF LedgerInv, LedgerTypeOK
<1>2. Total(Owed') = Total(Owed) - amount[c]
  <2>1. Owed' = [Owed EXCEPT ![c] = 0] /\ Owed[c] = amount[c]
    BY <1>1 DEF ReadJournal, Recordable, Owed, LedgerTypeOK
  <2>2. Owed \in [Calls -> Nat] /\ IsFiniteSet(Calls) /\ Total(Owed) \in Nat
    BY <1>1, LedgerTotals
  <2>3. Total([Owed EXCEPT ![c] = 0]) = Total(Owed) - Owed[c] + 0
    <3> DEFINE none == 0
    <3>1. none \in Nat
      OBVIOUS
    <3> HIDE DEF none
    <3>2. Total([Owed EXCEPT ![c] = none]) = Total(Owed) - Owed[c] + none
      BY <2>2, <3>1, TotalUpdate
    <3>3. QED
      BY <3>2 DEF none
  <2>4. QED
    BY <1>1, <2>1, <2>2, <2>3
<1>3. Total(Prune(j)) <= Total(Read) + amount[c] /\ Total(Prune(j)) \in Nat
  <2>1. Read \in [Days -> Nat] /\ IsFiniteSet(Days)
    BY <1>1, LedgerTotals
  <2>2. j \in [Days -> Nat] /\ Total(j) = Total(Read) + amount[c]
    BY <1>1, <2>1, AddedToDay
  <2> HIDE DEF j
  <2>3. Prune(j) \in [Days -> Nat] /\ Total(Prune(j)) <= Total(j)
    BY <2>2, PruneAddsNothing
  <2>4. QED
    BY <2>1, <2>2, <2>3, TotalType
<1>4. copy' = [copy EXCEPT ![p] = Prune(j)] /\ UNCHANGED <<journal, settled, again>>
  BY DEF ReadJournal
<1> HIDE DEF j, p
<1>5. /\ Total(journal) + Total(Owed) <= Total(settled) + again
      /\ \A q \in Processes : Total(copy[q]) + Total(Owed) <= Total(settled) + again
  BY DEF LedgerInv, NothingInvented
<1>6. Total(Prune(j)) + Total(Owed') <= Total(settled) + again
  BY <1>1, <1>2, <1>3, <1>5, LedgerTotals
<1>7. ASSUME NEW q \in Processes
      PROVE  Total(copy'[q]) + Total(Owed') <= Total(settled) + again
  <2>1. CASE q = p
    BY <1>1, <1>4, <1>6, <2>1
  <2>2. CASE q # p
    BY <1>1, <1>2, <1>4, <1>5, <2>2, LedgerTotals
  <2>3. QED
    BY <2>1, <2>2
<1>8. Total(journal) + Total(Owed') <= Total(settled) + again
  BY <1>1, <1>2, <1>5, LedgerTotals
<1>9. QED
  BY <1>4, <1>7, <1>8 DEF NothingInvented

LEMMA WriteKeepsLedger ==
    ASSUME LedgerInv, LedgerTypeOK', NEW c \in Calls, WriteJournal(c)
    PROVE  NothingInvented'
<1>1. Owed' = Owed
  BY DEF WriteJournal, Owed, LedgerInv, LedgerTypeOK
<1>2. ProcessOf[c] \in Processes
  BY CallsAssumption
<1>3. QED
  BY <1>1, <1>2 DEF WriteJournal, LedgerInv, NothingInvented

LEMMA NextLedgerInv == LedgerInv /\ [Next]_vars => LedgerInv'
<1> SUFFICES ASSUME LedgerInv, [Next]_vars
             PROVE  LedgerInv'
  OBVIOUS
<1>1. LedgerTypeOK /\ LedgerTypeOK'
  BY NextLedgerType DEF LedgerInv
<1> SUFFICES NothingInvented'
  BY <1>1 DEF LedgerInv
<1> USE DEF Owed
<1>2. ASSUME NEW c \in Calls, NEW n \in Amounts, Pay(c, n) \/ InitUser(c, n)
      PROVE  NothingInvented'
  <2>1. \A d \in Calls : Owed'[d] <= Owed[d]
    BY <1>1, <1>2 DEF Pay, InitUser, Begin, LedgerTypeOK
  <2>2. QED
    BY <1>1, <1>2, <2>1, OwesLess DEF Pay, InitUser, Begin
<1>3. ASSUME NEW c \in Calls, Vanish(c) \/ GiveUp(c) \/ Truncate(c)
      PROVE  NothingInvented'
  <2>1. \A d \in Calls : Owed'[d] <= Owed[d]
    BY <1>1, <1>3 DEF Vanish, GiveUp, Truncate, LedgerTypeOK
  <2>2. QED
    BY <1>1, <1>3, <2>1, OwesLess DEF Vanish, GiveUp, Truncate
<1>4. ASSUME NEW p \in Processes, Crash(p)
      PROVE  NothingInvented'
  <2>1. \A d \in Calls : Owed'[d] <= Owed[d]
    BY <1>1, <1>4 DEF Crash, LedgerTypeOK
  <2>2. QED
    BY <1>1, <1>4, <2>1, OwesLess DEF Crash
<1>5. CASE Midnight \/ UNCHANGED vars
  <2>1. \A d \in Calls : Owed'[d] <= Owed[d]
    BY <1>1, <1>5 DEF Midnight, vars, LedgerTypeOK
  <2>2. QED
    BY <1>1, <1>5, <2>1, OwesLess DEF Midnight, vars
<1>6. QED
  BY <1>1, <1>2, <1>3, <1>4, <1>5, SettleKeepsLedger, SameKeepsLedger, ReadKeepsLedger,
     WriteKeepsLedger DEF Next, CallStep

(* The journal claims no more than was paid and what transactions answered *)
(* once more, for any number of processes on one file, lost updates, torn  *)
(* files and crashes.                                                      *)
THEOREM JournalIsModest == Spec => []JournalNeverOverstates
<1>1. Init => LedgerInv
  <2> SUFFICES ASSUME Init
               PROVE  LedgerInv
    OBVIOUS
  <2>1. LedgerTypeOK
    BY CapsAreNat DEF Init, LedgerTypeOK, Steps
  <2>2. Total(journal) = 0 /\ Total(settled) = 0 /\ again = 0
    BY <2>1, LedgerTotals, TotalZero DEF Init, LedgerTypeOK
  <2>3. Total(Owed) = 0
    BY <2>1, LedgerTotals, TotalZero DEF Init, Owed
  <2>4. \A p \in Processes : copy[p] = journal
    BY DEF Init
  <2>5. QED
    BY <2>1, <2>2, <2>3, <2>4 DEF LedgerInv, NothingInvented
<1>2. LedgerInv => JournalNeverOverstates
  BY LedgerTotals DEF LedgerInv, NothingInvented, JournalNeverOverstates
<1>3. QED
  BY <1>1, <1>2, NextLedgerInv, PTL DEF Spec
=============================================================================
