--------------------------- MODULE PrepaidProofs ---------------------------
(***************************************************************************)
(* Theorems about Prepaid, for any number of runs and any amounts, in both *)
(* pairs of programs.                                                      *)
(***************************************************************************)
EXTENDS Prepaid, TotalsTheorems

(* A run that has been started has an account and an amount.               *)
Started ==
    \A r \in Runs : pc[r] # "new" => ref[r] \in Refs /\ units[r] \in 1 .. MaxUnits

(* What a run has not paid for yet: its first payment, before the program  *)
(* opens the session, and its second, before it is asked for.              *)
Early ==
    {"new", "loaded", "checking", "opening", "adrift"} \cup
        IF Gateway THEN {"saving"} ELSE {}

Unpaid ==
    \A r \in Runs :
        /\ pc[r] \in Early => paid[Payment(r)] = 0
        /\ ~again[r] => paid[<<r, TRUE>>] = 0

(* A receipt on its way to the server is worth what the run will ask for,  *)
(* whichever run's receipt it is.                                          *)
Receipts ==
    \A r \in Runs : pc[r] \in {"opened", "posting", "sent"} => paid[sig[r]] = Price(r)

SeenArePaid == \A p \in seen : paid[p] > 0

(* What the server has seen receipts for. *)
Accepted == [p \in Payments |-> IF p \in seen THEN paid[p] ELSE 0]

CreditIsAccepted == Total(credited) = Total(Accepted)

(* While the gateway's runs follow each other: one at a time is under way; *)
(* one that has saved works on the account that the file names or is just  *)
(* being given, and so does what it left behind; one that has not yet will *)
(* not change the name; and who rewrites the file has truncated it.        *)
(* CreditIsReachable alone would not survive a top-up.                     *)
OneAtATime ==
    \A q, r \in Runs :
        pc[q] \notin Ends \cup {"new"} /\ pc[r] \notin Ends \cup {"new"} => q = r

Kept(x) == x = file \/ \E r \in Runs : pc[r] = "saving" /\ ref[r] = x

OnFile ==
    \A r \in Runs :
        /\ pc[r] = "loaded" => ref[r] = Loaded(r)
        /\ pc[r] = "saving" => file = NoRef
        /\ pc[r] \in Steps \ {"new", "loaded", "ended"} => Kept(ref[r])

CreditOnFile == \A x \in Refs : credited[x] > 0 => Kept(x)

Following == Gateway /\ alone /\ ~cut => OneAtATime /\ OnFile

IInv ==
    /\ TypeOK
    /\ Started /\ Unpaid /\ Receipts /\ SeenArePaid /\ CreditIsAccepted
    /\ Following /\ CreditIsReachable

-----------------------------------------------------------------------------
(* What the steps of a run have in common. *)

LEMMA GoFacts ==
    ASSUME TypeOK, NEW r \in Runs, NEW from, NEW to \in Steps, Go(r, from, to)
    PROVE  /\ pc' \in [Runs -> Steps]
           /\ pc[r] = from /\ pc'[r] = to
           /\ \A q \in Runs : q # r => pc'[q] = pc[q]
BY DEF TypeOK, Go

LEMMA PriceType ==
    ASSUME TypeOK, NEW r \in Runs, units[r] \in 1 .. MaxUnits
    PROVE  Price(r) \in Nat /\ Price(r) > 0
BY PrepaidAssumption DEF Price

LEMMA FinitePayments == IsFiniteSet(Payments)
<1>1. IsFiniteSet({TRUE} \cup {FALSE})
  BY FS_Singleton, FS_Union
<1>2. BOOLEAN = {TRUE} \cup {FALSE}
  OBVIOUS
<1>3. QED
  BY <1>1, <1>2, PrepaidAssumption, FS_Product DEF Payments

LEMMA StartFacts ==
    ASSUME NEW r \in Runs, NEW n \in 1 .. MaxUnits, Buy(r, n) \/ UseCredit(r, n) \/ Chat(r, n)
    PROVE  \E first \in Steps \ {"new"} :
              /\ Start(r, n, first)
              /\ Gateway => first = "loaded"
              /\ first \in {"opening", "using", "loaded"}
BY DEF Buy, UseCredit, Chat, Steps

LEMMA KindStays == Next => UNCHANGED <<client, alone>>
BY DEF Next, Buy, UseCredit, Chat, Start, SaveRef, WriteRef, Check, OpenSession,
   OpenReturns, SameTransaction, TopUp, Replay, CreditAnswered, Serve, PaymentRequired,
   Fail, CloseSession, kind

LEMMA PaymentType == TypeOK => \A r \in Runs : Payment(r) \in Payments
BY DEF TypeOK, Payment, Payments

-----------------------------------------------------------------------------
(* The inductive step, one lemma for each part of the invariant.           *)

LEMMA TypeStep ==
    ASSUME TypeOK, Started, Next
    PROVE  TypeOK'
<1>1. ASSUME NEW r \in Runs, NEW n \in 1 .. MaxUnits,
             Buy(r, n) \/ UseCredit(r, n) \/ Chat(r, n)
      PROVE  TypeOK'
  <2>1. PICK first \in Steps \ {"new"} : Start(r, n, first)
    BY <1>1, StartFacts
  <2>2. Loaded(r) \in Refs
    BY DEF Loaded, Refs, TypeOK
  <2>3. pc' \in [Runs -> Steps]
    BY <2>1, GoFacts DEF Start
  <2>4. ref' \in [Runs -> Refs \cup {NoRef}] /\ units' \in [Runs -> 0 .. MaxUnits]
    BY <2>1, <2>2, PrepaidAssumption DEF Start, TypeOK
  <2>5. UNCHANGED <<kind, saved, session, again, sig, server, books>>
    BY <2>1 DEF Start
  <2>6. QED
    BY <2>3, <2>4, <2>5 DEF TypeOK, kind, saved, server, books
<1>2. ASSUME NEW r \in Runs, SaveRef(r) \/ WriteRef(r)
      PROVE  TypeOK'
  <2>1. pc[r] # "new" /\ pc' \in [Runs -> Steps]
    BY <1>2, GoFacts DEF SaveRef, WriteRef, Steps, Ends
  <2>2. ref[r] \in Refs
    BY <2>1 DEF Started
  <2>3. QED
    BY <1>2, <2>1, <2>2 DEF SaveRef, WriteRef, TypeOK, kind, server, books
<1>3. ASSUME NEW r \in Runs,
             Check(r) \/ OpenReturns(r) \/ Replay(r) \/ CreditAnswered(r) \/ Fail(r)
      PROVE  TypeOK'
  <2>1. pc' \in [Runs -> Steps]
    BY <1>3, GoFacts DEF Check, OpenReturns, Replay, CreditAnswered, Fail, Steps, Ends
  <2>2. cut' \in BOOLEAN
    BY <1>3 DEF Check, OpenReturns, Replay, CreditAnswered, Fail, TypeOK, saved
  <2>3. QED
    BY <1>3, <2>1, <2>2 DEF Check, OpenReturns, Replay, CreditAnswered, Fail, TypeOK,
       kind, saved, server, books
<1>4. ASSUME NEW r \in Runs, OpenSession(r)
      PROVE  TypeOK'
  <2>1. pc[r] # "new" /\ pc' \in [Runs -> Steps]
    BY <1>4, GoFacts DEF OpenSession, Steps, Ends
  <2>2. Price(r) \in Nat /\ Payment(r) \in Payments
    BY <2>1, PriceType, PaymentType DEF Started
  <2>3. QED
    BY <1>4, <2>1, <2>2 DEF OpenSession, TypeOK, kind, saved, server
<1>5. ASSUME NEW r \in Runs, NEW q \in Runs, SameTransaction(r, q)
      PROVE  TypeOK'
  <2>1. pc' \in [Runs -> Steps]
    BY <1>5, GoFacts DEF SameTransaction, Steps
  <2>2. QED
    BY <1>5, <2>1 DEF SameTransaction, TypeOK, kind, saved, server, books
<1>6. ASSUME NEW r \in Runs, TopUp(r)
      PROVE  TypeOK'
  <2>1. pc[r] # "new" /\ pc' \in [Runs -> Steps]
    BY <1>6, GoFacts DEF TopUp, Steps, Ends
  <2>2. Price(r) \in Nat /\ ref[r] \in Refs
    BY <2>1, PriceType DEF Started
  <2> DEFINE n == Price(r)
  <2>3. /\ remaining' = [remaining EXCEPT ![ref[r]] = @ + n]
        /\ credited' = [credited EXCEPT ![ref[r]] = @ + n]
        /\ seen' = seen \cup {sig[r]}
        /\ UNCHANGED <<kind, saved, session, ref, units, again, sig, used, paid>>
    BY <1>6 DEF TopUp
  <2> HIDE DEF n
  <2>4. n \in Nat
    BY <2>2 DEF n
  <2>5. /\ remaining' \in [Refs -> Nat] /\ credited' \in [Refs -> Nat]
        /\ \A x \in Refs : credited'[x] = remaining'[x] + used'[x]
    BY <2>2, <2>3, <2>4 DEF TypeOK
  <2>6. QED
    BY <2>1, <2>3, <2>5 DEF TypeOK, kind, saved
<1>7. ASSUME NEW r \in Runs, Serve(r)
      PROVE  TypeOK'
  <2>1. pc[r] # "new" /\ pc' \in [Runs -> Steps]
    BY <1>7, GoFacts DEF Serve, Steps, Ends
  <2>2. ref[r] \in Refs /\ units[r] \in Nat /\ units[r] <= remaining[ref[r]]
    BY <1>7, <2>1, PrepaidAssumption DEF Started, Serve, Covered
  <2>3. /\ remaining' \in [Refs -> Nat] /\ used' \in [Refs -> Nat]
        /\ \A x \in Refs : credited[x] = remaining'[x] + used'[x]
    BY <1>7, <2>2 DEF Serve, TypeOK
  <2>4. QED
    BY <1>7, <2>1, <2>3 DEF Serve, TypeOK, kind, saved, books
<1>8. ASSUME NEW r \in Runs, PaymentRequired(r)
      PROVE  TypeOK'
  <2>1. pc' \in [Runs -> Steps]
    BY <1>8, GoFacts DEF PaymentRequired, Steps, Ends
  <2>2. QED
    BY <1>8, <2>1 DEF PaymentRequired, TypeOK, kind, saved, server, books
<1>9. CASE CloseSession
  BY <1>9 DEF CloseSession, TypeOK, kind, saved, run, server, books
<1>10. QED
  BY <1>1, <1>2, <1>3, <1>4, <1>5, <1>6, <1>7, <1>8, <1>9 DEF Next

LEMMA StartedStep ==
    ASSUME TypeOK, Started, Next
    PROVE  Started'
<1>1. ASSUME NEW r \in Runs, NEW n \in 1 .. MaxUnits,
             Buy(r, n) \/ UseCredit(r, n) \/ Chat(r, n)
      PROVE  Started'
  <2>1. PICK first \in Steps \ {"new"} : Start(r, n, first)
    BY <1>1, StartFacts
  <2>2. Loaded(r) \in Refs
    BY DEF Loaded, Refs, TypeOK
  <2>3. \A q \in Runs : q # r => pc'[q] = pc[q]
    BY <2>1, GoFacts DEF Start
  <2>4. QED
    BY <2>1, <2>2, <2>3 DEF Start, Started, TypeOK
<1>2. ASSUME NEW r \in Runs, NEW from \in Steps \ {"new"}, NEW to \in Steps,
             Go(r, from, to), UNCHANGED <<ref, units>>
      PROVE  Started'
  BY <1>2, GoFacts DEF Started
<1>3. ASSUME NEW r \in Runs, NEW q \in Runs,
             \/ SaveRef(r) \/ WriteRef(r) \/ Check(r) \/ OpenSession(r) \/ OpenReturns(r)
             \/ SameTransaction(r, q) \/ TopUp(r) \/ Replay(r) \/ CreditAnswered(r)
             \/ Serve(r) \/ PaymentRequired(r) \/ Fail(r)
      PROVE  Started'
  BY <1>2, <1>3 DEF SaveRef, WriteRef, Check, OpenSession, OpenReturns, SameTransaction, TopUp,
     Replay, CreditAnswered, Serve, PaymentRequired, Fail, Steps, Ends
<1>4. CASE CloseSession
  BY <1>4 DEF CloseSession, run, Started
<1>5. QED
  BY <1>1, <1>3, <1>4 DEF Next

LEMMA UnpaidStep ==
    ASSUME IInv, Next
    PROVE  Unpaid'
<1>1. TypeOK /\ Started /\ Unpaid /\ UNCHANGED Early
  BY KindStays DEF IInv, Early, Gateway
<1>2. ASSUME NEW r \in Runs, NEW from \in Early, NEW to \in Steps,
             Go(r, from, to), UNCHANGED <<again, paid>>
      PROVE  Unpaid'
  <2>1. \A q \in Runs : pc'[q] \in Early => pc[q] \in Early
    BY <1>1, <1>2, GoFacts
  <2>2. QED
    BY <1>1, <1>2, <2>1 DEF Unpaid, Payment
<1>3. ASSUME NEW r \in Runs, NEW from \in Steps, NEW to \in Steps \ Early,
             Go(r, from, to), UNCHANGED <<again, paid>>
      PROVE  Unpaid'
  <2>1. \A q \in Runs : pc'[q] \in Early => pc[q] \in Early
    BY <1>1, <1>3, GoFacts
  <2>2. QED
    BY <1>1, <1>3, <2>1 DEF Unpaid, Payment
<1>4. ASSUME NEW r \in Runs, NEW n \in 1 .. MaxUnits,
             Buy(r, n) \/ UseCredit(r, n) \/ Chat(r, n)
      PROVE  Unpaid'
  <2>1. PICK first \in Steps \ {"new"} : Start(r, n, first)
    BY <1>4, StartFacts
  <2>2. QED
    BY <1>2, <2>1 DEF Start, Steps, Early, books
<1>5. ASSUME NEW r \in Runs, NEW q \in Runs,
             \/ SaveRef(r) \/ WriteRef(r) \/ Check(r) \/ SameTransaction(r, q)
             \/ OpenReturns(r) \/ TopUp(r) \/ Replay(r) \/ CreditAnswered(r) \/ Serve(r)
             \/ Fail(r)
      PROVE  Unpaid'
  <2>1. Check(r) \/ SameTransaction(r, q) => Unpaid'
    BY <1>2 DEF Check, SameTransaction, Steps, Early, books
  <2>2. OpenReturns(r) \/ TopUp(r) \/ Replay(r) \/ CreditAnswered(r) \/ Serve(r) => Unpaid'
    BY <1>3 DEF OpenReturns, TopUp, Replay, CreditAnswered, Serve, Steps, Ends, Early,
       books
  <2>3. Fail(r) => Unpaid'
    BY <1>2, <1>3 DEF Fail, Steps, Ends, Early, books
  <2>4. SaveRef(r) \/ WriteRef(r) => Unpaid'
    BY <1>2, <1>3 DEF SaveRef, WriteRef, Steps, Ends, Early, books
  <2>5. QED
    BY <1>5, <2>1, <2>2, <2>3, <2>4
<1>6. ASSUME NEW r \in Runs, OpenSession(r)
      PROVE  Unpaid'
  <2>1. /\ pc'[r] \notin Early
        /\ \A q \in Runs : q # r => pc'[q] = pc[q]
        /\ UNCHANGED again
        /\ paid' = [paid EXCEPT ![Payment(r)] = Price(r)]
    BY <1>1, <1>6, GoFacts DEF OpenSession, Steps, Ends, Early
  <2>2. \A q \in Runs : q # r => /\ paid'[Payment(q)] = paid[Payment(q)]
                                 /\ paid'[<<q, TRUE>>] = paid[<<q, TRUE>>]
    BY <1>1, <2>1 DEF Payment, TypeOK, Payments
  <2>3. ~again[r] => paid'[<<r, TRUE>>] = paid[<<r, TRUE>>]
    BY <1>1, <2>1 DEF Payment, TypeOK, Payments
  <2>4. QED
    BY <1>1, <2>1, <2>2, <2>3 DEF Unpaid, Payment
<1>7. ASSUME NEW r \in Runs, PaymentRequired(r)
      PROVE  Unpaid'
  <2>1. /\ again' = [again EXCEPT ![r] = TRUE] /\ UNCHANGED paid
        /\ pc'[r] = IF Gateway /\ ~again[r] THEN "checking" ELSE "ended"
        /\ \A q \in Runs : q # r => pc'[q] = pc[q]
    BY <1>1, <1>7, GoFacts DEF PaymentRequired, Steps, Ends, books
  <2>2. again'[r] = TRUE /\ \A q \in Runs : q # r => again'[q] = again[q]
    BY <1>1, <2>1 DEF TypeOK
  <2>3. pc'[r] \in Early => paid'[<<r, TRUE>>] = 0
    BY <1>1, <2>1 DEF Unpaid, Early
  <2>4. QED
    BY <1>1, <2>1, <2>2, <2>3 DEF Unpaid, Payment
<1>8. CASE CloseSession
  BY <1>1, <1>8 DEF CloseSession, run, books, Unpaid, Payment
<1>9. QED
  BY <1>4, <1>5, <1>6, <1>7, <1>8 DEF Next

LEMMA ReceiptsStep ==
    ASSUME IInv, Next
    PROVE  Receipts'
<1>1. TypeOK /\ Started /\ Unpaid /\ Receipts
  BY DEF IInv
<1> DEFINE Holding == {"opened", "posting", "sent"}
<1>2. ASSUME NEW r \in Runs, NEW from \in Steps, NEW to \in Steps,
             Go(r, from, to), to \in Holding => from \in Holding,
             UNCHANGED <<client, again, units, sig, paid>>
      PROVE  Receipts'
  BY <1>1, <1>2, GoFacts DEF Receipts, Price, Gateway
<1>3. ASSUME NEW r \in Runs, NEW n \in 1 .. MaxUnits,
             Buy(r, n) \/ UseCredit(r, n) \/ Chat(r, n)
      PROVE  Receipts'
  <2>1. PICK first \in Steps \ {"new"} : Start(r, n, first) /\ first \notin Holding
    BY <1>3, StartFacts
  <2>2. /\ pc'[r] \notin Holding
        /\ \A q \in Runs : q # r => /\ pc'[q] = pc[q] /\ units'[q] = units[q]
        /\ UNCHANGED <<client, again, sig, paid>>
    BY <1>1, <2>1, GoFacts DEF Start, TypeOK, kind, books
  <2>3. QED
    BY <1>1, <2>2 DEF Receipts, Price, Gateway
<1>4. ASSUME NEW r \in Runs,
             \/ SaveRef(r) \/ WriteRef(r) \/ Check(r) \/ OpenReturns(r) \/ TopUp(r) \/ Replay(r)
             \/ CreditAnswered(r) \/ Serve(r) \/ Fail(r)
      PROVE  Receipts'
  BY <1>2, <1>4 DEF SaveRef, WriteRef, Check, OpenReturns, TopUp, Replay, CreditAnswered,
     Serve, Fail, Steps, Ends, kind, server, books
<1>5. ASSUME NEW r \in Runs, OpenSession(r)
      PROVE  Receipts'
  <2>1. /\ pc[r] \in {"opening", "adrift"}
        /\ \A q \in Runs : q # r => pc'[q] = pc[q]
        /\ UNCHANGED <<client, again, units>>
        /\ paid' = [paid EXCEPT ![Payment(r)] = Price(r)]
        /\ sig' = [sig EXCEPT ![r] = Payment(r)]
    BY <1>1, <1>5, GoFacts DEF OpenSession, Steps, Ends, kind
  <2>2. paid[Payment(r)] = 0 /\ Payment(r) \in Payments
    BY <1>1, <2>1, PaymentType DEF Unpaid, Early
  <2>3. ASSUME NEW q \in Runs, q # r, pc'[q] \in Holding
        PROVE  paid'[sig'[q]] = Price(q)
    <3>1. paid[sig[q]] = Price(q) /\ Price(q) > 0
      BY <1>1, <2>1, <2>3, PriceType DEF Receipts, Started
    <3>2. sig'[q] = sig[q] /\ sig[q] # Payment(r)
      BY <1>1, <2>1, <2>2, <2>3, <3>1 DEF TypeOK
    <3>3. QED
      BY <1>1, <2>1, <3>1, <3>2 DEF TypeOK
  <2>4. paid'[sig'[r]] = Price(r)
    BY <1>1, <2>1, <2>2 DEF TypeOK
  <2>5. QED
    BY <2>1, <2>3, <2>4 DEF Receipts, Price, Gateway
<1>6. ASSUME NEW r \in Runs, NEW q \in Runs, SameTransaction(r, q)
      PROVE  Receipts'
  <2>1. /\ pc[q] \in Holding /\ Price(q) = Price(r)
        /\ \A p \in Runs : p # r => pc'[p] = pc[p]
        /\ UNCHANGED <<client, again, units, paid>>
        /\ sig' = [sig EXCEPT ![r] = sig[q]]
    BY <1>1, <1>6, GoFacts DEF SameTransaction, Steps, kind, books
  <2>2. paid[sig[q]] = Price(r)
    BY <1>1, <2>1 DEF Receipts
  <2>3. QED
    BY <1>1, <2>1, <2>2 DEF Receipts, Price, Gateway, TypeOK
<1>7. ASSUME NEW r \in Runs, PaymentRequired(r)
      PROVE  Receipts'
  <2>1. /\ pc'[r] \notin Holding
        /\ \A q \in Runs : q # r => pc'[q] = pc[q] /\ again'[q] = again[q]
        /\ UNCHANGED <<client, units, sig, paid>>
    BY <1>1, <1>7, GoFacts DEF PaymentRequired, Steps, Ends, TypeOK, kind, books
  <2>2. QED
    BY <1>1, <2>1 DEF Receipts, Price, Gateway
<1>8. CASE CloseSession
  BY <1>1, <1>8 DEF CloseSession, kind, run, books, Receipts, Price, Gateway
<1>9. QED
  BY <1>3, <1>4, <1>5, <1>6, <1>7, <1>8 DEF Next

(* The server credits what a receipt it has not seen is worth. *)
LEMMA TopUpCredits ==
    ASSUME IInv, NEW r \in Runs, TopUp(r)
    PROVE  /\ SeenArePaid'
           /\ CreditIsAccepted'
<1>1. TypeOK /\ Started /\ Receipts /\ SeenArePaid /\ CreditIsAccepted
  BY DEF IInv
<1> DEFINE n == Price(r)
           x == ref[r]
           p == sig[r]
           f == Accepted
<1>2. pc[r] \in {"posting", "sent"}
  BY DEF TopUp, Go
<1>3. n \in Nat /\ n > 0 /\ x \in Refs /\ p \in Payments
  BY <1>1, <1>2, PriceType DEF Started, TypeOK
<1>4. paid[p] = n /\ p \notin seen
  BY <1>1, <1>2 DEF Receipts, TopUp, Fresh
<1>5. /\ seen' = seen \cup {p} /\ UNCHANGED paid
      /\ credited' = [credited EXCEPT ![x] = @ + n]
  BY DEF TopUp
<1>6. SeenArePaid'
  BY <1>1, <1>3, <1>4, <1>5 DEF SeenArePaid
<1>7. f \in [Payments -> Nat] /\ f[p] = 0
  BY <1>1, <1>3, <1>4 DEF Accepted, TypeOK
<1>8. Accepted' = [f EXCEPT ![p] = n]
  BY <1>1, <1>3, <1>4, <1>5 DEF Accepted, TypeOK
<1>9. credited \in [Refs -> Nat] /\ IsFiniteSet(Refs) /\ Total(credited) = Total(f)
  BY <1>1, PrepaidAssumption DEF TypeOK, Refs, CreditIsAccepted
<1> HIDE DEF n, x, p, f
<1>10. Total([f EXCEPT ![p] = n]) = Total(f) - f[p] + n
  BY <1>3, <1>7, FinitePayments, TotalUpdate
<1>11. Total(credited') = Total(credited) - credited[x] + (credited[x] + n)
  <2> DEFINE m == credited[x] + n
  <2>1. credited' = [credited EXCEPT ![x] = m]
    BY <1>5
  <2>2. m \in Nat /\ x \in Refs /\ credited \in [Refs -> Nat] /\ IsFiniteSet(Refs)
    BY <1>3, <1>9
  <2> HIDE DEF m
  <2>3. Total([credited EXCEPT ![x] = m]) = Total(credited) - credited[x] + m
    BY <2>2, TotalUpdate
  <2>4. QED
    BY <2>1, <2>3 DEF m
<1>12. Total(f) \in Nat /\ credited[x] \in Nat
  BY <1>3, <1>7, <1>9, FinitePayments, TotalType
<1>13. Total(credited') = Total(Accepted')
  BY <1>3, <1>7, <1>8, <1>9, <1>10, <1>11, <1>12
<1>14. QED
  BY <1>6, <1>13 DEF CreditIsAccepted

(* A session that is opened has not been credited yet. *)
LEMMA OpenSessionCredits ==
    ASSUME IInv, NEW r \in Runs, OpenSession(r)
    PROVE  SeenArePaid' /\ CreditIsAccepted'
<1>1. TypeOK /\ Started /\ Unpaid /\ SeenArePaid /\ CreditIsAccepted
  BY DEF IInv
<1>2. /\ pc[r] \in {"opening", "adrift"}
      /\ paid' = [paid EXCEPT ![Payment(r)] = Price(r)]
      /\ UNCHANGED <<seen, credited>>
  BY DEF OpenSession, Go, server
<1>3. Payment(r) \notin seen
  <2>1. paid[Payment(r)] = 0
    BY <1>1, <1>2 DEF Unpaid, Early
  <2>2. QED
    BY <1>1, <2>1 DEF SeenArePaid
<1>4. \A p \in seen : paid'[p] = paid[p]
  BY <1>1, <1>2, <1>3 DEF TypeOK
<1>5. SeenArePaid'
  BY <1>1, <1>2, <1>4 DEF SeenArePaid
<1>6. Accepted' = Accepted
  BY <1>2, <1>4 DEF Accepted
<1>7. QED
  BY <1>1, <1>2, <1>5, <1>6 DEF CreditIsAccepted

LEMMA CreditStep ==
    ASSUME IInv, Next
    PROVE  SeenArePaid' /\ CreditIsAccepted'
<1>1. SeenArePaid /\ CreditIsAccepted
  BY DEF IInv
<1>2. CASE UNCHANGED <<seen, paid, credited>>
  BY <1>1, <1>2 DEF SeenArePaid, CreditIsAccepted, Accepted
<1>3. ASSUME NEW r \in Runs, NEW q \in Runs, NEW n \in 1 .. MaxUnits,
             \/ Buy(r, n) \/ UseCredit(r, n) \/ Chat(r, n) \/ SaveRef(r)
             \/ WriteRef(r) \/ Check(r) \/ OpenReturns(r) \/ SameTransaction(r, q)
             \/ Replay(r) \/ CreditAnswered(r) \/ Serve(r) \/ PaymentRequired(r) \/ Fail(r)
      PROVE  UNCHANGED <<seen, paid, credited>>
  BY <1>3 DEF Buy, UseCredit, Chat, Start, SaveRef, WriteRef, Check, OpenReturns,
     SameTransaction, Replay, CreditAnswered, Serve, PaymentRequired, Fail, server, books
<1>4. 1 \in 1 .. MaxUnits
  BY PrepaidAssumption
<1>5. CASE CloseSession
  BY <1>2, <1>5 DEF CloseSession, server, books
<1>6. QED
  BY <1>2, <1>3, <1>4, <1>5, OpenSessionCredits, TopUpCredits DEF Next

-----------------------------------------------------------------------------
(* Runs that follow each other. *)

LEMMA FollowingStep ==
    ASSUME IInv, Next
    PROVE  Following' /\ CreditIsReachable'
<1>1. TypeOK /\ Started /\ Following /\ CreditIsReachable
  BY DEF IInv
<1>2. UNCHANGED <<client, alone>> /\ (cut => cut')
  <2>1. cut => cut'
    BY DEF Next, Buy, UseCredit, Chat, Start, SaveRef, WriteRef, Check, OpenSession,
       OpenReturns, SameTransaction, TopUp, Replay, CreditAnswered, Serve,
       PaymentRequired, Fail, CloseSession, saved
  <2>2. QED
    BY <2>1, KindStays
<1> SUFFICES ASSUME Gateway, alone, ~cut, ~cut'
             PROVE  Following' /\ CreditIsReachable'
  BY <1>2 DEF Following, CreditIsReachable, Gateway
<1> DEFINE Idle == Ends \cup {"new"}
           Named == Steps \ {"new", "loaded", "ended"}
<1>3. OneAtATime /\ OnFile /\ CreditOnFile
  BY <1>1 DEF Following, CreditIsReachable, CreditOnFile, Kept
<1>4. SUFFICES OneAtATime' /\ OnFile' /\ CreditOnFile'
  BY DEF Following, CreditIsReachable, CreditOnFile, Kept
<1>5. ASSUME NEW r \in Runs, NEW from \in Steps \ {"new", "saving"},
             NEW to \in Steps \ {"new", "loaded", "saving"},
             Go(r, from, to), UNCHANGED <<ref, file>>,
             to \notin Idle => from \notin Idle, to \in Named => from \in Named
      PROVE  OneAtATime' /\ OnFile' /\ \A x \in Refs : Kept(x) => Kept(x)'
  <2>1. /\ pc[r] = from /\ pc'[r] = to
        /\ \A q \in Runs : q # r => pc'[q] = pc[q]
    BY <1>1, <1>5, GoFacts
  <2>2. \A q \in Runs : pc'[q] \notin Idle => pc[q] \notin Idle
    BY <1>5, <2>1
  <2>3. \A x : Kept(x) => Kept(x)'
    BY <1>5, <2>1 DEF Kept
  <2>4. QED
    BY <1>3, <1>5, <2>1, <2>2, <2>3 DEF OneAtATime, OnFile, Loaded, Ends
<1>6. ASSUME NEW r \in Runs, NEW n \in 1 .. MaxUnits,
             Buy(r, n) \/ UseCredit(r, n) \/ Chat(r, n)
      PROVE  OneAtATime' /\ OnFile' /\ CreditOnFile'
  <2>1. Start(r, n, "loaded")
    BY <1>6, StartFacts
  <2>2. /\ \A q \in Runs : pc[q] \in Idle
        /\ pc'[r] = "loaded" /\ ref'[r] = Loaded(r)
        /\ \A q \in Runs : q # r => pc'[q] = pc[q] /\ ref'[q] = ref[q]
        /\ UNCHANGED <<file, credited>>
    BY <1>1, <2>1, GoFacts DEF Start, Steps, TypeOK, saved, books
  <2>3. \A x : Kept(x) => x = file'
    BY <2>2 DEF Kept, Ends
  <2>4. QED
    BY <1>3, <2>2, <2>3 DEF OneAtATime, OnFile, CreditOnFile, Kept, Loaded, Ends
<1>7. ASSUME NEW r \in Runs, SaveRef(r)
      PROVE  OneAtATime' /\ OnFile' /\ CreditOnFile'
  <2>1. /\ pc[r] = "loaded" /\ pc'[r] = "saving"
        /\ \A q \in Runs : q # r => pc'[q] = pc[q]
        /\ file' = NoRef
        /\ UNCHANGED <<ref, credited>>
    BY <1>1, <1>7, GoFacts DEF SaveRef, Steps, books
  <2>2. \A x \in Refs : Kept(x) => x = ref[r]
    <3>1. \A q \in Runs : pc[q] # "saving"
      BY <1>3, <2>1 DEF OneAtATime, Ends
    <3>2. QED
      BY <1>3, <2>1, <3>1, PrepaidAssumption DEF Kept, OnFile, Loaded, Refs
  <2>3. \A x \in Refs : Kept(x) => Kept(x)'
    BY <2>1, <2>2 DEF Kept
  <2>4. OneAtATime'
    BY <1>3, <2>1 DEF OneAtATime, Ends
  <2>5. \A q \in Runs : q # r => pc'[q] # "loaded"
    BY <1>3, <2>1 DEF OneAtATime, Ends
  <2>6. Kept(ref[r])'
    BY <2>1 DEF Kept
  <2>7. \A q \in Runs : pc[q] \in Named => ref[q] \in Refs
    BY <1>1 DEF Started
  <2>8. QED
    BY <1>3, <2>1, <2>3, <2>4, <2>5, <2>6, <2>7 DEF OnFile, CreditOnFile
<1>8. ASSUME NEW r \in Runs, WriteRef(r)
      PROVE  OneAtATime' /\ OnFile' /\ CreditOnFile'
  <2>1. /\ pc[r] = "saving" /\ pc'[r] = "checking"
        /\ \A q \in Runs : q # r => pc'[q] = pc[q]
        /\ file' = ref[r]
        /\ UNCHANGED <<ref, credited>>
    BY <1>1, <1>8, GoFacts DEF WriteRef, Steps, books
  <2>2. \A q \in Runs : q # r => pc[q] \in Idle
    BY <1>3, <2>1 DEF OneAtATime, Ends
  <2>3. \A x \in Refs : Kept(x) => x = file'
    BY <1>3, <2>1, <2>2, PrepaidAssumption DEF Kept, OnFile, Refs, Ends
  <2>4. \A q \in Runs : pc[q] \in Named => ref[q] \in Refs
    BY <1>1 DEF Started
  <2>5. OneAtATime'
    BY <1>3, <2>1 DEF OneAtATime, Ends
  <2>6. QED
    BY <1>3, <2>1, <2>2, <2>3, <2>4, <2>5 DEF OnFile, CreditOnFile, Kept, Ends
<1>9. ASSUME NEW r \in Runs, TopUp(r)
      PROVE  OneAtATime' /\ OnFile' /\ CreditOnFile'
  <2>1. pc[r] \in {"posting", "sent"} /\ UNCHANGED <<ref, file>>
    BY <1>9 DEF TopUp, Go, saved
  <2>2. Kept(ref[r])
    BY <1>3, <2>1 DEF OnFile, Steps, Ends
  <2>3. \A x \in Refs : x # ref[r] => credited'[x] = credited[x]
    BY <1>1, <1>9 DEF TopUp, TypeOK
  <2>4. Go(r, "posting", "credited") \/ Go(r, "sent", "ended")
    BY <1>9 DEF TopUp
  <2>5. OneAtATime' /\ OnFile' /\ \A x \in Refs : Kept(x) => Kept(x)'
    BY <1>5, <2>1, <2>4 DEF Steps, Ends
  <2>6. CreditOnFile'
    BY <1>3, <2>2, <2>3, <2>5 DEF CreditOnFile
  <2>7. QED
    BY <2>5, <2>6
<1>10. ASSUME NEW r \in Runs, NEW q \in Runs,
              \/ Check(r) \/ OpenSession(r) \/ OpenReturns(r) \/ SameTransaction(r, q)
              \/ Replay(r) \/ CreditAnswered(r) \/ Serve(r) \/ PaymentRequired(r)
              \/ Fail(r)
       PROVE  OneAtATime' /\ OnFile' /\ CreditOnFile'
  <2> DEFINE Good == OneAtATime' /\ OnFile' /\ \A x \in Refs : Kept(x) => Kept(x)'
  <2>1. UNCHANGED <<ref, file, credited>>
    BY <1>10 DEF Check, OpenSession, OpenReturns, SameTransaction, Replay,
       CreditAnswered, Serve, PaymentRequired, Fail, saved, books
  <2>2. Check(r) \/ OpenReturns(r) \/ SameTransaction(r, q) \/ Replay(r) => Good
    BY <1>5, <2>1 DEF Check, OpenReturns, SameTransaction, Replay, Steps, Ends
  <2>3. OpenSession(r) => Good
    BY <1>5, <2>1 DEF OpenSession, Steps, Ends
  <2>4. CreditAnswered(r) \/ Serve(r) \/ PaymentRequired(r) => Good
    BY <1>5, <2>1 DEF CreditAnswered, Serve, PaymentRequired, Steps, Ends
  <2>5. Fail(r) => Good
    <3>1. Fail(r) => pc[r] # "saving"
      BY DEF Fail
    <3>2. QED
      BY <1>5, <2>1, <3>1 DEF Fail, Go, Steps, Ends
  <2>6. QED
    BY <1>3, <1>10, <2>1, <2>2, <2>3, <2>4, <2>5 DEF CreditOnFile
<1>11. CASE CloseSession
  BY <1>3, <1>11 DEF CloseSession, saved, run, books, OneAtATime, OnFile, CreditOnFile,
     Kept, Loaded
<1>12. QED
  BY <1>6, <1>7, <1>8, <1>9, <1>10, <1>11 DEF Next

-----------------------------------------------------------------------------
LEMMA InitIInv == Init => IInv
<1> SUFFICES ASSUME Init
             PROVE  IInv
  OBVIOUS
<1>1. TypeOK
  <2>1. sig \in [Runs -> Payments] /\ paid \in [Payments -> Nat]
    BY DEF Init, Payments
  <2>2. ref \in [Runs -> Refs \cup {NoRef}] /\ units \in [Runs -> 0 .. MaxUnits]
    BY PrepaidAssumption DEF Init
  <2>3. pc \in [Runs -> Steps] /\ again \in [Runs -> BOOLEAN]
    BY DEF Init, Steps
  <2>4. \A x \in Refs : remaining[x] = 0 /\ used[x] = 0 /\ credited[x] = 0
    BY DEF Init
  <2>5. /\ remaining \in [Refs -> Nat] /\ used \in [Refs -> Nat]
        /\ credited \in [Refs -> Nat]
    BY DEF Init
  <2>6. client \in {"metered", "gateway"} /\ alone \in BOOLEAN /\ cut \in BOOLEAN /\ session \in BOOLEAN
    BY Zenon DEF Init
  <2>7. file \in Refs \cup {NoRef} /\ seen \subseteq Payments
    BY DEF Init
  <2>8. QED
    BY <2>1, <2>2, <2>3, <2>4, <2>5, <2>6, <2>7 DEF TypeOK
<1>2. Started /\ Receipts /\ SeenArePaid
  BY DEF Init, Started, Receipts, SeenArePaid
<1>3. Unpaid
  BY DEF Init, Unpaid, Early, Payment, Payments
<1>4. CreditIsAccepted
  <2> DEFINE f == Accepted
  <2>1. f \in [Payments -> Nat] /\ \A p \in Payments : f[p] = 0
    BY DEF Init, Accepted
  <2>2. credited \in [Refs -> Nat] /\ IsFiniteSet(Refs) /\ \A x \in Refs : credited[x] = 0
    BY PrepaidAssumption DEF Init, Refs
  <2> HIDE DEF f
  <2>3. Total(f) = 0 /\ Total(credited) = 0
    BY <2>1, <2>2, FinitePayments, TotalZero
  <2>4. QED
    BY <2>3 DEF CreditIsAccepted, f
<1>5. Following /\ CreditIsReachable
  BY DEF Init, Following, OneAtATime, OnFile, CreditIsReachable, Ends
<1>6. QED
  BY <1>1, <1>2, <1>3, <1>4, <1>5 DEF IInv

LEMMA NextIInv == IInv /\ [Next]_vars => IInv'
<1> SUFFICES ASSUME IInv, [Next]_vars
             PROVE  IInv'
  OBVIOUS
<1>1. CASE Next
  <2>1. TypeOK' /\ Started'
    BY <1>1, TypeStep, StartedStep DEF IInv
  <2>2. Unpaid' /\ Receipts' /\ SeenArePaid' /\ CreditIsAccepted'
    BY <1>1, UnpaidStep, ReceiptsStep, CreditStep
  <2>3. Following' /\ CreditIsReachable'
    BY <1>1, FollowingStep
  <2>4. QED
    BY <2>1, <2>2, <2>3 DEF IInv
<1>2. CASE UNCHANGED vars
  BY <1>2 DEF vars, kind, saved, run, server, books, IInv, TypeOK, Started, Unpaid, Early,
     Payment, Receipts, Price, SeenArePaid, CreditIsAccepted, Accepted, Following,
     OneAtATime, OnFile, Kept, Loaded, Gateway, CreditIsReachable
<1>3. QED
  BY <1>1, <1>2

-----------------------------------------------------------------------------
(* The theorems. *)

(* The state keeps its type: runs that use one account at the same time    *)
(* never overdraw it, and what was credited is what remains and what was   *)
(* used.                                                                   *)
THEOREM PrepaidTypeCorrect == Spec => []TypeOK
<1>1. IInv => TypeOK
  BY DEF IInv
<1>2. QED
  BY <1>1, InitIInv, NextIInv, PTL DEF Spec

(* The server, which knows a payment by its signature alone, credits no    *)
(* more than sessions were opened with: a receipt is worth what its run    *)
(* asks for, whichever run's it is, and counts once.                       *)
THEOREM CreditsArePaid == Spec => []CreditIsPaid
<1>1. IInv => CreditIsPaid
  <2> SUFFICES ASSUME TypeOK, CreditIsAccepted
               PROVE  CreditIsPaid
    BY DEF IInv
  <2> DEFINE f == Accepted
  <2>1. /\ f \in [Payments -> Nat] /\ paid \in [Payments -> Nat]
        /\ \A p \in Payments : f[p] <= paid[p]
    BY DEF Accepted, TypeOK
  <2>2. Total(credited) = Total(f)
    BY DEF CreditIsAccepted
  <2> HIDE DEF f
  <2>3. QED
    BY <2>1, <2>2, FinitePayments, TotalMonotone DEF CreditIsPaid
<1>2. QED
  BY <1>1, InitIInv, NextIInv, PTL DEF Spec

(* The gateway's client, whose runs follow each other, finds the account   *)
(* with its credit, whatever arrived late and wherever a run broke off but *)
(* between truncating and writing the file, where it does lose the credit. *)
THEOREM CreditsAreReachable == Spec => []CreditIsReachable
<1>1. IInv => CreditIsReachable
  BY DEF IInv
<1>2. QED
  BY <1>1, InitIInv, NextIInv, PTL DEF Spec

-----------------------------------------------------------------------------
(* The server implements CreditLedger. *)

(* The abstract account's credit, as Ledger maps it.                       *)
CreditView == [x \in Refs |-> remaining[x] + used[x]]

(* The view is what the account was credited with, and covers its use.     *)
Balanced ==
    /\ CreditView = credited
    /\ \A x \in Refs : used[x] <= credited[x]

LEMMA IInvIsBalanced == IInv => Balanced
<1> SUFFICES ASSUME TypeOK
             PROVE  Balanced
  BY DEF IInv
<1>1. /\ credited \in [Refs -> Nat]
      /\ \A x \in Refs : /\ remaining[x] \in Nat /\ used[x] \in Nat
                         /\ credited[x] = remaining[x] + used[x]
  BY DEF TypeOK
<1>2. CreditView = credited
  BY <1>1 DEF CreditView
<1>3. \A x \in Refs : used[x] <= credited[x]
  BY <1>1
<1>4. QED
  BY <1>2, <1>3 DEF Balanced

(* What a run is credited with is worth one of the prices. *)
LEMMA PriceIsOffered ==
    ASSUME NEW r \in Runs, units[r] \in 1 .. MaxUnits
    PROVE  Price(r) \in {TopupUnits} \cup 1 .. MaxUnits
BY DEF Price

LEMMA TopUpIsPromised ==
    ASSUME IInv, Balanced, Balanced', NEW r \in Runs, TopUp(r)
    PROVE  Ledger!Next
<1>1. /\ ref[r] \in Refs /\ Price(r) \in {TopupUnits} \cup 1 .. MaxUnits
      /\ sig[r] \in Payments
  BY PriceIsOffered DEF IInv, TypeOK, Started, TopUp, Go
<1>2. PICK p \in Payments : p = sig[r]
  BY <1>1
<1>3. /\ p \notin seen /\ seen' = seen \cup {p}
      /\ credited' = [credited EXCEPT ![ref[r]] = @ + Price(r)]
      /\ UNCHANGED used
  BY <1>2 DEF TopUp, Fresh
<1>4. CreditView' = [CreditView EXCEPT ![ref[r]] = @ + Price(r)]
  BY <1>3 DEF Balanced
<1>5. Ledger!Accept(p)
  BY <1>1, <1>3, <1>4 DEF Ledger!Accept, CreditView
<1>6. QED
  BY <1>5 DEF Ledger!Next

(* A use is within what the account was credited with, because the rest    *)
(* that it leaves is not negative.                                         *)
LEMMA ServeIsPromised ==
    ASSUME IInv, Balanced, Balanced', NEW r \in Runs, Serve(r)
    PROVE  Ledger!Next
<1> DEFINE x == ref[r]
           n == units[r]
<1>1. x \in Refs /\ n \in 1 .. MaxUnits /\ used \in [Refs -> Nat]
  BY DEF IInv, TypeOK, Started, Serve, Go
<1>2. used' = [used EXCEPT ![x] = @ + n] /\ UNCHANGED <<seen, credited>>
  BY DEF Serve, books
<1> HIDE DEF x, n
<1>3. used[x] + n <= CreditView[x] /\ UNCHANGED CreditView
  <2>1. used'[x] = used[x] + n
    BY <1>1, <1>2
  <2>2. used'[x] <= credited'[x] /\ CreditView = credited /\ CreditView' = credited
    BY <1>1, <1>2 DEF Balanced
  <2>3. QED
    BY <1>2, <2>1, <2>2
<1>4. Ledger!Spend(x, n)
  BY <1>2, <1>3 DEF Ledger!Spend, CreditView
<1>5. QED
  BY <1>1, <1>4 DEF Ledger!Next

(* No other step touches an account. *)
LEMMA OtherStepIsSilent ==
    ASSUME Next, \A r \in Runs : ~TopUp(r) /\ ~Serve(r)
    PROVE  UNCHANGED <<seen, used, credited>>
BY DEF Next, Buy, UseCredit, Chat, Start, SaveRef, WriteRef, Check, OpenSession,
   OpenReturns, SameTransaction, Replay, CreditAnswered, PaymentRequired, Fail,
   CloseSession, server, books

(* The server keeps the promise of CreditLedger at every single step: a    *)
(* receipt counts once and for one account, and an account's uses stay     *)
(* within its credit, whatever runs overlap, break off or share a receipt. *)
THEOREM UsesKeepLedger == Spec => KeepsLedger
<1>1. Init => Ledger!Init
  <2> SUFFICES ASSUME Init
               PROVE  Ledger!Init
    OBVIOUS
  <2>1. CreditView = [x \in Refs |-> 0]
    BY InitIInv, IInvIsBalanced DEF Init, Balanced
  <2>2. QED
    BY <2>1 DEF Init, Ledger!Init, CreditView
<1>2. IInv /\ Balanced /\ Balanced' /\ [Next]_vars => [Ledger!Next]_Ledger!vars
  <2> SUFFICES ASSUME IInv, Balanced, Balanced', [Next]_vars
               PROVE  [Ledger!Next]_Ledger!vars
    OBVIOUS
  <2>1. CASE UNCHANGED <<seen, used, credited>>
    <3>1. UNCHANGED CreditView
      BY <2>1 DEF Balanced
    <3>2. QED
      BY <2>1, <3>1 DEF Ledger!vars, CreditView
  <2>2. CASE UNCHANGED vars
    BY <2>1, <2>2 DEF vars, server, books
  <2>3. CASE Next
    BY <2>1, <2>3, TopUpIsPromised, ServeIsPromised, OtherStepIsSilent
  <2>4. QED
    BY <2>2, <2>3
<1>3. QED
  BY <1>1, <1>2, InitIInv, NextIInv, IInvIsBalanced, PTL
     DEF Spec, KeepsLedger, Ledger!Spec
============================================================================
