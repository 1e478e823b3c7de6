---------------------------- MODULE ClientProofs ----------------------------
(***************************************************************************)
(* Theorems about Client, for any wallets, merchants, lists, session       *)
(* tokens, front ends and amounts, and any number of topUps at a time.     *)
(* What the program does with the instructions is taken from               *)
(* PaymentSessionsProofs: each step of a client is one of its steps, or    *)
(* leaves the program alone.                                               *)
(***************************************************************************)
EXTENDS Client, TotalsTheorems

(* The same instance as P, with the theorems. *)
Sessions == INSTANCE PaymentSessionsProofs WITH
        U64Max <- Supply, Sponsorship <- 1, SessionRent <- 0, UserMintRent <- 0

-----------------------------------------------------------------------------
(* What P and Sessions define is the same, and so are sums and sizes.      *)
LEMMA OneArithmetic ==
    /\ \A S : IsFiniteSet(S) = Sessions!IsFiniteSet(S)
    /\ \A f : Total(f) = Sessions!Total(f)
BY DEF IsFiniteSet, Sessions!IsFiniteSet, Total, Sessions!Total, Units, Sessions!Units,
       Cardinality, Sessions!Cardinality

LEMMA OneState ==
    /\ P!Init = Sessions!Init
    /\ P!TypeOK = Sessions!TypeOK
    /\ \A s, u : P!SignedFor(s, u) = Sessions!SignedFor(s, u)
    /\ \A u, k : P!Held(u, k) = Sessions!Held(u, k)
    /\ \A a, p, k : P!HoldsMint(a, p, k) = Sessions!HoldsMint(a, p, k)
    /\ \A a, b, n : P!CanTransfer(a, b, n) = Sessions!CanTransfer(a, b, n)
    /\ \A a, b, n : P!Transfer(a, b, n) = Sessions!Transfer(a, b, n)
    /\ \A a, h, n : P!CanReserve(a, h, n) = Sessions!CanReserve(a, h, n)
BY DEF P!Init, Sessions!Init, P!TypeOK, Sessions!TypeOK, P!SessionIds, Sessions!SessionIds,
       P!SignedFor, Sessions!SignedFor, P!Held, Sessions!Held,
       P!HoldsMint, Sessions!HoldsMint, P!CanTransfer, Sessions!CanTransfer,
       P!Transfer, Sessions!Transfer, P!CanReserve, Sessions!CanReserve,
       P!Available, Sessions!Available

LEMMA OneInstruction ==
    ASSUME NEW s, NEW u, NEW m, NEW k, NEW a, NEW b, NEW n
    PROVE  /\ P!InitUser(u) => Sessions!InitUser(u)
           /\ P!DelegateUser(u) => Sessions!DelegateUser(u)
           /\ P!EnsureUserMint(s, u, k) => Sessions!EnsureUserMint(s, u, k)
           /\ P!OpenEmpty(s, u, m, k, a) => Sessions!OpenEmpty(s, u, m, k, a)
           /\ P!OpenFunded(s, u, m, k, a, n) => Sessions!OpenFunded(s, u, m, k, a, n)
           /\ P!Deposit(s, u, m, k, a, n) => Sessions!Deposit(s, u, m, k, a, n)
           /\ P!Charge(s, u, m, k, a, b, n) => Sessions!Charge(s, u, m, k, a, b, n)
           /\ P!CloseWithoutUserMint(s, u, m, k) => Sessions!CloseWithoutUserMint(s, u, m, k)
           /\ P!CloseSession(s, u, m, k) => Sessions!CloseSession(s, u, m, k)
           /\ P!Withdraw(s, u, k, a, b, n) => Sessions!Withdraw(s, u, k, a, b, n)
           /\ P!GrantKey(u, s) => Sessions!GrantKey(u, s)
           /\ P!RevokeKey(u, s) => Sessions!RevokeKey(u, s)
           /\ P!WalletTransfer(a, b, n) => Sessions!WalletTransfer(a, b, n)
<1>1. P!InitUser(u) => Sessions!InitUser(u)
  BY DEF P!InitUser, Sessions!InitUser
<1>2. P!DelegateUser(u) => Sessions!DelegateUser(u)
  BY DEF P!DelegateUser, Sessions!DelegateUser
<1>3. P!EnsureUserMint(s, u, k) => Sessions!EnsureUserMint(s, u, k)
  BY OneState DEF P!EnsureUserMint, Sessions!EnsureUserMint
<1>4. P!OpenEmpty(s, u, m, k, a) => Sessions!OpenEmpty(s, u, m, k, a)
  BY OneState DEF P!OpenEmpty, Sessions!OpenEmpty
<1>5. P!OpenFunded(s, u, m, k, a, n) => Sessions!OpenFunded(s, u, m, k, a, n)
  BY OneState DEF P!OpenFunded, Sessions!OpenFunded
<1>6. P!Deposit(s, u, m, k, a, n) => Sessions!Deposit(s, u, m, k, a, n)
  BY OneState DEF P!Deposit, Sessions!Deposit
<1>7. P!Charge(s, u, m, k, a, b, n) => Sessions!Charge(s, u, m, k, a, b, n)
  BY OneState DEF P!Charge, Sessions!Charge, P!MayCharge, Sessions!MayCharge,
     P!MerchantAccount, Sessions!MerchantAccount, P!CanDebit, Sessions!CanDebit
<1>8. P!CloseWithoutUserMint(s, u, m, k) => Sessions!CloseWithoutUserMint(s, u, m, k)
  BY OneState DEF P!CloseWithoutUserMint, Sessions!CloseWithoutUserMint
<1>9. P!CloseSession(s, u, m, k) => Sessions!CloseSession(s, u, m, k)
  BY OneState DEF P!CloseSession, Sessions!CloseSession,
     P!HeldAfterClose, Sessions!HeldAfterClose, P!Idle, Sessions!Idle,
     P!CloseRefund, Sessions!CloseRefund
<1>10. P!Withdraw(s, u, k, a, b, n) => Sessions!Withdraw(s, u, k, a, b, n)
  BY OneState DEF P!Withdraw, Sessions!Withdraw, P!CanWithdraw, Sessions!CanWithdraw,
     P!Available, Sessions!Available
<1>11. P!GrantKey(u, s) => Sessions!GrantKey(u, s)
  BY DEF P!GrantKey, Sessions!GrantKey
<1>12. P!RevokeKey(u, s) => Sessions!RevokeKey(u, s)
  BY DEF P!RevokeKey, Sessions!RevokeKey
<1>13. P!WalletTransfer(a, b, n) => Sessions!WalletTransfer(a, b, n)
  BY OneState DEF P!WalletTransfer, Sessions!WalletTransfer
<1>14. QED
  BY <1>1, <1>2, <1>3, <1>4, <1>5, <1>6, <1>7, <1>8, <1>9, <1>10, <1>11, <1>12, <1>13

-----------------------------------------------------------------------------
(* Addresses.  Those of different kinds, and of different owners, differ.  *)
LEMMA AddressesDiffer ==
    /\ \A v, w : Ata(v) = Ata(w) => v = w
    /\ \A v, w : Eata(v) = Eata(w) => v = w
    /\ \A v, w : UserPda(v) = UserPda(w) => v = w
    /\ \A v, w : Ata(v) # Eata(w)
    /\ \A u \in Users, to \in Payees : Eata(u) # Eata(to)
<1>1. \A u \in Users, to \in Payees : u # to
  BY ClientAssumption
<1>2. QED
  BY <1>1 DEF Ata, Eata, UserPda

(* Accounts, their owners and what is in them at first. *)
LEMMA AccountFacts ==
    /\ \A w \in Payers : /\ Ata(w) \in Accounts
                         /\ Owner[Ata(w)] = w
                         /\ InitialBalance[Ata(w)] = Funds[w]
    /\ \A o \in Users \cup Payees : /\ Eata(o) \in Accounts
                                    /\ Owner[Eata(o)] = o
                                    /\ InitialBalance[Eata(o)] = 0
    /\ \A a \in Accounts : MintOf[a] = Mint
    /\ \A a \in Accounts : \/ \E w \in Payers : a = Ata(w)
                           \/ \E o \in Users \cup Payees : a = Eata(o)
<1>1. /\ \A w \in Payers : Ata(w) \in Accounts
      /\ \A o \in Users \cup Payees : Eata(o) \in Accounts
      /\ \A a \in Accounts : \/ \E w \in Payers : a = Ata(w)
                             \/ \E o \in Users \cup Payees : a = Eata(o)
  BY DEF Accounts
<1>2. QED
  BY <1>1 DEF Owner, MintOf, InitialBalance, Ata, Eata

LEMMA FiniteParts == IsFiniteSet(Payers) /\ IsFiniteSet(Merchants) /\ IsFiniteSet(Accounts)
<1>1. IsFiniteSet(Payers) /\ IsFiniteSet(Merchants) /\ IsFiniteSet(Owners)
      /\ IsFiniteSet(Payees)
  BY ClientAssumption, FS_Subset DEF Keys
<1>2. IsFiniteSet(Users)
  <2> DEFINE f == [w \in Owners |-> UserPda(w)]
  <2>1. f \in Surjection(Owners, Users)
    BY DEF Surjection, Users
  <2> HIDE DEF f
  <2>2. QED
    BY <1>1, <2>1, FS_Surjection
<1>3. IsFiniteSet({Ata(w) : w \in Payers})
  <2> DEFINE f == [w \in Payers |-> Ata(w)]
  <2>1. f \in Surjection(Payers, {Ata(w) : w \in Payers})
    BY DEF Surjection
  <2> HIDE DEF f
  <2>2. QED
    BY <1>1, <2>1, FS_Surjection
<1>4. IsFiniteSet({Eata(o) : o \in Users \cup Payees})
  <2> DEFINE f == [o \in Users \cup Payees |-> Eata(o)]
  <2>1. f \in Surjection(Users \cup Payees, {Eata(o) : o \in Users \cup Payees})
    BY DEF Surjection
  <2>2. IsFiniteSet(Users \cup Payees)
    BY <1>1, <1>2, FS_Union
  <2> HIDE DEF f
  <2>3. QED
    BY <2>1, <2>2, FS_Surjection
<1>5. QED
  BY <1>1, <1>3, <1>4, FS_Union DEF Accounts

(* All there is, is in the wallets at first.                               *)
LEMMA SupplyIsFunds ==
    /\ InitialBalance \in [Accounts -> Nat]
    /\ Supply \in Nat
    /\ Total(InitialBalance) = Supply
<1>1. \A a \in Accounts : InitialBalance[a] \in Nat
  BY AccountFacts, ClientAssumption
<1>2. InitialBalance \in [Accounts -> Nat]
  BY <1>1 DEF InitialBalance
<1> DEFINE ata == [w \in Payers |-> Ata(w)]
<1>3. ata \in Injection(Payers, Accounts)
  BY AccountFacts, AddressesDiffer DEF Injection, IsInjective
<1>4. \A w \in Payers : InitialBalance[ata[w]] = Funds[w]
  BY AccountFacts
<1>5. \A a \in Accounts : (\A w \in Payers : a # ata[w]) => InitialBalance[a] = 0
  BY AccountFacts
<1> HIDE DEF ata
<1>6. Total(InitialBalance) = Total(Funds) /\ Total(Funds) \in Nat
  BY <1>2, <1>3, <1>4, <1>5, FiniteParts, ClientAssumption, TotalRename, TotalType
<1>7. QED
  BY <1>2, <1>6 DEF Supply

(* The theorems of Sessions hold because its assumptions do. *)
LEMMA SessionsAssumed ==
    /\ Sessions!PartiesAssumption
    /\ Sessions!AccountsAssumption
    /\ Sessions!NumbersAssumption
    /\ Sessions!SupplyAssumption
<1>1. Sessions!PartiesAssumption
  <2>1. Authority \in [Users -> Keys]
        /\ \A u, v \in Users : Authority[u] = Authority[v] => u = v
    BY ClientAssumption DEF Authority, Users, UserPda, Keys
  <2>2. QED
    BY <2>1, OneArithmetic, FiniteParts, ClientAssumption
       DEF Sessions!PartiesAssumption, SessionKeys, Keys
<1>2. Sessions!AccountsAssumption
  <2>1. \A a \in Accounts : Owner[a] \in Users \cup Keys /\ MintOf[a] \in Mints
    BY AccountFacts, ClientAssumption DEF Keys, Mints
  <2>2. Owner \in [Accounts -> Users \cup Keys] /\ MintOf \in [Accounts -> Mints]
    BY <2>1 DEF Owner, MintOf
  <2>3. QED
    BY <2>2, OneArithmetic, FiniteParts DEF Sessions!AccountsAssumption
<1>3. Sessions!NumbersAssumption
  BY SupplyIsFunds DEF Sessions!NumbersAssumption
<1>4. Sessions!SupplyAssumption
  <2>1. ASSUME NEW k \in Mints
        PROVE  [a \in Accounts |-> IF MintOf[a] = k THEN InitialBalance[a] ELSE 0]
                  = InitialBalance
    BY AccountFacts, SupplyIsFunds DEF Mints
  <2>2. QED
    BY <2>1, OneArithmetic, SupplyIsFunds DEF Sessions!SupplyAssumption
<1>5. QED
  BY <1>1, <1>2, <1>3, <1>4

-----------------------------------------------------------------------------
(* The invariant.  A call that leaves the delegation out, or has seen it   *)
(* land, has a User whose eATA is delegated.                               *)

SeesDelegation(c) ==
    \/ call[c] = NoCall
    \/ call[c].step \in {"inits", "deposit"}
    \/ call[c].step = "delegate" /\ call[c].phase # "landed"
    \/ OnRollup(UserPda(call[c].authority))

CallsSeeDelegation == \A c \in Calls : SeesDelegation(c)

(* A transaction that has landed did what its repetitions are told it did. *)
Done(x) ==
    LET user == UserPda(x.authority)
    IN  /\ x.step = "delegate" => OnRollup(user)
        /\ x.step = "ensure" => stage[user] = "delegated"

LandedIsDone == \A x \in landed : Done(x)

IInv ==
    /\ Sessions!IInv
    /\ TypeOK
    /\ CallsSeeDelegation
    /\ LandedIsDone
    /\ OnlyPayable /\ TopUpUsable /\ DepositRecorded

(* The units of w that calls are about to record. *)
Unrecorded(w) ==
    [c \in Calls |-> IF call[c] # NoCall /\ call[c].by = w /\ call[c].phase = "landed"
                     THEN Landed(c) ELSE 0]

(* A call that is under way has all its fields. *)
LEMMA CallFacts ==
    ASSUME TypeOK, NEW c \in Calls
    PROVE  /\ call[c] \in TopUpCalls \/ call[c] = NoCall
           /\ NoCall.phase = "none"
           /\ call[c].phase # "none" => call[c] \in TopUpCalls
           /\ call[c] \in TopUpCalls => /\ call[c] # NoCall
                                        /\ call[c].phase \in Phases
                                        /\ call[c].step \in Steps
                                        /\ call[c].by \in Payers
                                        /\ call[c].authority \in Owners
                                        /\ UserPda(call[c].authority) \in Users
                                        /\ call[c].units \in Nat \ {0}
                                        /\ call[c].units \in Amounts
BY ClientAssumption DEF TypeOK, TopUpCalls, NoCall, Phases, Amounts, Users

(* What a call sends is a transaction. *)
LEMMA SentType ==
    ASSUME NEW c \in Calls, call[c] \in TopUpCalls
    PROVE  Sent(c) \in Transactions
<1>1. /\ call[c].step \in Steps /\ call[c].by \in Payers /\ call[c].authority \in Owners
      /\ call[c].units \in 0 .. MaxUnits /\ call[c].token \in BOOLEAN
  BY ClientAssumption DEF TopUpCalls, Amounts
<1>2. 0 \in 0 .. MaxUnits /\ (call[c].step = "ensure" /\ call[c].token) \in BOOLEAN
  BY ClientAssumption
<1>3. QED
  BY <1>1, <1>2 DEF Sent, Transactions

(* The balances are naturals, within the supply. *)
LEMMA BalanceFacts ==
    ASSUME TypeOK
    PROVE  /\ balance \in [Accounts -> Nat]
           /\ \A a \in Accounts : balance[a] <= Supply
           /\ \A w \in Payers : balance[Ata(w)] \in Nat
           /\ \A o \in Users \cup Payees : balance[Eata(o)] \in Nat
<1>1. balance \in [Accounts -> 0 .. Supply]
  BY DEF TypeOK, P!TypeOK
<1>2. QED
  BY <1>1, AccountFacts, SupplyIsFunds

(* Going from one transaction of a topUp to another. *)
LEMMA GotoEffect ==
    ASSUME TypeOK, NEW c \in Calls, call[c] \in TopUpCalls,
           NEW step \in Steps, NEW phase \in Phases, Goto(c, step, phase)
    PROVE  /\ call' \in [Calls -> TopUpCalls \cup {NoCall}]
           /\ \A d \in Calls : d # c => call'[d] = call[d]
           /\ call'[c] # NoCall
           /\ call'[c].step = step /\ call'[c].phase = phase
           /\ call'[c].by = call[c].by
           /\ call'[c].authority = call[c].authority
           /\ call'[c].units = call[c].units
<1>1. call' = [call EXCEPT ![c] = [call[c] EXCEPT !.step = step, !.phase = phase]]
  BY DEF Goto, TypeOK
<1>2. [call[c] EXCEPT !.step = step, !.phase = phase] \in TopUpCalls
  BY DEF TopUpCalls
<1>3. call' \in [Calls -> TopUpCalls \cup {NoCall}] /\ call'[c] \in TopUpCalls
  BY <1>1, <1>2 DEF TypeOK
<1>4. \A x \in TopUpCalls : x # NoCall
  BY DEF TopUpCalls, NoCall, Phases
<1>5. QED
  BY <1>1, <1>3, <1>4 DEF TypeOK, TopUpCalls

-----------------------------------------------------------------------------
(* What steps do to the ledger. *)

(* Somebody is entitled to be paid: whoever a wallet's client lets through, *)
(* and a merchant that something has been set aside for.                   *)
Entitled(to) ==
    \/ \E s \in Payers : Trusts(s, to)
    \/ to \in Merchants /\ \E u \in Users : remaining[<<u, to, Mint>>] > 0

(* A method of the client, topUp apart, pays from a User to one that is    *)
(* entitled, or pays nothing, and sets aside for those that are trusted by *)
(* one who acts for the User.                                              *)
MethodEffect ==
    /\ UNCHANGED <<eata, front, client>>
    /\ \A u \in Users : stage[u] = "delegated" => stage'[u] = "delegated"
    /\ \/ UNCHANGED balance
       \/ \E u \in Users, to \in Payees, n \in Nat \ {0} :
             /\ n <= balance[Eata(u)]
             /\ P!Transfer(Eata(u), Eata(to), n)
             /\ Entitled(to)
    /\ \A u \in Users, m \in Merchants :
          remaining'[<<u, m, Mint>>] > remaining[<<u, m, Mint>>] =>
              \E s \in Payers : ActsFor(s, u) /\ Trusts(s, m)

(* Payable is the same check as the one that the properties are about.     *)
LEMMA PayableIsTrusted == \A s, to : Payable(s, to) => Trusts(s, to)
BY DEF Payable, Trusts

LEMMA AuthorisedActs ==
    ASSUME NEW s, NEW u, NEW t, Authorised(u, s, t), PassesToken(s, u, t)
    PROVE  ActsFor(s, u)
BY DEF Authorised, PassesToken, ActsFor

(* Only open_session and deposit raise what is set aside. *)
LEMMA OpenSessionEffect ==
    ASSUME TypeOK, NEW s \in Payers, NEW w \in Owners, NEW m \in Merchants,
           NEW n \in 0 .. MaxUnits, NEW t \in BOOLEAN, OpenSession(s, w, m, n, t)
    PROVE  MethodEffect
<1> DEFINE u == UserPda(w)
           x == <<u, m, Mint>>
<1>1. /\ remaining \in [P!SessionIds -> Nat] /\ x \in P!SessionIds
      /\ u \in Users /\ n \in Nat
  BY ClientAssumption, SupplyIsFunds
     DEF TypeOK, P!TypeOK, P!SessionIds, Mints, Users
<1>2. /\ remaining' = [remaining EXCEPT ![x] = n]
      /\ UNCHANGED <<stage, balance, eata, front, client>>
  BY DEF OpenSession, openSessionIx, SessionAccounts, P!OpenEmpty, P!OpenFunded
<1>3. n > 0 => ActsFor(s, u) /\ Trusts(s, m)
  BY PayableIsTrusted, AuthorisedActs
     DEF OpenSession, MayPay, MayCall, openSessionIx, SessionAccounts
<1> HIDE DEF u
<1>4. ASSUME NEW v \in Users, NEW k \in Merchants,
             remaining'[<<v, k, Mint>>] > remaining[<<v, k, Mint>>]
      PROVE  v = u /\ k = m /\ n > 0
  <2>1. <<v, k, Mint>> \in P!SessionIds
    BY DEF P!SessionIds, Mints
  <2>2. <<v, k, Mint>> = x
    BY <1>1, <1>2, <1>4, <2>1
  <2>3. remaining'[x] = n /\ remaining[x] \in Nat
    BY <1>1, <1>2
  <2>4. QED
    BY <1>1, <1>4, <2>2, <2>3
<1>5. QED
  BY <1>2, <1>3, <1>4 DEF MethodEffect

LEMMA DepositEffect ==
    ASSUME TypeOK, NEW s \in Payers, NEW w \in Owners, NEW m \in Merchants,
           NEW n \in Amounts, NEW t \in BOOLEAN, Deposit(s, w, m, n, t)
    PROVE  MethodEffect
<1> DEFINE u == UserPda(w)
           x == <<u, m, Mint>>
<1>1. /\ remaining \in [P!SessionIds -> Nat] /\ x \in P!SessionIds
      /\ u \in Users /\ n \in Nat
  BY ClientAssumption, SupplyIsFunds
     DEF TypeOK, P!TypeOK, P!SessionIds, Mints, Users, Amounts
<1>2. /\ remaining' = [remaining EXCEPT ![x] = @ + n]
      /\ UNCHANGED <<stage, balance, eata, front, client>>
  BY DEF Deposit, depositIx, SessionAccounts, P!Deposit
<1>3. ActsFor(s, u) /\ Trusts(s, m)
  BY PayableIsTrusted, AuthorisedActs DEF Deposit, MayCall, depositIx, SessionAccounts
<1> HIDE DEF u
<1>4. ASSUME NEW v \in Users, NEW k \in Merchants,
             remaining'[<<v, k, Mint>>] > remaining[<<v, k, Mint>>]
      PROVE  v = u /\ k = m
  <2>1. <<v, k, Mint>> \in P!SessionIds
    BY DEF P!SessionIds, Mints
  <2>2. QED
    BY <1>1, <1>2, <1>4, <2>1
<1>5. QED
  BY <1>2, <1>3, <1>4 DEF MethodEffect

LEMMA ChargeEffect ==
    ASSUME TypeOK, NEW s \in Merchants, NEW w \in Owners, NEW n \in Amounts, Charge(s, w, n)
    PROVE  MethodEffect
<1> DEFINE u == UserPda(w)
           x == <<u, s, Mint>>
<1>1. /\ remaining \in [P!SessionIds -> Nat] /\ x \in P!SessionIds
      /\ u \in Users /\ s \in Payees /\ n \in Nat \ {0}
  BY ClientAssumption, SupplyIsFunds
     DEF TypeOK, P!TypeOK, P!SessionIds, Mints, Users, Amounts
<1>2. /\ remaining' = [remaining EXCEPT ![x] = @ - n]
      /\ n <= remaining[x]
      /\ n <= balance[Eata(u)]
      /\ P!Transfer(Eata(u), Eata(s), n)
      /\ UNCHANGED <<stage, eata, front, client>>
  BY DEF Charge, chargeIx, SessionAccounts, P!Charge, P!CanDebit, P!CanTransfer
<1> HIDE DEF u
<1>3. Entitled(s)
  BY <1>1, <1>2 DEF Entitled
<1>4. ASSUME NEW v \in Users, NEW k \in Merchants
      PROVE  ~(remaining'[<<v, k, Mint>>] > remaining[<<v, k, Mint>>])
  <2>1. <<v, k, Mint>> \in P!SessionIds
    BY DEF P!SessionIds, Mints
  <2>2. QED
    BY <1>1, <1>2, <2>1
<1>5. QED
  BY <1>1, <1>2, <1>3, <1>4 DEF MethodEffect

LEMMA CloseSessionEffect ==
    ASSUME TypeOK, NEW s \in Payers, NEW w \in Owners, NEW m \in Merchants,
           NEW t \in BOOLEAN, CloseSession(s, w, m, t)
    PROVE  MethodEffect
<1> DEFINE x == <<UserPda(w), m, Mint>>
<1>1. remaining \in [P!SessionIds -> Nat] /\ x \in P!SessionIds
  BY ClientAssumption, SupplyIsFunds DEF TypeOK, P!TypeOK, P!SessionIds, Mints, Users
<1>2. /\ UNCHANGED remaining \/ remaining' = [remaining EXCEPT ![x] = 0]
      /\ UNCHANGED <<stage, balance, eata, front, client>>
  BY DEF CloseSession, closeSessionIx, SessionAccounts, P!CloseSession,
         P!CloseWithoutUserMint
<1> HIDE DEF x
<1>3. ASSUME NEW v \in Users, NEW k \in Merchants
      PROVE  ~(remaining'[<<v, k, Mint>>] > remaining[<<v, k, Mint>>])
  <2>1. <<v, k, Mint>> \in P!SessionIds
    BY DEF P!SessionIds, Mints
  <2>2. QED
    BY <1>1, <1>2, <2>1
<1>4. QED
  BY <1>2, <1>3 DEF MethodEffect

LEMMA WithdrawEffect ==
    ASSUME TypeOK, NEW s \in Payers, NEW w \in Owners, NEW to \in Payees,
           NEW n \in Amounts, NEW t \in BOOLEAN, Withdraw(s, w, to, n, t)
    PROVE  MethodEffect
<1>1. UserPda(w) \in Users /\ n \in Nat \ {0}
  BY ClientAssumption DEF Users, Amounts
<1>2. /\ n <= balance[Eata(UserPda(w))]
      /\ P!Transfer(Eata(UserPda(w)), Eata(to), n)
      /\ UNCHANGED <<stage, remaining, eata, front, client>>
  BY DEF Withdraw, withdrawIx, P!Withdraw, P!CanTransfer
<1>3. Entitled(to)
  BY PayableIsTrusted DEF Withdraw, Entitled
<1>4. ASSUME NEW u \in Users, NEW m \in Merchants
      PROVE  ~(remaining'[<<u, m, Mint>>] > remaining[<<u, m, Mint>>])
  <2>1. remaining[<<u, m, Mint>>] \in Nat
    BY SupplyIsFunds DEF TypeOK, P!TypeOK, P!SessionIds, Mints
  <2>2. QED
    BY <1>2, <2>1
<1>5. QED
  BY <1>1, <1>2, <1>3, <1>4 DEF MethodEffect

(* What the others do is harmless. *)
LEMMA SetupEffect ==
    ASSUME TypeOK,
           TokenStep \/ \E s \in Owners : InitUser(s) \/ DelegateUser(s)
    PROVE  MethodEffect
<1>1. UNCHANGED <<remaining, balance, eata, front, client>>
  BY DEF TokenStep, P!GrantKey, P!RevokeKey, InitUser, initUserIx, P!InitUser,
         DelegateUser, delegateUserIx, P!DelegateUser
<1>2. \A u \in Users : stage[u] = "delegated" => stage'[u] = "delegated"
  BY DEF TokenStep, P!GrantKey, P!RevokeKey, InitUser, initUserIx, P!InitUser,
         DelegateUser, delegateUserIx, P!DelegateUser, TypeOK, P!TypeOK
<1>3. ASSUME NEW u \in Users, NEW m \in Merchants
      PROVE  ~(remaining'[<<u, m, Mint>>] > remaining[<<u, m, Mint>>])
  <2>1. remaining[<<u, m, Mint>>] \in Nat
    BY SupplyIsFunds DEF TypeOK, P!TypeOK, P!SessionIds, Mints
  <2>2. QED
    BY <1>1, <2>1
<1>4. QED
  BY <1>1, <1>2, <1>3 DEF MethodEffect

(* The transactions of a topUp move what was asked for, at the deposit,    *)
(* and leave the User with an eATA that is delegated and a User account    *)
(* that is.                                                                *)
TransactionEffect(c) ==
    LET u == UserPda(call[c].authority)
        step == call[c].step
    IN  /\ UNCHANGED <<stage, remaining>>
        /\ eata' \in [Users -> {"missing", "base", "delegated"}]
        /\ \A v \in Users : /\ eata[v] = "delegated" => eata'[v] = "delegated"
                            /\ eata'[v] = "missing" => eata[v] = "missing"
        /\ step # "deposit" => UNCHANGED balance
        /\ step = "deposit" =>
              /\ eata[u] # "missing"
              /\ call[c].units <= balance[Ata(call[c].by)]
              /\ P!Transfer(Ata(call[c].by), Eata(u), call[c].units)
        /\ step = "delegate" => eata'[u] = "delegated"
        /\ step = "ensure" => stage[u] = "delegated"

LEMMA TransactionHasEffect ==
    ASSUME TypeOK, NEW c \in Calls, call[c] \in TopUpCalls, NEW wallet, Transaction(c, wallet)
    PROVE  TransactionEffect(c)
<1> DEFINE u == UserPda(call[c].authority)
<1>1. /\ u \in Users /\ eata \in [Users -> {"missing", "base", "delegated"}]
      /\ call[c].step \in Steps
  BY CallFacts DEF TypeOK
<1>2. CASE call[c].step = "inits" /\ initAtaIxs(u)
  BY <1>1, <1>2 DEF initAtaIxs, program, TransactionEffect
<1>3. CASE call[c].step = "deposit" /\ depositSplIx(call[c].by, u, call[c].units)
  BY <1>1, <1>3 DEF depositSplIx, P!WalletTransfer, P!CanTransfer, TransactionEffect
<1>4. CASE call[c].step = "delegate" /\ delegateEphemeralAtaIx(u)
  BY <1>1, <1>4 DEF delegateEphemeralAtaIx, program, TransactionEffect
<1>5. CASE call[c].step = "ensure" /\ ensureUserMintIx(u, call[c].by, call[c].token)
  <2>1. UNCHANGED <<stage, remaining, balance, eata>> /\ stage[u] = "delegated"
    BY <1>5 DEF ensureUserMintIx, P!EnsureUserMint, ledger, program
  <2>2. QED
    BY <1>1, <1>5, <2>1 DEF TransactionEffect
<1>6. QED
  BY <1>2, <1>3, <1>4, <1>5 DEF Transaction, Payer

-----------------------------------------------------------------------------
(* Every step of a client is a step of the program, or leaves it alone.    *)

LEMMA TransactionIsSessionsStep ==
    ASSUME TypeOK, NEW c \in Calls, call[c] \in TopUpCalls, NEW wallet, Transaction(c, wallet)
    PROVE  [Sessions!Next]_program
<1> DEFINE u == UserPda(call[c].authority)
           n == call[c].units
           from == Ata(call[c].by)
           to == Eata(u)
<1>1. /\ u \in Users /\ call[c].by \in Payers /\ n \in Nat \ {0}
      /\ from \in Accounts /\ to \in Accounts
  BY CallFacts, AccountFacts
<1>2. CASE initAtaIxs(u) \/ delegateEphemeralAtaIx(u)
  BY <1>2 DEF initAtaIxs, delegateEphemeralAtaIx
<1>3. CASE depositSplIx(call[c].by, u, n)
  <2>1. P!WalletTransfer(from, to, n) /\ n <= balance[from]
    BY <1>3 DEF depositSplIx, P!WalletTransfer, P!CanTransfer
  <2>2. n \in Sessions!Amounts
    BY <1>1, <2>1, BalanceFacts, SupplyIsFunds DEF Sessions!Amounts
  <2> HIDE DEF n, from, to
  <2>3. Sessions!WalletTransfer(from, to, n)
    BY <2>1, OneInstruction
  <2>4. QED
    BY <1>1, <2>2, <2>3 DEF Sessions!Next
<1>4. CASE ensureUserMintIx(u, call[c].by, call[c].token)
  <2>1. CASE P!EnsureUserMint(call[c].by, u, Mint)
    <3>1. Sessions!EnsureUserMint(call[c].by, u, Mint)
      BY <2>1, OneInstruction
    <3>2. call[c].by \in Keys /\ Mint \in Mints
      BY <1>1 DEF Keys, Mints
    <3>3. QED
      BY <1>1, <3>1, <3>2 DEF Sessions!Next, Sessions!UserStep
  <2>2. QED
    BY <1>4, <2>1 DEF ensureUserMintIx, ledger
<1>5. QED
  BY <1>2, <1>3, <1>4 DEF Transaction, Payer

LEMMA OpenSessionIsSessionsStep ==
    ASSUME TypeOK, NEW s \in Payers, NEW w \in Owners, NEW m \in Merchants,
           NEW n \in 0 .. MaxUnits, NEW t \in BOOLEAN, OpenSession(s, w, m, n, t)
    PROVE  Sessions!Next
<1> DEFINE u == UserPda(w)
           a == Eata(u)
<1>1. /\ s \in Keys /\ u \in Users /\ Mint \in Mints /\ n \in Nat
      /\ a \in Accounts /\ balance[a] \in Nat /\ balance[a] <= Supply
  BY AccountFacts, BalanceFacts, ClientAssumption DEF Keys, Users, Mints
<1>2. \/ P!OpenEmpty(s, u, m, Mint, a)
      \/ n > 0 /\ P!OpenFunded(s, u, m, Mint, a, n)
  BY DEF OpenSession, openSessionIx, SessionAccounts
<1> HIDE DEF u, a
<1>3. CASE P!OpenEmpty(s, u, m, Mint, a)
  <2>1. Sessions!OpenEmpty(s, u, m, Mint, a)
    BY <1>3, OneInstruction
  <2>2. QED
    BY <1>1, <2>1 DEF Sessions!Next, Sessions!UserStep
<1>4. CASE n > 0 /\ P!OpenFunded(s, u, m, Mint, a, n)
  <2>1. Sessions!OpenFunded(s, u, m, Mint, a, n)
    BY <1>4, OneInstruction
  <2>2. n <= P!Available(balance[a], P!Held(u, Mint)) /\ P!Held(u, Mint) \in Nat
    BY <1>1, <1>4, SupplyIsFunds DEF P!OpenFunded, P!CanReserve, P!Held, TypeOK, P!TypeOK
  <2>3. n \in Sessions!Amounts
    BY <1>1, <1>4, <2>2, SupplyIsFunds DEF P!Available, Sessions!Amounts
  <2>4. QED
    BY <1>1, <2>1, <2>3 DEF Sessions!Next, Sessions!UserStep
<1>5. QED
  BY <1>2, <1>3, <1>4

LEMMA DepositIsSessionsStep ==
    ASSUME TypeOK, NEW s \in Payers, NEW w \in Owners, NEW m \in Merchants,
           NEW n \in Amounts, NEW t \in BOOLEAN, Deposit(s, w, m, n, t)
    PROVE  Sessions!Next
<1> DEFINE u == UserPda(w)
           a == Eata(u)
<1>1. /\ s \in Keys /\ u \in Users /\ Mint \in Mints /\ n \in Nat \ {0}
      /\ a \in Accounts /\ balance[a] \in Nat /\ balance[a] <= Supply
  BY AccountFacts, BalanceFacts, ClientAssumption DEF Keys, Users, Mints, Amounts
<1>2. P!Deposit(s, u, m, Mint, a, n)
  BY DEF Deposit, depositIx, SessionAccounts
<1> HIDE DEF u, a
<1>3. Sessions!Deposit(s, u, m, Mint, a, n)
  BY <1>2, OneInstruction
<1>4. n <= P!Available(balance[a], reserved[<<u, Mint>>]) /\ reserved[<<u, Mint>>] \in Nat
  BY <1>1, <1>2, SupplyIsFunds DEF P!Deposit, P!CanReserve, TypeOK, P!TypeOK
<1>5. n \in Sessions!Amounts
  BY <1>1, <1>4, SupplyIsFunds DEF P!Available, Sessions!Amounts
<1>6. QED
  BY <1>1, <1>3, <1>5 DEF Sessions!Next, Sessions!UserStep

LEMMA ChargeIsSessionsStep ==
    ASSUME TypeOK, NEW s \in Merchants, NEW w \in Owners, NEW n \in Amounts, Charge(s, w, n)
    PROVE  Sessions!Next
<1> DEFINE u == UserPda(w)
           a == Eata(u)
           b == Eata(s)
<1>1. /\ s \in Keys /\ u \in Users /\ Mint \in Mints /\ n \in Nat \ {0}
      /\ a \in Accounts /\ b \in Accounts /\ balance[a] \in Nat /\ balance[a] <= Supply
  BY AccountFacts, BalanceFacts, ClientAssumption DEF Keys, Users, Mints, Amounts
<1>2. P!Charge(s, u, s, Mint, a, b, n)
  BY DEF Charge, chargeIx, SessionAccounts
<1> HIDE DEF u, a, b
<1>3. Sessions!Charge(s, u, s, Mint, a, b, n)
  BY <1>2, OneInstruction
<1>4. n \in Sessions!Amounts
  BY <1>1, <1>2, SupplyIsFunds DEF P!Charge, P!CanTransfer, Sessions!Amounts
<1>5. QED
  BY <1>1, <1>3, <1>4 DEF Sessions!Next, Sessions!ChargeStep

LEMMA CloseIsSessionsStep ==
    ASSUME NEW s \in Payers, NEW w \in Owners, NEW m \in Merchants,
           NEW t \in BOOLEAN, CloseSession(s, w, m, t)
    PROVE  Sessions!Next
<1> DEFINE u == UserPda(w)
<1>1. s \in Keys /\ u \in Users /\ Mint \in Mints
  BY DEF Keys, Users, Mints
<1>2. P!CloseSession(s, u, m, Mint) \/ P!CloseWithoutUserMint(s, u, m, Mint)
  BY DEF CloseSession, closeSessionIx, SessionAccounts
<1> HIDE DEF u
<1>3. Sessions!CloseSession(s, u, m, Mint) \/ Sessions!CloseWithoutUserMint(s, u, m, Mint)
  BY <1>2, OneInstruction
<1>4. QED
  BY <1>1, <1>3 DEF Sessions!Next, Sessions!UserStep

LEMMA WithdrawIsSessionsStep ==
    ASSUME TypeOK, NEW s \in Payers, NEW w \in Owners, NEW to \in Payees,
           NEW n \in Amounts, NEW t \in BOOLEAN, Withdraw(s, w, to, n, t)
    PROVE  Sessions!Next
<1> DEFINE u == UserPda(w)
           a == Eata(u)
           b == Eata(to)
<1>1. /\ s \in Keys /\ u \in Users /\ Mint \in Mints /\ n \in Nat \ {0}
      /\ a \in Accounts /\ b \in Accounts /\ balance[a] \in Nat /\ balance[a] <= Supply
  BY AccountFacts, BalanceFacts, ClientAssumption DEF Keys, Users, Mints, Amounts
<1>2. P!Withdraw(s, u, Mint, a, b, n)
  BY DEF Withdraw, withdrawIx
<1> HIDE DEF u, a, b
<1>3. Sessions!Withdraw(s, u, Mint, a, b, n)
  BY <1>2, OneInstruction
<1>4. n \in Sessions!Amounts
  BY <1>1, <1>2, SupplyIsFunds DEF P!Withdraw, P!CanTransfer, Sessions!Amounts
<1>5. QED
  BY <1>1, <1>3, <1>4 DEF Sessions!Next, Sessions!UserStep

LEMMA SetupIsSessionsStep ==
    ASSUME TokenStep \/ \E s \in Owners : InitUser(s) \/ DelegateUser(s)
    PROVE  Sessions!Next
<1>1. ASSUME NEW s \in Owners, InitUser(s) \/ DelegateUser(s)
      PROVE  Sessions!Next
  <2>1. UserPda(s) \in Users
    BY DEF Users
  <2>2. P!InitUser(UserPda(s)) \/ P!DelegateUser(UserPda(s))
    BY <1>1 DEF InitUser, initUserIx, DelegateUser, delegateUserIx
  <2>3. Sessions!InitUser(UserPda(s)) \/ Sessions!DelegateUser(UserPda(s))
    BY <2>2, OneInstruction
  <2>4. QED
    BY <2>1, <2>3 DEF Sessions!Next
<1>2. CASE TokenStep
  <2>1. PICK x \in Tokens : P!GrantKey(x[1], x[2]) \/ P!RevokeKey(x[1], x[2])
    BY <1>2 DEF TokenStep
  <2>2. x[1] \in Users /\ x[2] \in SessionKeys
    BY ClientAssumption DEF SessionKeys
  <2>3. Sessions!GrantKey(x[1], x[2]) \/ Sessions!RevokeKey(x[1], x[2])
    BY <2>1, OneInstruction
  <2>4. QED
    BY <2>2, <2>3 DEF Sessions!Next
<1>3. QED
  BY <1>1, <1>2

-----------------------------------------------------------------------------
(* The inductive step. *)

(* A transfer, account by account. *)
LEMMA TransferFacts ==
    ASSUME TypeOK, NEW a \in Accounts, NEW b \in Accounts, a # b,
           NEW n \in Nat, n <= balance[a], P!Transfer(a, b, n)
    PROVE  /\ Total(balance)' = Supply
           /\ balance'[a] = balance[a] - n
           /\ balance'[b] = balance[b] + n
           /\ \A c \in Accounts : c # a /\ c # b => balance'[c] = balance[c]
<1>1. balance \in [Accounts -> Nat] /\ Total(balance) = Supply
  BY BalanceFacts DEF TypeOK
<1>2. balance' = [balance EXCEPT ![a] = @ - n, ![b] = @ + n]
  BY DEF P!Transfer
<1>3. /\ balance' \in [Accounts -> Nat]
      /\ balance'[a] = balance[a] - n
      /\ balance'[b] = balance[b] + n
      /\ \A c \in Accounts : c # a /\ c # b => balance'[c] = balance[c]
  BY <1>1, <1>2
<1>4. Total(balance') = Total(balance)
  BY <1>1, <1>3, FiniteParts, TotalMove
<1>5. QED
  BY <1>1, <1>3, <1>4

LEMMA ProgramTypes == Sessions!IInv' => P!TypeOK'
BY DEF Sessions!IInv, P!TypeOK, Sessions!TypeOK, P!SessionIds, Sessions!SessionIds

LEMMA MethodKeepsIInv ==
    ASSUME IInv, MethodEffect, Sessions!IInv'
    PROVE  IInv'
<1>1. /\ TypeOK /\ CallsSeeDelegation /\ OnlyPayable /\ TopUpUsable /\ DepositRecorded
      /\ UNCHANGED <<eata, front, call, recorded, landed, missed, again>>
  BY DEF IInv, MethodEffect, client
<1>2. /\ Total(balance)' = Supply
      /\ \A w \in Payers : balance'[Ata(w)] = balance[Ata(w)]
      /\ \A v \in Users : balance[Eata(v)] = 0 => balance'[Eata(v)] = 0
      /\ \A to \in Payees : balance'[Eata(to)] > 0 => balance[Eata(to)] > 0 \/ Entitled(to)
  <2>1. CASE UNCHANGED balance
    BY <1>1, <2>1 DEF TypeOK
  <2>2. ASSUME NEW u \in Users, NEW to \in Payees, NEW n \in Nat \ {0},
               n <= balance[Eata(u)], P!Transfer(Eata(u), Eata(to), n), Entitled(to)
        PROVE  <1>2!1 /\ <1>2!2 /\ <1>2!3 /\ <1>2!4
    <3>1. /\ Eata(u) \in Accounts /\ Eata(to) \in Accounts /\ Eata(u) # Eata(to)
          /\ \A w \in Payers : /\ Ata(w) \in Accounts
                               /\ Ata(w) # Eata(u) /\ Ata(w) # Eata(to)
          /\ \A v \in Users : /\ Eata(v) \in Accounts
                              /\ Eata(v) # Eata(to)
                              /\ balance[Eata(v)] \in Nat
          /\ \A p \in Payees : /\ Eata(p) \in Accounts
                               /\ Eata(p) # Eata(u)
                               /\ Eata(p) = Eata(to) => p = to
      BY <1>1, AccountFacts, AddressesDiffer, BalanceFacts
    <3>2. /\ Total(balance)' = Supply
          /\ balance'[Eata(u)] = balance[Eata(u)] - n
          /\ \A c \in Accounts : c # Eata(u) /\ c # Eata(to) => balance'[c] = balance[c]
      BY <1>1, <2>2, <3>1, TransferFacts
    <3>3. \A v \in Users : balance[Eata(v)] = 0 => v # u /\ Eata(v) # Eata(u)
      BY <2>2, <3>1, AddressesDiffer
    <3>4. QED
      BY <2>2, <3>1, <3>2, <3>3
  <2>3. QED
    BY <2>1, <2>2 DEF MethodEffect
<1>3. TypeOK'
  BY <1>1, <1>2, ProgramTypes DEF TypeOK
<1>4. CallsSeeDelegation'
  BY <1>1 DEF CallsSeeDelegation, SeesDelegation, OnRollup
<1>5. OnlyPayable'
  <2>1. ASSUME NEW to \in Payees, balance'[Eata(to)] > 0
        PROVE  \E s \in Payers : Trusts(s, to)
    BY <1>1, <1>2, <2>1 DEF OnlyPayable, Entitled
  <2>2. ASSUME NEW to \in Payees, NEW u \in Users,
               to \in Merchants, remaining'[<<u, to, Mint>>] > 0
        PROVE  \E s \in Payers : ActsFor(s, u) /\ Trusts(s, to)
    <3>1. remaining[<<u, to, Mint>>] \in Nat /\ remaining'[<<u, to, Mint>>] \in Nat
      BY <1>1, <1>3, <2>2, SupplyIsFunds DEF TypeOK, P!TypeOK, P!SessionIds, Mints
    <3>2. CASE remaining'[<<u, to, Mint>>] > remaining[<<u, to, Mint>>]
      BY <2>2, <3>2 DEF MethodEffect
    <3>3. CASE remaining[<<u, to, Mint>>] > 0
      BY <1>1, <2>2, <3>3 DEF OnlyPayable
    <3>4. QED
      BY <2>2, <3>1, <3>2, <3>3
  <2>3. QED
    BY <2>1, <2>2 DEF OnlyPayable, ActsFor, Trusts
<1>6. TopUpUsable'
  <2>1. \A c \in Calls : call[c].phase = "landed" => UserPda(call[c].authority) \in Users
    BY <1>1, CallFacts
  <2>2. QED
    BY <1>1, <2>1 DEF TopUpUsable, OnRollup, MethodEffect
<1>7. DepositRecorded'
  BY <1>1, <1>2 DEF DepositRecorded, Landed
<1>8. LandedIsDone'
  <2>1. \A x \in landed : UserPda(x.authority) \in Users
    BY <1>1 DEF TypeOK, Transactions, Users
  <2>2. QED
    BY <1>1, <2>1 DEF IInv, LandedIsDone, Done, OnRollup, MethodEffect
<1>9. QED
  BY <1>3, <1>4, <1>5, <1>6, <1>7, <1>8 DEF IInv

(* A call's own steps change what is left to be recorded by its own part.  *)
LEMMA UnrecordedUpdate ==
    ASSUME TypeOK, NEW c \in Calls, call' \in [Calls -> TopUpCalls \cup {NoCall}],
           \A d \in Calls : d # c => call'[d] = call[d], NEW w \in Payers
    PROVE  /\ Total(Unrecorded(w)) \in Nat
           /\ Unrecorded(w)[c] \in Nat /\ Unrecorded(w)'[c] \in Nat
           /\ Total(Unrecorded(w))' = Total(Unrecorded(w)) - Unrecorded(w)[c]
                                                           + Unrecorded(w)'[c]
<1> DEFINE f == Unrecorded(w)
           g == Unrecorded(w)'
           n == g[c]
<1>1. f \in [Calls -> Nat]
  <2>1. ASSUME NEW d \in Calls
        PROVE  f[d] \in Nat
    BY CallFacts DEF Unrecorded, Landed
  <2>2. QED
    BY <2>1 DEF Unrecorded
<1>2. g \in [Calls -> Nat]
  <2>1. ASSUME NEW d \in Calls
        PROVE  g[d] \in Nat
    <3>1. call'[d] \in TopUpCalls => call'[d].units \in Nat
      BY ClientAssumption DEF TopUpCalls, Amounts
    <3>2. QED
      BY <3>1 DEF Unrecorded, Landed
  <2>2. QED
    BY <2>1 DEF Unrecorded
<1>3. g = [f EXCEPT ![c] = n]
  <2>1. \A d \in Calls : d # c => g[d] = f[d]
    BY DEF Unrecorded, Landed
  <2> HIDE DEF f, g
  <2>2. QED
    BY <1>1, <1>2, <2>1
<1>4. Total([f EXCEPT ![c] = n]) = Total(f) - f[c] + n /\ Total(f) \in Nat
  <2>1. n \in Nat
    BY <1>2
  <2>2. IsFiniteSet(Calls)
    BY ClientAssumption
  <2> HIDE DEF f, g, n
  <2>3. Total(f) \in Nat
    BY <1>1, <2>2, TotalType
  <2>4. QED
    BY <1>1, <2>1, <2>2, <2>3, TotalUpdate
<1>5. QED
  BY <1>1, <1>2, <1>3, <1>4

LEMMA BooksBalance ==
    ASSUME NEW funds \in Nat, NEW b \in Nat, NEW r \in Nat, NEW m \in Nat, NEW g \in Nat,
           NEW b2 \in Nat, NEW r2 \in Nat, NEW m2 \in Nat, NEW g2 \in Nat,
           NEW t \in Nat, NEW u \in Nat, NEW u2 \in Nat, NEW t2, t2 = t - u + u2,
           funds - b + g = r + m + t,
           b + r + m + u + g2 = b2 + r2 + m2 + u2 + g
    PROVE  funds - b2 + g2 = r2 + m2 + t2
OBVIOUS

(* The books stay balanced when a step of one call changes a wallet, the   *)
(* journal, what was missed and what is to be recorded, so that they agree.*)
LEMMA BooksStep ==
    ASSUME IInv, NEW c \in Calls, call' \in [Calls -> TopUpCalls \cup {NoCall}],
           \A d \in Calls : d # c => call'[d] = call[d],
           \A w \in Payers :
              /\ balance'[Ata(w)] \in Nat /\ recorded'[w] \in Nat /\ missed'[w] \in Nat
              /\ again'[w] \in Nat
              /\ balance[Ata(w)] + recorded[w] + missed[w] + Unrecorded(w)[c] + again'[w]
                    = balance'[Ata(w)] + recorded'[w] + missed'[w] + Unrecorded(w)'[c] + again[w]
    PROVE  DepositRecorded'
<1>1. /\ TypeOK
      /\ \A w \in Payers : Funds[w] - balance[Ata(w)] + again[w]
                               = recorded[w] + missed[w] + Total(Unrecorded(w))
  BY DEF IInv, DepositRecorded, Unrecorded
<1>2. ASSUME NEW w \in Payers
      PROVE  Funds[w] - balance'[Ata(w)] + again'[w]
                = recorded'[w] + missed'[w] + Total(Unrecorded(w))'
  <2>1. /\ Total(Unrecorded(w)) \in Nat
        /\ Unrecorded(w)[c] \in Nat /\ Unrecorded(w)'[c] \in Nat
        /\ Total(Unrecorded(w))' = Total(Unrecorded(w)) - Unrecorded(w)[c]
                                                        + Unrecorded(w)'[c]
    BY <1>1, UnrecordedUpdate
  <2>2. /\ Funds[w] \in Nat /\ balance[Ata(w)] \in Nat
        /\ recorded[w] \in Nat /\ missed[w] \in Nat /\ again[w] \in Nat
    BY <1>1, BalanceFacts, ClientAssumption DEF TypeOK
  <2>3. /\ Funds[w] - balance[Ata(w)] + again[w]
              = recorded[w] + missed[w] + Total(Unrecorded(w))
        /\ balance'[Ata(w)] \in Nat /\ recorded'[w] \in Nat /\ missed'[w] \in Nat
        /\ again'[w] \in Nat
        /\ balance[Ata(w)] + recorded[w] + missed[w] + Unrecorded(w)[c] + again'[w]
              = balance'[Ata(w)] + recorded'[w] + missed'[w] + Unrecorded(w)'[c] + again[w]
    BY <1>1
  <2>4. QED
    BY <2>1, <2>2, <2>3, BooksBalance
<1>3. QED
  BY <1>2 DEF DepositRecorded, Unrecorded

(* What a topUp does, to the ledger and by itself.                         *)
TopUpLedger ==
    /\ UNCHANGED <<stage, remaining, front>>
    /\ eata' \in [Users -> {"missing", "base", "delegated"}]
    /\ \A v \in Users : /\ eata[v] = "delegated" => eata'[v] = "delegated"
                        /\ eata'[v] = "missing" => balance'[Eata(v)] = 0
    /\ Total(balance)' = Supply
    /\ \A to \in Payees : balance'[Eata(to)] = balance[Eata(to)]

TopUpBooks(c) ==
    /\ recorded' \in [Payers -> Nat] /\ missed' \in [Payers -> Nat]
    /\ again' \in [Payers -> Nat]
    /\ \A w \in Payers :
          /\ balance'[Ata(w)] \in Nat
          /\ balance[Ata(w)] + recorded[w] + missed[w] + Unrecorded(w)[c] + again'[w]
                = balance'[Ata(w)] + recorded'[w] + missed'[w] + Unrecorded(w)'[c] + again[w]

LandingIsDone ==
    /\ landed' \subseteq Transactions
    /\ \A x \in landed' \ landed : Done(x)'

UsableWhenDone(c) ==
    call[c].phase = "landed" /\ call[c].step = "ensure" =>
        stage[UserPda(call[c].authority)] = "delegated"

LEMMA CallKeepsIInv ==
    ASSUME IInv, Sessions!IInv', NEW c \in Calls,
           call' \in [Calls -> TopUpCalls \cup {NoCall}],
           \A d \in Calls : d # c => call'[d] = call[d],
           TopUpLedger, TopUpBooks(c), LandingIsDone,
           SeesDelegation(c)', UsableWhenDone(c)'
    PROVE  IInv'
<1>1. TypeOK /\ CallsSeeDelegation /\ LandedIsDone /\ OnlyPayable /\ TopUpUsable
  BY DEF IInv
<1>2. TypeOK'
  BY <1>1, ProgramTypes DEF TypeOK, TopUpLedger, TopUpBooks, LandingIsDone
<1>3. \A d \in Calls : call[d].phase # "none" => UserPda(call[d].authority) \in Users
  BY <1>1, CallFacts
<1>4. CallsSeeDelegation'
  <2>1. ASSUME NEW d \in Calls, d # c
        PROVE  SeesDelegation(d)'
    <3>1. SeesDelegation(d) /\ call'[d] = call[d]
      BY <1>1, <2>1 DEF CallsSeeDelegation
    <3>2. call[d] = NoCall \/ UserPda(call[d].authority) \in Users
      BY <1>1, CallFacts
    <3>3. QED
      BY <3>1, <3>2 DEF SeesDelegation, OnRollup, TopUpLedger
  <2>2. QED
    BY <2>1 DEF CallsSeeDelegation
<1>5. OnlyPayable'
  BY <1>1 DEF OnlyPayable, TopUpLedger, ActsFor, Trusts
<1>6. TopUpUsable'
  <2>1. ASSUME NEW d \in Calls, call'[d].phase = "landed", call'[d].step = "ensure"
        PROVE  stage'[UserPda(call'[d].authority)] = "delegated"
               /\ OnRollup(UserPda(call[d].authority))'
    <3>1. stage'[UserPda(call'[d].authority)] = "delegated"
      <4>1. CASE d = c
        BY <2>1, <4>1 DEF UsableWhenDone
      <4>2. CASE d # c
        BY <1>1, <2>1, <4>2 DEF TopUpUsable, TopUpLedger
      <4>3. QED
        BY <4>1, <4>2
    <3>2. call'[d] # NoCall
      BY <2>1 DEF NoCall
    <3>3. OnRollup(UserPda(call[d].authority))'
      BY <1>4, <2>1, <3>2 DEF CallsSeeDelegation, SeesDelegation
    <3>4. QED
      BY <3>1, <3>3
  <2>2. QED
    BY <2>1 DEF TopUpUsable
<1>7. DepositRecorded'
  BY BooksStep DEF TopUpBooks
<1>8. LandedIsDone'
  <2>1. ASSUME NEW x \in landed', x \in landed
        PROVE  Done(x)'
    <3>1. Done(x) /\ UserPda(x.authority) \in Users
      BY <1>1, <2>1 DEF LandedIsDone, TypeOK, Transactions, Users
    <3>2. QED
      BY <3>1 DEF Done, OnRollup, TopUpLedger
  <2>2. QED
    BY <2>1 DEF LandedIsDone, LandingIsDone
<1>9. QED
  BY <1>2, <1>4, <1>5, <1>6, <1>7, <1>8 DEF IInv

(* A step that leaves the ledger alone. *)
LEMMA QuietLedger ==
    ASSUME TypeOK, UNCHANGED <<ledger, front>>
    PROVE  TopUpLedger
BY DEF TopUpLedger, TypeOK, ledger, program

(* A transaction does to the ledger what CallKeepsIInv asks for, and takes *)
(* from wallets what Landed says.                                          *)
LEMMA TransactionOnLedger ==
    ASSUME TypeOK, NEW c \in Calls, call[c] \in TopUpCalls, TransactionEffect(c),
           UNCHANGED front
    PROVE  /\ TopUpLedger
           /\ \A w \in Payers :
                 /\ balance'[Ata(w)] \in Nat
                 /\ balance[Ata(w)]
                       = balance'[Ata(w)] + (IF call[c].by = w THEN Landed(c) ELSE 0)
<1> DEFINE u == UserPda(call[c].authority)
           from == Ata(call[c].by)
           to == Eata(u)
           n == call[c].units
<1>1. /\ u \in Users /\ call[c].by \in Payers /\ n \in Nat
      /\ from \in Accounts /\ to \in Accounts /\ from # to
      /\ \A w \in Payers : /\ Ata(w) \in Accounts /\ Ata(w) # to
                           /\ Ata(w) = from => w = call[c].by
                           /\ balance[Ata(w)] \in Nat
      /\ \A v \in Users : /\ Eata(v) \in Accounts /\ Eata(v) # from
                          /\ Eata(v) = to => v = u
      /\ \A p \in Payees : Eata(p) \in Accounts /\ Eata(p) # from /\ Eata(p) # to
  BY CallFacts, AccountFacts, AddressesDiffer, BalanceFacts
<1>2. CASE call[c].step # "deposit"
  BY <1>1, <1>2 DEF TransactionEffect, TopUpLedger, TypeOK, Landed
<1>3. CASE call[c].step = "deposit"
  <2>1. /\ eata[u] # "missing" /\ n <= balance[from] /\ P!Transfer(from, to, n)
        /\ UNCHANGED <<stage, remaining>>
        /\ eata' \in [Users -> {"missing", "base", "delegated"}]
        /\ \A v \in Users : /\ eata[v] = "delegated" => eata'[v] = "delegated"
                            /\ eata'[v] = "missing" => eata[v] = "missing"
    BY <1>3 DEF TransactionEffect
  <2>2. \A v \in Users : eata[v] = "missing" => balance[Eata(v)] = 0
    BY DEF TypeOK
  <2>3. Landed(c) = n
    BY <1>3 DEF Landed
  <2> HIDE DEF u, from, to, n
  <2>4. /\ Total(balance)' = Supply
        /\ balance'[from] = balance[from] - n
        /\ \A a \in Accounts : a # from /\ a # to => balance'[a] = balance[a]
    BY <1>1, <2>1, TransferFacts
  <2>5. TopUpLedger
    BY <1>1, <2>1, <2>2, <2>4 DEF TopUpLedger
  <2>6. ASSUME NEW w \in Payers
        PROVE  /\ balance'[Ata(w)] \in Nat
               /\ balance[Ata(w)]
                     = balance'[Ata(w)] + (IF call[c].by = w THEN Landed(c) ELSE 0)
    <3>1. CASE call[c].by = w
      BY <1>1, <2>1, <2>3, <2>4, <3>1 DEF from
    <3>2. CASE call[c].by # w
      BY <1>1, <2>4, <3>2
    <3>3. QED
      BY <3>1, <3>2
  <2>7. QED
    BY <2>5, <2>6
<1>4. QED
  BY <1>2, <1>3

(* A transaction that lands leaves its step done. *)
LEMMA TransactionIsDone ==
    ASSUME TypeOK, NEW c \in Calls, call[c] \in TopUpCalls, TransactionEffect(c),
           landed' = landed \cup {Sent(c)}
    PROVE  LandingIsDone
<1>1. landed' \subseteq Transactions
  BY SentType DEF TypeOK
<1>2. ASSUME NEW x, x = Sent(c)
      PROVE  Done(x)'
  <2>1. x.step = call[c].step /\ x.authority = call[c].authority
    BY <1>2 DEF Sent
  <2>2. QED
    BY <2>1 DEF TransactionEffect, Done, OnRollup
<1>3. QED
  BY <1>1, <1>2 DEF LandingIsDone

(* One lemma for each step of a topUp. *)

LEMMA TopUpKeepsIInv ==
    ASSUME IInv, Sessions!IInv', NEW c \in Calls, NEW s \in Payers, NEW w \in Owners,
           NEW n \in Amounts, NEW t \in BOOLEAN, TopUp(c, s, w, n, t)
    PROVE  IInv'
<1> DEFINE new == [phase |-> "sending", step |-> "inits", by |-> s,
                   authority |-> w, units |-> n, token |-> t]
<1>1. /\ TypeOK /\ call[c] = NoCall
      /\ UNCHANGED <<ledger, front, recorded, landed, missed, again>>
  BY DEF IInv, TopUp
<1>2. /\ new \in TopUpCalls
      /\ call' \in [Calls -> TopUpCalls \cup {NoCall}]
      /\ call'[c] = new
      /\ \A d \in Calls : d # c => call'[d] = call[d]
  BY <1>1 DEF TypeOK, TopUp, TopUpCalls, Phases, Steps
<1>3. TopUpLedger
  BY <1>1, QuietLedger
<1>4. \A v \in Payers : Unrecorded(v)[c] = 0 /\ Unrecorded(v)'[c] = 0
  BY <1>1, <1>2 DEF Unrecorded
<1>5. TopUpBooks(c)
  BY <1>1, <1>4, BalanceFacts DEF TopUpBooks, TypeOK, ledger, program
<1>6. SeesDelegation(c)' /\ UsableWhenDone(c)'
  BY <1>2 DEF SeesDelegation, UsableWhenDone
<1>7. LandingIsDone
  BY <1>1 DEF LandingIsDone, TypeOK
<1>8. QED
  BY <1>2, <1>3, <1>5, <1>6, <1>7, CallKeepsIInv

LEMMA LandKeepsIInv ==
    ASSUME IInv, Sessions!IInv', NEW c \in Calls, NEW wallet, Land(c, wallet)
    PROVE  IInv'
<1>1. /\ TypeOK /\ SeesDelegation(c)
      /\ call[c].phase = "sending"
      /\ Transaction(c, wallet)
      /\ landed' = landed \cup {Sent(c)}
      /\ Goto(c, call[c].step, "landed")
      /\ UNCHANGED <<front, recorded, missed, again>>
  BY DEF IInv, CallsSeeDelegation, Land
<1>2. /\ call[c] \in TopUpCalls /\ call[c] # NoCall /\ call[c].step \in Steps
      /\ UserPda(call[c].authority) \in Users /\ call[c].by \in Payers
  BY <1>1, CallFacts
<1>3. /\ call' \in [Calls -> TopUpCalls \cup {NoCall}]
      /\ \A d \in Calls : d # c => call'[d] = call[d]
      /\ call'[c] # NoCall
      /\ call'[c].step = call[c].step /\ call'[c].phase = "landed"
      /\ call'[c].by = call[c].by
      /\ call'[c].authority = call[c].authority
      /\ call'[c].units = call[c].units
  <2>1. "landed" \in Phases
    BY DEF Phases
  <2>2. QED
    BY <1>1, <1>2, <2>1, GotoEffect
<1>4. TransactionEffect(c)
  BY <1>1, <1>2, TransactionHasEffect
<1>5. /\ TopUpLedger
      /\ \A w \in Payers :
            /\ balance'[Ata(w)] \in Nat
            /\ balance[Ata(w)]
                  = balance'[Ata(w)] + (IF call[c].by = w THEN Landed(c) ELSE 0)
  BY <1>1, <1>2, <1>4, TransactionOnLedger
<1>6. \A w \in Payers : /\ Unrecorded(w)[c] = 0
                        /\ Unrecorded(w)'[c] = IF call[c].by = w THEN Landed(c) ELSE 0
  BY <1>1, <1>3 DEF Unrecorded, Landed
<1>7. TopUpBooks(c)
  <2>1. Landed(c) \in Nat
    BY <1>1, <1>2, CallFacts DEF Landed
  <2>2. QED
    BY <1>1, <1>5, <1>6, <2>1 DEF TopUpBooks, TypeOK
<1>8. SeesDelegation(c)'
  BY <1>1, <1>2, <1>3, <1>4 DEF SeesDelegation, TransactionEffect, OnRollup, Steps
<1>9. UsableWhenDone(c)'
  BY <1>3, <1>4 DEF UsableWhenDone, TransactionEffect
<1>10. LandingIsDone
  BY <1>1, <1>2, <1>4, TransactionIsDone
<1>11. QED
  BY <1>3, <1>5, <1>7, <1>8, <1>9, <1>10, CallKeepsIInv

(* A call that another call's transaction answers has its step done, and   *)
(* is about to record what was taken once.                                 *)
LEMMA SameKeepsIInv ==
    ASSUME IInv, Sessions!IInv', NEW c \in Calls, NEW wallet, SameTransaction(c, wallet)
    PROVE  IInv'
<1>1. /\ TypeOK /\ SeesDelegation(c)
      /\ call[c].phase = "sending"
      /\ Sent(c) \in landed /\ Done(Sent(c))
      /\ again' = [again EXCEPT ![call[c].by] = @ + Landed(c)]
      /\ Goto(c, call[c].step, "landed")
      /\ UNCHANGED <<ledger, front, recorded, landed, missed>>
  BY DEF IInv, CallsSeeDelegation, LandedIsDone, SameTransaction
<1>2. /\ call[c] \in TopUpCalls /\ call[c] # NoCall /\ call[c].step \in Steps
      /\ call[c].by \in Payers /\ Landed(c) \in Nat
  BY <1>1, CallFacts DEF Landed
<1>3. /\ call' \in [Calls -> TopUpCalls \cup {NoCall}]
      /\ \A d \in Calls : d # c => call'[d] = call[d]
      /\ call'[c] # NoCall
      /\ call'[c].step = call[c].step /\ call'[c].phase = "landed"
      /\ call'[c].by = call[c].by
      /\ call'[c].authority = call[c].authority
      /\ call'[c].units = call[c].units
  <2>1. "landed" \in Phases
    BY DEF Phases
  <2>2. QED
    BY <1>1, <1>2, <2>1, GotoEffect
<1>4. TopUpLedger
  BY <1>1, QuietLedger
<1>5. \A w \in Payers : /\ Unrecorded(w)[c] = 0
                        /\ Unrecorded(w)'[c] = IF call[c].by = w THEN Landed(c) ELSE 0
  BY <1>1, <1>3 DEF Unrecorded, Landed
<1>6. /\ again' \in [Payers -> Nat]
      /\ \A w \in Payers : again'[w] = again[w] + (IF call[c].by = w THEN Landed(c) ELSE 0)
  <2> DEFINE n == Landed(c)
  <2>1. again' = [again EXCEPT ![call[c].by] = @ + n] /\ n \in Nat
    BY <1>1, <1>2
  <2> HIDE DEF n
  <2>2. again' \in [Payers -> Nat]
        /\ \A w \in Payers : again'[w] = again[w] + (IF call[c].by = w THEN n ELSE 0)
    BY <1>1, <1>2, <2>1 DEF TypeOK
  <2>3. QED
    BY <2>2 DEF n
<1>7. TopUpBooks(c)
  <2>1. /\ UNCHANGED <<balance, recorded, missed>>
        /\ recorded \in [Payers -> Nat] /\ missed \in [Payers -> Nat]
        /\ again \in [Payers -> Nat]
    BY <1>1 DEF TypeOK, ledger, program
  <2>2. ASSUME NEW w \in Payers
        PROVE  /\ balance'[Ata(w)] \in Nat
               /\ balance[Ata(w)] + recorded[w] + missed[w] + Unrecorded(w)[c] + again'[w]
                     = balance'[Ata(w)] + recorded'[w] + missed'[w]
                          + Unrecorded(w)'[c] + again[w]
    <3>1. /\ balance[Ata(w)] \in Nat /\ recorded[w] \in Nat /\ missed[w] \in Nat
          /\ again[w] \in Nat
      BY <1>1, <2>1, BalanceFacts
    <3>2. \E n \in Nat : /\ Unrecorded(w)[c] = 0 /\ Unrecorded(w)'[c] = n
                         /\ again'[w] = again[w] + n
      BY <1>2, <1>5, <1>6
    <3>3. QED
      BY <2>1, <3>1, <3>2
  <2>3. QED
    BY <1>6, <2>1, <2>2 DEF TopUpBooks
<1>8. SeesDelegation(c)' /\ UsableWhenDone(c)'
  <2>1. Sent(c).step = call[c].step /\ Sent(c).authority = call[c].authority
    BY DEF Sent
  <2>2. QED
    BY <1>1, <1>2, <1>3, <2>1
       DEF SeesDelegation, UsableWhenDone, Done, OnRollup, Steps, ledger, program
<1>9. LandingIsDone
  BY <1>1 DEF LandingIsDone, TypeOK
<1>10. QED
  BY <1>3, <1>4, <1>7, <1>8, <1>9, CallKeepsIInv

(* The end of a call, whatever its transaction did. *)
LEMMA EndFacts ==
    ASSUME TypeOK, NEW c \in Calls, End(c)
    PROVE  /\ call' \in [Calls -> TopUpCalls \cup {NoCall}]
           /\ \A d \in Calls : d # c => call'[d] = call[d]
           /\ \A w \in Payers : Unrecorded(w)'[c] = 0
           /\ SeesDelegation(c)' /\ UsableWhenDone(c)'
<1>1. call' = [call EXCEPT ![c] = NoCall] /\ call \in [Calls -> TopUpCalls \cup {NoCall}]
  BY DEF End, TypeOK
<1>2. call'[c] = NoCall /\ NoCall.phase = "none"
  BY <1>1 DEF NoCall
<1>3. QED
  BY <1>1, <1>2 DEF Unrecorded, SeesDelegation, UsableWhenDone

LEMMA LandLateKeepsIInv ==
    ASSUME IInv, Sessions!IInv', NEW c \in Calls, NEW wallet, LandLate(c, wallet)
    PROVE  IInv'
<1>1. /\ TypeOK
      /\ call[c].phase = "adrift"
      /\ Transaction(c, wallet)
      /\ landed' = landed \cup {Sent(c)}
      /\ End(c) /\ Miss(c)
      /\ UNCHANGED <<front, recorded, again>>
  BY DEF IInv, LandLate
<1>2. /\ call[c] \in TopUpCalls /\ call[c].by \in Payers /\ Landed(c) \in Nat
  BY <1>1, CallFacts DEF Landed
<1>3. /\ TopUpLedger
      /\ \A w \in Payers :
            /\ balance'[Ata(w)] \in Nat
            /\ balance[Ata(w)]
                  = balance'[Ata(w)] + (IF call[c].by = w THEN Landed(c) ELSE 0)
  BY <1>1, <1>2, TransactionHasEffect, TransactionOnLedger
<1>4. \A w \in Payers : Unrecorded(w)[c] = 0 /\ Unrecorded(w)'[c] = 0
  BY <1>1, EndFacts DEF Unrecorded
<1>5. /\ missed' \in [Payers -> Nat]
      /\ \A w \in Payers :
            missed'[w] = missed[w] + (IF call[c].by = w THEN Landed(c) ELSE 0)
  <2> DEFINE n == Landed(c)
  <2>1. missed' = [missed EXCEPT ![call[c].by] = @ + n] /\ n \in Nat
    BY <1>1, <1>2 DEF Miss
  <2> HIDE DEF n
  <2>2. missed' \in [Payers -> Nat]
        /\ \A w \in Payers : missed'[w] = missed[w] + (IF call[c].by = w THEN n ELSE 0)
    BY <1>1, <1>2, <2>1 DEF TypeOK
  <2>3. QED
    BY <2>2 DEF n
<1>6. TopUpBooks(c)
  BY <1>1, <1>2, <1>3, <1>4, <1>5 DEF TopUpBooks, TypeOK
<1>7. LandingIsDone
  BY <1>1, <1>2, TransactionHasEffect, TransactionIsDone
<1>8. QED
  BY <1>1, <1>3, <1>6, <1>7, EndFacts, CallKeepsIInv

(* submit returns and records. *)
LEMMA ProceedKeepsIInv ==
    ASSUME IInv, Sessions!IInv', NEW c \in Calls, Proceed(c)
    PROVE  IInv'
<1>1. /\ TypeOK /\ SeesDelegation(c)
      /\ call[c].phase = "landed"
      /\ Record(c)
      /\ UNCHANGED <<ledger, front, landed, missed, again>>
  BY DEF IInv, CallsSeeDelegation, Proceed
<1>2. /\ call[c] \in TopUpCalls /\ call[c] # NoCall /\ call[c].by \in Payers
      /\ Landed(c) \in Nat /\ call[c].step \in Steps
  BY <1>1, CallFacts DEF Landed
<1>3. TopUpLedger
  BY <1>1, QuietLedger
<1>4. /\ call' \in [Calls -> TopUpCalls \cup {NoCall}]
      /\ \A d \in Calls : d # c => call'[d] = call[d]
      /\ \A w \in Payers : Unrecorded(w)'[c] = 0
      /\ SeesDelegation(c)' /\ UsableWhenDone(c)'
  <2>1. CASE End(c)
    BY <1>1, <2>1, EndFacts
  <2>2. ASSUME NEW step \in Steps, NEW phase \in Phases \ {"landed"},
               Goto(c, step, phase), step = "ensure" => call[c].step = "delegate"
        PROVE  <1>4
    <3>1. /\ call' \in [Calls -> TopUpCalls \cup {NoCall}]
          /\ \A d \in Calls : d # c => call'[d] = call[d]
          /\ call'[c] # NoCall
          /\ call'[c].step = step /\ call'[c].phase = phase
          /\ call'[c].authority = call[c].authority
      BY <1>1, <1>2, <2>2, GotoEffect
    <3>2. \A w \in Payers : Unrecorded(w)'[c] = 0
      BY <2>2, <3>1 DEF Unrecorded
    <3>3. SeesDelegation(c)'
      BY <1>1, <1>2, <2>2, <3>1 DEF SeesDelegation, OnRollup, Steps, ledger
    <3>4. UsableWhenDone(c)'
      BY <2>2, <3>1 DEF UsableWhenDone
    <3>5. QED
      BY <3>1, <3>2, <3>3, <3>4
  <2>3. \/ End(c)
        \/ Goto(c, "deposit", "sending") \/ Goto(c, "deposit", "reading")
        \/ call[c].step = "delegate" /\ Goto(c, "ensure", "sending")
    BY <1>2 DEF Proceed, Steps
  <2>4. QED
    BY <2>1, <2>2, <2>3 DEF Steps, Phases
<1>5. \A w \in Payers : Unrecorded(w)[c] = IF call[c].by = w THEN Landed(c) ELSE 0
  BY <1>1, <1>2 DEF Unrecorded
<1>6. /\ recorded' \in [Payers -> Nat]
      /\ \A w \in Payers :
            recorded'[w] = recorded[w] + (IF call[c].by = w THEN Landed(c) ELSE 0)
  <2> DEFINE n == Landed(c)
  <2>1. recorded' = [recorded EXCEPT ![call[c].by] = @ + n] /\ n \in Nat
    BY <1>1, <1>2 DEF Record
  <2> HIDE DEF n
  <2>2. recorded' \in [Payers -> Nat]
        /\ \A w \in Payers : recorded'[w] = recorded[w] + (IF call[c].by = w THEN n ELSE 0)
    BY <1>1, <1>2, <2>1 DEF TypeOK
  <2>3. QED
    BY <2>2 DEF n
<1>7. TopUpBooks(c)
  BY <1>1, <1>2, <1>4, <1>5, <1>6, BalanceFacts DEF TopUpBooks, TypeOK, ledger, program
<1>8. LandingIsDone
  BY <1>1 DEF LandingIsDone, TypeOK
<1>9. QED
  BY <1>3, <1>4, <1>7, <1>8, CallKeepsIInv

(* The delegation record, when it is seen, is there. *)
LEMMA ReadKeepsIInv ==
    ASSUME IInv, Sessions!IInv', NEW c \in Calls, ReadRecord(c)
    PROVE  IInv'
<1>1. /\ TypeOK
      /\ call[c].phase = "reading"
      /\ UNCHANGED <<ledger, front, recorded, landed, missed, again>>
  BY DEF IInv, ReadRecord
<1>2. call[c] \in TopUpCalls
  BY <1>1, CallFacts
<1>3. PICK step \in {"delegate", "ensure"} :
         /\ Goto(c, step, "sending")
         /\ step = "ensure" => OnRollup(UserPda(call[c].authority))
  BY DEF ReadRecord, NeedsDelegation
<1>4. /\ call' \in [Calls -> TopUpCalls \cup {NoCall}]
      /\ \A d \in Calls : d # c => call'[d] = call[d]
      /\ call'[c].step = step /\ call'[c].phase = "sending"
      /\ call'[c].authority = call[c].authority
  <2>1. step \in Steps /\ "sending" \in Phases
    BY DEF Steps, Phases
  <2>2. QED
    BY <1>1, <1>2, <1>3, <2>1, GotoEffect
<1>5. TopUpLedger
  BY <1>1, QuietLedger
<1>6. \A w \in Payers : Unrecorded(w)[c] = 0 /\ Unrecorded(w)'[c] = 0
  BY <1>1, <1>4 DEF Unrecorded
<1>7. TopUpBooks(c)
  BY <1>1, <1>6, BalanceFacts DEF TopUpBooks, TypeOK, ledger, program
<1>8. SeesDelegation(c)' /\ UsableWhenDone(c)'
  BY <1>1, <1>3, <1>4 DEF SeesDelegation, UsableWhenDone, OnRollup, ledger
<1>9. LandingIsDone
  BY <1>1 DEF LandingIsDone, TypeOK
<1>10. QED
  BY <1>4, <1>5, <1>7, <1>8, <1>9, CallKeepsIInv

(* An error: what has landed is missed. *)
LEMMA ThrowKeepsIInv ==
    ASSUME IInv, Sessions!IInv', NEW c \in Calls, Throw(c)
    PROVE  IInv'
<1>1. /\ TypeOK /\ SeesDelegation(c)
      /\ call[c].phase \in {"sending", "landed", "reading"}
      /\ UNCHANGED <<ledger, front, recorded, landed, again>>
      /\ IF call[c].phase = "landed" THEN Miss(c) ELSE UNCHANGED missed
  BY DEF IInv, CallsSeeDelegation, Throw
<1>2. /\ call[c] \in TopUpCalls /\ call[c] # NoCall /\ call[c].by \in Payers
      /\ Landed(c) \in Nat /\ call[c].step \in Steps
  BY <1>1, CallFacts DEF Landed
<1>3. TopUpLedger
  BY <1>1, QuietLedger
<1>4. /\ call' \in [Calls -> TopUpCalls \cup {NoCall}]
      /\ \A d \in Calls : d # c => call'[d] = call[d]
      /\ \A w \in Payers : Unrecorded(w)'[c] = 0
      /\ SeesDelegation(c)' /\ UsableWhenDone(c)'
  <2>1. CASE End(c)
    BY <1>1, <2>1, EndFacts
  <2>2. CASE call[c].phase = "sending" /\ Goto(c, call[c].step, "adrift")
    <3>1. /\ call' \in [Calls -> TopUpCalls \cup {NoCall}]
          /\ \A d \in Calls : d # c => call'[d] = call[d]
          /\ call'[c] # NoCall
          /\ call'[c].step = call[c].step /\ call'[c].phase = "adrift"
          /\ call'[c].authority = call[c].authority
      <4>1. "adrift" \in Phases
        BY DEF Phases
      <4>2. QED
        BY <1>1, <1>2, <2>2, <4>1, GotoEffect
    <3>2. \A w \in Payers : Unrecorded(w)'[c] = 0
      BY <3>1 DEF Unrecorded
    <3>3. SeesDelegation(c)' /\ UsableWhenDone(c)'
      BY <1>1, <1>2, <3>1 DEF SeesDelegation, UsableWhenDone, OnRollup, ledger
    <3>4. QED
      BY <3>1, <3>2, <3>3
  <2>3. QED
    BY <2>1, <2>2 DEF Throw
<1>5. \A w \in Payers :
         Unrecorded(w)[c] = IF call[c].phase = "landed" /\ call[c].by = w
                            THEN Landed(c) ELSE 0
  BY <1>1, <1>2 DEF Unrecorded
<1>6. /\ missed' \in [Payers -> Nat]
      /\ \A w \in Payers :
            missed'[w] = missed[w] + (IF call[c].phase = "landed" /\ call[c].by = w
                                      THEN Landed(c) ELSE 0)
  <2> DEFINE n == Landed(c)
  <2>1. CASE call[c].phase = "landed"
    <3>1. missed' = [missed EXCEPT ![call[c].by] = @ + n] /\ n \in Nat
      BY <1>1, <1>2, <2>1 DEF Miss
    <3> HIDE DEF n
    <3>2. missed' \in [Payers -> Nat]
          /\ \A w \in Payers : missed'[w] = missed[w] + (IF call[c].by = w THEN n ELSE 0)
      BY <1>1, <1>2, <3>1 DEF TypeOK
    <3>3. QED
      BY <2>1, <3>2 DEF n
  <2>2. CASE call[c].phase # "landed"
    BY <1>1, <2>2 DEF TypeOK
  <2>3. QED
    BY <2>1, <2>2
<1>7. TopUpBooks(c)
  BY <1>1, <1>2, <1>4, <1>5, <1>6, BalanceFacts DEF TopUpBooks, TypeOK, ledger, program
<1>8. LandingIsDone
  BY <1>1 DEF LandingIsDone, TypeOK
<1>9. QED
  BY <1>3, <1>4, <1>7, <1>8, CallKeepsIInv

(* Whatever a client does, the program takes a step of its own or none.    *)
LEMMA StepIsSessionsStep == TypeOK /\ [Next]_vars => [Sessions!Next]_program
<1> SUFFICES ASSUME TypeOK, [Next]_vars
             PROVE  [Sessions!Next]_program
  OBVIOUS
<1>1. ASSUME NEW c \in Calls, NEW wallet, Land(c, wallet) \/ LandLate(c, wallet)
      PROVE  [Sessions!Next]_program
  <2>1. Transaction(c, wallet) /\ call[c].phase \in {"sending", "adrift"}
    BY <1>1 DEF Land, LandLate
  <2>2. call[c] \in TopUpCalls
    BY <2>1, CallFacts
  <2>3. QED
    BY <2>1, <2>2, TransactionIsSessionsStep
<1>2. ASSUME NEW c \in Calls, NEW wallet,
             SameTransaction(c, wallet) \/ Proceed(c) \/ ReadRecord(c) \/ Throw(c)
      PROVE  UNCHANGED program
  BY <1>2 DEF SameTransaction, Proceed, ReadRecord, Throw, ledger
<1>3. ASSUME NEW s \in Payers, NEW w \in Owners, NEW t \in BOOLEAN, PayerStep(s, w, t)
      PROVE  [Sessions!Next]_program
  <2>1. ASSUME NEW c \in Calls, NEW n \in Amounts, TopUp(c, s, w, n, t)
        PROVE  UNCHANGED program
    BY <2>1 DEF TopUp, ledger
  <2>2. QED
    BY <1>3, <2>1, OpenSessionIsSessionsStep, DepositIsSessionsStep,
       CloseIsSessionsStep, WithdrawIsSessionsStep DEF PayerStep
<1>4. CASE UNCHANGED vars
  BY <1>4 DEF vars, ledger
<1>5. QED
  BY <1>1, <1>2, <1>3, <1>4, ChargeIsSessionsStep, SetupIsSessionsStep
     DEF Next, TopUpStep

LEMMA InitIInv == Init => IInv
<1> SUFFICES ASSUME Init
             PROVE  IInv
  OBVIOUS
<1>1. P!Init /\ Sessions!Init /\ balance = InitialBalance
  BY OneState DEF Init, P!Init
<1>2. Sessions!IInv
  BY <1>1, SessionsAssumed, Sessions!InitIInv
<1>3. P!TypeOK
  BY <1>2, OneState DEF Sessions!IInv
<1>4. \A c \in Calls : call[c] = NoCall /\ call[c].phase = "none"
  BY DEF Init, NoCall
<1>5. front \in [Keys -> {"sdk", "page", "cli", "mcp"}]
  BY ClientAssumption DEF Init
<1>6. \A o \in Users \cup Payees : balance[Eata(o)] = 0
  BY <1>1, AccountFacts
<1>7. TypeOK
  BY <1>1, <1>3, <1>5, <1>6, SupplyIsFunds DEF Init, TypeOK
<1>8. CallsSeeDelegation /\ LandedIsDone /\ TopUpUsable
  BY <1>4 DEF Init, CallsSeeDelegation, SeesDelegation, LandedIsDone, TopUpUsable
<1>9. OnlyPayable
  <2>1. \A u \in Users, m \in Merchants : remaining[<<u, m, Mint>>] = 0
    BY <1>1 DEF P!Init, P!SessionIds, Mints
  <2>2. QED
    BY <1>6, <2>1 DEF OnlyPayable
<1>10. DepositRecorded
  <2>1. ASSUME NEW w \in Payers
        PROVE  Total(Unrecorded(w)) = 0
    <3> DEFINE f == Unrecorded(w)
    <3>1. f \in [Calls -> Nat] /\ \A c \in Calls : f[c] = 0
      BY <1>4 DEF Unrecorded
    <3>2. IsFiniteSet(Calls)
      BY ClientAssumption
    <3> HIDE DEF f
    <3>3. Total(f) = 0
      BY <3>1, <3>2, TotalZero
    <3>4. QED
      BY <3>3 DEF f
  <2>2. \A w \in Payers : /\ balance[Ata(w)] = Funds[w] /\ Funds[w] \in Nat
                          /\ recorded[w] = 0 /\ missed[w] = 0 /\ again[w] = 0
    BY <1>1, AccountFacts, ClientAssumption DEF Init
  <2>3. QED
    BY <2>1, <2>2 DEF DepositRecorded, Unrecorded
<1>11. QED
  BY <1>2, <1>7, <1>8, <1>9, <1>10 DEF IInv

LEMMA NextIInv == IInv /\ [Next]_vars => IInv'
<1> SUFFICES ASSUME IInv, [Next]_vars
             PROVE  IInv'
  OBVIOUS
<1>1. TypeOK /\ Sessions!IInv
  BY DEF IInv
<1>2. [Sessions!Next]_program
  BY <1>1, StepIsSessionsStep
<1>3. Sessions!IInv'
  BY <1>1, <1>2, SessionsAssumed, Sessions!NextIInv DEF Sessions!vars, program
<1>4. ASSUME NEW c \in Calls, TopUpStep(c)
      PROVE  IInv'
  BY <1>3, <1>4, LandKeepsIInv, SameKeepsIInv, LandLateKeepsIInv, ProceedKeepsIInv,
     ReadKeepsIInv, ThrowKeepsIInv DEF TopUpStep
<1>5. ASSUME NEW s \in Payers, NEW w \in Owners, NEW t \in BOOLEAN, PayerStep(s, w, t)
      PROVE  IInv'
  <2>1. ASSUME NEW c \in Calls, NEW n \in Amounts, TopUp(c, s, w, n, t)
        PROVE  IInv'
    BY <1>3, <2>1, TopUpKeepsIInv
  <2>2. MethodEffect \/ \E c \in Calls, n \in Amounts : TopUp(c, s, w, n, t)
    BY <1>1, <1>5, OpenSessionEffect, DepositEffect, CloseSessionEffect, WithdrawEffect
       DEF PayerStep
  <2>3. QED
    BY <1>3, <2>1, <2>2, MethodKeepsIInv
<1>6. ASSUME NEW s \in Merchants, NEW w \in Owners, NEW n \in Amounts, Charge(s, w, n)
      PROVE  IInv'
  BY <1>1, <1>3, <1>6, ChargeEffect, MethodKeepsIInv
<1>7. CASE TokenStep \/ \E s \in Owners : InitUser(s) \/ DelegateUser(s)
  BY <1>1, <1>3, <1>7, SetupEffect, MethodKeepsIInv
<1>8. CASE UNCHANGED vars
  <2>1. /\ TypeOK' /\ CallsSeeDelegation' /\ LandedIsDone' /\ OnlyPayable' /\ TopUpUsable'
        /\ DepositRecorded'
    BY <1>8 DEF IInv, vars, ledger, program, client, TypeOK, P!TypeOK, P!SessionIds,
       CallsSeeDelegation, SeesDelegation, OnRollup, LandedIsDone, Done,
       OnlyPayable, ActsFor, Trusts,
       TopUpUsable, DepositRecorded, Landed
  <2>2. QED
    BY <1>3, <2>1 DEF IInv
<1>9. QED
  BY <1>4, <1>5, <1>6, <1>7, <1>8 DEF Next

-----------------------------------------------------------------------------
(* The theorems. *)

(* The state keeps its type: whatever front ends, keys and topUps do at    *)
(* the same time, tokens neither appear nor vanish on their way from the   *)
(* wallets, and none are sent to an eATA that is not there.                *)
THEOREM ClientTypeCorrect == Spec => []TypeOK
<1>1. IInv => TypeOK
  BY DEF IInv
<1>2. QED
  BY <1>1, InitIInv, NextIInv, PTL DEF Spec

(* Nothing reaches a merchant or a destination, or is set aside for it,    *)
(* that every client's policy refuses; for a session, every client of a    *)
(* key that may act for its User.                                          *)
THEOREM OnlyPayableIsPaid == Spec => []OnlyPayable
<1>1. IInv => OnlyPayable
  BY DEF IInv
<1>2. QED
  BY <1>1, InitIInv, NextIInv, PTL DEF Spec

(* A topUp that returns leaves a User that can sign, and an eATA that is   *)
(* delegated, whatever its look at the delegation record missed.           *)
THEOREM TopUpsAreUsable == Spec => []TopUpUsable
<1>1. IInv => TopUpUsable
  BY DEF IInv
<1>2. QED
  BY <1>1, InitIInv, NextIInv, PTL DEF Spec

(* What has left a wallet, and what shared deposits answered again, is in  *)
(* the journal, except what its client was told had failed and what it is  *)
(* about to record.                                                        *)
THEOREM DepositsAreRecorded == Spec => []DepositRecorded
<1>1. IInv => DepositRecorded
  BY DEF IInv
<1>2. QED
  BY <1>1, InitIInv, NextIInv, PTL DEF Spec

(* Methods other than topUp take nothing from a wallet. *)
LEMMA MethodsSpareWallets ==
    ASSUME TypeOK, MethodEffect, NEW w \in Payers
    PROVE  balance'[Ata(w)] = balance[Ata(w)]
<1>1. CASE UNCHANGED balance
  BY <1>1
<1>2. ASSUME NEW u \in Users, NEW to \in Payees, NEW n \in Nat \ {0},
             n <= balance[Eata(u)], P!Transfer(Eata(u), Eata(to), n)
      PROVE  balance'[Ata(w)] = balance[Ata(w)]
  <2>1. /\ Eata(u) \in Accounts /\ Eata(to) \in Accounts /\ Eata(u) # Eata(to)
        /\ Ata(w) \in Accounts /\ Ata(w) # Eata(u) /\ Ata(w) # Eata(to)
    BY AccountFacts, AddressesDiffer
  <2>2. QED
    BY <1>2, <2>1, TransferFacts
<1>3. QED
  BY <1>1, <1>2 DEF MethodEffect

(* A transaction of a topUp takes from a wallet only if it is the deposit  *)
(* of a call that was begun with it.                                       *)
LEMMA TransactionDebitsAsAsked ==
    ASSUME TypeOK, NEW c \in Calls, call[c] \in TopUpCalls, TransactionEffect(c)
    PROVE  DebitsAsAsked
<1> SUFFICES ASSUME NEW w \in Payers, balance'[Ata(w)] < balance[Ata(w)]
             PROVE  /\ call[c] # NoCall /\ call[c].by = w
                    /\ balance'[Ata(w)] = balance[Ata(w)] - call[c].units
                    /\ LET a == Eata(UserPda(call[c].authority))
                       IN  balance'[a] = balance[a] + call[c].units
  BY DEF DebitsAsAsked
<1> DEFINE from == Ata(call[c].by)
           to == Eata(UserPda(call[c].authority))
           n == call[c].units
<1>1. /\ call[c] # NoCall /\ n \in Nat
      /\ from \in Accounts /\ to \in Accounts /\ from # to
      /\ Ata(w) \in Accounts /\ Ata(w) # to /\ balance[Ata(w)] \in Nat
      /\ Ata(w) = from => w = call[c].by
  BY CallFacts, AccountFacts, AddressesDiffer, BalanceFacts
<1>2. call[c].step = "deposit"
  BY <1>1 DEF TransactionEffect
<1>3. n <= balance[from] /\ P!Transfer(from, to, n)
  BY <1>2 DEF TransactionEffect
<1> HIDE DEF from, to, n
<1>4. /\ balance'[from] = balance[from] - n /\ balance'[to] = balance[to] + n
      /\ \A a \in Accounts : a # from /\ a # to => balance'[a] = balance[a]
  BY <1>1, <1>3, TransferFacts
<1>5. Ata(w) = from
  BY <1>1, <1>4
<1>6. QED
  BY <1>1, <1>4, <1>5 DEF from, to, n

LEMMA StepDebitsAsAsked == IInv /\ [Next]_vars => [DebitsAsAsked]_vars
<1> SUFFICES ASSUME IInv, Next
             PROVE  DebitsAsAsked
  OBVIOUS
<1>1. TypeOK
  BY DEF IInv
<1>2. ASSUME NEW c \in Calls, NEW wallet, Land(c, wallet) \/ LandLate(c, wallet)
      PROVE  DebitsAsAsked
  <2>1. Transaction(c, wallet) /\ call[c].phase \in {"sending", "adrift"}
    BY <1>2 DEF Land, LandLate
  <2>2. call[c] \in TopUpCalls
    BY <1>1, <2>1, CallFacts
  <2>3. QED
    BY <1>1, <2>1, <2>2, TransactionHasEffect, TransactionDebitsAsAsked
<1>3. ASSUME \A w \in Payers : balance'[Ata(w)] = balance[Ata(w)]
      PROVE  DebitsAsAsked
  <2>1. \A w \in Payers : balance[Ata(w)] \in Nat
    BY <1>1, BalanceFacts
  <2>2. QED
    BY <1>3, <2>1 DEF DebitsAsAsked
<1>4. CASE MethodEffect
  BY <1>1, <1>3, <1>4, MethodsSpareWallets
<1>5. CASE UNCHANGED balance
  BY <1>3, <1>5
<1>6. ASSUME NEW c \in Calls, NEW wallet,
             SameTransaction(c, wallet) \/ Proceed(c) \/ ReadRecord(c) \/ Throw(c)
      PROVE  UNCHANGED balance
  BY <1>6 DEF SameTransaction, Proceed, ReadRecord, Throw, ledger, program
<1>7. ASSUME NEW s \in Payers, NEW w \in Owners, NEW t \in BOOLEAN, PayerStep(s, w, t)
      PROVE  MethodEffect \/ UNCHANGED balance
  <2>1. ASSUME NEW c \in Calls, NEW n \in Amounts, TopUp(c, s, w, n, t)
        PROVE  UNCHANGED balance
    BY <2>1 DEF TopUp, ledger, program
  <2>2. QED
    BY <1>1, <1>7, <2>1, OpenSessionEffect, DepositEffect, CloseSessionEffect,
       WithdrawEffect DEF PayerStep
<1>8. QED
  BY <1>1, <1>2, <1>4, <1>5, <1>6, <1>7, ChargeEffect, SetupEffect DEF Next, TopUpStep

(* A wallet pays only for a topUp that was begun with it, what was asked   *)
(* for, to the User that was named: not for a call that another wallet     *)
(* began, when wallets are exchanged while it is under way.                *)
THEOREM WalletsDebitedAsAsked == Spec => DebitedAsAsked
<1>1. IInv /\ [Next]_vars => [DebitsAsAsked]_vars
  BY StepDebitsAsAsked
<1>2. QED
  BY <1>1, InitIInv, NextIInv, PTL DEF Spec, DebitedAsAsked

(* The client implements the program's specification: whatever it does,    *)
(* all that the program promises of its accounts goes on to hold.          *)
THEOREM ClientRunsSessions == Spec => Sessions!Spec
<1>1. Init => Sessions!Init
  BY OneState DEF Init
<1>2. IInv /\ [Next]_vars => [Sessions!Next]_(Sessions!vars)
  BY StepIsSessionsStep DEF IInv, Sessions!vars, program
<1>3. QED
  BY <1>1, <1>2, InitIInv, NextIInv, PTL DEF Spec, Sessions!Spec

(* What sessions have earmarked leaves the escrow only for their           *)
(* merchants, however clients are used, and however many at a time.        *)
THEOREM ClientKeepsEscrow == Spec => Sessions!ImplementsEscrow
BY ClientRunsSessions, SessionsAssumed, Sessions!EscrowImplemented, PTL
=============================================================================
