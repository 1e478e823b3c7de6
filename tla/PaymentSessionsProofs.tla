----------------------- MODULE PaymentSessionsProofs -----------------------
(***************************************************************************)
(* Theorems about PaymentSessions, for every set of Users, merchants,      *)
(* mints and token accounts and for every amount: its invariants, what its *)
(* steps may do, where rent goes, and that it implements Escrow.           *)
(***************************************************************************)
EXTENDS PaymentSessionsEscrow, TotalsTheorems, Integers

(* The tokens of one mint, over all accounts. *)
MintBalance(k) == [a \in Accounts |-> IF MintOf[a] = k THEN balance[a] ELSE 0]

SupplyFits == \A k \in Mints : Total(MintBalance(k)) <= U64Max

(* Accounted alone is not inductive: a deposit keeps it only if the        *)
(* amounts stay in range, a transfer keeps balances in range only because  *)
(* the whole supply is.                                                    *)
IInv == TypeOK /\ SupplyFits /\ Accounted /\ ReservationBacked

-----------------------------------------------------------------------------
(* Helpers. *)

(* The amounts of the program are naturals. *)
LEMMA AmountsAreNat == Amounts \subseteq Nat /\ 0 .. U64Max \subseteq Nat
BY NumbersAssumption DEF Amounts

(* Changing what one session has remaining changes the earmark of its user *)
(* and mint by the same amount, and no other earmark.  (The write-back of  *)
(* Session.remaining in deposit, charge and close_session.)                *)
LEMMA RemainingUpdate ==
    ASSUME TypeOK, NEW u \in Users, NEW m \in Merchants, NEW k \in Mints,
           remaining' \in [SessionIds -> Nat],
           \A x \in SessionIds : x # <<u, m, k>> => remaining'[x] = remaining[x]
    PROVE  /\ Earmarked(u, k)'
                = Earmarked(u, k) - remaining[<<u, m, k>>] + remaining'[<<u, m, k>>]
           /\ \A v \in Users, j \in Mints :
                 <<v, j>> # <<u, k>> => Earmarked(v, j)' = Earmarked(v, j)
<1> DEFINE part(v, j) == [x \in Merchants |-> remaining[<<v, x, j>>]]
           n == remaining'[<<u, m, k>>]
<1>1. remaining \in [SessionIds -> Nat] /\ n \in Nat
  BY AmountsAreNat DEF TypeOK, SessionIds
<1>2. \A v \in Users, j \in Mints : part(v, j) \in [Merchants -> Nat]
  BY <1>1 DEF SessionIds
<1>3. [x \in Merchants |-> remaining'[<<u, x, k>>]] = [part(u, k) EXCEPT ![m] = n]
  BY <1>1 DEF SessionIds
<1>4. Earmarked(u, k)' = Earmarked(u, k) - remaining[<<u, m, k>>] + n
  <2>1. Total([part(u, k) EXCEPT ![m] = n]) = Total(part(u, k)) - part(u, k)[m] + n
    <3> HIDE DEF part, n
    <3>1. QED
      BY <1>1, <1>2, PartiesAssumption, TotalUpdate
  <2>2. QED
    BY <1>3, <2>1 DEF Earmarked
<1>5. ASSUME NEW v \in Users, NEW j \in Mints, <<v, j>> # <<u, k>>
      PROVE  Earmarked(v, j)' = Earmarked(v, j)
  <2>1. [x \in Merchants |-> remaining'[<<v, x, j>>]] = part(v, j)
    BY <1>1, <1>5 DEF SessionIds
  <2>2. QED
    BY <2>1 DEF Earmarked
<1>6. QED
  BY <1>4, <1>5

(* Earmarks are naturals, and no session has more than its user's.         *)
LEMMA EarmarkedType ==
    ASSUME TypeOK, NEW u \in Users, NEW k \in Mints
    PROVE  /\ Earmarked(u, k) \in Nat
           /\ \A m \in Merchants : remaining[<<u, m, k>>] <= Earmarked(u, k)
<1> DEFINE part == [x \in Merchants |-> remaining[<<u, x, k>>]]
<1>1. part \in [Merchants -> Nat]
  BY AmountsAreNat DEF TypeOK, SessionIds
<1>2. Total(part) \in Nat /\ \A m \in Merchants : part[m] <= Total(part)
  <2> HIDE DEF part
  <2>1. QED
    BY <1>1, PartiesAssumption, TotalType, TotalBounds
<1>3. QED
  BY <1>2 DEF Earmarked

(* A token transfer leaves the supply of every mint as it is, so that the  *)
(* receiving balance still fits a u64.                                     *)
LEMMA TransferInRange ==
    ASSUME TypeOK, SupplyFits,
           NEW a \in Accounts, NEW b \in Accounts, NEW n \in Amounts,
           MintOf[a] = MintOf[b], CanTransfer(a, b, n), Transfer(a, b, n)
    PROVE  /\ balance' \in [Accounts -> 0 .. U64Max]
           /\ SupplyFits'
           /\ balance'[a] = balance[a] - n
           /\ \A c \in Accounts \ {a} : balance[c] <= balance'[c]
<1>1. balance \in [Accounts -> Nat] /\ n \in Nat /\ U64Max \in Nat
  BY AmountsAreNat, NumbersAssumption DEF TypeOK
<1>2. /\ balance'[a] = balance[a] - n
      /\ balance'[b] = balance[b] + n
      /\ \A c \in Accounts \ {a, b} : balance'[c] = balance[c]
      /\ balance' \in [Accounts -> Nat]
  BY <1>1 DEF Transfer, CanTransfer
<1>3. ASSUME NEW k \in Mints
      PROVE  Total(MintBalance(k))' = Total(MintBalance(k))
  <2> DEFINE f == MintBalance(k)
             p == balance[a] - n
             q == balance[b] + n
             g == [f EXCEPT ![a] = p]
             h == [g EXCEPT ![b] = q]
  <2>1. f \in [Accounts -> Nat]
    BY <1>1 DEF MintBalance
  <2>2. CASE MintOf[a] # k
    <3>1. MintBalance(k)' = MintBalance(k)
      BY <1>2, <2>2 DEF MintBalance
    <3>2. QED
      BY <3>1
  <2>3. CASE MintOf[a] = k
    <3>1. p \in Nat /\ q \in Nat /\ p = balance[a] - n /\ q = balance[b] + n
      BY <1>1 DEF CanTransfer
    <3>2. MintBalance(k)' = h
      BY <1>2, <2>3 DEF MintBalance
    <3>3. /\ f[a] = balance[a]
          /\ g \in [Accounts -> Nat]
          /\ g[b] = balance[b]
      <4>1. f[a] = balance[a] /\ f[b] = balance[b]
        BY <2>3 DEF MintBalance
      <4> HIDE DEF f, p
      <4>2. QED
        BY <2>1, <3>1, <4>1 DEF CanTransfer
    <3>4. /\ Total(g) = Total(f) - f[a] + p
          /\ Total(h) = Total(g) - g[b] + q
      <4> HIDE DEF f, p, q
      <4>1. Total(g) = Total(f) - f[a] + p
        BY <2>1, <3>1, AccountsAssumption, TotalUpdate
      <4> HIDE DEF g
      <4>2. Total(h) = Total(g) - g[b] + q
        BY <3>1, <3>3, AccountsAssumption, TotalUpdate
      <4>3. QED
        BY <4>1, <4>2
    <3>5. Total(f) \in Nat
      BY <2>1, AccountsAssumption, TotalType
    <3>6. Total(h) = Total(f)
      <4> HIDE DEF f, g, h, p, q
      <4>1. QED
        BY <1>1, <3>1, <3>3, <3>4, <3>5
    <3>7. QED
      BY <3>2, <3>6
  <2>4. QED
    BY <2>2, <2>3
<1>4. SupplyFits'
  BY <1>3 DEF SupplyFits
<1>5. ASSUME NEW c \in Accounts
      PROVE  balance'[c] <= U64Max
  <2>1. MintBalance(MintOf[c])' \in [Accounts -> Nat]
    BY <1>2 DEF MintBalance
  <2>2. MintBalance(MintOf[c])'[c] = balance'[c]
    BY DEF MintBalance
  <2>3. balance'[c] <= Total(MintBalance(MintOf[c])')
    BY <2>1, <2>2, AccountsAssumption, TotalBounds
  <2>4. MintOf[c] \in Mints
    BY AccountsAssumption
  <2>5. Total(MintBalance(MintOf[c])') <= U64Max
    BY <1>4, <2>4 DEF SupplyFits
  <2>6. Total(MintBalance(MintOf[c])') \in Nat
    BY <2>1, AccountsAssumption, TotalType
  <2>7. QED
    BY <1>1, <1>2, <2>3, <2>5, <2>6
<1>6. balance' \in [Accounts -> 0 .. U64Max]
  BY <1>1, <1>2, <1>5
<1>7. QED
  BY <1>1, <1>2, <1>4, <1>6 DEF CanTransfer
-----------------------------------------------------------------------------
(* The inductive step, one lemma for each kind of instruction. *)

(* A step that moves no token leaves the supply as it is. *)
LEMMA SupplyUnchanged ==
    ASSUME SupplyFits, UNCHANGED balance
    PROVE  SupplyFits'
BY DEF SupplyFits, MintBalance

(* Instructions that touch neither sessions, reservations nor balances:    *)
(* init_user, delegate_user and the granting and revoking of tokens.       *)
LEMMA QuietStep ==
    ASSUME IInv, UNCHANGED <<open, remaining, userMints, reserved, balance>>,
           stage' \in [Users -> {"missing", "base", "delegated"}],
           lamports' \in [Users -> Nat],
           sessionKeys' \subseteq Users \X Keys
    PROVE  IInv'
<1>1. TypeOK'
  BY DEF IInv, TypeOK
<1>2. SupplyFits'
  BY SupplyUnchanged DEF IInv
<1>3. Accounted' /\ ReservationBacked'
  BY DEF IInv, Accounted, Earmarked, ReservationBacked, Held
<1>4. QED
  BY <1>1, <1>2, <1>3 DEF IInv

(* ensure_user_mint starts a reservation at zero where there was none. *)
LEMMA EnsureStep ==
    ASSUME IInv, NEW s \in Keys, NEW u \in Users, NEW k \in Mints, EnsureUserMint(s, u, k)
    PROVE  IInv'
<1> USE DEF IInv
<1>1. U64Max \in Nat /\ UserMintRent \in Nat
  BY NumbersAssumption
<1>2. TypeOK'
  BY <1>1 DEF EnsureUserMint, TypeOK
<1>3. SupplyFits'
  BY SupplyUnchanged DEF EnsureUserMint
<1>4. \A v \in Users, j \in Mints : Held(v, j)' = Held(v, j) /\ Earmarked(v, j)' = Earmarked(v, j)
  BY DEF EnsureUserMint, Held, Earmarked, TypeOK
<1>5. Accounted' /\ ReservationBacked'
  BY <1>4 DEF Accounted, ReservationBacked, EnsureUserMint
<1>6. QED
  BY <1>2, <1>3, <1>5

(* open_session(0) adds a session with nothing remaining. *)
LEMMA OpenEmptyStep ==
    ASSUME IInv, NEW s \in Keys, NEW u \in Users, NEW m \in Merchants, NEW k \in Mints,
           NEW a \in Accounts, OpenEmpty(s, u, m, k, a)
    PROVE  IInv'
<1> USE DEF IInv
<1>1. U64Max \in Nat /\ SessionRent \in Nat /\ <<u, m, k>> \in SessionIds
  BY NumbersAssumption DEF SessionIds
<1>2. TypeOK'
  BY <1>1 DEF OpenEmpty, TypeOK
<1>3. SupplyFits'
  BY SupplyUnchanged DEF OpenEmpty
<1>4. remaining' = remaining
  BY <1>1 DEF OpenEmpty, TypeOK
<1>5. Accounted' /\ ReservationBacked'
  BY <1>4 DEF Accounted, ReservationBacked, OpenEmpty, Held, Earmarked
<1>6. QED
  BY <1>2, <1>3, <1>5

(* When one session and its reservation change by the same amount, the     *)
(* books still agree.                                                      *)
LEMMA AccountedStep ==
    ASSUME TypeOK, Accounted, NEW u \in Users, NEW m \in Merchants, NEW k \in Mints,
           remaining' \in [SessionIds -> Nat],
           \A x \in SessionIds : x # <<u, m, k>> => remaining'[x] = remaining[x],
           Held(u, k)' = Held(u, k) - remaining[<<u, m, k>>] + remaining'[<<u, m, k>>],
           \A v \in Users, j \in Mints : <<v, j>> # <<u, k>> => Held(v, j)' = Held(v, j)
    PROVE  Accounted'
<1>1. /\ Earmarked(u, k)'
          = Earmarked(u, k) - remaining[<<u, m, k>>] + remaining'[<<u, m, k>>]
      /\ \A v \in Users, j \in Mints :
            <<v, j>> # <<u, k>> => Earmarked(v, j)' = Earmarked(v, j)
  BY RemainingUpdate
<1>2. QED
  BY <1>1 DEF Accounted

(* A reservation that grows by n together with one session.  It is backed  *)
(* by the account whose free tokens the instruction looked at.             *)
LEMMA ReserveStep ==
    ASSUME IInv, NEW u \in Users, NEW m \in Merchants, NEW k \in Mints,
           NEW a \in Accounts, NEW n \in Amounts,
           HoldsMint(a, u, k),
           CanReserve(balance[a], Held(u, k), n),
           remaining' = [remaining EXCEPT ![<<u, m, k>>] = @ + n],
           userMints' = userMints \cup {<<u, k>>},
           reserved' = [reserved EXCEPT ![<<u, k>>] = Held(u, k) + n],
           UNCHANGED balance
    PROVE  Accounted' /\ ReservationBacked'
<1>1. TypeOK /\ Accounted /\ ReservationBacked
  BY DEF IInv
<1>2. /\ n \in Nat
      /\ Held(u, k) \in Nat
      /\ balance[a] \in Nat
      /\ remaining[<<u, m, k>>] \in Nat
      /\ <<u, m, k>> \in SessionIds
      /\ <<u, k>> \in Users \X Mints
  BY <1>1, AmountsAreNat DEF TypeOK, Held, SessionIds
<1>3. /\ remaining' \in [SessionIds -> Nat]
      /\ remaining'[<<u, m, k>>] = remaining[<<u, m, k>>] + n
      /\ \A x \in SessionIds : x # <<u, m, k>> => remaining'[x] = remaining[x]
  BY <1>1, <1>2, AmountsAreNat DEF TypeOK
<1>4. /\ Held(u, k)' = Held(u, k) + n
      /\ \A v \in Users, j \in Mints : <<v, j>> # <<u, k>> => Held(v, j)' = Held(v, j)
  BY <1>1, <1>2 DEF TypeOK, Held
<1>5. Accounted'
  <2>1. Held(u, k)' = Held(u, k) - remaining[<<u, m, k>>] + remaining'[<<u, m, k>>]
    BY <1>2, <1>3, <1>4
  <2>2. QED
    BY <1>1, <1>3, <1>4, <2>1, AccountedStep
<1>6. Held(u, k) + n <= balance[a]
  BY <1>2 DEF CanReserve, Available
<1>7. ReservationBacked'
  BY <1>1, <1>4, <1>6 DEF ReservationBacked
<1>8. QED
  BY <1>5, <1>7

(* open_session(n) creates what is missing and reserves n. *)
LEMMA OpenFundedStep ==
    ASSUME IInv, NEW s \in Keys, NEW u \in Users, NEW m \in Merchants, NEW k \in Mints,
           NEW a \in Accounts, NEW n \in Amounts, OpenFunded(s, u, m, k, a, n)
    PROVE  IInv'
<1> USE DEF IInv
<1>1. /\ U64Max \in Nat
      /\ n \in Nat
      /\ balance[a] \in 0 .. U64Max
      /\ Held(u, k) \in 0 .. U64Max
      /\ <<u, m, k>> \in SessionIds
      /\ <<u, k>> \in Users \X Mints
      /\ remaining[<<u, m, k>>] = 0
  BY NumbersAssumption DEF Amounts, TypeOK, Held, SessionIds, OpenFunded
<1>2. n <= U64Max /\ Held(u, k) + n \in 0 .. U64Max
  BY <1>1 DEF OpenFunded, CanReserve, Amounts
<1>3. lamports' \in [Users -> Nat]
  <2> DEFINE rent == SessionRent + IF <<u, k>> \in userMints THEN 0 ELSE UserMintRent
  <2>1. rent \in Nat
    BY NumbersAssumption
  <2>2. lamports[u] >= rent /\ lamports' = [lamports EXCEPT ![u] = @ - rent]
    BY DEF OpenFunded
  <2> HIDE DEF rent
  <2>3. QED
    BY <2>1, <2>2 DEF TypeOK
<1>4. TypeOK'
  BY <1>1, <1>2, <1>3 DEF OpenFunded, TypeOK
<1>5. SupplyFits'
  BY SupplyUnchanged DEF OpenFunded
<1>6. remaining' = [remaining EXCEPT ![<<u, m, k>>] = @ + n]
  BY <1>1 DEF OpenFunded
<1>7. Accounted' /\ ReservationBacked'
  BY <1>6, ReserveStep DEF OpenFunded
<1>8. QED
  BY <1>4, <1>5, <1>7

(* deposit adds to an existing reservation. *)
LEMMA DepositStep ==
    ASSUME IInv, NEW s \in Keys, NEW u \in Users, NEW m \in Merchants, NEW k \in Mints,
           NEW a \in Accounts, NEW n \in Amounts, Deposit(s, u, m, k, a, n)
    PROVE  IInv'
<1> USE DEF IInv
<1>1. /\ U64Max \in Nat
      /\ n \in Nat
      /\ <<u, m, k>> \in SessionIds
      /\ <<u, k>> \in Users \X Mints
      /\ Held(u, k) = reserved[<<u, k>>]
      /\ reserved[<<u, k>>] \in 0 .. U64Max
      /\ remaining[<<u, m, k>>] \in 0 .. U64Max
  BY NumbersAssumption DEF Amounts, TypeOK, Held, SessionIds, Deposit
<1>2. /\ reserved[<<u, k>>] + n \in 0 .. U64Max
      /\ remaining[<<u, m, k>>] + n \in 0 .. U64Max
  BY <1>1 DEF Deposit, CanReserve
<1>3. TypeOK'
  BY <1>1, <1>2 DEF Deposit, TypeOK
<1>4. SupplyFits'
  BY SupplyUnchanged DEF Deposit
<1>5. /\ CanReserve(balance[a], Held(u, k), n)
      /\ userMints' = userMints \cup {<<u, k>>}
      /\ reserved' = [reserved EXCEPT ![<<u, k>>] = Held(u, k) + n]
  BY <1>1 DEF Deposit
<1>6. Accounted' /\ ReservationBacked'
  BY <1>5, ReserveStep DEF Deposit
<1>7. QED
  BY <1>3, <1>4, <1>6
(* charge lowers the session, the reservation and one token account of the *)
(* User by the same amount: whichever account it debits, an account that   *)
(* covered the reservation still covers what is left of it.                *)
LEMMA ChargeKeepsIInv ==
    ASSUME IInv, NEW s \in Keys, NEW u \in Users, NEW m \in Merchants, NEW k \in Mints,
           NEW a \in Accounts, NEW b \in Accounts, NEW n \in Amounts,
           Charge(s, u, m, k, a, b, n)
    PROVE  IInv'
<1>1. TypeOK /\ SupplyFits /\ Accounted /\ ReservationBacked
  BY DEF IInv
<1>2. /\ U64Max \in Nat
      /\ n \in Nat
      /\ <<u, m, k>> \in SessionIds
      /\ <<u, k>> \in Users \X Mints
      /\ Held(u, k) = reserved[<<u, k>>]
      /\ reserved[<<u, k>>] \in 0 .. U64Max
      /\ remaining[<<u, m, k>>] \in 0 .. U64Max
      /\ balance \in [Accounts -> Nat]
  BY <1>1, NumbersAssumption DEF Amounts, TypeOK, Held, SessionIds, Charge
<1>3. /\ reserved[<<u, k>>] - n \in 0 .. U64Max
      /\ remaining[<<u, m, k>>] - n \in 0 .. U64Max
  BY <1>2 DEF Charge, CanDebit
<1>4. /\ balance' \in [Accounts -> 0 .. U64Max]
      /\ SupplyFits'
      /\ balance'[a] = balance[a] - n
      /\ \A c \in Accounts \ {a} : balance[c] <= balance'[c]
  <2>1. MintOf[a] = MintOf[b] /\ CanTransfer(a, b, n) /\ Transfer(a, b, n)
    BY DEF Charge, MerchantAccount, HoldsMint
  <2>2. QED
    BY <1>1, <2>1, TransferInRange
<1>5. TypeOK'
  BY <1>1, <1>2, <1>3, <1>4 DEF Charge, TypeOK
<1>6. /\ remaining' \in [SessionIds -> Nat]
      /\ remaining'[<<u, m, k>>] = remaining[<<u, m, k>>] - n
      /\ \A x \in SessionIds : x # <<u, m, k>> => remaining'[x] = remaining[x]
  BY <1>1, <1>2, <1>3, AmountsAreNat DEF Charge, TypeOK
<1>7. /\ Held(u, k)' = Held(u, k) - n
      /\ \A v \in Users, j \in Mints : <<v, j>> # <<u, k>> => Held(v, j)' = Held(v, j)
  BY <1>1, <1>2 DEF Charge, TypeOK, Held
<1>8. Accounted'
  <2>1. Held(u, k)' = Held(u, k) - remaining[<<u, m, k>>] + remaining'[<<u, m, k>>]
    BY <1>2, <1>6, <1>7
  <2>2. QED
    BY <1>1, <1>6, <1>7, <2>1, AccountedStep
<1>9. ASSUME NEW v \in Users, NEW j \in Mints, Held(v, j)' > 0
      PROVE  \E c \in Accounts : HoldsMint(c, v, j) /\ Held(v, j)' <= balance'[c]
  <2>1. CASE <<v, j>> = <<u, k>>
    <3>1. Held(u, k) > 0
      BY <1>2, <1>7, <1>9, <2>1
    <3>2. PICK c \in Accounts : HoldsMint(c, u, k) /\ Held(u, k) <= balance[c]
      BY <1>1, <3>1 DEF ReservationBacked
    <3>3. Held(u, k) - n <= balance'[c]
      BY <1>2, <1>4, <3>2
    <3>4. QED
      BY <1>7, <2>1, <3>2, <3>3
  <2>2. CASE <<v, j>> # <<u, k>>
    <3>1. Held(v, j)' = Held(v, j)
      BY <1>7, <2>2
    <3>2. PICK c \in Accounts : HoldsMint(c, v, j) /\ Held(v, j) <= balance[c]
      BY <1>1, <1>9, <3>1 DEF ReservationBacked
    <3>3. c # a
      BY <2>2, <3>2 DEF Charge, HoldsMint
    <3>4. Held(v, j) \in Nat /\ balance[c] \in Nat /\ balance'[c] \in Nat
      BY <1>1, <1>2, <1>4, AmountsAreNat DEF TypeOK, Held
    <3>5. QED
      BY <1>4, <3>1, <3>2, <3>3, <3>4
  <2>3. QED
    BY <2>1, <2>2
<1>10. ReservationBacked'
  BY <1>9 DEF ReservationBacked, HoldsMint
<1>11. QED
  BY <1>4, <1>5, <1>8, <1>10 DEF IInv

(* Closing a session that has nothing remaining, with no UserMint.         *)
LEMMA CloseWithoutUserMintStep ==
    ASSUME IInv, NEW s \in Keys, NEW u \in Users, NEW m \in Merchants, NEW k \in Mints,
           CloseWithoutUserMint(s, u, m, k)
    PROVE  IInv'
<1> USE DEF IInv
<1>1. U64Max \in Nat /\ SessionRent \in Nat
  BY NumbersAssumption
<1>2. TypeOK'
  BY <1>1 DEF CloseWithoutUserMint, TypeOK
<1>3. SupplyFits'
  BY SupplyUnchanged DEF CloseWithoutUserMint
<1>4. Accounted' /\ ReservationBacked'
  BY DEF Accounted, ReservationBacked, CloseWithoutUserMint, Held, Earmarked
<1>5. QED
  BY <1>2, <1>3, <1>4

(* close_session gives back what the session had; a UserMint that is taken *)
(* down had nothing reserved, so that no other session loses its cover.    *)
LEMMA CloseSessionStep ==
    ASSUME IInv, NEW s \in Keys, NEW u \in Users, NEW m \in Merchants, NEW k \in Mints,
           CloseSession(s, u, m, k)
    PROVE  IInv'
<1> DEFINE held == HeldAfterClose(reserved[<<u, k>>], remaining[<<u, m, k>>])
<1>1. TypeOK /\ SupplyFits /\ Accounted /\ ReservationBacked
  BY DEF IInv
<1>2. /\ U64Max \in Nat
      /\ <<u, m, k>> \in SessionIds
      /\ <<u, k>> \in Users \X Mints
      /\ Held(u, k) = reserved[<<u, k>>]
      /\ reserved[<<u, k>>] \in 0 .. U64Max
      /\ remaining[<<u, m, k>>] \in 0 .. U64Max
      /\ held = reserved[<<u, k>>] - remaining[<<u, m, k>>]
  BY <1>1, NumbersAssumption DEF TypeOK, Held, SessionIds, CloseSession, HeldAfterClose
<1>3. held \in 0 .. U64Max
  BY <1>2 DEF CloseSession
<1>4. /\ reserved' = [reserved EXCEPT ![<<u, k>>] = held]
      /\ userMints' = IF Idle(held) THEN userMints \ {<<u, k>>} ELSE userMints
      /\ lamports' = [lamports EXCEPT ![u] = @ + CloseRefund(Idle(held))]
      /\ remaining' = [remaining EXCEPT ![<<u, m, k>>] = 0]
      /\ open' = open \ {<<u, m, k>>}
      /\ <<u, k>> \in userMints
      /\ UNCHANGED <<stage, sessionKeys, balance>>
  BY DEF CloseSession
<1> HIDE DEF held
<1>5. lamports' \in [Users -> Nat]
  <2>1. CloseRefund(Idle(held)) \in Nat
    BY NumbersAssumption DEF CloseRefund
  <2>2. QED
    BY <1>1, <1>4, <2>1 DEF TypeOK
<1>6. TypeOK'
  BY <1>1, <1>2, <1>3, <1>4, <1>5 DEF TypeOK
<1>7. SupplyFits'
  BY <1>1, <1>4, SupplyUnchanged
<1>8. /\ remaining' \in [SessionIds -> Nat]
      /\ remaining'[<<u, m, k>>] = 0
      /\ \A x \in SessionIds : x # <<u, m, k>> => remaining'[x] = remaining[x]
  BY <1>1, <1>2, <1>4, AmountsAreNat DEF TypeOK
<1>9. /\ Held(u, k)' = Held(u, k) - remaining[<<u, m, k>>]
      /\ \A v \in Users, j \in Mints : <<v, j>> # <<u, k>> => Held(v, j)' = Held(v, j)
  BY <1>1, <1>2, <1>4 DEF TypeOK, Held, Idle
<1>10. Accounted'
  <2>1. Held(u, k)' = Held(u, k) - remaining[<<u, m, k>>] + remaining'[<<u, m, k>>]
    BY <1>2, <1>8, <1>9
  <2>2. QED
    BY <1>1, <1>8, <1>9, <2>1, AccountedStep
<1>11. ASSUME NEW v \in Users, NEW j \in Mints, Held(v, j)' > 0
       PROVE  \E c \in Accounts : HoldsMint(c, v, j) /\ Held(v, j)' <= balance[c]
  <2>1. Held(v, j) \in Nat /\ Held(v, j)' \in Nat /\ Held(v, j)' <= Held(v, j)
    <3>1. Held(v, j) \in Nat
      BY <1>1, AmountsAreNat DEF TypeOK, Held
    <3>2. Held(v, j)' \in Nat
      BY <1>6, AmountsAreNat DEF TypeOK, Held
    <3>3. Held(v, j)' <= Held(v, j)
      <4>1. CASE <<v, j>> = <<u, k>>
        <5>1. v = u /\ j = k
          BY <4>1
        <5>2. Held(u, k)' <= Held(u, k)
          BY <1>2, <1>9
        <5>3. QED
          BY <5>1, <5>2
      <4>2. CASE <<v, j>> # <<u, k>>
        BY <1>9, <3>1, <4>2
      <4>3. QED
        BY <4>1, <4>2
    <3>4. QED
      BY <3>1, <3>2, <3>3
  <2>2. PICK c \in Accounts : HoldsMint(c, v, j) /\ Held(v, j) <= balance[c]
    BY <1>1, <1>11, <2>1 DEF ReservationBacked
  <2>3. balance[c] \in Nat
    BY <1>1, AmountsAreNat DEF TypeOK
  <2>4. QED
    BY <2>1, <2>2, <2>3
<1>12. ReservationBacked'
  BY <1>4, <1>11 DEF ReservationBacked
<1>13. QED
  BY <1>6, <1>7, <1>10, <1>12 DEF IInv
(* Tokens leave a User's account in withdraw only as far as that account   *)
(* has more than the reservation, and no other account of a User loses any *)
(* in a withdrawal or a wallet's transfer.                                 *)
LEMMA TransferKeepsIInv ==
    ASSUME IInv, NEW a \in Accounts, NEW b \in Accounts, NEW n \in Amounts,
           MintOf[a] = MintOf[b], CanTransfer(a, b, n), Transfer(a, b, n),
           UNCHANGED <<stage, lamports, sessionKeys, open, remaining, userMints, reserved>>,
           \A u \in Users, k \in Mints :
              HoldsMint(a, u, k) => n <= Available(balance[a], Held(u, k))
    PROVE  IInv'
<1>1. TypeOK /\ SupplyFits /\ Accounted /\ ReservationBacked
  BY DEF IInv
<1>2. /\ balance' \in [Accounts -> 0 .. U64Max]
      /\ SupplyFits'
      /\ balance'[a] = balance[a] - n
      /\ \A c \in Accounts \ {a} : balance[c] <= balance'[c]
  BY <1>1, TransferInRange
<1>3. TypeOK'
  BY <1>1, <1>2 DEF TypeOK
<1>4. Accounted'
  BY <1>1 DEF Accounted, Held, Earmarked
<1>5. ASSUME NEW v \in Users, NEW j \in Mints, Held(v, j) > 0
      PROVE  \E c \in Accounts : HoldsMint(c, v, j) /\ Held(v, j) <= balance'[c]
  <2>1. PICK c \in Accounts : HoldsMint(c, v, j) /\ Held(v, j) <= balance[c]
    BY <1>1, <1>5 DEF ReservationBacked
  <2>2. Held(v, j) \in Nat /\ balance[c] \in Nat /\ balance'[c] \in Nat /\ n \in Nat
    BY <1>1, <1>2, AmountsAreNat DEF TypeOK, Held
  <2>3. CASE c = a
    <3>1. n <= Available(balance[a], Held(v, j))
      BY <2>1, <2>3
    <3>2. Held(v, j) <= balance'[a]
      BY <1>2, <2>1, <2>2, <2>3, <3>1 DEF Available
    <3>3. QED
      BY <2>1, <2>3, <3>2
  <2>4. CASE c # a
    BY <1>2, <2>1, <2>2, <2>4
  <2>5. QED
    BY <2>3, <2>4
<1>6. ReservationBacked'
  BY <1>5 DEF ReservationBacked, Held
<1>7. QED
  BY <1>2, <1>3, <1>4, <1>6 DEF IInv

(* withdraw. *)
LEMMA WithdrawStep ==
    ASSUME IInv, NEW s \in Keys, NEW u \in Users, NEW k \in Mints,
           NEW a \in Accounts, NEW b \in Accounts, NEW n \in Amounts,
           Withdraw(s, u, k, a, b, n)
    PROVE  IInv'
<1>1. \A v \in Users, j \in Mints :
         HoldsMint(a, v, j) => n <= Available(balance[a], Held(v, j))
  BY DEF Withdraw, HoldsMint, CanWithdraw
<1>2. MintOf[a] = MintOf[b]
  BY DEF Withdraw, HoldsMint
<1>3. QED
  BY <1>1, <1>2, TransferKeepsIInv DEF Withdraw

(* A transfer between wallets, or from a wallet to a User. *)
LEMMA WalletTransferStep ==
    ASSUME IInv, NEW a \in Accounts, NEW b \in Accounts, NEW n \in Amounts,
           WalletTransfer(a, b, n)
    PROVE  IInv'
<1>1. \A v \in Users, j \in Mints : ~HoldsMint(a, v, j)
  BY PartiesAssumption DEF WalletTransfer, HoldsMint
<1>2. QED
  BY <1>1, TransferKeepsIInv DEF WalletTransfer

-----------------------------------------------------------------------------
(* The invariant. *)

(* It holds when the program is deployed. *)
LEMMA InitIInv == Init => IInv
<1> SUFFICES ASSUME Init
             PROVE  IInv
  OBVIOUS
<1>1. SupplyFits
  BY SupplyAssumption DEF Init, SupplyFits, MintBalance
<1>2. balance \in [Accounts -> 0 .. U64Max]
  <2>1. balance \in [Accounts -> Nat]
    BY SupplyAssumption DEF Init
  <2>2. ASSUME NEW c \in Accounts
        PROVE  balance[c] <= U64Max
    <3>1. MintBalance(MintOf[c]) \in [Accounts -> Nat]
      BY <2>1 DEF MintBalance
    <3>2. MintBalance(MintOf[c])[c] = balance[c]
      BY DEF MintBalance
    <3>3. balance[c] <= Total(MintBalance(MintOf[c]))
      BY <3>1, <3>2, AccountsAssumption, TotalBounds
    <3>4. Total(MintBalance(MintOf[c])) <= U64Max
      BY <1>1, AccountsAssumption DEF SupplyFits
    <3>5. Total(MintBalance(MintOf[c])) \in Nat
      BY <3>1, AccountsAssumption, TotalType
    <3>6. QED
      BY <2>1, <3>3, <3>4, <3>5, NumbersAssumption
  <2>3. QED
    BY <2>1, <2>2, NumbersAssumption
<1>3. TypeOK
  BY <1>2, NumbersAssumption DEF Init, TypeOK, SessionIds
<1>4. Accounted
  <2>1. ASSUME NEW u \in Users, NEW k \in Mints
        PROVE  Earmarked(u, k) = 0
    <3> DEFINE part == [m \in Merchants |-> remaining[<<u, m, k>>]]
    <3>1. part \in [Merchants -> Nat] /\ \A m \in Merchants : part[m] = 0
      BY DEF Init, SessionIds
    <3>2. Total(part) = 0
      <4> HIDE DEF part
      <4>1. QED
        BY <3>1, PartiesAssumption, TotalZero
    <3>3. QED
      BY <3>2 DEF Earmarked
  <2>2. QED
    BY <2>1 DEF Accounted, Held, Init
<1>5. ReservationBacked
  BY DEF ReservationBacked, Held, Init
<1>6. QED
  BY <1>1, <1>3, <1>4, <1>5 DEF IInv

(* Every instruction, by whoever it is signed, keeps it. *)
LEMMA NextIInv == IInv /\ [Next]_vars => IInv'
<1> SUFFICES ASSUME IInv, [Next]_vars
             PROVE  IInv'
  OBVIOUS
<1>1. ASSUME NEW u \in Users, InitUser(u)
      PROVE  IInv'
  <2>1. lamports' \in [Users -> Nat]
    BY <1>1, NumbersAssumption DEF InitUser, IInv, TypeOK
  <2>2. QED
    BY <1>1, <2>1, QuietStep DEF InitUser, IInv, TypeOK
<1>2. ASSUME NEW u \in Users, DelegateUser(u)
      PROVE  IInv'
  BY <1>2, QuietStep DEF DelegateUser, IInv, TypeOK
<1>3. ASSUME NEW s \in Keys, NEW u \in Users, NEW k \in Mints, UserStep(s, u, k)
      PROVE  IInv'
  <2>1. CASE EnsureUserMint(s, u, k)
    BY <2>1, EnsureStep
  <2>2. CASE \E a, b \in Accounts, n \in Amounts : Withdraw(s, u, k, a, b, n)
    BY <2>2, WithdrawStep
  <2>3. ASSUME NEW m \in Merchants, NEW a \in Accounts, OpenEmpty(s, u, m, k, a)
        PROVE  IInv'
    BY <2>3, OpenEmptyStep
  <2>4. ASSUME NEW m \in Merchants, NEW a \in Accounts, NEW n \in Amounts,
               OpenFunded(s, u, m, k, a, n)
        PROVE  IInv'
    BY <2>4, OpenFundedStep
  <2>5. ASSUME NEW m \in Merchants, NEW a \in Accounts, NEW n \in Amounts,
               Deposit(s, u, m, k, a, n)
        PROVE  IInv'
    BY <2>5, DepositStep
  <2>6. ASSUME NEW m \in Merchants, CloseWithoutUserMint(s, u, m, k)
        PROVE  IInv'
    BY <2>6, CloseWithoutUserMintStep
  <2>7. ASSUME NEW m \in Merchants, CloseSession(s, u, m, k)
        PROVE  IInv'
    BY <2>7, CloseSessionStep
  <2>8. QED
    BY <1>3, <2>1, <2>2, <2>3, <2>4, <2>5, <2>6, <2>7 DEF UserStep
<1>4. ASSUME NEW s \in Keys, NEW u \in Users, NEW m \in Merchants, NEW k \in Mints,
             ChargeStep(s, u, m, k)
      PROVE  IInv'
  BY <1>4, ChargeKeepsIInv DEF ChargeStep
<1>5. ASSUME NEW u \in Users, NEW s \in SessionKeys, GrantKey(u, s) \/ RevokeKey(u, s)
      PROVE  IInv'
  <2>1. sessionKeys' \subseteq Users \X Keys
    BY <1>5, PartiesAssumption DEF GrantKey, RevokeKey, IInv, TypeOK
  <2>2. UNCHANGED <<stage, lamports, open, remaining, userMints, reserved, balance>>
    BY <1>5 DEF GrantKey, RevokeKey
  <2>3. QED
    BY <2>1, <2>2, QuietStep DEF IInv, TypeOK
<1>6. ASSUME NEW a \in Accounts, NEW b \in Accounts, NEW n \in Amounts,
             WalletTransfer(a, b, n)
      PROVE  IInv'
  BY <1>6, WalletTransferStep
<1>7. CASE UNCHANGED vars
  BY <1>7, QuietStep DEF vars, IInv, TypeOK
<1>8. QED
  BY <1>1, <1>2, <1>3, <1>4, <1>5, <1>6, <1>7 DEF Next

(* The state keeps its type: no amount leaves the range of a u64, and a    *)
(* closed account holds nothing.                                           *)
THEOREM TypeCorrect == Spec => []TypeOK
<1>1. IInv => TypeOK
  BY DEF IInv
<1>2. QED
  BY <1>1, InitIInv, NextIInv, PTL DEF Spec

(* UserMint.reserved is the sum of what the open sessions have remaining.  *)
THEOREM ReservationsAccounted == Spec => []Accounted
<1>1. IInv => Accounted
  BY DEF IInv
<1>2. QED
  BY <1>1, InitIInv, NextIInv, PTL DEF Spec

(* What is reserved is in one token account of the User.                   *)
THEOREM ReservationsBacked == Spec => []ReservationBacked
<1>1. IInv => ReservationBacked
  BY DEF IInv
<1>2. QED
  BY <1>1, InitIInv, NextIInv, PTL DEF Spec

(* HyperpayError::Overflow is never the answer: amounts that pass the      *)
(* checks before the checked additions and subtractions fit.               *)
THEOREM NoOverflow == Spec => []OverflowUnreachable
<1>1. IInv => OverflowUnreachable
  <2> SUFFICES ASSUME IInv, NEW u \in Users, NEW m \in Merchants, NEW k \in Mints,
                      NEW a \in Accounts, NEW n \in Amounts
               PROVE  /\ HoldsMint(a, u, k) /\ n <= Available(balance[a], Held(u, k)) =>
                            /\ Held(u, k) + n <= U64Max
                            /\ remaining[<<u, m, k>>] + n <= U64Max
                      /\ <<u, m, k>> \in open => remaining[<<u, m, k>>] <= Held(u, k)
    BY DEF OverflowUnreachable
  <2>1. TypeOK /\ Accounted
    BY DEF IInv
  <2>2. remaining[<<u, m, k>>] <= Held(u, k)
    BY <2>1, EarmarkedType DEF Accounted
  <2>3. /\ n \in Nat \ {0}
        /\ U64Max \in Nat
        /\ Held(u, k) \in Nat
        /\ balance[a] \in 0 .. U64Max
        /\ remaining[<<u, m, k>>] \in Nat
    BY <2>1, NumbersAssumption DEF Amounts, TypeOK, Held, SessionIds
  <2>4. n <= Available(balance[a], Held(u, k)) => Held(u, k) + n <= balance[a]
    BY <2>3 DEF Available
  <2>5. QED
    BY <2>2, <2>3, <2>4
<1>2. QED
  BY <1>1, InitIInv, NextIInv, PTL DEF Spec

-----------------------------------------------------------------------------
(* The checks behind the two ENABLED invariants.  ENABLED itself is beyond *)
(* the prover; that every check of charge and of close_session passes is   *)
(* not, and what follows those checks can always be written.               *)

(* All that charge checks of a merchant that takes what is left of its     *)
(* session, from account a into account b.                                 *)
TakingAllPasses(u, m, k, a, b) ==
    LET n == remaining[<<u, m, k>>]
    IN  /\ n \in Amounts
        /\ MayCharge(m, u, m)
        /\ <<u, k>> \in userMints
        /\ <<u, m, k>> \in open
        /\ HoldsMint(a, u, k)
        /\ MerchantAccount(b, m, k)
        /\ CanDebit(remaining[<<u, m, k>>], n)
        /\ n <= reserved[<<u, k>>]
        /\ CanTransfer(a, b, n)

(* All that close_session checks, on either of its branches.               *)
ClosingPasses(s, u, m, k) ==
    /\ SignedFor(s, u)
    /\ <<u, m, k>> \in open
    /\ IF <<u, k>> \in userMints
       THEN remaining[<<u, m, k>>] <= reserved[<<u, k>>]
       ELSE remaining[<<u, m, k>>] = 0

(* A merchant is never refused what it was promised: some account of the   *)
(* User holds all that the session has remaining, and charge lets the      *)
(* merchant take it, alone, into any account of its own.                   *)
THEOREM PromisesCanBeTaken ==
    Spec => [](\A u \in Users, m \in Merchants \cap Keys, k \in Mints, b \in Accounts :
                  /\ <<u, m, k>> \in open
                  /\ remaining[<<u, m, k>>] > 0
                  /\ HoldsMint(b, m, k)
                  => \E a \in Accounts : TakingAllPasses(u, m, k, a, b))
<1> DEFINE Promised ==
       \A u \in Users, m \in Merchants \cap Keys, k \in Mints, b \in Accounts :
          /\ <<u, m, k>> \in open
          /\ remaining[<<u, m, k>>] > 0
          /\ HoldsMint(b, m, k)
          => \E a \in Accounts : TakingAllPasses(u, m, k, a, b)
<1>1. IInv => Promised
  <2> SUFFICES ASSUME IInv, NEW u \in Users, NEW m \in Merchants \cap Keys,
                      NEW k \in Mints, NEW b \in Accounts,
                      <<u, m, k>> \in open,
                      remaining[<<u, m, k>>] > 0,
                      HoldsMint(b, m, k)
               PROVE  \E a \in Accounts : TakingAllPasses(u, m, k, a, b)
    OBVIOUS
  <2> DEFINE n == remaining[<<u, m, k>>]
  <2>1. TypeOK /\ Accounted /\ ReservationBacked
    BY DEF IInv
  <2>2. n <= Held(u, k) /\ n \in Amounts /\ Held(u, k) \in Nat
    <3>1. n <= Held(u, k)
      BY <2>1, EarmarkedType DEF Accounted
    <3>2. n \in 0 .. U64Max /\ n > 0 /\ Held(u, k) \in Nat
      BY <2>1, NumbersAssumption DEF TypeOK, SessionIds, Held
    <3>3. QED
      BY <3>1, <3>2, NumbersAssumption DEF Amounts
  <2>3. /\ n \in Nat /\ n > 0 /\ Held(u, k) > 0
        /\ <<u, k>> \in userMints
        /\ Held(u, k) = reserved[<<u, k>>]
    <3>1. n \in Nat /\ n > 0
      BY <2>2, AmountsAreNat
    <3>2. Held(u, k) > 0
      BY <2>2, <3>1
    <3>3. <<u, k>> \in userMints
      BY <3>2 DEF Held
    <3>4. QED
      BY <3>1, <3>2, <3>3 DEF Held
  <2>4. PICK a \in Accounts : HoldsMint(a, u, k) /\ Held(u, k) <= balance[a]
    BY <2>1, <2>3 DEF ReservationBacked
  <2>5. a # b
    BY <2>4, PartiesAssumption DEF HoldsMint
  <2>6. n <= balance[a]
    BY <2>1, <2>2, <2>3, <2>4, NumbersAssumption DEF TypeOK
  <2>7. MayCharge(m, u, m) /\ MerchantAccount(b, m, k)
    BY DEF MayCharge, MerchantAccount
  <2>8. CanDebit(remaining[<<u, m, k>>], n) /\ CanTransfer(a, b, n)
    BY <2>3, <2>5, <2>6 DEF CanDebit, CanTransfer
  <2>9. QED
    BY <2>2, <2>3, <2>4, <2>7, <2>8 DEF TakingAllPasses
<1>2. QED
  BY <1>1, InitIInv, NextIInv, PTL DEF Spec

(* The exit is never blocked: close_session lets the wallet close any      *)
(* session that is open, whether or not its UserMint is there.             *)
THEOREM ExitIsOpen ==
    Spec => [](\A u \in Users, m \in Merchants, k \in Mints :
                  <<u, m, k>> \in open => ClosingPasses(Authority[u], u, m, k))
<1> DEFINE CanExit ==
       \A u \in Users, m \in Merchants, k \in Mints :
          <<u, m, k>> \in open => ClosingPasses(Authority[u], u, m, k)
<1>1. IInv => CanExit
  <2> SUFFICES ASSUME IInv, NEW u \in Users, NEW m \in Merchants, NEW k \in Mints,
                      <<u, m, k>> \in open
               PROVE  ClosingPasses(Authority[u], u, m, k)
    OBVIOUS
  <2>1. TypeOK /\ Accounted
    BY DEF IInv
  <2>2. remaining[<<u, m, k>>] <= Held(u, k) /\ remaining[<<u, m, k>>] \in Nat
    BY <2>1, EarmarkedType, AmountsAreNat DEF Accounted, TypeOK, SessionIds
  <2>3. CASE <<u, k>> \in userMints
    BY <2>2, <2>3 DEF ClosingPasses, SignedFor, Held
  <2>4. CASE <<u, k>> \notin userMints
    BY <2>2, <2>4 DEF ClosingPasses, SignedFor, Held
  <2>5. QED
    BY <2>3, <2>4
<1>2. QED
  BY <1>1, InitIInv, NextIInv, PTL DEF Spec

-----------------------------------------------------------------------------
(* What parties hold. *)

(* A transfer changes what two parties hold, in one mint.                  *)
LEMMA HoldingUpdate ==
    ASSUME TypeOK, NEW a \in Accounts, NEW b \in Accounts, NEW n \in Amounts,
           CanTransfer(a, b, n), Transfer(a, b, n), NEW p, NEW k
    PROVE  /\ Holding(p, k) \in Nat
           /\ \A c \in Accounts : HoldsMint(c, p, k) => balance[c] <= Holding(p, k)
           /\ Holding(p, k)' = Holding(p, k) - (IF HoldsMint(a, p, k) THEN n ELSE 0)
                                             + (IF HoldsMint(b, p, k) THEN n ELSE 0)
<1>1. balance \in [Accounts -> Nat] /\ n \in Nat /\ n <= balance[a] /\ a # b
  BY AmountsAreNat DEF TypeOK, CanTransfer
<1> DEFINE f == [c \in Accounts |-> IF HoldsMint(c, p, k) THEN balance[c] ELSE 0]
           x == IF HoldsMint(a, p, k) THEN n ELSE 0
           y == IF HoldsMint(b, p, k) THEN n ELSE 0
           i == f[a] - x
           j == f[b] + y
           g == [f EXCEPT ![a] = i]
           h == [g EXCEPT ![b] = j]
<1>2. f \in [Accounts -> Nat] /\ i \in Nat /\ j \in Nat /\ x \in Nat /\ y \in Nat
  BY <1>1
<1>3. [c \in Accounts |-> IF HoldsMint(c, p, k) THEN balance'[c] ELSE 0] = h
  <2>1. /\ balance'[a] = balance[a] - n /\ balance'[b] = balance[b] + n
        /\ \A c \in Accounts \ {a, b} : balance'[c] = balance[c]
    BY <1>1 DEF Transfer
  <2>2. ASSUME NEW c \in Accounts
        PROVE  (IF HoldsMint(c, p, k) THEN balance'[c] ELSE 0) = h[c]
    <3>1. CASE c = a
      <4>1. h[c] = i
        <5> HIDE DEF f, i, j
        <5>1. QED
          BY <1>1, <1>2, <3>1
      <4>2. QED
        BY <1>1, <2>1, <3>1, <4>1
    <3>2. CASE c = b
      <4>1. h[c] = j
        <5> HIDE DEF g, j
        <5>1. g \in [Accounts -> Nat]
          BY <1>2 DEF g
        <5>2. QED
          BY <3>2, <5>1
      <4>2. QED
        BY <1>1, <2>1, <3>2, <4>1
    <3>3. CASE c \notin {a, b}
      <4>1. h[c] = f[c]
        <5> HIDE DEF f, i, j
        <5>1. QED
          BY <1>2, <3>3
      <4>2. QED
        BY <2>1, <3>3, <4>1
    <3>4. QED
      BY <3>1, <3>2, <3>3
  <2>3. h \in [Accounts -> Nat]
    <3> HIDE DEF f, i, j
    <3>1. QED
      BY <1>2
  <2> HIDE DEF h
  <2>4. QED
    BY <2>2, <2>3
<1>4. g[b] = f[b] /\ g \in [Accounts -> Nat]
  <2> HIDE DEF f, i
  <2>1. QED
    BY <1>1, <1>2
<1>5. Total(f) \in Nat /\ Total(h) = Total(f) - f[a] + i - f[b] + j
  <2> HIDE DEF f, i, j
  <2>1. Total(g) = Total(f) - f[a] + i
    BY <1>2, AccountsAssumption, TotalUpdate
  <2>2. Total(f) \in Nat /\ Total(g) \in Nat
    <3> HIDE DEF g
    <3>1. QED
      BY <1>2, <1>4, AccountsAssumption, TotalType
  <2> HIDE DEF g
  <2>3. Total(h) = Total(g) - g[b] + j
    BY <1>2, <1>4, AccountsAssumption, TotalUpdate
  <2>4. f[a] \in Nat /\ f[b] \in Nat
    BY <1>2
  <2>5. QED
    BY <1>2, <1>4, <2>1, <2>2, <2>3, <2>4
<1>6. Holding(p, k) = Total(f) /\ Holding(p, k)' = Total(h)
  BY <1>3 DEF Holding, HoldsMint
<1>7. \A c \in Accounts : f[c] <= Total(f)
  <2> HIDE DEF f
  <2>1. QED
    BY <1>2, AccountsAssumption, TotalBounds
<1>8. Holding(p, k)' = Holding(p, k) - x + y
  <2>1. i = f[a] - x /\ j = f[b] + y /\ f[a] \in Nat /\ f[b] \in Nat
    BY <1>2
  <2> HIDE DEF f, i, j, x, y, h
  <2>2. QED
    BY <1>2, <1>5, <1>6, <2>1
<1>9. QED
  BY <1>5, <1>6, <1>7, <1>8

(* What a charge does, to all that the two action properties speak of.     *)
LEMMA ChargeEffect ==
    ASSUME TypeOK, NEW s \in Keys, NEW u \in Users, NEW m \in Merchants, NEW k \in Mints,
           NEW a \in Accounts, NEW b \in Accounts, NEW n \in Amounts,
           Charge(s, u, m, k, a, b, n), m # u
    PROVE  /\ \A v \in Users, j \in Mints :
                 Held(v, j)' = Held(v, j) - IF <<v, j>> = <<u, k>> THEN n ELSE 0
           /\ \A p, j : Holding(p, j)' = Holding(p, j)
                                            - (IF p = u /\ j = k THEN n ELSE 0)
                                            + (IF p = m /\ j = k THEN n ELSE 0)
           /\ \A p, j : Holding(p, j) \in Nat
           /\ \A x \in SessionIds :
                 remaining'[x] = remaining[x] - IF x = <<u, m, k>> THEN n ELSE 0
           /\ open' = open /\ userMints' = userMints
<1>1. /\ <<u, k>> \in Users \X Mints /\ <<u, m, k>> \in SessionIds
      /\ <<u, k>> \in userMints
      /\ n \in Nat /\ reserved \in [Users \X Mints -> Nat]
      /\ remaining \in [SessionIds -> Nat]
  BY AmountsAreNat DEF TypeOK, SessionIds, Charge
<1>2. /\ HoldsMint(a, u, k) /\ HoldsMint(b, m, k)
      /\ CanTransfer(a, b, n) /\ Transfer(a, b, n)
      /\ remaining' = [remaining EXCEPT ![<<u, m, k>>] = @ - n]
      /\ reserved' = [reserved EXCEPT ![<<u, k>>] = @ - n]
      /\ UNCHANGED <<open, userMints>>
  BY DEF Charge, MerchantAccount
<1>3. ASSUME NEW v \in Users, NEW j \in Mints
      PROVE  Held(v, j)' = Held(v, j) - IF <<v, j>> = <<u, k>> THEN n ELSE 0
  <2>1. <<v, j>> \in Users \X Mints /\ reserved[<<v, j>>] \in Nat
    BY <1>1
  <2>2. QED
    BY <1>1, <1>2, <2>1 DEF Held
<1>4. ASSUME NEW p, NEW j
      PROVE  /\ Holding(p, j) \in Nat
             /\ Holding(p, j)' = Holding(p, j) - (IF p = u /\ j = k THEN n ELSE 0)
                                              + (IF p = m /\ j = k THEN n ELSE 0)
  <2>1. /\ Holding(p, j) \in Nat
        /\ Holding(p, j)' = Holding(p, j) - (IF HoldsMint(a, p, j) THEN n ELSE 0)
                                          + (IF HoldsMint(b, p, j) THEN n ELSE 0)
    BY <1>2, HoldingUpdate
  <2>2. /\ HoldsMint(a, p, j) <=> p = u /\ j = k
        /\ HoldsMint(b, p, j) <=> p = m /\ j = k
    BY <1>2 DEF HoldsMint
  <2>3. QED
    BY <2>1, <2>2
<1>5. \A x \in SessionIds : remaining'[x] = remaining[x] - IF x = <<u, m, k>> THEN n ELSE 0
  BY <1>1, <1>2
<1>6. QED
  BY <1>2, <1>3, <1>4, <1>5

(* The action predicates of the two properties.                            *)
LEMMA DebitStep ==
    ASSUME IInv, [Next]_vars
    PROVE  DebitsArePayments
<1> SUFFICES ASSUME NEW u \in Users, NEW m \in Merchants, NEW k \in Mints,
                    <<u, m, k>> \in open, <<u, m, k>> \in open',
                    remaining'[<<u, m, k>>] < remaining[<<u, m, k>>],
                    m # u
             PROVE  LET paid == remaining[<<u, m, k>>] - remaining'[<<u, m, k>>]
                    IN  /\ Held(u, k) = Held(u, k)' + paid
                        /\ Holding(u, k) = Holding(u, k)' + paid
                        /\ Holding(m, k)' = Holding(m, k) + paid
  BY DEF DebitsArePayments
<1> DEFINE x == <<u, m, k>>
<1>1. /\ TypeOK /\ x \in SessionIds /\ remaining \in [SessionIds -> Nat]
      /\ remaining[x] \in Nat
      /\ Held(u, k) \in Nat
  BY AmountsAreNat DEF IInv, TypeOK, SessionIds, Held
<1>2. remaining' # remaining
  BY <1>1
<1>3. ASSUME NEW s \in Keys, NEW v \in Users, NEW j \in Mints, UserStep(s, v, j)
      PROVE  FALSE
  <2>1. ~EnsureUserMint(s, v, j)
    BY <1>2 DEF EnsureUserMint
  <2>2. \A a, b \in Accounts, n \in Amounts : ~Withdraw(s, v, j, a, b, n)
    BY <1>2 DEF Withdraw
  <2>3. ASSUME NEW q \in Merchants
        PROVE  /\ \A a \in Accounts : ~OpenEmpty(s, v, q, j, a)
               /\ \A a \in Accounts, n \in Amounts : ~OpenFunded(s, v, q, j, a, n)
    BY <1>1 DEF OpenEmpty, OpenFunded
  <2>4. ASSUME NEW q \in Merchants, NEW a \in Accounts, NEW n \in Amounts,
               Deposit(s, v, q, j, a, n)
        PROVE  FALSE
    <3>1. n \in Nat /\ remaining' = [remaining EXCEPT ![<<v, q, j>>] = @ + n]
      BY <2>4, AmountsAreNat DEF Deposit
    <3>2. remaining'[x] = remaining[x] \/ remaining'[x] = remaining[x] + n
      BY <1>1, <3>1
    <3>3. QED
      BY <1>1, <3>1, <3>2
  <2>5. ASSUME NEW q \in Merchants
        PROVE  ~CloseWithoutUserMint(s, v, q, j)
    BY <1>2 DEF CloseWithoutUserMint
  <2>6. ASSUME NEW q \in Merchants, CloseSession(s, v, q, j)
        PROVE  FALSE
    <3>1. /\ remaining' = [remaining EXCEPT ![<<v, q, j>>] = 0]
          /\ open' = open \ {<<v, q, j>>}
      BY <2>6 DEF CloseSession
    <3>2. QED
      BY <1>1, <3>1
  <2>7. QED
    BY <1>3, <2>1, <2>2, <2>3, <2>4, <2>5, <2>6 DEF UserStep
<1>4. ASSUME NEW s \in Keys, NEW v \in Users, NEW q \in Merchants, NEW j \in Mints,
             NEW a \in Accounts, NEW b \in Accounts, NEW n \in Amounts,
             Charge(s, v, q, j, a, b, n)
      PROVE  LET paid == remaining[x] - remaining'[x]
             IN  /\ Held(u, k) = Held(u, k)' + paid
                 /\ Holding(u, k) = Holding(u, k)' + paid
                 /\ Holding(m, k)' = Holding(m, k) + paid
  <2>1. n \in Nat /\ remaining' = [remaining EXCEPT ![<<v, q, j>>] = @ - n]
    BY <1>4, AmountsAreNat DEF Charge
  <2>2. <<v, q, j>> = x
    BY <1>1, <2>1
  <2>3. v = u /\ q = m /\ j = k
    BY <2>2
  <2>4. /\ Held(u, k)' = Held(u, k) - n
        /\ Holding(u, k)' = Holding(u, k) - n + 0
        /\ Holding(m, k)' = Holding(m, k) - 0 + n
        /\ Holding(u, k) \in Nat /\ Holding(m, k) \in Nat
        /\ remaining'[x] = remaining[x] - n
    BY <1>1, <1>4, <2>3, ChargeEffect
  <2>5. QED
    BY <1>1, <2>1, <2>4
<1>5. ~(\E v \in Users : InitUser(v) \/ DelegateUser(v))
  BY <1>2 DEF InitUser, DelegateUser
<1>6. ~(\E v \in Users, s \in SessionKeys : GrantKey(v, s) \/ RevokeKey(v, s))
  BY <1>2 DEF GrantKey, RevokeKey
<1>7. ~(\E a, b \in Accounts, n \in Amounts : WalletTransfer(a, b, n))
  BY <1>2 DEF WalletTransfer
<1>8. ~UNCHANGED vars
  BY <1>2 DEF vars
<1>9. PICK s \in Keys, v \in Users, q \in Merchants, j \in Mints : ChargeStep(s, v, q, j)
  BY <1>3, <1>5, <1>6, <1>7, <1>8 DEF Next
<1>10. QED
  BY <1>4, <1>9 DEF ChargeStep

LEMMA StrangerStep ==
    ASSUME IInv
    PROVE  StrangersStayOut
<1> SUFFICES ASSUME NEW s \in Keys, \A u \in Users : ~SignedFor(s, u), SignedStep(s)
             PROVE  /\ open' = open
                    /\ userMints' = userMints
                    /\ \A v \in Users, j \in Mints :
                          /\ Holding(v, j)' - Held(v, j)' = Holding(v, j) - Held(v, j)
                          /\ \A x \in Merchants \ {s} :
                                remaining'[<<v, x, j>>] = remaining[<<v, x, j>>]
  BY DEF StrangersStayOut
<1>1. ASSUME NEW u \in Users, NEW k \in Mints
      PROVE  ~UserStep(s, u, k)
  BY DEF UserStep, EnsureUserMint, Withdraw, OpenEmpty, OpenFunded, Deposit,
         CloseWithoutUserMint, CloseSession
<1>2. PICK u \in Users, k \in Mints, m \in Merchants, a \in Accounts, b \in Accounts,
           n \in Amounts : Charge(s, u, m, k, a, b, n)
  BY <1>1 DEF SignedStep, ChargeStep
<1>3. m = s
  BY <1>2 DEF Charge, MayCharge
<1>4. s \notin Users
  BY PartiesAssumption
<1>5. TypeOK /\ n \in Nat
  BY AmountsAreNat DEF IInv
<1>6. /\ \A v \in Users, j \in Mints :
            Held(v, j)' = Held(v, j) - IF <<v, j>> = <<u, k>> THEN n ELSE 0
      /\ \A p, j : Holding(p, j)' = Holding(p, j)
                                       - (IF p = u /\ j = k THEN n ELSE 0)
                                       + (IF p = m /\ j = k THEN n ELSE 0)
      /\ \A p, j : Holding(p, j) \in Nat
      /\ \A x \in SessionIds :
            remaining'[x] = remaining[x] - IF x = <<u, m, k>> THEN n ELSE 0
      /\ open' = open /\ userMints' = userMints
  BY <1>2, <1>3, <1>4, <1>5, ChargeEffect
<1>7. ASSUME NEW v \in Users, NEW j \in Mints
      PROVE  Holding(v, j)' - Held(v, j)' = Holding(v, j) - Held(v, j)
  <2>1. v # m
    BY <1>3, <1>4
  <2>2. Held(v, j) \in Nat
    BY <1>5, AmountsAreNat DEF TypeOK, Held
  <2>3. QED
    BY <1>5, <1>6, <2>1, <2>2
<1>8. ASSUME NEW v \in Users, NEW j \in Mints, NEW x \in Merchants \ {s}
      PROVE  remaining'[<<v, x, j>>] = remaining[<<v, x, j>>]
  <2>1. <<v, x, j>> \in SessionIds /\ <<v, x, j>> # <<u, m, k>>
    BY <1>3 DEF SessionIds
  <2>2. remaining[<<v, x, j>>] \in Nat
    BY <1>5, <2>1, AmountsAreNat DEF TypeOK
  <2>3. QED
    BY <1>6, <2>1, <2>2
<1>9. QED
  BY <1>6, <1>7, <1>8

(* A session's tokens go to its merchant or stay.                          *)
THEOREM DebitsPay == Spec => SessionDebitIsPayment
<1>1. IInv /\ [Next]_vars => [DebitsArePayments]_vars
  BY DebitStep
<1>2. QED
  BY <1>1, InitIInv, NextIInv, PTL DEF Spec, SessionDebitIsPayment

(* A merchant, or anybody else who speaks for no User, is confined to      *)
(* charging its own sessions.                                              *)
THEOREM MerchantsConfined == Spec => MerchantConfined
<1>1. IInv /\ [Next]_vars => [StrangersStayOut]_vars
  BY StrangerStep
<1>2. QED
  BY <1>1, InitIInv, NextIInv, PTL DEF Spec, MerchantConfined

-----------------------------------------------------------------------------
(* Rent. *)

AccountsOf(S, u) == {x \in S : x[1] = u}

RentOf(u) == SessionRent * Cardinality(AccountsOf(open, u))
                + UserMintRent * Cardinality(AccountsOf(userMints, u))

(* RentAccounted, before init_user as well; accounts are made one by one,  *)
(* so that there are finitely many.                                        *)
RentInv ==
    /\ IsFiniteSet(open) /\ IsFiniteSet(userMints)
    /\ \A u \in Users :
          lamports[u] + RentOf(u) = IF stage[u] = "missing" THEN 0 ELSE Sponsorship

(* How many accounts a User has, when one is opened or closed.             *)
LEMMA CountsAreNat ==
    ASSUME NEW S, IsFiniteSet(S), NEW u
    PROVE  IsFiniteSet(AccountsOf(S, u)) /\ Cardinality(AccountsOf(S, u)) \in Nat
<1>1. AccountsOf(S, u) \subseteq S
  BY DEF AccountsOf
<1>2. QED
  BY <1>1, FS_Subset, FS_CardinalityType

LEMMA AccountsAdded ==
    ASSUME NEW S, IsFiniteSet(S), NEW x, x \notin S, NEW u
    PROVE  /\ Cardinality(AccountsOf(S, u)) \in Nat
           /\ IsFiniteSet(S \cup {x})
           /\ Cardinality(AccountsOf(S \cup {x}, u))
                = Cardinality(AccountsOf(S, u)) + IF x[1] = u THEN 1 ELSE 0
<1>1. IsFiniteSet(AccountsOf(S, u)) /\ Cardinality(AccountsOf(S, u)) \in Nat
  BY CountsAreNat
<1>2. IsFiniteSet(S \cup {x})
  BY FS_AddElement
<1>3. CASE x[1] = u
  <2>1. AccountsOf(S \cup {x}, u) = AccountsOf(S, u) \cup {x} /\ x \notin AccountsOf(S, u)
    BY <1>3 DEF AccountsOf
  <2>2. QED
    BY <1>1, <1>2, <1>3, <2>1, FS_AddElement
<1>4. CASE x[1] # u
  <2>1. AccountsOf(S \cup {x}, u) = AccountsOf(S, u)
    BY <1>4 DEF AccountsOf
  <2>2. QED
    BY <1>1, <1>2, <1>4, <2>1
<1>5. QED
  BY <1>3, <1>4

(* A step that opens the sessions and UserMints, or closes those, that     *)
(* make up the difference in one User's lamports.                          *)
LEMMA RentStep ==
    ASSUME TypeOK, RentInv, NEW u \in Users, NEW delta \in Int,
           stage' = stage,
           IsFiniteSet(open'), IsFiniteSet(userMints'),
           \A v \in Users : lamports'[v] = lamports[v] - IF v = u THEN delta ELSE 0,
           RentOf(u) \in Int, RentOf(u)' = RentOf(u) + delta,
           \A v \in Users : v # u => RentOf(v)' = RentOf(v)
    PROVE  RentInv'
<1>1. \A v \in Users : lamports[v] \in Nat
  BY DEF TypeOK
<1>2. ASSUME NEW v \in Users
      PROVE  lamports'[v] + RentOf(v)' = IF stage[v] = "missing" THEN 0 ELSE Sponsorship
  <2>1. lamports[v] + RentOf(v) = IF stage[v] = "missing" THEN 0 ELSE Sponsorship
    BY DEF RentInv
  <2>2. CASE v = u
    BY <1>1, <2>1, <2>2
  <2>3. CASE v # u
    BY <1>1, <2>1, <2>3
  <2>4. QED
    BY <2>2, <2>3
<1>3. QED
  BY <1>2 DEF RentInv

(* The rent of a session and of a UserMint, one at a time.                 *)
LEMMA SessionOpened ==
    ASSUME TypeOK, RentInv, NEW u \in Users, NEW m \in Merchants, NEW k \in Mints,
           <<u, m, k>> \notin open, open' = open \cup {<<u, m, k>>}
    PROVE  /\ IsFiniteSet(open')
           /\ \A v \in Users :
                 /\ Cardinality(AccountsOf(open, v)) \in Nat
                 /\ Cardinality(AccountsOf(open', v))
                      = Cardinality(AccountsOf(open, v)) + IF v = u THEN 1 ELSE 0
<1> DEFINE x == <<u, m, k>>
<1>1. x[1] = u /\ x \notin open /\ open' = open \cup {x} /\ IsFiniteSet(open)
  BY DEF RentInv
<1> HIDE DEF x
<1>2. ASSUME NEW v \in Users
      PROVE  /\ Cardinality(AccountsOf(open, v)) \in Nat
             /\ Cardinality(AccountsOf(open', v))
                  = Cardinality(AccountsOf(open, v)) + IF v = u THEN 1 ELSE 0
  <2>1. /\ Cardinality(AccountsOf(open, v)) \in Nat
        /\ Cardinality(AccountsOf(open \cup {x}, v))
             = Cardinality(AccountsOf(open, v)) + IF x[1] = v THEN 1 ELSE 0
    BY <1>1, AccountsAdded
  <2>2. x[1] = v <=> v = u
    BY <1>1
  <2>3. QED
    BY <1>1, <2>1, <2>2
<1>3. IsFiniteSet(open')
  BY <1>1, FS_AddElement
<1>4. QED
  BY <1>2, <1>3

LEMMA SessionClosed ==
    ASSUME TypeOK, RentInv, NEW u \in Users, NEW m \in Merchants, NEW k \in Mints,
           <<u, m, k>> \in open, open' = open \ {<<u, m, k>>}
    PROVE  /\ IsFiniteSet(open')
           /\ \A v \in Users :
                 /\ Cardinality(AccountsOf(open', v)) \in Nat
                 /\ Cardinality(AccountsOf(open, v))
                      = Cardinality(AccountsOf(open', v)) + IF v = u THEN 1 ELSE 0
<1> DEFINE x == <<u, m, k>>
<1>1. x[1] = u /\ x \in open /\ open' = open \ {x} /\ IsFiniteSet(open)
  BY DEF RentInv
<1> HIDE DEF x
<1>2. IsFiniteSet(open') /\ x \notin open' /\ open' \cup {x} = open
  BY <1>1, FS_RemoveElement
<1>3. ASSUME NEW v \in Users
      PROVE  /\ Cardinality(AccountsOf(open', v)) \in Nat
             /\ Cardinality(AccountsOf(open, v))
                  = Cardinality(AccountsOf(open', v)) + IF v = u THEN 1 ELSE 0
  <2>1. /\ Cardinality(AccountsOf(open', v)) \in Nat
        /\ Cardinality(AccountsOf(open' \cup {x}, v))
             = Cardinality(AccountsOf(open', v)) + IF x[1] = v THEN 1 ELSE 0
    BY <1>2, AccountsAdded
  <2>2. x[1] = v <=> v = u
    BY <1>1
  <2>3. QED
    BY <1>1, <1>2, <2>1, <2>2
<1>4. QED
  BY <1>2, <1>3

LEMMA UserMintMade ==
    ASSUME TypeOK, RentInv, NEW u \in Users, NEW k \in Mints,
           userMints' = userMints \cup {<<u, k>>}
    PROVE  /\ IsFiniteSet(userMints')
           /\ \A v \in Users :
                 /\ Cardinality(AccountsOf(userMints, v)) \in Nat
                 /\ Cardinality(AccountsOf(userMints', v))
                      = Cardinality(AccountsOf(userMints, v))
                          + IF v = u /\ <<u, k>> \notin userMints THEN 1 ELSE 0
<1>1. CASE <<u, k>> \notin userMints
  <2> DEFINE x == <<u, k>>
  <2>1. x[1] = u /\ x \notin userMints /\ userMints' = userMints \cup {x} /\ IsFiniteSet(userMints)
    BY <1>1 DEF RentInv
  <2> HIDE DEF x
  <2>2. ASSUME NEW v \in Users
        PROVE  /\ Cardinality(AccountsOf(userMints, v)) \in Nat
               /\ Cardinality(AccountsOf(userMints', v))
                    = Cardinality(AccountsOf(userMints, v)) + IF v = u THEN 1 ELSE 0
    <3>1. /\ Cardinality(AccountsOf(userMints, v)) \in Nat
          /\ Cardinality(AccountsOf(userMints \cup {x}, v))
               = Cardinality(AccountsOf(userMints, v)) + IF x[1] = v THEN 1 ELSE 0
      BY <2>1, AccountsAdded
    <3>2. x[1] = v <=> v = u
      BY <2>1
    <3>3. QED
      BY <2>1, <3>1, <3>2
  <2>3. IsFiniteSet(userMints')
    BY <2>1, FS_AddElement
  <2>4. QED
    BY <1>1, <2>2, <2>3
<1>2. CASE <<u, k>> \in userMints
  <2>1. userMints' = userMints
    BY <1>2
  <2>2. \A v \in Users : Cardinality(AccountsOf(userMints, v)) \in Nat
    BY CountsAreNat DEF RentInv
  <2>3. QED
    BY <1>2, <2>1, <2>2 DEF RentInv
<1>3. QED
  BY <1>1, <1>2

LEMMA UserMintTaken ==
    ASSUME TypeOK, RentInv, NEW u \in Users, NEW k \in Mints,
           <<u, k>> \in userMints, userMints' = userMints \ {<<u, k>>}
    PROVE  /\ IsFiniteSet(userMints')
           /\ \A v \in Users :
                 /\ Cardinality(AccountsOf(userMints', v)) \in Nat
                 /\ Cardinality(AccountsOf(userMints, v))
                      = Cardinality(AccountsOf(userMints', v)) + IF v = u THEN 1 ELSE 0
<1> DEFINE x == <<u, k>>
<1>1. x[1] = u /\ x \in userMints /\ userMints' = userMints \ {x} /\ IsFiniteSet(userMints)
  BY DEF RentInv
<1> HIDE DEF x
<1>2. IsFiniteSet(userMints') /\ x \notin userMints' /\ userMints' \cup {x} = userMints
  BY <1>1, FS_RemoveElement
<1>3. ASSUME NEW v \in Users
      PROVE  /\ Cardinality(AccountsOf(userMints', v)) \in Nat
             /\ Cardinality(AccountsOf(userMints, v))
                  = Cardinality(AccountsOf(userMints', v)) + IF v = u THEN 1 ELSE 0
  <2>1. /\ Cardinality(AccountsOf(userMints', v)) \in Nat
        /\ Cardinality(AccountsOf(userMints' \cup {x}, v))
             = Cardinality(AccountsOf(userMints', v)) + IF x[1] = v THEN 1 ELSE 0
    BY <1>2, AccountsAdded
  <2>2. x[1] = v <=> v = u
    BY <1>1
  <2>3. QED
    BY <1>1, <1>2, <2>1, <2>2
<1>4. QED
  BY <1>2, <1>3

(* Counts are naturals, also of what does not change.                      *)
LEMMA CountsType ==
    ASSUME RentInv, NEW u \in Users
    PROVE  /\ Cardinality(AccountsOf(open, u)) \in Nat /\ Cardinality(AccountsOf(userMints, u)) \in Nat
           /\ RentOf(u) \in Nat
<1>1. Cardinality(AccountsOf(open, u)) \in Nat /\ Cardinality(AccountsOf(userMints, u)) \in Nat
  BY CountsAreNat DEF RentInv
<1>2. QED
  BY <1>1, NumbersAssumption DEF RentOf

(* Each opening and each closing, through either branch, pays or gives     *)
(* back what the accounts it makes or takes down are worth.                *)
LEMMA UserStepRent ==
    ASSUME TypeOK, RentInv, NEW s \in Keys, NEW u \in Users, NEW k \in Mints,
           UserStep(s, u, k)
    PROVE  RentInv'
<1> DEFINE S(v) == Cardinality(AccountsOf(open, v))
           M(v) == Cardinality(AccountsOf(userMints, v))
<1>0. SessionRent \in Nat /\ UserMintRent \in Nat
  BY NumbersAssumption
<1>1. \A v \in Users : S(v) \in Nat /\ M(v) \in Nat /\ RentOf(v) \in Nat
                        /\ RentOf(v) = SessionRent * S(v) + UserMintRent * M(v)
                        /\ RentOf(v)' = SessionRent * S(v)' + UserMintRent * M(v)'
  BY CountsType DEF RentOf
<1>2. CASE EnsureUserMint(s, u, k)
  <2>1. /\ IsFiniteSet(userMints')
        /\ \A v \in Users : M(v)' = M(v) + IF v = u THEN 1 ELSE 0
    BY <1>2, UserMintMade DEF EnsureUserMint
  <2>2. \A v \in Users : S(v)' = S(v)
    BY <1>2 DEF EnsureUserMint
  <2> HIDE DEF S, M
  <2>3. \A v \in Users : RentOf(v)' = RentOf(v) + IF v = u THEN UserMintRent ELSE 0
    BY <1>0, <1>1, <2>1, <2>2
  <2>4. \A v \in Users : lamports'[v] = lamports[v] - IF v = u THEN UserMintRent ELSE 0
    BY <1>0, <1>2 DEF EnsureUserMint, TypeOK
  <2>5. stage' = stage /\ IsFiniteSet(open')
    BY <1>2 DEF EnsureUserMint, RentInv
  <2>6. QED
    BY <1>0, <1>1, <2>1, <2>3, <2>4, <2>5, RentStep
<1>3. ASSUME NEW a \in Accounts, NEW b \in Accounts, NEW n \in Amounts,
             Withdraw(s, u, k, a, b, n)
      PROVE  RentInv'
  BY <1>3 DEF Withdraw, RentInv, RentOf
<1>4. ASSUME NEW m \in Merchants, NEW a \in Accounts, OpenEmpty(s, u, m, k, a)
      PROVE  RentInv'
  <2>1. /\ IsFiniteSet(open')
        /\ \A v \in Users : S(v)' = S(v) + IF v = u THEN 1 ELSE 0
    BY <1>4, SessionOpened DEF OpenEmpty
  <2>2. \A v \in Users : M(v)' = M(v)
    BY <1>4 DEF OpenEmpty
  <2> HIDE DEF S, M
  <2>3. \A v \in Users : RentOf(v)' = RentOf(v) + IF v = u THEN SessionRent ELSE 0
    BY <1>0, <1>1, <2>1, <2>2
  <2>4. \A v \in Users : lamports'[v] = lamports[v] - IF v = u THEN SessionRent ELSE 0
    BY <1>0, <1>4 DEF OpenEmpty, TypeOK
  <2>5. stage' = stage /\ IsFiniteSet(userMints')
    BY <1>4 DEF OpenEmpty, RentInv
  <2>6. QED
    BY <1>0, <1>1, <2>1, <2>3, <2>4, <2>5, RentStep
<1>5. ASSUME NEW m \in Merchants, NEW a \in Accounts, NEW n \in Amounts,
             OpenFunded(s, u, m, k, a, n)
      PROVE  RentInv'
  <2> DEFINE made == IF <<u, k>> \in userMints THEN 0 ELSE UserMintRent
  <2>1. /\ IsFiniteSet(open')
        /\ \A v \in Users : S(v)' = S(v) + IF v = u THEN 1 ELSE 0
    BY <1>5, SessionOpened DEF OpenFunded
  <2>2. /\ IsFiniteSet(userMints')
        /\ \A v \in Users :
              M(v)' = M(v) + IF v = u /\ <<u, k>> \notin userMints THEN 1 ELSE 0
    BY <1>5, UserMintMade DEF OpenFunded
  <2> HIDE DEF S, M
  <2>3. \A v \in Users : RentOf(v)' = RentOf(v) + IF v = u THEN SessionRent + made ELSE 0
    BY <1>0, <1>1, <2>1, <2>2
  <2>4. /\ lamports' = [lamports EXCEPT ![u] = @ - (SessionRent + made)]
        /\ stage' = stage
    BY <1>5 DEF OpenFunded
  <2>5. made \in Nat
    BY <1>0
  <2> HIDE DEF made
  <2>6. SessionRent + made \in Int
    BY <1>0, <2>5
  <2> DEFINE delta == SessionRent + made
  <2> HIDE DEF delta
  <2>7. /\ delta \in Int
        /\ RentOf(u) \in Int /\ RentOf(u)' = RentOf(u) + delta
        /\ \A v \in Users : v # u => RentOf(v)' = RentOf(v)
    BY <1>1, <2>3, <2>6 DEF delta
  <2>8. \A v \in Users : lamports'[v] = lamports[v] - IF v = u THEN delta ELSE 0
    BY <2>4, <2>7 DEF delta, TypeOK
  <2>9. QED
    BY <2>1, <2>2, <2>4, <2>7, <2>8, RentStep
<1>6. ASSUME NEW m \in Merchants, NEW a \in Accounts, NEW n \in Amounts,
             Deposit(s, u, m, k, a, n)
      PROVE  RentInv'
  BY <1>6 DEF Deposit, RentInv, RentOf
<1>7. ASSUME NEW m \in Merchants, CloseWithoutUserMint(s, u, m, k)
      PROVE  RentInv'
  <2>1. /\ IsFiniteSet(open')
        /\ \A v \in Users : S(v)' \in Nat /\ S(v) = S(v)' + IF v = u THEN 1 ELSE 0
    BY <1>7, SessionClosed DEF CloseWithoutUserMint
  <2>2. \A v \in Users : M(v)' = M(v)
    BY <1>7 DEF CloseWithoutUserMint
  <2> HIDE DEF S, M
  <2>3. \A v \in Users : RentOf(v)' = RentOf(v) + IF v = u THEN -SessionRent ELSE 0
    BY <1>0, <1>1, <2>1, <2>2
  <2>4. \A v \in Users : lamports'[v] = lamports[v] - IF v = u THEN -SessionRent ELSE 0
    BY <1>0, <1>7 DEF CloseWithoutUserMint, TypeOK
  <2>5. stage' = stage /\ IsFiniteSet(userMints') /\ -SessionRent \in Int
    BY <1>0, <1>7 DEF CloseWithoutUserMint, RentInv
  <2>6. QED
    BY <1>0, <1>1, <2>1, <2>3, <2>4, <2>5, RentStep
<1>8. ASSUME NEW m \in Merchants, CloseSession(s, u, m, k)
      PROVE  RentInv'
  <2> DEFINE idle == Idle(HeldAfterClose(reserved[<<u, k>>], remaining[<<u, m, k>>]))
             freed == SessionRent + IF idle THEN UserMintRent ELSE 0
  <2>1. /\ IsFiniteSet(open')
        /\ \A v \in Users : S(v)' \in Nat /\ S(v) = S(v)' + IF v = u THEN 1 ELSE 0
    BY <1>8, SessionClosed DEF CloseSession
  <2>2. /\ userMints' = IF idle THEN userMints \ {<<u, k>>} ELSE userMints
        /\ <<u, k>> \in userMints
        /\ lamports' = [lamports EXCEPT ![u] = @ + freed]
        /\ stage' = stage
    BY <1>8 DEF CloseSession, CloseRefund
  <2> HIDE DEF idle
  <2>3. /\ IsFiniteSet(userMints')
        /\ \A v \in Users : M(v)' \in Nat /\ M(v) = M(v)' + IF v = u /\ idle THEN 1 ELSE 0
    <3>1. CASE idle
      BY <2>2, <3>1, UserMintTaken
    <3>2. CASE ~idle
      <4>1. userMints' = userMints
        BY <2>2, <3>2
      <4>2. QED
        BY <1>1, <3>2, <4>1 DEF RentInv
    <3>3. QED
      BY <3>1, <3>2
  <2> HIDE DEF S, M
  <2>4. freed \in Nat
    BY <1>0
  <2>5. \A v \in Users : RentOf(v) = RentOf(v)' + IF v = u THEN freed ELSE 0
    BY <1>0, <1>1, <2>1, <2>3
  <2>6. \A v \in Users : lamports'[v] = lamports[v] - IF v = u THEN -freed ELSE 0
    <3> HIDE DEF freed
    <3>1. QED
      BY <2>2, <2>4 DEF TypeOK
  <2> HIDE DEF freed
  <2>7. /\ -freed \in Int
        /\ RentOf(u) \in Int /\ RentOf(u)' = RentOf(u) + (-freed)
        /\ \A v \in Users : v # u => RentOf(v)' = RentOf(v)
    <3>1. \A v \in Users : RentOf(v)' \in Int
      BY <1>0, <1>1, <2>1, <2>3
    <3>2. QED
      BY <1>1, <2>4, <2>5, <3>1
  <2>8. QED
    BY <2>1, <2>2, <2>3, <2>6, <2>7, RentStep
<1>9. QED
  BY <1>2, <1>3, <1>4, <1>5, <1>6, <1>7, <1>8 DEF UserStep

LEMMA InitRent == Init => RentInv
<1> SUFFICES ASSUME Init
             PROVE  RentInv
  OBVIOUS
<1>1. \A u \in Users : AccountsOf(open, u) = {} /\ AccountsOf(userMints, u) = {}
  BY DEF Init, AccountsOf
<1>2. \A u \in Users : RentOf(u) = 0
  BY <1>1, FS_EmptySet, NumbersAssumption DEF RentOf
<1>3. QED
  BY <1>2, FS_EmptySet DEF Init, RentInv

LEMMA NextRent == TypeOK /\ RentInv /\ [Next]_vars => RentInv'
<1> SUFFICES ASSUME TypeOK, RentInv, [Next]_vars
             PROVE  RentInv'
  OBVIOUS
<1>1. ASSUME NEW u \in Users, InitUser(u)
      PROVE  RentInv'
  <2>1. \A v \in Users : RentOf(v)' = RentOf(v) /\ RentOf(v) \in Nat
    BY <1>1, CountsType DEF InitUser, RentOf
  <2>2. ASSUME NEW v \in Users
        PROVE  lamports'[v] + RentOf(v)' = IF stage'[v] = "missing" THEN 0 ELSE Sponsorship
    <3>1. lamports[v] + RentOf(v) = IF stage[v] = "missing" THEN 0 ELSE Sponsorship
      BY DEF RentInv
    <3>2. /\ lamports'[v] = IF v = u THEN lamports[v] + Sponsorship ELSE lamports[v]
          /\ stage'[v] = IF v = u THEN "base" ELSE stage[v]
          /\ stage[u] = "missing" /\ lamports[v] \in Nat
      BY <1>1 DEF InitUser, TypeOK
    <3>3. QED
      BY <2>1, <3>1, <3>2, NumbersAssumption
  <2>3. QED
    BY <1>1, <2>2 DEF InitUser, RentInv
<1>2. ASSUME NEW u \in Users, DelegateUser(u)
      PROVE  RentInv'
  BY <1>2 DEF DelegateUser, RentInv, RentOf, TypeOK
<1>3. ASSUME UNCHANGED <<stage, lamports, open, userMints>>
      PROVE  RentInv'
  BY <1>3 DEF RentInv, RentOf
<1>4. ASSUME NEW x \in Keys, NEW u \in Users, NEW k \in Mints, UserStep(x, u, k)
      PROVE  RentInv'
  BY <1>4, UserStepRent
<1>5. ASSUME NEW x \in Keys, NEW u \in Users, NEW m \in Merchants, NEW k \in Mints,
             ChargeStep(x, u, m, k)
      PROVE  RentInv'
  BY <1>3, <1>5 DEF ChargeStep, Charge
<1>6. ASSUME NEW u \in Users, NEW x \in SessionKeys, GrantKey(u, x) \/ RevokeKey(u, x)
      PROVE  RentInv'
  BY <1>3, <1>6 DEF GrantKey, RevokeKey
<1>7. ASSUME NEW a \in Accounts, NEW b \in Accounts, NEW n \in Amounts,
             WalletTransfer(a, b, n)
      PROVE  RentInv'
  BY <1>3, <1>7 DEF WalletTransfer
<1>8. CASE UNCHANGED vars
  BY <1>3, <1>8 DEF vars
<1>9. QED
  BY <1>1, <1>2, <1>4, <1>5, <1>6, <1>7, <1>8 DEF Next

(* Rent comes back, whichever branch of close_session closes an account.   *)
THEOREM RentComesBack == Spec => []RentAccounted
<1>1. IInv /\ RentInv => RentAccounted
  <2> SUFFICES ASSUME TypeOK, RentInv, NEW u \in Users, stage[u] # "missing"
               PROVE  Sponsorship = lamports[u]
                         + SessionRent * Cardinality(AccountsOf(open, u))
                         + UserMintRent * Cardinality(AccountsOf(userMints, u))
    BY DEF IInv, RentAccounted, AccountsOf
  <2> DEFINE S == SessionRent * Cardinality(AccountsOf(open, u))
             M == UserMintRent * Cardinality(AccountsOf(userMints, u))
  <2>1. lamports[u] + (S + M) = Sponsorship
    BY DEF RentInv, RentOf
  <2>2. S \in Nat /\ M \in Nat /\ lamports[u] \in Nat
    BY CountsType, NumbersAssumption DEF TypeOK
  <2> HIDE DEF S, M
  <2>3. Sponsorship = lamports[u] + S + M
    BY <2>1, <2>2
  <2>4. QED
    BY <2>3 DEF S, M
<1>2. IInv => TypeOK
  BY DEF IInv
<1>3. QED
  BY <1>1, <1>2, InitIInv, NextIInv, InitRent, NextRent, PTL DEF Spec

-----------------------------------------------------------------------------
(* The refinement: every instruction is a step of Escrow, or leaves        *)
(* holdings and earmarks alone.                                            *)

Parties == Users \cup Keys

(* A party holds at least what any one of its accounts has.                *)
LEMMA HoldingBounds ==
    ASSUME TypeOK, NEW p, NEW k
    PROVE  /\ Holding(p, k) \in Nat
           /\ \A a \in Accounts : HoldsMint(a, p, k) => balance[a] <= Holding(p, k)
<1> DEFINE f == [a \in Accounts |-> IF HoldsMint(a, p, k) THEN balance[a] ELSE 0]
<1>1. f \in [Accounts -> Nat]
  BY AmountsAreNat DEF TypeOK
<1>2. Total(f) \in Nat /\ \A a \in Accounts : f[a] <= Total(f)
  <2> HIDE DEF f
  <2>1. QED
    BY <1>1, AccountsAssumption, TotalType, TotalBounds
<1>3. QED
  BY <1>2 DEF Holding

(* A transfer between two accounts is a move between their owners, or      *)
(* nothing when they are one party.                                        *)
LEMMA TransferIsMove ==
    ASSUME TypeOK, NEW a \in Accounts, NEW b \in Accounts, NEW n \in Amounts,
           NEW k \in Mints, MintOf[a] = k, MintOf[b] = k,
           CanTransfer(a, b, n), Transfer(a, b, n)
    PROVE  Ideal!Move(Owner[a], Owner[b], k, n)
<1> DEFINE p == Owner[a]
           q == Owner[b]
<1>1. p \in Parties /\ q \in Parties /\ n \in Nat /\ balance[a] \in Nat /\ n <= balance[a]
  BY AccountsAssumption, AmountsAreNat DEF Parties, TypeOK, CanTransfer
<1>2. HoldsMint(a, p, k) /\ HoldsMint(b, q, k)
  BY DEF HoldsMint
<1>3. /\ \A r, j : HoldsMint(a, r, j) <=> r = p /\ j = k
      /\ \A r, j : HoldsMint(b, r, j) <=> r = q /\ j = k
  BY DEF HoldsMint
<1> HIDE DEF p, q
<1>4. ASSUME NEW r, NEW j
      PROVE  /\ Holding(r, j) \in Nat
             /\ Holding(r, j)' = Holding(r, j) - (IF r = p /\ j = k THEN n ELSE 0)
                                              + (IF r = q /\ j = k THEN n ELSE 0)
  BY <1>3, HoldingUpdate
<1>5. n <= EscrowHolding[<<p, k>>]
  <2>1. EscrowHolding[<<p, k>>] = Holding(p, k) /\ Holding(p, k) \in Nat
    BY <1>1, HoldingBounds DEF EscrowHolding, Parties
  <2>2. balance[a] <= Holding(p, k)
    BY <1>2, HoldingBounds
  <2>3. QED
    BY <1>1, <2>1, <2>2
<1>6. EscrowHolding' = IF p = q THEN EscrowHolding
                       ELSE [EscrowHolding EXCEPT ![<<p, k>>] = @ - n, ![<<q, k>>] = @ + n]
  <2> DEFINE H == [x \in Parties \X Mints |-> Holding(x[1], x[2])]
             G == [x \in Parties \X Mints |-> Holding(x[1], x[2])']
  <2>1. EscrowHolding = H /\ EscrowHolding' = G
    BY DEF EscrowHolding, Parties, Holding
  <2>2. CASE p = q
    <3>1. \A x \in Parties \X Mints : Holding(x[1], x[2])' = Holding(x[1], x[2])
      BY <1>1, <1>4, <2>2
    <3>2. G = H
      BY <3>1
    <3>3. QED
      BY <2>1, <2>2, <3>2
  <2>3. CASE p # q
    <3>1. ASSUME NEW x \in Parties \X Mints
          PROVE  G[x] = [H EXCEPT ![<<p, k>>] = @ - n, ![<<q, k>>] = @ + n][x]
      <4>1. PICK r \in Parties, j \in Mints : x = <<r, j>>
        OBVIOUS
      <4>2. G[x] = Holding(r, j)' /\ H[x] = Holding(r, j)
        BY <4>1
      <4>3. <<p, k>> # <<q, k>>
        BY <2>3
      <4>4. [H EXCEPT ![<<p, k>>] = @ - n, ![<<q, k>>] = @ + n][x]
              = IF x = <<q, k>> THEN H[x] + n
                ELSE IF x = <<p, k>> THEN H[x] - n ELSE H[x]
        <5>1. H \in [Parties \X Mints -> Nat]
          BY <1>4
        <5>2. <<p, k>> \in Parties \X Mints /\ <<q, k>> \in Parties \X Mints
          BY <1>1
        <5> HIDE DEF G, H
        <5>3. QED
          BY <4>3, <5>1, <5>2
      <4>5. /\ x = <<p, k>> <=> r = p /\ j = k
            /\ x = <<q, k>> <=> r = q /\ j = k
        BY <4>1
      <4> HIDE DEF G, H
      <4>6. Holding(r, j)' = IF r = q /\ j = k THEN Holding(r, j) + n
                             ELSE IF r = p /\ j = k THEN Holding(r, j) - n ELSE Holding(r, j)
        BY <1>1, <1>4, <2>3
      <4>7. QED
        BY <4>2, <4>4, <4>5, <4>6
    <3>2. G = [H EXCEPT ![<<p, k>>] = @ - n, ![<<q, k>>] = @ + n]
      BY <3>1
    <3>3. QED
      BY <2>1, <2>3, <3>2
  <2>4. QED
    BY <2>2, <2>3
<1>7. QED
  BY <1>5, <1>6 DEF Ideal!Move, p, q

(* An instruction that moves no token leaves what parties hold.            *)
LEMMA HoldingUnchanged ==
    ASSUME UNCHANGED balance
    PROVE  EscrowHolding' = EscrowHolding
BY DEF EscrowHolding, Holding, HoldsMint

(* The amounts and the sums are those of the escrow.                       *)
LEMMA SameAmounts ==
    /\ Ideal!Amounts = Amounts
    /\ \A u \in Users, k \in Mints : Ideal!Earmarked(u, k) = Earmarked(u, k)
BY DEF Ideal!Amounts, Amounts, Ideal!Earmarked, Earmarked, Ideal!Total, Total,
       Ideal!Units, Units, Ideal!Cardinality, Cardinality

(* The free tokens of one account are free tokens of its User.             *)
LEMMA FreeIsFree ==
    ASSUME TypeOK, Accounted, NEW u \in Users, NEW k \in Mints, NEW a \in Accounts,
           NEW n \in Amounts, HoldsMint(a, u, k), n <= Available(balance[a], Held(u, k))
    PROVE  Ideal!Earmarked(u, k) + n <= EscrowHolding[<<u, k>>]
<1>1. Ideal!Earmarked(u, k) = Held(u, k)
  BY SameAmounts DEF Accounted
<1>2. EscrowHolding[<<u, k>>] = Holding(u, k)
  BY DEF EscrowHolding
<1>3. /\ Held(u, k) \in Nat /\ balance[a] \in Nat /\ n \in Nat /\ n > 0
      /\ Holding(u, k) \in Nat /\ balance[a] <= Holding(u, k)
  BY AmountsAreNat, HoldingBounds, NumbersAssumption DEF TypeOK, Held, Amounts
<1>4. Held(u, k) + n <= balance[a]
  BY <1>3 DEF Available
<1>5. QED
  BY <1>1, <1>2, <1>3, <1>4

-----------------------------------------------------------------------------
(* Each instruction. *)

LEMMA QuietInstruction ==
    ASSUME UNCHANGED <<balance, remaining>>
    PROVE  UNCHANGED Ideal!vars
BY HoldingUnchanged DEF Ideal!vars

(* deposit, and an open_session with a first deposit.                      *)
LEMMA ReservationIsEarmark ==
    ASSUME TypeOK, Accounted, NEW u \in Users, NEW m \in Merchants, NEW k \in Mints,
           NEW a \in Accounts, NEW n \in Amounts, HoldsMint(a, u, k),
           CanReserve(balance[a], Held(u, k), n), UNCHANGED balance,
           remaining' = [remaining EXCEPT ![<<u, m, k>>] = @ + n]
    PROVE  Ideal!Next
<1>1. Ideal!Earmark(u, m, k, n)
  BY FreeIsFree, HoldingUnchanged DEF CanReserve, Ideal!Earmark
<1>2. QED
  BY <1>1, SameAmounts DEF Ideal!Next

LEMMA UserStepIsEscrow ==
    ASSUME IInv, NEW s \in Keys, NEW u \in Users, NEW k \in Mints, UserStep(s, u, k)
    PROVE  [Ideal!Next]_(Ideal!vars)
<1>1. TypeOK /\ Accounted /\ remaining \in [SessionIds -> Nat]
  BY AmountsAreNat DEF IInv, TypeOK
<1>2. CASE EnsureUserMint(s, u, k)
  BY <1>2, QuietInstruction DEF EnsureUserMint
<1>3. ASSUME NEW a \in Accounts, NEW b \in Accounts, NEW n \in Amounts,
             Withdraw(s, u, k, a, b, n)
      PROVE  Ideal!Next
  <2>1. Owner[a] = u /\ MintOf[a] = k /\ MintOf[b] = k /\ Owner[b] \in Parties
    BY <1>3, AccountsAssumption DEF Withdraw, HoldsMint, Parties
  <2>2. Ideal!Move(u, Owner[b], k, n)
    BY <1>1, <1>3, <2>1, TransferIsMove DEF Withdraw
  <2>3. Ideal!Earmarked(u, k) + n <= EscrowHolding[<<u, k>>]
    BY <1>1, <1>3, FreeIsFree DEF Withdraw, CanWithdraw
  <2>4. Ideal!Withdraw(u, Owner[b], k, n)
    BY <1>3, <2>2, <2>3 DEF Withdraw, Ideal!Withdraw
  <2>5. QED
    BY <2>1, <2>4, SameAmounts DEF Ideal!Next, Parties
<1>4. ASSUME NEW m \in Merchants, NEW a \in Accounts, OpenEmpty(s, u, m, k, a)
      PROVE  UNCHANGED Ideal!vars
  <2>1. remaining' = remaining
    BY <1>1, <1>4 DEF OpenEmpty, TypeOK, SessionIds
  <2>2. QED
    BY <1>4, <2>1, QuietInstruction DEF OpenEmpty
<1>5. ASSUME NEW m \in Merchants, NEW a \in Accounts, NEW n \in Amounts,
             OpenFunded(s, u, m, k, a, n)
      PROVE  Ideal!Next
  <2>1. n \in Nat /\ <<u, m, k>> \in SessionIds /\ remaining[<<u, m, k>>] = 0
    BY <1>1, <1>5, AmountsAreNat DEF OpenFunded, TypeOK, SessionIds
  <2>2. remaining' = [remaining EXCEPT ![<<u, m, k>>] = @ + n]
    BY <1>5, <2>1 DEF OpenFunded
  <2>3. QED
    BY <1>1, <1>5, <2>2, ReservationIsEarmark DEF OpenFunded
<1>6. ASSUME NEW m \in Merchants, NEW a \in Accounts, NEW n \in Amounts,
             Deposit(s, u, m, k, a, n)
      PROVE  Ideal!Next
  <2>1. Held(u, k) = reserved[<<u, k>>]
    BY <1>6 DEF Deposit, Held
  <2>2. QED
    BY <1>1, <1>6, <2>1, ReservationIsEarmark DEF Deposit
<1>7. ASSUME NEW m \in Merchants, CloseWithoutUserMint(s, u, m, k)
      PROVE  UNCHANGED Ideal!vars
  BY <1>7, QuietInstruction DEF CloseWithoutUserMint
<1>8. ASSUME NEW m \in Merchants, CloseSession(s, u, m, k)
      PROVE  Ideal!Next
  <2>1. Ideal!Release(u, m, k)
    BY <1>8, HoldingUnchanged DEF CloseSession, Ideal!Release
  <2>2. QED
    BY <2>1 DEF Ideal!Next
<1>9. QED
  BY <1>2, <1>3, <1>4, <1>5, <1>6, <1>7, <1>8 DEF UserStep

LEMMA ChargeIsPay ==
    ASSUME IInv, NEW s \in Keys, NEW u \in Users, NEW m \in Merchants, NEW k \in Mints,
           ChargeStep(s, u, m, k)
    PROVE  Ideal!Next
<1>1. PICK a \in Accounts, b \in Accounts, n \in Amounts : Charge(s, u, m, k, a, b, n)
  BY DEF ChargeStep
<1>2. /\ Owner[a] = u /\ MintOf[a] = k /\ Owner[b] = m /\ MintOf[b] = k
      /\ n <= remaining[<<u, m, k>>]
      /\ remaining' = [remaining EXCEPT ![<<u, m, k>>] = @ - n]
  BY <1>1 DEF Charge, MerchantAccount, HoldsMint, CanDebit
<1>3. Ideal!Move(u, m, k, n)
  BY <1>1, <1>2, TransferIsMove DEF Charge, IInv
<1>4. Ideal!Pay(u, m, k, n)
  BY <1>2, <1>3 DEF Ideal!Pay
<1>5. QED
  BY <1>4, SameAmounts DEF Ideal!Next

LEMMA WalletTransferIsSpend ==
    ASSUME IInv, NEW a \in Accounts, NEW b \in Accounts, NEW n \in Amounts,
           WalletTransfer(a, b, n)
    PROVE  Ideal!Next
<1> DEFINE p == Owner[a]
           q == Owner[b]
           k == MintOf[a]
<1>1. p \in Parties /\ q \in Parties /\ p \notin Users /\ k \in Mints /\ MintOf[b] = k
  BY AccountsAssumption, PartiesAssumption DEF WalletTransfer, Parties
<1>2. Ideal!Move(p, q, k, n)
  BY <1>1, TransferIsMove DEF WalletTransfer, IInv
<1> HIDE DEF p, q, k
<1>3. Ideal!Spend(p, q, k, n)
  BY <1>1, <1>2 DEF WalletTransfer, Ideal!Spend
<1>4. QED
  BY <1>1, <1>3, SameAmounts DEF Ideal!Next, Parties

(* What holds and what is earmarked is an escrow: tokens that a user has   *)
(* earmarked leave it only for the merchant, whatever accounts, keys,      *)
(* UserMints and rent are involved.                                        *)
THEOREM EscrowImplemented == Spec => ImplementsEscrow
<1>1. Init => Ideal!Init
  <2> SUFFICES ASSUME Init
               PROVE  Ideal!Init
    OBVIOUS
  <2>1. EscrowHolding = EscrowInitialHolding
    BY DEF Init, EscrowHolding, EscrowInitialHolding, Holding
  <2>2. QED
    BY <2>1 DEF Init, Ideal!Init, SessionIds
<1>2. IInv /\ [Next]_vars => [Ideal!Next]_(Ideal!vars)
  <2> SUFFICES ASSUME IInv, [Next]_vars
               PROVE  [Ideal!Next]_(Ideal!vars)
    OBVIOUS
  <2>1. ASSUME NEW u \in Users, InitUser(u) \/ DelegateUser(u)
        PROVE  UNCHANGED Ideal!vars
    BY <2>1, QuietInstruction DEF InitUser, DelegateUser
  <2>2. ASSUME NEW u \in Users, NEW s \in SessionKeys, GrantKey(u, s) \/ RevokeKey(u, s)
        PROVE  UNCHANGED Ideal!vars
    BY <2>2, QuietInstruction DEF GrantKey, RevokeKey
  <2>3. CASE UNCHANGED vars
    BY <2>3, QuietInstruction DEF vars
  <2>4. QED
    BY <2>1, <2>2, <2>3, UserStepIsEscrow, ChargeIsPay, WalletTransferIsSpend DEF Next
<1>3. QED
  BY <1>1, <1>2, InitIInv, NextIInv, PTL DEF Spec, ImplementsEscrow, Ideal!Spec

(* Seen as an escrow, the program never promises more than is there: what  *)
(* a user has earmarked for all merchants is within what it has in all its *)
(* accounts, although an instruction looks at one session and one account. *)
THEOREM EarmarksAreCovered == Spec => []Ideal!Covered
<1>1. IInv => Ideal!Covered
  <2> SUFFICES ASSUME IInv, NEW u \in Users, NEW k \in Mints
               PROVE  Ideal!Earmarked(u, k) <= EscrowHolding[<<u, k>>]
    BY DEF Ideal!Covered
  <2>1. TypeOK /\ Accounted /\ ReservationBacked
    BY DEF IInv
  <2>2. Ideal!Earmarked(u, k) = Held(u, k)
    BY <2>1, SameAmounts DEF Accounted
  <2>3. EscrowHolding[<<u, k>>] = Holding(u, k)
    BY DEF EscrowHolding
  <2>4. Held(u, k) \in Nat /\ Holding(u, k) \in Nat
    BY <2>1, AmountsAreNat, HoldingBounds, NumbersAssumption DEF TypeOK, Held
  <2>5. CASE Held(u, k) > 0
    <3>1. PICK a \in Accounts : HoldsMint(a, u, k) /\ Held(u, k) <= balance[a]
      BY <2>1, <2>5 DEF ReservationBacked
    <3>2. balance[a] \in Nat /\ balance[a] <= Holding(u, k)
      BY <2>1, <3>1, AmountsAreNat, HoldingBounds, NumbersAssumption DEF TypeOK
    <3>3. QED
      BY <2>2, <2>3, <2>4, <3>1, <3>2
  <2>6. QED
    BY <2>2, <2>3, <2>4, <2>5
<1>2. QED
  BY <1>1, InitIInv, NextIInv, PTL DEF Spec
=============================================================================
