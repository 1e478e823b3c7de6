-------------------------- MODULE PaymentSessions --------------------------
(***************************************************************************)
(* The on-chain payment-session program (programs/hyperpay/src).           *)
(*                                                                         *)
(* A User PDA owns token accounts.  A session earmarks part of a User's    *)
(* tokens for one merchant: opening or depositing raises session.remaining *)
(* and the User's UserMint.reserved together and moves no token; a charge  *)
(* moves tokens to the merchant and lowers both; closing gives the         *)
(* earmark back; a withdrawal may only take what is not reserved.          *)
(*                                                                         *)
(* One action is one instruction.  A transaction that fails is rolled back *)
(* whole, so a failing instruction is a step that is not taken.            *)
(***************************************************************************)
EXTENDS Naturals, FiniteSets, Totals

CONSTANTS
    Users,          \* User PDAs
    Keys,           \* public keys somebody can sign with
    SessionKeys,    \* the keys that session tokens are made out to
    Merchants,      \* the values session.merchant takes: keys or PDAs
    Mints,
    Accounts,       \* SPL token accounts
    Authority,      \* User.authority: the key a User PDA is derived from
    Owner,          \* TokenAccount.owner
    MintOf,         \* TokenAccount.mint
    InitialBalance, \* tokens already in circulation, by account
    U64Max,         \* the largest u64
    Sponsorship,    \* lamports handed to init_user
    SessionRent,    \* rent of an ephemeral Session, paid by the User
    UserMintRent    \* rent of an ephemeral UserMint, paid by the User

(* A PDA has no private key, and one wallet derives one User PDA. *)
ASSUME PartiesAssumption ==
    /\ Users \cap Keys = {}
    /\ SessionKeys \subseteq Keys
    /\ Merchants \subseteq Users \cup Keys
    /\ IsFiniteSet(Merchants)
    /\ Authority \in [Users -> Keys]
    /\ \A u, v \in Users : Authority[u] = Authority[v] => u = v

ASSUME AccountsAssumption ==
    /\ IsFiniteSet(Accounts)
    /\ Owner \in [Accounts -> Users \cup Keys]
    /\ MintOf \in [Accounts -> Mints]

ASSUME NumbersAssumption ==
    /\ U64Max \in Nat
    /\ Sponsorship \in Nat \ {0}
    /\ SessionRent \in Nat
    /\ UserMintRent \in Nat

(* The supply of an SPL mint is a u64, so no set of balances exceeds it. *)
ASSUME SupplyAssumption ==
    /\ InitialBalance \in [Accounts -> Nat]
    /\ \A k \in Mints :
          Total([a \in Accounts |-> IF MintOf[a] = k THEN InitialBalance[a] ELSE 0])
             <= U64Max

VARIABLES
    stage,          \* of a User PDA: "missing", "base" or "delegated"
    lamports,       \* what a User PDA has left to sponsor rent with
    sessionKeys,    \* pairs <<user, key>> of the session tokens now valid
    open,           \* <<user, merchant, mint>> of the Session accounts
    remaining,      \* Session.remaining
    userMints,      \* <<user, mint>> of the UserMint accounts
    reserved,       \* UserMint.reserved
    balance         \* TokenAccount.amount

vars == <<stage, lamports, sessionKeys, open, remaining, userMints, reserved, balance>>

SessionIds == Users \X Merchants \X Mints

Init ==
    /\ stage = [u \in Users |-> "missing"]
    /\ lamports = [u \in Users |-> 0]
    /\ sessionKeys = {}
    /\ open = {}
    /\ remaining = [x \in SessionIds |-> 0]
    /\ userMints = {}
    /\ reserved = [x \in Users \X Mints |-> 0]
    /\ balance = InitialBalance
-----------------------------------------------------------------------------
(* Reservation arithmetic.  An operator named X_Y is X with the mistake Y  *)
(* in it; it is used by no action, only to show which property notices.    *)

Available(amount, held) == IF held <= amount THEN amount - held ELSE 0

CanReserve_IgnoringHeld(amount, held, n) == n > 0 /\ n <= amount

CanReserve(amount, held, n) ==
    /\ n > 0
    /\ n <= Available(amount, held)
    /\ held + n <= U64Max

CanDebit_Unchecked(left, n) == n > 0

CanDebit(left, n) == n > 0 /\ n <= left

(* An uninitialised UserMint counts as nothing reserved. *)
Held(u, k) == IF <<u, k>> \in userMints THEN reserved[<<u, k>>] ELSE 0

CanWithdraw_IgnoringReserved(amount, held, n) == n > 0 /\ n <= amount

CanWithdraw(amount, held, n) == n > 0 /\ n <= Available(amount, held)

(* close_session gives the session's part of the reservation back, ...     *)
HeldAfterClose_All(held, left) == 0

HeldAfterClose_Nothing(held, left) == held

HeldAfterClose(held, left) == held - left

(* ... and takes the UserMint down when nothing is reserved any more.      *)
Idle_Always(held) == TRUE

Idle(held) == held = 0

CloseRefund_SessionOnly(idle) == SessionRent

CloseRefund(idle) == SessionRent + IF idle THEN UserMintRent ELSE 0

(* Who may sign for a User: its wallet, or a valid session token for it.   *)
SignedFor(s, u) == s = Authority[u] \/ <<u, s>> \in sessionKeys

(* The one instruction that a merchant may sign is a charge, of its own    *)
(* sessions.                                                               *)
MayCharge_AnyMerchant(s, u, m) == SignedFor(s, u) \/ s \in Merchants

MayCharge(s, u, m) == SignedFor(s, u) \/ s = m

HoldsMint(a, p, k) == Owner[a] = p /\ MintOf[a] = k

MerchantAccount_OfAnyone(b, m, k) == MintOf[b] = k

MerchantAccount(b, m, k) == HoldsMint(b, m, k)

(* The accounts of an instruction are pairwise distinct when writable. *)
CanTransfer_Unchecked(from, to, n) == from # to

CanTransfer(from, to, n) == from # to /\ n <= balance[from]

Transfer(from, to, n) ==
    balance' = [balance EXCEPT ![from] = @ - n, ![to] = @ + n]
-----------------------------------------------------------------------------
(* Instructions. *)

InitUser(u) ==
    /\ stage[u] = "missing"
    /\ stage' = [stage EXCEPT ![u] = "base"]
    /\ lamports' = [lamports EXCEPT ![u] = @ + Sponsorship]
    /\ UNCHANGED <<sessionKeys, open, remaining, userMints, reserved, balance>>

DelegateUser(u) ==
    /\ stage[u] = "base"
    /\ stage' = [stage EXCEPT ![u] = "delegated"]
    /\ UNCHANGED <<lamports, sessionKeys, open, remaining, userMints, reserved, balance>>

(* ensure_user_mint on an existing UserMint leaves everything as it is. *)
EnsureUserMint(s, u, k) ==
    /\ SignedFor(s, u)
    /\ stage[u] = "delegated"
    /\ <<u, k>> \notin userMints
    /\ lamports[u] >= UserMintRent
    /\ lamports' = [lamports EXCEPT ![u] = @ - UserMintRent]
    /\ userMints' = userMints \cup {<<u, k>>}
    /\ reserved' = [reserved EXCEPT ![<<u, k>>] = 0]
    /\ UNCHANGED <<stage, sessionKeys, open, remaining, balance>>

(* open_session, without and with a first deposit. *)
OpenEmpty(s, u, m, k, a) ==
    /\ SignedFor(s, u)
    /\ stage[u] = "delegated"
    /\ HoldsMint(a, u, k)
    /\ <<u, m, k>> \notin open
    /\ lamports[u] >= SessionRent
    /\ lamports' = [lamports EXCEPT ![u] = @ - SessionRent]
    /\ open' = open \cup {<<u, m, k>>}
    /\ remaining' = [remaining EXCEPT ![<<u, m, k>>] = 0]
    /\ UNCHANGED <<stage, sessionKeys, userMints, reserved, balance>>

OpenFunded(s, u, m, k, a, n) ==
    LET rent == SessionRent + IF <<u, k>> \in userMints THEN 0 ELSE UserMintRent
    IN  /\ SignedFor(s, u)
        /\ stage[u] = "delegated"
        /\ HoldsMint(a, u, k)
        /\ <<u, m, k>> \notin open
        /\ lamports[u] >= rent
        /\ CanReserve(balance[a], Held(u, k), n)
        /\ lamports' = [lamports EXCEPT ![u] = @ - rent]
        /\ open' = open \cup {<<u, m, k>>}
        /\ remaining' = [remaining EXCEPT ![<<u, m, k>>] = n]
        /\ userMints' = userMints \cup {<<u, k>>}
        /\ reserved' = [reserved EXCEPT ![<<u, k>>] = Held(u, k) + n]
        /\ UNCHANGED <<stage, sessionKeys, balance>>

Deposit(s, u, m, k, a, n) ==
    /\ SignedFor(s, u)
    /\ <<u, k>> \in userMints
    /\ <<u, m, k>> \in open
    /\ HoldsMint(a, u, k)
    /\ CanReserve(balance[a], reserved[<<u, k>>], n)
    /\ remaining[<<u, m, k>>] + n <= U64Max
    /\ reserved' = [reserved EXCEPT ![<<u, k>>] = @ + n]
    /\ remaining' = [remaining EXCEPT ![<<u, m, k>>] = @ + n]
    /\ UNCHANGED <<stage, lamports, sessionKeys, open, userMints, balance>>

Charge(s, u, m, k, a, b, n) ==
    /\ MayCharge(s, u, m)
    /\ <<u, k>> \in userMints
    /\ <<u, m, k>> \in open
    /\ HoldsMint(a, u, k)
    /\ MerchantAccount(b, m, k)
    /\ CanDebit(remaining[<<u, m, k>>], n)
    /\ n <= reserved[<<u, k>>]
    /\ CanTransfer(a, b, n)
    /\ Transfer(a, b, n)
    /\ remaining' = [remaining EXCEPT ![<<u, m, k>>] = @ - n]
    /\ reserved' = [reserved EXCEPT ![<<u, k>>] = @ - n]
    /\ UNCHANGED <<stage, lamports, sessionKeys, open, userMints>>

(* close_session while the User has no UserMint for the mint. *)
CloseWithoutUserMint(s, u, m, k) ==
    /\ SignedFor(s, u)
    /\ <<u, m, k>> \in open
    /\ <<u, k>> \notin userMints
    /\ remaining[<<u, m, k>>] = 0
    /\ open' = open \ {<<u, m, k>>}
    /\ lamports' = [lamports EXCEPT ![u] = @ + SessionRent]
    /\ UNCHANGED <<stage, sessionKeys, remaining, userMints, reserved, balance>>

CloseSession(s, u, m, k) ==
    LET held == HeldAfterClose(reserved[<<u, k>>], remaining[<<u, m, k>>])
    IN  /\ SignedFor(s, u)
        /\ <<u, m, k>> \in open
        /\ <<u, k>> \in userMints
        /\ remaining[<<u, m, k>>] <= reserved[<<u, k>>]
        /\ reserved' = [reserved EXCEPT ![<<u, k>>] = held]
        /\ remaining' = [remaining EXCEPT ![<<u, m, k>>] = 0]
        /\ open' = open \ {<<u, m, k>>}
        /\ userMints' = IF Idle(held) THEN userMints \ {<<u, k>>} ELSE userMints
        /\ lamports' = [lamports EXCEPT ![u] = @ + CloseRefund(Idle(held))]
        /\ UNCHANGED <<stage, sessionKeys, balance>>

(* The destination is any other token account of the mint. *)
Withdraw(s, u, k, a, b, n) ==
    /\ SignedFor(s, u)
    /\ stage[u] # "missing"
    /\ HoldsMint(a, u, k)
    /\ MintOf[b] = k
    /\ CanWithdraw(balance[a], Held(u, k), n)
    /\ CanTransfer(a, b, n)
    /\ Transfer(a, b, n)
    /\ UNCHANGED <<stage, lamports, sessionKeys, open, remaining, userMints, reserved>>
-----------------------------------------------------------------------------
(* The surroundings: the session-keys program and the SPL token program. *)

GrantKey(u, s) ==
    /\ <<u, s>> \notin sessionKeys
    /\ s # Authority[u]
    /\ sessionKeys' = sessionKeys \cup {<<u, s>>}
    /\ UNCHANGED <<stage, lamports, open, remaining, userMints, reserved, balance>>

RevokeKey(u, s) ==
    /\ <<u, s>> \in sessionKeys
    /\ sessionKeys' = sessionKeys \ {<<u, s>>}
    /\ UNCHANGED <<stage, lamports, open, remaining, userMints, reserved, balance>>

(* Wallets top up a User's account or spend among themselves. *)
WalletTransfer(a, b, n) ==
    /\ Owner[a] \in Keys
    /\ MintOf[a] = MintOf[b]
    /\ n > 0
    /\ CanTransfer(a, b, n)
    /\ Transfer(a, b, n)
    /\ UNCHANGED <<stage, lamports, sessionKeys, open, remaining, userMints, reserved>>
-----------------------------------------------------------------------------
Amounts == 1 .. U64Max

(* What signer s can do to the accounts of User u in mint k. *)
UserStep(s, u, k) ==
    \/ EnsureUserMint(s, u, k)
    \/ \E a, b \in Accounts, n \in Amounts : Withdraw(s, u, k, a, b, n)
    \/ \E m \in Merchants :
          \/ \E a \in Accounts : OpenEmpty(s, u, m, k, a)
          \/ \E a \in Accounts, n \in Amounts :
                OpenFunded(s, u, m, k, a, n) \/ Deposit(s, u, m, k, a, n)
          \/ CloseWithoutUserMint(s, u, m, k)
          \/ CloseSession(s, u, m, k)

ChargeStep(s, u, m, k) ==
    \E a, b \in Accounts, n \in Amounts : Charge(s, u, m, k, a, b, n)

Next ==
    \/ \E u \in Users : InitUser(u) \/ DelegateUser(u)
    \/ \E s \in Keys, u \in Users, k \in Mints : UserStep(s, u, k)
    \/ \E s \in Keys, u \in Users, m \in Merchants, k \in Mints : ChargeStep(s, u, m, k)
    \/ \E u \in Users, s \in SessionKeys : GrantKey(u, s) \/ RevokeKey(u, s)
    \/ \E a, b \in Accounts, n \in Amounts : WalletTransfer(a, b, n)

Spec == Init /\ [][Next]_vars
-----------------------------------------------------------------------------
(* Properties. *)

Earmarked(u, k) == Total([m \in Merchants |-> remaining[<<u, m, k>>]])

Holding(p, k) ==
    Total([a \in Accounts |-> IF HoldsMint(a, p, k) THEN balance[a] ELSE 0])

(* The type of the state; an account that is closed holds no amount. *)
TypeOK ==
    /\ stage \in [Users -> {"missing", "base", "delegated"}]
    /\ lamports \in [Users -> Nat]
    /\ sessionKeys \subseteq Users \X Keys
    /\ open \subseteq SessionIds
    /\ remaining \in [SessionIds -> 0 .. U64Max]
    /\ \A x \in SessionIds \ open : remaining[x] = 0
    /\ userMints \subseteq Users \X Mints
    /\ reserved \in [Users \X Mints -> 0 .. U64Max]
    /\ balance \in [Accounts -> 0 .. U64Max]

(* What a UserMint reserves is exactly what the open sessions of that user *)
(* and mint still have remaining, over every order of deposits, charges    *)
(* and closes; without a UserMint no session has anything remaining.       *)
(* apply_deposit, charge and close_session keep two accounts in step.      *)
Accounted ==
    \A u \in Users, k \in Mints : Held(u, k) = Earmarked(u, k)

(* Everything reserved is there: one token account of the User covers the  *)
(* whole reservation, although deposit, charge and withdraw each accept    *)
(* any token account of the User and compare against that one alone.       *)
ReservationBacked ==
    \A u \in Users, k \in Mints :
        Held(u, k) > 0 =>
            \E a \in Accounts : HoldsMint(a, u, k) /\ Held(u, k) <= balance[a]

(* The checked operations that answer Overflow never do: whatever passes   *)
(* the amount checks before them fits.  (reserve's checked_add, the        *)
(* checked_add of apply_deposit, the checked_sub of charge and close.)     *)
OverflowUnreachable ==
    \A u \in Users, m \in Merchants, k \in Mints, a \in Accounts, n \in Amounts :
        /\ HoldsMint(a, u, k) /\ n <= Available(balance[a], Held(u, k)) =>
              /\ Held(u, k) + n <= U64Max
              /\ remaining[<<u, m, k>>] + n <= U64Max
        /\ <<u, m, k>> \in open => remaining[<<u, m, k>>] <= Held(u, k)

(* Rent comes back: what a User has spent of its lamports is the rent of   *)
(* the accounts it still has open, whichever of the two branches of        *)
(* close_session closed the others.                                        *)
RentAccounted ==
    \A u \in Users :
        stage[u] # "missing" =>
            Sponsorship = lamports[u]
                + SessionRent * Cardinality({x \in open : x[1] = u})
                + UserMintRent * Cardinality({x \in userMints : x[1] = u})

(* While a session stays open its remaining falls only by paying: the same *)
(* amount leaves the User's reservation and its tokens, and arrives in     *)
(* full at the merchant the session names.                                 *)
DebitsArePayments ==
    \A u \in Users, m \in Merchants, k \in Mints :
        LET paid == remaining[<<u, m, k>>] - remaining'[<<u, m, k>>]
        IN  /\ <<u, m, k>> \in open \cap open'
            /\ remaining'[<<u, m, k>>] < remaining[<<u, m, k>>]
            /\ m # u
            => /\ Held(u, k) = Held(u, k)' + paid
               /\ Holding(u, k) = Holding(u, k)' + paid
               /\ Holding(m, k)' = Holding(m, k) + paid

SessionDebitIsPayment == [][DebitsArePayments]_vars

(* A key that speaks for no User - a merchant's, or a stranger's - can     *)
(* open and close nothing, cannot touch another merchant's session, and    *)
(* takes no token out of what Users have not reserved.                     *)
SignedStep(s) ==
    \E u \in Users, k \in Mints :
        UserStep(s, u, k) \/ \E m \in Merchants : ChargeStep(s, u, m, k)

StrangersStayOut ==
    \A s \in Keys :
        (\A u \in Users : ~SignedFor(s, u)) /\ SignedStep(s) =>
           /\ open' = open
           /\ userMints' = userMints
           /\ \A u \in Users, k \in Mints :
                 /\ Holding(u, k)' - Held(u, k)' = Holding(u, k) - Held(u, k)
                 /\ \A m \in Merchants \ {s} :
                       remaining'[<<u, m, k>>] = remaining[<<u, m, k>>]

MerchantConfined == [][StrangersStayOut]_vars

(* The exit is never blocked: the wallet of a User can close any session   *)
(* of that User in every reachable state, through whichever branch the     *)
(* UserMint's presence selects.                                            *)
CloseAlwaysPossible ==
    \A u \in Users, m \in Merchants, k \in Mints :
        <<u, m, k>> \in open =>
            \/ ENABLED CloseSession(Authority[u], u, m, k)
            \/ ENABLED CloseWithoutUserMint(Authority[u], u, m, k)

(* What a merchant was promised it can take: all that its session has      *)
(* remaining can be charged at once, by the merchant alone, into any       *)
(* account of its own, whatever the User did with its other tokens.        *)
ChargeAlwaysPossible ==
    \A u \in Users, m \in Merchants \cap Keys, k \in Mints, b \in Accounts :
        /\ <<u, m, k>> \in open
        /\ remaining[<<u, m, k>>] > 0
        /\ HoldsMint(b, m, k)
        => ENABLED (\E a \in Accounts : Charge(m, u, m, k, a, b, remaining[<<u, m, k>>]))
=============================================================================
