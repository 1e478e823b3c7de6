------------------------------- MODULE Client -------------------------------
(***************************************************************************)
(* The client SDK from end to end: HyperPay (packages/core/src/client.ts)  *)
(* behind its front ends (packages/hyperpay/src/cli.ts and mcp.ts, and the *)
(* wallet signer of packages/react), the instructions it builds            *)
(* (packages/core/src/program.ts), and the programs that run them:         *)
(* PaymentSessions, and eSPL, which moves a wallet's tokens on the base    *)
(* layer into the eATA, which the rollup shows as the owner's ATA.         *)
(*                                                                         *)
(* topUp sends up to four transactions; its calls are followed step by     *)
(* step.  Calls that send alike on one blockhash send one transaction,     *)
(* which lands once and answers each of them; whether the blockhash is the *)
(* same is left open.  The other methods send one, built from their        *)
(* arguments and from lists that do not change, so that it makes no        *)
(* difference when it was built: check, building and landing are one step, *)
(* and a transaction that is refused, lost or the same as another's is a   *)
(* step not taken.  One mint, without rent (see PaymentSessions) and       *)
(* without caps (see SpendPolicy).                                         *)
(***************************************************************************)
EXTENDS Naturals, FiniteSets, Totals

CONSTANTS
    Payers,    \* keys that hold tokens in a wallet
    Owners,    \* those of them that make a User of their own
    Merchants, \* keys that sessions are opened with
    Mint,
    Payees,    \* keys that have an eATA on the rollup
    Wallets,   \* what may be connected to the page: wallets, or none
    Calls,     \* slots for topUps that are under way at one time
    Funds,     \* tokens in a wallet, on the base layer
    MaxUnits,  \* bound on a single amount
    MaxAgain,  \* bound on what shared deposits answer again, by wallet (of the model)
    FrontEnds, \* what the holder of a key may use
    Tokens,    \* session tokens that may exist: pairs <<User, key>>
    Deny,      \* by key, whom its client's deny list matches
    Allow      \* by key, whom its allow list matches; {} for no list

Keys == Payers \cup Merchants

(* Addresses: what an account is derived from.  Sessions and UserMints are *)
(* derived alike by the client and by the program.                         *)
UserPda(w) == <<"user", w>>
Ata(owner) == <<"ata", owner>>
Eata(owner) == <<"eata", owner>>

Users == {UserPda(w) : w \in Owners}

(* A PDA has no private key. *)
ASSUME ClientAssumption ==
    /\ IsFiniteSet(Keys) /\ IsFiniteSet(Calls)
    /\ Users \cap Keys = {}
    /\ Owners \subseteq Payers
    /\ Merchants \subseteq Payees /\ Payees \subseteq Keys
    /\ Funds \in [Payers -> Nat]
    /\ MaxUnits \in Nat /\ MaxAgain \in Nat
    /\ FrontEnds \in [Keys -> SUBSET {"sdk", "page", "cli", "mcp"}]
    /\ Tokens \subseteq Users \X Payers
    /\ Deny \in [Keys -> SUBSET Keys] /\ Allow \in [Keys -> SUBSET Keys]

Accounts == {Ata(w) : w \in Payers} \cup {Eata(o) : o \in Users \cup Payees}
Owner == [a \in Accounts |-> a[2]]
InitialBalance == [a \in Accounts |-> IF a[1] = "ata" THEN Funds[a[2]] ELSE 0]
Supply == Total(Funds)

(* The rest of what PaymentSessions is about. *)
SessionKeys == Payers
Authority == [u \in Users |-> u[2]]
Mints == {Mint}
MintOf == [a \in Accounts |-> Mint]

VARIABLES
    stage, lamports, sessionKeys, open, remaining, userMints, reserved, balance,
    eata,     \* a User's eATA: "missing", "base" or "delegated"
    front,    \* what the holder of a key uses
    call,     \* the topUps under way
    recorded, \* units of top-ups in the journal of a key's client
    landed,   \* the transactions of topUps that have landed
    missed,   \* history: units whose deposit landed and was reported as failed
    again     \* history: units of calls that another call's deposit answered

program == <<stage, lamports, sessionKeys, open, remaining, userMints, reserved, balance>>
ledger == <<program, eata>>
client == <<call, recorded, landed, missed, again>>
vars == <<ledger, front, client>>

P == INSTANCE PaymentSessions WITH
        U64Max <- Supply, Sponsorship <- 1, SessionRent <- 0, UserMintRent <- 0

NoCall == [phase |-> "none"]

Init ==
    /\ P!Init
    /\ eata = [u \in Users |-> "missing"]
    /\ front \in {f \in [Keys -> UNION {FrontEnds[k] : k \in Keys}] :
                      \A k \in Keys : f[k] \in FrontEnds[k]}
    /\ call = [c \in Calls |-> NoCall]
    /\ recorded = [w \in Payers |-> 0]
    /\ landed = {}
    /\ missed = [w \in Payers |-> 0]
    /\ again = [w \in Payers |-> 0]
-----------------------------------------------------------------------------
(* The policy's lists; an empty allow list lets everybody through.         *)
Payable_AllowFirst(k, to) == to \in Allow[k] \/ (Allow[k] = {} /\ to \notin Deny[k])

Payable(k, to) == to \notin Deny[k] /\ (Allow[k] = {} \/ to \in Allow[k])

(* A policy speaks of amounts; an empty session has none. *)
MayPay(k, to, n) == n > 0 => Payable(k, to)

(* What the front ends offer; the MCP server has no tool for the rest, and *)
(* neither it nor the CLI passes a session token.                          *)
Offers(k, method) ==
    front[k] = "mcp" => method \in {"openSession", "deposit", "charge", "withdraw"}

PassesToken(k, user, t) ==
    t => <<user, k>> \in Tokens /\ front[k] \notin {"cli", "mcp"}

MayCall(k, method, user, t) == Offers(k, method) /\ PassesToken(k, user, t)
-----------------------------------------------------------------------------
(* Instructions.  Each is the step of its program on the accounts that the *)
(* client names, by signer s, with a session token if t.                   *)

(* With a session token it must be a valid one; without, s must be the     *)
(* wallet itself.                                                          *)
Authorised(user, s, t) == IF t THEN <<user, s>> \in sessionKeys ELSE user = UserPda(s)

(* The rollup knows a token account when its eATA has been delegated.      *)
OnRollup(user) == eata[user] = "delegated"

SessionAccounts(s, authority, m) ==
    [user |-> UserPda(authority), signer |-> s, merchant |-> m,
     userEata |-> Eata(UserPda(authority))]

initUserIx(user) == P!InitUser(user) /\ UNCHANGED eata

delegateUserIx(user) == P!DelegateUser(user) /\ UNCHANGED eata

openSessionIx(x, n, t) ==
    /\ Authorised(x.user, x.signer, t)
    /\ OnRollup(x.user)
    /\ \/ n = 0 /\ P!OpenEmpty(x.signer, x.user, x.merchant, Mint, x.userEata)
       \/ n > 0 /\ P!OpenFunded(x.signer, x.user, x.merchant, Mint, x.userEata, n)
    /\ UNCHANGED eata

depositIx(x, n, t) ==
    /\ Authorised(x.user, x.signer, t)
    /\ P!Deposit(x.signer, x.user, x.merchant, Mint, x.userEata, n)
    /\ UNCHANGED eata

chargeIx(x, merchantEata, n) ==
    /\ P!Charge(x.signer, x.user, x.merchant, Mint, x.userEata, merchantEata, n)
    /\ UNCHANGED eata

closeSessionIx(x, t) ==
    /\ Authorised(x.user, x.signer, t)
    /\ \/ P!CloseSession(x.signer, x.user, x.merchant, Mint)
       \/ P!CloseWithoutUserMint(x.signer, x.user, x.merchant, Mint)
    /\ UNCHANGED eata

withdrawIx(s, user, destination, n, t) ==
    /\ Authorised(user, s, t)
    /\ OnRollup(user)
    /\ P!Withdraw(s, user, Mint, Eata(user), destination, n)
    /\ UNCHANGED eata

(* A UserMint that is there stays as it is. *)
ensureUserMintIx(user, s, t) ==
    /\ Authorised(user, s, t)
    /\ stage[user] = "delegated"
    /\ IF <<user, Mint>> \in userMints THEN UNCHANGED ledger
       ELSE P!EnsureUserMint(s, user, Mint) /\ UNCHANGED eata

(* initGlobalVaultIx and initEphemeralAtaIx, in one transaction; both do   *)
(* nothing when their account is there.                                    *)
initAtaIxs(owner) ==
    /\ eata' = [eata EXCEPT ![owner] = IF @ = "missing" THEN "base" ELSE @]
    /\ UNCHANGED program

depositSplIx(s, owner, n) ==
    /\ eata[owner] # "missing"
    /\ P!WalletTransfer(Ata(s), Eata(owner), n)
    /\ UNCHANGED eata

delegateEphemeralAtaIx(owner) ==
    /\ eata[owner] = "base"
    /\ eata' = [eata EXCEPT ![owner] = "delegated"]
    /\ UNCHANGED program
-----------------------------------------------------------------------------
(* topUp. *)

(* The client of a page is made for one public key, and its transactions   *)
(* name that key ...                                                       *)
Payer_Connected(k, wallet) == IF front[k] = "page" THEN wallet ELSE k

Payer(k, wallet) == k

(* ... but signing is up to the wallet that is connected now.              *)
CanSign(k, wallet) == front[k] = "page" => wallet = k

(* The transaction that a call is at.  Nothing that is shared is read or   *)
(* changed while it is built, signed and sent; a page's wallet may be      *)
(* exchanged in the meantime.                                              *)
Transaction(c, wallet) ==
    LET user == UserPda(call[c].authority)
        payer == Payer(call[c].by, wallet)
        step == call[c].step
    IN  /\ CanSign(payer, wallet)
        /\ \/ step = "inits" /\ initAtaIxs(user)
           \/ step = "deposit" /\ depositSplIx(payer, user, call[c].units)
           \/ step = "delegate" /\ delegateEphemeralAtaIx(user)
           \/ step = "ensure" /\ ensureUserMintIx(user, payer, call[c].token)

(* What makes it the transaction it is, but for its blockhash. *)
Sent(c) ==
    LET step == call[c].step
    IN  [step |-> step, by |-> call[c].by, authority |-> call[c].authority,
         units |-> IF step = "deposit" THEN call[c].units ELSE 0,
         token |-> step = "ensure" /\ call[c].token]

Goto(c, step, phase) ==
    call' = [call EXCEPT ![c].step = step, ![c].phase = phase]

End(c) == call' = [call EXCEPT ![c] = NoCall]

(* The units that a call's deposit took from the wallet, if it has just    *)
(* landed.                                                                 *)
Landed(c) == IF call[c].step = "deposit" THEN call[c].units ELSE 0

(* submit records what it has seen settle. *)
Record_AtTheEnd(c) ==
    recorded' = [recorded EXCEPT ![call[c].by] =
                    @ + IF call[c].step = "ensure" THEN call[c].units ELSE 0]

Record(c) == recorded' = [recorded EXCEPT ![call[c].by] = @ + Landed(c)]

Miss(c) == missed' = [missed EXCEPT ![call[c].by] = @ + Landed(c)]

NeedsDelegation_IfDone(seen) == seen

NeedsDelegation(seen) == ~seen

TopUp(c, s, authority, n, t) ==
    /\ call[c] = NoCall
    /\ MayCall(s, "topUp", UserPda(authority), t)
    /\ Payable(s, authority)
    /\ call' = [call EXCEPT ![c] =
                  [phase |-> "sending", step |-> "inits", by |-> s,
                   authority |-> authority, units |-> n, token |-> t]]
    /\ UNCHANGED <<ledger, front, recorded, landed, missed, again>>

(* It lands, for a call that waits for it, ... *)
Land(c, wallet) ==
    /\ call[c].phase = "sending"
    /\ Transaction(c, wallet)
    /\ landed' = landed \cup {Sent(c)}
    /\ Goto(c, call[c].step, "landed")
    /\ UNCHANGED <<front, recorded, missed, again>>

(* ... it is one that landed for another call, which changes nothing and   *)
(* answers this one too, ...                                               *)
SameTransaction(c, wallet) ==
    /\ call[c].phase = "sending"
    /\ CanSign(call[c].by, wallet)
    /\ Sent(c) \in landed
    /\ again[call[c].by] + Landed(c) <= MaxAgain
    /\ again' = [again EXCEPT ![call[c].by] = @ + Landed(c)]
    /\ Goto(c, call[c].step, "landed")
    /\ UNCHANGED <<ledger, front, recorded, landed, missed>>

(* ... or it lands for one that has thrown. *)
LandLate(c, wallet) ==
    /\ call[c].phase = "adrift"
    /\ Transaction(c, wallet)
    /\ landed' = landed \cup {Sent(c)}
    /\ End(c)
    /\ Miss(c)
    /\ UNCHANGED <<front, recorded, again>>

(* submit returns, and topUp goes on. *)
Proceed(c) ==
    /\ call[c].phase = "landed"
    /\ CASE call[c].step = "inits" -> Goto(c, "deposit", "sending")
         [] call[c].step = "deposit" -> Goto(c, "deposit", "reading")
         [] call[c].step = "delegate" -> Goto(c, "ensure", "sending")
         [] call[c].step = "ensure" -> End(c)
    /\ Record(c)
    /\ UNCHANGED <<ledger, front, landed, missed, again>>

(* The delegation record is read; when it is seen, the next transaction is *)
(* left out.  The read asks for what is finalized, which lags behind what  *)
(* submit waits for: a record that is new may not be seen.                 *)
ReadRecord(c) ==
    /\ call[c].phase = "reading"
    /\ \E seen \in BOOLEAN :
          /\ seen => OnRollup(UserPda(call[c].authority))
          /\ Goto(c, IF NeedsDelegation(seen) THEN "delegate" ELSE "ensure", "sending")
    /\ UNCHANGED <<ledger, front, recorded, landed, missed, again>>

(* An error at any point.  What is out may land yet or not at all. *)
Throw(c) ==
    /\ call[c].phase \in {"sending", "landed", "reading"}
    /\ \/ End(c)
       \/ call[c].phase = "sending" /\ Goto(c, call[c].step, "adrift")
    /\ IF call[c].phase = "landed" THEN Miss(c) ELSE UNCHANGED missed
    /\ UNCHANGED <<ledger, front, recorded, landed, again>>

TopUpStep(c) ==
    \/ \E wallet \in Wallets :
          Land(c, wallet) \/ SameTransaction(c, wallet) \/ LandLate(c, wallet)
    \/ Proceed(c) \/ ReadRecord(c) \/ Throw(c)
-----------------------------------------------------------------------------
(* The other methods. *)

InitUser(s) ==
    /\ MayCall(s, "initUser", UserPda(s), FALSE)
    /\ initUserIx(UserPda(s))
    /\ UNCHANGED <<front, client>>

DelegateUser(s) ==
    /\ MayCall(s, "delegateUser", UserPda(s), FALSE)
    /\ delegateUserIx(UserPda(s))
    /\ UNCHANGED <<front, client>>

OpenSession(s, authority, m, n, t) ==
    /\ MayCall(s, "openSession", UserPda(authority), t)
    /\ MayPay(s, m, n)
    /\ openSessionIx(SessionAccounts(s, authority, m), n, t)
    /\ UNCHANGED <<front, client>>

Deposit(s, authority, m, n, t) ==
    /\ MayCall(s, "deposit", UserPda(authority), t)
    /\ Payable(s, m)
    /\ depositIx(SessionAccounts(s, authority, m), n, t)
    /\ UNCHANGED <<front, client>>

Charge(s, wallet, n) ==
    /\ MayCall(s, "charge", UserPda(wallet), FALSE)
    /\ Payable(s, s)
    /\ chargeIx(SessionAccounts(s, wallet, s), Eata(s), n)
    /\ UNCHANGED <<front, client>>

CloseSession(s, authority, m, t) ==
    /\ MayCall(s, "closeSession", UserPda(authority), t)
    /\ closeSessionIx(SessionAccounts(s, authority, m), t)
    /\ UNCHANGED <<front, client>>

(* The destination is s itself when none is given. *)
Withdraw(s, authority, to, n, t) ==
    /\ MayCall(s, "withdraw", UserPda(authority), t)
    /\ Payable(s, to)
    /\ withdrawIx(s, UserPda(authority), Eata(to), n, t)
    /\ UNCHANGED <<front, client>>

(* Session tokens come and go. *)
TokenStep ==
    /\ \E x \in Tokens : P!GrantKey(x[1], x[2]) \/ P!RevokeKey(x[1], x[2])
    /\ UNCHANGED <<eata, front, client>>
-----------------------------------------------------------------------------
Amounts == 1 .. MaxUnits

(* What s can do for the User of a wallet, its own or another's. *)
PayerStep(s, authority, t) ==
    \/ \E c \in Calls, n \in Amounts : TopUp(c, s, authority, n, t)
    \/ \E m \in Merchants :
          \/ \E n \in 0 .. MaxUnits : OpenSession(s, authority, m, n, t)
          \/ \E n \in Amounts : Deposit(s, authority, m, n, t)
          \/ CloseSession(s, authority, m, t)
    \/ \E to \in Payees, n \in Amounts : Withdraw(s, authority, to, n, t)

Next ==
    \/ \E c \in Calls : TopUpStep(c)
    \/ \E s \in Owners : InitUser(s) \/ DelegateUser(s)
    \/ \E s \in Payers, authority \in Owners, t \in BOOLEAN : PayerStep(s, authority, t)
    \/ \E s \in Merchants, wallet \in Owners, n \in Amounts : Charge(s, wallet, n)
    \/ TokenStep

Spec == Init /\ [][Next]_vars
-----------------------------------------------------------------------------
(* Properties. *)

Phases == {"sending", "landed", "adrift", "reading"}

Steps == {"inits", "deposit", "delegate", "ensure"}

TopUpCalls == [phase : Phases, step : Steps, by : Payers, authority : Owners,
               units : Amounts, token : BOOLEAN]

Transactions == [step : Steps, by : Payers, authority : Owners, units : 0 .. MaxUnits,
                 token : BOOLEAN]

(* The type of the state; tokens neither appear nor vanish, and none are   *)
(* in an eATA that does not exist.                                         *)
TypeOK ==
    /\ P!TypeOK
    /\ eata \in [Users -> {"missing", "base", "delegated"}]
    /\ front \in [Keys -> {"sdk", "page", "cli", "mcp"}]
    /\ call \in [Calls -> TopUpCalls \cup {NoCall}]
    /\ landed \subseteq Transactions
    /\ recorded \in [Payers -> Nat] /\ missed \in [Payers -> Nat] /\ again \in [Payers -> Nat]
    /\ Total(balance) = Supply
    /\ \A u \in Users : eata[u] = "missing" => balance[Eata(u)] = 0

(* Who may act for a User, ever; and whom it may pay.                      *)
ActsFor(s, u) == u = UserPda(s) \/ <<u, s>> \in Tokens

Trusts(s, to) == to \notin Deny[s] /\ (to \in Allow[s] \/ Allow[s] = {})

(* A merchant or a destination on the deny list, or not on the allow list, *)
(* gets nothing through the client, and nothing is set aside for it, along *)
(* any of the ways: sessions that were opened empty without a check, later *)
(* deposits, charges that the user's policy does not see, withdrawals, and *)
(* keys with a token, each under its own lists.                            *)
OnlyPayable ==
    \A to \in Payees :
        /\ balance[Eata(to)] > 0 => \E s \in Payers : Trusts(s, to)
        /\ \A u \in Users :
              to \in Merchants /\ remaining[<<u, to, Mint>>] > 0 =>
                  \E s \in Payers : ActsFor(s, u) /\ Trusts(s, to)

(* When a topUp returns, all that was ever deposited for that User, by     *)
(* calls that broke off or that raced with it as well, is where sessions   *)
(* and withdrawals can use it, and the User can sign for it.               *)
TopUpUsable ==
    \A c \in Calls :
        call[c].phase = "landed" /\ call[c].step = "ensure" =>
            LET user == UserPda(call[c].authority)
            IN  stage[user] = "delegated" /\ OnRollup(user)

(* A deposit counts against the caps though a later step of its topUp      *)
(* failed, and once for every call that it answered: what has left a       *)
(* wallet, and what shared deposits answered again, is in the journal of   *)
(* its client, except what landed for a call that was told it had not, and *)
(* what a call is about to record.                                         *)
DepositRecorded ==
    \A w \in Payers :
        Funds[w] - balance[Ata(w)] + again[w] = recorded[w] + missed[w]
            + Total([c \in Calls |->
                        IF call[c] # NoCall /\ call[c].by = w /\ call[c].phase = "landed"
                        THEN Landed(c) ELSE 0])

(* A wallet is debited only by a topUp that was begun with it, whatever    *)
(* wallet is connected meanwhile, by what was asked for, and to the User   *)
(* that was named.                                                         *)
DebitsAsAsked ==
    \A w \in Payers :
        balance'[Ata(w)] < balance[Ata(w)] =>
            \E c \in Calls :
                /\ call[c] # NoCall /\ call[c].by = w
                /\ balance'[Ata(w)] = balance[Ata(w)] - call[c].units
                /\ LET a == Eata(UserPda(call[c].authority))
                   IN  balance'[a] = balance[a] + call[c].units

DebitedAsAsked == [][DebitsAsAsked]_vars
=============================================================================
