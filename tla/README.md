# A formal model of hyperpay

TLA+ models of the payment-session system in this repository, checked with TLC
on small instances, with theorems about the on-chain program, the client SDK,
the spend policy, the submission of transactions, the paywall, the gateway and
prepaid credit proved with TLAPS.

- [The system](#the-system)
- [The modules](#the-modules)
- [The runs](#the-runs)
- [What is proved](#what-is-proved)
- [Where the code and its words differ](#where-the-code-and-its-words-differ)
- [What is not modelled](#what-is-not-modelled)
- [Plan](#plan)

## The system

hyperpay lets a user set tokens aside for a merchant once and lets the merchant
charge them many times on an ephemeral rollup (ER) without asking again.

| Component | State it keeps | Operations | Talks to |
|---|---|---|---|
| On-chain program (`programs/hyperpay/src`) | `User`, `UserMint.reserved`, `Session.remaining`; SPL token accounts of the User PDA | `init_user`, `delegate_user`, `ensure_user_mint`, `open_session`, `deposit`, `charge`, `close_session`, `withdraw` | SPL token program, session-keys program, ephemeral-account CPIs |
| Submission (`packages/solana/src/engine.ts`, `crates/hyperpay/src/engine.rs`) | one poll loop per call | `signAndSubmit`, `confirmSignature`, `TokenResolver` | JSON-RPC nodes of the base cluster and the ER |
| Spend policy (`packages/core/src/policy.ts`, `journal-fs.ts`, `crates/hyperpay/src/policy.rs`) | the journal: day, token, units | `check`, `record`, `prune` | a JSON file that processes share |
| Client SDK (`packages/core/src/client.ts`, `crates/hyperpay/src/client.rs`) | none of its own | `initUser`, `delegateUser`, `topUp`, `openSession`, `deposit`, `charge`, `closeSession`, `withdraw`, reads | policy, submission, program |
| Paywall (`packages/x402/src/index.ts`) | challenges by reference | `challenge`, `verify`, `expressPaywall`, `payingFetch` | `charge` of the SDK; HTTP |
| OpenRouter gateway (`examples/openrouter`) | prepaid accounts, seen receipts | `/topup`, `/v1/chat/completions`, `/credits` | OpenRouter over HTTP; `openSession` on the client |
| Metered provider (`examples/metered`) | prepaid counters | `/topup`, `/use` | as above |
| React hooks (`packages/react/src`) | status, quote and payment of a page | `usePay`, `useBalance`, `PayModal` | the SDK in the browser |
| Amounts (`packages/types/src/amounts.ts`) | none | `parseMoney`, `toBaseUnits`, `fromBaseUnits`, `formatAmount` | everything |
| Instruction builders (`packages/core/src/program.ts`) | none | one per instruction of the program and of eSPL, and the addresses they name | used by the SDK |
| CLI, MCP server (`packages/hyperpay/src`) | none | one call of the SDK per command or tool | the SDK |
| Wallet signer and provider (`packages/react/src`) | the connected wallet | `useWalletSigner`, `HyperPayProvider` | signs what the SDK builds in a page |
| Signers, key loading, scripts | none | keys, bytes, text | the SDK |

What is hard about it, component by component (`hazards` in PROJECT.json gives
each at its line):

- *Program.* Two accounts (`UserMint`, `Session`) have to move in step through
  five instructions, while tokens move in a third. A User may have several token
  accounts for a mint, and the program accepts any of them. The `UserMint`
  comes and goes under sessions that stay open. Correct means: reservations are
  exact and covered, a merchant can always take what it was promised and
  nothing else, a user can always leave.
- *Submission.* The answer to "did it settle?" is put together from two reads
  made one after the other against a ledger that moves. Correct means: each
  answer is final, and there is one.
- *Policy.* Check and record are separated by the network, by other calls, by
  other processes, by crashes and by midnight.
- *Paywall.* References are used once however requests are repeated; a request
  that is served was paid.
- *Gateway.* Holds are taken and settled around awaits; many paths end a
  completion.
- *Prepaid credit.* A purchase is three steps on three machines (session, credit,
  the file that names the account), and the server cannot see the payment.
- *SDK.* `topUp` is up to four transactions with a read among them; any may
  fail, land late, or meet another `topUp` in between. Policy checks are made
  under different names by different keys. In a page, the wallet that signs may
  not be the one the transaction was built for.
- *React.* Answers set the state of whatever is shown when they arrive.
- *Amounts.* A price becomes base units, a text, and base units again before it
  is charged, and two clients parse the same texts.

## The modules

| Module | Models | Notes |
|---|---|---|
| `Totals` | - | `Total(f)`, the sum of a function to naturals, as the cardinality of its units |
| `Escrow` | what the program promises | holdings and earmarks, nothing else |
| `Settlement` | what a call that sends a transaction promises its caller | no polls, heights or forks |
| `CreditLedger` | what a server of prepaid credit promises its buyers | receipts count once, uses stay within the credit |
| `PaymentSessions` | the program | one action per instruction |
| `Client` | the SDK's methods, the front ends, the instruction builders, eSPL | composes `PaymentSessions` (INSTANCE `P`); one action per method, `topUp` step by step |
| `Submission` | `signAndSubmit` and `confirmSignature` | one action per read, and the ledger; seen as a `Settlement` (INSTANCE `Promise`) |
| `SpendPolicy` | `Policy`, file journal, and the order of check, submit and record | several processes |
| `Paywall` | `Paywall`, `MemoryChallengeStore`, the middleware | composes `Submission` (INSTANCE `Net`) |
| `OpenRouterCredit` | the gateway's ledger | one action per stretch between awaits; seen as a `CreditLedger` (INSTANCE `Ledger`) |
| `Prepaid` | a buyer's runs, the credit a server gives for receipts, and the session | the metered example, and the gateway's client; seen as a `CreditLedger` too |
| `Checkout` | `usePay` under `PayModal` and `PayButton` | quotes and payments answer in any order |
| `Amounts` | parsing and formatting in both clients, `payingFetch` and its limit | the way of a price through a 402 exchange |
| `PaymentSessionsEscrow` | the refinement mapping | `PaymentSessions` seen as an `Escrow` (INSTANCE `Ideal`) |
| `MC*` | instances for TLC | constants and symmetry |
| `TotalsTheorems` | - | lemmas about sums |
| `PaymentSessionsProofs` | theorems about the program | invariants, action properties, rent, the refinement |
| `ClientProofs` | theorems about the client SDK | uses those of `PaymentSessionsProofs` (INSTANCE `Sessions`) |
| `SpendPolicyProofs`, `SubmissionProofs`, `PaywallProofs`, `OpenRouterCreditProofs`, `PrepaidProofs` | theorems about the module they are named after | `PaywallProofs` uses those of `SubmissionProofs` |

An operator named `X_Y` stands before `X` and is `X` with the mistake `Y` in
it. No action uses it; it shows which property notices that mistake
(`mutants` in PROJECT.json).

### PaymentSessions

The state is the accounts' contents. `stage[u]` is whether a User PDA is
missing, on the base cluster, or delegated; `lamports[u]` pays for ephemeral
accounts; `open` and `remaining` are the `Session` accounts, `userMints` and
`reserved` the `UserMint` accounts, `balance` the SPL token accounts, and
`sessionKeys` the session tokens that are valid now. An account that is closed
keeps the amount 0 in the model, so that equal worlds are equal states.

A transaction is atomic and a failing one is rolled back, so an instruction is
one step and a refused instruction is no step; which error it answers with is
left out. `open_session` is two actions, `OpenEmpty` and `OpenFunded`, for
`amount = 0` and `amount > 0`, and `close_session` is two, for its two
branches. Account constraints (seeds, `token::authority`, `token::mint`, the
`session_auth_or` macros) are guards. Anchor refuses the same writable account
twice, hence `from # to` in `CanTransfer`. Base cluster and ER are one ledger:
the program runs where the account is delegated, and `stage` says where that is.

External, modelled from how the program uses it: token transfers
(`Transfer`, `WalletTransfer`), session tokens (`GrantKey`, `RevokeKey`, the
latter also for expiry), rent of ephemeral accounts.

### Client

The ledger is that of `PaymentSessions`, with one mint and rent left out, plus
`eata`: whether the eATA of a User has been made on the base layer and
delegated. eSPL and the rollup are external: a deposit moves tokens from a
wallet's ATA to the eATA, and once that is delegated the rollup shows it as the
ATA of its owner, which is the account the SDK names there (`sessionAccounts`);
the two addresses are one account in the model. Each builder of `program.ts` is
an operator of the same name: the program's step on the accounts that the client
puts in, refused unless the session token that is passed is valid or, when none
is, the signer is the wallet itself (`Authorised`).

A call of `topUp` is a record: its arguments, the transaction it is at (`step`)
and how far it has come (`phase`): `Land` is the ledger taking what was built,
signed and sent, with nothing shared read in between; `Proceed` is the return of
`submit` with its record in the journal, `ReadRecord` the look at the delegation
record, and `Throw` an error anywhere. What was sent by a call that has thrown
may still land (`LandLate`). Several calls are under way at a time. Two of them
whose transactions are alike, on one blockhash, have sent one transaction: it
lands once and answers both (`SameTransaction`, with `landed`, what has landed
so far, by what makes a transaction the one it is but for the blockhash; which
blockhash a call got is left open). The other methods send one transaction whose
content does not depend on anything that changes, so each is one action,
whenever it was built.

`front` is what the holder of a key uses: the SDK, a page, the CLI or the MCP
server, which differ in the methods they offer, in whether they pass a session
token, and in who signs: the page's signer is made for one public key and signs
with the wallet that is connected at that moment (the parameter `wallet`, which
is any of `Wallets` each time). `recorded` is what
the journal of a key's client says of top-ups; `missed` and `again` are history
variables, what landed for calls that had thrown and what was deposited once and
answered to another call too.

### Submission

A transaction's identity is `<<payload, blockhash>>`, because ed25519
signatures are deterministic: two calls with the same instructions, signer and
blockhash are one transaction. A call reads the blockhash (`Build`), sends
(`Send`), and polls. `SeeError`, `SeeSettled` and `SeeUndecided` are the three
ways a status answer is taken; every third undecided answer without a status
leads to the block height (`SeeExpired`, `PollAgain`), which is a step of its
own because the ledger moves between the two reads. `Throw` is an RPC error at
any request; the request may have arrived all the same. `Deadline` is the
clock passing sixty seconds, looked at only at the loop's head. The Rust engine
is the same without the expiry check (`ExpiryCheck = FALSE`). The ledger may
drop what it has processed but not confirmed (`Fork`); with `Forks = FALSE` it
is the ER.

`Settlement` is what a caller may build on. A call waits for one transaction,
which others may share; it returns only when that has settled, says "expired"
only when no block can hold it any more, and otherwise throws and says nothing.
The mapping (`Promise`) takes as settled what is confirmed, as dead what is past
its last valid height, and every other answer (`Stage`) as a throw.

### SpendPolicy

One token with both caps. A payment goes from `Pay` (check, then submit)
through `Settle`, `SameTransaction` (an equal payment that has settled on the
same blockhash: one transaction, one payment, two answers), `Vanish` or `GiveUp`
(an error was reported, and the
transaction may still settle: `"adrift"`) to `record`, which is three steps:
`ReadJournal`, `Truncate`, `WriteJournal`. They run without an await, so within
a process nothing comes between them (`busy`); other processes, a crash and
midnight may. A torn file reads as an empty journal. `initUser` submits without
a check. `settled`, `landed`, `again` (what was answered a second time) and
`recorded` are history variables.

### Paywall

`Ask` is a request without a proof, `Accept` and `Refuse` a request that
returns with one: its own or, for a duplicate, any reference issued so far, to
any instance. `Accept` takes the reference out of the store; the charge is then
a call of `Net` (Submission) whose payload is the user, and `Serve` or
`ChargeFailed` is what the middleware makes of the outcome. `ChargeLands` is
the ledger taking the transaction together with the session program's effect.
Times are abstracted to the order in which references expire (`stale`).

### OpenRouterCredit

Each action is a stretch of a handler between awaits: `Estimate` up to the
model's price, `Lock` or `Refuse` after it, then the upstream call's four
endings and the cost reading's three. `TopUp` is one step because resolving the
amount of a known token does no I/O.

`Ledger` is the server as a `CreditLedger`: what a completion holds still
belongs to its account, so that the account's credit is what remains, was
charged or is held; only a receipt changes it.

### Prepaid

The two examples sell credit in the same way, with clients that differ: `client`
says which pair of programs is meant. A run of the metered client buys (`Buy`)
or uses (`UseCredit`); a run of the gateway's client (`Chat`) looks at its
credit (`Check`), buys, uses, and after a 402 does all of that once more
(`again`). A purchase is `OpenSession`, `OpenReturns`, `TopUp` or `Replay`,
`CreditAnswered`; a use is `Serve` or `PaymentRequired`. `Fail` is a call that
throws or a run that is killed at any of these; its transaction may still
settle, its request may still arrive (`"adrift"`, `"sent"`, `"asked"`). All runs
are of one wallet on one machine, and share `file`, the JSON file with the
account's name. A run that finds no file makes up a name, which is the run
itself in the model. The gateway's client saves the name first of all, on every
run, the metered one when its credit is there; between reading and saving
another run may do the same. A save is two steps, as `writeFileSync` is:
`SaveRef` truncates the file and `WriteRef` writes it. A file that is truncated
reads like none, for a run that starts in between and, if the run is killed in
between (`cut`), for all later ones. Units are those of the metered price list;
for the gateway they stand for amounts. The server's handlers do not wait
between reading and changing their counters. The gateway's holds, during a
completion, are the subject of `OpenRouterCredit` and one step here; both
modules implement `CreditLedger`. `paid` and `credited` are history variables.

### Checkout

`status`, `quote` and `payment` are the state of `usePay`; `kind[c]` is how far
a call of `quote` or `openSession` has come, and `units[c]` the amount it was
made with. React batches the setters of one callback, so each answer is one
step. `Open`, `Close` and `Rerender` are the properties of `PayModal` changing,
its effect included; `Click` is Confirm or the button. A payment that throws may
still be taken by the rollup (`"adrift"`, as in Submission). Mounting and
unmounting, `hp.signer` disconnecting, `disabled` and the texts are left out; a
session is not closed, and its merchant is always the same. Two payments of one
amount on one blockhash are one transaction, which both calls would report as
made; this is left out, and sets nothing more aside.

### Amounts

A text is what is before the point, whether there is one, what is behind it,
each a sequence of digits and separators, and a symbol of one of three kinds: a
word, which is what `MONEY` accepts, a letter with others than letters and
digits behind it, or anything else. Blanks are left out. `Resolve` is
`resolveAmount`: `parseMoney`, `toBaseUnits` and the range check; `RustResolve`
is `resolve_units` of the Rust client. The state machine follows one price:
`Challenge` quotes it, `Agree` or `Decline` is `payingFetch` with its
`maxPrice`, and `Charge` is `verify`, which charges the text in `display`.
Numbers given instead of texts, which JavaScript prints first, are left out, and
so is the search for the token that a symbol names: a symbol that can be read is
the token's.

## The runs

All instances but `checkout` stop when tokens, lamports, heights, requests or
runs are used up, so
deadlock is not checked.

| Run | Shows | Bounds, and why they are enough |
|---|---|---|
| `sessions` | `Accounted`, `ReservationBacked`, `OverflowUnreachable`, `RentAccounted`, `CloseAlwaysPossible`, `ChargeAlwaysPossible`, `SessionDebitIsPayment`, `MerchantConfined`, `ImplementsEscrow` | Two Users, the first with two accounts of the mint, the second also a merchant of the first; a merchant's key that may be made a session key. `U64Max = 2` is all the tokens there are, so a reservation can reach the limit and be split over two accounts or two sessions; the lamports pay for two sessions and a `UserMint` exactly |
| `submission` | `ExpiredIsFinal`, `KeepsPromise`, `EveryCallReturns` | Two calls of one payload on heights 0 to 2 and a validity of one block: same blockhash, different blockhashes, expiry of either, forks |
| `submission_expired` | violation of `ExpiredMeansNotSettled` | one call, heights 0 to 3, no forks |
| `spend_one_process` | `OvershootBounded`, `NoLostRecord` | Two payments under way at a time, two days, a journal that keeps one day (30 in the code), amounts up to one above the cap, payments that are one transaction |
| `spend_two_processes` | `JournalNeverOverstates` | Two processes, crashes, `init_user`; three units in all, and two (`MaxAgain`) for payments that are one transaction |
| `paywall` | `ReferenceUsedOnce`, `ServedIsSettled` | Two requests, two instances, two blockhashes, funds for two charges; requests and instances are symmetric |
| `paywall_price` | violation of `PricePerRequest` | two requests on one blockhash |
| `client` | `OnlyPayable`, `TopUpUsable`, `DepositRecorded`, `DebitedAsAsked` | A wallet with a User, by CLI; a key that may get a session token for that User, in a page whose wallet changes; a merchant by MCP server, another by SDK that both deny and one allows; two topUps at a time, which are symmetric, of one unit; two tokens in the wallet, so that one may be set aside while the other moves, and both topUps deposit or share a deposit, once (`MaxAgain`). The page's key has no tokens, so that what its page would take from a wallet is another's; deposits from several wallets are left to the proofs |
| `credit` | `Conserved`, `ChargedWithinHold`, `KeepsLedger`, `EveryHoldSettled` | Two completions on one account, one on another; holds and costs up to 2 with costs above and below the hold; two attempts to read a cost (8 in the code) |
| `checkout` | `ButtonPaysOneAtATime`, `ShownIsAllReserved`, `NeverStuck` | Modal or button, two amounts, three calls at a time: a quote that is late, a payment in flight and a second payment |
| `amounts` | `ExactPrice`, `ChargedAsAsked`, `ChargedWithinLimit`, `ClientsAgree`, `WordIsPayable` | Base 3 (10 in the code), which has a digit that is neither the least nor the greatest; up to three characters before the point and two after it, so that a separator may be first, last, between two digits and in the fraction; tokens of 0, 1 and 2 decimals under each kind of symbol, prices with that symbol or none; 50 as the largest u64, below the largest amount that can be written |
| `prepaid` | `CreditIsPaid`, `CreditIsReachable` | Three runs of one buyer: one that buys, one that buys again or at the same time, one that uses; one or two units, a top-up of one, so that a purchase may cover a use or not; either pair of programs, runs that follow each other or overlap, and break off at every step, that between truncating and writing the file included. Runs are symmetric |

The type invariants also say something of substance where their comments
say so (amounts below caps, accounts not overdrawn, tokens conserved).

Fairness. `Submission` assumes weak fairness of the caller's own steps and of
its clock: a process that runs gets on with its loop, each request
it makes is answered or fails, and sixty seconds pass. Nothing is asked of the
ledger, which may never take a transaction nor move. `OpenRouterCredit` assumes
that each await of the gateway ends, `Checkout` that each quote and payment
does. The other modules have safety properties
only.

Three abstract specifications are implemented; that is proved, and checked as a
PROPERTY by the runs `sessions`, `submission` and `credit`. `ImplementsEscrow`:
with `holding` the sum of a party's accounts and `earmark` the sessions'
`remaining`, every instruction is a step of `Escrow` or changes neither.
`KeepsPromise`: what calls answer and the ledger does is a step of `Settlement`
or does not show in it. `KeepsLedger`, in two modules: both servers of credit
are a `CreditLedger`; for `Prepaid` that is proved only. `OkIsSettled` and
`TypeOK` of `Submission` are parts of its inductive invariant; the run has
`KeepsPromise`, from which the first follows.

## What is proved

For all values of the constants that satisfy the named assumptions (finitely
many accounts and merchants, PDAs without private keys, one PDA per wallet, a
supply of each mint that is a u64 - what SPL guarantees):

- `TypeCorrect`, `ReservationsAccounted`, `ReservationsBacked`, `NoOverflow`
  in `PaymentSessionsProofs`: `Spec => []TypeOK`, `[]Accounted`,
  `[]ReservationBacked` and `[]OverflowUnreachable`.

The argument. `Accounted` alone is not inductive: that a charge's subtraction
from `reserved` matches the one from `remaining` needs that a `UserMint` exists
when something is reserved and that closed sessions hold nothing (both in
`TypeOK` and `Accounted` together); that amounts stay below `U64Max` needs that
balances do (`SupplyFits`: the total of a mint is conserved and fits). The
inductive invariant is `IInv == TypeOK /\ SupplyFits /\ Accounted /\
ReservationBacked`. Why `ReservationBacked` survives a withdrawal from one of
several accounts: the account drawn from must itself cover the whole
reservation both before (`available`) and after, so it becomes the witness.
There is one lemma per instruction; sums are handled by the lemmas of
`TotalsTheorems` (`TotalUpdate`, `TotalBounds`, `TotalSplit`), proved from the
cardinality theorems of the library.

- `DebitsPay`, `MerchantsConfined`, `RentComesBack` and `EscrowImplemented`
  there too: `SessionDebitIsPayment`, `MerchantConfined`, `[]RentAccounted` and
  `ImplementsEscrow`; and `EarmarksAreCovered`, `[]Covered` of `Escrow`.

The argument. A holding is a sum over all accounts of a party; `HoldingUpdate`
says what one transfer does to it, for the same party on both sides too, and
`ChargeEffect` what a charge does. Rent is counted before `init_user` as well
(`RentInv`), and its sets of accounts are finite because they grow one at a
time. For the refinement, each instruction is matched with the escrow step it
is: a transfer with `Spend`, `Withdraw` or `Pay`, an opening or a deposit with
an `Earmark` that `Accounted` and `ReservationBacked` show to be covered, a
close with `Release`, everything else with a stutter. `Covered` says of all
sessions and accounts of a user what the program checks of one: `Accounted`
makes the earmarks what is held, `ReservationBacked` finds one account that
covers it, and that account is part of the holding.

- `PromisesCanBeTaken` and `ExitIsOpen` there too: in every reachable state all
  that a session has remaining passes each check of `charge` for its merchant,
  from some account of the User into any of the merchant's, and an open session
  passes each check of `close_session` for the User's wallet.

The argument. `Accounted` puts what a session has remaining inside what is held,
so that its `UserMint` exists when anything remains, and `ReservationBacked`
names the account to charge.

- `SpendTypeCorrect`, `ExcessIsBounded`, `RecordsAreKept` in
  `SpendPolicyProofs`: `Spec => []TypeOK`, `[]OvershootBounded` and
  `[]NoLostRecord`, for any finite set of calls, any caps and any number of
  kept days, under `OneProcess`: the calls share one process, which does not
  die, and `init_user`, which is not checked, does not spend the token. That is
  the setting of the run `spend_one_process`; with two processes
  `NoLostRecord` is false, which is why it is a hypothesis.

The argument. `record` replaces the whole file, so a bound on the file must say
what a running `record` is about to write. `IInv` adds to the properties that
one call records at a time and only it can leave the file truncated
(`OneRecorder`), that days to come have no entry (`FutureEmpty`), and that the
copy about to be written adds one amount to today's entry and completes today's
record (`CopyCurrent`, `JournalCurrent`). `PruneKeepsToday` is why pruning
disturbs none of this. When `check` lets a payment through, the journal and
that payment are within the cap, and the other calls weigh at most `Largest`
each (`OneWeightChanges`, from `TotalAtMost`); after midnight the journal shows
nothing, and the cap itself covers one of the payments in flight.

- `JournalIsModest` in `SpendPolicyProofs`: `[]JournalNeverOverstates`, without
  `OneProcess`: any number of processes on one file, which may crash, unchecked
  payments, and payments that share a transaction. Without `again` in it, it is
  false of payments that share one.

The argument. `NothingInvented` says of the file, and of what each process read
last and added to, that it is at most what has settled or was answered once
more, less what did and is still to be recorded (`Owed`). A lost update, a torn
file and `prune` only take away (`PruneAddsNothing`, from `TotalMonotone`), a
call that breaks off is owed nothing any more, and `record` adds just what was
owed.

- `SubmissionTypeCorrect`, `OkSettled` and `ExpiryIsFinal` in
  `SubmissionProofs`: `[]TypeOK`, `[]OkIsSettled` and `ExpiredIsFinal`, for any
  number of calls and payloads, with or without the expiry check and forks;
  and `PromiseKept`, `Spec => KeepsPromise`: `Submission` implements `Settlement`.

The argument. That an expiry is final needs what the caller had seen of it: the
height it read is past the last block that could hold its transaction
(`ExpiredIsPast`), and heights only grow. The refinement has one case for each
step of a call (`CallStepIsPromised`): most stutter, `SeeSettled` is `Return`
because a status of the right commitment is a settled one, `SeeExpired` is
`Expire`, each error is `Throw`, which may just have sent. Of what the ledger
does only `Confirm` shows, as `Settle` (`LedgerStepIsPromised`): it happens to
what was processed within its heights, so never to what is dead. `Advance` is
`Die`. This is the statement a caller needs, with nothing in it of how the
engine finds out, and it says more than the two properties: that nothing
settles that no call has sent, and that an outcome is never taken back.

- `ReferencesUsedOnce` and `NothingIsFree` in `PaywallProofs`:
  `[]ReferenceUsedOnce` and `[]ServedIsSettled`, for any number of requests,
  users and instances. The only assumption beyond the types of the constants is
  that of the model itself: the ER does not fork. And `ChargesKeepPromise`:
  the charges keep the promise of `Settlement`.

The argument. No two stores have a reference in common (`StoresApart`), and one
that was accepted is in none (`UsedIsGone`). For payments, every step of the
paywall is a step of `Submission` or leaves it alone (`StepIsNetStep`), so what
is proved there holds of its charges; the instance's assumption is
`SubmissionAssumed`. What a session has paid is then the number of its
transactions the rollup has taken (`PaidIsTaken`), and served requests wait for
some of these.

- `CreditTypeCorrect`, `CreditConserved` and `ChargesAreBounded` in
  `OpenRouterCreditProofs`: `[]TypeOK`, `[]Conserved` and `[]ChargedWithinHold`,
  for any finite sets of accounts and completions; and `HoldsKeepLedger`,
  `Spec => KeepsLedger`: the gateway implements `CreditLedger`.

The argument. What a completion has locked is its hold exactly while it waits
for OpenRouter or for the cost, and nothing otherwise (`LockIsHold`). So when it
ends, what `settle` gives back and charges is what was locked, and no other
completion of the account is touched (`MoneyStep`). For the refinement,
`Conserved` makes the abstract credit what the account was credited with
(`Balanced`), so no step of a completion changes it, and each either charges
nothing, a stutter, or a debit within its hold (`JobCharges`). That such a debit
is within the credit follows from `Conserved` after the step: what remains and
what is held are not negative. A top-up is `Accept`, once, because of `seen`.

- `ClientTypeCorrect`, `OnlyPayableIsPaid`, `TopUpsAreUsable`,
  `DepositsAreRecorded` and `WalletsDebitedAsAsked` in `ClientProofs`:
  `Spec => []TypeOK`, `[]OnlyPayable`, `[]TopUpUsable`, `[]DepositRecorded` and
  `DebitedAsAsked`; and `ClientRunsSessions` and `ClientKeepsEscrow`: the client
  implements the specification of `PaymentSessions`, and so its escrow. They
  hold for any finite set of keys, any wallets among them with any funds, any
  front ends, deny and allow lists, any number of topUps under way, and any
  wallets that a page is connected to. `ClientAssumption` asks for what the
  derivation of addresses gives (no User PDA is a key), that session tokens are
  for Users and for keys with a wallet, and that merchants have an eATA. One
  mint, no rent and no caps, as in the module.

The argument. The first half says that whatever the SDK does is a step of the
program or leaves the program alone (`StepIsSessionsStep`), on accounts that
the client derives and in amounts that the supply bounds. The assumptions of
`PaymentSessionsProofs` hold for such accounts (`SessionsAssumed`), so its
invariant holds as well and need not be proved again. The second half adds
what the client knows. `TopUpUsable` is not inductive: that the eATA is
delegated when a topUp returns was established two transactions earlier, when
the delegation landed or its record was seen, and `CallsSeeDelegation` says so
of every step in between; it stays true because nothing undelegates.
That also holds for a call that was answered by the transaction of another,
because what it does was done then and has stayed so (`LandedIsDone`).
`DepositRecorded` is an equation between the ledger, the journal and the calls
that have landed (`Unrecorded`); each step of a topUp moves its units from one
term to another (`BooksStep`), a shared deposit adds them to both sides
(`again`), and `MethodEffect`, which sums up what every
other method may do, leaves wallets alone. `OnlyPayable` needs both: a charge
is paid because something was set aside, and that was set aside by someone who
acts for the User and whose lists let it through.

- `PrepaidTypeCorrect`, `CreditsArePaid` and `CreditsAreReachable` in
  `PrepaidProofs`: `[]TypeOK`, `[]CreditIsPaid` and `[]CreditIsReachable`, for
  any finite set of runs, any amounts and both pairs of programs; and
  `UsesKeepLedger`, `Spec => KeepsLedger`: the server implements `CreditLedger`.

The argument. What was credited is what the receipts are worth that the server
has seen (`CreditIsAccepted`). That a receipt is worth what its run asks for
(`Receipts`) survives a session being opened because that is paid under a name
that nobody holds a receipt for yet: each run pays once in each of its two tries
(`Unpaid`). For `CreditIsReachable`, one run at a time is under way, and all
that has got past saving its name, and what it has left behind, works on the
account in the file or, while that is truncated, on the account of the run that
is about to write it (`Following`, with `Kept`); there is one such run, and it
took the name from the file before it truncated it. For the refinement only
`TopUp` and `Serve` touch an account (`OtherStepIsSilent`); they are `Accept`
and `Spend` as for the gateway, with a price that is offered because a run that
was started has an amount (`PriceIsOffered`).

Only model-checked. Liveness (`EveryCallReturns`, `EveryHoldSettled`,
`NeverStuck`) and the two ENABLED invariants (`CloseAlwaysPossible`,
`ChargeAlwaysPossible`) are beyond the prover; of the latter, `ExitIsOpen` and
`PromisesCanBeTaken` prove the instructions' checks, and TLC shows that nothing
else stands in their way. So is what `Amounts` says of
texts, which takes induction over their digits. The properties of `Checkout`
are left to TLC: a page has a handful of calls, which the run covers. That an
abstract specification is implemented is a statement about safety: none of the
three asks for progress.

## Where the code and its words differ

Shown by runs:

1. `submission_expired`: "It did not settle." may be said of a transaction
   that was confirmed between the status read and the height read
   (`engine.ts:124`, `142`).
2. `paywall_price`: two requests of one user charged on the same blockhash are
   one transaction; both are served, one price is paid.

Seen while modelling, without a run of their own:

- "Records settled spend against the daily cap. Call only after a payment lands"
  (`policy.ts:183`). Two equal payments on one blockhash are one transaction for
  the SDK's own calls too: one is paid, both calls return and both are recorded
  (`client.ts:502`, `503`), so that the cap refuses payments it has room for.
  `JournalNeverOverstates` and `DepositRecorded` say that nothing else makes the
  journal show too much.
- "if the cost cannot be read, the hold is kept"
  (`examples/openrouter/README.md:5`): a `fetch` that rejects inside
  `openRouterCost` makes `settle` throw, and the `catch` at `server.ts:217` gives
  the hold back (`PricingThrows`).
- The CLI's `--authority` is for "when signer is a session key" (`cli.ts:25`),
  but neither the CLI nor the MCP server passes a session token, so the program
  refuses what such a key sends to the rollup. Its `top-up` fails at the last
  transaction, after the deposit: the tokens are the User's by then.
- `topUp` reads the delegation record at the RPC's default commitment and waits
  for its transactions at "confirmed": a second `topUp` shortly after the first
  may not see the record, delegate again, be refused and throw, its deposit made.
- A `topUp` that breaks off between the deposit and the delegation leaves tokens
  in an eATA that the rollup does not know. Only another `topUp` delegates it,
  and that takes at least one more unit from the wallet.
- `topUp` is checked under the name of the wallet whose User is topped up: a
  policy with an allow list must list its own wallet.
- `openSession` with no amount is not checked; a session with a denied merchant
  may exist, and stays empty (`OnlyPayable`).

- The design says deposit creates the `UserMint` if needed
  (`docs/plans/2026-09-07-payment-sessions-design.md:44`); the instruction
  requires it (`lib.rs:346`). A session opened with amount 0 takes no deposit
  until `ensure_user_mint` or a funded `open_session` of another session.
- `PayModal` shows the quote that answered last, perhaps of another amount than
  the one Confirm pays, and a quote that answers while a payment is in flight
  enables Confirm again. `ShownIsAllReserved` holds because the program refuses
  the second session.
- `payingFetch` reads `maxPrice` in the token of the challenge, whatever symbol
  it was written with (`x402/src/index.ts:223`): a limit of "0.05 USDC" allows
  0.05 of any token that is asked for.
- `OvershootBounded` is tight: with N calls under way the "Rolling UTC-day
  ceiling" (`policy.ts:6`) can be exceeded by N - 1 largest payments, and a
  payment that settles after its call gave up is never recorded.
- Two processes that share a journal lose records (`policy.rs:65` says
  "shared across processes"), and a crash between truncating and writing it
  loses the day (`README.md:221` says it "survives restarts"). In
  `spend_two_processes` both happen; what holds is `JournalNeverOverstates`.
- The threads of a Rust program that share a `Policy` are as two processes:
  `record` reads and writes the journal under two separate locks
  (`policy.rs:158`, `169`).
- Caps are kept by the upper-case symbol (`amounts.ts:82`) and looked up by the
  token's own (`policy.ts:203`): the symbol of an unlisted mint, six characters
  of its address, has no cap that could be written, whatever the message of
  `capFor` advises, and such payments are refused while any cap is set.
- `initUser` is not checked against the policy (`README.md:220`).
- `status.err` is final for `confirmSignature` at any commitment
  (`engine.ts:127`); on a ledger with forks it is not, and a transaction that was
  reported as failed may settle. `Settlement` allows this of a throw.
- `verify` charges by the text in `display`, and `parseMoney` reads a text only
  if its symbol is a letter followed by letters and digits (`amounts.ts:39`).
  Nobody can pay in a token with another symbol, whatever the price. The symbol
  of a mint that is not listed is the first six characters of its address
  (`engine.ts:207`), which may start with a digit, although a token that is not
  listed "still works" (`amounts.ts:12`); and `HYPERPAY_TOKENS` takes any symbol
  (`client.ts:551`), USDC.E for one. `WordIsPayable` shows that with a word as
  its symbol every price can be read back.
- The Rust client takes away all separators before it looks at a text
  (`amounts.rs:46`), TypeScript wants a digit first and none behind the point
  (`amounts.ts:39`): ",5" and "1.234,56" are 5 and 1.23456 for Rust and refused
  by TypeScript. So are "5.", which is 5, and a symbol that is no word.
  `ClientsAgree` shows that these are the only differences, and that no text is
  two amounts.
- Credit is bought by `openSession` (`metered/client.ts:69`,
  `openrouter/client.ts:72`), which the program refuses while the session of an
  earlier purchase is open: the second purchase, and what the gateway's client
  does after a 402, fail until the user closes the session with another tool.
- Neither server charges. Closing the session gives everything back to the
  user, and the credit stays. `CreditIsPaid` is about what the session was
  opened with, not about what the merchant received.
- The metered client writes the account's name to its file after `/topup`
  (`client.ts:73`). A first run that breaks off in between has paid for credit
  that no later run finds. The gateway's client writes it first, which is why
  `CreditIsReachable` holds for it, when runs do not overlap: two first runs at
  the same time make up two names, and one is overwritten.
- The gateway's client rewrites that file on every run
  (`openrouter/client.ts:29`), and a run that is killed between truncating and
  writing it (`141`) leaves one that reads as none: the next run makes up a new
  account, and the credit of the old one is lost. `CreditIsReachable` shows that
  a run may break off anywhere else.
- The comment of `MemoryChallengeStore` fears a replay on another instance; the
  other instance does not know the reference and refuses it
  (`ReferenceUsedOnce` holds with two instances). What happens instead is that
  an honest proof is refused there.

## What is not modelled

Byte layouts, address derivation, key loading, the parsing of arguments, the
site, version and documentation scripts and styling: no state, no order of
events. `TokenResolver` caches immutable data. `useBalance` polls a read. That a
paywall's request is answered is `EveryCallReturns` of the charge it waits for
and no property of its own. Error texts are left out everywhere, except where a
property quotes one.

## Plan

Order: program, submission, policy, paywall, gateway, checkout, amounts,
prepaid credit, client (done), then

1. The texts of receipts: `payment.amount` is written by the client and read by
   the gateway, each with its own token.
2. Proofs: `ShownIsAllReserved` and `ButtonPaysOneAtATime` of `Checkout`.
