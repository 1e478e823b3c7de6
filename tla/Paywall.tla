------------------------------ MODULE Paywall ------------------------------
(***************************************************************************)
(* The merchant half of HTTP 402 (packages/x402/src/index.ts): challenges, *)
(* their single-use store, and the charge of the user's session that lets  *)
(* a request through.                                                      *)
(*                                                                         *)
(* A request's charge is a call of Submission, and its payload is the user *)
(* alone: all requests of a paywall have one price, and a charge carries   *)
(* neither the reference nor anything else of the request.                 *)
(***************************************************************************)
EXTENDS Naturals, FiniteSets

CONSTANTS
    Requests,   \* requests, each first without and then with a proof
    Users,
    UserOf,     \* who a request's proof names
    Servers,    \* instances behind one address, each with a store of its own
    NoServer,
    Funds,      \* charges that a user's session has remaining at first
    MaxHeight, ValidFor, ExpiryCheck   \* see Submission

ASSUME PaywallAssumption ==
    /\ IsFiniteSet(Requests)
    /\ UserOf \in [Requests -> Users]
    /\ NoServer \notin Servers
    /\ Funds \in [Users -> Nat]
    /\ MaxHeight \in Nat /\ ValidFor \in Nat /\ ExpiryCheck \in BOOLEAN

VARIABLES
    issued,     \* references are 1, 2, ..., issued
    stale,      \* references 1 .. stale are past expiresAt
    store,      \* MemoryChallengeStore.entries, of an instance
    phase,      \* where a request stands, in the end "served", "refused" or "dropped"
    home,       \* the instance that verifies a request
    ref,        \* the reference a request was accepted with
    remaining,  \* charges a user's session can still pay
    paid,       \* history: charges a user's session has paid
    height, status, pc, blockhash, checks, late   \* see Submission

netVars == <<height, status, pc, blockhash, checks, late>>
shopVars == <<issued, stale, store, phase, home, ref>>
bankVars == <<remaining, paid>>
vars == <<shopVars, bankVars, netVars>>

(* The rollup has one sequencer: what it has processed stays. *)
Net == INSTANCE Submission WITH
    Calls <- Requests, Payloads <- Users, Payload <- UserOf, Forks <- FALSE

Init ==
    /\ issued = 0
    /\ stale = 0
    /\ store = [s \in Servers |-> {}]
    /\ phase = [r \in Requests |-> "new"]
    /\ home = [r \in Requests |-> NoServer]
    /\ ref = [r \in Requests |-> 0]
    /\ remaining = Funds
    /\ paid = [u \in Users |-> 0]
    /\ Net!Init
-----------------------------------------------------------------------------
(* put adds an entry and sweeps out the expired ones. *)
Put(entries, x) == {y \in entries \cup {x} : y > stale}

(* take removes the entry, and gives it back if it has not expired. *)
Taken_Kept(entries, x) == entries

Taken(entries, x) == entries \ {x}

Valid(s, x) == x \in store[s] /\ x > stale

Paid_OrLate(outcome) == outcome \in {"ok", "timeout"}

Paid(outcome) == outcome = "ok"

Thrown(outcome) == outcome \in Net!Outcomes \ {"ok"}

Answer(r, p) == phase' = [phase EXCEPT ![r] = p]

(* A new challenge, in the 402 that answers a request. *)
Challenge(s, entries) ==
    /\ issued' = issued + 1
    /\ store' = [store EXCEPT ![s] = Put(entries, issued + 1)]
-----------------------------------------------------------------------------
Ask(r, s) ==
    /\ phase[r] = "new"
    /\ Answer(r, "challenged")
    /\ Challenge(s, store[s])
    /\ UNCHANGED <<stale, home, ref, bankVars, netVars>>

(* A request comes back with a proof: with its own reference or, when it   *)
(* was sent twice, with that of another; to any instance.                  *)
Accept(r, s, x) ==
    /\ phase[r] = "challenged"
    /\ Valid(s, x)
    /\ store' = [store EXCEPT ![s] = Taken(@, x)]
    /\ home' = [home EXCEPT ![r] = s]
    /\ ref' = [ref EXCEPT ![r] = x]
    /\ Answer(r, "charging")
    /\ UNCHANGED <<issued, stale, bankVars, netVars>>

Refuse(r, s, x) ==
    /\ phase[r] = "challenged"
    /\ ~Valid(s, x)
    /\ Challenge(s, Taken(store[s], x))
    /\ Answer(r, "refused")
    /\ UNCHANGED <<stale, home, ref, bankVars, netVars>>

Serve(r) ==
    /\ phase[r] = "charging"
    /\ Paid(pc[r])
    /\ Answer(r, "served")
    /\ UNCHANGED <<issued, stale, store, home, ref, bankVars, netVars>>

(* charge threw: verify reports it, and a new challenge goes out. *)
ChargeFailed(r) ==
    /\ phase[r] = "charging"
    /\ Thrown(pc[r])
    /\ Challenge(home[r], store[home[r]])
    /\ Answer(r, "refused")
    /\ UNCHANGED <<stale, home, ref, bankVars, netVars>>

(* ttlMs is the same for all challenges: they expire in order. *)
Expire ==
    /\ stale < issued
    /\ stale' = stale + 1
    /\ UNCHANGED <<issued, store, phase, home, ref, bankVars, netVars>>

(* An instance restarts with an empty store; its requests are cut off.     *)
Restart(s) ==
    /\ store[s] # {} \/ \E r \in Requests : phase[r] = "charging" /\ home[r] = s
    /\ store' = [store EXCEPT ![s] = {}]
    /\ phase' = [r \in Requests |->
                    IF phase[r] = "charging" /\ home[r] = s THEN "dropped" ELSE phase[r]]
    /\ UNCHANGED <<issued, stale, home, ref, bankVars, netVars>>
-----------------------------------------------------------------------------
(* hp.charge of a request, while its instance lives. *)
ChargeStep(r) ==
    /\ phase[r] = "charging"
    /\ Net!CallStep(r)
    /\ UNCHANGED <<shopVars, bankVars>>

ChargeThrows(r) ==
    /\ phase[r] = "charging"
    /\ Net!Throw(r)
    /\ UNCHANGED <<shopVars, bankVars>>

ChargeDeadline(r) ==
    /\ phase[r] = "charging"
    /\ Net!Deadline(r)
    /\ UNCHANGED <<shopVars, bankVars>>

(* The session program on the rollup: a charge moves the price or fails,   *)
(* and the user may close the session at any time.                         *)
ChargeLands(t) ==
    LET u == t[1]
    IN  /\ Net!Process(t)
        /\ remaining[u] > 0
        /\ remaining' = [remaining EXCEPT ![u] = @ - 1]
        /\ paid' = [paid EXCEPT ![u] = @ + 1]
        /\ UNCHANGED shopVars

ChargeReverts(t) ==
    /\ Net!Revert(t)
    /\ remaining[t[1]] = 0
    /\ UNCHANGED <<shopVars, bankVars>>

CloseSession(u) ==
    /\ remaining[u] > 0
    /\ remaining' = [remaining EXCEPT ![u] = 0]
    /\ UNCHANGED <<paid, shopVars, netVars>>

Ledger ==
    /\ Net!Advance \/ \E t \in Net!Transactions : Net!Confirm(t) \/ Net!ConfirmError(t)
    /\ UNCHANGED <<shopVars, bankVars>>
-----------------------------------------------------------------------------
Verdict(r) == Serve(r) \/ ChargeFailed(r)

Next ==
    \/ \E r \in Requests, s \in Servers :
          \/ Ask(r, s)
          \/ \E x \in 1 .. issued : Accept(r, s, x) \/ Refuse(r, s, x)
    \/ \E r \in Requests :
          Verdict(r) \/ ChargeStep(r) \/ ChargeThrows(r) \/ ChargeDeadline(r)
    \/ Expire
    \/ \E s \in Servers : Restart(s)
    \/ \E t \in Net!Transactions : ChargeLands(t) \/ ChargeReverts(t)
    \/ \E u \in Users : CloseSession(u)
    \/ Ledger

Spec == Init /\ [][Next]_vars
-----------------------------------------------------------------------------
Served == {r \in Requests : phase[r] = "served"}

(* A reference buys one request: neither a replay, nor two requests that   *)
(* are verified at the same time, nor a second instance, nor a restart     *)
(* lets a second one start a charge on it.                                 *)
ReferenceUsedOnce ==
    \A r, q \in Requests : ref[r] # 0 /\ ref[r] = ref[q] => r = q

(* Nothing is served for free: the session of the user behind a served     *)
(* request has paid for each transaction that served requests wait on, and *)
(* a charge that timed out or was cut off counts for nothing.              *)
ServedIsSettled ==
    \A u \in Users :
        LET mine == {r \in Served : UserOf[r] = u}
        IN  /\ \A r \in mine : status[Net!Tx(r)] = "confirmed"
            /\ Cardinality({Net!Tx(r) : r \in mine}) <= paid[u]

(* "Price per request": a user pays for each request that is served.       *)
PricePerRequest ==
    \A u \in Users :
        Cardinality({r \in Served : UserOf[r] = u}) <= paid[u]
=============================================================================
