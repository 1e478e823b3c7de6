------------------------------ MODULE Checkout ------------------------------
(***************************************************************************)
(* The payment state of a browser page: usePay (packages/react/src/        *)
(* hooks.ts) under PayModal or PayButton (packages/react/src/components).  *)
(* Quotes and payments are asynchronous calls; their answers set the       *)
(* state of the hook whenever they arrive, also after the modal was        *)
(* closed, opened again, or shown for another amount.                      *)
(*                                                                         *)
(* A payment is openSession of the client, for one merchant: the program   *)
(* opens the session if it is not open, and the call may report an error   *)
(* although its transaction settles (see Submission).                      *)
(***************************************************************************)
EXTENDS Naturals, FiniteSets

CONSTANTS
    Amounts,   \* values of the amount property
    NoAmount,
    Calls      \* bound on calls that are in flight at one time

ASSUME CheckoutAssumption == NoAmount \notin Amounts /\ IsFiniteSet(Calls)

VARIABLES
    modal,     \* PayModal, or else PayButton
    isOpen,    \* property open of PayModal
    amount,    \* property amount
    status,    \* usePay: "idle", "quoting", "paying", "success" or "error"
    quote,     \* usePay: the amount of quote
    payment,   \* usePay: the amount of payment
    kind,      \* a call: "none", "quoting", "paying", "landed" or "adrift"
    units,     \* the amount a call was made with
    session    \* amounts of the sessions that the program has opened

props == <<modal, isOpen, amount>>
hook == <<status, quote, payment>>
calls == <<kind, units>>
vars == <<props, hook, calls, session>>

Init ==
    /\ modal \in BOOLEAN
    /\ isOpen = ~modal
    /\ amount \in Amounts
    /\ status = "idle"
    /\ quote = NoAmount
    /\ payment = NoAmount
    /\ kind = [c \in Calls |-> "none"]
    /\ units = [c \in Calls |-> NoAmount]
    /\ session = {}
-----------------------------------------------------------------------------
Busy == status \in {"quoting", "paying"}

Disabled_ByQuotes == status = "quoting"

(* Confirm is also disabled after a success, the button of PayButton not.  *)
Disabled == Busy \/ (modal /\ status = "success")

CanOpen_Again == TRUE

(* open_session refuses a session that is open. *)
CanOpen == session = {}

Start(c, k, a) ==
    /\ kind[c] = "none"
    /\ kind' = [kind EXCEPT ![c] = k]
    /\ units' = [units EXCEPT ![c] = a]

Forget(c) ==
    /\ kind' = [kind EXCEPT ![c] = "none"]
    /\ units' = [units EXCEPT ![c] = NoAmount]

(* usePay: preview *)
Preview(c, a) ==
    /\ Start(c, "quoting", a)
    /\ status' = "quoting"
    /\ UNCHANGED <<quote, payment>>

(* usePay: reset *)
Reset ==
    /\ status' = "idle"
    /\ quote' = NoAmount
    /\ payment' = NoAmount
    /\ UNCHANGED calls
-----------------------------------------------------------------------------
(* The effect of PayModal runs when a property has changed; a parent that  *)
(* builds its options anew changes one each time it renders.               *)

Open(c) ==
    /\ modal /\ ~isOpen
    /\ isOpen' = TRUE
    /\ Preview(c, amount)
    /\ UNCHANGED <<modal, amount, session>>

Close ==
    /\ modal /\ isOpen
    /\ isOpen' = FALSE
    /\ Reset
    /\ UNCHANGED <<modal, amount, session>>

Rerender(c, a) ==
    /\ amount' = a
    /\ IF ~modal THEN UNCHANGED <<hook, calls>>
       ELSE IF isOpen THEN Preview(c, a) ELSE Reset
    /\ UNCHANGED <<modal, isOpen, session>>

(* A click on Confirm, or on the button. *)
Click(c) ==
    /\ isOpen
    /\ ~Disabled
    /\ Start(c, "paying", amount)
    /\ status' = "paying"
    /\ UNCHANGED <<quote, payment, props, session>>
-----------------------------------------------------------------------------
(* quote reads the chain and checks the policy, or throws. *)
QuoteAnswers(c) ==
    /\ kind[c] = "quoting"
    /\ Forget(c)
    /\ quote' = units[c]
    /\ status' = "idle"
    /\ UNCHANGED <<payment, props, session>>

ErrorStatus_Kept == status

ErrorStatus == "error"

QuoteThrows(c) ==
    /\ kind[c] = "quoting"
    /\ Forget(c)
    /\ status' = ErrorStatus
    /\ UNCHANGED <<quote, payment, props, session>>

(* The rollup takes the transaction, for a caller that may be gone ... *)
Land(c) ==
    /\ kind[c] \in {"paying", "adrift"}
    /\ CanOpen
    /\ session' = session \cup {<<c, units[c]>>}
    /\ IF kind[c] = "paying"
       THEN kind' = [kind EXCEPT ![c] = "landed"] /\ UNCHANGED units
       ELSE Forget(c)
    /\ UNCHANGED <<hook, props>>

(* ... or never will. *)
Vanish(c) ==
    /\ kind[c] = "adrift"
    /\ Forget(c)
    /\ UNCHANGED <<hook, props, session>>

PaymentReturns(c) ==
    /\ kind[c] = "landed"
    /\ Forget(c)
    /\ payment' = units[c]
    /\ status' = "success"
    /\ UNCHANGED <<quote, props, session>>

PaymentThrows(c) ==
    /\ kind[c] \in {"paying", "landed"}
    /\ IF kind[c] = "paying"
       THEN kind' = [kind EXCEPT ![c] = "adrift"] /\ UNCHANGED units
       ELSE Forget(c)
    /\ status' = ErrorStatus
    /\ UNCHANGED <<quote, payment, props, session>>
-----------------------------------------------------------------------------
QuoteEnds(c) == QuoteAnswers(c) \/ QuoteThrows(c)

PaymentEnds(c) == PaymentReturns(c) \/ PaymentThrows(c)

Next ==
    \/ Close
    \/ \E c \in Calls :
          \/ Open(c) \/ Click(c)
          \/ \E a \in Amounts : Rerender(c, a)
          \/ QuoteEnds(c) \/ PaymentEnds(c)
          \/ Land(c) \/ Vanish(c)

Spec == Init /\ [][Next]_vars

(* Every call that is made returns or throws: signAndSubmit does (see      *)
(* EveryCallReturns of Submission).  Nothing is asked of the user.         *)
FairSpec == Spec /\ \A c \in Calls : WF_vars(QuoteEnds(c)) /\ WF_vars(PaymentEnds(c))
-----------------------------------------------------------------------------
InFlight == {c \in Calls : kind[c] \in {"paying", "landed"}}

(* "disables the button while a payment is in flight" (react.test.tsx):    *)
(* PayButton never has two, and shows that it has one, whatever its props  *)
(* become in the meantime.                                                 *)
ButtonPaysOneAtATime ==
    ~modal => /\ Cardinality(InFlight) <= 1
              /\ InFlight # {} <=> status = "paying"

(* The modal forgets a payment that is in flight when it is closed, when a *)
(* quote arrives or a property changes, and lets the user confirm again.   *)
(* Still, when it shows a payment as settled, that payment is all that has *)
(* been set aside for the merchant, of all that the user confirmed: the    *)
(* session is open already when a second payment reaches the program.      *)
ShownIsAllReserved ==
    status = "success" => \E c \in Calls : session = {<<c, payment>>}

(* The user gets the buttons back after every quote and payment, those     *)
(* that throw included, in whatever order they end: the page does not say  *)
(* it is busy when no call is out.                                         *)
NeverStuck == Busy ~> ~Busy
=============================================================================
