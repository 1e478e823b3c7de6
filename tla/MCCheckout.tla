----------------------------- MODULE MCCheckout -----------------------------
(* An instance of Checkout for TLC. *)
EXTENDS Checkout

CONSTANTS c1, c2, c3, low, high
=============================================================================
