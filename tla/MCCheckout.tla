----------------------------- MODULE MCCheckout -----------------------------
(* Model-checking instance of Checkout: one guest, one item. *)
EXTENDS CheckoutProperties
=============================================================================
