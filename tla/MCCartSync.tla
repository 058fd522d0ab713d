----------------------------- MODULE MCCartSync -----------------------------
(* Model-checking instances of CartSync: a plain item and one with options. *)
EXTENDS CartSyncProperties
=============================================================================
