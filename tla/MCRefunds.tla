------------------------------ MODULE MCRefunds ------------------------------
(* Model-checking instances of Refunds: two vendor orders of one cent each. *)
EXTENDS RefundProperties, TLC

CONSTANTS v1, v2

Totals == v1 :> 1 @@ v2 :> 1
==============================================================================
