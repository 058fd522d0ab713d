--------------------------- MODULE MCVendorPayouts ---------------------------
(* Model-checking instances of VendorPayouts.                                 *)
EXTENDS VendorPayoutProperties, TLC

Workers == Permutations(Worker)
==============================================================================
