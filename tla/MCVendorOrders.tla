--------------------------- MODULE MCVendorOrders ---------------------------
(* Model-checking instances of VendorOrders: two vendor orders, whose vendors *)
(* route their orders in the modes a run is about.                            *)
EXTENDS VendorOrderProperties, TLC

CONSTANTS v1, v2

Workers == Permutations(Worker)

MCDeliverect == v1 :> "deliverect"
MCSquare     == v1 :> "square"
MCManual     == v1 :> "manual_dashboard" @@ v2 :> "manual_dashboard"
MCMixed      == v1 :> "deliverect" @@ v2 :> "manual_dashboard"
MCTwoPos     == v1 :> "deliverect" @@ v2 :> "deliverect"
MCPosMix     == v1 :> "deliverect" @@ v2 :> "square"
MCSquareMix  == v1 :> "square" @@ v2 :> "manual_dashboard"
=============================================================================
