-------------------------- MODULE PayoutObligation --------------------------
(***************************************************************************)
(* What the platform promises about one vendor's share of a payment: at    *)
(* most one transfer is made for it, it is settled by that transfer or     *)
(* extinguished by a refund, never both, and neither is ever undone.       *)
(***************************************************************************)
EXTENDS Naturals

VARIABLES transfers, settled, extinguished

Init == transfers = 0 /\ settled = FALSE /\ extinguished = FALSE

Open == ~settled /\ ~extinguished

Transfer ==
  /\ Open /\ transfers = 0
  /\ transfers' = 1
  /\ UNCHANGED <<settled, extinguished>>

Settle ==
  /\ Open /\ transfers = 1
  /\ settled' = TRUE
  /\ UNCHANGED <<transfers, extinguished>>

Extinguish ==
  /\ Open
  /\ extinguished' = TRUE
  /\ UNCHANGED <<transfers, settled>>

Next == Transfer \/ Settle \/ Extinguish

Spec == Init /\ [][Next]_<<transfers, settled, extinguished>>
=============================================================================
