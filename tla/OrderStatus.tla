---------------------------- MODULE OrderStatus ----------------------------
(***************************************************************************)
(* The pure rules of an order's life: how a parent order's status follows *)
(* from its vendor orders, which transitions a person may ask for, and    *)
(* how a POS report is merged into a vendor order.  No state lives here;  *)
(* VendorOrders.tla runs these rules inside the request handlers.         *)
(***************************************************************************)
EXTENDS Integers, FiniteSets

RoutingStatus     == {"pending", "sent", "confirmed", "failed"}
FulfillmentStatus == {"pending", "accepted", "preparing", "ready", "completed",
                      "cancelled"}
ParentOrderStatus == {"pending_payment", "paid", "routing", "routed_partial",
                      "routed", "accepted", "preparing", "ready", "in_progress",
                      "partially_completed", "completed", "cancelled", "failed"}

\* "none" is a NULL column; "dma" is declared by the schema and never written.
Authority   == {"none", "pos", "dma", "vendor_manual", "admin_override"}
RoutingMode == {"manual_dashboard", "deliverect", "square"}
Target      == (RoutingStatus \cup FulfillmentStatus) \ {"pending"}

Active   == {"accepted", "preparing", "ready"}
Terminal == {"completed", "cancelled"}

\* lib/order-terminal-status.ts: no further fulfillment update expected.
TerminalOrderStatus == {"completed", "partially_completed", "cancelled", "failed"}

\* The patch entry of a column an update leaves alone.
Keep     == "keep"
NoChange == [routing |-> Keep, fulfillment |-> Keep]
Patched(patch, old) == IF patch = Keep THEN old ELSE patch

FULFILLMENT_RANK == [pending |-> 0, accepted |-> 1, preparing |-> 2, ready |-> 3,
                     completed |-> 4, cancelled |-> 100]

-----------------------------------------------------------------------------
(* The parent's status.  kids is a function from the order's vendor orders *)
(* to records with a routing and a fulfillment field.                      *)

Fulfilled(kids, states) == {v \in DOMAIN kids : kids[v].fulfillment \in states}
Routed(kids, states)    == {v \in DOMAIN kids : kids[v].routing \in states}

\* Some vendor order is past routing: its kitchen said something, or the
\* hand-off failed.  The source's tests run in this order.
OutcomeStatus(kids) ==
  LET all       == DOMAIN kids
      completed == Fulfilled(kids, {"completed"})
      cancelled == Fulfilled(kids, {"cancelled"})
      failed    == Routed(kids, {"failed"})
      active    == Fulfilled(kids, Active)
      waiting   == Fulfilled(kids, {"pending"}) \ failed
  IN  IF completed = all THEN "completed"
      ELSE IF cancelled = all THEN "cancelled"
      ELSE IF completed # {} /\ Fulfilled(kids, Terminal) = all THEN "completed"
      ELSE IF completed = {} /\ Cardinality(failed) + Cardinality(cancelled)
                                  = Cardinality(all)
      THEN "failed"
      ELSE IF completed # {} /\ cancelled \cup failed # {} THEN "partially_completed"
      ELSE IF active \cup waiting = {} THEN "failed"
      ELSE IF active # {} /\ waiting = {} /\ active = Fulfilled(kids, {"ready"})
      THEN "ready"
      ELSE "in_progress"

RoutingOutcome(kids) ==
  IF Routed(kids, {"sent", "confirmed"}) # DOMAIN kids THEN "routing"
  ELSE IF Routed(kids, {"sent"}) # {} THEN "routed_partial"
  ELSE "routed"

deriveParentStatusFromChildren(kids) ==
  IF DOMAIN kids = {} THEN "routing"
  ELSE IF Routed(kids, {"failed"}) = DOMAIN kids THEN "failed"
  ELSE IF Routed(kids, {"failed"}) # {} \/ Fulfilled(kids, {"pending"}) # DOMAIN kids
  THEN OutcomeStatus(kids)
  ELSE RoutingOutcome(kids)

\* A vendor order that failed to route but that an administrator confirmed by
\* hand: known by its recovery column or by its recovery history row.
isVendorOrderManuallyRecovered(r, f, recovered, logged) ==
  f # "pending" /\ r \in {"failed", "pending"} /\ (recovered \/ logged)

isVendorReceiptConfirmed(r, f, recovered, logged) ==
  r = "confirmed" \/ isVendorOrderManuallyRecovered(r, f, recovered, logged)

getEffectiveChildState(r, f, recovered, logged) ==
  [routing |-> IF isVendorOrderManuallyRecovered(r, f, recovered, logged)
               THEN "confirmed" ELSE r,
   fulfillment |-> f]

-----------------------------------------------------------------------------
(* Transitions a person asks for.                                          *)

Predecessor == [preparing |-> "accepted", ready |-> "preparing", completed |-> "ready"]

validateTransition(r, f, target, source, receiptConfirmed) ==
  LET adminCancel   == source = "admin" /\ target = "cancelled"
      adminRecovery == source = "admin_manual_recovery" /\ target = "accepted"
      routingOk     == receiptConfirmed \/ r # "pending"
  IN  IF r = "failed" /\ f = "pending" THEN adminCancel \/ adminRecovery
      ELSE /\ f \notin Terminal
           /\ \/ target = "sent" /\ r = "pending"
              \/ target = "confirmed" /\ r \in {"pending", "sent"}
              \/ target = "failed" /\ ~(r = "confirmed" /\ f # "pending")
              \/ adminRecovery /\ r \in {"failed", "pending"}
              \/ target = "accepted" /\ r \in {"confirmed", "sent"} /\ f = "pending"
              \/ target \in DOMAIN Predecessor /\ routingOk /\ f = Predecessor[target]
              \/ adminCancel
              \/ target = "cancelled" /\ f \in {"pending", "accepted"}

\* Mutant: every target is taken for a fulfillment status.
targetToUpdateOneColumn(target) == [routing |-> Keep, fulfillment |-> target]

targetToUpdate(target) ==
  IF target \in RoutingStatus THEN [routing |-> target, fulfillment |-> Keep]
                              ELSE [routing |-> Keep, fulfillment |-> target]

\* manual_dashboard vendors may skip kitchen steps.  The result is the set of
\* patches, empty when the request is refused.
SkipAhead(r, f, target, receiptConfirmed) ==
  IF f \in Terminal THEN {}
  ELSE IF f = target THEN {NoChange}
  ELSE IF f = "pending" /\ \/ target = "accepted" /\ r = "pending"
                           \/ target \in {"preparing", "ready"} /\ r # "failed"
  THEN {[routing |-> IF r = "pending" THEN "confirmed" ELSE Keep,
         fulfillment |-> target]}
  ELSE IF \/ <<f, target>> \in {<<"preparing", "ready">>, <<"ready", "completed">>}
          \/ /\ <<f, target>> \in {<<"accepted", "ready">>, <<"preparing", "completed">>}
             /\ receiptConfirmed \/ r \in {"confirmed", "sent"}
  THEN {targetToUpdate(target)}
  ELSE {}

resolveVendorDashboardTransitionPatch(r, f, target, receiptConfirmed, allowSkipAhead) ==
  IF validateTransition(r, f, target, "vendor_dashboard", receiptConfirmed)
  THEN {targetToUpdate(target)}
  ELSE IF allowSkipAhead THEN SkipAhead(r, f, target, receiptConfirmed)
  ELSE {}

-----------------------------------------------------------------------------
(* POS reports.                                                            *)

\* A Deliverect report either rejects the order or names a kitchen state; every
\* kitchen state proves that the order arrived.
Report == FulfillmentStatus \cup {"failed"}

\* Mutant: the POS's receipt is taken for the kitchen's acceptance.
interpretNumericCodeReceiptAccepts(report) ==
  CASE report = "failed"  -> [routing |-> "failed", fulfillment |-> "pending"]
    [] report = "pending" -> [routing |-> "confirmed", fulfillment |-> "accepted"]
    [] OTHER              -> [routing |-> "confirmed", fulfillment |-> report]

interpretNumericCode(report) ==
  IF report = "failed" THEN [routing |-> "failed", fulfillment |-> "pending"]
                       ELSE [routing |-> "confirmed", fulfillment |-> report]

\* Mutant: the latest report wins.
FurtherLatest(f, g) == g

Further(f, g) == IF FULFILLMENT_RANK[g] > FULFILLMENT_RANK[f] THEN g ELSE f

\* Mutant: progress reported after a failure is ignored.
mergeDeliverectFailedIsFinal(r, f, mapped) ==
  LET inc == mapped.fulfillment
  IN  IF mapped.routing = "failed" \/ r = "failed"
      THEN [routing |-> IF f = "completed" THEN r ELSE "failed", fulfillment |-> f]
      ELSE [routing |-> IF r \in {"pending", "sent"} THEN "confirmed" ELSE r,
            fulfillment |-> IF f \in Terminal THEN f ELSE Further(f, inc)]

mergeDeliverectMappedIntoVendorOrder(r, f, mapped) ==
  LET inc == mapped.fulfillment
  IN  IF mapped.routing = "failed"
      THEN [routing |-> IF f = "completed" THEN r ELSE "failed", fulfillment |-> f]
      ELSE IF r = "failed" /\ f = "pending" /\ inc \in Active \cup {"completed"}
      THEN [routing |-> "confirmed", fulfillment |-> inc]
      ELSE [routing |-> IF r \in {"pending", "sent"} \/ (inc = "cancelled" /\ r = "failed")
                        THEN "confirmed" ELSE r,
            fulfillment |-> IF inc = "cancelled" THEN "cancelled"
                            ELSE IF f \in Terminal THEN f
                            ELSE Further(f, inc)]

\* Square is asked for the order's current state.  Every order is created with a
\* pickup, whose state is always one the mapper knows.
\* Mutant: a proposed pickup is taken for a started one.
mapSquareProposedIsStarted(state) ==
  [routing |-> "confirmed", fulfillment |-> IF state = "accepted" THEN "preparing" ELSE state]

mapSquareOrderSnapshotToVendorStatus(state) ==
  [routing |-> "confirmed", fulfillment |-> state]

mergeSquareMappedIntoVendorOrder(r, f, mapped) ==
  LET inc == mapped.fulfillment
  IN  IF inc = "cancelled"
      THEN [routing |-> IF r \in {"sent", "failed"} THEN "confirmed" ELSE r,
            fulfillment |-> "cancelled"]
      ELSE IF f \in Terminal THEN [routing |-> r, fulfillment |-> f]
      ELSE [routing |-> IF r \in {"pending", "sent"} THEN "confirmed" ELSE r,
            fulfillment |-> Further(f, inc)]

\* Mutant: the whole merged row is written, changed or not.
DifferenceWholeRow(next, r, f) == next

\* What a merge changes; the update leaves the other column alone.
Difference(next, r, f) ==
  [routing     |-> IF next.routing = r THEN Keep ELSE next.routing,
   fulfillment |-> IF next.fulfillment = f THEN Keep ELSE next.fulfillment]

-----------------------------------------------------------------------------
(* Who may drive a vendor order.  mode is the vendor's routing mode, linked *)
(* whether it has a Deliverect channel link, ext whether the POS's order id *)
(* is stored.                                                               *)

getEffectiveAuthority(authority, r, recovered, linked) ==
  IF authority # "none" THEN authority
  ELSE IF recovered THEN "admin_override"
  ELSE IF linked /\ r # "sent" THEN "pos"
  ELSE "vendor_manual"

isExternallyManaged(mode, authority, r, recovered, linked, ext) ==
  /\ ~recovered
  /\ getEffectiveAuthority(authority, r, recovered, linked) # "admin_override"
  /\ ~(r = "failed" /\ ~ext)
  /\ mode = "deliverect" => linked
  /\ ext \/ r \in {"sent", "confirmed"}

\* getKitchenActionPolicy(..).actionsLocked
actionsLocked(mode, authority, r, recovered, linked, ext) ==
  /\ mode # "manual_dashboard"
  /\ isExternallyManaged(mode, authority, r, recovered, linked, ext)

\* shouldApplyStatusUpdate for the source vendor_dashboard
dashboardMayApply(authority, r, recovered, linked) ==
  LET effective == getEffectiveAuthority(authority, r, recovered, linked)
  IN  \/ effective = "admin_override"
      \/ effective # "pos" /\ ~(linked /\ ~recovered)
=============================================================================
