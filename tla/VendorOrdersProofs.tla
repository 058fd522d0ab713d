------------------------- MODULE VendorOrdersProofs -------------------------
(***************************************************************************)
(* Proofs about VendorOrders.tla, for any vendor orders, workers, routing  *)
(* modes, faults and bounds.                                               *)
(***************************************************************************)
EXTENDS VendorOrderProperties, TLAPS

-----------------------------------------------------------------------------
(* The pure rules.                                                         *)

\* Values a merge may give to a row that had routing r and fulfillment f, after a
\* report of the kitchen state s.
Merged(r, f, s) ==
  {n \in [routing : RoutingStatus, fulfillment : FulfillmentStatus] :
     /\ n.routing # r => n.routing # "pending"
     /\ n.fulfillment # f => n.fulfillment = s /\ s # "pending"}

\* Of two kitchen states the further one is kept, and "pending" is never the further.
LEMMA FurtherFact ==
  ASSUME NEW f \in FulfillmentStatus, NEW g \in FulfillmentStatus
  PROVE  /\ Further(f, g) \in {f, g}
         /\ Further(f, g) # f => g # "pending"
<1>1. FULFILLMENT_RANK["pending"] = 0 /\ FULFILLMENT_RANK[f] \in Nat
  BY DEF FULFILLMENT_RANK, FulfillmentStatus
<1>2. g = "pending" => Further(f, g) = f
  BY <1>1 DEF Further
<1> QED
  BY <1>2 DEF Further

\* A Deliverect report gives the row what it reports or leaves it, and never makes
\* a started column "pending" again (mergeDeliverectMappedIntoVendorOrder).
LEMMA DeliverectMerge ==
  ASSUME NEW r \in RoutingStatus, NEW f \in FulfillmentStatus, NEW report \in Report
  PROVE  mergeDeliverectMappedIntoVendorOrder(r, f, interpretNumericCode(report))
           \in Merged(r, f, report)
<1> DEFINE m == interpretNumericCode(report)
           n == mergeDeliverectMappedIntoVendorOrder(r, f, m)
<1>1. CASE report = "failed"
  <2>1. m = [routing |-> "failed", fulfillment |-> "pending"]
    BY <1>1 DEF interpretNumericCode
  <2>2. n = [routing |-> IF f = "completed" THEN r ELSE "failed", fulfillment |-> f]
    BY <2>1 DEF mergeDeliverectMappedIntoVendorOrder
  <2> QED
    BY <2>2 DEF Merged, RoutingStatus
<1>2. CASE report # "failed"
  <2>1. report \in FulfillmentStatus
    BY <1>2 DEF Report
  <2>2. m = [routing |-> "confirmed", fulfillment |-> report]
    BY <1>2 DEF interpretNumericCode
  <2>3. CASE r = "failed" /\ f = "pending" /\ report \in Active \cup {"completed"}
    <3>1. n = [routing |-> "confirmed", fulfillment |-> report]
      BY <2>2, <2>3 DEF mergeDeliverectMappedIntoVendorOrder
    <3> QED
      BY <3>1, <2>1, <2>3 DEF Merged, RoutingStatus, Active
  <2>4. CASE ~(r = "failed" /\ f = "pending" /\ report \in Active \cup {"completed"})
    <3> DEFINE rr == IF r \in {"pending", "sent"} \/ (report = "cancelled" /\ r = "failed")
                     THEN "confirmed" ELSE r
               ff == IF report = "cancelled" THEN "cancelled"
                     ELSE IF f \in Terminal THEN f ELSE Further(f, report)
    <3>1. n = [routing |-> rr, fulfillment |-> ff]
      BY <2>2, <2>4 DEF mergeDeliverectMappedIntoVendorOrder
    <3>2. rr \in RoutingStatus /\ (rr # r => rr # "pending")
      BY DEF RoutingStatus
    <3>3. ff \in FulfillmentStatus /\ (ff # f => ff = report /\ report # "pending")
      BY <2>1, FurtherFact DEF FulfillmentStatus
    <3> HIDE DEF rr, ff
    <3> QED
      BY <3>1, <3>2, <3>3 DEF Merged
  <2> QED
    BY <2>3, <2>4
<1> QED
  BY <1>1, <1>2

\* The same of Square's current state (mergeSquareMappedIntoVendorOrder).
LEMMA SquareMerge ==
  ASSUME NEW r \in RoutingStatus, NEW f \in FulfillmentStatus, NEW s \in FulfillmentStatus
  PROVE  mergeSquareMappedIntoVendorOrder(r, f, mapSquareOrderSnapshotToVendorStatus(s))
           \in Merged(r, f, s)
<1> DEFINE m == mapSquareOrderSnapshotToVendorStatus(s)
           n == mergeSquareMappedIntoVendorOrder(r, f, m)
<1>1. m = [routing |-> "confirmed", fulfillment |-> s]
  BY DEF mapSquareOrderSnapshotToVendorStatus
<1>2. CASE s = "cancelled"
  <2>1. n = [routing |-> IF r \in {"sent", "failed"} THEN "confirmed" ELSE r,
             fulfillment |-> "cancelled"]
    BY <1>1, <1>2 DEF mergeSquareMappedIntoVendorOrder
  <2> QED
    BY <2>1, <1>2 DEF Merged, RoutingStatus, FulfillmentStatus
<1>3. CASE s # "cancelled" /\ f \in Terminal
  <2>1. n = [routing |-> r, fulfillment |-> f]
    BY <1>1, <1>3 DEF mergeSquareMappedIntoVendorOrder
  <2> QED
    BY <2>1 DEF Merged
<1>4. CASE s # "cancelled" /\ f \notin Terminal
  <2>1. n = [routing |-> IF r \in {"pending", "sent"} THEN "confirmed" ELSE r,
             fulfillment |-> Further(f, s)]
    BY <1>1, <1>4 DEF mergeSquareMappedIntoVendorOrder
  <2>2. Further(f, s) \in FulfillmentStatus
        /\ (Further(f, s) # f => Further(f, s) = s /\ s # "pending")
    BY FurtherFact
  <2> QED
    BY <2>1, <2>2 DEF Merged, RoutingStatus
<1> QED
  BY <1>2, <1>3, <1>4

\* What a merge changes, as a patch: a column it sets is not set to "pending".
LEMMA DifferenceFact ==
  ASSUME NEW r \in RoutingStatus, NEW f \in FulfillmentStatus, NEW s, NEW n \in Merged(r,
     f, s)
  PROVE  LET d == Difference(n, r, f)
         IN  /\ d.routing \in (RoutingStatus \ {"pending"}) \cup {Keep}
             /\ d.fulfillment \in (FulfillmentStatus \ {"pending"}) \cup {Keep}
             /\ d.fulfillment \in {s, Keep}
BY DEF Difference, Merged

\* The patches of a person's transition: like a merge's, they set nothing to "pending".
Patch == [routing     : (RoutingStatus \ {"pending"}) \cup {Keep},
          fulfillment : (FulfillmentStatus \ {"pending"}) \cup {Keep}]

LEMMA TargetFact ==
  ASSUME NEW target \in Target
  PROVE  targetToUpdate(target) \in Patch
BY DEF targetToUpdate, Target, Patch, RoutingStatus, FulfillmentStatus

LEMMA SkipAheadFact ==
  ASSUME NEW r, NEW f, NEW target \in Target, NEW confirmed
  PROVE  SkipAhead(r, f, target, confirmed) \subseteq Patch
<1>1. NoChange \in Patch
  BY DEF NoChange, Patch
<1>2. targetToUpdate(target) \in Patch
  BY TargetFact
<1>3. target \in {"accepted", "preparing", "ready"}
        => [routing |-> IF r = "pending" THEN "confirmed" ELSE Keep,
            fulfillment |-> target] \in Patch
  BY DEF Patch, RoutingStatus, FulfillmentStatus
<1> QED
  BY <1>1, <1>2, <1>3 DEF SkipAhead

LEMMA DashboardPatchFact ==
  ASSUME NEW r, NEW f, NEW target \in Target, NEW confirmed, NEW skip
  PROVE  resolveVendorDashboardTransitionPatch(r, f, target, confirmed, skip) \subseteq Patch
BY TargetFact, SkipAheadFact DEF resolveVendorDashboardTransitionPatch

-----------------------------------------------------------------------------
(* Type correctness.                                                       *)

\* A job of the right type, with the vendor order and the columns it needs.
Typed(j) ==
  /\ j \in Job
  /\ Holding(j.pc) => j.vo \in VendorOrder
  /\ j.pc = "fetch" => j.routing # Keep /\ j.fulfillment # Keep
  /\ j.pc = "apply" => LookedUp(j) \in Report

JobsTyped == job \in [Worker -> Job] /\ \A w \in Worker : Typed(job[w])

LEMMA IdleFact ==
  /\ Idle \in Job /\ Idle.pc = "idle" /\ Idle.vo = NoOrder
  /\ Idle.routing = Keep /\ Idle.fulfillment = Keep /\ Idle.next = "idle"
BY DEF Idle, Job, Pc, Resume, ParentOrderStatus

\* A job that goes on has the right type and holds nothing.
LEMMA GotoFact ==
  ASSUME NEW j \in Job, NEW pc \in Resume \cup {"derive"}
  PROVE  /\ Typed(Goto(j, pc)) /\ ~Holding(Goto(j, pc).pc)
         /\ Goto(j, pc).routing = Keep /\ Goto(j, pc).fulfillment = Keep
<1>1. pc \in Pc /\ ~Holding(pc)
  BY DEF Holding, Pc, Resume
<1>2. CASE pc = "idle"
  BY <1>1, <1>2, IdleFact DEF Goto, Typed
<1>3. CASE pc # "idle"
  <2> DEFINE g == [Idle EXCEPT !.pc = pc, !.kind = j.kind, !.todo = j.todo, !.next = j.next]
  <2>1. /\ j.kind \in Kind \cup {"none"} /\ j.todo \in SUBSET VendorOrder
        /\ j.next \in Resume
    BY DEF Job
  <2>2. g \in Job /\ g.pc = pc /\ g.routing = Keep /\ g.fulfillment = Keep
    BY <1>1, <2>1, IdleFact DEF Job
  <2> QED
    BY <1>1, <1>3, <2>2 DEF Goto, Typed, Holding, Resume
<1> QED
  BY <1>2, <1>3

LEMMA DoneFact ==
  ASSUME NEW j \in Job, NEW ok \in BOOLEAN
  PROVE  /\ Typed(Done(j, ok)) /\ ~Holding(Done(j, ok).pc)
         /\ Done(j, ok).routing = Keep /\ Done(j, ok).fulfillment = Keep
<1>1. j.next \in Resume
  BY DEF Job
<1> QED
  BY <1>1, GotoFact DEF Done

\* A step that gives a worker a job of the right type keeps the jobs' type.
LEMMA SetFact ==
  ASSUME JobsTyped, NEW w \in Worker, NEW j, Typed(j), Set(w, j)
  PROVE  JobsTyped'
BY DEF JobsTyped, Typed, Set, Holding

LEMMA TypeOKParts ==
  TypeOK <=> /\ JobsTyped
             /\ row \in [VendorOrder -> Row]
             /\ logged \subseteq VendorOrder
             /\ status \in ParentOrderStatus
             /\ shown \in ParentOrderStatus
             /\ pos \in [VendorOrder -> FulfillmentStatus]
             /\ tickets \in [VendorOrder -> Nat]
             /\ signals \subseteq VendorOrder \X Report
             /\ events \subseteq signals
             /\ calls \in Nat
             /\ requests \in Nat
             /\ touched \subseteq VendorOrder
BY DEF TypeOK, JobsTyped, Typed

\* The parent's derived status is one of the parent statuses.
LEMMA DerivedFact ==
  ASSUME NEW kids
  PROVE  deriveParentStatusFromChildren(kids) \in ParentOrderStatus
BY DEF deriveParentStatusFromChildren, OutcomeStatus, RoutingOutcome, ParentOrderStatus

\* Every step keeps the types.
LEMMA TypeStep ==
  ASSUME TypeOK, [Next]_vars
  PROVE  TypeOK'
<1> USE ConstantsAssumption
<1> DEFINE Others == /\ row' \in [VendorOrder -> Row] /\ logged' \subseteq VendorOrder
                     /\ status' \in ParentOrderStatus /\ shown' \in ParentOrderStatus
                     /\ pos' \in [VendorOrder -> FulfillmentStatus]
                     /\ tickets' \in [VendorOrder -> Nat]
                     /\ signals' \subseteq VendorOrder \X Report /\ events' \subseteq signals'
                     /\ calls' \in Nat /\ requests' \in Nat /\ touched' \subseteq VendorOrder
<1>1. JobsTyped
  BY DEF TypeOK, JobsTyped, Typed
<1>2. SUFFICES JobsTyped' /\ Others
  BY <1>2 DEF TypeOK, JobsTyped, Typed
<1>3. ASSUME NEW w \in Worker, NEW j, Typed(j), Set(w, j)
      PROVE  JobsTyped'
  BY <1>1, <1>3, SetFact
<1>4. \A w \in Worker : /\ job[w] \in Job
                        /\ Holding(job[w].pc) => job[w].vo \in VendorOrder
                        /\ job[w].pc = "fetch" => /\ job[w].routing # Keep
                                                  /\ job[w].fulfillment # Keep
                        /\ job[w].pc = "apply" => LookedUp(job[w]) \in Report
  BY <1>1 DEF JobsTyped, Typed
<1>5. UNCHANGED <<database, kitchen, asked>> => Others
  BY DEF TypeOK, database, kitchen, asked
<1>6. UNCHANGED <<database, kitchen>> /\ calls' \in Nat /\ requests' \in Nat
        /\ touched' \subseteq VendorOrder => Others
  BY DEF TypeOK, database, kitchen
<1>7. row' \in [VendorOrder -> Row]
      /\ UNCHANGED <<kitchen, asked, logged, status, shown, events>>
        => Others
  BY DEF TypeOK, kitchen, asked
<1>8. events' \subseteq signals /\ UNCHANGED <<kitchen, asked, row, logged, status, shown>>
        => Others
  BY DEF TypeOK, kitchen, asked
<1>9. \A v \in VendorOrder : row[v] \in Row /\ pos[v] \in FulfillmentStatus
                             /\ tickets[v] \in Nat
  BY DEF TypeOK
<1> HIDE DEF Others
<1>10. ASSUME NEW w \in Worker, ReceiveDeliverectWebhook(w) PROVE JobsTyped' /\ Others
  <2>1. PICK v \in VendorOrder, report \in Report, id \in BOOLEAN :
          LET next == mergeDeliverectMappedIntoVendorOrder(row[v].routing,
                        row[v].fulfillment, interpretNumericCode(report))
              diff == Difference(next, row[v].routing, row[v].fulfillment)
          IN  Set(w, [Idle EXCEPT !.pc = "promote", !.kind = "webhook", !.vo = v,
                                  !.routing = diff.routing,
                                  !.fulfillment = diff.fulfillment, !.ext = id])
    BY <1>10 DEF ReceiveDeliverectWebhook
  <2> DEFINE next == mergeDeliverectMappedIntoVendorOrder(row[v].routing,
                       row[v].fulfillment, interpretNumericCode(report))
             diff == Difference(next, row[v].routing, row[v].fulfillment)
             j == [Idle EXCEPT !.pc = "promote", !.kind = "webhook", !.vo = v,
                               !.routing = diff.routing,
                               !.fulfillment = diff.fulfillment, !.ext = id]
  <2>2. row[v].routing \in RoutingStatus /\ row[v].fulfillment \in FulfillmentStatus
    BY <1>9 DEF Row
  <2>3. next \in Merged(row[v].routing, row[v].fulfillment, report)
    BY <2>2, DeliverectMerge
  <2>4. diff.routing \in RoutingStatus \cup {Keep}
        /\ diff.fulfillment \in FulfillmentStatus \cup {Keep}
    BY <2>2, <2>3, DifferenceFact
  <2> HIDE DEF diff, next
  <2>5. Typed(j)
    BY <2>4, IdleFact DEF Typed, Job, Pc, Kind
  <2>6. JobsTyped'
    BY <2>1, <2>5, <1>3 DEF diff, next
  <2>7. Others
    BY <1>8, <1>10 DEF ReceiveDeliverectWebhook, TypeOK
  <2> QED
    BY <2>6, <2>7
<1>11. ASSUME NEW w \in Worker, PromoteAuthority(w) PROVE JobsTyped' /\ Others
  <2> DEFINE j == [job[w] EXCEPT !.pc = "write",
               !.authority = posAuthorityPromotionUpdateIfEligible(row[job[w].vo].authority)]
  <2>1. Typed(j)
    <3>1. job[w] \in Job /\ "write" \in Pc
          /\ posAuthorityPromotionUpdateIfEligible(row[job[w].vo].authority) \in Authority \cup {Keep}
      BY <1>11, <1>4, IdleFact DEF Pc, Kind, Resume, Authority, RoutingStatus,
         FulfillmentStatus, ParentOrderStatus, posAuthorityPromotionUpdateIfEligible
    <3>2. j \in Job /\ j.pc = "write" /\ j.vo = job[w].vo
      BY <3>1 DEF Job
    <3> QED
      BY <3>2, <1>11, <1>4, IdleFact DEF PromoteAuthority, At, Typed, Holding, Resume
  <2>2. Set(w, j)
    BY <1>11 DEF PromoteAuthority
  <2>3. Others
    BY <1>5, <1>11 DEF PromoteAuthority
  <2> QED
    BY <2>1, <2>2, <2>3, <1>3
<1>12. ASSUME NEW w \in Worker, ReceiveSquareWebhook(w) PROVE JobsTyped' /\ Others
  <2>1. PICK v \in VendorOrder :
          Set(w, IF row[v].ext
                 THEN [Idle EXCEPT !.pc = "fetch", !.kind = "sync", !.vo = v,
                                   !.routing = row[v].routing,
                                   !.fulfillment = row[v].fulfillment]
                 ELSE Idle)
    BY <1>12 DEF ReceiveSquareWebhook
  <2> DEFINE j == [Idle EXCEPT !.pc = "fetch", !.kind = "sync", !.vo = v,
                               !.routing = row[v].routing, !.fulfillment = row[v].fulfillment]
  <2>2. row[v].routing \in RoutingStatus /\ row[v].fulfillment \in FulfillmentStatus
    BY <1>9 DEF Row
  <2>3. j \in Job
    BY <2>2, IdleFact DEF Job, Pc, Kind
  <2>4. /\ j.vo = v /\ j.routing = row[v].routing
        /\ j.fulfillment = row[v].fulfillment
    BY IdleFact DEF Job
  <2>5. Typed(j)
    BY <2>2, <2>3, <2>4 DEF Typed, Keep, RoutingStatus, FulfillmentStatus
  <2>6. Typed(Idle)
    BY IdleFact DEF Typed, Holding, Resume
  <2>7. Others
    BY <1>8, <1>12 DEF ReceiveSquareWebhook, TypeOK
  <2> QED
    BY <2>1, <2>5, <2>6, <2>7, <1>3
<1>13. ASSUME NEW w \in Worker, FetchSquareOrder(w) PROVE JobsTyped' /\ Others
  <2> DEFINE next == mergeSquareMappedIntoVendorOrder(job[w].routing, job[w].fulfillment,
                       mapSquareOrderSnapshotToVendorStatus(pos[job[w].vo]))
             diff == Difference(next, job[w].routing, job[w].fulfillment)
             j == [job[w] EXCEPT !.pc = "write", !.routing = diff.routing,
                                 !.fulfillment = diff.fulfillment, !.authority = "pos"]
  <2>1. Set(w, Goto(job[w], "derive")) \/ Set(w, j)
    BY <1>13 DEF FetchSquareOrder
  <2>2. /\ job[w].vo \in VendorOrder
        /\ job[w].routing \in RoutingStatus /\ job[w].fulfillment \in FulfillmentStatus
    BY <1>13, <1>4 DEF FetchSquareOrder, At, Holding, Resume, Job
  <2>3. next \in Merged(job[w].routing, job[w].fulfillment, pos[job[w].vo])
    BY <2>2, <1>9, SquareMerge
  <2>4. /\ diff.routing \in RoutingStatus \cup {Keep}
        /\ diff.fulfillment \in FulfillmentStatus \cup {Keep}
    BY <2>2, <2>3, DifferenceFact
  <2> HIDE DEF diff, next
  <2>5. Typed(j)
    <3>1. job[w] \in Job /\ "write" \in Pc /\ diff.routing \in RoutingStatus \cup {Keep}
          /\ diff.fulfillment \in FulfillmentStatus \cup {Keep}
          /\ "pos" \in Authority \cup {Keep}
      BY <1>13, <1>4, IdleFact, <2>2, <2>4 DEF Pc, Kind, Resume, Authority, RoutingStatus,
         FulfillmentStatus, ParentOrderStatus
    <3>2. j \in Job /\ j.pc = "write" /\ j.vo = job[w].vo
      BY <3>1 DEF Job
    <3> QED
      BY <3>2, <1>13, <1>4, IdleFact, <2>2, <2>4 DEF FetchSquareOrder, At, Typed, Holding,
         Resume
  <2>6. Typed(Goto(job[w], "derive"))
    BY <1>4, GotoFact
  <2>7. Others
    BY <1>5, <1>13 DEF FetchSquareOrder
  <2> QED
    BY <2>1, <2>5, <2>6, <2>7, <1>3
<1>14. ASSUME NEW w \in Worker, DashboardTransition(w) PROVE JobsTyped' /\ Others
  <2>1. PICK v \in VendorOrder, patch \in Patch : Transition(w, v, "dashboard", patch)
    BY <1>14, DashboardPatchFact DEF DashboardTransition
  <2> DEFINE j == [Idle EXCEPT !.pc = "write", !.kind = "dashboard", !.vo = v,
                               !.routing = patch.routing, !.fulfillment = patch.fulfillment]
  <2>2. /\ patch.routing \in RoutingStatus \cup {Keep}
        /\ patch.fulfillment \in FulfillmentStatus \cup {Keep}
    BY DEF Patch
  <2>3. Typed(j)
    <3>1. Idle \in Job /\ "write" \in Pc /\ "dashboard" \in Kind /\ v \in VendorOrder
          /\ patch.routing \in RoutingStatus \cup {Keep}
          /\ patch.fulfillment \in FulfillmentStatus \cup {Keep}
      BY <1>14, <1>4, IdleFact, <2>2 DEF Pc, Kind, Resume, Authority, RoutingStatus,
         FulfillmentStatus, ParentOrderStatus, Kind, Staff
    <3>2. j \in Job /\ j.pc = "write" /\ j.vo = v
      BY <3>1 DEF Job
    <3> QED
      BY <3>2, <1>14, <1>4, IdleFact, <2>2 DEF DashboardTransition, At, Typed, Holding, Resume
  <2>4. Set(w, j)
    BY <2>1 DEF Transition
  <2>5. requests' = requests + 1 /\ touched' = touched \cup {v}
    BY <2>1 DEF Transition
  <2>6. Others
    BY <1>6, <2>5, <1>14 DEF DashboardTransition, TypeOK
  <2> QED
    BY <2>3, <2>4, <2>6, <1>3
<1>15. ASSUME NEW w \in Worker, AdminTransition(w) PROVE JobsTyped' /\ Others
  <2>1. PICK v \in VendorOrder, patch \in Patch : Transition(w, v, "admin", patch)
    BY <1>15, TargetFact DEF AdminTransition
  <2> DEFINE j == [Idle EXCEPT !.pc = "write", !.kind = "admin", !.vo = v,
                               !.routing = patch.routing, !.fulfillment = patch.fulfillment]
  <2>2. /\ patch.routing \in RoutingStatus \cup {Keep}
        /\ patch.fulfillment \in FulfillmentStatus \cup {Keep}
    BY DEF Patch
  <2>3. Typed(j)
    <3>1. Idle \in Job /\ "write" \in Pc /\ "admin" \in Kind /\ v \in VendorOrder
          /\ patch.routing \in RoutingStatus \cup {Keep}
          /\ patch.fulfillment \in FulfillmentStatus \cup {Keep}
      BY <1>15, <1>4, IdleFact, <2>2 DEF Pc, Kind, Resume, Authority, RoutingStatus,
         FulfillmentStatus, ParentOrderStatus, Kind, Staff
    <3>2. j \in Job /\ j.pc = "write" /\ j.vo = v
      BY <3>1 DEF Job
    <3> QED
      BY <3>2, <1>15, <1>4, IdleFact, <2>2 DEF AdminTransition, At, Typed, Holding, Resume
  <2>4. Set(w, j)
    BY <2>1 DEF Transition
  <2>5. requests' = requests + 1 /\ touched' = touched \cup {v}
    BY <2>1 DEF Transition
  <2>6. Others
    BY <1>6, <2>5, <1>15 DEF AdminTransition, TypeOK
  <2> QED
    BY <2>3, <2>4, <2>6, <1>3
<1>16. ASSUME NEW w \in Worker, AskRecovery(w) PROVE JobsTyped' /\ Others
  <2>1. PICK v \in VendorOrder :
          /\ Set(w, [Idle EXCEPT !.pc = "recover", !.kind = "recovery", !.vo = v])
          /\ touched' = touched \cup {v}
    BY <1>16 DEF AskRecovery
  <2> DEFINE j == [Idle EXCEPT !.pc = "recover", !.kind = "recovery", !.vo = v]
  <2>2. Typed(j)
    <3>1. Idle \in Job /\ "recover" \in Pc /\ "recovery" \in Kind /\ v \in VendorOrder
      BY <1>16, <1>4, IdleFact DEF Pc, Kind, Resume, Authority, RoutingStatus,
         FulfillmentStatus, ParentOrderStatus, Kind, Staff
    <3>2. j \in Job /\ j.pc = "recover" /\ j.vo = v
      BY <3>1 DEF Job
    <3> QED
      BY <3>2, <1>16, <1>4, IdleFact DEF AskRecovery, At, Typed, Holding, Resume
  <2>3. Others
    BY <1>6, <2>1, <1>16 DEF AskRecovery, TypeOK
  <2> QED
    BY <2>1, <2>2, <2>3, <1>3
<1>17. ASSUME NEW w \in Worker, RecoverVendorOrder(w) PROVE JobsTyped' /\ Others
  <2> DEFINE j == [job[w] EXCEPT !.pc = "write", !.fulfillment = "accepted",
                                 !.authority = "admin_override"]
  <2>1. Typed(j)
    <3>1. job[w] \in Job /\ "write" \in Pc /\ "accepted" \in FulfillmentStatus \cup {Keep}
          /\ "admin_override" \in Authority \cup {Keep}
      BY <1>17, <1>4, IdleFact DEF Pc, Kind, Resume, Authority, RoutingStatus,
         FulfillmentStatus, ParentOrderStatus
    <3>2. j \in Job /\ j.pc = "write" /\ j.vo = job[w].vo
      BY <3>1 DEF Job
    <3> QED
      BY <3>2, <1>17, <1>4, IdleFact DEF RecoverVendorOrder, At, Typed, Holding, Resume
  <2>2. Typed(Idle)
    BY IdleFact DEF Typed, Holding, Resume
  <2>3. Set(w, j) \/ Set(w, Idle)
    BY <1>17 DEF RecoverVendorOrder
  <2>4. Others
    BY <1>5, <1>17 DEF RecoverVendorOrder
  <2> QED
    BY <2>1, <2>2, <2>3, <2>4, <1>3
<1>18. ASSUME NEW w \in Worker, AskRetry(w) PROVE JobsTyped' /\ Others
  <2>1. PICK v \in VendorOrder :
          Set(w, [Idle EXCEPT !.pc = "each", !.kind = "retry", !.todo = {v}])
    BY <1>18 DEF AskRetry
  <2> DEFINE j == [Idle EXCEPT !.pc = "each", !.kind = "retry", !.todo = {v}]
  <2>2. Typed(j)
    <3>1. Idle \in Job /\ "each" \in Pc /\ "retry" \in Kind /\ {v} \in SUBSET VendorOrder
      BY <1>4, IdleFact DEF Pc, Kind, Resume, ParentOrderStatus
    <3>2. j \in Job /\ j.pc = "each"
      BY <3>1 DEF Job
    <3> QED
      BY <3>2 DEF Typed, Holding, Resume
  <2>3. Others
    BY <1>6, <1>18 DEF AskRetry, TypeOK
  <2> QED
    BY <2>1, <2>2, <2>3, <1>3
<1>41. ASSUME NEW w \in Worker, AskSquareSync(w) PROVE JobsTyped' /\ Others
  <2>1. PICK v \in VendorOrder :
          Set(w, [Idle EXCEPT !.pc = "fetch", !.kind = "sync", !.vo = v,
                              !.routing = row[v].routing,
                              !.fulfillment = row[v].fulfillment])
    BY <1>41 DEF AskSquareSync
  <2> DEFINE j == [Idle EXCEPT !.pc = "fetch", !.kind = "sync", !.vo = v,
                               !.routing = row[v].routing, !.fulfillment = row[v].fulfillment]
  <2>2. row[v].routing \in RoutingStatus /\ row[v].fulfillment \in FulfillmentStatus
    BY <1>9 DEF Row
  <2>3. j \in Job
    BY <2>2, IdleFact DEF Job, Pc, Kind
  <2>4. /\ j.vo = v /\ j.routing = row[v].routing
        /\ j.fulfillment = row[v].fulfillment
    BY IdleFact DEF Job
  <2>5. Typed(j)
    BY <2>2, <2>3, <2>4 DEF Typed, Keep, RoutingStatus, FulfillmentStatus
  <2>6. Others
    BY <1>6, <1>41 DEF AskSquareSync, TypeOK
  <2> QED
    BY <2>1, <2>5, <2>6, <1>3
<1>42. ASSUME NEW w \in Worker, AskRecheck(w) PROVE JobsTyped' /\ Others
  <2>1. PICK v \in VendorOrder :
          Set(w, [Idle EXCEPT !.pc = "lookup", !.kind = "recheck", !.vo = v])
    BY <1>42 DEF AskRecheck
  <2> DEFINE j == [Idle EXCEPT !.pc = "lookup", !.kind = "recheck", !.vo = v]
  <2>2. j \in Job /\ j.pc = "lookup" /\ j.vo = v
    BY IdleFact DEF Job, Pc, Kind
  <2> HIDE DEF j
  <2>3. Typed(j)
    BY <2>2 DEF Typed
  <2>4. Others
    BY <1>6, <1>42 DEF AskRecheck, TypeOK
  <2> QED
    BY <2>1, <2>3, <2>4, <1>3 DEF j
<1>43. ASSUME NEW w \in Worker, LookUpDeliverectOrder(w) PROVE JobsTyped' /\ Others
  <2> DEFINE j == job[w]
             told == [j EXCEPT !.pc = "apply", !.fulfillment = pos[j.vo]]
             refused == [j EXCEPT !.pc = "apply", !.routing = "failed"]
  <2>1. Set(w, told) \/ Set(w, refused) \/ Set(w, Idle)
    BY <1>43 DEF LookUpDeliverectOrder
  <2>2. /\ j \in Job /\ j.vo \in VendorOrder /\ pos[j.vo] \in FulfillmentStatus
        /\ "apply" \in Pc /\ "failed" \in RoutingStatus
    BY <1>43, <1>4, <1>9 DEF LookUpDeliverectOrder, At, Holding, Resume, Pc, RoutingStatus
  <2>3. /\ told \in Job /\ told.vo = j.vo /\ told.fulfillment = pos[j.vo]
        /\ refused \in Job /\ refused.vo = j.vo /\ refused.routing = "failed"
        /\ told.pc = "apply" /\ refused.pc = "apply"
    BY <2>2 DEF Job
  <2> HIDE DEF j, told, refused
  <2>4. Typed(told) /\ Typed(refused)
    BY <2>2, <2>3 DEF Typed, LookedUp, Report
  <2>5. Typed(Idle)
    BY IdleFact DEF Typed, Holding, Resume
  <2>6. Others
    BY <1>5, <1>43 DEF LookUpDeliverectOrder
  <2> QED
    BY <2>1, <2>4, <2>5, <2>6, <1>3
<1>44. ASSUME NEW w \in Worker, ApplyLookup(w) PROVE JobsTyped' /\ Others
  <2> DEFINE j == job[w]
             r == row[j.vo].routing
             f == row[j.vo].fulfillment
             next == mergeDeliverectMappedIntoVendorOrder(r, f, interpretNumericCode(LookedUp(j)))
             diff == Difference(next, r, f)
             k == [j EXCEPT !.pc = "promote", !.routing = diff.routing,
                            !.fulfillment = diff.fulfillment]
  <2>1. Set(w, k)
    BY <1>44 DEF ApplyLookup
  <2>2. j \in Job /\ j.vo \in VendorOrder /\ LookedUp(j) \in Report
    BY <1>44, <1>4 DEF ApplyLookup, At, Holding, Resume
  <2>3. r \in RoutingStatus /\ f \in FulfillmentStatus
    BY <2>2, <1>9 DEF Row
  <2>4. next \in Merged(r, f, LookedUp(j))
    BY <2>2, <2>3, DeliverectMerge
  <2>5. /\ diff.routing \in RoutingStatus \cup {Keep}
        /\ diff.fulfillment \in FulfillmentStatus \cup {Keep}
    BY <2>3, <2>4, DifferenceFact
  <2> HIDE DEF diff, next
  <2>6. k \in Job /\ k.pc = "promote" /\ k.vo = j.vo
    BY <2>2, <2>5 DEF Job, Pc
  <2> HIDE DEF k
  <2>7. Typed(k)
    BY <2>2, <2>6 DEF Typed
  <2>8. Others
    BY <1>5, <1>44 DEF ApplyLookup
  <2> QED
    BY <2>1, <2>7, <2>8, <1>3
<1>19. ASSUME NEW w \in Worker, ReceivePayment(w) PROVE JobsTyped' /\ Others
  <2> DEFINE j == [Idle EXCEPT !.pc = "parent", !.kind = "payment", !.parent = "paid",
                               !.next = "open"]
  <2>1. Typed(j)
    <3>1. Idle \in Job /\ "parent" \in Pc /\ "payment" \in Kind
          /\ "paid" \in ParentOrderStatus /\ "open" \in Resume
      BY <1>4, IdleFact DEF Pc, Kind, Resume, ParentOrderStatus
    <3>2. j \in Job /\ j.pc = "parent"
      BY <3>1 DEF Job
    <3> QED
      BY <3>2 DEF Typed, Holding, Resume
  <2>2. Set(w, j)
    BY <1>19 DEF ReceivePayment
  <2>3. Others
    BY <1>6, <1>19 DEF ReceivePayment, TypeOK
  <2> QED
    BY <2>1, <2>2, <2>3, <1>3
<1>20. ASSUME NEW w \in Worker, OpenRouting(w) PROVE JobsTyped' /\ Others
  <2> DEFINE j == [job[w] EXCEPT !.pc = "parent", !.parent = "routing", !.next = "load"]
  <2>1. Typed(j)
    <3>1. job[w] \in Job /\ "parent" \in Pc /\ "routing" \in ParentOrderStatus
          /\ "load" \in Resume
      BY <1>4, IdleFact DEF Pc, Kind, Resume, ParentOrderStatus
    <3>2. j \in Job /\ j.pc = "parent"
      BY <3>1 DEF Job
    <3> QED
      BY <3>2 DEF Typed, Holding, Resume
  <2>2. Set(w, j)
    BY <1>20 DEF OpenRouting
  <2>3. Others
    BY <1>5, <1>20 DEF OpenRouting
  <2> QED
    BY <2>1, <2>2, <2>3, <1>3
<1>21. ASSUME NEW w \in Worker, LoadVendorOrders(w) PROVE JobsTyped' /\ Others
  <2> DEFINE j == [job[w] EXCEPT !.pc = "each", !.next = "each",
                                 !.todo = {v \in VendorOrder : row[v].routing = "pending"}]
  <2>1. Typed(j)
    <3>1. job[w] \in Job /\ "each" \in Pc /\ "each" \in Resume
          /\ {v \in VendorOrder : row[v].routing = "pending"} \in SUBSET VendorOrder
      BY <1>4, IdleFact DEF Pc, Kind, Resume, ParentOrderStatus
    <3>2. j \in Job /\ j.pc = "each"
      BY <3>1 DEF Job
    <3> QED
      BY <3>2 DEF Typed, Holding, Resume
  <2>2. Set(w, j)
    BY <1>21 DEF LoadVendorOrders
  <2>3. Others
    BY <1>5, <1>21 DEF LoadVendorOrders
  <2> QED
    BY <2>1, <2>2, <2>3, <1>3
<1>22. ASSUME NEW w \in Worker, SettleOrder(w) PROVE JobsTyped' /\ Others
  <2> DEFINE j == [job[w] EXCEPT !.pc = "parent", !.parent = DerivedStatusFromHistory,
                                 !.next = "idle"]
  <2>1. Typed(j)
    <3>1. job[w] \in Job /\ "parent" \in Pc
          /\ DerivedStatusFromHistory \in ParentOrderStatus /\ "idle" \in Resume
      BY <1>4, IdleFact, DerivedFact DEF Pc, Kind, Resume, ParentOrderStatus,
         DerivedStatusFromHistory
    <3>2. j \in Job /\ j.pc = "parent"
      BY <3>1 DEF Job
    <3> QED
      BY <3>2 DEF Typed, Holding, Resume
  <2>2. Set(w, j)
    BY <1>22 DEF SettleOrder
  <2>3. Others
    BY <1>5, <1>22 DEF SettleOrder
  <2> QED
    BY <2>1, <2>2, <2>3, <1>3
<1>23. ASSUME NEW w \in Worker, SubmitVendorOrder(w) PROVE JobsTyped' /\ Others
  <2>1. PICK v \in job[w].todo :
          LET j == [job[w] EXCEPT !.vo = v, !.todo = @ \ {v}, !.routing = Keep,
                                  !.authority = Keep, !.ext = FALSE]
          IN  Set(w, IF Mode[v] = "deliverect" THEN SubmitToDeliverect(j, v)
                     ELSE IF Mode[v] = "square" THEN SubmitToSquare(j, v)
                     ELSE SubmitManually(j, v))
    BY <1>23 DEF SubmitVendorOrder
  <2> DEFINE j == [job[w] EXCEPT !.vo = v, !.todo = @ \ {v}, !.routing = Keep,
                                 !.authority = Keep, !.ext = FALSE]
  <2>2. /\ job[w] \in Job /\ v \in VendorOrder /\ job[w].todo \ {v} \in SUBSET VendorOrder
        /\ Keep \in RoutingStatus \cup {Keep} /\ Keep \in Authority \cup {Keep}
    BY <1>4 DEF Job
  <2>3. j \in Job /\ j.vo = v
    BY <2>2 DEF Job
  <2> HIDE DEF j
  <2>4. Typed(SubmitToDeliverect(j, v))
    <3>1. \A pc \in {"call", "stampRead"}, r \in {"failed", Keep} :
            /\ Typed([j EXCEPT !.pc = pc]) /\ Typed([j EXCEPT !.pc = pc, !.routing = r])
      <4> TAKE pc \in {"call", "stampRead"}, r \in {"failed", Keep}
      <4>1. pc \in Pc /\ r \in RoutingStatus \cup {Keep}
        BY DEF Pc, RoutingStatus
      <4>2. /\ [j EXCEPT !.pc = pc] \in Job /\ [j EXCEPT !.pc = pc].pc = pc
            /\ [j EXCEPT !.pc = pc].vo = v
        BY <2>3, <4>1 DEF Job
      <4>3. /\ [j EXCEPT !.pc = pc, !.routing = r] \in Job
            /\ [j EXCEPT !.pc = pc, !.routing = r].pc = pc
            /\ [j EXCEPT !.pc = pc, !.routing = r].vo = v
        BY <2>3, <4>1 DEF Job
      <4> QED
        BY <4>2, <4>3, <2>2 DEF Typed
    <3> QED
      BY <3>1, <2>3, DoneFact DEF SubmitToDeliverect
  <2>5. Typed(SubmitToSquare(j, v))
    <3>1. \A pc \in {"call", "pay"} : Typed([j EXCEPT !.pc = pc])
      <4> TAKE pc \in {"call", "pay"}
      <4>1. /\ [j EXCEPT !.pc = pc] \in Job /\ [j EXCEPT !.pc = pc].pc = pc
            /\ [j EXCEPT !.pc = pc].vo = v
        BY <2>3 DEF Job, Pc
      <4> QED
        BY <4>1, <2>2 DEF Typed
    <3> QED
      BY <3>1, <2>3, DoneFact DEF SubmitToSquare
  <2>6. Typed(SubmitManually(j, v))
    <3> DEFINE a == IF row[v].authority = "none" THEN "vendor_manual" ELSE Keep
               k == [j EXCEPT !.pc = "write", !.routing = "confirmed", !.authority = a]
    <3>1. "write" \in Pc /\ "confirmed" \in RoutingStatus \cup {Keep}
          /\ a \in Authority \cup {Keep}
      BY DEF Pc, RoutingStatus, Authority
    <3>2. k \in Job /\ k.pc = "write" /\ k.vo = v
      BY <2>3, <3>1 DEF Job
    <3> QED
      BY <3>2, <2>2 DEF SubmitManually, Typed
  <2>7. Others
    BY <1>5, <1>23 DEF SubmitVendorOrder
  <2> QED
    BY <2>1, <2>4, <2>5, <2>6, <2>7, <1>3 DEF j
<1>24. ASSUME NEW w \in Worker, DeliverectPrecheckFails(w) PROVE JobsTyped' /\ Others
  <2> DEFINE j == [job[w] EXCEPT !.pc = "write", !.routing = "failed"]
  <2>1. Typed(j)
    <3>1. job[w] \in Job /\ "write" \in Pc /\ "failed" \in RoutingStatus \cup {Keep}
      BY <1>24, <1>4, IdleFact DEF Pc, Kind, Resume, Authority, RoutingStatus,
         FulfillmentStatus, ParentOrderStatus
    <3>2. j \in Job /\ j.pc = "write" /\ j.vo = job[w].vo
      BY <3>1 DEF Job
    <3> QED
      BY <3>2, <1>24, <1>4, IdleFact DEF DeliverectPrecheckFails, At, Typed, Holding, Resume
  <2>2. Typed(Done(job[w], FALSE))
    BY <1>4, DoneFact
  <2>3. Set(w, j) \/ Set(w, Done(job[w], FALSE))
    BY <1>24 DEF DeliverectPrecheckFails
  <2>4. Others
    BY <1>5, <1>24 DEF DeliverectPrecheckFails
  <2> QED
    BY <2>1, <2>2, <2>3, <2>4, <1>3
<1>25. ASSUME NEW w \in Worker, CallDeliverect(w) PROVE JobsTyped' /\ Others
  <2> DEFINE j == [job[w] EXCEPT !.pc = "write"]
             k(id) == [job[w] EXCEPT !.pc = "write", !.routing = "sent", !.ext = id]
  <2>1. Typed(j)
    <3>1. job[w] \in Job /\ "write" \in Pc
      BY <1>25, <1>4, IdleFact DEF Pc, Kind, Resume, Authority, RoutingStatus,
         FulfillmentStatus, ParentOrderStatus
    <3>2. j \in Job /\ j.pc = "write" /\ j.vo = job[w].vo
      BY <3>1 DEF Job
    <3> QED
      BY <3>2, <1>25, <1>4, IdleFact DEF CallDeliverect, At, Typed, Holding, Resume
  <2>2. ASSUME NEW id \in BOOLEAN PROVE Typed(k(id))
    <3>1. job[w] \in Job /\ "write" \in Pc /\ "sent" \in RoutingStatus \cup {Keep}
      BY <1>4 DEF Pc, RoutingStatus
    <3>2. k(id) \in Job /\ k(id).pc = "write" /\ k(id).vo = job[w].vo
      BY <3>1 DEF Job
    <3> QED
      BY <3>2, <1>25, <1>4 DEF CallDeliverect, At, Typed, Holding, Resume
  <2> HIDE DEF j, k
  <2>3. (\E id \in BOOLEAN : Set(w, k(id))) \/ Set(w, j)
    BY <1>25 DEF CallDeliverect, j, k
  <2>4. tickets' \in [VendorOrder -> Nat]
    <3>1. tickets' = tickets \/ tickets' = [tickets EXCEPT ![job[w].vo] = @ + 1]
      BY <1>25 DEF CallDeliverect
    <3> QED
      BY <3>1 DEF TypeOK
  <2>5. Others
    BY <2>4, <1>25 DEF CallDeliverect, TypeOK, database, asked, Others
  <2> QED
    BY <2>1, <2>2, <2>3, <2>5, <1>3
<1>26. ASSUME NEW w \in Worker, ReadAuthority(w) PROVE JobsTyped' /\ Others
  <2> DEFINE j == [job[w] EXCEPT !.pc = "stamp",
               !.authority = IF row[job[w].vo].authority = "none" THEN "vendor_manual" ELSE Keep]
  <2>1. Typed(j)
    <3>1. job[w] \in Job /\ "stamp" \in Pc
          /\ (IF row[job[w].vo].authority = "none" THEN "vendor_manual" ELSE Keep) \in Authority \cup {Keep}
      BY <1>26, <1>4, IdleFact DEF Pc, Kind, Resume, Authority, RoutingStatus,
         FulfillmentStatus, ParentOrderStatus
    <3>2. j \in Job /\ j.pc = "stamp" /\ j.vo = job[w].vo
      BY <3>1 DEF Job
    <3> QED
      BY <3>2, <1>26, <1>4, IdleFact DEF ReadAuthority, At, Typed, Holding, Resume
  <2>2. Set(w, j)
    BY <1>26 DEF ReadAuthority
  <2>3. Others
    BY <1>5, <1>26 DEF ReadAuthority
  <2> QED
    BY <2>1, <2>2, <2>3, <1>3
<1>27. ASSUME NEW w \in Worker, StampAuthority(w) PROVE JobsTyped' /\ Others
  <2>1. Typed(Done(job[w], TRUE))
    BY <1>4, DoneFact
  <2>2. Set(w, Done(job[w], TRUE))
    BY <1>27 DEF StampAuthority
  <2>3. row' \in [VendorOrder -> Row]
    <3> DEFINE a == Patched(job[w].authority, row[job[w].vo].authority)
    <3>1. job[w].vo \in VendorOrder /\ job[w].authority \in Authority \cup {Keep}
      BY <1>27, <1>4 DEF StampAuthority, At, Holding, Resume, Job
    <3>2. a \in Authority
      BY <3>1, <1>9 DEF Patched, Row
    <3>3. row' = [row EXCEPT ![job[w].vo].authority = a]
      BY <1>27 DEF StampAuthority
    <3> HIDE DEF a
    <3> QED
      BY <3>1, <3>2, <3>3 DEF TypeOK, Row
  <2>4. Others
    BY <1>7, <2>3, <1>27 DEF StampAuthority
  <2> QED
    BY <2>1, <2>2, <2>4, <1>3
<1>28. ASSUME NEW w \in Worker, CallSquare(w) PROVE JobsTyped' /\ Others
  <2> DEFINE j(pc) == [job[w] EXCEPT !.pc = pc]
  <2>1. ASSUME NEW pc \in {"partial", "fail"} PROVE Typed(j(pc))
    <3>1. j(pc) \in Job /\ j(pc).pc = pc /\ j(pc).vo = job[w].vo
      BY <1>4 DEF Job, Pc
    <3> QED
      BY <3>1, <1>28, <1>4 DEF CallSquare, At, Typed, Holding, Resume
  <2>2. Set(w, j("partial")) \/ Set(w, j("fail"))
    BY <1>28 DEF CallSquare
  <2>3. tickets' \in [VendorOrder -> Nat] /\ pos' \in [VendorOrder -> FulfillmentStatus]
    <3>1. \/ UNCHANGED <<pos, tickets>>
          \/ /\ tickets' = [tickets EXCEPT ![job[w].vo] = 1]
             /\ pos' = [pos EXCEPT ![job[w].vo] = IF tickets[job[w].vo] = 0
                                                  THEN "accepted" ELSE @]
      BY <1>28 DEF CallSquare
    <3> QED
      BY <3>1, <1>9 DEF TypeOK, FulfillmentStatus
  <2>4. Others
    BY <2>3, <1>28 DEF CallSquare, TypeOK, database, asked, Others
  <2> QED
    BY <2>1, <2>2, <2>4, <1>3
<1>29. ASSUME NEW w \in Worker, persistPartialSquareOrder(w) PROVE JobsTyped' /\ Others
  <2> DEFINE j == [job[w] EXCEPT !.pc = "pay"]
  <2>1. Typed(j)
    <3>1. job[w] \in Job /\ "pay" \in Pc
      BY <1>29, <1>4, IdleFact DEF Pc, Kind, Resume, Authority, RoutingStatus,
         FulfillmentStatus, ParentOrderStatus
    <3>2. j \in Job /\ j.pc = "pay" /\ j.vo = job[w].vo
      BY <3>1 DEF Job
    <3> QED
      BY <3>2, <1>29, <1>4, IdleFact DEF persistPartialSquareOrder, At, Typed, Holding, Resume
  <2>2. Set(w, j)
    BY <1>29 DEF persistPartialSquareOrder
  <2>3. row' \in [VendorOrder -> Row]
    BY <1>29 DEF persistPartialSquareOrder, TypeOK, Row
  <2>4. Others
    BY <1>7, <2>3, <1>29 DEF persistPartialSquareOrder
  <2> QED
    BY <2>1, <2>2, <2>4, <1>3
<1>30. ASSUME NEW w \in Worker, submitSquareExternalPayment(w) PROVE JobsTyped' /\ Others
  <2> DEFINE j == [job[w] EXCEPT !.pc = "write", !.routing = "sent"]
             k == [job[w] EXCEPT !.pc = "fail"]
  <2>1. Typed(j)
    <3>1. job[w] \in Job /\ "write" \in Pc /\ "sent" \in RoutingStatus \cup {Keep}
      BY <1>30, <1>4, IdleFact DEF Pc, Kind, Resume, Authority, RoutingStatus,
         FulfillmentStatus, ParentOrderStatus
    <3>2. j \in Job /\ j.pc = "write" /\ j.vo = job[w].vo
      BY <3>1 DEF Job
    <3> QED
      BY <3>2, <1>30, <1>4, IdleFact DEF submitSquareExternalPayment, At, Typed, Holding,
         Resume
  <2>2. Typed(k)
    <3>1. job[w] \in Job /\ "fail" \in Pc
      BY <1>30, <1>4, IdleFact DEF Pc, Kind, Resume, Authority, RoutingStatus,
         FulfillmentStatus, ParentOrderStatus
    <3>2. k \in Job /\ k.pc = "fail" /\ k.vo = job[w].vo
      BY <3>1 DEF Job
    <3> QED
      BY <3>2, <1>30, <1>4, IdleFact DEF submitSquareExternalPayment, At, Typed, Holding,
         Resume
  <2>3. Set(w, j) \/ Set(w, k)
    BY <1>30 DEF submitSquareExternalPayment
  <2>4. Others
    BY <1>5, <1>30 DEF submitSquareExternalPayment
  <2> QED
    BY <2>1, <2>2, <2>3, <2>4, <1>3
<1>31. ASSUME NEW w \in Worker, recordSquareRoutingFailure(w) PROVE JobsTyped' /\ Others
  <2> DEFINE j == [job[w] EXCEPT !.pc = "write", !.routing = "failed"]
  <2>1. Typed(j)
    <3>1. job[w] \in Job /\ "write" \in Pc /\ "failed" \in RoutingStatus \cup {Keep}
      BY <1>31, <1>4, IdleFact DEF Pc, Kind, Resume, Authority, RoutingStatus,
         FulfillmentStatus, ParentOrderStatus
    <3>2. j \in Job /\ j.pc = "write" /\ j.vo = job[w].vo
      BY <3>1 DEF Job
    <3> QED
      BY <3>2, <1>31, <1>4, IdleFact DEF recordSquareRoutingFailure, At, Typed, Holding,
         Resume
  <2>2. Typed(Done(job[w], FALSE))
    BY <1>4, DoneFact
  <2>3. Set(w, j) \/ Set(w, Done(job[w], FALSE))
    BY <1>31 DEF recordSquareRoutingFailure
  <2>4. Others
    BY <1>5, <1>31 DEF recordSquareRoutingFailure
  <2> QED
    BY <2>1, <2>2, <2>3, <2>4, <1>3
<1>32. ASSUME NEW w \in Worker, WriteVendorOrder(w) PROVE JobsTyped' /\ Others
  <2> DEFINE j == job[w]
             new == [routing     |-> Patched(j.routing, row[j.vo].routing),
                     fulfillment |-> Patched(j.fulfillment, row[j.vo].fulfillment),
                     authority   |-> Patched(j.authority, row[j.vo].authority),
                     recovered   |-> row[j.vo].recovered \/ j.kind = "recovery",
                     ext         |-> row[j.vo].ext \/ j.ext,
                     heard       |-> row[j.vo].heard \/ j.kind \in {"webhook", "recheck"}]
             k(pc) == [j EXCEPT !.pc = pc]
  <2>1. j \in Job /\ j.vo \in VendorOrder
    BY <1>32, <1>4 DEF WriteVendorOrder, At, Holding, Resume
  <2>2. new \in Row
    <3>1. /\ Patched(j.routing, row[j.vo].routing) \in RoutingStatus
          /\ Patched(j.fulfillment, row[j.vo].fulfillment) \in FulfillmentStatus
          /\ Patched(j.authority, row[j.vo].authority) \in Authority
      BY <2>1, <1>9 DEF Patched, Row, Job
    <3>2. (row[j.vo].ext \/ j.ext) \in BOOLEAN
          /\ (row[j.vo].recovered \/ j.kind = "recovery") \in BOOLEAN
          /\ (row[j.vo].heard \/ j.kind \in {"webhook", "recheck"}) \in BOOLEAN
      OBVIOUS
    <3> QED
      BY <3>1, <3>2 DEF Row
  <2>3. row' = [row EXCEPT ![j.vo] = new]
    BY <1>32 DEF WriteVendorOrder
  <2>4. row' \in [VendorOrder -> Row]
    <3> HIDE DEF new
    <3> QED
      BY <2>1, <2>2, <2>3 DEF TypeOK
  <2>5. Typed(AfterWrite(j))
    <3>1. \A pc \in {"history", "stampRead"} : Typed(k(pc))
      <4> TAKE pc \in {"history", "stampRead"}
      <4>1. k(pc) \in Job /\ k(pc).pc = pc /\ k(pc).vo = j.vo
        BY <2>1 DEF Job, Pc
      <4> QED
        BY <4>1, <2>1 DEF Typed
    <3>2. Typed(Goto(j, "derive")) /\ Typed(Done(j, TRUE)) /\ Typed(Done(j, FALSE))
      BY <2>1, GotoFact, DoneFact
    <3> HIDE DEF j
    <3> QED
      BY <3>1, <3>2 DEF AfterWrite
  <2>6. Set(w, AfterWrite(j))
    BY <1>32 DEF WriteVendorOrder
  <2>7. Others
    BY <1>7, <2>4, <1>32 DEF WriteVendorOrder
  <2> QED
    BY <2>5, <2>6, <2>7, <1>3
<1>33. ASSUME NEW w \in Worker, LogRecovery(w) PROVE JobsTyped' /\ Others
  <2>1. Typed(Goto(job[w], "derive"))
    BY <1>4, GotoFact
  <2>2. Set(w, Goto(job[w], "derive"))
    BY <1>33 DEF LogRecovery
  <2>3. logged' \subseteq VendorOrder
    BY <1>33, <1>4 DEF LogRecovery, At, Holding, Resume, TypeOK
  <2>4. Others
    BY <2>3, <1>33 DEF LogRecovery, TypeOK, kitchen, asked, Others
  <2> QED
    BY <2>1, <2>2, <2>4, <1>3
<1>34. ASSUME NEW w \in Worker, recomputeParentStatus(w) PROVE JobsTyped' /\ Others
  <2> DEFINE j == [job[w] EXCEPT !.pc = "parent", !.parent = DerivedStatus]
  <2>1. Typed(j)
    <3>1. job[w] \in Job /\ "parent" \in Pc /\ DerivedStatus \in ParentOrderStatus
      BY <1>4, IdleFact, DerivedFact DEF Pc, Kind, Resume, ParentOrderStatus, DerivedStatus
    <3>2. j \in Job /\ j.pc = "parent"
      BY <3>1 DEF Job
    <3> QED
      BY <3>2 DEF Typed, Holding, Resume
  <2>2. Typed(Goto(job[w], job[w].next))
    BY <1>4, GotoFact DEF Job
  <2>3. Set(w, j) \/ Set(w, Goto(job[w], job[w].next))
    BY <1>34 DEF recomputeParentStatus
  <2>4. Others
    BY <1>5, <1>34 DEF recomputeParentStatus
  <2> QED
    BY <2>1, <2>2, <2>3, <2>4, <1>3
<1>35. ASSUME NEW w \in Worker, PersistParentStatus(w) PROVE JobsTyped' /\ Others
  <2> DEFINE j == [job[w] EXCEPT !.pc = "trail"]
  <2>1. Typed(j)
    <3>1. job[w] \in Job /\ "trail" \in Pc
      BY <1>4, IdleFact DEF Pc, Kind, Resume, ParentOrderStatus
    <3>2. j \in Job /\ j.pc = "trail"
      BY <3>1 DEF Job
    <3> QED
      BY <3>2 DEF Typed, Holding, Resume
  <2>2. Set(w, j)
    BY <1>35 DEF PersistParentStatus
  <2>3. job[w].parent \in ParentOrderStatus
    BY <1>4 DEF Job
  <2>4. Others
    BY <2>3, <1>35 DEF PersistParentStatus, TypeOK, kitchen, asked, Others
  <2> QED
    BY <2>1, <2>2, <2>4, <1>3
<1>36. ASSUME NEW w \in Worker, AppendParentHistory(w) PROVE JobsTyped' /\ Others
  <2>1. Typed(Goto(job[w], job[w].next)) /\ job[w].parent \in ParentOrderStatus
    BY <1>4, GotoFact DEF Job
  <2>2. Set(w, Goto(job[w], job[w].next))
    BY <1>36 DEF AppendParentHistory
  <2>3. Others
    BY <2>1, <1>36 DEF AppendParentHistory, TypeOK, kitchen, asked, Others
  <2> QED
    BY <2>1, <2>2, <2>3, <1>3
<1>37. ASSUME NEW w \in Worker, Crash(w) PROVE JobsTyped' /\ Others
  <2>1. Typed(Idle)
    BY IdleFact DEF Typed, Holding, Resume
  <2>2. Set(w, Idle)
    BY <1>37 DEF Crash
  <2>3. Others
    BY <1>5, <1>37 DEF Crash
  <2> QED
    BY <2>1, <2>2, <2>3, <1>3
<1>38. ASSUME KitchenMoves PROVE JobsTyped' /\ Others
  <2>1. PICK v \in VendorOrder, state \in FulfillmentStatus :
          pos' = [pos EXCEPT ![v] = state] /\ signals' = signals \cup {<<v, state>>}
    BY <1>38 DEF KitchenMoves
  <2>2. Others
    BY <2>1, <1>38 DEF KitchenMoves, TypeOK, database, asked, Report, Others
  <2> QED
    BY <2>2, <1>1, <1>38 DEF KitchenMoves, JobsTyped, Typed
<1>39. ASSUME KitchenReplies PROVE JobsTyped' /\ Others
  <2>1. PICK v \in VendorOrder, report \in {"pending", "failed"} :
          signals' = signals \cup {<<v, report>>}
    BY <1>39 DEF KitchenReplies
  <2>2. Others
    BY <2>1, <1>39 DEF KitchenReplies, TypeOK, database, asked, Report, FulfillmentStatus,
       Others
  <2> QED
    BY <2>2, <1>1, <1>39 DEF KitchenReplies, JobsTyped, Typed
<1>40. ASSUME UNCHANGED vars PROVE JobsTyped' /\ Others
  BY <1>1, <1>5, <1>40 DEF vars, JobsTyped, Typed
<1> QED
  BY <1>10, <1>11, <1>12, <1>13, <1>14, <1>15, <1>16, <1>17, <1>18, <1>19, <1>20, <1>21,
     <1>22, <1>23, <1>24, <1>25, <1>26, <1>27, <1>28, <1>29, <1>30, <1>31, <1>32, <1>33,
     <1>34, <1>35, <1>36, <1>37, <1>38, <1>39, <1>40, <1>41, <1>42, <1>43, <1>44
     DEF Next, JobStep, Request

\* Every reachable state is of the right types, whatever the vendors' modes, the faults
\* and the number of concurrent handlers.
THEOREM TypeCorrect == Spec => []TypeOK
<1>1. Init => TypeOK
  <2> SUFFICES ASSUME Init PROVE TypeOK
    OBVIOUS
  <2>1. Typed(Idle) /\ NewRow \in Row
    BY IdleFact DEF Typed, Holding, Resume, NewRow, Row, RoutingStatus, FulfillmentStatus,
                    Authority
  <2>2. JobsTyped
    BY <2>1, IdleFact DEF Init, JobsTyped
  <2> QED
    BY <2>1, <2>2, TypeOKParts DEF Init, ParentOrderStatus, FulfillmentStatus
<1>2. TypeOK /\ [Next]_vars => TypeOK'
  BY TypeStep
<1> QED
  BY <1>1, <1>2, PTL DEF Spec

-----------------------------------------------------------------------------
(* No invented status.                                                     *)

\* What kitchens reported and persons touched only grows, and every kitchen stays in a
\* state it reported.
LEMMA Surroundings ==
  ASSUME TypeOK, \A v \in VendorOrder : pos[v] \in Told(v), [Next]_vars
  PROVE  /\ touched \subseteq touched'
         /\ \A v \in VendorOrder : Told(v) \subseteq Told(v)' /\ pos'[v] \in Told(v)'
<1>1. ASSUME UNCHANGED kitchen, touched \subseteq touched'
      PROVE  \A v \in VendorOrder : Told(v) \subseteq Told(v)' /\ pos'[v] \in Told(v)'
  BY <1>1 DEF kitchen, Told
<1>2. ASSUME NEW w \in Worker, CallDeliverect(w)
      PROVE  /\ touched \subseteq touched'
             /\ \A v \in VendorOrder : Told(v) \subseteq Told(v)' /\ pos'[v] \in Told(v)'
  <2>1. UNCHANGED <<touched, pos, signals>> /\ Mode[job[w].vo] = "deliverect"
    BY <1>2 DEF CallDeliverect, asked
  <2>2. tickets' = tickets \/ tickets' = [tickets EXCEPT ![job[w].vo] = @ + 1]
    BY <1>2 DEF CallDeliverect
  <2>3. \A v \in VendorOrder : Mode[v] = "square" => tickets'[v] = tickets[v]
    BY <2>1, <2>2 DEF TypeOK
  <2> QED
    BY <2>1, <2>3 DEF Told
<1>3. ASSUME NEW w \in Worker, CallSquare(w)
      PROVE  /\ touched \subseteq touched'
             /\ \A v \in VendorOrder : Told(v) \subseteq Told(v)' /\ pos'[v] \in Told(v)'
  <2>1. UNCHANGED <<touched, signals>> /\ Mode[job[w].vo] = "square"
    BY <1>3 DEF CallSquare, asked
  <2>2. CASE UNCHANGED <<pos, tickets>>
    BY <2>1, <2>2 DEF Told
  <2>3. CASE /\ tickets' = [tickets EXCEPT ![job[w].vo] = 1]
             /\ pos' = [pos EXCEPT ![job[w].vo] = IF tickets[job[w].vo] = 0
                                                  THEN "accepted" ELSE @]
    <3>1. \A v \in VendorOrder : tickets[v] > 0 => tickets'[v] > 0
      BY <2>3 DEF TypeOK
    <3>2. \A v \in VendorOrder : Told(v) \subseteq Told(v)'
      BY <2>1, <3>1 DEF Told
    <3>3. ASSUME NEW v \in VendorOrder, pos'[v] # pos[v]
          PROVE  pos'[v] = "accepted" /\ Mode[v] = "square" /\ tickets'[v] > 0
      BY <2>1, <2>3, <3>3 DEF TypeOK
    <3>4. \A v \in VendorOrder : pos'[v] \in Told(v)'
      BY <3>2, <3>3 DEF Told
    <3> QED
      BY <2>1, <3>2, <3>4
  <2> QED
    BY <1>3, <2>2, <2>3 DEF CallSquare
<1>4. ASSUME KitchenMoves
      PROVE  /\ touched \subseteq touched'
             /\ \A v \in VendorOrder : Told(v) \subseteq Told(v)' /\ pos'[v] \in Told(v)'
  <2>1. PICK v \in VendorOrder, state \in FulfillmentStatus :
          pos' = [pos EXCEPT ![v] = state] /\ signals' = signals \cup {<<v, state>>}
    BY <1>4 DEF KitchenMoves
  <2>2. UNCHANGED <<touched, tickets>>
    BY <1>4 DEF KitchenMoves, asked
  <2>3. \A u \in VendorOrder : Told(u) \subseteq Told(u)'
    BY <2>1, <2>2 DEF Told
  <2>4. \A u \in VendorOrder : pos'[u] \in Told(u)'
    BY <2>1, <2>3 DEF Told, TypeOK
  <2> QED
    BY <2>2, <2>3, <2>4
<1>5. ASSUME KitchenReplies
      PROVE  /\ touched \subseteq touched'
             /\ \A v \in VendorOrder : Told(v) \subseteq Told(v)' /\ pos'[v] \in Told(v)'
  <2>1. signals \subseteq signals' /\ UNCHANGED <<touched, tickets, pos>>
    BY <1>5 DEF KitchenReplies, asked
  <2> QED
    BY <2>1 DEF Told
<1>6. ASSUME NEW w \in Worker, Request(w)
      PROVE  UNCHANGED kitchen /\ touched \subseteq touched'
  BY <1>6 DEF Request, ReceivePayment, ReceiveDeliverectWebhook, ReceiveSquareWebhook,
     DashboardTransition, AdminTransition, AskRecovery, AskRetry, AskSquareSync,
     AskRecheck, Transition, asked
<1>7. ASSUME NEW w \in Worker, JobStep(w), ~CallDeliverect(w), ~CallSquare(w)
      PROVE  UNCHANGED kitchen /\ touched \subseteq touched'
  BY <1>7 DEF JobStep, LookUpDeliverectOrder, ApplyLookup, PromoteAuthority,
     FetchSquareOrder, RecoverVendorOrder, OpenRouting,
     LoadVendorOrders, SettleOrder, SubmitVendorOrder, DeliverectPrecheckFails, ReadAuthority,
     StampAuthority, persistPartialSquareOrder, submitSquareExternalPayment,
     recordSquareRoutingFailure, WriteVendorOrder, LogRecovery, recomputeParentStatus,
     PersistParentStatus, AppendParentHistory, asked
<1>8. ASSUME (\E w \in Worker : Crash(w)) \/ UNCHANGED vars
      PROVE  UNCHANGED kitchen /\ touched \subseteq touched'
  BY <1>8 DEF Crash, asked, vars
<1> QED
  BY <1>1, <1>2, <1>3, <1>4, <1>5, <1>6, <1>7, <1>8 DEF Next

\* A job that holds nothing, a job that goes on holding what it held, and a job that
\* takes up columns its kitchen reported or a person asked for.
Clear(k) == ~Holding(k.pc) /\ k.routing = Keep /\ k.fulfillment = Keep

Passes(j, k) ==
  /\ Holding(j.pc) /\ j.pc \notin {"fetch", "apply"}
  /\ Holding(k.pc) /\ k.pc \notin {"fetch", "apply", "recover"}
  /\ k.vo = j.vo /\ k.fulfillment = j.fulfillment /\ k.routing # "pending"

Takes(k) ==
  /\ Holding(k.pc) /\ k.pc \notin {"fetch", "apply", "recover"}
  /\ k.routing # "pending" /\ k.fulfillment # "pending"
  /\ \/ k.vo \in touched'
     \/ k.fulfillment = Keep
     \/ \E v \in VendorOrder : v = k.vo /\ k.fulfillment \in Told(v)'

Grown == /\ touched \subseteq touched'
         /\ \A v \in VendorOrder : Told(v) \subseteq Told(v)' /\ pos'[v] \in Told(v)'

LEMMA CarriesFact ==
  ASSUME TypeOK, NothingInvented, Grown, NEW w \in Worker, NEW k, Set(w, k),
         Clear(k) \/ Passes(job[w], k) \/ Takes(k)
  PROVE  Carries(job[w])'
<1>1. job'[w] = k /\ job[w] \in Job
  BY DEF TypeOK, Set
<1>2. Holding(job[w].pc) => job[w].vo \in VendorOrder
  BY DEF TypeOK
<1>3. Carries(job[w])
  BY DEF NothingInvented
<1>4. CASE Clear(k)
  BY <1>1, <1>4 DEF Clear, Carries, Holding, Resume, Keep
<1>5. CASE Passes(job[w], k)
  BY <1>1, <1>2, <1>3, <1>5 DEF Passes, Carries, Grown
<1>6. CASE Takes(k)
  BY <1>1, <1>6 DEF Takes, Carries
<1> QED
  BY <1>4, <1>5, <1>6

\* A job that is not part of a step keeps what it carries.
LEMMA OthersCarry ==
  ASSUME TypeOK, NothingInvented, Grown, NEW w \in Worker, job'[w] = job[w]
  PROVE  Carries(job[w])'
<1>1. Holding(job[w].pc) => job[w].vo \in VendorOrder
  BY DEF TypeOK
<1> QED
  BY <1>1 DEF NothingInvented, Carries, Grown

\* A request gives its job nothing but what a kitchen reported, a row shows or a person
\* asked for.
LEMMA RequestCarries ==
  ASSUME TypeOK, NothingInvented, Grown, NEW w \in Worker, Request(w)
  PROVE  Carries(job[w])'
<1>1. ASSUME NEW k, Set(w, k), Clear(k) \/ Takes(k)
      PROVE  Carries(job[w])'
  BY <1>1, CarriesFact
<1>2. \A v \in VendorOrder : row[v] \in Row
  BY DEF TypeOK
<1>3. CASE ReceivePayment(w)
  <2> DEFINE k == [Idle EXCEPT !.pc = "parent", !.kind = "payment", !.parent = "paid",
                               !.next = "open"]
  <2>1. Clear(k)
    BY IdleFact DEF Clear, Holding, Job
  <2> QED
    BY <1>1, <1>3, <2>1 DEF ReceivePayment
<1>4. CASE ReceiveDeliverectWebhook(w)
  <2>1. PICK v \in VendorOrder, report \in Report, id \in BOOLEAN :
          /\ <<v, report>> \in signals
          /\ LET next == mergeDeliverectMappedIntoVendorOrder(row[v].routing,
                           row[v].fulfillment, interpretNumericCode(report))
                 diff == Difference(next, row[v].routing, row[v].fulfillment)
             IN  Set(w, [Idle EXCEPT !.pc = "promote", !.kind = "webhook", !.vo = v,
                                     !.routing = diff.routing,
                                     !.fulfillment = diff.fulfillment, !.ext = id])
    BY <1>4 DEF ReceiveDeliverectWebhook
  <2> DEFINE next == mergeDeliverectMappedIntoVendorOrder(row[v].routing,
                       row[v].fulfillment, interpretNumericCode(report))
             diff == Difference(next, row[v].routing, row[v].fulfillment)
             k == [Idle EXCEPT !.pc = "promote", !.kind = "webhook", !.vo = v,
                               !.routing = diff.routing,
                               !.fulfillment = diff.fulfillment, !.ext = id]
  <2>2. row[v].routing \in RoutingStatus /\ row[v].fulfillment \in FulfillmentStatus
    BY <1>2 DEF Row
  <2>3. next \in Merged(row[v].routing, row[v].fulfillment, report)
    BY <2>2, DeliverectMerge
  <2>4. /\ diff.routing \in (RoutingStatus \ {"pending"}) \cup {Keep}
        /\ diff.fulfillment \in (FulfillmentStatus \ {"pending"}) \cup {Keep}
        /\ diff.fulfillment \in {report, Keep}
    BY <2>2, <2>3, DifferenceFact
  <2> HIDE DEF diff, next
  <2>5. diff.fulfillment \in Told(v) \cup {Keep}
    BY <2>1, <2>4 DEF Told
  <2>6. /\ k.pc = "promote" /\ k.vo = v /\ k.routing = diff.routing
        /\ k.fulfillment = diff.fulfillment
    BY IdleFact DEF Job
  <2>7. Takes(k)
    BY <2>4, <2>5, <2>6 DEF Takes, Holding, Resume, Grown, Keep
  <2>8. Set(w, k)
    BY <2>1 DEF diff, next
  <2> HIDE DEF k
  <2> QED
    BY <1>1, <2>7, <2>8
<1>5. CASE ReceiveSquareWebhook(w)
  <2>1. PICK v \in VendorOrder :
          Set(w, IF row[v].ext
                 THEN [Idle EXCEPT !.pc = "fetch", !.kind = "sync", !.vo = v,
                                   !.routing = row[v].routing,
                                   !.fulfillment = row[v].fulfillment]
                 ELSE Idle)
    BY <1>5 DEF ReceiveSquareWebhook
  <2> DEFINE k == [Idle EXCEPT !.pc = "fetch", !.kind = "sync", !.vo = v,
                               !.routing = row[v].routing, !.fulfillment = row[v].fulfillment]
  <2>2. CASE ~row[v].ext
    <3>1. Clear(Idle)
      BY IdleFact DEF Clear, Holding, Resume
    <3> QED
      BY <1>1, <2>1, <2>2, <3>1
  <2>3. CASE row[v].ext
    <3>1. k.pc = "fetch" /\ k.vo = v /\ k.fulfillment = row[v].fulfillment
      BY IdleFact DEF Job
    <3>2. job'[w] = k
      BY <2>1, <2>3 DEF TypeOK, Set
    <3>3. v \notin touched => row[v].fulfillment \in Told(v)
      BY DEF NothingInvented, NoInventedStatus
    <3> HIDE DEF k
    <3> QED
      BY <3>1, <3>2, <3>3 DEF Carries, Holding, Resume, Grown
  <2> QED
    BY <2>2, <2>3
<1>6. ASSUME NEW v \in VendorOrder, NEW kind, NEW patch \in Patch,
             Transition(w, v, kind, patch)
      PROVE  Carries(job[w])'
  <2> DEFINE k == [Idle EXCEPT !.pc = "write", !.kind = kind, !.vo = v,
                         !.routing = patch.routing, !.fulfillment = patch.fulfillment]
  <2>1. /\ k.pc = "write" /\ k.vo = v /\ k.routing = patch.routing
        /\ k.fulfillment = patch.fulfillment
    BY IdleFact DEF Job
  <2>2. patch.routing # "pending" /\ patch.fulfillment # "pending"
    BY DEF Patch, Keep
  <2>3. Set(w, k) /\ v \in touched'
    BY <1>6 DEF Transition
  <2> HIDE DEF k
  <2>4. Takes(k)
    BY <2>1, <2>2, <2>3 DEF Takes, Holding, Resume
  <2> QED
    BY <1>1, <2>3, <2>4
<1>7. CASE DashboardTransition(w)
  <2>1. PICK v \in VendorOrder, target \in Target :
          \E patch \in resolveVendorDashboardTransitionPatch(
                         row[v].routing, row[v].fulfillment, target,
                         receiptConfirmed(v), Mode[v] = "manual_dashboard") :
            Transition(w, v, "dashboard", patch)
    BY <1>7 DEF DashboardTransition
  <2> QED
    BY <1>6, <2>1, DashboardPatchFact
<1>8. CASE AdminTransition(w)
  <2>1. PICK v \in VendorOrder, target \in Target :
          Transition(w, v, "admin", targetToUpdate(target))
    BY <1>8 DEF AdminTransition
  <2> QED
    BY <1>6, <2>1, TargetFact
<1>9. CASE AskRecovery(w)
  <2>1. PICK v \in VendorOrder :
          /\ Set(w, [Idle EXCEPT !.pc = "recover", !.kind = "recovery", !.vo = v])
          /\ touched' = touched \cup {v}
    BY <1>9 DEF AskRecovery
  <2> DEFINE k == [Idle EXCEPT !.pc = "recover", !.kind = "recovery", !.vo = v]
  <2>2. k.pc = "recover" /\ k.vo = v /\ k.routing = Keep /\ k.fulfillment = Keep
    BY IdleFact DEF Job
  <2>3. job'[w] = k
    BY <2>1 DEF TypeOK, Set
  <2> HIDE DEF k
  <2> QED
    BY <2>1, <2>2, <2>3 DEF Carries, Holding, Resume, Keep
<1>10. CASE AskRetry(w)
  <2>1. PICK v \in VendorOrder :
          Set(w, [Idle EXCEPT !.pc = "each", !.kind = "retry", !.todo = {v}])
    BY <1>10 DEF AskRetry
  <2> DEFINE k == [Idle EXCEPT !.pc = "each", !.kind = "retry", !.todo = {v}]
  <2>2. k.pc = "each" /\ k.routing = Keep /\ k.fulfillment = Keep
    BY IdleFact DEF Job
  <2> HIDE DEF k
  <2>3. Clear(k)
    BY <2>2 DEF Clear, Holding, Resume
  <2> QED
    BY <1>1, <2>1, <2>3 DEF k
<1>11. CASE AskSquareSync(w)
  <2>1. PICK v \in VendorOrder :
          Set(w, [Idle EXCEPT !.pc = "fetch", !.kind = "sync", !.vo = v,
                              !.routing = row[v].routing,
                              !.fulfillment = row[v].fulfillment])
    BY <1>11 DEF AskSquareSync
  <2> DEFINE k == [Idle EXCEPT !.pc = "fetch", !.kind = "sync", !.vo = v,
                               !.routing = row[v].routing, !.fulfillment = row[v].fulfillment]
  <2>2. k.pc = "fetch" /\ k.vo = v /\ k.fulfillment = row[v].fulfillment
    BY IdleFact DEF Job
  <2>3. job'[w] = k
    BY <2>1 DEF TypeOK, Set
  <2>4. v \notin touched => row[v].fulfillment \in Told(v)
    BY DEF NothingInvented, NoInventedStatus
  <2> HIDE DEF k
  <2> QED
    BY <2>2, <2>3, <2>4 DEF Carries, Holding, Resume, Grown
<1>12. CASE AskRecheck(w)
  <2>1. PICK v \in VendorOrder :
          Set(w, [Idle EXCEPT !.pc = "lookup", !.kind = "recheck", !.vo = v])
    BY <1>12, ConstantsAssumption DEF AskRecheck
  <2> DEFINE k == [Idle EXCEPT !.pc = "lookup", !.kind = "recheck", !.vo = v]
  <2>2. k.pc = "lookup" /\ k.vo = v /\ k.routing = Keep /\ k.fulfillment = Keep
    BY IdleFact DEF Job
  <2> HIDE DEF k
  <2>3. Takes(k)
    BY <2>2 DEF Takes, Holding, Resume, Keep
  <2> QED
    BY <1>1, <2>1, <2>3 DEF k
<1> QED
  BY <1>3, <1>4, <1>5, <1>7, <1>8, <1>9, <1>10, <1>11, <1>12 DEF Request

\* A running job passes on what it holds, drops it, or takes up a POS's answer.
LEMMA JobCarries ==
  ASSUME TypeOK, NothingInvented, Grown, NEW w \in Worker, JobStep(w)
  PROVE  Carries(job[w])'
<1>1. ASSUME NEW k, Set(w, k),
             Clear(k) \/ Passes(job[w], k) \/ Takes(k)
      PROVE  Carries(job[w])'
  BY <1>1, CarriesFact
<1> DEFINE j == job[w]
<1>2. /\ j \in Job /\ Carries(j)
      /\ Holding(j.pc) => j.vo \in VendorOrder
      /\ j.pc = "fetch" => j.routing # Keep /\ j.fulfillment # Keep
      /\ j.pc = "apply" => LookedUp(j) \in Report
  BY DEF TypeOK, NothingInvented
<1>3. ~Holding(j.pc) => j.routing = Keep /\ j.fulfillment = Keep
  BY <1>2 DEF Carries
<1>4. j.pc \notin {"fetch", "apply"} => j.routing # "pending" /\ j.fulfillment # "pending"
  BY <1>2 DEF Carries
<1>5. \A pc \in Resume \cup {"derive"} : Clear(Goto(j, pc))
  BY <1>2, GotoFact DEF Clear
<1>6. \A ok \in BOOLEAN : Clear(Done(j, ok))
  BY <1>2, DoneFact DEF Clear
<1>7. j.next \in Resume
  BY <1>2 DEF Job
\* The next job of a step that keeps the vendor order and the fulfillment.
<1>8. ASSUME NEW k, Set(w, k), Holding(j.pc), j.pc \notin {"fetch", "apply"}, Holding(k.pc),
             k.pc \notin {"fetch", "apply", "recover"}, k.vo = j.vo,
             k.fulfillment = j.fulfillment, k.routing # "pending"
      PROVE  Carries(job[w])'
  BY <1>1, <1>8 DEF Passes
\* The next job of a step that held nothing and still holds nothing.
<1>9. ASSUME NEW k, Set(w, k), ~Holding(j.pc), ~Holding(k.pc),
             k.routing = j.routing, k.fulfillment = j.fulfillment
      PROVE  Carries(job[w])'
  BY <1>1, <1>3, <1>9 DEF Clear
<1>10. CASE PromoteAuthority(w)
  <2> DEFINE a == posAuthorityPromotionUpdateIfEligible(row[j.vo].authority)
             k == [j EXCEPT !.pc = "write", !.authority = a]
  <2>1. k.pc = "write" /\ k.vo = j.vo /\ k.routing = j.routing
        /\ k.fulfillment = j.fulfillment
    BY <1>2 DEF Job
  <2>2. Set(w, k) /\ j.pc = "promote"
    BY <1>10 DEF PromoteAuthority, At
  <2> HIDE DEF j, k
  <2> QED
    BY <1>4, <1>8, <2>1, <2>2 DEF Holding, Resume
<1>11. CASE FetchSquareOrder(w)
  <2> DEFINE next == mergeSquareMappedIntoVendorOrder(j.routing, j.fulfillment,
                       mapSquareOrderSnapshotToVendorStatus(pos[j.vo]))
             diff == Difference(next, j.routing, j.fulfillment)
             k == [j EXCEPT !.pc = "write", !.routing = diff.routing,
                            !.fulfillment = diff.fulfillment, !.authority = "pos"]
  <2>1. j.pc = "fetch"
    BY <1>11 DEF FetchSquareOrder, At
  <2>2. Set(w, Goto(j, "derive")) \/ Set(w, k)
    BY <1>11 DEF FetchSquareOrder
  <2>3. j.vo \in VendorOrder /\ j.routing \in RoutingStatus
        /\ j.fulfillment \in FulfillmentStatus
    BY <1>2, <2>1 DEF Job, Holding, Resume, Keep
  <2>4. pos[j.vo] \in FulfillmentStatus /\ pos[j.vo] \in Told(j.vo)
    BY <2>3 DEF TypeOK, NothingInvented
  <2>5. next \in Merged(j.routing, j.fulfillment, pos[j.vo])
    BY <2>3, <2>4, SquareMerge
  <2>6. /\ diff.routing \in (RoutingStatus \ {"pending"}) \cup {Keep}
        /\ diff.fulfillment \in (FulfillmentStatus \ {"pending"}) \cup {Keep}
        /\ diff.fulfillment \in {pos[j.vo], Keep}
    BY <2>3, <2>5, DifferenceFact
  <2> HIDE DEF diff, next
  <2>7. /\ k.pc = "write" /\ k.vo = j.vo /\ k.routing = diff.routing
        /\ k.fulfillment = diff.fulfillment
    BY <1>2 DEF Job
  <2> HIDE DEF k
  <2>8. \A v \in VendorOrder : Told(v) \subseteq Told(v)'
    BY DEF Grown
  <2>9. PICK v \in VendorOrder : v = j.vo
    BY <2>3
  <2>10. diff.fulfillment = Keep \/ diff.fulfillment \in Told(v)'
    BY <2>4, <2>6, <2>8, <2>9
  <2> HIDE DEF j
  <2>11. Takes(k)
    BY <2>6, <2>7, <2>9, <2>10 DEF Takes, Holding, Resume, Keep
  <2> QED
    BY <1>1, <1>5, <2>2, <2>11
<1>12. CASE RecoverVendorOrder(w)
  <2> DEFINE k == [j EXCEPT !.pc = "write", !.fulfillment = "accepted",
                            !.authority = "admin_override"]
  <2>1. j.pc = "recover" /\ (Set(w, k) \/ Set(w, Idle))
    BY <1>12 DEF RecoverVendorOrder, At
  <2>2. k.pc = "write" /\ k.vo = j.vo /\ k.routing = j.routing
        /\ k.fulfillment = "accepted"
    BY <1>2 DEF Job
  <2>3. j.vo \in touched' /\ j.routing # "pending"
    BY <1>2, <2>1 DEF Carries, Grown
  <2>4. Clear(Idle)
    BY IdleFact DEF Clear, Holding, Resume
  <2> HIDE DEF k
  <2>5. Takes(k)
    BY <2>2, <2>3 DEF Takes, Holding, Resume
  <2> QED
    BY <1>1, <2>1, <2>4, <2>5
<1>13. CASE OpenRouting(w)
  <2> DEFINE k == [j EXCEPT !.pc = "parent", !.parent = "routing", !.next = "load"]
  <2>1. k.pc = "parent" /\ k.routing = j.routing /\ k.fulfillment = j.fulfillment
    BY <1>2 DEF Job
  <2>2. Set(w, k) /\ j.pc = "open"
    BY <1>13 DEF OpenRouting, At
  <2> HIDE DEF j, k
  <2> QED
    BY <1>9, <2>1, <2>2 DEF Holding, Resume
<1>14. CASE LoadVendorOrders(w)
  <2> DEFINE k == [j EXCEPT !.pc = "each", !.next = "each",
                            !.todo = {v \in VendorOrder : row[v].routing = "pending"}]
  <2>1. k.pc = "each" /\ k.routing = j.routing /\ k.fulfillment = j.fulfillment
    BY <1>2 DEF Job
  <2>2. Set(w, k) /\ j.pc = "load"
    BY <1>14 DEF LoadVendorOrders, At
  <2> HIDE DEF j, k
  <2> QED
    BY <1>9, <2>1, <2>2 DEF Holding, Resume
<1>15. CASE SettleOrder(w)
  <2> DEFINE k == [j EXCEPT !.pc = "parent", !.parent = DerivedStatusFromHistory,
                            !.next = "idle"]
  <2>1. k.pc = "parent" /\ k.routing = j.routing /\ k.fulfillment = j.fulfillment
    BY <1>2 DEF Job
  <2>2. Set(w, k) /\ j.pc = "each"
    BY <1>15 DEF SettleOrder, At
  <2> HIDE DEF j, k
  <2> QED
    BY <1>9, <2>1, <2>2 DEF Holding, Resume
<1>16. CASE SubmitVendorOrder(w)
  <2>1. PICK v \in j.todo :
          LET i == [j EXCEPT !.vo = v, !.todo = @ \ {v}, !.routing = Keep,
                             !.authority = Keep, !.ext = FALSE]
          IN  Set(w, IF Mode[v] = "deliverect" THEN SubmitToDeliverect(i, v)
                     ELSE IF Mode[v] = "square" THEN SubmitToSquare(i, v)
                     ELSE SubmitManually(i, v))
    BY <1>16 DEF SubmitVendorOrder
  <2> DEFINE i == [j EXCEPT !.vo = v, !.todo = @ \ {v}, !.routing = Keep,
                            !.authority = Keep, !.ext = FALSE]
  <2>2. j.pc = "each" /\ j.fulfillment = Keep
    BY <1>3, <1>16 DEF SubmitVendorOrder, At, Holding, Resume
  <2>3. i \in Job /\ v \in VendorOrder /\ i.vo = v /\ i.routing = Keep
        /\ i.fulfillment = Keep
    BY <1>2, <2>2 DEF Job, Authority
  <2> HIDE DEF i
  <2>4. \A ok \in BOOLEAN : Clear(Done(i, ok))
    BY <2>3, DoneFact DEF Clear
  \* A submission carries no fulfillment.
  <2>5. ASSUME NEW k, Set(w, k), Holding(k.pc), k.pc \notin {"fetch", "apply", "recover"},
               k.routing # "pending", k.fulfillment = Keep
        PROVE  Carries(job[w])'
    BY <1>1, <2>5 DEF Takes, Keep
  <2>6. CASE Mode[v] = "deliverect"
    <3> DEFINE s == [i EXCEPT !.pc = "stampRead"]
               c == [i EXCEPT !.pc = "call",
                       !.routing = IF row[v].routing = "pending" THEN "failed" ELSE Keep]
    <3>1. Set(w, Done(i, FALSE)) \/ Set(w, s) \/ Set(w, c)
      BY <2>1, <2>6 DEF SubmitToDeliverect, i
    <3>2. s.pc = "stampRead" /\ s.routing = Keep /\ s.fulfillment = Keep
      BY <2>3 DEF Job
    <3>3. c.pc = "call" /\ c.routing # "pending" /\ c.fulfillment = Keep
      BY <2>3 DEF Job, Keep
    <3> HIDE DEF s, c, j
    <3> QED
      BY <1>1, <2>4, <2>5, <3>1, <3>2, <3>3 DEF Holding, Resume, Keep
  <2>7. CASE Mode[v] = "square"
    <3> DEFINE p == [i EXCEPT !.pc = IF row[v].ext THEN "pay" ELSE "call"]
    <3>1. Set(w, Done(i, TRUE)) \/ Set(w, p)
      BY <2>1, <2>7 DEF SubmitToSquare, i
    <3>2. p.pc \in {"pay", "call"} /\ p.routing = Keep /\ p.fulfillment = Keep
      BY <2>3 DEF Job
    <3> HIDE DEF p, j
    <3> QED
      BY <1>1, <2>4, <2>5, <3>1, <3>2 DEF Holding, Resume, Keep
  <2>8. CASE Mode[v] \notin {"deliverect", "square"}
    <3> DEFINE m == [i EXCEPT !.pc = "write", !.routing = "confirmed", !.authority =
                                IF row[v].authority = "none" THEN "vendor_manual" ELSE Keep]
    <3>1. Set(w, m)
      BY <2>1, <2>8 DEF SubmitManually, i
    <3>2. m.pc = "write" /\ m.routing = "confirmed" /\ m.fulfillment = Keep
      BY <2>3 DEF Job
    <3> HIDE DEF m, j
    <3> QED
      BY <2>5, <3>1, <3>2 DEF Holding, Resume
  <2> QED
    BY <2>6, <2>7, <2>8
<1>17. CASE DeliverectPrecheckFails(w)
  <2> DEFINE k == [j EXCEPT !.pc = "write", !.routing = "failed"]
  <2>1. k.pc = "write" /\ k.vo = j.vo /\ k.routing = "failed"
        /\ k.fulfillment = j.fulfillment
    BY <1>2 DEF Job
  <2>2. (Set(w, k) \/ Set(w, Done(j, FALSE))) /\ j.pc = "call"
    BY <1>17 DEF DeliverectPrecheckFails, At
  <2> HIDE DEF j, k
  <2> QED
    BY <1>1, <1>6, <1>8, <2>1, <2>2 DEF Holding, Resume
<1>18. CASE CallDeliverect(w)
  <2> DEFINE k == [j EXCEPT !.pc = "write"]
             a(id) == [j EXCEPT !.pc = "write", !.routing = "sent", !.ext = id]
  <2>1. k.pc = "write" /\ k.vo = j.vo /\ k.routing = j.routing
        /\ k.fulfillment = j.fulfillment
    BY <1>2 DEF Job
  <2>2. \A id \in BOOLEAN : /\ a(id).pc = "write" /\ a(id).vo = j.vo
                            /\ a(id).routing = "sent" /\ a(id).fulfillment = j.fulfillment
    BY <1>2 DEF Job
  <2>3. (Set(w, k) \/ \E id \in BOOLEAN : Set(w, a(id))) /\ j.pc = "call"
    BY <1>18 DEF CallDeliverect, At
  <2> HIDE DEF j, k, a
  <2> QED
    BY <1>4, <1>8, <2>1, <2>2, <2>3 DEF Holding, Resume
<1>19. CASE ReadAuthority(w)
  <2> DEFINE a == row[j.vo].authority
             k == [j EXCEPT !.pc = "stamp",
                            !.authority = IF a = "none" THEN "vendor_manual" ELSE Keep]
  <2>1. k.pc = "stamp" /\ k.vo = j.vo /\ k.routing = j.routing
        /\ k.fulfillment = j.fulfillment
    BY <1>2 DEF Job
  <2>2. Set(w, k) /\ j.pc = "stampRead"
    BY <1>19 DEF ReadAuthority, At
  <2> HIDE DEF j, k
  <2> QED
    BY <1>4, <1>8, <2>1, <2>2 DEF Holding, Resume
<1>20. CASE StampAuthority(w)
  BY <1>1, <1>6, <1>20 DEF StampAuthority
<1>21. CASE CallSquare(w)
  <2> DEFINE k(pc) == [j EXCEPT !.pc = pc]
  <2>1. \A pc \in Pc : /\ k(pc).pc = pc /\ k(pc).vo = j.vo /\ k(pc).routing = j.routing
                       /\ k(pc).fulfillment = j.fulfillment
    BY <1>2 DEF Job
  <2>2. (Set(w, k("partial")) \/ Set(w, k("fail"))) /\ j.pc = "call"
    BY <1>21 DEF CallSquare, At
  <2>3. {"partial", "fail"} \subseteq Pc
    BY DEF Pc
  <2> HIDE DEF j, k
  <2> QED
    BY <1>4, <1>8, <2>1, <2>2, <2>3 DEF Holding, Resume
<1>22. CASE persistPartialSquareOrder(w)
  <2> DEFINE k == [j EXCEPT !.pc = "pay"]
  <2>1. k.pc = "pay" /\ k.vo = j.vo /\ k.routing = j.routing
        /\ k.fulfillment = j.fulfillment
    BY <1>2 DEF Job
  <2>2. Set(w, k) /\ j.pc = "partial"
    BY <1>22 DEF persistPartialSquareOrder, At
  <2> HIDE DEF j, k
  <2> QED
    BY <1>4, <1>8, <2>1, <2>2 DEF Holding, Resume
<1>23. CASE submitSquareExternalPayment(w)
  <2> DEFINE k == [j EXCEPT !.pc = "write", !.routing = "sent"]
             f == [j EXCEPT !.pc = "fail"]
  <2>1. k.pc = "write" /\ k.vo = j.vo /\ k.routing = "sent"
        /\ k.fulfillment = j.fulfillment
    BY <1>2 DEF Job
  <2>2. f.pc = "fail" /\ f.vo = j.vo /\ f.routing = j.routing
        /\ f.fulfillment = j.fulfillment
    BY <1>2 DEF Job
  <2>3. (Set(w, k) \/ Set(w, f)) /\ j.pc = "pay"
    BY <1>23 DEF submitSquareExternalPayment, At
  <2> HIDE DEF j, k, f
  <2> QED
    BY <1>4, <1>8, <2>1, <2>2, <2>3 DEF Holding, Resume
<1>24. CASE recordSquareRoutingFailure(w)
  <2> DEFINE k == [j EXCEPT !.pc = "write", !.routing = "failed"]
  <2>1. k.pc = "write" /\ k.vo = j.vo /\ k.routing = "failed"
        /\ k.fulfillment = j.fulfillment
    BY <1>2 DEF Job
  <2>2. (Set(w, k) \/ Set(w, Done(j, FALSE))) /\ j.pc = "fail"
    BY <1>24 DEF recordSquareRoutingFailure, At
  <2> HIDE DEF j, k
  <2> QED
    BY <1>1, <1>6, <1>8, <2>1, <2>2 DEF Holding, Resume
<1>25. CASE WriteVendorOrder(w)
  <2> DEFINE h == [j EXCEPT !.pc = "history"]
             s == [j EXCEPT !.pc = "stampRead"]
  <2>1. h.pc = "history" /\ h.vo = j.vo /\ h.routing = j.routing
        /\ h.fulfillment = j.fulfillment
    BY <1>2 DEF Job
  <2>2. s.pc = "stampRead" /\ s.vo = j.vo /\ s.routing = j.routing
        /\ s.fulfillment = j.fulfillment
    BY <1>2 DEF Job
  <2>3. Set(w, AfterWrite(j)) /\ j.pc = "write"
    BY <1>25 DEF WriteVendorOrder, At
  <2>4. \/ Clear(AfterWrite(j))
        \/ AfterWrite(j) = h \/ AfterWrite(j) = s
    BY <1>5, <1>6 DEF AfterWrite
  <2> HIDE DEF j, h, s
  <2> QED
    BY <1>1, <1>4, <1>8, <2>1, <2>2, <2>3, <2>4 DEF Holding, Resume
<1>26. CASE LogRecovery(w)
  BY <1>1, <1>5, <1>26 DEF LogRecovery
<1>27. CASE recomputeParentStatus(w)
  <2> DEFINE k == [j EXCEPT !.pc = "parent", !.parent = DerivedStatus]
  <2>1. k.pc = "parent" /\ k.routing = j.routing /\ k.fulfillment = j.fulfillment
    BY <1>2 DEF Job
  <2>2. (Set(w, k) \/ Set(w, Goto(j, j.next))) /\ j.pc = "derive"
    BY <1>27 DEF recomputeParentStatus, At
  <2> HIDE DEF j, k
  <2> QED
    BY <1>1, <1>5, <1>7, <1>9, <2>1, <2>2 DEF Holding
<1>28. CASE PersistParentStatus(w)
  <2> DEFINE k == [j EXCEPT !.pc = "trail"]
  <2>1. k.pc = "trail" /\ k.routing = j.routing /\ k.fulfillment = j.fulfillment
    BY <1>2 DEF Job
  <2>2. Set(w, k) /\ j.pc = "parent"
    BY <1>28 DEF PersistParentStatus, At
  <2> HIDE DEF j, k
  <2> QED
    BY <1>9, <2>1, <2>2 DEF Holding
<1>29. CASE AppendParentHistory(w)
  BY <1>1, <1>5, <1>7, <1>29 DEF AppendParentHistory
\* What Deliverect answers is what the kitchen does.
<1>30. CASE LookUpDeliverectOrder(w)
  <2> DEFINE told == [j EXCEPT !.pc = "apply", !.fulfillment = pos[j.vo]]
             refused == [j EXCEPT !.pc = "apply", !.routing = "failed"]
  <2>1. j.pc = "lookup" /\ (Set(w, told) \/ Set(w, refused) \/ Set(w, Idle))
    BY <1>30 DEF LookUpDeliverectOrder, At
  <2>2. PICK v \in VendorOrder : v = j.vo
    BY <1>2, <2>1 DEF Holding, Resume
  <2>3. pos[v] \in Told(v) /\ Told(v) \subseteq Told(v)'
    BY DEF NothingInvented, Grown
  <2>4. v \notin touched' => v \notin touched
    BY DEF Grown
  <2>5. v \notin touched => j.fulfillment \in Told(v) \cup {Keep}
    BY <1>2, <2>1, <2>2 DEF Carries, Holding, Resume
  <2>6. /\ told.pc = "apply" /\ told.vo = v /\ told.fulfillment = pos[v]
        /\ refused.pc = "apply" /\ refused.vo = v /\ refused.fulfillment = j.fulfillment
    BY <1>2, <2>2 DEF Job
  <2>7. Set(w, told) => job'[w] = told
    BY DEF Set, TypeOK
  <2>8. Set(w, refused) => job'[w] = refused
    BY DEF Set, TypeOK
  <2>9. Clear(Idle)
    BY IdleFact DEF Clear, Holding, Resume
  <2> HIDE DEF j, told, refused
  <2>10. Set(w, told) => Carries(job[w])'
    BY <2>3, <2>6, <2>7 DEF Carries, Holding, Resume
  <2>11. Set(w, refused) => Carries(job[w])'
    BY <2>3, <2>4, <2>5, <2>6, <2>8 DEF Carries, Holding, Resume
  <2> QED
    BY <1>1, <2>1, <2>9, <2>10, <2>11
<1>31. CASE ApplyLookup(w)
  <2> DEFINE r == row[j.vo].routing
             f == row[j.vo].fulfillment
             next == mergeDeliverectMappedIntoVendorOrder(r, f, interpretNumericCode(LookedUp(j)))
             diff == Difference(next, r, f)
             k == [j EXCEPT !.pc = "promote", !.routing = diff.routing,
                            !.fulfillment = diff.fulfillment]
  <2>1. j.pc = "apply" /\ Set(w, k)
    BY <1>31 DEF ApplyLookup, At
  <2>2. PICK v \in VendorOrder : v = j.vo
    BY <1>2, <2>1 DEF Holding, Resume
  <2>3. r \in RoutingStatus /\ f \in FulfillmentStatus
    BY <2>2 DEF TypeOK, Row
  <2>4. next \in Merged(r, f, LookedUp(j))
    BY <1>2, <2>1, <2>3, DeliverectMerge
  <2>5. /\ diff.routing \in (RoutingStatus \ {"pending"}) \cup {Keep}
        /\ diff.fulfillment \in (FulfillmentStatus \ {"pending"}) \cup {Keep}
        /\ diff.fulfillment \in {LookedUp(j), Keep}
    BY <2>3, <2>4, DifferenceFact
  <2> HIDE DEF diff, next
  <2>6. /\ k.pc = "promote" /\ k.vo = v /\ k.routing = diff.routing
        /\ k.fulfillment = diff.fulfillment
    BY <1>2, <2>2 DEF Job
  <2>7. "failed" \notin FulfillmentStatus /\ "failed" # Keep
    BY DEF FulfillmentStatus, Keep
  <2>8. diff.fulfillment = Keep \/ diff.fulfillment = j.fulfillment
    BY <2>5, <2>7 DEF LookedUp
  <2>9. v \notin touched' => /\ v \notin touched
                             /\ Told(v) \subseteq Told(v)'
    BY DEF Grown
  <2>10. v \notin touched => j.fulfillment \in Told(v) \cup {Keep}
    BY <1>2, <2>1, <2>2 DEF Carries, Holding, Resume
  <2> HIDE DEF j, k
  <2>11. Takes(k)
    BY <2>5, <2>6, <2>8, <2>9, <2>10 DEF Takes, Holding, Resume, Keep
  <2> QED
    BY <1>1, <2>1, <2>11
<1> QED
  BY <1>10, <1>11, <1>12, <1>13, <1>14, <1>15, <1>16, <1>17, <1>18, <1>19, <1>20, <1>21,
     <1>22, <1>23, <1>24, <1>25, <1>26, <1>27, <1>28, <1>29, <1>30, <1>31 DEF JobStep

\* A step of one worker's job, or of the kitchens, leaves the jobs of the others alone.
LEMMA OneJobAtATime ==
  ASSUME TypeOK, [Next]_vars
  PROVE  \/ UNCHANGED job
         \/ \E w \in Worker : /\ Request(w) \/ JobStep(w) \/ Crash(w)
                              /\ \A u \in Worker : u # w => job'[u] = job[u]
<1>1. ASSUME NEW w \in Worker, NEW j, Set(w, j)
      PROVE  \A u \in Worker : u # w => job'[u] = job[u]
  BY <1>1 DEF TypeOK, Set
<1>2. ASSUME NEW w \in Worker, Request(w)
      PROVE  \A u \in Worker : u # w => job'[u] = job[u]
  <2>1. \E j : Set(w, j)
    BY <1>2 DEF Request, ReceivePayment, ReceiveDeliverectWebhook, ReceiveSquareWebhook,
       DashboardTransition, AdminTransition, AskRecovery, AskRetry, AskSquareSync,
       AskRecheck, Transition
  <2> QED
    BY <1>1, <2>1
<1>3. ASSUME NEW w \in Worker, JobStep(w)
      PROVE  \A u \in Worker : u # w => job'[u] = job[u]
  <2>1. \E j : Set(w, j)
    BY <1>3 DEF JobStep, LookUpDeliverectOrder, ApplyLookup, PromoteAuthority,
     FetchSquareOrder, RecoverVendorOrder, OpenRouting,
       LoadVendorOrders, SettleOrder, SubmitVendorOrder, DeliverectPrecheckFails,
       CallDeliverect, ReadAuthority, StampAuthority, CallSquare, persistPartialSquareOrder,
       submitSquareExternalPayment, recordSquareRoutingFailure, WriteVendorOrder, LogRecovery,
       recomputeParentStatus, PersistParentStatus, AppendParentHistory
  <2> QED
    BY <1>1, <2>1
<1>4. ASSUME NEW w \in Worker, Crash(w)
      PROVE  \A u \in Worker : u # w => job'[u] = job[u]
  BY <1>1, <1>4 DEF Crash
<1>5. ASSUME KitchenMoves \/ KitchenReplies \/ UNCHANGED vars PROVE UNCHANGED job
  BY <1>5 DEF KitchenMoves, KitchenReplies, vars
<1> QED
  BY <1>2, <1>3, <1>4, <1>5 DEF Next

\* Only WriteVendorOrder changes a status column, to what its job holds.
RowWritten(v, w) ==
  /\ job[w].pc = "write" /\ job[w].vo = v
  /\ row'[v].routing = Patched(job[w].routing, row[v].routing)
  /\ row'[v].fulfillment = Patched(job[w].fulfillment, row[v].fulfillment)

LEMMA RowsChange ==
  ASSUME TypeOK, [Next]_vars, NEW v \in VendorOrder
  PROVE  \/ /\ row'[v].routing = row[v].routing
            /\ row'[v].fulfillment = row[v].fulfillment
         \/ \E w \in Worker : RowWritten(v, w)
<1> DEFINE Same == /\ row'[v].routing = row[v].routing
                   /\ row'[v].fulfillment = row[v].fulfillment
<1>1. row \in [VendorOrder -> Row] /\ row[v] \in Row
  BY DEF TypeOK
<1>2. UNCHANGED row => Same
  OBVIOUS
<1>3. ASSUME NEW w \in Worker, StampAuthority(w) PROVE Same
  <2>1. row' = [row EXCEPT ![job[w].vo].authority = Patched(job[w].authority, @)]
    BY <1>3 DEF StampAuthority
  <2> QED
    BY <1>1, <2>1 DEF Row
<1>4. ASSUME NEW w \in Worker, persistPartialSquareOrder(w) PROVE Same
  <2>1. row' = [row EXCEPT ![job[w].vo].ext = TRUE]
    BY <1>4 DEF persistPartialSquareOrder
  <2> QED
    BY <1>1, <2>1 DEF Row
<1>5. ASSUME NEW w \in Worker, WriteVendorOrder(w) PROVE Same \/ RowWritten(v, w)
  <2>1. /\ job[w].pc = "write"
        /\ row' = [row EXCEPT ![job[w].vo] =
                     [routing     |-> Patched(job[w].routing, @.routing),
                      fulfillment |-> Patched(job[w].fulfillment, @.fulfillment),
                      authority   |-> Patched(job[w].authority, @.authority),
                      recovered   |-> @.recovered \/ job[w].kind = "recovery",
                      ext         |-> @.ext \/ job[w].ext,
                      heard       |-> @.heard \/ job[w].kind \in {"webhook", "recheck"}]]
    BY <1>5 DEF WriteVendorOrder, At
  <2>2. CASE job[w].vo = v
    BY <1>1, <2>1, <2>2 DEF RowWritten
  <2>3. CASE job[w].vo # v
    BY <1>1, <2>1, <2>3
  <2> QED
    BY <2>2, <2>3
<1>6. ASSUME NEW w \in Worker, Request(w) PROVE UNCHANGED row
  BY <1>6 DEF Request, ReceivePayment, ReceiveDeliverectWebhook, ReceiveSquareWebhook,
     DashboardTransition, AdminTransition, AskRecovery, AskRetry, AskSquareSync,
     AskRecheck, database
<1>7. ASSUME NEW w \in Worker, JobStep(w), ~StampAuthority(w), ~WriteVendorOrder(w),
             ~persistPartialSquareOrder(w)
      PROVE  UNCHANGED row
  BY <1>7 DEF JobStep, LookUpDeliverectOrder, ApplyLookup, PromoteAuthority,
     FetchSquareOrder, RecoverVendorOrder, OpenRouting,
     LoadVendorOrders, SettleOrder, SubmitVendorOrder, DeliverectPrecheckFails,
     CallDeliverect, ReadAuthority, CallSquare, submitSquareExternalPayment,
     recordSquareRoutingFailure, LogRecovery, recomputeParentStatus, PersistParentStatus,
     AppendParentHistory, database
<1>8. ASSUME (\E w \in Worker : Crash(w)) \/ KitchenMoves \/ KitchenReplies \/ UNCHANGED vars
      PROVE  UNCHANGED row
  BY <1>8 DEF Crash, KitchenMoves, KitchenReplies, vars, database
<1> HIDE DEF Same
<1>9. Same \/ \E w \in Worker : RowWritten(v, w)
  BY <1>2, <1>3, <1>4, <1>5, <1>6, <1>7, <1>8 DEF Next
<1> QED
  BY <1>9 DEF Same

LEMMA NothingInventedInit ==
  ASSUME Init
  PROVE  NothingInvented
<1>1. \A w \in Worker : job[w] = Idle
  BY DEF Init
<1>2. Carries(Idle)
  BY IdleFact DEF Carries, Holding, Resume, Keep
<1>3. \A v \in VendorOrder : pos[v] = "pending" /\ row[v].fulfillment = "pending"
  BY DEF Init, NewRow
<1> QED
  BY <1>1, <1>2, <1>3 DEF NothingInvented, NoInventedStatus, Told

LEMMA NothingInventedStep ==
  ASSUME TypeOK, NothingInvented, [Next]_vars
  PROVE  NothingInvented'
<1>1. Grown
  BY Surroundings DEF Grown, NothingInvented
<1>2. ASSUME NEW u \in Worker PROVE Carries(job[u])'
  <2>1. CASE job'[u] = job[u]
    BY <1>1, <2>1, OthersCarry
  <2>2. CASE job'[u] # job[u]
    <3>1. Request(u) \/ JobStep(u) \/ Crash(u)
      BY <2>2, OneJobAtATime
    <3>2. CASE Request(u)
      BY <1>1, <3>2, RequestCarries
    <3>3. CASE JobStep(u)
      BY <1>1, <3>3, JobCarries
    <3>4. CASE Crash(u)
      <4>1. Clear(Idle) /\ Set(u, Idle)
        BY <3>4, IdleFact DEF Clear, Holding, Resume, Crash
      <4> QED
        BY <1>1, <4>1, CarriesFact
    <3> QED
      BY <3>1, <3>2, <3>3, <3>4
  <2> QED
    BY <2>1, <2>2
<1>3. ASSUME NEW v \in VendorOrder, v \notin touched'
      PROVE  row'[v].fulfillment \in Told(v)'
  <2>1. v \notin touched /\ Told(v) \subseteq Told(v)' /\ row[v].fulfillment \in Told(v)
    BY <1>1, <1>3 DEF Grown, NothingInvented, NoInventedStatus
  <2>2. CASE row'[v].fulfillment = row[v].fulfillment
    BY <2>1, <2>2
  <2>3. ASSUME NEW w \in Worker, RowWritten(v, w)
        PROVE  row'[v].fulfillment \in Told(v)'
    <3>1. Carries(job[w]) /\ Holding(job[w].pc) /\ job[w].vo = v
      BY <2>3 DEF NothingInvented, RowWritten, Holding, Resume
    <3>2. job[w].fulfillment \in Told(v) \cup {Keep}
      BY <2>1, <3>1 DEF Carries
    <3> QED
      BY <2>1, <2>3, <3>2 DEF RowWritten, Patched
  <2> QED
    BY <2>2, <2>3, RowsChange
<1> QED
  BY <1>1, <1>2, <1>3 DEF NothingInvented, NoInventedStatus, Grown

\* At every moment, whatever jobs interleave or crash: what jobs carry, kitchens do and
\* rows show was reported by a kitchen or asked for by a person.
THEOREM NothingInventedHolds == Spec => []NothingInvented
<1>1. Init => NothingInvented
  BY NothingInventedInit
<1>2. TypeOK /\ NothingInvented /\ [Next]_vars => NothingInvented'
  BY NothingInventedStep
<1> QED
  BY <1>1, <1>2, TypeCorrect, PTL DEF Spec

\* A vendor order no person acted on shows a state its kitchen really was in.
THEOREM NoInventedStatusHolds == Spec => []NoInventedStatus
<1>1. NothingInvented => NoInventedStatus
  BY DEF NothingInvented
<1> QED
  BY <1>1, NothingInventedHolds, PTL

\* A vendor order that was handed off, or started, is never written back to "pending".
THEOREM StartedStaysStartedHolds == Spec => StartedStaysStarted
<1> DEFINE Started == \A v \in VendorOrder :
             /\ row[v].routing # "pending" => row'[v].routing # "pending"
             /\ row[v].fulfillment # "pending" => row'[v].fulfillment # "pending"
<1>1. ASSUME TypeOK, NothingInvented, [Next]_vars PROVE Started
  <2>1. ASSUME NEW v \in VendorOrder, NEW w \in Worker, RowWritten(v, w)
        PROVE  /\ row[v].routing # "pending" => row'[v].routing # "pending"
               /\ row[v].fulfillment # "pending" => row'[v].fulfillment # "pending"
    <3>1. Carries(job[w]) /\ job[w].pc = "write"
      BY <1>1, <2>1 DEF NothingInvented, RowWritten
    <3>2. job[w].routing # "pending" /\ job[w].fulfillment # "pending"
      BY <3>1 DEF Carries
    <3> QED
      BY <2>1, <3>2 DEF RowWritten, Patched
  <2> QED
    BY <1>1, <2>1, RowsChange
<1>2. TypeOK /\ NothingInvented /\ [Next]_vars => [Started]_vars
  BY <1>1
<1> QED
  BY <1>2, TypeCorrect, NothingInventedHolds, PTL DEF Spec, StartedStaysStarted
=============================================================================
