---------------------- MODULE VendorOrdersSerialProofs ----------------------
(***************************************************************************)
(* What VendorOrders.tla guarantees when one worker runs one handler at a  *)
(* time, proved for any vendor orders, routing modes and bounds.           *)
(***************************************************************************)
EXTENDS VendorOrdersProofs

\* One worker: a request is answered before the next one is taken.
Alone == \E w : Worker = {w}

LEMMA JobIsSet ==
  ASSUME TypeOK, NEW w \in Worker, NEW k, Set(w, k)
  PROVE  job'[w] = k
BY DEF TypeOK, Set

-----------------------------------------------------------------------------
(* The pure rules.                                                         *)

LEMMA RankFact ==
  /\ \A f \in FulfillmentStatus : FULFILLMENT_RANK[f] \in 0..100
  /\ \A f, g \in FulfillmentStatus : FULFILLMENT_RANK[f] = FULFILLMENT_RANK[g] => f = g
  /\ Rank("pending") = 0 /\ Rank("cancelled") = 100
  /\ \A f \in FulfillmentStatus \ {"cancelled"} : Rank(f) <= 4
  /\ \A f \in FulfillmentStatus \ {"pending"} : Rank(f) >= 1
  /\ Rank("completed") = 4
BY DEF Rank, FULFILLMENT_RANK, FulfillmentStatus

\* Of two kitchen states the further one stands as far as both.
LEMMA FurtherAdvances ==
  ASSUME NEW f \in FulfillmentStatus \ {"cancelled"}, NEW g \in FulfillmentStatus
  PROVE  /\ Advances(f, Further(f, g))
         /\ Rank(Further(f, g)) >= Rank(g)
<1>1. FULFILLMENT_RANK[f] \in 0..100 /\ FULFILLMENT_RANK[g] \in 0..100
  BY RankFact
<1> QED
  BY <1>1 DEF Further, Advances, Rank

\* A merge that changes a column patches it to what it merged.
LEMMA DifferencePatches ==
  ASSUME NEW r \in RoutingStatus, NEW f \in FulfillmentStatus,
         NEW n \in [routing : RoutingStatus, fulfillment : FulfillmentStatus]
  PROVE  /\ Patched(Difference(n, r, f).fulfillment, f) = n.fulfillment
         /\ Difference(n, r, f).routing # Keep => Difference(n, r, f).routing = n.routing
                                                  /\ n.routing # r
BY DEF Difference, Patched, Keep, FulfillmentStatus

\* A Deliverect report advances a row, as far as the state it reports, and makes its
\* routing "failed" only when it reports a failure.
LEMMA DeliverectAdvances ==
  ASSUME NEW r \in RoutingStatus, NEW f \in FulfillmentStatus, NEW report \in Report
  PROVE  LET n == mergeDeliverectMappedIntoVendorOrder(r, f, interpretNumericCode(report))
             d == Difference(n, r, f)
         IN  /\ Advances(f, Patched(d.fulfillment, f))
             /\ report \in FulfillmentStatus => Rank(Patched(d.fulfillment, f)) >= Rank(report)
             /\ d.routing = "failed" => report = "failed"
<1> DEFINE m == interpretNumericCode(report)
           n == mergeDeliverectMappedIntoVendorOrder(r, f, m)
<1>1. n \in [routing : RoutingStatus, fulfillment : FulfillmentStatus]
  BY DeliverectMerge DEF Merged
<1>2. /\ Advances(f, n.fulfillment)
      /\ report \in FulfillmentStatus => Rank(n.fulfillment) >= Rank(report)
      /\ n.routing = "failed" /\ n.routing # r => report = "failed"
  <2>1. CASE report = "failed"
    <3>1. m = [routing |-> "failed", fulfillment |-> "pending"]
      BY <2>1 DEF interpretNumericCode
    <3>2. n.fulfillment = f
      BY <3>1 DEF mergeDeliverectMappedIntoVendorOrder
    <3> QED
      BY <2>1, <3>2 DEF Advances, FulfillmentStatus
  <2>2. CASE report # "failed"
    <3>1. report \in FulfillmentStatus
      BY <2>2 DEF Report
    <3>2. m = [routing |-> "confirmed", fulfillment |-> report]
      BY <2>2 DEF interpretNumericCode
    <3>3. Rank(f) \in 0..100 /\ Rank(report) \in 0..100
      BY <3>1, RankFact DEF Rank
    <3>4. CASE r = "failed" /\ f = "pending" /\ report \in Active \cup {"completed"}
      <4>1. n = [routing |-> "confirmed", fulfillment |-> report]
        BY <3>2, <3>4 DEF mergeDeliverectMappedIntoVendorOrder
      <4>2. Rank(f) = 0 /\ Rank(report) >= 1
        BY <3>1, <3>4, RankFact DEF Active
      <4> QED
        BY <4>1, <4>2, <3>3, <3>4 DEF Advances, Rank
    <3>5. CASE ~(r = "failed" /\ f = "pending" /\ report \in Active \cup {"completed"})
      <4> DEFINE ff == IF report = "cancelled" THEN "cancelled"
                       ELSE IF f \in Terminal THEN f ELSE Further(f, report)
      <4>1. /\ n.fulfillment = ff
            /\ n.routing \in {"confirmed", r}
        BY <3>2, <3>5 DEF mergeDeliverectMappedIntoVendorOrder
      <4>2. CASE report = "cancelled"
        BY <4>1, <4>2, <3>1, <3>3, RankFact DEF Advances, Rank
      <4>3. CASE report # "cancelled" /\ f \in Terminal
        <5>1. Rank(f) >= 4 /\ Rank(report) <= 4
          BY <4>3, <3>1, RankFact DEF Terminal
        <5> QED
          BY <4>1, <4>3, <5>1, <3>1, <3>3 DEF Advances
      <4>4. CASE report # "cancelled" /\ f \notin Terminal
        BY <4>1, <4>4, <3>1, FurtherAdvances DEF Terminal
      <4> QED
        BY <4>2, <4>3, <4>4
    <3> QED
      BY <3>4, <3>5
  <2> QED
    BY <2>1, <2>2
<1> HIDE DEF n
<1> DEFINE d == Difference(n, r, f)
<1>3. /\ Patched(d.fulfillment, f) = n.fulfillment
      /\ d.routing # Keep => d.routing = n.routing /\ n.routing # r
  BY <1>1, DifferencePatches
<1> HIDE DEF d
<1>4. /\ Advances(f, Patched(d.fulfillment, f))
      /\ report \in FulfillmentStatus => Rank(Patched(d.fulfillment, f)) >= Rank(report)
  BY <1>2, <1>3
<1>5. d.routing = "failed" => report = "failed"
  BY <1>2, <1>3 DEF Keep
<1> QED
  BY <1>4, <1>5 DEF d, n, m

\* Square's current state advances a row, and never makes its routing "failed".
LEMMA SquareAdvances ==
  ASSUME NEW r \in RoutingStatus, NEW f \in FulfillmentStatus, NEW s \in FulfillmentStatus
  PROVE  LET n == mergeSquareMappedIntoVendorOrder(r, f,
                    mapSquareOrderSnapshotToVendorStatus(s))
             d == Difference(n, r, f)
         IN  /\ Advances(f, Patched(d.fulfillment, f))
             /\ d.routing # "failed"
<1> DEFINE m == mapSquareOrderSnapshotToVendorStatus(s)
           n == mergeSquareMappedIntoVendorOrder(r, f, m)
<1>1. n \in [routing : RoutingStatus, fulfillment : FulfillmentStatus]
  BY SquareMerge DEF Merged
<1>2. m = [routing |-> "confirmed", fulfillment |-> s]
  BY DEF mapSquareOrderSnapshotToVendorStatus
<1>3. n.routing \in {"confirmed", r}
  BY <1>2 DEF mergeSquareMappedIntoVendorOrder
<1>4. Advances(f, n.fulfillment)
  <2>1. CASE s = "cancelled"
    <3>1. n.fulfillment = "cancelled"
      BY <1>2, <2>1 DEF mergeSquareMappedIntoVendorOrder
    <3> QED
      BY <3>1, RankFact DEF Advances, Rank
  <2>2. CASE s # "cancelled" /\ f \in Terminal
    <3>1. n.fulfillment = f
      BY <1>2, <2>2 DEF mergeSquareMappedIntoVendorOrder
    <3> QED
      BY <3>1 DEF Advances
  <2>3. CASE s # "cancelled" /\ f \notin Terminal
    <3>1. n.fulfillment = Further(f, s)
      BY <1>2, <2>3 DEF mergeSquareMappedIntoVendorOrder
    <3> QED
      BY <3>1, <2>3, FurtherAdvances DEF Terminal
  <2> QED
    BY <2>1, <2>2, <2>3
<1> HIDE DEF n
<1> QED
  BY <1>1, <1>3, <1>4, DifferencePatches DEF n, m, Keep

\* A person's transition advances a row, and a dashboard's never makes it "failed".
LEMMA TargetAdvances ==
  ASSUME NEW r \in RoutingStatus, NEW f \in FulfillmentStatus, NEW target \in Target,
         NEW source \in {"admin", "vendor_dashboard"}, NEW confirmed,
         validateTransition(r, f, target, source, confirmed)
  PROVE  /\ Advances(f, Patched(targetToUpdate(target).fulfillment, f))
         /\ targetToUpdate(target).routing \in {target, Keep}
<1>1. CASE target \in RoutingStatus
  BY <1>1 DEF targetToUpdate, Patched, Advances
<1>2. CASE target \notin RoutingStatus
  <2>1. targetToUpdate(target) = [routing |-> Keep, fulfillment |-> target]
    BY <1>2 DEF targetToUpdate
  <2>2. target \in {"accepted", "preparing", "ready", "completed", "cancelled"}
    BY <1>2 DEF Target, RoutingStatus, FulfillmentStatus
  <2>3. \/ target = "accepted" /\ f = "pending"
        \/ target = "preparing" /\ f = "accepted"
        \/ target = "ready" /\ f = "preparing"
        \/ target = "completed" /\ f = "ready"
        \/ target = "cancelled"
    BY <2>2 DEF validateTransition, Predecessor, RoutingStatus
  <2>4. Advances(f, target)
    BY <2>3, RankFact DEF Advances, Rank, FULFILLMENT_RANK, FulfillmentStatus
  <2>5. targetToUpdate(target).fulfillment = target /\ targetToUpdate(target).routing = Keep
    BY <2>1
  <2> QED
    BY <2>2, <2>4, <2>5 DEF Patched, Keep
<1> QED
  BY <1>1, <1>2

LEMMA SkipAdvances ==
  ASSUME NEW r \in RoutingStatus, NEW f \in FulfillmentStatus,
         NEW target \in Target \ {"sent", "failed"}, NEW confirmed,
         NEW patch \in SkipAhead(r, f, target, confirmed)
  PROVE  /\ Advances(f, Patched(patch.fulfillment, f))
         /\ patch.routing \in {"confirmed", Keep}
<1>1. f \notin Terminal
  BY DEF SkipAhead
<1>2. CASE f = target
  BY <1>1, <1>2 DEF SkipAhead, NoChange, Patched, Advances
<1>3. CASE f # target /\ f = "pending" /\ target \in {"accepted", "preparing", "ready"}
           /\ patch = [routing |-> IF r = "pending" THEN "confirmed" ELSE Keep,
                       fulfillment |-> target]
  BY <1>3, RankFact DEF Patched, Advances, Rank, Keep, FulfillmentStatus
<1>4. CASE /\ \/ f = "preparing" /\ target = "ready"
              \/ f = "ready" /\ target = "completed"
              \/ f = "accepted" /\ target = "ready"
              \/ f = "preparing" /\ target = "completed"
           /\ patch = targetToUpdate(target)
  <2>1. patch.fulfillment = target /\ patch.routing = Keep
    BY <1>4 DEF targetToUpdate, RoutingStatus
  <2> QED
    BY <1>4, <2>1 DEF Patched, Advances, Keep, FULFILLMENT_RANK
<1> QED
  BY <1>1, <1>2, <1>3, <1>4 DEF SkipAhead

LEMMA DashboardAdvances ==
  ASSUME NEW r \in RoutingStatus, NEW f \in FulfillmentStatus,
         NEW target \in Target \ {"sent", "failed"}, NEW confirmed, NEW skip,
         NEW patch \in resolveVendorDashboardTransitionPatch(r, f, target, confirmed, skip)
  PROVE  /\ Advances(f, Patched(patch.fulfillment, f))
         /\ patch.routing \in {"confirmed", Keep}
<1>1. CASE validateTransition(r, f, target, "vendor_dashboard", confirmed)
  <2>1. patch = targetToUpdate(target)
    BY <1>1 DEF resolveVendorDashboardTransitionPatch
  <2>2. targetToUpdate(target).routing \in {"confirmed", Keep}
    BY DEF targetToUpdate, Target, RoutingStatus
  <2> QED
    BY <1>1, <2>1, <2>2, TargetAdvances
<1>2. CASE ~validateTransition(r, f, target, "vendor_dashboard", confirmed)
  <2>1. patch \in SkipAhead(r, f, target, confirmed)
    BY <1>2 DEF resolveVendorDashboardTransitionPatch
  <2> QED
    BY <2>1, SkipAdvances
<1> QED
  BY <1>1, <1>2

-----------------------------------------------------------------------------
(* What a lone job holds fits the row.                                     *)

LEMMA IdleColumns ==
  /\ Idle.kind = "none" /\ Idle.authority = Keep /\ Idle.ext = FALSE /\ Idle.todo = {}
  /\ Idle.parent = "pending_payment"
BY DEF Idle

\* A job that goes on keeps its kind, what it has yet to submit and where it goes on.
LEMMA GotoKeeps ==
  ASSUME NEW j \in Job, NEW pc \in Resume \cup {"derive"}
  PROVE  /\ Goto(j, pc).pc = pc
         /\ pc = "idle" => Goto(j, pc) = Idle
         /\ pc # "idle" => /\ Goto(j, pc).kind = j.kind /\ Goto(j, pc).todo = j.todo
                           /\ Goto(j, pc).next = j.next
<1>1. CASE pc = "idle"
  BY <1>1, IdleFact DEF Goto
<1>2. CASE pc # "idle"
  <2> DEFINE g == [Idle EXCEPT !.pc = pc, !.kind = j.kind, !.todo = j.todo, !.next = j.next]
  <2>1. g.pc = pc /\ g.kind = j.kind /\ g.todo = j.todo /\ g.next = j.next
    BY IdleFact DEF Job
  <2> QED
    BY <1>2, <2>1 DEF Goto
<1> QED
  BY <1>1, <1>2

\* A submission that is over goes on to derive the parent, after a successful retry, or to
\* where its job goes on.
LEMMA DoneKeeps ==
  ASSUME NEW j \in Job, NEW ok \in BOOLEAN
  PROVE  \E pc \in Resume \cup {"derive"} :
           /\ Done(j, ok) = Goto(j, pc)
           /\ pc = IF ok /\ j.kind = "retry" THEN "derive" ELSE j.next
BY DEF Done, Job

\* A step that gives the only worker a job, and writes no row, keeps the fit.
LEMMA FitsNow ==
  ASSUME TypeOK, NEW w \in Worker, Worker = {w}, NEW k, Set(w, k), row' = row,
         FitsRow(k, row[k.vo])
  PROVE  Fits'
BY JobIsSet DEF Fits

\* A job that goes on holds no columns.
LEMMA GoingOnFits ==
  ASSUME NEW j \in Job, j.kind \in Kinds \cup {"none"}, NEW pc \in Resume \cup {"derive"}, NEW r
  PROVE  FitsRow(Goto(j, pc), r)
<1>1. Goto(j, pc).pc \notin {"fetch", "lookup", "apply", "recover", "call", "partial",
                             "pay", "fail", "promote", "write", "stamp"}
  BY GotoKeeps DEF Resume
<1>2. Goto(j, pc).kind \in Kinds \cup {"none"}
  BY GotoKeeps, IdleColumns
<1> QED
  BY <1>1, <1>2 DEF FitsRow

LEMMA RequestFits ==
  ASSUME TypeOK, Fits, NEW w \in Worker, Worker = {w}, Request(w)
  PROVE  Fits'
<1> USE IdleFact, IdleColumns
<1>1. ASSUME NEW k, Set(w, k), FitsRow(k, row[k.vo])
      PROVE  Fits'
  <2>1. row' = row
    BY DEF Request, ReceivePayment, ReceiveDeliverectWebhook, ReceiveSquareWebhook,
       DashboardTransition, AdminTransition, AskRecovery, AskRetry, AskSquareSync,
       AskRecheck, database
  <2> QED
    BY <1>1, <2>1, FitsNow
<1>2. \A v \in VendorOrder : /\ row[v] \in Row /\ row[v].routing \in RoutingStatus
                             /\ row[v].fulfillment \in FulfillmentStatus
  BY DEF TypeOK, Row
<1>3. CASE ReceivePayment(w)
  <2> DEFINE k == [Idle EXCEPT !.pc = "parent", !.kind = "payment", !.parent = "paid",
                               !.next = "open"]
  <2>1. k.pc = "parent" /\ k.kind = "payment"
    BY DEF Job
  <2>2. Set(w, k) /\ "payment" \in Kinds
    BY <1>3 DEF ReceivePayment
  <2> HIDE DEF k
  <2> QED
    BY <1>1, <2>1, <2>2 DEF FitsRow
<1>4. CASE ReceiveDeliverectWebhook(w)
  <2>1. PICK v \in VendorOrder, report \in Report, id \in BOOLEAN :
          LET next == mergeDeliverectMappedIntoVendorOrder(row[v].routing,
                        row[v].fulfillment, interpretNumericCode(report))
              diff == Difference(next, row[v].routing, row[v].fulfillment)
          IN  Set(w, [Idle EXCEPT !.pc = "promote", !.kind = "webhook", !.vo = v,
                                  !.routing = diff.routing,
                                  !.fulfillment = diff.fulfillment, !.ext = id])
    BY <1>4 DEF ReceiveDeliverectWebhook
  <2> DEFINE next == mergeDeliverectMappedIntoVendorOrder(row[v].routing,
                       row[v].fulfillment, interpretNumericCode(report))
             diff == Difference(next, row[v].routing, row[v].fulfillment)
             k == [Idle EXCEPT !.pc = "promote", !.kind = "webhook", !.vo = v,
                               !.routing = diff.routing,
                               !.fulfillment = diff.fulfillment, !.ext = id]
  <2>2. Advances(row[v].fulfillment, Patched(diff.fulfillment, row[v].fulfillment))
    BY <1>2, DeliverectAdvances
  <2> HIDE DEF diff, next
  <2>3. k.pc = "promote" /\ k.kind = "webhook" /\ k.vo = v /\ k.fulfillment = diff.fulfillment
    BY DEF Job
  <2>4. Set(w, k) /\ "webhook" \in Kinds
    BY <1>4, <2>1 DEF ReceiveDeliverectWebhook, diff, next
  <2> HIDE DEF k
  <2> QED
    BY <1>1, <2>2, <2>3, <2>4 DEF FitsRow
<1>5. ASSUME NEW v \in VendorOrder, "sync" \in Kinds,
             Set(w, [Idle EXCEPT !.pc = "fetch", !.kind = "sync", !.vo = v,
                                 !.routing = row[v].routing,
                                 !.fulfillment = row[v].fulfillment])
      PROVE  Fits'
  <2> DEFINE k == [Idle EXCEPT !.pc = "fetch", !.kind = "sync", !.vo = v,
                               !.routing = row[v].routing, !.fulfillment = row[v].fulfillment]
  <2>1. k.pc = "fetch" /\ k.kind = "sync" /\ k.vo = v /\ k.fulfillment = row[v].fulfillment
    BY DEF Job
  <2>2. Set(w, k)
    BY <1>5
  <2> HIDE DEF k
  <2> QED
    BY <1>1, <1>5, <2>1, <2>2 DEF FitsRow
<1>6. CASE ReceiveSquareWebhook(w)
  <2>1. PICK v \in VendorOrder :
          Set(w, IF row[v].ext
                 THEN [Idle EXCEPT !.pc = "fetch", !.kind = "sync", !.vo = v,
                                   !.routing = row[v].routing,
                                   !.fulfillment = row[v].fulfillment]
                 ELSE Idle)
    BY <1>6 DEF ReceiveSquareWebhook
  <2>2. "sync" \in Kinds
    BY <1>6 DEF ReceiveSquareWebhook
  <2>3. FitsRow(Idle, row[Idle.vo])
    BY DEF FitsRow
  <2> QED
    BY <1>1, <1>5, <2>1, <2>2, <2>3
<1>7. ASSUME NEW v \in VendorOrder, NEW kind \in Kinds, NEW patch, Transition(w, v, kind, patch),
             Advances(row[v].fulfillment, Patched(patch.fulfillment, row[v].fulfillment))
      PROVE  Fits'
  <2> DEFINE k == [Idle EXCEPT !.pc = "write", !.kind = kind, !.vo = v,
                         !.routing = patch.routing, !.fulfillment = patch.fulfillment]
  <2>1. /\ k.pc = "write" /\ k.kind = kind /\ k.vo = v /\ k.fulfillment = patch.fulfillment
        /\ k.authority = Keep
    BY DEF Job
  <2>2. Set(w, k)
    BY <1>7 DEF Transition
  <2> HIDE DEF k
  <2> QED
    BY <1>1, <1>7, <2>1, <2>2 DEF FitsRow
<1>8. CASE DashboardTransition(w)
  <2>1. PICK v \in VendorOrder, target \in Target \ {"sent", "failed"} :
          \E patch \in resolveVendorDashboardTransitionPatch(
                         row[v].routing, row[v].fulfillment, target,
                         receiptConfirmed(v), Mode[v] = "manual_dashboard") :
            Transition(w, v, "dashboard", patch)
    BY <1>8 DEF DashboardTransition
  <2>2. "dashboard" \in Kinds
    BY <1>8 DEF DashboardTransition, StaffAsks
  <2> QED
    BY <1>2, <1>7, <2>1, <2>2, DashboardAdvances
<1>9. CASE AdminTransition(w)
  <2>1. PICK v \in VendorOrder, target \in Target :
          /\ validateTransition(row[v].routing, row[v].fulfillment, target, "admin",
                                receiptConfirmed(v))
          /\ Transition(w, v, "admin", targetToUpdate(target))
    BY <1>9 DEF AdminTransition
  <2>2. "admin" \in Kinds
    BY <1>9 DEF AdminTransition, StaffAsks
  <2>3. Advances(row[v].fulfillment, Patched(targetToUpdate(target).fulfillment,
                                             row[v].fulfillment))
    BY <1>2, <2>1, TargetAdvances
  <2> QED
    BY <1>7, <2>1, <2>2, <2>3
<1>10. CASE AskRecovery(w)
  <2>1. PICK v \in VendorOrder :
          /\ row[v].fulfillment = "pending"
          /\ Set(w, [Idle EXCEPT !.pc = "recover", !.kind = "recovery", !.vo = v])
    BY <1>10 DEF AskRecovery
  <2> DEFINE k == [Idle EXCEPT !.pc = "recover", !.kind = "recovery", !.vo = v]
  <2>2. k.pc = "recover" /\ k.kind = "recovery" /\ k.vo = v
    BY DEF Job
  <2>3. Set(w, k) /\ "recovery" \in Kinds
    BY <1>10, <2>1 DEF AskRecovery, StaffAsks
  <2> HIDE DEF k
  <2> QED
    BY <1>1, <2>1, <2>2, <2>3 DEF FitsRow
<1>11. CASE AskRetry(w)
  <2>1. PICK v \in VendorOrder :
          Set(w, [Idle EXCEPT !.pc = "each", !.kind = "retry", !.todo = {v}])
    BY <1>11 DEF AskRetry
  <2> DEFINE k == [Idle EXCEPT !.pc = "each", !.kind = "retry", !.todo = {v}]
  <2>2. k.pc = "each" /\ k.kind = "retry"
    BY DEF Job
  <2>3. Set(w, k) /\ "retry" \in Kinds
    BY <1>11, <2>1 DEF AskRetry, StaffAsks
  <2> HIDE DEF k
  <2> QED
    BY <1>1, <2>2, <2>3 DEF FitsRow
<1>12. CASE AskSquareSync(w)
  BY <1>5, <1>12 DEF AskSquareSync, StaffAsks
<1>13. CASE AskRecheck(w)
  <2>1. PICK v \in VendorOrder :
          Set(w, [Idle EXCEPT !.pc = "lookup", !.kind = "recheck", !.vo = v])
    BY <1>13, ConstantsAssumption DEF AskRecheck
  <2> DEFINE k == [Idle EXCEPT !.pc = "lookup", !.kind = "recheck", !.vo = v]
  <2>2. k.pc = "lookup" /\ k.kind = "recheck"
    BY DEF Job
  <2>3. Set(w, k) /\ "recheck" \in Kinds
    BY <1>13, <2>1 DEF AskRecheck, StaffAsks
  <2> HIDE DEF k
  <2> QED
    BY <1>1, <2>2, <2>3 DEF FitsRow
<1> QED
  BY <1>3, <1>4, <1>6, <1>8, <1>9, <1>10, <1>11, <1>12, <1>13 DEF Request

\* A running job that writes no row.
LEMMA QuietJobFits ==
  ASSUME TypeOK, NothingInvented, Fits, NEW w \in Worker, Worker = {w}, JobStep(w),
         ~StampAuthority(w), ~persistPartialSquareOrder(w), ~WriteVendorOrder(w)
  PROVE  Fits'
<1> DEFINE j == job[w]
<1>1. ASSUME NEW k, Set(w, k), FitsRow(k, row[k.vo])
      PROVE  Fits'
  <2>1. row' = row
    BY DEF JobStep, LookUpDeliverectOrder, ApplyLookup, PromoteAuthority, FetchSquareOrder,
       RecoverVendorOrder, OpenRouting, LoadVendorOrders, SettleOrder, SubmitVendorOrder,
       DeliverectPrecheckFails, CallDeliverect, ReadAuthority, CallSquare,
       submitSquareExternalPayment, recordSquareRoutingFailure, LogRecovery,
       recomputeParentStatus, PersistParentStatus, AppendParentHistory, database
  <2> QED
    BY <1>1, <2>1, FitsNow
<1>2. /\ j \in Job /\ FitsRow(j, row[j.vo]) /\ j.kind \in Kinds \cup {"none"}
      /\ Holding(j.pc) => j.vo \in VendorOrder
      /\ j.pc = "fetch" => j.routing # Keep /\ j.fulfillment # Keep
      /\ j.pc = "apply" => LookedUp(j) \in Report
  BY DEF TypeOK, Fits, FitsRow
<1>3. \A pc \in Resume \cup {"derive"} : \A r : FitsRow(Goto(j, pc), r)
  BY <1>2, GoingOnFits
<1>4. \A ok \in BOOLEAN : \A r : FitsRow(Done(j, ok), r)
  BY <1>2, <1>3, DoneKeeps
<1>5. \A r : FitsRow(Idle, r)
  BY IdleFact, IdleColumns DEF FitsRow
<1>6. \A v \in VendorOrder : /\ row[v] \in Row /\ row[v].routing \in RoutingStatus
                             /\ row[v].fulfillment \in FulfillmentStatus
                             /\ row[v].authority \in Authority
                             /\ pos[v] \in FulfillmentStatus
  BY DEF TypeOK, Row
<1>7. j.next \in Resume
  BY <1>2 DEF Job
<1>8. ~Holding(j.pc) => j.fulfillment = Keep
  BY DEF NothingInvented, Carries
<1>9. CASE LookUpDeliverectOrder(w)
  <2> DEFINE told == [j EXCEPT !.pc = "apply", !.fulfillment = pos[j.vo]]
             refused == [j EXCEPT !.pc = "apply", !.routing = "failed"]
  <2>1. j.pc = "lookup" /\ (Set(w, told) \/ Set(w, refused) \/ Set(w, Idle))
    BY <1>9 DEF LookUpDeliverectOrder, At
  <2>2. told.pc = "apply" /\ told.kind = j.kind /\ refused.pc = "apply" /\ refused.kind = j.kind
    BY <1>2 DEF Job
  <2> HIDE DEF told, refused
  <2>3. FitsRow(told, row[told.vo]) /\ FitsRow(refused, row[refused.vo])
    BY <1>2, <2>1, <2>2 DEF FitsRow
  <2> QED
    BY <1>1, <1>5, <2>1, <2>3
<1>10. CASE ApplyLookup(w)
  <2> DEFINE r == row[j.vo].routing
             f == row[j.vo].fulfillment
             diff == Difference(mergeDeliverectMappedIntoVendorOrder(r, f,
                                  interpretNumericCode(LookedUp(j))), r, f)
             k == [j EXCEPT !.pc = "promote", !.routing = diff.routing,
                            !.fulfillment = diff.fulfillment]
  <2>1. j.pc = "apply" /\ Set(w, k)
    BY <1>10 DEF ApplyLookup, At
  <2>2. j.vo \in VendorOrder
    BY <1>2, <2>1 DEF Holding, Resume
  <2>3. Advances(f, Patched(diff.fulfillment, f))
    BY <1>2, <1>6, <2>1, <2>2, DeliverectAdvances
  <2> HIDE DEF diff
  <2>4. k.pc = "promote" /\ k.kind = j.kind /\ k.vo = j.vo /\ k.fulfillment = diff.fulfillment
    BY <1>2 DEF Job
  <2> HIDE DEF k
  <2> QED
    BY <1>1, <1>2, <2>1, <2>3, <2>4 DEF FitsRow
<1>11. CASE PromoteAuthority(w)
  <2> DEFINE a == posAuthorityPromotionUpdateIfEligible(row[j.vo].authority)
             k == [j EXCEPT !.pc = "write", !.authority = a]
  <2>1. j.pc = "promote" /\ Set(w, k)
    BY <1>11 DEF PromoteAuthority, At
  <2>2. row[j.vo].authority = "admin_override" => a = Keep
    BY DEF posAuthorityPromotionUpdateIfEligible
  <2> HIDE DEF a
  <2>3. /\ k.pc = "write" /\ k.kind = j.kind /\ k.vo = j.vo
        /\ k.fulfillment = j.fulfillment /\ k.authority = a
    BY <1>2 DEF Job
  <2> HIDE DEF k
  <2> QED
    BY <1>1, <1>2, <2>1, <2>2, <2>3 DEF FitsRow
<1>12. CASE FetchSquareOrder(w)
  <2> DEFINE next == mergeSquareMappedIntoVendorOrder(j.routing, j.fulfillment,
                       mapSquareOrderSnapshotToVendorStatus(pos[j.vo]))
             diff == Difference(next, j.routing, j.fulfillment)
             k == [j EXCEPT !.pc = "write", !.routing = diff.routing,
                            !.fulfillment = diff.fulfillment, !.authority = "pos"]
  <2>1. j.pc = "fetch" /\ (Set(w, Goto(j, "derive")) \/ Set(w, k))
    BY <1>12 DEF FetchSquareOrder, At
  <2>2. /\ j.vo \in VendorOrder /\ j.routing \in RoutingStatus
        /\ j.fulfillment \in FulfillmentStatus
    BY <1>2, <2>1 DEF Holding, Resume, Job
  <2>3. Advances(j.fulfillment, Patched(diff.fulfillment, j.fulfillment))
    BY <1>6, <2>2, SquareAdvances
  <2> HIDE DEF diff, next
  <2>4. j.kind = "sync" /\ j.fulfillment = row[j.vo].fulfillment
    BY <1>2, <2>1 DEF FitsRow
  <2>5. k.pc = "write" /\ k.kind = j.kind /\ k.vo = j.vo /\ k.fulfillment = diff.fulfillment
    BY <1>2 DEF Job
  <2> HIDE DEF k
  <2>6. FitsRow(k, row[k.vo])
    BY <1>2, <2>3, <2>4, <2>5 DEF FitsRow
  <2> QED
    BY <1>1, <1>3, <2>1, <2>6
<1>13. CASE RecoverVendorOrder(w)
  <2> DEFINE k == [j EXCEPT !.pc = "write", !.fulfillment = "accepted",
                            !.authority = "admin_override"]
  <2>1. j.pc = "recover" /\ (Set(w, k) \/ Set(w, Idle))
    BY <1>13 DEF RecoverVendorOrder, At
  <2>2. row[j.vo].fulfillment = "pending"
    BY <1>2, <2>1 DEF FitsRow
  <2>3. /\ k.pc = "write" /\ k.kind = j.kind /\ k.vo = j.vo /\ k.fulfillment = "accepted"
        /\ k.authority = "admin_override"
    BY <1>2 DEF Job
  <2> HIDE DEF k
  <2>4. Advances("pending", Patched("accepted", "pending"))
    BY RankFact DEF Advances, Patched, Keep, FULFILLMENT_RANK
  <2>5. FitsRow(k, row[k.vo])
    BY <1>2, <2>2, <2>3, <2>4 DEF FitsRow
  <2> QED
    BY <1>1, <1>5, <2>1, <2>5
<1>14. CASE OpenRouting(w)
  <2> DEFINE k == [j EXCEPT !.pc = "parent", !.parent = "routing", !.next = "load"]
  <2>1. k.pc = "parent" /\ k.kind = j.kind
    BY <1>2 DEF Job
  <2>2. Set(w, k)
    BY <1>14 DEF OpenRouting
  <2> HIDE DEF k
  <2> QED
    BY <1>1, <1>2, <2>1, <2>2 DEF FitsRow
<1>15. CASE LoadVendorOrders(w)
  <2> DEFINE k == [j EXCEPT !.pc = "each", !.next = "each",
                           !.todo = {v \in VendorOrder : row[v].routing = "pending"}]
  <2>1. k.pc = "each" /\ k.kind = j.kind
    BY <1>2 DEF Job
  <2>2. Set(w, k)
    BY <1>15 DEF LoadVendorOrders
  <2> HIDE DEF k
  <2> QED
    BY <1>1, <1>2, <2>1, <2>2 DEF FitsRow
<1>16. CASE SettleOrder(w)
  <2> DEFINE k == [j EXCEPT !.pc = "parent", !.parent = DerivedStatusFromHistory,
                            !.next = "idle"]
  <2>1. k.pc = "parent" /\ k.kind = j.kind
    BY <1>2 DEF Job
  <2>2. Set(w, k)
    BY <1>16 DEF SettleOrder
  <2> HIDE DEF k
  <2> QED
    BY <1>1, <1>2, <2>1, <2>2 DEF FitsRow
<1>17. CASE SubmitVendorOrder(w)
  <2>1. PICK v \in j.todo :
          LET h == [j EXCEPT !.vo = v, !.todo = @ \ {v}, !.routing = Keep,
                             !.authority = Keep, !.ext = FALSE]
          IN  Set(w, IF Mode[v] = "deliverect" THEN SubmitToDeliverect(h, v)
                     ELSE IF Mode[v] = "square" THEN SubmitToSquare(h, v)
                     ELSE SubmitManually(h, v))
    BY <1>17 DEF SubmitVendorOrder
  <2> DEFINE h == [j EXCEPT !.vo = v, !.todo = @ \ {v}, !.routing = Keep,
                            !.authority = Keep, !.ext = FALSE]
  <2>2. v \in VendorOrder
    BY <1>2 DEF Job
  <2>3. j.pc = "each" /\ j.fulfillment = Keep
    BY <1>8, <1>17 DEF SubmitVendorOrder, At, Holding, Resume
  <2>4. /\ h \in Job /\ h.kind = j.kind /\ h.vo = v
        /\ h.authority = Keep /\ h.fulfillment = Keep
    BY <1>2, <2>2, <2>3 DEF Job
  <2> HIDE DEF h
  <2>5. \A ok \in BOOLEAN : FitsRow(Done(h, ok), row[Done(h, ok).vo])
    BY <1>2, <2>4, GoingOnFits, DoneKeeps
  <2>6. FitsRow(SubmitToDeliverect(h, v), row[SubmitToDeliverect(h, v).vo])
    <3> DEFINE s == [h EXCEPT !.pc = "stampRead"]
               c == [h EXCEPT !.pc = "call",
                              !.routing = IF row[v].routing = "pending" THEN "failed" ELSE Keep]
    <3>1. s.pc = "stampRead" /\ s.kind = j.kind
      BY <2>4 DEF Job
    <3>2. c.pc = "call" /\ c.kind = j.kind /\ c.authority = Keep /\ c.fulfillment = Keep
      BY <2>4 DEF Job
    <3>3. SubmitToDeliverect(h, v) \in {Done(h, FALSE), s, c}
      BY DEF SubmitToDeliverect
    <3> HIDE DEF s, c
    <3> QED
      BY <1>2, <2>5, <3>1, <3>2, <3>3 DEF FitsRow
  <2>7. FitsRow(SubmitToSquare(h, v), row[SubmitToSquare(h, v).vo])
    <3> DEFINE p == [h EXCEPT !.pc = "pay"]
               c == [h EXCEPT !.pc = "call"]
    <3>1. p.pc = "pay" /\ p.kind = j.kind /\ p.authority = Keep /\ p.fulfillment = Keep
      BY <2>4 DEF Job
    <3>2. c.pc = "call" /\ c.kind = j.kind /\ c.authority = Keep /\ c.fulfillment = Keep
      BY <2>4 DEF Job
    <3>3. SubmitToSquare(h, v) \in {Done(h, TRUE), p, c}
      BY DEF SubmitToSquare
    <3> HIDE DEF p, c
    <3> QED
      BY <1>2, <2>5, <3>1, <3>2, <3>3 DEF FitsRow
  <2>8. FitsRow(SubmitManually(h, v), row[SubmitManually(h, v).vo])
    <3> DEFINE a == IF row[v].authority = "none" THEN "vendor_manual" ELSE Keep
               m == [h EXCEPT !.pc = "write", !.routing = "confirmed", !.authority = a]
    <3>1. row[v].authority = "admin_override" => a = Keep
      OBVIOUS
    <3> HIDE DEF a
    <3>2. /\ m.pc = "write" /\ m.kind = j.kind /\ m.vo = v /\ m.authority = a
          /\ m.fulfillment = Keep
      BY <2>4 DEF Job
    <3>3. SubmitManually(h, v) = m
      BY DEF SubmitManually, a
    <3> HIDE DEF m
    <3> QED
      BY <1>2, <3>1, <3>2, <3>3 DEF FitsRow, Patched, Advances
  <2> QED
    BY <1>1, <2>1, <2>6, <2>7, <2>8 DEF h
<1>18. CASE DeliverectPrecheckFails(w)
  <2> DEFINE k == [j EXCEPT !.pc = "write", !.routing = "failed"]
  <2>1. j.pc = "call" /\ (Set(w, k) \/ Set(w, Done(j, FALSE)))
    BY <1>18 DEF DeliverectPrecheckFails, At
  <2>2. k.pc = "write" /\ k.kind = j.kind /\ k.authority = Keep /\ k.fulfillment = Keep
    BY <1>2, <2>1 DEF Job, FitsRow
  <2> HIDE DEF k
  <2>3. FitsRow(k, row[k.vo])
    BY <1>2, <2>2 DEF FitsRow, Patched, Advances
  <2> QED
    BY <1>1, <1>4, <2>1, <2>3
<1>19. CASE CallDeliverect(w)
  <2>1. PICK id \in BOOLEAN :
          /\ j.pc = "call"
          /\ \/ Set(w, [j EXCEPT !.pc = "write", !.routing = "sent", !.ext = id])
             \/ Set(w, [j EXCEPT !.pc = "write"])
    BY <1>19 DEF CallDeliverect, At
  <2> DEFINE s == [j EXCEPT !.pc = "write", !.routing = "sent", !.ext = id]
             k == [j EXCEPT !.pc = "write"]
  <2>2. s.pc = "write" /\ s.kind = j.kind /\ s.authority = Keep /\ s.fulfillment = Keep
    BY <1>2, <2>1 DEF Job, FitsRow
  <2>3. k.pc = "write" /\ k.kind = j.kind /\ k.authority = Keep /\ k.fulfillment = Keep
    BY <1>2, <2>1 DEF Job, FitsRow
  <2>4. Set(w, s) \/ Set(w, k)
    BY <2>1
  <2> HIDE DEF s, k
  <2>5. FitsRow(s, row[s.vo]) /\ FitsRow(k, row[k.vo])
    BY <1>2, <2>2, <2>3 DEF FitsRow, Patched, Advances
  <2> QED
    BY <1>1, <2>4, <2>5
<1>20. CASE ReadAuthority(w)
  <2> DEFINE a == IF row[j.vo].authority = "none" THEN "vendor_manual" ELSE Keep
             k == [j EXCEPT !.pc = "stamp", !.authority = a]
  <2>1. Set(w, k)
    BY <1>20 DEF ReadAuthority
  <2>2. row[j.vo].authority = "admin_override" => a = Keep
    OBVIOUS
  <2> HIDE DEF a
  <2>3. k.pc = "stamp" /\ k.kind = j.kind /\ k.vo = j.vo /\ k.authority = a
    BY <1>2 DEF Job
  <2> HIDE DEF k
  <2> QED
    BY <1>1, <1>2, <2>1, <2>2, <2>3 DEF FitsRow
<1>21. CASE CallSquare(w)
  <2> DEFINE p == [j EXCEPT !.pc = "partial"]
             f == [j EXCEPT !.pc = "fail"]
  <2>1. j.pc = "call" /\ (Set(w, p) \/ Set(w, f))
    BY <1>21 DEF CallSquare, At
  <2>2. p.pc = "partial" /\ p.kind = j.kind /\ p.authority = Keep /\ p.fulfillment = Keep
    BY <1>2, <2>1 DEF Job, FitsRow
  <2>3. f.pc = "fail" /\ f.kind = j.kind /\ f.authority = Keep /\ f.fulfillment = Keep
    BY <1>2, <2>1 DEF Job, FitsRow
  <2> HIDE DEF p, f
  <2>4. FitsRow(p, row[p.vo]) /\ FitsRow(f, row[f.vo])
    BY <1>2, <2>2, <2>3 DEF FitsRow
  <2> QED
    BY <1>1, <2>1, <2>4
<1>22. CASE submitSquareExternalPayment(w)
  <2> DEFINE s == [j EXCEPT !.pc = "write", !.routing = "sent"]
             f == [j EXCEPT !.pc = "fail"]
  <2>1. j.pc = "pay" /\ (Set(w, s) \/ Set(w, f))
    BY <1>22 DEF submitSquareExternalPayment, At
  <2>2. s.pc = "write" /\ s.kind = j.kind /\ s.authority = Keep /\ s.fulfillment = Keep
    BY <1>2, <2>1 DEF Job, FitsRow
  <2>3. f.pc = "fail" /\ f.kind = j.kind /\ f.authority = Keep /\ f.fulfillment = Keep
    BY <1>2, <2>1 DEF Job, FitsRow
  <2> HIDE DEF s, f
  <2>4. FitsRow(s, row[s.vo]) /\ FitsRow(f, row[f.vo])
    BY <1>2, <2>2, <2>3 DEF FitsRow, Patched, Advances
  <2> QED
    BY <1>1, <2>1, <2>4
<1>23. CASE recordSquareRoutingFailure(w)
  <2> DEFINE k == [j EXCEPT !.pc = "write", !.routing = "failed"]
  <2>1. j.pc = "fail" /\ (Set(w, k) \/ Set(w, Done(j, FALSE)))
    BY <1>23 DEF recordSquareRoutingFailure, At
  <2>2. k.pc = "write" /\ k.kind = j.kind /\ k.authority = Keep /\ k.fulfillment = Keep
    BY <1>2, <2>1 DEF Job, FitsRow
  <2> HIDE DEF k
  <2>3. FitsRow(k, row[k.vo])
    BY <1>2, <2>2 DEF FitsRow, Patched, Advances
  <2> QED
    BY <1>1, <1>4, <2>1, <2>3
<1>24. CASE LogRecovery(w)
  BY <1>1, <1>3, <1>24 DEF LogRecovery
<1>25. CASE recomputeParentStatus(w)
  <2> DEFINE k == [j EXCEPT !.pc = "parent", !.parent = DerivedStatus]
  <2>1. Set(w, k) \/ Set(w, Goto(j, j.next))
    BY <1>25 DEF recomputeParentStatus
  <2>2. k.pc = "parent" /\ k.kind = j.kind
    BY <1>2 DEF Job
  <2> HIDE DEF k
  <2>3. FitsRow(k, row[k.vo])
    BY <1>2, <2>2 DEF FitsRow
  <2> QED
    BY <1>1, <1>3, <1>7, <2>1, <2>3
<1>26. CASE PersistParentStatus(w)
  <2> DEFINE k == [j EXCEPT !.pc = "trail"]
  <2>1. Set(w, k)
    BY <1>26 DEF PersistParentStatus
  <2>2. k.pc = "trail" /\ k.kind = j.kind
    BY <1>2 DEF Job
  <2> HIDE DEF k
  <2> QED
    BY <1>1, <1>2, <2>1, <2>2 DEF FitsRow
<1>27. CASE AppendParentHistory(w)
  BY <1>1, <1>3, <1>7, <1>27 DEF AppendParentHistory
<1> QED
  BY <1>9, <1>10, <1>11, <1>12, <1>13, <1>14, <1>15, <1>16, <1>17, <1>18, <1>19, <1>20,
     <1>21, <1>22, <1>23, <1>24, <1>25, <1>26, <1>27 DEF JobStep

\* After the steps that write a row, a job holds nothing more to write, or nothing but a
\* routing status.
LEMMA WritingJobFits ==
  ASSUME TypeOK, Fits, NEW w \in Worker, Worker = {w},
         StampAuthority(w) \/ persistPartialSquareOrder(w) \/ WriteVendorOrder(w)
  PROVE  Fits'
<1> DEFINE j == job[w]
<1>1. ASSUME NEW k, Set(w, k), \A r : FitsRow(k, r)
      PROVE  Fits'
  BY <1>1, JobIsSet DEF Fits
<1>2. j \in Job /\ FitsRow(j, row[j.vo]) /\ j.kind \in Kinds \cup {"none"}
  BY DEF TypeOK, Fits, FitsRow
<1>3. \A pc \in Resume \cup {"derive"} : \A r : FitsRow(Goto(j, pc), r)
  BY <1>2, GoingOnFits
<1>4. \A ok \in BOOLEAN : \A r : FitsRow(Done(j, ok), r)
  BY <1>2, <1>3, DoneKeeps
<1>5. CASE StampAuthority(w)
  BY <1>1, <1>4, <1>5 DEF StampAuthority
<1>6. CASE persistPartialSquareOrder(w)
  <2> DEFINE k == [j EXCEPT !.pc = "pay"]
  <2>1. j.pc = "partial" /\ Set(w, k)
    BY <1>6 DEF persistPartialSquareOrder, At
  <2>2. k.pc = "pay" /\ k.kind = j.kind /\ k.fulfillment = Keep /\ k.authority = Keep
    BY <1>2, <2>1 DEF Job, FitsRow
  <2> HIDE DEF k
  <2> QED
    BY <1>1, <1>2, <2>1, <2>2 DEF FitsRow
<1>7. CASE WriteVendorOrder(w)
  <2> DEFINE h == [j EXCEPT !.pc = "history"]
             s == [j EXCEPT !.pc = "stampRead"]
  <2>1. h.pc = "history" /\ h.kind = j.kind /\ s.pc = "stampRead" /\ s.kind = j.kind
    BY <1>2 DEF Job
  <2>2. /\ Set(w, AfterWrite(j))
        /\ \/ AfterWrite(j) \in {h, s, Goto(j, "derive")}
           \/ \E ok \in BOOLEAN : AfterWrite(j) = Done(j, ok)
    BY <1>7 DEF WriteVendorOrder, AfterWrite
  <2> HIDE DEF h, s
  <2>3. \A r : FitsRow(h, r) /\ FitsRow(s, r)
    BY <1>2, <2>1 DEF FitsRow
  <2> QED
    BY <1>1, <1>3, <1>4, <2>2, <2>3
<1> QED
  BY <1>5, <1>6, <1>7

LEMMA FitsStep ==
  ASSUME TypeOK, NothingInvented, Fits, Alone, [Next]_vars
  PROVE  Fits'
<1> PICK w : Worker = {w}
  BY DEF Alone
<1>1. CASE Request(w)
  BY <1>1, RequestFits
<1>2. CASE JobStep(w)
  BY <1>2, QuietJobFits, WritingJobFits
<1>3. CASE Crash(w)
  <2>1. Set(w, Idle) /\ row' = row
    BY <1>3 DEF Crash, database
  <2>2. FitsRow(Idle, row[Idle.vo])
    BY IdleFact, IdleColumns DEF FitsRow
  <2> QED
    BY <2>1, <2>2, FitsNow
<1>4. CASE KitchenMoves \/ KitchenReplies \/ UNCHANGED vars
  <2>1. job' = job /\ row' = row
    BY <1>4 DEF KitchenMoves, KitchenReplies, vars, database
  <2> QED
    BY <2>1 DEF Fits
<1> QED
  BY <1>1, <1>2, <1>3, <1>4 DEF Next

\* What a lone handler holds always fits the row it is about, crashes and lost answers
\* included.
THEOREM LoneJobFits == Alone => (Spec => []Fits)
<1> SUFFICES ASSUME Alone PROVE Spec => []Fits
  OBVIOUS
<1>1. Init => Fits
  <2> SUFFICES ASSUME Init PROVE Fits
    OBVIOUS
  <2>1. \A w \in Worker : job[w] = Idle
    BY DEF Init
  <2>2. \A r : FitsRow(Idle, r)
    BY IdleFact, IdleColumns DEF FitsRow
  <2> QED
    BY <2>1, <2>2 DEF Fits
<1>2. TypeOK /\ NothingInvented /\ Fits /\ [Next]_vars => Fits'
  BY FitsStep
<1> QED
  BY <1>1, <1>2, TypeCorrect, NothingInventedHolds, PTL DEF Spec

\* Every step advances every vendor order or leaves it.
LEMMA StepAdvances ==
  ASSUME TypeOK, Fits, [Next]_vars, NEW v \in VendorOrder
  PROVE  Advances(row[v].fulfillment, row'[v].fulfillment)
<1>1. CASE row'[v].fulfillment = row[v].fulfillment
  BY <1>1 DEF Advances
<1>2. ASSUME NEW w \in Worker, RowWritten(v, w)
      PROVE  Advances(row[v].fulfillment, row'[v].fulfillment)
  <2>1. FitsRow(job[w], row[v]) /\ job[w].pc = "write"
    BY <1>2 DEF Fits, RowWritten
  <2> QED
    BY <1>2, <2>1 DEF FitsRow, RowWritten
<1> QED
  BY <1>1, <1>2, RowsChange

\* With one handler at a time no vendor order goes back or is reopened, whatever order
\* reports arrive in, and whether handlers crash or answers are lost.
THEOREM FulfillmentAdvances == Alone => (Spec => FulfillmentOnlyAdvances)
<1> SUFFICES ASSUME Alone PROVE Spec => FulfillmentOnlyAdvances
  OBVIOUS
<1> DEFINE Forward == \A v \in VendorOrder : Advances(row[v].fulfillment, row'[v].fulfillment)
<1>1. TypeOK /\ Fits /\ [Next]_vars => [Forward]_vars
  BY StepAdvances
<1>2. Spec => []Fits
  BY LoneJobFits
<1> QED
  BY <1>1, <1>2, TypeCorrect, PTL DEF Spec, FulfillmentOnlyAdvances

\* Only WriteVendorOrder and StampAuthority change an authority, to what their job holds.
LEMMA AuthorityChanges ==
  ASSUME TypeOK, [Next]_vars, NEW v \in VendorOrder
  PROVE  \/ row'[v].authority = row[v].authority
         \/ \E w \in Worker : /\ job[w].pc \in {"write", "stamp"} /\ job[w].vo = v
                              /\ row'[v].authority = Patched(job[w].authority, row[v].authority)
<1>1. row \in [VendorOrder -> Row] /\ row[v] \in Row
  BY DEF TypeOK
<1>2. ASSUME NEW w \in Worker, StampAuthority(w)
      PROVE  \/ row'[v].authority = row[v].authority
             \/ /\ job[w].pc = "stamp" /\ job[w].vo = v
                /\ row'[v].authority = Patched(job[w].authority, row[v].authority)
  <2>1. /\ job[w].pc = "stamp"
        /\ row' = [row EXCEPT ![job[w].vo].authority = Patched(job[w].authority, @)]
    BY <1>2 DEF StampAuthority, At
  <2> QED
    BY <1>1, <2>1 DEF Row
<1>3. ASSUME NEW w \in Worker, persistPartialSquareOrder(w)
      PROVE  row'[v].authority = row[v].authority
  <2>1. row' = [row EXCEPT ![job[w].vo].ext = TRUE]
    BY <1>3 DEF persistPartialSquareOrder
  <2> QED
    BY <1>1, <2>1 DEF Row
<1>4. ASSUME NEW w \in Worker, WriteVendorOrder(w)
      PROVE  \/ row'[v].authority = row[v].authority
             \/ /\ job[w].pc = "write" /\ job[w].vo = v
                /\ row'[v].authority = Patched(job[w].authority, row[v].authority)
  <2>1. /\ job[w].pc = "write"
        /\ row' = [row EXCEPT ![job[w].vo] =
                     [routing     |-> Patched(job[w].routing, @.routing),
                      fulfillment |-> Patched(job[w].fulfillment, @.fulfillment),
                      authority   |-> Patched(job[w].authority, @.authority),
                      recovered   |-> @.recovered \/ job[w].kind = "recovery",
                      ext         |-> @.ext \/ job[w].ext,
                      heard       |-> @.heard \/ job[w].kind \in {"webhook", "recheck"}]]
    BY <1>4 DEF WriteVendorOrder, At
  <2>2. CASE job[w].vo = v
    BY <1>1, <2>1, <2>2
  <2>3. CASE job[w].vo # v
    BY <1>1, <2>1, <2>3
  <2> QED
    BY <2>2, <2>3
<1>5. ASSUME NEW w \in Worker, Request(w) PROVE UNCHANGED row
  BY <1>5 DEF Request, ReceivePayment, ReceiveDeliverectWebhook, ReceiveSquareWebhook,
     DashboardTransition, AdminTransition, AskRecovery, AskRetry, AskSquareSync,
     AskRecheck, database
<1>6. ASSUME NEW w \in Worker, JobStep(w), ~StampAuthority(w), ~WriteVendorOrder(w),
             ~persistPartialSquareOrder(w)
      PROVE  UNCHANGED row
  BY <1>6 DEF JobStep, LookUpDeliverectOrder, ApplyLookup, PromoteAuthority,
     FetchSquareOrder, RecoverVendorOrder, OpenRouting,
     LoadVendorOrders, SettleOrder, SubmitVendorOrder, DeliverectPrecheckFails,
     CallDeliverect, ReadAuthority, CallSquare, submitSquareExternalPayment,
     recordSquareRoutingFailure, LogRecovery, recomputeParentStatus, PersistParentStatus,
     AppendParentHistory, database
<1>7. ASSUME (\E w \in Worker : Crash(w)) \/ KitchenMoves \/ KitchenReplies \/ UNCHANGED vars
      PROVE  UNCHANGED row
  BY <1>7 DEF Crash, KitchenMoves, KitchenReplies, vars, database
<1> QED
  BY <1>2, <1>3, <1>4, <1>5, <1>6, <1>7 DEF Next

\* With one handler at a time, and while Square's orders are not synchronised, no webhook,
\* retry or submission takes a vendor order back from the administrator.
THEOREM OverrideIsKept == Alone /\ "sync" \notin Kinds => (Spec => AdminOverrideIsKept)
<1> SUFFICES ASSUME Alone, "sync" \notin Kinds PROVE Spec => AdminOverrideIsKept
  OBVIOUS
<1> DEFINE Kept == \A v \in VendorOrder : row[v].authority = "admin_override"
                                           => row'[v].authority = "admin_override"
<1>1. ASSUME TypeOK, Fits, [Next]_vars PROVE Kept
  <2> SUFFICES ASSUME NEW v \in VendorOrder, row[v].authority = "admin_override"
               PROVE  row'[v].authority = "admin_override"
    OBVIOUS
  <2>1. ASSUME NEW w \in Worker, job[w].pc \in {"write", "stamp"}, job[w].vo = v,
               row'[v].authority = Patched(job[w].authority, row[v].authority)
        PROVE  row'[v].authority = "admin_override"
    <3>1. FitsRow(job[w], row[v])
      BY <1>1, <2>1 DEF Fits
    <3>2. job[w].kind # "sync"
      BY <3>1 DEF FitsRow
    <3>3. job[w].authority \in {Keep, "admin_override"}
      BY <2>1, <3>1, <3>2 DEF FitsRow
    <3> QED
      BY <2>1, <3>3 DEF Patched
  <2> QED
    BY <1>1, <2>1, AuthorityChanges
<1>2. TypeOK /\ Fits /\ [Next]_vars => [Kept]_vars
  BY <1>1
<1>3. Spec => []Fits
  BY LoneJobFits
<1> QED
  BY <1>2, <1>3, TypeCorrect, PTL DEF Spec, AdminOverrideIsKept

-----------------------------------------------------------------------------
(* The kitchen is reflected.                                               *)

LEMMA AdvancesRank ==
  ASSUME NEW f \in FulfillmentStatus, NEW g \in FulfillmentStatus, Advances(f, g)
  PROVE  Rank(g) >= Rank(f)
<1>1. Rank(f) \in 0..100 /\ Rank(g) \in 0..100
  BY RankFact DEF Rank
<1> QED
  BY <1>1 DEF Advances, Rank

\* A vendor order stays as far as a report once it, or the job that took the report,
\* reaches it: the job's next steps are to promote the authority and to write.
LEMMA ReachesStep ==
  ASSUME TypeOK, TypeOK', Fits, Alone, "crash" \notin Faults, [Next]_vars,
         NEW v \in VendorOrder, NEW s \in FulfillmentStatus, Reaches(v, s)
  PROVE  Reaches(v, s)'
<1>1. /\ row[v].fulfillment \in FulfillmentStatus /\ row'[v].fulfillment \in FulfillmentStatus
      /\ Rank(row[v].fulfillment) \in 0..100 /\ Rank(row'[v].fulfillment) \in 0..100
      /\ Rank(s) \in 0..100
  <2>1. row[v].fulfillment \in FulfillmentStatus
    BY DEF TypeOK, Row
  <2>2. row'[v].fulfillment \in FulfillmentStatus
    BY DEF TypeOK, Row
  <2> QED
    BY <2>1, <2>2, RankFact DEF Rank
<1>2. CASE Rank(row[v].fulfillment) >= Rank(s)
  <2>1. Rank(row'[v].fulfillment) >= Rank(row[v].fulfillment)
    BY <1>1, StepAdvances, AdvancesRank
  <2> QED
    BY <1>1, <1>2, <2>1 DEF Reaches
<1>3. ASSUME NEW w \in Worker, job[w].pc \in {"promote", "write"}, job[w].vo = v,
             Rank(Patched(job[w].fulfillment, row[v].fulfillment)) >= Rank(s)
      PROVE  Reaches(v, s)'
  <2>1. Worker = {w}
    BY DEF Alone
  <2>2. CASE PromoteAuthority(w)
    <3>1. row' = row
      BY <2>2 DEF PromoteAuthority, database
    <3>2. job'[w].pc = "write" /\ job'[w].vo = v /\ job'[w].fulfillment = job[w].fulfillment
      <4> DEFINE k == [job[w] EXCEPT !.pc = "write",
                 !.authority = posAuthorityPromotionUpdateIfEligible(row[job[w].vo].authority)]
      <4>1. job'[w] = k
        BY <2>2, JobIsSet DEF PromoteAuthority
      <4>2. job[w] \in Job
        BY DEF TypeOK
      <4>3. k.pc = "write" /\ k.vo = job[w].vo /\ k.fulfillment = job[w].fulfillment
        BY <4>2 DEF Job
      <4> QED
        BY <1>3, <4>1, <4>3
    <3> QED
      BY <1>3, <3>1, <3>2 DEF Reaches
  <2>3. CASE WriteVendorOrder(w)
    <3>1. row' = [row EXCEPT ![job[w].vo] =
                     [routing     |-> Patched(job[w].routing, @.routing),
                      fulfillment |-> Patched(job[w].fulfillment, @.fulfillment),
                      authority   |-> Patched(job[w].authority, @.authority),
                      recovered   |-> @.recovered \/ job[w].kind = "recovery",
                      ext         |-> @.ext \/ job[w].ext,
                      heard       |-> @.heard \/ job[w].kind \in {"webhook", "recheck"}]]
      BY <2>3 DEF WriteVendorOrder
    <3>2. row'[v].fulfillment = Patched(job[w].fulfillment, row[v].fulfillment)
      BY <1>3, <3>1 DEF TypeOK
    <3> QED
      BY <1>3, <3>2 DEF Reaches
  <2>4. CASE UNCHANGED <<row, job>>
    BY <1>3, <2>4 DEF Reaches
  <2>5. JobStep(w) => PromoteAuthority(w) \/ WriteVendorOrder(w)
    BY <1>3 DEF JobStep, LookUpDeliverectOrder, ApplyLookup, FetchSquareOrder,
       RecoverVendorOrder, OpenRouting, LoadVendorOrders, SettleOrder, SubmitVendorOrder,
       DeliverectPrecheckFails, CallDeliverect, ReadAuthority, StampAuthority, CallSquare,
       persistPartialSquareOrder, submitSquareExternalPayment, recordSquareRoutingFailure,
       LogRecovery, recomputeParentStatus, PersistParentStatus, AppendParentHistory, At
  <2>6. ~Request(w)
    BY <1>3 DEF Request, ReceivePayment, ReceiveDeliverectWebhook, ReceiveSquareWebhook,
       DashboardTransition, AdminTransition, AskRecovery, AskRetry, AskSquareSync,
       AskRecheck, StaffAsks, At
  <2>7. KitchenMoves \/ KitchenReplies \/ UNCHANGED vars => UNCHANGED <<row, job>>
    BY DEF KitchenMoves, KitchenReplies, vars, database
  <2> QED
    BY <2>1, <2>2, <2>3, <2>4, <2>5, <2>6, <2>7 DEF Next, Crash
<1> QED
  BY <1>2, <1>3 DEF Reaches

\* A report taken from the POS is on its way to the row (applyDeliverectInboundStatus).
LEMMA TakenReportReaches ==
  ASSUME TypeOK, NEW w \in Worker, ReceiveDeliverectWebhook(w), NEW v \in VendorOrder,
         NEW s \in FulfillmentStatus, <<v, s>> \in events' \ events
  PROVE  Reaches(v, s)'
<1>1. PICK u \in VendorOrder, report \in Report, id \in BOOLEAN :
        /\ events' = events \cup {<<u, report>>}
        /\ LET next == mergeDeliverectMappedIntoVendorOrder(row[u].routing,
                         row[u].fulfillment, interpretNumericCode(report))
               diff == Difference(next, row[u].routing, row[u].fulfillment)
           IN  Set(w, [Idle EXCEPT !.pc = "promote", !.kind = "webhook", !.vo = u,
                                   !.routing = diff.routing,
                                   !.fulfillment = diff.fulfillment, !.ext = id])
  BY DEF ReceiveDeliverectWebhook
<1>2. u = v /\ report = s
  BY <1>1
<1> DEFINE next == mergeDeliverectMappedIntoVendorOrder(row[v].routing,
                     row[v].fulfillment, interpretNumericCode(s))
           diff == Difference(next, row[v].routing, row[v].fulfillment)
           k == [Idle EXCEPT !.pc = "promote", !.kind = "webhook", !.vo = v,
                             !.routing = diff.routing,
                             !.fulfillment = diff.fulfillment, !.ext = id]
<1>3. Rank(Patched(diff.fulfillment, row[v].fulfillment)) >= Rank(s)
  <2>1. row[v].routing \in RoutingStatus /\ row[v].fulfillment \in FulfillmentStatus
    BY DEF TypeOK, Row
  <2> QED
    BY <1>2, <2>1, DeliverectAdvances
<1>4. job'[w] = k
  BY <1>1, <1>2, JobIsSet
<1> HIDE DEF diff, next
<1>5. k.pc = "promote" /\ k.vo = v /\ k.fulfillment = diff.fulfillment
  BY IdleFact DEF Job
<1>6. row' = row
  BY DEF ReceiveDeliverectWebhook
<1> HIDE DEF k
<1> QED
  BY <1>3, <1>4, <1>5, <1>6 DEF Reaches

\* Only a Deliverect webhook marks a Deliverect report as handled.
LEMMA EventsGrow ==
  ASSUME TypeOK, [Next]_vars, NEW v \in VendorOrder, Mode[v] = "deliverect", NEW s,
         <<v, s>> \in events' \ events
  PROVE  \E w \in Worker : ReceiveDeliverectWebhook(w)
<1>1. ASSUME NEW w \in Worker, ReceiveSquareWebhook(w) PROVE FALSE
  <2>1. PICK u \in VendorOrder, report \in Report :
          Mode[u] = "square" /\ events' = events \cup {<<u, report>>}
    BY <1>1 DEF ReceiveSquareWebhook
  <2> QED
    BY <2>1
<1>2. ASSUME NEW w \in Worker, Request(w), ~ReceiveSquareWebhook(w),
             ~ReceiveDeliverectWebhook(w)
      PROVE  events' = events
  BY <1>2 DEF Request, ReceivePayment, DashboardTransition, AdminTransition, AskRecovery,
     AskRetry, AskSquareSync, AskRecheck, database
<1>3. ASSUME NEW w \in Worker, JobStep(w) PROVE events' = events
  BY <1>3 DEF JobStep, LookUpDeliverectOrder, ApplyLookup, PromoteAuthority, FetchSquareOrder,
     RecoverVendorOrder, OpenRouting, LoadVendorOrders, SettleOrder, SubmitVendorOrder,
     DeliverectPrecheckFails, CallDeliverect, ReadAuthority, StampAuthority, CallSquare,
     persistPartialSquareOrder, submitSquareExternalPayment, recordSquareRoutingFailure,
     WriteVendorOrder, LogRecovery, recomputeParentStatus, PersistParentStatus,
     AppendParentHistory, database
<1>4. (\E w \in Worker : Crash(w)) \/ KitchenMoves \/ KitchenReplies \/ UNCHANGED vars
        => events' = events
  BY DEF Crash, KitchenMoves, KitchenReplies, vars, database
<1> QED
  BY <1>1, <1>2, <1>3, <1>4 DEF Next

\* A Deliverect kitchen stands as far as each report it sent, and never goes back.
LEMMA KitchenStandsByReports ==
  ASSUME TypeOK, Reflects, [Next]_vars, NEW v \in VendorOrder, Mode[v] = "deliverect",
         NEW s \in FulfillmentStatus, <<v, s>> \in signals'
  PROVE  Rank(pos'[v]) >= Rank(s)
<1>1. /\ <<v, s>> \in signals => Rank(pos[v]) >= Rank(s)
      /\ pos[v] \in FulfillmentStatus
      /\ Rank(s) \in 0..100 /\ Rank(pos[v]) \in 0..100
  <2>1. pos[v] \in FulfillmentStatus
    BY DEF TypeOK
  <2> QED
    BY <2>1, RankFact DEF Reflects, Rank
<1>2. CASE KitchenMoves
  <2>1. PICK u \in VendorOrder, state \in FulfillmentStatus :
          /\ FULFILLMENT_RANK[state] > FULFILLMENT_RANK[pos[u]]
          /\ pos' = [pos EXCEPT ![u] = state]
          /\ signals' = signals \cup {<<u, state>>}
    BY <1>2 DEF KitchenMoves
  <2>2. Rank(state) \in 0..100
    BY RankFact DEF Rank
  <2>3. CASE u = v
    <3>1. pos'[v] = state /\ Rank(state) > Rank(pos[v])
      BY <2>1, <2>3 DEF TypeOK, Rank
    <3>2. <<v, s>> \in signals \/ s = state
      BY <2>1, <2>3
    <3> QED
      BY <1>1, <2>2, <3>1, <3>2
  <2>4. CASE u # v
    <3>1. pos'[v] = pos[v] /\ <<v, s>> \in signals
      BY <2>1, <2>4 DEF TypeOK
    <3> QED
      BY <1>1, <3>1
  <2> QED
    BY <2>3, <2>4
<1>3. CASE KitchenReplies
  <2>1. /\ pos' = pos
        /\ \E u \in VendorOrder, report \in {"pending", "failed"} :
             signals' = signals \cup {<<u, report>>}
    BY <1>3 DEF KitchenReplies
  <2>2. <<v, s>> \in signals \/ s = "pending"
    BY <2>1 DEF FulfillmentStatus
  <2> QED
    BY <1>1, <2>1, <2>2, RankFact
<1>4. CASE \E w \in Worker : CallSquare(w)
  <2>1. PICK w \in Worker : CallSquare(w)
    BY <1>4
  <2>2. Mode[job[w].vo] = "square" /\ signals' = signals
    BY <2>1 DEF CallSquare
  <2>3. \/ pos' = pos
        \/ pos' = [pos EXCEPT ![job[w].vo] = IF tickets[job[w].vo] = 0 THEN "accepted" ELSE @]
    BY <2>1 DEF CallSquare
  <2>4. pos'[v] = pos[v]
    BY <2>2, <2>3 DEF TypeOK
  <2> QED
    BY <1>1, <2>2, <2>4
<1>5. ASSUME NEW w \in Worker, Request(w) \/ Crash(w) PROVE UNCHANGED <<pos, signals>>
  BY <1>5 DEF Request, Crash, ReceivePayment, ReceiveDeliverectWebhook, ReceiveSquareWebhook,
     DashboardTransition, AdminTransition, AskRecovery, AskRetry, AskSquareSync,
     AskRecheck, kitchen
<1>6. ASSUME NEW w \in Worker, JobStep(w), ~CallSquare(w) PROVE UNCHANGED <<pos, signals>>
  BY <1>6 DEF JobStep, LookUpDeliverectOrder, ApplyLookup, PromoteAuthority, FetchSquareOrder,
     RecoverVendorOrder, OpenRouting, LoadVendorOrders, SettleOrder, SubmitVendorOrder,
     DeliverectPrecheckFails, CallDeliverect, ReadAuthority, StampAuthority,
     persistPartialSquareOrder, submitSquareExternalPayment, recordSquareRoutingFailure,
     WriteVendorOrder, LogRecovery, recomputeParentStatus, PersistParentStatus,
     AppendParentHistory, kitchen
<1>7. UNCHANGED vars => UNCHANGED <<pos, signals>>
  BY DEF vars, kitchen
<1> QED
  BY <1>1, <1>2, <1>3, <1>4, <1>5, <1>6, <1>7 DEF Next

LEMMA ReflectsStep ==
  ASSUME TypeOK, TypeOK', Fits, Reflects, Alone, "crash" \notin Faults, [Next]_vars
  PROVE  Reflects'
<1> SUFFICES ASSUME NEW v \in VendorOrder, NEW s \in FulfillmentStatus,
                    Mode[v] = "deliverect"
             PROVE  /\ <<v, s>> \in signals' => Rank(pos'[v]) >= Rank(s)
                    /\ <<v, s>> \in events' => Reaches(v, s)'
  BY DEF Reflects
<1>1. <<v, s>> \in events => Reaches(v, s)'
  BY ReachesStep DEF Reflects
<1>2. <<v, s>> \in events' \ events => Reaches(v, s)'
  BY EventsGrow, TakenReportReaches
<1> QED
  BY <1>1, <1>2, KitchenStandsByReports

\* With one handler at a time and no crash, a delivered report is never lost: the row is
\* as far as every report, or the job that took it will put it there.
THEOREM ReportsAreReflected == Alone /\ "crash" \notin Faults => (Spec => []Reflects)
<1> SUFFICES ASSUME Alone, "crash" \notin Faults PROVE Spec => []Reflects
  OBVIOUS
<1>1. Init => Reflects
  BY DEF Init, Reflects
<1>2. TypeOK /\ TypeOK' /\ Fits /\ Reflects /\ [Next]_vars => Reflects'
  BY ReflectsStep
<1>3. Spec => []Fits
  BY LoneJobFits
<1> QED
  BY <1>1, <1>2, <1>3, TypeCorrect, PTL DEF Spec

\* Then, once every report was delivered and nothing runs, a vendor order no person acted
\* on stands where its kitchen stands.
THEOREM KitchensAreReflected == Alone /\ "crash" \notin Faults => (Spec => []KitchenIsReflected)
<1> SUFFICES ASSUME Alone, "crash" \notin Faults PROVE Spec => []KitchenIsReflected
  OBVIOUS
<1>1. ASSUME TypeOK, NothingInvented, Reflects PROVE KitchenIsReflected
  <2> SUFFICES ASSUME NEW v \in VendorOrder, AtRest, v \notin touched, Mode[v] = "deliverect",
                      \A s \in Report : <<v, s>> \in signals => <<v, s>> \in events
               PROVE  row[v].fulfillment = pos[v]
    BY DEF KitchenIsReflected
  <2> DEFINE f == row[v].fulfillment
  <2>1. /\ f \in FulfillmentStatus /\ pos[v] \in FulfillmentStatus
        /\ Rank(f) \in 0..100 /\ Rank(pos[v]) \in 0..100
    <3>1. f \in FulfillmentStatus /\ pos[v] \in FulfillmentStatus
      BY <1>1 DEF TypeOK, Row
    <3> QED
      BY <3>1, RankFact DEF Rank
  <2>2. /\ f = "pending" \/ <<v, f>> \in signals
        /\ pos[v] = "pending" \/ <<v, pos[v]>> \in signals
    BY <1>1 DEF NothingInvented, NoInventedStatus, Told
  <2>3. Rank(pos[v]) >= Rank(f)
    BY <1>1, <2>1, <2>2, RankFact DEF Reflects
  <2>4. pos[v] # "pending" => Rank(f) >= Rank(pos[v])
    <3>1. pos[v] # "pending" => Reaches(v, pos[v])
      BY <1>1, <2>1, <2>2 DEF Reflects, Report
    <3> QED
      BY <3>1 DEF Reaches, AtRest, At
  <2>5. Rank(f) = Rank(pos[v])
    BY <2>1, <2>3, <2>4, RankFact
  <2> QED
    BY <2>1, <2>5, RankFact DEF Rank
<1>2. TypeOK /\ NothingInvented /\ Reflects => KitchenIsReflected
  BY <1>1
<1>3. Spec => []Reflects
  BY ReportsAreReflected
<1> QED
  BY <1>2, <1>3, TypeCorrect, NothingInventedHolds, PTL

-----------------------------------------------------------------------------
(* A second ticket needs a failure.                                        *)

\* What the code's own retry button is safe for: nobody overrides a failure by hand or
\* asks Deliverect for it, and every POS answers a submission, with its id.
NobodyOverrides == Kinds \cap {"admin", "recheck"} = {}
EveryCallAnswers == Faults \cap {"crash", "lost_answer", "no_id"} = {}

\* A vendor order that is not free is routed with an id, unless the lone job is about to
\* write that.
LEMMA NotFree ==
  ASSUME Ticketed, NEW w \in Worker, Worker = {w}, NEW v \in VendorOrder, v \notin Free
  PROVE  \/ row[v].routing \in {"sent", "confirmed"} /\ row[v].ext
         \/ Routes(job[w], v)
BY DEF Ticketed

\* A step of the only worker that writes no row and creates no ticket.
LEMMA TicketsStay ==
  ASSUME TypeOK, Ticketed, NEW w \in Worker, Worker = {w}, job[w].pc # "write",
         NEW k, Set(w, k), row' = row, tickets' = tickets, events \subseteq events',
         NEW free, free \subseteq Free', SubmitsOnce(k, free)
  PROVE  Ticketed'
<1>1. job'[w] = k
  BY JobIsSet
<1>2. \A v \in VendorOrder : v \notin Free' => v \notin Free
  BY DEF Free, Rejected
<1>3. \A v \in VendorOrder : v \notin Free' => tickets[v] = 1 /\ row[v].ext
                                               /\ row[v].routing \in {"sent", "confirmed"}
  BY <1>2, NotFree DEF Ticketed, Routes
<1>4. SubmitsOnce(k, Free')
  BY DEF SubmitsOnce
<1>5. \A v \in VendorOrder : Mode[v] # "deliverect" => tickets[v] <= 1
  BY DEF Ticketed
<1> QED
  BY <1>1, <1>3, <1>4, <1>5 DEF Ticketed

LEMMA FreeGrows ==
  ASSUME tickets' = tickets, events \subseteq events'
  PROVE  Free \subseteq Free'
BY DEF Free, Rejected

\* A job that goes on has no more to submit than it had.
LEMMA GoingOnSubmits ==
  ASSUME NEW j \in Job, NEW free, j.todo \subseteq free, NEW pc \in Resume \cup {"derive"}
  PROVE  SubmitsOnce(Goto(j, pc), free)
<1>1. Goto(j, pc).pc \notin {"call", "promote", "write", "recover", "partial", "pay", "fail"}
  BY GotoKeeps DEF Resume
<1>2. Goto(j, pc).todo \subseteq free
  BY GotoKeeps, IdleColumns
<1> QED
  BY <1>1, <1>2 DEF SubmitsOnce

LEMMA RequestTicketed ==
  ASSUME TypeOK, Ticketed, NobodyOverrides, NEW w \in Worker, Worker = {w}, Request(w)
  PROVE  Ticketed'
<1> USE IdleFact, IdleColumns
<1>1. job[w].pc = "idle"
  BY DEF Request, ReceivePayment, ReceiveDeliverectWebhook, ReceiveSquareWebhook,
     DashboardTransition, AdminTransition, AskRecovery, AskRetry, AskSquareSync,
     AskRecheck, StaffAsks, At
<1>2. row' = row /\ tickets' = tickets /\ events \subseteq events'
  BY DEF Request, ReceivePayment, ReceiveDeliverectWebhook, ReceiveSquareWebhook,
     DashboardTransition, AdminTransition, AskRecovery, AskRetry, AskSquareSync,
     AskRecheck, database, kitchen
<1>3. ASSUME NEW k, Set(w, k), SubmitsOnce(k, Free')
      PROVE  Ticketed'
  BY <1>1, <1>2, <1>3, TicketsStay
<1>4. Free \subseteq Free'
  BY <1>2, FreeGrows
<1>5. \A v \in VendorOrder : /\ row[v] \in Row /\ row[v].routing \in RoutingStatus
                             /\ row[v].fulfillment \in FulfillmentStatus
  BY DEF TypeOK, Row
<1>6. CASE ReceivePayment(w)
  <2> DEFINE k == [Idle EXCEPT !.pc = "parent", !.kind = "payment", !.parent = "paid",
                               !.next = "open"]
  <2>1. k.pc = "parent" /\ k.todo = {}
    BY DEF Job
  <2>2. Set(w, k)
    BY <1>6 DEF ReceivePayment
  <2> HIDE DEF k
  <2> QED
    BY <1>3, <2>1, <2>2 DEF SubmitsOnce
<1>7. CASE ReceiveDeliverectWebhook(w)
  <2>1. PICK v \in VendorOrder, report \in Report, id \in BOOLEAN :
          /\ events' = events \cup {<<v, report>>}
          /\ LET next == mergeDeliverectMappedIntoVendorOrder(row[v].routing,
                           row[v].fulfillment, interpretNumericCode(report))
                 diff == Difference(next, row[v].routing, row[v].fulfillment)
             IN  Set(w, [Idle EXCEPT !.pc = "promote", !.kind = "webhook", !.vo = v,
                                     !.routing = diff.routing,
                                     !.fulfillment = diff.fulfillment, !.ext = id])
    BY <1>7 DEF ReceiveDeliverectWebhook
  <2> DEFINE next == mergeDeliverectMappedIntoVendorOrder(row[v].routing,
                       row[v].fulfillment, interpretNumericCode(report))
             diff == Difference(next, row[v].routing, row[v].fulfillment)
             k == [Idle EXCEPT !.pc = "promote", !.kind = "webhook", !.vo = v,
                               !.routing = diff.routing,
                               !.fulfillment = diff.fulfillment, !.ext = id]
  <2>2. diff.routing = "failed" => report = "failed"
    BY <1>5, DeliverectAdvances
  <2>3. Set(w, k)
    BY <2>1
  <2> HIDE DEF diff, next
  <2>4. k.pc = "promote" /\ k.vo = v /\ k.routing = diff.routing /\ k.todo = {}
    BY DEF Job
  <2>5. report = "failed" => v \in Free'
    BY <2>1 DEF Free, Rejected
  <2> HIDE DEF k
  <2> QED
    BY <1>3, <2>2, <2>3, <2>4, <2>5 DEF SubmitsOnce
<1>8. ASSUME NEW v \in VendorOrder,
             Set(w, [Idle EXCEPT !.pc = "fetch", !.kind = "sync", !.vo = v,
                                 !.routing = row[v].routing,
                                 !.fulfillment = row[v].fulfillment])
      PROVE  Ticketed'
  <2> DEFINE k == [Idle EXCEPT !.pc = "fetch", !.kind = "sync", !.vo = v,
                               !.routing = row[v].routing, !.fulfillment = row[v].fulfillment]
  <2>1. k.pc = "fetch" /\ k.todo = {}
    BY DEF Job
  <2>2. Set(w, k)
    BY <1>8
  <2> HIDE DEF k
  <2> QED
    BY <1>3, <2>1, <2>2 DEF SubmitsOnce
<1>9. CASE ReceiveSquareWebhook(w)
  <2>1. PICK v \in VendorOrder :
          Set(w, IF row[v].ext
                 THEN [Idle EXCEPT !.pc = "fetch", !.kind = "sync", !.vo = v,
                                   !.routing = row[v].routing,
                                   !.fulfillment = row[v].fulfillment]
                 ELSE Idle)
    BY <1>9 DEF ReceiveSquareWebhook
  <2>2. SubmitsOnce(Idle, Free')
    BY DEF SubmitsOnce
  <2> QED
    BY <1>3, <1>8, <2>1, <2>2
<1>10. CASE DashboardTransition(w)
  <2>1. PICK v \in VendorOrder, target \in Target \ {"sent", "failed"} :
          \E patch \in resolveVendorDashboardTransitionPatch(
                         row[v].routing, row[v].fulfillment, target,
                         receiptConfirmed(v), Mode[v] = "manual_dashboard") :
            Transition(w, v, "dashboard", patch)
    BY <1>10 DEF DashboardTransition
  <2>2. PICK patch \in resolveVendorDashboardTransitionPatch(
                         row[v].routing, row[v].fulfillment, target,
                         receiptConfirmed(v), Mode[v] = "manual_dashboard") :
          Transition(w, v, "dashboard", patch)
    BY <2>1
  <2>3. patch.routing \in {"confirmed", Keep}
    BY <1>5, DashboardAdvances
  <2> DEFINE k == [Idle EXCEPT !.pc = "write", !.kind = "dashboard", !.vo = v,
                         !.routing = patch.routing, !.fulfillment = patch.fulfillment]
  <2>4. k.pc = "write" /\ k.routing = patch.routing /\ k.todo = {}
    BY DEF Job
  <2>5. Set(w, k)
    BY <2>2 DEF Transition
  <2> HIDE DEF k
  <2> QED
    BY <1>3, <2>3, <2>4, <2>5 DEF SubmitsOnce, Keep
<1>11. CASE AskRecovery(w)
  <2>1. PICK v \in VendorOrder :
          Set(w, [Idle EXCEPT !.pc = "recover", !.kind = "recovery", !.vo = v])
    BY <1>11 DEF AskRecovery
  <2> DEFINE k == [Idle EXCEPT !.pc = "recover", !.kind = "recovery", !.vo = v]
  <2>2. k.pc = "recover" /\ k.routing = Keep /\ k.todo = {}
    BY DEF Job
  <2>3. Set(w, k)
    BY <2>1
  <2> HIDE DEF k
  <2> QED
    BY <1>3, <2>2, <2>3 DEF SubmitsOnce
\* What may be retried is free.
<1>12. CASE AskRetry(w)
  <2>1. PICK v \in VendorOrder :
          /\ canRetryRouting(v)
          /\ Set(w, [Idle EXCEPT !.pc = "each", !.kind = "retry", !.todo = {v}])
    BY <1>12 DEF AskRetry
  <2> DEFINE k == [Idle EXCEPT !.pc = "each", !.kind = "retry", !.todo = {v}]
  <2>2. k.pc = "each" /\ k.todo = {v}
    BY DEF Job
  <2>3. Set(w, k)
    BY <2>1
  <2>4. v \in Free
    <3> SUFFICES ASSUME v \notin Free PROVE FALSE
      OBVIOUS
    <3>1. Mode[v] = "deliverect"
      BY DEF Free, Rejected
    <3>2. row[v].routing \in {"sent", "confirmed"} /\ row[v].ext
      BY <1>1, NotFree DEF Routes
    <3> QED
      BY <2>1, <3>1, <3>2 DEF canRetryRouting
  <2> HIDE DEF k
  <2> QED
    BY <1>3, <1>4, <2>2, <2>3, <2>4 DEF SubmitsOnce
<1>13. CASE AskSquareSync(w)
  BY <1>8, <1>13 DEF AskSquareSync
<1>14. ~AdminTransition(w) /\ ~AskRecheck(w)
  BY DEF AdminTransition, AskRecheck, StaffAsks, NobodyOverrides
<1> QED
  BY <1>6, <1>7, <1>9, <1>10, <1>11, <1>12, <1>13, <1>14 DEF Request

\* A running job that writes no row and creates no ticket.
LEMMA QuietJobTicketed ==
  ASSUME TypeOK, Fits, Ticketed, NobodyOverrides, NEW w \in Worker, Worker = {w}, JobStep(w),
         ~CallDeliverect(w), ~CallSquare(w),
         ~StampAuthority(w), ~persistPartialSquareOrder(w), ~WriteVendorOrder(w)
  PROVE  Ticketed'
<1> DEFINE j == job[w]
<1>1. /\ row' = row /\ tickets' = tickets /\ events \subseteq events'
      /\ j.pc # "write"
  BY DEF JobStep, LookUpDeliverectOrder, ApplyLookup, PromoteAuthority, FetchSquareOrder,
     RecoverVendorOrder, OpenRouting, LoadVendorOrders, SettleOrder, SubmitVendorOrder,
     DeliverectPrecheckFails, ReadAuthority, submitSquareExternalPayment,
     recordSquareRoutingFailure, LogRecovery, recomputeParentStatus, PersistParentStatus,
     AppendParentHistory, database, kitchen, At
<1>2. ASSUME NEW k, Set(w, k), SubmitsOnce(k, Free)
      PROVE  Ticketed'
  BY <1>1, <1>2, FreeGrows, TicketsStay
<1>3. /\ j \in Job /\ SubmitsOnce(j, Free) /\ j.todo \subseteq Free
      /\ Holding(j.pc) => j.vo \in VendorOrder
      /\ j.pc = "fetch" => j.routing # Keep /\ j.fulfillment # Keep
      /\ j.next \in Resume
  BY DEF TypeOK, Ticketed, SubmitsOnce, Job
<1>4. \A pc \in Resume \cup {"derive"} : SubmitsOnce(Goto(j, pc), Free)
  BY <1>3, GoingOnSubmits
<1>5. \A ok \in BOOLEAN : SubmitsOnce(Done(j, ok), Free)
  BY <1>3, <1>4, DoneKeeps
<1>6. SubmitsOnce(Idle, Free)
  BY IdleFact, IdleColumns DEF SubmitsOnce
<1>7. \A v \in VendorOrder : /\ row[v] \in Row /\ row[v].routing \in RoutingStatus
                             /\ pos[v] \in FulfillmentStatus
  BY DEF TypeOK, Row
\* A job that changes neither what it has to submit nor what it would write.
<1>8. ASSUME NEW k, k.todo = j.todo,
             k.pc \in {"parent", "stamp", "trail"}
      PROVE  SubmitsOnce(k, Free)
  BY <1>3, <1>8 DEF SubmitsOnce
<1>9. ~LookUpDeliverectOrder(w) /\ ~ApplyLookup(w)
  <2>1. j.pc \notin {"lookup", "apply"}
    <3>1. FitsRow(j, row[j.vo])
      BY DEF Fits
    <3> QED
      BY <3>1 DEF FitsRow, NobodyOverrides
  <2> QED
    BY <2>1 DEF LookUpDeliverectOrder, ApplyLookup, At
<1>10. CASE PromoteAuthority(w)
  <2> DEFINE a == posAuthorityPromotionUpdateIfEligible(row[j.vo].authority)
             k == [j EXCEPT !.pc = "write", !.authority = a]
  <2>1. j.pc = "promote" /\ Set(w, k)
    BY <1>10 DEF PromoteAuthority, At
  <2> HIDE DEF a
  <2>2. k.pc = "write" /\ k.vo = j.vo /\ k.routing = j.routing /\ k.todo = j.todo
    BY <1>3 DEF Job
  <2> HIDE DEF k
  <2> QED
    BY <1>2, <1>3, <2>1, <2>2 DEF SubmitsOnce
<1>11. CASE FetchSquareOrder(w)
  <2> DEFINE next == mergeSquareMappedIntoVendorOrder(j.routing, j.fulfillment,
                       mapSquareOrderSnapshotToVendorStatus(pos[j.vo]))
             diff == Difference(next, j.routing, j.fulfillment)
             k == [j EXCEPT !.pc = "write", !.routing = diff.routing,
                            !.fulfillment = diff.fulfillment, !.authority = "pos"]
  <2>1. j.pc = "fetch" /\ (Set(w, Goto(j, "derive")) \/ Set(w, k))
    BY <1>11 DEF FetchSquareOrder, At
  <2>2. /\ j.vo \in VendorOrder /\ j.routing \in RoutingStatus
        /\ j.fulfillment \in FulfillmentStatus
    BY <1>3, <2>1 DEF Holding, Resume, Job
  <2>3. diff.routing # "failed"
    BY <1>7, <2>2, SquareAdvances
  <2> HIDE DEF diff, next
  <2>4. k.pc = "write" /\ k.routing = diff.routing /\ k.todo = j.todo
    BY <1>3 DEF Job
  <2> HIDE DEF k
  <2>5. SubmitsOnce(k, Free)
    BY <1>3, <2>3, <2>4 DEF SubmitsOnce
  <2> QED
    BY <1>2, <1>4, <2>1, <2>5
<1>12. CASE RecoverVendorOrder(w)
  <2> DEFINE k == [j EXCEPT !.pc = "write", !.fulfillment = "accepted",
                            !.authority = "admin_override"]
  <2>1. j.pc = "recover" /\ (Set(w, k) \/ Set(w, Idle))
    BY <1>12 DEF RecoverVendorOrder, At
  <2>2. k.pc = "write" /\ k.routing = j.routing /\ k.todo = j.todo
    BY <1>3 DEF Job
  <2> HIDE DEF k
  <2>3. SubmitsOnce(k, Free)
    BY <1>3, <2>1, <2>2 DEF SubmitsOnce, Keep
  <2> QED
    BY <1>2, <1>6, <2>1, <2>3
<1>13. CASE OpenRouting(w)
  <2> DEFINE k == [j EXCEPT !.pc = "parent", !.parent = "routing", !.next = "load"]
  <2>1. k.pc = "parent" /\ k.todo = j.todo
    BY <1>3 DEF Job
  <2>2. Set(w, k)
    BY <1>13 DEF OpenRouting
  <2> HIDE DEF k
  <2> QED
    BY <1>2, <1>8, <2>1, <2>2
\* What is still "pending" is free.
<1>14. CASE LoadVendorOrders(w)
  <2> DEFINE todo == {v \in VendorOrder : row[v].routing = "pending"}
             k == [j EXCEPT !.pc = "each", !.next = "each", !.todo = todo]
  <2>1. k.pc = "each" /\ k.todo = todo
    BY <1>3 DEF Job
  <2>2. Set(w, k)
    BY <1>14 DEF LoadVendorOrders
  <2>3. todo \subseteq Free
    BY <1>1, NotFree DEF Routes
  <2> HIDE DEF k, todo
  <2> QED
    BY <1>2, <2>1, <2>2, <2>3 DEF SubmitsOnce
<1>15. CASE SettleOrder(w)
  <2> DEFINE k == [j EXCEPT !.pc = "parent", !.parent = DerivedStatusFromHistory,
                            !.next = "idle"]
  <2>1. k.pc = "parent" /\ k.todo = j.todo
    BY <1>3 DEF Job
  <2>2. Set(w, k)
    BY <1>15 DEF SettleOrder
  <2> HIDE DEF k
  <2> QED
    BY <1>2, <1>8, <2>1, <2>2
<1>16. CASE SubmitVendorOrder(w)
  <2>1. PICK v \in j.todo :
          LET h == [j EXCEPT !.vo = v, !.todo = @ \ {v}, !.routing = Keep,
                             !.authority = Keep, !.ext = FALSE]
          IN  Set(w, IF Mode[v] = "deliverect" THEN SubmitToDeliverect(h, v)
                     ELSE IF Mode[v] = "square" THEN SubmitToSquare(h, v)
                     ELSE SubmitManually(h, v))
    BY <1>16 DEF SubmitVendorOrder
  <2> DEFINE h == [j EXCEPT !.vo = v, !.todo = @ \ {v}, !.routing = Keep,
                            !.authority = Keep, !.ext = FALSE]
  <2>2. v \in VendorOrder /\ v \in Free
    BY <1>3 DEF Job
  <2>3. /\ h \in Job /\ h.vo = v /\ h.todo = j.todo \ {v}
    BY <1>3, <2>2 DEF Job
  <2> HIDE DEF h
  <2>4. \A ok \in BOOLEAN : SubmitsOnce(Done(h, ok), Free)
    BY <1>3, <2>3, GoingOnSubmits, DoneKeeps
  <2>5. SubmitsOnce(SubmitToDeliverect(h, v), Free)
    <3> DEFINE s == [h EXCEPT !.pc = "stampRead"]
               c == [h EXCEPT !.pc = "call",
                              !.routing = IF row[v].routing = "pending" THEN "failed" ELSE Keep]
    <3>1. s.pc = "stampRead" /\ s.todo = h.todo
      BY <2>3 DEF Job
    <3>2. c.pc = "call" /\ c.vo = v /\ c.todo = h.todo
      BY <2>3 DEF Job
    <3>3. SubmitToDeliverect(h, v) \in {Done(h, FALSE), s, c}
      BY DEF SubmitToDeliverect
    <3> HIDE DEF s, c
    <3> QED
      BY <1>3, <2>2, <2>3, <2>4, <3>1, <3>2, <3>3 DEF SubmitsOnce
  <2>6. Mode[v] = "square" => SubmitsOnce(SubmitToSquare(h, v), Free)
    <3> DEFINE p == [h EXCEPT !.pc = "pay"]
               c == [h EXCEPT !.pc = "call"]
    <3>1. p.pc = "pay" /\ p.vo = v /\ p.todo = h.todo
      BY <2>3 DEF Job
    <3>2. c.pc = "call" /\ c.vo = v /\ c.todo = h.todo
      BY <2>3 DEF Job
    <3>3. SubmitToSquare(h, v) \in {Done(h, TRUE), p, c}
      BY DEF SubmitToSquare
    <3> HIDE DEF p, c
    <3> QED
      BY <1>3, <2>2, <2>3, <2>4, <3>1, <3>2, <3>3 DEF SubmitsOnce
  <2>7. SubmitsOnce(SubmitManually(h, v), Free)
    <3> DEFINE a == IF row[v].authority = "none" THEN "vendor_manual" ELSE Keep
               m == [h EXCEPT !.pc = "write", !.routing = "confirmed", !.authority = a]
    <3> HIDE DEF a
    <3>1. m.pc = "write" /\ m.routing = "confirmed" /\ m.todo = h.todo
      BY <2>3 DEF Job
    <3>2. SubmitManually(h, v) = m
      BY DEF SubmitManually, a
    <3> HIDE DEF m
    <3> QED
      BY <1>3, <2>3, <3>1, <3>2 DEF SubmitsOnce
  <2> QED
    BY <1>2, <2>1, <2>5, <2>6, <2>7 DEF h
<1>17. CASE DeliverectPrecheckFails(w)
  <2> DEFINE k == [j EXCEPT !.pc = "write", !.routing = "failed"]
  <2>1. j.pc = "call" /\ (Set(w, k) \/ Set(w, Done(j, FALSE)))
    BY <1>17 DEF DeliverectPrecheckFails, At
  <2>2. k.pc = "write" /\ k.vo = j.vo /\ k.todo = j.todo
    BY <1>3 DEF Job
  <2> HIDE DEF k
  <2>3. SubmitsOnce(k, Free)
    BY <1>3, <2>1, <2>2 DEF SubmitsOnce
  <2> QED
    BY <1>2, <1>5, <2>1, <2>3
<1>18. CASE ReadAuthority(w)
  <2> DEFINE a == IF row[j.vo].authority = "none" THEN "vendor_manual" ELSE Keep
             k == [j EXCEPT !.pc = "stamp", !.authority = a]
  <2>1. Set(w, k)
    BY <1>18 DEF ReadAuthority
  <2> HIDE DEF a
  <2>2. k.pc = "stamp" /\ k.todo = j.todo
    BY <1>3 DEF Job
  <2> HIDE DEF k
  <2> QED
    BY <1>2, <1>8, <2>1, <2>2
<1>19. CASE submitSquareExternalPayment(w)
  <2> DEFINE s == [j EXCEPT !.pc = "write", !.routing = "sent"]
             f == [j EXCEPT !.pc = "fail"]
  <2>1. j.pc = "pay" /\ (Set(w, s) \/ Set(w, f))
    BY <1>19 DEF submitSquareExternalPayment, At
  <2>2. /\ s.pc = "write" /\ s.routing = "sent" /\ s.todo = j.todo
        /\ f.pc = "fail" /\ f.vo = j.vo /\ f.todo = j.todo
    BY <1>3 DEF Job
  <2> HIDE DEF s, f
  <2>3. SubmitsOnce(s, Free) /\ SubmitsOnce(f, Free)
    BY <1>3, <2>1, <2>2 DEF SubmitsOnce
  <2> QED
    BY <1>2, <2>1, <2>3
<1>20. CASE recordSquareRoutingFailure(w)
  <2> DEFINE k == [j EXCEPT !.pc = "write", !.routing = "failed"]
  <2>1. j.pc = "fail" /\ (Set(w, k) \/ Set(w, Done(j, FALSE)))
    BY <1>20 DEF recordSquareRoutingFailure, At
  <2>2. j.vo \in Free
    BY <1>3, <2>1 DEF SubmitsOnce, Free, Rejected, Holding, Resume
  <2>3. k.pc = "write" /\ k.vo = j.vo /\ k.todo = j.todo
    BY <1>3 DEF Job
  <2> HIDE DEF k
  <2>4. SubmitsOnce(k, Free)
    BY <1>3, <2>2, <2>3 DEF SubmitsOnce
  <2> QED
    BY <1>2, <1>5, <2>1, <2>4
<1>21. CASE LogRecovery(w)
  BY <1>2, <1>4, <1>21 DEF LogRecovery
<1>22. CASE recomputeParentStatus(w)
  <2> DEFINE k == [j EXCEPT !.pc = "parent", !.parent = DerivedStatus]
  <2>1. Set(w, k) \/ Set(w, Goto(j, j.next))
    BY <1>22 DEF recomputeParentStatus
  <2>2. k.pc = "parent" /\ k.todo = j.todo
    BY <1>3 DEF Job
  <2> HIDE DEF k
  <2> QED
    BY <1>2, <1>3, <1>4, <1>8, <2>1, <2>2
<1>23. CASE PersistParentStatus(w)
  <2> DEFINE k == [j EXCEPT !.pc = "trail"]
  <2>1. Set(w, k)
    BY <1>23 DEF PersistParentStatus
  <2>2. k.pc = "trail" /\ k.todo = j.todo
    BY <1>3 DEF Job
  <2> HIDE DEF k
  <2> QED
    BY <1>2, <1>8, <2>1, <2>2
<1>24. CASE AppendParentHistory(w)
  BY <1>2, <1>3, <1>4, <1>24 DEF AppendParentHistory
<1> QED
  BY <1>9, <1>10, <1>11, <1>12, <1>13, <1>14, <1>15, <1>16, <1>17, <1>18, <1>19, <1>20,
     <1>21, <1>22, <1>23, <1>24 DEF JobStep

\* Deliverect answers: a ticket is created only for a vendor order that was free, and the
\* job is about to write that it was sent.
LEMMA CallDeliverectTicketed ==
  ASSUME TypeOK, Ticketed, EveryCallAnswers, NEW w \in Worker, Worker = {w},
         CallDeliverect(w)
  PROVE  Ticketed'
<1> DEFINE j == job[w]
<1>1. /\ row' = row /\ events' = events /\ j.pc = "call" /\ Mode[j.vo] = "deliverect"
  BY DEF CallDeliverect, At, database
<1>2. /\ j \in Job /\ SubmitsOnce(j, Free) /\ j.vo \in VendorOrder
      /\ tickets \in [VendorOrder -> Nat]
  BY <1>1 DEF TypeOK, Ticketed, Holding, Resume
<1>3. j.vo \in Free \ j.todo /\ j.todo \subseteq Free
  BY <1>1, <1>2 DEF SubmitsOnce
<1> DEFINE s == [j EXCEPT !.pc = "write", !.routing = "sent", !.ext = TRUE]
           k == [j EXCEPT !.pc = "write"]
<1>4. /\ s.pc = "write" /\ s.vo = j.vo /\ s.todo = j.todo /\ s.routing = "sent" /\ s.ext
      /\ k.pc = "write" /\ k.vo = j.vo /\ k.todo = j.todo
  BY <1>2 DEF Job
<1>5. \/ tickets' = [tickets EXCEPT ![j.vo] = @ + 1] /\ Set(w, s)
      \/ tickets' = tickets /\ Set(w, k)
  <2>1. PICK id \in BOOLEAN :
          \/ /\ id \/ "no_id" \in Faults
             /\ tickets' = [tickets EXCEPT ![j.vo] = @ + 1]
             /\ Set(w, [j EXCEPT !.pc = "write", !.routing = "sent", !.ext = id])
          \/ tickets' = tickets /\ Set(w, k)
          \/ "lost_answer" \in Faults
    BY DEF CallDeliverect
  <2>2. "no_id" \notin Faults /\ "lost_answer" \notin Faults
    BY DEF EveryCallAnswers
  <2>3. id => id = TRUE
    OBVIOUS
  <2> QED
    BY <2>1, <2>2, <2>3
<1> HIDE DEF s, k
<1>6. CASE tickets' = tickets /\ Set(w, k)
  <2>1. SubmitsOnce(k, Free)
    BY <1>3, <1>4 DEF SubmitsOnce
  <2> QED
    BY <1>1, <1>6, <2>1, FreeGrows, TicketsStay
<1>7. CASE tickets' = [tickets EXCEPT ![j.vo] = @ + 1] /\ Set(w, s)
  <2>1. job'[w] = s
    BY <1>7, JobIsSet
  <2>2. \A v \in VendorOrder : v # j.vo => /\ tickets'[v] = tickets[v]
                                           /\ v \in Free <=> v \in Free'
    BY <1>1, <1>2, <1>7 DEF Free, Rejected
  <2>3. tickets'[j.vo] = tickets[j.vo] + 1
    BY <1>2, <1>7
  <2>4. SubmitsOnce(s, Free')
    <3>1. j.todo \subseteq Free'
      BY <1>2, <1>3, <2>2 DEF Job
    <3> QED
      BY <1>4, <3>1 DEF SubmitsOnce
  <2>5. ASSUME NEW v \in VendorOrder, v \notin Free'
        PROVE  /\ tickets'[v] = 1
               /\ \/ row[v].routing \in {"sent", "confirmed"} /\ row[v].ext
                  \/ Routes(s, v)
    <3>1. CASE v = j.vo
      <4>1. tickets[v] = 0
        BY <1>1, <1>3, <2>5, <3>1 DEF Free, Rejected
      <4> QED
        BY <1>4, <2>3, <3>1, <4>1 DEF Routes
    <3>2. CASE v # j.vo
      <4>1. v \notin Free /\ tickets'[v] = tickets[v]
        BY <2>2, <2>5, <3>2
      <4>2. tickets[v] = 1
        BY <4>1 DEF Ticketed
      <4> QED
        BY <1>1, <4>1, <4>2, NotFree DEF Routes
    <3> QED
      BY <3>1, <3>2
  <2>6. \A v \in VendorOrder : Mode[v] # "deliverect" => tickets'[v] <= 1
    BY <1>1, <2>2 DEF Ticketed
  <2> QED
    BY <1>1, <2>1, <2>4, <2>5, <2>6 DEF Ticketed
<1> QED
  BY <1>5, <1>6, <1>7

\* Square creates one order per key, whatever is asked.
LEMMA CallSquareTicketed ==
  ASSUME TypeOK, Ticketed, NEW w \in Worker, Worker = {w}, CallSquare(w)
  PROVE  Ticketed'
<1> DEFINE j == job[w]
<1>1. /\ row' = row /\ events' = events /\ j.pc = "call" /\ Mode[j.vo] = "square"
  BY DEF CallSquare, At, database
<1>2. /\ j \in Job /\ SubmitsOnce(j, Free) /\ j.vo \in VendorOrder
      /\ tickets \in [VendorOrder -> Nat]
  BY <1>1 DEF TypeOK, Ticketed, Holding, Resume
<1> DEFINE p == [j EXCEPT !.pc = "partial"]
           f == [j EXCEPT !.pc = "fail"]
<1>3. /\ p.pc = "partial" /\ p.vo = j.vo /\ p.todo = j.todo
      /\ f.pc = "fail" /\ f.vo = j.vo /\ f.todo = j.todo
  BY <1>2 DEF Job
<1>4. Set(w, p) \/ Set(w, f)
  BY DEF CallSquare
<1> HIDE DEF p, f
<1>5. tickets' = tickets \/ tickets' = [tickets EXCEPT ![j.vo] = 1]
  BY DEF CallSquare
<1>6. Free' = Free
  BY <1>1, <1>2, <1>5 DEF Free, Rejected
<1>7. SubmitsOnce(job'[w], Free')
  <2>1. SubmitsOnce(p, Free) /\ SubmitsOnce(f, Free)
    BY <1>1, <1>2, <1>3 DEF SubmitsOnce
  <2> QED
    BY <1>4, <1>6, <2>1, JobIsSet
<1>8. ASSUME NEW v \in VendorOrder, v \notin Free'
      PROVE  tickets'[v] = 1 /\ row[v].routing \in {"sent", "confirmed"} /\ row[v].ext
  <2>1. v \notin Free /\ v # j.vo
    BY <1>1, <1>6, <1>8 DEF Free, Rejected
  <2>2. tickets[v] = 1
    BY <2>1 DEF Ticketed
  <2>3. row[v].routing \in {"sent", "confirmed"} /\ row[v].ext
    BY <1>1, <2>1, NotFree DEF Routes
  <2> QED
    BY <1>2, <1>5, <2>1, <2>2, <2>3
<1>9. \A v \in VendorOrder : Mode[v] # "deliverect" => tickets'[v] <= 1
  BY <1>2, <1>5 DEF Ticketed
<1> QED
  BY <1>1, <1>7, <1>8, <1>9 DEF Ticketed

\* The steps that write a row leave a ticketed one routed, with its id.
LEMMA WritingJobTicketed ==
  ASSUME TypeOK, NothingInvented, Ticketed, NEW w \in Worker, Worker = {w},
         StampAuthority(w) \/ persistPartialSquareOrder(w) \/ WriteVendorOrder(w)
  PROVE  Ticketed'
<1> DEFINE j == job[w]
<1>1. /\ tickets' = tickets /\ events' = events /\ Free' = Free
      /\ row \in [VendorOrder -> Row]
  BY DEF StampAuthority, persistPartialSquareOrder, WriteVendorOrder, kitchen, Free, Rejected,
     TypeOK
<1>2. j \in Job /\ SubmitsOnce(j, Free) /\ j.todo \subseteq Free
  BY DEF TypeOK, Ticketed, SubmitsOnce
<1>3. \A pc \in Resume \cup {"derive"} : SubmitsOnce(Goto(j, pc), Free)
  BY <1>2, GoingOnSubmits
<1>4. \A ok \in BOOLEAN : SubmitsOnce(Done(j, ok), Free)
  BY <1>2, <1>3, DoneKeeps
<1>5. ASSUME NEW k, Set(w, k), SubmitsOnce(k, Free),
             \A v \in VendorOrder \ Free :
               row'[v].routing \in {"sent", "confirmed"} /\ row'[v].ext
      PROVE  Ticketed'
  BY <1>1, <1>5, JobIsSet DEF Ticketed
<1>6. CASE StampAuthority(w)
  <2>1. row' = [row EXCEPT ![j.vo].authority = Patched(j.authority, @)] /\ j.pc = "stamp"
    BY <1>6 DEF StampAuthority, At
  <2>2. \A v \in VendorOrder : row'[v].routing = row[v].routing /\ row'[v].ext = row[v].ext
    BY <1>1, <2>1 DEF Row
  <2>3. \A v \in VendorOrder \ Free :
          row'[v].routing \in {"sent", "confirmed"} /\ row'[v].ext
    BY <2>1, <2>2, NotFree DEF Routes
  <2> QED
    BY <1>4, <1>5, <1>6, <2>3 DEF StampAuthority
<1>7. CASE persistPartialSquareOrder(w)
  <2>1. row' = [row EXCEPT ![j.vo].ext = TRUE] /\ j.pc = "partial"
    BY <1>7 DEF persistPartialSquareOrder, At
  <2>2. \A v \in VendorOrder : row'[v].routing = row[v].routing
                               /\ (row[v].ext => row'[v].ext)
    BY <1>1, <2>1 DEF Row
  <2>3. \A v \in VendorOrder \ Free :
          row'[v].routing \in {"sent", "confirmed"} /\ row'[v].ext
    BY <2>1, <2>2, NotFree DEF Routes
  <2> DEFINE k == [j EXCEPT !.pc = "pay"]
  <2>4. Set(w, k)
    BY <1>7 DEF persistPartialSquareOrder
  <2>5. k.pc = "pay" /\ k.vo = j.vo /\ k.todo = j.todo
    BY <1>2 DEF Job
  <2> HIDE DEF k
  <2>6. SubmitsOnce(k, Free)
    BY <1>2, <2>1, <2>5 DEF SubmitsOnce
  <2> QED
    BY <1>5, <2>3, <2>4, <2>6
<1>8. CASE WriteVendorOrder(w)
  <2>1. /\ j.pc = "write"
        /\ row' = [row EXCEPT ![j.vo] =
                     [routing     |-> Patched(j.routing, @.routing),
                      fulfillment |-> Patched(j.fulfillment, @.fulfillment),
                      authority   |-> Patched(j.authority, @.authority),
                      recovered   |-> @.recovered \/ j.kind = "recovery",
                      ext         |-> @.ext \/ j.ext,
                      heard       |-> @.heard \/ j.kind \in {"webhook", "recheck"}]]
    BY <1>8 DEF WriteVendorOrder, At
  <2>2. ASSUME NEW v \in VendorOrder \ Free
        PROVE  row'[v].routing \in {"sent", "confirmed"} /\ row'[v].ext
    <3>1. CASE v # j.vo
      <4>1. row'[v] = row[v] /\ ~Routes(j, v)
        BY <1>1, <2>1, <3>1 DEF Routes
      <4> QED
        BY <4>1, NotFree
    <3>2. CASE v = j.vo
      <4>1. /\ row'[v].routing = Patched(j.routing, row[v].routing)
            /\ row'[v].ext = (row[v].ext \/ j.ext)
        BY <1>1, <2>1, <3>2
      <4>2. j.routing \in RoutingStatus \cup {Keep} /\ j.routing # "failed"
        BY <1>2, <2>1, <2>2, <3>2 DEF SubmitsOnce, Job
      <4>3. j.routing # "pending"
        BY <2>1 DEF NothingInvented, Carries
      <4>4. j.routing \in {"sent", "confirmed", Keep}
        BY <4>2, <4>3 DEF RoutingStatus
      <4>5. CASE row[v].routing \in {"sent", "confirmed"} /\ row[v].ext
        BY <4>1, <4>4, <4>5 DEF Patched
      <4>6. CASE Routes(j, v)
        BY <4>1, <4>6 DEF Routes, Patched, Keep
      <4> QED
        BY <4>5, <4>6, NotFree
    <3> QED
      BY <3>1, <3>2
  <2> DEFINE h == [j EXCEPT !.pc = "history"]
             s == [j EXCEPT !.pc = "stampRead"]
  <2>3. h.pc = "history" /\ h.todo = j.todo /\ s.pc = "stampRead" /\ s.todo = j.todo
    BY <1>2 DEF Job
  <2>4. /\ Set(w, AfterWrite(j))
        /\ \/ AfterWrite(j) \in {h, s, Goto(j, "derive")}
           \/ \E ok \in BOOLEAN : AfterWrite(j) = Done(j, ok)
    BY <1>8 DEF WriteVendorOrder, AfterWrite
  <2> HIDE DEF h, s
  <2>5. SubmitsOnce(h, Free) /\ SubmitsOnce(s, Free)
    BY <1>2, <2>3 DEF SubmitsOnce
  <2> QED
    BY <1>3, <1>4, <1>5, <2>2, <2>4, <2>5
<1> QED
  BY <1>6, <1>7, <1>8

LEMMA TicketedStep ==
  ASSUME TypeOK, NothingInvented, Fits, Ticketed, Alone, NobodyOverrides, EveryCallAnswers,
         [Next]_vars
  PROVE  Ticketed'
<1> PICK w : Worker = {w}
  BY DEF Alone
<1>1. CASE Request(w)
  BY <1>1, RequestTicketed
<1>2. CASE JobStep(w)
  BY <1>2, QuietJobTicketed, CallDeliverectTicketed, CallSquareTicketed, WritingJobTicketed
<1>3. ~Crash(w)
  BY DEF Crash, EveryCallAnswers
<1>4. CASE KitchenMoves \/ KitchenReplies \/ UNCHANGED vars
  <2>1. UNCHANGED <<job, row, tickets, events>>
    BY <1>4 DEF KitchenMoves, KitchenReplies, vars, database, kitchen
  <2>2. Free' = Free
    BY <2>1 DEF Free, Rejected
  <2> QED
    BY <2>1, <2>2 DEF Ticketed
<1> QED
  BY <1>1, <1>2, <1>3, <1>4 DEF Next

\* With one handler at a time, a kitchen's ticket that it did not reject is always known to
\* the row or about to be.
THEOREM TicketsAreKnown ==
  Alone /\ NobodyOverrides /\ EveryCallAnswers => (Spec => []Ticketed)
<1> SUFFICES ASSUME Alone, NobodyOverrides, EveryCallAnswers PROVE Spec => []Ticketed
  OBVIOUS
<1>1. Init => Ticketed
  <2> SUFFICES ASSUME Init PROVE Ticketed
    OBVIOUS
  <2>1. (\A w \in Worker : job[w] = Idle) /\ \A v \in VendorOrder : tickets[v] = 0
    BY DEF Init
  <2>2. SubmitsOnce(Idle, Free)
    BY IdleFact, IdleColumns DEF SubmitsOnce
  <2> QED
    BY <2>1, <2>2 DEF Ticketed, Free
<1>2. TypeOK /\ NothingInvented /\ Fits /\ Ticketed /\ [Next]_vars => Ticketed'
  BY TicketedStep
<1>3. Spec => []Fits
  BY LoneJobFits
<1> QED
  BY <1>1, <1>2, <1>3, TypeCorrect, NothingInventedHolds, PTL DEF Spec

\* So a kitchen gets a second ticket only after it reported the first as failed.
THEOREM NoSecondTicket ==
  Alone /\ NobodyOverrides /\ EveryCallAnswers => (Spec => []ResubmitOnlyAfterFailure)
<1> SUFFICES ASSUME Alone, NobodyOverrides, EveryCallAnswers
             PROVE  Spec => []ResubmitOnlyAfterFailure
  OBVIOUS
<1>1. ASSUME TypeOK, Ticketed PROVE ResubmitOnlyAfterFailure
  <2> SUFFICES ASSUME NEW v \in VendorOrder, tickets[v] > 1 PROVE <<v, "failed">> \in events
    BY DEF ResubmitOnlyAfterFailure
  <2>1. tickets[v] \in Nat /\ tickets[v] # 1 /\ tickets[v] # 0
    BY <1>1 DEF TypeOK
  <2>2. v \in Free /\ Mode[v] = "deliverect"
    BY <1>1, <2>1 DEF Ticketed
  <2> QED
    BY <2>1, <2>2 DEF Free, Rejected
<1>2. TypeOK /\ Ticketed => ResubmitOnlyAfterFailure
  BY <1>1
<1>3. Spec => []Ticketed
  BY TicketsAreKnown
<1> QED
  BY <1>2, <1>3, TypeCorrect, PTL

-----------------------------------------------------------------------------
(* The parent agrees at rest.                                              *)

\* The derived status depends on the statuses, the recovery column and the history.
LEMMA DerivedKept ==
  ASSUME \A v \in VendorOrder : /\ row'[v].routing = row[v].routing
                                /\ row'[v].fulfillment = row[v].fulfillment
                                /\ row'[v].recovered = row[v].recovered,
         logged' = logged
  PROVE  DerivedStatus' = DerivedStatus
<1>1. [v \in VendorOrder |-> getEffectiveChildState(row'[v].routing, row'[v].fulfillment,
                                                    row'[v].recovered, v \in logged')]
      = [v \in VendorOrder |-> getEffectiveChildState(row[v].routing, row[v].fulfillment,
                                                      row[v].recovered, v \in logged)]
  OBVIOUS
<1> QED
  BY <1>1 DEF DerivedStatus

\* Where every recovery is logged, the history says what the recovery column says.
LEMMA HistoryIsEnough ==
  ASSUME TypeOK, \A v \in VendorOrder : row[v].recovered => v \in logged
  PROVE  DerivedStatusFromHistory = DerivedStatus
<1>1. ASSUME NEW v \in VendorOrder
      PROVE  getEffectiveChildState(row[v].routing, row[v].fulfillment, FALSE, v \in logged)
             = getEffectiveChildState(row[v].routing, row[v].fulfillment,
                                      row[v].recovered, v \in logged)
  <2>1. (FALSE \/ v \in logged) = (row[v].recovered \/ v \in logged)
    OBVIOUS
  <2> QED
    BY <2>1 DEF getEffectiveChildState, isVendorOrderManuallyRecovered
<1>2. [v \in VendorOrder |-> getEffectiveChildState(row[v].routing, row[v].fulfillment,
                                                    FALSE, v \in logged)]
      = [v \in VendorOrder |-> getEffectiveChildState(row[v].routing, row[v].fulfillment,
                                                      row[v].recovered, v \in logged)]
  BY <1>1
<1> QED
  BY <1>2 DEF DerivedStatus, DerivedStatusFromHistory

\* A step of the only worker that changes neither statuses, recovery columns nor history.
LEMMA AgreesNow ==
  ASSUME TypeOK, Agrees, NEW w \in Worker, Worker = {w}, job[w].pc # "history",
         NEW k, Set(w, k),
         \A v \in VendorOrder : /\ row'[v].routing = row[v].routing
                                /\ row'[v].fulfillment = row[v].fulfillment
                                /\ row'[v].recovered = row[v].recovered,
         logged' = logged,
         AgreesWith(k, status', shown', DerivedStatus)
  PROVE  Agrees'
<1>1. job'[w] = k
  BY JobIsSet
<1>2. DerivedStatus' = DerivedStatus
  BY DerivedKept
<1>3. \A v \in VendorOrder : row'[v].recovered => v \in logged'
  BY DEF Agrees
<1> QED
  BY <1>1, <1>2, <1>3 DEF Agrees

\* A job that is not settling the parent and goes on with something else of its own.
LEMMA OnwardAgrees ==
  ASSUME NEW j, NEW k, NEW stored, NEW displayed, NEW derived,
         AgreesWith(j, stored, displayed, derived),
         j.pc \notin Settling, k.pc \notin Settling \cup Resume,
         k.kind = j.kind, k.next = j.next
  PROVE  AgreesWith(k, stored, displayed, derived)
BY DEF AgreesWith, Settling, Resume

\* It may go on to where it was to go, or to derive the parent.
LEMMA GoingOnAgrees ==
  ASSUME NEW j \in Job, NEW stored, NEW displayed, NEW derived,
         AgreesWith(j, stored, displayed, derived), j.pc \notin Settling
  PROVE  /\ j.pc \notin {"idle"} => AgreesWith(Goto(j, "derive"), stored, displayed, derived)
         /\ AgreesWith(Goto(j, j.next), stored, displayed, derived)
         /\ j.kind # "payment" => AgreesWith(Idle, stored, displayed, derived)
<1>1. j.next \in Resume
  BY DEF Job
<1>2. AgreesWith(Idle, stored, displayed, derived) \/ j.kind = "payment"
  BY IdleFact, IdleColumns DEF AgreesWith, Settling, Resume
<1>3. CASE j.next = "idle"
  <2>1. Goto(j, j.next) = Idle
    BY <1>1, <1>3, GotoKeeps
  <2>2. j.kind # "payment"
    BY <1>3 DEF AgreesWith, Settling
  <2>3. Goto(j, "derive").pc = "derive" /\ Goto(j, "derive").kind = j.kind
        /\ Goto(j, "derive").next = j.next
    BY GotoKeeps
  <2> QED
    BY <1>2, <2>1, <2>2, <2>3 DEF AgreesWith, Settling, Resume
<1>4. CASE j.next # "idle"
  <2>1. /\ Goto(j, j.next).pc = j.next /\ Goto(j, j.next).kind = j.kind
        /\ Goto(j, j.next).next = j.next
    BY <1>1, <1>4, GotoKeeps
  <2>2. Goto(j, "derive").pc = "derive" /\ Goto(j, "derive").kind = j.kind
        /\ Goto(j, "derive").next = j.next
    BY GotoKeeps
  <2>3. j.kind = "payment"
    BY <1>4 DEF AgreesWith
  <2> QED
    BY <1>1, <1>4, <2>1, <2>2, <2>3 DEF AgreesWith, Settling, Resume
<1> QED
  BY <1>3, <1>4

\* So after a submission that is not a retry.
LEMMA DoneAgrees ==
  ASSUME NEW j \in Job, NEW stored, NEW displayed, NEW derived,
         AgreesWith(j, stored, displayed, derived), j.pc \notin Settling, NEW ok \in BOOLEAN
  PROVE  AgreesWith(Done(j, ok), stored, displayed, derived)
<1>1. j.kind # "retry"
  BY DEF AgreesWith
<1> QED
  BY <1>1, GoingOnAgrees DEF Done

LEMMA RequestAgrees ==
  ASSUME TypeOK, Agrees, "retry" \notin Kinds, NEW w \in Worker, Worker = {w}, Request(w)
  PROVE  Agrees'
<1> USE IdleFact, IdleColumns
<1>1. job[w].pc = "idle"
  BY DEF Request, ReceivePayment, ReceiveDeliverectWebhook, ReceiveSquareWebhook,
     DashboardTransition, AdminTransition, AskRecovery, AskRetry, AskSquareSync,
     AskRecheck, StaffAsks, At
<1>2. row' = row /\ logged' = logged /\ status' = status /\ shown' = shown
  BY DEF Request, ReceivePayment, ReceiveDeliverectWebhook, ReceiveSquareWebhook,
     DashboardTransition, AdminTransition, AskRecovery, AskRetry, AskSquareSync,
     AskRecheck, database
<1>3. ASSUME NEW k, Set(w, k), AgreesWith(k, status, shown, DerivedStatus)
      PROVE  Agrees'
  BY <1>1, <1>2, <1>3, AgreesNow
<1>4. AgreesWith(job[w], status, shown, DerivedStatus)
  BY DEF Agrees
\* A request that is not about the payment starts from agreement.
<1>5. ASSUME NEW k, Set(w, k), k.kind \notin {"payment", "retry"}, k.next = "idle",
             k.pc \notin Settling \cup Resume
      PROVE  Agrees'
  <2>1. AgreesWith(k, status, shown, DerivedStatus)
    BY <1>1, <1>4, <1>5 DEF AgreesWith, Settling, Resume
  <2> QED
    BY <1>3, <1>5, <2>1
<1>6. CASE ReceivePayment(w)
  <2> DEFINE k == [Idle EXCEPT !.pc = "parent", !.kind = "payment", !.parent = "paid",
                               !.next = "open"]
  <2>1. k.pc = "parent" /\ k.kind = "payment" /\ k.next = "open"
    BY DEF Job
  <2>2. Set(w, k)
    BY <1>6 DEF ReceivePayment
  <2> HIDE DEF k
  <2>3. AgreesWith(k, status, shown, DerivedStatus)
    BY <1>1, <1>4, <2>1 DEF AgreesWith, Settling, Resume
  <2> QED
    BY <1>3, <2>2, <2>3
<1>7. CASE ReceiveDeliverectWebhook(w)
  <2>1. PICK v, routing, fulfillment, id :
          /\ v \in VendorOrder
          /\ Set(w, [Idle EXCEPT !.pc = "promote", !.kind = "webhook", !.vo = v,
                                 !.routing = routing, !.fulfillment = fulfillment, !.ext = id])
    BY <1>7 DEF ReceiveDeliverectWebhook
  <2> DEFINE k == [Idle EXCEPT !.pc = "promote", !.kind = "webhook", !.vo = v,
                               !.routing = routing, !.fulfillment = fulfillment, !.ext = id]
  <2>2. k.pc = "promote" /\ k.kind = "webhook" /\ k.next = "idle"
    BY DEF Job
  <2>3. Set(w, k)
    BY <2>1
  <2> HIDE DEF k
  <2> QED
    BY <1>5, <2>2, <2>3 DEF Settling, Resume
<1>8. ASSUME NEW v \in VendorOrder,
             Set(w, [Idle EXCEPT !.pc = "fetch", !.kind = "sync", !.vo = v,
                                 !.routing = row[v].routing,
                                 !.fulfillment = row[v].fulfillment])
      PROVE  Agrees'
  <2> DEFINE k == [Idle EXCEPT !.pc = "fetch", !.kind = "sync", !.vo = v,
                               !.routing = row[v].routing, !.fulfillment = row[v].fulfillment]
  <2>1. k.pc = "fetch" /\ k.kind = "sync" /\ k.next = "idle"
    BY DEF Job
  <2>2. Set(w, k)
    BY <1>8
  <2> HIDE DEF k
  <2> QED
    BY <1>5, <2>1, <2>2 DEF Settling, Resume
<1>9. CASE ReceiveSquareWebhook(w)
  <2>1. PICK v \in VendorOrder :
          Set(w, IF row[v].ext
                 THEN [Idle EXCEPT !.pc = "fetch", !.kind = "sync", !.vo = v,
                                   !.routing = row[v].routing,
                                   !.fulfillment = row[v].fulfillment]
                 ELSE Idle)
    BY <1>9 DEF ReceiveSquareWebhook
  <2>2. AgreesWith(Idle, status, shown, DerivedStatus)
    BY <1>1, <1>4 DEF AgreesWith, Settling, Resume
  <2> QED
    BY <1>3, <1>8, <2>1, <2>2
<1>10. ASSUME NEW v \in VendorOrder, NEW kind \in {"dashboard", "admin"}, NEW patch,
              Transition(w, v, kind, patch)
       PROVE  Agrees'
  <2> DEFINE k == [Idle EXCEPT !.pc = "write", !.kind = kind, !.vo = v,
                         !.routing = patch.routing, !.fulfillment = patch.fulfillment]
  <2>1. k.pc = "write" /\ k.kind = kind /\ k.next = "idle"
    BY DEF Job
  <2>2. Set(w, k)
    BY <1>10 DEF Transition
  <2> HIDE DEF k
  <2> QED
    BY <1>5, <1>10, <2>1, <2>2 DEF Settling, Resume
<1>11. CASE DashboardTransition(w)
  BY <1>10, <1>11 DEF DashboardTransition
<1>12. CASE AdminTransition(w)
  BY <1>10, <1>12 DEF AdminTransition
<1>13. CASE AskRecovery(w)
  <2>1. PICK v \in VendorOrder :
          Set(w, [Idle EXCEPT !.pc = "recover", !.kind = "recovery", !.vo = v])
    BY <1>13 DEF AskRecovery
  <2> DEFINE k == [Idle EXCEPT !.pc = "recover", !.kind = "recovery", !.vo = v]
  <2>2. k.pc = "recover" /\ k.kind = "recovery" /\ k.next = "idle"
    BY DEF Job
  <2>3. Set(w, k)
    BY <2>1
  <2> HIDE DEF k
  <2> QED
    BY <1>5, <2>2, <2>3 DEF Settling, Resume
<1>14. CASE AskSquareSync(w)
  BY <1>8, <1>14 DEF AskSquareSync
<1>15. CASE AskRecheck(w)
  <2>1. PICK v \in VendorOrder :
          Set(w, [Idle EXCEPT !.pc = "lookup", !.kind = "recheck", !.vo = v])
    BY <1>15, ConstantsAssumption DEF AskRecheck
  <2> DEFINE k == [Idle EXCEPT !.pc = "lookup", !.kind = "recheck", !.vo = v]
  <2>2. k.pc = "lookup" /\ k.kind = "recheck" /\ k.next = "idle"
    BY DEF Job
  <2>3. Set(w, k)
    BY <2>1
  <2> HIDE DEF k
  <2> QED
    BY <1>5, <2>2, <2>3 DEF Settling, Resume
<1>16. ~AskRetry(w)
  BY DEF AskRetry, StaffAsks
<1> QED
  BY <1>6, <1>7, <1>9, <1>11, <1>12, <1>13, <1>14, <1>15, <1>16 DEF Request

\* A running job up to its last write leaves the agreement as it found it.
LEMMA QuietJobAgrees ==
  ASSUME TypeOK, Fits, Agrees, NEW w \in Worker, Worker = {w}, JobStep(w),
         ~WriteVendorOrder(w), ~LogRecovery(w), job[w].pc \notin Settling
  PROVE  Agrees'
<1> DEFINE j == job[w]
<1>1. status' = status /\ shown' = shown /\ logged' = logged
  BY DEF JobStep, LookUpDeliverectOrder, ApplyLookup, PromoteAuthority, FetchSquareOrder,
     RecoverVendorOrder, OpenRouting, LoadVendorOrders, SettleOrder, SubmitVendorOrder,
     DeliverectPrecheckFails, CallDeliverect, ReadAuthority, StampAuthority, CallSquare,
     persistPartialSquareOrder, submitSquareExternalPayment, recordSquareRoutingFailure,
     recomputeParentStatus, PersistParentStatus, AppendParentHistory, database, At, Settling
<1>2. \A v \in VendorOrder : /\ row'[v].routing = row[v].routing
                             /\ row'[v].fulfillment = row[v].fulfillment
                             /\ row'[v].recovered = row[v].recovered
  <2>1. row \in [VendorOrder -> Row]
    BY DEF TypeOK
  <2>2. CASE StampAuthority(w)
    <3>1. row' = [row EXCEPT ![j.vo].authority = Patched(j.authority, @)]
      BY <2>2 DEF StampAuthority
    <3> QED
      BY <2>1, <3>1 DEF Row
  <2>3. CASE persistPartialSquareOrder(w)
    <3>1. row' = [row EXCEPT ![j.vo].ext = TRUE]
      BY <2>3 DEF persistPartialSquareOrder
    <3> QED
      BY <2>1, <3>1 DEF Row
  <2>4. ~StampAuthority(w) /\ ~persistPartialSquareOrder(w) => row' = row
    BY DEF JobStep, LookUpDeliverectOrder, ApplyLookup, PromoteAuthority, FetchSquareOrder,
       RecoverVendorOrder, OpenRouting, LoadVendorOrders, SettleOrder, SubmitVendorOrder,
       DeliverectPrecheckFails, CallDeliverect, ReadAuthority, CallSquare,
       submitSquareExternalPayment, recordSquareRoutingFailure,
       recomputeParentStatus, PersistParentStatus, AppendParentHistory, database
  <2> QED
    BY <2>2, <2>3, <2>4
<1>3. /\ j \in Job /\ AgreesWith(j, status, shown, DerivedStatus) /\ FitsRow(j, row[j.vo])
      /\ j.pc # "history"
  BY DEF TypeOK, Agrees, Fits, Settling
<1>4. ASSUME NEW k, Set(w, k), AgreesWith(k, status, shown, DerivedStatus)
      PROVE  Agrees'
  BY <1>1, <1>2, <1>3, <1>4, AgreesNow
<1>5. ASSUME NEW k, Set(w, k), k.pc \notin Settling \cup Resume, k.kind = j.kind,
             k.next = j.next
      PROVE  Agrees'
  <2>1. AgreesWith(k, status, shown, DerivedStatus)
    BY <1>3, <1>5, OnwardAgrees
  <2> QED
    BY <1>4, <1>5, <2>1
<1>6. ASSUME NEW ok \in BOOLEAN, Set(w, Done(j, ok))
      PROVE  Agrees'
  BY <1>3, <1>4, <1>6, DoneAgrees
<1>7. CASE LookUpDeliverectOrder(w)
  <2> DEFINE told == [j EXCEPT !.pc = "apply", !.fulfillment = pos[j.vo]]
             refused == [j EXCEPT !.pc = "apply", !.routing = "failed"]
  <2>1. j.pc = "lookup" /\ (Set(w, told) \/ Set(w, refused) \/ Set(w, Idle))
    BY <1>7 DEF LookUpDeliverectOrder, At
  <2>2. /\ told.pc = "apply" /\ told.kind = j.kind /\ told.next = j.next
        /\ refused.pc = "apply" /\ refused.kind = j.kind /\ refused.next = j.next
    BY <1>3 DEF Job
  <2> HIDE DEF told, refused
  <2>3. j.kind = "recheck"
    BY <1>3, <2>1 DEF FitsRow
  <2>4. AgreesWith(Idle, status, shown, DerivedStatus)
    BY <1>3, <2>3, GoingOnAgrees
  <2> QED
    BY <1>4, <1>5, <2>1, <2>2, <2>4 DEF Settling, Resume
<1>8. CASE ApplyLookup(w)
  <2> DEFINE r == row[j.vo].routing
             f == row[j.vo].fulfillment
             diff == Difference(mergeDeliverectMappedIntoVendorOrder(r, f,
                                  interpretNumericCode(LookedUp(j))), r, f)
             k == [j EXCEPT !.pc = "promote", !.routing = diff.routing,
                            !.fulfillment = diff.fulfillment]
  <2>1. Set(w, k)
    BY <1>8 DEF ApplyLookup
  <2> HIDE DEF diff
  <2>2. k.pc = "promote" /\ k.kind = j.kind /\ k.next = j.next
    BY <1>3 DEF Job
  <2> HIDE DEF k
  <2> QED
    BY <1>5, <2>1, <2>2 DEF Settling, Resume
<1>9. CASE PromoteAuthority(w)
  <2> DEFINE a == posAuthorityPromotionUpdateIfEligible(row[j.vo].authority)
             k == [j EXCEPT !.pc = "write", !.authority = a]
  <2>1. Set(w, k)
    BY <1>9 DEF PromoteAuthority
  <2> HIDE DEF a
  <2>2. k.pc = "write" /\ k.kind = j.kind /\ k.next = j.next
    BY <1>3 DEF Job
  <2> HIDE DEF k
  <2> QED
    BY <1>5, <2>1, <2>2 DEF Settling, Resume
<1>10. CASE FetchSquareOrder(w)
  <2> DEFINE next == mergeSquareMappedIntoVendorOrder(j.routing, j.fulfillment,
                       mapSquareOrderSnapshotToVendorStatus(pos[j.vo]))
             diff == Difference(next, j.routing, j.fulfillment)
             k == [j EXCEPT !.pc = "write", !.routing = diff.routing,
                            !.fulfillment = diff.fulfillment, !.authority = "pos"]
  <2>1. j.pc = "fetch" /\ (Set(w, Goto(j, "derive")) \/ Set(w, k))
    BY <1>10 DEF FetchSquareOrder, At
  <2> HIDE DEF diff, next
  <2>2. k.pc = "write" /\ k.kind = j.kind /\ k.next = j.next
    BY <1>3 DEF Job
  <2> HIDE DEF k
  <2>3. AgreesWith(Goto(j, "derive"), status, shown, DerivedStatus)
    BY <1>3, <2>1, GoingOnAgrees
  <2> QED
    BY <1>4, <1>5, <2>1, <2>2, <2>3 DEF Settling, Resume
<1>11. CASE RecoverVendorOrder(w)
  <2> DEFINE k == [j EXCEPT !.pc = "write", !.fulfillment = "accepted",
                            !.authority = "admin_override"]
  <2>1. j.pc = "recover" /\ (Set(w, k) \/ Set(w, Idle))
    BY <1>11 DEF RecoverVendorOrder, At
  <2>2. k.pc = "write" /\ k.kind = j.kind /\ k.next = j.next
    BY <1>3 DEF Job
  <2> HIDE DEF k
  <2>3. j.kind = "recovery"
    BY <1>3, <2>1 DEF FitsRow
  <2>4. AgreesWith(Idle, status, shown, DerivedStatus)
    BY <1>3, <2>3, GoingOnAgrees
  <2> QED
    BY <1>4, <1>5, <2>1, <2>2, <2>4 DEF Settling, Resume
<1>12. CASE OpenRouting(w)
  <2> DEFINE k == [j EXCEPT !.pc = "parent", !.parent = "routing", !.next = "load"]
  <2>1. Set(w, k) /\ j.pc = "open"
    BY <1>12 DEF OpenRouting, At
  <2>2. k.pc = "parent" /\ k.kind = j.kind /\ k.next = "load"
    BY <1>3 DEF Job
  <2> HIDE DEF k
  <2>3. AgreesWith(k, status, shown, DerivedStatus)
    BY <1>3, <2>1, <2>2 DEF AgreesWith, Settling, Resume
  <2> QED
    BY <1>4, <2>1, <2>3
<1>13. CASE LoadVendorOrders(w)
  <2> DEFINE todo == {v \in VendorOrder : row[v].routing = "pending"}
             k == [j EXCEPT !.pc = "each", !.next = "each", !.todo = todo]
  <2>1. Set(w, k) /\ j.pc = "load"
    BY <1>13 DEF LoadVendorOrders, At
  <2> HIDE DEF todo
  <2>2. k.pc = "each" /\ k.kind = j.kind /\ k.next = "each"
    BY <1>3 DEF Job
  <2> HIDE DEF k
  <2>3. AgreesWith(k, status, shown, DerivedStatus)
    BY <1>3, <2>1, <2>2 DEF AgreesWith, Settling, Resume
  <2> QED
    BY <1>4, <2>1, <2>3
\* The payment's own derivation says what everybody else's does.
<1>14. CASE SettleOrder(w)
  <2> DEFINE k == [j EXCEPT !.pc = "parent", !.parent = DerivedStatusFromHistory,
                            !.next = "idle"]
  <2>1. Set(w, k) /\ j.pc = "each" /\ j.kind = "payment"
    BY <1>14 DEF SettleOrder, At
  <2>2. /\ k.pc = "parent" /\ k.kind = j.kind /\ k.next = "idle"
        /\ k.parent = DerivedStatusFromHistory
    BY <1>3 DEF Job
  <2>3. DerivedStatusFromHistory = DerivedStatus
    BY <2>1, HistoryIsEnough DEF Agrees
  <2> HIDE DEF k
  <2>4. AgreesWith(k, status, shown, DerivedStatus)
    BY <1>3, <2>1, <2>2, <2>3 DEF AgreesWith, Settling, Resume
  <2> QED
    BY <1>4, <2>1, <2>4
<1>15. CASE SubmitVendorOrder(w)
  <2>1. PICK v \in j.todo :
          LET h == [j EXCEPT !.vo = v, !.todo = @ \ {v}, !.routing = Keep,
                             !.authority = Keep, !.ext = FALSE]
          IN  Set(w, IF Mode[v] = "deliverect" THEN SubmitToDeliverect(h, v)
                     ELSE IF Mode[v] = "square" THEN SubmitToSquare(h, v)
                     ELSE SubmitManually(h, v))
    BY <1>15 DEF SubmitVendorOrder
  <2> DEFINE h == [j EXCEPT !.vo = v, !.todo = @ \ {v}, !.routing = Keep,
                            !.authority = Keep, !.ext = FALSE]
  <2>2. v \in VendorOrder
    BY <1>3 DEF Job
  <2>3. /\ h \in Job /\ h.pc = j.pc /\ h.kind = j.kind /\ h.next = j.next
    BY <1>3, <2>2 DEF Job
  <2> HIDE DEF h
  <2>4. AgreesWith(h, status, shown, DerivedStatus)
    BY <1>3, <2>3 DEF AgreesWith, Settling
  <2>5. \A ok \in BOOLEAN : AgreesWith(Done(h, ok), status, shown, DerivedStatus)
    BY <2>3, <2>4, DoneAgrees
  <2>6. ASSUME NEW k, k.pc \in {"stampRead", "call", "pay", "write"}, k.kind = h.kind,
               k.next = h.next
        PROVE  AgreesWith(k, status, shown, DerivedStatus)
    BY <2>3, <2>4, <2>6, OnwardAgrees DEF Settling, Resume
  <2>7. AgreesWith(SubmitToDeliverect(h, v), status, shown, DerivedStatus)
    <3> DEFINE s == [h EXCEPT !.pc = "stampRead"]
               c == [h EXCEPT !.pc = "call",
                              !.routing = IF row[v].routing = "pending" THEN "failed" ELSE Keep]
    <3>1. s.pc = "stampRead" /\ s.kind = h.kind /\ s.next = h.next
      BY <2>3 DEF Job
    <3>2. c.pc = "call" /\ c.kind = h.kind /\ c.next = h.next
      BY <2>3 DEF Job
    <3>3. SubmitToDeliverect(h, v) \in {Done(h, FALSE), s, c}
      BY DEF SubmitToDeliverect
    <3> HIDE DEF s, c
    <3>4. AgreesWith(Done(h, FALSE), status, shown, DerivedStatus)
      BY <2>5
    <3>5. /\ AgreesWith(s, status, shown, DerivedStatus)
          /\ AgreesWith(c, status, shown, DerivedStatus)
      BY <2>6, <3>1, <3>2
    <3> QED
      BY <3>3, <3>4, <3>5
  <2>8. AgreesWith(SubmitToSquare(h, v), status, shown, DerivedStatus)
    <3> DEFINE p == [h EXCEPT !.pc = "pay"]
               c == [h EXCEPT !.pc = "call"]
    <3>1. p.pc = "pay" /\ p.kind = h.kind /\ p.next = h.next
      BY <2>3 DEF Job
    <3>2. c.pc = "call" /\ c.kind = h.kind /\ c.next = h.next
      BY <2>3 DEF Job
    <3>3. SubmitToSquare(h, v) \in {Done(h, TRUE), p, c}
      BY DEF SubmitToSquare
    <3> HIDE DEF p, c
    <3>4. AgreesWith(Done(h, TRUE), status, shown, DerivedStatus)
      BY <2>5
    <3>5. /\ AgreesWith(p, status, shown, DerivedStatus)
          /\ AgreesWith(c, status, shown, DerivedStatus)
      BY <2>6, <3>1, <3>2
    <3> QED
      BY <3>3, <3>4, <3>5
  <2>9. AgreesWith(SubmitManually(h, v), status, shown, DerivedStatus)
    <3> DEFINE a == IF row[v].authority = "none" THEN "vendor_manual" ELSE Keep
               m == [h EXCEPT !.pc = "write", !.routing = "confirmed", !.authority = a]
    <3> HIDE DEF a
    <3>1. m.pc = "write" /\ m.kind = h.kind /\ m.next = h.next
      BY <2>3 DEF Job
    <3>2. SubmitManually(h, v) = m
      BY DEF SubmitManually, a
    <3> HIDE DEF m
    <3> QED
      BY <2>6, <3>1, <3>2
  <2> QED
    BY <1>4, <2>1, <2>7, <2>8, <2>9 DEF h
<1>16. CASE DeliverectPrecheckFails(w)
  <2> DEFINE k == [j EXCEPT !.pc = "write", !.routing = "failed"]
  <2>1. Set(w, k) \/ Set(w, Done(j, FALSE))
    BY <1>16 DEF DeliverectPrecheckFails
  <2>2. k.pc = "write" /\ k.kind = j.kind /\ k.next = j.next
    BY <1>3 DEF Job
  <2> HIDE DEF k
  <2> QED
    BY <1>5, <1>6, <2>1, <2>2 DEF Settling, Resume
<1>17. CASE CallDeliverect(w)
  <2>1. PICK id \in BOOLEAN :
          \/ Set(w, [j EXCEPT !.pc = "write", !.routing = "sent", !.ext = id])
          \/ Set(w, [j EXCEPT !.pc = "write"])
    BY <1>17 DEF CallDeliverect
  <2> DEFINE s == [j EXCEPT !.pc = "write", !.routing = "sent", !.ext = id]
             k == [j EXCEPT !.pc = "write"]
  <2>2. /\ s.pc = "write" /\ s.kind = j.kind /\ s.next = j.next
        /\ k.pc = "write" /\ k.kind = j.kind /\ k.next = j.next
    BY <1>3 DEF Job
  <2>3. Set(w, s) \/ Set(w, k)
    BY <2>1
  <2> HIDE DEF s, k
  <2> QED
    BY <1>5, <2>2, <2>3 DEF Settling, Resume
<1>18. CASE ReadAuthority(w)
  <2> DEFINE a == IF row[j.vo].authority = "none" THEN "vendor_manual" ELSE Keep
             k == [j EXCEPT !.pc = "stamp", !.authority = a]
  <2>1. Set(w, k)
    BY <1>18 DEF ReadAuthority
  <2> HIDE DEF a
  <2>2. k.pc = "stamp" /\ k.kind = j.kind /\ k.next = j.next
    BY <1>3 DEF Job
  <2> HIDE DEF k
  <2> QED
    BY <1>5, <2>1, <2>2 DEF Settling, Resume
<1>19. CASE StampAuthority(w)
  BY <1>6, <1>19 DEF StampAuthority
<1>20. CASE CallSquare(w)
  <2> DEFINE p == [j EXCEPT !.pc = "partial"]
             f == [j EXCEPT !.pc = "fail"]
  <2>1. Set(w, p) \/ Set(w, f)
    BY <1>20 DEF CallSquare
  <2>2. /\ p.pc = "partial" /\ p.kind = j.kind /\ p.next = j.next
        /\ f.pc = "fail" /\ f.kind = j.kind /\ f.next = j.next
    BY <1>3 DEF Job
  <2> HIDE DEF p, f
  <2> QED
    BY <1>5, <2>1, <2>2 DEF Settling, Resume
<1>21. CASE persistPartialSquareOrder(w)
  <2> DEFINE k == [j EXCEPT !.pc = "pay"]
  <2>1. Set(w, k)
    BY <1>21 DEF persistPartialSquareOrder
  <2>2. k.pc = "pay" /\ k.kind = j.kind /\ k.next = j.next
    BY <1>3 DEF Job
  <2> HIDE DEF k
  <2> QED
    BY <1>5, <2>1, <2>2 DEF Settling, Resume
<1>22. CASE submitSquareExternalPayment(w)
  <2> DEFINE s == [j EXCEPT !.pc = "write", !.routing = "sent"]
             f == [j EXCEPT !.pc = "fail"]
  <2>1. Set(w, s) \/ Set(w, f)
    BY <1>22 DEF submitSquareExternalPayment
  <2>2. /\ s.pc = "write" /\ s.kind = j.kind /\ s.next = j.next
        /\ f.pc = "fail" /\ f.kind = j.kind /\ f.next = j.next
    BY <1>3 DEF Job
  <2> HIDE DEF s, f
  <2> QED
    BY <1>5, <2>1, <2>2 DEF Settling, Resume
<1>23. CASE recordSquareRoutingFailure(w)
  <2> DEFINE k == [j EXCEPT !.pc = "write", !.routing = "failed"]
  <2>1. Set(w, k) \/ Set(w, Done(j, FALSE))
    BY <1>23 DEF recordSquareRoutingFailure
  <2>2. k.pc = "write" /\ k.kind = j.kind /\ k.next = j.next
    BY <1>3 DEF Job
  <2> HIDE DEF k
  <2> QED
    BY <1>5, <1>6, <2>1, <2>2 DEF Settling, Resume
<1>24. ~recomputeParentStatus(w) /\ ~PersistParentStatus(w) /\ ~AppendParentHistory(w)
  BY DEF recomputeParentStatus, PersistParentStatus, AppendParentHistory, At, Settling
<1> QED
  BY <1>7, <1>8, <1>9, <1>10, <1>11, <1>12, <1>13, <1>14, <1>15, <1>16, <1>17, <1>18,
     <1>19, <1>20, <1>21, <1>22, <1>23, <1>24 DEF JobStep

\* A job that changed what the parent follows from has yet to derive it.
LEMMA ChangingJobAgrees ==
  ASSUME TypeOK, Agrees, NEW w \in Worker, Worker = {w},
         WriteVendorOrder(w) \/ LogRecovery(w)
  PROVE  Agrees'
<1> DEFINE j == job[w]
<1>1. /\ j \in Job /\ AgreesWith(j, status, shown, DerivedStatus)
      /\ row \in [VendorOrder -> Row]
  BY DEF TypeOK, Agrees
<1>2. status' = status /\ shown' = shown
  BY DEF WriteVendorOrder, LogRecovery
<1>3. CASE WriteVendorOrder(w)
  <2>1. /\ j.pc = "write" /\ Set(w, AfterWrite(j)) /\ logged' = logged
        /\ row' = [row EXCEPT ![j.vo] =
                     [routing     |-> Patched(j.routing, @.routing),
                      fulfillment |-> Patched(j.fulfillment, @.fulfillment),
                      authority   |-> Patched(j.authority, @.authority),
                      recovered   |-> @.recovered \/ j.kind = "recovery",
                      ext         |-> @.ext \/ j.ext,
                      heard       |-> @.heard \/ j.kind \in {"webhook", "recheck"}]]
    BY <1>3 DEF WriteVendorOrder, At
  <2> DEFINE k == AfterWrite(j)
             h == [j EXCEPT !.pc = "history"]
             s == [j EXCEPT !.pc = "stampRead"]
  <2>2. job'[w] = k
    BY <2>1, JobIsSet
  <2>3. /\ h.pc = "history" /\ h.vo = j.vo /\ h.kind = j.kind /\ h.next = j.next
        /\ s.pc = "stampRead" /\ s.kind = j.kind /\ s.next = j.next
    BY <1>1 DEF Job
  <2>4. j.kind = "recovery" => k = h
    BY DEF AfterWrite
  <2>5. AgreesWith(k, status, shown, DerivedStatus')
    <3>1. CASE j.kind = "recovery"
      BY <1>1, <2>1, <2>3, <2>4, <3>1 DEF AgreesWith, Settling, Resume
    <3>2. CASE k = Goto(j, "derive")
      <4>1. Goto(j, "derive").pc = "derive" /\ Goto(j, "derive").kind = j.kind
            /\ Goto(j, "derive").next = j.next
        BY <1>1, GotoKeeps
      <4> QED
        BY <1>1, <2>1, <3>2, <4>1 DEF AgreesWith, Settling, Resume
    <3>3. CASE j.kind = "payment" /\ (k = s \/ \E ok \in BOOLEAN : k = Done(j, ok))
      <4>1. AgreesWith(j, status, shown, DerivedStatus')
        BY <1>1, <2>1, <3>3 DEF AgreesWith
      <4>2. \A ok \in BOOLEAN : AgreesWith(Done(j, ok), status, shown, DerivedStatus')
        BY <1>1, <2>1, <4>1, DoneAgrees DEF Settling
      <4>3. AgreesWith(s, status, shown, DerivedStatus')
        BY <2>1, <2>3, <4>1, OnwardAgrees DEF Settling, Resume
      <4> HIDE DEF k, s
      <4> QED
        BY <3>3, <4>2, <4>3
    <3>4. j.kind # "retry"
      BY <1>1 DEF AgreesWith
    <3> QED
      BY <3>1, <3>2, <3>3, <3>4 DEF AfterWrite, Submits
  <2>6. ASSUME NEW v \in VendorOrder, row'[v].recovered
        PROVE  v \in logged' \/ (job'[w].pc = "history" /\ job'[w].vo = v)
    <3>1. row[v].recovered => v \in logged
      BY <2>1 DEF Agrees
    <3>2. row[v].recovered \/ (v = j.vo /\ j.kind = "recovery")
      BY <1>1, <2>1, <2>6
    <3> HIDE DEF k, h
    <3> QED
      BY <2>1, <2>2, <2>3, <2>4, <3>1, <3>2
  <2> HIDE DEF k
  <2> QED
    BY <1>2, <2>2, <2>5, <2>6 DEF Agrees
<1>4. CASE LogRecovery(w)
  <2>1. /\ j.pc = "history" /\ Set(w, Goto(j, "derive")) /\ row' = row
        /\ logged' = logged \cup {j.vo}
    BY <1>4 DEF LogRecovery, At
  <2>2. job'[w] = Goto(j, "derive")
    BY <2>1, JobIsSet
  <2>3. Goto(j, "derive").pc = "derive" /\ Goto(j, "derive").kind = j.kind
        /\ Goto(j, "derive").next = j.next
    BY <1>1, GotoKeeps
  <2>4. AgreesWith(job'[w], status, shown, DerivedStatus')
    BY <1>1, <2>1, <2>2, <2>3 DEF AgreesWith, Settling, Resume
  <2>5. \A v \in VendorOrder : row'[v].recovered => v \in logged'
    BY <2>1 DEF Agrees
  <2> QED
    BY <1>2, <2>4, <2>5 DEF Agrees
<1> QED
  BY <1>3, <1>4

\* Deriving, storing and showing the parent restores the agreement.
LEMMA SettlingJobAgrees ==
  ASSUME TypeOK, Agrees, NEW w \in Worker, Worker = {w},
         recomputeParentStatus(w) \/ PersistParentStatus(w) \/ AppendParentHistory(w)
  PROVE  Agrees'
<1> DEFINE j == job[w]
           next == Goto(j, j.next)
<1>1. j \in Job /\ AgreesWith(j, status, shown, DerivedStatus) /\ j.next \in Resume
  BY DEF TypeOK, Agrees, Job
<1>2. row' = row /\ logged' = logged
  BY DEF recomputeParentStatus, PersistParentStatus, AppendParentHistory, database
<1>3. ASSUME NEW k, Set(w, k), AgreesWith(k, status', shown', DerivedStatus)
      PROVE  Agrees'
  <2>1. j.pc # "history"
    BY DEF recomputeParentStatus, PersistParentStatus, AppendParentHistory, At
  <2> QED
    BY <1>2, <1>3, <2>1, AgreesNow
\* The job is over when the status agrees; the payment's job goes on in any case.
<1>4. ASSUME NEW st, j.pc \in {"derive", "trail"}, j.next = "idle" => st = DerivedStatus
      PROVE  AgreesWith(next, st, st, DerivedStatus)
  <2>1. CASE j.next = "idle"
    <3>1. next = Idle
      BY <1>1, <2>1, GotoKeeps
    <3> QED
      BY <1>4, <2>1, <3>1, IdleFact, IdleColumns DEF AgreesWith, Resume
  <2>2. CASE j.next # "idle"
    <3>1. next.pc = j.next /\ next.kind = j.kind /\ next.next = j.next
      BY <1>1, <2>2, GotoKeeps
    <3>2. j.kind = "payment"
      BY <1>1, <2>2 DEF AgreesWith
    <3> QED
      BY <1>1, <2>2, <3>1, <3>2 DEF AgreesWith, Resume
  <2> QED
    BY <2>1, <2>2
<1> HIDE DEF next
<1>5. CASE recomputeParentStatus(w)
  <2> DEFINE k == [j EXCEPT !.pc = "parent", !.parent = DerivedStatus]
  <2>1. /\ j.pc = "derive" /\ status' = status /\ shown' = shown
        /\ \/ DerivedStatus = status /\ Set(w, next)
           \/ Set(w, k)
    BY <1>5 DEF recomputeParentStatus, At, database, next
  <2>2. k.pc = "parent" /\ k.kind = j.kind /\ k.next = j.next /\ k.parent = DerivedStatus
    BY <1>1 DEF Job, DerivedStatus
  <2> HIDE DEF k
  <2>3. shown = status
    BY <1>1, <2>1 DEF AgreesWith
  <2>4. AgreesWith(k, status, shown, DerivedStatus)
    BY <1>1, <2>1, <2>2 DEF AgreesWith, Settling, Resume
  <2>5. DerivedStatus = status => AgreesWith(next, status, shown, DerivedStatus)
    BY <1>4, <2>1, <2>3
  <2> QED
    BY <1>3, <2>1, <2>4, <2>5
<1>6. CASE PersistParentStatus(w)
  <2> DEFINE k == [j EXCEPT !.pc = "trail"]
  <2>1. j.pc = "parent" /\ status' = j.parent /\ Set(w, k)
    BY <1>6 DEF PersistParentStatus, At
  <2>2. k.pc = "trail" /\ k.kind = j.kind /\ k.next = j.next /\ k.parent = j.parent
    BY <1>1 DEF Job
  <2> HIDE DEF k
  <2>3. AgreesWith(k, status', shown', DerivedStatus)
    BY <1>1, <2>1, <2>2 DEF AgreesWith, Settling, Resume
  <2> QED
    BY <1>3, <2>1, <2>3
<1>7. CASE AppendParentHistory(w)
  <2>1. j.pc = "trail" /\ shown' = j.parent /\ status' = status /\ Set(w, next)
    BY <1>7 DEF AppendParentHistory, At, next
  <2>2. status = j.parent /\ (j.next = "idle" => j.parent = DerivedStatus)
    BY <1>1, <2>1 DEF AgreesWith
  <2>3. AgreesWith(next, status', shown', DerivedStatus)
    BY <1>4, <2>1, <2>2
  <2> QED
    BY <1>3, <2>1, <2>3
<1> QED
  BY <1>5, <1>6, <1>7

LEMMA AgreesStep ==
  ASSUME TypeOK, Fits, Agrees, Alone, "retry" \notin Kinds, "crash" \notin Faults,
         [Next]_vars
  PROVE  Agrees'
<1> PICK w : Worker = {w}
  BY DEF Alone
<1>1. CASE Request(w)
  BY <1>1, RequestAgrees
<1>2. CASE JobStep(w) /\ (WriteVendorOrder(w) \/ LogRecovery(w))
  BY <1>2, ChangingJobAgrees
<1>3. CASE JobStep(w) /\ (recomputeParentStatus(w) \/ PersistParentStatus(w)
                          \/ AppendParentHistory(w))
  BY <1>3, SettlingJobAgrees
<1>4. CASE JobStep(w) /\ job[w].pc \notin Settling /\ ~WriteVendorOrder(w) /\ ~LogRecovery(w)
  BY <1>4, QuietJobAgrees
<1>5. JobStep(w) /\ job[w].pc \in Settling
        => \/ LogRecovery(w) \/ recomputeParentStatus(w) \/ PersistParentStatus(w)
           \/ AppendParentHistory(w)
  BY DEF JobStep, LookUpDeliverectOrder, ApplyLookup, PromoteAuthority, FetchSquareOrder,
     RecoverVendorOrder, OpenRouting, LoadVendorOrders, SettleOrder, SubmitVendorOrder,
     DeliverectPrecheckFails, CallDeliverect, ReadAuthority, StampAuthority, CallSquare,
     persistPartialSquareOrder, submitSquareExternalPayment, recordSquareRoutingFailure,
     WriteVendorOrder, At, Settling
<1>6. ~Crash(w)
  BY DEF Crash
<1>7. CASE KitchenMoves \/ KitchenReplies \/ UNCHANGED vars
  <2>1. UNCHANGED <<job, row, logged, status, shown>>
    BY <1>7 DEF KitchenMoves, KitchenReplies, vars, database
  <2>2. DerivedStatus' = DerivedStatus
    BY <2>1, DerivedKept
  <2> QED
    BY <2>1, <2>2 DEF Agrees
<1> QED
  BY <1>1, <1>2, <1>3, <1>4, <1>5, <1>6, <1>7 DEF Next

\* With one handler at a time, no retry and no crash, the parent is out of step only while
\* a job that will set it right is running.
THEOREM ParentIsSettled ==
  Alone /\ "retry" \notin Kinds /\ "crash" \notin Faults => (Spec => []Agrees)
<1> SUFFICES ASSUME Alone, "retry" \notin Kinds, "crash" \notin Faults PROVE Spec => []Agrees
  OBVIOUS
<1>1. Init => Agrees
  <2> SUFFICES ASSUME Init PROVE Agrees
    OBVIOUS
  <2>1. /\ \A w \in Worker : job[w] = Idle
        /\ \A v \in VendorOrder : ~row[v].recovered
        /\ status = "pending_payment" /\ shown = status
    BY DEF Init, NewRow
  <2>2. AgreesWith(Idle, status, shown, DerivedStatus)
    BY <2>1, IdleFact, IdleColumns DEF AgreesWith, Resume
  <2> QED
    BY <2>1, <2>2 DEF Agrees
<1>2. TypeOK /\ Fits /\ Agrees /\ [Next]_vars => Agrees'
  BY AgreesStep
<1>3. Spec => []Fits
  BY LoneJobFits
<1> QED
  BY <1>1, <1>2, <1>3, TypeCorrect, PTL DEF Spec

\* So when nothing runs, the stored, the shown and the derived status are one.
THEOREM ParentAgrees ==
  Alone /\ "retry" \notin Kinds /\ "crash" \notin Faults => (Spec => []ParentAgreesAtRest)
<1> SUFFICES ASSUME Alone, "retry" \notin Kinds, "crash" \notin Faults
             PROVE  Spec => []ParentAgreesAtRest
  OBVIOUS
<1>1. ASSUME Agrees PROVE ParentAgreesAtRest
  <2> PICK w : Worker = {w}
    BY DEF Alone
  <2>1. AgreesWith(job[w], status, shown, DerivedStatus)
    BY <1>1 DEF Agrees
  <2> QED
    BY <2>1 DEF ParentAgreesAtRest, AtRest, At, AgreesWith, Settling
<1>2. Agrees => ParentAgreesAtRest
  BY <1>1
<1>3. Spec => []Agrees
  BY ParentIsSettled
<1> QED
  BY <1>2, <1>3, PTL

=============================================================================
