---------------------------- MODULE VendorOrders ----------------------------
(***************************************************************************)
(* One paid order, its vendor orders, and the request handlers that move  *)
(* them: Stripe's post-payment flow, POS webhooks, the vendor dashboard,  *)
(* and the administrator's transition, recovery and retry routes.         *)
(*                                                                         *)
(* A handler is a job run by a worker (a serverless invocation).  Each     *)
(* step of a job is one database statement or one call to a POS, because   *)
(* the code takes no lock and opens no transaction around them: a step     *)
(* reads rows and keeps what it read in the job, or writes what the job    *)
(* holds.  Jobs of different workers interleave between steps, and a crash *)
(* ends a job between two steps.                                           *)
(***************************************************************************)
EXTENDS OrderStatus

CONSTANTS
  VendorOrder,   \* the vendor orders of the order
  NoOrder,       \* the vendor order of a job that has none
  Worker,        \* concurrent handler invocations
  Mode,          \* vendor order -> its vendor's orderRoutingMode
  Linked,        \* the vendor orders whose vendor has a Deliverect channel link
  Kinds,         \* the kinds of request a run admits
  Faults,        \* the faults a run admits
  MaxCalls,      \* bound: deliveries of the payment's success
  MaxRequests,   \* bound: requests by vendors and administrators
  MaxTickets,    \* bound: accepted Deliverect submissions per vendor order
  MaxReports     \* bound: reports the kitchens send

Staff == {"dashboard", "admin", "recovery"}
Kind  == Staff \cup {"payment", "retry", "webhook", "sync", "recheck"}
Fault == {"crash", "lost_answer", "no_id", "fetch_failed"}

ASSUME ConstantsAssumption ==
  /\ NoOrder \notin VendorOrder
  /\ Mode \in [VendorOrder -> RoutingMode]
  /\ Linked \subseteq VendorOrder
  /\ Kinds \subseteq Kind
  /\ Faults \subseteq Fault
  /\ {MaxCalls, MaxRequests, MaxTickets, MaxReports} \subseteq Nat

VARIABLES
  row,       \* VendorOrder rows: status columns, recovery mark, stored POS id, and
             \* whether Deliverect was heard (lastExternalStatusAt)
  logged,    \* vendor orders with an admin_manual_recovery history row
  status,    \* Order.status
  shown,     \* the last OrderStatusHistory row, which the customer's page shows
  pos,       \* the kitchen's own state of each vendor order
  tickets,   \* POS orders created per vendor order
  signals,   \* reports the POS has sent: <<vendor order, report>>
  events,    \* reports with a webhook event row: never handled again
  job,       \* what each worker is doing
  calls, requests, \* how often the payment's success and staff asked
  touched    \* history variable: vendor orders a person has acted on

database == <<row, logged, status, shown, events>>
kitchen  == <<pos, tickets, signals>>
asked    == <<calls, requests, touched>>
vars     == <<database, kitchen, asked, job>>

Pc == {"idle", "open", "load", "each", "promote", "recover", "fetch", "lookup",
       "apply", "write", "history", "call", "stampRead", "stamp", "partial", "pay",
       "fail", "derive", "parent", "trail"}

\* Where a job may go on after its last status write or submission.
Resume == {"idle", "open", "load", "each"}

\* The fields routing, fulfillment, authority and ext are the columns the job
\* will write; parent the order status it will write; todo the vendor orders it
\* has yet to submit; next where it goes on after its last status write.
Job == [pc : Pc, kind : Kind \cup {"none"}, vo : VendorOrder \cup {NoOrder},
        routing : RoutingStatus \cup {Keep},
        fulfillment : FulfillmentStatus \cup {Keep},
        authority : Authority \cup {Keep}, ext : BOOLEAN,
        parent : ParentOrderStatus, todo : SUBSET VendorOrder, next : Resume]

Idle == [pc |-> "idle", kind |-> "none", vo |-> NoOrder, routing |-> Keep,
         fulfillment |-> Keep, authority |-> Keep, ext |-> FALSE,
         parent |-> "pending_payment", todo |-> {}, next |-> "idle"]

NewRow == [routing |-> "pending", fulfillment |-> "pending", authority |-> "none",
           recovered |-> FALSE, ext |-> FALSE, heard |-> FALSE]

Init ==
  /\ row = [v \in VendorOrder |-> NewRow]
  /\ logged = {}
  /\ status = "pending_payment"
  /\ shown = "pending_payment"
  /\ pos = [v \in VendorOrder |-> "pending"]
  /\ tickets = [v \in VendorOrder |-> 0]
  /\ signals = {}
  /\ events = {}
  /\ job = [w \in Worker |-> Idle]
  /\ calls = 0
  /\ requests = 0
  /\ touched = {}

-----------------------------------------------------------------------------
(* Jobs.                                                                   *)

At(w, pc)   == job[w].pc = pc
Submits(j)  == j.kind \in {"payment", "retry"}
Set(w, j)   == job' = [job EXCEPT ![w] = j]

\* The job goes on, and forgets the vendor order and the columns it was holding.
Goto(j, pc) ==
  IF pc = "idle" THEN Idle
  ELSE [Idle EXCEPT !.pc = pc, !.kind = j.kind, !.todo = j.todo, !.next = j.next]

\* A submission is over.  Only a successful retry recomputes the parent.
Done(j, ok) == IF ok /\ j.kind = "retry" THEN Goto(j, "derive") ELSE Goto(j, j.next)

\* A person, or a job of the platform, asks for something.
StaffAsks(w, kind) == kind \in Kinds /\ At(w, "idle") /\ requests < MaxRequests

receiptConfirmed(v) ==
  isVendorReceiptConfirmed(row[v].routing, row[v].fulfillment, row[v].recovered,
                           v \in logged)

\* The status every handler but the post-payment flow computes, and the one
\* post-payment computes: it does not select the recovery column.
DerivedStatus ==
  deriveParentStatusFromChildren(
    [v \in VendorOrder |-> getEffectiveChildState(row[v].routing, row[v].fulfillment,
                                                  row[v].recovered, v \in logged)])
DerivedStatusFromHistory ==
  deriveParentStatusFromChildren(
    [v \in VendorOrder |-> getEffectiveChildState(row[v].routing, row[v].fulfillment,
                                                  FALSE, v \in logged)])

-----------------------------------------------------------------------------
(* POS webhooks.                                                           *)

\* applyDeliverectInboundStatus: read the row, merge, keep what changes.
ReceiveDeliverectWebhook(w) ==
  /\ "webhook" \in Kinds /\ At(w, "idle")
  /\ \E v \in VendorOrder, report \in Report :
       /\ Mode[v] = "deliverect" /\ <<v, report>> \in signals \ events
       /\ events' = events \cup {<<v, report>>}
       /\ LET r    == row[v].routing
              f    == row[v].fulfillment
              next == mergeDeliverectMappedIntoVendorOrder(r, f,
                                                      interpretNumericCode(report))
              diff == Difference(next, r, f)
          IN  \E id \in BOOLEAN :
                /\ id \/ "no_id" \in Faults
                /\ Set(w, [Idle EXCEPT !.pc = "promote", !.kind = "webhook", !.vo = v,
                                       !.routing = diff.routing,
                                       !.fulfillment = diff.fulfillment, !.ext = id])
  /\ UNCHANGED <<kitchen, asked, row, logged, status, shown>>

\* Mutant: an administrator's override is promoted as well.
posAuthorityPromotionAlways(a) == IF a = "dma" THEN Keep ELSE "pos"

posAuthorityPromotionUpdateIfEligible(a) ==
  IF a \in {"none", "vendor_manual"} THEN "pos" ELSE Keep

PromoteAuthority(w) ==
  /\ At(w, "promote")
  /\ Set(w, [job[w] EXCEPT !.pc = "write",
               !.authority = posAuthorityPromotionUpdateIfEligible(row[job[w].vo].authority)])
  /\ UNCHANGED <<database, kitchen, asked>>

\* attemptDeliverectReconciliationFallback, asked by an administrator or the cron job:
\* a submitted order of which nothing was heard is looked up by its POS id.
AskRecheck(w) ==
  /\ StaffAsks(w, "recheck")
  /\ \E v \in Linked :
       /\ Mode[v] = "deliverect" /\ row[v].ext /\ ~row[v].heard /\ ~row[v].recovered
       /\ row[v].routing = "sent" /\ row[v].fulfillment = "pending"
       /\ Set(w, [Idle EXCEPT !.pc = "lookup", !.kind = "recheck", !.vo = v])
  /\ requests' = requests + 1
  /\ UNCHANGED <<database, kitchen, calls, touched>>

\* fetchDeliverectOrderById answers with the kitchen's state, or with a failure it
\* reported before it started.  A "failed" is kept in the routing column.
LookUpDeliverectOrder(w) ==
  /\ At(w, "lookup")
  /\ LET j == job[w]
     IN  \/ Set(w, [j EXCEPT !.pc = "apply", !.fulfillment = pos[j.vo]])
         \/ /\ pos[j.vo] = "pending" /\ <<j.vo, "failed">> \in signals
            /\ Set(w, [j EXCEPT !.pc = "apply", !.routing = "failed"])
         \/ "fetch_failed" \in Faults /\ Set(w, Idle)
  /\ UNCHANGED <<database, kitchen, asked>>

LookedUp(j) == IF j.routing = "failed" THEN "failed" ELSE j.fulfillment

\* Mutant: the answer is taken as it is, not merged into the row as it is by now.
ApplyLookupUnmerged(w) ==
  /\ At(w, "apply")
  /\ LET mapped == interpretNumericCode(LookedUp(job[w]))
     IN  Set(w, [job[w] EXCEPT !.pc = "promote", !.routing = mapped.routing,
                               !.fulfillment = mapped.fulfillment])
  /\ UNCHANGED <<database, kitchen, asked>>

\* applyDeliverectStatusFromFallbackLookup reads the row again and merges into that.
ApplyLookup(w) ==
  /\ At(w, "apply")
  /\ LET j    == job[w]
         r    == row[j.vo].routing
         f    == row[j.vo].fulfillment
         diff == Difference(mergeDeliverectMappedIntoVendorOrder(r, f,
                              interpretNumericCode(LookedUp(j))), r, f)
     IN  Set(w, [j EXCEPT !.pc = "promote", !.routing = diff.routing,
                          !.fulfillment = diff.fulfillment])
  /\ UNCHANGED <<database, kitchen, asked>>

\* A Square event finds its vendor order by the stored POS id; without one the
\* event is marked as ignored and never comes back.
ReceiveSquareWebhook(w) ==
  /\ "sync" \in Kinds /\ At(w, "idle")
  /\ \E v \in VendorOrder, report \in Report :
       /\ Mode[v] = "square" /\ <<v, report>> \in signals \ events
       /\ events' = events \cup {<<v, report>>}
       /\ Set(w, IF row[v].ext
                 THEN [Idle EXCEPT !.pc = "fetch", !.kind = "sync", !.vo = v,
                                   !.routing = row[v].routing,
                                   !.fulfillment = row[v].fulfillment]
                 ELSE Idle)
  /\ UNCHANGED <<kitchen, asked, row, logged, status, shown>>

\* applySquareOrderStatusSync: ask Square for the order's current state and merge
\* it into the row read before the call.
FetchSquareOrder(w) ==
  /\ At(w, "fetch")
  /\ LET j    == job[w]
         next == mergeSquareMappedIntoVendorOrder(j.routing, j.fulfillment,
                   mapSquareOrderSnapshotToVendorStatus(pos[j.vo]))
         diff == Difference(next, j.routing, j.fulfillment)
     IN  \/ /\ "fetch_failed" \in Faults \/ diff = NoChange
            /\ Set(w, Goto(j, "derive"))
         \/ /\ diff # NoChange
            /\ Set(w, [j EXCEPT !.pc = "write", !.routing = diff.routing,
                                !.fulfillment = diff.fulfillment, !.authority = "pos"])
  /\ UNCHANGED <<database, kitchen, asked>>

-----------------------------------------------------------------------------
(* Requests by vendors and administrators.                                 *)

\* canVendorDashboardMutateVendorOrder, then shouldApplyStatusUpdate
dashboardMayMutate(v) ==
  \/ Mode[v] = "manual_dashboard"
  \/ /\ ~actionsLocked(Mode[v], row[v].authority, row[v].routing, row[v].recovered,
                       v \in Linked, row[v].ext)
     /\ dashboardMayApply(row[v].authority, row[v].routing, row[v].recovered,
                          v \in Linked)

canVendorRejectVendorOrder(v) ==
  /\ row[v].fulfillment \in {"pending", "accepted"}
  /\ row[v].routing = "sent" \/ receiptConfirmed(v)

\* The end of applyVendorOrderTransition: a patch that changes nothing is
\* answered at once, any other is written.
Transition(w, v, kind, patch) ==
  /\ \/ Patched(patch.routing, row[v].routing) # row[v].routing
     \/ Patched(patch.fulfillment, row[v].fulfillment) # row[v].fulfillment
  /\ Set(w, [Idle EXCEPT !.pc = "write", !.kind = kind, !.vo = v,
                         !.routing = patch.routing, !.fulfillment = patch.fulfillment])
  /\ requests' = requests + 1
  /\ touched' = touched \cup {v}

DashboardTransition(w) ==
  /\ StaffAsks(w, "dashboard")
  /\ \E v \in VendorOrder, target \in Target \ {"sent", "failed"} :
       /\ dashboardMayMutate(v)
       /\ target = "cancelled" => canVendorRejectVendorOrder(v)
       /\ \E patch \in resolveVendorDashboardTransitionPatch(
                         row[v].routing, row[v].fulfillment, target,
                         receiptConfirmed(v), Mode[v] = "manual_dashboard") :
            Transition(w, v, "dashboard", patch)
  /\ UNCHANGED <<database, kitchen, calls>>

AdminTransition(w) ==
  /\ StaffAsks(w, "admin")
  /\ \E v \in VendorOrder, target \in Target :
       /\ validateTransition(row[v].routing, row[v].fulfillment, target, "admin",
                             receiptConfirmed(v))
       /\ Transition(w, v, "admin", targetToUpdate(target))
  /\ UNCHANGED <<database, kitchen, calls>>

\* The manual-recovery route checks the order, then applyVendorOrderTransition
\* reads it again.
AskRecovery(w) ==
  /\ StaffAsks(w, "recovery")
  /\ status # "pending_payment"
  /\ \E v \in VendorOrder :
       /\ row[v].fulfillment = "pending" /\ ~row[v].recovered
       /\ Set(w, [Idle EXCEPT !.pc = "recover", !.kind = "recovery", !.vo = v])
       /\ touched' = touched \cup {v}
  /\ requests' = requests + 1
  /\ UNCHANGED <<database, kitchen, calls>>

RecoverVendorOrder(w) ==
  /\ At(w, "recover")
  /\ LET v == job[w].vo
         f == row[v].fulfillment
     IN  Set(w, IF /\ f # "accepted"
                   /\ validateTransition(row[v].routing, f, "accepted",
                                         "admin_manual_recovery", receiptConfirmed(v))
                THEN [job[w] EXCEPT !.pc = "write", !.fulfillment = "accepted",
                                    !.authority = "admin_override"]
                ELSE Idle)
  /\ UNCHANGED <<database, kitchen, asked>>

\* Mutant: any order whose kitchen has not started may be retried.
canRetryUnstarted(v) ==
  /\ ~row[v].recovered /\ row[v].fulfillment \notin Terminal
  /\ IF Mode[v] = "manual_dashboard" THEN row[v].routing = "failed"
     ELSE row[v].fulfillment = "pending"

canRetryRouting(v) ==
  LET r == row[v].routing
      f == row[v].fulfillment
  IN  /\ ~row[v].recovered /\ f \notin Terminal
      /\ IF Mode[v] = "manual_dashboard" THEN r = "failed"
         ELSE /\ f = "pending"
              /\ \/ r \in {"failed", "pending"}
                 \/ r = "sent" /\ (Mode[v] = "square" \/ ~row[v].ext)

AskRetry(w) ==
  /\ StaffAsks(w, "retry")
  /\ status # "pending_payment"
  /\ \E v \in VendorOrder :
       /\ canRetryRouting(v)
       /\ Set(w, [Idle EXCEPT !.pc = "each", !.kind = "retry", !.todo = {v}])
  /\ requests' = requests + 1
  /\ UNCHANGED <<database, kitchen, calls, touched>>

AskSquareSync(w) ==
  /\ StaffAsks(w, "sync")
  /\ \E v \in VendorOrder :
       /\ Mode[v] = "square" /\ row[v].ext
       /\ Set(w, [Idle EXCEPT !.pc = "fetch", !.kind = "sync", !.vo = v,
                              !.routing = row[v].routing,
                              !.fulfillment = row[v].fulfillment])
  /\ requests' = requests + 1
  /\ UNCHANGED <<database, kitchen, calls, touched>>

-----------------------------------------------------------------------------
(* processSuccessfulPayment.  Stripe's webhook, the redirect page and the   *)
(* orders route each call it for the same payment.                         *)

ReceivePayment(w) ==
  /\ "payment" \in Kinds /\ At(w, "idle") /\ calls < MaxCalls
  /\ status = "pending_payment"
  /\ calls' = calls + 1
  /\ Set(w, [Idle EXCEPT !.pc = "parent", !.kind = "payment", !.parent = "paid",
                         !.next = "open"])
  /\ UNCHANGED <<database, kitchen, requests, touched>>

OpenRouting(w) ==
  /\ At(w, "open")
  /\ Set(w, [job[w] EXCEPT !.pc = "parent", !.parent = "routing", !.next = "load"])
  /\ UNCHANGED <<database, kitchen, asked>>

LoadVendorOrders(w) ==
  /\ At(w, "load")
  /\ Set(w, [job[w] EXCEPT !.pc = "each", !.next = "each",
                           !.todo = {v \in VendorOrder : row[v].routing = "pending"}])
  /\ UNCHANGED <<database, kitchen, asked>>

\* All submissions done: the derived status is written whether it changed or not.
SettleOrder(w) ==
  /\ At(w, "each") /\ job[w].kind = "payment" /\ job[w].todo = {}
  /\ Set(w, [job[w] EXCEPT !.pc = "parent", !.parent = DerivedStatusFromHistory,
                           !.next = "idle"])
  /\ UNCHANGED <<database, kitchen, asked>>

-----------------------------------------------------------------------------
(* submitVendorOrder.                                                      *)

\* The provider is chosen by the vendor's mode; each reads the row it needs.
SubmitManually(j, v) ==
  [j EXCEPT !.pc = "write", !.routing = "confirmed",
            !.authority = IF row[v].authority = "none" THEN "vendor_manual" ELSE Keep]

\* A failed Deliverect call will write "failed" only over a "pending" read here.
SubmitToDeliverect(j, v) ==
  IF v \notin Linked THEN Done(j, FALSE)
  ELSE IF row[v].routing = "sent" /\ row[v].ext THEN [j EXCEPT !.pc = "stampRead"]
  ELSE [j EXCEPT !.pc = "call",
                 !.routing = IF row[v].routing = "pending" THEN "failed" ELSE Keep]

SubmitToSquare(j, v) ==
  IF row[v].routing = "sent" /\ row[v].ext THEN Done(j, TRUE)
  ELSE [j EXCEPT !.pc = IF row[v].ext THEN "pay" ELSE "call"]

SubmitVendorOrder(w) ==
  /\ At(w, "each")
  /\ \E v \in job[w].todo :
       LET j == [job[w] EXCEPT !.vo = v, !.todo = @ \ {v}, !.routing = Keep,
                               !.authority = Keep, !.ext = FALSE]
       IN  Set(w, IF Mode[v] = "deliverect" THEN SubmitToDeliverect(j, v)
                  ELSE IF Mode[v] = "square" THEN SubmitToSquare(j, v)
                  ELSE SubmitManually(j, v))
  /\ UNCHANGED <<database, kitchen, asked>>

\* recordDeliverectPrecheckFailure reads the row again before it writes.
DeliverectPrecheckFails(w) ==
  /\ At(w, "call") /\ Mode[job[w].vo] = "deliverect"
  /\ Set(w, IF row[job[w].vo].routing = "pending"
            THEN [job[w] EXCEPT !.pc = "write", !.routing = "failed"]
            ELSE Done(job[w], FALSE))
  /\ UNCHANGED <<database, kitchen, asked>>

\* submitOrder answers: accepted, with the POS's id or with an empty body;
\* refused; or accepted with the answer lost, which the code takes for a refusal.
CallDeliverect(w) ==
  /\ At(w, "call") /\ Mode[job[w].vo] = "deliverect"
  /\ LET j == job[w]
         accepted == tickets[j.vo] < MaxTickets /\ tickets' = [tickets EXCEPT ![j.vo] = @ + 1]
     IN  \/ \E id \in BOOLEAN :
              /\ id \/ "no_id" \in Faults
              /\ accepted
              /\ Set(w, [j EXCEPT !.pc = "write", !.routing = "sent", !.ext = id])
         \/ UNCHANGED tickets /\ Set(w, [j EXCEPT !.pc = "write"])
         \/ "lost_answer" \in Faults /\ accepted /\ Set(w, [j EXCEPT !.pc = "write"])
  /\ UNCHANGED <<database, asked, pos, signals>>

ReadAuthority(w) ==
  /\ At(w, "stampRead")
  /\ LET a == row[job[w].vo].authority
     IN  Set(w, [job[w] EXCEPT !.pc = "stamp",
                   !.authority = IF a = "none" THEN "vendor_manual" ELSE Keep])
  /\ UNCHANGED <<database, kitchen, asked>>

StampAuthority(w) ==
  /\ At(w, "stamp")
  /\ row' = [row EXCEPT ![job[w].vo].authority = Patched(job[w].authority, @)]
  /\ Set(w, Done(job[w], TRUE))
  /\ UNCHANGED <<kitchen, asked, logged, status, shown, events>>

\* createSquareOrder carries an idempotency key: Square creates the order once and
\* answers later calls with it.  A new order's pickup is PROPOSED ("accepted").
CallSquare(w) ==
  /\ At(w, "call") /\ Mode[job[w].vo] = "square"
  /\ LET j == job[w]
         created == /\ tickets' = [tickets EXCEPT ![j.vo] = 1]
                    /\ pos' = [pos EXCEPT ![j.vo] = IF tickets[j.vo] = 0 THEN "accepted" ELSE @]
     IN  \/ created /\ Set(w, [j EXCEPT !.pc = "partial"])
         \/ UNCHANGED <<pos, tickets>> /\ Set(w, [j EXCEPT !.pc = "fail"])
         \/ "lost_answer" \in Faults /\ created /\ Set(w, [j EXCEPT !.pc = "fail"])
  /\ UNCHANGED <<database, asked, signals>>

\* Mutant: the half-submitted order is put back to pending.
persistPartialSquareOrderAsPending(w) ==
  /\ At(w, "partial")
  /\ row' = [row EXCEPT ![job[w].vo].ext = TRUE, ![job[w].vo].routing = "pending"]
  /\ Set(w, [job[w] EXCEPT !.pc = "pay"])
  /\ UNCHANGED <<kitchen, asked, logged, status, shown, events>>

persistPartialSquareOrder(w) ==
  /\ At(w, "partial")
  /\ row' = [row EXCEPT ![job[w].vo].ext = TRUE]
  /\ Set(w, [job[w] EXCEPT !.pc = "pay"])
  /\ UNCHANGED <<kitchen, asked, logged, status, shown, events>>

submitSquareExternalPayment(w) ==
  /\ At(w, "pay")
  /\ \/ Set(w, [job[w] EXCEPT !.pc = "write", !.routing = "sent"])
     \/ Set(w, [job[w] EXCEPT !.pc = "fail"])
  /\ UNCHANGED <<database, kitchen, asked>>

recordSquareRoutingFailure(w) ==
  /\ At(w, "fail")
  /\ LET v == job[w].vo
     IN  Set(w, IF row[v].routing = "sent" /\ row[v].ext THEN Done(job[w], FALSE)
                ELSE [job[w] EXCEPT !.pc = "write", !.routing = "failed"])
  /\ UNCHANGED <<database, kitchen, asked>>

-----------------------------------------------------------------------------
(* Writes.                                                                 *)

\* Mutant: a POS webhook does not recompute the parent.
AfterWriteSilentWebhook(j) ==
  IF j.kind = "recovery" THEN [j EXCEPT !.pc = "history"]
  ELSE IF j.kind = "webhook" THEN Idle
  ELSE IF ~Submits(j) \/ Mode[j.vo] = "manual_dashboard" THEN Goto(j, "derive")
  ELSE IF j.routing # "sent" THEN Done(j, FALSE)
  ELSE IF Mode[j.vo] = "deliverect" THEN [j EXCEPT !.pc = "stampRead"]
  ELSE Done(j, TRUE)

\* Mutant: a failed submission ends the post-payment loop.
AfterWriteFailureEnds(j) ==
  IF j.kind = "recovery" THEN [j EXCEPT !.pc = "history"]
  ELSE IF ~Submits(j) \/ Mode[j.vo] = "manual_dashboard" THEN Goto(j, "derive")
  ELSE IF j.routing # "sent" THEN Idle
  ELSE IF Mode[j.vo] = "deliverect" THEN [j EXCEPT !.pc = "stampRead"]
  ELSE Done(j, TRUE)

\* Where a job goes once its vendor order is written: a POS submission is over
\* when it failed, everything else recomputes the parent.
AfterWrite(j) ==
  IF j.kind = "recovery" THEN [j EXCEPT !.pc = "history"]
  ELSE IF ~Submits(j) \/ Mode[j.vo] = "manual_dashboard" THEN Goto(j, "derive")
  ELSE IF j.routing # "sent" THEN Done(j, FALSE)
  ELSE IF Mode[j.vo] = "deliverect" THEN [j EXCEPT !.pc = "stampRead"]
  ELSE Done(j, TRUE)

WriteVendorOrder(w) ==
  /\ At(w, "write")
  /\ LET j == job[w]
     IN  /\ row' = [row EXCEPT ![j.vo] =
                      [routing     |-> Patched(j.routing, @.routing),
                       fulfillment |-> Patched(j.fulfillment, @.fulfillment),
                       authority   |-> Patched(j.authority, @.authority),
                       recovered   |-> @.recovered \/ j.kind = "recovery",
                       ext         |-> @.ext \/ j.ext,
                       heard       |-> @.heard \/ j.kind \in {"webhook", "recheck"}]]
         /\ Set(w, AfterWrite(j))
  /\ UNCHANGED <<kitchen, asked, logged, status, shown, events>>

LogRecovery(w) ==
  /\ At(w, "history")
  /\ logged' = logged \cup {job[w].vo}
  /\ Set(w, Goto(job[w], "derive"))
  /\ UNCHANGED <<kitchen, asked, row, status, shown, events>>

\* recomputeAndPersistParentStatus: one read of the order with its vendor orders,
\* then, when the status differs, the order row and its history row.
recomputeParentStatus(w) ==
  /\ At(w, "derive")
  /\ Set(w, IF DerivedStatus = status THEN Goto(job[w], job[w].next)
            ELSE [job[w] EXCEPT !.pc = "parent", !.parent = DerivedStatus])
  /\ UNCHANGED <<database, kitchen, asked>>

PersistParentStatus(w) ==
  /\ At(w, "parent")
  /\ status' = job[w].parent
  /\ Set(w, [job[w] EXCEPT !.pc = "trail"])
  /\ UNCHANGED <<kitchen, asked, row, logged, shown, events>>

AppendParentHistory(w) ==
  /\ At(w, "trail")
  /\ shown' = job[w].parent
  /\ Set(w, Goto(job[w], job[w].next))
  /\ UNCHANGED <<kitchen, asked, row, logged, status, events>>

-----------------------------------------------------------------------------
(* The world outside: kitchens, and the platform ending an invocation.     *)

Crash(w) ==
  /\ "crash" \in Faults /\ ~At(w, "idle")
  /\ Set(w, Idle)
  /\ UNCHANGED <<database, kitchen, asked>>

\* A kitchen that has the order moves it forward or cancels it, and reports it.
KitchenMoves ==
  /\ Cardinality(signals) < MaxReports
  /\ \E v \in VendorOrder, state \in FulfillmentStatus :
       /\ tickets[v] > 0 /\ pos[v] \notin Terminal
       /\ FULFILLMENT_RANK[state] > FULFILLMENT_RANK[pos[v]]
       /\ pos' = [pos EXCEPT ![v] = state]
       /\ signals' = signals \cup {<<v, state>>}
  /\ UNCHANGED <<database, asked, tickets, job>>

\* Before it starts, a Deliverect POS may confirm the receipt or report a failure,
\* and may still take the order up after a failure.
KitchenReplies ==
  /\ Cardinality(signals) < MaxReports
  /\ \E v \in VendorOrder, report \in {"pending", "failed"} :
       /\ Mode[v] = "deliverect" /\ tickets[v] > 0 /\ pos[v] = "pending"
       /\ <<v, report>> \notin signals
       /\ signals' = signals \cup {<<v, report>>}
  /\ UNCHANGED <<database, asked, pos, tickets, job>>

-----------------------------------------------------------------------------
\* Steps a running job takes by itself.
JobStep(w) ==
  \/ LookUpDeliverectOrder(w) \/ ApplyLookup(w)
  \/ PromoteAuthority(w) \/ FetchSquareOrder(w) \/ RecoverVendorOrder(w)
  \/ OpenRouting(w) \/ LoadVendorOrders(w) \/ SettleOrder(w)
  \/ SubmitVendorOrder(w) \/ DeliverectPrecheckFails(w) \/ CallDeliverect(w)
  \/ ReadAuthority(w) \/ StampAuthority(w)
  \/ CallSquare(w) \/ persistPartialSquareOrder(w) \/ submitSquareExternalPayment(w)
  \/ recordSquareRoutingFailure(w)
  \/ WriteVendorOrder(w) \/ LogRecovery(w)
  \/ recomputeParentStatus(w) \/ PersistParentStatus(w) \/ AppendParentHistory(w)

Request(w) ==
  \/ ReceivePayment(w) \/ ReceiveDeliverectWebhook(w) \/ ReceiveSquareWebhook(w)
  \/ DashboardTransition(w) \/ AdminTransition(w) \/ AskRecovery(w) \/ AskRetry(w)
  \/ AskSquareSync(w) \/ AskRecheck(w)

Next ==
  \/ \E w \in Worker : Request(w) \/ JobStep(w) \/ Crash(w)
  \/ KitchenMoves
  \/ KitchenReplies

Spec == Init /\ [][Next]_vars

\* The platform runs an invocation to its end unless it crashes; Stripe delivers a
\* payment's success until it is answered, and POS events are delivered.
Fairness ==
  \A w \in Worker : WF_vars(JobStep(w)) /\ WF_vars(ReceivePayment(w))
                    /\ WF_vars(ReceiveDeliverectWebhook(w))

FairSpec == Spec /\ Fairness
=============================================================================
