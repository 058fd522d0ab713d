----------------------- MODULE VendorOrderProperties -----------------------
(***************************************************************************)
(* What VendorOrders.tla should guarantee.  A run names the properties     *)
(* that its constants entitle it to: "serial" ones hold when one worker    *)
(* runs one handler at a time, the others under every interleaving.        *)
(***************************************************************************)
EXTENDS VendorOrders

Row == [routing : RoutingStatus, fulfillment : FulfillmentStatus,
        authority : Authority, recovered : BOOLEAN, ext : BOOLEAN,
        heard : BOOLEAN]

\* Where a job is about one vendor order.
Holding(pc) == pc \notin Resume \cup {"derive", "parent", "trail"}

\* The type invariant of the order, its jobs and the kitchens.
TypeOK ==
  /\ row \in [VendorOrder -> Row]
  /\ logged \subseteq VendorOrder
  /\ status \in ParentOrderStatus
  /\ shown \in ParentOrderStatus
  /\ pos \in [VendorOrder -> FulfillmentStatus]
  /\ tickets \in [VendorOrder -> Nat]
  /\ signals \subseteq VendorOrder \X Report
  /\ events \subseteq signals
  /\ job \in [Worker -> Job]
  /\ \A w \in Worker :
       /\ Holding(job[w].pc) => job[w].vo \in VendorOrder
       /\ job[w].pc = "fetch" => job[w].routing # Keep /\ job[w].fulfillment # Keep
       /\ job[w].pc = "apply" => LookedUp(job[w]) \in Report
  /\ calls \in Nat
  /\ requests \in Nat
  /\ touched \subseteq VendorOrder

-----------------------------------------------------------------------------
(* Under every interleaving and every crash.                               *)

\* The states a vendor order's kitchen has been in.
Told(v) == {"pending"} \cup {s \in FulfillmentStatus : <<v, s>> \in signals}
           \cup {s \in {"accepted"} : Mode[v] = "square" /\ tickets[v] > 0}

\* A vendor order no person has acted on shows a state its kitchen really was in:
\* overlapping webhooks, submissions and retries may show an old state, never one
\* that did not happen (merge functions, applyDeliverectInboundStatus and its lookup,
\* applySquareOrderStatusSync, submitVendorOrder).
NoInventedStatus ==
  \A v \in VendorOrder : v \notin touched => row[v].fulfillment \in Told(v)

\* A vendor order that was handed off or started never looks untouched again: a
\* handler writes the columns it means to change, never the stale ones it read.
StartedStaysStarted ==
  [][\A v \in VendorOrder :
       /\ row[v].routing # "pending" => row'[v].routing # "pending"
       /\ row[v].fulfillment # "pending" => row'[v].fulfillment # "pending"]_vars

\* Why both hold: what a job carries between its read and its write.  A job that is not
\* about a vendor order carries no columns; only a job that has just read a row for
\* Square or asked Deliverect may carry "pending"; the fulfillment a job carries for a vendor order no person
\* touched came from its kitchen; and a recovery is about a vendor order a person touched.
Carries(j) ==
  /\ ~Holding(j.pc) => j.routing = Keep /\ j.fulfillment = Keep
  /\ j.pc \notin {"fetch", "apply"} => j.routing # "pending" /\ j.fulfillment # "pending"
  /\ Holding(j.pc) /\ j.vo \notin touched => j.fulfillment \in Told(j.vo) \cup {Keep}
  /\ j.pc = "recover" => j.vo \in touched

\* The inductive strengthening of NoInventedStatus: jobs, kitchens and rows together never
\* hold a fulfillment that no kitchen reported and no person asked for (all handlers).
NothingInvented ==
  /\ \A w \in Worker : Carries(job[w])
  /\ \A v \in VendorOrder : pos[v] \in Told(v)
  /\ NoInventedStatus

-----------------------------------------------------------------------------
(* With one handler at a time.                                             *)

AtRest == \A w \in Worker : At(w, "idle")

\* Fulfillment moves forward or is cancelled, whatever order the POS's reports
\* arrive in and whoever else acts; a cancelled vendor order is never reopened
\* (the rank tests of the merges, validateTransition, the dashboard's skips).
Advances(f, g) ==
  g = f \/ (f # "cancelled" /\ FULFILLMENT_RANK[g] > FULFILLMENT_RANK[f])

FulfillmentOnlyAdvances ==
  [][\A v \in VendorOrder : Advances(row[v].fulfillment, row'[v].fulfillment)]_vars

\* An administrator who takes a vendor order over keeps it: no webhook, retry or
\* submission gives the authority back (posAuthorityPromotionUpdateIfEligible,
\* routing.service's "if null" writes).
AdminOverrideIsKept ==
  [][\A v \in VendorOrder : row[v].authority = "admin_override"
                              => row'[v].authority = "admin_override"]_vars

\* When nothing runs, the stored status, the status the customer is shown and the
\* status that follows from the vendor orders are one (recomputeAndPersistParentStatus
\* and the post-payment flow's own derivation).
ParentAgreesAtRest ==
  AtRest /\ status # "pending_payment" => status = DerivedStatus /\ shown = status

\* Once every report of its kitchen was delivered, in any order, a vendor order no
\* person touched stands where its kitchen stands (the Deliverect merge).
KitchenIsReflected ==
  \A v \in VendorOrder :
    /\ AtRest /\ v \notin touched /\ Mode[v] = "deliverect"
    /\ \A s \in Report : <<v, s>> \in signals => <<v, s>> \in events
    => row[v].fulfillment = pos[v]

\* The kitchen gets a second ticket only after it reported the first as failed
\* (the "already sent" test, the post-payment filter, canRetryRouting).
ResubmitOnlyAfterFailure ==
  \A v \in VendorOrder : tickets[v] > 1 => <<v, "failed">> \in events

\* Why fulfillment only advances and an override is kept: what a lone job holds fits the
\* row as it is now, because nobody wrote the row since the job read it.  A job about
\* to write advances the row, a recovery finds it as untouched as the route saw it, and
\* only Square's synchronisation would replace an administrator's authority (each
\* handler's read of the row, submitVendorOrder's "if null", applyVendorOrderTransition).
FitsRow(j, r) ==
  /\ j.kind \in Kinds \cup {"none"}
  /\ j.pc = "fetch" => j.kind = "sync" /\ j.fulfillment = r.fulfillment
  /\ j.pc \in {"lookup", "apply"} => j.kind = "recheck"
  /\ j.pc = "recover" => j.kind = "recovery" /\ r.fulfillment = "pending"
  /\ j.pc \in {"call", "partial", "pay", "fail"} => j.fulfillment = Keep /\ j.authority = Keep
  /\ j.pc \in {"promote", "write"}
       => Advances(r.fulfillment, Patched(j.fulfillment, r.fulfillment))
  /\ j.pc \in {"write", "stamp"} /\ j.kind # "sync" /\ r.authority = "admin_override"
       => j.authority \in {Keep, "admin_override"}

Fits == \A w \in Worker : FitsRow(job[w], row[job[w].vo])

\* Why the parent agrees at rest: a lone job that changed a row, or recorded a recovery,
\* derives the parent before it ends, and the payment's job ends by writing what follows
\* from the history, which says as much as the recovery column once a recovery is logged
\* (applyVendorOrderTransition's callers, processSuccessfulPayment).
Settling == {"history", "derive", "parent", "trail"}

AgreesWith(j, stored, displayed, derived) ==
  /\ j.kind # "retry"
  /\ j.pc = "idle" => j.kind = "none"
  /\ j.pc \in Resume \ {"idle"} => j.kind = "payment"
  /\ j.kind # "payment" => j.next = "idle"
  /\ j.kind = "payment" /\ j.pc \notin {"parent", "trail"} => j.next # "idle"
  /\ IF j.pc = "trail" THEN stored = j.parent ELSE displayed = stored
  /\ j.next = "idle" /\ j.pc \in {"parent", "trail"} => j.parent = derived
  /\ j.kind # "payment" /\ j.pc \notin Settling /\ stored # "pending_payment"
       => stored = derived

Agrees ==
  /\ \A w \in Worker : AgreesWith(job[w], status, shown, DerivedStatus)
  /\ \A v \in VendorOrder :
       row[v].recovered
         => v \in logged \/ \E w \in Worker : job[w].pc = "history" /\ job[w].vo = v

\* Why the kitchen is reflected: it stands as far as any of its reports, and a vendor
\* order as far as each report that was delivered, or the job that took the report will
\* write it there (applyDeliverectInboundStatus, the ranks of the merge).
Rank(f) == FULFILLMENT_RANK[f]

Reaches(v, s) ==
  \/ Rank(row[v].fulfillment) >= Rank(s)
  \/ \E w \in Worker :
       /\ job[w].pc \in {"promote", "write"} /\ job[w].vo = v
       /\ Rank(Patched(job[w].fulfillment, row[v].fulfillment)) >= Rank(s)

Reflects ==
  \A v \in VendorOrder, s \in FulfillmentStatus :
    Mode[v] = "deliverect"
      => /\ <<v, s>> \in signals => Rank(pos[v]) >= Rank(s)
         /\ <<v, s>> \in events => Reaches(v, s)

\* Why a second ticket needs a failure: a vendor order whose kitchen has a ticket it did
\* not reject is routed with the POS's id, or a job is about to write that; a job has yet
\* to submit only vendor orders without such a ticket, and none writes "failed" over one
\* (deliverectSubmission's reads and writes, canRetryRouting, processSuccessfulPayment).
Rejected(v) == Mode[v] # "deliverect" \/ <<v, "failed">> \in events

Routes(j, v) == j.pc = "write" /\ j.vo = v /\ j.routing = "sent" /\ j.ext

Free == {v \in VendorOrder : Rejected(v) \/ tickets[v] = 0}

SubmitsOnce(j, free) ==
  /\ j.todo \subseteq free
  /\ j.pc = "call" => j.vo \in free \ j.todo
  /\ j.pc \in {"promote", "write"} /\ j.routing = "failed" => j.vo \in free
  /\ j.pc = "recover" => j.routing = Keep
  /\ j.pc \in {"partial", "pay", "fail"} => Mode[j.vo] = "square"

Ticketed ==
  /\ \A w \in Worker : SubmitsOnce(job[w], Free)
  /\ \A v \in VendorOrder :
       /\ Mode[v] # "deliverect" => tickets[v] <= 1
       /\ v \notin Free
            => /\ tickets[v] = 1
               /\ \/ row[v].routing \in {"sent", "confirmed"} /\ row[v].ext
                  \/ \E w \in Worker : Routes(job[w], v)

\* A payment that was received leads to a decision for every vendor order: none
\* stays unrouted (processSuccessfulPayment's loop over pending vendor orders).
PaidOrderIsRouted ==
  status = "paid" ~> \A v \in VendorOrder : row[v].routing # "pending"

\* The customer is shown, in the end, that a finished order is finished: once every
\* kitchen closed its part, the last status row is a final one.
ClosedOrderIsShown ==
  (\A v \in VendorOrder : pos[v] \in Terminal) ~> [](shown \in TerminalOrderStatus)
=============================================================================
