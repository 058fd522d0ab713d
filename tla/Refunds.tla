------------------------------- MODULE Refunds -------------------------------
(***************************************************************************)
(* Refunds of one paid order: the attempts, the ledger (OrderRefund), the  *)
(* order's summary of it, Stripe's refunds and the webhook that books them.*)
(*                                                                         *)
(* A vendor that declines its vendor order starts an automatic refund,     *)
(* administrators refund the order, a vendor order or a part of one, and   *)
(* people refund in Stripe's dashboard.  Each request and each delivery of *)
(* an event is a job of a worker; a step is one statement, one transaction *)
(* or one call to Stripe.                                                  *)
(***************************************************************************)
EXTENDS Integers, Sequences, FiniteSetsExt

CONSTANTS
  Worker,       \* concurrent invocations
  Desk,         \* those that serve vendors and administrators
  Hook,         \* those that take Stripe's events
  Mortal,       \* those whose process may die
  VendorOrder,  \* the vendor orders of the order
  Total,        \* totalCents of each
  Whole,        \* no vendor order: a refund of the order
  Scopes,       \* the scopes of refund a run requests
  Faults,       \* the faults a run admits
  Slow,         \* bound: the refunds, by number, that Stripe may leave pending at first
  Copies,       \* the events Stripe sends of one change (refund.*, charge.refunded)
  MaxRequests,  \* bound: refunds people ask for
  MaxCrashes    \* bound: processes that die

Scope == {"vendor_denial", "full_order", "full_vendor_order", "custom_vendor_partial",
          "dashboard"}
Fault == {"lost_answer", "refused"}

ASSUME RefundAssumption ==
  /\ {Desk, Hook, Mortal} \subseteq SUBSET Worker
  /\ IsFiniteSet(VendorOrder)
  /\ Total \in [VendorOrder -> Nat \ {0}]
  /\ Whole \notin VendorOrder
  /\ Scopes \subseteq Scope
  /\ Faults \subseteq Fault
  /\ {MaxRequests, MaxCrashes} \subseteq Nat
  /\ Slow \subseteq Nat
  /\ Copies # {}

\* payment.amountCents
Paid == MapThenSumSet(LAMBDA v : Total[v], VendorOrder)

\* A refund by the parts of its idempotency key.  A row the webhook creates has the key
\* of Stripe's refund instead: its id.
Request ==
  {r \in [scope : Scopes, vo : VendorOrder \cup {Whole}, amount : 1..Paid, id : {0}] :
     \/ r.scope = "vendor_denial" /\ r.vo # Whole /\ r.amount = Total[r.vo]
     \/ r.scope \in {"full_vendor_order", "custom_vendor_partial"} /\ r.vo # Whole
        /\ r.amount <= Total[r.vo]
     \/ r.scope \in {"full_order", "dashboard"} /\ r.vo = Whole}

RefundId == 1..MaxRequests
Legacy   == [scope : {"legacy"}, vo : VendorOrder \cup {Whole}, amount : 1..Paid, id : RefundId]
RowId    == Request \cup Legacy

StripeStatus == {"pending", "succeeded", "failed"}   \* mapStripeRefundStatus

VARIABLES
  attempt,   \* RefundAttempt by request: status, Stripe's id (0 for none), dismissed
  ledger,    \* OrderRefund by key: status, Stripe's id, whether it is linked to its attempt
  summary,   \* the denormalized columns of the order and its vendor orders
  denied,    \* the vendor orders their vendors declined
  refunds,   \* Stripe's refunds, by id: vendor order of the metadata, amount, status
  known,     \* the answers Stripe remembers by idempotency key (administrators' only)
  inbox,     \* Stripe's events: sent, logged (WebhookEvent exists), done (processed)
  job,       \* what each worker is doing
  asked,     \* requests so far
  crashes    \* processes that died so far

database == <<attempt, ledger, summary, denied>>
stripe   == <<refunds, known>>
vars     == <<database, stripe, inbox, job, asked, crashes>>

Attempt   == [status : {"attempted", "succeeded", "failed"}, refund : Nat, dismissed : BOOLEAN]
LedgerRow == [status : StripeStatus, refund : Nat, linked : BOOLEAN]
Event     ==
  {e \in [refund : RefundId, status : StripeStatus, copy : Copies] :
     e.status = "succeeded" \/ e.refund \in Slow}

Pc == {"idle", "claim", "precheck", "refuse", "caps", "record", "adopt", "link",
       "stripe", "store", "mark", "fail", "failrow", "verify", "dismiss",
       "find", "book", "refresh", "apply", "reopen", "processed"}

None == [scope |-> "none", vo |-> Whole, amount |-> 0, id |-> 0]

\* What a job knows: the row it is about, whether the attempt it read existed or the row
\* it read had succeeded, Stripe's id and status of the refund, the copy of the event.
Job == [pc : Pc, row : RowId \cup {None}, seen : BOOLEAN, refund : Nat,
        status : StripeStatus, copy : Copies]

Idle == [pc |-> "idle", row |-> None, seen |-> FALSE, refund |-> 0,
         status |-> "pending", copy |-> CHOOSE c \in Copies : TRUE]

-----------------------------------------------------------------------------
(* domain/order-refund.ts                                                  *)

\* Mutant: money that already went out does not count.
CommittedInFlight == {"pending"}

COMMITTED_ORDER_REFUND_STATUSES == {"succeeded", "pending"}

Cents(rows) == MapThenSumSet(LAMBDA r : r.amount, rows)
RowsIn(l, statuses) == {r \in DOMAIN l : l[r].status \in statuses}

computeTotalRefundedCents(l)   == Cents(RowsIn(l, {"succeeded"}))
computeCommittedRefundCents(l) == Cents(RowsIn(l, COMMITTED_ORDER_REFUND_STATUSES))

\* A refund of the whole order covers every vendor order.
computeVendorOrderRefundedCents(l, v, statuses) ==
  LET own == Cents({r \in RowsIn(l, statuses) : r.vo = v})
  IN  IF (\E r \in RowsIn(l, statuses) : r.scope = "full_order") /\ own < Total[v]
      THEN Total[v] ELSE own

computeRemainingRefundableCents(paid, refunded) == IF refunded < paid THEN paid - refunded ELSE 0

RemainingOfOrder(l) == computeRemainingRefundableCents(Paid, computeCommittedRefundCents(l))
RemainingOfVendorOrder(l, v) ==
  computeRemainingRefundableCents(Total[v],
    computeVendorOrderRefundedCents(l, v, COMMITTED_ORDER_REFUND_STATUSES))

assertRefundAmountWithinCaps(l, r) ==
  /\ r.amount <= RemainingOfOrder(l)
  /\ r.vo # Whole => r.amount <= RemainingOfVendorOrder(l, r.vo)

derivePaymentRefundStatus(l) ==
  IF RowsIn(l, {"pending"}) # {} THEN "pending"
  ELSE IF computeTotalRefundedCents(l) = 0 THEN "none"
  ELSE IF computeTotalRefundedCents(l) >= Paid THEN "full" ELSE "partial"

\* refreshOrderRefundDenormalized
Summary(l) ==
  [total |-> computeTotalRefundedCents(l), label |-> derivePaymentRefundStatus(l),
   vendor |-> [v \in VendorOrder |-> computeVendorOrderRefundedCents(l, v, {"succeeded"})]]

(* domain/stale-refund-attempt.ts                                          *)

LinkedIn(r, statuses) ==
  r \in DOMAIN ledger /\ ledger[r].linked /\ ledger[r].status \in statuses

isStaleBlockingRefundAttempt(r) ==
  /\ attempt[r].status = "attempted" /\ ~attempt[r].dismissed /\ attempt[r].refund = 0
  /\ ~LinkedIn(r, {"pending", "succeeded"})

isRealInFlightRefundAttempt(r) ==
  /\ ~attempt[r].dismissed /\ ~isStaleBlockingRefundAttempt(r)
  /\ \/ attempt[r].refund # 0 /\ attempt[r].status = "attempted"
     \/ LinkedIn(r, {"pending"})

canDismissStaleRefundAttempt(r) ==
  /\ ~attempt[r].dismissed /\ attempt[r].status # "succeeded" /\ attempt[r].refund = 0
  /\ ~LinkedIn(r, {"pending", "succeeded"})
  /\ \/ attempt[r].status = "failed"
     \/ ~(r \in DOMAIN ledger /\ ledger[r].linked)

HasPendingRefund ==
  \/ RowsIn(ledger, {"pending"}) # {}
  \/ \E r \in DOMAIN attempt : isRealInFlightRefundAttempt(r)

-----------------------------------------------------------------------------
Init ==
  /\ attempt = [r \in {} |-> 0]
  /\ ledger = [r \in {} |-> 0]
  /\ summary = Summary(ledger)
  /\ denied = {}
  /\ refunds = <<>>
  /\ known = [r \in {} |-> 0]
  /\ inbox = [e \in Event |-> "none"]
  /\ job = [w \in Worker |-> Idle]
  /\ asked = 0
  /\ crashes = 0

At(w, pc)   == job[w].pc = pc
Set(w, j)   == job' = [job EXCEPT ![w] = j]
Stop(w)     == Set(w, Idle)
Goto(w, pc) == Set(w, [job[w] EXCEPT !.pc = pc])

\* Insert or update one row of a table.
Put(table, r, value) == [x \in DOMAIN table \cup {r} |-> IF x = r THEN value ELSE table[x]]

NewAttempt == [status |-> "attempted", refund |-> 0, dismissed |-> FALSE]

\* The unique index on OrderRefund.stripeRefundId.
Holds(row, id) == row \in DOMAIN ledger /\ ledger[row].refund = id
Taken(id, row) == \E x \in DOMAIN ledger \ {row} : Holds(x, id)

\* Columns of the ledger change in a transaction with the summary, or without it.
WriteLedger(l)    == ledger' = l /\ summary' = Summary(l)
WriteLedgerOnly(l) == ledger' = l /\ UNCHANGED summary

-----------------------------------------------------------------------------
(* A vendor declines: executeRefund.                                       *)

\* The route refunds after the vendor order became cancelled, which happens once; two
\* requests that overlap may both have seen it open.
AskDenial(w) ==
  /\ w \in Desk /\ At(w, "idle") /\ asked < MaxRequests
  /\ \E r \in Request :
       /\ r.scope = "vendor_denial"
       /\ r.vo \notin denied \/ \E u \in Worker : job[u].row = r
       /\ denied' = denied \cup {r.vo}
       /\ IF r \notin DOMAIN attempt \/ attempt[r].status = "failed"
          THEN Set(w, [Idle EXCEPT !.pc = "claim", !.row = r, !.seen = r \in DOMAIN attempt])
          ELSE Stop(w)        \* already refunded, or in progress
  /\ asked' = asked + 1
  /\ UNCHANGED <<attempt, ledger, summary, stripe, inbox, crashes>>

\* The attempt is created, whose key is unique, or a failed one is tried again.
ClaimDenial(w) ==
  LET j == job[w] IN
  /\ At(w, "claim") /\ j.row.scope = "vendor_denial"
  /\ \/ /\ j.seen
        /\ attempt' = [attempt EXCEPT ![j.row].status = "attempted"]
        /\ Goto(w, "precheck")
     \/ /\ ~j.seen /\ j.row \notin DOMAIN attempt
        /\ attempt' = Put(attempt, j.row, NewAttempt)
        /\ Goto(w, "precheck")
     \/ /\ ~j.seen /\ j.row \in DOMAIN attempt
        /\ Stop(w) /\ UNCHANGED attempt
  /\ UNCHANGED <<ledger, summary, denied, stripe, inbox, asked, crashes>>

\* precheckRefundEligibility
Precheck(w) ==
  LET r == job[w].row IN
  /\ At(w, "precheck")
  /\ Goto(w, IF r.amount <= RemainingOfVendorOrder(ledger, r.vo) THEN "caps" ELSE "refuse")
  /\ UNCHANGED <<database, stripe, inbox, asked, crashes>>

-----------------------------------------------------------------------------
(* An administrator refunds: buildRefundExecutionPlan, then                *)
(* runAdminRefundExecution's look at the rows of the same key.             *)

refundBlocked ==
  HasPendingRefund \/ \E r \in DOMAIN attempt : isStaleBlockingRefundAttempt(r)

\* "Full" is what remains.
PlanAmount(r) ==
  CASE r.scope = "full_order"            -> r.amount = RemainingOfOrder(ledger)
    [] r.scope = "full_vendor_order"     -> r.amount = RemainingOfVendorOrder(ledger, r.vo)
    [] r.scope = "custom_vendor_partial" -> r.amount <= RemainingOfVendorOrder(ledger, r.vo)
    [] OTHER                             -> FALSE

AskAdmin(w) ==
  /\ w \in Desk /\ At(w, "idle") /\ asked < MaxRequests
  /\ ~refundBlocked
  /\ \E r \in Request :
       /\ PlanAmount(r) /\ r.amount <= RemainingOfOrder(ledger)
       /\ r \notin RowsIn(ledger, COMMITTED_ORDER_REFUND_STATUSES)
       /\ r \in DOMAIN attempt =>
            \/ attempt[r].status = "failed"
            \/ attempt[r].status = "attempted" /\ attempt[r].dismissed
       /\ Set(w, [Idle EXCEPT !.pc = "caps", !.row = r, !.seen = r \in DOMAIN attempt])
  /\ asked' = asked + 1
  /\ UNCHANGED <<database, stripe, inbox, crashes>>

-----------------------------------------------------------------------------
(* recordPendingRefund: a row of that key is reused as it is; otherwise    *)
(* the caps are checked on what was read, and the row is created.          *)

AfterRecord(r) == IF r.scope = "vendor_denial" THEN "stripe" ELSE "adopt"

CheckCaps(w) ==
  LET r == job[w].row IN
  /\ At(w, "caps")
  /\ IF r \in DOMAIN ledger THEN Goto(w, AfterRecord(r))
     ELSE IF assertRefundAmountWithinCaps(ledger, r) THEN Goto(w, "record")
     ELSE IF r.scope = "vendor_denial" THEN Goto(w, "refuse") ELSE Stop(w)
  /\ UNCHANGED <<database, stripe, inbox, asked, crashes>>

\* The automatic refund's row is linked to its attempt from the start.
RecordPending(w) ==
  LET r == job[w].row IN
  /\ At(w, "record")
  /\ \/ /\ r \notin DOMAIN ledger
        /\ WriteLedger(Put(ledger, r,
             [status |-> "pending", refund |-> 0, linked |-> r.scope = "vendor_denial"]))
        /\ Goto(w, AfterRecord(r))
     \/ /\ r \in DOMAIN ledger
        /\ Stop(w) /\ UNCHANGED <<ledger, summary>>
  /\ UNCHANGED <<attempt, denied, stripe, inbox, asked, crashes>>

\* The administrator's attempt, created or taken up again.
AdoptAttempt(w) ==
  LET j == job[w] IN
  /\ At(w, "adopt")
  /\ \/ /\ j.seen
        /\ attempt' = [attempt EXCEPT ![j.row].status = "attempted", ![j.row].dismissed = FALSE]
        /\ Goto(w, "link")
     \/ /\ ~j.seen /\ j.row \notin DOMAIN attempt
        /\ attempt' = Put(attempt, j.row, NewAttempt)
        /\ Goto(w, "link")
     \/ /\ ~j.seen /\ j.row \in DOMAIN attempt
        /\ IF attempt[j.row].status = "attempted" /\ ~attempt[j.row].dismissed
           THEN Stop(w) ELSE Goto(w, "link")
        /\ UNCHANGED attempt
  /\ UNCHANGED <<ledger, summary, denied, stripe, inbox, asked, crashes>>

\* linkOrderRefundToRefundAttempt
LinkAttempt(w) ==
  /\ At(w, "link")
  /\ WriteLedgerOnly([ledger EXCEPT ![job[w].row].linked = TRUE])
  /\ Goto(w, "stripe")
  /\ UNCHANGED <<attempt, denied, stripe, inbox, asked, crashes>>

-----------------------------------------------------------------------------
(* stripe.refunds.create.  An administrator's call has an idempotency key, *)
(* the automatic one has none.                                             *)

Live(s) == {i \in DOMAIN s : s[i].status # "failed"}
StripeCents(s, ids) == MapThenSumSet(LAMBDA i : s[i].amount, ids)

\* Every change of a refund is an event.
Announce(box, id, status) ==
  [e \in Event |-> IF e.refund = id /\ e.status = status THEN "sent" ELSE box[e]]

NewRefund(r, status) ==
  /\ StripeCents(refunds, Live(refunds)) + r.amount <= Paid
  /\ refunds' = Append(refunds, [vo |-> r.vo, amount |-> r.amount, status |-> status])
  /\ inbox' = Announce(inbox, Len(refunds) + 1, status)

Initially == {"succeeded"} \cup {s \in {"pending"} : Len(refunds) + 1 \in Slow}

RefundIsMade(w) ==
  LET j == job[w] IN
  /\ At(w, "stripe") /\ j.row \notin DOMAIN known
  /\ \E status \in Initially : NewRefund(j.row, status)
  /\ known' = IF j.row.scope = "vendor_denial" THEN known ELSE Put(known, j.row, Len(refunds'))
  /\ \/ Set(w, [j EXCEPT !.pc = "store", !.refund = Len(refunds')])
     \/ "lost_answer" \in Faults /\ Goto(w, "fail")
  /\ UNCHANGED <<database, asked, crashes>>

\* More than the charge has left, or for Stripe's own reasons; the refusal may be what
\* Stripe repeats for the key.
RefundIsRefused(w) ==
  LET j == job[w] IN
  /\ At(w, "stripe") /\ j.row \notin DOMAIN known
  /\ \/ StripeCents(refunds, Live(refunds)) + j.row.amount > Paid
     \/ "refused" \in Faults
  /\ \/ UNCHANGED known
     \/ j.row.scope # "vendor_denial" /\ known' = Put(known, j.row, 0)
  /\ Goto(w, "fail")
  /\ UNCHANGED <<database, refunds, inbox, asked, crashes>>

RefundIsRepeated(w) ==
  LET j == job[w] IN
  /\ At(w, "stripe") /\ j.row \in DOMAIN known
  /\ IF known[j.row] = 0 THEN Goto(w, "fail")
     ELSE Set(w, [j EXCEPT !.pc = "store", !.refund = known[j.row]])
  /\ UNCHANGED <<database, stripe, inbox, asked, crashes>>

\* Mutant: the attempt takes the status Stripe answered.
StoreStripeStatus(w) ==
  LET j == job[w] IN
  /\ At(w, "store")
  /\ attempt' = [attempt EXCEPT ![j.row].status = refunds[j.refund].status,
                              ![j.row].refund = j.refund]
  /\ Set(w, [j EXCEPT !.pc = "mark", !.seen = ledger[j.row].status = "succeeded"])
  /\ UNCHANGED <<ledger, summary, denied, stripe, inbox, asked, crashes>>

\* The attempt first; markRefundSucceeded then reads the ledger row.
StoreRefund(w) ==
  LET j == job[w] IN
  /\ At(w, "store")
  /\ attempt' = [attempt EXCEPT ![j.row].status = "succeeded", ![j.row].refund = j.refund]
  /\ Set(w, [j EXCEPT !.pc = "mark", !.seen = ledger[j.row].status = "succeeded"])
  /\ UNCHANGED <<ledger, summary, denied, stripe, inbox, asked, crashes>>

\* markRefundSucceeded's transaction: the unique index may refuse Stripe's id; a row that
\* had succeeded already does not refresh the summary.
MarkSucceeded(j) ==
  LET l == [ledger EXCEPT ![j.row].status = "succeeded", ![j.row].refund = j.refund]
  IN  IF j.seen THEN WriteLedgerOnly(l) ELSE WriteLedger(l)

MarkRefund(w) ==
  LET j == job[w] IN
  /\ At(w, "mark")
  /\ IF Taken(j.refund, j.row)
     THEN Goto(w, "fail") /\ UNCHANGED <<ledger, summary>>
     ELSE Stop(w) /\ MarkSucceeded(j)
  /\ UNCHANGED <<attempt, denied, stripe, inbox, asked, crashes>>

\* The catch block: the attempt failed, then its row; Stripe's id stays.
FailAttempt(w) ==
  /\ At(w, "fail") /\ Goto(w, "failrow")
  /\ attempt' = [attempt EXCEPT ![job[w].row].status = "failed"]
  /\ UNCHANGED <<ledger, summary, denied, stripe, inbox, asked, crashes>>

\* markRefundFailed
FailRow(w) ==
  /\ At(w, "failrow") /\ Stop(w)
  /\ WriteLedger([ledger EXCEPT ![job[w].row].status = "failed"])
  /\ UNCHANGED <<attempt, denied, stripe, inbox, asked, crashes>>

\* An automatic refund that is not eligible has no row of its own to fail.
RefuseDenial(w) ==
  /\ At(w, "refuse") /\ Stop(w)
  /\ attempt' = [attempt EXCEPT ![job[w].row].status = "failed"]
  /\ UNCHANGED <<ledger, summary, denied, stripe, inbox, asked, crashes>>

Refund(w) ==
  \/ AskDenial(w) \/ ClaimDenial(w) \/ Precheck(w) \/ RefuseDenial(w)
  \/ AskAdmin(w) \/ AdoptAttempt(w) \/ LinkAttempt(w)
  \/ CheckCaps(w) \/ RecordPending(w)
  \/ RefundIsMade(w) \/ RefundIsRefused(w) \/ RefundIsRepeated(w)
  \/ StoreRefund(w) \/ MarkRefund(w) \/ FailAttempt(w) \/ FailRow(w)

-----------------------------------------------------------------------------
(* An administrator dismisses an attempt that blocks: read, look for a     *)
(* live refund of its amount at Stripe, write.                             *)

AskDismissal(w) ==
  /\ w \in Desk /\ At(w, "idle")
  /\ \E r \in DOMAIN attempt :
       canDismissStaleRefundAttempt(r) /\ Set(w, [Idle EXCEPT !.pc = "verify", !.row = r])
  /\ UNCHANGED <<database, stripe, inbox, asked, crashes>>

\* Metadata can only match a refund of the attempt's own amount.
VerifyNoConflict(w) ==
  /\ At(w, "verify")
  /\ IF \E i \in Live(refunds) : refunds[i].amount = job[w].row.amount
     THEN Stop(w) ELSE Goto(w, "dismiss")
  /\ UNCHANGED <<database, stripe, inbox, asked, crashes>>

DismissAttempt(w) ==
  /\ At(w, "dismiss") /\ Stop(w)
  /\ attempt' = [attempt EXCEPT ![job[w].row].dismissed = TRUE]
  /\ UNCHANGED <<ledger, summary, denied, stripe, inbox, asked, crashes>>

Dismissal(w) == AskDismissal(w) \/ VerifyNoConflict(w) \/ DismissAttempt(w)

-----------------------------------------------------------------------------
(* The webhook: one delivery of one event.                                 *)

\* Mutant: an event that was logged is taken for one that was processed.
DeliverOnce(w, e) ==
  /\ w \in Hook /\ At(w, "idle") /\ inbox[e] \in {"sent", "logged"}
  /\ inbox' = [inbox EXCEPT ![e] = IF @ = "sent" THEN "logged" ELSE "done"]
  /\ IF inbox[e] = "logged" THEN UNCHANGED job
     ELSE Set(w, [Idle EXCEPT !.pc = "find", !.refund = e.refund, !.status = e.status,
                              !.copy = e.copy])
  /\ UNCHANGED <<database, stripe, asked, crashes>>

\* The event is logged; two first deliveries at once cannot both log it, and one that was
\* processed is only acknowledged.
DeliverEvent(w, e) ==
  /\ w \in Hook /\ At(w, "idle") /\ inbox[e] \in {"sent", "logged"}
  /\ inbox' = [inbox EXCEPT ![e] = "logged"]
  /\ Set(w, [Idle EXCEPT !.pc = "find", !.refund = e.refund, !.status = e.status,
                         !.copy = e.copy])
  /\ UNCHANGED <<database, stripe, asked, crashes>>

\* Mutant: the metadata is not read.
LegacyRowOfOrder(id) ==
  [scope |-> "legacy", vo |-> Whole, amount |-> refunds[id].amount, id |-> id]

\* The row a refund's event creates: the metadata says the vendor order, nothing says
\* the scope.
LegacyRow(id) == [scope |-> "legacy", vo |-> refunds[id].vo, amount |-> refunds[id].amount,
                  id |-> id]

\* syncRefundFromStripeRefundObject: the row with Stripe's id, or the one with its key.
FindRow(w) ==
  LET j == job[w]
      legacy == LegacyRow(j.refund)
      Apply(row) == [j EXCEPT !.pc = "apply", !.row = row,
                              !.seen = ledger[row].status = "succeeded"]
  IN
  /\ At(w, "find")
  /\ \/ \E row \in DOMAIN ledger :
          /\ Holds(row, j.refund)
          /\ Set(w, IF ledger[row].status = j.status THEN [j EXCEPT !.pc = "processed"]
                    ELSE IF j.status = "succeeded" THEN Apply(row)
                    ELSE [j EXCEPT !.pc = "reopen", !.row = row])
     \/ /\ ~Taken(j.refund, legacy) /\ ~Holds(legacy, j.refund)
        /\ Set(w, IF legacy \notin DOMAIN ledger THEN [j EXCEPT !.pc = "book", !.row = legacy]
                  ELSE IF j.status = "succeeded" THEN Apply(legacy)
                  ELSE [j EXCEPT !.pc = "processed"])
  /\ UNCHANGED <<database, stripe, inbox, asked, crashes>>

\* Whatever the row said, the event's status replaces it, without the summary.
ReopenRow(w) ==
  /\ At(w, "reopen") /\ Goto(w, "processed")
  /\ WriteLedgerOnly([ledger EXCEPT ![job[w].row].status = job[w].status])
  /\ UNCHANGED <<attempt, denied, stripe, inbox, asked, crashes>>

\* The attempt with this Stripe id is linked to the new row; it cannot be if it has a row.
AttemptHasRow(id) ==
  \E r \in DOMAIN attempt : attempt[r].refund = id /\ r \in DOMAIN ledger /\ ledger[r].linked

\* Creation keeps Stripe's id of a refund that succeeded only, and throws when the key,
\* the id or the attempt is taken: the event stays unprocessed.  The new row's own link to
\* the attempt is not kept: an attempt is linked to its request's row before it has an id.
BookRefund(w) ==
  LET j == job[w] IN
  /\ At(w, "book")
  /\ IF \/ j.row \in DOMAIN ledger
        \/ j.status = "succeeded" /\ Taken(j.refund, j.row)
        \/ AttemptHasRow(j.refund)
     THEN Stop(w) /\ UNCHANGED <<ledger, summary>>
     ELSE /\ WriteLedgerOnly(Put(ledger, j.row,
               [status |-> j.status, linked |-> FALSE,
                refund |-> IF j.status = "succeeded" THEN j.refund ELSE 0]))
          /\ Set(w, [j EXCEPT !.pc = IF j.status = "succeeded" THEN "apply" ELSE "refresh",
                              !.seen = TRUE])
  /\ UNCHANGED <<attempt, denied, stripe, inbox, asked, crashes>>

\* refreshOrderRefundDenormalized, for a row that did not succeed.
RefreshSummary(w) ==
  /\ At(w, "refresh") /\ Goto(w, "processed")
  /\ WriteLedger(ledger)
  /\ UNCHANGED <<attempt, denied, stripe, inbox, asked, crashes>>

ApplySucceeded(w) ==
  LET j == job[w] IN
  /\ At(w, "apply")
  /\ IF Taken(j.refund, j.row)
     THEN Stop(w) /\ UNCHANGED <<ledger, summary>>
     ELSE Goto(w, "processed") /\ MarkSucceeded(j)
  /\ UNCHANGED <<attempt, denied, stripe, inbox, asked, crashes>>

EventOf(j) == [refund |-> j.refund, status |-> j.status, copy |-> j.copy]

MarkProcessed(w) ==
  /\ At(w, "processed") /\ Stop(w)
  /\ inbox' = [inbox EXCEPT ![EventOf(job[w])] = "done"]
  /\ UNCHANGED <<database, stripe, asked, crashes>>

Webhook(w) ==
  \/ \E e \in Event : DeliverEvent(w, e)
  \/ FindRow(w) \/ ReopenRow(w) \/ BookRefund(w) \/ RefreshSummary(w)
  \/ ApplySucceeded(w) \/ MarkProcessed(w)

-----------------------------------------------------------------------------
(* Stripe and the process.                                                 *)

\* Someone refunds in Stripe's dashboard: no attempt, no row, no metadata.
DashboardRefund ==
  /\ asked < MaxRequests
  /\ \E r \in Request, status \in Initially : r.scope = "dashboard" /\ NewRefund(r, status)
  /\ asked' = asked + 1
  /\ UNCHANGED <<database, known, job, crashes>>

\* A refund that was pending settles.
RefundSettles ==
  /\ \E i \in DOMAIN refunds, status \in {"succeeded", "failed"} :
       /\ refunds[i].status = "pending"
       /\ refunds' = [refunds EXCEPT ![i].status = status]
       /\ inbox' = Announce(inbox, i, status)
  /\ UNCHANGED <<database, known, job, asked, crashes>>

\* The process dies between two steps of a job.
Crash(w) ==
  /\ w \in Mortal /\ crashes < MaxCrashes /\ ~At(w, "idle")
  /\ Stop(w)
  /\ crashes' = crashes + 1
  /\ UNCHANGED <<database, stripe, inbox, asked>>

Next ==
  \/ \E w \in Worker : Refund(w) \/ Dismissal(w) \/ Webhook(w) \/ Crash(w)
  \/ DashboardRefund \/ RefundSettles

Spec == Init /\ [][Next]_vars

\* A request that started goes on, and Stripe sends an event again until it is processed.
Continue(w) == (Refund(w) \/ Dismissal(w) \/ Webhook(w)) /\ ~At(w, "idle")

FairSpec ==
  /\ Spec
  /\ \A w \in Worker : WF_vars(Continue(w))
  /\ \A e \in Event : SF_vars(\E w \in Worker : DeliverEvent(w, e))

=============================================================================
