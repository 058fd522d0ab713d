-------------------------- MODULE RefundProperties --------------------------
(***************************************************************************)
(* What Refunds.tla should guarantee about the customer's money.           *)
(***************************************************************************)
EXTENDS Refunds, DataFacts

AtRest == \A w \in Worker : At(w, "idle")

\* Stripe has nothing to tell any more.
AllProcessed == \A e \in Event : inbox[e] \in {"none", "done"}

\* The type invariant of the attempts, the ledger, Stripe's side and the jobs.
TypeOK ==
  /\ DOMAIN attempt \subseteq Request /\ attempt \in [DOMAIN attempt -> Attempt]
  /\ DOMAIN ledger \subseteq RowId /\ ledger \in [DOMAIN ledger -> LedgerRow]
  /\ summary.label \in {"none", "partial", "full", "pending"}
  /\ denied \subseteq VendorOrder
  /\ refunds \in Seq([vo : VendorOrder \cup {Whole}, amount : 1..Paid, status : StripeStatus])
  /\ DOMAIN known \subseteq Request /\ known \in [DOMAIN known -> Nat]
  /\ inbox \in [Event -> {"none", "sent", "logged", "done"}]
  /\ job \in [Worker -> Job]
  /\ asked \in 0..MaxRequests /\ crashes \in 0..MaxCrashes

\* A row that carries Stripe's id, and every row that succeeded does, is about that refund
\* of Stripe's, for the same amount and vendor order, and no other row is: no money is
\* booked twice or at another vendor order, whatever the requests and deliveries do
\* (markRefundSucceeded, syncRefundFromStripeRefundObject).
LedgerIsBacked ==
  \A row \in DOMAIN ledger :
    /\ ledger[row].status = "succeeded" => ledger[row].refund # 0
    /\ ledger[row].refund # 0 =>
         /\ ledger[row].refund \in DOMAIN refunds
         /\ refunds[ledger[row].refund].amount = row.amount
         /\ refunds[ledger[row].refund].vo = row.vo
         /\ ~Taken(ledger[row].refund, row)

\* What makes it so for any number of workers, inductively: a job about to write Stripe's id
\* into a row, an answer Stripe remembers and an event are about a refund that Stripe made,
\* for the row's amount and vendor order.  (The first conjuncts say that jobs, rows and
\* refunds have their fields.)
JobFields    == {"pc", "row", "seen", "refund", "status", "copy"}
RowFields    == {"status", "refund", "linked"}
RefundFields == {"vo", "amount", "status"}

Backs(i, row) ==
  i \in DOMAIN refunds /\ refunds[i].amount = row.amount /\ refunds[i].vo = row.vo

Carries(j) ==
  /\ j.pc \in {"store", "mark", "book", "apply"} => Backs(j.refund, j.row)
  /\ j.pc \in {"find", "reopen", "refresh", "processed"} => j.refund \in DOMAIN refunds
  /\ j.pc = "reopen" => j.status # "succeeded"

Backing ==
  /\ DOMAIN job = Worker /\ \A w \in Worker : DOMAIN job[w] = JobFields
  /\ \A row \in DOMAIN ledger : DOMAIN ledger[row] = RowFields
  /\ IsSequence(refunds) /\ \A i \in DOMAIN refunds : DOMAIN refunds[i] = RefundFields
  /\ DOMAIN inbox = Event
  /\ \A w \in Worker : Carries(job[w])
  /\ \A r \in DOMAIN known : known[r] # 0 => Backs(known[r], r)
  /\ \A e \in Event : inbox[e] # "none" => e.refund \in DOMAIN refunds
  /\ LedgerIsBacked

\* The jobs of people's requests and those of events, by their step.
DeskPc == {"claim", "precheck", "refuse", "caps", "record", "adopt", "link", "stripe",
           "store", "mark", "fail", "failrow", "verify", "dismiss"}
HookPc == {"find", "book", "refresh", "apply", "reopen", "processed"}

Refunding    == DeskPc \ {"verify", "dismiss"}
BeforeStripe == {"claim", "precheck", "caps", "record", "adopt", "link", "stripe"}

\* What TypeOK needs to be inductive: a request's job is about a request, a delivery's
\* about an event, and the row a delivery writes is a row.
JobIsTyped(j) ==
  /\ j \in Job
  /\ j.pc \in DeskPc => j.row \in Request
  /\ j.pc \in HookPc => EventOf(j) \in Event
  /\ j.pc \in {"book", "apply", "reopen"} => j.row \in RowId

Typing == TypeOK /\ \A w \in Worker : JobIsTyped(job[w])

BookedAsMade(i) ==
  \E row \in DOMAIN ledger : Holds(row, i) /\ ledger[row].status = "succeeded"

\* When nothing runs and every event was processed, each refund that Stripe made at once
\* is one succeeded row of the ledger, also when the answer was lost or the webhook was
\* first (executeRefund, executeStripeRefundForAdmin, syncRefundFromStripeRefundObject).
LedgerIsComplete ==
  AtRest /\ AllProcessed => \A i \in DOMAIN refunds \ Slow : BookedAsMade(i)

\* What makes it so when one worker serves the requests, inductively.  The number of Stripe's
\* refunds stays within the requests; a refund made at once has told so by every event;
\* a row's refund, once there, is never replaced, because no request takes up a row whose
\* attempt succeeded and a delivery only writes its own refund's row.
InTime ==
  /\ Len(refunds) <= asked
  /\ \A w \in Worker : job[w].pc \in DeskPc => w \in Desk
  /\ \A w \in Worker : job[w].pc \in BeforeStripe => Len(refunds) < asked

IsTold(i) ==
  /\ refunds[i].status = "succeeded"
  /\ \A e \in Event : e.refund = i /\ e.status = "succeeded" => inbox[e] # "none"

OwnRow(row, id) == row.scope = "legacy" /\ row.id = id

IsSettled(row) ==
  \/ OwnRow(row, ledger[row].refund)
  \/ /\ row.scope # "legacy" /\ row \in DOMAIN attempt /\ attempt[row].status = "succeeded"
     /\ \A w \in Worker : job[w].pc \in Refunding => job[w].row # row

\* A request's job has the attempt it read or claimed, and marks it last.
Claimed(j) ==
  /\ j.pc \in {"claim", "caps", "record", "adopt"} /\ j.seen => j.row \in DOMAIN attempt
  /\ j.pc \in {"caps", "record"} /\ j.row.scope = "vendor_denial" => j.row \in DOMAIN attempt
  /\ j.pc \in {"precheck", "link", "stripe", "store", "mark"} => j.row \in DOMAIN attempt
  /\ j.pc = "mark" => attempt[j.row].status = "succeeded"

\* A delivery writes the row of its refund, and is processed when that is booked.
Follows(j) ==
  /\ j.pc \in {"apply", "reopen"} =>
       j.row \in DOMAIN ledger /\ (OwnRow(j.row, j.refund) \/ Holds(j.row, j.refund))
  /\ j.pc = "book" => OwnRow(j.row, j.refund)
  /\ j.pc = "refresh" => j.status # "succeeded"
  /\ j.pc = "processed" /\ j.status = "succeeded" /\ j.refund \notin Slow =>
       BookedAsMade(j.refund)

Booking ==
  /\ InTime
  /\ \A i \in DOMAIN refunds \ Slow : IsTold(i)
  /\ \A row \in DOMAIN ledger : ledger[row].refund # 0 => IsSettled(row)
  /\ \A w \in Worker : Claimed(job[w]) /\ Follows(job[w])
  /\ \A e \in Event :
       inbox[e] = "done" /\ e.status = "succeeded" /\ e.refund \notin Slow =>
         BookedAsMade(e.refund)

\* Every refund that Stripe makes at once is booked as succeeded in the end, for good.
EachRefundIsBooked ==
  \A i \in RefundId \ Slow : i \in DOMAIN refunds ~> BookedAsMade(i)

\* While Stripe's answers arrive, a vendor order is never refunded beyond its total
\* (assertRefundAmountWithinCaps; after a lost answer the ledger cannot know better).
Answered(i) ==
  \/ \E r \in DOMAIN attempt : attempt[r].refund = i
  \/ \E w \in Worker : At(w, "store") /\ job[w].refund = i

WithinCaps ==
  \A v \in VendorOrder :
    LET own == {i \in Live(refunds) : refunds[i].vo = v}
    IN  (\A i \in own : Answered(i)) => StripeCents(refunds, own) <= Total[v]

\* What the code counts, inductively, when the one desk does not die.  The refunds of a vendor
\* order whose answer arrived are in rows that count, unless the desk is about to write one;
\* and the desk asks Stripe for no more than they leave.
Of(v) == {i \in Live(refunds) : refunds[i].vo = v /\ Answered(i)}

IsCounted(i) ==
  \/ \E row \in DOMAIN ledger : Holds(row, i)
  \/ \E w \in Worker : At(w, "mark") /\ job[w].refund = i

AttemptsAreCounted ==
  \A r \in DOMAIN attempt : attempt[r].refund # 0 =>
    attempt[r].refund \in DOMAIN refunds /\ IsCounted(attempt[r].refund)

\* A row of a refund that Stripe has not failed counts, and only failures are told as such.
RowsCount ==
  \A row \in DOMAIN ledger :
    ledger[row].refund \in Live(refunds) => ledger[row].status \in COMMITTED_ORDER_REFUND_STATUSES

Failed(i) == refunds[i].status = "failed"

FailuresAreTold ==
  /\ \A e \in Event : inbox[e] # "none" /\ e.status = "failed" => Failed(e.refund)
  /\ \A w \in Worker :
       job[w].pc \in HookPc /\ job[w].status = "failed" => Failed(job[w].refund)

\* The desk writes to a row that exists.
HasRow(j) == j.pc \in {"adopt", "link", "stripe", "store", "mark"} => j.row \in DOMAIN ledger

LeavesRoom(j) ==
  j.pc \in {"caps", "record", "adopt", "link", "stripe"} /\ j.row.vo # Whole =>
    StripeCents(refunds, Of(j.row.vo)) + j.row.amount <= Total[j.row.vo]

Counting ==
  /\ IsFiniteSet(DOMAIN ledger)
  /\ AttemptsAreCounted /\ RowsCount /\ FailuresAreTold
  /\ \A w \in Worker : HasRow(job[w]) /\ LeavesRoom(job[w])
  /\ \A v \in VendorOrder : StripeCents(refunds, Of(v)) <= Total[v]

=============================================================================
