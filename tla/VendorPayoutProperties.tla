----------------------- MODULE VendorPayoutProperties -----------------------
(***************************************************************************)
(* What VendorPayouts.tla should guarantee about one vendor's money.       *)
(***************************************************************************)
EXTENDS VendorPayouts

AtRest == \A w \in Worker : At(w, "idle")

\* The type invariant of the transfer row, Stripe's side and the jobs.
TypeOK ==
  /\ row \in Row
  /\ vendor \in Destination
  /\ charge \in BOOLEAN
  /\ refunded \in Refunded
  /\ reversal \in Reversal
  /\ sent \in Seq(Destination)
  /\ reversed \subseteq DOMAIN sent
  /\ remembered \subseteq [key : Nat, dest : Destination, charge : BOOLEAN, tid : Nat]
  /\ job \in [Worker -> Job]
  /\ errors \in Nat

-----------------------------------------------------------------------------
(* Under every interleaving, crash and lost answer.                        *)

\* Stripe's transfers that were not clawed back.
Standing == DOMAIN sent \ reversed

\* A row that says paid names a transfer Stripe really made for it; a vendor's money is
\* clawed back only after the customer got the whole vendor order back at once; and a
\* reversal recorded as done was done (executeVendorPayoutTransfer, the reconciliation,
\* prepareTransferReversalsForRefundAttempt, executeVendorPayoutTransferReversal).
PaidIsBacked ==
  /\ row.status = "paid" => row.tid \in DOMAIN sent
  /\ reversed # {} => refunded = "full"
  /\ reversal = "reversed" => reversed # {}

\* Why: what a job holds of Stripe's answers.  Every transfer id that the row, a job or
\* Stripe's memory holds is one of Stripe's; a job that is about to write an id holds
\* one; and reversals are only worked on once one is due.
\* Here for a job j while Stripe has made n transfers, with the reversal row's status and
\* the reversed transfers as given.
JobIsBacked(j, n, status, back) ==
  /\ j.tid <= n
  /\ j.pc \in {"paid", "adopt", "submit", "reverse"} => j.tid # 0
  /\ j.pc \in {"again", "take", "submit", "reverse", "reversed", "unreversed"}
       => status # "none"
  /\ j.pc = "reversed" => back # {}

\* The inductive strengthening of PaidIsBacked (all handlers of the row and its reversal).
Backed ==
  /\ row.tid <= Len(sent)
  /\ row.status = "paid" => row.tid # 0
  /\ \A m \in remembered : m.tid <= Len(sent)
  /\ \A w \in Worker : JobIsBacked(job[w], Len(sent), reversal, reversed)
  /\ reversal # "none" => refunded = "full"
  /\ reversed # {} => reversal # "none"
  /\ reversal = "reversed" => reversed # {}

\* The vendor gets the money at most once, however the invocations overlap, crash or lose
\* answers, while the vendor keeps one account, Stripe the keys, and nobody rotates a key
\* twice: the idempotency key and the look at Stripe before sending.
PaidAtMostOnce == Cardinality(Standing) <= 1

\* Why, inductively.  Each key makes one transfer.  The first key is answered before the
\* second one exists, or a transfer stands; and while a transfer of the first key stands,
\* nobody comes to hold the second.
Answered(key) == \E m \in remembered : m.key = key

FirstStands == Standing # {} /\ ~Answered(1)

Sending(j) == j.pc \in {"charge", "send"} \/ (j.pc = "lookup" /\ j.goal = "execute")

JobIsGuarded(j) ==
  /\ j.key \in {0, 1}
  /\ j.key = 1 \/ j.goal = "rotate" \/ j.pc = "mismatch" => Answered(0)
  /\ j.pc = "rotate" => j.goal = "rotate"
  /\ j.goal = "rotate" => j.key = 0
  /\ FirstStands => j.key = 0 /\ j.pc # "rotate"
  /\ Sending(j) => j.dest # NoAccount

Guarded ==
  /\ row.key \in {0, 1}
  /\ row.key = 1 \/ isIdempotencyMismatchTransfer(row) \/ Standing # {} => Answered(0)
  /\ FirstStands => row.key = 0
  /\ \A w \in Worker : JobIsGuarded(job[w])
  /\ \A t \in DOMAIN sent : sent[t] # NoAccount
  /\ \A s, t \in Standing : s = t

-----------------------------------------------------------------------------
(* With one handler at a time.                                             *)

\* The statuses a refund gives.
Extinguished == {"cancelled_due_to_refund", "blocked_partial_refund_review"}

\* The detailed machine keeps the platform's promise: at most one transfer, then a paid
\* row or an extinguished one, for good (all handlers; PayoutObligation).
Obligation == INSTANCE PayoutObligation WITH
  transfers    <- Len(sent),
  settled      <- row.status = "paid",
  extinguished <- row.status \in Extinguished

KeepsObligation == Obligation!Spec

\* Why, inductively, for one worker.  Its row is as the handler read it: each status has its
\* reason, only a paid row has a transfer or a reversal, and what a handler is about to
\* write replaces the status it was meant to.
ReasonOf(status) ==
  CASE status = "blocked"                                   -> "connect"
    [] status = "blocked_insufficient_balance"              -> "balance"
    [] status = "blocked_idempotency_mismatch"              -> "mismatch"
    [] status = "cancelled_due_to_refund"                   -> "refund"
    [] status = "blocked_partial_refund_review"             -> "partial"
    [] OTHER                                                -> "none"

ToPromote    == {"blocked", "blocked_insufficient_balance"}
ToRetry      == {"failed", "blocked_insufficient_balance"}
Reconcilable == ToRetry \cup {"blocked_idempotency_mismatch", "pending"}

Retrying(j) == j.pc = "requeue" \/ (j.pc = "lookup" /\ j.goal = "retry")
Rotating(j) == j.pc = "rotate" \/ (j.pc = "lookup" /\ j.goal = "rotate")

Reads(j) ==
  /\ Sending(j) => row.status = "pending" /\ j.dest = row.dest /\ row.dest # NoAccount
  /\ Retrying(j) => row.status \in ToRetry /\ row.dest # NoAccount
  /\ Rotating(j) => row.status = "blocked_idempotency_mismatch" /\ row.dest # NoAccount
  /\ j.pc \in {"paid", "failed", "insufficient", "mismatch"} => row.status = "pending"
  /\ j.pc \in {"block", "promote"} => row.status \in ToPromote
  /\ j.pc = "adopt" => row.status \in Reconcilable
  /\ j.pc \in {"cancel", "review"} => row.status \notin Extinguished \cup {"paid"}

AsRead ==
  /\ row.reason = ReasonOf(row.status)
  /\ row.status # "paid" => row.tid = 0 /\ reversal = "none"
  /\ \A w \in Worker : Reads(job[w])

\* And when Stripe lists its transfers: the one there is goes to the account the row names,
\* so that the look before sending finds it, and no handler that sends has one.
Found ==
  /\ Len(sent) <= 1
  /\ sent # <<>> /\ row.status # "paid" =>
       /\ sent[1] = row.dest /\ row.dest # NoAccount
       /\ row.status \in {"pending", "failed"} \cup Extinguished
  /\ \A w \in Worker :
       job[w].pc \in {"charge", "send", "insufficient", "mismatch"} => sent = <<>>

\* "so refunded obligations cannot be paid via Connect": a vendor order that one refund, of
\* it or of its whole order, gave back has a reversal or was not paid, when nothing runs
\* (syncVendorTransferEligibilityAfterRefundSuccess,
\* prepareTransferReversalsForRefundAttempt).
FullRefundIsNotPaid ==
  AtRest /\ refunded = "full" /\ reversal = "none" => Standing = {}

\* The refunds that the payouts hear of, of a part or of all.
Told == {"partial", "full", "rest"}

\* After any refund that the payouts hear of, and when nothing runs, no row is left that
\* could still be sent: either the refund closed it and the vendor has nothing, or it was
\* paid.  A paid row has a reversal if one refund, of the vendor order or of its whole order,
\* gave everything back; if the rest of an order did, the code prepares none
\* (syncVendorTransferEligibilityAfterRefundSuccess,
\* evaluateTransferReversalEligibilityForRefundAttempt).
RefundedIsNotPaid ==
  AtRest /\ refunded \in Told =>
    \/ row.status \in Extinguished /\ Standing = {}
    \/ row.status = "paid" /\ (refunded = "full" => reversal # "none")

\* Why, inductively, for one worker whose answers and writes are not lost and that does not
\* die: what was sent is paid or about to be, and every refund runs to its end, with what it
\* read of the ledger still true.
Closing == {"sync", "cancel", "review", "prepare"}

Settles ==
  /\ sent # <<>> => row.status = "paid" \/ \E w \in Worker : At(w, "paid")
  /\ refunded \in Told =>
       \/ row.status \in Extinguished
       \/ row.status = "paid" /\ (refunded = "full" => reversal # "none")
       \/ \E w \in Worker : job[w].pc \in Closing
  /\ \A w \in Worker :
       /\ job[w].pc \in Closing => refunded \in Told
       /\ At(w, "review") => refunded = "partial"
       /\ At(w, "cancel") => refunded \in {"full", "rest"}
       /\ At(w, "prepare") => row.status \in Extinguished \cup {"paid"}

\* A vendor whose account can be paid, and whose vendor order nobody refunds, is paid in
\* the end, unless Stripe insists on a key's old parameters and a person has to look
\* (the retry job: recheck, list, reconcile, send).
VendorIsPaid ==
  <>[](vendor # NoAccount /\ refunded = "none")
    => <>[](row.status \in {"paid", "blocked_idempotency_mismatch"})
=============================================================================
