---------------------------- MODULE VendorPayouts ----------------------------
(***************************************************************************)
(* What a vendor is owed for one vendor order: one VendorPayoutTransfer    *)
(* row, the Stripe transfers made for it, the refunds that extinguish it   *)
(* and the reversal that claws a transfer back.                            *)
(*                                                                         *)
(* The row is worked on by the run after the payment, the retry job, an    *)
(* administrator's batch, retry, reconciliation and key rotation, and by   *)
(* every refund that succeeds.  Each is a job of a worker; a step is one   *)
(* statement or one call to Stripe, because none of the services opens a   *)
(* transaction or locks the row.                                           *)
(***************************************************************************)
EXTENDS Integers, Sequences, FiniteSets

CONSTANTS
  Worker,      \* concurrent invocations
  Account,     \* Stripe accounts the vendor may connect
  NoAccount,   \* the destination "blocked": no account that can be paid
  Kinds,       \* the kinds of request a run admits
  Faults,      \* the faults a run admits
  MaxKey,      \* bound: rotations of the idempotency key
  MaxErrors    \* bound: faults that happen

Kind  == {"auto", "cron", "batch", "retry", "rotate", "reconcile", "recheck",
          "connect", "refund", "dashboard", "reverse"}
Fault == {"crash", "lost_answer", "write_lost", "refused", "unlisted", "no_balance",
          "no_charge", "expiry"}

ASSUME PayoutAssumption ==
  /\ NoAccount \notin Account
  /\ Kinds \subseteq Kind
  /\ Faults \subseteq Fault
  /\ {MaxKey, MaxErrors} \subseteq Nat

Destination == Account \cup {NoAccount}

\* VENDOR_PAYOUT_TRANSFER_STATUS, with the statuses a refund gives.
Status == {"pending", "blocked", "blocked_insufficient_balance",
           "blocked_idempotency_mismatch", "failed", "paid",
           "cancelled_due_to_refund", "blocked_partial_refund_review"}

\* What blockedReason tells apart: an account that is not ready, a short balance, a
\* parameter mismatch, a refund, a partial refund.
Reason == {"none", "connect", "balance", "mismatch", "refund", "partial"}

VARIABLES
  row,        \* the transfer row; tid is the stored Stripe transfer, 0 for none
  vendor,     \* the vendor's account, NoAccount while it cannot be paid
  charge,     \* whether the payment's charge id is stored
  refunded,   \* what the ledger says the customer got back: a part; all of it, in one refund
              \* of this vendor order or of a whole order ("full"), or in another way, as
              \* the rest of an order ("rest"); or through Stripe's dashboard ("outside")
  reversal,   \* the status of the reversal row
  sent,       \* Stripe's transfers for this row: the account each went to
  reversed,   \* the transfers Stripe has reversed
  remembered, \* the idempotency keys Stripe remembers, with parameters and answer
  job,        \* what each worker is doing
  errors      \* how many faults have happened

database == <<row, vendor, charge, refunded, reversal>>
stripe   == <<sent, reversed, remembered>>
vars     == <<database, stripe, job, errors>>

Row == [status : Status, reason : Reason, tid : Nat, key : Nat, dest : Destination]

Pc == {"idle", "recheck", "block", "promote", "list", "read", "retry", "lookup",
       "requeue", "rotate", "charge", "send", "adopt", "paid", "failed",
       "insufficient", "mismatch", "sync", "cancel", "review", "prepare",
       "again", "take", "submit", "reverse", "reversed", "unreversed"}

Refunded == {"none", "outside", "partial", "full", "rest"}
Reversal == {"none", "pending", "submitted", "reversed", "failed"}

Goal == Kind \cup {"none", "execute"}

Job == [pc : Pc, goal : Goal, tid : Nat, charge : BOOLEAN, key : Nat,
        dest : Destination]

Idle == [pc |-> "idle", goal |-> "none", tid |-> 0, charge |-> FALSE, key |-> 0,
         dest |-> NoAccount]

\* createRowForAllocation
NewRow(account) ==
  [status |-> IF account = NoAccount THEN "blocked" ELSE "pending",
   reason |-> IF account = NoAccount THEN "connect" ELSE "none",
   tid |-> 0, key |-> 0, dest |-> account]

Init ==
  /\ vendor \in Destination
  /\ row = NewRow(vendor)
  /\ charge \in BOOLEAN
  /\ refunded = "none"
  /\ reversal = "none"
  /\ sent = <<>>
  /\ reversed = {}
  /\ remembered = {}
  /\ job = [w \in Worker |-> Idle]
  /\ errors = 0

-----------------------------------------------------------------------------
At(w, pc)    == job[w].pc = pc
Set(w, j)    == job' = [job EXCEPT ![w] = j]
Stop(w)      == Set(w, Idle)
Goto(w, pc)  == Set(w, [job[w] EXCEPT !.pc = pc])
Begin(w, pc, goal) == Set(w, [Idle EXCEPT !.pc = pc, !.goal = goal])

\* A fault happens, of the kinds and as often as the run admits, or none does.
Fails(fault) == fault \in Faults /\ errors < MaxErrors /\ errors' = errors + 1
Works        == errors' = errors

isCancelledDueToRefundTransfer(r) ==
  r.status = "cancelled_due_to_refund" \/ r.reason = "refund"
isPartialRefundManualReviewTransfer(r) ==
  r.status = "blocked_partial_refund_review" \/ r.reason = "partial"
isVendorTransferExecutionBlockedByRefund(r) ==
  isCancelledDueToRefundTransfer(r) \/ isPartialRefundManualReviewTransfer(r)
isPaidVendorConnectTransfer(r) == r.status = "paid" /\ r.tid # 0
isIdempotencyMismatchTransfer(r) ==
  r.status = "blocked_idempotency_mismatch" \/ r.reason = "mismatch"

-----------------------------------------------------------------------------
(* Requests.                                                               *)

\* The run after the payment, the retry job, an administrator's batch, recheck of
\* blocked rows, retry and reconciliation.
Ask(w, kind, pc) ==
  /\ kind \in Kinds /\ At(w, "idle")
  /\ Begin(w, pc, kind)
  /\ UNCHANGED <<database, stripe, errors>>

Cron(w) == Ask(w, "cron", "recheck")

\* retryVendorPayoutTransferWithNewKey: read the row, keep its key.
AskNewKey(w) ==
  /\ "rotate" \in Kinds /\ At(w, "idle") /\ row.key < MaxKey
  /\ ~isVendorTransferExecutionBlockedByRefund(row)
  /\ row.tid = 0 /\ row.dest # NoAccount /\ isIdempotencyMismatchTransfer(row)
  /\ Set(w, [Idle EXCEPT !.pc = "lookup", !.goal = "rotate", !.key = row.key])
  /\ UNCHANGED <<database, stripe, errors>>

Request(w) ==
  \/ Ask(w, "auto", "list") \/ Cron(w) \/ Ask(w, "batch", "recheck")
  \/ Ask(w, "recheck", "recheck") \/ Ask(w, "retry", "retry")
  \/ Ask(w, "reconcile", "lookup") \/ AskNewKey(w)

-----------------------------------------------------------------------------
(* Choosing what to do.                                                    *)

AfterRecheck(w) ==
  IF job[w].goal = "recheck" THEN Stop(w)
  ELSE Set(w, [Idle EXCEPT !.pc = "list", !.goal = job[w].goal])

\* reEvaluateBlockedVendorPayoutTransferRows: read the row with its vendor.
ReEvaluate(w) ==
  /\ At(w, "recheck")
  /\ LET examined == /\ row.status \in {"blocked", "blocked_insufficient_balance"}
                     /\ row.tid = 0 /\ ~isVendorTransferExecutionBlockedByRefund(row)
         stays    == /\ vendor = NoAccount /\ row.status = "blocked"
                     /\ row.dest = NoAccount /\ row.reason = "connect"
     IN  IF ~examined \/ stays THEN AfterRecheck(w)
         ELSE Set(w, [job[w] EXCEPT !.dest = vendor,
                        !.pc = IF vendor = NoAccount THEN "block" ELSE "promote"])
  /\ UNCHANGED <<database, stripe, errors>>

BlockRow(w) ==
  /\ At(w, "block") /\ AfterRecheck(w)
  /\ row' = [row EXCEPT !.status = "blocked", !.dest = NoAccount, !.reason = "connect"]
  /\ UNCHANGED <<vendor, charge, refunded, reversal, stripe, errors>>

PromoteRow(w) ==
  /\ At(w, "promote") /\ AfterRecheck(w)
  /\ row' = [row EXCEPT !.status = "pending", !.dest = job[w].dest, !.reason = "none"]
  /\ UNCHANGED <<vendor, charge, refunded, reversal, stripe, errors>>

\* Mutant: the retry job forgets the rows that failed.
eligibleRetryUnfailed(goal, r) ==
  /\ r.status \in {"pending", "blocked_insufficient_balance"}
  /\ r.dest # NoAccount /\ r.tid = 0

\* The rows a list takes: pending ones, and for the retry job failed ones too.
eligibleRetryTransferWhere(goal, r) ==
  /\ r.dest # NoAccount
  /\ \/ r.status = "pending" /\ (goal = "cron" => r.tid = 0)
     \/ /\ goal = "cron" /\ r.tid = 0
        /\ r.status \in {"failed", "blocked_insufficient_balance"}

\* Only the run after the payment goes on when Stripe does not tell the balance.
ListEligible(w) ==
  /\ At(w, "list")
  /\ \/ /\ Works
        /\ IF ~eligibleRetryTransferWhere(job[w].goal, row) THEN Stop(w)
           ELSE IF row.status = "pending" THEN Begin(w, "read", "execute")
           ELSE Begin(w, "retry", "retry")
     \/ job[w].goal # "auto" /\ Fails("no_balance") /\ Stop(w)
  /\ UNCHANGED <<database, stripe>>

\* executeVendorPayoutTransfer's own read and its checks.
ReadForExecution(w) ==
  /\ At(w, "read")
  /\ IF /\ ~isVendorTransferExecutionBlockedByRefund(row)
        /\ row.status = "pending" /\ row.tid = 0 /\ row.dest # NoAccount
     THEN Set(w, [Idle EXCEPT !.pc = "lookup", !.goal = "execute",
                              !.key = row.key, !.dest = row.dest])
     ELSE Stop(w)
  /\ UNCHANGED <<database, stripe, errors>>

\* retryFailedVendorPayoutTransfer's read and its checks.
ReadForRetry(w) ==
  /\ At(w, "retry")
  /\ IF isVendorTransferExecutionBlockedByRefund(row) \/ row.tid # 0
     THEN Stop(w)
     ELSE IF isIdempotencyMismatchTransfer(row)
     THEN IF row.status = "blocked_idempotency_mismatch" THEN Stop(w)
          ELSE Goto(w, "mismatch")
     ELSE IF /\ row.status \in {"failed", "blocked_insufficient_balance"}
             /\ row.dest # NoAccount
     THEN Begin(w, "lookup", "retry")
     ELSE Stop(w)
  /\ UNCHANGED <<database, stripe, errors>>

-----------------------------------------------------------------------------
(* Looking at Stripe before sending.                                       *)

\* Mutant: only the rows Stripe itself turned away are looked up.
isReconcilableBlocked(r) ==
  /\ r.dest # NoAccount
  /\ r.status \in {"blocked_insufficient_balance", "blocked_idempotency_mismatch"}

\* The reconciliation does not select blockedReason: only the status keeps it off a row
\* that a refund closed.
isReconcilablePayoutTransfer(r) ==
  /\ r.dest # NoAccount
  /\ r.status \in {"failed", "blocked_insufficient_balance",
                   "blocked_idempotency_mismatch", "pending"}

\* The transfers that match the row: its metadata names the row, so the amount and the
\* window decide nothing here; a reversed one or another account's does not match.
Matching(r) ==
  {t \in DOMAIN sent : t \notin reversed /\ sent[t] = r.dest /\ r.tid \in {0, t}}

\* What a handler does when reconciliation did not settle the row: only the rotation asks
\* whether nothing was found, the others take any answer.
Unsettled(w, notFound) ==
  CASE job[w].goal = "execute"             -> Goto(w, "charge")
    [] job[w].goal = "retry"               -> Goto(w, "requeue")
    [] job[w].goal = "rotate" /\ notFound  -> Goto(w, "rotate")
    [] OTHER                               -> Stop(w)

\* reconcileVendorPayoutTransfer: read the row again and list Stripe's transfers.
ReconcileRow(w) ==
  /\ At(w, "lookup")
  /\ LET eligible == isReconcilablePayoutTransfer(row)
     IN  \/ /\ eligible /\ Works
            /\ \E t \in DOMAIN sent :
                 /\ Matching(row) = {t}
                 /\ Set(w, [job[w] EXCEPT !.pc = "adopt", !.tid = t])
         \/ /\ eligible => Cardinality(Matching(row)) # 1
            /\ Works
            /\ Unsettled(w, eligible /\ row.tid = 0 /\ Matching(row) = {})
         \/ eligible /\ Fails("unlisted") /\ Unsettled(w, FALSE)
  /\ UNCHANGED <<database, stripe>>

\* Both retries give up when Stripe does not tell the balance.
BalanceIsUnavailable(w) ==
  /\ job[w].pc \in {"requeue", "rotate"} /\ Fails("no_balance") /\ Stop(w)
  /\ UNCHANGED <<database, stripe>>

\* Mutant: a retry takes a fresh key.
RequeueNewKey(w) ==
  /\ At(w, "requeue") /\ Begin(w, "read", "execute")
  /\ row' = [row EXCEPT !.status = "pending", !.reason = "none", !.key = @ + 1]
  /\ UNCHANGED <<vendor, charge, refunded, reversal, stripe, errors>>

\* retryFailedVendorPayoutTransfer puts the row back and executes it.
Requeue(w) ==
  /\ At(w, "requeue") /\ Begin(w, "read", "execute")
  /\ row' = [row EXCEPT !.status = "pending", !.reason = "none"]
  /\ UNCHANGED <<vendor, charge, refunded, reversal, stripe, errors>>

\* retryVendorPayoutTransferWithNewKey counts the rotation up from the key it read.
RotateKey(w) ==
  /\ At(w, "rotate") /\ Begin(w, "read", "execute")
  /\ row' = [row EXCEPT !.status = "pending", !.reason = "none", !.key = job[w].key + 1]
  /\ UNCHANGED <<vendor, charge, refunded, reversal, stripe, errors>>

-----------------------------------------------------------------------------
(* Sending.                                                                *)

\* resolvePaymentStripeChargeId stores the charge; a transfer without one needs balance.
ResolveCharge(w) ==
  /\ At(w, "charge")
  /\ \/ charge' = TRUE /\ Works /\ Set(w, [job[w] EXCEPT !.pc = "send", !.charge = TRUE])
     \/ /\ ~charge /\ Fails("no_charge") /\ UNCHANGED charge
        /\ \/ Goto(w, "send")
           \/ Goto(w, "insufficient")
           \/ Stop(w)
  /\ UNCHANGED <<row, vendor, refunded, reversal, stripe>>

Answers(w)  == {m \in remembered : m.key = job[w].key}
Sends(w, m) == m.dest = job[w].dest /\ m.charge = job[w].charge
Answer(w, tid) ==
  [key |-> job[w].key, dest |-> job[w].dest, charge |-> job[w].charge, tid |-> tid]

\* stripe.transfers.create with a key Stripe does not remember: the transfer is made, and
\* its answer may be lost on the way.
TransferIsMade(w) ==
  /\ At(w, "send") /\ Answers(w) = {}
  /\ sent' = Append(sent, job[w].dest)
  /\ remembered' = remembered \cup {Answer(w, Len(sent) + 1)}
  /\ \/ Works /\ Set(w, [job[w] EXCEPT !.pc = "paid", !.tid = Len(sent) + 1])
     \/ Fails("lost_answer") /\ Goto(w, "failed")
  /\ UNCHANGED <<database, reversed>>

\* It is refused, or never arrives; Stripe may remember the refusal.
TransferIsRefused(w) ==
  /\ At(w, "send") /\ Answers(w) = {} /\ Fails("refused")
  /\ remembered' \in {remembered, remembered \cup {Answer(w, 0)}}
  /\ \/ Goto(w, "failed")
     \/ ~job[w].charge /\ Goto(w, "insufficient")
  /\ UNCHANGED <<database, sent, reversed>>

\* With a remembered key and the same parameters Stripe repeats its answer.
TransferIsRepeated(w) ==
  /\ At(w, "send")
  /\ \E m \in Answers(w) :
       /\ Sends(w, m)
       /\ \/ m.tid # 0 /\ Works /\ Set(w, [job[w] EXCEPT !.pc = "paid", !.tid = m.tid])
          \/ m.tid = 0 /\ Works /\ Goto(w, "failed")
          \/ Fails("lost_answer") /\ Goto(w, "failed")
  /\ UNCHANGED <<database, stripe>>

\* With other parameters it is an idempotency error.
TransferMismatches(w) ==
  /\ At(w, "send") /\ \E m \in Answers(w) : ~Sends(w, m)
  /\ Goto(w, "mismatch")
  /\ UNCHANGED <<database, stripe, errors>>

\* The paid row keeps the transfer's id and forgets why it was blocked.
MarkPaid(w) ==
  /\ job[w].pc \in {"paid", "adopt"}
  /\ Stop(w)
  /\ row' = [row EXCEPT !.status = "paid", !.tid = job[w].tid, !.reason = "none"]
  /\ UNCHANGED <<vendor, charge, refunded, reversal, stripe, errors>>

\* The write that follows Stripe's call is in its try block: when it fails, the catch
\* marks the row as failed.
PaidWriteFails(w) ==
  /\ At(w, "paid") /\ Fails("write_lost") /\ Goto(w, "failed")
  /\ UNCHANGED <<database, stripe>>

\* The catch keeps the row's reason for any other error.
MarkFailed(w) ==
  /\ At(w, "failed") /\ Stop(w)
  /\ row' = [row EXCEPT !.status = "failed"]
  /\ UNCHANGED <<vendor, charge, refunded, reversal, stripe, errors>>

\* Mutant: the reason lands in the status column.
markReasonInStatus(w) ==
  /\ At(w, "insufficient") /\ Stop(w)
  /\ row' = [row EXCEPT !.status = "balance"]
  /\ UNCHANGED <<vendor, charge, refunded, reversal, stripe, errors>>

markBlockedInsufficientBalance(w) ==
  /\ At(w, "insufficient") /\ Stop(w)
  /\ row' = [row EXCEPT !.status = "blocked_insufficient_balance", !.reason = "balance"]
  /\ UNCHANGED <<vendor, charge, refunded, reversal, stripe, errors>>

markBlockedIdempotencyMismatch(w) ==
  /\ At(w, "mismatch") /\ Stop(w)
  /\ row' = [row EXCEPT !.status = "blocked_idempotency_mismatch", !.reason = "mismatch"]
  /\ UNCHANGED <<vendor, charge, refunded, reversal, stripe, errors>>

-----------------------------------------------------------------------------
(* Refunds and reversals.                                                  *)

\* markRefundSucceeded: the ledger says how much of the vendor order is refunded.  A refund
\* of the order is of what remains of it: after another vendor order's refund it gives the
\* rest, and with it the whole of a vendor order that nobody refunded before.
RefundSucceeds(w) ==
  /\ "refund" \in Kinds /\ At(w, "idle")
  /\ \/ refunded \in {"none", "outside"} /\ refunded' \in {"partial", "full", "rest"}
     \/ refunded = "partial" /\ refunded' \in {"partial", "rest"}
  /\ Begin(w, "sync", "refund")
  /\ UNCHANGED <<row, vendor, charge, reversal, stripe, errors>>

\* Mutant: a refund only looks at rows that wait to be sent.
SyncPendingOnly(w) ==
  /\ At(w, "sync")
  /\ Goto(w, IF row.status # "pending" THEN "prepare"
             ELSE IF refunded = "partial" THEN "review" ELSE "cancel")
  /\ UNCHANGED <<database, stripe, errors>>

\* syncVendorTransferEligibilityAfterRefundSuccess: read the row, leave a paid one, one
\* that is already handled and one with a transfer id alone.
SyncEligibility(w) ==
  /\ At(w, "sync")
  /\ IF row.tid # 0 \/ isVendorTransferExecutionBlockedByRefund(row)
     THEN Goto(w, "prepare")
     ELSE Goto(w, IF refunded = "partial" THEN "review" ELSE "cancel")
  /\ UNCHANGED <<database, stripe, errors>>

CancelTransfer(w) ==
  /\ At(w, "cancel") /\ Goto(w, "prepare")
  /\ row' = [row EXCEPT !.status = "cancelled_due_to_refund", !.reason = "refund"]
  /\ UNCHANGED <<vendor, charge, refunded, reversal, stripe, errors>>

BlockForReview(w) ==
  /\ At(w, "review") /\ Goto(w, "prepare")
  /\ row' = [row EXCEPT !.status = "blocked_partial_refund_review", !.reason = "partial"]
  /\ UNCHANGED <<vendor, charge, refunded, reversal, stripe, errors>>

\* Mutant: a partial refund is clawed back as well.
PrepareForAnyRefund(w) ==
  /\ At(w, "prepare") /\ Stop(w)
  /\ reversal' = IF reversal = "none" /\ isPaidVendorConnectTransfer(row)
                 THEN "pending" ELSE reversal
  /\ UNCHANGED <<row, vendor, charge, refunded, stripe, errors>>

\* prepareTransferReversalsForRefundAttempt: one reversal row per refund and transfer, and
\* only for a refund whose amount is the vendor order's total, or the whole order's.
PrepareReversal(w) ==
  /\ At(w, "prepare") /\ Stop(w)
  /\ reversal' = IF /\ refunded = "full" /\ reversal = "none"
                    /\ isPaidVendorConnectTransfer(row)
                 THEN "pending" ELSE reversal
  /\ UNCHANGED <<row, vendor, charge, refunded, stripe, errors>>

\* executeVendorPayoutTransferReversal takes pending reversals; its retry failed ones,
\* which it puts back first; an administrator may prepare one that a refund of the whole
\* failed to (prepareMissingTransferReversalForRefund).
AskReversal(w) ==
  /\ "reverse" \in Kinds /\ At(w, "idle")
  /\ \/ reversal = "pending" /\ Begin(w, "take", "reverse")
     \/ reversal = "failed" /\ Begin(w, "again", "reverse")
     \/ /\ reversal = "none" /\ refunded = "full" /\ isPaidVendorConnectTransfer(row)
        /\ Begin(w, "prepare", "reverse")
  /\ UNCHANGED <<database, stripe, errors>>

ReversalIs(status) ==
  /\ reversal' = status
  /\ UNCHANGED <<row, vendor, charge, refunded, stripe, errors>>

ReverseAgain(w) == At(w, "again") /\ Goto(w, "take") /\ ReversalIs("pending")

TakeReversal(w) ==
  /\ At(w, "take")
  /\ IF reversal = "pending" /\ row.tid # 0
     THEN Set(w, [job[w] EXCEPT !.pc = "submit", !.tid = row.tid])
     ELSE Stop(w)
  /\ UNCHANGED <<database, stripe, errors>>

SubmitReversal(w) == At(w, "submit") /\ Goto(w, "reverse") /\ ReversalIs("submitted")

\* stripe.transfers.createReversal, whose own key makes a repetition harmless.
CallReversal(w) ==
  /\ At(w, "reverse")
  /\ \/ /\ reversed' = reversed \cup {job[w].tid}
        /\ \/ Works /\ Goto(w, "reversed")
           \/ Fails("lost_answer") /\ Goto(w, "unreversed")
     \/ Fails("refused") /\ UNCHANGED reversed /\ Goto(w, "unreversed")
  /\ UNCHANGED <<database, sent, remembered>>

FinishReversal(w) ==
  \/ At(w, "reversed") /\ Stop(w) /\ ReversalIs("reversed")
  \/ At(w, "unreversed") /\ Stop(w) /\ ReversalIs("failed")

-----------------------------------------------------------------------------
(* The world.                                                              *)

Crash(w) ==
  /\ ~At(w, "idle") /\ Fails("crash") /\ Stop(w)
  /\ UNCHANGED <<database, stripe>>

\* The vendor connects an account, changes it, or loses its approval.
VendorConnects ==
  /\ "connect" \in Kinds
  /\ vendor' \in Destination \ {vendor}
  /\ UNCHANGED <<row, charge, refunded, reversal, stripe, job, errors>>

\* Somebody refunds in Stripe's dashboard: the row of the webhook is created as succeeded, so
\* markRefundSucceeded finds nothing new and tells the payouts nothing.
DashboardRefund ==
  /\ "dashboard" \in Kinds /\ refunded = "none"
  /\ refunded' = "outside"
  /\ UNCHANGED <<row, vendor, charge, reversal, stripe, job, errors>>

\* Stripe forgets keys after a day, which no invocation outlives.
KeysExpire ==
  /\ "expiry" \in Faults /\ remembered # {} /\ \A w \in Worker : At(w, "idle")
  /\ remembered' = {}
  /\ UNCHANGED <<database, sent, reversed, job, errors>>

JobStep(w) ==
  \/ ReEvaluate(w) \/ BlockRow(w) \/ PromoteRow(w) \/ ListEligible(w)
  \/ ReadForExecution(w) \/ ReadForRetry(w) \/ ReconcileRow(w)
  \/ BalanceIsUnavailable(w) \/ Requeue(w) \/ RotateKey(w) \/ ResolveCharge(w)
  \/ TransferIsMade(w) \/ TransferIsRefused(w) \/ TransferIsRepeated(w)
  \/ TransferMismatches(w) \/ MarkPaid(w) \/ PaidWriteFails(w) \/ MarkFailed(w)
  \/ markBlockedInsufficientBalance(w) \/ markBlockedIdempotencyMismatch(w)
  \/ SyncEligibility(w) \/ CancelTransfer(w) \/ BlockForReview(w) \/ PrepareReversal(w)
  \/ ReverseAgain(w) \/ TakeReversal(w) \/ SubmitReversal(w) \/ CallReversal(w) \/ FinishReversal(w)

Next ==
  \/ \E w \in Worker : Request(w) \/ RefundSucceeds(w) \/ AskReversal(w)
                       \/ JobStep(w) \/ Crash(w)
  \/ VendorConnects
  \/ DashboardRefund
  \/ KeysExpire

Spec == Init /\ [][Next]_vars

\* An invocation runs to its end, the retry job comes round, and keys do expire.
Fairness ==
  /\ \A w \in Worker : WF_vars(JobStep(w))
  /\ SF_vars(\E w \in Worker : Cron(w))
  /\ SF_vars(KeysExpire)

FairSpec == Spec /\ Fairness
=============================================================================
