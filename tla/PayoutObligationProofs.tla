----------------------- MODULE PayoutObligationProofs -----------------------
(***************************************************************************)
(* Proofs about VendorPayouts.tla when its handlers run one at a time.     *)
(***************************************************************************)
EXTENDS VendorPayoutsProofs, FiniteSetTheorems

\* One invocation at a time.
Alone == \A u, v \in Worker : u = v

-----------------------------------------------------------------------------
(* The row is as the handler read it.                                      *)

RowAsRead ==
  /\ row.reason = ReasonOf(row.status)
  /\ row.status # "paid" => row.tid = 0 /\ reversal = "none"

\* What a step of the worker w starts from, and must keep.
LoneRead(w) == RowAsRead /\ Reads(job[w])

\* A job at a place where it holds nothing that depends on the row.
Free(j) ==
  \/ j.pc \in {"idle", "recheck", "list", "read", "retry", "sync", "prepare", "again",
               "take", "submit", "reverse", "reversed", "unreversed"}
  \/ j.pc = "lookup" /\ j.goal \notin {"execute", "retry", "rotate"}

LEMMA FreeReads ==
  ASSUME NEW j, Free(j)
  PROVE  Reads(j)
BY DEF Free, Reads, Sending, Retrying, Rotating

LEMMA StopFrees ==
  ASSUME JobsOK, NEW w \in Worker, Stop(w)
  PROVE  Free(job'[w])
BY JobIsSet DEF Stop, Idle, Free

\* A job that comes to hold nothing, while the row and its reversal stay.
LEMMA FreeStep ==
  ASSUME NEW w \in Worker, LoneRead(w), UNCHANGED <<row, reversal>>, Free(job'[w])
  PROVE  LoneRead(w)'
<1>1. RowAsRead'
  BY DEF LoneRead, RowAsRead
<1>2. Reads(job[w])'
  BY FreeReads DEF Free, Reads, Sending, Retrying, Rotating
<1> QED
  BY <1>1, <1>2 DEF LoneRead

LEMMA RequestReads ==
  ASSUME JobsOK, DataOK, NEW w \in Worker, LoneRead(w),
         Request(w) \/ RefundSucceeds(w) \/ AskReversal(w)
  PROVE  LoneRead(w)'
<1>1. UNCHANGED <<row, reversal>>
  BY DEF Request, Ask, Cron, AskNewKey, RefundSucceeds, AskReversal, database
<1>2. CASE AskNewKey(w)
  <2>1. job'[w].pc = "lookup" /\ job'[w].goal = "rotate"
    BY <1>2, JobIsSet DEF AskNewKey, Idle
  <2>2. row.status = "blocked_idempotency_mismatch" /\ row.dest # NoAccount
    BY <1>2, RowTyped DEF AskNewKey, isIdempotencyMismatchTransfer, LoneRead, RowAsRead,
       ReasonOf, Status
  <2>3. Reads(job[w])'
    BY <1>1, <2>1, <2>2 DEF Reads, Sending, Retrying, Rotating
  <2> QED
    BY <1>1, <2>3 DEF LoneRead, RowAsRead
<1>3. CASE ~AskNewKey(w)
  <2>1. \/ \E pc \in {"list", "recheck", "retry", "sync", "take", "again", "prepare"},
              goal \in Goal : Begin(w, pc, goal)
        \/ Begin(w, "lookup", "reconcile")
    BY <1>3 DEF Request, Ask, Cron, RefundSucceeds, AskReversal, Goal, Kind
  <2>2. Free(job'[w])
    BY <2>1, BeginSets DEF Free
  <2> QED
    BY <1>1, <2>2, FreeStep
<1> QED
  BY <1>2, <1>3

\* Reads that only move the job.
LEMMA ReEvaluateReads ==
  ASSUME JobsOK, DataOK, NEW w \in Worker, LoneRead(w), ReEvaluate(w)
  PROVE  LoneRead(w)'
<1>1. UNCHANGED <<row, reversal>>
  BY DEF ReEvaluate, database
<1>2. CASE AfterRecheck(w)
  <2>1. Free(job'[w])
    BY <1>2, StopFrees, JobIsSet DEF AfterRecheck, Free, Idle
  <2> QED
    BY <1>1, <2>1, FreeStep
<1>3. CASE ~AfterRecheck(w)
  <2> DEFINE j == [job[w] EXCEPT !.dest = vendor,
                     !.pc = IF vendor = NoAccount THEN "block" ELSE "promote"]
  <2>1. Set(w, j) /\ row.status \in ToPromote
    BY <1>3 DEF ReEvaluate, ToPromote
  <2>2. job'[w].pc \in {"block", "promote"}
    BY <2>1, JobIsSet, HeldJob DEF Job
  <2>3. Reads(job[w])'
    BY <1>1, <2>1, <2>2 DEF Reads, Sending, Retrying, Rotating
  <2> QED
    BY <1>1, <2>3 DEF LoneRead, RowAsRead
<1> QED
  BY <1>2, <1>3

LEMMA ListReads ==
  ASSUME JobsOK, DataOK, NEW w \in Worker, LoneRead(w),
         ListEligible(w) \/ BalanceIsUnavailable(w) \/ Crash(w)
  PROVE  LoneRead(w)'
<1>1. UNCHANGED <<row, reversal>>
  BY DEF ListEligible, BalanceIsUnavailable, Crash, database
<1>2. Stop(w) \/ Begin(w, "read", "execute") \/ Begin(w, "retry", "retry")
  BY DEF ListEligible, BalanceIsUnavailable, Crash
<1>3. Free(job'[w])
  BY <1>2, StopFrees, BeginSets DEF Free
<1> QED
  BY <1>1, <1>3, FreeStep

LEMMA ReadForExecutionReads ==
  ASSUME JobsOK, DataOK, NEW w \in Worker, LoneRead(w), ReadForExecution(w)
  PROVE  LoneRead(w)'
<1>1. UNCHANGED <<row, reversal>>
  BY DEF ReadForExecution, database
<1>2. CASE Stop(w)
  BY <1>1, <1>2, StopFrees, FreeStep
<1>3. CASE ~Stop(w)
  <2> DEFINE j == [Idle EXCEPT !.pc = "lookup", !.goal = "execute",
                               !.key = row.key, !.dest = row.dest]
  <2>1. Set(w, j) /\ row.status = "pending" /\ row.dest # NoAccount
    BY <1>3 DEF ReadForExecution
  <2>2. job'[w].pc = "lookup" /\ job'[w].goal = "execute" /\ job'[w].dest = row.dest
    BY <2>1, JobIsSet DEF Idle
  <2>3. Reads(job[w])'
    BY <1>1, <2>1, <2>2 DEF Reads, Sending, Retrying, Rotating
  <2> QED
    BY <1>1, <2>3 DEF LoneRead, RowAsRead
<1> QED
  BY <1>2, <1>3

LEMMA ReadForRetryReads ==
  ASSUME JobsOK, DataOK, NEW w \in Worker, LoneRead(w), ReadForRetry(w)
  PROVE  LoneRead(w)'
<1>1. UNCHANGED <<row, reversal>>
  BY DEF ReadForRetry, database
<1>2. isIdempotencyMismatchTransfer(row) => row.status = "blocked_idempotency_mismatch"
  BY RowTyped DEF isIdempotencyMismatchTransfer, LoneRead, RowAsRead, ReasonOf, Status
<1>3. CASE Stop(w)
  BY <1>1, <1>3, StopFrees, FreeStep
<1>4. CASE ~Stop(w)
  <2>1. Begin(w, "lookup", "retry") /\ row.status \in ToRetry /\ row.dest # NoAccount
    BY <1>2, <1>4 DEF ReadForRetry, ToRetry
  <2>2. Reads(job[w])'
    BY <1>1, <2>1, BeginSets DEF Reads, Sending, Retrying, Rotating
  <2> QED
    BY <1>1, <2>2 DEF LoneRead, RowAsRead
<1> QED
  BY <1>3, <1>4

LEMMA ReconcileRowReads ==
  ASSUME JobsOK, DataOK, NEW w \in Worker, LoneRead(w), ReconcileRow(w)
  PROVE  LoneRead(w)'
<1>1. UNCHANGED <<row, reversal>>
  BY DEF ReconcileRow, database
<1>2. CASE \E t \in DOMAIN sent : /\ isReconcilablePayoutTransfer(row)
                                  /\ Set(w, [job[w] EXCEPT !.pc = "adopt", !.tid = t])
  <2>1. PICK t \in DOMAIN sent : Set(w, [job[w] EXCEPT !.pc = "adopt", !.tid = t])
    BY <1>2
  <2>2. job'[w].pc = "adopt"
    BY <2>1, JobIsSet, HeldJob DEF Job
  <2>3. row.status \in Reconcilable
    BY <1>2 DEF isReconcilablePayoutTransfer, Reconcilable, ToRetry
  <2>4. Reads(job[w])'
    BY <1>1, <2>2, <2>3 DEF Reads, Sending, Retrying, Rotating
  <2> QED
    BY <1>1, <2>4 DEF LoneRead, RowAsRead
<1>3. CASE \E notFound \in BOOLEAN : Unsettled(w, notFound)
  <2>1. \/ Stop(w)
        \/ Goto(w, "charge") /\ job[w].goal = "execute"
        \/ Goto(w, "requeue") /\ job[w].goal = "retry"
        \/ Goto(w, "rotate") /\ job[w].goal = "rotate"
    BY <1>3 DEF Unsettled
  <2>2. CASE Stop(w)
    BY <1>1, <2>2, StopFrees, FreeStep
  <2>3. CASE ~Stop(w)
    <3>1. Reads(job[w]) /\ job[w].pc = "lookup"
      BY DEF LoneRead, ReconcileRow, At
    <3>2. \/ job'[w].pc = "charge" /\ Sending(job[w]) /\ job'[w].dest = job[w].dest
          \/ job'[w].pc = "requeue" /\ Retrying(job[w])
          \/ job'[w].pc = "rotate" /\ Rotating(job[w])
      BY <2>1, <2>3, <3>1, GotoSets DEF Sending, Retrying, Rotating
    <3>3. Reads(job[w])'
      BY <1>1, <3>1, <3>2 DEF Reads, Sending, Retrying, Rotating
    <3> QED
      BY <1>1, <3>3 DEF LoneRead, RowAsRead
  <2> QED
    BY <2>2, <2>3
<1> QED
  BY <1>2, <1>3 DEF ReconcileRow

-----------------------------------------------------------------------------
\* Sending: the row waits, and the job goes on with the account it read.
LEMMA SendReads ==
  ASSUME JobsOK, DataOK, NEW w \in Worker, LoneRead(w),
         \/ ResolveCharge(w) \/ TransferIsMade(w) \/ TransferIsRefused(w)
         \/ TransferIsRepeated(w) \/ TransferMismatches(w) \/ PaidWriteFails(w)
  PROVE  LoneRead(w)'
<1>1. UNCHANGED <<row, reversal>>
  BY DEF ResolveCharge, TransferIsMade, TransferIsRefused, TransferIsRepeated,
         TransferMismatches, PaidWriteFails, database
<1>2. row.status = "pending"
  BY DEF LoneRead, Reads, Sending, At, ResolveCharge, TransferIsMade, TransferIsRefused,
         TransferIsRepeated, TransferMismatches, PaidWriteFails
<1>3. \/ job'[w].pc \in {"paid", "failed", "insufficient", "mismatch", "idle"}
      \/ job'[w].pc = "send" /\ job'[w].dest = job[w].dest /\ job[w].pc = "charge"
  <2>1. CASE ResolveCharge(w)
    <3>1. CASE Set(w, [job[w] EXCEPT !.pc = "send", !.charge = TRUE])
      <4>1. job'[w] = [job[w] EXCEPT !.pc = "send", !.charge = TRUE]
        BY <3>1, JobIsSet
      <4>2. job'[w].pc = "send" /\ job'[w].dest = job[w].dest
        BY <4>1, HeldJob DEF Job
      <4> QED
        BY <2>1, <4>2 DEF ResolveCharge, At
    <3>2. CASE Goto(w, "send") \/ Goto(w, "insufficient")
      BY <2>1, <3>2, GotoSets DEF ResolveCharge, At
    <3>3. CASE Stop(w)
      BY <3>3, JobIsSet DEF Stop, Idle
    <3> QED
      BY <2>1, <3>1, <3>2, <3>3 DEF ResolveCharge
  <2>2. CASE TransferIsMade(w)
    BY <2>2, JobIsSet, GotoSets, HeldJob DEF TransferIsMade, Job
  <2>3. CASE TransferIsRefused(w)
    BY <2>3, GotoSets DEF TransferIsRefused
  <2>4. CASE TransferIsRepeated(w)
    BY <2>4, JobIsSet, GotoSets, HeldJob DEF TransferIsRepeated, Job
  <2>5. CASE TransferMismatches(w) \/ PaidWriteFails(w)
    BY <2>5, GotoSets DEF TransferMismatches, PaidWriteFails
  <2> QED
    BY <2>1, <2>2, <2>3, <2>4, <2>5
<1>4. Reads(job[w])'
  BY <1>1, <1>2, <1>3 DEF LoneRead, Reads, Sending, Retrying, Rotating
<1> QED
  BY <1>1, <1>4 DEF LoneRead, RowAsRead

-----------------------------------------------------------------------------
\* Writes of the row: each replaces the status it was meant to, and none undoes a payment.
LEMMA WriteReads ==
  ASSUME JobsOK, DataOK, NEW w \in Worker, LoneRead(w), UNCHANGED reversal,
         row' \in Row, row'.reason = ReasonOf(row'.status),
         \/ row'.status = "paid"
         \/ row'.tid = row.tid /\ row.status # "paid",
         Free(job'[w])
  PROVE  LoneRead(w)'
<1>1. RowAsRead'
  BY DEF LoneRead, RowAsRead
<1>2. Reads(job[w])'
  BY DEF Free, Reads, Sending, Retrying, Rotating
<1> QED
  BY <1>1, <1>2 DEF LoneRead

LEMMA RecheckWrites ==
  ASSUME JobsOK, DataOK, NEW w \in Worker, LoneRead(w), BlockRow(w) \/ PromoteRow(w)
  PROVE  LoneRead(w)'
<1>1. UNCHANGED reversal /\ AfterRecheck(w) /\ row.status \in ToPromote
  BY DEF BlockRow, PromoteRow, LoneRead, Reads, At
<1>2. Free(job'[w])
  BY <1>1, StopFrees, JobIsSet DEF AfterRecheck, Free, Idle
<1>3. row' \in Row /\ row'.reason = ReasonOf(row'.status) /\ row'.tid = row.tid
  BY RowTyped, HeldJob DEF BlockRow, PromoteRow, Row, Status, Reason, ReasonOf, Destination
<1> QED
  BY <1>1, <1>2, <1>3, WriteReads DEF ToPromote

LEMMA RetryWrites ==
  ASSUME JobsOK, DataOK, NEW w \in Worker, LoneRead(w), Requeue(w) \/ RotateKey(w)
  PROVE  LoneRead(w)'
<1>1. UNCHANGED reversal /\ Begin(w, "read", "execute") /\ row.status # "paid"
  BY DEF Requeue, RotateKey, LoneRead, Reads, Retrying, Rotating, At, ToRetry
<1>2. Free(job'[w])
  BY <1>1, BeginSets DEF Free
<1>3. row' \in Row /\ row'.reason = ReasonOf(row'.status) /\ row'.tid = row.tid
  <2>1. job[w].key + 1 \in Nat
    BY HeldJob
  <2> QED
    BY <2>1, RowTyped DEF Requeue, RotateKey, Row, Status, Reason, ReasonOf
<1> QED
  BY <1>1, <1>2, <1>3, WriteReads

LEMMA MarkReads ==
  ASSUME JobsOK, DataOK, NEW w \in Worker, LoneRead(w),
         \/ MarkPaid(w) \/ MarkFailed(w)
         \/ markBlockedInsufficientBalance(w) \/ markBlockedIdempotencyMismatch(w)
  PROVE  LoneRead(w)'
<1>1. UNCHANGED reversal /\ Stop(w)
  BY DEF MarkPaid, MarkFailed, markBlockedInsufficientBalance,
         markBlockedIdempotencyMismatch
<1>2. Free(job'[w])
  BY <1>1, StopFrees
<1>3. CASE MarkPaid(w)
  <2>1. row' \in Row /\ row'.status = "paid" /\ row'.reason = "none"
    BY <1>3, RowTyped, HeldJob DEF MarkPaid, Row, Status, Reason
  <2> QED
    BY <1>1, <1>2, <2>1, WriteReads DEF ReasonOf
<1>4. CASE ~MarkPaid(w)
  <2>1. row.status = "pending"
    BY <1>4 DEF LoneRead, Reads, At, MarkFailed, markBlockedInsufficientBalance,
                markBlockedIdempotencyMismatch
  <2>2. row' \in Row /\ row'.reason = ReasonOf(row'.status) /\ row'.tid = row.tid
    BY <1>4, <2>1, RowTyped DEF LoneRead, RowAsRead, ReasonOf, MarkFailed,
       markBlockedInsufficientBalance, markBlockedIdempotencyMismatch, Row, Status, Reason
  <2> QED
    BY <1>1, <1>2, <2>1, <2>2, WriteReads
<1> QED
  BY <1>3, <1>4

LEMMA RefundReads ==
  ASSUME JobsOK, DataOK, NEW w \in Worker, LoneRead(w),
         SyncEligibility(w) \/ CancelTransfer(w) \/ BlockForReview(w)
  PROVE  LoneRead(w)'
<1>1. CASE SyncEligibility(w)
  <2>1. UNCHANGED <<row, reversal>>
    BY <1>1 DEF SyncEligibility, database
  <2>2. \/ Goto(w, "prepare")
        \/ /\ Goto(w, "review") \/ Goto(w, "cancel")
           /\ row.status \notin Extinguished \cup {"paid"}
    BY <1>1, RowTyped DEF SyncEligibility, isVendorTransferExecutionBlockedByRefund,
       isCancelledDueToRefundTransfer, isPartialRefundManualReviewTransfer, Extinguished
  <2>3. \/ job'[w].pc = "prepare"
        \/ /\ job'[w].pc \in {"review", "cancel"}
           /\ row.status \notin Extinguished \cup {"paid"}
    BY <2>2, GotoSets
  <2>4. Reads(job[w])'
    BY <2>1, <2>3 DEF Reads, Sending, Retrying, Rotating
  <2> QED
    BY <2>1, <2>4 DEF LoneRead, RowAsRead
<1>2. CASE CancelTransfer(w) \/ BlockForReview(w)
  <2>1. UNCHANGED reversal /\ Goto(w, "prepare") /\ row.status # "paid"
    BY <1>2 DEF CancelTransfer, BlockForReview, LoneRead, Reads, At
  <2>2. Free(job'[w])
    BY <2>1, GotoSets DEF Free
  <2>3. row' \in Row /\ row'.reason = ReasonOf(row'.status) /\ row'.tid = row.tid
    BY <1>2, RowTyped DEF CancelTransfer, BlockForReview, Row, Status, Reason, ReasonOf
  <2> QED
    BY <2>1, <2>2, <2>3, WriteReads
<1> QED
  BY <1>1, <1>2

\* The reversal row is only written for a paid row.
LEMMA ReversalReads ==
  ASSUME JobsOK, DataOK, NEW w \in Worker, LoneRead(w),
         \/ PrepareReversal(w) \/ ReverseAgain(w) \/ TakeReversal(w) \/ SubmitReversal(w)
         \/ CallReversal(w) \/ FinishReversal(w)
  PROVE  LoneRead(w)'
<1>1. UNCHANGED row
  BY DEF PrepareReversal, ReverseAgain, TakeReversal, SubmitReversal, CallReversal,
         FinishReversal, ReversalIs, database
<1>2. Free(job'[w])
  <2>1. CASE Stop(w)
    BY <2>1, StopFrees
  <2>2. CASE \E pc \in {"take", "reverse", "reversed", "unreversed"} : Goto(w, pc)
    BY <2>2, GotoSets DEF Free
  <2>3. CASE Set(w, [job[w] EXCEPT !.pc = "submit", !.tid = row.tid])
    BY <2>3, JobIsSet, HeldJob DEF Free, Job
  <2> QED
    BY <2>1, <2>2, <2>3 DEF PrepareReversal, ReverseAgain, TakeReversal, SubmitReversal,
       CallReversal, FinishReversal
<1>3. row.status # "paid" => reversal' = "none"
  <2>1. JobIsBacked(job[w], Len(sent), reversal, reversed)
    BY DEF JobsOK
  <2> QED
    BY <2>1 DEF LoneRead, RowAsRead, JobIsBacked, At, PrepareReversal, ReverseAgain,
       TakeReversal, SubmitReversal, CallReversal, FinishReversal, ReversalIs, database,
       isPaidVendorConnectTransfer
<1>4. Reads(job[w])'
  BY <1>2 DEF Free, Reads, Sending, Retrying, Rotating
<1> QED
  BY <1>1, <1>3, <1>4 DEF LoneRead, RowAsRead

LEMMA WorldReads ==
  ASSUME AsRead, VendorConnects \/ DashboardRefund \/ KeysExpire \/ UNCHANGED vars
  PROVE  AsRead'
BY DEF AsRead, Reads, Sending, Retrying, Rotating, VendorConnects, DashboardRefund,
       KeysExpire, vars, database

LEMMA StepReads ==
  ASSUME JobsOK, DataOK, NEW w \in Worker, LoneRead(w),
         Request(w) \/ RefundSucceeds(w) \/ AskReversal(w) \/ JobStep(w) \/ Crash(w)
  PROVE  LoneRead(w)'
BY RequestReads, ReEvaluateReads, ListReads, ReadForExecutionReads, ReadForRetryReads,
   ReconcileRowReads, SendReads, RecheckWrites, RetryWrites, MarkReads, RefundReads,
   ReversalReads DEF JobStep

LEMMA NextReads ==
  ASSUME Alone, JobsOK, DataOK, AsRead, [Next]_vars
  PROVE  AsRead'
<1>1. ASSUME NEW w \in Worker,
             Request(w) \/ RefundSucceeds(w) \/ AskReversal(w) \/ JobStep(w) \/ Crash(w)
      PROVE  AsRead'
  <2>1. LoneRead(w)
    BY DEF AsRead, LoneRead, RowAsRead
  <2>2. LoneRead(w)'
    BY <1>1, <2>1, StepReads
  <2>3. \A u \in Worker : u = w
    BY DEF Alone
  <2> QED
    BY <2>2, <2>3 DEF AsRead, LoneRead, RowAsRead
<1> QED
  BY <1>1, WorldReads DEF Next

LEMMA InitReads == Init => AsRead
<1> SUFFICES ASSUME Init PROVE AsRead
  OBVIOUS
<1>1. \A w \in Worker : job[w] = Idle
  BY DEF Init
<1> QED
  BY <1>1, FreeReads DEF Init, AsRead, NewRow, ReasonOf, Free, Idle

\* With one invocation at a time, each status has its reason, only a paid row has a transfer
\* or a reversal, and what a handler is about to write replaces the status it was meant to,
\* whatever faults happen and however many accounts the vendor goes through (all handlers).
THEOREM RowIsAsRead == Alone => (Spec => []AsRead)
<1> SUFFICES ASSUME Alone PROVE Spec => []AsRead
  OBVIOUS
<1>1. JobsOK /\ DataOK /\ AsRead /\ [Next]_vars => AsRead'
  BY NextReads
<1> QED
  BY InitReads, <1>1, JobsAndData, PTL DEF Spec

-----------------------------------------------------------------------------
(* What Stripe made is found again, when its list is to be had.            *)

FoundData ==
  /\ Len(sent) <= 1
  /\ sent # <<>> /\ row.status # "paid" =>
       /\ sent[1] = row.dest /\ row.dest # NoAccount
       /\ row.status \in {"pending", "failed"} \cup Extinguished

\* A job that is about to send, or that was turned away, knows of no transfer.
Unsent(j) == j.pc \in {"charge", "send", "insufficient", "mismatch"} => sent = <<>>

LoneFound(w) == FoundData /\ Unsent(job[w])

Kept(w) == JobsOK /\ DataOK /\ LoneRead(w) /\ LoneFound(w)

\* A transfer that was made for an unpaid row is the one the look at Stripe finds.
LEMMA TransferIsFound ==
  ASSUME DataOK, RowAsRead, FoundData, sent # <<>>, row.status # "paid"
  PROVE  Matching(row) = {1} /\ Cardinality(Matching(row)) = 1
<1>1. DOMAIN sent = {1}
  <2>1. Len(sent) = 1
    BY SentLength DEF FoundData
  <2> QED
    BY <2>1, SentLength
<1>2. reversed = {} /\ row.tid = 0 /\ sent[1] = row.dest
  BY DEF DataOK, RefundOK, RowAsRead, FoundData
<1>3. Matching(row) = {1}
  BY <1>1, <1>2 DEF Matching
<1> QED
  BY <1>3, FS_Singleton

\* Steps that leave the row and Stripe's transfers alone, and where the job goes on to
\* send only with what it knew.
LEMMA QuietFound ==
  ASSUME NEW w \in Worker, Kept(w), UNCHANGED <<row, sent>>,
         \/ job'[w].pc \notin {"charge", "send", "insufficient", "mismatch"}
         \/ job[w].pc \in {"charge", "send"}
         \/ sent = <<>>
  PROVE  LoneFound(w)'
BY DEF Kept, LoneFound, FoundData, Unsent

\* The jobs' places that need nothing to be known of Stripe.
Elsewhere(w) == job'[w].pc \notin {"charge", "send", "insufficient", "mismatch"}

LEMMA GoesElsewhere ==
  ASSUME JobsOK, NEW w \in Worker,
         \/ Stop(w)
         \/ \E pc \in {"requeue", "rotate", "paid", "failed", "prepare"} : Goto(w, pc)
  PROVE  Elsewhere(w)
<1>1. CASE Stop(w)
  BY <1>1, JobIsSet DEF Stop, Idle, Elsewhere
<1>2. CASE \E pc \in {"requeue", "rotate", "paid", "failed", "prepare"} : Goto(w, pc)
  BY <1>2, GotoSets DEF Elsewhere
<1> QED
  BY <1>1, <1>2

LEMMA RequestFinds ==
  ASSUME NEW w \in Worker, Kept(w),
         \/ Request(w) \/ RefundSucceeds(w) \/ AskReversal(w) \/ ReEvaluate(w)
         \/ ListEligible(w) \/ BalanceIsUnavailable(w) \/ Crash(w) \/ ReadForExecution(w)
         \/ SyncEligibility(w)
  PROVE  LoneFound(w)' /\ UNCHANGED <<row, sent>>
<1>1. UNCHANGED <<row, sent>>
  BY DEF Request, Ask, Cron, AskNewKey, RefundSucceeds, AskReversal, ReEvaluate,
         ListEligible, BalanceIsUnavailable, Crash, ReadForExecution, SyncEligibility,
         database, stripe
<1>2. JobsOK
  BY DEF Kept
<1>3. \/ Stop(w)
      \/ \E pc \in {"list", "recheck", "retry", "lookup", "sync", "take", "again", "read",
                     "prepare"}, goal \in Goal : Begin(w, pc, goal)
      \/ \E pc \in {"prepare", "review", "cancel"} : Goto(w, pc)
      \/ \E key \in Nat : Set(w, [Idle EXCEPT !.pc = "lookup", !.goal = "rotate", !.key = key])
      \/ \E key \in Nat, dest \in Destination :
           Set(w, [Idle EXCEPT !.pc = "lookup", !.goal = "execute", !.key = key,
                               !.dest = dest])
      \/ \E pc \in {"block", "promote"} : Set(w, [job[w] EXCEPT !.dest = vendor, !.pc = pc])
  <2>1. row.key \in Nat /\ row.dest \in Destination /\ job[w].goal \in Goal
    BY HeldJob DEF Kept, DataOK, RowOK, Row
  <2>2. CASE Request(w) \/ RefundSucceeds(w) \/ AskReversal(w)
    BY <2>1, <2>2 DEF Request, Ask, Cron, AskNewKey, RefundSucceeds, AskReversal, Goal, Kind
  <2>3. CASE ReEvaluate(w)
    BY <2>1, <2>3 DEF ReEvaluate, AfterRecheck, Begin
  <2>4. CASE \/ ListEligible(w) \/ BalanceIsUnavailable(w) \/ Crash(w)
             \/ ReadForExecution(w) \/ SyncEligibility(w)
    BY <2>1, <2>4 DEF ListEligible, BalanceIsUnavailable, Crash, ReadForExecution,
       SyncEligibility, Goal, Kind
  <2> QED
    BY <2>2, <2>3, <2>4
<1>4. Elsewhere(w)
  <2>1. CASE Stop(w)
    BY <1>2, <2>1, JobIsSet DEF Stop, Idle, Elsewhere
  <2>2. CASE \E pc \in {"list", "recheck", "retry", "lookup", "sync", "take", "again", "read",
                        "prepare"}, goal \in Goal : Begin(w, pc, goal)
    BY <1>2, <2>2, BeginSets DEF Elsewhere
  <2>3. CASE \E pc \in {"prepare", "review", "cancel"} : Goto(w, pc)
    BY <1>2, <2>3, GotoSets DEF Elsewhere
  <2>4. CASE \E key \in Nat :
               Set(w, [Idle EXCEPT !.pc = "lookup", !.goal = "rotate", !.key = key])
    BY <1>2, <2>4, JobIsSet DEF Idle, Elsewhere
  <2>5. CASE \E key \in Nat, dest \in Destination :
               Set(w, [Idle EXCEPT !.pc = "lookup", !.goal = "execute", !.key = key,
                                   !.dest = dest])
    BY <1>2, <2>5, JobIsSet DEF Idle, Elsewhere
  <2>6. CASE \E pc \in {"block", "promote"} :
               Set(w, [job[w] EXCEPT !.dest = vendor, !.pc = pc])
    BY <1>2, <2>6, JobIsSet, HeldJob DEF Job, Elsewhere
  <2> QED
    BY <1>3, <2>1, <2>2, <2>3, <2>4, <2>5, <2>6
<1> QED
  BY <1>1, <1>4, QuietFound DEF Elsewhere

LEMMA ReadForRetryFinds ==
  ASSUME NEW w \in Worker, Kept(w), ReadForRetry(w)
  PROVE  LoneFound(w)' /\ UNCHANGED <<row, sent>>
<1>1. UNCHANGED <<row, sent>> /\ JobsOK /\ DataOK /\ LoneRead(w)
  BY DEF ReadForRetry, database, stripe, Kept
<1>2. isIdempotencyMismatchTransfer(row) => row.status = "blocked_idempotency_mismatch"
  BY <1>1, RowTyped DEF isIdempotencyMismatchTransfer, LoneRead, RowAsRead, ReasonOf,
     Status
<1>3. Stop(w) \/ Begin(w, "lookup", "retry")
  BY <1>2 DEF ReadForRetry
<1>4. Elsewhere(w)
  BY <1>1, <1>3, JobIsSet, BeginSets DEF Stop, Idle, Elsewhere
<1> QED
  BY <1>1, <1>4, QuietFound DEF Elsewhere

\* The look before sending: a job only goes on when there is no transfer.
LEMMA ReconcileRowFinds ==
  ASSUME NEW w \in Worker, Kept(w), "unlisted" \notin Faults, ReconcileRow(w)
  PROVE  LoneFound(w)' /\ UNCHANGED <<row, sent>>
<1>1. UNCHANGED <<row, sent>> /\ JobsOK /\ DataOK /\ LoneRead(w) /\ LoneFound(w)
  BY DEF ReconcileRow, database, stripe, Kept
<1>2. CASE \E t \in DOMAIN sent : Set(w, [job[w] EXCEPT !.pc = "adopt", !.tid = t])
  <2>1. PICK t \in DOMAIN sent : Set(w, [job[w] EXCEPT !.pc = "adopt", !.tid = t])
    BY <1>2
  <2>2. job'[w] = [job[w] EXCEPT !.pc = "adopt", !.tid = t]
    BY <1>1, <2>1, JobIsSet
  <2>3. Elsewhere(w)
    BY <1>1, <2>2, HeldJob DEF Job, Elsewhere
  <2> QED
    BY <1>1, <2>3, QuietFound DEF Elsewhere
<1>3. CASE \E notFound \in BOOLEAN :
             /\ Unsettled(w, notFound)
             /\ isReconcilablePayoutTransfer(row) => Cardinality(Matching(row)) # 1
  <2>1. PICK notFound \in BOOLEAN : Unsettled(w, notFound)
    BY <1>3
  <2>2. \/ Stop(w) \/ Goto(w, "requeue") \/ Goto(w, "rotate")
        \/ Goto(w, "charge") /\ job[w].goal = "execute"
    BY <2>1 DEF Unsettled
  <2>3. CASE Stop(w) \/ Goto(w, "requeue") \/ Goto(w, "rotate")
    <3>1. Elsewhere(w)
      BY <1>1, <2>3, GoesElsewhere
    <3> QED
      BY <1>1, <3>1, QuietFound DEF Elsewhere
  <2>4. CASE Goto(w, "charge") /\ job[w].goal = "execute"
    <3>1. row.status = "pending" /\ row.dest # NoAccount
      BY <2>4 DEF ReconcileRow, At, Kept, LoneRead, Reads, Sending
    <3>2. isReconcilablePayoutTransfer(row)
      BY <3>1 DEF isReconcilablePayoutTransfer
    <3>3. sent = <<>>
      BY <1>1, <1>3, <3>1, <3>2, TransferIsFound DEF LoneFound, LoneRead
    <3> QED
      BY <1>1, <3>3, QuietFound
  <2> QED
    BY <2>2, <2>3, <2>4
<1>4. \/ \E t \in DOMAIN sent : Set(w, [job[w] EXCEPT !.pc = "adopt", !.tid = t])
      \/ \E notFound \in BOOLEAN :
           /\ Unsettled(w, notFound)
           /\ isReconcilablePayoutTransfer(row) => Cardinality(Matching(row)) # 1
  <2>1. (isReconcilablePayoutTransfer(row) /\ row.tid = 0 /\ Matching(row) = {}) \in BOOLEAN
    BY DEF isReconcilablePayoutTransfer
  <2>2. ~Fails("unlisted")
    BY DEF Fails
  <2> QED
    BY <2>1, <2>2 DEF ReconcileRow
<1> QED
  BY <1>2, <1>3, <1>4

LEMMA SendFinds ==
  ASSUME NEW w \in Worker, Kept(w),
         \/ ResolveCharge(w) \/ TransferIsRefused(w) \/ TransferIsRepeated(w)
         \/ TransferMismatches(w)
  PROVE  LoneFound(w)' /\ UNCHANGED <<row, sent>>
<1>1. UNCHANGED <<row, sent>> /\ job[w].pc \in {"charge", "send"}
  BY DEF ResolveCharge, TransferIsRefused, TransferIsRepeated, TransferMismatches,
         database, stripe, At
<1> QED
  BY <1>1, QuietFound

LEMMA PaidWriteFinds ==
  ASSUME NEW w \in Worker, Kept(w), PaidWriteFails(w)
  PROVE  LoneFound(w)' /\ UNCHANGED <<row, sent>>
<1>1. UNCHANGED <<row, sent>> /\ JobsOK /\ Goto(w, "failed")
  BY DEF PaidWriteFails, database, stripe, Kept
<1>2. Elsewhere(w)
  BY <1>1, GoesElsewhere
<1> QED
  BY <1>1, <1>2, QuietFound DEF Elsewhere

LEMMA ReversalFinds ==
  ASSUME NEW w \in Worker, Kept(w),
         \/ PrepareReversal(w) \/ ReverseAgain(w) \/ TakeReversal(w) \/ SubmitReversal(w)
         \/ CallReversal(w) \/ FinishReversal(w)
  PROVE  LoneFound(w)' /\ UNCHANGED <<row, sent>>
<1>1. UNCHANGED <<row, sent>> /\ JobsOK
  BY DEF PrepareReversal, ReverseAgain, TakeReversal, SubmitReversal, CallReversal,
         FinishReversal, ReversalIs, database, stripe, Kept
<1>2. Elsewhere(w)
  <2>1. CASE Stop(w)
    BY <1>1, <2>1, JobIsSet DEF Stop, Idle, Elsewhere
  <2>2. CASE \E pc \in {"take", "reverse", "reversed", "unreversed"} : Goto(w, pc)
    BY <1>1, <2>2, GotoSets DEF Elsewhere
  <2>3. CASE Set(w, [job[w] EXCEPT !.pc = "submit", !.tid = row.tid])
    BY <1>1, <2>3, JobIsSet, HeldJob DEF Elsewhere, Job
  <2> QED
    BY <2>1, <2>2, <2>3 DEF PrepareReversal, ReverseAgain, TakeReversal, SubmitReversal,
       CallReversal, FinishReversal
<1> QED
  BY <1>1, <1>2, QuietFound DEF Elsewhere

-----------------------------------------------------------------------------
(* The steps that change what was sent or what the row says.               *)

\* The one transfer is made for a row that waits, and none was made before.
LEMMA TransferFinds ==
  ASSUME NEW w \in Worker, Kept(w), TransferIsMade(w)
  PROVE  LoneFound(w)' /\ Obligation!Transfer
<1>1. /\ job[w].pc = "send" /\ sent = <<>> /\ row.status = "pending"
      /\ job[w].dest = row.dest /\ row.dest # NoAccount
  BY DEF TransferIsMade, At, Kept, LoneFound, Unsent, LoneRead, Reads, Sending
<1>2. UNCHANGED row /\ row.dest \in Destination
  BY RowTyped DEF TransferIsMade, database, Kept
<1>3. sent' = <<row.dest>>
  BY <1>1, <1>2 DEF TransferIsMade
<1>4. Len(sent') = 1 /\ sent'[1] = row.dest /\ Len(sent) = 0
  BY <1>1, <1>3
<1>5. Elsewhere(w)
  <2>1. JobsOK
    BY DEF Kept
  <2>2. CASE Goto(w, "failed")
    BY <2>1, <2>2, GoesElsewhere
  <2>3. CASE Set(w, [job[w] EXCEPT !.pc = "paid", !.tid = Len(sent) + 1])
    BY <2>1, <2>3, JobIsSet, HeldJob DEF Job, Elsewhere
  <2> QED
    BY <2>2, <2>3 DEF TransferIsMade
<1>6. LoneFound(w)'
  BY <1>1, <1>2, <1>4, <1>5 DEF LoneFound, FoundData, Unsent, Elsewhere
<1>7. Obligation!Transfer
  BY <1>1, <1>2, <1>4 DEF Obligation!Transfer, Obligation!Open, Extinguished
<1> QED
  BY <1>6, <1>7

\* The row is paid with the transfer that was made.
LEMMA PaidFinds ==
  ASSUME NEW w \in Worker, Kept(w), MarkPaid(w)
  PROVE  LoneFound(w)' /\ Obligation!Settle
<1>1. JobsOK /\ DataOK /\ UNCHANGED sent /\ row \in Row /\ Stop(w)
  BY RowTyped DEF MarkPaid, stripe, Kept
<1>2. Len(sent) = 1
  <2>1. job[w].tid \in Nat /\ job[w].tid # 0 /\ job[w].tid <= Len(sent)
    BY <1>1, HeldJob DEF MarkPaid, JobsOK, JobIsBacked
  <2> QED
    BY <1>1, <2>1, SentLength DEF Kept, LoneFound, FoundData
<1>3. row.status # "paid" /\ row.status \notin Extinguished
  BY DEF MarkPaid, Kept, LoneRead, Reads, Reconcilable, ToRetry, Extinguished
<1>4. row'.status = "paid"
  BY <1>1 DEF MarkPaid, Row
<1>5. job'[w].pc = "idle"
  BY <1>1, JobIsSet DEF Stop, Idle
<1>6. LoneFound(w)'
  BY <1>1, <1>2, <1>4, <1>5 DEF LoneFound, FoundData, Unsent
<1>7. Obligation!Settle
  BY <1>1, <1>2, <1>3, <1>4 DEF Obligation!Settle, Obligation!Open, Extinguished
<1> QED
  BY <1>6, <1>7

\* A refund extinguishes a row that nobody paid.
LEMMA RefundFinds ==
  ASSUME NEW w \in Worker, Kept(w), CancelTransfer(w) \/ BlockForReview(w)
  PROVE  LoneFound(w)' /\ Obligation!Extinguish
<1>1. JobsOK /\ UNCHANGED sent /\ row \in Row /\ Goto(w, "prepare")
  BY RowTyped DEF CancelTransfer, BlockForReview, stripe, Kept
<1>2. row.status \notin Extinguished /\ row.status # "paid"
  BY DEF CancelTransfer, BlockForReview, At, Kept, LoneRead, Reads
<1>3. row'.status \in Extinguished /\ row'.dest = row.dest /\ row'.status # "paid"
  BY <1>1 DEF CancelTransfer, BlockForReview, Extinguished, Row
<1>4. job'[w].pc = "prepare"
  BY <1>1, GotoSets
<1>5. LoneFound(w)'
  BY <1>1, <1>2, <1>3, <1>4 DEF Kept, LoneFound, FoundData, Unsent
<1>6. Obligation!Extinguish
  BY <1>1, <1>2, <1>3 DEF Obligation!Extinguish, Obligation!Open
<1> QED
  BY <1>5, <1>6

\* Every other write leaves the obligation open.
Open == row.status \notin Extinguished /\ row.status # "paid"

LEMMA OpenWrite ==
  ASSUME NEW w \in Worker, Kept(w), UNCHANGED sent, Open, Open', Elsewhere(w),
         \/ sent = <<>>
         \/ row'.dest = row.dest /\ row'.status \in {"pending", "failed"}
  PROVE  LoneFound(w)'
BY DEF Kept, LoneFound, FoundData, Unsent, Open, Elsewhere

LEMMA RecheckFinds ==
  ASSUME NEW w \in Worker, Kept(w), BlockRow(w) \/ PromoteRow(w)
  PROVE  LoneFound(w)' /\ UNCHANGED sent /\ Open /\ Open'
<1>1. JobsOK /\ UNCHANGED sent /\ row \in Row /\ AfterRecheck(w)
  BY RowTyped DEF BlockRow, PromoteRow, stripe, Kept
<1>2. Open /\ row.status \in ToPromote
  BY DEF BlockRow, PromoteRow, At, Kept, LoneRead, Reads, ToPromote, Open, Extinguished
<1>3. sent = <<>>
  BY <1>2 DEF Kept, LoneFound, FoundData, ToPromote, Extinguished
<1>4. Open'
  BY <1>1 DEF BlockRow, PromoteRow, Open, Extinguished, Row
<1>5. Elsewhere(w)
  <2>1. CASE Stop(w)
    BY <1>1, <2>1, GoesElsewhere
  <2>2. CASE Set(w, [Idle EXCEPT !.pc = "list", !.goal = job[w].goal])
    BY <1>1, <2>2, JobIsSet DEF Idle, Elsewhere
  <2> QED
    BY <1>1, <2>1, <2>2 DEF AfterRecheck
<1> QED
  BY <1>1, <1>2, <1>3, <1>4, <1>5, OpenWrite

LEMMA RetryFinds ==
  ASSUME NEW w \in Worker, Kept(w), Requeue(w) \/ RotateKey(w)
  PROVE  LoneFound(w)' /\ UNCHANGED sent /\ Open /\ Open'
<1>1. JobsOK /\ UNCHANGED sent /\ row \in Row /\ Begin(w, "read", "execute")
  BY RowTyped DEF Requeue, RotateKey, stripe, Kept
<1>2. Open
  BY DEF Requeue, RotateKey, At, Kept, LoneRead, Reads, Retrying, Rotating, ToRetry, Open,
         Extinguished
<1>3. row'.status = "pending" /\ row'.dest = row.dest /\ Open'
  BY <1>1 DEF Requeue, RotateKey, Row, Open, Extinguished
<1>4. Elsewhere(w)
  BY <1>1, BeginSets DEF Elsewhere
<1> QED
  BY <1>1, <1>2, <1>3, <1>4, OpenWrite

LEMMA MarkFinds ==
  ASSUME NEW w \in Worker, Kept(w),
         \/ MarkFailed(w) \/ markBlockedInsufficientBalance(w)
         \/ markBlockedIdempotencyMismatch(w)
  PROVE  LoneFound(w)' /\ UNCHANGED sent /\ Open /\ Open'
<1>1. JobsOK /\ UNCHANGED sent /\ row \in Row /\ Stop(w)
  BY RowTyped DEF MarkFailed, markBlockedInsufficientBalance,
     markBlockedIdempotencyMismatch, stripe, Kept
<1>2. Open
  BY DEF MarkFailed, markBlockedInsufficientBalance, markBlockedIdempotencyMismatch, At,
         Kept, LoneRead, Reads, Open, Extinguished
<1>3. Open' /\ row'.dest = row.dest
  BY <1>1 DEF MarkFailed, markBlockedInsufficientBalance, markBlockedIdempotencyMismatch,
     Row, Open, Extinguished
<1>4. sent = <<>> \/ row'.status = "failed"
  BY <1>1 DEF MarkFailed, markBlockedInsufficientBalance, markBlockedIdempotencyMismatch,
     At, Kept, LoneFound, Unsent, Row
<1>5. Elsewhere(w)
  BY <1>1, GoesElsewhere
<1> QED
  BY <1>1, <1>2, <1>3, <1>4, <1>5, OpenWrite

-----------------------------------------------------------------------------
(* Every step, and what it is to the obligation.                           *)

LEMMA StepFinds ==
  ASSUME NEW w \in Worker, Kept(w), "unlisted" \notin Faults,
         Request(w) \/ RefundSucceeds(w) \/ AskReversal(w) \/ JobStep(w) \/ Crash(w)
  PROVE  /\ LoneFound(w)'
         /\ \/ Obligation!Next
            \/ UNCHANGED <<row, sent>>
            \/ UNCHANGED sent /\ Open /\ Open'
BY RequestFinds, ReadForRetryFinds, ReconcileRowFinds, SendFinds, PaidWriteFinds,
   ReversalFinds, TransferFinds, PaidFinds, RefundFinds, RecheckFinds, RetryFinds, MarkFinds
   DEF JobStep, Obligation!Next

\* A row that stays open, or that stays, is no step of the obligation.
LEMMA NoObligationStep ==
  ASSUME UNCHANGED <<row, sent>> \/ (UNCHANGED sent /\ Open /\ Open')
  PROVE  UNCHANGED <<Len(sent), row.status = "paid", row.status \in Extinguished>>
BY DEF Open

LEMMA WorldFinds ==
  ASSUME Found, VendorConnects \/ DashboardRefund \/ KeysExpire \/ UNCHANGED vars
  PROVE  Found' /\ UNCHANGED <<row, sent>>
BY DEF Found, VendorConnects, DashboardRefund, KeysExpire, vars, database, stripe

LEMMA NextFinds ==
  ASSUME Alone, "unlisted" \notin Faults, JobsOK, DataOK, AsRead, Found, [Next]_vars
  PROVE  /\ Found'
         /\ [Obligation!Next]_<<Len(sent), row.status = "paid", row.status \in Extinguished>>
<1>1. ASSUME NEW w \in Worker,
             Request(w) \/ RefundSucceeds(w) \/ AskReversal(w) \/ JobStep(w) \/ Crash(w)
      PROVE  /\ Found'
             /\ \/ Obligation!Next
                \/ UNCHANGED <<row, sent>>
                \/ UNCHANGED sent /\ Open /\ Open'
  <2>1. Kept(w)
    BY DEF Kept, AsRead, LoneRead, RowAsRead, Found, LoneFound, FoundData, Unsent
  <2>2. \A u \in Worker : u = w
    BY DEF Alone
  <2>3. LoneFound(w)' => Found'
    BY <2>2 DEF LoneFound, FoundData, Unsent, Found
  <2> QED
    BY <1>1, <2>1, <2>3, StepFinds
<1> QED
  BY <1>1, WorldFinds, NoObligationStep DEF Next

LEMMA InitFinds == Init => Found /\ Obligation!Init
<1> SUFFICES ASSUME Init PROVE Found /\ Obligation!Init
  OBVIOUS
<1>1. /\ sent = <<>> /\ Len(sent) = 0 /\ \A w \in Worker : job[w].pc = "idle"
      /\ row.status \in {"blocked", "pending"}
  BY DEF Init, Idle, NewRow
<1> QED
  BY <1>1 DEF Found, Obligation!Init, Extinguished

\* With one invocation at a time and Stripe's list to be had, at most one transfer is made,
\* and one that the row does not know yet goes to the account the row names, so that the
\* look before sending finds it; whatever else fails or expires (all handlers).
THEOREM TransfersAreFound ==
  Alone /\ "unlisted" \notin Faults => (Spec => []Found)
<1> SUFFICES ASSUME Alone, "unlisted" \notin Faults PROVE Spec => []Found
  OBVIOUS
<1>1. JobsOK /\ DataOK /\ AsRead /\ Found /\ [Next]_vars => Found'
  BY NextFinds
<1> QED
  BY InitFinds, <1>1, JobsAndData, RowIsAsRead, PTL DEF Spec

\* With one invocation at a time and Stripe's list to be had, the detailed machine
\* implements the obligation: at most one transfer is made, it settles the row or a refund
\* extinguishes it, never both, and neither is undone, through crashes, lost answers and
\* writes, refusals, expired keys, changed accounts and any number of rotations
\* (executeVendorPayoutTransfer, both retries, the reconciliation, the refund's sync).
THEOREM ObligationIsKept ==
  Alone /\ "unlisted" \notin Faults => (Spec => KeepsObligation)
<1> SUFFICES ASSUME Alone, "unlisted" \notin Faults PROVE Spec => KeepsObligation
  OBVIOUS
<1>1. JobsOK /\ DataOK /\ AsRead /\ Found /\ [Next]_vars
        => [Obligation!Next]_<<Len(sent), row.status = "paid", row.status \in Extinguished>>
  BY NextFinds
<1> QED
  BY InitFinds, <1>1, JobsAndData, RowIsAsRead, TransfersAreFound, PTL
     DEF Spec, KeepsObligation, Obligation!Spec

-----------------------------------------------------------------------------
(* Refunds, when answers and writes arrive and no invocation dies.         *)

\* Nothing that Stripe or the database did is lost.
NothingIsLost == {"crash", "lost_answer", "write_lost"} \cap Faults = {}

\* What a refund leaves, and Settles for the one worker.
RefundIsDone ==
  \/ row.status \in Extinguished
  \/ row.status = "paid" /\ (refunded = "full" => reversal # "none")

LoneSettled(w) ==
  /\ sent # <<>> => row.status = "paid" \/ At(w, "paid")
  /\ refunded \in Told => RefundIsDone \/ job[w].pc \in Closing
  /\ job[w].pc \in Closing => refunded \in Told
  /\ At(w, "review") => refunded = "partial"
  /\ At(w, "cancel") => refunded \in {"full", "rest"}
  /\ At(w, "prepare") => row.status \in Extinguished \cup {"paid"}

ReadAndSettled(w) == JobsOK /\ DataOK /\ LoneRead(w) /\ LoneSettled(w)

LEMMA NoSuchFault ==
  ASSUME NothingIsLost
  PROVE  ~Fails("crash") /\ ~Fails("lost_answer") /\ ~Fails("write_lost")
BY DEF NothingIsLost, Fails

\* A job that was not about to write a payment and not in a refund goes on to neither.
Aside(w) == job[w].pc \notin Closing \cup {"paid"} /\ job'[w].pc \notin Closing

LEMMA AsideSettles ==
  ASSUME NEW w \in Worker, ReadAndSettled(w), Aside(w),
         UNCHANGED <<row, sent, refunded, reversal>>
  PROVE  LoneSettled(w)'
BY DEF ReadAndSettled, LoneSettled, RefundIsDone, Aside, At, Closing

\* An open row that is written and stays open: nothing was sent for it, and no refund that
\* the payouts heard of is booked.
LEMMA OpenWriteSettles ==
  ASSUME NEW w \in Worker, ReadAndSettled(w), Aside(w), Open, Open',
         UNCHANGED <<sent, refunded, reversal>>
  PROVE  LoneSettled(w)'
BY DEF ReadAndSettled, LoneSettled, RefundIsDone, Aside, At, Closing, Open

LEMMA MovesAside ==
  ASSUME JobsOK, NEW w \in Worker,
         \/ Stop(w)
         \/ \E pc \in Pc \ Closing : Goto(w, pc) \/ \E goal \in Goal : Begin(w, pc, goal)
  PROVE  job'[w].pc \notin Closing
<1>1. CASE Stop(w)
  BY <1>1, JobIsSet DEF Stop, Idle, Closing
<1>2. CASE \E pc \in Pc \ Closing : Goto(w, pc)
  BY <1>2, GotoSets
<1>3. CASE \E pc \in Pc \ Closing, goal \in Goal : Begin(w, pc, goal)
  BY <1>3, BeginSets
<1> QED
  BY <1>1, <1>2, <1>3

LEMMA RequestSettles ==
  ASSUME NEW w \in Worker, ReadAndSettled(w), Request(w) \/ AskReversal(w)
  PROVE  LoneSettled(w)'
<1>1. JobsOK /\ UNCHANGED <<row, sent, refunded, reversal>> /\ job[w].pc = "idle"
  BY DEF Request, Ask, Cron, AskNewKey, AskReversal, database, stripe, At, ReadAndSettled
<1>2. CASE AskNewKey(w)
  <2>1. job'[w].pc = "lookup"
    BY <1>1, <1>2, JobIsSet DEF AskNewKey, Idle
  <2> QED
    BY <1>1, <2>1, AsideSettles DEF Aside, Closing
<1>3. CASE \E pc \in Pc \ Closing, goal \in Goal : Begin(w, pc, goal)
  <2>1. job'[w].pc \notin Closing
    BY <1>1, <1>3, MovesAside
  <2> QED
    BY <1>1, <2>1, AsideSettles DEF Aside, Closing
<1>4. CASE row.status = "paid" /\ refunded = "full" /\ Begin(w, "prepare", "reverse")
  <2>1. job'[w].pc = "prepare"
    BY <1>1, <1>4, BeginSets
  <2> QED
    BY <1>1, <1>4, <2>1 DEF ReadAndSettled, LoneSettled, Closing, Told, At
<1> QED
  BY <1>2, <1>3, <1>4 DEF Request, Ask, Cron, AskReversal, isPaidVendorConnectTransfer,
     Pc, Goal, Kind, Closing

LEMMA ReadSettles ==
  ASSUME NEW w \in Worker, ReadAndSettled(w),
         \/ ReEvaluate(w) \/ ListEligible(w) \/ ReadForExecution(w) \/ ReadForRetry(w)
         \/ ReconcileRow(w) \/ BalanceIsUnavailable(w)
  PROVE  LoneSettled(w)'
<1>1. /\ JobsOK /\ UNCHANGED <<row, sent, refunded, reversal>>
      /\ job[w].pc \notin Closing \cup {"paid"}
  BY DEF ReEvaluate, ListEligible, ReadForExecution, ReadForRetry, ReconcileRow,
         BalanceIsUnavailable, database, stripe, At, ReadAndSettled, Closing
<1>2. CASE \/ Stop(w)
           \/ \E pc \in Pc \ Closing : Goto(w, pc) \/ \E goal \in Goal : Begin(w, pc, goal)
  BY <1>1, <1>2, MovesAside, AsideSettles DEF Aside
<1>3. CASE \E j \in Job : j.pc \notin Closing /\ Set(w, j)
  BY <1>1, <1>3, JobIsSet, AsideSettles DEF Aside
<1>4. job[w] \in Job /\ job[w].goal \in Goal /\ vendor \in Destination /\ row \in Row
  BY <1>1, HeldJob DEF ReadAndSettled, DataOK, RowOK, OtherOK
<1>5. CASE ReEvaluate(w)
  <2>1. CASE AfterRecheck(w)
    BY <1>2, <1>4, <2>1 DEF AfterRecheck, Begin, Pc, Closing
  <2>2. CASE ~AfterRecheck(w)
    <3> DEFINE j == [job[w] EXCEPT !.dest = vendor,
                       !.pc = IF vendor = NoAccount THEN "block" ELSE "promote"]
    <3>1. Set(w, j) /\ j \in Job /\ j.pc \notin Closing
      BY <1>4, <1>5, <2>2 DEF ReEvaluate, Job, Pc, Closing
    <3> QED
      BY <1>3, <3>1
  <2> QED
    BY <2>1, <2>2
<1>6. CASE ListEligible(w) \/ ReadForRetry(w) \/ BalanceIsUnavailable(w)
  BY <1>2, <1>6 DEF ListEligible, ReadForRetry, BalanceIsUnavailable, Pc, Goal, Kind,
     Closing
<1>7. CASE ReadForExecution(w)
  <2> DEFINE j == [Idle EXCEPT !.pc = "lookup", !.goal = "execute",
                               !.key = row.key, !.dest = row.dest]
  <2>1. j \in Job /\ j.pc \notin Closing
    BY <1>4 DEF Idle, Job, Pc, Goal, Row, Closing
  <2> QED
    BY <1>2, <1>3, <1>7, <2>1 DEF ReadForExecution
<1>8. CASE ReconcileRow(w)
  <2>1. CASE \E t \in DOMAIN sent : Set(w, [job[w] EXCEPT !.pc = "adopt", !.tid = t])
    <3>1. PICK t \in DOMAIN sent : Set(w, [job[w] EXCEPT !.pc = "adopt", !.tid = t])
      BY <2>1
    <3> DEFINE j == [job[w] EXCEPT !.pc = "adopt", !.tid = t]
    <3>2. t \in Nat
      BY SentLength DEF ReadAndSettled
    <3>3. j \in Job /\ j.pc \notin Closing
      BY <1>4, <3>2 DEF Job, Pc, Closing
    <3> QED
      BY <1>3, <3>1, <3>3
  <2>2. CASE \E notFound \in BOOLEAN : Unsettled(w, notFound)
    BY <1>2, <2>2 DEF Unsettled, Pc, Closing
  <2> QED
    BY <1>8, <2>1, <2>2 DEF ReconcileRow
<1> QED
  BY <1>5, <1>6, <1>7, <1>8

LEMMA ResolveChargeSettles ==
  ASSUME NEW w \in Worker, ReadAndSettled(w), ResolveCharge(w)
  PROVE  LoneSettled(w)'
<1>1. /\ JobsOK /\ UNCHANGED <<row, sent, refunded, reversal>>
      /\ job[w].pc \notin Closing \cup {"paid"}
  BY DEF ResolveCharge, stripe, At, ReadAndSettled, Closing
<1>2. job'[w].pc \notin Closing
  <2>1. CASE Set(w, [job[w] EXCEPT !.pc = "send", !.charge = TRUE])
    BY <1>1, <2>1, JobIsSet, HeldJob DEF Job, Closing
  <2>2. CASE Goto(w, "send") \/ Goto(w, "insufficient") \/ Stop(w)
    BY <1>1, <2>2, MovesAside DEF Pc, Closing
  <2> QED
    BY <2>1, <2>2 DEF ResolveCharge
<1> QED
  BY <1>1, <1>2, AsideSettles DEF Aside

\* Stripe's answers: a transfer that is made is known to the job that made it.
LEMMA SendSettles ==
  ASSUME NEW w \in Worker, ReadAndSettled(w), NothingIsLost,
         \/ TransferIsMade(w) \/ TransferIsRefused(w) \/ TransferIsRepeated(w)
         \/ TransferMismatches(w) \/ PaidWriteFails(w) \/ Crash(w)
  PROVE  LoneSettled(w)'
<1>1. CASE TransferIsMade(w)
  <2>1. UNCHANGED <<row, refunded, reversal>> /\ JobsOK /\ job[w].pc = "send"
    BY <1>1 DEF TransferIsMade, database, ReadAndSettled, At
  <2>2. Set(w, [job[w] EXCEPT !.pc = "paid", !.tid = Len(sent) + 1])
    BY <1>1, NoSuchFault DEF TransferIsMade
  <2>3. job'[w].pc = "paid"
    BY <2>1, <2>2, JobIsSet, HeldJob DEF Job
  <2> QED
    BY <2>1, <2>3 DEF ReadAndSettled, LoneSettled, RefundIsDone, Closing, At
<1>2. CASE TransferIsRefused(w) \/ TransferIsRepeated(w) \/ TransferMismatches(w)
  <2>1. /\ JobsOK /\ UNCHANGED <<row, sent, refunded, reversal>>
        /\ job[w].pc \notin Closing \cup {"paid"}
    BY <1>2 DEF TransferIsRefused, TransferIsRepeated, TransferMismatches, database,
                stripe, At, ReadAndSettled, Closing
  <2>2. \/ Goto(w, "failed") \/ Goto(w, "insufficient") \/ Goto(w, "mismatch")
        \/ \E t \in Nat : Set(w, [job[w] EXCEPT !.pc = "paid", !.tid = t])
    <3>1. \A m \in Answers(w) : m.tid \in Nat
      BY DEF Answers, ReadAndSettled, DataOK, StripeOK
    <3> QED
      BY <1>2, <3>1 DEF TransferIsRefused, TransferIsRepeated, TransferMismatches
  <2>3. job'[w].pc \notin Closing
    <3>1. CASE \E t \in Nat : Set(w, [job[w] EXCEPT !.pc = "paid", !.tid = t])
      BY <2>1, <3>1, JobIsSet, HeldJob DEF Job, Closing
    <3> QED
      BY <2>1, <2>2, <3>1, MovesAside DEF Pc, Closing
  <2> QED
    BY <2>1, <2>3, AsideSettles DEF Aside
<1>3. ~PaidWriteFails(w) /\ ~Crash(w)
  BY NoSuchFault DEF PaidWriteFails, Crash
<1> QED
  BY <1>1, <1>2, <1>3

LEMMA WriteSettles ==
  ASSUME NEW w \in Worker, ReadAndSettled(w),
         \/ BlockRow(w) \/ PromoteRow(w) \/ Requeue(w) \/ RotateKey(w) \/ MarkFailed(w)
         \/ markBlockedInsufficientBalance(w) \/ markBlockedIdempotencyMismatch(w)
  PROVE  LoneSettled(w)'
<1>1. JobsOK /\ UNCHANGED <<sent, refunded, reversal>> /\ row \in Row
  BY RowTyped DEF BlockRow, PromoteRow, Requeue, RotateKey, MarkFailed, stripe,
     markBlockedInsufficientBalance, markBlockedIdempotencyMismatch, ReadAndSettled
<1>2. job[w].pc \notin Closing \cup {"paid"} /\ Open
  BY DEF BlockRow, PromoteRow, Requeue, RotateKey, MarkFailed, At, Closing,
     markBlockedInsufficientBalance, markBlockedIdempotencyMismatch, ReadAndSettled,
     LoneRead, Reads, Retrying, Rotating, ToRetry, ToPromote, Open, Extinguished
<1>3. Open'
  BY <1>1 DEF BlockRow, PromoteRow, Requeue, RotateKey, MarkFailed, Row, Open, Extinguished,
     markBlockedInsufficientBalance, markBlockedIdempotencyMismatch
<1>4. \/ Stop(w) \/ Begin(w, "read", "execute")
      \/ \E goal \in Goal : Begin(w, "list", goal)
  <2>1. job[w].goal \in Goal
    BY <1>1, HeldJob
  <2> QED
    BY <2>1 DEF BlockRow, PromoteRow, Requeue, RotateKey, MarkFailed, AfterRecheck, Begin,
       markBlockedInsufficientBalance, markBlockedIdempotencyMismatch
<1>5. job'[w].pc \notin Closing
  BY <1>1, <1>4, MovesAside DEF Pc, Goal, Closing
<1> QED
  BY <1>1, <1>2, <1>3, <1>5, OpenWriteSettles DEF Aside

\* A payment that is written, by the job that sent it or by the look at Stripe.
LEMMA PaidSettles ==
  ASSUME NEW w \in Worker, ReadAndSettled(w), MarkPaid(w)
  PROVE  LoneSettled(w)'
<1>1. JobsOK /\ UNCHANGED <<sent, refunded, reversal>> /\ row \in Row /\ Stop(w)
  BY RowTyped DEF MarkPaid, stripe, ReadAndSettled
<1>2. row.status \notin Extinguished /\ job[w].pc \notin Closing
  BY DEF MarkPaid, ReadAndSettled, LoneRead, Reads, Reconcilable, ToRetry, Extinguished,
         Closing
<1>3. row'.status = "paid"
  BY <1>1 DEF MarkPaid, Row
<1>4. job'[w].pc = "idle"
  BY <1>1, JobIsSet DEF Stop, Idle
<1> QED
  BY <1>1, <1>2, <1>3, <1>4 DEF ReadAndSettled, LoneSettled, RefundIsDone, At, Closing

\* A refund runs from the ledger to the reversal row.
LEMMA RefundSettles ==
  ASSUME NEW w \in Worker, ReadAndSettled(w),
         \/ RefundSucceeds(w) \/ SyncEligibility(w) \/ CancelTransfer(w)
         \/ BlockForReview(w) \/ PrepareReversal(w)
  PROVE  LoneSettled(w)'
<1>1. JobsOK /\ DataOK /\ UNCHANGED sent /\ row \in Row /\ RowAsRead /\ job[w].pc # "paid"
  BY RowTyped DEF RefundSucceeds, SyncEligibility, CancelTransfer, BlockForReview, At,
     PrepareReversal, stripe, ReadAndSettled, LoneRead
<1>2. CASE RefundSucceeds(w)
  <2>1. job'[w].pc = "sync" /\ UNCHANGED row
    BY <1>1, <1>2, BeginSets DEF RefundSucceeds
  <2>2. refunded' \in Told
    BY <1>2 DEF RefundSucceeds, Told
  <2> QED
    BY <1>1, <2>1, <2>2 DEF ReadAndSettled, LoneSettled, Closing, At
<1>3. CASE SyncEligibility(w)
  <2>1. UNCHANGED <<row, refunded, reversal>>
    BY <1>3 DEF SyncEligibility, database
  <2>2. row.tid # 0 => row.status = "paid"
    BY <1>1 DEF RowAsRead
  <2>3. isVendorTransferExecutionBlockedByRefund(row) => row.status \in Extinguished
    BY <1>1, RowTyped DEF isVendorTransferExecutionBlockedByRefund, RowAsRead, ReasonOf,
       isCancelledDueToRefundTransfer, isPartialRefundManualReviewTransfer, Extinguished,
       Status
  <2>4. refunded \in Told
    BY <1>3 DEF SyncEligibility, At, ReadAndSettled, LoneSettled, Closing
  <2>5. \/ Goto(w, "prepare") /\ row.status \in Extinguished \cup {"paid"}
        \/ Goto(w, "review") /\ refunded = "partial"
        \/ Goto(w, "cancel") /\ refunded \in {"full", "rest"}
    BY <1>3, <2>2, <2>3, <2>4 DEF SyncEligibility, Told
  <2>6. \/ job'[w].pc = "prepare" /\ row.status \in Extinguished \cup {"paid"}
        \/ job'[w].pc = "review" /\ refunded = "partial"
        \/ job'[w].pc = "cancel" /\ refunded \in {"full", "rest"}
    BY <1>1, <2>5, GotoSets
  <2> QED
    BY <1>1, <2>1, <2>4, <2>6 DEF ReadAndSettled, LoneSettled, Closing, At
<1>4. CASE CancelTransfer(w) \/ BlockForReview(w)
  <2>1. /\ job'[w].pc = "prepare" /\ UNCHANGED <<refunded, reversal>>
        /\ row'.status \in Extinguished
    BY <1>1, <1>4, GotoSets DEF CancelTransfer, BlockForReview, Extinguished, Row
  <2>2. row.status # "paid"
    BY <1>4 DEF CancelTransfer, BlockForReview, At, ReadAndSettled, LoneRead, Reads
  <2>3. refunded \in Told
    BY <1>4 DEF CancelTransfer, BlockForReview, At, ReadAndSettled, LoneSettled, Closing
  <2>4. sent = <<>>
    BY <1>1, <2>2 DEF ReadAndSettled, LoneSettled, At
  <2> QED
    BY <1>1, <2>1, <2>3, <2>4 DEF LoneSettled, Closing, At
<1>5. CASE PrepareReversal(w)
  <2>1. job'[w].pc = "idle" /\ UNCHANGED <<row, refunded>>
    BY <1>1, <1>5, JobIsSet DEF PrepareReversal, Stop, Idle
  <2>2. row.status \in Extinguished \cup {"paid"}
    BY <1>5 DEF PrepareReversal, ReadAndSettled, LoneSettled
  <2>3. row.status = "paid" => row.tid # 0
    BY <1>1, RowTyped
  <2>4. RefundIsDone'
    BY <1>5, <2>1, <2>2, <2>3 DEF PrepareReversal, isPaidVendorConnectTransfer, RefundIsDone
  <2>5. sent # <<>> => row.status = "paid"
    BY <1>1 DEF ReadAndSettled, LoneSettled, At
  <2> QED
    BY <1>1, <2>1, <2>4, <2>5 DEF LoneSettled, Closing, At
<1> QED
  BY <1>2, <1>3, <1>4, <1>5

LEMMA ReversalSettles ==
  ASSUME NEW w \in Worker, ReadAndSettled(w),
         \/ ReverseAgain(w) \/ TakeReversal(w) \/ SubmitReversal(w) \/ CallReversal(w)
         \/ FinishReversal(w)
  PROVE  LoneSettled(w)'
<1>1. /\ JobsOK /\ UNCHANGED <<row, sent, refunded>>
      /\ job[w].pc \notin Closing \cup {"paid"}
  BY DEF ReverseAgain, TakeReversal, SubmitReversal, CallReversal, FinishReversal,
     ReversalIs, database, stripe, At, Closing, ReadAndSettled
<1>2. reversal' # reversal => reversal' # "none"
  BY DEF ReverseAgain, TakeReversal, SubmitReversal, CallReversal, FinishReversal,
     ReversalIs, database
<1>3. job'[w].pc \notin Closing
  <2>1. CASE Stop(w) \/ \E pc \in {"take", "reverse", "reversed", "unreversed"} : Goto(w, pc)
    BY <1>1, <2>1, MovesAside DEF Pc, Closing
  <2>2. CASE Set(w, [job[w] EXCEPT !.pc = "submit", !.tid = row.tid])
    BY <1>1, <2>2, JobIsSet, HeldJob DEF Closing, Job
  <2> QED
    BY <2>1, <2>2 DEF ReverseAgain, TakeReversal, SubmitReversal, CallReversal,
       FinishReversal
<1> QED
  BY <1>1, <1>2, <1>3 DEF ReadAndSettled, LoneSettled, RefundIsDone, At, Closing

LEMMA StepSettles ==
  ASSUME NEW w \in Worker, ReadAndSettled(w), NothingIsLost,
         Request(w) \/ RefundSucceeds(w) \/ AskReversal(w) \/ JobStep(w) \/ Crash(w)
  PROVE  LoneSettled(w)'
BY RequestSettles, ReadSettles, ResolveChargeSettles, SendSettles, WriteSettles,
   PaidSettles, RefundSettles, ReversalSettles DEF JobStep

LEMMA NextSettles ==
  ASSUME Alone, NothingIsLost, JobsOK, DataOK, AsRead, Settles, [Next]_vars
  PROVE  Settles'
<1>1. ASSUME NEW w \in Worker,
             Request(w) \/ RefundSucceeds(w) \/ AskReversal(w) \/ JobStep(w) \/ Crash(w)
      PROVE  Settles'
  <2>1. \A u \in Worker : u = w
    BY DEF Alone
  <2>2. ReadAndSettled(w)
    BY <2>1 DEF ReadAndSettled, AsRead, LoneRead, RowAsRead, Settles, LoneSettled,
       RefundIsDone
  <2>3. LoneSettled(w)'
    BY <1>1, <2>2, StepSettles
  <2> QED
    BY <2>1, <2>3 DEF Settles, LoneSettled, RefundIsDone
<1>2. CASE VendorConnects \/ KeysExpire \/ UNCHANGED vars
  BY <1>2 DEF Settles, At, VendorConnects, KeysExpire, vars, database, stripe
<1>3. CASE DashboardRefund
  BY <1>3 DEF Settles, At, DashboardRefund, stripe, Told
<1> QED
  BY <1>1, <1>2, <1>3 DEF Next

\* With one invocation at a time and nothing lost, what was sent is paid or about to be, and
\* every refund that the payouts hear of, of a part, of all or of the rest, runs to its end:
\* it closes the row or finds it paid, and one refund of all that finds it paid leaves a
\* reversal; Stripe's list, its refusals, the balance and the keys may still fail (all
\* handlers).
THEOREM RefundsSettle == Alone /\ NothingIsLost => (Spec => []Settles)
<1> SUFFICES ASSUME Alone, NothingIsLost PROVE Spec => []Settles
  OBVIOUS
<1>1. Init => Settles
  BY DEF Init, Settles, Idle, At, Told, Closing
<1>2. JobsOK /\ DataOK /\ AsRead /\ Settles /\ [Next]_vars => Settles'
  BY NextSettles
<1> QED
  BY <1>1, <1>2, JobsAndData, RowIsAsRead, PTL DEF Spec

\* With one invocation at a time and nothing lost, after any refund that the payouts hear of
\* and when nothing runs, the row is closed and the vendor has nothing, or it was paid; and
\* one refund of everything leaves a paid row with its reversal.  That of the rest of an
\* order leaves none, as the code asks for the whole amount
\* (syncVendorTransferEligibilityAfterRefundSuccess,
\* evaluateTransferReversalEligibilityForRefundAttempt).
THEOREM RefundedStaysUnpaid == Alone /\ NothingIsLost => (Spec => []RefundedIsNotPaid)
<1> SUFFICES ASSUME Alone, NothingIsLost PROVE Spec => []RefundedIsNotPaid
  OBVIOUS
<1>1. Settles => RefundedIsNotPaid
  <2> SUFFICES ASSUME Settles, AtRest, refunded \in Told
               PROVE  \/ row.status \in Extinguished /\ Standing = {}
                      \/ row.status = "paid" /\ (refunded = "full" => reversal # "none")
    BY DEF RefundedIsNotPaid
  <2>1. \A w \in Worker : job[w].pc \notin Closing \cup {"paid"}
    BY DEF AtRest, At, Closing
  <2>2. row.status \in Extinguished => Standing = {}
    <3> SUFFICES ASSUME row.status \in Extinguished PROVE sent = <<>>
      BY DEF Standing
    <3> QED
      BY <2>1 DEF At, Settles, Extinguished
  <2> QED
    BY <2>1, <2>2 DEF Settles
<1> QED
  BY <1>1, RefundsSettle, PTL

=============================================================================
