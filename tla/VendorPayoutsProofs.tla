------------------------ MODULE VendorPayoutsProofs ------------------------
(***************************************************************************)
(* Proofs about VendorPayouts.tla, for any accounts, invocations, kinds of *)
(* request, faults and bounds.                                             *)
(*                                                                         *)
(* The invariant is TypeOK /\ Backed.  It is regrouped as what the jobs    *)
(* hold (JobsOK) and what the row and Stripe hold (DataOK): a step moves   *)
(* one job in one of few ways, and changes one part of the data.  That a   *)
(* vendor is paid at most once then follows from what keys anybody can     *)
(* hold (Guarded).                                                         *)
(***************************************************************************)
EXTENDS VendorPayoutProperties, FiniteSetTheorems, TLAPS

JobsOK ==
  /\ job \in [Worker -> Job]
  /\ \A u \in Worker : JobIsBacked(job[u], Len(sent), reversal, reversed)

RowOK ==
  /\ row \in Row
  /\ row.tid <= Len(sent)
  /\ row.status = "paid" => row.tid # 0

StripeOK ==
  /\ sent \in Seq(Destination)
  /\ reversed \subseteq DOMAIN sent
  /\ remembered \subseteq [key : Nat, dest : Destination, charge : BOOLEAN, tid : Nat]
  /\ \A m \in remembered : m.tid <= Len(sent)

RefundOK ==
  /\ refunded \in Refunded
  /\ reversal \in Reversal
  /\ reversal # "none" => refunded = "full"
  /\ reversed # {} => reversal # "none"
  /\ reversal = "reversed" => reversed # {}

OtherOK == vendor \in Destination /\ charge \in BOOLEAN /\ errors \in Nat

DataOK == RowOK /\ StripeOK /\ RefundOK /\ OtherOK

LEMMA Regroup == TypeOK /\ Backed <=> JobsOK /\ DataOK
BY DEF TypeOK, Backed, JobsOK, DataOK, RowOK, StripeOK, RefundOK, OtherOK

-----------------------------------------------------------------------------
(* How a job moves.                                                        *)

\* What a step may do to the facts that other jobs rely on.
OnlyGrows ==
  /\ Len(sent) \in Nat /\ Len(sent') \in Nat /\ Len(sent) <= Len(sent')
  /\ reversal # "none" => reversal' # "none"
  /\ reversed # {} => reversed' # {}

LEMMA NothingGrows ==
  ASSUME StripeOK, UNCHANGED <<sent, reversal, reversed>>
  PROVE  OnlyGrows
BY DEF StripeOK, OnlyGrows

\* The one job a step changes may become any job that holds only what it should.
LEMMA SetKeeps ==
  ASSUME JobsOK, OnlyGrows, NEW w \in Worker, NEW j \in Job, Set(w, j),
         JobIsBacked(j, Len(sent'), reversal', reversed')
  PROVE  JobsOK'
<1>1. job' \in [Worker -> Job] /\ job'[w] = j
  BY DEF JobsOK, Set
<1>2. ASSUME NEW u \in Worker
      PROVE  JobIsBacked(job'[u], Len(sent'), reversal', reversed')
  <2>1. CASE u = w
    BY <1>1, <2>1
  <2>2. CASE u # w
    <3>1. job'[u] = job[u] /\ job[u] \in Job
      BY <2>2 DEF JobsOK, Set
    <3>2. JobIsBacked(job[u], Len(sent), reversal, reversed)
      BY DEF JobsOK
    <3>3. job[u].tid \in Nat
      BY <3>1 DEF Job
    <3> QED
      BY <3>1, <3>2, <3>3 DEF JobIsBacked, OnlyGrows
  <2> QED
    BY <2>1, <2>2
<1> QED
  BY <1>1, <1>2 DEF JobsOK

\* A job without a transfer id.
LEMMA FreshJob ==
  ASSUME NEW j \in Job, j.tid = 0, OnlyGrows,
         j.pc \notin {"paid", "adopt", "submit", "reverse", "reversed", "unreversed"},
         j.pc \in {"again", "take"} => reversal' # "none"
  PROVE  JobIsBacked(j, Len(sent'), reversal', reversed')
BY DEF JobIsBacked, OnlyGrows

LEMMA IdleJob == Idle \in Job /\ Idle.tid = 0 /\ Idle.pc = "idle"
BY DEF Idle, Job, Pc, Goal, Destination

LEMMA StopKeeps ==
  ASSUME JobsOK, OnlyGrows, NEW w \in Worker, Stop(w)
  PROVE  JobsOK'
<1>1. Set(w, Idle)
  BY DEF Stop
<1>2. JobIsBacked(Idle, Len(sent'), reversal', reversed')
  BY IdleJob, FreshJob
<1> QED
  BY <1>1, <1>2, IdleJob, SetKeeps

LEMMA BeginKeeps ==
  ASSUME JobsOK, OnlyGrows, NEW w \in Worker,
         NEW pc \in Pc \ {"paid", "adopt", "submit", "reverse", "reversed", "unreversed"},
         NEW goal \in Goal, Begin(w, pc, goal),
         pc \in {"again", "take"} => reversal' # "none"
  PROVE  JobsOK'
<1> DEFINE j == [Idle EXCEPT !.pc = pc, !.goal = goal]
<1>1. j \in Job /\ j.tid = 0 /\ j.pc = pc
  BY DEF Idle, Job, Destination
<1>2. Set(w, j)
  BY DEF Begin
<1>3. JobIsBacked(j, Len(sent'), reversal', reversed')
  BY <1>1, FreshJob
<1> QED
  BY <1>1, <1>2, <1>3, SetKeeps

\* Where a job may go on with the transfer id it holds.
MayGo(j, pc) ==
  /\ pc \in {"paid", "adopt", "submit", "reverse"} => j.tid # 0
  /\ pc \in {"again", "take", "submit", "reverse", "reversed", "unreversed"}
       => reversal' # "none"
  /\ pc = "reversed" => reversed' # {}

LEMMA GotoKeeps ==
  ASSUME JobsOK, OnlyGrows, NEW w \in Worker, NEW pc \in Pc, Goto(w, pc),
         MayGo(job[w], pc)
  PROVE  JobsOK'
<1> DEFINE j == [job[w] EXCEPT !.pc = pc]
<1>1. job[w] \in Job /\ job[w].tid <= Len(sent)
  BY DEF JobsOK, JobIsBacked
<1>2. j \in Job /\ j.tid = job[w].tid /\ j.pc = pc /\ job[w].tid \in Nat
  BY <1>1 DEF Job
<1>3. Set(w, j)
  BY DEF Goto
<1>4. JobIsBacked(j, Len(sent'), reversal', reversed')
  BY <1>1, <1>2 DEF JobIsBacked, MayGo, OnlyGrows
<1> QED
  BY <1>2, <1>3, <1>4, SetKeeps

\* A job takes hold of one of Stripe's transfers.
LEMMA TakeKeeps ==
  ASSUME JobsOK, OnlyGrows, NEW w \in Worker, NEW pc \in {"adopt", "paid", "submit"},
         NEW t \in Nat, t # 0, t <= Len(sent'), pc = "submit" => reversal' # "none",
         Set(w, [job[w] EXCEPT !.pc = pc, !.tid = t])
  PROVE  JobsOK'
<1> DEFINE j == [job[w] EXCEPT !.pc = pc, !.tid = t]
<1>1. job[w] \in Job
  BY DEF JobsOK
<1>2. j \in Job /\ j.tid = t /\ j.pc = pc
  BY <1>1 DEF Job, Pc
<1>3. JobIsBacked(j, Len(sent'), reversal', reversed')
  BY <1>2 DEF JobIsBacked
<1> QED
  BY <1>2, <1>3, SetKeeps

-----------------------------------------------------------------------------
(* What a step leaves alone.                                               *)

LEMMA DataStays ==
  ASSUME DataOK, UNCHANGED <<database, stripe>>, errors' \in Nat
  PROVE  DataOK'
BY DEF DataOK, RowOK, StripeOK, RefundOK, OtherOK, database, stripe

LEMMA FaultIsCounted ==
  ASSUME OtherOK, Works \/ \E f \in Fault : Fails(f)
  PROVE  errors' \in Nat
BY DEF OtherOK, Works, Fails

\* A handler writes the row.
LEMMA RowIsWritten ==
  ASSUME DataOK, UNCHANGED <<vendor, charge, refunded, reversal, stripe, errors>>,
         RowOK'
  PROVE  DataOK'
BY DEF DataOK, StripeOK, RefundOK, OtherOK, stripe

-----------------------------------------------------------------------------
(* Steps that only move a job: requests, reads and answers from Stripe.    *)

\* What every step below starts from; w is the worker that moves.
LEMMA HeldJob ==
  ASSUME JobsOK, NEW w \in Worker
  PROVE  job[w] \in Job /\ job[w].goal \in Goal /\ job[w].key \in Nat
         /\ job[w].dest \in Destination /\ job[w].tid \in Nat
BY DEF JobsOK, Job

\* A job after a step.
LEMMA JobIsSet ==
  ASSUME JobsOK, NEW w \in Worker, NEW j, Set(w, j)
  PROVE  job'[w] = j
BY DEF JobsOK, Set

LEMMA BeginSets ==
  ASSUME JobsOK, NEW w \in Worker, NEW pc, NEW goal, Begin(w, pc, goal)
  PROVE  job'[w].pc = pc /\ job'[w].goal = goal
BY JobIsSet DEF Begin, Idle

LEMMA GotoSets ==
  ASSUME JobsOK, NEW w \in Worker, NEW pc, Goto(w, pc)
  PROVE  job'[w] = [job[w] EXCEPT !.pc = pc] /\ job'[w].pc = pc
         /\ job'[w].goal = job[w].goal /\ job'[w].dest = job[w].dest
<1>1. job'[w] = [job[w] EXCEPT !.pc = pc]
  BY JobIsSet DEF Goto
<1>2. job[w] \in Job
  BY DEF JobsOK
<1> QED
  BY <1>1, <1>2 DEF Job

\* The row's fields, when they are typed.
LEMMA RowTyped ==
  ASSUME DataOK
  PROVE  /\ row \in Row /\ row.status \in Status /\ row.reason \in Reason
         /\ row.tid \in Nat /\ row.dest \in Destination
         /\ row.status = "paid" => row.tid # 0
BY DEF DataOK, RowOK, Row

LEMMA SentLength ==
  ASSUME DataOK
  PROVE  /\ sent \in Seq(Destination) /\ Len(sent) \in Nat
         /\ sent = <<>> <=> Len(sent) = 0
         /\ DOMAIN sent = 1 .. Len(sent)
BY DEF DataOK, StripeOK

LEMMA QuietStep ==
  ASSUME DataOK, UNCHANGED <<database, stripe, errors>>
  PROVE  OnlyGrows /\ DataOK'
<1>1. UNCHANGED <<sent, reversal, reversed>> /\ StripeOK /\ errors' \in Nat
  BY DEF database, stripe, DataOK, OtherOK
<1> QED
  BY <1>1, NothingGrows, DataStays

LEMMA FaultyStep ==
  ASSUME DataOK, UNCHANGED <<database, stripe>>, Works \/ \E f \in Fault : Fails(f)
  PROVE  OnlyGrows /\ DataOK'
<1>1. UNCHANGED <<sent, reversal, reversed>> /\ StripeOK /\ OtherOK
  BY DEF database, stripe, DataOK
<1> QED
  BY <1>1, NothingGrows, FaultIsCounted, DataStays

LEMMA AskStep ==
  ASSUME JobsOK, DataOK, NEW w \in Worker, NEW kind \in Kind,
         NEW pc \in {"list", "recheck", "retry", "lookup"}, Ask(w, kind, pc)
  PROVE  JobsOK' /\ DataOK'
<1>1. Begin(w, pc, kind) /\ kind \in Goal /\ pc \in Pc
  BY DEF Ask, Goal, Pc
<1>2. OnlyGrows /\ DataOK'
  BY QuietStep DEF Ask
<1> QED
  BY <1>1, <1>2, BeginKeeps

LEMMA AskNewKeyStep ==
  ASSUME JobsOK, DataOK, NEW w \in Worker, AskNewKey(w)
  PROVE  JobsOK' /\ DataOK'
<1> DEFINE j == [Idle EXCEPT !.pc = "lookup", !.goal = "rotate", !.key = row.key]
<1>1. OnlyGrows /\ DataOK' /\ Set(w, j)
  BY QuietStep DEF AskNewKey
<1>2. row.key \in Nat
  BY DEF DataOK, RowOK, Row
<1>3. j \in Job /\ j.tid = 0 /\ j.pc = "lookup"
  BY <1>2 DEF Idle, Job, Pc, Goal, Kind, Destination
<1>4. JobIsBacked(j, Len(sent'), reversal', reversed')
  BY <1>1, <1>3, FreshJob
<1> QED
  BY <1>1, <1>3, <1>4, SetKeeps

LEMMA RequestStep ==
  ASSUME JobsOK, DataOK, NEW w \in Worker, Request(w)
  PROVE  JobsOK' /\ DataOK'
<1>1. CASE Ask(w, "auto", "list")
  BY <1>1, AskStep DEF Kind
<1>2. CASE Cron(w)
  BY <1>2, AskStep DEF Kind, Cron
<1>3. CASE Ask(w, "batch", "recheck")
  BY <1>3, AskStep DEF Kind
<1>4. CASE Ask(w, "recheck", "recheck")
  BY <1>4, AskStep DEF Kind
<1>5. CASE Ask(w, "retry", "retry")
  BY <1>5, AskStep DEF Kind
<1>6. CASE Ask(w, "reconcile", "lookup")
  BY <1>6, AskStep DEF Kind
<1> QED
  BY <1>1, <1>2, <1>3, <1>4, <1>5, <1>6, AskNewKeyStep DEF Request

\* The job that comes out of a recheck.
LEMMA AfterRecheckKeeps ==
  ASSUME JobsOK, OnlyGrows, NEW w \in Worker, AfterRecheck(w)
  PROVE  JobsOK'
<1>1. CASE job[w].goal = "recheck"
  BY <1>1, StopKeeps DEF AfterRecheck
<1>2. CASE job[w].goal # "recheck"
  <2>1. Begin(w, "list", job[w].goal)
    BY <1>2 DEF AfterRecheck, Begin
  <2> QED
    BY <2>1, HeldJob, BeginKeeps DEF Pc
<1> QED
  BY <1>1, <1>2

LEMMA ReEvaluateStep ==
  ASSUME JobsOK, DataOK, NEW w \in Worker, ReEvaluate(w)
  PROVE  JobsOK' /\ DataOK'
<1>1. OnlyGrows /\ DataOK'
  BY QuietStep DEF ReEvaluate
<1>2. CASE AfterRecheck(w)
  BY <1>1, <1>2, AfterRecheckKeeps
<1>3. CASE ~AfterRecheck(w)
  <2> DEFINE j == [job[w] EXCEPT !.dest = vendor,
                     !.pc = IF vendor = NoAccount THEN "block" ELSE "promote"]
  <2>1. Set(w, j)
    BY <1>3 DEF ReEvaluate
  <2>2. vendor \in Destination
    BY DEF DataOK, OtherOK
  <2>3. j \in Job /\ j.tid = job[w].tid /\ j.pc \in {"block", "promote"}
    BY <2>2, HeldJob DEF Job, Pc
  <2>4. job[w].tid <= Len(sent)
    BY DEF JobsOK, JobIsBacked
  <2>5. JobIsBacked(j, Len(sent'), reversal', reversed')
    BY <1>1, <2>3, <2>4, HeldJob DEF JobIsBacked, OnlyGrows
  <2> QED
    BY <1>1, <2>1, <2>3, <2>5, SetKeeps
<1> QED
  BY <1>2, <1>3

LEMMA ListEligibleStep ==
  ASSUME JobsOK, DataOK, NEW w \in Worker, ListEligible(w)
  PROVE  JobsOK' /\ DataOK'
<1>1. OnlyGrows /\ DataOK'
  BY FaultyStep DEF ListEligible, Fault
<1>2. Stop(w) \/ Begin(w, "read", "execute") \/ Begin(w, "retry", "retry")
  BY DEF ListEligible
<1> QED
  BY <1>1, <1>2, StopKeeps, BeginKeeps DEF Pc, Goal, Kind

LEMMA ReadForExecutionStep ==
  ASSUME JobsOK, DataOK, NEW w \in Worker, ReadForExecution(w)
  PROVE  JobsOK' /\ DataOK'
<1> DEFINE j == [Idle EXCEPT !.pc = "lookup", !.goal = "execute",
                             !.key = row.key, !.dest = row.dest]
<1>1. OnlyGrows /\ DataOK' /\ (Set(w, j) \/ Stop(w))
  BY QuietStep DEF ReadForExecution
<1>2. row.key \in Nat /\ row.dest \in Destination
  BY DEF DataOK, RowOK, Row
<1>3. j \in Job /\ j.tid = 0 /\ j.pc = "lookup"
  BY <1>2 DEF Idle, Job, Pc, Goal
<1>4. JobIsBacked(j, Len(sent'), reversal', reversed')
  BY <1>1, <1>3, FreshJob
<1> QED
  BY <1>1, <1>3, <1>4, SetKeeps, StopKeeps

LEMMA ReadForRetryStep ==
  ASSUME JobsOK, DataOK, NEW w \in Worker, ReadForRetry(w)
  PROVE  JobsOK' /\ DataOK'
<1>1. OnlyGrows /\ DataOK'
  BY QuietStep DEF ReadForRetry
<1>2. Stop(w) \/ Goto(w, "mismatch") \/ Begin(w, "lookup", "retry")
  BY DEF ReadForRetry
<1>3. MayGo(job[w], "mismatch")
  BY DEF MayGo
<1> QED
  BY <1>1, <1>2, <1>3, StopKeeps, GotoKeeps, BeginKeeps DEF Pc, Goal, Kind

LEMMA ReconcileRowStep ==
  ASSUME JobsOK, DataOK, NEW w \in Worker, ReconcileRow(w)
  PROVE  JobsOK' /\ DataOK'
<1>1. OnlyGrows /\ DataOK'
  BY FaultyStep DEF ReconcileRow, Fault
<1>2. CASE \E t \in DOMAIN sent : Set(w, [job[w] EXCEPT !.pc = "adopt", !.tid = t])
  <2>1. PICK t \in DOMAIN sent : Set(w, [job[w] EXCEPT !.pc = "adopt", !.tid = t])
    BY <1>2
  <2>2. t \in Nat /\ t # 0 /\ t <= Len(sent')
    BY <1>1, <2>1 DEF DataOK, StripeOK, OnlyGrows
  <2> QED
    BY <1>1, <2>1, <2>2, TakeKeeps
<1>3. CASE \E notFound \in BOOLEAN : Unsettled(w, notFound)
  <2>1. Stop(w) \/ Goto(w, "charge") \/ Goto(w, "requeue") \/ Goto(w, "rotate")
    BY <1>3 DEF Unsettled
  <2>2. MayGo(job[w], "charge") /\ MayGo(job[w], "requeue") /\ MayGo(job[w], "rotate")
    BY DEF MayGo
  <2> QED
    BY <1>1, <2>1, <2>2, StopKeeps, GotoKeeps DEF Pc
<1>4. \/ \E t \in DOMAIN sent : Set(w, [job[w] EXCEPT !.pc = "adopt", !.tid = t])
      \/ \E notFound \in BOOLEAN : Unsettled(w, notFound)
  BY DEF ReconcileRow
<1> QED
  BY <1>2, <1>3, <1>4

LEMMA BalanceIsUnavailableStep ==
  ASSUME JobsOK, DataOK, NEW w \in Worker, BalanceIsUnavailable(w)
  PROVE  JobsOK' /\ DataOK'
<1>1. OnlyGrows /\ DataOK' /\ Stop(w)
  BY FaultyStep DEF BalanceIsUnavailable, Fault
<1> QED
  BY <1>1, StopKeeps

LEMMA ResolveChargeStep ==
  ASSUME JobsOK, DataOK, NEW w \in Worker, ResolveCharge(w)
  PROVE  JobsOK' /\ DataOK'
<1>1. OnlyGrows
  BY NothingGrows DEF ResolveCharge, stripe, DataOK
<1>2. errors' \in Nat
  BY FaultIsCounted DEF ResolveCharge, DataOK, Fault
<1>3. DataOK'
  BY <1>2 DEF ResolveCharge, DataOK, RowOK, StripeOK, RefundOK, OtherOK, stripe
<1>4. CASE Set(w, [job[w] EXCEPT !.pc = "send", !.charge = TRUE])
  <2> DEFINE j == [job[w] EXCEPT !.pc = "send", !.charge = TRUE]
  <2>1. j \in Job /\ j.tid = job[w].tid /\ j.pc = "send"
    BY HeldJob DEF Job, Pc
  <2>2. job[w].tid <= Len(sent)
    BY DEF JobsOK, JobIsBacked
  <2>3. JobIsBacked(j, Len(sent'), reversal', reversed')
    BY <1>1, <2>1, <2>2, HeldJob DEF JobIsBacked, OnlyGrows
  <2> QED
    BY <1>1, <1>3, <1>4, <2>1, <2>3, SetKeeps
<1>5. CASE Goto(w, "send") \/ Goto(w, "insufficient") \/ Stop(w)
  <2>1. MayGo(job[w], "send") /\ MayGo(job[w], "insufficient")
    BY DEF MayGo
  <2> QED
    BY <1>1, <1>3, <1>5, <2>1, StopKeeps, GotoKeeps DEF Pc
<1> QED
  BY <1>4, <1>5 DEF ResolveCharge

-----------------------------------------------------------------------------
(* Stripe's answers to a transfer.                                         *)

LEMMA AnswerTyped ==
  ASSUME JobsOK, NEW w \in Worker, NEW t \in Nat
  PROVE  /\ Answer(w, t) \in [key : Nat, dest : Destination, charge : BOOLEAN, tid : Nat]
         /\ Answer(w, t).tid = t
<1>1. job[w] \in Job
  BY DEF JobsOK
<1> QED
  BY <1>1 DEF Answer, Job

LEMMA TransferIsMadeStep ==
  ASSUME JobsOK, DataOK, NEW w \in Worker, TransferIsMade(w)
  PROVE  JobsOK' /\ DataOK'
<1> DEFINE t == Len(sent) + 1
<1>1. sent \in Seq(Destination) /\ job[w].dest \in Destination /\ Len(sent) \in Nat
  BY HeldJob DEF DataOK, StripeOK
<1>2. sent' = Append(sent, job[w].dest)
  BY DEF TransferIsMade
<1>3. sent' \in Seq(Destination) /\ Len(sent') = t /\ DOMAIN sent \subseteq DOMAIN sent'
  BY <1>1, <1>2
<1>4. OnlyGrows
  BY <1>1, <1>3 DEF OnlyGrows, TransferIsMade, database
<1>5. errors' \in Nat
  BY FaultIsCounted DEF TransferIsMade, DataOK, Fault
<1>6. StripeOK'
  <2>1. remembered' = remembered \cup {Answer(w, t)}
    BY DEF TransferIsMade
  <2>2. /\ Answer(w, t) \in [key : Nat, dest : Destination, charge : BOOLEAN, tid : Nat]
        /\ Answer(w, t).tid = t
    BY <1>1, AnswerTyped
  <2>3. \A m \in remembered : m.tid \in Nat /\ m.tid <= Len(sent)
    BY DEF DataOK, StripeOK
  <2>4. \A m \in remembered' : m.tid <= Len(sent')
    BY <2>1, <2>2, <2>3, <1>1, <1>3
  <2>5. remembered' \subseteq [key : Nat, dest : Destination, charge : BOOLEAN, tid : Nat]
    BY <2>1, <2>2 DEF DataOK, StripeOK
  <2>6. reversed' \subseteq DOMAIN sent'
    BY <1>3 DEF DataOK, StripeOK, TransferIsMade
  <2> QED
    BY <1>3, <2>4, <2>5, <2>6 DEF StripeOK
<1>7. RowOK'
  <2>1. UNCHANGED row /\ row.tid \in Nat
    BY DEF TransferIsMade, database, DataOK, RowOK, Row
  <2> QED
    BY <1>1, <1>3, <2>1 DEF DataOK, RowOK
<1>8. DataOK'
  BY <1>5, <1>6, <1>7 DEF DataOK, RefundOK, OtherOK, TransferIsMade, database
<1>9. CASE Set(w, [job[w] EXCEPT !.pc = "paid", !.tid = t])
  <2>1. t \in Nat /\ t # 0 /\ t <= Len(sent')
    BY <1>1, <1>3
  <2> HIDE DEF t
  <2> QED
    BY <1>4, <1>8, <1>9, <2>1, TakeKeeps
<1>10. CASE Goto(w, "failed")
  <2>1. MayGo(job[w], "failed")
    BY DEF MayGo
  <2> QED
    BY <1>4, <1>8, <1>10, <2>1, GotoKeeps DEF Pc
<1> QED
  BY <1>9, <1>10 DEF TransferIsMade

LEMMA TransferIsRefusedStep ==
  ASSUME JobsOK, DataOK, NEW w \in Worker, TransferIsRefused(w)
  PROVE  JobsOK' /\ DataOK'
<1>1. OnlyGrows
  BY NothingGrows DEF TransferIsRefused, database, DataOK
<1>2. errors' \in Nat
  BY FaultIsCounted DEF TransferIsRefused, DataOK, Fault
<1>3. StripeOK'
  <2>1. remembered' \subseteq remembered \cup {Answer(w, 0)}
    BY DEF TransferIsRefused
  <2>2. /\ Answer(w, 0) \in [key : Nat, dest : Destination, charge : BOOLEAN, tid : Nat]
        /\ Answer(w, 0).tid = 0
    BY AnswerTyped
  <2>3. UNCHANGED <<sent, reversed>> /\ Len(sent) \in Nat
    BY DEF TransferIsRefused, DataOK, StripeOK
  <2>4. \A m \in remembered' : m.tid <= Len(sent')
    BY <2>1, <2>2, <2>3 DEF DataOK, StripeOK
  <2> QED
    BY <2>1, <2>2, <2>3, <2>4 DEF DataOK, StripeOK
<1>4. DataOK'
  BY <1>2, <1>3 DEF DataOK, RowOK, RefundOK, OtherOK, TransferIsRefused, database
<1>5. MayGo(job[w], "failed") /\ MayGo(job[w], "insufficient")
  BY DEF MayGo
<1> QED
  BY <1>1, <1>4, <1>5, GotoKeeps DEF TransferIsRefused, Pc

LEMMA TransferIsRepeatedStep ==
  ASSUME JobsOK, DataOK, NEW w \in Worker, TransferIsRepeated(w)
  PROVE  JobsOK' /\ DataOK'
<1>1. OnlyGrows /\ DataOK'
  BY FaultyStep DEF TransferIsRepeated, Fault
<1>2. PICK m \in Answers(w) : \/ /\ m.tid # 0
                                  /\ Set(w, [job[w] EXCEPT !.pc = "paid", !.tid = m.tid])
                               \/ Goto(w, "failed")
  BY DEF TransferIsRepeated
<1>3. CASE Goto(w, "failed")
  <2>1. MayGo(job[w], "failed")
    BY DEF MayGo
  <2> QED
    BY <1>1, <1>3, <2>1, GotoKeeps DEF Pc
<1>4. CASE m.tid # 0 /\ Set(w, [job[w] EXCEPT !.pc = "paid", !.tid = m.tid])
  <2>1. m \in remembered
    BY <1>2 DEF Answers
  <2>2. m.tid \in Nat /\ m.tid <= Len(sent)
    BY <2>1 DEF DataOK, StripeOK
  <2>3. m.tid <= Len(sent')
    BY <1>1, <2>2 DEF OnlyGrows
  <2> QED
    BY <1>1, <1>4, <2>2, <2>3, TakeKeeps
<1> QED
  BY <1>2, <1>3, <1>4

LEMMA TransferMismatchesStep ==
  ASSUME JobsOK, DataOK, NEW w \in Worker, TransferMismatches(w)
  PROVE  JobsOK' /\ DataOK'
<1>1. OnlyGrows /\ DataOK' /\ Goto(w, "mismatch")
  BY QuietStep DEF TransferMismatches
<1>2. MayGo(job[w], "mismatch")
  BY DEF MayGo
<1> QED
  BY <1>1, <1>2, GotoKeeps DEF Pc

LEMMA PaidWriteFailsStep ==
  ASSUME JobsOK, DataOK, NEW w \in Worker, PaidWriteFails(w)
  PROVE  JobsOK' /\ DataOK'
<1>1. OnlyGrows /\ DataOK' /\ Goto(w, "failed")
  BY FaultyStep DEF PaidWriteFails, Fault
<1>2. MayGo(job[w], "failed")
  BY DEF MayGo
<1> QED
  BY <1>1, <1>2, GotoKeeps DEF Pc

-----------------------------------------------------------------------------
(* Steps that write the row.                                               *)

\* A step that writes the row and nothing else.
RowStep == UNCHANGED <<vendor, charge, refunded, reversal, stripe, errors>>

LEMMA RowStepGrows ==
  ASSUME DataOK, RowStep
  PROVE  OnlyGrows /\ UNCHANGED sent
<1>1. UNCHANGED <<sent, reversal, reversed>> /\ StripeOK
  BY DEF RowStep, stripe, DataOK
<1> QED
  BY <1>1, NothingGrows

\* A handler writes a status other than "paid", with a reason, a key or an account
\* besides: the transfer's id stays.
StatusWrite == row' \in Row /\ row'.tid = row.tid /\ row'.status # "paid"

LEMMA StatusStep ==
  ASSUME DataOK, RowStep, StatusWrite
  PROVE  OnlyGrows /\ DataOK'
<1>1. RowOK'
  BY RowStepGrows DEF DataOK, RowOK, StatusWrite
<1> QED
  BY <1>1, RowStepGrows, RowIsWritten DEF RowStep

LEMMA BlockRowStep ==
  ASSUME JobsOK, DataOK, NEW w \in Worker, BlockRow(w)
  PROVE  JobsOK' /\ DataOK'
<1>1. StatusWrite
  BY DEF StatusWrite, BlockRow, DataOK, RowOK, Row, Status, Reason, Destination
<1>2. OnlyGrows /\ DataOK'
  BY <1>1, StatusStep DEF BlockRow, RowStep
<1> QED
  BY <1>2, AfterRecheckKeeps DEF BlockRow

LEMMA PromoteRowStep ==
  ASSUME JobsOK, DataOK, NEW w \in Worker, PromoteRow(w)
  PROVE  JobsOK' /\ DataOK'
<1>1. StatusWrite
  BY HeldJob DEF StatusWrite, PromoteRow, DataOK, RowOK, Row, Status, Reason
<1>2. OnlyGrows /\ DataOK'
  BY <1>1, StatusStep DEF PromoteRow, RowStep
<1> QED
  BY <1>2, AfterRecheckKeeps DEF PromoteRow

LEMMA RequeueStep ==
  ASSUME JobsOK, DataOK, NEW w \in Worker, Requeue(w)
  PROVE  JobsOK' /\ DataOK'
<1>1. StatusWrite
  BY DEF StatusWrite, Requeue, DataOK, RowOK, Row, Status, Reason
<1>2. OnlyGrows /\ DataOK'
  BY <1>1, StatusStep DEF Requeue, RowStep
<1> QED
  BY <1>2, BeginKeeps DEF Requeue, Pc, Goal

LEMMA RotateKeyStep ==
  ASSUME JobsOK, DataOK, NEW w \in Worker, RotateKey(w)
  PROVE  JobsOK' /\ DataOK'
<1>1. job[w].key + 1 \in Nat
  BY HeldJob
<1>2. StatusWrite
  BY <1>1 DEF StatusWrite, RotateKey, DataOK, RowOK, Row, Status, Reason
<1>3. OnlyGrows /\ DataOK'
  BY <1>2, StatusStep DEF RotateKey, RowStep
<1> QED
  BY <1>3, BeginKeeps DEF RotateKey, Pc, Goal

LEMMA MarkPaidStep ==
  ASSUME JobsOK, DataOK, NEW w \in Worker, MarkPaid(w)
  PROVE  JobsOK' /\ DataOK'
<1>1. RowStep /\ Stop(w)
  BY DEF MarkPaid, RowStep
<1>2. OnlyGrows /\ UNCHANGED sent
  BY <1>1, RowStepGrows
<1>3. job[w].tid \in Nat /\ job[w].tid # 0 /\ job[w].tid <= Len(sent)
  BY HeldJob DEF MarkPaid, JobsOK, JobIsBacked
<1>4. row' = [row EXCEPT !.status = "paid", !.tid = job[w].tid, !.reason = "none"]
  BY DEF MarkPaid
<1>5. row' \in Row /\ row'.tid = job[w].tid
  BY <1>3, <1>4 DEF DataOK, RowOK, Row, Status, Reason
<1>6. RowOK'
  BY <1>2, <1>3, <1>5 DEF RowOK
<1> QED
  BY <1>1, <1>2, <1>6, RowIsWritten, StopKeeps DEF RowStep

LEMMA MarkFailedStep ==
  ASSUME JobsOK, DataOK, NEW w \in Worker, MarkFailed(w)
  PROVE  JobsOK' /\ DataOK'
<1>1. StatusWrite
  BY DEF StatusWrite, MarkFailed, DataOK, RowOK, Row, Status
<1>2. OnlyGrows /\ DataOK'
  BY <1>1, StatusStep DEF MarkFailed, RowStep
<1> QED
  BY <1>2, StopKeeps DEF MarkFailed

LEMMA MarkBlockedStep ==
  ASSUME JobsOK, DataOK, NEW w \in Worker,
         markBlockedInsufficientBalance(w) \/ markBlockedIdempotencyMismatch(w)
  PROVE  JobsOK' /\ DataOK'
<1>1. RowStep /\ Stop(w)
  BY DEF RowStep, markBlockedInsufficientBalance, markBlockedIdempotencyMismatch
<1>2. StatusWrite
  BY DEF StatusWrite, markBlockedInsufficientBalance, markBlockedIdempotencyMismatch,
         DataOK, RowOK, Row, Status, Reason
<1> QED
  BY <1>1, <1>2, StatusStep, StopKeeps

LEMMA RefundWriteStep ==
  ASSUME JobsOK, DataOK, NEW w \in Worker, CancelTransfer(w) \/ BlockForReview(w)
  PROVE  JobsOK' /\ DataOK'
<1>1. RowStep /\ Goto(w, "prepare")
  BY DEF RowStep, CancelTransfer, BlockForReview
<1>2. StatusWrite
  BY DEF StatusWrite, CancelTransfer, BlockForReview, DataOK, RowOK, Row, Status, Reason
<1>3. OnlyGrows /\ DataOK'
  BY <1>1, <1>2, StatusStep
<1>4. MayGo(job[w], "prepare")
  BY DEF MayGo
<1> QED
  BY <1>1, <1>3, <1>4, GotoKeeps DEF Pc

-----------------------------------------------------------------------------
(* Refunds and reversals.                                                  *)

LEMMA RefundSucceedsStep ==
  ASSUME JobsOK, DataOK, NEW w \in Worker, RefundSucceeds(w)
  PROVE  JobsOK' /\ DataOK'
<1>1. OnlyGrows
  BY NothingGrows DEF RefundSucceeds, stripe, DataOK
<1>2. RefundOK'
  BY DEF RefundSucceeds, stripe, DataOK, RefundOK, Refunded
<1>3. DataOK'
  BY <1>2 DEF RefundSucceeds, stripe, DataOK, RowOK, StripeOK, OtherOK
<1> QED
  BY <1>1, <1>3, BeginKeeps DEF RefundSucceeds, Pc, Goal, Kind

LEMMA SyncEligibilityStep ==
  ASSUME JobsOK, DataOK, NEW w \in Worker, SyncEligibility(w)
  PROVE  JobsOK' /\ DataOK'
<1>1. OnlyGrows /\ DataOK'
  BY QuietStep DEF SyncEligibility
<1>2. Goto(w, "prepare") \/ Goto(w, "review") \/ Goto(w, "cancel")
  BY DEF SyncEligibility
<1>3. MayGo(job[w], "prepare") /\ MayGo(job[w], "review") /\ MayGo(job[w], "cancel")
  BY DEF MayGo
<1> QED
  BY <1>1, <1>2, <1>3, GotoKeeps DEF Pc

\* A step that writes the reversal row and nothing else.
ReversalWrite ==
  /\ UNCHANGED <<row, vendor, charge, refunded, stripe, errors>>
  /\ reversal' \in Reversal
  /\ reversal' # reversal => reversal' # "none" /\ refunded = "full"
  /\ reversal' = "reversed" => reversed # {}

LEMMA ReversalStep ==
  ASSUME DataOK, ReversalWrite
  PROVE  OnlyGrows /\ DataOK'
<1>1. UNCHANGED <<sent, reversed>> /\ StripeOK
  BY DEF ReversalWrite, stripe, DataOK
<1>2. OnlyGrows
  BY <1>1 DEF OnlyGrows, StripeOK, ReversalWrite
<1>3. RefundOK'
  BY <1>1 DEF DataOK, RefundOK, ReversalWrite
<1>4. DataOK'
  BY <1>3 DEF DataOK, RowOK, StripeOK, OtherOK, ReversalWrite, stripe
<1> QED
  BY <1>2, <1>4

LEMMA PrepareReversalStep ==
  ASSUME JobsOK, DataOK, NEW w \in Worker, PrepareReversal(w)
  PROVE  JobsOK' /\ DataOK'
<1>1. ReversalWrite
  BY DEF ReversalWrite, PrepareReversal, DataOK, RefundOK, Reversal
<1> QED
  BY <1>1, ReversalStep, StopKeeps DEF PrepareReversal

LEMMA AskReversalStep ==
  ASSUME JobsOK, DataOK, NEW w \in Worker, AskReversal(w)
  PROVE  JobsOK' /\ DataOK'
<1>1. OnlyGrows /\ DataOK' /\ UNCHANGED reversal
  BY QuietStep DEF AskReversal, database
<1>2. \/ reversal # "none" /\ (Begin(w, "take", "reverse") \/ Begin(w, "again", "reverse"))
      \/ Begin(w, "prepare", "reverse")
  BY DEF AskReversal
<1> QED
  BY <1>1, <1>2, BeginKeeps DEF Pc, Goal, Kind

LEMMA ReverseAgainStep ==
  ASSUME JobsOK, DataOK, NEW w \in Worker, ReverseAgain(w)
  PROVE  JobsOK' /\ DataOK'
<1>1. Goto(w, "take") /\ reversal # "none" /\ reversal' = "pending"
  BY DEF ReverseAgain, ReversalIs, At, JobsOK, JobIsBacked
<1>2. ReversalWrite
  BY <1>1 DEF ReversalWrite, ReverseAgain, ReversalIs, DataOK, RefundOK, Reversal
<1>3. MayGo(job[w], "take")
  BY <1>1 DEF MayGo
<1> QED
  BY <1>1, <1>2, <1>3, ReversalStep, GotoKeeps DEF Pc

LEMMA TakeReversalStep ==
  ASSUME JobsOK, DataOK, NEW w \in Worker, TakeReversal(w)
  PROVE  JobsOK' /\ DataOK'
<1>1. OnlyGrows /\ DataOK'
  BY QuietStep DEF TakeReversal
<1>2. reversal' # "none"
  BY <1>1 DEF OnlyGrows, TakeReversal, At, JobsOK, JobIsBacked
<1>3. row.tid \in Nat /\ row.tid <= Len(sent')
  BY <1>1 DEF DataOK, RowOK, Row, OnlyGrows
<1>4. CASE Stop(w)
  BY <1>1, <1>4, StopKeeps
<1>5. CASE row.tid # 0 /\ Set(w, [job[w] EXCEPT !.pc = "submit", !.tid = row.tid])
  BY <1>1, <1>2, <1>3, <1>5, TakeKeeps
<1> QED
  BY <1>4, <1>5 DEF TakeReversal

LEMMA SubmitReversalStep ==
  ASSUME JobsOK, DataOK, NEW w \in Worker, SubmitReversal(w)
  PROVE  JobsOK' /\ DataOK'
<1>1. Goto(w, "reverse") /\ job[w].tid # 0 /\ reversal # "none" /\ reversal' = "submitted"
  BY DEF SubmitReversal, ReversalIs, At, JobsOK, JobIsBacked
<1>2. ReversalWrite
  BY <1>1 DEF ReversalWrite, SubmitReversal, ReversalIs, DataOK, RefundOK, Reversal
<1>3. MayGo(job[w], "reverse")
  BY <1>1 DEF MayGo
<1> QED
  BY <1>1, <1>2, <1>3, ReversalStep, GotoKeeps DEF Pc

LEMMA CallReversalStep ==
  ASSUME JobsOK, DataOK, NEW w \in Worker, CallReversal(w)
  PROVE  JobsOK' /\ DataOK'
<1>1. /\ job[w].tid \in Nat /\ job[w].tid # 0 /\ job[w].tid <= Len(sent)
      /\ reversal # "none"
  BY HeldJob DEF CallReversal, At, JobsOK, JobIsBacked
<1>2. sent \in Seq(Destination) /\ job[w].tid \in DOMAIN sent
  BY <1>1 DEF DataOK, StripeOK
<1>3. /\ UNCHANGED <<database, sent, remembered>>
      /\ reversed' \in {reversed, reversed \cup {job[w].tid}}
  BY DEF CallReversal
<1>4. OnlyGrows
  BY <1>2, <1>3 DEF OnlyGrows, database
<1>5. StripeOK'
  BY <1>2, <1>3 DEF DataOK, StripeOK
<1>6. RefundOK'
  BY <1>1, <1>3 DEF DataOK, RefundOK, database
<1>7. errors' \in Nat
  BY FaultIsCounted DEF CallReversal, DataOK, Fault
<1>8. DataOK'
  BY <1>3, <1>5, <1>6, <1>7 DEF DataOK, RowOK, OtherOK, database
<1>9. CASE reversed' # {} /\ Goto(w, "reversed")
  <2>1. MayGo(job[w], "reversed")
    BY <1>1, <1>3, <1>9 DEF MayGo, database
  <2> QED
    BY <1>4, <1>8, <1>9, <2>1, GotoKeeps DEF Pc
<1>10. CASE Goto(w, "unreversed")
  <2>1. MayGo(job[w], "unreversed")
    BY <1>1, <1>3 DEF MayGo, database
  <2> QED
    BY <1>4, <1>8, <1>10, <2>1, GotoKeeps DEF Pc
<1> QED
  BY <1>9, <1>10 DEF CallReversal

LEMMA FinishReversalStep ==
  ASSUME JobsOK, DataOK, NEW w \in Worker, FinishReversal(w)
  PROVE  JobsOK' /\ DataOK'
<1>1. /\ Stop(w) /\ reversal # "none"
      /\ \/ reversal' = "reversed" /\ reversed # {}
         \/ reversal' = "failed"
  BY DEF FinishReversal, ReversalIs, At, JobsOK, JobIsBacked
<1>2. ReversalWrite
  BY <1>1 DEF ReversalWrite, FinishReversal, ReversalIs, DataOK, RefundOK, Reversal
<1> QED
  BY <1>1, <1>2, ReversalStep, StopKeeps

-----------------------------------------------------------------------------
(* The world, and every step.                                              *)

LEMMA CrashStep ==
  ASSUME JobsOK, DataOK, NEW w \in Worker, Crash(w)
  PROVE  JobsOK' /\ DataOK'
<1>1. OnlyGrows /\ DataOK' /\ Stop(w)
  BY FaultyStep DEF Crash, Fault
<1> QED
  BY <1>1, StopKeeps

LEMMA WorldStep ==
  ASSUME JobsOK, DataOK, VendorConnects \/ DashboardRefund \/ KeysExpire
  PROVE  JobsOK' /\ DataOK'
<1>1. UNCHANGED <<sent, reversal, reversed, job>>
  BY DEF VendorConnects, DashboardRefund, KeysExpire, database, stripe
<1>2. JobsOK'
  BY <1>1 DEF JobsOK
<1>3. DataOK'
  BY DEF VendorConnects, DashboardRefund, KeysExpire, database, stripe, DataOK, RowOK,
         StripeOK, RefundOK, OtherOK, Refunded
<1> QED
  BY <1>2, <1>3

LEMMA StutterStep ==
  ASSUME JobsOK, DataOK, UNCHANGED vars
  PROVE  JobsOK' /\ DataOK'
BY DEF vars, database, stripe, JobsOK, DataOK, RowOK, StripeOK, RefundOK, OtherOK

LEMMA JobStepKeeps ==
  ASSUME JobsOK, DataOK, NEW w \in Worker, JobStep(w)
  PROVE  JobsOK' /\ DataOK'
BY ReEvaluateStep, BlockRowStep, PromoteRowStep, ListEligibleStep, ReadForExecutionStep,
   ReadForRetryStep, ReconcileRowStep, BalanceIsUnavailableStep, RequeueStep,
   RotateKeyStep, ResolveChargeStep, TransferIsMadeStep, TransferIsRefusedStep,
   TransferIsRepeatedStep, TransferMismatchesStep, MarkPaidStep, PaidWriteFailsStep,
   MarkFailedStep, MarkBlockedStep, SyncEligibilityStep, RefundWriteStep,
   PrepareReversalStep, ReverseAgainStep, TakeReversalStep, SubmitReversalStep,
   CallReversalStep, FinishReversalStep
   DEF JobStep

LEMMA NextKeeps ==
  ASSUME JobsOK, DataOK, [Next]_vars
  PROVE  JobsOK' /\ DataOK'
<1>1. ASSUME NEW w \in Worker,
             Request(w) \/ RefundSucceeds(w) \/ AskReversal(w) \/ JobStep(w) \/ Crash(w)
      PROVE  JobsOK' /\ DataOK'
  BY <1>1, RequestStep, RefundSucceedsStep, AskReversalStep, JobStepKeeps, CrashStep
<1> QED
  BY <1>1, WorldStep, StutterStep DEF Next

LEMMA InitKeeps == Init => JobsOK /\ DataOK
<1> SUFFICES ASSUME Init PROVE JobsOK /\ DataOK
  OBVIOUS
<1>1. JobsOK
  <2>1. job = [w \in Worker |-> Idle] /\ sent = <<>>
    BY DEF Init
  <2>2. JobIsBacked(Idle, 0, reversal, reversed)
    BY IdleJob DEF JobIsBacked
  <2> QED
    BY <2>1, <2>2, IdleJob DEF JobsOK
<1>2. RowOK
  BY DEF RowOK, Init, NewRow, Row, Status, Reason
<1>3. StripeOK /\ RefundOK /\ OtherOK
  BY DEF StripeOK, RefundOK, OtherOK, Init, Refunded, Reversal
<1> QED
  BY <1>1, <1>2, <1>3 DEF DataOK

-----------------------------------------------------------------------------
\* The jobs and the data stay what they are said to be.
THEOREM JobsAndData == Spec => [](JobsOK /\ DataOK)
<1>1. JobsOK /\ DataOK /\ [Next]_vars => (JobsOK /\ DataOK)'
  BY NextKeeps
<1> QED
  BY InitKeeps, <1>1, PTL DEF Spec

\* The row, Stripe's side and the jobs keep their types under every interleaving and fault
\* (all actions of VendorPayouts).
THEOREM PayoutsAreTyped == Spec => []TypeOK
<1>1. JobsOK /\ DataOK => TypeOK
  BY Regroup
<1> QED
  BY JobsAndData, <1>1, PTL

\* Every transfer id that the row, a job or Stripe's memory holds is one of Stripe's, and
\* reversals are only worked on once a full refund made one due (all handlers).
THEOREM PayoutsAreBacked == Spec => []Backed
<1>1. JobsOK /\ DataOK => Backed
  BY Regroup
<1> QED
  BY JobsAndData, <1>1, PTL

\* A paid row names a transfer Stripe made, money is clawed back only after the whole vendor
\* order was refunded at once, and a reversal recorded as done was done, for any number of
\* overlapping invocations, faults and key rotations (executeVendorPayoutTransfer,
\* reconcileVendorPayoutTransfer, prepareTransferReversalsForRefundAttempt,
\* executeVendorPayoutTransferReversal).
THEOREM PaidRowsAreBacked == Spec => []PaidIsBacked
<1>1. JobsOK /\ DataOK => PaidIsBacked
  <2> SUFFICES ASSUME JobsOK, DataOK PROVE PaidIsBacked
    OBVIOUS
  <2>1. row.tid \in Nat /\ sent \in Seq(Destination)
    BY DEF DataOK, RowOK, Row, StripeOK
  <2> QED
    BY <2>1 DEF DataOK, RowOK, RefundOK, PaidIsBacked
<1> QED
  BY JobsAndData, <1>1, PTL

-----------------------------------------------------------------------------
(* One account, keys that Stripe keeps and one rotation: paid at most once.*)

OneAccount == \A a, b \in Account : a = b

KeysAreKept == "expiry" \notin Faults /\ MaxKey <= 1

\* The part of Guarded that is about the row and Stripe.
DataGuarded ==
  /\ row.key \in {0, 1}
  /\ row.key = 1 \/ isIdempotencyMismatchTransfer(row) \/ Standing # {} => Answered(0)
  /\ FirstStands => row.key = 0
  /\ \A t \in DOMAIN sent : sent[t] # NoAccount
  /\ \A s, t \in Standing : s = t

JobsGuarded == \A u \in Worker : JobIsGuarded(job[u])

LEMMA GuardParts == Guarded <=> DataGuarded /\ JobsGuarded
BY DEF Guarded, DataGuarded, JobsGuarded

\* What a step may do to what the guards of the other jobs say.
GuardsHold ==
  /\ Answered(0) => Answered(0)'
  /\ FirstStands' => FirstStands \/ ~Answered(0)

LEMMA GuardsOfOthers ==
  ASSUME NEW j, JobIsGuarded(j), GuardsHold
  PROVE  /\ j.key = 1 \/ j.goal = "rotate" \/ j.pc = "mismatch" => Answered(0)'
         /\ FirstStands' => j.key = 0 /\ j.pc # "rotate"
BY DEF JobIsGuarded, GuardsHold

\* JobIsGuarded of a job after the step.
JobIsGuardedNext(j) ==
  /\ j.key \in {0, 1}
  /\ j.key = 1 \/ j.goal = "rotate" \/ j.pc = "mismatch" => Answered(0)'
  /\ j.pc = "rotate" => j.goal = "rotate"
  /\ j.goal = "rotate" => j.key = 0
  /\ FirstStands' => j.key = 0 /\ j.pc # "rotate"
  /\ Sending(j) => j.dest # NoAccount

\* The one job a step changes may become any job that is guarded.
LEMMA SetGuards ==
  ASSUME JobsOK, JobsGuarded, GuardsHold, NEW w \in Worker, NEW j, Set(w, j),
         JobIsGuardedNext(j)
  PROVE  JobsGuarded'
<1> SUFFICES ASSUME NEW u \in Worker PROVE JobIsGuarded(job[u])'
  BY DEF JobsGuarded
<1>1. CASE u = w
  BY <1>1, JobIsSet DEF JobIsGuarded, JobIsGuardedNext, Sending
<1>2. CASE u # w
  <2>1. job'[u] = job[u] /\ JobIsGuarded(job[u])
    BY <1>2 DEF Set, JobsOK, JobsGuarded
  <2> QED
    BY <2>1, GuardsOfOthers DEF JobIsGuarded, Sending
<1> QED
  BY <1>1, <1>2

\* A job that starts afresh.
LEMMA FreshGuards ==
  ASSUME JobsOK, JobsGuarded, GuardsHold, NEW w \in Worker,
         \/ Stop(w)
         \/ \E pc \in Pc \ {"mismatch", "rotate", "charge", "send"},
               goal \in Goal \ {"execute", "rotate"} : Begin(w, pc, goal)
         \/ Begin(w, "read", "execute")
         \/ Begin(w, "list", job[w].goal)
  PROVE  JobsGuarded'
<1>1. JobIsGuardedNext(Idle)
  BY DEF JobIsGuardedNext, Idle, Sending
<1>2. ASSUME NEW pc \in Pc \ {"mismatch", "rotate", "charge", "send"},
             NEW goal \in Goal \ {"execute", "rotate"}
      PROVE  JobIsGuardedNext([Idle EXCEPT !.pc = pc, !.goal = goal])
  BY <1>2 DEF JobIsGuardedNext, Idle, Sending
<1>3. JobIsGuardedNext([Idle EXCEPT !.pc = "read", !.goal = "execute"])
  BY DEF JobIsGuardedNext, Idle, Sending
<1>4. JobIsGuardedNext([Idle EXCEPT !.pc = "list", !.goal = job[w].goal])
  <2>1. job[w].goal = "rotate" => Answered(0)'
    BY GuardsOfOthers DEF JobsGuarded
  <2> QED
    BY <2>1 DEF JobIsGuardedNext, Idle, Sending
<1> QED
  BY <1>1, <1>2, <1>3, <1>4, SetGuards DEF Stop, Begin

\* A job that goes on with its key, goal and account.
LEMMA GotoGuards ==
  ASSUME JobsOK, JobsGuarded, GuardsHold, NEW w \in Worker, NEW pc \in Pc, Goto(w, pc),
         pc \in {"charge", "send"} => Sending(job[w]),
         pc = "mismatch" => Answered(0)',
         pc = "rotate" => job[w].goal = "rotate" /\ ~FirstStands',
         pc # "lookup"
  PROVE  JobsGuarded'
<1> DEFINE j == [job[w] EXCEPT !.pc = pc]
<1>1. job[w] \in Job
  BY DEF JobsOK
<1>2. /\ j.key = job[w].key /\ j.goal = job[w].goal /\ j.dest = job[w].dest /\ j.pc = pc
      /\ Set(w, j)
  BY <1>1 DEF Job, Goto
<1>3. JobIsGuarded(job[w])
  BY DEF JobsGuarded
<1>4. JobIsGuardedNext(j)
  <2> HIDE DEF j
  <2> QED
    BY <1>2, <1>3, GuardsOfOthers DEF JobIsGuarded, JobIsGuardedNext, Sending
<1> QED
  BY <1>2, <1>4, SetGuards

\* A job that changes what it holds besides, but not its key or its goal.
LEMMA HeldGuards ==
  ASSUME JobsOK, JobsGuarded, GuardsHold, NEW w \in Worker, NEW j, Set(w, j),
         j.key = job[w].key, j.goal = job[w].goal,
         j.pc \in {"block", "promote", "adopt", "paid", "submit", "send"},
         j.pc = "send" => Sending(job[w]) /\ j.dest = job[w].dest
  PROVE  JobsGuarded'
<1>1. JobIsGuarded(job[w])
  BY DEF JobsGuarded
<1>2. JobIsGuardedNext(j)
  BY <1>1, GuardsOfOthers DEF JobIsGuarded, JobIsGuardedNext, Sending
<1> QED
  BY <1>2, SetGuards

-----------------------------------------------------------------------------
(* Steps that leave the row and Stripe's answers alone.                    *)

LEMMA StripeStays ==
  ASSUME DataGuarded, UNCHANGED <<row, sent, reversed, remembered>>
  PROVE  GuardsHold /\ DataGuarded' /\ (FirstStands' <=> FirstStands)
         /\ (Answered(0)' <=> Answered(0))
BY DEF GuardsHold, DataGuarded, FirstStands, Answered, Standing

LEMMA RequestGuards ==
  ASSUME KeysAreKept, MaxKey \in Nat, JobsOK, DataOK, DataGuarded, JobsGuarded,
         NEW w \in Worker, Request(w) \/ RefundSucceeds(w) \/ AskReversal(w)
  PROVE  JobsGuarded' /\ DataGuarded'
<1>1. UNCHANGED <<row, sent, reversed, remembered>>
  BY DEF Request, Ask, Cron, AskNewKey, RefundSucceeds, AskReversal, database, stripe
<1>2. GuardsHold /\ DataGuarded' /\ (FirstStands' <=> FirstStands)
      /\ (Answered(0)' <=> Answered(0))
  BY <1>1, StripeStays
<1>3. CASE AskNewKey(w)
  <2> DEFINE j == [Idle EXCEPT !.pc = "lookup", !.goal = "rotate", !.key = row.key]
  <2>1. row.key = 0 /\ Answered(0)
    BY <1>3 DEF AskNewKey, KeysAreKept, DataGuarded
  <2>2. JobIsGuardedNext(j)
    BY <1>2, <2>1 DEF JobIsGuardedNext, Idle, Sending
  <2> QED
    BY <1>2, <1>3, <2>2, SetGuards DEF AskNewKey
<1>4. CASE ~AskNewKey(w)
  <2>1. \E pc \in Pc \ {"mismatch", "rotate", "charge", "send"},
           goal \in Goal \ {"execute", "rotate"} : Begin(w, pc, goal)
    BY <1>4 DEF Request, Ask, Cron, RefundSucceeds, AskReversal, Pc, Goal, Kind
  <2> QED
    BY <1>2, <2>1, FreshGuards
<1> QED
  BY <1>3, <1>4

LEMMA ReadGuards ==
  ASSUME JobsOK, DataOK, DataGuarded, JobsGuarded, NEW w \in Worker,
         \/ ReEvaluate(w) \/ ListEligible(w) \/ ReadForExecution(w) \/ ReadForRetry(w)
         \/ BalanceIsUnavailable(w) \/ Crash(w) \/ SyncEligibility(w) \/ PaidWriteFails(w)
  PROVE  JobsGuarded' /\ DataGuarded'
<1>1. UNCHANGED <<row, sent, reversed, remembered>>
  BY DEF ReEvaluate, ListEligible, ReadForExecution, ReadForRetry, BalanceIsUnavailable,
     Crash, SyncEligibility, PaidWriteFails, database, stripe
<1>2. GuardsHold /\ DataGuarded' /\ (FirstStands' <=> FirstStands)
      /\ (Answered(0)' <=> Answered(0))
  BY <1>1, StripeStays
<1>3. CASE Stop(w) \/ Begin(w, "read", "execute") \/ Begin(w, "list", job[w].goal)
  BY <1>2, <1>3, FreshGuards
<1>4. CASE ReEvaluate(w)
  <2>1. CASE AfterRecheck(w)
    BY <1>3, <2>1 DEF AfterRecheck, Begin
  <2>2. CASE ~AfterRecheck(w)
    <3> DEFINE j == [job[w] EXCEPT !.dest = vendor,
                       !.pc = IF vendor = NoAccount THEN "block" ELSE "promote"]
    <3>1. Set(w, j)
      BY <1>4, <2>2 DEF ReEvaluate
    <3>2. j.key = job[w].key /\ j.goal = job[w].goal /\ j.pc \in {"block", "promote"}
      BY HeldJob DEF Job
    <3> QED
      BY <1>2, <3>1, <3>2, HeldGuards
  <2> QED
    BY <2>1, <2>2
<1>5. CASE ListEligible(w) \/ BalanceIsUnavailable(w) \/ Crash(w)
  <2>1. CASE Begin(w, "retry", "retry")
    BY <1>2, <2>1, FreshGuards DEF Pc, Goal, Kind
  <2> QED
    BY <1>3, <1>5, <2>1 DEF ListEligible, BalanceIsUnavailable, Crash
<1>6. CASE ReadForExecution(w)
  <2> DEFINE j == [Idle EXCEPT !.pc = "lookup", !.goal = "execute",
                               !.key = row.key, !.dest = row.dest]
  <2>1. CASE Set(w, j) /\ row.dest # NoAccount
    <3>1. JobIsGuardedNext(j)
      BY <1>2, <2>1 DEF JobIsGuardedNext, Idle, Sending, DataGuarded
    <3> QED
      BY <1>2, <2>1, <3>1, SetGuards
  <2> QED
    BY <1>3, <1>6, <2>1 DEF ReadForExecution
<1>7. CASE ReadForRetry(w)
  <2>1. CASE Begin(w, "lookup", "retry")
    BY <1>2, <2>1, FreshGuards DEF Pc, Goal, Kind
  <2>2. CASE Goto(w, "mismatch") /\ isIdempotencyMismatchTransfer(row)
    BY <1>2, <2>2, GotoGuards DEF DataGuarded, Pc
  <2> QED
    BY <1>3, <1>7, <2>1, <2>2 DEF ReadForRetry
<1>8. CASE SyncEligibility(w) \/ PaidWriteFails(w)
  <2>1. \E pc \in {"prepare", "review", "cancel", "failed"} : Goto(w, pc)
    BY <1>8 DEF SyncEligibility, PaidWriteFails
  <2> QED
    BY <1>2, <2>1, GotoGuards DEF Pc
<1> QED
  BY <1>4, <1>5, <1>6, <1>7, <1>8

\* Every transfer went to the one account, which is the row's: a look that finds none says
\* that none stands.
LEMMA NoneStands ==
  ASSUME OneAccount, DataOK, DataGuarded, row.tid = 0, row.dest # NoAccount,
         Matching(row) = {}
  PROVE  Standing = {}
<1>1. row.dest \in Account
  BY RowTyped DEF Destination
<1>2. ASSUME NEW t \in DOMAIN sent PROVE sent[t] = row.dest
  <2>1. sent[t] \in Destination /\ sent[t] # NoAccount
    BY SentLength DEF DataGuarded
  <2> QED
    BY <1>1, <2>1 DEF OneAccount, Destination
<1> QED
  BY <1>2 DEF Matching, Standing

LEMMA ReconcileGuards ==
  ASSUME OneAccount, JobsOK, DataOK, DataGuarded, JobsGuarded, NEW w \in Worker,
         ReconcileRow(w)
  PROVE  JobsGuarded' /\ DataGuarded'
<1>1. UNCHANGED <<row, sent, reversed, remembered>> /\ job[w].pc = "lookup"
  BY DEF ReconcileRow, database, stripe, At
<1>2. GuardsHold /\ DataGuarded' /\ (FirstStands' <=> FirstStands)
  BY <1>1, StripeStays
<1>3. CASE \E t \in DOMAIN sent : Set(w, [job[w] EXCEPT !.pc = "adopt", !.tid = t])
  <2>1. PICK t \in DOMAIN sent : Set(w, [job[w] EXCEPT !.pc = "adopt", !.tid = t])
    BY <1>3
  <2> DEFINE j == [job[w] EXCEPT !.pc = "adopt", !.tid = t]
  <2>2. j.key = job[w].key /\ j.goal = job[w].goal /\ j.pc = "adopt"
    BY HeldJob DEF Job
  <2> HIDE DEF j
  <2> QED
    BY <1>2, <2>1, <2>2, HeldGuards DEF j
<1>4. CASE Stop(w)
  BY <1>2, <1>4, FreshGuards
<1>5. CASE Goto(w, "charge") /\ job[w].goal = "execute"
  BY <1>1, <1>2, <1>5, GotoGuards DEF Pc, Sending
<1>6. CASE Goto(w, "requeue")
  BY <1>2, <1>6, GotoGuards DEF Pc
<1>7. CASE /\ Goto(w, "rotate") /\ job[w].goal = "rotate"
           /\ isReconcilablePayoutTransfer(row) /\ row.tid = 0 /\ Matching(row) = {}
  <2>1. Standing = {}
    BY <1>7, NoneStands DEF isReconcilablePayoutTransfer
  <2> QED
    BY <1>2, <1>7, <2>1, GotoGuards DEF Pc, FirstStands
<1>8. ASSUME NEW notFound, Unsettled(w, notFound)
      PROVE  \/ Stop(w) \/ Goto(w, "requeue")
             \/ Goto(w, "charge") /\ job[w].goal = "execute"
             \/ Goto(w, "rotate") /\ job[w].goal = "rotate" /\ notFound
  BY <1>8 DEF Unsettled
<1> QED
  BY <1>3, <1>4, <1>5, <1>6, <1>7, <1>8 DEF ReconcileRow

LEMMA ResolveChargeGuards ==
  ASSUME JobsOK, DataOK, DataGuarded, JobsGuarded, NEW w \in Worker, ResolveCharge(w)
  PROVE  JobsGuarded' /\ DataGuarded'
<1>1. UNCHANGED <<row, sent, reversed, remembered>> /\ Sending(job[w])
  BY DEF ResolveCharge, stripe, At, Sending
<1>2. GuardsHold /\ DataGuarded' /\ (FirstStands' <=> FirstStands)
  BY <1>1, StripeStays
<1>3. CASE Set(w, [job[w] EXCEPT !.pc = "send", !.charge = TRUE])
  <2> DEFINE j == [job[w] EXCEPT !.pc = "send", !.charge = TRUE]
  <2>1. j.key = job[w].key /\ j.goal = job[w].goal /\ j.pc = "send" /\ j.dest = job[w].dest
    BY HeldJob DEF Job
  <2> HIDE DEF j
  <2> QED
    BY <1>1, <1>2, <1>3, <2>1, HeldGuards DEF j
<1>4. CASE Goto(w, "send") \/ Goto(w, "insufficient") \/ Stop(w)
  BY <1>1, <1>2, <1>4, GotoGuards, FreshGuards DEF Pc
<1> QED
  BY <1>3, <1>4 DEF ResolveCharge

-----------------------------------------------------------------------------
(* Stripe's answers.                                                       *)

\* Stripe makes a transfer for a key it has not answered: none stands then.
LEMMA NoneStandsBeforeSending ==
  ASSUME JobsGuarded, DataGuarded, NEW w \in Worker, job[w].pc = "send", Answers(w) = {}
  PROVE  /\ Standing = {} /\ job[w].key \in {0, 1} /\ ~Answered(job[w].key)
         /\ job[w].dest # NoAccount
<1>1. JobIsGuarded(job[w])
  BY DEF JobsGuarded
<1>2. ~Answered(job[w].key)
  BY DEF Answers, Answered
<1> QED
  BY <1>1, <1>2 DEF JobIsGuarded, DataGuarded, FirstStands, Sending

LEMMA TransferGuards ==
  ASSUME JobsOK, DataOK, DataGuarded, JobsGuarded, NEW w \in Worker, TransferIsMade(w)
  PROVE  JobsGuarded' /\ DataGuarded'
<1> DEFINE t == Len(sent) + 1
<1>1. /\ Standing = {} /\ job[w].key \in {0, 1} /\ ~Answered(job[w].key)
      /\ job[w].dest # NoAccount
  BY NoneStandsBeforeSending DEF TransferIsMade, At
<1>2. UNCHANGED <<row, reversed>> /\ sent' = Append(sent, job[w].dest)
      /\ remembered' = remembered \cup {Answer(w, t)}
  BY DEF TransferIsMade, database
<1>3. Standing' \subseteq {t}
  BY <1>1, <1>2, SentLength DEF Standing
<1>4. \A s \in DOMAIN sent' : sent'[s] # NoAccount
  <2>1. ASSUME NEW s \in DOMAIN sent' PROVE sent'[s] # NoAccount
    <3>1. s \in 1 .. t
      BY <1>2, <2>1, SentLength, HeldJob
    <3>2. CASE s = t
      BY <1>1, <1>2, <3>2, SentLength, HeldJob
    <3>3. CASE s # t
      BY <1>2, <3>1, <3>3, SentLength, HeldJob DEF DataGuarded
    <3> QED
      BY <3>2, <3>3
  <2> QED
    BY <2>1
<1>5. Answer(w, t).key = job[w].key
  BY DEF Answer
<1>6. /\ \A k : Answered(k)' <=> Answered(k) \/ k = job[w].key
  BY <1>2, <1>5 DEF Answered
<1>7. GuardsHold
  BY <1>1, <1>6 DEF GuardsHold, FirstStands
<1>8. Answered(0)'
  <2>1. JobIsGuarded(job[w])
    BY DEF JobsGuarded
  <2> QED
    BY <1>1, <1>6, <2>1 DEF JobIsGuarded
<1>9. FirstStands' => row.key = 0
  BY <1>1, <1>6 DEF FirstStands, DataGuarded
<1>10. DataGuarded'
  <2>1. \A r, s \in Standing' : r = s
    BY <1>3
  <2>2. row'.key \in {0, 1}
    BY <1>2 DEF DataGuarded
  <2> QED
    BY <1>2, <1>4, <1>8, <1>9, <2>1, <2>2 DEF DataGuarded
<1>11. CASE Goto(w, "failed")
  BY <1>7, <1>10, <1>11, GotoGuards DEF Pc
<1>12. CASE Set(w, [job[w] EXCEPT !.pc = "paid", !.tid = t])
  <2> DEFINE j == [job[w] EXCEPT !.pc = "paid", !.tid = t]
  <2>1. j.key = job[w].key /\ j.goal = job[w].goal /\ j.pc = "paid"
    BY HeldJob DEF Job
  <2> HIDE DEF j
  <2> QED
    BY <1>7, <1>10, <1>12, <2>1, HeldGuards DEF j
<1> QED
  BY <1>11, <1>12 DEF TransferIsMade

LEMMA RefusalGuards ==
  ASSUME JobsOK, DataOK, DataGuarded, JobsGuarded, NEW w \in Worker, TransferIsRefused(w)
  PROVE  JobsGuarded' /\ DataGuarded'
<1>1. UNCHANGED <<row, sent, reversed>> /\ remembered \subseteq remembered'
  BY DEF TransferIsRefused, database
<1>2. UNCHANGED Standing /\ (FirstStands' => FirstStands) /\ \A k : Answered(k) => Answered(k)'
  BY <1>1 DEF Standing, FirstStands, Answered
<1>3. GuardsHold
  BY <1>2 DEF GuardsHold
<1>4. DataGuarded'
  BY <1>1, <1>2 DEF DataGuarded
<1> QED
  BY <1>3, <1>4, GotoGuards DEF TransferIsRefused, Pc

LEMMA AnswerGuards ==
  ASSUME JobsOK, DataOK, DataGuarded, JobsGuarded, NEW w \in Worker,
         TransferIsRepeated(w) \/ TransferMismatches(w)
  PROVE  JobsGuarded' /\ DataGuarded'
<1>1. UNCHANGED <<row, sent, reversed, remembered>>
  BY DEF TransferIsRepeated, TransferMismatches, database, stripe
<1>2. GuardsHold /\ DataGuarded' /\ (Answered(0)' <=> Answered(0))
  BY <1>1, StripeStays
<1>3. CASE Goto(w, "failed")
  BY <1>2, <1>3, GotoGuards DEF Pc
<1>4. CASE \E m \in remembered : Set(w, [job[w] EXCEPT !.pc = "paid", !.tid = m.tid])
  <2>1. PICK m \in remembered : Set(w, [job[w] EXCEPT !.pc = "paid", !.tid = m.tid])
    BY <1>4
  <2> DEFINE j == [job[w] EXCEPT !.pc = "paid", !.tid = m.tid]
  <2>2. j.key = job[w].key /\ j.goal = job[w].goal /\ j.pc = "paid"
    BY HeldJob DEF Job
  <2> HIDE DEF j
  <2> QED
    BY <1>2, <2>1, <2>2, HeldGuards DEF j
<1>5. CASE Goto(w, "mismatch") /\ \E m \in Answers(w) : ~Sends(w, m)
  <2>1. Answered(job[w].key) /\ JobIsGuarded(job[w])
    BY <1>5 DEF Answers, Answered, JobsGuarded
  <2>2. Answered(0)
    BY <2>1 DEF JobIsGuarded
  <2> QED
    BY <1>2, <1>5, <2>2, GotoGuards DEF Pc
<1> QED
  BY <1>3, <1>4, <1>5 DEF TransferIsRepeated, TransferMismatches, Answers

-----------------------------------------------------------------------------
(* Steps that write the row or a reversal.                                 *)

LEMMA WriteGuards ==
  ASSUME JobsOK, DataOK, DataGuarded, JobsGuarded, NEW w \in Worker,
         \/ BlockRow(w) \/ PromoteRow(w) \/ Requeue(w) \/ MarkPaid(w) \/ MarkFailed(w)
         \/ markBlockedInsufficientBalance(w) \/ CancelTransfer(w) \/ BlockForReview(w)
  PROVE  JobsGuarded' /\ DataGuarded'
<1>1. UNCHANGED <<sent, reversed, remembered>> /\ row \in Row
  BY RowTyped DEF BlockRow, PromoteRow, Requeue, MarkPaid, MarkFailed, stripe,
     markBlockedInsufficientBalance, CancelTransfer, BlockForReview
<1>2. UNCHANGED Standing /\ (FirstStands' <=> FirstStands)
      /\ (Answered(0)' <=> Answered(0)) /\ GuardsHold
  BY <1>1 DEF Standing, FirstStands, Answered, GuardsHold
<1>3. row'.key = row.key
      /\ (isIdempotencyMismatchTransfer(row)' => isIdempotencyMismatchTransfer(row))
  BY <1>1 DEF BlockRow, PromoteRow, Requeue, MarkPaid, MarkFailed, Row,
     markBlockedInsufficientBalance, CancelTransfer, BlockForReview,
     isIdempotencyMismatchTransfer
<1>4. DataGuarded'
  BY <1>1, <1>2, <1>3 DEF DataGuarded
<1>5. CASE Stop(w) \/ Begin(w, "read", "execute") \/ Begin(w, "list", job[w].goal)
  BY <1>2, <1>4, <1>5, FreshGuards
<1>6. CASE Goto(w, "prepare")
  BY <1>2, <1>4, <1>6, GotoGuards DEF Pc
<1> QED
  BY <1>5, <1>6 DEF BlockRow, PromoteRow, Requeue, MarkPaid, MarkFailed,
     markBlockedInsufficientBalance, CancelTransfer, BlockForReview, AfterRecheck, Begin

LEMMA MismatchGuards ==
  ASSUME JobsOK, DataOK, DataGuarded, JobsGuarded, NEW w \in Worker,
         markBlockedIdempotencyMismatch(w)
  PROVE  JobsGuarded' /\ DataGuarded'
<1>1. UNCHANGED <<sent, reversed, remembered>> /\ row \in Row /\ Stop(w)
  BY RowTyped DEF markBlockedIdempotencyMismatch, stripe
<1>2. UNCHANGED Standing /\ (FirstStands' <=> FirstStands)
      /\ (Answered(0)' <=> Answered(0)) /\ GuardsHold
  BY <1>1 DEF Standing, FirstStands, Answered, GuardsHold
<1>3. Answered(0) /\ row'.key = row.key
  BY <1>1 DEF markBlockedIdempotencyMismatch, At, JobsGuarded, JobIsGuarded, Row
<1>4. DataGuarded'
  BY <1>1, <1>2, <1>3 DEF DataGuarded
<1> QED
  BY <1>1, <1>2, <1>4, FreshGuards

\* The second key comes to be when no transfer of the first one stands.
LEMMA RotateGuards ==
  ASSUME JobsOK, DataOK, DataGuarded, JobsGuarded, NEW w \in Worker, RotateKey(w)
  PROVE  JobsGuarded' /\ DataGuarded'
<1>1. /\ UNCHANGED <<sent, reversed, remembered>> /\ row \in Row
      /\ Begin(w, "read", "execute")
  BY RowTyped DEF RotateKey, stripe
<1>2. UNCHANGED Standing /\ (FirstStands' <=> FirstStands)
      /\ (Answered(0)' <=> Answered(0)) /\ GuardsHold
  BY <1>1 DEF Standing, FirstStands, Answered, GuardsHold
<1>3. Answered(0) /\ ~FirstStands /\ job[w].key = 0
  BY DEF RotateKey, At, JobsGuarded, JobIsGuarded
<1>4. row'.key = 1
  BY <1>1, <1>3 DEF RotateKey, Row
<1>5. DataGuarded'
  BY <1>1, <1>2, <1>3, <1>4 DEF DataGuarded
<1> QED
  BY <1>1, <1>2, <1>5, FreshGuards

LEMMA ReversalGuards ==
  ASSUME JobsOK, DataOK, DataGuarded, JobsGuarded, NEW w \in Worker,
         \/ PrepareReversal(w) \/ ReverseAgain(w) \/ TakeReversal(w) \/ SubmitReversal(w)
         \/ CallReversal(w) \/ FinishReversal(w)
  PROVE  JobsGuarded' /\ DataGuarded'
<1>1. UNCHANGED <<row, sent, remembered>> /\ reversed \subseteq reversed'
  BY DEF PrepareReversal, ReverseAgain, TakeReversal, SubmitReversal, CallReversal,
     FinishReversal, ReversalIs, database, stripe
<1>2. Standing' \subseteq Standing /\ (FirstStands' => FirstStands)
      /\ (Answered(0)' <=> Answered(0)) /\ GuardsHold
  BY <1>1 DEF Standing, FirstStands, Answered, GuardsHold
<1>3. DataGuarded'
  BY <1>1, <1>2 DEF DataGuarded
<1>4. CASE Stop(w)
  BY <1>2, <1>3, <1>4, FreshGuards
<1>5. CASE \E pc \in {"take", "reverse", "reversed", "unreversed"} : Goto(w, pc)
  BY <1>2, <1>3, <1>5, GotoGuards DEF Pc
<1>6. CASE Set(w, [job[w] EXCEPT !.pc = "submit", !.tid = row.tid])
  <2> DEFINE j == [job[w] EXCEPT !.pc = "submit", !.tid = row.tid]
  <2>1. j.key = job[w].key /\ j.goal = job[w].goal /\ j.pc = "submit"
    BY HeldJob DEF Job
  <2> HIDE DEF j
  <2> QED
    BY <1>2, <1>3, <1>6, <2>1, HeldGuards DEF j
<1> QED
  BY <1>4, <1>5, <1>6 DEF PrepareReversal, ReverseAgain, TakeReversal, SubmitReversal,
     CallReversal, FinishReversal

LEMMA NextGuards ==
  ASSUME OneAccount, KeysAreKept, MaxKey \in Nat, JobsOK, DataOK, Guarded, [Next]_vars
  PROVE  Guarded'
<1>1. DataGuarded /\ JobsGuarded
  BY GuardParts
<1>2. ASSUME NEW w \in Worker,
             Request(w) \/ RefundSucceeds(w) \/ AskReversal(w) \/ JobStep(w) \/ Crash(w)
      PROVE  JobsGuarded' /\ DataGuarded'
  BY <1>1, <1>2, RequestGuards, ReadGuards, ReconcileGuards, ResolveChargeGuards,
     TransferGuards, RefusalGuards, AnswerGuards, WriteGuards, MismatchGuards,
     RotateGuards, ReversalGuards DEF JobStep
<1>3. CASE VendorConnects \/ DashboardRefund \/ UNCHANGED vars
  BY <1>3 DEF Guarded, JobIsGuarded, FirstStands, Answered, Standing, VendorConnects,
     DashboardRefund, vars, database, stripe
<1>4. ~KeysExpire
  BY DEF KeysExpire, KeysAreKept
<1>5. JobsGuarded' /\ DataGuarded' => Guarded'
  BY DEF Guarded, DataGuarded, JobsGuarded
<1> QED
  BY <1>2, <1>3, <1>4, <1>5 DEF Next

LEMMA InitGuards == Init => Guarded
<1> SUFFICES ASSUME Init PROVE Guarded
  OBVIOUS
<1>1. Standing = {} /\ sent = <<>> /\ row.key = 0 /\ ~isIdempotencyMismatchTransfer(row)
      /\ \A w \in Worker : job[w] = Idle
  BY DEF Init, Standing, NewRow, isIdempotencyMismatchTransfer
<1> QED
  BY <1>1 DEF Guarded, JobIsGuarded, FirstStands, Idle, Sending

\* The first key is answered before the second exists or a transfer stands, and while a
\* transfer of the first stands, nobody comes to hold the second: for any number of
\* overlapping invocations, crashes, lost answers and failing looks, while the vendor keeps
\* one account, Stripe the keys, and nobody rotates twice (all handlers).
THEOREM KeysGuard == OneAccount /\ KeysAreKept => (Spec => []Guarded)
<1> SUFFICES ASSUME OneAccount, KeysAreKept PROVE Spec => []Guarded
  OBVIOUS
<1>1. MaxKey \in Nat
  BY PayoutAssumption
<1>2. JobsOK /\ DataOK /\ Guarded /\ [Next]_vars => Guarded'
  BY <1>1, NextGuards
<1> QED
  BY InitGuards, <1>2, JobsAndData, PTL DEF Spec

\* So the vendor is paid at most once (executeVendorPayoutTransfer, both retries and the
\* reconciliation, however they overlap, crash or lose answers).
THEOREM VendorIsPaidOnce == OneAccount /\ KeysAreKept => (Spec => []PaidAtMostOnce)
<1> SUFFICES ASSUME OneAccount, KeysAreKept PROVE Spec => []PaidAtMostOnce
  OBVIOUS
<1>1. Guarded => PaidAtMostOnce
  <2> SUFFICES ASSUME Guarded PROVE Cardinality(Standing) <= 1
    BY DEF PaidAtMostOnce
  <2>1. CASE Standing = {}
    BY <2>1, FS_EmptySet
  <2>2. CASE Standing # {}
    <3>1. PICK t : Standing = {t}
      BY <2>2 DEF Guarded
    <3>2. Cardinality({t}) = 1
      BY FS_Singleton
    <3> QED
      BY <3>1, <3>2
  <2> QED
    BY <2>1, <2>2
<1> QED
  BY <1>1, KeysGuard, PTL

=============================================================================
