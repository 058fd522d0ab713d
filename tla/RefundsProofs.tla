---------------------------- MODULE RefundsProofs ----------------------------
(***************************************************************************)
(* The ledger is backed by Stripe's refunds, for any number of workers,    *)
(* vendor orders, requests, faults and crashes: LedgerIsBacked follows     *)
(* from the inductive Backing.  The types follow from Typing, that the     *)
(* ledger is complete, with one desk, from Booking, and that no vendor     *)
(* order is refunded beyond its total from Counting.                       *)
(***************************************************************************)
EXTENDS RefundProperties, TLAPS

-----------------------------------------------------------------------------
(* What a step does to jobs, refunds and the ledger.                       *)

\* The worker's job becomes one with its fields; the other jobs stay.
Becomes(w, j) ==
  /\ DOMAIN job' = Worker
  /\ job'[w] = j /\ DOMAIN j = JobFields
  /\ \A v \in Worker \ {w} : job'[v] = job[v]

\* A refund stays what it is about.
RefundsKeep ==
  /\ IsSequence(refunds') /\ \A i \in DOMAIN refunds' : DOMAIN refunds'[i] = RefundFields
  /\ \A i \in DOMAIN refunds :
       /\ i \in DOMAIN refunds'
       /\ refunds'[i].amount = refunds[i].amount /\ refunds'[i].vo = refunds[i].vo

KnownKeeps == (\A r \in DOMAIN known : known[r] # 0 => Backs(known[r], r))'

InboxKeeps ==
  /\ DOMAIN inbox' = Event
  /\ \A e \in Event : inbox'[e] # "none" => e.refund \in DOMAIN refunds'

LedgerKeeps ==
  /\ \A row \in DOMAIN ledger' : DOMAIN ledger'[row] = RowFields
  /\ LedgerIsBacked'

\* What has to be shown of a step of worker w.
Holding(w) ==
  /\ \E j : Becomes(w, j) /\ Carries(j)'
  /\ RefundsKeep /\ KnownKeeps /\ InboxKeeps /\ LedgerKeeps

\* A refund that backs a row still does.
LEMMA BacksKeeps ==
  ASSUME RefundsKeep, NEW i, NEW row, Backs(i, row)
  PROVE  Backs(i, row)'
BY DEF RefundsKeep, Backs

\* What a job carries, it still may.
LEMMA CarriesKeeps ==
  ASSUME RefundsKeep, NEW j, Carries(j)
  PROVE  Carries(j)'
BY BacksKeeps DEF Carries, RefundsKeep

\* A step of which that is shown keeps Backing.
LEMMA HoldingKeeps ==
  ASSUME Backing, NEW w \in Worker, Holding(w)
  PROVE  Backing'
<1>1. PICK j : Becomes(w, j) /\ Carries(j)' BY DEF Holding
<1>2. \A v \in Worker : Carries(job[v])'
  <2>1. \A v \in Worker \ {w} : Carries(job[v]) /\ job'[v] = job[v] BY <1>1 DEF Backing, Becomes
  <2>2. ASSUME NEW v \in Worker \ {w} PROVE Carries(job[v])'
    <3>1. Carries(job[v]) /\ job'[v] = job[v] BY <2>1
    <3>2. /\ \A i \in DOMAIN refunds : i \in DOMAIN refunds'
          /\ \A i \in DOMAIN refunds : refunds'[i].amount = refunds[i].amount
          /\ \A i \in DOMAIN refunds : refunds'[i].vo = refunds[i].vo
      BY DEF Holding, RefundsKeep
    <3>3. /\ job'[v].pc \in {"store", "mark", "book", "apply"} =>
                Backs(job'[v].refund, job'[v].row)
          /\ job'[v].pc \in {"find", "reopen", "refresh", "processed"} =>
                job'[v].refund \in DOMAIN refunds
          /\ job'[v].pc = "reopen" => job'[v].status # "succeeded"
      BY <3>1 DEF Carries
    <3> QED BY <3>2, <3>3 DEF Carries, Backs
  <2>3. Carries(job[w])' BY <1>1 DEF Becomes, Carries, Backs
  <2> QED BY <2>2, <2>3
<1>3. DOMAIN job' = Worker /\ \A v \in Worker : DOMAIN job'[v] = JobFields
  BY <1>1 DEF Backing, Becomes
<1> QED BY <1>2, <1>3 DEF Backing, Holding, RefundsKeep, KnownKeeps, InboxKeeps, LedgerKeeps

\* What stays keeps.
LEMMA StripeKeeps ==
  ASSUME Backing
  PROVE  /\ UNCHANGED refunds => RefundsKeep
         /\ UNCHANGED stripe => KnownKeeps
         /\ UNCHANGED <<refunds, inbox>> => InboxKeeps
         /\ UNCHANGED <<refunds, ledger>> => LedgerKeeps
<1>1. UNCHANGED refunds => RefundsKeep BY DEF Backing, RefundsKeep
<1>2. UNCHANGED stripe => KnownKeeps BY DEF Backing, KnownKeeps, Backs, stripe
<1>3. UNCHANGED <<refunds, inbox>> => InboxKeeps BY DEF Backing, InboxKeeps
<1>4. UNCHANGED <<refunds, ledger>> => LedgerKeeps
  BY DEF Backing, LedgerKeeps, LedgerIsBacked, Taken, Holds
<1> QED BY <1>1, <1>2, <1>3, <1>4

\* The ways a job moves.
LEMMA SetBecomes ==
  ASSUME Backing, NEW w \in Worker, NEW j, DOMAIN j = JobFields, Set(w, j)
  PROVE  Becomes(w, j)
BY DEF Backing, Set, Becomes

\* A job that stops carries nothing.
LEMMA StopBecomes ==
  ASSUME Backing, NEW w \in Worker, Stop(w)
  PROVE  \E j : Becomes(w, j) /\ Carries(j)'
<1>1. DOMAIN Idle = JobFields /\ Idle.pc = "idle" BY DEF Idle, JobFields
<1>2. Becomes(w, Idle) BY <1>1, SetBecomes DEF Stop
<1>3. Carries(Idle)' BY <1>1 DEF Carries
<1> QED BY <1>2, <1>3

\* A job that goes on carries the same.
LEMMA GotoBecomes ==
  ASSUME Backing, NEW w \in Worker, NEW pc, Goto(w, pc), RefundsKeep,
         Carries([job[w] EXCEPT !.pc = pc])
  PROVE  \E j : Becomes(w, j) /\ Carries(j)'
<1> DEFINE j == [job[w] EXCEPT !.pc = pc]
<1>1. DOMAIN j = JobFields BY DEF Backing
<1>2. Set(w, j) BY DEF Goto
<1> HIDE DEF j
<1>3. Becomes(w, j) BY <1>1, <1>2, SetBecomes
<1> QED BY <1>3, CarriesKeeps DEF j

\* Steps at which a job need not hold a refund.
Free == {"idle", "claim", "precheck", "refuse", "caps", "record", "adopt", "link", "stripe",
         "fail", "failrow", "verify", "dismiss"}

\* Such steps ask nothing of the job.
LEMMA GotoFree ==
  ASSUME Backing, NEW w \in Worker, NEW pc \in Free, Goto(w, pc), RefundsKeep
  PROVE  \E j : Becomes(w, j) /\ Carries(j)'
<1>1. [job[w] EXCEPT !.pc = pc].pc = pc BY DEF Backing, JobFields
<1>2. Carries([job[w] EXCEPT !.pc = pc]) BY <1>1 DEF Carries, Free
<1> QED BY <1>2, GotoBecomes

\* The end of a delivery, which still knows its refund.
LEMMA GotoEnd ==
  ASSUME Backing, NEW w \in Worker, Goto(w, "processed"), RefundsKeep,
         job[w].refund \in DOMAIN refunds
  PROVE  \E j : Becomes(w, j) /\ Carries(j)'
<1>1. /\ [job[w] EXCEPT !.pc = "processed"].pc = "processed"
      /\ [job[w] EXCEPT !.pc = "processed"].refund = job[w].refund
  BY DEF Backing, JobFields
<1>2. Carries([job[w] EXCEPT !.pc = "processed"]) BY <1>1 DEF Carries
<1> QED BY <1>2, GotoBecomes

\* Nor of a new one.
LEMMA SetFree ==
  ASSUME Backing, NEW w \in Worker, NEW j, DOMAIN j = JobFields, j.pc \in Free, Set(w, j)
  PROVE  \E k : Becomes(w, k) /\ Carries(k)'
<1>1. Becomes(w, j) BY SetBecomes
<1>2. Carries(j)' BY DEF Carries, Free
<1> QED BY <1>1, <1>2

-----------------------------------------------------------------------------
(* Writes of the ledger.                                                   *)

\* A row that gets another status than succeeded, or is linked, keeps its refund.
LEMMA StatusKeeps ==
  ASSUME Backing, UNCHANGED refunds, NEW row, NEW status, status # "succeeded",
         ledger' = [ledger EXCEPT ![row].status = status]
  PROVE  LedgerKeeps
<1>1. \A r \in DOMAIN ledger' : DOMAIN ledger'[r] = RowFields BY DEF Backing, RowFields
<1>2. DOMAIN ledger' = DOMAIN ledger OBVIOUS
<1>3. \A r \in DOMAIN ledger :
        /\ ledger'[r].refund = ledger[r].refund
        /\ ledger'[r].status = "succeeded" => ledger[r].status = "succeeded"
  BY DEF Backing, RowFields
<1>4. LedgerIsBacked' BY <1>2, <1>3 DEF Backing, LedgerIsBacked, Taken, Holds
<1> QED BY <1>1, <1>4 DEF LedgerKeeps

\* A link leaves status and refund as they are.
LEMMA LinkKeeps ==
  ASSUME Backing, UNCHANGED refunds, NEW row, ledger' = [ledger EXCEPT ![row].linked = TRUE]
  PROVE  LedgerKeeps
<1>1. \A r \in DOMAIN ledger' : DOMAIN ledger'[r] = RowFields BY DEF Backing, RowFields
<1>2. DOMAIN ledger' = DOMAIN ledger OBVIOUS
<1>3. \A r \in DOMAIN ledger :
        ledger'[r].refund = ledger[r].refund /\ ledger'[r].status = ledger[r].status
  BY DEF Backing, RowFields
<1>4. LedgerIsBacked' BY <1>2, <1>3 DEF Backing, LedgerIsBacked, Taken, Holds
<1> QED BY <1>1, <1>4 DEF LedgerKeeps

\* A new row without Stripe's id, or with one that backs it and that no other row has.
LEMMA NewRowKeeps ==
  ASSUME Backing, UNCHANGED refunds, NEW row, row \notin DOMAIN ledger, NEW value,
         DOMAIN value = RowFields, ledger' = Put(ledger, row, value),
         \/ value.refund = 0 /\ value.status # "succeeded"
         \/ value.refund # 0 /\ Backs(value.refund, row) /\ ~Taken(value.refund, row)
  PROVE  LedgerKeeps
<1>1. /\ DOMAIN ledger' = DOMAIN ledger \cup {row} /\ ledger'[row] = value
      /\ \A r \in DOMAIN ledger : ledger'[r] = ledger[r]
  BY DEF Put
<1>2. \A r \in DOMAIN ledger' : DOMAIN ledger'[r] = RowFields BY <1>1 DEF Backing
<1>3. LedgerIsBacked' BY <1>1 DEF Backing, LedgerIsBacked, Taken, Holds, Backs
<1> QED BY <1>2, <1>3 DEF LedgerKeeps

\* A row that succeeds, with a refund that backs it and that no other row has.
LEMMA SucceededKeeps ==
  ASSUME Backing, UNCHANGED refunds, NEW j, Backs(j.refund, j.row), ~Taken(j.refund, j.row),
         ledger' = [ledger EXCEPT ![j.row].status = "succeeded", ![j.row].refund = j.refund]
  PROVE  LedgerKeeps
<1>1. \A r \in DOMAIN ledger' : DOMAIN ledger'[r] = RowFields BY DEF Backing, RowFields
<1>2. DOMAIN ledger' = DOMAIN ledger OBVIOUS
<1>3. j.refund # 0 BY IndexIsPositive DEF Backing, Backs
<1>4. /\ \A r \in DOMAIN ledger \ {j.row} : ledger'[r] = ledger[r]
      /\ j.row \in DOMAIN ledger => ledger'[j.row].refund = j.refund
  BY DEF Backing, RowFields
<1>5. LedgerIsBacked'
  BY <1>2, <1>3, <1>4 DEF Backing, LedgerIsBacked, Taken, Holds, Backs
<1> QED BY <1>1, <1>5 DEF LedgerKeeps

-----------------------------------------------------------------------------
(* The requests for refunds.                                               *)

\* Steps that change neither the ledger nor anything of Stripe's.
LEMMA DeskHolds ==
  ASSUME Backing, NEW w \in Worker,
         \/ AskDenial(w) \/ ClaimDenial(w) \/ Precheck(w) \/ RefuseDenial(w)
         \/ AskAdmin(w) \/ AdoptAttempt(w) \/ CheckCaps(w) \/ FailAttempt(w)
         \/ AskDismissal(w) \/ VerifyNoConflict(w) \/ DismissAttempt(w)
  PROVE  Holding(w)
<1>1. UNCHANGED <<ledger, refunds, known, inbox>>
  BY DEF AskDenial, ClaimDenial, Precheck, RefuseDenial, AskAdmin, AdoptAttempt, CheckCaps,
         FailAttempt, AskDismissal, VerifyNoConflict, DismissAttempt, database, stripe
<1>2. RefundsKeep /\ KnownKeeps /\ InboxKeeps /\ LedgerKeeps BY <1>1, StripeKeeps DEF stripe
<1>3. \/ Stop(w)
      \/ \E pc \in Free : Goto(w, pc)
      \/ \E r, seen : \/ Set(w, [Idle EXCEPT !.pc = "claim", !.row = r, !.seen = seen])
                      \/ Set(w, [Idle EXCEPT !.pc = "caps", !.row = r, !.seen = seen])
                      \/ Set(w, [Idle EXCEPT !.pc = "verify", !.row = r])
  <2>1. CASE AskDenial(w) \/ AskAdmin(w) \/ AskDismissal(w)
    BY <2>1 DEF AskDenial, AskAdmin, AskDismissal
  <2>2. CASE ClaimDenial(w) \/ RefuseDenial(w) \/ AdoptAttempt(w)
    BY <2>2 DEF ClaimDenial, RefuseDenial, AdoptAttempt, Free
  <2>3. CASE Precheck(w) \/ CheckCaps(w) BY <2>3 DEF Precheck, CheckCaps, AfterRecord, Free
  <2>4. CASE FailAttempt(w) \/ VerifyNoConflict(w) \/ DismissAttempt(w)
    BY <2>4 DEF FailAttempt, VerifyNoConflict, DismissAttempt, Free
  <2> QED BY <2>1, <2>2, <2>3, <2>4
<1>4. \E j : Becomes(w, j) /\ Carries(j)'
  <2>1. {"claim", "caps", "verify"} \subseteq Free BY DEF Free
  <2>2. ASSUME NEW r, NEW seen, NEW pc \in {"claim", "caps", "verify"},
               \/ Set(w, [Idle EXCEPT !.pc = pc, !.row = r, !.seen = seen])
               \/ Set(w, [Idle EXCEPT !.pc = pc, !.row = r])
        PROVE  \E j : Becomes(w, j) /\ Carries(j)'
    <3>1. PICK j : /\ Set(w, j)
                   /\ \/ j = [Idle EXCEPT !.pc = pc, !.row = r, !.seen = seen]
                      \/ j = [Idle EXCEPT !.pc = pc, !.row = r]
      BY <2>2
    <3>2. DOMAIN j = JobFields /\ j.pc = pc BY <3>1 DEF Idle, JobFields
    <3> QED BY <2>1, <3>1, <3>2, SetFree
  <2>3. CASE Stop(w) BY <2>3, StopBecomes
  <2>4. CASE \E pc \in Free : Goto(w, pc) BY <2>4, <1>2, GotoFree
  <2> QED BY <1>3, <2>2, <2>3, <2>4
<1> QED BY <1>2, <1>4 DEF Holding

\* A pending row has no id of Stripe's yet; a link or a failure leaves the row's as it is.
LEMMA RowIsWritten ==
  ASSUME Backing, NEW w \in Worker, RecordPending(w) \/ LinkAttempt(w) \/ FailRow(w)
  PROVE  Holding(w)
<1>1. UNCHANGED <<refunds, known, inbox>> BY DEF RecordPending, LinkAttempt, FailRow, stripe
<1>2. RefundsKeep /\ KnownKeeps /\ InboxKeeps BY <1>1, StripeKeeps DEF stripe
<1>3. LedgerKeeps
  <2>1. CASE RecordPending(w)
    <3> DEFINE value == [status |-> "pending", refund |-> 0,
                         linked |-> job[w].row.scope = "vendor_denial"]
    <3>1. \/ UNCHANGED ledger
          \/ job[w].row \notin DOMAIN ledger /\ ledger' = Put(ledger, job[w].row, value)
      BY <2>1 DEF RecordPending, WriteLedger
    <3>2. DOMAIN value = RowFields /\ value.refund = 0 /\ value.status # "succeeded"
      BY DEF RowFields
    <3> HIDE DEF value
    <3> QED BY <1>1, <3>1, <3>2, NewRowKeeps, StripeKeeps
  <2>2. CASE LinkAttempt(w) BY <1>1, <2>2, LinkKeeps DEF LinkAttempt, WriteLedgerOnly
  <2>3. CASE FailRow(w) BY <1>1, <2>3, StatusKeeps DEF FailRow, WriteLedger
  <2> QED BY <2>1, <2>2, <2>3
<1>4. Stop(w) \/ \E pc \in Free : Goto(w, pc)
  BY DEF RecordPending, LinkAttempt, FailRow, AfterRecord, Free
<1> QED BY <1>2, <1>3, <1>4, StopBecomes, GotoFree DEF Holding

\* Stripe makes a refund for the job's amount and vendor order.
LEMMA NewRefundKeeps ==
  ASSUME Backing, NEW r, NEW status, NewRefund(r, status)
  PROVE  /\ RefundsKeep /\ InboxKeeps
         /\ \E id : /\ id = Len(refunds') /\ id = Len(refunds) + 1 /\ id \in DOMAIN refunds'
                    /\ refunds'[id].amount = r.amount /\ refunds'[id].vo = r.vo
<1> DEFINE new == [vo |-> r.vo, amount |-> r.amount, status |-> status]
           id  == Len(refunds) + 1
<1>1. refunds' = Append(refunds, new) /\ inbox' = Announce(inbox, id, status) BY DEF NewRefund
<1>2. DOMAIN new = RefundFields /\ new.vo = r.vo /\ new.amount = r.amount BY DEF RefundFields
<1> HIDE DEF new
<1>3. RefundsKeep BY <1>1, <1>2, AppendKeeps DEF Backing, RefundsKeep
<1>4. id \in DOMAIN refunds' /\ id \notin DOMAIN refunds /\ Len(refunds') = id
  BY <1>1, IndexIsPositive, AppendLen DEF Backing
<1>5. refunds'[id] = new BY <1>1, <1>4, AppendKeeps DEF Backing
<1>6. InboxKeeps
  <2>1. DOMAIN inbox' = Event BY <1>1 DEF Announce
  <2>2. \A e \in Event : inbox'[e] # "none" => e.refund = id \/ inbox[e] # "none"
    BY <1>1 DEF Announce
  <2> QED BY <2>1, <2>2, <1>3, <1>4 DEF InboxKeeps, RefundsKeep, Backing
<1> QED BY <1>2, <1>3, <1>4, <1>5, <1>6

\* The job that asked for the refund goes on with its id.
LEMMA RefundIsMadeHolds ==
  ASSUME Backing, NEW w \in Worker, RefundIsMade(w)
  PROVE  Holding(w)
<1> DEFINE r == job[w].row
           id == Len(refunds')
<1>1. PICK status : NewRefund(r, status) BY DEF RefundIsMade
<1>2. /\ RefundsKeep /\ InboxKeeps /\ id \in DOMAIN refunds'
      /\ refunds'[id].amount = r.amount /\ refunds'[id].vo = r.vo
  BY <1>1, NewRefundKeeps
<1>3. UNCHANGED ledger BY DEF RefundIsMade, database
<1>4. LedgerKeeps BY <1>2, <1>3 DEF Backing, LedgerKeeps, LedgerIsBacked, Taken, Holds, RefundsKeep
<1>5. KnownKeeps
  <2>1. \A x \in DOMAIN known' :
          \/ x \in DOMAIN known /\ known'[x] = known[x]
          \/ x = r /\ known'[x] = id
    <3>1. known' = known \/ known' = Put(known, r, id) BY DEF RefundIsMade
    <3> HIDE DEF id, r
    <3> QED BY <3>1 DEF Put
  <2>2. ASSUME NEW x \in DOMAIN known', known'[x] # 0
        PROVE  /\ known'[x] \in DOMAIN refunds'
               /\ refunds'[known'[x]].amount = x.amount /\ refunds'[known'[x]].vo = x.vo
    <3>1. CASE x \in DOMAIN known /\ known'[x] = known[x]
      <4>1. Backs(known[x], x) BY <2>2, <3>1 DEF Backing
      <4> QED BY <1>2, <3>1, <4>1 DEF Backs, RefundsKeep
    <3>2. CASE x = r /\ known'[x] = id BY <1>2, <3>2
    <3> QED BY <2>1, <2>2, <3>1, <3>2
  <2> QED BY <2>2 DEF KnownKeeps, Backs
<1>6. \E j : Becomes(w, j) /\ Carries(j)'
  <2>1. CASE Goto(w, "fail") BY <1>2, <2>1, GotoFree DEF Free
  <2>2. CASE Set(w, [job[w] EXCEPT !.pc = "store", !.refund = id])
    <3>1. PICK n : n = id OBVIOUS
    <3> DEFINE j == [job[w] EXCEPT !.pc = "store", !.refund = n]
    <3>2. DOMAIN j = JobFields /\ j.pc = "store" /\ j.refund = n /\ j.row = r
      BY DEF Backing, JobFields
    <3>3. Set(w, j) BY <2>2, <3>1
    <3>4. PICK k : k = j OBVIOUS
    <3> HIDE DEF j
    <3>5. Becomes(w, k) BY <3>2, <3>3, <3>4, SetBecomes
    <3>6. Carries(k)' BY <1>2, <3>1, <3>2, <3>4 DEF Carries, Backs
    <3> QED BY <3>5, <3>6
  <2> QED BY <2>1, <2>2 DEF RefundIsMade
<1> QED BY <1>2, <1>4, <1>5, <1>6 DEF Holding

\* Stripe refuses, or gives the answer it gave before.
LEMMA OtherAnswerHolds ==
  ASSUME Backing, NEW w \in Worker, RefundIsRefused(w) \/ RefundIsRepeated(w)
  PROVE  Holding(w)
<1>1. UNCHANGED <<ledger, refunds, inbox>>
  BY DEF RefundIsRefused, RefundIsRepeated, database, stripe
<1>2. RefundsKeep /\ InboxKeeps /\ LedgerKeeps BY <1>1, StripeKeeps
<1>3. CASE RefundIsRefused(w)
  <2>1. KnownKeeps
    <3>1. \A x \in DOMAIN known' : known'[x] # 0 => x \in DOMAIN known /\ known'[x] = known[x]
      BY <1>3 DEF RefundIsRefused, Put
    <3> QED BY <1>1, <3>1 DEF KnownKeeps, Backing, Backs
  <2>2. Goto(w, "fail") BY <1>3 DEF RefundIsRefused
  <2> QED BY <1>2, <2>1, <2>2, GotoFree DEF Holding, Free
<1>4. CASE RefundIsRepeated(w)
  <2>1. KnownKeeps BY <1>4, StripeKeeps DEF RefundIsRepeated
  <2>2. CASE known[job[w].row] = 0
    <3>1. Goto(w, "fail") BY <1>4, <2>2 DEF RefundIsRepeated
    <3> QED BY <1>2, <2>1, <3>1, GotoFree DEF Holding, Free
  <2>3. CASE known[job[w].row] # 0
    <3>1. PICK j : j = [job[w] EXCEPT !.pc = "store", !.refund = known[job[w].row]] OBVIOUS
    <3>2. Set(w, j) BY <1>4, <2>3, <3>1 DEF RefundIsRepeated
    <3>3. DOMAIN j = JobFields /\ j.pc = "store" /\ j.refund = known[job[w].row]
          /\ j.row = job[w].row
      BY <3>1 DEF Backing, JobFields
    <3>4. Backs(j.refund, j.row) BY <1>4, <2>3, <3>3 DEF RefundIsRepeated, Backing
    <3>5. Carries(j) BY <3>3, <3>4 DEF Carries
    <3> QED BY <1>2, <2>1, <3>2, <3>3, <3>5, SetBecomes, CarriesKeeps DEF Holding
  <2> QED BY <2>2, <2>3
<1> QED BY <1>3, <1>4

\* The attempt takes Stripe's id; the job goes on to the row with it.
LEMMA StoreHolds ==
  ASSUME Backing, NEW w \in Worker, StoreRefund(w)
  PROVE  Holding(w)
<1>1. RefundsKeep /\ KnownKeeps /\ InboxKeeps /\ LedgerKeeps
  BY StripeKeeps DEF StoreRefund, stripe
<1>2. PICK j : j = [job[w] EXCEPT !.pc = "mark",
                                  !.seen = ledger[job[w].row].status = "succeeded"]
  OBVIOUS
<1>3. Set(w, j) BY <1>2 DEF StoreRefund
<1>4. /\ DOMAIN j = JobFields /\ j.pc = "mark"
      /\ j.refund = job[w].refund /\ j.row = job[w].row
  BY <1>2 DEF Backing, JobFields
<1>5. Carries(j) BY <1>4 DEF Carries, StoreRefund, At, Backing
<1> QED BY <1>1, <1>3, <1>4, <1>5, SetBecomes, CarriesKeeps DEF Holding

\* markRefundSucceeded, for a request and for an event.
LEMMA MarkHolds ==
  ASSUME Backing, NEW w \in Worker, MarkRefund(w) \/ ApplySucceeded(w)
  PROVE  Holding(w)
<1>1. RefundsKeep /\ KnownKeeps /\ InboxKeeps
  BY StripeKeeps DEF MarkRefund, ApplySucceeded, stripe
<1>2. Backs(job[w].refund, job[w].row)
  BY DEF MarkRefund, ApplySucceeded, At, Backing, Carries
<1>3. LedgerKeeps
  <2>1. CASE UNCHANGED ledger BY <2>1, StripeKeeps DEF MarkRefund, ApplySucceeded, stripe
  <2>2. CASE ~Taken(job[w].refund, job[w].row) /\ MarkSucceeded(job[w])
    <3>1. UNCHANGED refunds BY DEF MarkRefund, ApplySucceeded, stripe
    <3>2. ledger' = [ledger EXCEPT ![job[w].row].status = "succeeded",
                                   ![job[w].row].refund = job[w].refund]
      BY <2>2 DEF MarkSucceeded, WriteLedger, WriteLedgerOnly
    <3>3. PICK j : j = job[w] OBVIOUS
    <3> QED BY <1>2, <2>2, <3>1, <3>2, <3>3, SucceededKeeps
  <2> QED BY <2>1, <2>2 DEF MarkRefund, ApplySucceeded
<1>4. \/ Stop(w) \/ Goto(w, "fail")
      \/ Goto(w, "processed") /\ job[w].refund \in DOMAIN refunds
  BY <1>2 DEF MarkRefund, ApplySucceeded, Backs
<1> QED BY <1>1, <1>3, <1>4, StopBecomes, GotoFree, GotoEnd DEF Holding, Free

-----------------------------------------------------------------------------
(* The webhook, Stripe and the process.                                    *)

\* An event is about a refund that Stripe made.
LEMMA DeliverHolds ==
  ASSUME Backing, NEW w \in Worker, NEW e \in Event, DeliverEvent(w, e)
  PROVE  Holding(w)
<1>1. UNCHANGED <<ledger, refunds, known>> BY DEF DeliverEvent, database, stripe
<1>2. e.refund \in DOMAIN refunds BY DEF DeliverEvent, Backing
<1>3. InboxKeeps BY <1>1, <1>2 DEF DeliverEvent, InboxKeeps, Backing
<1>4. PICK j : j = [Idle EXCEPT !.pc = "find", !.refund = e.refund, !.status = e.status,
                                !.copy = e.copy]
  OBVIOUS
<1>5. Set(w, j) BY <1>4 DEF DeliverEvent
<1>6. DOMAIN j = JobFields /\ j.pc = "find" /\ j.refund = e.refund
  BY <1>4 DEF Idle, JobFields
<1>7. Carries(j) BY <1>2, <1>6 DEF Carries
<1>8. RefundsKeep /\ KnownKeeps /\ LedgerKeeps BY <1>1, StripeKeeps DEF stripe
<1> QED BY <1>3, <1>5, <1>6, <1>7, <1>8, SetBecomes, CarriesKeeps DEF Holding

\* The row an event finds, or will create, is about its refund.
LEMMA FindHolds ==
  ASSUME Backing, NEW w \in Worker, FindRow(w)
  PROVE  Holding(w)
<1> DEFINE legacy == LegacyRow(job[w].refund)
<1>1. UNCHANGED <<ledger, stripe, inbox>> BY DEF FindRow, database
<1>2. RefundsKeep /\ KnownKeeps /\ InboxKeeps /\ LedgerKeeps BY <1>1, StripeKeeps DEF stripe
<1>3. job[w].refund \in DOMAIN refunds BY DEF FindRow, At, Backing, Carries
<1>4. Backs(job[w].refund, legacy) BY <1>3 DEF LegacyRow, Backs
<1>5. job[w].refund # 0 BY <1>3, IndexIsPositive DEF Backing
<1>6. \A row \in DOMAIN ledger : Holds(row, job[w].refund) => Backs(job[w].refund, row)
  BY <1>5 DEF Backing, LedgerIsBacked, Holds, Backs
<1> HIDE DEF legacy
<1>7. PICK j : /\ Set(w, j)
               /\ \/ j = [job[w] EXCEPT !.pc = "processed"]
                  \/ j = [job[w] EXCEPT !.pc = "book", !.row = legacy]
                  \/ \E row : /\ Backs(job[w].refund, row)
                              /\ j = [job[w] EXCEPT !.pc = "apply", !.row = row,
                                        !.seen = ledger[row].status = "succeeded"]
                  \/ \E row : /\ job[w].status # "succeeded"
                              /\ j = [job[w] EXCEPT !.pc = "reopen", !.row = row]
  BY <1>4, <1>6 DEF FindRow, legacy
<1>8. DOMAIN j = JobFields /\ Carries(j)
  <2>1. CASE j = [job[w] EXCEPT !.pc = "processed"]
    <3>1. DOMAIN j = JobFields /\ j.pc = "processed" /\ j.refund = job[w].refund
      BY <2>1 DEF Backing, JobFields
    <3> QED BY <3>1, <1>3 DEF Carries
  <2>2. CASE j = [job[w] EXCEPT !.pc = "book", !.row = legacy]
    <3>1. /\ DOMAIN j = JobFields /\ j.pc = "book"
          /\ j.row = legacy /\ j.refund = job[w].refund
      BY <2>2 DEF Backing, JobFields
    <3> QED BY <3>1, <1>4 DEF Carries
  <2>3. ASSUME NEW row, Backs(job[w].refund, row),
               j = [job[w] EXCEPT !.pc = "apply", !.row = row,
                                  !.seen = ledger[row].status = "succeeded"]
        PROVE  DOMAIN j = JobFields /\ Carries(j)
    <3>1. DOMAIN j = JobFields /\ j.pc = "apply" /\ j.row = row /\ j.refund = job[w].refund
      BY <2>3 DEF Backing, JobFields
    <3> QED BY <3>1, <2>3 DEF Carries
  <2>4. ASSUME NEW row, job[w].status # "succeeded",
               j = [job[w] EXCEPT !.pc = "reopen", !.row = row]
        PROVE  DOMAIN j = JobFields /\ Carries(j)
    <3>1. DOMAIN j = JobFields /\ j.pc = "reopen" /\ j.status = job[w].status
          /\ j.refund = job[w].refund
      BY <2>4 DEF Backing, JobFields
    <3> QED BY <3>1, <2>4, <1>3 DEF Carries
  <2> QED BY <1>7, <2>1, <2>2, <2>3, <2>4
<1> QED BY <1>2, <1>7, <1>8, SetBecomes, CarriesKeeps DEF Holding

\* An event that is not of a success makes no row succeed.
LEMMA ReopenHolds ==
  ASSUME Backing, NEW w \in Worker, ReopenRow(w)
  PROVE  Holding(w)
<1>1. UNCHANGED <<refunds, known, inbox>> BY DEF ReopenRow, stripe
<1>2. RefundsKeep /\ KnownKeeps /\ InboxKeeps BY <1>1, StripeKeeps DEF stripe
<1>3. job[w].status # "succeeded" /\ job[w].refund \in DOMAIN refunds
  BY DEF ReopenRow, At, Backing, Carries
<1>4. LedgerKeeps BY <1>1, <1>3, StatusKeeps DEF ReopenRow, WriteLedgerOnly
<1>5. Goto(w, "processed") BY DEF ReopenRow
<1> QED BY <1>2, <1>3, <1>4, <1>5, GotoEnd DEF Holding

\* The row an event creates has the event's refund, unless another row has it.
LEMMA BookHolds ==
  ASSUME Backing, NEW w \in Worker, BookRefund(w)
  PROVE  Holding(w)
<1>1. UNCHANGED <<refunds, known, inbox>> BY DEF BookRefund, stripe
<1>2. RefundsKeep /\ KnownKeeps /\ InboxKeeps BY <1>1, StripeKeeps DEF stripe
<1>3. Backs(job[w].refund, job[w].row) BY DEF BookRefund, At, Backing, Carries
<1>4. job[w].refund # 0 BY <1>3, IndexIsPositive DEF Backing, Backs
<1> DEFINE value == [status |-> job[w].status, linked |-> FALSE,
                     refund |-> IF job[w].status = "succeeded" THEN job[w].refund ELSE 0]
<1>5. CASE Stop(w) /\ UNCHANGED ledger
  BY <1>1, <1>2, <1>5, StripeKeeps, StopBecomes DEF Holding
<1>6. CASE /\ job[w].row \notin DOMAIN ledger
           /\ job[w].status = "succeeded" => ~Taken(job[w].refund, job[w].row)
           /\ ledger' = Put(ledger, job[w].row, value)
           /\ Set(w, [job[w] EXCEPT !.pc = IF job[w].status = "succeeded" THEN "apply"
                                           ELSE "refresh", !.seen = TRUE])
  <2>1. DOMAIN value = RowFields BY DEF RowFields
  <2>2. \/ value.refund = 0 /\ value.status # "succeeded"
        \/ value.refund # 0 /\ Backs(value.refund, job[w].row) /\ ~Taken(value.refund, job[w].row)
    BY <1>3, <1>4, <1>6
  <2> HIDE DEF value
  <2>3. PICK v, row : v = value /\ row = job[w].row OBVIOUS
  <2>4. LedgerKeeps BY <1>1, <1>6, <2>1, <2>2, <2>3, NewRowKeeps
  <2>5. PICK j : j = [job[w] EXCEPT !.pc = IF job[w].status = "succeeded" THEN "apply"
                                           ELSE "refresh", !.seen = TRUE]
    OBVIOUS
  <2>6. /\ DOMAIN j = JobFields /\ j.pc \in {"apply", "refresh"}
        /\ j.refund = job[w].refund /\ j.row = job[w].row
    BY <2>5 DEF Backing, JobFields
  <2>7. Carries(j) BY <1>3, <2>6 DEF Carries, Backs
  <2> QED BY <1>2, <1>6, <2>4, <2>5, <2>6, <2>7, SetBecomes, CarriesKeeps DEF Holding
<1> QED BY <1>5, <1>6 DEF BookRefund, WriteLedgerOnly

\* The end of a delivery, and a process that dies.
LEMMA EndHolds ==
  ASSUME Backing, NEW w \in Worker, RefreshSummary(w) \/ MarkProcessed(w) \/ Crash(w)
  PROVE  Holding(w)
<1>1. UNCHANGED <<ledger, refunds, known>>
  BY DEF RefreshSummary, MarkProcessed, Crash, WriteLedger, database, stripe
<1>2. RefundsKeep /\ KnownKeeps /\ LedgerKeeps BY <1>1, StripeKeeps DEF stripe
<1>3. InboxKeeps
  <2>1. CASE UNCHANGED inbox BY <1>1, <2>1, StripeKeeps
  <2>2. CASE MarkProcessed(w)
    <3>1. PICK e : e = EventOf(job[w]) OBVIOUS
    <3>2. inbox' = [inbox EXCEPT ![e] = "done"] BY <2>2, <3>1 DEF MarkProcessed
    <3>3. \A x \in Event : inbox'[x] # "none" => inbox[x] # "none" \/ x = e
      BY <3>2 DEF Backing
    <3>4. e.refund \in DOMAIN refunds
      BY <2>2, <3>1 DEF MarkProcessed, At, EventOf, Backing, Carries
    <3> QED BY <1>1, <3>2, <3>3, <3>4 DEF InboxKeeps, Backing
  <2> QED BY <2>1, <2>2 DEF RefreshSummary, Crash
<1>4. Stop(w) \/ (Goto(w, "processed") /\ job[w].refund \in DOMAIN refunds)
  BY DEF RefreshSummary, MarkProcessed, Crash, At, Backing, Carries
<1> QED BY <1>2, <1>3, <1>4, StopBecomes, GotoEnd DEF Holding

\* Someone refunds in Stripe's dashboard, or a refund settles: jobs and rows stay.
LEMMA StripeStepKeeps ==
  ASSUME Backing, DashboardRefund \/ RefundSettles
  PROVE  Backing'
<1>1. UNCHANGED <<ledger, known, job>> BY DEF DashboardRefund, RefundSettles, database
<1>2. RefundsKeep /\ InboxKeeps
  <2>1. CASE DashboardRefund BY <2>1, NewRefundKeeps DEF DashboardRefund
  <2>2. CASE RefundSettles
    <3>1. PICK i \in DOMAIN refunds, status \in {"succeeded", "failed"} :
            /\ refunds' = [refunds EXCEPT ![i].status = status]
            /\ inbox' = Announce(inbox, i, status)
      BY <2>2 DEF RefundSettles
    <3>2. IsSequence(refunds') BY <3>1, ReplaceKeeps DEF Backing
    <3>3. RefundsKeep BY <3>1, <3>2 DEF Backing, RefundsKeep, RefundFields
    <3>4. DOMAIN inbox' = Event BY <3>1 DEF Announce
    <3>5. \A e \in Event : inbox'[e] # "none" => e.refund = i \/ inbox[e] # "none"
      BY <3>1 DEF Announce
    <3> QED BY <3>1, <3>3, <3>4, <3>5 DEF InboxKeeps, RefundsKeep, Backing
  <2> QED BY <2>1, <2>2
<1>3. \A w \in Worker : Carries(job[w])'
  <2>1. ASSUME NEW w \in Worker PROVE Carries(job[w])'
    <3>1. Carries(job[w]) /\ job'[w] = job[w] BY <1>1 DEF Backing
    <3>2. /\ \A i \in DOMAIN refunds : i \in DOMAIN refunds'
          /\ \A i \in DOMAIN refunds : refunds'[i].amount = refunds[i].amount
          /\ \A i \in DOMAIN refunds : refunds'[i].vo = refunds[i].vo
      BY <1>2 DEF RefundsKeep
    <3>3. /\ job'[w].pc \in {"store", "mark", "book", "apply"} =>
                Backs(job'[w].refund, job'[w].row)
          /\ job'[w].pc \in {"find", "reopen", "refresh", "processed"} =>
                job'[w].refund \in DOMAIN refunds
          /\ job'[w].pc = "reopen" => job'[w].status # "succeeded"
      BY <3>1 DEF Carries
    <3> QED BY <3>2, <3>3 DEF Carries, Backs
  <2> QED BY <2>1
<1>4. LedgerIsBacked'
  BY <1>1, <1>2 DEF Backing, LedgerIsBacked, Taken, Holds, RefundsKeep
<1>5. \A r \in DOMAIN known' : known'[r] # 0 => Backs(known[r], r)'
  BY <1>1, <1>2 DEF Backing, Backs, RefundsKeep
<1> QED BY <1>1, <1>2, <1>3, <1>4, <1>5 DEF Backing, RefundsKeep, InboxKeeps

-----------------------------------------------------------------------------
(* The theorems.                                                           *)

\* The base case.
LEMMA InitIsBacked == Init => Backing
<1> SUFFICES ASSUME Init PROVE Backing OBVIOUS
<1>1. IsSequence(refunds) /\ DOMAIN refunds = {} BY EmptySeq DEF Init, IsSequence
<1>2. DOMAIN ledger = {} /\ DOMAIN known = {} BY DEF Init
<1>3. DOMAIN inbox = Event /\ \A e \in Event : inbox[e] = "none" BY DEF Init
<1>4. DOMAIN job = Worker /\ \A w \in Worker : job[w] = Idle BY DEF Init
<1>5. DOMAIN Idle = JobFields /\ Idle.pc = "idle" BY DEF Idle, JobFields
<1>6. \A w \in Worker : Carries(job[w]) BY <1>4, <1>5 DEF Carries
<1> QED BY <1>1, <1>2, <1>3, <1>4, <1>5, <1>6 DEF Backing, LedgerIsBacked

\* The step, by worker and by action.
LEMMA NextKeepsBacking == Backing /\ [Next]_vars => Backing'
<1> SUFFICES ASSUME Backing, [Next]_vars PROVE Backing' OBVIOUS
<1>1. ASSUME NEW w \in Worker, Refund(w) PROVE Backing'
  BY <1>1, DeskHolds, RowIsWritten, RefundIsMadeHolds, OtherAnswerHolds, StoreHolds, MarkHolds,
     HoldingKeeps DEF Refund
<1>2. ASSUME NEW w \in Worker, Dismissal(w) PROVE Backing'
  BY <1>2, DeskHolds, HoldingKeeps DEF Dismissal
<1>3. ASSUME NEW w \in Worker, Webhook(w) PROVE Backing'
  BY <1>3, DeliverHolds, FindHolds, ReopenHolds, BookHolds, MarkHolds, EndHolds,
     HoldingKeeps DEF Webhook
<1>4. ASSUME NEW w \in Worker, Crash(w) PROVE Backing' BY <1>4, EndHolds, HoldingKeeps
<1>5. CASE DashboardRefund \/ RefundSettles BY <1>5, StripeStepKeeps
<1>6. CASE UNCHANGED vars
  <2>1. UNCHANGED <<ledger, refunds, known, inbox, job>> BY <1>6 DEF vars, database, stripe
  <2>2. RefundsKeep /\ KnownKeeps /\ InboxKeeps /\ LedgerKeeps BY <2>1, StripeKeeps DEF stripe
  <2>3. \A w \in Worker : Carries(job[w])' BY <2>1 DEF Backing, Carries, Backs
  <2> QED BY <2>1, <2>2, <2>3 DEF Backing, RefundsKeep, KnownKeeps, InboxKeeps, LedgerKeeps
<1> QED BY <1>1, <1>2, <1>3, <1>4, <1>5, <1>6 DEF Next

\* Jobs, remembered answers and events are about refunds that Stripe made, for the amount and
\* the vendor order of the row they will be booked in, whatever crashes, is lost, repeated
\* or reordered.
THEOREM BackingHolds == Spec => []Backing
BY InitIsBacked, NextKeepsBacking, PTL DEF Spec

\* No money is booked that Stripe did not refund, none twice, and none at another vendor order.
THEOREM LedgerIsAlwaysBacked == Spec => []LedgerIsBacked
<1>1. Backing => LedgerIsBacked BY DEF Backing
<1> QED BY <1>1, BackingHolds, PTL

-----------------------------------------------------------------------------
(* Type correctness, by the parts of the state.                            *)

AttemptsTyped == DOMAIN attempt \subseteq Request /\ attempt \in [DOMAIN attempt -> Attempt]

RowsTyped(l) == DOMAIN l \subseteq RowId /\ l \in [DOMAIN l -> LedgerRow]

Labels == {"none", "partial", "full", "pending"}

LedgerTyped == RowsTyped(ledger) /\ summary.label \in Labels

StripeRefund == [vo : VendorOrder \cup {Whole}, amount : 1..Paid, status : StripeStatus]

StripeTyped ==
  /\ refunds \in Seq(StripeRefund)
  /\ DOMAIN known \subseteq Request /\ known \in [DOMAIN known -> Nat]
  /\ inbox \in [Event -> {"none", "sent", "logged", "done"}]

JobsTyped == job \in [Worker -> Job] /\ \A w \in Worker : JobIsTyped(job[w])

CountsTyped == denied \subseteq VendorOrder /\ asked \in 0..MaxRequests /\ crashes \in 0..MaxCrashes

\* The parts are the whole.
LEMMA TypingParts ==
  Typing <=> AttemptsTyped /\ LedgerTyped /\ StripeTyped /\ JobsTyped /\ CountsTyped
BY DEF Typing, TypeOK, AttemptsTyped, LedgerTyped, RowsTyped, Labels, StripeTyped, StripeRefund,
       JobsTyped, CountsTyped

\* And so after a step.
LEMMA TypingNext ==
  AttemptsTyped' /\ LedgerTyped' /\ StripeTyped' /\ JobsTyped' /\ CountsTyped' => Typing'
BY DEF Typing, TypeOK, AttemptsTyped, LedgerTyped, RowsTyped, Labels, StripeTyped, StripeRefund,
       JobsTyped, CountsTyped

\* A part whose variables stay.
LEMMA TypedKeeps ==
  /\ AttemptsTyped /\ UNCHANGED attempt => AttemptsTyped'
  /\ LedgerTyped /\ UNCHANGED <<ledger, summary>> => LedgerTyped'
  /\ StripeTyped /\ UNCHANGED <<refunds, known, inbox>> => StripeTyped'
  /\ JobsTyped /\ UNCHANGED job => JobsTyped'
  /\ CountsTyped /\ UNCHANGED <<denied, asked, crashes>> => CountsTyped'
<1>1. AttemptsTyped /\ UNCHANGED attempt => AttemptsTyped' BY DEF AttemptsTyped
<1>2. LedgerTyped /\ UNCHANGED <<ledger, summary>> => LedgerTyped' BY DEF LedgerTyped, RowsTyped
<1>3. StripeTyped /\ UNCHANGED <<refunds, known, inbox>> => StripeTyped' BY DEF StripeTyped
<1>4. JobsTyped /\ UNCHANGED job => JobsTyped' BY DEF JobsTyped, JobIsTyped, EventOf
<1>5. CountsTyped /\ UNCHANGED <<denied, asked, crashes>> => CountsTyped' BY DEF CountsTyped
<1> QED BY <1>1, <1>2, <1>3, <1>4, <1>5

\* The idle job is one; Stripe sends at least one event of a change.
LEMMA IdleIsTyped == JobIsTyped(Idle)
<1>1. (CHOOSE c \in Copies : TRUE) \in Copies BY RefundAssumption
<1>2. Idle \in Job BY <1>1 DEF Idle, Job, Pc, StripeStatus
<1>3. Idle.pc = "idle" BY DEF Idle
<1> QED BY <1>2, <1>3 DEF JobIsTyped, DeskPc, HookPc

\* A worker takes a job of its type.
LEMMA SetIsTyped ==
  ASSUME JobsTyped, NEW w \in Worker, NEW j, JobIsTyped(j), Set(w, j)
  PROVE  JobsTyped'
<1>1. job' \in [Worker -> Job] BY DEF JobsTyped, JobIsTyped, Set
<1>2. \A v \in Worker : job'[v] = j \/ job'[v] = job[v] BY DEF JobsTyped, Set
<1>3. \A v \in Worker : JobIsTyped(job'[v]) BY <1>2 DEF JobsTyped
<1> QED BY <1>1, <1>3 DEF JobsTyped, JobIsTyped, EventOf

\* A worker stops.
LEMMA StopIsTyped ==
  ASSUME JobsTyped, NEW w \in Worker, Stop(w)
  PROVE  JobsTyped'
BY IdleIsTyped, SetIsTyped DEF Stop

\* A request's job goes on with the same request.
LEMMA DeskGoesOn ==
  ASSUME JobsTyped, NEW w \in Worker, job[w].pc \in DeskPc, NEW pc \in DeskPc, Goto(w, pc)
  PROVE  JobsTyped'
<1> DEFINE j == [job[w] EXCEPT !.pc = pc]
<1>1. job[w] \in Job /\ job[w].row \in Request BY DEF JobsTyped, JobIsTyped
<1>2. j \in Job BY <1>1 DEF Job, DeskPc, Pc
<1>3. j.pc = pc /\ j.row = job[w].row BY <1>1 DEF Job
<1> HIDE DEF j
<1>4. JobIsTyped(j) BY <1>1, <1>2, <1>3 DEF JobIsTyped, DeskPc, HookPc
<1> QED BY <1>4, SetIsTyped DEF Goto, j

\* A delivery comes to its end.
LEMMA HookGoesOn ==
  ASSUME JobsTyped, NEW w \in Worker, job[w].pc \in HookPc, Goto(w, "processed")
  PROVE  JobsTyped'
<1> DEFINE j == [job[w] EXCEPT !.pc = "processed"]
<1>1. job[w] \in Job /\ EventOf(job[w]) \in Event BY DEF JobsTyped, JobIsTyped
<1>2. j \in Job /\ j.pc = "processed" BY <1>1 DEF Job, Pc
<1>3. EventOf(j) = EventOf(job[w]) BY <1>1 DEF Job, EventOf
<1> HIDE DEF j
<1>4. JobIsTyped(j) BY <1>1, <1>2, <1>3 DEF JobIsTyped, DeskPc, HookPc
<1> QED BY <1>4, SetIsTyped DEF Goto, j

\* The label of a summary, whatever the ledger.
LEMMA LabelIsTyped == \A l : Summary(l).label \in Labels
BY DEF Summary, derivePaymentRefundStatus, Labels

\* A ledger of typed rows, with the summary or without.
LEMMA WriteIsTyped ==
  ASSUME LedgerTyped, NEW l, RowsTyped(l), WriteLedger(l) \/ WriteLedgerOnly(l)
  PROVE  LedgerTyped'
BY LabelIsTyped DEF LedgerTyped, RowsTyped, WriteLedger, WriteLedgerOnly

\* A new row, or other columns of one.
LEMMA RowsAreTyped ==
  ASSUME LedgerTyped, NEW row
  PROVE  /\ \A v \in LedgerRow : row \in RowId => RowsTyped(Put(ledger, row, v))
         /\ \A s \in StripeStatus : RowsTyped([ledger EXCEPT ![row].status = s])
         /\ RowsTyped([ledger EXCEPT ![row].linked = TRUE])
         /\ \A i \in Nat : RowsTyped([ledger EXCEPT ![row].status = "succeeded",
                                                  ![row].refund = i])
BY DEF LedgerTyped, RowsTyped, LedgerRow, Put, StripeStatus

\* A job that begins with a request.
LEMMA BeginsTyped ==
  ASSUME JobsTyped, NEW w \in Worker, NEW j \in Job, j.pc \in {"claim", "caps", "verify"},
         j.row \in Request, Set(w, j)
  PROVE  JobsTyped'
<1>1. JobIsTyped(j) BY DEF JobIsTyped, DeskPc, HookPc
<1> QED BY <1>1, SetIsTyped

\* The requests and dismissals people begin.
LEMMA AsksTyped ==
  ASSUME Typing, NEW w \in Worker, AskDenial(w) \/ AskAdmin(w) \/ AskDismissal(w)
  PROVE  Typing'
<1>1. UNCHANGED <<attempt, ledger, summary, refunds, known, inbox, crashes>>
  BY DEF AskDenial, AskAdmin, AskDismissal, database, stripe
<1>2. JobsTyped'
  <2>1. CASE AskDenial(w) \/ AskAdmin(w)
    <3>1. CASE Stop(w) BY <3>1, TypingParts, StopIsTyped
    <3>2. CASE ~Stop(w)
      <4>1. PICK r, j :
              /\ r \in Request /\ Set(w, j)
              /\ \/ j = [Idle EXCEPT !.pc = "claim", !.row = r, !.seen = r \in DOMAIN attempt]
                 \/ j = [Idle EXCEPT !.pc = "caps", !.row = r, !.seen = r \in DOMAIN attempt]
        BY <2>1, <3>2 DEF AskDenial, AskAdmin
      <4>2. Idle \in Job BY IdleIsTyped DEF JobIsTyped
      <4>3. (r \in DOMAIN attempt) \in BOOLEAN OBVIOUS
      <4>4. ASSUME NEW pc \in {"claim", "caps"}, NEW seen \in BOOLEAN
            PROVE  LET k == [Idle EXCEPT !.pc = pc, !.row = r, !.seen = seen]
                   IN  k \in Job /\ k.pc = pc /\ k.row = r
        BY <4>1, <4>2 DEF Job, Pc, RowId
      <4>5. j \in Job /\ j.pc \in {"claim", "caps"} /\ j.row = r BY <4>1, <4>3, <4>4, Zenon
      <4> QED BY <4>1, <4>5, TypingParts, BeginsTyped
    <3> QED BY <3>1, <3>2
  <2>2. CASE AskDismissal(w)
    <3>1. PICK r, j :
            r \in DOMAIN attempt /\ Set(w, j) /\ j = [Idle EXCEPT !.pc = "verify", !.row = r]
      BY <2>2 DEF AskDismissal
    <3>2. r \in Request BY <3>1, TypingParts DEF AttemptsTyped
    <3>3. j \in Job /\ j.pc = "verify" /\ j.row = r
      BY <3>1, <3>2, IdleIsTyped DEF JobIsTyped, Job, Pc, RowId
    <3> QED BY <3>1, <3>2, <3>3, TypingParts, BeginsTyped
  <2> QED BY <2>1, <2>2
<1>3. CountsTyped'
  <2>1. MaxRequests \in Nat BY RefundAssumption
  <2>2. asked' = asked \/ (asked' = asked + 1 /\ asked < MaxRequests)
    BY DEF AskDenial, AskAdmin, AskDismissal
  <2>3. denied' = denied \/ \E r \in Request : r.vo # Whole /\ denied' = denied \cup {r.vo}
    BY DEF AskDenial, AskAdmin, AskDismissal, database, Request
  <2>4. \A r \in Request : r.vo # Whole => r.vo \in VendorOrder BY DEF Request
  <2> QED BY <1>1, <2>1, <2>2, <2>3, <2>4, TypingParts DEF CountsTyped
<1> QED BY <1>1, <1>2, <1>3, TypingParts, TypedKeeps, TypingNext

\* A request's job is at one of its steps.
LEMMA DeskIsAt ==
  ASSUME NEW w \in Worker, NEW pc \in DeskPc, JobsTyped, At(w, pc)
  PROVE  job[w].pc \in DeskPc /\ job[w].row \in Request
BY DEF At, JobsTyped, JobIsTyped

\* The steps of a request that write its attempt.
LEMMA AttemptWritesTyped ==
  ASSUME Typing, NEW w \in Worker,
         \/ ClaimDenial(w) \/ AdoptAttempt(w) \/ FailAttempt(w) \/ RefuseDenial(w)
         \/ DismissAttempt(w) \/ StoreRefund(w)
  PROVE  Typing'
<1> DEFINE r == job[w].row
           i == job[w].refund
<1>1. UNCHANGED <<ledger, summary, refunds, known, inbox, denied, asked, crashes>>
  BY DEF ClaimDenial, AdoptAttempt, FailAttempt, RefuseDenial, DismissAttempt, StoreRefund, stripe
<1>2. r \in Request /\ job[w].pc \in DeskPc
  BY TypingParts, DeskIsAt DEF ClaimDenial, AdoptAttempt, FailAttempt, RefuseDenial,
     DismissAttempt, StoreRefund, DeskPc
<1>3. job[w] \in Job BY <1>2, TypingParts DEF JobsTyped
<1>4. i \in Nat BY <1>3 DEF Job
<1>5. AttemptsTyped'
  <2>1. \/ UNCHANGED attempt \/ attempt' = Put(attempt, r, NewAttempt)
        \/ \E s \in {"attempted", "failed"} : attempt' = [attempt EXCEPT ![r].status = s]
        \/ attempt' = [attempt EXCEPT ![r].status = "attempted", ![r].dismissed = FALSE]
        \/ attempt' = [attempt EXCEPT ![r].dismissed = TRUE]
        \/ attempt' = [attempt EXCEPT ![r].status = "succeeded", ![r].refund = i]
    BY DEF ClaimDenial, AdoptAttempt, FailAttempt, RefuseDenial, DismissAttempt, StoreRefund
  <2>2. NewAttempt \in Attempt BY DEF NewAttempt, Attempt
  <2>3. AttemptsTyped BY TypingParts
  <2> HIDE DEF r, i
  <2>4. /\ \A s \in {"attempted", "failed"} :
             [attempt EXCEPT ![r].status = s] \in [DOMAIN attempt -> Attempt]
        /\ [attempt EXCEPT ![r].status = "attempted", ![r].dismissed = FALSE]
             \in [DOMAIN attempt -> Attempt]
        /\ [attempt EXCEPT ![r].dismissed = TRUE] \in [DOMAIN attempt -> Attempt]
        /\ [attempt EXCEPT ![r].status = "succeeded", ![r].refund = i]
             \in [DOMAIN attempt -> Attempt]
    BY <1>4, <2>3 DEF AttemptsTyped, Attempt
  <2>5. CASE UNCHANGED attempt BY <2>3, <2>5, TypedKeeps
  <2>6. CASE attempt' = Put(attempt, r, NewAttempt)
    BY <1>2, <2>2, <2>3, <2>6 DEF AttemptsTyped, Put
  <2>7. ASSUME NEW a \in [DOMAIN attempt -> Attempt], attempt' = a PROVE AttemptsTyped'
    BY <2>3, <2>7 DEF AttemptsTyped
  <2> QED BY <2>1, <2>4, <2>5, <2>6, <2>7
<1>6. JobsTyped'
  <2>1. CASE StoreRefund(w)
    <3>1. PICK j : j = [job[w] EXCEPT !.pc = "mark",
                                      !.seen = ledger[job[w].row].status = "succeeded"]
      OBVIOUS
    <3>2. Set(w, j) BY <2>1, <3>1 DEF StoreRefund
    <3>3. j \in Job /\ j.pc = "mark" /\ j.row = r BY <1>3, <3>1 DEF Job, Pc
    <3>4. JobIsTyped(j) BY <1>2, <3>3 DEF JobIsTyped, DeskPc, HookPc
    <3> QED BY <3>2, <3>4, SetIsTyped, TypingParts
  <2>2. CASE ~StoreRefund(w)
    <3>1. Stop(w) \/ \E pc \in DeskPc : Goto(w, pc)
      BY <2>2 DEF ClaimDenial, AdoptAttempt, FailAttempt, RefuseDenial, DismissAttempt, DeskPc
    <3> QED BY <1>2, <3>1, StopIsTyped, DeskGoesOn, TypingParts
  <2> QED BY <2>1, <2>2
<1> QED BY <1>1, <1>5, <1>6, TypingParts, TypedKeeps, TypingNext

\* The steps of a request that read, or write its row.
LEMMA RowWritesTyped ==
  ASSUME Typing, NEW w \in Worker,
         \/ Precheck(w) \/ CheckCaps(w) \/ RecordPending(w) \/ LinkAttempt(w) \/ MarkRefund(w)
         \/ FailRow(w) \/ VerifyNoConflict(w)
  PROVE  Typing'
<1> DEFINE r == job[w].row
           i == job[w].refund
<1>1. UNCHANGED <<attempt, refunds, known, inbox, denied, asked, crashes>>
  BY DEF Precheck, CheckCaps, RecordPending, LinkAttempt, MarkRefund, FailRow, VerifyNoConflict,
         database, stripe
<1>2. r \in Request /\ job[w].pc \in DeskPc
  BY TypingParts, DeskIsAt DEF Precheck, CheckCaps, RecordPending, LinkAttempt, MarkRefund,
     FailRow, VerifyNoConflict, DeskPc
<1>3. i \in Nat /\ r \in RowId BY <1>2, TypingParts DEF JobsTyped, Job, RowId
<1>4. LedgerTyped'
  <2> DEFINE new == [status |-> "pending", refund |-> 0, linked |-> r.scope = "vendor_denial"]
             marked == [ledger EXCEPT ![r].status = "succeeded", ![r].refund = i]
  <2>1. \/ UNCHANGED <<ledger, summary>>
        \/ WriteLedger(Put(ledger, r, new))
        \/ WriteLedgerOnly([ledger EXCEPT ![r].linked = TRUE])
        \/ WriteLedger([ledger EXCEPT ![r].status = "failed"])
        \/ WriteLedger(marked) \/ WriteLedgerOnly(marked)
    BY DEF Precheck, CheckCaps, RecordPending, LinkAttempt, MarkRefund, FailRow, VerifyNoConflict,
           MarkSucceeded, database
  <2>2. new \in LedgerRow BY DEF LedgerRow, StripeStatus
  <2>3. LedgerTyped BY TypingParts
  <2>4. "failed" \in StripeStatus BY DEF StripeStatus
  <2> HIDE DEF r, i, new
  <2>5. /\ RowsTyped(Put(ledger, r, new)) /\ RowsTyped([ledger EXCEPT ![r].linked = TRUE])
        /\ RowsTyped([ledger EXCEPT ![r].status = "failed"]) /\ RowsTyped(marked)
    BY <1>3, <2>2, <2>3, <2>4, RowsAreTyped
  <2> HIDE DEF marked
  <2> QED BY <2>1, <2>3, <2>5, WriteIsTyped, TypedKeeps
<1>5. Stop(w) \/ \E pc \in DeskPc : Goto(w, pc)
  BY DEF Precheck, CheckCaps, RecordPending, LinkAttempt, MarkRefund, FailRow, VerifyNoConflict,
         AfterRecord, DeskPc
<1>6. JobsTyped' BY <1>2, <1>5, StopIsTyped, DeskGoesOn, TypingParts
<1> QED BY <1>1, <1>4, <1>6, TypingParts, TypedKeeps, TypingNext

\* A new refund of Stripe's: one more in the sequence, and its event.
LEMMA NewRefundTyped ==
  ASSUME Typing, NEW r \in Request, NEW status \in StripeStatus, NewRefund(r, status)
  PROVE  /\ refunds' \in Seq(StripeRefund) /\ Len(refunds') = Len(refunds) + 1
         /\ inbox' \in [Event -> {"none", "sent", "logged", "done"}]
<1> DEFINE new == [vo |-> r.vo, amount |-> r.amount, status |-> status]
<1>1. new \in StripeRefund BY DEF StripeRefund, Request
<1>2. refunds \in Seq(StripeRefund) /\ inbox \in [Event -> {"none", "sent", "logged", "done"}]
  BY TypingParts DEF StripeTyped
<1>3. refunds' = Append(refunds, new) BY DEF NewRefund
<1> HIDE DEF new
<1>4. refunds' \in Seq(StripeRefund) /\ Len(refunds') = Len(refunds) + 1
  BY <1>1, <1>2, <1>3, AppendProperties
<1>5. inbox' \in [Event -> {"none", "sent", "logged", "done"}] BY <1>2 DEF NewRefund, Announce
<1> QED BY <1>4, <1>5

\* Stripe's answers.
LEMMA AnswersTyped ==
  ASSUME Typing, NEW w \in Worker, RefundIsMade(w) \/ RefundIsRefused(w) \/ RefundIsRepeated(w)
  PROVE  Typing'
<1> DEFINE r == job[w].row
<1>1. UNCHANGED <<attempt, ledger, summary, denied, asked, crashes>>
  BY DEF RefundIsMade, RefundIsRefused, RefundIsRepeated, database
<1>2. r \in Request /\ job[w].pc \in DeskPc /\ job[w] \in Job
  BY TypingParts, DeskIsAt DEF RefundIsMade, RefundIsRefused, RefundIsRepeated, DeskPc, JobsTyped
<1>3. StripeTyped BY TypingParts
<1>4. /\ refunds' \in Seq(StripeRefund) /\ inbox' \in [Event -> {"none", "sent", "logged", "done"}]
      /\ Len(refunds') \in Nat
  <2>1. CASE RefundIsMade(w)
    <3>1. PICK status \in Initially : NewRefund(r, status) BY <2>1 DEF RefundIsMade
    <3>2. status \in StripeStatus BY DEF Initially, StripeStatus
    <3> QED BY <1>2, <1>3, <3>1, <3>2, NewRefundTyped, LenProperties DEF StripeTyped
  <2>2. CASE ~RefundIsMade(w)
    <3>1. UNCHANGED <<refunds, inbox>> BY <2>2 DEF RefundIsRefused, RefundIsRepeated, stripe
    <3> QED BY <1>3, <3>1, LenProperties DEF StripeTyped
  <2> QED BY <2>1, <2>2
<1>5. DOMAIN known' \subseteq Request /\ known' \in [DOMAIN known' -> Nat]
  <2>1. \E n \in Nat : known' = known \/ known' = Put(known, r, n)
    BY <1>4 DEF RefundIsMade, RefundIsRefused, RefundIsRepeated, stripe
  <2> QED BY <1>2, <1>3, <2>1 DEF StripeTyped, Put
<1>6. StripeTyped' BY <1>4, <1>5 DEF StripeTyped
<1>7. JobsTyped'
  <2>1. \/ Goto(w, "fail")
        \/ \E n \in Nat : Set(w, [job[w] EXCEPT !.pc = "store", !.refund = n])
    BY <1>3, <1>4 DEF RefundIsMade, RefundIsRefused, RefundIsRepeated, StripeTyped
  <2>2. ASSUME NEW n \in Nat, Set(w, [job[w] EXCEPT !.pc = "store", !.refund = n])
        PROVE  JobsTyped'
    <3>1. PICK j : Set(w, j) /\ j = [job[w] EXCEPT !.pc = "store", !.refund = n] BY <2>2
    <3>2. j \in Job /\ j.pc = "store" /\ j.row = r BY <1>2, <3>1 DEF Job, Pc
    <3>3. JobIsTyped(j) BY <1>2, <3>2 DEF JobIsTyped, DeskPc, HookPc
    <3> QED BY <3>1, <3>3, SetIsTyped, TypingParts
  <2>3. "fail" \in DeskPc BY DEF DeskPc
  <2> QED BY <1>2, <2>1, <2>2, <2>3, DeskGoesOn, TypingParts
<1> QED BY <1>1, <1>6, <1>7, TypingParts, TypedKeeps, TypingNext

\* A delivery begins, and finds its row.
LEMMA DeliverTyped ==
  ASSUME Typing, NEW w \in Worker, NEW e \in Event, DeliverEvent(w, e)
  PROVE  Typing'
<1>1. UNCHANGED <<attempt, ledger, summary, denied, refunds, known, asked, crashes>>
  BY DEF DeliverEvent, database, stripe
<1>2. StripeTyped' BY <1>1, TypingParts DEF StripeTyped, DeliverEvent
<1>3. PICK j : /\ Set(w, j)
               /\ j = [Idle EXCEPT !.pc = "find", !.refund = e.refund, !.status = e.status,
                                   !.copy = e.copy]
  BY DEF DeliverEvent
<1>4. /\ e.refund \in RefundId /\ e.status \in StripeStatus /\ e.copy \in Copies
      /\ e = [refund |-> e.refund, status |-> e.status, copy |-> e.copy]
  BY DEF Event
<1>5. RefundId \subseteq Nat BY RefundAssumption DEF RefundId
<1>6. j \in Job /\ j.pc = "find" /\ EventOf(j) = e
  BY <1>3, <1>4, <1>5, IdleIsTyped DEF JobIsTyped, Job, Pc, EventOf
<1>7. JobIsTyped(j) BY <1>6 DEF JobIsTyped, DeskPc, HookPc
<1> QED BY <1>1, <1>2, <1>3, <1>7, SetIsTyped, TypingParts, TypedKeeps, TypingNext

\* A delivery's job is about an event, whose refund's legacy row is a row.
LEMMA HookIsAt ==
  ASSUME Typing, NEW w \in Worker, NEW pc \in HookPc, At(w, pc)
  PROVE  /\ job[w].pc \in HookPc /\ job[w] \in Job /\ EventOf(job[w]) \in Event
         /\ job[w].refund \in DOMAIN refunds => LegacyRow(job[w].refund) \in RowId
<1>1. job[w].pc \in HookPc /\ job[w] \in Job /\ EventOf(job[w]) \in Event
  BY TypingParts DEF At, JobsTyped, JobIsTyped
<1>2. job[w].refund \in RefundId BY <1>1 DEF EventOf, Event
<1>3. \A i \in DOMAIN refunds : refunds[i] \in StripeRefund
  BY TypingParts, ElementOfSeq, LenProperties DEF StripeTyped
<1>4. \A i \in DOMAIN refunds :
        refunds[i].vo \in VendorOrder \cup {Whole} /\ refunds[i].amount \in 1..Paid
  BY <1>3 DEF StripeRefund
<1> QED BY <1>1, <1>2, <1>4 DEF LegacyRow, Legacy, RowId

\* A delivery that goes on to a row.
LEMMA RowIsTyped ==
  ASSUME JobsTyped, NEW w \in Worker, job[w].pc \in HookPc,
         NEW j, Set(w, j), j \in Job, j.pc \in HookPc, EventOf(j) = EventOf(job[w]),
         j.pc \in {"book", "apply", "reopen"} => j.row \in RowId
  PROVE  JobsTyped'
<1>1. EventOf(job[w]) \in Event BY DEF JobsTyped, JobIsTyped
<1>2. JobIsTyped(j) BY <1>1 DEF JobIsTyped, DeskPc, HookPc
<1> QED BY <1>2, SetIsTyped

\* The steps of a delivery up to the write of its row.
LEMMA FindTyped ==
  ASSUME Typing, Backing, NEW w \in Worker, FindRow(w)
  PROVE  Typing'
<1> DEFINE legacy == LegacyRow(job[w].refund)
<1>1. UNCHANGED <<attempt, ledger, summary, denied, refunds, known, inbox, asked, crashes>>
  BY DEF FindRow, database, stripe
<1>2. job[w].refund \in DOMAIN refunds BY DEF FindRow, At, Backing, Carries
<1>3. /\ job[w].pc \in HookPc /\ job[w] \in Job /\ legacy \in RowId
  BY <1>2, HookIsAt DEF FindRow, HookPc
<1>4. DOMAIN ledger \subseteq RowId BY TypingParts DEF LedgerTyped, RowsTyped
<1> HIDE DEF legacy
<1>5. PICK row, j :
        /\ row \in RowId /\ Set(w, j)
        /\ \/ j = [job[w] EXCEPT !.pc = "processed"]
           \/ j = [job[w] EXCEPT !.pc = "book", !.row = row]
           \/ j = [job[w] EXCEPT !.pc = "apply", !.row = row,
                                 !.seen = ledger[row].status = "succeeded"]
           \/ j = [job[w] EXCEPT !.pc = "reopen", !.row = row]
  BY <1>3, <1>4 DEF FindRow, legacy
<1>6. /\ j \in Job /\ j.pc \in HookPc /\ EventOf(j) = EventOf(job[w])
      /\ j.pc \in {"book", "apply", "reopen"} => j.row \in RowId
  BY <1>3, <1>5 DEF Job, Pc, HookPc, EventOf
<1>7. JobsTyped' BY <1>3, <1>5, <1>6, RowIsTyped, TypingParts
<1> QED BY <1>1, <1>7, TypingParts, TypedKeeps, TypingNext

\* Its write, and its end.
LEMMA BookTyped ==
  ASSUME Typing, NEW w \in Worker,
         \/ BookRefund(w) \/ ReopenRow(w) \/ RefreshSummary(w) \/ ApplySucceeded(w)
  PROVE  Typing'
<1> DEFINE r == job[w].row
           i == job[w].refund
           s == job[w].status
<1>1. UNCHANGED <<attempt, denied, refunds, known, inbox, asked, crashes>>
  BY DEF BookRefund, ReopenRow, RefreshSummary, ApplySucceeded, stripe
<1>2. job[w].pc \in HookPc /\ job[w] \in Job
  BY HookIsAt DEF BookRefund, ReopenRow, RefreshSummary, ApplySucceeded, HookPc
<1>3. i \in Nat /\ s \in StripeStatus BY <1>2 DEF Job
<1>4. BookRefund(w) => r \in RowId BY TypingParts DEF BookRefund, At, JobsTyped, JobIsTyped
<1> DEFINE new    == [status |-> s, linked |-> FALSE, refund |-> IF s = "succeeded" THEN i ELSE 0]
           marked == [ledger EXCEPT ![r].status = "succeeded", ![r].refund = i]
<1>5. \/ UNCHANGED <<ledger, summary>>
      \/ BookRefund(w) /\ WriteLedgerOnly(Put(ledger, r, new))
      \/ WriteLedgerOnly([ledger EXCEPT ![r].status = s])
      \/ WriteLedger(ledger)
      \/ WriteLedger(marked) \/ WriteLedgerOnly(marked)
  BY DEF BookRefund, ReopenRow, RefreshSummary, ApplySucceeded, MarkSucceeded
<1>6. new \in LedgerRow BY <1>3 DEF LedgerRow
<1>7. LedgerTyped'
  <2>1. LedgerTyped BY TypingParts
  <2> HIDE DEF r, i, s, new
  <2>2. /\ RowsTyped(ledger) /\ (BookRefund(w) => RowsTyped(Put(ledger, r, new)))
        /\ RowsTyped([ledger EXCEPT ![r].status = s]) /\ RowsTyped(marked)
    BY <1>3, <1>4, <1>6, <2>1, RowsAreTyped DEF LedgerTyped
  <2> HIDE DEF marked
  <2> QED BY <1>5, <2>1, <2>2, WriteIsTyped, TypedKeeps
<1>8. JobsTyped'
  <2>1. CASE Stop(w) BY <2>1, StopIsTyped, TypingParts
  <2>2. CASE Goto(w, "processed") BY <1>2, <2>2, HookGoesOn, TypingParts
  <2>3. CASE BookRefund(w) /\ ~Stop(w)
    <3>1. PICK j : /\ Set(w, j)
                   /\ j = [job[w] EXCEPT !.pc = IF job[w].status = "succeeded" THEN "apply"
                                                ELSE "refresh", !.seen = TRUE]
      BY <2>3 DEF BookRefund
    <3>2. /\ j \in Job /\ j.pc \in {"apply", "refresh"} /\ EventOf(j) = EventOf(job[w])
          /\ j.row = r
      BY <1>2, <3>1 DEF Job, Pc, EventOf
    <3> QED BY <1>2, <1>4, <2>3, <3>1, <3>2, RowIsTyped, TypingParts DEF HookPc
  <2> QED BY <2>1, <2>2, <2>3 DEF BookRefund, ReopenRow, RefreshSummary, ApplySucceeded
<1> QED BY <1>1, <1>7, <1>8, TypingParts, TypedKeeps, TypingNext

\* A delivery ends, a process dies, Stripe's own steps.
LEMMA EndTyped ==
  ASSUME Typing, NEW w \in Worker, MarkProcessed(w) \/ Crash(w)
  PROVE  Typing'
<1>1. UNCHANGED <<attempt, ledger, summary, denied, refunds, known, asked>>
  BY DEF MarkProcessed, Crash, database, stripe
<1>2. Stop(w) BY DEF MarkProcessed, Crash
<1>3. inbox' = inbox \/ \E e : inbox' = [inbox EXCEPT ![e] = "done"]
  BY DEF MarkProcessed, Crash
<1>4. StripeTyped' BY <1>1, <1>3, TypingParts DEF StripeTyped
<1>5. CountsTyped'
  <2>1. MaxCrashes \in Nat BY RefundAssumption
  <2>2. crashes' = crashes \/ (crashes' = crashes + 1 /\ crashes < MaxCrashes)
    BY DEF MarkProcessed, Crash
  <2> QED BY <1>1, <2>1, <2>2, TypingParts DEF CountsTyped
<1> QED BY <1>1, <1>2, <1>4, <1>5, StopIsTyped, TypingParts, TypedKeeps, TypingNext

\* What people and time do at Stripe keeps the types.
LEMMA StripeTypes ==
  ASSUME Typing, DashboardRefund \/ RefundSettles
  PROVE  Typing'
<1>1. UNCHANGED <<attempt, ledger, summary, denied, known, job, crashes>>
  BY DEF DashboardRefund, RefundSettles, database
<1>2. StripeTyped BY TypingParts
<1>3. refunds' \in Seq(StripeRefund) /\ inbox' \in [Event -> {"none", "sent", "logged", "done"}]
  <2>1. CASE DashboardRefund
    <3>1. PICK r \in Request, status \in Initially : NewRefund(r, status)
      BY <2>1 DEF DashboardRefund
    <3>2. status \in StripeStatus BY DEF Initially, StripeStatus
    <3> QED BY <3>1, <3>2, NewRefundTyped
  <2>2. CASE RefundSettles
    <3>1. PICK i \in DOMAIN refunds, status \in {"succeeded", "failed"} :
            /\ refunds' = [refunds EXCEPT ![i].status = status]
            /\ inbox' = Announce(inbox, i, status)
      BY <2>2 DEF RefundSettles
    <3>2. refunds[i] \in StripeRefund BY <1>2, ElementOfSeq, LenProperties DEF StripeTyped
    <3>3. [refunds[i] EXCEPT !.status = status] \in StripeRefund
      BY <3>2 DEF StripeRefund, StripeStatus
    <3>4. refunds' = [refunds EXCEPT ![i] = [refunds[i] EXCEPT !.status = status]] BY <3>1
    <3>5. i \in 1..Len(refunds) /\ refunds \in Seq(StripeRefund)
      BY <1>2, LenProperties DEF StripeTyped
    <3>6. refunds' \in Seq(StripeRefund) BY <3>3, <3>4, <3>5, ExceptSeq
    <3>7. inbox' \in [Event -> {"none", "sent", "logged", "done"}]
      BY <1>2, <3>1 DEF StripeTyped, Announce
    <3> QED BY <3>6, <3>7
  <2> QED BY <2>1, <2>2
<1>4. StripeTyped' BY <1>1, <1>2, <1>3 DEF StripeTyped
<1>5. CountsTyped'
  <2>1. MaxRequests \in Nat BY RefundAssumption
  <2>2. asked' = asked \/ (asked' = asked + 1 /\ asked < MaxRequests)
    BY DEF DashboardRefund, RefundSettles
  <2> QED BY <1>1, <2>1, <2>2, TypingParts DEF CountsTyped
<1> QED BY <1>1, <1>4, <1>5, TypingParts, TypedKeeps, TypingNext

\* The base case.
LEMMA InitIsTyped == Init => Typing
<1> SUFFICES ASSUME Init PROVE Typing OBVIOUS
<1>1. DOMAIN attempt = {} /\ AttemptsTyped BY DEF Init, AttemptsTyped
<1>2. LedgerTyped BY LabelIsTyped DEF Init, LedgerTyped, RowsTyped
<1>3. StripeTyped
  <2>1. refunds \in Seq(StripeRefund) BY EmptySeq DEF Init
  <2>2. DOMAIN known \subseteq Request /\ known \in [DOMAIN known -> Nat] BY DEF Init
  <2>3. inbox \in [Event -> {"none", "sent", "logged", "done"}] BY DEF Init
  <2> QED BY <2>1, <2>2, <2>3 DEF StripeTyped
<1>4. JobsTyped
  <2>1. \A w \in Worker : job[w] = Idle BY DEF Init
  <2>2. job \in [Worker -> Job] BY IdleIsTyped DEF Init, JobIsTyped
  <2> QED BY <2>1, <2>2, IdleIsTyped DEF JobsTyped
<1>5. CountsTyped BY RefundAssumption DEF Init, CountsTyped
<1> QED BY <1>1, <1>2, <1>3, <1>4, <1>5, TypingParts

\* The step, by action.
LEMMA NextKeepsTyping == Typing /\ Backing /\ [Next]_vars => Typing'
<1> SUFFICES ASSUME Typing, Backing, [Next]_vars PROVE Typing' OBVIOUS
<1>1. ASSUME NEW w \in Worker, Refund(w) PROVE Typing'
  BY <1>1, AsksTyped, AttemptWritesTyped, RowWritesTyped, AnswersTyped DEF Refund
<1>2. ASSUME NEW w \in Worker, Dismissal(w) PROVE Typing'
  BY <1>2, AsksTyped, AttemptWritesTyped, RowWritesTyped DEF Dismissal
<1>3. ASSUME NEW w \in Worker, Webhook(w) PROVE Typing'
  BY <1>3, DeliverTyped, FindTyped, BookTyped, EndTyped DEF Webhook
<1>4. ASSUME NEW w \in Worker, Crash(w) PROVE Typing' BY <1>4, EndTyped
<1>5. CASE DashboardRefund \/ RefundSettles BY <1>5, StripeTypes
<1>6. CASE UNCHANGED vars
  BY <1>6, TypingParts, TypedKeeps, TypingNext DEF vars, database, stripe
<1> QED BY <1>1, <1>2, <1>3, <1>4, <1>5, <1>6 DEF Next

\* The types hold for any number of workers, requests and events, whatever fails or crashes.
THEOREM TypeCorrect == Spec => []TypeOK
<1>1. Typing => TypeOK BY DEF Typing
<1>2. Init => Typing /\ Backing BY InitIsTyped, InitIsBacked
<1>3. (Typing /\ Backing) /\ [Next]_vars => (Typing /\ Backing)'
  BY NextKeepsTyping, NextKeepsBacking
<1> QED BY <1>1, <1>2, <1>3, PTL DEF Spec

-----------------------------------------------------------------------------
(* When one worker serves the requests, every refund whose events were     *)
(* processed is booked.                                                    *)

OneDesk == \A u, v \in Desk : u = v

\* What a step leaves of the ledger: rows, the refund of each, and what was booked of the
\* refunds that Stripe makes at once.
RowsStay ==
  \A row \in DOMAIN ledger :
    /\ row \in DOMAIN ledger'
    /\ ledger[row].refund # 0 => ledger'[row].refund = ledger[row].refund
    /\ ledger[row].status = "succeeded" /\ ledger[row].refund \notin Slow =>
         ledger'[row].status = "succeeded"

\* A row that has a refund now had it before, or is settled.
NewRowsSettle ==
  \A row \in DOMAIN ledger' : ledger'[row].refund # 0 =>
    (row \in DOMAIN ledger /\ ledger[row].refund # 0) \/ IsSettled(row)'

\* Attempts stay, and one that succeeded is only changed by a job about it.
AttemptsStay(w) ==
  \A r \in DOMAIN attempt :
    /\ r \in DOMAIN attempt'
    /\ attempt[r].status = "succeeded" =>
         \/ attempt'[r].status = "succeeded"
         \/ job[w].pc \in Refunding /\ job[w].row = r

\* No job takes up a request whose attempt succeeded.
TakesUp(w) ==
  job'[w].pc \in Refunding =>
    \/ job[w].pc \in Refunding /\ job'[w].row = job[w].row
    \/ ~(job'[w].row \in DOMAIN attempt /\ attempt[job'[w].row].status = "succeeded")

OthersWait(w) == \A v \in Worker \ {w} : job'[v] = job[v]

NewlyDone ==
  \A e \in Event : inbox'[e] = "done" =>
    \/ inbox[e] = "done"
    \/ e.status = "succeeded" /\ e.refund \notin Slow => BookedAsMade(e.refund)'

\* What was booked stays.
LEMMA BookedStays ==
  ASSUME Backing, RowsStay, NEW i, i \notin Slow, BookedAsMade(i)
  PROVE  BookedAsMade(i)'
BY DEF BookedAsMade, Holds, RowsStay, Backing, LedgerIsBacked

\* So do the rows that deliveries are about to write.
LEMMA FollowsStays ==
  ASSUME Backing, Typing, RowsStay, NEW v \in Worker, Follows(job[v]), job'[v] = job[v]
  PROVE  Follows(job[v])'
<1>1. ASSUME job[v].pc \in HookPc PROVE job[v].refund # 0
  <2>1. EventOf(job[v]) \in Event BY <1>1, TypingParts DEF JobsTyped, JobIsTyped
  <2>2. job[v].refund \in 1..MaxRequests BY <2>1 DEF EventOf, Event, RefundId
  <2> QED BY <2>2, RefundAssumption
<1>2. job[v].pc \in {"apply", "reopen"} =>
        /\ job[v].row \in DOMAIN ledger'
        /\ OwnRow(job[v].row, job[v].refund) \/ Holds(job[v].row, job[v].refund)'
  BY <1>1 DEF Follows, RowsStay, Holds, HookPc
<1>3. job[v].pc = "processed" /\ job[v].status = "succeeded" /\ job[v].refund \notin Slow =>
        BookedAsMade(job[v].refund)'
  BY BookedStays DEF Follows
<1> QED BY <1>2, <1>3 DEF Follows, OwnRow, Holds, BookedAsMade

\* A row that was settled stays so.
LEMMA SettledStays ==
  ASSUME RowsStay, NEW w \in Worker, AttemptsStay(w), TakesUp(w), OthersWait(w),
         NEW row \in DOMAIN ledger, ledger[row].refund # 0, IsSettled(row)
  PROVE  IsSettled(row)'
<1>1. ledger'[row].refund = ledger[row].refund BY DEF RowsStay
<1>2. CASE OwnRow(row, ledger[row].refund) BY <1>1, <1>2 DEF IsSettled, OwnRow
<1>3. CASE /\ row.scope # "legacy" /\ row \in DOMAIN attempt /\ attempt[row].status = "succeeded"
           /\ \A v \in Worker : job[v].pc \in Refunding => job[v].row # row
  <2>1. row \in DOMAIN attempt' /\ attempt'[row].status = "succeeded"
    BY <1>3 DEF AttemptsStay
  <2>2. \A v \in Worker : job'[v].pc \in Refunding => job'[v].row # row
    BY <1>3 DEF OthersWait, TakesUp
  <2> QED BY <1>3, <2>1, <2>2 DEF IsSettled
<1> QED BY <1>2, <1>3 DEF IsSettled

\* Another request's job cannot be under way.
LEMMA OnlyDesk ==
  ASSUME OneDesk, InTime, NEW u \in Worker, NEW v \in Worker,
         job[u].pc \in DeskPc, job[v].pc \in DeskPc
  PROVE  u = v
BY DEF OneDesk, InTime

\* The jobs of other workers still have their attempts.
LEMMA ClaimedStays ==
  ASSUME OneDesk, InTime, NEW w \in Worker, AttemptsStay(w),
         NEW v \in Worker \ {w}, Claimed(job[v]), job'[v] = job[v]
  PROVE  Claimed(job[v])'
<1>1. job[v].pc = "mark" => job[w].pc \notin Refunding
  BY OnlyDesk DEF DeskPc, Refunding
<1>2. job[v].row \in DOMAIN attempt =>
        /\ job[v].row \in DOMAIN attempt'
        /\ job[v].pc = "mark" /\ attempt[job[v].row].status = "succeeded" =>
             attempt'[job[v].row].status = "succeeded"
  BY <1>1 DEF AttemptsStay
<1> QED BY <1>2 DEF Claimed

\* A step of which all that is shown keeps Booking.
LEMMA BookingStep ==
  ASSUME OneDesk, Backing, Typing, Booking, NEW w \in Worker,
         OthersWait(w), RowsStay, NewRowsSettle, AttemptsStay(w), TakesUp(w),
         Claimed(job[w])', Follows(job[w])', InTime', NewlyDone,
         \A i \in DOMAIN refunds' \ Slow : IsTold(i)'
  PROVE  Booking'
<1>1. \A row \in DOMAIN ledger' : ledger'[row].refund # 0 => IsSettled(row)'
  BY SettledStays DEF NewRowsSettle, Booking
<1>2. \A v \in Worker : Claimed(job[v])' /\ Follows(job[v])'
  BY ClaimedStays, FollowsStays DEF OthersWait, Booking
<1>3. \A e \in Event : inbox'[e] = "done" /\ e.status = "succeeded" /\ e.refund \notin Slow =>
        BookedAsMade(e.refund)'
  BY BookedStays DEF NewlyDone, Booking
<1> QED BY <1>1, <1>2, <1>3 DEF Booking

\* What stays keeps.
LEMMA BookingKeeps ==
  ASSUME Booking, NEW w \in Worker
  PROVE  /\ UNCHANGED ledger => RowsStay /\ NewRowsSettle
         /\ UNCHANGED attempt => AttemptsStay(w)
         /\ UNCHANGED inbox => NewlyDone
         /\ UNCHANGED <<refunds, inbox>> => \A i \in DOMAIN refunds' \ Slow : IsTold(i)'
<1>1. UNCHANGED ledger => RowsStay /\ NewRowsSettle BY DEF RowsStay, NewRowsSettle
<1>2. UNCHANGED attempt => AttemptsStay(w) BY DEF AttemptsStay
<1>3. UNCHANGED inbox => NewlyDone BY DEF NewlyDone
<1>4. UNCHANGED <<refunds, inbox>> => \A i \in DOMAIN refunds' \ Slow : IsTold(i)'
  BY DEF Booking, IsTold
<1> QED BY <1>1, <1>2, <1>3, <1>4

\* The bound on refunds, when none is made and none asked for.
LEMMA InTimeKeeps ==
  ASSUME InTime, NEW w \in Worker, OthersWait(w), UNCHANGED <<refunds, asked>>,
         job'[w].pc \in DeskPc => job[w].pc \in DeskPc,
         job'[w].pc \in BeforeStripe => job[w].pc \in BeforeStripe
  PROVE  InTime'
BY DEF InTime, OthersWait

\* What a job is after it moved.
LEMMA JobMoves ==
  ASSUME JobsTyped, NEW w \in Worker
  PROVE  /\ \A pc : Goto(w, pc) =>
              /\ OthersWait(w) /\ job'[w].pc = pc /\ job'[w].row = job[w].row
              /\ job'[w].seen = job[w].seen
              /\ job'[w].refund = job[w].refund /\ job'[w].status = job[w].status
         /\ Stop(w) => OthersWait(w) /\ job'[w].pc = "idle"
         /\ \A j : Set(w, j) => OthersWait(w) /\ job'[w] = j
<1>1. \A j : Set(w, j) => OthersWait(w) /\ job'[w] = j
  BY DEF JobsTyped, Set, OthersWait
<1>2. \A pc : Goto(w, pc) =>
              /\ OthersWait(w) /\ job'[w].pc = pc /\ job'[w].row = job[w].row
              /\ job'[w].seen = job[w].seen
              /\ job'[w].refund = job[w].refund /\ job'[w].status = job[w].status
  BY <1>1 DEF Goto, JobsTyped, Job
<1>3. Stop(w) => OthersWait(w) /\ job'[w].pc = "idle" BY <1>1 DEF Stop, Idle
<1> QED BY <1>1, <1>2, <1>3

\* An idle job and a request's have no delivery to follow, an idle job and a delivery's no
\* attempt to claim.
LEMMA Unbound ==
  ASSUME NEW w \in Worker
  PROVE  /\ job'[w].pc \in DeskPc \cup {"idle"} => Follows(job[w])'
         /\ job'[w].pc \in HookPc \cup {"idle"} => Claimed(job[w])' /\ TakesUp(w)
BY DEF Follows, Claimed, TakesUp, DeskPc, HookPc, Refunding

-----------------------------------------------------------------------------
(* The steps of a request.                                                 *)

\* A step of a request that asks nothing of Stripe: what is left to show is what it does to
\* its attempt and its row.
LEMMA DeskStep ==
  ASSUME OneDesk, Backing, Typing, Booking, NEW w \in Worker, job[w].pc \in DeskPc,
         Stop(w) \/ (\E pc \in DeskPc : Goto(w, pc)),
         job'[w].pc \in Refunding => job[w].pc \in Refunding,
         job'[w].pc \in BeforeStripe => job[w].pc \in BeforeStripe,
         UNCHANGED <<refunds, inbox, asked>>,
         RowsStay, NewRowsSettle, AttemptsStay(w), Claimed(job[w])'
  PROVE  Booking'
<1>1. OthersWait(w) /\ job'[w].pc \in DeskPc \cup {"idle"} BY JobMoves, TypingParts
<1>2. job'[w].pc # "idle" => job'[w].row = job[w].row
  <2>1. CASE Stop(w) BY <2>1, JobMoves, TypingParts
  <2>2. CASE \E pc \in DeskPc : Goto(w, pc) BY <2>2, JobMoves, TypingParts
  <2> QED BY <2>1, <2>2
<1>3. TakesUp(w) BY <1>2 DEF TakesUp, Refunding, DeskPc
<1>4. Follows(job[w])' BY <1>1, Unbound
<1>5. InTime' BY <1>1, InTimeKeeps DEF Booking
<1>6. NewlyDone /\ \A i \in DOMAIN refunds' \ Slow : IsTold(i)' BY BookingKeeps
<1> QED BY <1>1, <1>3, <1>4, <1>5, <1>6, BookingStep

\* A refused or failed attempt, one taken up, one dismissed: only the job's own.
LEMMA AttemptWritesBook ==
  ASSUME OneDesk, Backing, Typing, Booking, NEW w \in Worker,
         \/ ClaimDenial(w) \/ AdoptAttempt(w) \/ FailAttempt(w) \/ RefuseDenial(w)
         \/ DismissAttempt(w)
  PROVE  Booking'
<1> DEFINE r == job[w].row
<1>1. UNCHANGED <<ledger, refunds, inbox, asked>>
  BY DEF ClaimDenial, AdoptAttempt, FailAttempt, RefuseDenial, DismissAttempt, stripe
<1>2. r \in Request /\ job[w].pc \in DeskPc
  BY TypingParts, DeskIsAt DEF ClaimDenial, AdoptAttempt, FailAttempt, RefuseDenial,
     DismissAttempt, DeskPc
<1>3. RowsStay /\ NewRowsSettle BY <1>1, BookingKeeps
<1>4. AttemptsStay(w)
  <2>1. AttemptsTyped BY TypingParts
  <2>2. CASE DismissAttempt(w)
    BY <2>1, <2>2 DEF DismissAttempt, AttemptsStay, AttemptsTyped, Attempt
  <2>3. CASE ~DismissAttempt(w)
    <3>1. job[w].pc \in Refunding
      BY <2>3 DEF ClaimDenial, AdoptAttempt, FailAttempt, RefuseDenial, At, Refunding, DeskPc
    <3>2. \A x \in DOMAIN attempt : x \in DOMAIN attempt' /\ (x # r => attempt'[x] = attempt[x])
      BY <2>3 DEF ClaimDenial, AdoptAttempt, FailAttempt, RefuseDenial, Put
    <3> QED BY <3>1, <3>2 DEF AttemptsStay
  <2> QED BY <2>2, <2>3
<1>5. \/ Stop(w)
      \/ ClaimDenial(w) /\ Goto(w, "precheck") /\ r \in DOMAIN attempt'
      \/ AdoptAttempt(w) /\ Goto(w, "link") /\ r \in DOMAIN attempt'
      \/ FailAttempt(w) /\ Goto(w, "failrow")
  <2>1. CASE ClaimDenial(w)
    <3>1. job[w].seen => r \in DOMAIN attempt BY <2>1 DEF ClaimDenial, At, Booking, Claimed
    <3> QED BY <2>1, <3>1 DEF ClaimDenial, Put
  <2>2. CASE AdoptAttempt(w)
    <3>1. job[w].seen => r \in DOMAIN attempt BY <2>2 DEF AdoptAttempt, At, Booking, Claimed
    <3> QED BY <2>2, <3>1 DEF AdoptAttempt, Put
  <2>3. CASE FailAttempt(w) BY <2>3 DEF FailAttempt
  <2>4. CASE RefuseDenial(w) \/ DismissAttempt(w) BY <2>4 DEF RefuseDenial, DismissAttempt
  <2> QED BY <2>1, <2>2, <2>3, <2>4
<1>6. /\ Claimed(job[w])'
      /\ job'[w].pc \in Refunding => job[w].pc \in Refunding
      /\ job'[w].pc \in BeforeStripe => job[w].pc \in BeforeStripe
  <2>1. /\ job'[w].pc \in {"idle", "precheck", "link", "failrow"}
        /\ job'[w].pc # "idle" => job'[w].row = r
        /\ job'[w].pc \in {"precheck", "link"} => r \in DOMAIN attempt'
    BY <1>5, JobMoves, TypingParts
  <2>2. Claimed(job[w])' BY <2>1 DEF Claimed
  <2>3. /\ job'[w].pc = "precheck" => job[w].pc = "claim"
        /\ job'[w].pc = "link" => job[w].pc = "adopt"
        /\ job'[w].pc = "failrow" => job[w].pc = "fail"
    BY <1>5, JobMoves, TypingParts DEF ClaimDenial, AdoptAttempt, FailAttempt, At
  <2> QED BY <2>1, <2>2, <2>3 DEF Refunding, DeskPc, BeforeStripe
<1>7. Stop(w) \/ \E pc \in DeskPc : Goto(w, pc) BY <1>5 DEF DeskPc
<1> QED BY <1>1, <1>2, <1>3, <1>4, <1>6, <1>7, DeskStep

\* A request's row that has no refund: while a job is at it.
LEMMA RowIsBare ==
  ASSUME Booking, Typing, NEW w \in Worker, job[w].pc \in Refunding,
         job[w].row \in DOMAIN ledger
  PROVE  ledger[job[w].row].refund = 0 /\ job[w].row.scope # "legacy"
<1>1. job[w].row \in Request BY TypingParts DEF JobsTyped, JobIsTyped, Refunding
<1>2. job[w].row.scope # "legacy" BY <1>1, RefundAssumption DEF Request, Scope
<1>3. ~IsSettled(job[w].row) BY <1>2 DEF IsSettled, OwnRow
<1> QED BY <1>2, <1>3 DEF Booking

\* The steps that read, and those that write the row without Stripe's id.
LEMMA RowWritesBook ==
  ASSUME OneDesk, Backing, Typing, Booking, NEW w \in Worker,
         \/ Precheck(w) \/ CheckCaps(w) \/ RecordPending(w) \/ LinkAttempt(w) \/ FailRow(w)
         \/ VerifyNoConflict(w)
  PROVE  Booking'
<1> DEFINE r == job[w].row
<1>1. UNCHANGED <<attempt, refunds, inbox, asked>>
  BY DEF Precheck, CheckCaps, RecordPending, LinkAttempt, FailRow, VerifyNoConflict,
         database, stripe
<1>2. r \in Request /\ job[w].pc \in DeskPc
  BY TypingParts, DeskIsAt DEF Precheck, CheckCaps, RecordPending, LinkAttempt, FailRow,
     VerifyNoConflict, DeskPc
<1>3. AttemptsStay(w) BY <1>1, BookingKeeps
<1>4. RowsStay /\ NewRowsSettle
  <2>1. LedgerTyped BY TypingParts
  <2>2. CASE UNCHANGED ledger BY <2>2, BookingKeeps
  <2>3. CASE RecordPending(w) /\ ledger' # ledger
    <3>1. /\ r \notin DOMAIN ledger /\ DOMAIN ledger' = DOMAIN ledger \cup {r}
          /\ \A x \in DOMAIN ledger : ledger'[x] = ledger[x]
          /\ ledger'[r].refund = 0
      BY <2>3 DEF RecordPending, WriteLedger, Put
    <3> QED BY <3>1 DEF RowsStay, NewRowsSettle
  <2>4. CASE LinkAttempt(w)
    <3>1. /\ DOMAIN ledger' = DOMAIN ledger
          /\ \A x \in DOMAIN ledger : /\ ledger'[x].refund = ledger[x].refund
                                      /\ ledger'[x].status = ledger[x].status
      BY <2>1, <2>4 DEF LinkAttempt, WriteLedgerOnly, LedgerTyped, RowsTyped, LedgerRow
    <3> QED BY <3>1 DEF RowsStay, NewRowsSettle
  <2>5. CASE FailRow(w)
    <3>1. /\ DOMAIN ledger' = DOMAIN ledger
          /\ \A x \in DOMAIN ledger : /\ ledger'[x].refund = ledger[x].refund
                                      /\ x # r => ledger'[x].status = ledger[x].status
      BY <2>1, <2>5 DEF FailRow, WriteLedger, LedgerTyped, RowsTyped, LedgerRow
    <3>2. r \in DOMAIN ledger => ledger[r].status # "succeeded"
      BY <2>5, RowIsBare DEF FailRow, At, Refunding, DeskPc, Backing, LedgerIsBacked
    <3> QED BY <3>1, <3>2 DEF RowsStay, NewRowsSettle
  <2> QED BY <2>2, <2>3, <2>4, <2>5
       DEF Precheck, CheckCaps, VerifyNoConflict, database
<1>5. PICK pc \in DeskPc \cup {"idle"} :
        /\ IF pc = "idle" THEN Stop(w) ELSE Goto(w, pc)
        /\ \/ pc = "idle"
           \/ job[w].pc = "precheck" /\ pc \in {"caps", "refuse"}
           \/ job[w].pc = "caps" /\ pc \in {AfterRecord(r), "record", "refuse"}
           \/ job[w].pc = "record" /\ pc = AfterRecord(r)
           \/ job[w].pc = "link" /\ pc = "stripe"
           \/ job[w].pc = "verify" /\ pc = "dismiss"
  BY DEF Precheck, CheckCaps, RecordPending, LinkAttempt, FailRow, VerifyNoConflict, At,
         AfterRecord, DeskPc
<1>6. /\ job'[w].pc = pc
      /\ pc # "idle" => job'[w].row = r /\ job'[w].seen = job[w].seen
      /\ Stop(w) \/ \E q \in DeskPc : Goto(w, q)
  BY <1>5, JobMoves, TypingParts
<1>7. Claimed(job[w])'
  <2>1. Claimed(job[w]) BY DEF Booking
  <2> QED BY <1>1, <1>5, <1>6, <2>1 DEF Claimed, AfterRecord
<1>8. /\ job'[w].pc \in Refunding => job[w].pc \in Refunding
      /\ job'[w].pc \in BeforeStripe => job[w].pc \in BeforeStripe
  BY <1>5, <1>6 DEF AfterRecord, Refunding, DeskPc, BeforeStripe
<1> QED BY <1>1, <1>2, <1>3, <1>4, <1>6, <1>7, <1>8, DeskStep

\* Stripe's id goes to the attempt.
LEMMA StoreBooks ==
  ASSUME OneDesk, Backing, Typing, Booking, NEW w \in Worker, StoreRefund(w)
  PROVE  Booking'
<1> DEFINE r == job[w].row
<1>1. UNCHANGED <<ledger, refunds, inbox, asked>> BY DEF StoreRefund, stripe
<1>2. job[w].pc = "store" /\ job[w].pc \in Refunding /\ r \in DOMAIN attempt /\ job[w] \in Job
  BY TypingParts DEF StoreRefund, At, Booking, Claimed, Refunding, DeskPc, JobsTyped
<1>3. PICK j : /\ Set(w, j)
               /\ j = [job[w] EXCEPT !.pc = "mark", !.seen = ledger[r].status = "succeeded"]
  BY DEF StoreRefund
<1>4. j.pc = "mark" /\ j.row = r BY <1>2, <1>3 DEF Job
<1>5. OthersWait(w) /\ job'[w] = j BY <1>3, JobMoves, TypingParts
<1>6. /\ DOMAIN attempt' = DOMAIN attempt /\ attempt'[r].status = "succeeded"
      /\ \A x \in DOMAIN attempt : x # r => attempt'[x] = attempt[x]
  BY <1>2, TypingParts DEF StoreRefund, AttemptsTyped, Attempt
<1>7. AttemptsStay(w) BY <1>6 DEF AttemptsStay
<1>8. TakesUp(w) BY <1>2, <1>4, <1>5 DEF TakesUp
<1>9. Claimed(job[w])' BY <1>2, <1>4, <1>5, <1>6 DEF Claimed
<1>10. Follows(job[w])' BY <1>4, <1>5 DEF Follows
<1>11. InTime' BY <1>1, <1>2, <1>4, <1>5, InTimeKeeps DEF Booking, BeforeStripe, Refunding
<1>12. /\ RowsStay /\ NewRowsSettle /\ NewlyDone
       /\ \A i \in DOMAIN refunds' \ Slow : IsTold(i)'
  BY <1>1, BookingKeeps
<1> QED BY <1>5, <1>7, <1>8, <1>9, <1>10, <1>11, <1>12, BookingStep

\* And to the row, which no other job is about.
LEMMA MarkBooks ==
  ASSUME OneDesk, Backing, Typing, Booking, NEW w \in Worker, MarkRefund(w)
  PROVE  Booking'
<1> PICK r : r = job[w].row OBVIOUS
<1>1. UNCHANGED <<attempt, refunds, inbox, asked>> BY DEF MarkRefund, stripe
<1>2. /\ job[w].pc = "mark" /\ job[w].pc \in Refunding /\ job[w].pc \in DeskPc
      /\ r \in DOMAIN attempt /\ attempt[r].status = "succeeded"
  BY DEF MarkRefund, At, Booking, Claimed, Refunding, DeskPc
<1>3. AttemptsStay(w) BY <1>1, BookingKeeps
<1>4. Stop(w) \/ Goto(w, "fail") BY DEF MarkRefund
<1>5. /\ OthersWait(w) /\ job'[w].pc \in {"idle", "fail"}
      /\ job'[w].pc = "idle" \/ job'[w].row = r
  BY <1>4, JobMoves, TypingParts
<1>6. RowsStay /\ NewRowsSettle
  <2>1. CASE UNCHANGED ledger BY <2>1, BookingKeeps
  <2>2. CASE Stop(w) /\ MarkSucceeded(job[w])
    <3>1. ledger' = [ledger EXCEPT ![r].status = "succeeded", ![r].refund = job[w].refund]
      BY <2>2 DEF MarkSucceeded, WriteLedger, WriteLedgerOnly
    <3>2. /\ DOMAIN ledger' = DOMAIN ledger
          /\ \A x \in DOMAIN ledger : x # r => ledger'[x] = ledger[x]
      BY <3>1
    <3>3. r \in DOMAIN ledger => ledger[r].refund = 0 /\ r.scope # "legacy"
      BY <1>2, RowIsBare
    <3>4. r \in DOMAIN ledger => ledger[r].status # "succeeded"
      BY <3>3 DEF Backing, LedgerIsBacked
    <3>5. RowsStay BY <3>2, <3>3, <3>4 DEF RowsStay
    <3>6. \A v \in Worker : job'[v].pc \in Refunding => job'[v].row # r
      <4>1. job'[w].pc \notin Refunding
        <5>1. job'[w].pc = "idle" BY <2>2, JobMoves, TypingParts
        <5> QED BY <5>1 DEF Refunding, DeskPc
      <4>2. \A v \in Worker \ {w} : job'[v].pc \notin Refunding
        BY <1>2, <1>5, OnlyDesk DEF OthersWait, Booking, Refunding
      <4> QED BY <4>1, <4>2
    <3>7. r \in DOMAIN ledger => IsSettled(r)' BY <1>1, <1>2, <3>3, <3>6 DEF IsSettled
    <3>8. NewRowsSettle BY <3>2, <3>7 DEF NewRowsSettle
    <3> QED BY <3>5, <3>8
  <2> QED BY <2>1, <2>2 DEF MarkRefund
<1>7. Claimed(job[w])' BY <1>5 DEF Claimed
<1>8. /\ job'[w].pc \in Refunding => job[w].pc \in Refunding
      /\ job'[w].pc \in BeforeStripe => job[w].pc \in BeforeStripe
  BY <1>2, <1>5 DEF BeforeStripe
<1>9. Stop(w) \/ \E pc \in DeskPc : Goto(w, pc) BY <1>4 DEF DeskPc
<1> QED BY <1>1, <1>2, <1>3, <1>6, <1>7, <1>8, <1>9, DeskStep

\* People begin: the one desk was idle, and the request is one more than the refunds.
LEMMA AsksBook ==
  ASSUME OneDesk, Backing, Typing, Booking, NEW w \in Worker,
         AskDenial(w) \/ AskAdmin(w) \/ AskDismissal(w)
  PROVE  Booking'
<1>1. UNCHANGED <<attempt, ledger, refunds, inbox>>
  BY DEF AskDenial, AskAdmin, AskDismissal, database, stripe
<1>2. w \in Desk /\ job[w].pc = "idle" BY DEF AskDenial, AskAdmin, AskDismissal, At
<1>3. /\ RowsStay /\ NewRowsSettle /\ AttemptsStay(w) /\ NewlyDone
      /\ \A i \in DOMAIN refunds' \ Slow : IsTold(i)'
  BY <1>1, BookingKeeps
<1>4. \A v \in Worker \ {w} : job[v].pc \notin DeskPc
  BY <1>2 DEF OneDesk, Booking, InTime
<1>5. Len(refunds) \in Nat /\ asked \in Nat
  BY TypingParts, LenProperties, RefundAssumption DEF StripeTyped, CountsTyped
<1>6. ASSUME NEW pc \in {"claim", "caps", "verify"}, NEW r, NEW j, Set(w, j),
             j.pc = pc, j.row = r,
             pc = "verify" \/ asked' = asked + 1, asked' \in {asked, asked + 1},
             pc # "verify" => ~(r \in DOMAIN attempt /\ attempt[r].status = "succeeded"),
             j.seen => r \in DOMAIN attempt,
             pc = "caps" => r.scope # "vendor_denial"
      PROVE  Booking'
  <2>1. OthersWait(w) /\ job'[w] = j BY <1>6, JobMoves, TypingParts
  <2>2. TakesUp(w) BY <1>6, <2>1 DEF TakesUp, Refunding
  <2>3. Claimed(job[w])' BY <1>1, <1>6, <2>1 DEF Claimed
  <2>4. Follows(job[w])' BY <1>6, <2>1 DEF Follows
  <2>5. InTime'
    <3>1. Len(refunds) <= asked BY DEF Booking, InTime
    <3>2. \A v \in Worker : job'[v].pc \in DeskPc => v \in Desk
      BY <1>2, <1>4, <2>1 DEF OthersWait
    <3>3. \A v \in Worker : job'[v].pc \in BeforeStripe => Len(refunds) < asked'
      BY <1>4, <1>5, <1>6, <2>1, <3>1 DEF OthersWait, BeforeStripe, DeskPc
    <3>4. Len(refunds) <= asked' BY <1>5, <1>6, <3>1
    <3> QED BY <1>1, <3>2, <3>3, <3>4 DEF InTime
  <2> QED BY <1>3, <2>1, <2>2, <2>3, <2>4, <2>5, BookingStep
<1>7. CASE Stop(w)
  <2>1. OthersWait(w) /\ job'[w].pc = "idle" BY <1>7, JobMoves, TypingParts
  <2>2. Follows(job[w])' /\ Claimed(job[w])' /\ TakesUp(w) BY <2>1, Unbound
  <2>3. InTime'
    <3>1. asked' \in {asked, asked + 1} BY DEF AskDenial, AskAdmin, AskDismissal
    <3>2. \A v \in Worker : job'[v].pc \notin DeskPc
      BY <1>4, <2>1 DEF OthersWait, DeskPc
    <3>3. BeforeStripe \subseteq DeskPc BY DEF BeforeStripe, DeskPc
    <3> QED BY <1>1, <1>5, <3>1, <3>2, <3>3 DEF InTime, Booking
  <2> QED BY <1>3, <2>1, <2>2, <2>3, BookingStep
<1>8. CASE ~Stop(w)
  <2>1. CASE AskDenial(w)
    <3>1. PICK r, j : /\ Set(w, j)
                      /\ j = [Idle EXCEPT !.pc = "claim", !.row = r, !.seen = r \in DOMAIN attempt]
                      /\ r \notin DOMAIN attempt \/ attempt[r].status = "failed"
      BY <1>8, <2>1 DEF AskDenial
    <3>2. j.pc = "claim" /\ j.row = r /\ (j.seen => r \in DOMAIN attempt) BY <3>1 DEF Idle
    <3>3. asked' = asked + 1 BY <2>1 DEF AskDenial
    <3> QED BY <1>6, <3>1, <3>2, <3>3
  <2>2. CASE AskAdmin(w)
    <3>1. PICK r, j : /\ Set(w, j)
                      /\ j = [Idle EXCEPT !.pc = "caps", !.row = r, !.seen = r \in DOMAIN attempt]
                      /\ r \in DOMAIN attempt => attempt[r].status \in {"failed", "attempted"}
                      /\ PlanAmount(r)
      BY <2>2 DEF AskAdmin
    <3>2. j.pc = "caps" /\ j.row = r /\ (j.seen => r \in DOMAIN attempt) BY <3>1 DEF Idle
    <3>3. asked' = asked + 1 BY <2>2 DEF AskAdmin
    <3>4. r.scope # "vendor_denial" BY <3>1 DEF PlanAmount
    <3> QED BY <1>6, <3>1, <3>2, <3>3, <3>4
  <2>3. CASE AskDismissal(w)
    <3>1. PICK r, j : Set(w, j) /\ j = [Idle EXCEPT !.pc = "verify", !.row = r]
      BY <2>3 DEF AskDismissal
    <3>2. j.pc = "verify" /\ j.row = r /\ ~j.seen BY <3>1 DEF Idle
    <3>3. asked' = asked BY <2>3 DEF AskDismissal
    <3> QED BY <1>6, <3>1, <3>2, <3>3
  <2> QED BY <2>1, <2>2, <2>3
<1> QED BY <1>7, <1>8

-----------------------------------------------------------------------------
(* Stripe's answers and its own steps.                                     *)

\* The refunds that are made at once have told so, those made before as the new one.
LEMMA NewRefundTells ==
  ASSUME Backing, Typing, Booking, NEW r \in Request, NEW status \in Initially,
         NewRefund(r, status)
  PROVE  /\ \A i \in DOMAIN refunds' \ Slow : IsTold(i)'
         /\ NewlyDone /\ Len(refunds') = Len(refunds) + 1
<1> DEFINE new == [vo |-> r.vo, amount |-> r.amount, status |-> status]
           id  == Len(refunds) + 1
<1>1. refunds' = Append(refunds, new) /\ inbox' = Announce(inbox, id, status) BY DEF NewRefund
<1>2. status \in StripeStatus BY DEF Initially, StripeStatus
<1>3. Len(refunds') = id BY <1>2, NewRefundTyped
<1>4. id \in DOMAIN refunds' /\ id \notin DOMAIN refunds
  BY <1>1, IndexIsPositive DEF Backing
<1>5. /\ \A i \in DOMAIN refunds : refunds'[i] = refunds[i]
      /\ \A i \in DOMAIN refunds' \ DOMAIN refunds : refunds'[i] = new
  BY <1>1, AppendKeeps DEF Backing
<1>6. \A i \in DOMAIN refunds' \ DOMAIN refunds : i = id
  <2>1. refunds \in Seq(StripeRefund) /\ refunds' \in Seq(StripeRefund)
    BY <1>2, NewRefundTyped, TypingParts DEF StripeTyped
  <2>2. DOMAIN refunds = 1..Len(refunds) /\ DOMAIN refunds' = 1..Len(refunds')
        /\ Len(refunds) \in Nat
    BY <2>1, LenProperties
  <2> QED BY <1>3, <2>2
<1>7. \A e \in Event : /\ e.refund = id /\ e.status = status => inbox'[e] = "sent"
                       /\ inbox[e] # "none" => inbox'[e] # "none"
                       /\ inbox'[e] = "done" => inbox[e] = "done"
  BY <1>1 DEF Announce
<1>8. id \notin Slow => status = "succeeded" BY DEF Initially
<1>9. ASSUME NEW i \in DOMAIN refunds' \ Slow PROVE IsTold(i)'
  <2>1. CASE i \in DOMAIN refunds
    BY <1>5, <1>7, <2>1 DEF Booking, IsTold
  <2>2. CASE i \notin DOMAIN refunds
    <3>1. i = id /\ refunds'[i].status = "succeeded" BY <1>5, <1>6, <1>8, <2>2
    <3>2. status = "succeeded" BY <1>8, <3>1
    <3> QED BY <1>7, <3>1, <3>2 DEF IsTold
  <2> QED BY <2>1, <2>2
<1> QED BY <1>3, <1>7, <1>9 DEF NewlyDone

\* Stripe's answer: one refund more, for one request less before Stripe.
LEMMA AnswersBook ==
  ASSUME OneDesk, Backing, Typing, Booking, NEW w \in Worker,
         RefundIsMade(w) \/ RefundIsRefused(w) \/ RefundIsRepeated(w)
  PROVE  Booking'
<1> PICK r : r = job[w].row OBVIOUS
<1>1. UNCHANGED <<attempt, ledger, asked>>
  BY DEF RefundIsMade, RefundIsRefused, RefundIsRepeated, database
<1>2. /\ job[w].pc = "stripe" /\ job[w] \in Job /\ r \in Request /\ r \in DOMAIN attempt
  BY TypingParts DEF RefundIsMade, RefundIsRefused, RefundIsRepeated, At, JobsTyped, JobIsTyped,
     DeskPc, Booking, Claimed
<1>3. PICK j : /\ Set(w, j)
               /\ \/ j = [job[w] EXCEPT !.pc = "fail"]
                  \/ \E n : j = [job[w] EXCEPT !.pc = "store", !.refund = n]
  BY DEF RefundIsMade, RefundIsRefused, RefundIsRepeated, Goto
<1>4. j.pc \in {"fail", "store"} /\ j.row = r BY <1>2, <1>3 DEF Job
<1>5. OthersWait(w) /\ job'[w] = j BY <1>3, JobMoves, TypingParts
<1>6. RowsStay /\ NewRowsSettle /\ AttemptsStay(w) BY <1>1, BookingKeeps
<1>7. TakesUp(w) BY <1>2, <1>4, <1>5 DEF TakesUp, Refunding, DeskPc
<1>8. Claimed(job[w])' /\ Follows(job[w])' BY <1>1, <1>2, <1>4, <1>5 DEF Claimed, Follows
<1>9. /\ \A i \in DOMAIN refunds' \ Slow : IsTold(i)'
      /\ NewlyDone /\ Len(refunds') <= Len(refunds) + 1
  <2>1. CASE RefundIsMade(w)
    <3>1. PICK status \in Initially : NewRefund(r, status) BY <2>1 DEF RefundIsMade
    <3>2. Len(refunds) \in Nat BY TypingParts, LenProperties DEF StripeTyped
    <3> QED BY <1>2, <3>1, <3>2, NewRefundTells
  <2>2. CASE ~RefundIsMade(w)
    <3>1. UNCHANGED <<refunds, inbox>> BY <2>2 DEF RefundIsRefused, RefundIsRepeated, stripe
    <3>2. Len(refunds) \in Nat BY TypingParts, LenProperties DEF StripeTyped
    <3> QED BY <3>1, <3>2, BookingKeeps
  <2> QED BY <2>1, <2>2
<1>10. InTime'
  <2>1. Len(refunds) < asked /\ w \in Desk /\ job[w].pc \in DeskPc
    BY <1>2 DEF Booking, InTime, BeforeStripe, DeskPc
  <2>2. \A v \in Worker \ {w} : job'[v].pc \notin DeskPc
    BY <1>5, <2>1, OnlyDesk DEF OthersWait, Booking
  <2>3. \A v \in Worker : job'[v].pc \notin BeforeStripe
    BY <1>4, <1>5, <2>2 DEF BeforeStripe, DeskPc
  <2>4. Len(refunds) \in Nat /\ Len(refunds') \in Nat /\ asked \in Nat
    <3>1. Typing' BY AnswersTyped
    <3>2. StripeTyped /\ StripeTyped' BY <3>1, TypingParts, PTL
    <3> QED BY <3>2, TypingParts, LenProperties, RefundAssumption DEF StripeTyped, CountsTyped
  <2>5. Len(refunds') <= asked' BY <1>1, <1>9, <2>1, <2>4
  <2> QED BY <2>1, <2>2, <2>3, <2>5 DEF InTime
<1> QED BY <1>5, <1>6, <1>7, <1>8, <1>9, <1>10, BookingStep

\* Someone refunds in the dashboard, which is a request too, or a refund settles.
LEMMA StripeBooks ==
  ASSUME OneDesk, Backing, Typing, Booking, DashboardRefund \/ RefundSettles
  PROVE  Booking'
<1>1. UNCHANGED <<attempt, ledger, job>> BY DEF DashboardRefund, RefundSettles, database
<1>2. Len(refunds) \in Nat /\ asked \in Nat
  BY TypingParts, LenProperties, RefundAssumption DEF StripeTyped, CountsTyped
<1>3. /\ \A i \in DOMAIN refunds' \ Slow : IsTold(i)'
      /\ NewlyDone
      /\ \/ Len(refunds') = Len(refunds) + 1 /\ asked' = asked + 1
         \/ Len(refunds') = Len(refunds) /\ asked' = asked
  <2>1. CASE DashboardRefund
    <3>1. PICK r \in Request, status \in Initially : NewRefund(r, status)
      BY <2>1 DEF DashboardRefund
    <3> QED BY <2>1, <3>1, NewRefundTells DEF DashboardRefund
  <2>2. CASE RefundSettles
    <3>1. PICK k \in DOMAIN refunds, status \in {"succeeded", "failed"} :
            /\ refunds[k].status = "pending"
            /\ refunds' = [refunds EXCEPT ![k].status = status]
            /\ inbox' = Announce(inbox, k, status)
      BY <2>2 DEF RefundSettles
    <3>2. Len(refunds') = Len(refunds)
      <4>1. Typing' BY <2>2, StripeTypes
      <4>2. refunds \in Seq(StripeRefund) /\ refunds' \in Seq(StripeRefund)
        BY <4>1, TypingParts DEF StripeTyped, Typing, TypeOK, StripeRefund
      <4>3. DOMAIN refunds' = DOMAIN refunds BY <3>1
      <4>4. DOMAIN refunds = 1..Len(refunds) /\ DOMAIN refunds' = 1..Len(refunds')
            /\ Len(refunds') \in Nat
        BY <4>2, LenProperties
      <4> QED BY <1>2, <4>3, <4>4
    <3>3. k \in Slow BY <3>1 DEF Booking, IsTold
    <3>4. DOMAIN refunds' = DOMAIN refunds /\ \A i \in DOMAIN refunds : i # k => refunds'[i] = refunds[i]
      BY <3>1
    <3>5. \A e \in Event : /\ inbox[e] # "none" => inbox'[e] # "none"
                           /\ inbox'[e] = "done" => inbox[e] = "done"
      BY <3>1 DEF Announce
    <3>6. \A i \in DOMAIN refunds' \ Slow : IsTold(i)' BY <3>3, <3>4, <3>5 DEF Booking, IsTold
    <3> QED BY <2>2, <3>2, <3>5, <3>6 DEF NewlyDone, RefundSettles
  <2> QED BY <2>1, <2>2
<1>4. InTime' BY <1>1, <1>2, <1>3 DEF Booking, InTime
<1>5. \A row \in DOMAIN ledger' : ledger'[row].refund # 0 => IsSettled(row)'
  BY <1>1 DEF Booking, IsSettled
<1>6. \A w \in Worker : Claimed(job[w])' /\ Follows(job[w])'
  BY <1>1 DEF Booking, Claimed, Follows, Holds, BookedAsMade
<1>7. \A e \in Event : inbox'[e] = "done" /\ e.status = "succeeded" /\ e.refund \notin Slow =>
        BookedAsMade(e.refund)'
  BY <1>1, <1>3 DEF Booking, NewlyDone, BookedAsMade, Holds
<1> QED BY <1>3, <1>4, <1>5, <1>6, <1>7 DEF Booking

-----------------------------------------------------------------------------
(* The steps of a delivery.                                                *)

\* Events once sent stay so, which is all that steps of a delivery do to those of a success.
InboxStays == \A e \in Event : inbox[e] # "none" => inbox'[e] # "none"

\* A step of a delivery, or the end of any job: what is left to show is the row and the event.
LEMMA HookStep ==
  ASSUME OneDesk, Backing, Typing, Booking, NEW w \in Worker, OthersWait(w),
         job'[w].pc \in HookPc \cup {"idle"},
         UNCHANGED <<attempt, refunds, asked>>,
         RowsStay, NewRowsSettle, Follows(job[w])', NewlyDone, InboxStays
  PROVE  Booking'
<1>1. AttemptsStay(w) BY BookingKeeps
<1>2. Claimed(job[w])' /\ TakesUp(w) BY Unbound
<1>3. InTime'
  <2>1. job'[w].pc \notin DeskPc /\ job'[w].pc \notin BeforeStripe
    BY DEF HookPc, DeskPc, BeforeStripe
  <2> QED BY <2>1, InTimeKeeps DEF Booking
<1>4. \A i \in DOMAIN refunds' \ Slow : IsTold(i)' BY DEF Booking, IsTold, InboxStays
<1> QED BY <1>1, <1>2, <1>3, <1>4, BookingStep

\* An event is logged, or processed and its refund booked; a process dies; a row is found.
LEMMA EventBooks ==
  ASSUME OneDesk, Backing, Typing, Booking, NEW w \in Worker,
         (\E e \in Event : DeliverEvent(w, e)) \/ MarkProcessed(w) \/ Crash(w)
  PROVE  Booking'
<1>1. UNCHANGED <<attempt, ledger, refunds, asked>>
  BY DEF DeliverEvent, MarkProcessed, Crash, database, stripe
<1>2. RowsStay /\ NewRowsSettle BY <1>1, BookingKeeps
<1>3. OthersWait(w) /\ job'[w].pc \in {"idle", "find"}
  <2>1. CASE \E e \in Event : DeliverEvent(w, e)
    <3>1. PICK e, j : /\ Set(w, j)
                      /\ j = [Idle EXCEPT !.pc = "find", !.refund = e.refund,
                                          !.status = e.status, !.copy = e.copy]
      BY <2>1 DEF DeliverEvent
    <3>2. j.pc = "find" BY <3>1 DEF Idle
    <3> QED BY <3>1, <3>2, JobMoves, TypingParts
  <2>2. CASE MarkProcessed(w) \/ Crash(w)
    BY <2>2, JobMoves, TypingParts DEF MarkProcessed, Crash
  <2> QED BY <2>1, <2>2
<1>4. Follows(job[w])' BY <1>3 DEF Follows
<1>5. InboxStays /\ NewlyDone
  <2>1. CASE \E e \in Event : DeliverEvent(w, e)
    BY <2>1, TypingParts DEF DeliverEvent, StripeTyped, InboxStays, NewlyDone
  <2>2. CASE MarkProcessed(w)
    <3>1. PICK e : e = EventOf(job[w]) OBVIOUS
    <3>2. e.refund = job[w].refund /\ e.status = job[w].status BY <3>1 DEF EventOf
    <3>3. e.status = "succeeded" /\ e.refund \notin Slow => BookedAsMade(e.refund)
      BY <2>2, <3>2 DEF MarkProcessed, At, Booking, Follows
    <3>4. e.status = "succeeded" /\ e.refund \notin Slow => BookedAsMade(e.refund)'
      BY <1>2, <3>3, BookedStays
    <3>5. inbox' = [inbox EXCEPT ![e] = "done"] BY <2>2, <3>1 DEF MarkProcessed
    <3>6. \A x \in Event : /\ x # e => inbox'[x] = inbox[x]
                           /\ x = e => inbox'[x] = "done"
      BY <3>5, TypingParts DEF StripeTyped
    <3> QED BY <3>4, <3>6 DEF InboxStays, NewlyDone
  <2>3. CASE Crash(w) BY <2>3 DEF Crash, InboxStays, NewlyDone
  <2> QED BY <2>1, <2>2, <2>3
<1> QED BY <1>1, <1>2, <1>3, <1>4, <1>5, HookStep DEF HookPc

\* The row found has the refund or is its legacy row; an event that needs no write has a
\* row that succeeded, if it is of a success.
LEMMA FindBooks ==
  ASSUME OneDesk, Backing, Typing, Booking, NEW w \in Worker, FindRow(w)
  PROVE  Booking'
<1> PICK i : i = job[w].refund OBVIOUS
<1> DEFINE legacy == LegacyRow(i)
<1>1. UNCHANGED <<attempt, ledger, refunds, inbox, asked>> BY DEF FindRow, database, stripe
<1>2. RowsStay /\ NewRowsSettle /\ NewlyDone /\ InboxStays
  BY <1>1, BookingKeeps DEF InboxStays
<1>3. job[w] \in Job BY TypingParts DEF JobsTyped
<1>4. OwnRow(legacy, i) BY DEF LegacyRow, OwnRow
<1> HIDE DEF legacy
<1>5. PICK j, row :
        /\ Set(w, j)
        /\ \/ /\ j = [job[w] EXCEPT !.pc = "processed"]
              /\ job[w].status = "succeeded" => BookedAsMade(i)
           \/ j = [job[w] EXCEPT !.pc = "book", !.row = row] /\ OwnRow(row, i)
           \/ /\ \/ j = [job[w] EXCEPT !.pc = "apply", !.row = row,
                                       !.seen = ledger[row].status = "succeeded"]
                 \/ j = [job[w] EXCEPT !.pc = "reopen", !.row = row]
              /\ row \in DOMAIN ledger /\ (OwnRow(row, i) \/ Holds(row, i))
  BY <1>4 DEF FindRow, BookedAsMade, legacy
<1>6. OthersWait(w) /\ job'[w] = j BY <1>5, JobMoves, TypingParts
<1>7. /\ j.pc \in HookPc /\ j.refund = i /\ j.status = job[w].status
      /\ j.pc = "processed" /\ j.status = "succeeded" => BookedAsMade(i)
      /\ j.pc = "book" => OwnRow(j.row, i)
      /\ j.pc \in {"apply", "reopen"} =>
           j.row \in DOMAIN ledger /\ (OwnRow(j.row, i) \/ Holds(j.row, i))
      /\ j.pc # "refresh"
  BY <1>3, <1>5 DEF Job, HookPc
<1>8. Follows(job[w])'
  <2>1. Follows(j)' BY <1>1, <1>7 DEF Follows, Holds, BookedAsMade
  <2> QED BY <1>6, <2>1 DEF Follows, Holds, BookedAsMade
<1> QED BY <1>1, <1>2, <1>6, <1>7, <1>8, HookStep

\* A row that a delivery is about to write has its refund or none.
LEMMA RowIsItsOwn ==
  ASSUME Booking, NEW w \in Worker, job[w].pc \in {"apply", "reopen"}
  PROVE  /\ job[w].row \in DOMAIN ledger
         /\ ledger[job[w].row].refund \in {0, job[w].refund}
         /\ OwnRow(job[w].row, job[w].refund) \/ ledger[job[w].row].refund = job[w].refund
<1> PICK row, i : row = job[w].row /\ i = job[w].refund OBVIOUS
<1>1. row \in DOMAIN ledger /\ (OwnRow(row, i) \/ ledger[row].refund = i)
  BY DEF Booking, Follows, Holds
<1>2. ledger[row].refund # 0 => IsSettled(row) BY <1>1 DEF Booking
<1> QED BY <1>1, <1>2 DEF IsSettled, OwnRow

\* Only a refund that may be slow has an event that takes its success back.
LEMMA ReopenBooks ==
  ASSUME OneDesk, Backing, Typing, Booking, NEW w \in Worker, ReopenRow(w)
  PROVE  Booking'
<1> PICK row, i : row = job[w].row /\ i = job[w].refund OBVIOUS
<1>1. UNCHANGED <<attempt, refunds, inbox, asked>> BY DEF ReopenRow, stripe
<1>2. job[w].pc = "reopen" /\ job[w].status # "succeeded" /\ i \in Slow
  <2>1. job[w].pc = "reopen" BY DEF ReopenRow, At
  <2>2. job[w].status # "succeeded" BY <2>1 DEF Backing, Carries
  <2>3. EventOf(job[w]) \in Event BY <2>1, TypingParts DEF JobsTyped, JobIsTyped, HookPc
  <2> QED BY <2>1, <2>2, <2>3 DEF Event, EventOf
<1>3. /\ OthersWait(w) /\ job'[w].pc = "processed"
      /\ job'[w].status = job[w].status
  BY JobMoves, TypingParts DEF ReopenRow
<1>4. Follows(job[w])' BY <1>2, <1>3 DEF Follows
<1>5. ledger[row].refund \in {0, i} BY <1>2, RowIsItsOwn
<1>6. /\ DOMAIN ledger' = DOMAIN ledger
      /\ \A x \in DOMAIN ledger : /\ ledger'[x].refund = ledger[x].refund
                                  /\ x # row => ledger'[x].status = ledger[x].status
  BY TypingParts DEF ReopenRow, WriteLedgerOnly, LedgerTyped, RowsTyped, LedgerRow
<1>7. row \in DOMAIN ledger /\ ledger[row].status = "succeeded" => ledger[row].refund \in Slow
  BY <1>2, <1>5 DEF Backing, LedgerIsBacked
<1>8. RowsStay /\ NewRowsSettle BY <1>6, <1>7 DEF RowsStay, NewRowsSettle
<1>9. NewlyDone /\ InboxStays BY <1>1 DEF NewlyDone, InboxStays
<1> QED BY <1>1, <1>3, <1>4, <1>8, <1>9, HookStep DEF HookPc

\* The row created for a refund is its legacy row.
LEMMA BookBooks ==
  ASSUME OneDesk, Backing, Typing, Booking, NEW w \in Worker, BookRefund(w)
  PROVE  Booking'
<1> PICK row, i, s : row = job[w].row /\ i = job[w].refund /\ s = job[w].status OBVIOUS
<1>1. UNCHANGED <<attempt, refunds, inbox, asked>> BY DEF BookRefund, stripe
<1>2. NewlyDone /\ InboxStays BY <1>1 DEF NewlyDone, InboxStays
<1>3. job[w] \in Job /\ OwnRow(row, i)
  BY TypingParts DEF BookRefund, At, JobsTyped, Booking, Follows
<1>4. CASE Stop(w) /\ UNCHANGED ledger
  <2>1. OthersWait(w) /\ job'[w].pc = "idle" BY <1>4, JobMoves, TypingParts
  <2>2. RowsStay /\ NewRowsSettle BY <1>4, BookingKeeps
  <2> QED BY <1>1, <1>2, <2>1, <2>2, Unbound, HookStep
<1>5. CASE ~(Stop(w) /\ UNCHANGED ledger)
  <2>1. PICK new, j :
          /\ row \notin DOMAIN ledger /\ ledger' = Put(ledger, row, new) /\ Set(w, j)
          /\ new = [status |-> s, linked |-> FALSE, refund |-> IF s = "succeeded" THEN i ELSE 0]
          /\ j = [job[w] EXCEPT !.pc = IF job[w].status = "succeeded" THEN "apply"
                                       ELSE "refresh", !.seen = TRUE]
    BY <1>5 DEF BookRefund, WriteLedgerOnly
  <2>2. OthersWait(w) /\ job'[w] = j BY <2>1, JobMoves, TypingParts
  <2>3. /\ j.pc = IF s = "succeeded" THEN "apply" ELSE "refresh"
        /\ j.row = row /\ j.refund = i /\ j.status = s
    BY <1>3, <2>1 DEF Job
  <2>4. /\ DOMAIN ledger' = DOMAIN ledger \cup {row} /\ ledger'[row] = new
        /\ \A x \in DOMAIN ledger : ledger'[x] = ledger[x]
    BY <2>1 DEF Put
  <2>5. new.refund \in {0, i} BY <2>1
  <2>6. RowsStay BY <2>4 DEF RowsStay
  <2>7. NewRowsSettle BY <1>3, <2>4, <2>5 DEF NewRowsSettle, IsSettled
  <2>8. Follows(job[w])' BY <1>3, <2>2, <2>3, <2>4 DEF Follows
  <2> QED BY <1>1, <1>2, <2>2, <2>3, <2>6, <2>7, <2>8, HookStep DEF HookPc
<1> QED BY <1>4, <1>5

\* The row succeeds with the refund it had, or as the refund's legacy row.
LEMMA ApplyBooks ==
  ASSUME OneDesk, Backing, Typing, Booking, NEW w \in Worker, ApplySucceeded(w) \/ RefreshSummary(w)
  PROVE  Booking'
<1> PICK row, i : row = job[w].row /\ i = job[w].refund OBVIOUS
<1>1. UNCHANGED <<attempt, refunds, inbox, asked>> BY DEF ApplySucceeded, RefreshSummary, stripe
<1>2. NewlyDone /\ InboxStays BY <1>1 DEF NewlyDone, InboxStays
<1>3. CASE Stop(w) /\ UNCHANGED ledger
  <2>1. OthersWait(w) /\ job'[w].pc = "idle" BY <1>3, JobMoves, TypingParts
  <2>2. RowsStay /\ NewRowsSettle BY <1>3, BookingKeeps
  <2> QED BY <1>1, <1>2, <2>1, <2>2, Unbound, HookStep
<1>4. CASE ApplySucceeded(w) /\ Goto(w, "processed") /\ MarkSucceeded(job[w])
  <2>1. ledger' = [ledger EXCEPT ![row].status = "succeeded", ![row].refund = i]
    BY <1>4 DEF MarkSucceeded, WriteLedger, WriteLedgerOnly
  <2>2. /\ row \in DOMAIN ledger /\ ledger[row].refund \in {0, i}
        /\ OwnRow(row, i) \/ ledger[row].refund = i
    BY <1>4, RowIsItsOwn DEF ApplySucceeded, At
  <2>3. ledger[row] \in LedgerRow BY <2>2, TypingParts DEF LedgerTyped, RowsTyped
  <2>4. /\ DOMAIN ledger' = DOMAIN ledger
        /\ \A x \in DOMAIN ledger : x # row => ledger'[x] = ledger[x]
        /\ ledger'[row].status = "succeeded" /\ ledger'[row].refund = i
    BY <2>1, <2>2, <2>3 DEF LedgerRow
  <2>5. RowsStay BY <2>2, <2>4 DEF RowsStay
  <2>6. NewRowsSettle BY <2>2, <2>4 DEF NewRowsSettle, IsSettled
  <2>7. /\ OthersWait(w) /\ job'[w].pc = "processed" /\ job'[w].refund = i
    BY <1>4, JobMoves, TypingParts
  <2>8. Follows(job[w])' BY <2>2, <2>4, <2>7 DEF Follows, BookedAsMade, Holds
  <2> QED BY <1>1, <1>2, <2>5, <2>6, <2>7, <2>8, HookStep DEF HookPc
<1>5. CASE RefreshSummary(w)
  <2>1. UNCHANGED ledger /\ Goto(w, "processed") BY <1>5 DEF RefreshSummary, WriteLedger
  <2>2. job[w].status # "succeeded" BY <1>5 DEF RefreshSummary, At, Booking, Follows
  <2>3. OthersWait(w) /\ job'[w].pc = "processed" /\ job'[w].status = job[w].status
    BY <2>1, JobMoves, TypingParts
  <2>4. Follows(job[w])' BY <2>2, <2>3 DEF Follows
  <2>5. RowsStay /\ NewRowsSettle BY <2>1, BookingKeeps
  <2> QED BY <1>1, <1>2, <2>3, <2>4, <2>5, HookStep DEF HookPc
<1> QED BY <1>3, <1>4, <1>5 DEF ApplySucceeded

-----------------------------------------------------------------------------
(* The theorem.                                                            *)

\* The base case.
LEMMA InitBooks == Init => Booking
<1> SUFFICES ASSUME Init PROVE Booking OBVIOUS
<1>1. refunds = <<>> /\ DOMAIN refunds = {} /\ Len(refunds) = 0 /\ asked = 0
  BY EmptySeq DEF Init
<1>2. \A w \in Worker : job[w] = Idle BY DEF Init
<1>3. Idle.pc = "idle" BY DEF Idle
<1>4. InTime BY <1>1, <1>2, <1>3 DEF InTime, DeskPc, BeforeStripe
<1>5. \A w \in Worker : Claimed(job[w]) /\ Follows(job[w])
  BY <1>2, <1>3 DEF Claimed, Follows
<1>6. DOMAIN ledger = {} /\ \A e \in Event : inbox[e] = "none" BY DEF Init
<1> QED BY <1>1, <1>4, <1>5, <1>6 DEF Booking

\* The step, by action.
LEMMA NextKeepsBooking ==
  ASSUME OneDesk, Backing, Typing, Booking, [Next]_vars
  PROVE  Booking'
<1>1. ASSUME NEW w \in Worker, Refund(w) PROVE Booking'
  BY <1>1, AsksBook, AttemptWritesBook, RowWritesBook, AnswersBook, StoreBooks, MarkBooks
     DEF Refund
<1>2. ASSUME NEW w \in Worker, Dismissal(w) PROVE Booking'
  BY <1>2, AsksBook, AttemptWritesBook, RowWritesBook DEF Dismissal
<1>3. ASSUME NEW w \in Worker, Webhook(w) PROVE Booking'
  BY <1>3, EventBooks, FindBooks, ReopenBooks, BookBooks, ApplyBooks DEF Webhook
<1>4. ASSUME NEW w \in Worker, Crash(w) PROVE Booking' BY <1>4, EventBooks
<1>5. CASE DashboardRefund \/ RefundSettles BY <1>5, StripeBooks
<1>6. CASE UNCHANGED vars
  <2>1. UNCHANGED <<attempt, ledger, refunds, inbox, job, asked>>
    BY <1>6 DEF vars, database, stripe
  <2>2. InTime' BY <2>1 DEF Booking, InTime
  <2>3. \A w \in Worker : Claimed(job[w])' /\ Follows(job[w])'
    BY <2>1 DEF Booking, Claimed, Follows, BookedAsMade, Holds
  <2>4. \A row \in DOMAIN ledger' : ledger'[row].refund # 0 => IsSettled(row)'
    BY <2>1 DEF Booking, IsSettled
  <2> QED BY <2>1, <2>2, <2>3, <2>4 DEF Booking, IsTold, BookedAsMade, Holds
<1> QED BY <1>1, <1>2, <1>3, <1>4, <1>5, <1>6 DEF Next

\* When one worker serves the requests, any number takes events, and whatever is lost, refused,
\* repeated or dies in between: Booking holds.
THEOREM BookingHolds == OneDesk => (Spec => []Booking)
<1> SUFFICES ASSUME OneDesk PROVE Spec => []Booking OBVIOUS
<1>1. Init => Typing /\ Backing /\ Booking BY InitIsTyped, InitIsBacked, InitBooks
<1>2. (Typing /\ Backing /\ Booking) /\ [Next]_vars => (Typing /\ Backing /\ Booking)'
  BY NextKeepsTyping, NextKeepsBacking, NextKeepsBooking
<1> QED BY <1>1, <1>2, PTL DEF Spec

\* So every refund that Stripe made at once is booked as one succeeded row, once all its
\* events were processed and nothing runs.
THEOREM LedgerCompletes == OneDesk => (Spec => []LedgerIsComplete)
<1> SUFFICES ASSUME OneDesk PROVE Spec => []LedgerIsComplete OBVIOUS
<1>1. Typing /\ Booking => LedgerIsComplete
  <2> SUFFICES ASSUME Typing, Booking, AllProcessed, NEW i \in DOMAIN refunds \ Slow
               PROVE  BookedAsMade(i)
    BY DEF LedgerIsComplete
  <2>1. i \in RefundId
    <3>1. refunds \in Seq(StripeRefund) BY TypingParts DEF StripeTyped
    <3>2. i \in 1..Len(refunds) /\ Len(refunds) \in Nat BY <3>1, LenProperties
    <3>3. Len(refunds) <= asked /\ asked \in 0..MaxRequests
      BY TypingParts DEF Booking, InTime, CountsTyped
    <3> QED BY <3>2, <3>3, RefundAssumption DEF RefundId
  <2>2. PICK c \in Copies : TRUE BY RefundAssumption
  <2>3. PICK e : e = [refund |-> i, status |-> "succeeded", copy |-> c] OBVIOUS
  <2>4. e \in Event /\ e.refund = i /\ e.status = "succeeded"
    BY <2>1, <2>3 DEF Event, StripeStatus
  <2>5. inbox[e] # "none" BY <2>4 DEF Booking, IsTold
  <2>6. inbox[e] = "done" BY <2>4, <2>5 DEF AllProcessed
  <2> QED BY <2>4, <2>6 DEF Booking
<1>2. Spec => []Typing
  <2>1. (Typing /\ Backing) /\ [Next]_vars => (Typing /\ Backing)'
    BY NextKeepsTyping, NextKeepsBacking
  <2> QED BY <2>1, InitIsTyped, InitIsBacked, PTL DEF Spec
<1>3. Spec => []Booking BY BookingHolds
<1> QED BY <1>1, <1>2, <1>3, PTL

-----------------------------------------------------------------------------
(* What is counted: sums of amounts.                                       *)

\* The desk's process lives.
Immortal == Desk \cap Mortal = {}

\* What was paid is a number.
LEMMA PaidIsNumber == Paid \in Nat
<1> DEFINE q == CHOOSE f : IsFold(f, VendorOrder, Total)
<1>1. IsFiniteSet(VendorOrder) /\ Total \in [VendorOrder -> Nat] BY RefundAssumption
<1>2. \E f : IsFold(f, VendorOrder, Total) BY <1>1, FoldExists
<1>3. IsFold(q, VendorOrder, Total) BY <1>2
<1>4. Paid = q[VendorOrder] BY DEF Paid, MapThenSumSet, MapThenFoldSet, IsFold
<1> HIDE DEF q
<1> QED BY <1>1, <1>3, <1>4, SumIs

\* So are the amounts.
LEMMA AmountsAreNumbers ==
  ASSUME Typing
  PROVE  /\ \A i \in DOMAIN refunds : refunds[i].amount \in Nat
         /\ \A row \in RowId : row.amount \in Nat \ {0}
         /\ IsFiniteSet(DOMAIN refunds) /\ 0 \notin DOMAIN refunds
<1>1. \A n \in 1..Paid : n \in Nat \ {0} BY PaidIsNumber
<1>2. refunds \in Seq(StripeRefund) BY TypingParts DEF StripeTyped
<1>3. \A i \in DOMAIN refunds : refunds[i] \in StripeRefund BY <1>2
<1>4. \A i \in DOMAIN refunds : refunds[i].amount \in Nat BY <1>1, <1>3 DEF StripeRefund
<1>5. \A row \in RowId : row.amount \in Nat \ {0} BY <1>1 DEF RowId, Request, Legacy
<1>6. DOMAIN refunds = 1..Len(refunds) /\ Len(refunds) \in Nat BY <1>2, LenProperties
<1>7. IsFiniteSet(1..Len(refunds)) BY <1>6, FS_Interval
<1> QED BY <1>4, <1>5, <1>6, <1>7

\* What Stripe has refunded is a sum.
Amounts(s, ids) == [i \in ids |-> s[i].amount]

LEMMA StripeCentsIsSum ==
  ASSUME NEW s, NEW S, IsFiniteSet(S), \A i \in S : s[i].amount \in Nat
  PROVE  /\ Amounts(s, S) \in [S -> Nat]
         /\ StripeCents(s, S) = SumOf(Amounts(s, S), S)
<1> DEFINE h == Amounts(s, S)
           P(f) == f = [t \in SUBSET S |->
                          IF t = {} THEN 0
                          ELSE s[CHOOSE x \in t : TRUE].amount + f[t \ {CHOOSE x \in t : TRUE}]]
           q == CHOOSE f : P(f)
<1>1. h \in [S -> Nat] /\ \A i \in S : h[i] = s[i].amount BY DEF Amounts
<1>2. StripeCents(s, S) = q[S] BY DEF StripeCents, MapThenSumSet, MapThenFoldSet
<1> HIDE DEF h
<1>3. \A t \in SUBSET S : t # {} => (CHOOSE x \in t : TRUE) \in S OBVIOUS
<1>4. \A f : IsFold(f, S, h) <=> P(f)
  <2> SUFFICES ASSUME NEW f PROVE IsFold(f, S, h) <=> P(f) OBVIOUS
  <2>1. [t \in SUBSET S |->
           IF t = {} THEN 0 ELSE h[CHOOSE x \in t : TRUE] + f[t \ {CHOOSE x \in t : TRUE}]] =
        [t \in SUBSET S |->
           IF t = {} THEN 0
           ELSE s[CHOOSE x \in t : TRUE].amount + f[t \ {CHOOSE x \in t : TRUE}]]
    BY <1>1, <1>3
  <2> QED BY <2>1 DEF IsFold
<1>5. PICK f : IsFold(f, S, h) BY <1>1, FoldExists
<1> HIDE DEF P
<1>6. P(q) BY <1>4, <1>5
<1> HIDE DEF q
<1>7. q[S] = SumOf(h, S) BY <1>1, <1>4, <1>6, SumIs
<1> QED BY <1>1, <1>2, <1>7 DEF h

\* And so is what rows of the ledger add up to.
RowAmounts(rows) == [row \in rows |-> row.amount]

LEMMA CentsIsSum ==
  ASSUME NEW S, IsFiniteSet(S), \A row \in S : row.amount \in Nat
  PROVE  /\ RowAmounts(S) \in [S -> Nat]
         /\ Cents(S) = SumOf(RowAmounts(S), S)
<1> DEFINE h == RowAmounts(S)
           P(f) == f = [t \in SUBSET S |->
                          IF t = {} THEN 0
                          ELSE (CHOOSE x \in t : TRUE).amount + f[t \ {CHOOSE x \in t : TRUE}]]
           q == CHOOSE f : P(f)
<1>1. h \in [S -> Nat] /\ \A row \in S : h[row] = row.amount BY DEF RowAmounts
<1>2. Cents(S) = q[S] BY DEF Cents, MapThenSumSet, MapThenFoldSet
<1> HIDE DEF h
<1>3. \A t \in SUBSET S : t # {} => (CHOOSE x \in t : TRUE) \in S OBVIOUS
<1>4. \A f : IsFold(f, S, h) <=> P(f)
  <2> SUFFICES ASSUME NEW f PROVE IsFold(f, S, h) <=> P(f) OBVIOUS
  <2>1. [t \in SUBSET S |->
           IF t = {} THEN 0 ELSE h[CHOOSE x \in t : TRUE] + f[t \ {CHOOSE x \in t : TRUE}]] =
        [t \in SUBSET S |->
           IF t = {} THEN 0
           ELSE (CHOOSE x \in t : TRUE).amount + f[t \ {CHOOSE x \in t : TRUE}]]
    BY <1>1, <1>3
  <2> QED BY <2>1 DEF IsFold
<1>5. PICK f : IsFold(f, S, h) BY <1>1, FoldExists
<1> HIDE DEF P
<1>6. P(q) BY <1>4, <1>5
<1> HIDE DEF q
<1>7. q[S] = SumOf(h, S) BY <1>1, <1>4, <1>6, SumIs
<1> QED BY <1>1, <1>2, <1>7 DEF h

\* What was answered of a vendor order.
LEMMA OfIs ==
  ASSUME Typing, NEW v
  PROVE  /\ Of(v) \subseteq DOMAIN refunds /\ IsFiniteSet(Of(v))
         /\ Amounts(refunds, Of(v)) \in [Of(v) -> Nat]
         /\ StripeCents(refunds, Of(v)) = SumOf(Amounts(refunds, Of(v)), Of(v))
         /\ StripeCents(refunds, Of(v)) \in Nat
<1> PICK S : S = Of(v) OBVIOUS
<1>1. S \subseteq DOMAIN refunds BY DEF Of, Live
<1>2. IsFiniteSet(S) /\ \A i \in S : refunds[i].amount \in Nat
  BY <1>1, AmountsAreNumbers, FS_Subset
<1>3. /\ Amounts(refunds, S) \in [S -> Nat]
      /\ StripeCents(refunds, S) = SumOf(Amounts(refunds, S), S)
  BY <1>2, StripeCentsIsSum
<1> PICK h : h = Amounts(refunds, S) OBVIOUS
<1>4. SumOf(h, S) \in Nat BY <1>2, <1>3, SumIs
<1> QED BY <1>1, <1>2, <1>3, <1>4

\* When the desk is not about to write one, what was answered is in rows that count: a request
\* that is no more than what remains leaves the vendor order its total.
LEMMA RemainingLeavesRoom ==
  ASSUME Typing, Backing, Counting, NEW v \in VendorOrder, NEW n \in Nat \ {0},
         n <= RemainingOfVendorOrder(ledger, v),
         \A w \in Worker : job[w].pc \notin {"store", "mark"}
  PROVE  StripeCents(refunds, Of(v)) + n <= Total[v]
<1> DEFINE C == COMMITTED_ORDER_REFUND_STATUSES
           R == {row \in RowsIn(ledger, C) : row.vo = v}
           own == Cents(R)
           A == Of(v)
           g == [i \in A |-> CHOOSE row \in DOMAIN ledger : Holds(row, i)]
           h == Amounts(refunds, A)
           k == RowAmounts(R)
<1>1. /\ A \subseteq DOMAIN refunds /\ IsFiniteSet(A) /\ h \in [A -> Nat]
      /\ StripeCents(refunds, A) = SumOf(h, A) /\ SumOf(h, A) \in Nat
  BY OfIs
<1>2. R \subseteq DOMAIN ledger /\ IsFiniteSet(R) /\ \A row \in R : row.amount \in Nat
  <2>1. R \subseteq DOMAIN ledger BY DEF RowsIn
  <2>2. IsFiniteSet(R) BY <2>1, FS_Subset DEF Counting
  <2>3. DOMAIN ledger \subseteq RowId BY TypingParts DEF LedgerTyped, RowsTyped
  <2> QED BY <2>1, <2>2, <2>3, AmountsAreNumbers
<1>3. k \in [R -> Nat] /\ own = SumOf(k, R) BY <1>2, CentsIsSum
<1>4. ASSUME NEW i \in A PROVE \E row \in DOMAIN ledger : Holds(row, i)
  <2>1. i \in DOMAIN refunds /\ i # 0 BY <1>1, AmountsAreNumbers
  <2>2. PICK r \in DOMAIN attempt : attempt[r].refund = i BY DEF Of, Answered, At
  <2>3. IsCounted(i) BY <2>1, <2>2 DEF Counting, AttemptsAreCounted
  <2> QED BY <2>3 DEF IsCounted, At
<1>5. \A i \in A : g[i] \in DOMAIN ledger /\ Holds(g[i], i) BY <1>4
<1>6. \A i \in A : g[i] \in R /\ g[i].amount = refunds[i].amount
  <2> SUFFICES ASSUME NEW i \in A PROVE g[i] \in R /\ g[i].amount = refunds[i].amount OBVIOUS
  <2> PICK row : row = g[i] OBVIOUS
  <2>1. row \in DOMAIN ledger /\ ledger[row].refund = i BY <1>5 DEF Holds
  <2>2. i \in Live(refunds) /\ refunds[i].vo = v BY DEF Of
  <2>3. i # 0 BY <1>1, AmountsAreNumbers
  <2>4. ledger[row].status \in C BY <2>1, <2>2 DEF Counting, RowsCount
  <2>5. refunds[i].amount = row.amount /\ row.vo = v
    BY <2>1, <2>2, <2>3 DEF Backing, LedgerIsBacked
  <2> QED BY <2>1, <2>4, <2>5 DEF RowsIn
<1>7. \A i, j \in A : g[i] = g[j] => i = j BY <1>5 DEF Holds
<1>8. g \in [A -> R] /\ \A i \in A : k[g[i]] = h[i]
  BY <1>6 DEF RowAmounts, Amounts
<1> HIDE DEF A, R, g, h, k
<1>9. SumOf(h, A) <= SumOf(k, R) /\ SumOf(k, R) \in Nat
  BY <1>1, <1>2, <1>3, <1>7, <1>8, SumInto, SumIs
<1>10. Total[v] \in Nat BY RefundAssumption
<1> PICK refunded : refunded = computeVendorOrderRefundedCents(ledger, v, C) OBVIOUS
<1>11. refunded \in Nat /\ own <= refunded
  BY <1>3, <1>9, <1>10 DEF computeVendorOrderRefundedCents, R
<1>12. n <= IF refunded < Total[v] THEN Total[v] - refunded ELSE 0
  BY DEF RemainingOfVendorOrder, computeRemainingRefundableCents, C
<1>13. refunded + n <= Total[v] BY <1>10, <1>11, <1>12
<1>14. own = SumOf(k, R) BY <1>3
<1> HIDE DEF own
<1>15. SumOf(h, A) + n <= Total[v] BY <1>1, <1>9, <1>10, <1>11, <1>13, <1>14
<1> QED BY <1>1, <1>15 DEF A

-----------------------------------------------------------------------------
(* What a step does to what is counted.                                    *)

\* A refund that failed stays failed.
FailuresStay == \A i \in DOMAIN refunds : Failed(i) => Failed(i)'

\* Rows and their refunds stay, and those of refunds that live still count.
RowsStillCount ==
  /\ IsFiniteSet(DOMAIN ledger')
  /\ \A row \in DOMAIN ledger :
       row \in DOMAIN ledger' /\ (ledger[row].refund # 0 => ledger'[row].refund = ledger[row].refund)
  /\ RowsCount'

\* No vendor order has more refunded of what was answered.
NoMoreIsAnswered ==
  \A v \in VendorOrder : StripeCents(refunds, Of(v))' <= StripeCents(refunds, Of(v))

\* What holds of these amounts holds after a step.
OfCounts(v) ==
  /\ 0 \notin DOMAIN refunds /\ 0 \notin Of(v)
  /\ Of(v) \subseteq DOMAIN refunds /\ IsFiniteSet(Of(v))
  /\ Amounts(refunds, Of(v)) \in [Of(v) -> Nat]
  /\ StripeCents(refunds, Of(v)) = SumOf(Amounts(refunds, Of(v)), Of(v))
  /\ StripeCents(refunds, Of(v)) \in Nat

LEMMA OfIsNext == ASSUME NEW v PROVE Typing' => OfCounts(v)'
<1>1. Typing => OfCounts(v) BY OfIs, AmountsAreNumbers DEF OfCounts
<1> QED BY <1>1, PTL

\* What a refund adds to what was answered of a vendor order.
LEMMA OneMoreIsAnswered ==
  ASSUME Typing, Typing', RefundsKeep, NEW v, NEW i, NEW n \in Nat,
         i \in Of(v)' => refunds'[i].amount = n,
         \A y \in Of(v)' : y # i => y \in Of(v)
  PROVE  StripeCents(refunds, Of(v))' <= StripeCents(refunds, Of(v)) + n
<1> PICK A, B, h, k : /\ A = Of(v) /\ B = Of(v)'
                      /\ h = Amounts(refunds, Of(v)) /\ k = Amounts(refunds, Of(v))'
  OBVIOUS
<1>1. /\ A \subseteq DOMAIN refunds /\ IsFiniteSet(A) /\ h \in [A -> Nat]
      /\ StripeCents(refunds, Of(v)) = SumOf(h, A)
  BY OfIs
<1>2. /\ B \subseteq DOMAIN refunds' /\ IsFiniteSet(B) /\ k \in [B -> Nat]
      /\ StripeCents(refunds, Of(v))' = SumOf(k, B)
  BY OfIsNext DEF OfCounts
<1>3. i \in B => k[i] = n BY DEF Amounts
<1>4. \A y \in B \ {i} : y \in A /\ k[y] = h[y] BY <1>1 DEF Amounts, RefundsKeep
<1>5. SumOf(k, B) <= SumOf(h, A) + n BY <1>1, <1>2, <1>3, <1>4, SumWithOne
<1> QED BY <1>1, <1>2, <1>5

\* Nothing is added by a step that answers nothing.
LEMMA NothingIsAnswered ==
  ASSUME Typing, Typing', RefundsKeep, FailuresStay,
         \A i \in DOMAIN refunds' : Answered(i)' => i \in DOMAIN refunds /\ Answered(i)
  PROVE  NoMoreIsAnswered
<1> SUFFICES ASSUME NEW v \in VendorOrder
             PROVE  StripeCents(refunds, Of(v))' <= StripeCents(refunds, Of(v))
  BY DEF NoMoreIsAnswered
<1>1. \A y \in Of(v)' : y \in Of(v)
  BY DEF Of, Live, RefundsKeep, FailuresStay, Failed
<1>2. 0 \notin Of(v)' /\ StripeCents(refunds, Of(v)) \in Nat BY OfIs, OfIsNext DEF OfCounts
<1>3. StripeCents(refunds, Of(v))' <= StripeCents(refunds, Of(v)) + 0
  BY <1>1, <1>2, OneMoreIsAnswered
<1> QED BY <1>2, <1>3, OfIsNext DEF OfCounts

\* What is not written counts.
LEMMA LedgerStillCounts ==
  ASSUME Typing', Backing, Counting, FailuresStay, UNCHANGED ledger
  PROVE  RowsStillCount
<1>1. 0 \notin DOMAIN refunds' BY OfIsNext DEF OfCounts
<1>2. RowsCount'
  BY <1>1 DEF Backing, LedgerIsBacked, Counting, RowsCount, Live, FailuresStay, Failed
<1> QED BY <1>2 DEF RowsStillCount, Counting

\* Nor does it hurt to write one row, which had no refund, or keeps it.
LEMMA RowStillCounts ==
  ASSUME Counting, UNCHANGED refunds, NEW row,
         DOMAIN ledger' = DOMAIN ledger \cup {row},
         \A x \in DOMAIN ledger \ {row} : ledger'[x] = ledger[x],
         row \in DOMAIN ledger =>
           ledger[row].refund = 0 \/ ledger'[row].refund = ledger[row].refund,
         ledger'[row].refund \in Live(refunds) =>
           ledger'[row].status \in COMMITTED_ORDER_REFUND_STATUSES
  PROVE  RowsStillCount
<1>1. IsFiniteSet(DOMAIN ledger') BY FS_AddElement DEF Counting
<1>2. RowsCount' BY DEF Counting, RowsCount, Live
<1> QED BY <1>1, <1>2 DEF RowsStillCount

\* A refund that is in a row stays in one.
LEMMA CountedStays ==
  ASSUME RowsStillCount, NEW i, i # 0, NEW row \in DOMAIN ledger, Holds(row, i)
  PROVE  IsCounted(i)'
BY DEF RowsStillCount, Holds, IsCounted

\* An attempt's refund is the one it had, or one that the worker is to write.
RefundsAreKept(w) ==
  \A r \in DOMAIN attempt' : attempt'[r].refund # 0 =>
    \/ r \in DOMAIN attempt /\ attempt'[r].refund = attempt[r].refund
    \/ /\ job[w].pc = "store" /\ attempt'[r].refund = job[w].refund
       /\ job'[w].pc = "mark" /\ job'[w].refund = job[w].refund

\* The worker does not leave a refund unwritten.
IsWritten(w) ==
  job[w].pc = "mark" =>
    job'[w] = job[w] \/ \E row \in DOMAIN ledger' : ledger'[row].refund = job[w].refund

\* So attempts are still counted.
LEMMA AttemptsStillCounted ==
  ASSUME Backing, Counting, RefundsKeep, RowsStillCount, NEW w \in Worker, OthersWait(w),
         RefundsAreKept(w), IsWritten(w)
  PROVE  AttemptsAreCounted'
<1> SUFFICES ASSUME NEW r \in DOMAIN attempt', attempt'[r].refund # 0
             PROVE  attempt'[r].refund \in DOMAIN refunds' /\ IsCounted(attempt[r].refund)'
  BY DEF AttemptsAreCounted
<1> PICK i : i = attempt'[r].refund OBVIOUS
<1>1. CASE r \in DOMAIN attempt /\ i = attempt[r].refund
  <2>1. i # 0 /\ i \in DOMAIN refunds /\ IsCounted(i)
    BY <1>1 DEF Counting, AttemptsAreCounted
  <2>2. i \in DOMAIN refunds' BY <2>1 DEF RefundsKeep
  <2>3. CASE \E row \in DOMAIN ledger : Holds(row, i) BY <2>1, <2>2, <2>3, CountedStays
  <2>4. CASE \E v \in Worker : At(v, "mark") /\ job[v].refund = i
    <3>1. PICK v \in Worker : job[v].pc = "mark" /\ job[v].refund = i BY <2>4 DEF At
    <3>2. CASE job'[v] = job[v] BY <2>2, <3>1, <3>2 DEF At, IsCounted
    <3>3. CASE job'[v] # job[v]
      <4>1. v = w BY <3>3 DEF OthersWait
      <4>2. \E row \in DOMAIN ledger' : ledger'[row].refund = i
        BY <3>1, <3>3, <4>1 DEF IsWritten
      <4> QED BY <2>2, <4>2 DEF IsCounted, Holds
    <3> QED BY <3>2, <3>3
  <2> QED BY <2>1, <2>3, <2>4 DEF IsCounted
<1>2. CASE job[w].pc = "store" /\ i = job[w].refund /\ job'[w].pc = "mark" /\ job'[w].refund = i
  <2>1. i \in DOMAIN refunds BY <1>2 DEF Backing, Carries, Backs
  <2> QED BY <1>2, <2>1 DEF RefundsKeep, IsCounted, At
<1> QED BY <1>1, <1>2 DEF RefundsAreKept

\* Failures are still told only of refunds that failed.
LEMMA FailuresStillTold ==
  ASSUME Backing, Counting, FailuresStay, NEW w \in Worker, OthersWait(w),
         \A e \in Event : inbox'[e] # "none" /\ e.status = "failed" =>
           inbox[e] # "none" \/ (e.refund \in DOMAIN refunds /\ Failed(e.refund)),
         job'[w].pc \in HookPc /\ job'[w].status = "failed" =>
           job'[w].refund \in DOMAIN refunds /\ Failed(job'[w].refund)
  PROVE  FailuresAreTold'
<1>1. \A v \in Worker : job[v].pc \in HookPc => job[v].refund \in DOMAIN refunds
  BY DEF Backing, Carries, Backs, HookPc
<1>2. ASSUME NEW v \in Worker, job'[v].pc \in HookPc, job'[v].status = "failed"
      PROVE  Failed(job[v].refund)'
  <2> PICK i : i = job'[v].refund OBVIOUS
  <2>1. i \in DOMAIN refunds /\ Failed(i)
    BY <1>1, <1>2 DEF OthersWait, Counting, FailuresAreTold
  <2>2. Failed(i)' BY <2>1 DEF FailuresStay
  <2> QED BY <2>2 DEF Failed
<1>3. ASSUME NEW e \in Event, inbox'[e] # "none", e.status = "failed" PROVE Failed(e.refund)'
  <2>1. e.refund \in DOMAIN refunds /\ Failed(e.refund)
    BY <1>3 DEF Backing, Counting, FailuresAreTold
  <2> QED BY <2>1 DEF FailuresStay
<1> QED BY <1>2, <1>3 DEF FailuresAreTold

\* Steps of a request after which it asks Stripe for its amount.
Asking == {"caps", "record", "adopt", "link", "stripe"}

\* A job keeps its row and its room.
LEMMA JobStillCounts ==
  ASSUME Typing, Typing', RowsStillCount, NoMoreIsAnswered, NEW j, JobIsTyped(j),
         HasRow(j) \/ HasRow(j)', LeavesRoom(j)
  PROVE  HasRow(j)' /\ LeavesRoom(j)'
<1>1. HasRow(j)' BY DEF HasRow, RowsStillCount
<1>2. ASSUME j.pc \in Asking, j.row.vo # Whole
      PROVE  StripeCents(refunds, Of(j.row.vo))' + j.row.amount <= Total[j.row.vo]
  <2> PICK v, n : v = j.row.vo /\ n = j.row.amount OBVIOUS
  <2>1. j.row \in Request BY <1>2 DEF JobIsTyped, Asking, DeskPc
  <2>2. v \in VendorOrder BY <1>2, <2>1 DEF Request
  <2>3. n \in Nat BY <2>1, AmountsAreNumbers DEF RowId
  <2>4. StripeCents(refunds, Of(v)) + n <= Total[v] BY <1>2 DEF LeavesRoom, Asking
  <2>5. StripeCents(refunds, Of(v)) \in Nat /\ StripeCents(refunds, Of(v))' \in Nat
    BY OfIs, OfIsNext DEF OfCounts
  <2>6. StripeCents(refunds, Of(v))' <= StripeCents(refunds, Of(v))
    BY <2>2 DEF NoMoreIsAnswered
  <2>7. Total[v] \in Nat BY <2>2, RefundAssumption
  <2>8. StripeCents(refunds, Of(v))' + n <= Total[v] BY <2>3, <2>4, <2>5, <2>6, <2>7
  <2> QED BY <2>8
<1> QED BY <1>1, <1>2 DEF LeavesRoom, Asking

\* A step that answers nothing, of which the rest is shown, keeps Counting.
LEMMA CountingStep ==
  ASSUME Typing, Typing', Backing, Counting, RefundsKeep, FailuresStay, RowsStillCount,
         NEW w \in Worker, OthersWait(w),
         AttemptsAreCounted', FailuresAreTold',
         NEW j, job'[w] = j, HasRow(j)', LeavesRoom(j),
         \A i \in DOMAIN refunds' : Answered(i)' => i \in DOMAIN refunds /\ Answered(i)
  PROVE  Counting'
<1>1. NoMoreIsAnswered BY NothingIsAnswered
<1>2. ASSUME NEW u \in Worker PROVE HasRow(job[u])' /\ LeavesRoom(job[u])'
  <2> PICK k : k = job'[u] OBVIOUS
  <2>1. (HasRow(k) \/ HasRow(k)') /\ LeavesRoom(k) BY DEF OthersWait, Counting
  <2>2. JobsTyped' BY TypingParts, PTL
  <2>3. JobIsTyped(k) BY <2>2 DEF JobsTyped, JobIsTyped, EventOf
  <2>4. HasRow(k)' /\ LeavesRoom(k)' BY <1>1, <2>1, <2>3, JobStillCounts
  <2> QED BY <2>4 DEF HasRow, LeavesRoom
<1>3. ASSUME NEW v \in VendorOrder PROVE StripeCents(refunds, Of(v))' <= Total[v]
  <2>1. StripeCents(refunds, Of(v)) \in Nat /\ StripeCents(refunds, Of(v))' \in Nat
    BY OfIs, OfIsNext DEF OfCounts
  <2>2. StripeCents(refunds, Of(v))' <= StripeCents(refunds, Of(v)) BY <1>1 DEF NoMoreIsAnswered
  <2>3. StripeCents(refunds, Of(v)) <= Total[v] BY DEF Counting
  <2>4. Total[v] \in Nat BY RefundAssumption
  <2> QED BY <2>1, <2>2, <2>3, <2>4
<1> QED BY <1>2, <1>3 DEF Counting, RowsStillCount

\* What is left to show of a step that changes none of Stripe's refunds.
LEMMA QuietStep ==
  ASSUME Typing, Typing', Backing, Counting, UNCHANGED refunds, RowsStillCount,
         NEW w \in Worker, OthersWait(w), RefundsAreKept(w), IsWritten(w),
         \A e \in Event : inbox'[e] # "none" /\ e.status = "failed" =>
           inbox[e] # "none" \/ (e.refund \in DOMAIN refunds /\ Failed(e.refund)),
         NEW j, job'[w] = j, j.pc # "store", HasRow(j)', LeavesRoom(j),
         j.pc \in HookPc /\ j.status = "failed" =>
           j.refund \in DOMAIN refunds /\ Failed(j.refund)
  PROVE  Counting'
<1>1. RefundsKeep BY StripeKeeps
<1>2. FailuresStay BY DEF FailuresStay, Failed
<1>3. AttemptsAreCounted' BY <1>1, AttemptsStillCounted
<1>4. FailuresAreTold' BY <1>2, FailuresStillTold
<1>5. \A i \in DOMAIN refunds' : Answered(i)' => i \in DOMAIN refunds /\ Answered(i)
  <2> SUFFICES ASSUME NEW i \in DOMAIN refunds', Answered(i)' PROVE Answered(i) OBVIOUS
  <2>1. i # 0 BY OfIsNext DEF OfCounts
  <2>2. CASE \E r \in DOMAIN attempt' : attempt'[r].refund = i
    BY <2>1, <2>2 DEF RefundsAreKept, Answered, At
  <2>3. CASE \E v \in Worker : job'[v].pc = "store" /\ job'[v].refund = i
    BY <2>3 DEF OthersWait, Answered, At
  <2> QED BY <2>2, <2>3 DEF Answered, At
<1> QED BY <1>1, <1>2, <1>3, <1>4, <1>5, CountingStep

\* A job that goes on with its request keeps its row and its room.
Writing == {"adopt", "link", "stripe", "store", "mark"}

LEMMA KeepsAsking ==
  ASSUME Counting, RowsStillCount, NEW w \in Worker, NEW j,
         j.pc \in Writing =>
           \/ job[w].pc \in Writing /\ j.row = job[w].row
           \/ j.row \in DOMAIN ledger \/ j.row \in DOMAIN ledger',
         j.pc \in Asking => job[w].pc \in Asking /\ j.row = job[w].row
  PROVE  HasRow(j)' /\ LeavesRoom(j)
<1>1. HasRow(job[w]) /\ LeavesRoom(job[w]) BY DEF Counting
<1>2. HasRow(j)' BY <1>1 DEF HasRow, Writing, RowsStillCount
<1>3. LeavesRoom(j)
  <2>1. CASE j.pc \in Asking
    <3> PICK row : row = j.row OBVIOUS
    <3>1. job[w].row = row /\ job[w].pc \in Asking BY <2>1
    <3>2. row.vo # Whole => StripeCents(refunds, Of(row.vo)) + row.amount <= Total[row.vo]
      BY <1>1, <3>1 DEF LeavesRoom, Asking
    <3> QED BY <3>2 DEF LeavesRoom
  <2>2. CASE j.pc \notin Asking BY <2>2 DEF LeavesRoom, Asking
  <2> QED BY <2>1, <2>2
<1> QED BY <1>2, <1>3

\* The steps of a request that write its attempt.
LEMMA AttemptWritesCount ==
  ASSUME Typing, Backing, Counting, NEW w \in Worker,
         \/ ClaimDenial(w) \/ AdoptAttempt(w) \/ FailAttempt(w) \/ RefuseDenial(w)
         \/ DismissAttempt(w)
  PROVE  Counting'
<1> PICK r, k : r = job[w].row /\ k = job'[w] OBVIOUS
<1>1. UNCHANGED <<ledger, refunds, inbox>>
  BY DEF ClaimDenial, AdoptAttempt, FailAttempt, RefuseDenial, DismissAttempt, stripe
<1>2. Typing' BY AttemptWritesTyped
<1>3. FailuresStay BY <1>1 DEF FailuresStay, Failed
<1>4. RowsStillCount BY <1>1, <1>2, <1>3, LedgerStillCounts
<1>5. AttemptsTyped BY TypingParts
<1>6. RefundsAreKept(w)
  <2>1. \/ UNCHANGED attempt \/ attempt' = Put(attempt, r, NewAttempt)
        \/ \E s \in {"attempted", "failed"} : attempt' = [attempt EXCEPT ![r].status = s]
        \/ attempt' = [attempt EXCEPT ![r].status = "attempted", ![r].dismissed = FALSE]
        \/ attempt' = [attempt EXCEPT ![r].dismissed = TRUE]
    BY DEF ClaimDenial, AdoptAttempt, FailAttempt, RefuseDenial, DismissAttempt
  <2>2. \A x \in DOMAIN attempt' : attempt'[x].refund # 0 =>
          x \in DOMAIN attempt /\ attempt'[x].refund = attempt[x].refund
    BY <1>5, <2>1 DEF AttemptsTyped, Attempt, Put, NewAttempt
  <2> QED BY <2>2 DEF RefundsAreKept
<1>7. /\ OthersWait(w)
      /\ \/ k.pc \in {"idle", "precheck", "failrow"}
         \/ k.pc = "link" /\ job[w].pc = "adopt" /\ k.row = r
  <2>1. Stop(w) \/ Goto(w, "precheck") \/ Goto(w, "failrow") \/ (Goto(w, "link") /\ job[w].pc = "adopt")
    <3>1. CASE ClaimDenial(w) BY <3>1 DEF ClaimDenial
    <3>2. CASE AdoptAttempt(w) BY <3>2 DEF AdoptAttempt, At
    <3>3. CASE FailAttempt(w) BY <3>3 DEF FailAttempt
    <3>4. CASE RefuseDenial(w) \/ DismissAttempt(w) BY <3>4 DEF RefuseDenial, DismissAttempt
    <3> QED BY <3>1, <3>2, <3>3, <3>4
  <2> QED BY <2>1, JobMoves, TypingParts
<1>8. IsWritten(w)
  BY DEF IsWritten, ClaimDenial, AdoptAttempt, FailAttempt, RefuseDenial, DismissAttempt, At
<1>9. HasRow(k)' /\ LeavesRoom(k) BY <1>4, <1>7, KeepsAsking DEF Writing, Asking
<1>10. job'[w] = k /\ k.pc # "store" /\ k.pc \notin HookPc BY <1>7 DEF HookPc
<1>11. UNCHANGED refunds /\ \A e \in Event : inbox'[e] # "none" => inbox[e] # "none" BY <1>1
<1> QED BY <1>2, <1>4, <1>6, <1>7, <1>8, <1>9, <1>10, <1>11, QuietStep

\* The vendor order's room is what remains, once no job is about to write a refund.
LEMMA RoomIsLeft ==
  ASSUME Typing, Backing, Counting, NEW r \in Request,
         r.vo # Whole => r.amount <= RemainingOfVendorOrder(ledger, r.vo),
         \A w \in Worker : job[w].pc \notin {"store", "mark"},
         NEW j, j.row = r
  PROVE  LeavesRoom(j)
<1>1. r.amount \in Nat \ {0} BY AmountsAreNumbers DEF RowId
<1>2. r.vo # Whole => r.vo \in VendorOrder BY DEF Request
<1>3. PICK v, n : v = r.vo /\ n = r.amount OBVIOUS
<1>4. v # Whole => StripeCents(refunds, Of(v)) + n <= Total[v]
  BY <1>1, <1>2, <1>3, RemainingLeavesRoom
<1> QED BY <1>3, <1>4 DEF LeavesRoom

\* The steps of a request that read, or write its row without Stripe's id.  Such a row has no
\* refund, and what remains is read while no other request is under way.
LEMMA RowWritesCount ==
  ASSUME OneDesk, Typing, Backing, Booking, Counting, NEW w \in Worker,
         \/ Precheck(w) \/ CheckCaps(w) \/ RecordPending(w) \/ LinkAttempt(w) \/ FailRow(w)
         \/ VerifyNoConflict(w)
  PROVE  Counting'
<1> PICK r, k : r = job[w].row /\ k = job'[w] OBVIOUS
<1>1. UNCHANGED <<attempt, refunds, inbox>>
  BY DEF Precheck, CheckCaps, RecordPending, LinkAttempt, FailRow, VerifyNoConflict,
         database, stripe
<1>2. Typing' BY RowWritesTyped
<1>3. FailuresStay BY <1>1 DEF FailuresStay, Failed
<1>4. r \in Request /\ job[w].pc \in DeskPc
  BY TypingParts, DeskIsAt DEF Precheck, CheckCaps, RecordPending, LinkAttempt, FailRow,
     VerifyNoConflict, DeskPc
<1>5. \A i \in Live(refunds) : i # 0 BY AmountsAreNumbers DEF Live
<1>6. RowsStillCount
  <2>1. LedgerTyped BY TypingParts
  <2>2. CASE UNCHANGED ledger BY <1>2, <1>3, <2>2, LedgerStillCounts
  <2>3. CASE RecordPending(w) /\ ledger' # ledger
    <3>1. /\ r \notin DOMAIN ledger /\ DOMAIN ledger' = DOMAIN ledger \cup {r}
          /\ \A x \in DOMAIN ledger : ledger'[x] = ledger[x]
          /\ ledger'[r].refund = 0
      BY <2>3 DEF RecordPending, WriteLedger, Put
    <3> QED BY <1>1, <1>5, <3>1, RowStillCounts
  <2>4. CASE LinkAttempt(w)
    <3>1. /\ DOMAIN ledger' = DOMAIN ledger /\ r \in DOMAIN ledger
          /\ \A x \in DOMAIN ledger \ {r} : ledger'[x] = ledger[x]
          /\ ledger'[r].refund = ledger[r].refund
      BY <2>1, <2>4 DEF LinkAttempt, WriteLedgerOnly, LedgerTyped, RowsTyped, LedgerRow,
                        At, Counting, HasRow
    <3>2. ledger[r].refund = 0 BY <2>4, <3>1, RowIsBare DEF LinkAttempt, At, Refunding, DeskPc
    <3> QED BY <1>1, <1>5, <3>1, <3>2, RowStillCounts
  <2>5. CASE FailRow(w) /\ r \in DOMAIN ledger
    <3>1. /\ DOMAIN ledger' = DOMAIN ledger
          /\ \A x \in DOMAIN ledger \ {r} : ledger'[x] = ledger[x]
          /\ ledger'[r].refund = ledger[r].refund
      BY <2>1, <2>5 DEF FailRow, WriteLedger, LedgerTyped, RowsTyped, LedgerRow
    <3>2. ledger[r].refund = 0 BY <2>5, RowIsBare DEF FailRow, At, Refunding, DeskPc
    <3> QED BY <1>1, <1>5, <2>5, <3>1, <3>2, RowStillCounts
  <2>6. CASE FailRow(w) /\ r \notin DOMAIN ledger
    <3>1. ledger \in [DOMAIN ledger -> LedgerRow] BY <2>1 DEF LedgerTyped, RowsTyped
    <3>2. ledger' = ledger BY <2>6, <3>1 DEF FailRow, WriteLedger
    <3> QED BY <1>2, <1>3, <3>2, LedgerStillCounts
  <2> QED BY <2>2, <2>3, <2>4, <2>5, <2>6
       DEF Precheck, CheckCaps, RecordPending, VerifyNoConflict, database
<1>7. RefundsAreKept(w) BY <1>1 DEF RefundsAreKept
<1>8. IsWritten(w)
  BY DEF IsWritten, Precheck, CheckCaps, RecordPending, LinkAttempt, FailRow, VerifyNoConflict, At
<1>9. PICK pc \in DeskPc \cup {"idle"} :
        /\ IF pc = "idle" THEN Stop(w) ELSE Goto(w, pc)
        /\ \/ pc \in {"idle", "refuse", "dismiss"}
           \/ Precheck(w) /\ pc = "caps"
           \/ job[w].pc = "caps" /\ pc = "record"
           \/ job[w].pc = "caps" /\ pc \in {"adopt", "stripe"} /\ r \in DOMAIN ledger
           \/ job[w].pc = "record" /\ pc \in {"adopt", "stripe"} /\ r \in DOMAIN ledger'
           \/ job[w].pc = "link" /\ pc = "stripe"
  <2>1. CASE Precheck(w) BY <2>1 DEF Precheck, DeskPc
  <2>2. CASE CheckCaps(w) BY <2>2 DEF CheckCaps, At, AfterRecord, DeskPc
  <2>3. CASE RecordPending(w)
    BY <2>3 DEF RecordPending, At, AfterRecord, DeskPc, WriteLedger, Put
  <2>4. CASE LinkAttempt(w) \/ FailRow(w) \/ VerifyNoConflict(w)
    BY <2>4 DEF LinkAttempt, FailRow, VerifyNoConflict, At, DeskPc
  <2> QED BY <2>1, <2>2, <2>3, <2>4
<1>10. /\ OthersWait(w) /\ k.pc = pc /\ (pc # "idle" => k.row = r)
       /\ k.pc # "store" /\ k.pc \notin HookPc
  <2>1. /\ OthersWait(w) /\ k.pc = pc /\ (pc # "idle" => k.row = r)
    BY <1>9, JobMoves, TypingParts
  <2> QED BY <1>9, <2>1 DEF HookPc
<1>11. HasRow(k)' /\ LeavesRoom(k)
  <2>1. CASE Precheck(w) /\ pc = "caps"
    <3>1. r.amount <= RemainingOfVendorOrder(ledger, r.vo) /\ job[w].pc = "precheck"
      <4>1. job'[w].pc = "caps" BY <1>10, <2>1
      <4>2. CASE r.amount <= RemainingOfVendorOrder(ledger, r.vo)
        BY <2>1, <4>2 DEF Precheck, At
      <4>3. CASE ~(r.amount <= RemainingOfVendorOrder(ledger, r.vo))
        <5>1. Goto(w, "refuse") BY <2>1, <4>3 DEF Precheck
        <5>2. job'[w].pc = "refuse" BY <5>1, JobMoves, TypingParts
        <5> QED BY <4>1, <5>2
      <4> QED BY <4>2, <4>3
    <3>2. \A v \in Worker : job[v].pc \notin {"store", "mark"}
      BY <1>4, <3>1, OnlyDesk DEF Booking, DeskPc
    <3>3. LeavesRoom(k) BY <1>4, <1>10, <2>1, <3>1, <3>2, RoomIsLeft
    <3> QED BY <1>10, <2>1, <3>3 DEF HasRow
  <2>2. CASE ~(Precheck(w) /\ pc = "caps")
    <3>1. k.pc \in Writing => \/ job[w].pc \in Writing /\ k.row = job[w].row
                              \/ k.row \in DOMAIN ledger \/ k.row \in DOMAIN ledger'
      BY <1>9, <1>10, <2>2 DEF Writing
    <3>2. k.pc \in Asking => job[w].pc \in Asking /\ k.row = job[w].row
      BY <1>9, <1>10, <2>2 DEF Asking
    <3> QED BY <1>6, <3>1, <3>2, KeepsAsking
  <2> QED BY <2>1, <2>2
<1>12. job'[w] = k /\ UNCHANGED refunds /\ \A e \in Event : inbox'[e] # "none" => inbox[e] # "none"
  BY <1>1
<1> QED BY <1>2, <1>6, <1>7, <1>8, <1>10, <1>11, <1>12, QuietStep

\* People begin: the one desk was idle, so no refund is about to be written.
LEMMA AsksCount ==
  ASSUME OneDesk, Typing, Backing, Booking, Counting, NEW w \in Worker,
         AskDenial(w) \/ AskAdmin(w) \/ AskDismissal(w)
  PROVE  Counting'
<1>1. UNCHANGED <<attempt, ledger, refunds, inbox>>
  BY DEF AskDenial, AskAdmin, AskDismissal, database, stripe
<1>2. Typing' BY AsksTyped
<1>3. FailuresStay BY <1>1 DEF FailuresStay, Failed
<1>4. RowsStillCount BY <1>1, <1>2, <1>3, LedgerStillCounts
<1>5. RefundsAreKept(w) BY <1>1 DEF RefundsAreKept
<1>6. w \in Desk /\ job[w].pc = "idle" BY DEF AskDenial, AskAdmin, AskDismissal, At
<1>7. \A v \in Worker : job[v].pc \notin {"store", "mark"}
  BY <1>6 DEF OneDesk, Booking, InTime, DeskPc
<1>8. IsWritten(w) BY <1>6 DEF IsWritten
<1>9. PICK j : /\ OthersWait(w) /\ job'[w] = j /\ j.pc \in {"idle", "claim", "caps", "verify"}
               /\ j.pc = "caps" => \E r \in Request : j.row = r /\ PlanAmount(r)
  <2>1. CASE AskDenial(w)
    <3>1. \/ Stop(w)
          \/ \E r, j : /\ Set(w, j)
                       /\ j = [Idle EXCEPT !.pc = "claim", !.row = r, !.seen = r \in DOMAIN attempt]
      BY <2>1 DEF AskDenial
    <3>2. CASE Stop(w) BY <3>2, JobMoves, TypingParts
    <3>3. ASSUME NEW r, NEW j, Set(w, j),
                 j = [Idle EXCEPT !.pc = "claim", !.row = r, !.seen = r \in DOMAIN attempt]
          PROVE  OthersWait(w) /\ job'[w] = j /\ j.pc = "claim"
      BY <3>3, JobMoves, TypingParts DEF Idle
    <3> QED BY <3>1, <3>2, <3>3
  <2>2. CASE AskAdmin(w)
    <3>1. PICK r, j :
            /\ r \in Request /\ Set(w, j) /\ PlanAmount(r)
            /\ j = [Idle EXCEPT !.pc = "caps", !.row = r, !.seen = r \in DOMAIN attempt]
      BY <2>2 DEF AskAdmin
    <3>2. j.pc = "caps" /\ j.row = r BY <3>1 DEF Idle
    <3>3. OthersWait(w) /\ job'[w] = j BY <3>1, JobMoves, TypingParts
    <3>4. \E x \in Request : j.row = x /\ PlanAmount(x) BY <3>1, <3>2
    <3> QED BY <3>2, <3>3, <3>4
  <2>3. CASE AskDismissal(w)
    <3>1. PICK r, j : Set(w, j) /\ j = [Idle EXCEPT !.pc = "verify", !.row = r]
      BY <2>3 DEF AskDismissal
    <3>2. j.pc = "verify" BY <3>1 DEF Idle
    <3> QED BY <3>1, <3>2, JobMoves, TypingParts
  <2> QED BY <2>1, <2>2, <2>3
<1>10. LeavesRoom(j)
  <2>1. CASE j.pc = "caps"
    <3>1. PICK r \in Request : j.row = r /\ PlanAmount(r) BY <1>9, <2>1
    <3>2. CASE r.vo = Whole BY <3>1, <3>2 DEF LeavesRoom
    <3>3. CASE r.vo # Whole
      <4>1. r.scope # "full_order" BY <3>3 DEF Request
      <4>2. CASE r.scope = "full_vendor_order"
        <5>1. r.amount = RemainingOfVendorOrder(ledger, r.vo) BY <3>1, <4>2 DEF PlanAmount
        <5>2. r.amount \in Nat BY AmountsAreNumbers DEF RowId
        <5>3. r.amount <= RemainingOfVendorOrder(ledger, r.vo) BY <5>1, <5>2
        <5> QED BY <1>7, <3>1, <5>3, RoomIsLeft
      <4>3. CASE r.scope = "custom_vendor_partial"
        <5>1. r.amount <= RemainingOfVendorOrder(ledger, r.vo) BY <3>1, <4>3 DEF PlanAmount
        <5> QED BY <1>7, <3>1, <5>1, RoomIsLeft
      <4> QED BY <3>1, <4>1, <4>2, <4>3 DEF PlanAmount
    <3> QED BY <3>2, <3>3
  <2>2. CASE j.pc # "caps" BY <1>9, <2>2 DEF LeavesRoom
  <2> QED BY <2>1, <2>2
<1>11. HasRow(j)' BY <1>9 DEF HasRow
<1>12. j.pc # "store" /\ j.pc \notin HookPc BY <1>9 DEF HookPc
<1>13. UNCHANGED refunds /\ \A e \in Event : inbox'[e] # "none" => inbox[e] # "none" BY <1>1
<1> QED BY <1>2, <1>4, <1>5, <1>8, <1>9, <1>10, <1>11, <1>12, <1>13, QuietStep

\* Stripe's id goes to the attempt, as an answer that had arrived.
LEMMA StoreCounts ==
  ASSUME Typing, Backing, Counting, NEW w \in Worker, StoreRefund(w)
  PROVE  Counting'
<1>1. UNCHANGED <<ledger, refunds, inbox>> BY DEF StoreRefund, stripe
<1>2. Typing' BY AttemptWritesTyped
<1>3. FailuresStay BY <1>1 DEF FailuresStay, Failed
<1>4. RowsStillCount BY <1>1, <1>2, <1>3, LedgerStillCounts
<1>5. job[w].pc = "store" /\ job[w] \in Job BY TypingParts DEF StoreRefund, At, JobsTyped
<1>6. PICK j : /\ Set(w, j)
               /\ j = [job[w] EXCEPT !.pc = "mark",
                                     !.seen = ledger[job[w].row].status = "succeeded"]
  BY DEF StoreRefund
<1>7. j.pc = "mark" /\ j.row = job[w].row /\ j.refund = job[w].refund BY <1>5, <1>6 DEF Job
<1>8. OthersWait(w) /\ job'[w] = j BY <1>6, JobMoves, TypingParts
<1>9. RefundsAreKept(w)
  <2>1. AttemptsTyped BY TypingParts
  <2>2. \A x \in DOMAIN attempt' :
          /\ x \in DOMAIN attempt
          /\ attempt'[x].refund = attempt[x].refund \/ attempt'[x].refund = job[w].refund
    BY <2>1 DEF StoreRefund, AttemptsTyped, Attempt
  <2> QED BY <1>5, <1>7, <1>8, <2>2 DEF RefundsAreKept
<1>10. IsWritten(w) BY <1>5 DEF IsWritten
<1>11. HasRow(j)' /\ LeavesRoom(j) BY <1>4, <1>5, <1>7, KeepsAsking DEF Writing, Asking
<1>12. j.pc # "store" /\ j.pc \notin HookPc BY <1>7 DEF HookPc
<1>13. UNCHANGED refunds /\ \A e \in Event : inbox'[e] # "none" => inbox[e] # "none" BY <1>1
<1> QED BY <1>2, <1>4, <1>8, <1>9, <1>10, <1>11, <1>12, <1>13, QuietStep

\* And to the row, unless another row has it.
LEMMA MarkCounts ==
  ASSUME Typing, Backing, Booking, Counting, NEW w \in Worker, MarkRefund(w)
  PROVE  Counting'
<1> PICK r, i, k : r = job[w].row /\ i = job[w].refund /\ k = job'[w] OBVIOUS
<1>1. UNCHANGED <<attempt, refunds, inbox>> BY DEF MarkRefund, stripe
<1>2. Typing' BY RowWritesTyped
<1>3. FailuresStay BY <1>1 DEF FailuresStay, Failed
<1>4. job[w].pc = "mark" /\ r \in DOMAIN ledger BY DEF MarkRefund, At, Counting, HasRow
<1>5. \/ Goto(w, "fail") /\ UNCHANGED ledger /\ Taken(i, r)
      \/ /\ Stop(w)
         /\ ledger' = [ledger EXCEPT ![r].status = "succeeded", ![r].refund = i]
  BY DEF MarkRefund, MarkSucceeded, WriteLedger, WriteLedgerOnly
<1>6. RowsStillCount /\ \E row \in DOMAIN ledger' : ledger'[row].refund = i
  <2>1. CASE UNCHANGED ledger /\ Taken(i, r)
    BY <1>2, <1>3, <2>1, LedgerStillCounts DEF Taken, Holds
  <2>2. CASE ledger' = [ledger EXCEPT ![r].status = "succeeded", ![r].refund = i]
    <3>1. ledger[r] \in LedgerRow BY <1>4, TypingParts DEF LedgerTyped, RowsTyped
    <3>2. /\ DOMAIN ledger' = DOMAIN ledger
          /\ \A x \in DOMAIN ledger \ {r} : ledger'[x] = ledger[x]
          /\ ledger'[r].status = "succeeded" /\ ledger'[r].refund = i
      BY <1>4, <2>2, <3>1 DEF LedgerRow
    <3>3. ledger[r].refund = 0 BY <1>4, RowIsBare DEF Refunding, DeskPc
    <3>4. "succeeded" \in COMMITTED_ORDER_REFUND_STATUSES BY DEF COMMITTED_ORDER_REFUND_STATUSES
    <3>5. RowsStillCount BY <1>1, <1>4, <3>2, <3>3, <3>4, RowStillCounts
    <3> QED BY <1>4, <3>2, <3>5
  <2> QED BY <1>5, <2>1, <2>2
<1>7. IsWritten(w) BY <1>6 DEF IsWritten
<1>8. RefundsAreKept(w) BY <1>1 DEF RefundsAreKept
<1>9. OthersWait(w) /\ k.pc \in {"idle", "fail"} BY <1>5, JobMoves, TypingParts
<1>10. HasRow(k)' /\ LeavesRoom(k) BY <1>9 DEF HasRow, LeavesRoom
<1>11. job'[w] = k /\ k.pc # "store" /\ k.pc \notin HookPc BY <1>9 DEF HookPc
<1>12. UNCHANGED refunds /\ \A e \in Event : inbox'[e] # "none" => inbox[e] # "none" BY <1>1
<1> QED BY <1>2, <1>6, <1>7, <1>8, <1>9, <1>10, <1>11, <1>12, QuietStep

\* Stripe refuses.
LEMMA RefusalCounts ==
  ASSUME Typing, Backing, Counting, NEW w \in Worker, RefundIsRefused(w)
  PROVE  Counting'
<1> PICK k : k = job'[w] OBVIOUS
<1>1. UNCHANGED <<attempt, ledger, refunds, inbox>> BY DEF RefundIsRefused, database
<1>2. Typing' BY AnswersTyped
<1>3. FailuresStay BY <1>1 DEF FailuresStay, Failed
<1>4. RowsStillCount BY <1>1, <1>2, <1>3, LedgerStillCounts
<1>5. RefundsAreKept(w) BY <1>1 DEF RefundsAreKept
<1>6. IsWritten(w) BY DEF IsWritten, RefundIsRefused, At
<1>7. OthersWait(w) /\ k.pc = "fail" BY JobMoves, TypingParts DEF RefundIsRefused
<1>8. HasRow(k)' /\ LeavesRoom(k) BY <1>7 DEF HasRow, LeavesRoom
<1>9. job'[w] = k /\ k.pc # "store" /\ k.pc \notin HookPc BY <1>7 DEF HookPc
<1>10. UNCHANGED refunds /\ \A e \in Event : inbox'[e] # "none" => inbox[e] # "none" BY <1>1
<1> QED BY <1>2, <1>4, <1>5, <1>6, <1>7, <1>8, <1>9, <1>10, QuietStep

\* Stripe makes the refund, or gives the one it made before: one refund more was answered at
\* most, for which the job had left room.
LEMMA AnswerCounts ==
  ASSUME OneDesk, Typing, Backing, Booking, Counting, NEW w \in Worker,
         RefundIsMade(w) \/ RefundIsRepeated(w)
  PROVE  Counting'
<1> PICK r, k : r = job[w].row /\ k = job'[w] OBVIOUS
<1>1. UNCHANGED <<attempt, ledger>> BY DEF RefundIsMade, RefundIsRepeated, database
<1>2. Typing' BY AnswersTyped
<1>3. job[w].pc = "stripe" /\ r \in Request
  BY TypingParts DEF RefundIsMade, RefundIsRepeated, At, JobsTyped, JobIsTyped, DeskPc
<1>4. PICK i : /\ OthersWait(w) /\ k.pc \in {"fail", "store"} /\ k.row = r
               /\ k.pc = "store" => k.refund = i
               /\ i \in DOMAIN refunds' => refunds'[i].amount = r.amount /\ refunds'[i].vo = r.vo
               /\ \A y \in DOMAIN refunds' : y # i => y \in DOMAIN refunds
               /\ RefundsKeep /\ FailuresStay
               /\ \A e \in Event : inbox'[e] # "none" /\ e.status = "failed" => inbox[e] # "none"
  <2>1. CASE RefundIsMade(w)
    <3>1. PICK status \in Initially : NewRefund(r, status) BY <2>1 DEF RefundIsMade
    <3>2. status \in StripeStatus /\ status # "failed" BY DEF Initially, StripeStatus
    <3> DEFINE new == [vo |-> r.vo, amount |-> r.amount, status |-> status]
               i   == Len(refunds) + 1
    <3>3. refunds' = Append(refunds, new) /\ inbox' = Announce(inbox, i, status)
      BY <3>1 DEF NewRefund
    <3>4. Len(refunds') = i BY <1>3, <3>1, <3>2, NewRefundTyped
    <3>5. RefundsKeep BY <3>1, NewRefundKeeps
    <3>6. /\ \A y \in DOMAIN refunds : refunds'[y] = refunds[y]
          /\ i \in DOMAIN refunds' => refunds'[i] = new
      <4>1. i \notin DOMAIN refunds BY IndexIsPositive DEF Backing
      <4> QED BY <3>3, <4>1, AppendKeeps DEF Backing
    <3>7. FailuresStay BY <3>6 DEF FailuresStay, Failed
    <3>8. \A y \in DOMAIN refunds' : y # i => y \in DOMAIN refunds
      <4>1. refunds \in Seq(StripeRefund) /\ refunds' \in Seq(StripeRefund)
        BY <1>3, <3>1, <3>2, NewRefundTyped, TypingParts DEF StripeTyped
      <4>2. DOMAIN refunds = 1..Len(refunds) /\ DOMAIN refunds' = 1..Len(refunds')
            /\ Len(refunds) \in Nat
        BY <4>1, LenProperties
      <4> QED BY <3>4, <4>2
    <3>9. \A e \in Event : inbox'[e] # "none" /\ e.status = "failed" => inbox[e] # "none"
      BY <3>2, <3>3 DEF Announce
    <3>10. OthersWait(w) /\ k.pc \in {"fail", "store"} /\ k.row = r /\ (k.pc = "store" => k.refund = i)
      <4>1. CASE Goto(w, "fail") BY <4>1, JobMoves, TypingParts
      <4>2. CASE Set(w, [job[w] EXCEPT !.pc = "store", !.refund = Len(refunds')])
        <5>1. PICK j : Set(w, j) /\ j = [job[w] EXCEPT !.pc = "store", !.refund = Len(refunds')]
          BY <4>2
        <5>2. job[w] \in Job BY TypingParts DEF JobsTyped
        <5>3. j.pc = "store" /\ j.row = r /\ j.refund = Len(refunds') BY <5>1, <5>2 DEF Job
        <5>4. OthersWait(w) /\ k = j BY <5>1, JobMoves, TypingParts
        <5> QED BY <3>4, <5>3, <5>4
      <4> QED BY <2>1, <4>1, <4>2 DEF RefundIsMade
    <3>11. new.amount = r.amount /\ new.vo = r.vo OBVIOUS
    <3> HIDE DEF i, new
    <3> QED BY <3>5, <3>6, <3>7, <3>8, <3>9, <3>10, <3>11
  <2>2. CASE RefundIsRepeated(w)
    <3>1. UNCHANGED <<refunds, inbox>> BY <2>2 DEF RefundIsRepeated, stripe
    <3>2. RefundsKeep BY <3>1, StripeKeeps
    <3>3. FailuresStay BY <3>1 DEF FailuresStay, Failed
    <3> PICK i : i = known[r] OBVIOUS
    <3>4. i \in DOMAIN refunds => refunds[i].amount = r.amount /\ refunds[i].vo = r.vo
      <4>1. r \in DOMAIN known BY <2>2 DEF RefundIsRepeated
      <4>2. 0 \notin DOMAIN refunds BY AmountsAreNumbers
      <4> QED BY <4>1, <4>2 DEF Backing, Backs
    <3>5. OthersWait(w) /\ k.pc \in {"fail", "store"} /\ k.row = r /\ (k.pc = "store" => k.refund = i)
      <4>1. CASE Goto(w, "fail") BY <4>1, JobMoves, TypingParts
      <4>2. CASE Set(w, [job[w] EXCEPT !.pc = "store", !.refund = known[r]])
        <5>1. PICK j : Set(w, j) /\ j = [job[w] EXCEPT !.pc = "store", !.refund = i]
          BY <4>2
        <5>2. job[w] \in Job BY TypingParts DEF JobsTyped
        <5>3. j.pc = "store" /\ j.row = r /\ j.refund = i BY <5>1, <5>2 DEF Job
        <5>4. OthersWait(w) /\ k = j BY <5>1, JobMoves, TypingParts
        <5> QED BY <5>3, <5>4
      <4> QED BY <2>2, <4>1, <4>2 DEF RefundIsRepeated
    <3> QED BY <3>1, <3>2, <3>3, <3>4, <3>5
  <2> QED BY <2>1, <2>2
<1>5. RowsStillCount BY <1>1, <1>2, <1>4, LedgerStillCounts
<1>6. AttemptsAreCounted'
  <2>1. RefundsAreKept(w) /\ IsWritten(w) BY <1>1, <1>3 DEF RefundsAreKept, IsWritten
  <2> QED BY <1>4, <1>5, <2>1, AttemptsStillCounted
<1>7. FailuresAreTold'
  <2>1. job'[w].pc \notin HookPc BY <1>4 DEF HookPc
  <2> QED BY <1>4, <2>1, FailuresStillTold
<1>8. \A v \in Worker : job[v].pc \in DeskPc => v = w
  BY <1>3, OnlyDesk DEF Booking, DeskPc
<1>9. \A v \in Worker : HasRow(job[v])' /\ LeavesRoom(job[v])'
  <2>1. r \in DOMAIN ledger' BY <1>1, <1>3 DEF Counting, HasRow
  <2>2. \A v \in Worker : job'[v].pc \notin {"caps", "record", "adopt", "link", "stripe", "mark"}
                          /\ (job'[v].pc = "store" => v = w)
    BY <1>4, <1>8 DEF OthersWait, DeskPc
  <2> QED BY <1>4, <2>1, <2>2 DEF HasRow, LeavesRoom
<1>10. ASSUME NEW v \in VendorOrder PROVE StripeCents(refunds, Of(v))' <= Total[v]
  <2>1. r.amount \in Nat BY <1>3, AmountsAreNumbers DEF RowId
  <2>2. StripeCents(refunds, Of(v)) \in Nat /\ StripeCents(refunds, Of(v))' \in Nat
        /\ 0 \notin Of(v)' /\ Total[v] \in Nat
    BY <1>2, OfIs, OfIsNext, RefundAssumption DEF OfCounts
  <2>3. StripeCents(refunds, Of(v)) <= Total[v] BY DEF Counting
  <2>4. \A y \in Of(v)' : y # i => y \in Of(v)
    <3> SUFFICES ASSUME NEW y \in Of(v)', y # i PROVE y \in Of(v) OBVIOUS
    <3>1. y \in DOMAIN refunds' /\ ~Failed(y)' /\ refunds'[y].vo = v /\ Answered(y)'
      BY DEF Of, Live, Failed
    <3>2. y \in DOMAIN refunds /\ ~Failed(y) /\ refunds[y].vo = v
      BY <1>4, <3>1 DEF RefundsKeep, FailuresStay
    <3>3. Answered(y)
      <4>1. CASE \E x \in DOMAIN attempt' : attempt'[x].refund = y
        BY <1>1, <4>1 DEF Answered
      <4>2. CASE \E u \in Worker : job'[u].pc = "store" /\ job'[u].refund = y
        BY <1>4, <4>2 DEF OthersWait, Answered, At
      <4> QED BY <3>1, <4>1, <4>2 DEF Answered, At
    <3> QED BY <3>2, <3>3 DEF Of, Live, Failed
  <2>5. CASE i \in Of(v)'
    <3>1. i \in DOMAIN refunds' /\ refunds'[i].vo = v BY <2>5 DEF Of, Live
    <3>2. refunds'[i].amount = r.amount /\ r.vo = v BY <1>4, <3>1
    <3>3. StripeCents(refunds, Of(v))' <= StripeCents(refunds, Of(v)) + r.amount
      <4> PICK n : n = r.amount OBVIOUS
      <4> QED BY <1>2, <1>4, <2>1, <2>4, <3>2, OneMoreIsAnswered
    <3>4. LeavesRoom(job[w]) BY DEF Counting
    <3>5. StripeCents(refunds, Of(v)) + r.amount <= Total[v]
      BY <1>3, <3>2, <3>4, RefundAssumption DEF LeavesRoom
    <3> QED BY <2>1, <2>2, <3>3, <3>5
  <2>6. CASE i \notin Of(v)'
    <3>1. StripeCents(refunds, Of(v))' <= StripeCents(refunds, Of(v)) + 0
      BY <1>2, <1>4, <2>2, <2>4, <2>6, OneMoreIsAnswered
    <3> QED BY <2>2, <2>3, <3>1
  <2> QED BY <2>5, <2>6
<1> QED BY <1>5, <1>6, <1>7, <1>9, <1>10 DEF Counting, RowsStillCount

\* A step of a delivery writes no attempt and asks for nothing: what is left to show is the row,
\* and that a failure it tells of is one.
LEMMA HookStepCounts ==
  ASSUME Typing, Typing', Backing, Counting, NEW w \in Worker, OthersWait(w),
         job[w].pc \notin DeskPc, job'[w].pc \in HookPc \cup {"idle"},
         UNCHANGED <<attempt, refunds>>, RowsStillCount,
         \A e \in Event : inbox'[e] # "none" /\ e.status = "failed" =>
           inbox[e] # "none" \/ (e.refund \in DOMAIN refunds /\ Failed(e.refund)),
         \/ job'[w].pc = "idle"
         \/ /\ job[w].pc \in HookPc
            /\ job'[w].refund = job[w].refund /\ job'[w].status = job[w].status
         \/ /\ job'[w].refund \in DOMAIN refunds
            /\ job'[w].status = "failed" => Failed(job'[w].refund)
  PROVE  Counting'
<1> PICK k : k = job'[w] OBVIOUS
<1>1. RefundsAreKept(w) /\ IsWritten(w) BY DEF RefundsAreKept, IsWritten, DeskPc
<1>2. HasRow(k)' /\ LeavesRoom(k) /\ k.pc # "store" BY DEF HasRow, LeavesRoom, HookPc
<1>3. job[w].pc \in HookPc => job[w].refund \in DOMAIN refunds
  BY DEF Backing, Carries, Backs, HookPc
<1>4. k.pc \in HookPc /\ k.status = "failed" => k.refund \in DOMAIN refunds /\ Failed(k.refund)
  BY <1>3 DEF Counting, FailuresAreTold, HookPc
<1>5. job'[w] = k /\ UNCHANGED refunds OBVIOUS
<1> QED BY <1>1, <1>2, <1>4, <1>5, QuietStep

\* The steps of a delivery that change no row.
LEMMA EventCounts ==
  ASSUME Typing, Backing, Counting, NEW w \in Worker,
         \/ \E e \in Event : DeliverEvent(w, e)
         \/ FindRow(w) \/ RefreshSummary(w) \/ MarkProcessed(w)
  PROVE  Counting'
<1>1. UNCHANGED <<attempt, ledger, refunds>>
  BY DEF DeliverEvent, FindRow, RefreshSummary, MarkProcessed, WriteLedger, database, stripe
<1>2. Typing'
  <2>1. ASSUME NEW e \in Event, DeliverEvent(w, e) PROVE Typing' BY <2>1, DeliverTyped
  <2>2. CASE FindRow(w) \/ RefreshSummary(w) \/ MarkProcessed(w) BY <2>2, FindTyped, BookTyped, EndTyped
  <2> QED BY <2>1, <2>2
<1>3. FailuresStay BY <1>1 DEF FailuresStay, Failed
<1>4. RowsStillCount BY <1>1, <1>2, <1>3, LedgerStillCounts
<1>5. job[w].pc \notin DeskPc
  BY DEF DeliverEvent, FindRow, RefreshSummary, MarkProcessed, At, DeskPc
<1>6. CASE \E e \in Event : DeliverEvent(w, e)
  <2>1. PICK e \in Event : DeliverEvent(w, e) BY <1>6
  <2>2. PICK j : /\ Set(w, j)
                 /\ j = [Idle EXCEPT !.pc = "find", !.refund = e.refund, !.status = e.status,
                                     !.copy = e.copy]
    BY <2>1 DEF DeliverEvent
  <2>3. j.pc = "find" /\ j.refund = e.refund /\ j.status = e.status BY <2>2 DEF Idle
  <2>4. OthersWait(w) /\ job'[w] = j BY <2>2, JobMoves, TypingParts
  <2>5. inbox[e] # "none" BY <2>1 DEF DeliverEvent
  <2>6. e.refund \in DOMAIN refunds /\ (e.status = "failed" => Failed(e.refund))
    BY <2>5 DEF Backing, Counting, FailuresAreTold
  <2>7. \A x \in Event : inbox'[x] # "none" => inbox[x] # "none"
    BY <2>1, <2>5, TypingParts DEF DeliverEvent, StripeTyped
  <2>8. job'[w].pc \in HookPc BY <2>3, <2>4 DEF HookPc
  <2> QED BY <1>1, <1>2, <1>4, <1>5, <2>3, <2>4, <2>6, <2>7, <2>8, HookStepCounts
<1>7. CASE FindRow(w)
  <2>1. job[w] \in Job /\ job[w].pc \in HookPc /\ UNCHANGED inbox
    BY <1>7, TypingParts DEF FindRow, At, HookPc, JobsTyped
  <2> DEFINE legacy == LegacyRow(job[w].refund)
  <2>2. PICK j, row :
          /\ Set(w, j)
          /\ \/ j = [job[w] EXCEPT !.pc = "processed"]
             \/ j = [job[w] EXCEPT !.pc = "book", !.row = row]
             \/ j = [job[w] EXCEPT !.pc = "apply", !.row = row,
                                   !.seen = ledger[row].status = "succeeded"]
             \/ j = [job[w] EXCEPT !.pc = "reopen", !.row = row]
    <3> HIDE DEF legacy
    <3> QED BY <1>7 DEF FindRow, legacy
  <2>3. j.pc \in HookPc /\ j.refund = job[w].refund /\ j.status = job[w].status
    BY <2>1, <2>2 DEF Job, HookPc
  <2>4. OthersWait(w) /\ job'[w] = j BY <2>2, JobMoves, TypingParts
  <2> QED BY <1>1, <1>2, <1>4, <1>5, <2>1, <2>3, <2>4, HookStepCounts
<1>8. CASE RefreshSummary(w)
  <2>1. job[w].pc \in HookPc /\ Goto(w, "processed") /\ UNCHANGED inbox
    BY <1>8 DEF RefreshSummary, At, HookPc
  <2>2. /\ OthersWait(w) /\ job'[w].pc \in HookPc
        /\ job'[w].refund = job[w].refund /\ job'[w].status = job[w].status
    BY <2>1, JobMoves, TypingParts DEF HookPc
  <2> QED BY <1>1, <1>2, <1>4, <1>5, <2>1, <2>2, HookStepCounts
<1>9. CASE MarkProcessed(w)
  <2>1. PICK e : e = EventOf(job[w]) OBVIOUS
  <2>2. e.refund = job[w].refund /\ e.status = job[w].status BY <2>1 DEF EventOf
  <2>3. job[w].pc = "processed" BY <1>9 DEF MarkProcessed, At
  <2>4. e.refund \in DOMAIN refunds /\ (e.status = "failed" => Failed(e.refund))
    BY <2>2, <2>3 DEF Backing, Carries, Counting, FailuresAreTold, HookPc
  <2>5. inbox' = [inbox EXCEPT ![e] = "done"] BY <1>9, <2>1 DEF MarkProcessed
  <2>6. \A x \in Event : x # e => inbox'[x] = inbox[x] BY <2>5, TypingParts DEF StripeTyped
  <2>7. \A x \in Event : inbox'[x] # "none" /\ x.status = "failed" =>
          inbox[x] # "none" \/ (x.refund \in DOMAIN refunds /\ Failed(x.refund))
    BY <2>4, <2>6
  <2>8. OthersWait(w) /\ job'[w].pc = "idle" BY <1>9, JobMoves, TypingParts DEF MarkProcessed
  <2> QED BY <1>1, <1>2, <1>4, <1>5, <2>7, <2>8, HookStepCounts
<1> QED BY <1>6, <1>7, <1>8, <1>9

\* The steps of a delivery that write a row: a failure is only written of a refund that failed.
LEMMA DeliveryWritesCount ==
  ASSUME Typing, Backing, Booking, Counting, NEW w \in Worker,
         ReopenRow(w) \/ BookRefund(w) \/ ApplySucceeded(w)
  PROVE  Counting'
<1> PICK row, i, s : row = job[w].row /\ i = job[w].refund /\ s = job[w].status OBVIOUS
<1>1. UNCHANGED <<attempt, refunds, inbox>> BY DEF ReopenRow, BookRefund, ApplySucceeded, stripe
<1>2. Typing' BY BookTyped, EndTyped
<1>3. FailuresStay BY <1>1 DEF FailuresStay, Failed
<1>4. /\ job[w].pc \in HookPc /\ job[w].pc \notin DeskPc /\ job[w] \in Job
  BY TypingParts DEF ReopenRow, BookRefund, ApplySucceeded, At, HookPc, DeskPc, JobsTyped
<1>5. s \in StripeStatus BY <1>4 DEF Job
<1>6. s = "failed" => Failed(i) BY <1>4 DEF Counting, FailuresAreTold
<1>7. \A x \in Live(refunds) : x # 0 /\ ~Failed(x) BY AmountsAreNumbers DEF Live, Failed
<1>8. /\ OthersWait(w) /\ job'[w].pc \in HookPc \cup {"idle"}
      /\ job'[w].pc # "idle" => job'[w].refund = job[w].refund /\ job'[w].status = job[w].status
  <2>1. CASE Stop(w) \/ Goto(w, "processed") BY <2>1, JobMoves, TypingParts DEF HookPc
  <2>2. CASE BookRefund(w) /\ ~Stop(w)
    <3>1. PICK j : /\ Set(w, j)
                   /\ j = [job[w] EXCEPT !.pc = IF job[w].status = "succeeded" THEN "apply"
                                                ELSE "refresh", !.seen = TRUE]
      BY <2>2 DEF BookRefund
    <3>2. j.pc \in HookPc /\ j.refund = job[w].refund /\ j.status = job[w].status
      BY <1>4, <3>1 DEF Job, HookPc
    <3> QED BY <3>1, <3>2, JobMoves, TypingParts
  <2> QED BY <2>1, <2>2 DEF ReopenRow, BookRefund, ApplySucceeded
<1>9. RowsStillCount
  <2>1. LedgerTyped BY TypingParts
  <2>2. CASE UNCHANGED ledger BY <1>2, <1>3, <2>2, LedgerStillCounts
  <2>3. CASE ReopenRow(w)
    <3>1. row \in DOMAIN ledger /\ ledger[row].refund \in {0, i}
      BY <2>3, RowIsItsOwn DEF ReopenRow, At
    <3>2. /\ DOMAIN ledger' = DOMAIN ledger
          /\ \A x \in DOMAIN ledger \ {row} : ledger'[x] = ledger[x]
          /\ ledger'[row].refund = ledger[row].refund /\ ledger'[row].status = s
      BY <2>1, <2>3, <3>1 DEF ReopenRow, WriteLedgerOnly, LedgerTyped, RowsTyped, LedgerRow
    <3>3. ledger'[row].refund \in Live(refunds) => s \in COMMITTED_ORDER_REFUND_STATUSES
      BY <1>5, <1>6, <1>7, <3>1, <3>2 DEF StripeStatus, COMMITTED_ORDER_REFUND_STATUSES
    <3> QED BY <1>1, <3>1, <3>2, <3>3, RowStillCounts
  <2>4. CASE BookRefund(w) /\ ledger' # ledger
    <3>1. PICK new :
            /\ row \notin DOMAIN ledger /\ ledger' = Put(ledger, row, new)
            /\ new = [status |-> s, linked |-> FALSE, refund |-> IF s = "succeeded" THEN i ELSE 0]
      BY <2>4 DEF BookRefund, WriteLedgerOnly
    <3>2. /\ DOMAIN ledger' = DOMAIN ledger \cup {row} /\ ledger'[row] = new
          /\ \A x \in DOMAIN ledger : ledger'[x] = ledger[x]
      BY <3>1 DEF Put
    <3>3. new.status = s /\ (s # "succeeded" => new.refund = 0) BY <3>1
    <3>4. ledger'[row].refund \in Live(refunds) =>
            ledger'[row].status \in COMMITTED_ORDER_REFUND_STATUSES
      BY <1>7, <3>2, <3>3 DEF COMMITTED_ORDER_REFUND_STATUSES
    <3> QED BY <1>1, <3>1, <3>2, <3>4, RowStillCounts
  <2>5. CASE ApplySucceeded(w) /\ MarkSucceeded(job[w])
    <3>1. row \in DOMAIN ledger /\ ledger[row].refund \in {0, i}
      BY <2>5, RowIsItsOwn DEF ApplySucceeded, At
    <3>2. ledger' = [ledger EXCEPT ![row].status = "succeeded", ![row].refund = i]
      BY <2>5 DEF MarkSucceeded, WriteLedger, WriteLedgerOnly
    <3>3. ledger[row] \in LedgerRow BY <2>1, <3>1 DEF LedgerTyped, RowsTyped
    <3>4. /\ DOMAIN ledger' = DOMAIN ledger
          /\ \A x \in DOMAIN ledger \ {row} : ledger'[x] = ledger[x]
          /\ ledger'[row].status = "succeeded" /\ ledger'[row].refund = i
      BY <3>1, <3>2, <3>3 DEF LedgerRow
    <3>5. "succeeded" \in COMMITTED_ORDER_REFUND_STATUSES BY DEF COMMITTED_ORDER_REFUND_STATUSES
    <3> QED BY <1>1, <3>1, <3>4, <3>5, RowStillCounts
  <2> QED BY <2>2, <2>3, <2>4, <2>5 DEF BookRefund, ApplySucceeded
<1> QED BY <1>1, <1>2, <1>4, <1>8, <1>9, HookStepCounts

\* Only a delivery's process may die.
LEMMA CrashCounts ==
  ASSUME Immortal, Typing, Backing, Booking, Counting, NEW w \in Worker, Crash(w)
  PROVE  Counting'
<1>1. UNCHANGED <<attempt, ledger, refunds, inbox>> BY DEF Crash, database, stripe
<1>2. Typing' BY EndTyped
<1>3. FailuresStay BY <1>1 DEF FailuresStay, Failed
<1>4. RowsStillCount BY <1>1, <1>2, <1>3, LedgerStillCounts
<1>5. job[w].pc \notin DeskPc BY DEF Crash, Immortal, Booking, InTime
<1>6. OthersWait(w) /\ job'[w].pc = "idle" BY JobMoves, TypingParts DEF Crash
<1> QED BY <1>1, <1>2, <1>4, <1>5, <1>6, HookStepCounts

-----------------------------------------------------------------------------
(* The theorems on what is counted.                                        *)

\* Stripe's own steps answer nothing; a refund that fails is one less.
LEMMA StripeCounts ==
  ASSUME Typing, Typing', Backing, Counting, UNCHANGED <<attempt, ledger, job>>,
         RefundsKeep, FailuresStay, FailuresAreTold'
  PROVE  Counting'
<1>1. RowsStillCount BY LedgerStillCounts
<1>2. \A i \in DOMAIN refunds' : Answered(i)' => i \in DOMAIN refunds /\ Answered(i)
  <2> SUFFICES ASSUME NEW i \in DOMAIN refunds', Answered(i)'
               PROVE  i \in DOMAIN refunds /\ Answered(i)
    OBVIOUS
  <2>1. Answered(i) BY DEF Answered, At
  <2>2. i # 0 BY OfIsNext DEF OfCounts
  <2>3. i \in DOMAIN refunds
    BY <2>1, <2>2 DEF Answered, At, Counting, AttemptsAreCounted, Backing, Carries, Backs
  <2> QED BY <2>1, <2>3
<1>3. NoMoreIsAnswered BY <1>2, NothingIsAnswered
<1>4. AttemptsAreCounted'
  BY DEF Counting, AttemptsAreCounted, IsCounted, Holds, At, RefundsKeep
<1>5. ASSUME NEW u \in Worker PROVE HasRow(job[u])' /\ LeavesRoom(job[u])'
  <2> PICK k : k = job[u] OBVIOUS
  <2>1. JobIsTyped(k) BY TypingParts DEF JobsTyped
  <2>2. HasRow(k)' /\ LeavesRoom(k)' BY <1>1, <1>3, <2>1, JobStillCounts DEF Counting
  <2> QED BY <2>2 DEF HasRow, LeavesRoom
<1>6. ASSUME NEW v \in VendorOrder PROVE StripeCents(refunds, Of(v))' <= Total[v]
  <2>1. StripeCents(refunds, Of(v)) \in Nat /\ StripeCents(refunds, Of(v))' \in Nat
    BY OfIs, OfIsNext DEF OfCounts
  <2>2. StripeCents(refunds, Of(v))' <= StripeCents(refunds, Of(v)) BY <1>3 DEF NoMoreIsAnswered
  <2>3. StripeCents(refunds, Of(v)) <= Total[v] BY DEF Counting
  <2>4. Total[v] \in Nat BY RefundAssumption
  <2> QED BY <2>1, <2>2, <2>3, <2>4
<1> QED BY <1>1, <1>4, <1>5, <1>6 DEF Counting, RowsStillCount

\* A refund in the dashboard, one that settles, and nothing at all.
LEMMA StripeStepCounts ==
  ASSUME Typing, Typing', Backing, Counting, DashboardRefund \/ RefundSettles \/ UNCHANGED vars
  PROVE  Counting'
<1>1. UNCHANGED <<attempt, ledger, job>>
  BY DEF DashboardRefund, RefundSettles, vars, database, stripe
<1>2. \A v \in Worker : job[v].pc \in HookPc => job[v].refund \in DOMAIN refunds
  BY DEF Backing, Carries, Backs, HookPc
<1>3. \A v \in Worker : job[v].pc \in HookPc /\ job[v].status = "failed" => Failed(job[v].refund)
  BY DEF Counting, FailuresAreTold
<1>4. \A e \in Event : inbox[e] # "none" => e.refund \in DOMAIN refunds BY DEF Backing
<1>5. RefundsKeep /\ FailuresStay
      /\ \A e \in Event : inbox'[e] # "none" /\ e.status = "failed" =>
           inbox[e] # "none" \/ refunds'[e.refund].status = "failed"
  <2>1. CASE DashboardRefund
    <3>1. PICK r \in Request, status \in Initially : NewRefund(r, status)
      BY <2>1 DEF DashboardRefund
    <3>2. status # "failed" BY <3>1 DEF Initially
    <3> DEFINE new == [vo |-> r.vo, amount |-> r.amount, status |-> status]
    <3>3. refunds' = Append(refunds, new) /\ inbox' = Announce(inbox, Len(refunds) + 1, status)
      BY <3>1 DEF NewRefund
    <3>4. \A y \in DOMAIN refunds : refunds'[y] = refunds[y]
      BY <3>3, AppendKeeps DEF Backing
    <3>5. \A e \in Event : inbox'[e] # "none" /\ e.status = "failed" => inbox[e] # "none"
      BY <3>2, <3>3 DEF Announce
    <3>6. RefundsKeep BY <3>1, NewRefundKeeps
    <3>7. FailuresStay BY <3>4 DEF FailuresStay, Failed
    <3> QED BY <3>5, <3>6, <3>7
  <2>2. CASE RefundSettles
    <3>1. PICK i \in DOMAIN refunds, status \in {"succeeded", "failed"} :
            /\ refunds[i].status = "pending"
            /\ refunds' = [refunds EXCEPT ![i].status = status]
            /\ inbox' = Announce(inbox, i, status)
      BY <2>2 DEF RefundSettles
    <3>2. IsSequence(refunds') BY <3>1, ReplaceKeeps DEF Backing
    <3>3. RefundsKeep BY <3>1, <3>2 DEF Backing, RefundsKeep, RefundFields
    <3>4. refunds'[i].status = status /\ \A y \in DOMAIN refunds : y # i => refunds'[y] = refunds[y]
      BY <3>1 DEF Backing, RefundFields
    <3>5. FailuresStay BY <3>1, <3>4 DEF FailuresStay, Failed
    <3>6. \A e \in Event : inbox'[e] # "none" =>
            inbox[e] # "none" \/ (e.refund = i /\ e.status = status)
      BY <3>1 DEF Announce
    <3> QED BY <3>3, <3>4, <3>5, <3>6
  <2>3. CASE UNCHANGED vars
    <3>1. UNCHANGED <<refunds, inbox>> BY <2>3 DEF vars, stripe
    <3> QED BY <3>1, StripeKeeps DEF FailuresStay, Failed
  <2> QED BY <2>1, <2>2, <2>3
<1>6. FailuresAreTold'
  <2>1. \A v \in Worker : job'[v].pc \in HookPc /\ job'[v].status = "failed" =>
          refunds'[job'[v].refund].status = "failed"
    BY <1>1, <1>2, <1>3, <1>5 DEF FailuresStay, Failed
  <2>2. \A e \in Event : inbox'[e] # "none" /\ e.status = "failed" =>
          refunds'[e.refund].status = "failed"
    BY <1>4, <1>5 DEF FailuresStay, Failed, Counting, FailuresAreTold
  <2> QED BY <2>1, <2>2 DEF FailuresAreTold, Failed
<1> QED BY <1>1, <1>5, <1>6, StripeCounts

\* The base case.
LEMMA InitCounts == Init => Counting
<1> SUFFICES ASSUME Init PROVE Counting OBVIOUS
<1>1. refunds = <<>> /\ DOMAIN refunds = {} BY EmptySeq DEF Init
<1>2. DOMAIN ledger = {} /\ DOMAIN attempt = {} /\ \A e \in Event : inbox[e] = "none" BY DEF Init
<1>3. \A w \in Worker : job[w].pc = "idle" BY DEF Init, Idle
<1>4. IsFiniteSet(DOMAIN ledger) BY <1>2, FS_EmptySet
<1>5. \A w \in Worker : HasRow(job[w]) /\ LeavesRoom(job[w]) BY <1>3 DEF HasRow, LeavesRoom
<1>6. ASSUME NEW v \in VendorOrder PROVE StripeCents(refunds, Of(v)) <= Total[v]
  <2>1. Of(v) = {} BY <1>1 DEF Of, Live
  <2>2. StripeCents(refunds, {}) = 0
    <3>1. IsFiniteSet({}) BY FS_EmptySet
    <3>2. /\ Amounts(refunds, {}) \in [{} -> Nat]
          /\ StripeCents(refunds, {}) = SumOf(Amounts(refunds, {}), {})
      BY <3>1, StripeCentsIsSum
    <3> PICK h : h = Amounts(refunds, {}) OBVIOUS
    <3>3. SumOf(h, {}) = 0 BY <3>2, SumOfNone
    <3> QED BY <3>2, <3>3
  <2>3. StripeCents(refunds, Of(v)) = 0 BY <2>1, <2>2
  <2>4. Total[v] \in Nat BY RefundAssumption
  <2> QED BY <2>3, <2>4
<1> QED BY <1>2, <1>3, <1>4, <1>5, <1>6
     DEF Counting, AttemptsAreCounted, RowsCount, FailuresAreTold, HookPc

\* The step, by action.
LEMMA NextKeepsCounting ==
  ASSUME OneDesk, Immortal, Typing, Backing, Booking, Counting, [Next]_vars
  PROVE  Counting'
<1>1. ASSUME NEW w \in Worker, Refund(w) PROVE Counting'
  BY <1>1, AsksCount, AttemptWritesCount, RowWritesCount, AnswerCounts, RefusalCounts,
     StoreCounts, MarkCounts
     DEF Refund
<1>2. ASSUME NEW w \in Worker, Dismissal(w) PROVE Counting'
  BY <1>2, AsksCount, AttemptWritesCount, RowWritesCount DEF Dismissal
<1>3. ASSUME NEW w \in Worker, Webhook(w) PROVE Counting'
  BY <1>3, EventCounts, DeliveryWritesCount DEF Webhook
<1>4. ASSUME NEW w \in Worker, Crash(w) PROVE Counting' BY <1>4, CrashCounts
<1>5. CASE DashboardRefund \/ RefundSettles \/ UNCHANGED vars
  BY <1>5, NextKeepsTyping, StripeStepCounts
<1> QED BY <1>1, <1>2, <1>3, <1>4, <1>5 DEF Next

\* With one desk that does not die, whatever is lost, refused or repeated, and however many
\* deliveries run and die beside it: Counting holds.
THEOREM CountingHolds == OneDesk /\ Immortal => (Spec => []Counting)
<1> SUFFICES ASSUME OneDesk, Immortal PROVE Spec => []Counting OBVIOUS
<1>1. Init => Typing /\ Backing /\ Booking /\ Counting
  BY InitIsTyped, InitIsBacked, InitBooks, InitCounts
<1>2. (Typing /\ Backing /\ Booking /\ Counting) /\ [Next]_vars =>
        (Typing /\ Backing /\ Booking /\ Counting)'
  BY NextKeepsTyping, NextKeepsBacking, NextKeepsBooking, NextKeepsCounting
<1> QED BY <1>1, <1>2, PTL DEF Spec

\* So no vendor order whose answers all arrived is refunded beyond its total.
THEOREM CapsHold == OneDesk /\ Immortal => (Spec => []WithinCaps)
<1> SUFFICES ASSUME OneDesk, Immortal PROVE Spec => []WithinCaps OBVIOUS
<1>1. Counting => WithinCaps
  <2> SUFFICES ASSUME Counting, NEW v \in VendorOrder,
                      \A i \in {x \in Live(refunds) : refunds[x].vo = v} : Answered(i)
               PROVE  StripeCents(refunds, {x \in Live(refunds) : refunds[x].vo = v}) <= Total[v]
    BY DEF WithinCaps
  <2>1. {x \in Live(refunds) : refunds[x].vo = v} = Of(v) BY DEF Of
  <2> QED BY <2>1 DEF Counting
<1>2. Spec => []Counting BY CountingHolds
<1> QED BY <1>1, <1>2, PTL

=============================================================================
