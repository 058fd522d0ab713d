--------------------------- MODULE CheckoutProofs ---------------------------
(***************************************************************************)
(* For any number of workers, guests, items, forms and faults: a paid      *)
(* order was charged (PaidIsCharged, from the inductive Charged), and the  *)
(* state is typed (TypeOK, from Typing, which counts what is under way     *)
(* against the bounds).  With one worker (Alone): what a job read of the   *)
(* session is still so, group orders have the lines their forms showed,    *)
(* and orders are apart, hence the properties of the ordering run.         *)
(***************************************************************************)
EXTENDS CheckoutProperties, FiniteSetTheorems, TLAPS

-----------------------------------------------------------------------------
(* What a step does to jobs, orders and intents.                           *)

\* The worker's job moves on, and is not about to record a payment or to settle an order;
\* the other jobs stay.
Moves(w) ==
  /\ DOMAIN job' = Worker
  /\ DOMAIN job'[w] = JobFields
  /\ job'[w].pc \notin {"record", "settle"}
  /\ \A v \in Worker \ {w} : job'[v] = job[v]

\* Orders have their fields, and no order gets paid.
OrdersKeep ==
  \A f \in DOMAIN orders' :
    /\ DOMAIN orders'[f] = OrderFields
    /\ orders'[f].status = "paid" => f \in DOMAIN orders /\ orders[f].status = "paid"

\* Intents stay what they are about, and those that succeeded stay so.
IntentsKeep ==
  /\ IsSequence(intents') /\ \A i \in DOMAIN intents' : DOMAIN intents'[i] = IntentFields
  /\ \A i \in DOMAIN intents :
       /\ i \in DOMAIN intents' /\ intents'[i].order = intents[i].order
       /\ intents[i].status = "succeeded" => intents'[i].status = "succeeded"

\* A step of a job that neither records nor settles.
Quiet(w) == Moves(w) /\ OrdersKeep /\ IntentsKeep

\* What stays keeps.
LEMMA MoneyKeeps ==
  ASSUME Charged
  PROVE  /\ UNCHANGED orders => OrdersKeep
         /\ UNCHANGED intents => IntentsKeep
BY DEF Charged, OrdersKeep, IntentsKeep

\* The ways a job moves.
LEMMA StopMoves ==
  ASSUME Charged, NEW w \in Worker, Stop(w)
  PROVE  Moves(w)
BY DEF Charged, Stop, Idle, Moves, JobFields

\* A job that goes on.
LEMMA GotoMoves ==
  ASSUME Charged, NEW w \in Worker, NEW pc, pc \notin {"record", "settle"}, Goto(w, pc)
  PROVE  Moves(w)
BY DEF Charged, Goto, Moves, JobFields

\* A job that starts.
LEMMA BeginMoves ==
  ASSUME Charged, NEW w \in Worker, NEW j, Begin(w, j),
         DOMAIN j = JobFields, j.pc \notin {"record", "settle"}
  PROVE  Moves(w)
BY DEF Charged, Begin, Moves

\* Changes of the cart concern neither orders nor intents.
LEMMA EditIsQuiet ==
  ASSUME Charged, NEW w \in Worker, Edit(w)
  PROVE  Quiet(w)
<1>1. UNCHANGED money
  BY DEF Edit, AskAdd, MatchLine, WriteLine, AskSet, SetLine, AskClear, EmptyLines
<1>2. Moves(w)
  <2>1. CASE AskAdd(w) BY <2>1 DEF Charged, AskAdd, Begin, Idle, Moves, JobFields
  <2>2. CASE MatchLine(w)
    <3>1. CASE Stop(w) BY <3>1, StopMoves
    <3>2. CASE Goto(w, "write") BY <3>2, GotoMoves
    <3>3. CASE \E l \in Matching(job[w].item) :
                 job' = [job EXCEPT ![w].pc = "write", ![w].line = l, ![w].quantity = cart[l].quantity]
      BY <3>3 DEF Charged, Moves, JobFields
    <3> QED BY <2>2, <3>1, <3>2, <3>3 DEF MatchLine
  <2>3. CASE WriteLine(w) \/ SetLine(w) \/ EmptyLines(w)
    BY <2>3, StopMoves DEF WriteLine, SetLine, EmptyLines
  <2>4. CASE AskSet(w) BY <2>4 DEF Charged, AskSet, Begin, Idle, Moves, JobFields
  <2>5. CASE AskClear(w) BY <2>5 DEF Charged, AskClear, Begin, Idle, Moves, JobFields
  <2> QED BY <2>1, <2>2, <2>3, <2>4, <2>5 DEF Edit
<1> QED BY <1>1, <1>2, MoneyKeeps DEF Quiet, money

\* Nor do the requests of the group order.
LEMMA GroupOrderIsQuiet ==
  ASSUME Charged, NEW w \in Worker, GroupOrder(w)
  PROVE  Quiet(w)
<1>1. UNCHANGED money
  BY DEF GroupOrder, Join, Leave, AskStart, StartSession, AskUnlock, Unlock, AskEnd, EndSession,
         AskExpire, Expire
<1>2. Moves(w)
  <2>1. CASE Join(w) \/ Leave(w) BY <2>1 DEF Charged, Join, Leave, At, Moves
  <2>2. CASE AskStart(w) \/ AskUnlock(w) \/ AskEnd(w) \/ AskExpire(w)
    <3>1. \E pc \in {"start", "unlock", "end", "expire"} :
            \/ Begin(w, [Idle EXCEPT !.pc = pc])
            \/ Begin(w, [Idle EXCEPT !.pc = pc, !.seen = session.status])
      BY <2>2 DEF AskStart, AskUnlock, AskEnd, AskExpire
    <3> QED BY <3>1, BeginMoves DEF Idle, JobFields
  <2>3. CASE StartSession(w) \/ Unlock(w) \/ EndSession(w) \/ Expire(w)
    BY <2>3, StopMoves DEF StartSession, Unlock, EndSession, Expire
  <2> QED BY <2>1, <2>2, <2>3 DEF GroupOrder
<1> QED BY <1>1, <1>2, MoneyKeeps DEF Quiet, money

-----------------------------------------------------------------------------
(* The checkout.                                                           *)

\* The page writes nothing but the lock and the form.
LEMMA PageIsQuiet ==
  ASSUME Charged, NEW w \in Worker, AskForm(w) \/ LockCart(w) \/ TakePrint(w) \/ ShowForm(w)
  PROVE  Quiet(w)
<1>1. UNCHANGED money BY DEF AskForm, LockCart, TakePrint, ShowForm
<1>2. Moves(w)
  <2>1. CASE AskForm(w) BY <2>1 DEF Charged, AskForm, Begin, Idle, Moves, JobFields
  <2>2. CASE LockCart(w)
    <3>1. Stop(w) \/ Goto(w, "print") BY <2>2 DEF LockCart
    <3> QED BY <3>1, StopMoves, GotoMoves
  <2>3. CASE TakePrint(w) BY <2>3 DEF Charged, TakePrint, Moves, JobFields
  <2>4. CASE ShowForm(w) BY <2>4, StopMoves DEF ShowForm
  <2> QED BY <2>1, <2>2, <2>3, <2>4
<1> QED BY <1>1, <1>2, MoneyKeeps DEF Quiet, money

\* A new order waits for payment, an abandoned one failed: no order gets paid here.
LEMMA SubmissionIsQuiet ==
  ASSUME Charged, NEW w \in Worker,
         SubmitForm(w) \/ MatchPrint(w) \/ ReadCart(w) \/ AbandonOrder(w) \/ CreateOrder(w)
  PROVE  Quiet(w)
<1>1. CASE SubmitForm(w)
  <2>1. \E pc \in {"intent", "read", "match"} : \E f :
          Begin(w, [Idle EXCEPT !.form = f, !.order = f, !.seen = session.status, !.pc = pc])
    BY <1>1 DEF SubmitForm
  <2>2. Moves(w) BY <2>1, BeginMoves DEF Idle, JobFields
  <2> QED BY <1>1, <2>2, MoneyKeeps DEF SubmitForm, Quiet, money
<1>2. CASE MatchPrint(w)
  <2>1. Goto(w, "read") \/ Stop(w) BY <1>2 DEF MatchPrint
  <2>2. Moves(w) BY <2>1, StopMoves, GotoMoves
  <2> QED BY <1>2, <2>2, MoneyKeeps DEF MatchPrint, Quiet, money
<1>3. CASE ReadCart(w)
  <2>1. \/ Stop(w)
        \/ \E pc \in {"abandon", "intent", "create"} : \E f, goesOn :
             job' = [job EXCEPT ![w].pc = pc, ![w].order = f, ![w].flag = goesOn,
                                ![w].print.lines = cart]
    BY <1>3 DEF ReadCart
  <2>2. ASSUME NEW pc \in {"abandon", "intent", "create"}, NEW f, NEW goesOn,
               job' = [job EXCEPT ![w].pc = pc, ![w].order = f, ![w].flag = goesOn,
                                  ![w].print.lines = cart]
        PROVE  Moves(w)
    <3>1. /\ DOMAIN job' = Worker
          /\ \A v \in Worker \ {w} : job'[v] = job[v]
      BY <2>2 DEF Charged
    <3>2. job'[w] = [job[w] EXCEPT !.pc = pc, !.order = f, !.flag = goesOn,
                                   !.print.lines = cart]
      BY <2>2 DEF Charged
    <3>3. DOMAIN job'[w] = JobFields /\ job'[w].pc = pc BY <3>2 DEF Charged, JobFields
    <3> QED BY <3>1, <3>3 DEF Moves
  <2>3. Moves(w) BY <2>1, <2>2, StopMoves
  <2> QED BY <1>3, <2>3, MoneyKeeps DEF ReadCart, Quiet, money
<1>4. CASE AbandonOrder(w)
  <2>1. Goto(w, "create") \/ Stop(w) BY <1>4 DEF AbandonOrder
  <2>2. Moves(w) BY <2>1, StopMoves, GotoMoves
  <2>3. OrdersKeep BY <1>4 DEF Charged, AbandonOrder, OrdersKeep, OrderFields
  <2> QED BY <1>4, <2>2, <2>3, MoneyKeeps DEF AbandonOrder, Quiet
<1>5. CASE CreateOrder(w)
  <2>1. Moves(w)
    <3>1. \/ Stop(w)
          \/ job' = [job EXCEPT ![w].pc = "intent", ![w].order = job[w].form]
      BY <1>5 DEF CreateOrder
    <3> QED BY <3>1, StopMoves DEF Charged, Moves, JobFields
  <2>2. OrdersKeep BY <1>5 DEF Charged, CreateOrder, Put, OrdersKeep, OrderFields
  <2> QED BY <1>5, <2>1, <2>2, MoneyKeeps DEF CreateOrder, Quiet
<1> QED BY <1>1, <1>2, <1>3, <1>4, <1>5

\* Showing an intent to the customer keeps them all.
LEMMA AnswerKeeps ==
  ASSUME Charged, NEW i, Answer(i)
  PROVE  IntentsKeep
<1>1. IsSequence(intents') BY ReplaceKeeps DEF Charged, Answer
<1> QED BY <1>1 DEF Charged, Answer, IntentsKeep, IntentFields

\* An intent that succeeded is not cancelled, and a new one comes after the others.
LEMMA IntentIsQuiet ==
  ASSUME Charged, NEW w \in Worker,
         Resume(w) \/ ReadOrder(w) \/ CancelIntent(w) \/ MakeIntent(w) \/ StoreIntent(w)
  PROVE  Quiet(w)
<1>1. CASE Resume(w)
  <2>1. Moves(w) BY <1>1 DEF Charged, Resume, Begin, Idle, Moves, JobFields
  <2> QED BY <1>1, <2>1, MoneyKeeps DEF Resume, Quiet, money
<1>2. CASE ReadOrder(w)
  <2>1. \/ Stop(w)
        \/ \E pc \in {"make", "cancel"} : \E i, replaces :
             job' = [job EXCEPT ![w].pc = pc, ![w].intent = i, ![w].flag = replaces]
    BY <1>2 DEF ReadOrder
  <2>2. Moves(w) BY <2>1, StopMoves DEF Charged, Moves, JobFields
  <2>3. IntentsKeep BY <1>2, AnswerKeeps, MoneyKeeps DEF ReadOrder
  <2> QED BY <1>2, <2>2, <2>3, MoneyKeeps DEF ReadOrder, Quiet
<1>3. CASE CancelIntent(w)
  <2>1. Moves(w) BY <1>3, GotoMoves DEF CancelIntent
  <2>2. IntentsKeep
    <3>1. CASE /\ intents[job[w].intent].status = "open"
               /\ intents' = [intents EXCEPT ![job[w].intent].status = "canceled"]
      <4>1. IsSequence(intents') BY <3>1, ReplaceKeeps DEF Charged
      <4> QED BY <3>1, <4>1 DEF Charged, IntentsKeep, IntentFields
    <3> QED BY <1>3, <3>1, MoneyKeeps DEF CancelIntent
  <2> QED BY <1>3, <2>1, <2>2, MoneyKeeps DEF CancelIntent, Quiet
<1>4. CASE MakeIntent(w)
  <2>1. \/ Stop(w)
        \/ \E i : job' = [job EXCEPT ![w].pc = "store", ![w].intent = i]
    BY <1>4 DEF MakeIntent
  <2>2. Moves(w) BY <2>1, StopMoves DEF Charged, Moves, JobFields
  <2>3. IntentsKeep
    <3>1. CASE UNCHANGED intents BY <3>1, MoneyKeeps
    <3>2. CASE \E e : DOMAIN e = IntentFields /\ intents' = Append(intents, e)
      BY <3>2, AppendKeeps DEF Charged, IntentsKeep
    <3> QED BY <1>4, <3>1, <3>2 DEF MakeIntent, IntentFields
  <2> QED BY <1>4, <2>2, <2>3, MoneyKeeps DEF MakeIntent, Quiet
<1>5. CASE StoreIntent(w)
  <2>1. Moves(w) BY <1>5, StopMoves DEF StoreIntent
  <2>2. IntentsKeep BY <1>5, AnswerKeeps DEF StoreIntent
  <2>3. OrdersKeep BY <1>5 DEF Charged, StoreIntent, OrdersKeep, OrderFields
  <2> QED BY <2>1, <2>2, <2>3 DEF Quiet
<1> QED BY <1>1, <1>2, <1>3, <1>4, <1>5

-----------------------------------------------------------------------------
(* The payment.                                                            *)

\* After an order was settled, nothing but its link to the cart changes.
LEMMA ClearingIsQuiet ==
  ASSUME Charged, NEW w \in Worker,
         ReadSourceCart(w) \/ WipeCart(w) \/ UnlinkCart(w)
  PROVE  Quiet(w)
<1>1. CASE ReadSourceCart(w)
  <2>1. Goto(w, "wipe") \/ Stop(w) BY <1>1 DEF ReadSourceCart
  <2>2. Moves(w) BY <2>1, StopMoves, GotoMoves
  <2> QED BY <1>1, <2>2, MoneyKeeps DEF ReadSourceCart, Quiet, money
<1>2. CASE WipeCart(w)
  <2>1. Moves(w) BY <1>2, GotoMoves DEF WipeCart
  <2> QED BY <1>2, <2>1, MoneyKeeps DEF WipeCart, Quiet, money
<1>3. CASE UnlinkCart(w)
  <2>1. Moves(w) BY <1>3, StopMoves DEF UnlinkCart
  <2>2. OrdersKeep BY <1>3 DEF Charged, UnlinkCart, OrdersKeep, OrderFields
  <2> QED BY <1>3, <2>1, <2>2, MoneyKeeps DEF UnlinkCart, Quiet
<1> QED BY <1>1, <1>2, <1>3

\* A quiet step keeps Charged: the others' intents still succeeded, and so did those of the
\* paid orders.
LEMMA QuietKeeps ==
  ASSUME Charged, NEW w \in Worker, Quiet(w)
  PROVE  Charged'
<1>1. \A v \in Worker : job'[v].pc \in {"record", "settle"} =>
        v # w /\ job'[v] = job[v] /\ Charges(job[v], job[v].intent)
  BY DEF Charged, Quiet, Moves
<1>2. \A v \in Worker : job'[v].pc \in {"record", "settle"} => Charges(job[v], job[v].intent)'
  BY <1>1 DEF Charges, Quiet, IntentsKeep
<1>3. PaidIsCharged'
  BY DEF Charged, Quiet, OrdersKeep, IntentsKeep, PaidIsCharged, Paid
<1>4. \A v \in Worker : DOMAIN job'[v] = JobFields BY DEF Charged, Quiet, Moves
<1> QED BY <1>2, <1>3, <1>4 DEF Charged, Quiet, Moves, OrdersKeep, IntentsKeep

\* Only an intent that succeeded takes a job to the records.
LEMMA ReceiveKeeps ==
  ASSUME Charged, NEW w \in Worker, NEW i \in DOMAIN intents, ReceivePayment(w, i)
  PROVE  Charged'
<1> DEFINE j == [Idle EXCEPT !.order = intents[i].order, !.intent = i,
                   !.pc = IF orders[intents[i].order].status = "pending_payment"
                          THEN "record" ELSE "clear"]
<1>1. Begin(w, j) /\ UNCHANGED money /\ intents[i].status = "succeeded" BY DEF ReceivePayment
<1>2. DOMAIN j = JobFields /\ j.order = intents[i].order /\ j.intent = i
  BY DEF Idle, JobFields
<1> HIDE DEF j
<1>3. Charges(j, j.intent) BY <1>1, <1>2 DEF Charges
<1>4. \A v \in Worker : job'[v] = IF v = w THEN j ELSE job[v] BY <1>1 DEF Begin, Charged
<1>5. \A v \in Worker : job'[v].pc \in {"record", "settle"} => Charges(job[v], job[v].intent)'
  BY <1>1, <1>3, <1>4 DEF Charged, Charges, money
<1>6. DOMAIN job' = Worker /\ \A v \in Worker : DOMAIN job'[v] = JobFields
  BY <1>1, <1>2, <1>4 DEF Begin, Charged
<1> QED BY <1>1, <1>5, <1>6 DEF Charged, PaidIsCharged, Paid, money, IsSequence

\* Recording goes on to settle the same order with the same intent.
LEMMA RecordKeeps ==
  ASSUME Charged, NEW w \in Worker, RecordPayment(w)
  PROVE  Charged'
<1>1. Goto(w, "settle") /\ At(w, "record") /\ UNCHANGED <<orders, intents>> BY DEF RecordPayment
<1>2. \A v \in Worker : v # w => job'[v] = job[v] BY <1>1 DEF Goto, Charged
<1>3. /\ DOMAIN job' = Worker /\ \A v \in Worker : DOMAIN job'[v] = JobFields
      /\ job'[w].order = job[w].order /\ job'[w].intent = job[w].intent
  BY <1>1, <1>2 DEF Goto, Charged, JobFields
<1>4. \A v \in Worker : job'[v].pc \in {"record", "settle"} => Charges(job[v], job[v].intent)'
  BY <1>1, <1>2, <1>3 DEF Charged, Charges, At
<1> QED BY <1>1, <1>3, <1>4 DEF Charged, PaidIsCharged, Paid, IsSequence

\* The order that gets paid is the one of the intent.
LEMMA SettleKeeps ==
  ASSUME Charged, NEW w \in Worker, SettleOrder(w)
  PROVE  Charged'
<1>1. /\ Goto(w, "clear") /\ At(w, "settle") /\ UNCHANGED intents
      /\ orders' = [orders EXCEPT ![job[w].order].status = "paid"]
  BY DEF SettleOrder
<1>2. Moves(w) BY <1>1, GotoMoves
<1>3. \A v \in Worker : job'[v].pc \in {"record", "settle"} => Charges(job[v], job[v].intent)'
  BY <1>1, <1>2 DEF Moves, Charged, Charges
<1>4. \A f \in DOMAIN orders' : DOMAIN orders'[f] = OrderFields
  BY <1>1 DEF Charged, OrderFields
<1>5. PaidIsCharged'
  <2>1. \A f \in Paid' : f \in Paid \/ f = job[w].order BY <1>1 DEF Paid
  <2>2. Charges(job[w], job[w].intent) BY <1>1 DEF Charged, At
  <2> QED BY <1>1, <2>1, <2>2 DEF Charged, PaidIsCharged, Charges
<1> QED BY <1>1, <1>2, <1>3, <1>4, <1>5 DEF Moves, Charged, IsSequence

\* The customer pays.
LEMMA PayKeeps ==
  ASSUME Charged, Pay
  PROVE  Charged'
<1>1. PICK i \in DOMAIN intents : intents' = [intents EXCEPT ![i].status = "succeeded"]
  BY DEF Pay
<1>2. UNCHANGED <<orders, job>> BY DEF Pay
<1>3. IntentsKeep
  <2>1. IsSequence(intents') BY <1>1, ReplaceKeeps DEF Charged
  <2> QED BY <1>1, <2>1 DEF Charged, IntentsKeep, IntentFields
<1>4. \A v \in Worker : job'[v].pc \in {"record", "settle"} => Charges(job[v], job[v].intent)'
  BY <1>2, <1>3 DEF Charged, Charges, IntentsKeep
<1>5. PaidIsCharged' BY <1>2, <1>3 DEF Charged, PaidIsCharged, Paid, IntentsKeep
<1> QED BY <1>2, <1>3, <1>4, <1>5 DEF Charged, IntentsKeep

-----------------------------------------------------------------------------
(* The theorems.                                                           *)

\* The base case.
LEMMA InitIsCharged == Init => Charged
<1> SUFFICES ASSUME Init PROVE Charged OBVIOUS
<1>1. IsSequence(intents) BY EmptySeq DEF Init, IsSequence
<1>2. DOMAIN intents = {} BY DEF Init
<1>3. DOMAIN orders = {} BY DEF Init
<1>4. DOMAIN job = Worker /\ \A w \in Worker : job[w] = Idle BY DEF Init
<1>5. DOMAIN Idle = JobFields /\ Idle.pc = "idle" BY DEF Idle, JobFields
<1> QED BY <1>1, <1>2, <1>3, <1>4, <1>5 DEF Charged, PaidIsCharged, Paid

\* The step, by worker and by action.
LEMMA NextKeepsCharged == Charged /\ [Next]_vars => Charged'
<1> SUFFICES ASSUME Charged, [Next]_vars PROVE Charged' OBVIOUS
<1>1. ASSUME NEW w \in Worker, Step(w) PROVE Charged'
  <2>1. CASE Edit(w) \/ GroupOrder(w) BY <2>1, EditIsQuiet, GroupOrderIsQuiet, QuietKeeps
  <2>2. CASE CheckOut(w)
    BY <2>2, PageIsQuiet, SubmissionIsQuiet, IntentIsQuiet, QuietKeeps DEF CheckOut
  <2>3. CASE Payment(w)
    <3>1. CASE \E i \in DOMAIN intents : ReceivePayment(w, i) BY <3>1, ReceiveKeeps
    <3>2. CASE RecordPayment(w) BY <3>2, RecordKeeps
    <3>3. CASE SettleOrder(w) BY <3>3, SettleKeeps
    <3>4. CASE ReadSourceCart(w) \/ WipeCart(w) \/ UnlinkCart(w)
      BY <3>4, ClearingIsQuiet, QuietKeeps
    <3> QED BY <2>3, <3>1, <3>2, <3>3, <3>4 DEF Payment
  <2> QED BY <1>1, <2>1, <2>2, <2>3 DEF Step
<1>2. CASE Deadline
  BY <1>2 DEF Deadline, money, Charged, Charges, PaidIsCharged, Paid, IsSequence
<1>3. CASE Pay BY <1>3, PayKeeps
<1>4. CASE UNCHANGED vars
  BY <1>4 DEF vars, money, Charged, Charges, PaidIsCharged, Paid, IsSequence
<1> QED BY <1>1, <1>2, <1>3, <1>4 DEF Next

\* Jobs that record a payment or settle an order hold the intent that succeeded, whatever
\* the requests, the faults and the number of workers (processSuccessfulPayment).
THEOREM ChargedHolds == Spec => []Charged
BY InitIsCharged, NextKeepsCharged, PTL DEF Spec

\* An order is paid only when an intent of its own succeeded.
THEOREM PaidOrdersAreCharged == Spec => []PaidIsCharged
<1>1. Charged => PaidIsCharged BY DEF Charged
<1> QED BY <1>1, ChargedHolds, PTL

-----------------------------------------------------------------------------
(* The types, and the bounds they name.                                    *)

BasketTyped  == session \in Session /\ writes \in Nat /\ cart \in Cart
FormsTyped   == IsSequence(forms)
OrdersTyped  == DOMAIN orders \subseteq DOMAIN forms /\ orders \in [DOMAIN orders -> Order]
IntentsTyped == intents \in Seq(Intent) /\ payments \subseteq DOMAIN intents

JobsTyped ==
  /\ job \in [Worker -> Job]
  /\ \A w \in Worker : JobIsTyped(job[w], DOMAIN forms, DOMAIN orders, DOMAIN intents)

\* A cart has lines under ids of its own.
LEMMA CartIs ==
  ASSUME NEW c
  PROVE  c \in Cart <=> DOMAIN c \subseteq 1..MaxWrites /\ c \in [DOMAIN c -> Line]
BY DEF Cart

\* The bounds on what happens are numbers.
LEMMA BoundsAreNumbers ==
  /\ MaxQuantity \in Nat /\ MaxQuantity > 0 /\ MaxWrites \in Nat
  /\ MaxForms \in Nat /\ MaxReplaced \in Nat
BY CheckoutAssumption

\* Moving one element in or out changes a count by one.
LEMMA CountMoves ==
  ASSUME NEW W, IsFiniteSet(W), NEW S \in SUBSET W, NEW T \in SUBSET W, NEW w,
         S \ {w} = T \ {w}
  PROVE  /\ Cardinality(S) \in Nat /\ Cardinality(T) \in Nat
         /\ (w \in T => w \in S) => Cardinality(T) <= Cardinality(S)
         /\ Cardinality(T) <= Cardinality(S) + 1
         /\ w \in S /\ w \notin T => Cardinality(T) = Cardinality(S) - 1
<1>1. IsFiniteSet(S) /\ IsFiniteSet(T) BY FS_Subset
<1>2. Cardinality(S) \in Nat /\ Cardinality(T) \in Nat BY <1>1, FS_CardinalityType
<1>3. Cardinality(S \ {w}) = IF w \in S THEN Cardinality(S) - 1 ELSE Cardinality(S)
  BY <1>1, FS_RemoveElement
<1>4. Cardinality(T \ {w}) = IF w \in T THEN Cardinality(T) - 1 ELSE Cardinality(T)
  BY <1>1, FS_RemoveElement
<1> QED BY <1>2, <1>3, <1>4

\* A set in two parts.
LEMMA CountSplits ==
  ASSUME NEW D, IsFiniteSet(D), NEW A, NEW B, A \cup B = D, A \cap B = {}
  PROVE  /\ Cardinality(A) \in Nat /\ Cardinality(B) \in Nat
         /\ Cardinality(D) = Cardinality(A) + Cardinality(B)
<1>1. IsFiniteSet(A) /\ IsFiniteSet(B) BY FS_Subset
<1>2. Cardinality(A) \in Nat /\ Cardinality(B) \in Nat BY <1>1, FS_CardinalityType
<1>3. Cardinality(D) = Cardinality(A) + Cardinality(B) - Cardinality({}) BY <1>1, FS_Union
<1> QED BY <1>2, <1>3, FS_EmptySet

\* What has forms of its own is no more than the forms.
LEMMA FormsOfTheirOwn ==
  ASSUME NEW A, NEW f \in [A -> FormId], \A i, k \in A : f[i] = f[k] => i = k
  PROVE  Cardinality(A) <= MaxForms
<1>1. IsFiniteSet(FormId) /\ Cardinality(FormId) = MaxForms
  BY BoundsAreNumbers, FS_Interval DEF FormId
<1>2. f \in Injection(A, FormId) BY DEF Injection, IsInjective
<1> QED BY <1>1, <1>2, FS_Injection

\* An order's own intents are no more than forms, so all are within the bounds.
LEMMA IntentsWithin ==
  ASSUME NEW s \in Seq(Intent),
         \A i, k \in DOMAIN s : s[i].stable /\ s[k].stable /\ s[i].order = s[k].order => i = k,
         Cardinality({i \in DOMAIN s : ~s[i].stable}) <= MaxReplaced
  PROVE  Len(s) <= MaxForms + MaxReplaced
<1> DEFINE A == {i \in DOMAIN s : s[i].stable}
           B == {i \in DOMAIN s : ~s[i].stable}
           f == [i \in A |-> s[i].order]
<1>1. DOMAIN s = 1..Len(s) /\ Len(s) \in Nat OBVIOUS
<1>2. IsFiniteSet(DOMAIN s) /\ Cardinality(DOMAIN s) = Len(s) BY <1>1, FS_Interval
<1>3. ASSUME NEW i \in DOMAIN s PROVE s[i].order \in FormId
  <2>1. s[i] \in Intent OBVIOUS
  <2> QED BY <2>1 DEF Intent
<1>4. f \in [A -> FormId] BY <1>3, Zenon
<1>5. \A i, k \in A : f[i] = f[k] => i = k OBVIOUS
<1>6. A \cup B = DOMAIN s /\ A \cap B = {} OBVIOUS
<1>7. Cardinality(B) <= MaxReplaced OBVIOUS
<1> HIDE DEF A, B, f
<1>8. Cardinality(A) <= MaxForms BY <1>4, <1>5, FormsOfTheirOwn
<1> QED BY <1>2, <1>6, <1>7, <1>8, CountSplits, BoundsAreNumbers

\* The counts are numbers.
LEMMA CountsAreNumbers ==
  /\ Cardinality({w \in Worker : job[w].pc \in WritePc}) \in Nat
  /\ Cardinality({w \in Worker : job[w].pc \in FormPc}) \in Nat
  /\ Cardinality({w \in Worker : Replaces(job[w])}) \in Nat
BY CheckoutAssumption, FS_Subset, FS_CardinalityType

\* The jobs that have yet to make an order's first intent are counted.
LEMMA UnstableIsNumber ==
  ASSUME NEW s \in Seq(Intent)
  PROVE  /\ IsFiniteSet({i \in DOMAIN s : ~s[i].stable})
         /\ Cardinality({i \in DOMAIN s : ~s[i].stable}) \in Nat
<1>1. IsFiniteSet(DOMAIN s) BY FS_Interval
<1> QED BY <1>1, FS_Subset, FS_CardinalityType

\* The parts of Typing.
LEMMA TypingParts ==
  Typing <=> BasketTyped /\ FormsTyped /\ OrdersTyped /\ IntentsTyped /\ JobsTyped /\ WithinBounds
<1>1. ASSUME Typing
      PROVE  BasketTyped /\ FormsTyped /\ OrdersTyped /\ IntentsTyped /\ JobsTyped /\ WithinBounds
  BY <1>1, CartIs, BoundsAreNumbers
     DEF Typing, TypeOK, BasketTyped, FormsTyped, OrdersTyped, IntentsTyped, JobsTyped
<1>2. ASSUME BasketTyped, FormsTyped, OrdersTyped, IntentsTyped, JobsTyped, WithinBounds
      PROVE  Typing
  <2>1. writes \in 0..MaxWrites
    BY <1>2, CountsAreNumbers, BoundsAreNumbers DEF WithinBounds, BasketTyped
  <2>2. Len(forms) <= MaxForms
    <3>1. Len(forms) \in Nat BY <1>2 DEF FormsTyped, IsSequence
    <3> QED BY <1>2, <3>1, CountsAreNumbers, BoundsAreNumbers DEF WithinBounds
  <2>3. Len(intents) <= MaxForms + MaxReplaced
    <3> DEFINE m == Cardinality({i \in DOMAIN intents : ~intents[i].stable})
               n == Cardinality({w \in Worker : Replaces(job[w])})
    <3>4. m \in Nat /\ n \in Nat
      BY <1>2, CountsAreNumbers, UnstableIsNumber, Zenon DEF IntentsTyped
    <3>5. m + n <= MaxReplaced BY <1>2 DEF WithinBounds
    <3> HIDE DEF m, n
    <3>6. m <= MaxReplaced BY <3>4, <3>5, BoundsAreNumbers
    <3>1. Cardinality({i \in DOMAIN intents : ~intents[i].stable}) <= MaxReplaced BY <3>6 DEF m
    <3>2. intents \in Seq(Intent) BY <1>2 DEF IntentsTyped
    <3>3. \A i, k \in DOMAIN intents :
            intents[i].stable /\ intents[k].stable /\ intents[i].order = intents[k].order => i = k
      BY <1>2 DEF WithinBounds
    <3> QED BY <3>1, <3>2, <3>3, IntentsWithin, Zenon
  <2>4. DOMAIN cart \subseteq 1..MaxWrites /\ cart \in [DOMAIN cart -> Line]
    BY <1>2, CartIs DEF BasketTyped
  <2>5. \A w \in Worker : job[w] \in Job BY <1>2 DEF JobsTyped, JobIsTyped
  <2>6. TypeOK
    BY <1>2, <2>1, <2>2, <2>3, <2>4, <2>5
       DEF TypeOK, BasketTyped, OrdersTyped, IntentsTyped
  <2> QED BY <1>2, <2>6 DEF Typing, FormsTyped, JobsTyped
<1> QED BY <1>1, <1>2

-----------------------------------------------------------------------------
(* How a job moves.                                                        *)

Becomes(w, j) == job' = [job EXCEPT ![w] = j]

\* Nothing that exists goes away.
Grows ==
  /\ DOMAIN forms \subseteq DOMAIN forms'
  /\ DOMAIN orders \subseteq DOMAIN orders'
  /\ DOMAIN intents \subseteq DOMAIN intents'

\* The writes, forms and replacing intents, each with those under way.
WritesMove(w, j) ==
  \/ writes' = writes /\ (j.pc \in WritePc => job[w].pc \in WritePc \/ MayWrite)
  \/ writes' = writes + 1 /\ j.pc \notin WritePc /\ job[w].pc \in WritePc

FormsMove(w, j) ==
  \/ forms' = forms /\ (j.pc \in FormPc => job[w].pc \in FormPc \/ MayOpen)
  \/ Len(forms') = Len(forms) + 1 /\ j.pc \notin FormPc /\ job[w].pc \in FormPc

Unstable(s) == {i \in DOMAIN s : ~s[i].stable}

IntentsMove(w, j) ==
  \/ Unstable(intents') = Unstable(intents) /\ (Replaces(j) => Replaces(job[w]) \/ MayReplace)
  \/ /\ Cardinality(Unstable(intents')) = Cardinality(Unstable(intents)) + 1
     /\ ~Replaces(j) /\ Replaces(job[w])

OwnIntents(s) ==
  \A i, k \in DOMAIN s : s[i].stable /\ s[k].stable /\ s[i].order = s[k].order => i = k

\* Jobs are typed when the one that moved is.
LEMMA BecomesFact ==
  ASSUME JobsTyped, NEW w \in Worker, NEW j, Becomes(w, j)
  PROVE  DOMAIN job' = Worker /\ \A v \in Worker : job'[v] = IF v = w THEN j ELSE job[v]
BY DEF JobsTyped, Becomes

\* A job that moved is in its place, and the others are as before.
LEMMA JobsMove ==
  ASSUME JobsTyped, NEW w \in Worker, NEW j, Becomes(w, j), Grows,
         JobIsTyped(j, DOMAIN forms', DOMAIN orders', DOMAIN intents')
  PROVE  JobsTyped'
<1>1. DOMAIN job' = Worker /\ \A v \in Worker : job'[v] = IF v = w THEN j ELSE job[v]
  BY BecomesFact
<1>2. \A v \in Worker : JobIsTyped(job[v], DOMAIN forms', DOMAIN orders', DOMAIN intents')
  BY DEF JobsTyped, JobIsTyped, Grows
<1>3. j \in Job BY DEF JobIsTyped
<1> QED BY <1>1, <1>2, <1>3 DEF JobsTyped, Becomes

\* What is written and about to be written stays within its bound.
LEMMA WritesStayWithin ==
  ASSUME Typing, NEW w \in Worker, NEW j, Becomes(w, j), WritesMove(w, j)
  PROVE  writes' + Cardinality({v \in Worker : job'[v].pc \in WritePc}) <= MaxWrites
<1> DEFINE S == {v \in Worker : job[v].pc \in WritePc}
           T == {v \in Worker : job'[v].pc \in WritePc}
<1>1. \A v \in Worker : job'[v] = IF v = w THEN j ELSE job[v]
  BY BecomesFact, TypingParts
<1>2. writes \in Nat /\ writes + Cardinality(S) <= MaxWrites
  BY TypingParts DEF BasketTyped, WithinBounds
<1>3. S \in SUBSET Worker /\ T \in SUBSET Worker /\ S \ {w} = T \ {w} BY <1>1
<1>4. (w \in S <=> job[w].pc \in WritePc) /\ (w \in T <=> j.pc \in WritePc) BY <1>1
<1>5. MayWrite => writes + Cardinality(S) < MaxWrites BY DEF MayWrite, WritePc
<1> HIDE DEF S, T
<1>6. /\ Cardinality(S) \in Nat /\ Cardinality(T) \in Nat
      /\ (w \in T => w \in S) => Cardinality(T) <= Cardinality(S)
      /\ Cardinality(T) <= Cardinality(S) + 1
      /\ w \in S /\ w \notin T => Cardinality(T) = Cardinality(S) - 1
  BY <1>3, CountMoves, CheckoutAssumption
<1>7. writes' + Cardinality(T) <= MaxWrites
  BY <1>2, <1>4, <1>5, <1>6, BoundsAreNumbers DEF WritesMove
<1> QED BY <1>7 DEF T

\* So do the forms that are open and about to be opened.
LEMMA FormsStayWithin ==
  ASSUME Typing, NEW w \in Worker, NEW j, Becomes(w, j), FormsMove(w, j)
  PROVE  Len(forms') + Cardinality({v \in Worker : job'[v].pc \in FormPc}) <= MaxForms
<1> DEFINE S == {v \in Worker : job[v].pc \in FormPc}
           T == {v \in Worker : job'[v].pc \in FormPc}
<1>1. \A v \in Worker : job'[v] = IF v = w THEN j ELSE job[v]
  BY BecomesFact, TypingParts
<1>2. Len(forms) \in Nat BY TypingParts DEF FormsTyped, IsSequence
<1>3. Len(forms) + Cardinality(S) <= MaxForms BY TypingParts DEF WithinBounds
<1>4. S \in SUBSET Worker /\ T \in SUBSET Worker /\ S \ {w} = T \ {w} BY <1>1
<1>5. (w \in S <=> job[w].pc \in FormPc) /\ (w \in T <=> j.pc \in FormPc) BY <1>1
<1>6. MayOpen => Len(forms) + Cardinality(S) < MaxForms BY DEF MayOpen, FormPc
<1> HIDE DEF S, T
<1>7. /\ Cardinality(S) \in Nat /\ Cardinality(T) \in Nat
      /\ (w \in T => w \in S) => Cardinality(T) <= Cardinality(S)
      /\ Cardinality(T) <= Cardinality(S) + 1
      /\ w \in S /\ w \notin T => Cardinality(T) = Cardinality(S) - 1
  BY <1>4, CountMoves, CheckoutAssumption
<1>8. Len(forms') + Cardinality(T) <= MaxForms
  BY <1>2, <1>3, <1>5, <1>6, <1>7, BoundsAreNumbers DEF FormsMove
<1> QED BY <1>8 DEF T

\* So do the orders' own intents and those about to be made.
LEMMA IntentsStayWithin ==
  ASSUME Typing, NEW w \in Worker, NEW j, Becomes(w, j), IntentsMove(w, j)
  PROVE  Cardinality(Unstable(intents')) + Cardinality({v \in Worker : Replaces(job'[v])})
           <= MaxReplaced
<1> DEFINE S == {v \in Worker : Replaces(job[v])}
           T == {v \in Worker : Replaces(job'[v])}
           n == Cardinality(Unstable(intents))
<1>1. \A v \in Worker : job'[v] = IF v = w THEN j ELSE job[v]
  BY BecomesFact, TypingParts
<1>2. n \in Nat BY TypingParts, UnstableIsNumber, Zenon DEF IntentsTyped, Unstable
<1>3. n + Cardinality(S) <= MaxReplaced BY TypingParts DEF WithinBounds, Unstable
<1>4. S \in SUBSET Worker /\ T \in SUBSET Worker /\ S \ {w} = T \ {w} BY <1>1
<1>5. (w \in S <=> Replaces(job[w])) /\ (w \in T <=> Replaces(j)) BY <1>1
<1>6. MayReplace => n + Cardinality(S) < MaxReplaced
  BY DEF MayReplace, Replaces, Unstable
<1>7. \/ Cardinality(Unstable(intents')) = n /\ (Replaces(j) => Replaces(job[w]) \/ MayReplace)
      \/ Cardinality(Unstable(intents')) = n + 1 /\ ~Replaces(j) /\ Replaces(job[w])
  BY DEF IntentsMove
<1> HIDE DEF S, T, n
<1>8. /\ Cardinality(S) \in Nat /\ Cardinality(T) \in Nat
      /\ (w \in T => w \in S) => Cardinality(T) <= Cardinality(S)
      /\ Cardinality(T) <= Cardinality(S) + 1
      /\ w \in S /\ w \notin T => Cardinality(T) = Cardinality(S) - 1
  BY <1>4, CountMoves, CheckoutAssumption
<1>9. Cardinality(Unstable(intents')) + Cardinality(T) <= MaxReplaced
  BY <1>2, <1>3, <1>5, <1>6, <1>7, <1>8, BoundsAreNumbers
<1> QED BY <1>9 DEF T

\* A step of one job that leaves everything typed and within the bounds.
LEMMA StepIsTyped ==
  ASSUME Typing, NEW w \in Worker, NEW j, Becomes(w, j), Grows,
         JobIsTyped(j, DOMAIN forms', DOMAIN orders', DOMAIN intents'),
         BasketTyped', FormsTyped', OrdersTyped', IntentsTyped',
         WritesMove(w, j), FormsMove(w, j), IntentsMove(w, j), OwnIntents(intents')
  PROVE  Typing'
<1>1. JobsTyped' BY JobsMove, TypingParts
<1>2. WithinBounds'
  BY WritesStayWithin, FormsStayWithin, IntentsStayWithin DEF WithinBounds, OwnIntents, Unstable
<1> QED BY <1>1, <1>2, TypingParts, PTL

-----------------------------------------------------------------------------
(* The steps of jobs.                                                      *)

\* An idle job is typed whatever forms, orders and intents there are.
LEMMA IdleIsTyped ==
  /\ Idle \in Job /\ Idle.pc = "idle" /\ Idle.flag = FALSE
  /\ \A fs, os, is : JobIsTyped(Idle, fs, os, is)
<1>1. EmptyCart \in Cart /\ DOMAIN EmptyCart = {} BY CartIs DEF EmptyCart
<1>2. NoPrint \in Snapshot BY <1>1 DEF NoPrint, Snapshot, SessionStatus
<1>3. (CHOOSE i \in Item : TRUE) \in Item BY CheckoutAssumption
<1>4. Idle \in Job /\ Idle.pc = "idle" /\ Idle.flag = FALSE
  BY <1>2, <1>3, BoundsAreNumbers DEF Idle, Job, Pc, Person, SessionStatus
<1> QED BY <1>4 DEF JobIsTyped, OrderPc

\* What stays is typed.
LEMMA StaysTyped ==
  ASSUME Typing
  PROVE  /\ UNCHANGED basket => BasketTyped'
         /\ UNCHANGED forms => FormsTyped'
         /\ UNCHANGED <<forms, orders>> => OrdersTyped'
         /\ UNCHANGED <<intents, payments>> => IntentsTyped'
         /\ UNCHANGED intents => OwnIntents(intents')
BY TypingParts
   DEF BasketTyped, FormsTyped, IsSequence, OrdersTyped, IntentsTyped, WithinBounds, OwnIntents, basket

\* A step that leaves forms and money alone.
LEMMA BasketStep ==
  ASSUME Typing, NEW w \in Worker, NEW j, Becomes(w, j), UNCHANGED <<forms, money>>, BasketTyped',
         JobIsTyped(j, DOMAIN forms, DOMAIN orders, DOMAIN intents), WritesMove(w, j),
         j.pc \in FormPc => job[w].pc \in FormPc \/ MayOpen,
         Replaces(j) => Replaces(job[w])
  PROVE  Typing'
<1>1. FormsTyped' /\ OrdersTyped' /\ IntentsTyped' /\ OwnIntents(intents')
  BY StaysTyped DEF money
<1>2. Grows /\ FormsMove(w, j) /\ IntentsMove(w, j)
  BY DEF Grows, FormsMove, IntentsMove, money
<1>3. JobIsTyped(j, DOMAIN forms', DOMAIN orders', DOMAIN intents') BY DEF money
<1> QED BY <1>1, <1>2, <1>3, StepIsTyped

\* A job that stops, or goes on.
LEMMA StopIs ==
  ASSUME NEW w \in Worker, Stop(w)
  PROVE  Becomes(w, Idle)
BY DEF Stop, Becomes

\* A request that begins is the worker's job.
LEMMA BeginIs ==
  ASSUME NEW w \in Worker, NEW j, Begin(w, j)
  PROVE  Becomes(w, j) /\ job[w].pc = "idle"
BY DEF Begin, Becomes, At

\* A job that goes on differs in its place alone.
LEMMA GotoIs ==
  ASSUME Typing, NEW w \in Worker, NEW pc \in Pc, Goto(w, pc)
  PROVE  /\ Becomes(w, [job[w] EXCEPT !.pc = pc])
         /\ [job[w] EXCEPT !.pc = pc] \in Job
         /\ [job[w] EXCEPT !.pc = pc].pc = pc
         /\ [job[w] EXCEPT !.pc = pc].flag = job[w].flag
         /\ [job[w] EXCEPT !.pc = pc].form = job[w].form
         /\ [job[w] EXCEPT !.pc = pc].order = job[w].order
         /\ [job[w] EXCEPT !.pc = pc].intent = job[w].intent
<1>1. job[w] \in Job BY TypingParts DEF JobsTyped
<1> QED BY <1>1 DEF Goto, Becomes, Job

\* Stopping leaves less under way.
LEMMA StopStep ==
  ASSUME Typing, NEW w \in Worker, Stop(w), UNCHANGED <<forms, money>>, BasketTyped',
         writes' = writes \/ (writes' = writes + 1 /\ job[w].pc \in WritePc)
  PROVE  Typing'
<1>1. Becomes(w, Idle) BY StopIs
<1>2. WritesMove(w, Idle) BY IdleIsTyped DEF WritesMove, WritePc
<1> QED BY <1>1, <1>2, IdleIsTyped, BasketStep DEF FormPc, Replaces

\* A line has a quantity and the time it was written.
LEMMA LineIs ==
  ASSUME Typing, NEW l \in DOMAIN cart
  PROVE  l \in 1..MaxWrites /\ cart[l] \in Line
BY TypingParts, CartIs DEF BasketTyped

\* A job that is about to write can: the bound counts it.
LEMMA WriterMayWrite ==
  ASSUME Typing, NEW w \in Worker, job[w].pc \in WritePc
  PROVE  writes + 1 \in 1..MaxWrites
<1> DEFINE S == {v \in Worker : job[v].pc \in WritePc}
<1>1. w \in S /\ S \in SUBSET Worker OBVIOUS
<1>2. writes + Cardinality(S) <= MaxWrites /\ writes \in Nat
  BY TypingParts DEF WithinBounds, BasketTyped
<1> HIDE DEF S
<1>3. Cardinality(S) \in Nat /\ Cardinality(S) # 0
  BY <1>1, CheckoutAssumption, FS_Subset, FS_CardinalityType, FS_EmptySet
<1> QED BY <1>2, <1>3, BoundsAreNumbers

\* Requests about lines begin within the bound.
LEMMA AskLineStep ==
  ASSUME Typing, NEW w \in Worker, AskAdd(w) \/ AskSet(w) \/ AskClear(w)
  PROVE  Typing'
<1>1. UNCHANGED <<basket, forms, money>> BY DEF AskAdd, AskSet, AskClear
<1>2. PICK j : /\ Begin(w, j) /\ j \in Job /\ ~j.flag
               /\ (j.pc \in WritePc /\ MayWrite) \/ j.pc = "empty"
  <2>1. CASE AskAdd(w)
    <3>1. PICK p \in Person, i \in Item :
            Begin(w, [Idle EXCEPT !.pc = "add", !.who = IF Open THEN p ELSE NoOne, !.item = i])
      BY <2>1 DEF AskAdd
    <3> DEFINE o == IF Open THEN p ELSE NoOne
               j == [Idle EXCEPT !.pc = "add", !.who = o, !.item = i]
    <3>2. o \in Person \cup {NoOne} OBVIOUS
    <3>3. Begin(w, j) BY <3>1
    <3> HIDE DEF o
    <3>4. j \in Job /\ j.pc = "add" /\ ~j.flag BY <3>2, IdleIsTyped DEF Job, Pc
    <3> HIDE DEF j
    <3> QED BY <2>1, <3>3, <3>4 DEF AskAdd, WritePc
  <2>2. CASE AskSet(w)
    <3>1. PICK p \in Person, l \in DOMAIN cart, q \in 0..MaxQuantity :
            Begin(w, [Idle EXCEPT !.pc = "set", !.who = p, !.line = l, !.quantity = q])
      BY <2>2 DEF AskSet
    <3> DEFINE j == [Idle EXCEPT !.pc = "set", !.who = p, !.line = l, !.quantity = q]
    <3>2. l \in 0..MaxWrites BY LineIs, BoundsAreNumbers
    <3>3. j \in Job /\ j.pc = "set" /\ ~j.flag BY <3>2, IdleIsTyped DEF Job, Pc
    <3>4. Begin(w, j) BY <3>1
    <3> HIDE DEF j
    <3> QED BY <2>2, <3>3, <3>4 DEF AskSet, WritePc
  <2>3. CASE AskClear(w)
    BY <2>3, IdleIsTyped DEF AskClear, Job, Pc
  <2> QED BY <2>1, <2>2, <2>3
<1>3. JobIsTyped(j, DOMAIN forms, DOMAIN orders, DOMAIN intents)
  BY <1>2 DEF JobIsTyped, OrderPc, WritePc
<1>4. Becomes(w, j) BY <1>2, BeginIs
<1>5. WritesMove(w, j) BY <1>1, <1>2 DEF WritesMove, basket, WritePc
<1>6. BasketTyped' BY <1>1, StaysTyped
<1>7. j.pc \notin FormPc /\ ~Replaces(j) BY <1>2 DEF FormPc, WritePc, Replaces
<1> QED BY <1>1, <1>3, <1>4, <1>5, <1>6, <1>7, BasketStep

\* A request about a line finds it or not.
LEMMA MatchLineStep ==
  ASSUME Typing, NEW w \in Worker, MatchLine(w)
  PROVE  Typing'
<1>1. UNCHANGED <<basket, forms, money>> /\ job[w].pc = "add" BY DEF MatchLine, At
<1>2. BasketTyped' BY <1>1, StaysTyped
<1>3. CASE Stop(w) BY <1>1, <1>2, <1>3, StopStep DEF basket
<1>4. ASSUME NEW j \in Job, Becomes(w, j), j.pc = "write" PROVE Typing'
  <2>1. JobIsTyped(j, DOMAIN forms, DOMAIN orders, DOMAIN intents) BY <1>4 DEF JobIsTyped, OrderPc
  <2>2. WritesMove(w, j) BY <1>1 DEF WritesMove, basket, WritePc
  <2> QED BY <1>1, <1>2, <1>4, <2>1, <2>2, BasketStep DEF FormPc, Replaces
<1>5. CASE Goto(w, "write") BY <1>4, <1>5, GotoIs DEF Pc
<1>6. CASE \E l \in Matching(job[w].item) :
             job' = [job EXCEPT ![w].pc = "write", ![w].line = l, ![w].quantity = cart[l].quantity]
  <2>1. PICK l \in DOMAIN cart :
          job' = [job EXCEPT ![w].pc = "write", ![w].line = l, ![w].quantity = cart[l].quantity]
    BY <1>6 DEF Matching
  <2> DEFINE j == [job[w] EXCEPT !.pc = "write", !.line = l, !.quantity = cart[l].quantity]
  <2>2. l \in 0..MaxWrites /\ cart[l].quantity \in 0..MaxQuantity
    BY LineIs, BoundsAreNumbers DEF Line
  <2>3. job[w] \in Job BY TypingParts DEF JobsTyped
  <2>4. j \in Job /\ j.pc = "write" BY <2>2, <2>3 DEF Job, Pc
  <2>5. Becomes(w, j) BY <2>1 DEF Becomes
  <2> QED BY <1>4, <2>4, <2>5
<1> QED BY <1>3, <1>5, <1>6 DEF MatchLine

\* A line is written when the bound allows it.
LEMMA WriteLineStep ==
  ASSUME Typing, NEW w \in Worker, WriteLine(w) \/ SetLine(w) \/ EmptyLines(w)
  PROVE  Typing'
<1>1. UNCHANGED <<session, forms, money>> /\ Stop(w) BY DEF WriteLine, SetLine, EmptyLines
<1>2. session \in Session /\ writes \in Nat /\ cart \in Cart /\ job[w] \in Job
  BY TypingParts DEF BasketTyped, JobsTyped
<1>3. DOMAIN cart \subseteq 1..MaxWrites /\ \A l \in DOMAIN cart : cart[l] \in Line BY LineIs
<1>4. WriteLine(w) \/ SetLine(w) => writes + 1 \in 1..MaxWrites
  BY WriterMayWrite DEF WriteLine, SetLine, At, WritePc
<1>5. /\ cart' \in Cart
      /\ writes' = writes \/ (writes' = writes + 1 /\ job[w].pc \in WritePc)
  <2>1. CASE WriteLine(w)
    <3>1. CASE job[w].line = 0
      <4> DEFINE n == writes + 1
                 new == [item |-> job[w].item, owner |-> job[w].who, quantity |-> 1, at |-> n]
      <4>1. new \in Line BY <1>2, <1>4, <2>1, BoundsAreNumbers DEF Line, Job
      <4>2. cart' = Put(cart, n, new) /\ writes' = n BY <2>1, <3>1 DEF WriteLine
      <4> HIDE DEF new
      <4>3. cart' \in Cart BY <1>3, <1>4, <2>1, <4>1, <4>2, CartIs DEF Put
      <4> QED BY <2>1, <4>2, <4>3 DEF WriteLine, At, WritePc
    <3>2. CASE job[w].line \in DOMAIN cart /\ job[w].line # 0 /\ job[w].quantity < MaxQuantity
      <4> DEFINE l == job[w].line
                 new == [cart[l] EXCEPT !.quantity = job[w].quantity + 1, !.at = writes + 1]
      <4>1. job[w].quantity + 1 \in 1..MaxQuantity BY <1>2, <3>2, BoundsAreNumbers DEF Job
      <4>2. new \in Line BY <1>3, <1>4, <2>1, <3>2, <4>1 DEF Line
      <4>3. cart' = [cart EXCEPT ![l] = new] /\ writes' = writes + 1
        BY <1>2, <2>1, <3>2 DEF WriteLine
      <4> HIDE DEF new
      <4>4. cart' \in Cart BY <1>2, <1>3, <3>2, <4>2, <4>3, CartIs
      <4> QED BY <2>1, <4>3, <4>4 DEF WriteLine, At, WritePc
    <3> QED BY <1>2, <2>1, <3>1, <3>2 DEF WriteLine
  <2>2. CASE SetLine(w)
    <3>1. CASE job[w].line \in DOMAIN cart /\ job[w].quantity > 0
      <4> DEFINE l == job[w].line
                 new == [cart[l] EXCEPT !.quantity = job[w].quantity, !.at = writes + 1]
      <4>1. job[w].quantity \in 1..MaxQuantity BY <1>2, <3>1, BoundsAreNumbers DEF Job
      <4>2. new \in Line BY <1>3, <1>4, <2>2, <3>1, <4>1 DEF Line
      <4>3. cart' = [cart EXCEPT ![l] = new] /\ writes' = writes + 1 BY <2>2, <3>1 DEF SetLine
      <4> HIDE DEF new
      <4>4. cart' \in Cart BY <1>2, <1>3, <3>1, <4>2, <4>3, CartIs
      <4> QED BY <2>2, <4>3, <4>4 DEF SetLine, At, WritePc
    <3>2. CASE ~(job[w].line \in DOMAIN cart /\ job[w].quantity > 0)
      <4>1. cart' = Only(cart, DOMAIN cart \ {job[w].line}) /\ writes' = writes
        BY <2>2, <3>2 DEF SetLine
      <4> QED BY <1>3, <4>1, CartIs DEF Only
    <3> QED BY <3>1, <3>2
  <2>3. CASE EmptyLines(w) BY <2>3, CartIs DEF EmptyLines, EmptyCart
  <2> QED BY <2>1, <2>2, <2>3
<1>6. BasketTyped' BY <1>1, <1>2, <1>5 DEF BasketTyped
<1> QED BY <1>1, <1>5, <1>6, StopStep

\* Requests about lines keep the state typed.
LEMMA EditStep ==
  ASSUME Typing, NEW w \in Worker, Edit(w)
  PROVE  Typing'
BY AskLineStep, MatchLineStep, WriteLineStep DEF Edit

-----------------------------------------------------------------------------
(* The steps of the group order.                                           *)

\* A request that only begins, with nothing to be typed.
LEMMA AskStep ==
  ASSUME Typing, NEW w \in Worker, NEW j \in Job, Becomes(w, j),
         j.pc \notin WritePc \cup OrderPc
           \cup {"match", "read", "abandon", "create", "record"},
         j.pc \in FormPc => job[w].pc \in FormPc \/ MayOpen,
         UNCHANGED <<writes, forms, money>>, BasketTyped'
  PROVE  Typing'
<1>1. JobIsTyped(j, DOMAIN forms, DOMAIN orders, DOMAIN intents) BY DEF JobIsTyped, OrderPc
<1>2. WritesMove(w, j) BY DEF WritesMove
<1>3. ~Replaces(j) BY DEF Replaces, OrderPc
<1> QED BY <1>1, <1>2, <1>3, BasketStep

\* No job moves, nor anything but the session and the cart.
LEMMA RestStep ==
  ASSUME Typing, UNCHANGED <<writes, forms, money, job>>, session' \in Session, cart' \in Cart
  PROVE  Typing'
<1>1. BasketTyped' BY TypingParts DEF BasketTyped
<1>2. FormsTyped' /\ OrdersTyped' /\ IntentsTyped' BY StaysTyped DEF money
<1>3. JobsTyped' BY TypingParts DEF JobsTyped, money
<1>4. WithinBounds' BY TypingParts DEF WithinBounds, money, Replaces
<1> QED BY <1>1, <1>2, <1>3, <1>4, TypingParts, PTL

\* What a session may become.
LEMMA SessionIs ==
  ASSUME Typing
  PROVE  /\ session \in Session /\ session.status \in SessionStatus
         /\ \A s \in SessionStatus : [session EXCEPT !.status = s] \in Session
         /\ \A s \in SessionStatus : [session EXCEPT !.status = s, !.late = FALSE] \in Session
         /\ [session EXCEPT !.late = TRUE] \in Session
         /\ \A g \in Guest : [session EXCEPT !.guests = @ \cup {g}] \in Session
         /\ \A g \in Guest : [session EXCEPT !.guests = @ \ {g}] \in Session
<1>1. session \in Session BY TypingParts DEF BasketTyped
<1> QED BY <1>1 DEF Session

\* Part of a cart is a cart.
LEMMA OnlyIsCart ==
  ASSUME NEW c \in Cart, NEW S \in SUBSET DOMAIN c
  PROVE  Only(c, S) \in Cart
BY CartIs DEF Only

\* So do the requests of the group.
LEMMA GroupOrderStep ==
  ASSUME Typing, NEW w \in Worker, GroupOrder(w)
  PROVE  Typing'
<1>1. session \in Session /\ cart \in Cart BY TypingParts DEF BasketTyped
<1>2. CASE Join(w)
  <2>1. \E g \in Guest : session' = [session EXCEPT !.guests = @ \cup {g}] BY <1>2 DEF Join
  <2>2. session' \in Session BY <2>1, SessionIs
  <2> QED BY <1>1, <1>2, <2>2, RestStep DEF Join
<1>3. CASE Leave(w)
  <2>1. PICK g \in session.guests :
          /\ session' = [session EXCEPT !.guests = @ \ {g}]
          /\ cart' = Only(cart, {l \in DOMAIN cart : cart[l].owner # g})
    BY <1>3 DEF Leave
  <2>2. g \in Guest BY <1>1 DEF Session
  <2>3. session' \in Session BY <2>1, <2>2, SessionIs
  <2>4. cart' \in Cart BY <1>1, <2>1, OnlyIsCart
  <2> QED BY <1>3, <2>3, <2>4, RestStep DEF Leave
<1>4. CASE AskStart(w) \/ AskUnlock(w) \/ AskEnd(w) \/ AskExpire(w)
  <2>1. \E pc \in {"start", "unlock", "end", "expire"} :
          \/ Begin(w, [Idle EXCEPT !.pc = pc])
          \/ Begin(w, [Idle EXCEPT !.pc = pc, !.seen = session.status])
    BY <1>4 DEF AskStart, AskUnlock, AskEnd, AskExpire
  <2>2. PICK j \in Job : Begin(w, j) /\ j.pc \in {"start", "unlock", "end", "expire"}
    <3>1. ASSUME NEW pc \in {"start", "unlock", "end", "expire"}
          PROVE  /\ [Idle EXCEPT !.pc = pc] \in Job /\ [Idle EXCEPT !.pc = pc].pc = pc
                 /\ [Idle EXCEPT !.pc = pc, !.seen = session.status] \in Job
                 /\ [Idle EXCEPT !.pc = pc, !.seen = session.status].pc = pc
      BY SessionIs, IdleIsTyped DEF Job, Pc
    <3> QED BY <2>1, <3>1
  <2>3. UNCHANGED <<basket, forms, money>> BY <1>4 DEF AskStart, AskUnlock, AskEnd, AskExpire
  <2>4. BasketTyped' BY <2>3, StaysTyped
  <2>5. Becomes(w, j) BY <2>2, BeginIs
  <2> QED BY <2>2, <2>3, <2>4, <2>5, AskStep DEF WritePc, OrderPc, FormPc, basket
<1>5. CASE StartSession(w) \/ Unlock(w) \/ EndSession(w) \/ Expire(w)
  <2>1. UNCHANGED <<writes, forms, money>> /\ Stop(w)
    BY <1>5 DEF StartSession, Unlock, EndSession, Expire
  <2>2. session' \in Session /\ cart' \in Cart
    <3>1. CASE StartSession(w)
      <4>1. session' \in Session BY <3>1, SessionIs DEF StartSession, SessionStatus
      <4>2. \A l \in DOMAIN cart : [cart[l] EXCEPT !.owner = Host] \in Line
        BY LineIs DEF Line, Person
      <4>3. [l \in DOMAIN cart |-> [cart[l] EXCEPT !.owner = Host]] \in Cart
        BY <1>1, <4>2, CartIs
      <4> QED BY <1>1, <3>1, <4>1, <4>3 DEF StartSession
    <3>2. CASE Unlock(w) \/ Expire(w)
      BY <1>1, <3>2, SessionIs DEF Unlock, Expire, Become, SessionStatus
    <3>3. CASE EndSession(w)
      BY <3>3, SessionIs, CartIs DEF EndSession, Become, SessionStatus, EmptyCart
    <3> QED BY <1>5, <3>1, <3>2, <3>3
  <2>3. BasketTyped' BY <2>1, <2>2, TypingParts DEF BasketTyped
  <2> QED BY <2>1, <2>3, StopStep
<1> QED BY <1>2, <1>3, <1>4, <1>5 DEF GroupOrder

-----------------------------------------------------------------------------
(* The steps of the page.                                                  *)

\* The forms, orders and intents that exist have their numbers.
LEMMA IdsAre ==
  ASSUME Typing
  PROVE  /\ DOMAIN forms \subseteq FormId /\ DOMAIN orders \subseteq DOMAIN forms
         /\ DOMAIN intents \subseteq IntentId
<1>1. Len(forms) <= MaxForms /\ IsSequence(forms) /\ DOMAIN orders \subseteq DOMAIN forms
  BY DEF Typing, TypeOK
<1>2. DOMAIN forms = 1..Len(forms) /\ Len(forms) \in Nat
  BY <1>1, LenProperties DEF IsSequence
<1>3. intents \in Seq(Intent) /\ Len(intents) <= MaxForms + MaxReplaced BY DEF Typing, TypeOK
<1>4. DOMAIN intents = 1..Len(intents) /\ Len(intents) \in Nat BY <1>3, LenProperties
<1> QED BY <1>1, <1>2, <1>3, <1>4, BoundsAreNumbers DEF FormId, IntentId

\* So does the checkout page, which opens a form when it is shown.
LEMMA PageStep ==
  ASSUME Typing, NEW w \in Worker, AskForm(w) \/ LockCart(w) \/ TakePrint(w) \/ ShowForm(w)
  PROVE  Typing'
<1>1. session \in Session /\ cart \in Cart /\ job[w] \in Job
  BY TypingParts DEF BasketTyped, JobsTyped
<1>2. ASSUME NEW j \in Job, Becomes(w, j), j.pc \in FormPc, job[w].pc \in FormPc \/ MayOpen,
             UNCHANGED <<writes, forms, money>>, BasketTyped'
      PROVE  Typing'
  BY <1>2, AskStep DEF FormPc, WritePc, OrderPc
<1>3. CASE AskForm(w)
  <2>1. MayOpen /\ UNCHANGED <<basket, forms, money>> BY <1>3 DEF AskForm
  <2>2. BasketTyped' BY <2>1, StaysTyped
  <2>3. PICK s \in SessionStatus :
          \/ Begin(w, [Idle EXCEPT !.pc = "page"])
          \/ Begin(w, [Idle EXCEPT !.pc = "lock", !.seen = s])
    BY <1>3, SessionIs DEF AskForm, SessionStatus
  <2>4. /\ [Idle EXCEPT !.pc = "page"] \in Job /\ [Idle EXCEPT !.pc = "page"].pc = "page"
        /\ [Idle EXCEPT !.pc = "lock", !.seen = s] \in Job
        /\ [Idle EXCEPT !.pc = "lock", !.seen = s].pc = "lock"
    BY IdleIsTyped DEF Job, Pc
  <2> QED BY <1>2, <2>1, <2>2, <2>3, <2>4, BeginIs DEF FormPc, basket
<1>4. CASE LockCart(w)
  <2>1. UNCHANGED <<cart, writes, forms, money>> /\ job[w].pc = "lock" BY <1>4 DEF LockCart, At
  <2>2. session' \in Session BY <1>1, <1>4, SessionIs DEF LockCart, Become, SessionStatus
  <2>3. BasketTyped' BY <2>1, <2>2, TypingParts DEF BasketTyped
  <2>4. CASE Stop(w) BY <2>1, <2>3, <2>4, StopStep
  <2>5. CASE Goto(w, "print") BY <1>2, <2>1, <2>3, <2>5, GotoIs DEF Pc, FormPc
  <2> QED BY <1>4, <2>4, <2>5 DEF LockCart
<1>5. CASE TakePrint(w)
  <2> DEFINE j == [job[w] EXCEPT !.pc = "page", !.print = Fingerprint]
  <2>1. UNCHANGED <<basket, forms, money>> /\ job[w].pc = "print" BY <1>5 DEF TakePrint, At
  <2>2. Fingerprint \in Snapshot BY <1>1, SessionIs DEF Fingerprint, Snapshot
  <2>3. Becomes(w, j) BY <1>5 DEF TakePrint, Becomes
  <2>4. j \in Job /\ j.pc = "page" BY <1>1, <2>2 DEF Job, Pc
  <2> HIDE DEF j
  <2> QED BY <1>2, <2>1, <2>3, <2>4, StaysTyped DEF FormPc, basket
<1>6. CASE ShowForm(w)
  <2>1. Stop(w) /\ UNCHANGED <<basket, money>> /\ job[w].pc = "page" BY <1>6 DEF ShowForm, At
  <2>2. CASE UNCHANGED forms
    <3>1. BasketTyped' BY <2>1, StaysTyped
    <3> QED BY <2>1, <2>2, <3>1, StopStep DEF basket
  <2>3. CASE \E e : forms' = Append(forms, e)
    <3>1. IsSequence(forms) BY TypingParts DEF FormsTyped
    <3>2. FormsTyped' /\ DOMAIN forms \subseteq DOMAIN forms' BY <2>3, <3>1, AppendKeeps DEF FormsTyped
    <3>3. Len(forms') = Len(forms) + 1 BY <2>3, <3>1, AppendLen
    <3>4. BasketTyped' /\ IntentsTyped' /\ OwnIntents(intents') BY <2>1, StaysTyped DEF money
    <3>5. OrdersTyped' BY <2>1, <3>2, TypingParts DEF OrdersTyped, money
    <3>6. Grows /\ Becomes(w, Idle) BY <2>1, <3>2, StopIs DEF Grows, money
    <3>7. FormsMove(w, Idle) /\ WritesMove(w, Idle) /\ IntentsMove(w, Idle)
      BY <2>1, <3>3, IdleIsTyped DEF FormsMove, WritesMove, IntentsMove, FormPc, WritePc, Replaces,
         basket, money
    <3> QED BY <3>2, <3>4, <3>5, <3>6, <3>7, IdleIsTyped, StepIsTyped
  <2> QED BY <1>6, <2>2, <2>3 DEF ShowForm
<1> QED BY <1>3, <1>4, <1>5, <1>6

-----------------------------------------------------------------------------
(* The steps of a submitted form.                                          *)

\* Orders and intents change, nothing is written and no form is opened.
LEMMA MoneyStep ==
  ASSUME Typing, NEW w \in Worker, NEW j, Becomes(w, j), UNCHANGED <<writes, forms>>,
         BasketTyped', OrdersTyped', IntentsTyped', OwnIntents(intents'),
         DOMAIN orders \subseteq DOMAIN orders', DOMAIN intents \subseteq DOMAIN intents',
         JobIsTyped(j, DOMAIN forms, DOMAIN orders', DOMAIN intents'),
         j.pc \notin WritePc \cup FormPc, IntentsMove(w, j)
  PROVE  Typing'
<1>1. FormsTyped' BY StaysTyped
<1>2. Grows /\ WritesMove(w, j) /\ FormsMove(w, j) BY DEF Grows, WritesMove, FormsMove
<1>3. JobIsTyped(j, DOMAIN forms', DOMAIN orders', DOMAIN intents') OBVIOUS
<1> QED BY <1>1, <1>2, <1>3, StepIsTyped

\* Only the orders and the session change.
LEMMA OrdersStep ==
  ASSUME Typing, NEW w \in Worker, NEW j, Becomes(w, j), UNCHANGED <<writes, forms, intents, payments>>,
         BasketTyped', OrdersTyped', DOMAIN orders \subseteq DOMAIN orders',
         JobIsTyped(j, DOMAIN forms, DOMAIN orders', DOMAIN intents),
         j.pc \notin WritePc \cup FormPc, Replaces(j) => Replaces(job[w])
  PROVE  Typing'
<1>1. IntentsTyped' /\ OwnIntents(intents') BY StaysTyped
<1>2. IntentsMove(w, j) BY DEF IntentsMove
<1>3. JobIsTyped(j, DOMAIN forms, DOMAIN orders', DOMAIN intents') OBVIOUS
<1> QED BY <1>1, <1>2, <1>3, MoneyStep

\* A job that stops is typed whatever forms, orders and intents there are.
LEMMA IdleMoves ==
  /\ JobIsTyped(Idle, DOMAIN forms, DOMAIN orders', DOMAIN intents)
  /\ JobIsTyped(Idle, DOMAIN forms, DOMAIN orders', DOMAIN intents')
  /\ Idle.pc \notin WritePc \cup FormPc /\ ~Replaces(Idle)
BY IdleIsTyped DEF WritePc, FormPc, Replaces

\* The job as ReadCart leaves it.
ReadsCart(w, pc, f, goesOn) ==
  job' = [job EXCEPT ![w].pc = pc, ![w].order = f, ![w].flag = goesOn, ![w].print.lines = cart]

\* A submission holds the form it came from, and the order it finds.
LEMMA SubmitStep ==
  ASSUME Typing, NEW w \in Worker, SubmitForm(w) \/ MatchPrint(w) \/ ReadCart(w)
  PROVE  Typing'
<1>1. UNCHANGED <<basket, forms, money>> BY DEF SubmitForm, MatchPrint, ReadCart
<1>2. BasketTyped' /\ OrdersTyped' BY <1>1, StaysTyped DEF money
<1>3. cart \in Cart /\ job[w] \in Job /\ JobIsTyped(job[w], DOMAIN forms, DOMAIN orders, DOMAIN intents)
  BY TypingParts DEF BasketTyped, JobsTyped
<1>4. ASSUME NEW j, Becomes(w, j), JobIsTyped(j, DOMAIN forms, DOMAIN orders, DOMAIN intents),
             j.pc \in {"idle", "match", "read", "abandon", "create", "intent"}
      PROVE  Typing'
  <2>1. j.pc \notin WritePc \cup FormPc /\ ~Replaces(j) BY <1>4 DEF WritePc, FormPc, Replaces
  <2> QED BY <1>1, <1>2, <1>4, <2>1, OrdersStep DEF basket, money
<1>5. CASE Stop(w) BY <1>4, <1>5, StopIs, IdleIsTyped
<1>6. CASE SubmitForm(w)
  <2>1. PICK f \in DOMAIN forms :
          Begin(w, [Idle EXCEPT !.form = f, !.order = f, !.seen = session.status,
            !.pc = IF f \in DOMAIN orders THEN "intent"
                   ELSE IF session.status = "none" THEN "read" ELSE "match"])
    BY <1>6 DEF SubmitForm
  <2> DEFINE pc == IF f \in DOMAIN orders THEN "intent"
                   ELSE IF session.status = "none" THEN "read" ELSE "match"
             j  == [Idle EXCEPT !.form = f, !.order = f, !.seen = session.status, !.pc = pc]
  <2>2. pc \in {"intent", "read", "match"} /\ (pc = "intent" => f \in DOMAIN orders) OBVIOUS
  <2>3. Becomes(w, j) BY <2>1, BeginIs
  <2> HIDE DEF pc
  <2>4. j \in Job /\ j.pc = pc /\ j.form = f /\ j.order = f
    BY <2>2, IdsAre, SessionIs, IdleIsTyped DEF Job, Pc
  <2> HIDE DEF j
  <2>5. JobIsTyped(j, DOMAIN forms, DOMAIN orders, DOMAIN intents)
    BY <2>2, <2>4 DEF JobIsTyped, OrderPc
  <2> QED BY <1>4, <2>2, <2>3, <2>4, <2>5
<1>7. CASE MatchPrint(w)
  <2>1. CASE Goto(w, "read")
    <3> DEFINE j == [job[w] EXCEPT !.pc = "read"]
    <3>1. /\ Becomes(w, j) /\ j \in Job /\ j.pc = "read" /\ j.form = job[w].form
      BY <2>1, GotoIs DEF Pc
    <3>2. job[w].form \in DOMAIN forms BY <1>3, <1>7 DEF MatchPrint, At, JobIsTyped
    <3> HIDE DEF j
    <3>3. JobIsTyped(j, DOMAIN forms, DOMAIN orders, DOMAIN intents)
      BY <3>1, <3>2 DEF JobIsTyped, OrderPc
    <3> QED BY <1>4, <3>1, <3>3
  <2> QED BY <1>5, <1>7, <2>1 DEF MatchPrint
<1>8. CASE ReadCart(w)
  <2>1. job[w].form \in DOMAIN forms BY <1>3, <1>8 DEF ReadCart, At, JobIsTyped
  <2>2. ASSUME NEW f, NEW pc, NEW goesOn \in BOOLEAN, ReadsCart(w, pc, f, goesOn),
               (pc \in {"abandon", "intent"} /\ f \in DOMAIN orders) \/ (pc = "create" /\ f = job[w].form)
        PROVE  Typing'
    <3> DEFINE p == [job[w].print EXCEPT !.lines = cart]
               j == [job[w] EXCEPT !.pc = pc, !.order = f, !.flag = goesOn, !.print = p]
    <3>1. p \in Snapshot BY <1>3 DEF Job, Snapshot
    <3>2. job[w] = [x \in DOMAIN job[w] |-> job[w][x]] /\ DOMAIN job = Worker
      BY <1>3, TypingParts DEF Job, JobsTyped
    <3>3. j = [job[w] EXCEPT !.pc = pc, !.order = f, !.flag = goesOn, !.print.lines = cart]
      BY <1>3 DEF Job
    <3>4. Becomes(w, j) BY <2>2, <3>2, <3>3 DEF Becomes, ReadsCart
    <3> HIDE DEF p
    <3>5. f \in FormId /\ pc \in Pc BY <2>1, <2>2, IdsAre DEF Pc
    <3>6. j \in Job /\ j.pc = pc /\ j.form = job[w].form /\ j.order = f
      BY <1>3, <2>2, <3>1, <3>5 DEF Job
    <3> HIDE DEF j
    <3>7. JobIsTyped(j, DOMAIN forms, DOMAIN orders, DOMAIN intents)
      BY <2>1, <2>2, <3>6 DEF JobIsTyped, OrderPc
    <3> QED BY <1>4, <2>2, <3>4, <3>6, <3>7
  <2>3. \/ Stop(w)
        \/ ReadsCart(w, "create", job[w].form, TRUE)
        \/ \E f \in Unpaid : \E pc \in {"abandon", "intent"}, goesOn \in BOOLEAN :
             ReadsCart(w, pc, f, goesOn)
    BY <1>8 DEF ReadCart, ReadsCart
  <2>4. \A f \in Unpaid : f \in DOMAIN orders BY DEF Unpaid
  <2>5. CASE ReadsCart(w, "create", job[w].form, TRUE)
    <3>1. TRUE \in BOOLEAN OBVIOUS
    <3> QED BY <2>2, <2>5, <3>1, Zenon
  <2>6. CASE \E f \in Unpaid : \E pc \in {"abandon", "intent"}, goesOn \in BOOLEAN :
               ReadsCart(w, pc, f, goesOn)
    <3>1. PICK f \in Unpaid : \E pc \in {"abandon", "intent"}, goesOn \in BOOLEAN :
                 ReadsCart(w, pc, f, goesOn)
      BY <2>6, Zenon
    <3>2. PICK pc \in {"abandon", "intent"} : \E goesOn \in BOOLEAN : ReadsCart(w, pc, f, goesOn)
      BY <3>1, Zenon
    <3>3. (pc \in {"abandon", "intent"} /\ f \in DOMAIN orders) \/ (pc = "create" /\ f = job[w].form)
      BY <2>4, Zenon
    <3>4. PICK goesOn \in BOOLEAN : ReadsCart(w, pc, f, goesOn) BY <3>2, Zenon
    <3> QED BY <2>2, <3>3, <3>4, Zenon
  <2> QED BY <1>5, <2>3, <2>5, <2>6
<1> QED BY <1>6, <1>7, <1>8

\* What an order is, whether it is abandoned, settled, unlinked or given an intent.
LEMMA OrderIs ==
  ASSUME Typing, NEW f \in DOMAIN orders
  PROVE  /\ orders[f] \in Order
         /\ [orders[f] EXCEPT !.status = "failed", !.linked = FALSE] \in Order
         /\ [orders[f] EXCEPT !.status = "paid"] \in Order
         /\ [orders[f] EXCEPT !.linked = FALSE] \in Order
         /\ \A i \in DOMAIN intents : [orders[f] EXCEPT !.intent = i] \in Order
<1>1. orders[f] \in Order BY TypingParts DEF OrdersTyped
<1> QED BY <1>1, IdsAre DEF Order, OrderStatus

\* An order that is replaced by an order leaves the orders typed.
LEMMA ReplacedOrder ==
  ASSUME Typing, NEW f, NEW o, f \in DOMAIN orders => o \in Order,
         UNCHANGED forms, orders' = [orders EXCEPT ![f] = o]
  PROVE  OrdersTyped' /\ DOMAIN orders' = DOMAIN orders
BY TypingParts DEF OrdersTyped

\* An order that is abandoned or created leaves the state typed.
LEMMA PlaceStep ==
  ASSUME Typing, NEW w \in Worker, AbandonOrder(w) \/ CreateOrder(w)
  PROVE  Typing'
<1>1. cart \in Cart /\ job[w] \in Job /\ JobIsTyped(job[w], DOMAIN forms, DOMAIN orders, DOMAIN intents)
  BY TypingParts DEF BasketTyped, JobsTyped
<1>2. UNCHANGED <<writes, forms, intents, payments>>
  BY DEF AbandonOrder, CreateOrder, basket
<1>3. CASE AbandonOrder(w)
  <2> DEFINE f == job[w].order
  <2>1. UNCHANGED <<basket, forms, intents, payments>> /\ job[w].pc = "abandon"
    BY <1>3 DEF AbandonOrder, At
  <2>2. BasketTyped' BY <2>1, StaysTyped
  <2>3. f \in DOMAIN orders /\ job[w].form \in DOMAIN forms BY <1>1, <2>1 DEF JobIsTyped
  <2>4. OrdersTyped' /\ DOMAIN orders' = DOMAIN orders
    <3>1. \/ orders' = [orders EXCEPT ![f] = [orders[f] EXCEPT !.status = "failed", !.linked = FALSE]]
          \/ orders' = orders
      BY <1>3, <2>3, OrderIs DEF AbandonOrder, Order
    <3>2. CASE orders' = orders BY <2>1, <3>2, StaysTyped
    <3>3. CASE orders' = [orders EXCEPT ![f] = [orders[f] EXCEPT !.status = "failed", !.linked = FALSE]]
      BY <2>1, <2>3, <3>3, OrderIs, ReplacedOrder
    <3> QED BY <3>1, <3>2, <3>3
  <2>5. CASE Stop(w) BY <1>2, <2>2, <2>4, <2>5, StopIs, IdleMoves, OrdersStep
  <2>6. CASE Goto(w, "create")
    <3> DEFINE j == [job[w] EXCEPT !.pc = "create"]
    <3>4. "create" \in Pc BY DEF Pc
    <3>1. Becomes(w, j) /\ j \in Job /\ j.pc = "create" /\ j.form = job[w].form
      BY <2>6, <3>4, GotoIs, Zenon
    <3> HIDE DEF j
    <3>2. JobIsTyped(j, DOMAIN forms, DOMAIN orders', DOMAIN intents)
      BY <2>3, <3>1 DEF JobIsTyped, OrderPc
    <3>3. j.pc \notin WritePc \cup FormPc /\ ~Replaces(j) BY <3>1 DEF WritePc, FormPc, Replaces
    <3> QED BY <1>2, <2>2, <2>4, <3>1, <3>2, <3>3, OrdersStep
  <2> QED BY <1>3, <2>5, <2>6 DEF AbandonOrder
<1>4. CASE CreateOrder(w)
  <2>1. UNCHANGED <<cart, writes>> /\ job[w].pc = "create" BY <1>4 DEF CreateOrder, At
  <2>2. job[w].form \in DOMAIN forms BY <1>1, <2>1 DEF JobIsTyped
  <2>3. session' \in Session BY <1>4, SessionIs DEF CreateOrder, Become, SessionStatus
  <2>4. BasketTyped' BY <2>1, <2>3, TypingParts DEF BasketTyped
  <2>5. CASE Stop(w) /\ UNCHANGED orders
    <3>1. OrdersTyped' BY <1>2, <2>5, StaysTyped
    <3> QED BY <1>2, <2>4, <2>5, <3>1, StopIs, IdleMoves, OrdersStep
  <2>6. CASE ~(Stop(w) /\ UNCHANGED orders)
    <3> DEFINE o == [status |-> "pending_payment", group |-> job[w].seen # "none",
                     lines |-> job[w].print.lines, linked |-> TRUE, intent |-> 0]
               j == [job[w] EXCEPT !.pc = "intent", !.order = job[w].form]
    <3>1. orders' = Put(orders, job[w].form, o) /\ Becomes(w, j)
      BY <1>4, <2>6 DEF CreateOrder, Becomes
    <3>2. o \in Order
      <4> DEFINE g == job[w].seen # "none"
      <4>1. g \in BOOLEAN OBVIOUS
      <4>2. job[w].print.lines \in Cart BY <1>1 DEF Job, Snapshot
      <4> HIDE DEF g
      <4>3. [status |-> "pending_payment", group |-> g, lines |-> job[w].print.lines,
             linked |-> TRUE, intent |-> 0] \in Order
        BY <4>1, <4>2 DEF Order, OrderStatus
      <4> QED BY <4>3 DEF g
    <3> HIDE DEF o
    <3>3. OrdersTyped' /\ DOMAIN orders \subseteq DOMAIN orders' /\ job[w].form \in DOMAIN orders'
      <4>1. DOMAIN orders' = DOMAIN orders \cup {job[w].form} BY <3>1 DEF Put
      <4>2. \A f \in DOMAIN orders' : orders'[f] \in Order
        BY <3>1, <3>2, TypingParts DEF Put, OrdersTyped
      <4>3. orders' = [f \in DOMAIN orders' |-> orders'[f]] BY <3>1 DEF Put
      <4> HIDE DEF o
      <4> QED BY <1>2, <2>2, <4>1, <4>2, <4>3, TypingParts DEF OrdersTyped
    <3>4. j \in Job /\ j.pc = "intent" /\ j.form = job[w].form /\ j.order = job[w].form
      BY <1>1, <2>2, IdsAre DEF Job, Pc
    <3> HIDE DEF j
    <3>5. JobIsTyped(j, DOMAIN forms, DOMAIN orders', DOMAIN intents)
      BY <2>2, <3>3, <3>4 DEF JobIsTyped, OrderPc
    <3>6. j.pc \notin WritePc \cup FormPc /\ ~Replaces(j) BY <3>4 DEF WritePc, FormPc, Replaces
    <3> QED BY <1>2, <2>4, <3>1, <3>3, <3>5, <3>6, OrdersStep
  <2> QED BY <2>5, <2>6
<1> QED BY <1>3, <1>4

-----------------------------------------------------------------------------
(* The steps of a payment intent.                                          *)

\* An intent that is answered, cancelled or paid is as much an intent as before.
LEMMA ChangedIntent ==
  ASSUME Typing, NEW i, NEW e, i \in DOMAIN intents => e \in Intent
           /\ e.stable = intents[i].stable /\ e.order = intents[i].order,
         intents' = [intents EXCEPT ![i] = e], UNCHANGED payments
  PROVE  /\ IntentsTyped' /\ OwnIntents(intents') /\ DOMAIN intents' = DOMAIN intents
         /\ Unstable(intents') = Unstable(intents)
<1>1. intents \in Seq(Intent) /\ payments \subseteq DOMAIN intents BY TypingParts DEF IntentsTyped
<1>2. DOMAIN intents' = DOMAIN intents BY <1>1
<1>3. intents' \in Seq(Intent)
  <2>1. intents \in [1..Len(intents) -> Intent] /\ Len(intents) \in Nat BY <1>1, LenProperties
  <2>2. intents' \in [1..Len(intents) -> Intent] BY <2>1
  <2> QED BY <2>1, <2>2, SeqDef
<1>4. \A k \in DOMAIN intents :
        intents'[k].stable = intents[k].stable /\ intents'[k].order = intents[k].order
  BY <1>1
<1>5. OwnIntents(intents) BY TypingParts DEF WithinBounds, OwnIntents
<1> QED BY <1>1, <1>2, <1>3, <1>4, <1>5 DEF IntentsTyped, OwnIntents, Unstable

\* An intent's status is its own to change.
LEMMA IntentIs ==
  ASSUME Typing, NEW i \in DOMAIN intents
  PROVE  /\ intents[i] \in Intent /\ intents[i].order \in FormId
         /\ \A s \in {"open", "succeeded", "canceled"} :
              /\ [intents[i] EXCEPT !.status = s] \in Intent
              /\ [intents[i] EXCEPT !.status = s].stable = intents[i].stable
              /\ [intents[i] EXCEPT !.status = s].order = intents[i].order
         /\ [intents[i] EXCEPT !.shown = TRUE] \in Intent
         /\ [intents[i] EXCEPT !.shown = TRUE].stable = intents[i].stable
         /\ [intents[i] EXCEPT !.shown = TRUE].order = intents[i].order
<1>1. intents[i] \in Intent BY TypingParts DEF IntentsTyped
<1> QED BY <1>1 DEF Intent

\* What is learned of an intent keeps it an intent.
LEMMA AnsweredIntent ==
  ASSUME Typing, NEW i, Answer(i), UNCHANGED payments
  PROVE  /\ IntentsTyped' /\ OwnIntents(intents') /\ DOMAIN intents' = DOMAIN intents
         /\ Unstable(intents') = Unstable(intents)
<1>1. intents' = [intents EXCEPT ![i] = [intents[i] EXCEPT !.shown = TRUE]] BY DEF Answer
<1> QED BY <1>1, IntentIs, ChangedIntent

\* An intent that an order gets for itself, and one that replaces another.
LEMMA MadeIntent ==
  ASSUME Typing, NEW f \in FormId, NEW stable \in {TRUE, FALSE}, UNCHANGED payments,
         intents' = Append(intents, [order |-> f, status |-> "open", stable |-> stable, shown |-> FALSE]),
         stable => \A i \in DOMAIN intents : intents[i].order = f => ~intents[i].stable
  PROVE  /\ IntentsTyped' /\ OwnIntents(intents')
         /\ DOMAIN intents \subseteq DOMAIN intents' /\ Len(intents') \in DOMAIN intents'
         /\ stable => Unstable(intents') = Unstable(intents)
         /\ ~stable => Cardinality(Unstable(intents')) = Cardinality(Unstable(intents)) + 1
<1> DEFINE e == [order |-> f, status |-> "open", stable |-> stable, shown |-> FALSE]
           n == Len(intents) + 1
<1>1. intents \in Seq(Intent) /\ payments \subseteq DOMAIN intents BY TypingParts DEF IntentsTyped
<1>2. e \in Intent /\ e.order = f /\ e.stable = stable BY DEF Intent
<1>3. intents' = Append(intents, e) OBVIOUS
<1> HIDE DEF e
<1>4. /\ intents' \in Seq(Intent) /\ Len(intents') = n
      /\ \A k \in 1..Len(intents) : intents'[k] = intents[k]
      /\ intents'[n] = e
  BY <1>1, <1>2, <1>3, AppendProperties
<1>5. DOMAIN intents = 1..Len(intents) /\ DOMAIN intents' = 1..n /\ Len(intents) \in Nat
  BY <1>1, <1>4, LenProperties
<1> HIDE DEF n
<1>6. DOMAIN intents' = DOMAIN intents \cup {n} /\ n \notin DOMAIN intents BY <1>5 DEF n
<1>7. \A k \in DOMAIN intents : intents'[k] = intents[k] BY <1>4, <1>5
<1>8. OwnIntents(intents) BY TypingParts DEF WithinBounds, OwnIntents
<1>9. OwnIntents(intents')
  BY <1>2, <1>4, <1>6, <1>7, <1>8 DEF OwnIntents
<1>10. IntentsTyped' BY <1>1, <1>4, <1>6 DEF IntentsTyped
<1>11. ASSUME stable PROVE Unstable(intents') = Unstable(intents)
  BY <1>2, <1>4, <1>6, <1>7, <1>11 DEF Unstable
<1>12. ASSUME ~stable PROVE Cardinality(Unstable(intents')) = Cardinality(Unstable(intents)) + 1
  <2>1. Unstable(intents') = Unstable(intents) \cup {n}
    BY <1>2, <1>4, <1>6, <1>7, <1>12 DEF Unstable
  <2>2. n \notin Unstable(intents) BY <1>6 DEF Unstable
  <2>3. IsFiniteSet(Unstable(intents)) BY <1>1, UnstableIsNumber DEF Unstable
  <2> QED BY <2>1, <2>2, <2>3, FS_AddElement
<1>13. Len(intents') \in DOMAIN intents' BY <1>4, <1>6
<1> QED BY <1>6, <1>9, <1>10, <1>11, <1>12, <1>13

\* The intents there are have numbers within the bounds, if the step keeps within them.
LEMMA NewIntentIds ==
  ASSUME Typing, NEW w \in Worker, NEW j, Becomes(w, j), IntentsMove(w, j),
         IntentsTyped', OwnIntents(intents')
  PROVE  DOMAIN intents' \subseteq IntentId
<1>1. intents' \in Seq(Intent) BY DEF IntentsTyped
<1>2. Cardinality(Unstable(intents')) <= MaxReplaced
  <2>1. Cardinality(Unstable(intents')) \in Nat BY <1>1, UnstableIsNumber DEF Unstable
  <2>2. Cardinality({v \in Worker : Replaces(job'[v])}) \in Nat
    BY CheckoutAssumption, FS_Subset, FS_CardinalityType
  <2>3. Cardinality(Unstable(intents')) + Cardinality({v \in Worker : Replaces(job'[v])}) <= MaxReplaced
    BY IntentsStayWithin
  <2> DEFINE m == Cardinality(Unstable(intents'))
             n == Cardinality({v \in Worker : Replaces(job'[v])})
  <2>4. m \in Nat /\ n \in Nat /\ m + n <= MaxReplaced BY <2>1, <2>2, <2>3, Zenon
  <2> HIDE DEF m, n
  <2>5. m <= MaxReplaced BY <2>4, BoundsAreNumbers
  <2> QED BY <2>5 DEF m
<1>3. Len(intents') <= MaxForms + MaxReplaced
  <2>1. Cardinality({i \in DOMAIN intents' : ~intents'[i].stable}) <= MaxReplaced
    BY <1>2 DEF Unstable
  <2>2. \A i, k \in DOMAIN intents' :
          intents'[i].stable /\ intents'[k].stable /\ intents'[i].order = intents'[k].order => i = k
    BY DEF OwnIntents
  <2> QED BY <1>1, <2>1, <2>2, IntentsWithin, Zenon
<1>4. DOMAIN intents' = 1..Len(intents') /\ Len(intents') \in Nat BY <1>1, LenProperties
<1> QED BY <1>3, <1>4, BoundsAreNumbers DEF IntentId

\* An order's pay page starts from an order there is.
LEMMA ResumeStep ==
  ASSUME Typing, NEW w \in Worker, Resume(w)
  PROVE  Typing'
<1>1. PICK f \in DOMAIN orders : Begin(w, [Idle EXCEPT !.pc = "intent", !.form = f, !.order = f])
  BY DEF Resume
<1> DEFINE j == [Idle EXCEPT !.pc = "intent", !.form = f, !.order = f]
<1>2. UNCHANGED <<basket, forms, money>> BY DEF Resume
<1>3. Becomes(w, j) BY <1>1, BeginIs
<1>4. j \in Job /\ j.pc = "intent" /\ j.form = f /\ j.order = f BY IdsAre, IdleIsTyped DEF Job, Pc
<1> HIDE DEF j
<1>5. JobIsTyped(j, DOMAIN forms, DOMAIN orders', DOMAIN intents)
  BY <1>2, <1>4, IdsAre DEF JobIsTyped, OrderPc, money
<1>6. j.pc \notin WritePc \cup FormPc /\ ~Replaces(j) BY <1>4 DEF WritePc, FormPc, Replaces
<1>7. BasketTyped' /\ OrdersTyped' BY <1>2, StaysTyped DEF money
<1> QED BY <1>2, <1>3, <1>5, <1>6, <1>7, OrdersStep DEF basket, money

\* An intent is looked up, cancelled, made or stored for an order that exists.
LEMMA LookUpStep ==
  ASSUME Typing, NEW w \in Worker, ReadOrder(w)
  PROVE  Typing'
<1>1. UNCHANGED <<basket, forms, orders, payments>> /\ job[w].pc = "intent" BY DEF ReadOrder, At
<1>2. /\ job[w] \in Job /\ job[w].form \in DOMAIN forms /\ job[w].order \in DOMAIN orders
      /\ UNCHANGED <<writes, forms, orders>>
  BY <1>1, TypingParts DEF JobsTyped, JobIsTyped, OrderPc, basket
<1>3. BasketTyped' /\ OrdersTyped' BY <1>1, StaysTyped
<1> DEFINE o == orders[job[w].order]
           Looked(pc, replaces) ==
             job' = [job EXCEPT ![w].pc = pc, ![w].intent = o.intent, ![w].flag = replaces]
<1>4. o.intent \in {0} \cup IntentId BY <1>2, OrderIs DEF Order
<1>5. ASSUME NEW pc \in {"make", "cancel"}, NEW replaces \in {TRUE, FALSE}, Looked(pc, replaces),
             replaces => MayReplace, UNCHANGED intents
      PROVE  Typing'
  <2> DEFINE j == [job[w] EXCEPT !.pc = pc, !.intent = o.intent, !.flag = replaces]
  <2>1. Becomes(w, j) BY <1>5 DEF Becomes
  <2>2. j \in Job /\ j.pc = pc /\ j.form = job[w].form /\ j.order = job[w].order /\ j.flag = replaces
    BY <1>2, <1>4 DEF Job, Pc
  <2> HIDE DEF j
  <2>3. JobIsTyped(j, DOMAIN forms, DOMAIN orders', DOMAIN intents')
    BY <1>2, <2>2 DEF JobIsTyped, OrderPc
  <2>4. j.pc \notin WritePc \cup FormPc BY <2>2 DEF WritePc, FormPc
  <2>5. IntentsMove(w, j) BY <1>5, <2>2 DEF IntentsMove, Replaces
  <2>6. IntentsTyped' /\ OwnIntents(intents') BY <1>1, <1>5, StaysTyped
  <2> QED BY <1>1, <1>2, <1>3, <1>5, <2>1, <2>3, <2>4, <2>5, <2>6, MoneyStep
<1>6. CASE Stop(w) /\ UNCHANGED intents
  BY <1>1, <1>2, <1>3, <1>6, StopIs, IdleMoves, OrdersStep
<1>7. CASE Stop(w) /\ Answer(o.intent)
  <2>1. /\ IntentsTyped' /\ OwnIntents(intents') /\ DOMAIN intents' = DOMAIN intents
        /\ Unstable(intents') = Unstable(intents)
    BY <1>1, <1>7, AnsweredIntent
  <2>2. IntentsMove(w, Idle) BY <2>1, IdleMoves DEF IntentsMove
  <2> QED BY <1>2, <1>3, <1>7, <2>1, <2>2, StopIs, IdleMoves, MoneyStep
<1>8. \/ Stop(w) /\ UNCHANGED intents
      \/ Stop(w) /\ Answer(o.intent)
      \/ Looked("make", FALSE) /\ UNCHANGED intents
      \/ Looked("cancel", TRUE) /\ MayReplace /\ UNCHANGED intents
  BY DEF ReadOrder
<1> HIDE DEF o, Looked
<1> QED BY <1>5, <1>6, <1>7, <1>8

\* An intent that no longer fits is cancelled.
LEMMA CancelStep ==
  ASSUME Typing, NEW w \in Worker, CancelIntent(w)
  PROVE  Typing'
<1>1. UNCHANGED <<basket, forms, orders, payments>> /\ job[w].pc = "cancel" /\ Goto(w, "make")
  BY DEF CancelIntent, At
<1>2. /\ job[w] \in Job /\ job[w].form \in DOMAIN forms /\ job[w].order \in DOMAIN orders
      /\ UNCHANGED <<writes, forms, orders>>
  BY <1>1, TypingParts DEF JobsTyped, JobIsTyped, OrderPc, basket
<1>3. BasketTyped' /\ OrdersTyped' BY <1>1, StaysTyped
<1> DEFINE j == [job[w] EXCEPT !.pc = "make"]
<1>4. "make" \in Pc BY DEF Pc
<1>5. /\ Becomes(w, j) /\ j \in Job /\ j.pc = "make" /\ j.flag = job[w].flag
      /\ j.form = job[w].form /\ j.order = job[w].order
  BY <1>1, <1>4, GotoIs, Zenon
<1> HIDE DEF j
<1>6. /\ IntentsTyped' /\ OwnIntents(intents') /\ DOMAIN intents' = DOMAIN intents
      /\ Unstable(intents') = Unstable(intents)
  <2>1. CASE UNCHANGED intents BY <1>1, <2>1, StaysTyped
  <2>2. CASE intents' = [intents EXCEPT ![job[w].intent].status = "canceled"]
    <3>1. intents' = [intents EXCEPT ![job[w].intent] =
                        [intents[job[w].intent] EXCEPT !.status = "canceled"]]
      BY <2>2
    <3> QED BY <1>1, <3>1, IntentIs, ChangedIntent
  <2> QED BY <2>1, <2>2 DEF CancelIntent
<1>7. JobIsTyped(j, DOMAIN forms, DOMAIN orders', DOMAIN intents')
  BY <1>2, <1>5 DEF JobIsTyped, OrderPc
<1>8. j.pc \notin WritePc \cup FormPc BY <1>5 DEF WritePc, FormPc
<1>9. IntentsMove(w, j) BY <1>1, <1>5, <1>6 DEF IntentsMove, Replaces
<1> QED BY <1>2, <1>3, <1>5, <1>6, <1>7, <1>8, <1>9, <1>1, MoneyStep

\* The first intent of an order is made once; one that replaces another was counted.
LEMMA MakeStep ==
  ASSUME Typing, NEW w \in Worker, MakeIntent(w)
  PROVE  Typing'
<1>1. UNCHANGED <<basket, forms, orders, payments>> /\ job[w].pc = "make" BY DEF MakeIntent, At
<1>2. /\ job[w] \in Job /\ job[w].form \in DOMAIN forms /\ job[w].order \in DOMAIN orders
      /\ UNCHANGED <<writes, forms, orders>>
  BY <1>1, TypingParts DEF JobsTyped, JobIsTyped, OrderPc, basket
<1>3. BasketTyped' /\ OrdersTyped' BY <1>1, StaysTyped
<1>4. job[w].order \in FormId /\ job[w].flag \in {TRUE, FALSE} BY <1>2, IdsAre DEF Job
<1> DEFINE made == {i \in DOMAIN intents : intents[i].order = job[w].order /\ intents[i].stable}
           first == ~job[w].flag /\ made # {}
           id == IF first THEN CHOOSE i \in made : TRUE ELSE Len(intents')
           j == [job[w] EXCEPT !.pc = "store", !.intent = id]
<1>5. \/ first /\ UNCHANGED intents
      \/ /\ job[w].flag \/ made = {}
         /\ intents' = Append(intents, [order |-> job[w].order, status |-> "open",
                                        stable |-> ~job[w].flag, shown |-> FALSE])
  BY DEF MakeIntent
<1>6. Becomes(w, Idle) \/ Becomes(w, j)
  BY StopIs DEF MakeIntent, Becomes
<1>7. /\ IntentsTyped' /\ OwnIntents(intents')
      /\ DOMAIN intents \subseteq DOMAIN intents' /\ id \in DOMAIN intents'
      /\ \/ Unstable(intents') = Unstable(intents)
         \/ /\ Cardinality(Unstable(intents')) = Cardinality(Unstable(intents)) + 1
            /\ Replaces(job[w])
  <2>1. CASE first /\ UNCHANGED intents
    <3>1. IntentsTyped' /\ OwnIntents(intents') BY <1>1, <2>1, StaysTyped
    <3>2. id \in made BY <2>1
    <3> QED BY <2>1, <3>1, <3>2
  <2>2. CASE ~first
    <3> DEFINE Made(stable) == intents' = Append(intents,
                 [order |-> job[w].order, status |-> "open", stable |-> stable, shown |-> FALSE])
    <3>1. id = Len(intents') BY <2>2
    <3>2. CASE job[w].flag = TRUE
      <4>1. Made(FALSE) BY <1>5, <2>2, <3>2
      <4>2. Replaces(job[w]) BY <1>1, <3>2 DEF Replaces
      <4> QED BY <1>1, <1>4, <3>1, <4>1, <4>2, MadeIntent
    <3>3. CASE job[w].flag = FALSE
      <4>1. Made(TRUE) /\ made = {} BY <1>5, <2>2, <3>3
      <4>2. \A i \in DOMAIN intents : intents[i].order = job[w].order => ~intents[i].stable
        BY <4>1
      <4> QED BY <1>1, <1>4, <3>1, <4>1, <4>2, MadeIntent
    <3> QED BY <1>4, <3>2, <3>3
  <2> QED BY <1>5, <2>1, <2>2
<1> HIDE DEF id
<1>8. ASSUME NEW n, Becomes(w, n), JobIsTyped(n, DOMAIN forms, DOMAIN orders', DOMAIN intents'),
             n.pc \in {"idle", "store"}
      PROVE  Typing'
  <2>1. n.pc \notin WritePc \cup FormPc /\ ~Replaces(n) BY <1>8 DEF WritePc, FormPc, Replaces
  <2>2. IntentsMove(w, n) BY <1>7, <2>1 DEF IntentsMove
  <2> QED BY <1>1, <1>2, <1>3, <1>7, <1>8, <2>1, <2>2, MoneyStep
<1>9. CASE Becomes(w, Idle) BY <1>8, <1>9, IdleMoves, IdleIsTyped
<1>10. CASE Becomes(w, j)
  <2>1. j.pc = "store" /\ j.flag = job[w].flag BY <1>2 DEF Job
  <2>2. IntentsMove(w, j) BY <1>7, <2>1 DEF IntentsMove, Replaces
  <2>3. id \in IntentId BY <1>7, <1>10, <2>2, NewIntentIds
  <2>4. j \in Job /\ j.form = job[w].form /\ j.order = job[w].order /\ j.intent = id
    BY <1>2, <2>3 DEF Job, Pc
  <2> HIDE DEF j
  <2>5. JobIsTyped(j, DOMAIN forms, DOMAIN orders', DOMAIN intents')
    BY <1>2, <1>7, <2>1, <2>4 DEF JobIsTyped, OrderPc
  <2> QED BY <1>8, <1>10, <2>1, <2>5
<1> QED BY <1>6, <1>9, <1>10

\* The order is given the intent that was made for it.
LEMMA StoreStep ==
  ASSUME Typing, NEW w \in Worker, StoreIntent(w)
  PROVE  Typing'
<1>1. /\ UNCHANGED <<basket, forms, payments>> /\ job[w].pc = "store"
      /\ Stop(w) /\ Answer(job[w].intent)
      /\ orders' = [orders EXCEPT ![job[w].order].intent = job[w].intent]
  BY DEF StoreIntent, At
<1>2. job[w].order \in DOMAIN orders /\ job[w].intent \in DOMAIN intents /\ UNCHANGED writes
  BY <1>1, TypingParts DEF JobsTyped, JobIsTyped, OrderPc, basket
<1>3. BasketTyped' BY <1>1, StaysTyped
<1>4. orders' = [orders EXCEPT ![job[w].order] =
                   [orders[job[w].order] EXCEPT !.intent = job[w].intent]]
  BY <1>1
<1>5. OrdersTyped' /\ DOMAIN orders' = DOMAIN orders
  BY <1>1, <1>2, <1>4, OrderIs, ReplacedOrder
<1>6. /\ IntentsTyped' /\ OwnIntents(intents') /\ DOMAIN intents' = DOMAIN intents
      /\ Unstable(intents') = Unstable(intents)
  BY <1>1, AnsweredIntent
<1>7. IntentsMove(w, Idle) BY <1>6, IdleMoves DEF IntentsMove
<1> QED BY <1>1, <1>2, <1>3, <1>5, <1>6, <1>7, StopIs, IdleMoves, MoneyStep

-----------------------------------------------------------------------------
(* The steps of a payment.                                                 *)

\* A job about a payment holds an intent that exists while it records it.
LEMMA PaymentStep ==
  ASSUME Typing, NEW w \in Worker, Payment(w)
  PROVE  Typing'
<1>1. /\ job[w] \in Job /\ JobIsTyped(job[w], DOMAIN forms, DOMAIN orders, DOMAIN intents)
      /\ session \in Session /\ cart \in Cart
      /\ intents \in Seq(Intent) /\ payments \subseteq DOMAIN intents
  BY TypingParts DEF BasketTyped, JobsTyped, IntentsTyped
<1>2. ASSUME NEW pc \in {"settle", "clear", "wipe", "unlink"}, Goto(w, pc)
      PROVE  \E j : /\ Becomes(w, j) /\ j.pc \notin WritePc \cup FormPc /\ ~Replaces(j)
                    /\ \A os, is : JobIsTyped(j, DOMAIN forms, os, is)
  <2>1. pc \in Pc BY DEF Pc
  <2> DEFINE j == [job[w] EXCEPT !.pc = pc]
  <2>2. Becomes(w, j) /\ j \in Job /\ j.pc = pc BY <1>2, <2>1, GotoIs, Zenon
  <2> HIDE DEF j
  <2>3. j.pc \notin WritePc \cup FormPc /\ ~Replaces(j) BY <2>2 DEF WritePc, FormPc, Replaces
  <2>4. \A os, is : JobIsTyped(j, DOMAIN forms, os, is) BY <2>2 DEF JobIsTyped, OrderPc
  <2> QED BY <2>2, <2>3, <2>4
<1>3. ASSUME Stop(w)
      PROVE  \E j : /\ Becomes(w, j) /\ j.pc \notin WritePc \cup FormPc /\ ~Replaces(j)
                    /\ \A os, is : JobIsTyped(j, DOMAIN forms, os, is)
  BY <1>3, StopIs, IdleIsTyped, IdleMoves
<1>4. ASSUME NEW j, Becomes(w, j), j.pc \notin WritePc \cup FormPc, ~Replaces(j),
             \A os, is : JobIsTyped(j, DOMAIN forms, os, is),
             UNCHANGED <<writes, forms, intents>>, payments' \subseteq DOMAIN intents,
             BasketTyped', OrdersTyped', DOMAIN orders' = DOMAIN orders
      PROVE  Typing'
  <2>1. IntentsTyped' BY <1>1, <1>4 DEF IntentsTyped
  <2>2. OwnIntents(intents') BY <1>4, StaysTyped
  <2>3. IntentsMove(w, j) BY <1>4 DEF IntentsMove
  <2> QED BY <1>4, <2>1, <2>2, <2>3, MoneyStep
<1>5. CASE \E i \in DOMAIN intents : ReceivePayment(w, i)
  <2>1. PICK i \in DOMAIN intents : ReceivePayment(w, i) BY <1>5
  <2>2. UNCHANGED <<basket, forms, money>> BY <2>1 DEF ReceivePayment
  <2> DEFINE pc == IF orders[intents[i].order].status = "pending_payment" THEN "record" ELSE "clear"
             j == [Idle EXCEPT !.order = intents[i].order, !.intent = i, !.pc = pc]
  <2>3. Becomes(w, j) BY <2>1, BeginIs DEF ReceivePayment
  <2>4. pc \in {"record", "clear"} OBVIOUS
  <2> HIDE DEF pc
  <2>5. i \in IntentId /\ intents[i].order \in FormId BY IdsAre, IntentIs
  <2>6. j \in Job /\ j.pc = pc /\ j.intent = i BY <2>4, <2>5, IdleIsTyped DEF Job, Pc
  <2> HIDE DEF j
  <2>7. JobIsTyped(j, DOMAIN forms, DOMAIN orders', DOMAIN intents)
    BY <2>4, <2>6 DEF JobIsTyped, OrderPc
  <2>8. j.pc \notin WritePc \cup FormPc /\ ~Replaces(j) BY <2>4, <2>6 DEF WritePc, FormPc, Replaces
  <2>9. BasketTyped' /\ OrdersTyped' BY <2>2, StaysTyped DEF money
  <2> QED BY <2>2, <2>3, <2>7, <2>8, <2>9, OrdersStep DEF basket, money
<1>6. CASE RecordPayment(w)
  <2>1. UNCHANGED <<basket, forms, orders, intents>> /\ Goto(w, "settle") /\ job[w].pc = "record"
    BY <1>6 DEF RecordPayment, At
  <2>2. job[w].intent \in DOMAIN intents BY <1>1, <2>1 DEF JobIsTyped
  <2>3. payments' \subseteq DOMAIN intents BY <1>1, <1>6, <2>2 DEF RecordPayment
  <2>4. BasketTyped' /\ OrdersTyped' /\ UNCHANGED writes BY <2>1, StaysTyped DEF basket
  <2> QED BY <1>2, <1>4, <2>1, <2>3, <2>4
<1>7. CASE SettleOrder(w) \/ UnlinkCart(w)
  <2>1. UNCHANGED <<basket, forms, intents, payments>> /\ (Goto(w, "clear") \/ Stop(w))
    BY <1>7 DEF SettleOrder, UnlinkCart
  <2>2. \/ orders' = [orders EXCEPT ![job[w].order] = [orders[job[w].order] EXCEPT !.status = "paid"]]
        \/ orders' = [orders EXCEPT ![job[w].order] = [orders[job[w].order] EXCEPT !.linked = FALSE]]
    BY <1>7 DEF SettleOrder, UnlinkCart
  <2>3. OrdersTyped' /\ DOMAIN orders' = DOMAIN orders BY <2>1, <2>2, OrderIs, ReplacedOrder
  <2>4. BasketTyped' /\ UNCHANGED writes BY <2>1, StaysTyped DEF basket
  <2>5. \E j : /\ Becomes(w, j) /\ j.pc \notin WritePc \cup FormPc /\ ~Replaces(j)
               /\ \A os, is : JobIsTyped(j, DOMAIN forms, os, is)
    BY <1>2, <1>3, <2>1
  <2> QED BY <1>1, <1>4, <2>1, <2>3, <2>4, <2>5
<1>8. CASE ReadSourceCart(w) \/ WipeCart(w)
  <2>1. /\ UNCHANGED <<session, writes, forms, money>>
        /\ Goto(w, "wipe") \/ Goto(w, "unlink") \/ Stop(w)
        /\ cart' = cart \/ cart' = EmptyCart
    BY <1>8 DEF ReadSourceCart, WipeCart, basket
  <2>2. EmptyCart \in Cart BY CartIs DEF EmptyCart
  <2>3. BasketTyped' BY <1>1, <2>1, <2>2, TypingParts DEF BasketTyped
  <2>4. OrdersTyped' BY <2>1, StaysTyped DEF money
  <2>5. \E j : /\ Becomes(w, j) /\ j.pc \notin WritePc \cup FormPc /\ ~Replaces(j)
               /\ \A os, is : JobIsTyped(j, DOMAIN forms, os, is)
    BY <1>2, <1>3, <2>1
  <2> QED BY <1>1, <1>4, <2>1, <2>3, <2>4, <2>5 DEF money
<1> QED BY <1>5, <1>6, <1>7, <1>8 DEF Payment

\* Neither a deadline that passes nor a payment at Stripe is a step of a job.
LEMMA OutsideStep ==
  ASSUME Typing, Deadline \/ Pay
  PROVE  Typing'
<1>1. CASE Deadline
  <2>1. session' \in Session /\ cart' \in Cart
    BY <1>1, SessionIs, TypingParts DEF Deadline, BasketTyped
  <2> QED BY <1>1, <2>1, RestStep DEF Deadline
<1>2. CASE Pay
  <2>1. PICK i \in DOMAIN intents : intents' = [intents EXCEPT ![i].status = "succeeded"]
    BY <1>2 DEF Pay
  <2>2. UNCHANGED <<basket, forms, orders, payments, job>> BY <1>2 DEF Pay
  <2>3. intents' = [intents EXCEPT ![i] = [intents[i] EXCEPT !.status = "succeeded"]] BY <2>1
  <2>4. /\ IntentsTyped' /\ OwnIntents(intents') /\ DOMAIN intents' = DOMAIN intents
        /\ Unstable(intents') = Unstable(intents)
    BY <2>2, <2>3, IntentIs, ChangedIntent
  <2>5. BasketTyped' /\ FormsTyped' /\ OrdersTyped' BY <2>2, StaysTyped
  <2>6. JobsTyped' BY <2>2, <2>4, TypingParts DEF JobsTyped
  <2>7. WithinBounds' BY <2>2, <2>4, TypingParts DEF WithinBounds, Unstable, OwnIntents, basket, Replaces
  <2> QED BY <2>4, <2>5, <2>6, <2>7, TypingParts, PTL
<1> QED BY <1>1, <1>2

\* Every step keeps the state typed.
LEMMA NextKeepsTyping == Typing /\ [Next]_vars => Typing'
<1> SUFFICES ASSUME Typing, [Next]_vars PROVE Typing' OBVIOUS
<1>1. ASSUME NEW w \in Worker, CheckOut(w) PROVE Typing'
  BY <1>1, PageStep, SubmitStep, PlaceStep, ResumeStep, LookUpStep, CancelStep, MakeStep, StoreStep
     DEF CheckOut
<1>2. ASSUME NEW w \in Worker, Step(w) PROVE Typing'
  BY <1>1, <1>2, EditStep, GroupOrderStep, PaymentStep DEF Step
<1>3. CASE UNCHANGED vars
  <2>1. BasketTyped' /\ FormsTyped' /\ OrdersTyped' /\ IntentsTyped'
    BY <1>3, StaysTyped DEF vars, money
  <2>2. JobsTyped' BY <1>3, TypingParts DEF vars, money, JobsTyped
  <2>3. WithinBounds' BY <1>3, TypingParts DEF vars, money, basket, WithinBounds, Replaces
  <2> QED BY <2>1, <2>2, <2>3, TypingParts, PTL
<1> QED BY <1>2, <1>3, OutsideStep DEF Next

\* It is typed at first.
LEMMA InitIsTyped == Init => Typing
<1> SUFFICES ASSUME Init PROVE Typing OBVIOUS
<1>1. BasketTyped
  <2>1. EmptyCart \in Cart BY CartIs DEF EmptyCart
  <2> QED BY <2>1 DEF Init, BasketTyped, Session, SessionStatus
<1>2. FormsTyped BY EmptySeq DEF Init, FormsTyped, IsSequence
<1>3. OrdersTyped BY DEF Init, OrdersTyped
<1>4. IntentsTyped BY EmptySeq DEF Init, IntentsTyped
<1>5. JobsTyped BY IdleIsTyped DEF Init, JobsTyped
<1>6. WithinBounds
  <2>1. \A w \in Worker : job[w].pc = "idle" BY IdleIsTyped DEF Init
  <2>2. {w \in Worker : job[w].pc \in WritePc} = {} BY <2>1 DEF WritePc
  <2>3. {w \in Worker : job[w].pc \in FormPc} = {} BY <2>1 DEF FormPc
  <2>4. {w \in Worker : Replaces(job[w])} = {} BY <2>1 DEF Replaces
  <2>5. {i \in DOMAIN intents : ~intents[i].stable} = {} BY DEF Init
  <2>6. Len(forms) = 0 /\ writes = 0 /\ DOMAIN intents = {} BY EmptySeq DEF Init
  <2>7. /\ Cardinality({w \in Worker : job[w].pc \in WritePc}) = 0
        /\ Cardinality({w \in Worker : job[w].pc \in FormPc}) = 0
        /\ Cardinality({w \in Worker : Replaces(job[w])}) = 0
        /\ Cardinality({i \in DOMAIN intents : ~intents[i].stable}) = 0
    BY <2>2, <2>3, <2>4, <2>5, FS_EmptySet, Zenon
  <2>8. 0 + 0 <= MaxWrites /\ 0 + 0 <= MaxForms /\ 0 + 0 <= MaxReplaced BY BoundsAreNumbers
  <2>9. \A i, k \in DOMAIN intents :
          intents[i].stable /\ intents[k].stable /\ intents[i].order = intents[k].order => i = k
    BY <2>6
  <2> QED BY <2>6, <2>7, <2>8, <2>9, Zenon DEF WithinBounds
<1> QED BY <1>1, <1>2, <1>3, <1>4, <1>5, <1>6, TypingParts

\* Sessions, carts, orders, intents and jobs are what the code takes them for, jobs hold
\* forms, orders and intents that exist, and the bounds hold with all that is under way.
THEOREM TypingHolds == Spec => []Typing
BY InitIsTyped, NextKeepsTyping, PTL DEF Spec

\* The type invariant of the checkout.
THEOREM CheckoutIsTyped == Spec => []TypeOK
<1>1. Typing => TypeOK BY DEF Typing
<1> QED BY <1>1, TypingHolds, PTL

-----------------------------------------------------------------------------
(* One worker: what its job read of the session is still so.               *)

\* The only job there is.
LEMMA OnlyJob ==
  ASSUME Alone, Typing, NEW w \in Worker
  PROVE  DOMAIN job = Worker /\ job[w] \in Job /\ \A v \in Worker : v = w
BY TypingParts DEF Alone, JobsTyped

\* The job after each kind of step.
LEMMA Stopped ==
  ASSUME Alone, Typing, NEW w \in Worker, Stop(w)
  PROVE  job'[w] = Idle
BY OnlyJob DEF Stop

\* Or it goes on.
LEMMA Gone ==
  ASSUME Alone, Typing, NEW w \in Worker, NEW pc \in Pc, Goto(w, pc)
  PROVE  /\ job'[w].pc = pc /\ job'[w].seen = job[w].seen /\ job'[w].print = job[w].print
         /\ job'[w].form = job[w].form /\ job'[w].order = job[w].order
         /\ job'[w].intent = job[w].intent /\ job'[w].flag = job[w].flag
<1>1. job[w] \in Job /\ DOMAIN job = Worker BY OnlyJob
<1>2. job'[w] = [job[w] EXCEPT !.pc = pc] BY <1>1 DEF Goto
<1> QED BY <1>1, <1>2 DEF Job

\* A request that begins is at one of its first steps.
LEMMA Asked ==
  ASSUME Alone, Typing, NEW w \in Worker
  PROVE  /\ AskAdd(w) => job'[w].pc = "add"
         /\ AskSet(w) => job'[w].pc = "set"
         /\ AskClear(w) => job'[w].pc = "empty"
         /\ AskStart(w) => job'[w].pc = "start"
         /\ AskUnlock(w) => job'[w].pc = "unlock"
         /\ AskEnd(w) => job'[w].pc = "end"
         /\ AskExpire(w) => job'[w].pc = "expire"
<1>1. DOMAIN job = Worker BY OnlyJob
<1>2. AskAdd(w) => job'[w].pc = "add" BY <1>1 DEF AskAdd, Begin, Idle
<1>3. AskSet(w) => job'[w].pc = "set" BY <1>1 DEF AskSet, Begin, Idle
<1>4. AskClear(w) => job'[w].pc = "empty" BY <1>1 DEF AskClear, Begin, Idle
<1>5. AskStart(w) => job'[w].pc = "start" BY <1>1 DEF AskStart, Begin, Idle
<1>6. AskUnlock(w) => job'[w].pc = "unlock" BY <1>1 DEF AskUnlock, Begin, Idle
<1>7. AskEnd(w) => job'[w].pc = "end" BY <1>1 DEF AskEnd, Begin, Idle
<1>8. AskExpire(w) => job'[w].pc = "expire" BY <1>1 DEF AskExpire, Begin, Idle
<1> QED BY <1>2, <1>3, <1>4, <1>5, <1>6, <1>7, <1>8

\* A request about a line goes on to write, or stops.
LEMMA Matched ==
  ASSUME Alone, Typing, NEW w \in Worker, MatchLine(w)
  PROVE  job[w].pc = "add" /\ (job'[w] = Idle \/ job'[w].pc = "write")
<1>1. job[w] \in Job /\ DOMAIN job = Worker BY OnlyJob
<1>2. ASSUME NEW l, job' = [job EXCEPT ![w].pc = "write", ![w].line = l, ![w].quantity = cart[l].quantity]
      PROVE  job'[w].pc = "write"
  BY <1>1, <1>2 DEF Job
<1>3. "write" \in Pc BY DEF Pc
<1>4. /\ job[w].pc = "add"
      /\ \/ Stop(w) \/ Goto(w, "write")
         \/ \E l : job' = [job EXCEPT ![w].pc = "write", ![w].line = l, ![w].quantity = cart[l].quantity]
  BY DEF MatchLine, At
<1>5. ASSUME Goto(w, "write") PROVE job'[w].pc = "write" BY <1>3, <1>5, Gone
<1> QED BY <1>2, <1>4, <1>5, Stopped, Zenon

\* The page knows the cart as it was printed, a submission its form.
LEMMA Formed ==
  ASSUME Alone, Typing, NEW w \in Worker
  PROVE  /\ AskForm(w) => \/ job'[w].pc = "page" /\ job'[w].print = NoPrint
                          \/ Open /\ job'[w].pc = "lock" /\ job'[w].print = NoPrint
         /\ LockCart(w) => job'[w] = Idle \/ job'[w].pc = "print"
         /\ TakePrint(w) => job'[w].pc = "page" /\ job'[w].print = Fingerprint
<1>1. job[w] \in Job /\ DOMAIN job = Worker BY OnlyJob
<1>2. AskForm(w) => \/ job'[w].pc = "page" /\ job'[w].print = NoPrint
                    \/ Open /\ job'[w].pc = "lock" /\ job'[w].print = NoPrint
  BY <1>1 DEF AskForm, Begin, Idle
<1>3. "print" \in Pc BY DEF Pc
<1>4. LockCart(w) => job'[w] = Idle \/ job'[w].pc = "print" BY <1>3, Stopped, Gone DEF LockCart
<1>5. TakePrint(w) => job'[w].pc = "page" /\ job'[w].print = Fingerprint
  BY <1>1 DEF TakePrint, Job
<1> QED BY <1>2, <1>4, <1>5

\* A submission goes on to the intent of its form's order, reads the cart, or in a group
\* matches the cart first.
LEMMA Submitted ==
  ASSUME Alone, Typing, NEW w \in Worker, SubmitForm(w)
  PROVE  \E f \in DOMAIN forms :
           /\ job'[w].form = f /\ job'[w].order = f /\ job'[w].seen = session.status
           /\ \/ job'[w].pc = "intent" /\ f \in DOMAIN orders
              \/ job'[w].pc = "read" /\ session.status = "none"
              \/ job'[w].pc = "match" /\ Open
<1>1. DOMAIN job = Worker BY OnlyJob
<1>2. PICK f \in DOMAIN forms :
        /\ session.status = "none" \/ Open
        /\ Begin(w, [Idle EXCEPT !.form = f, !.order = f, !.seen = session.status,
             !.pc = IF f \in DOMAIN orders THEN "intent"
                    ELSE IF session.status = "none" THEN "read" ELSE "match"])
  BY DEF SubmitForm
<1> DEFINE pc == IF f \in DOMAIN orders THEN "intent"
                 ELSE IF session.status = "none" THEN "read" ELSE "match"
<1>3. job'[w] = [Idle EXCEPT !.form = f, !.order = f, !.seen = session.status, !.pc = pc]
  BY <1>1, <1>2 DEF Begin
<1>4. \/ pc = "intent" /\ f \in DOMAIN orders
      \/ pc = "read" /\ session.status = "none"
      \/ pc = "match" /\ Open
  BY <1>2
<1> HIDE DEF pc
<1>5. job'[w].form = f /\ job'[w].order = f /\ job'[w].seen = session.status /\ job'[w].pc = pc
  BY <1>3 DEF Idle
<1> QED BY <1>4, <1>5

\* What is read of the cart goes with the job.
LEMMA ReadBy ==
  ASSUME Alone, Typing, NEW w \in Worker, ReadCart(w)
  PROVE  \/ job'[w] = Idle
         \/ /\ job'[w].seen = job[w].seen /\ job'[w].form = job[w].form /\ job'[w].print.lines = cart
            /\ \/ job'[w].pc = "abandon" /\ job'[w].order \in Unpaid
               \/ job'[w].pc = "intent" /\ job'[w].order \in Unpaid /\ Reusable(job'[w].order)
               \/ job'[w].pc = "create" /\ Unpaid = {}
<1>1. job[w] \in Job /\ DOMAIN job = Worker BY OnlyJob
<1>2. ASSUME NEW pc, NEW f, NEW goesOn, ReadsCart(w, pc, f, goesOn)
      PROVE  /\ job'[w].seen = job[w].seen /\ job'[w].form = job[w].form /\ job'[w].print.lines = cart
             /\ job'[w].pc = pc /\ job'[w].order = f
  <2>1. job'[w] = [job[w] EXCEPT !.pc = pc, !.order = f, !.flag = goesOn, !.print.lines = cart]
    BY <1>1, <1>2 DEF ReadsCart
  <2> QED BY <1>1, <2>1 DEF Job, Snapshot
<1>3. \/ Stop(w)
      \/ \E f \in Unpaid : \E goesOn : ReadsCart(w, "abandon", f, goesOn)
      \/ \E f \in Unpaid : \E goesOn : Reusable(f) /\ ReadsCart(w, "intent", f, goesOn)
      \/ Unpaid = {} /\ \E goesOn : ReadsCart(w, "create", job[w].form, goesOn)
  BY DEF ReadCart, ReadsCart
<1> QED BY <1>2, <1>3, Stopped

\* An abandoned order is followed by a new one, a new one by its intent.
LEMMA Placed ==
  ASSUME Alone, Typing, NEW w \in Worker
  PROVE  /\ AbandonOrder(w) => \/ job'[w] = Idle
                               \/ /\ job'[w].pc = "create" /\ job'[w].seen = job[w].seen
                                  /\ job'[w].form = job[w].form /\ job'[w].print = job[w].print
         /\ CreateOrder(w) => \/ job'[w] = Idle /\ UNCHANGED <<orders, session>>
                              \/ /\ job'[w].pc = "intent" /\ job'[w].form = job[w].form
                                 /\ job'[w].order = job[w].form /\ job[w].form \notin DOMAIN orders
<1>1. job[w] \in Job /\ DOMAIN job = Worker BY OnlyJob
<1>2. "create" \in Pc BY DEF Pc
<1>3. ASSUME AbandonOrder(w)
      PROVE  \/ job'[w] = Idle
             \/ /\ job'[w].pc = "create" /\ job'[w].seen = job[w].seen
                /\ job'[w].form = job[w].form /\ job'[w].print = job[w].print
  BY <1>2, <1>3, Stopped, Gone DEF AbandonOrder
<1>4. ASSUME job' = [job EXCEPT ![w].pc = "intent", ![w].order = job[w].form]
      PROVE  job'[w].pc = "intent" /\ job'[w].form = job[w].form /\ job'[w].order = job[w].form
  BY <1>1, <1>4 DEF Job
<1>5. ASSUME CreateOrder(w)
      PROVE  \/ job'[w] = Idle /\ UNCHANGED <<orders, session>>
             \/ /\ job'[w].pc = "intent" /\ job'[w].form = job[w].form
                /\ job'[w].order = job[w].form /\ job[w].form \notin DOMAIN orders
  BY <1>4, <1>5, Stopped DEF CreateOrder
<1> QED BY <1>3, <1>5

\* On the way to an intent a job keeps its form and its order.
LEMMA Intended ==
  ASSUME Alone, Typing, NEW w \in Worker, ReadOrder(w) \/ CancelIntent(w) \/ MakeIntent(w) \/ StoreIntent(w)
  PROVE  \/ job'[w] = Idle
         \/ /\ job'[w].pc \in {"make", "cancel", "store"} /\ job[w].pc \in OrderPc
            /\ job'[w].form = job[w].form /\ job'[w].order = job[w].order
<1>1. job[w] \in Job /\ DOMAIN job = Worker BY OnlyJob
<1>3. ASSUME NEW i, job' = [job EXCEPT ![w].pc = "store", ![w].intent = i]
      PROVE  job'[w].pc = "store" /\ job'[w].form = job[w].form /\ job'[w].order = job[w].order
  BY <1>1, <1>3 DEF Job
<1>4. CASE ReadOrder(w)
  <2> DEFINE i == orders[job[w].order].intent
  <2>1. \/ Stop(w)
        \/ job' = [job EXCEPT ![w].pc = "make", ![w].intent = i, ![w].flag = FALSE]
        \/ job' = [job EXCEPT ![w].pc = "cancel", ![w].intent = i, ![w].flag = TRUE]
    BY <1>4 DEF ReadOrder
  <2> HIDE DEF i
  <2>2. ASSUME job' = [job EXCEPT ![w].pc = "make", ![w].intent = i, ![w].flag = FALSE]
        PROVE  job'[w].pc = "make" /\ job'[w].form = job[w].form /\ job'[w].order = job[w].order
    BY <1>1, <2>2 DEF Job
  <2>3. ASSUME job' = [job EXCEPT ![w].pc = "cancel", ![w].intent = i, ![w].flag = TRUE]
        PROVE  job'[w].pc = "cancel" /\ job'[w].form = job[w].form /\ job'[w].order = job[w].order
    BY <1>1, <2>3 DEF Job
  <2>4. job[w].pc = "intent" BY <1>4 DEF ReadOrder, At
  <2>5. \/ job'[w] = Idle
        \/ /\ job'[w].pc = "make" /\ job'[w].form = job[w].form /\ job'[w].order = job[w].order
        \/ /\ job'[w].pc = "cancel" /\ job'[w].form = job[w].form /\ job'[w].order = job[w].order
    BY <2>1, <2>2, <2>3, Stopped, Zenon
  <2> QED BY <2>4, <2>5 DEF OrderPc
<1>5. CASE MakeIntent(w)
  <2>1. Stop(w) \/ \E i : job' = [job EXCEPT ![w].pc = "store", ![w].intent = i]
    BY <1>5 DEF MakeIntent
  <2> QED BY <1>3, <1>5, <2>1, Stopped DEF MakeIntent, At, OrderPc
<1>6. CASE CancelIntent(w)
  <2>1. "make" \in Pc BY DEF Pc
  <2> QED BY <1>6, <2>1, Gone DEF CancelIntent, At, OrderPc
<1>7. CASE StoreIntent(w) BY <1>7, Stopped DEF StoreIntent
<1> QED BY <1>4, <1>5, <1>6, <1>7

\* The pay page goes on with an order there is.
LEMMA Resumed ==
  ASSUME Alone, Typing, NEW w \in Worker, Resume(w)
  PROVE  /\ job'[w].pc = "intent" /\ job'[w].form = job'[w].order /\ job'[w].order \in DOMAIN orders
BY OnlyJob DEF Resume, Begin, Idle

\* A payment is about the intent's order until the cart is cleared.
LEMMA Settled ==
  ASSUME Alone, Typing, NEW w \in Worker
  PROVE  /\ \A i \in DOMAIN intents : ReceivePayment(w, i) =>
              /\ job'[w].order = intents[i].order
              /\ job'[w].pc = IF orders[intents[i].order].status = "pending_payment"
                              THEN "record" ELSE "clear"
         /\ RecordPayment(w) => job'[w].pc = "settle" /\ job'[w].order = job[w].order
         /\ SettleOrder(w) => job'[w].pc = "clear" /\ job'[w].order = job[w].order
         /\ ReadSourceCart(w) =>
              \/ job'[w] = Idle /\ ~orders[job[w].order].linked
              \/ job'[w].pc = "wipe" /\ job'[w].order = job[w].order /\ orders[job[w].order].linked
         /\ WipeCart(w) => job'[w].pc = "unlink" /\ job'[w].order = job[w].order
         /\ UnlinkCart(w) => job'[w] = Idle
<1>1. DOMAIN job = Worker BY OnlyJob
<1>2. {"settle", "clear", "wipe", "unlink"} \subseteq Pc BY DEF Pc
<1>3. ASSUME NEW i \in DOMAIN intents, ReceivePayment(w, i)
      PROVE  /\ job'[w].order = intents[i].order
             /\ job'[w].pc = IF orders[intents[i].order].status = "pending_payment"
                             THEN "record" ELSE "clear"
  <2> DEFINE pc == IF orders[intents[i].order].status = "pending_payment" THEN "record" ELSE "clear"
  <2>1. job'[w] = [Idle EXCEPT !.order = intents[i].order, !.intent = i, !.pc = pc]
    BY <1>1, <1>3 DEF ReceivePayment, Begin
  <2> HIDE DEF pc
  <2>2. job'[w].order = intents[i].order /\ job'[w].pc = pc BY <2>1 DEF Idle
  <2> QED BY <2>2 DEF pc
<1>4. RecordPayment(w) => job'[w].pc = "settle" /\ job'[w].order = job[w].order
  BY <1>2, Gone DEF RecordPayment
<1>5. SettleOrder(w) => job'[w].pc = "clear" /\ job'[w].order = job[w].order
  BY <1>2, Gone DEF SettleOrder
<1>6. ASSUME ReadSourceCart(w)
      PROVE  \/ job'[w] = Idle /\ ~orders[job[w].order].linked
             \/ job'[w].pc = "wipe" /\ job'[w].order = job[w].order /\ orders[job[w].order].linked
  BY <1>2, <1>6, Gone, Stopped DEF ReadSourceCart
<1>7. WipeCart(w) => job'[w].pc = "unlink" /\ job'[w].order = job[w].order
  BY <1>2, Gone DEF WipeCart
<1>8. UnlinkCart(w) => job'[w] = Idle BY Stopped DEF UnlinkCart
<1> QED BY <1>3, <1>4, <1>5, <1>6, <1>7, <1>8

-----------------------------------------------------------------------------
(* One worker: what its job read of the session is still so.               *)

\* The worker's job is the only one that may rely on the session.
LEMMA ReadSoFar ==
  ASSUME Alone, Typing, NEW w \in Worker, AsRead(job[w])'
  PROVE  SessionIsAsRead'
BY OnlyJob DEF SessionIsAsRead

\* Most steps ask nothing of the session.
Unasked == {"idle", "empty", "start", "print", "page", "intent", "cancel", "make", "store",
            "record", "settle", "clear", "wipe", "unlink"}

\* A job at the other steps does not.
LEMMA UnaskedIsRead ==
  ASSUME Alone, Typing, NEW w \in Worker, job'[w].pc \in Unasked
  PROVE  SessionIsAsRead'
<1>1. AsRead(job[w])' BY DEF AsRead, Unasked, WritePc
<1> QED BY <1>1, ReadSoFar

\* So is one that stopped.
LEMMA StopIsRead ==
  ASSUME Alone, Typing, NEW w \in Worker, job'[w] = Idle
  PROVE  SessionIsAsRead'
BY IdleIsTyped, UnaskedIsRead DEF Unasked

\* Requests about lines write only while the cart is open.
LEMMA EditIsRead ==
  ASSUME Alone, Typing, SessionIsAsRead, NEW w \in Worker, Edit(w)
  PROVE  SessionIsAsRead'
<1>1. UNCHANGED session
  BY DEF Edit, AskAdd, MatchLine, WriteLine, AskSet, SetLine, AskClear, EmptyLines, basket
<1>2. ASSUME session.status # "locked_checkout", job'[w].pc \in WritePc
      PROVE  SessionIsAsRead'
  <2>1. AsRead(job[w])' BY <1>1, <1>2 DEF AsRead, WritePc
  <2> QED BY <2>1, ReadSoFar
<1>3. CASE AskAdd(w) \/ AskSet(w)
  <2>1. session.status # "locked_checkout"
    BY <1>3 DEF AskAdd, AskSet, enforceGroupOrderCartMutation
  <2> QED BY <1>2, <1>3, <2>1, Asked DEF WritePc
<1>4. CASE MatchLine(w)
  <2>1. job[w].pc = "add" /\ (job'[w] = Idle \/ job'[w].pc = "write") BY <1>4, Matched
  <2>2. session.status # "locked_checkout" BY <2>1 DEF SessionIsAsRead, AsRead, WritePc
  <2> QED BY <1>2, <2>1, <2>2, StopIsRead DEF WritePc
<1>5. CASE AskClear(w) BY <1>5, Asked, UnaskedIsRead DEF Unasked
<1>6. CASE WriteLine(w) \/ SetLine(w) \/ EmptyLines(w)
  BY <1>6, Stopped, StopIsRead DEF WriteLine, SetLine, EmptyLines
<1> QED BY <1>3, <1>4, <1>5, <1>6 DEF Edit

\* A group's request leaves what was read so.
LEMMA GroupOrderIsRead ==
  ASSUME Alone, Typing, SessionIsAsRead, NEW w \in Worker, GroupOrder(w)
  PROVE  SessionIsAsRead'
<1>1. CASE Join(w) \/ Leave(w)
  <2>1. job'[w].pc = "idle" BY <1>1 DEF Join, Leave, At
  <2> QED BY <2>1, UnaskedIsRead DEF Unasked
<1>2. CASE AskStart(w) BY <1>2, Asked, UnaskedIsRead DEF Unasked
<1>3. CASE AskUnlock(w) \/ AskEnd(w) \/ AskExpire(w)
  <2>1. UNCHANGED session BY <1>3 DEF AskUnlock, AskEnd, AskExpire, basket
  <2>2. \/ session.status = "locked_checkout" /\ job'[w].pc = "unlock"
        \/ session.status \notin {"none", "submitted"} /\ job'[w].pc = "end"
        \/ Open /\ job'[w].pc = "expire"
    BY <1>3, Asked DEF AskUnlock, AskEnd, AskExpire
  <2>3. AsRead(job[w])' BY <2>1, <2>2 DEF AsRead, WritePc, Open
  <2> QED BY <2>3, ReadSoFar
<1>4. CASE StartSession(w) \/ Unlock(w) \/ EndSession(w) \/ Expire(w)
  BY <1>4, Stopped, StopIsRead DEF StartSession, Unlock, EndSession, Expire
<1> QED BY <1>1, <1>2, <1>3, <1>4 DEF GroupOrder

\* A submission acts on the status it read.
LEMMA CheckOutIsRead ==
  ASSUME Alone, Typing, SessionIsAsRead, NEW w \in Worker, CheckOut(w)
  PROVE  SessionIsAsRead'
<1>1. AsRead(job[w]) BY DEF SessionIsAsRead
<1>2. CASE AskForm(w)
  <2>1. UNCHANGED session BY <1>2 DEF AskForm, basket
  <2>2. job'[w].pc = "page" \/ (Open /\ job'[w].pc = "lock") BY <1>2, Formed
  <2>3. AsRead(job[w])' BY <2>1, <2>2 DEF AsRead, WritePc, Open
  <2> QED BY <2>3, ReadSoFar
<1>3. CASE LockCart(w) \/ TakePrint(w) \/ ShowForm(w)
  <2>1. job'[w] = Idle \/ job'[w].pc \in Unasked BY <1>3, Formed, Stopped DEF ShowForm, Unasked
  <2> QED BY <2>1, StopIsRead, UnaskedIsRead
<1>4. CASE SubmitForm(w)
  <2>1. UNCHANGED session BY <1>4 DEF SubmitForm, basket
  <2>2. AsRead(job[w])' BY <1>4, <2>1, Submitted DEF AsRead, WritePc, Open
  <2> QED BY <2>2, ReadSoFar
<1>5. CASE MatchPrint(w)
  <2>1. CASE Goto(w, "read") /\ job[w].seen = "locked_checkout"
    <3>1. session.status = "locked_checkout" /\ UNCHANGED session
      BY <1>1, <1>5, <2>1 DEF MatchPrint, At, AsRead, basket
    <3>2. job'[w].pc = "read" /\ job'[w].seen = "locked_checkout" BY <2>1, Gone DEF Pc
    <3>3. AsRead(job[w])' BY <3>1, <3>2 DEF AsRead, WritePc
    <3> QED BY <3>3, ReadSoFar
  <2> QED BY <1>5, <2>1, Stopped, StopIsRead DEF MatchPrint
<1>6. CASE ReadCart(w) \/ AbandonOrder(w)
  <2>1. /\ UNCHANGED session
        /\ job[w].seen = session.status /\ job[w].seen \in {"none", "locked_checkout"}
    BY <1>1, <1>6 DEF ReadCart, AbandonOrder, At, AsRead, basket
  <2>2. \/ job'[w] = Idle
        \/ job'[w].seen = job[w].seen /\ job'[w].pc \in {"abandon", "intent", "create"}
    BY <1>6, ReadBy, Placed
  <2>3. CASE job'[w] # Idle
    <3>1. AsRead(job[w])' BY <2>1, <2>2, <2>3 DEF AsRead, WritePc
    <3> QED BY <3>1, ReadSoFar
  <2> QED BY <2>3, StopIsRead
<1>7. CASE CreateOrder(w) \/ Resume(w)
  <2>1. job'[w] = Idle \/ job'[w].pc \in Unasked BY <1>7, Placed, Resumed DEF Unasked
  <2> QED BY <2>1, StopIsRead, UnaskedIsRead
<1>8. CASE ReadOrder(w) \/ CancelIntent(w) \/ MakeIntent(w) \/ StoreIntent(w)
  <2>1. job'[w] = Idle \/ job'[w].pc \in Unasked BY <1>8, Intended DEF Unasked
  <2> QED BY <2>1, StopIsRead, UnaskedIsRead
<1> QED BY <1>2, <1>3, <1>4, <1>5, <1>6, <1>7, <1>8 DEF CheckOut

\* Every step leaves what was read so.
LEMMA NextIsRead ==
  ASSUME Alone, Typing, SessionIsAsRead, [Next]_vars
  PROVE  SessionIsAsRead'
<1>1. ASSUME NEW w \in Worker, Payment(w) PROVE SessionIsAsRead'
  <2>1. job'[w] = Idle \/ job'[w].pc \in Unasked BY <1>1, Settled DEF Payment, Unasked
  <2> QED BY <2>1, StopIsRead, UnaskedIsRead
<1>2. CASE Deadline \/ Pay \/ UNCHANGED vars
  <2>1. session'.status = session.status /\ UNCHANGED job
    BY <1>2, SessionIs DEF Deadline, Pay, vars, basket, Session
  <2> QED BY <2>1 DEF SessionIsAsRead, AsRead, Open
<1> QED BY <1>1, <1>2, EditIsRead, GroupOrderIsRead, CheckOutIsRead DEF Next, Step

\* With one worker, what a job read of the session is still so when it acts on it.
THEOREM SessionStaysAsRead == Alone => (Spec => []SessionIsAsRead)
<1> SUFFICES ASSUME Alone PROVE Spec => []SessionIsAsRead OBVIOUS
<1>1. Init => SessionIsAsRead
  BY IdleIsTyped DEF Init, SessionIsAsRead, AsRead, WritePc
<1>2. Typing /\ SessionIsAsRead /\ [Next]_vars => SessionIsAsRead' BY NextIsRead
<1> QED BY <1>1, <1>2, TypingHolds, PTL DEF Spec

\* What a step does to a locked cart.
LockIsKept ==
  session.status = "locked_checkout" /\ session'.status = "locked_checkout" =>
    DOMAIN cart' \subseteq DOMAIN cart /\ \A l \in DOMAIN cart' : cart'[l] = cart[l]

\* No step of the one job adds to a locked cart.
LEMMA StepKeepsLock ==
  ASSUME Alone, Typing, SessionIsAsRead, [Next]_vars
  PROVE  LockIsKept
<1>1. ASSUME NEW S \in SUBSET DOMAIN cart, cart' = Only(cart, S) PROVE LockIsKept
  BY <1>1 DEF Only, LockIsKept
<1>2. CASE UNCHANGED cart BY <1>2 DEF LockIsKept
<1>3. CASE cart' = EmptyCart BY <1>3 DEF LockIsKept, EmptyCart
<1>4. ASSUME NEW w \in Worker, Edit(w) PROVE LockIsKept
  <2>1. job[w].pc \in WritePc => session.status # "locked_checkout" BY DEF SessionIsAsRead, AsRead
  <2>2. WriteLine(w) \/ SetLine(w) => session.status # "locked_checkout"
    BY <2>1 DEF WriteLine, SetLine, At, WritePc
  <2>3. EmptyLines(w) => LockIsKept BY <1>3 DEF EmptyLines
  <2>4. AskAdd(w) \/ MatchLine(w) \/ AskSet(w) \/ AskClear(w) => LockIsKept
    BY <1>2 DEF AskAdd, MatchLine, AskSet, AskClear, basket
  <2> QED BY <1>4, <2>2, <2>3, <2>4 DEF Edit, LockIsKept
<1>5. ASSUME NEW w \in Worker, GroupOrder(w) PROVE LockIsKept
  <2>1. CASE Leave(w) BY <1>1, <2>1 DEF Leave
  <2>2. CASE StartSession(w)
    BY <1>2, <2>2, SessionIs DEF StartSession, LockIsKept, Session
  <2>3. CASE EndSession(w) BY <1>3, <2>3 DEF EndSession
  <2>4. CASE ~(Leave(w) \/ StartSession(w) \/ EndSession(w))
    BY <1>2, <1>5, <2>4 DEF GroupOrder, Join, AskStart, AskUnlock, Unlock, AskEnd, AskExpire, Expire, basket
  <2> QED BY <2>1, <2>2, <2>3, <2>4
<1>6. ASSUME NEW w \in Worker, CheckOut(w) PROVE LockIsKept
  BY <1>2, <1>6 DEF CheckOut, AskForm, LockCart, TakePrint, ShowForm, SubmitForm, MatchPrint, ReadCart,
     AbandonOrder, CreateOrder, Resume, ReadOrder, CancelIntent, MakeIntent, StoreIntent, basket
<1>7. ASSUME NEW w \in Worker, Payment(w) PROVE LockIsKept
  BY <1>2, <1>3, <1>7 DEF Payment, ReceivePayment, RecordPayment, SettleOrder, ReadSourceCart, WipeCart,
     UnlinkCart, basket
<1>8. CASE Deadline \/ Pay \/ UNCHANGED vars BY <1>2, <1>8 DEF Deadline, Pay, vars, basket
<1> QED BY <1>4, <1>5, <1>6, <1>7, <1>8 DEF Next, Step

\* With one worker, nothing is added to a locked cart and no line of it changes
\* (enforceGroupOrderCartMutation, assertCartSessionAccess).
THEOREM LockedCartStaysFixed == Alone => (Spec => LockedCartIsFixed)
<1> SUFFICES ASSUME Alone PROVE Spec => LockedCartIsFixed OBVIOUS
<1>1. Typing /\ SessionIsAsRead /\ [Next]_vars =>
        [session.status = "locked_checkout" /\ session'.status = "locked_checkout" =>
           DOMAIN cart' \subseteq DOMAIN cart /\ \A l \in DOMAIN cart' : cart'[l] = cart[l]]_vars
  BY StepKeepsLock DEF LockIsKept
<1> QED BY <1>1, TypingHolds, SessionStaysAsRead, PTL DEF Spec, LockedCartIsFixed

\* What a step does to a closed session.
ClosureIsKept ==
  session.status \in {"submitted", "ended", "expired"} /\ session'.status # session.status =>
    \/ \E w \in Worker : At(w, "start")
    \/ session.status # "submitted" /\ session'.status = "ended"

\* No step of the one job reopens a closed order, but a start.
LEMMA StepKeepsClosure ==
  ASSUME Alone, Typing, SessionIsAsRead, [Next]_vars
  PROVE  ClosureIsKept
<1>1. CASE session'.status = session.status BY <1>1 DEF ClosureIsKept
<1>2. CASE session.status \notin {"submitted", "ended", "expired"} BY <1>2 DEF ClosureIsKept
<1>3. session \in Session BY SessionIs
<1>4. ASSUME NEW w \in Worker, GroupOrder(w) PROVE ClosureIsKept
  <2>1. AsRead(job[w]) BY DEF SessionIsAsRead
  <2>2. CASE StartSession(w) BY <2>2 DEF StartSession, ClosureIsKept
  <2>3. CASE Unlock(w) \/ Expire(w)
    BY <1>2, <2>1, <2>3 DEF Unlock, Expire, At, AsRead, Open
  <2>4. CASE EndSession(w)
    BY <1>3, <2>1, <2>4 DEF EndSession, Become, At, AsRead, ClosureIsKept, Session
  <2>5. CASE Join(w) \/ Leave(w) BY <1>1, <1>3, <2>5 DEF Join, Leave, Session
  <2>6. CASE AskStart(w) \/ AskUnlock(w) \/ AskEnd(w) \/ AskExpire(w)
    BY <1>1, <2>6 DEF AskStart, AskUnlock, AskEnd, AskExpire, basket
  <2> QED BY <1>4, <2>2, <2>3, <2>4, <2>5, <2>6 DEF GroupOrder
<1>5. ASSUME NEW w \in Worker, CheckOut(w) PROVE ClosureIsKept
  <2>1. AsRead(job[w]) BY DEF SessionIsAsRead
  <2>2. CASE LockCart(w) BY <1>2, <2>1, <2>2 DEF LockCart, At, AsRead, Open
  <2>3. CASE CreateOrder(w)
    BY <1>1, <1>2, <2>1, <2>3 DEF CreateOrder, At, AsRead
  <2>4. CASE ~(LockCart(w) \/ CreateOrder(w))
    BY <1>1, <1>5, <2>4 DEF CheckOut, AskForm, TakePrint, ShowForm, SubmitForm, MatchPrint, ReadCart,
       AbandonOrder, Resume, ReadOrder, CancelIntent, MakeIntent, StoreIntent, basket
  <2> QED BY <2>2, <2>3, <2>4
<1>6. ASSUME NEW w \in Worker, Edit(w) \/ Payment(w) PROVE ClosureIsKept
  BY <1>1, <1>6 DEF Edit, AskAdd, MatchLine, WriteLine, AskSet, SetLine, AskClear, EmptyLines,
     Payment, ReceivePayment, RecordPayment, SettleOrder, ReadSourceCart, WipeCart, UnlinkCart, basket
<1>7. CASE Deadline \/ Pay \/ UNCHANGED vars
  BY <1>1, <1>3, <1>7 DEF Deadline, Pay, vars, basket, Session
<1> QED BY <1>4, <1>5, <1>6, <1>7 DEF Next, Step

\* With one worker, a closed group order is reopened by a new start only, and a submitted one
\* does not close in any other way.
THEOREM ClosedOrdersStayClosed == Alone => (Spec => ClosedStaysClosed)
<1> SUFFICES ASSUME Alone PROVE Spec => ClosedStaysClosed OBVIOUS
<1>1. Typing /\ SessionIsAsRead /\ [Next]_vars =>
        [session.status \in {"submitted", "ended", "expired"} /\ session'.status # session.status =>
           \/ \E w \in Worker : At(w, "start")
           \/ session.status # "submitted" /\ session'.status = "ended"]_vars
  BY StepKeepsClosure DEF ClosureIsKept
<1> QED BY <1>1, TypingHolds, SessionStaysAsRead, PTL DEF Spec, ClosedStaysClosed

-----------------------------------------------------------------------------
(* One worker: an order has the lines its form showed.                     *)

\* Orders stay for whom and of what they are, and a group order stays one.
OrdersKept ==
  /\ DOMAIN orders' = DOMAIN orders
  /\ \A f \in DOMAIN orders : orders'[f].group = orders[f].group /\ orders'[f].lines = orders[f].lines

StatusKept == session.status # "none" => session'.status # "none"

\* An order that is replaced keeps what a group's form showed.
LEMMA ReplacedIsKept ==
  ASSUME Typing, NEW f, NEW o, orders' = [orders EXCEPT ![f] = o],
         f \in DOMAIN orders => o.group = orders[f].group /\ o.lines = orders[f].lines
  PROVE  OrdersKept
BY TypingParts DEF OrdersKept, OrdersTyped

\* A session that exists stays.
LEMMA SessionIsKept ==
  ASSUME Typing
  PROVE  /\ UNCHANGED session => StatusKept
         /\ \A s : s # "none" /\ Become(s) => StatusKept
<1>1. session \in Session BY SessionIs
<1> QED BY <1>1 DEF StatusKept, Become, Session

\* What most steps keep.
Frame == UNCHANGED forms /\ OrdersKept /\ StatusKept

\* Requests about the cart keep to the frame.
LEMMA BasketFrame ==
  ASSUME Typing, NEW w \in Worker, Edit(w) \/ GroupOrder(w)
  PROVE  Frame
<1>1. session \in Session BY SessionIs
<1>2. CASE Edit(w)
  <2>1. UNCHANGED <<session, forms, orders>>
    BY <1>2 DEF Edit, AskAdd, MatchLine, WriteLine, AskSet, SetLine, AskClear, EmptyLines, basket, money
  <2> QED BY <2>1 DEF Frame, OrdersKept, StatusKept
<1>3. CASE GroupOrder(w)
  <2>1. UNCHANGED <<forms, orders>>
    BY <1>3 DEF GroupOrder, Join, Leave, AskStart, StartSession, AskUnlock, Unlock, AskEnd, EndSession,
       AskExpire, Expire, money
  <2>2. StatusKept
    <3>1. CASE Unlock(w) \/ EndSession(w) \/ Expire(w)
      BY <3>1, SessionIsKept DEF Unlock, EndSession, Expire
    <3>2. CASE Join(w) \/ Leave(w) \/ StartSession(w)
      BY <1>1, <3>2 DEF Join, Leave, StartSession, StatusKept, Session
    <3>3. CASE AskStart(w) \/ AskUnlock(w) \/ AskEnd(w) \/ AskExpire(w)
      BY <3>3 DEF AskStart, AskUnlock, AskEnd, AskExpire, StatusKept, basket
    <3> QED BY <1>3, <3>1, <3>2, <3>3 DEF GroupOrder
  <2> QED BY <2>1, <2>2 DEF Frame, OrdersKept
<1> QED BY <1>2, <1>3

\* So do the steps towards a payment, but those that show a form and create an order.
LEMMA CheckOutFrame ==
  ASSUME Typing, NEW w \in Worker,
         \/ AskForm(w) \/ LockCart(w) \/ TakePrint(w) \/ SubmitForm(w) \/ MatchPrint(w)
         \/ ReadCart(w) \/ AbandonOrder(w)
         \/ Resume(w) \/ ReadOrder(w) \/ CancelIntent(w) \/ MakeIntent(w) \/ StoreIntent(w)
  PROVE  Frame
<1>1. CASE AbandonOrder(w)
  <2>1. CASE UNCHANGED orders BY <1>1, <2>1 DEF AbandonOrder, Frame, OrdersKept, StatusKept, basket
  <2>2. CASE orders' = [orders EXCEPT ![job[w].order].status = "failed", ![job[w].order].linked = FALSE]
    <3> DEFINE f == job[w].order
               o == [orders[f] EXCEPT !.status = "failed", !.linked = FALSE]
    <3>1. f \in DOMAIN orders => orders[f] \in Order BY OrderIs
    <3>2. f \in DOMAIN orders => o.group = orders[f].group /\ o.lines = orders[f].lines
      BY <3>1 DEF Order
    <3>3. f \in DOMAIN orders
      BY <1>1, TypingParts DEF AbandonOrder, At, JobsTyped, JobIsTyped
    <3>4. orders' = [orders EXCEPT ![f] = o] BY <2>2, <3>1, <3>3 DEF Order
    <3> HIDE DEF o, f
    <3>5. OrdersKept BY <3>2, <3>4, ReplacedIsKept
    <3> QED BY <1>1, <3>5 DEF AbandonOrder, Frame, StatusKept, basket
  <2> QED BY <1>1, <2>1, <2>2 DEF AbandonOrder
<1>2. CASE StoreIntent(w)
  <2> DEFINE f == job[w].order
             o == [orders[f] EXCEPT !.intent = job[w].intent]
  <2>1. f \in DOMAIN orders => orders[f] \in Order BY OrderIs
  <2>2. f \in DOMAIN orders => o.group = orders[f].group /\ o.lines = orders[f].lines
    BY <2>1 DEF Order
  <2>3. orders' = [orders EXCEPT ![f] = o] BY <1>2 DEF StoreIntent
  <2> HIDE DEF o, f
  <2>4. OrdersKept BY <2>2, <2>3, ReplacedIsKept
  <2> QED BY <1>2, <2>4 DEF StoreIntent, Frame, StatusKept, basket
<1>3. CASE LockCart(w)
  BY <1>3, SessionIsKept DEF LockCart, Frame, OrdersKept, money
<1>4. CASE \/ AskForm(w) \/ TakePrint(w) \/ SubmitForm(w) \/ MatchPrint(w) \/ ReadCart(w)
           \/ Resume(w) \/ ReadOrder(w) \/ CancelIntent(w) \/ MakeIntent(w)
  <2>1. UNCHANGED <<forms, session, orders>>
    BY <1>4 DEF AskForm, TakePrint, SubmitForm, MatchPrint, ReadCart, Resume, ReadOrder, CancelIntent,
       MakeIntent, basket, money
  <2> QED BY <2>1 DEF Frame, OrdersKept, StatusKept
<1> QED BY <1>1, <1>2, <1>3, <1>4

\* So does a payment.
LEMMA PaymentFrame ==
  ASSUME Typing, NEW w \in Worker, Payment(w)
  PROVE  Frame
<1>1. CASE SettleOrder(w) \/ UnlinkCart(w)
  <2> DEFINE f == job[w].order
  <2>1. f \in DOMAIN orders => orders[f] \in Order BY OrderIs
  <2>2. PICK o \in {[orders[f] EXCEPT !.status = "paid"], [orders[f] EXCEPT !.linked = FALSE]} :
          orders' = [orders EXCEPT ![f] = o]
    BY <1>1 DEF SettleOrder, UnlinkCart
  <2>3. f \in DOMAIN orders => o.group = orders[f].group /\ o.lines = orders[f].lines
    BY <2>1, <2>2 DEF Order
  <2> HIDE DEF f
  <2>4. OrdersKept BY <2>2, <2>3, ReplacedIsKept
  <2> QED BY <1>1, <2>4 DEF SettleOrder, UnlinkCart, Frame, StatusKept, basket
<1>2. CASE ~(SettleOrder(w) \/ UnlinkCart(w))
  <2>1. UNCHANGED <<forms, session, orders>>
    BY <1>2 DEF Payment, ReceivePayment, RecordPayment, ReadSourceCart, WipeCart, basket, money
  <2> QED BY <2>1 DEF Frame, OrdersKept, StatusKept
<1> QED BY <1>1, <1>2

\* Within the frame only the job has to be looked at.
LEMMA FrameShows ==
  ASSUME Alone, Typing, LinesAreShown, Frame, NEW w \in Worker, Shows(job[w])'
  PROVE  LinesAreShown'
<1>1. \A v \in Worker : Shows(job[v])' BY OnlyJob
<1> QED BY <1>1 DEF LinesAreShown, Frame, OrdersKept, StatusKept

\* Most steps of a job are not about lines.
Unshown == Pc \ (OrderPc \cup {"page", "read", "abandon", "create"})

\* A job that is not at a step about what was shown shows nothing.
LEMMA UnshownShows ==
  ASSUME Alone, Typing, LinesAreShown, Frame, NEW w \in Worker, job'[w].pc \in Unshown
  PROVE  LinesAreShown'
<1>1. Shows(job[w])' BY DEF Shows, Unshown
<1> QED BY <1>1, FrameShows

\* One that stopped shows nothing.
LEMMA IdleShows ==
  ASSUME Alone, Typing, LinesAreShown, Frame, NEW w \in Worker, job'[w] = Idle
  PROVE  LinesAreShown'
<1>1. Idle.pc \in Unshown BY IdleIsTyped DEF Unshown, Pc, OrderPc
<1> QED BY <1>1, UnshownShows

\* On the way to an intent nothing changes.
LEMMA OrderShows ==
  ASSUME Alone, Typing, LinesAreShown, Frame, NEW w \in Worker, job'[w].pc \in OrderPc,
         job'[w].form \in DOMAIN forms, job'[w].order \in DOMAIN orders,
         orders[job'[w].order].group => SameContent(job'[w].order, job'[w].form)
  PROVE  LinesAreShown'
<1> DEFINE f == job'[w].order
           g == job'[w].form
<1>1. orders'[f].group = orders[f].group /\ orders'[f].lines = orders[f].lines BY DEF Frame, OrdersKept
<1>2. forms'[g].shown = forms[g].shown BY DEF Frame
<1>3. orders'[f].group => Content(orders'[f].lines) = Content(forms'[g].shown)
  BY <1>1, <1>2 DEF SameContent
<1>4. Shows(job[w])' BY <1>3 DEF Shows, SameContent, OrderPc
<1> QED BY <1>4, FrameShows

\* The cart changes only while no job relies on it.
LEMMA BasketShows ==
  ASSUME Alone, Typing, LinesAreShown, NEW w \in Worker, Edit(w) \/ GroupOrder(w)
  PROVE  LinesAreShown'
<1>1. Frame BY BasketFrame
<1>2. job'[w] = Idle \/ job'[w].pc \in Unshown
  <2>1. \/ job'[w] = Idle
        \/ job'[w].pc \in {"idle", "add", "write", "set", "empty", "start", "unlock", "end", "expire"}
    BY Asked, Matched, Stopped
       DEF Edit, GroupOrder, WriteLine, SetLine, EmptyLines, Join, Leave, StartSession, Unlock,
           EndSession, Expire, At
  <2> QED BY <2>1 DEF Unshown, Pc, OrderPc
<1> QED BY <1>1, <1>2, IdleShows, UnshownShows

\* The form shows the cart it was printed from.
LEMMA PageShows ==
  ASSUME Alone, Typing, LinesAreShown, NEW w \in Worker,
         AskForm(w) \/ LockCart(w) \/ TakePrint(w) \/ ShowForm(w)
  PROVE  LinesAreShown'
<1>1. CASE AskForm(w)
  <2>1. job'[w].pc \in {"page", "lock"} /\ job'[w].print = NoPrint BY <1>1, Formed
  <2>2. Shows(job[w])' BY <2>1 DEF Shows, OrderPc
  <2> QED BY <1>1, <2>2, CheckOutFrame, FrameShows
<1>2. CASE LockCart(w)
  <2>1. job'[w] = Idle \/ job'[w].pc \in Unshown BY <1>2, Formed DEF Unshown, Pc, OrderPc
  <2> QED BY <1>2, <2>1, CheckOutFrame, IdleShows, UnshownShows
<1>3. CASE TakePrint(w)
  <2>1. job'[w].pc = "page" /\ job'[w].print = Fingerprint BY <1>3, Formed
  <2>2. Fingerprint.lines = cart BY DEF Fingerprint
  <2>3. UNCHANGED cart BY <1>3 DEF TakePrint, basket
  <2>4. job'[w].pc = "page" /\ job'[w].print.lines = cart /\ UNCHANGED cart
    BY <2>1, <2>2, <2>3, Zenon
  <2>5. Shows(job[w])' BY <2>4 DEF Shows, OrderPc
  <2> QED BY <1>3, <2>5, CheckOutFrame, FrameShows
<1>4. CASE ShowForm(w)
  <2>1. /\ job'[w] = Idle /\ UNCHANGED <<session, orders>> /\ job[w].pc = "page"
    BY <1>4, Stopped DEF ShowForm, At, basket, money
  <2>2. CASE UNCHANGED forms
    BY <2>1, <2>2, IdleShows DEF Frame, OrdersKept, StatusKept
  <2>3. CASE forms' = Append(forms, [print |-> job[w].print, shown |-> cart])
    <3>1. IsSequence(forms) BY TypingParts DEF FormsTyped
    <3> DEFINE e == [print |-> job[w].print, shown |-> cart]
    <3>2. e.print # NoPrint => e.print.lines = e.shown
      BY <2>1 DEF LinesAreShown, Shows
    <3>3. /\ \A f \in DOMAIN forms : f \in DOMAIN forms' /\ forms'[f] = forms[f]
          /\ \A f \in DOMAIN forms' \ DOMAIN forms : forms'[f] = e
      BY <2>3, <3>1, AppendKeeps
    <3> HIDE DEF e
    <3>4. \A f \in DOMAIN forms' : forms'[f].print # NoPrint => forms'[f].print.lines = forms'[f].shown
      BY <3>2, <3>3 DEF LinesAreShown
    <3>5. \A f \in DOMAIN orders' : orders'[f].group =>
            orders'[f].lines = forms'[f].shown /\ session'.status # "none"
      BY <2>1, <3>3, IdsAre DEF LinesAreShown
    <3>6. \A v \in Worker : job'[v] = Idle BY <2>1, OnlyJob
    <3>7. \A v \in Worker : Shows(job[v])' BY <3>6, IdleIsTyped DEF Shows, OrderPc
    <3> QED BY <3>4, <3>5, <3>7 DEF LinesAreShown
  <2> QED BY <1>4, <2>2, <2>3 DEF ShowForm
<1> QED BY <1>1, <1>2, <1>3, <1>4

\* The cart is the form's when it matches, and stays so until the order is written.
LEMMA SubmissionShows ==
  ASSUME Alone, Typing, SessionIsAsRead, LinesAreShown, NEW w \in Worker,
         SubmitForm(w) \/ MatchPrint(w) \/ ReadCart(w) \/ AbandonOrder(w)
  PROVE  LinesAreShown'
<1>1. Frame BY CheckOutFrame
<1>2. UNCHANGED cart BY DEF SubmitForm, MatchPrint, ReadCart, AbandonOrder, basket
<1>3. AsRead(job[w]) /\ Shows(job[w]) BY DEF SessionIsAsRead, LinesAreShown
<1>4. JobIsTyped(job[w], DOMAIN forms, DOMAIN orders, DOMAIN intents) BY TypingParts DEF JobsTyped
<1>5. CASE SubmitForm(w)
  <2>1. PICK f \in DOMAIN forms :
           /\ job'[w].form = f /\ job'[w].order = f /\ job'[w].seen = session.status
           /\ \/ job'[w].pc = "intent" /\ f \in DOMAIN orders
              \/ job'[w].pc = "read" /\ session.status = "none"
              \/ job'[w].pc = "match"
    BY <1>5, Submitted
  <2>2. CASE job'[w].pc = "intent"
    <3>1. f \in DOMAIN orders /\ (orders[f].group => SameContent(f, f))
      BY <2>1, <2>2 DEF LinesAreShown, SameContent
    <3> QED BY <1>1, <2>1, <2>2, <3>1, OrderShows DEF OrderPc
  <2>3. CASE job'[w].pc = "read" /\ session.status = "none"
    <3>1. Shows(job[w])' BY <2>1, <2>3 DEF Shows, OrderPc
    <3> QED BY <1>1, <3>1, FrameShows
  <2>4. CASE job'[w].pc = "match"
    BY <1>1, <2>4, UnshownShows DEF Unshown, Pc, OrderPc
  <2> QED BY <2>1, <2>2, <2>3, <2>4
<1>6. CASE MatchPrint(w)
  <2>1. CASE Goto(w, "read") /\ Fingerprint = forms[job[w].form].print /\ job[w].seen = "locked_checkout"
    <3>1. job'[w].pc = "read" /\ job'[w].form = job[w].form BY <2>1, Gone DEF Pc
    <3>2. session.status = "locked_checkout" BY <1>3, <1>6, <2>1 DEF MatchPrint, At, AsRead
    <3>3. Fingerprint.status = "locked_checkout" /\ Fingerprint.lines = cart BY <3>2 DEF Fingerprint
    <3>4. forms[job[w].form].print # NoPrint BY <2>1, <3>3 DEF NoPrint
    <3>5. job[w].form \in DOMAIN forms BY <1>4, <1>6 DEF MatchPrint, At, JobIsTyped
    <3>6. cart = forms[job[w].form].shown BY <2>1, <3>3, <3>4, <3>5 DEF LinesAreShown
    <3>7. Shows(job[w])' BY <1>1, <1>2, <3>1, <3>6 DEF Shows, OrderPc, Frame
    <3> QED BY <1>1, <3>7, FrameShows
  <2> QED BY <1>1, <1>6, <2>1, Stopped, IdleShows DEF MatchPrint
<1>7. CASE ReadCart(w)
  <2>1. /\ job[w].seen = session.status /\ job[w].form \in DOMAIN forms
        /\ job[w].seen # "none" => cart = forms[job[w].form].shown
    BY <1>3, <1>4, <1>7 DEF ReadCart, At, AsRead, Shows, JobIsTyped
  <2>2. CASE /\ job'[w].seen = job[w].seen /\ job'[w].form = job[w].form /\ job'[w].print.lines = cart
             /\ job'[w].pc \in {"abandon", "create"}
    <3>1. Shows(job[w])' BY <1>1, <1>2, <2>1, <2>2 DEF Shows, OrderPc, Frame
    <3> QED BY <1>1, <3>1, FrameShows
  <2>3. CASE /\ job'[w].form = job[w].form /\ job'[w].pc = "intent"
             /\ job'[w].order \in Unpaid /\ Reusable(job'[w].order)
    <3>1. job'[w].order \in DOMAIN orders BY <2>3 DEF Unpaid
    <3>2. orders[job'[w].order].group => SameContent(job'[w].order, job'[w].form)
      BY <2>1, <2>3, <3>1 DEF LinesAreShown, SameContent, Reusable
    <3> QED BY <1>1, <2>1, <2>3, <3>1, <3>2, OrderShows DEF OrderPc
  <2> QED BY <1>1, <1>7, <2>2, <2>3, ReadBy, IdleShows
<1>8. CASE AbandonOrder(w)
  <2>1. /\ job[w].seen # "none" => cart = forms[job[w].form].shown
        /\ job[w].print.lines = cart
    BY <1>3, <1>8 DEF AbandonOrder, At, Shows
  <2>2. CASE /\ job'[w].pc = "create" /\ job'[w].seen = job[w].seen
             /\ job'[w].form = job[w].form /\ job'[w].print = job[w].print
    <3>1. Shows(job[w])' BY <1>1, <1>2, <2>1, <2>2 DEF Shows, OrderPc, Frame
    <3> QED BY <1>1, <3>1, FrameShows
  <2> QED BY <1>1, <1>8, <2>2, Placed, IdleShows
<1> QED BY <1>5, <1>6, <1>7, <1>8

\* A new order has the lines that were matched against the form.
LEMMA CreationShows ==
  ASSUME Alone, Typing, SessionIsAsRead, LinesAreShown, NEW w \in Worker, CreateOrder(w)
  PROVE  LinesAreShown'
<1>1. AsRead(job[w]) /\ Shows(job[w]) BY DEF SessionIsAsRead, LinesAreShown
<1>2. JobIsTyped(job[w], DOMAIN forms, DOMAIN orders, DOMAIN intents) BY TypingParts DEF JobsTyped
<1>3. UNCHANGED forms /\ job[w].pc = "create" BY DEF CreateOrder, At
<1>4. CASE job'[w] = Idle /\ UNCHANGED <<orders, session>>
  BY <1>3, <1>4, IdleShows DEF Frame, OrdersKept, StatusKept
<1>5. CASE /\ job'[w].pc = "intent" /\ job'[w].form = job[w].form /\ job'[w].order = job[w].form
           /\ job[w].form \notin DOMAIN orders
  <2> DEFINE f == job[w].form
             o == [status |-> "pending_payment", group |-> job[w].seen # "none",
                   lines |-> job[w].print.lines, linked |-> TRUE, intent |-> 0]
  <2>1. /\ orders' = Put(orders, f, o)
        /\ IF job[w].seen # "none" THEN Become("submitted") ELSE UNCHANGED session
    BY <1>5 DEF CreateOrder
  <2>2. /\ job[w].print.lines = cart
        /\ job[w].seen # "none" => cart = forms[f].shown
    BY <1>1, <1>3 DEF Shows
  <2>3. o.group <=> job[w].seen # "none" OBVIOUS
  <2>4. o.lines = cart BY <2>2
  <2>5. /\ DOMAIN orders' = DOMAIN orders \cup {f} /\ orders'[f] = o
        /\ \A g \in DOMAIN orders : g # f => orders'[g] = orders[g]
    BY <2>1 DEF Put
  <2> HIDE DEF o
  <2>6. o.group => o.lines = forms[f].shown BY <2>2, <2>3, <2>4
  <2>7. StatusKept /\ (o.group => session'.status # "none")
    <3>1. session \in Session BY SessionIs
    <3> QED BY <2>1, <2>3, <3>1 DEF Become, StatusKept, Session
  <2>8. \A g \in DOMAIN orders' : orders'[g].group =>
          orders'[g].lines = forms'[g].shown /\ session'.status # "none"
    BY <1>3, <2>5, <2>6, <2>7 DEF LinesAreShown, StatusKept
  <2>9. orders'[f].group => Content(orders'[f].lines) = Content(forms'[f].shown)
    BY <1>3, <2>5, <2>6
  <2>10. Shows(job[w])' BY <1>5, <2>9 DEF Shows, SameContent, OrderPc
  <2>11. \A v \in Worker : Shows(job[v])' BY <2>10, OnlyJob
  <2> QED BY <1>3, <2>8, <2>11 DEF LinesAreShown
<1> QED BY <1>4, <1>5, Placed

\* What an order's intent is about does not change what it shows.
LEMMA IntentShows ==
  ASSUME Alone, Typing, LinesAreShown, NEW w \in Worker,
         Resume(w) \/ ReadOrder(w) \/ CancelIntent(w) \/ MakeIntent(w) \/ StoreIntent(w)
  PROVE  LinesAreShown'
<1>1. Frame BY CheckOutFrame
<1>2. CASE Resume(w)
  <2>1. /\ job'[w].pc = "intent" /\ job'[w].form = job'[w].order /\ job'[w].order \in DOMAIN orders
    BY <1>2, Resumed
  <2>2. orders[job'[w].order].group => SameContent(job'[w].order, job'[w].form)
    BY <2>1 DEF LinesAreShown, SameContent
  <2> QED BY <1>1, <2>1, <2>2, OrderShows, IdsAre DEF OrderPc
<1>3. CASE ReadOrder(w) \/ CancelIntent(w) \/ MakeIntent(w) \/ StoreIntent(w)
  <2>1. CASE /\ job'[w].pc \in {"make", "cancel", "store"} /\ job[w].pc \in OrderPc
             /\ job'[w].form = job[w].form /\ job'[w].order = job[w].order
    <3>1. job[w].form \in DOMAIN forms /\ job[w].order \in DOMAIN orders
      BY <2>1, TypingParts DEF JobsTyped, JobIsTyped
    <3>2. orders[job[w].order].group => SameContent(job[w].order, job[w].form)
      BY <2>1 DEF LinesAreShown, Shows
    <3>3. job'[w].pc \in OrderPc BY <2>1 DEF OrderPc
    <3> QED BY <1>1, <2>1, <3>1, <3>2, <3>3, OrderShows
  <2> QED BY <1>1, <1>3, <2>1, Intended, IdleShows
<1> QED BY <1>2, <1>3

\* Every step keeps what was shown.
LEMMA NextShows ==
  ASSUME Alone, Typing, SessionIsAsRead, LinesAreShown, [Next]_vars
  PROVE  LinesAreShown'
<1>1. ASSUME NEW w \in Worker, CheckOut(w) PROVE LinesAreShown'
  BY <1>1, PageShows, SubmissionShows, CreationShows, IntentShows DEF CheckOut
<1>2. ASSUME NEW w \in Worker, Payment(w) PROVE LinesAreShown'
  <2>1. \/ job'[w] = Idle
        \/ job'[w].pc \in {"record", "clear", "settle", "wipe", "unlink"}
    BY <1>2, Settled DEF Payment
  <2>2. job'[w] = Idle \/ job'[w].pc \in Unshown BY <2>1 DEF Unshown, Pc, OrderPc
  <2> QED BY <1>2, <2>2, PaymentFrame, IdleShows, UnshownShows
<1>3. CASE Deadline \/ Pay \/ UNCHANGED vars
  <2>1. UNCHANGED <<job, forms, orders, cart>> /\ session'.status = session.status
    BY <1>3, SessionIs DEF Deadline, Pay, vars, basket, money, Session
  <2>2. \A v \in Worker : Shows(job[v])' BY <2>1 DEF LinesAreShown, Shows, SameContent
  <2> QED BY <2>1, <2>2 DEF LinesAreShown
<1> QED BY <1>1, <1>2, <1>3, BasketShows DEF Next, Step

\* With one worker, group orders have the lines their forms showed.
THEOREM LinesStayShown == Alone => (Spec => []LinesAreShown)
<1> SUFFICES ASSUME Alone PROVE Spec => []LinesAreShown OBVIOUS
<1>1. Init => LinesAreShown
  <2> SUFFICES ASSUME Init PROVE LinesAreShown OBVIOUS
  <2>1. DOMAIN forms = {} /\ DOMAIN orders = {} BY DEF Init
  <2>2. \A w \in Worker : job[w] = Idle BY DEF Init
  <2>3. \A w \in Worker : Shows(job[w]) BY <2>2, IdleIsTyped DEF Shows, OrderPc
  <2> QED BY <2>1, <2>3 DEF LinesAreShown
<1>2. Typing /\ SessionIsAsRead /\ LinesAreShown /\ [Next]_vars => LinesAreShown' BY NextShows
<1> QED BY <1>1, <1>2, TypingHolds, SessionStaysAsRead, PTL DEF Spec

\* With one worker, the host of a group is asked to pay for the lines the form showed, be the
\* order new, reused or made before.
THEOREM OrdersAreAsShown == Alone => (Spec => []OrderIsAsShown)
<1> SUFFICES ASSUME Alone PROVE Spec => []OrderIsAsShown OBVIOUS
<1>1. LinesAreShown => OrderIsAsShown
  BY DEF LinesAreShown, Shows, OrderIsAsShown, SameContent, OrderPc
<1> QED BY <1>1, LinesStayShown, PTL

-----------------------------------------------------------------------------
(* One worker: one unpaid order, and no line paid twice.                   *)

\* Orders stay as far as they compete for lines.
OrdersAlike ==
  /\ DOMAIN orders' = DOMAIN orders
  /\ \A f \in DOMAIN orders : /\ orders'[f].status = orders[f].status
                              /\ orders'[f].linked = orders[f].linked
                              /\ orders'[f].lines = orders[f].lines

\* Every intent is for an order that exists.
IntentsAbout == \A i \in DOMAIN intents : intents[i].order \in DOMAIN orders

\* A line of the cart stays as it was last written, or is written now.
CartAges ==
  /\ writes <= writes'
  /\ \A l \in DOMAIN cart' : \/ l \in DOMAIN cart /\ cart'[l].at = cart[l].at
                             \/ cart'[l].at = writes' /\ writes' = writes + 1

\* Lines and times are numbers.
LEMMA AgesAre ==
  ASSUME Typing
  PROVE  /\ writes \in Nat
         /\ \A l \in DOMAIN cart : cart[l].at \in Nat
         /\ \A f \in DOMAIN orders : \A l \in DOMAIN orders[f].lines : orders[f].lines[l].at \in Nat
<1>1. writes \in Nat BY TypingParts DEF BasketTyped
<1>2. \A l \in DOMAIN cart : cart[l].at \in Nat BY LineIs, BoundsAreNumbers DEF Line
<1>3. ASSUME NEW f \in DOMAIN orders, NEW l \in DOMAIN orders[f].lines
      PROVE  orders[f].lines[l].at \in Nat
  <2>1. orders[f].lines \in Cart BY OrderIs DEF Order
  <2>2. orders[f].lines[l] \in Line BY <2>1, CartIs
  <2> QED BY <2>2, BoundsAreNumbers DEF Line
<1> QED BY <1>1, <1>2, <1>3

\* What is fresh stays fresh: a line that is written now is younger than the orders' lines.
LEMMA FreshStays ==
  ASSUME Typing, Typing', OrdersAreApart, CartAges, NEW f \in DOMAIN orders, Fresh(cart, f),
         f \in DOMAIN orders', orders'[f].lines = orders[f].lines
  PROVE  Fresh(cart, f)'
<1> SUFFICES ASSUME NEW l \in DOMAIN cart' \cap DOMAIN orders[f].lines
             PROVE  cart'[l].at # orders[f].lines[l].at
  BY DEF Fresh
<1>1. writes \in Nat /\ orders[f].lines[l].at \in Nat BY AgesAre
<1>2. orders[f].lines[l].at <= writes BY DEF OrdersAreApart
<1>3. CASE l \in DOMAIN cart /\ cart'[l].at = cart[l].at BY <1>3 DEF Fresh
<1>4. CASE cart'[l].at = writes' /\ writes' = writes + 1 BY <1>1, <1>2, <1>4
<1> QED BY <1>3, <1>4 DEF CartAges

\* The cart's and the orders' lines were written by now.
LEMMA CartStaysOld ==
  ASSUME Typing, Typing', OrdersAreApart, CartAges
  PROVE  /\ \A l \in DOMAIN cart' : cart'[l].at <= writes'
         /\ \A f \in DOMAIN orders : \A l \in DOMAIN orders[f].lines : orders[f].lines[l].at <= writes'
<1>1. writes \in Nat /\ writes' \in Nat /\ writes <= writes'
  BY AgesAre, BoundsAreNumbers DEF CartAges, Typing, TypeOK
<1>2. ASSUME NEW l \in DOMAIN cart' PROVE cart'[l].at <= writes'
  <2>1. CASE l \in DOMAIN cart /\ cart'[l].at = cart[l].at
    BY <1>1, <2>1, AgesAre DEF OrdersAreApart
  <2>2. CASE cart'[l].at = writes' BY <1>1, <2>2
  <2> QED BY <2>1, <2>2 DEF CartAges
<1>3. ASSUME NEW f \in DOMAIN orders, NEW l \in DOMAIN orders[f].lines
      PROVE  orders[f].lines[l].at <= writes'
  <2>1. orders[f].lines[l].at \in Nat /\ orders[f].lines[l].at <= writes
    BY AgesAre DEF OrdersAreApart
  <2> QED BY <1>1, <2>1
<1> QED BY <1>2, <1>3

\* While orders stay alike, the cart and the job have to be looked at.
LEMMA AlikeApart ==
  ASSUME Alone, Typing, Typing', OrdersAreApart, OrdersAlike, IntentsAbout', CartAges,
         NEW w \in Worker, Serves(job[w])',
         \A f \in DOMAIN orders : Clears(job[w], f) => Clears(job[w], f)' \/ Fresh(cart, f)'
  PROVE  OrdersAreApart'
<1>1. Unpaid' = Unpaid /\ Paid' = Paid /\ Waiting' = Waiting
  BY DEF OrdersAlike, Unpaid, Paid, Waiting
<1>2. Waiting' \subseteq Unpaid' /\ \A f, g \in Unpaid' : f = g BY <1>1 DEF OrdersAreApart
<1>3. \A l \in DOMAIN cart' : cart'[l].at <= writes' BY CartStaysOld
<1>4. \A f \in DOMAIN orders' : \A l \in DOMAIN orders'[f].lines : orders'[f].lines[l].at <= writes'
  BY CartStaysOld DEF OrdersAlike
<1>5. ASSUME NEW f \in Paid' PROVE Fresh(cart, f)' \/ \E v \in Worker : Clears(job[v], f)'
  <2>1. f \in DOMAIN orders /\ f \in Paid BY <1>1 DEF Paid
  <2>2. Fresh(cart, f) \/ Clears(job[w], f) BY <2>1, OnlyJob DEF OrdersAreApart
  <2>3. f \in DOMAIN orders' /\ orders'[f].lines = orders[f].lines BY <2>1 DEF OrdersAlike
  <2> QED BY <2>1, <2>2, <2>3, FreshStays
<1>6. \A f \in Paid', g \in Paid' \cup Unpaid' : f # g => Fresh(orders[g].lines, f)'
  <2> SUFFICES ASSUME NEW f \in Paid, NEW g \in Paid \cup Unpaid, f # g
               PROVE  Fresh(orders[g].lines, f)'
    BY <1>1
  <2>1. f \in DOMAIN orders /\ g \in DOMAIN orders BY DEF Paid, Unpaid
  <2>2. Fresh(orders[g].lines, f) BY DEF OrdersAreApart
  <2> QED BY <2>1, <2>2 DEF Fresh, OrdersAlike
<1>7. \A v \in Worker : Serves(job[v])' BY OnlyJob
<1> QED BY <1>2, <1>3, <1>4, <1>5, <1>6, <1>7 DEF OrdersAreApart, IntentsAbout

\* Most jobs compete for nothing.
LEMMA UnservedServes ==
  ASSUME Alone, Typing, NEW w \in Worker,
         job'[w].pc \notin {"create", "abandon", "record", "settle", "clear", "wipe", "unlink"}
  PROVE  Serves(job[w])'
BY DEF Serves

\* A step that is not about the orders' lines.
LEMMA UnservedApart ==
  ASSUME Alone, Typing, Typing', OrdersAreApart, OrdersAlike, IntentsAbout', CartAges,
         NEW w \in Worker, job[w].pc \notin {"clear", "wipe"},
         job'[w].pc \notin {"create", "abandon", "record", "settle", "clear", "wipe", "unlink"}
  PROVE  OrdersAreApart'
BY AlikeApart, UnservedServes DEF Clears

\* What stays is alike.
LEMMA SameIsAlike ==
  ASSUME Typing, OrdersAreApart
  PROVE  /\ UNCHANGED orders => OrdersAlike
         /\ UNCHANGED <<orders, intents>> => IntentsAbout'
         /\ UNCHANGED <<cart, writes>> => CartAges
<1>1. writes \in Nat BY AgesAre
<1> QED BY <1>1 DEF OrdersAlike, IntentsAbout, CartAges, OrdersAreApart

\* Part of a cart is as old as the cart.
LEMMA PartAges ==
  ASSUME Typing, UNCHANGED writes, \E S \in SUBSET DOMAIN cart : cart' = Only(cart, S)
  PROVE  CartAges
BY AgesAre DEF CartAges, Only

\* Requests about lines write a line now or take it away.
LEMMA EditAges ==
  ASSUME Typing, NEW w \in Worker, Edit(w)
  PROVE  CartAges
<1>1. writes \in Nat BY AgesAre
<1>2. \A l \in DOMAIN cart : cart[l] \in Line BY LineIs
<1>3. CASE WriteLine(w)
  <2>1. CASE job[w].line = 0
    <3> DEFINE e == [item |-> job[w].item, owner |-> job[w].who, quantity |-> 1, at |-> writes + 1]
    <3>1. cart' = Put(cart, writes + 1, e) /\ writes' = writes + 1 /\ e.at = writes + 1
      BY <1>3, <2>1 DEF WriteLine
    <3> HIDE DEF e
    <3>2. \A l \in DOMAIN cart' : \/ l \in DOMAIN cart /\ cart'[l] = cart[l]
                                  \/ cart'[l] = e
      BY <3>1 DEF Put
    <3> QED BY <1>1, <3>1, <3>2 DEF CartAges
  <2>2. CASE job[w].line # 0 /\ job[w].line \in DOMAIN cart /\ job[w].quantity < MaxQuantity
    BY <1>1, <1>2, <1>3, <2>2 DEF WriteLine, CartAges, Line
  <2> QED BY <1>1, <1>3, <2>1, <2>2 DEF WriteLine, CartAges
<1>4. CASE SetLine(w)
  <2>1. CASE job[w].line \in DOMAIN cart /\ job[w].quantity > 0
    BY <1>1, <1>2, <1>4, <2>1 DEF SetLine, CartAges, Line
  <2>2. CASE ~(job[w].line \in DOMAIN cart /\ job[w].quantity > 0)
    BY <1>4, <2>2, PartAges DEF SetLine
  <2> QED BY <2>1, <2>2
<1>5. CASE EmptyLines(w) BY <1>1, <1>5 DEF EmptyLines, EmptyCart, CartAges
<1>6. CASE AskAdd(w) \/ MatchLine(w) \/ AskSet(w) \/ AskClear(w)
  <2>1. UNCHANGED <<cart, writes>> BY <1>6 DEF AskAdd, MatchLine, AskSet, AskClear, basket
  <2> QED BY <1>1, <2>1 DEF CartAges
<1> QED BY <1>3, <1>4, <1>5, <1>6 DEF Edit

\* Requests of the group take lines away at most.
LEMMA GroupOrderAges ==
  ASSUME Typing, NEW w \in Worker, GroupOrder(w)
  PROVE  CartAges
<1>1. writes \in Nat BY AgesAre
<1>2. CASE Leave(w) BY <1>2, PartAges DEF Leave
<1>3. CASE StartSession(w)
  <2>1. \A l \in DOMAIN cart : cart[l] \in Line BY LineIs
  <2>2. UNCHANGED writes /\
        (cart' = cart \/ cart' = [l \in DOMAIN cart |-> [cart[l] EXCEPT !.owner = Host]])
    BY <1>3 DEF StartSession
  <2> QED BY <1>1, <2>1, <2>2 DEF CartAges, Line
<1>4. CASE EndSession(w) BY <1>1, <1>4 DEF EndSession, EmptyCart, CartAges
<1>5. CASE ~(Leave(w) \/ StartSession(w) \/ EndSession(w))
  <2>1. UNCHANGED <<cart, writes>>
    BY <1>5 DEF GroupOrder, Join, AskStart, AskUnlock, Unlock, AskEnd, AskExpire, Expire, basket
  <2> QED BY <1>1, <2>1 DEF CartAges
<1> QED BY <1>2, <1>3, <1>4, <1>5

\* Orders stay apart when the cart is edited.
LEMMA BasketApart ==
  ASSUME Alone, Typing, Typing', OrdersAreApart, NEW w \in Worker, Edit(w) \/ GroupOrder(w)
  PROVE  OrdersAreApart'
<1>1. UNCHANGED <<orders, intents>>
  BY DEF Edit, AskAdd, MatchLine, WriteLine, AskSet, SetLine, AskClear, EmptyLines,
     GroupOrder, Join, Leave, AskStart, StartSession, AskUnlock, Unlock, AskEnd, EndSession,
     AskExpire, Expire, money
<1>2. CartAges BY EditAges, GroupOrderAges
<1>3. job[w].pc \notin {"clear", "wipe"}
  BY DEF Edit, AskAdd, MatchLine, WriteLine, AskSet, SetLine, AskClear, EmptyLines,
     GroupOrder, Join, Leave, AskStart, StartSession, AskUnlock, Unlock, AskEnd, EndSession,
     AskExpire, Expire, Begin, At
<1>4. job'[w] = Idle \/ job'[w].pc \in {"idle", "add", "write", "set", "empty", "start", "unlock", "end", "expire"}
  BY Asked, Matched, Stopped
     DEF Edit, GroupOrder, WriteLine, SetLine, EmptyLines, Join, Leave, StartSession, Unlock,
         EndSession, Expire, At
<1>5. job'[w].pc \notin {"create", "abandon", "record", "settle", "clear", "wipe", "unlink"}
  BY <1>4, IdleIsTyped
<1> QED BY <1>1, <1>2, <1>3, <1>5, SameIsAlike, UnservedApart

\* So they do on the checkout page.
LEMMA PageApart ==
  ASSUME Alone, Typing, Typing', OrdersAreApart, NEW w \in Worker,
         AskForm(w) \/ LockCart(w) \/ TakePrint(w) \/ ShowForm(w) \/ SubmitForm(w) \/ MatchPrint(w)
           \/ Resume(w)
  PROVE  OrdersAreApart'
<1>1. UNCHANGED <<orders, intents, cart, writes>>
  BY DEF AskForm, LockCart, TakePrint, ShowForm, SubmitForm, MatchPrint, Resume, basket, money
<1>2. job[w].pc \notin {"clear", "wipe"}
  BY DEF AskForm, LockCart, TakePrint, ShowForm, SubmitForm, MatchPrint, Resume, Begin, At
<1>3. "read" \in Pc BY DEF Pc
<1>4. job'[w] = Idle \/ job'[w].pc \in {"page", "lock", "print", "intent", "read", "match"}
  <2>1. MatchPrint(w) => job'[w] = Idle \/ job'[w].pc = "read"
    BY <1>3, Gone, Stopped DEF MatchPrint
  <2>2. ShowForm(w) => job'[w] = Idle BY Stopped DEF ShowForm
  <2> QED BY <2>1, <2>2, Formed, Submitted, Resumed
<1>5. job'[w].pc \notin {"create", "abandon", "record", "settle", "clear", "wipe", "unlink"}
  BY <1>4, IdleIsTyped
<1> QED BY <1>1, <1>2, <1>5, SameIsAlike, UnservedApart

\* The order that waits for the same cart is found, and taken on or abandoned.
LEMMA ReadApart ==
  ASSUME Alone, Typing, Typing', OrdersAreApart, NEW w \in Worker, ReadCart(w)
  PROVE  OrdersAreApart'
<1>1. UNCHANGED <<orders, intents, cart, writes>> BY DEF ReadCart, basket, money
<1>2. job[w].pc = "read" BY DEF ReadCart, At
<1>3. Unpaid' = Unpaid BY <1>1 DEF Unpaid
<1>4. \A f \in Unpaid : Unpaid \subseteq {f} BY DEF OrdersAreApart
<1>5. Serves(job[w])'
  <2>1. CASE job'[w] = Idle BY <2>1, IdleIsTyped, UnservedServes
  <2>2. CASE job'[w].pc = "abandon" /\ job'[w].order \in Unpaid /\ job'[w].print.lines = cart
    BY <1>1, <1>3, <1>4, <2>2 DEF Serves
  <2>3. CASE job'[w].pc = "intent" BY <2>3, UnservedServes
  <2>4. CASE job'[w].pc = "create" /\ Unpaid = {} /\ job'[w].print.lines = cart
    BY <1>1, <1>3, <2>4 DEF Serves
  <2> QED BY <2>1, <2>2, <2>3, <2>4, ReadBy
<1> QED BY <1>1, <1>2, <1>5, SameIsAlike, AlikeApart DEF Clears

\* So they do while an order gets its intent.
LEMMA IntentApart ==
  ASSUME Alone, Typing, Typing', OrdersAreApart, NEW w \in Worker,
         ReadOrder(w) \/ CancelIntent(w) \/ MakeIntent(w) \/ StoreIntent(w)
  PROVE  OrdersAreApart'
<1>1. UNCHANGED <<cart, writes>> BY DEF ReadOrder, CancelIntent, MakeIntent, StoreIntent, basket
<1>2. job[w].pc \notin {"clear", "wipe"} BY DEF ReadOrder, CancelIntent, MakeIntent, StoreIntent, At
<1>3. job'[w].pc \notin {"create", "abandon", "record", "settle", "clear", "wipe", "unlink"}
  BY Intended, IdleIsTyped
<1>4. OrdersAlike
  <2>1. CASE StoreIntent(w)
    <3>1. DOMAIN orders' = DOMAIN orders BY <2>1 DEF StoreIntent
    <3>2. \A f \in DOMAIN orders : orders[f] \in Order BY OrderIs
    <3>3. \A f \in DOMAIN orders :
            orders'[f] = orders[f] \/ orders'[f] = [orders[f] EXCEPT !.intent = job[w].intent]
      BY <2>1 DEF StoreIntent
    <3> QED BY <3>1, <3>2, <3>3 DEF OrdersAlike, Order
  <2>2. CASE ~StoreIntent(w)
    BY <2>2, SameIsAlike DEF ReadOrder, CancelIntent, MakeIntent
  <2> QED BY <2>1, <2>2
<1>5. IntentsAbout'
  <2>1. \A i \in DOMAIN intents : intents[i].order \in DOMAIN orders /\ intents[i] \in Intent
    BY IntentIs DEF OrdersAreApart
  <2>2. ASSUME NEW i, NEW e, i \in DOMAIN intents => e.order = intents[i].order,
               intents' = [intents EXCEPT ![i] = e]
        PROVE  IntentsAbout'
    BY <1>4, <2>1, <2>2 DEF IntentsAbout, OrdersAlike
  <2>3. ASSUME NEW i, Answer(i) PROVE IntentsAbout'
    <3>1. intents' = [intents EXCEPT ![i] = [intents[i] EXCEPT !.shown = TRUE]] BY <2>3 DEF Answer
    <3> QED BY <2>2, <3>1, IntentIs
  <2>4. CASE UNCHANGED intents BY <1>4, <2>1, <2>4 DEF IntentsAbout, OrdersAlike
  <2>5. CASE ReadOrder(w) \/ StoreIntent(w)
    BY <2>3, <2>4, <2>5 DEF ReadOrder, StoreIntent
  <2>6. CASE CancelIntent(w)
    <3>1. CASE intents' = [intents EXCEPT ![job[w].intent].status = "canceled"]
      <4>1. intents' = [intents EXCEPT ![job[w].intent] =
                          [intents[job[w].intent] EXCEPT !.status = "canceled"]]
        BY <3>1
      <4> QED BY <2>2, <4>1, IntentIs
    <3> QED BY <2>4, <2>6, <3>1 DEF CancelIntent
  <2>7. CASE MakeIntent(w)
    <3>1. CASE \E e : e.order = job[w].order /\ intents' = Append(intents, e)
      <4>1. PICK e : e.order = job[w].order /\ intents' = Append(intents, e) BY <3>1
      <4>2. job[w].order \in DOMAIN orders
        BY <2>7, TypingParts DEF MakeIntent, At, JobsTyped, JobIsTyped, OrderPc
      <4>3. IsSequence(intents) BY TypingParts DEF IntentsTyped, IsSequence
      <4>4. /\ \A i \in DOMAIN intents : intents'[i] = intents[i]
            /\ \A i \in DOMAIN intents' \ DOMAIN intents : intents'[i] = e
        BY <4>1, <4>3, AppendKeeps
      <4> QED BY <1>4, <2>1, <4>1, <4>2, <4>4 DEF IntentsAbout, OrdersAlike
    <3> QED BY <2>4, <2>7, <3>1 DEF MakeIntent
  <2> QED BY <2>5, <2>6, <2>7
<1> QED BY <1>1, <1>2, <1>3, <1>4, <1>5, SameIsAlike, UnservedApart

\* The order that was found is abandoned: none waits.
LEMMA AbandonApart ==
  ASSUME Alone, Typing, Typing', OrdersAreApart, NEW w \in Worker, AbandonOrder(w)
  PROVE  OrdersAreApart'
<1> DEFINE f == job[w].order
<1>1. UNCHANGED <<intents, cart, writes>> /\ job[w].pc = "abandon" BY DEF AbandonOrder, At, basket
<1>2. f \in DOMAIN orders BY <1>1, TypingParts DEF JobsTyped, JobIsTyped
<1>3. Unpaid \subseteq {f} /\ job[w].print.lines = cart BY <1>1 DEF OrdersAreApart, Serves
<1>4. \A g \in DOMAIN orders : orders[g] \in Order BY OrderIs
<1>5. /\ DOMAIN orders' = DOMAIN orders
      /\ \A g \in DOMAIN orders : g # f => orders'[g] = orders[g]
      /\ orders'[f].lines = orders[f].lines
      /\ orders[f].status = "pending_payment" => orders'[f].status = "failed"
      /\ orders[f].status # "pending_payment" => orders'[f] = orders[f]
  BY <1>2, <1>4 DEF AbandonOrder, Order
<1> HIDE DEF f
<1>6. Unpaid' = {} /\ Waiting' = {}
  BY <1>3, <1>5 DEF Unpaid, Waiting, OrdersAreApart
<1>7. Paid' = Paid BY <1>2, <1>5 DEF Paid
<1>8. \A g \in DOMAIN orders : orders'[g].lines = orders[g].lines BY <1>5
<1>9. \A g \in Paid : Fresh(cart, g)
  BY <1>1, OnlyJob DEF OrdersAreApart, Clears
<1>10. \A g \in Paid' : Fresh(cart, g)' BY <1>1, <1>5, <1>7, <1>8, <1>9 DEF Fresh, Paid
<1>11. \A g \in Paid', h \in Paid' \cup Unpaid' : g # h => Fresh(orders[h].lines, g)'
  <2> SUFFICES ASSUME NEW g \in Paid, NEW h \in Paid, g # h PROVE Fresh(orders[h].lines, g)'
    BY <1>6, <1>7
  <2>1. Fresh(orders[h].lines, g) /\ g \in DOMAIN orders /\ h \in DOMAIN orders
    BY DEF OrdersAreApart, Paid
  <2> QED BY <1>8, <2>1 DEF Fresh
<1>12. Serves(job[w])'
  <2>1. CASE job'[w] = Idle BY <2>1, IdleIsTyped, UnservedServes
  <2>2. CASE job'[w].pc = "create" /\ job'[w].print = job[w].print
    BY <1>1, <1>3, <1>6, <2>2 DEF Serves
  <2> QED BY <2>1, <2>2, Placed
<1>13. \A v \in Worker : Serves(job[v])' BY <1>12, OnlyJob
<1>14. IntentsAbout' BY <1>1, <1>5 DEF IntentsAbout, OrdersAreApart
<1>15. /\ \A l \in DOMAIN cart' : cart'[l].at <= writes'
       /\ \A g \in DOMAIN orders' : \A l \in DOMAIN orders'[g].lines : orders'[g].lines[l].at <= writes'
  BY <1>1, <1>5, <1>8 DEF OrdersAreApart
<1> QED BY <1>6, <1>10, <1>11, <1>13, <1>14, <1>15 DEF OrdersAreApart, IntentsAbout

\* A new order takes the cart's lines, which no paid order has, and is the one that waits.
LEMMA CreateApart ==
  ASSUME Alone, Typing, Typing', OrdersAreApart, NEW w \in Worker, CreateOrder(w)
  PROVE  OrdersAreApart'
<1> DEFINE f == job[w].form
<1>1. UNCHANGED <<intents, cart, writes>> /\ job[w].pc = "create" BY DEF CreateOrder, At
<1>2. Unpaid = {} /\ job[w].print.lines = cart BY <1>1 DEF OrdersAreApart, Serves
<1>3. CASE job'[w] = Idle /\ UNCHANGED orders
  <2>1. job'[w].pc \notin {"create", "abandon", "record", "settle", "clear", "wipe", "unlink"}
    BY <1>3, IdleIsTyped
  <2> QED BY <1>1, <1>3, <2>1, SameIsAlike, UnservedApart
<1>4. CASE job'[w].pc = "intent" /\ f \notin DOMAIN orders
  <2> DEFINE o == [status |-> "pending_payment", group |-> job[w].seen # "none",
                   lines |-> job[w].print.lines, linked |-> TRUE, intent |-> 0]
  <2>1. orders' = Put(orders, f, o) BY <1>4 DEF CreateOrder
  <2>2. o.status = "pending_payment" /\ o.lines = cart BY <1>2
  <2>3. o.linked OBVIOUS
  <2> HIDE DEF o, f
  <2>4. /\ DOMAIN orders' = DOMAIN orders \cup {f} /\ orders'[f] = o
        /\ \A g \in DOMAIN orders : orders'[g] = orders[g]
    BY <1>4, <2>1 DEF Put
  <2>5. Unpaid' = {f} /\ Waiting' = {f}
    BY <1>2, <1>4, <2>2, <2>3, <2>4 DEF Unpaid, Waiting, OrdersAreApart
  <2>6. Paid' = Paid BY <1>4, <2>2, <2>4 DEF Paid
  <2>7. \A g \in Paid : Fresh(cart, g)
    BY <1>1, OnlyJob DEF OrdersAreApart, Clears
  <2>8. \A g \in Paid' : Fresh(cart, g)' BY <1>1, <2>4, <2>6, <2>7 DEF Fresh, Paid
  <2>9. \A g \in Paid', h \in Paid' \cup Unpaid' : g # h => Fresh(orders[h].lines, g)'
    <3> SUFFICES ASSUME NEW g \in Paid, NEW h \in Paid \cup {f}, g # h
                 PROVE  Fresh(orders[h].lines, g)'
      BY <2>5, <2>6
    <3>1. g \in DOMAIN orders /\ orders'[g] = orders[g] BY <2>4 DEF Paid
    <3>2. CASE h = f BY <1>1, <2>2, <2>4, <2>7, <3>1, <3>2 DEF Fresh
    <3>3. CASE h # f
      <4>1. h \in DOMAIN orders /\ orders'[h] = orders[h] /\ Fresh(orders[h].lines, g)
        BY <2>4, <3>3 DEF Paid, OrdersAreApart
      <4> QED BY <3>1, <4>1 DEF Fresh
    <3> QED BY <3>2, <3>3
  <2>10. Serves(job[w])' BY <1>4, UnservedServes
  <2>11. \A v \in Worker : Serves(job[v])' BY <2>10, OnlyJob
  <2>12. IntentsAbout' BY <1>1, <2>4 DEF IntentsAbout, OrdersAreApart
  <2>13. /\ \A l \in DOMAIN cart' : cart'[l].at <= writes'
         /\ \A g \in DOMAIN orders' : \A l \in DOMAIN orders'[g].lines : orders'[g].lines[l].at <= writes'
    BY <1>1, <2>2, <2>4 DEF OrdersAreApart
  <2>14. \A g, h \in Unpaid' : g = h BY <2>5
  <2> QED BY <2>5, <2>8, <2>9, <2>11, <2>12, <2>13, <2>14 DEF OrdersAreApart, IntentsAbout
<1> QED BY <1>3, <1>4, Placed

\* The order that waits is paid: its lines are in no other order that waits or is paid, and
\* the cart is about to be cleared.
LEMMA SettleApart ==
  ASSUME Alone, Typing, Typing', OrdersAreApart, NEW w \in Worker, SettleOrder(w)
  PROVE  OrdersAreApart'
<1>0. PICK f : f = job[w].order OBVIOUS
<1>1. UNCHANGED <<intents, cart, writes>> /\ job[w].pc = "settle" BY DEF SettleOrder, At, basket
<1>2. f \in Unpaid /\ Unpaid = {f} BY <1>0, <1>1 DEF OrdersAreApart, Serves
<1>3. f \in DOMAIN orders /\ orders[f].linked /\ orders[f].status = "pending_payment" BY <1>2 DEF Unpaid
<1>4. orders[f] \in Order BY <1>3, OrderIs
<1>5. /\ DOMAIN orders' = DOMAIN orders
      /\ \A g \in DOMAIN orders : g # f => orders'[g] = orders[g]
      /\ orders'[f].lines = orders[f].lines /\ orders'[f].status = "paid"
      /\ orders'[f].linked = orders[f].linked
  BY <1>0, <1>3, <1>4 DEF SettleOrder, Order
<1>6. job'[w].pc = "clear" /\ job'[w].order = f BY <1>0, Settled
<1>7. Unpaid' = {} /\ Waiting' = {}
  BY <1>2, <1>5 DEF Unpaid, Waiting, OrdersAreApart
<1>8. Paid' = Paid \cup {f} BY <1>3, <1>5 DEF Paid
<1>9. \A g \in DOMAIN orders : orders'[g].lines = orders[g].lines BY <1>5
<1>10. \A g \in Paid : Fresh(cart, g)
  BY <1>1, OnlyJob DEF OrdersAreApart, Clears
<1>11. Clears(job[w], f)' BY <1>3, <1>5, <1>6 DEF Clears
<1>12. \A g \in Paid : Fresh(cart, g)' BY <1>1, <1>9, <1>10 DEF Fresh, Paid
<1>13. \A g \in Paid' : Fresh(cart, g)' \/ \E v \in Worker : Clears(job[v], g)'
  BY <1>8, <1>11, <1>12
<1>14. \A g \in Paid', h \in Paid' \cup Unpaid' : g # h => Fresh(orders[h].lines, g)'
  <2> SUFFICES ASSUME NEW g \in Paid \cup {f}, NEW h \in Paid \cup {f}, g # h
               PROVE  Fresh(orders[h].lines, g)'
    BY <1>7, <1>8
  <2>1. g \in DOMAIN orders /\ h \in DOMAIN orders BY <1>3 DEF Paid
  <2>2. Fresh(orders[h].lines, g) \/ Fresh(orders[g].lines, h)
    BY <1>2 DEF OrdersAreApart
  <2> QED BY <1>9, <2>1, <2>2 DEF Fresh
<1>15. Serves(job[w])' BY <1>6, <1>7 DEF Serves
<1>16. \A v \in Worker : Serves(job[v])' BY <1>15, OnlyJob
<1>17. IntentsAbout' BY <1>1, <1>5 DEF IntentsAbout, OrdersAreApart
<1>18. /\ \A l \in DOMAIN cart' : cart'[l].at <= writes'
       /\ \A g \in DOMAIN orders' : \A l \in DOMAIN orders'[g].lines : orders'[g].lines[l].at <= writes'
  BY <1>1, <1>5, <1>9 DEF OrdersAreApart
<1> QED BY <1>7, <1>13, <1>14, <1>16, <1>17, <1>18 DEF OrdersAreApart, IntentsAbout

\* Then the cart is cleared, unless the order let go of it before.
LEMMA ClearApart ==
  ASSUME Alone, Typing, Typing', OrdersAreApart, NEW w \in Worker,
         ReadSourceCart(w) \/ WipeCart(w) \/ RecordPayment(w)
  PROVE  OrdersAreApart'
<1>1. UNCHANGED <<orders, intents, writes>> BY DEF ReadSourceCart, WipeCart, RecordPayment, basket, money
<1>2. OrdersAlike /\ IntentsAbout' /\ Unpaid' = Unpaid
  BY <1>1, SameIsAlike DEF Unpaid
<1>3. CASE ReadSourceCart(w)
  <2>1. CartAges BY <1>1, <1>3, SameIsAlike DEF ReadSourceCart, basket
  <2>2. CASE job'[w] = Idle /\ ~orders[job[w].order].linked
    <3>1. Serves(job[w])' BY <2>2, IdleIsTyped, UnservedServes
    <3> QED BY <1>2, <2>1, <2>2, <3>1, AlikeApart DEF Clears
  <2>3. CASE job'[w].pc = "wipe" /\ job'[w].order = job[w].order
    <3>1. Serves(job[w])' BY <1>2, <1>3, <2>3 DEF Serves, OrdersAreApart, ReadSourceCart, At
    <3>2. \A f \in DOMAIN orders : Clears(job[w], f) => Clears(job[w], f)'
      BY <1>1, <2>3 DEF Clears
    <3> QED BY <1>2, <2>1, <3>1, <3>2, AlikeApart
  <2> QED BY <1>3, <2>2, <2>3, Settled
<1>4. CASE WipeCart(w)
  <2>1. cart' = EmptyCart BY <1>4 DEF WipeCart
  <2>2. CartAges BY <1>1, <2>1, AgesAre DEF CartAges, EmptyCart
  <2>3. job'[w].pc = "unlink" /\ job'[w].order = job[w].order /\ job[w].pc = "wipe"
    BY <1>4, Settled DEF WipeCart, At
  <2>4. Serves(job[w])' BY <1>2, <2>3 DEF Serves, OrdersAreApart
  <2>5. \A f : Fresh(cart, f)' BY <2>1 DEF Fresh, EmptyCart
  <2> QED BY <1>2, <2>2, <2>4, <2>5, AlikeApart
<1>5. CASE RecordPayment(w)
  <2>1. CartAges BY <1>1, <1>5, SameIsAlike DEF RecordPayment, basket
  <2>2. job'[w].pc = "settle" /\ job'[w].order = job[w].order /\ job[w].pc = "record"
    BY <1>5, Settled DEF RecordPayment, At
  <2>3. Serves(job[w])' BY <1>2, <2>2 DEF Serves, OrdersAreApart
  <2> QED BY <1>2, <2>1, <2>2, <2>3, AlikeApart DEF Clears
<1> QED BY <1>3, <1>4, <1>5

\* An order that let go of its cart is paid or failed.
LEMMA UnlinkApart ==
  ASSUME Alone, Typing, Typing', OrdersAreApart, NEW w \in Worker, UnlinkCart(w)
  PROVE  OrdersAreApart'
<1> DEFINE f == job[w].order
<1>1. UNCHANGED <<intents, cart, writes>> /\ job[w].pc = "unlink" BY DEF UnlinkCart, At, basket
<1>2. f \notin Unpaid BY <1>1 DEF OrdersAreApart, Serves
<1>3. \A g \in DOMAIN orders : orders[g] \in Order BY OrderIs
<1>4. /\ DOMAIN orders' = DOMAIN orders
      /\ \A g \in DOMAIN orders : /\ orders'[g].status = orders[g].status
                                  /\ orders'[g].lines = orders[g].lines
                                  /\ g # f => orders'[g] = orders[g]
                                  /\ g = f => ~orders'[g].linked
  BY <1>3 DEF UnlinkCart, Order
<1> HIDE DEF f
<1>5. Unpaid' = Unpaid /\ Waiting' = Waiting /\ Paid' = Paid
  BY <1>2, <1>4 DEF Unpaid, Waiting, Paid
<1>6. \A g \in Paid : Fresh(cart, g)
  BY <1>1, OnlyJob DEF OrdersAreApart, Clears
<1>7. \A g \in Paid' : Fresh(cart, g)' BY <1>1, <1>4, <1>5, <1>6 DEF Fresh, Paid
<1>8. \A g \in Paid', h \in Paid' \cup Unpaid' : g # h => Fresh(orders[h].lines, g)'
  <2> SUFFICES ASSUME NEW g \in Paid, NEW h \in Paid \cup Unpaid, g # h
               PROVE  Fresh(orders[h].lines, g)'
    BY <1>5
  <2>1. g \in DOMAIN orders /\ h \in DOMAIN orders /\ Fresh(orders[h].lines, g)
    BY DEF OrdersAreApart, Paid, Unpaid
  <2> QED BY <1>4, <2>1 DEF Fresh
<1>9. Serves(job[w])' BY Settled, IdleIsTyped, UnservedServes
<1>10. \A v \in Worker : Serves(job[v])' BY <1>9, OnlyJob
<1>11. IntentsAbout' BY <1>1, <1>4 DEF IntentsAbout, OrdersAreApart
<1>12. /\ \A l \in DOMAIN cart' : cart'[l].at <= writes'
       /\ \A g \in DOMAIN orders' : \A l \in DOMAIN orders'[g].lines : orders'[g].lines[l].at <= writes'
  BY <1>1, <1>4 DEF OrdersAreApart
<1>13. Waiting' \subseteq Unpaid' /\ \A g, h \in Unpaid' : g = h BY <1>5 DEF OrdersAreApart
<1> QED BY <1>7, <1>8, <1>10, <1>11, <1>12, <1>13 DEF OrdersAreApart, IntentsAbout

\* Only the order that waits is about to be paid.
LEMMA ReceiveApart ==
  ASSUME Alone, Typing, Typing', OrdersAreApart, NEW w \in Worker,
         NEW i \in DOMAIN intents, ReceivePayment(w, i)
  PROVE  OrdersAreApart'
<1> DEFINE f == intents[i].order
<1>1. UNCHANGED <<orders, intents, cart, writes>> /\ job[w].pc = "idle"
  BY DEF ReceivePayment, Begin, At, basket, money
<1>2. Unpaid' = Unpaid BY <1>1 DEF Unpaid
<1>3. f \in DOMAIN orders BY DEF OrdersAreApart
<1>4. /\ job'[w].order = f
      /\ job'[w].pc = IF orders[f].status = "pending_payment" THEN "record" ELSE "clear"
  BY Settled
<1> HIDE DEF f
<1>5. CASE orders[f].status = "pending_payment"
  <2>1. f \in Unpaid BY <1>3, <1>5 DEF Waiting, OrdersAreApart
  <2>2. Serves(job[w])' BY <1>2, <1>4, <1>5, <2>1 DEF Serves
  <2> QED BY <1>1, <2>2, SameIsAlike, AlikeApart DEF Clears
<1>6. CASE orders[f].status # "pending_payment"
  <2>1. f \notin Unpaid BY <1>6 DEF Unpaid
  <2>2. Serves(job[w])' BY <1>2, <1>4, <1>6, <2>1 DEF Serves
  <2> QED BY <1>1, <2>2, SameIsAlike, AlikeApart DEF Clears
<1> QED BY <1>5, <1>6

\* Every step leaves orders apart.
LEMMA NextApart ==
  ASSUME Alone, Typing, Typing', OrdersAreApart, [Next]_vars
  PROVE  OrdersAreApart'
<1>1. ASSUME NEW w \in Worker, CheckOut(w) PROVE OrdersAreApart'
  BY <1>1, PageApart, ReadApart, AbandonApart, CreateApart, IntentApart DEF CheckOut
<1>2. ASSUME NEW w \in Worker, Payment(w) PROVE OrdersAreApart'
  BY <1>2, ReceiveApart, SettleApart, ClearApart, UnlinkApart DEF Payment
<1>3. CASE Deadline \/ Pay \/ UNCHANGED vars
  <2>1. UNCHANGED <<orders, cart, writes, job>> BY <1>3 DEF Deadline, Pay, vars, basket, money
  <2>2. IntentsAbout'
    <3>1. CASE UNCHANGED intents BY <2>1, <3>1, SameIsAlike
    <3>2. CASE Pay
      <4>1. PICK i \in DOMAIN intents : intents' = [intents EXCEPT ![i].status = "succeeded"]
        BY <3>2 DEF Pay
      <4>2. intents' = [intents EXCEPT ![i] = [intents[i] EXCEPT !.status = "succeeded"]] BY <4>1
      <4>3. \A k \in DOMAIN intents : intents[k].order \in DOMAIN orders BY DEF OrdersAreApart
      <4> QED BY <2>1, <4>2, <4>3, IntentIs DEF IntentsAbout
    <3> QED BY <1>3, <3>1, <3>2 DEF Deadline, vars, money
  <2>3. Unpaid' = Unpaid BY <2>1 DEF Unpaid
  <2>4. \A w \in Worker : Serves(job[w])' BY <2>1, <2>3 DEF Serves, OrdersAreApart
  <2>5. \A w \in Worker : \A f \in DOMAIN orders : Clears(job[w], f) => Clears(job[w], f)'
    BY <2>1 DEF Clears
  <2>6. \E w : w \in Worker BY DEF Alone
  <2> QED BY <2>1, <2>2, <2>4, <2>5, <2>6, SameIsAlike, AlikeApart
<1> QED BY <1>1, <1>2, <1>3, BasketApart DEF Next, Step

\* With one worker, orders compete for no lines.
THEOREM OrdersStayApart == Alone => (Spec => []OrdersAreApart)
<1> SUFFICES ASSUME Alone PROVE Spec => []OrdersAreApart OBVIOUS
<1>1. Init => OrdersAreApart
  <2> SUFFICES ASSUME Init PROVE OrdersAreApart OBVIOUS
  <2>1. DOMAIN intents = {} /\ DOMAIN orders = {} /\ DOMAIN cart = {} BY DEF Init, EmptyCart
  <2>2. Unpaid = {} /\ Waiting = {} /\ Paid = {} BY <2>1 DEF Unpaid, Waiting, Paid
  <2>3. \A w \in Worker : job[w] = Idle BY DEF Init
  <2>4. \A w \in Worker : Serves(job[w]) BY <2>3, IdleIsTyped DEF Serves
  <2> QED BY <2>1, <2>2, <2>4 DEF OrdersAreApart
<1>2. Typing /\ Typing' /\ OrdersAreApart /\ [Next]_vars => OrdersAreApart' BY NextApart
<1> QED BY <1>1, <1>2, TypingHolds, PTL DEF Spec

\* With one worker, a cart has one unpaid order at most (createOrderFromCart).
THEOREM OneOrderWaits == Alone => (Spec => []OneUnpaidOrder)
<1> SUFFICES ASSUME Alone PROVE Spec => []OneUnpaidOrder OBVIOUS
<1>1. OrdersAreApart => OneUnpaidOrder
  <2> SUFFICES ASSUME OrdersAreApart PROVE Cardinality(Unpaid) <= 1 BY DEF OneUnpaidOrder
  <2>1. CASE Unpaid = {} BY <2>1, FS_EmptySet
  <2>2. CASE \E f : Unpaid = {f} BY <2>2, FS_Singleton
  <2>3. \A f \in Unpaid : Unpaid = {f} BY DEF OrdersAreApart
  <2> QED BY <2>1, <2>2, <2>3
<1> QED BY <1>1, OrdersStayApart, PTL

\* With one worker, no line is paid for in two orders (clearCheckoutSourceCartForOrder).
THEOREM LinesArePaidOnce == Alone => (Spec => []NoLineIsPaidTwice)
<1> SUFFICES ASSUME Alone PROVE Spec => []NoLineIsPaidTwice OBVIOUS
<1>1. OrdersAreApart => NoLineIsPaidTwice
  BY DEF OrdersAreApart, NoLineIsPaidTwice, Fresh
<1> QED BY <1>1, OrdersStayApart, PTL

=============================================================================
