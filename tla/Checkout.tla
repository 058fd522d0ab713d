------------------------------ MODULE Checkout ------------------------------
(***************************************************************************)
(* One cart, its group order, its checkouts and their payments.            *)
(*                                                                         *)
(* The host of a group order and its guests fill one cart, the host opens  *)
(* checkout forms (which lock the cart), submits them and pays.  Without a *)
(* group order the host is simply the customer.  Each request and each     *)
(* delivery of Stripe's event is a job of a worker; a step is one          *)
(* statement, one transaction or one call to Stripe.  No transaction locks *)
(* what it reads, so one that writes what it read is two steps.            *)
(***************************************************************************)
EXTENDS Integers, Sequences, FiniteSets

CONSTANTS
  Worker,       \* concurrent invocations
  Host,         \* the customer who owns the cart
  Guest,        \* those who may join
  NoOne,        \* no person: a line without an owner
  Item,         \* what can be ordered: a menu item with its options and notes
  Deeds,        \* the kinds of request of a run
  Faults,       \* the faults a run admits
  MaxQuantity,  \* bound: quantity of a line
  MaxWrites,    \* bound: writes of lines
  MaxForms,     \* bound: checkout forms opened
  MaxReplaced   \* bound: payment intents that replace another

Deed  == {"add", "set", "clear", "join", "leave", "start", "unlock", "end", "expire", "resume"}
Fault == {"lost_answer", "lookup_fails", "unorderable", "other_tip"}

ASSUME CheckoutAssumption ==
  /\ Deeds \subseteq Deed
  /\ Faults \subseteq Fault
  /\ Host \notin Guest
  /\ NoOne \notin Guest \cup {Host}
  /\ Item # {}
  /\ IsFiniteSet(Worker)
  /\ {MaxQuantity, MaxWrites, MaxForms, MaxReplaced} \subseteq Nat /\ MaxQuantity # 0

Person == Guest \cup {Host}
FormId   == 1..MaxForms
IntentId == 1..(MaxForms + MaxReplaced)

VARIABLES
  session,   \* GroupOrderSession: status, whether expiresAt has passed, guests who are in
  cart,      \* CartItem by id
  writes,    \* writes of lines so far, the source of ids and of updatedAt
  forms,     \* the checkout forms opened: the fingerprint of each, the lines it shows
  orders,    \* Order by the form whose key created it
  intents,   \* Stripe's payment intents
  payments,  \* the intents with a Payment row
  job        \* what each worker is doing

basket == <<session, cart, writes>>
money  == <<orders, intents, payments>>
vars   == <<basket, forms, money, job>>

SessionStatus == {"none", "active", "locked_checkout", "submitted", "ended", "expired"}
OrderStatus   == {"pending_payment", "paid", "failed"}   \* "paid": that, and all that follows

Session == [status : SessionStatus, late : BOOLEAN, guests : SUBSET Guest]
Line    == [item : Item, owner : Person \cup {NoOne}, quantity : 1..MaxQuantity, at : 1..MaxWrites]
Cart    == UNION {[ids -> Line] : ids \in SUBSET (1..MaxWrites)}
Snapshot == [status : SessionStatus, lines : Cart]
Order   == [status : OrderStatus, group : BOOLEAN, lines : Cart,
            linked : BOOLEAN, intent : {0} \cup IntentId]
Intent  == [order : FormId, status : {"open", "succeeded", "canceled"},
            stable : BOOLEAN, shown : BOOLEAN]

Pc == {"idle", "add", "write", "set", "empty", "start", "unlock", "end", "expire",
       "lock", "print", "page", "match", "read", "abandon", "create",
       "intent", "cancel", "make", "store", "record", "settle", "clear", "wipe", "unlink"}

EmptyCart == [i \in {} |-> 0]
NoPrint   == [status |-> "none", lines |-> EmptyCart]

\* What a job knows: who asked, the line, item and quantity it is about, the session's
\* status as it was read, a cart or fingerprint it read, the form or order, the intent.
Job == [pc : Pc, who : Person \cup {NoOne}, line : 0..MaxWrites, item : Item, quantity : 0..MaxQuantity,
        seen : SessionStatus, print : Snapshot, form : {0} \cup FormId, order : {0} \cup FormId,
        intent : {0} \cup IntentId, flag : BOOLEAN]

Idle == [pc |-> "idle", who |-> Host, line |-> 0, item |-> CHOOSE i \in Item : TRUE,
         quantity |-> 0, seen |-> "none", print |-> NoPrint, form |-> 0, order |-> 0,
         intent |-> 0, flag |-> FALSE]

Init ==
  /\ session = [status |-> "none", late |-> FALSE, guests |-> {}]
  /\ cart = EmptyCart
  /\ writes = 0
  /\ forms = <<>>
  /\ orders = [f \in {} |-> 0]
  /\ intents = <<>>
  /\ payments = {}
  /\ job = [w \in Worker |-> Idle]

At(w, pc)   == job[w].pc = pc
Begin(w, j) == At(w, "idle") /\ job' = [job EXCEPT ![w] = j]
Stop(w)     == job' = [job EXCEPT ![w] = Idle]
Goto(w, pc) == job' = [job EXCEPT ![w].pc = pc]

Put(f, x, value) == [y \in DOMAIN f \cup {x} |-> IF y = x THEN value ELSE f[y]]
Only(f, S)       == [x \in S |-> f[x]]

Open == session.status \in {"active", "locked_checkout"}

-----------------------------------------------------------------------------
(* Changes of the cart: who may (assertCartSessionAccess, the actor, then  *)
(* enforceGroupOrderCartMutation).                                         *)

IsActor(p) == Open /\ ~session.late /\ (p = Host \/ p \in session.guests)

\* Mutant: the lock stops those who add lines only.
EnforceForNewLines(p, line) ==
  \/ session.status \in {"none", "ended"} /\ p = Host
  \/ /\ IsActor(p) /\ (line = 0 => session.status = "active")
     /\ line # 0 => p = Host \/ cart[line].owner = p

\* line = 0: a new line.
enforceGroupOrderCartMutation(p, line) ==
  \/ session.status \in {"none", "ended"} /\ p = Host
  \/ /\ IsActor(p) /\ session.status = "active"
     /\ line # 0 => p = Host \/ cart[line].owner = p

Matching(i) == {l \in DOMAIN cart : cart[l].item = i}

\* The bound on writes counts those under way.
MayWrite ==
  writes + Cardinality({w \in Worker : job[w].pc \in {"add", "write", "set"}}) < MaxWrites

\* addCartItem: the line that would be merged with is found and checked.  Who acts for
\* the group order owns what is added.
AskAdd(w) ==
  /\ "add" \in Deeds /\ MayWrite
  /\ \E p \in Person, i \in Item :
       /\ \/ Matching(i) = {} /\ enforceGroupOrderCartMutation(p, 0)
          \/ \E l \in Matching(i) : enforceGroupOrderCartMutation(p, l)
       /\ Begin(w, [Idle EXCEPT !.pc = "add", !.who = IF Open THEN p ELSE NoOne, !.item = i])
  /\ UNCHANGED <<basket, forms, money>>

\* Its transaction: the lock is checked again, and the line is found again...
MatchLine(w) ==
  LET j == job[w] IN
  /\ At(w, "add")
  /\ \/ session.status = "locked_checkout" /\ Stop(w)
     \/ session.status # "locked_checkout" /\ Matching(j.item) = {} /\ Goto(w, "write")
     \/ \E l \in Matching(j.item) :
          /\ session.status # "locked_checkout"
          /\ job' = [job EXCEPT ![w].pc = "write", ![w].line = l, ![w].quantity = cart[l].quantity]
  /\ UNCHANGED <<basket, forms, money>>

\* ...and updated, to one more than was read, or created.  A line that is gone fails.
WriteLine(w) ==
  LET j == job[w]
      n == writes + 1
  IN
  /\ At(w, "write") /\ Stop(w)
  /\ IF j.line = 0
     THEN /\ cart' = Put(cart, n, [item |-> j.item, owner |-> j.who, quantity |-> 1, at |-> n])
          /\ writes' = n
     ELSE IF j.line \in DOMAIN cart /\ j.quantity < MaxQuantity
     THEN /\ cart' = [cart EXCEPT ![j.line].quantity = j.quantity + 1, ![j.line].at = n]
          /\ writes' = n
     ELSE UNCHANGED <<cart, writes>>
  /\ UNCHANGED <<session, forms, money>>

\* updateCartItem, and removeCartItem as quantity 0: checked, then written.
AskSet(w) ==
  /\ "set" \in Deeds /\ MayWrite
  /\ \E p \in Person, l \in DOMAIN cart, q \in 0..MaxQuantity :
       /\ enforceGroupOrderCartMutation(p, l)
       /\ Begin(w, [Idle EXCEPT !.pc = "set", !.who = p, !.line = l, !.quantity = q])
  /\ UNCHANGED <<basket, forms, money>>

\* Mutant: quantity 0 is written like any other.
SetAnyQuantity(w) ==
  LET j == job[w] IN
  /\ At(w, "set") /\ Stop(w)
  /\ IF j.line \in DOMAIN cart
     THEN /\ writes' = writes + 1
          /\ cart' = [cart EXCEPT ![j.line].quantity = j.quantity, ![j.line].at = writes + 1]
     ELSE UNCHANGED <<cart, writes>>
  /\ UNCHANGED <<session, forms, money>>

SetLine(w) ==
  LET j == job[w] IN
  /\ At(w, "set") /\ Stop(w)
  /\ IF j.line \in DOMAIN cart /\ j.quantity > 0
     THEN /\ writes' = writes + 1
          /\ cart' = [cart EXCEPT ![j.line].quantity = j.quantity, ![j.line].at = writes + 1]
     ELSE cart' = Only(cart, DOMAIN cart \ {j.line}) /\ UNCHANGED writes
  /\ UNCHANGED <<session, forms, money>>

\* clearCartForSession: a customer's own cart.
AskClear(w) ==
  /\ "clear" \in Deeds /\ session.status \in {"none", "ended"}
  /\ Begin(w, [Idle EXCEPT !.pc = "empty"])
  /\ UNCHANGED <<basket, forms, money>>

EmptyLines(w) ==
  /\ At(w, "empty") /\ Stop(w)
  /\ cart' = EmptyCart
  /\ UNCHANGED <<session, writes, forms, money>>

Edit(w) ==
  \/ AskAdd(w) \/ MatchLine(w) \/ WriteLine(w)
  \/ AskSet(w) \/ SetLine(w) \/ AskClear(w) \/ EmptyLines(w)

-----------------------------------------------------------------------------
(* The group order: group-order.service.ts.                                *)

Become(status) == session' = [session EXCEPT !.status = status]

\* joinGroupOrderSession and leaveGroupOrderAsParticipant write what does not depend on
\* what they read: each is one step.  Leaving looks at no lock.
Join(w) ==
  /\ "join" \in Deeds /\ At(w, "idle") /\ session.status = "active" /\ ~session.late
  /\ \E g \in Guest \ session.guests :
       session' = [session EXCEPT !.guests = @ \cup {g}]
  /\ UNCHANGED <<cart, writes, forms, money, job>>

Leave(w) ==
  /\ "leave" \in Deeds /\ At(w, "idle")
  /\ \E g \in session.guests :
       /\ IsActor(g)
       /\ session' = [session EXCEPT !.guests = @ \ {g}]
       /\ cart' = Only(cart, {l \in DOMAIN cart : cart[l].owner # g})
  /\ UNCHANGED <<writes, forms, money, job>>

\* startGroupOrderSession: a session that is open stays as it is.
AskStart(w) ==
  /\ "start" \in Deeds /\ ~Open
  /\ Begin(w, [Idle EXCEPT !.pc = "start", !.seen = session.status])
  /\ UNCHANGED <<basket, forms, money>>

\* A new session, with the lines the host's; a closed one is reopened, whatever it is by
\* now.
StartSession(w) ==
  /\ At(w, "start") /\ Stop(w)
  /\ \/ /\ job[w].seen = "none" /\ session.status = "none"
        /\ session' = [session EXCEPT !.status = "active", !.late = FALSE]
        /\ cart' = [l \in DOMAIN cart |-> [cart[l] EXCEPT !.owner = Host]]
     \/ /\ job[w].seen = "none" /\ session.status # "none"
        /\ UNCHANGED <<session, cart>>
     \/ /\ job[w].seen # "none"
        /\ session' = [session EXCEPT !.status = "active", !.late = FALSE]
        /\ UNCHANGED cart
  /\ UNCHANGED <<writes, forms, money>>

\* Mutant: whatever the status is, the host unlocks.
AskUnlockAny(w) ==
  /\ "unlock" \in Deeds /\ session.status # "none"
  /\ Begin(w, [Idle EXCEPT !.pc = "unlock"])
  /\ UNCHANGED <<basket, forms, money>>

\* unlockGroupOrderSessionFromCheckout reads, then writes without a condition.
AskUnlock(w) ==
  /\ "unlock" \in Deeds /\ session.status = "locked_checkout"
  /\ Begin(w, [Idle EXCEPT !.pc = "unlock"])
  /\ UNCHANGED <<basket, forms, money>>

Unlock(w) ==
  /\ At(w, "unlock") /\ Stop(w) /\ Become("active")
  /\ UNCHANGED <<cart, writes, forms, money>>

\* endGroupOrderAsHost: so does this one.
AskEnd(w) ==
  /\ "end" \in Deeds /\ session.status \notin {"none", "submitted"}
  /\ Begin(w, [Idle EXCEPT !.pc = "end"])
  /\ UNCHANGED <<basket, forms, money>>

EndSession(w) ==
  /\ At(w, "end") /\ Stop(w) /\ Become("ended")
  /\ cart' = EmptyCart
  /\ UNCHANGED <<writes, forms, money>>

\* expiresAt passes.
Deadline ==
  /\ "expire" \in Deeds /\ Open /\ ~session.late
  /\ session' = [session EXCEPT !.late = TRUE]
  /\ UNCHANGED <<cart, writes, forms, money, job>>

\* Any visit expires a session that is open and late (expireGroupOrderSessionIfStale, and
\* resolveActorForGroupCart through it).
AskExpire(w) ==
  /\ Open /\ session.late
  /\ Begin(w, [Idle EXCEPT !.pc = "expire"])
  /\ UNCHANGED <<basket, forms, money>>

Expire(w) ==
  /\ At(w, "expire") /\ Stop(w) /\ Become("expired")
  /\ UNCHANGED <<cart, writes, forms, money>>

GroupOrder(w) ==
  \/ Join(w) \/ Leave(w) \/ AskStart(w) \/ StartSession(w) \/ AskUnlock(w) \/ Unlock(w)
  \/ AskEnd(w) \/ EndSession(w) \/ AskExpire(w) \/ Expire(w)

-----------------------------------------------------------------------------
(* The checkout page: prepareGroupOrderCheckoutForHost, then the cart.     *)

MayOpen ==
  Len(forms) + Cardinality({w \in Worker : job[w].pc \in {"lock", "print", "page"}}) < MaxForms

\* Nobody checks out a closed group order.
AskForm(w) ==
  /\ MayOpen
  /\ \/ session.status = "none" /\ Begin(w, [Idle EXCEPT !.pc = "page"])
     \/ Open /\ Begin(w, [Idle EXCEPT !.pc = "lock",
                            !.seen = IF session.late THEN "expired" ELSE session.status])
  /\ UNCHANGED <<basket, forms, money>>

LockCart(w) ==
  /\ At(w, "lock")
  /\ \/ job[w].seen = "expired" /\ Become("expired") /\ Stop(w)
     \/ job[w].seen = "active" /\ Become("locked_checkout") /\ Goto(w, "print")
     \/ job[w].seen = "locked_checkout" /\ UNCHANGED session /\ Goto(w, "print")
  /\ UNCHANGED <<cart, writes, forms, money>>

\* computeGroupCheckoutFingerprint: the status, and each line with its id and updatedAt.
Fingerprint == [status |-> session.status, lines |-> cart]

TakePrint(w) ==
  /\ At(w, "print")
  /\ job' = [job EXCEPT ![w].pc = "page", ![w].print = Fingerprint]
  /\ UNCHANGED <<basket, forms, money>>

\* The page has a form unless the cart is empty; the form has its own idempotency key.
ShowForm(w) ==
  /\ At(w, "page") /\ Stop(w)
  /\ forms' = IF cart = EmptyCart THEN forms
              ELSE Append(forms, [print |-> job[w].print, shown |-> cart])
  /\ UNCHANGED <<basket, money>>

-----------------------------------------------------------------------------
(* createOrderFromCart.                                                    *)

\* The route's access check, then the order of that key, if there is one.
SubmitForm(w) ==
  /\ \E f \in DOMAIN forms :
       /\ session.status = "none" \/ (Open /\ forms[f].print # NoPrint)
       /\ Begin(w, [Idle EXCEPT !.form = f, !.order = f, !.seen = session.status,
            !.pc = IF f \in DOMAIN orders THEN "intent"
                   ELSE IF session.status = "none" THEN "read" ELSE "match"])
  /\ UNCHANGED <<basket, forms, money>>

\* Mutant: the cart is not compared with what the form was made from.
MatchStatusOnly(w) ==
  /\ At(w, "match")
  /\ IF job[w].seen = "locked_checkout" THEN Goto(w, "read") ELSE Stop(w)
  /\ UNCHANGED <<basket, forms, money>>

\* The fingerprint is compared with the cart as it is, the lock with the status read
\* before.
MatchPrint(w) ==
  /\ At(w, "match")
  /\ IF Fingerprint = forms[job[w].form].print /\ job[w].seen = "locked_checkout"
     THEN Goto(w, "read") ELSE Stop(w)
  /\ UNCHANGED <<basket, forms, money>>

\* Lines as an order compares them: without ids and times.
Content(lines) ==
  [k \in {[item |-> lines[l].item, owner |-> lines[l].owner, quantity |-> lines[l].quantity] :
            l \in DOMAIN lines} |->
     Cardinality({l \in DOMAIN lines :
       k = [item |-> lines[l].item, owner |-> lines[l].owner, quantity |-> lines[l].quantity]})]

\* pendingFromSameCart
Unpaid == {f \in DOMAIN orders : orders[f].linked /\ orders[f].status = "pending_payment"}

\* evaluatePendingOrderReuse compares totals and pickup, too: another tip is another order.
Reusable(f) == Content(orders[f].lines) = Content(cart)

\* The cart is read, and an order of the same cart that waits for payment: it is reused, or
\* abandoned, for a new one unless the cart is empty or cannot be ordered.
ReadCart(w) ==
  LET next(pc, f, goesOn) ==
        job' = [job EXCEPT ![w].pc = pc, ![w].order = f, ![w].flag = goesOn,
                           ![w].print.lines = cart]
  IN
  /\ At(w, "read")
  /\ \/ \E f \in Unpaid :
          \/ cart = EmptyCart /\ next("abandon", f, FALSE)
          \/ cart # EmptyCart /\ Reusable(f) /\ next("intent", f, TRUE)
          \/ /\ cart # EmptyCart /\ (~Reusable(f) \/ "other_tip" \in Faults)
             /\ next("abandon", f, TRUE)
          \/ cart # EmptyCart /\ "unorderable" \in Faults /\ next("abandon", f, FALSE)
     \/ /\ Unpaid = {}
        /\ IF cart = EmptyCart THEN Stop(w) ELSE next("create", job[w].form, TRUE)
  /\ UNCHANGED <<basket, forms, money>>

\* Mutant: the order that was replaced stays.
AbandonNothing(w) ==
  /\ At(w, "abandon")
  /\ IF job[w].flag THEN Goto(w, "create") ELSE Stop(w)
  /\ UNCHANGED <<basket, forms, money>>

\* abandonStalePendingCheckoutOrder; the payment intent stays as it is.
AbandonOrder(w) ==
  LET f == job[w].order IN
  /\ At(w, "abandon")
  /\ IF job[w].flag THEN Goto(w, "create") ELSE Stop(w)
  /\ orders' = IF orders[f].status = "pending_payment"
               THEN [orders EXCEPT ![f].status = "failed", ![f].linked = FALSE] ELSE orders
  /\ UNCHANGED <<basket, forms, intents, payments>>

\* The transaction: the key is unique; a group order is submitted, whatever it is by now.
CreateOrder(w) ==
  LET j == job[w] IN
  /\ At(w, "create")
  /\ \/ /\ j.form \in DOMAIN orders
        /\ Stop(w) /\ UNCHANGED <<orders, session>>
     \/ /\ j.form \notin DOMAIN orders
        /\ orders' = Put(orders, j.form,
             [status |-> "pending_payment", group |-> j.seen # "none", lines |-> j.print.lines,
              linked |-> TRUE, intent |-> 0])
        /\ IF j.seen # "none" THEN Become("submitted") ELSE UNCHANGED session
        /\ job' = [job EXCEPT ![w].pc = "intent", ![w].order = j.form]
  /\ UNCHANGED <<cart, writes, forms, intents, payments>>

-----------------------------------------------------------------------------
(* createPaymentIntent, for the checkout or to resume a payment.           *)

\* The bound on replaced intents counts those under way.
MayReplace ==
  Cardinality({i \in DOMAIN intents : ~intents[i].stable})
    + Cardinality({w \in Worker : job[w].pc \in {"cancel", "make"} /\ job[w].flag}) < MaxReplaced

Resume(w) ==
  /\ "resume" \in Deeds
  /\ \E f \in DOMAIN orders :
       orders[f].status = "pending_payment"
         /\ Begin(w, [Idle EXCEPT !.pc = "intent", !.form = f, !.order = f])
  /\ UNCHANGED <<basket, forms, money>>

Answer(i) == intents' = [intents EXCEPT ![i].shown = TRUE]

\* An intent that is stored is given again, unless it was cancelled or cannot be looked up.
ReadOrder(w) ==
  LET o == orders[job[w].order]
      go(pc, replaces) == job' = [job EXCEPT ![w].pc = pc, ![w].intent = o.intent, ![w].flag = replaces]
  IN
  /\ At(w, "intent")
  /\ \/ o.status # "pending_payment" /\ Stop(w) /\ UNCHANGED intents
     \/ o.status = "pending_payment" /\ o.intent = 0 /\ go("make", FALSE) /\ UNCHANGED intents
     \/ /\ o.status = "pending_payment" /\ o.intent # 0
        /\ \/ intents[o.intent].status # "canceled" /\ Stop(w) /\ Answer(o.intent)
           \/ /\ intents[o.intent].status = "canceled" \/ "lookup_fails" \in Faults
              /\ IF MayReplace THEN go("cancel", TRUE) ELSE Stop(w)
              /\ UNCHANGED intents
  /\ UNCHANGED <<basket, forms, orders, payments>>

\* cancelPaymentIntentIfLive: what fails is ignored.
CancelIntent(w) ==
  LET i == job[w].intent IN
  /\ At(w, "cancel") /\ Goto(w, "make")
  /\ \/ intents[i].status = "open" /\ intents' = [intents EXCEPT ![i].status = "canceled"]
     \/ /\ intents[i].status # "open" \/ "lookup_fails" \in Faults
        /\ UNCHANGED intents
  /\ UNCHANGED <<basket, forms, orders, payments>>

\* The first intent of an order has a key of its own, so Stripe makes it once; one that
\* replaces another has a new key.
MakeIntent(w) ==
  LET j == job[w]
      made == {i \in DOMAIN intents : intents[i].order = j.order /\ intents[i].stable}
  IN
  /\ At(w, "make")
  /\ \/ ~j.flag /\ made # {} /\ UNCHANGED intents
     \/ /\ j.flag \/ made = {}
        /\ intents' = Append(intents,
             [order |-> j.order, status |-> "open", stable |-> ~j.flag, shown |-> FALSE])
  /\ \/ job' = [job EXCEPT ![w].pc = "store",
                  ![w].intent = IF ~j.flag /\ made # {} THEN CHOOSE i \in made : TRUE
                                ELSE Len(intents')]
     \/ "lost_answer" \in Faults /\ Stop(w)
  /\ UNCHANGED <<basket, forms, orders, payments>>

StoreIntent(w) ==
  LET j == job[w] IN
  /\ At(w, "store") /\ Stop(w) /\ Answer(j.intent)
  /\ orders' = [orders EXCEPT ![j.order].intent = j.intent]
  /\ UNCHANGED <<basket, forms, payments>>

CheckOut(w) ==
  \/ AskForm(w) \/ LockCart(w) \/ TakePrint(w) \/ ShowForm(w)
  \/ SubmitForm(w) \/ MatchPrint(w) \/ ReadCart(w) \/ AbandonOrder(w) \/ CreateOrder(w)
  \/ Resume(w) \/ ReadOrder(w) \/ CancelIntent(w) \/ MakeIntent(w) \/ StoreIntent(w)

-----------------------------------------------------------------------------
(* The customer pays; processSuccessfulPayment.                            *)

Pay ==
  /\ \E i \in DOMAIN intents :
       /\ intents[i].shown /\ intents[i].status = "open"
       /\ intents' = [intents EXCEPT ![i].status = "succeeded"]
  /\ UNCHANGED <<basket, forms, orders, payments, job>>

\* Mutant: the intent's status is not looked at.
ReceiveUnverified(w, i) ==
  LET o == orders[intents[i].order] IN
  /\ intents[i].shown
  /\ i \in payments \/ o.status # "pending_payment" \/ o.intent \in {0, i}
  /\ Begin(w, [Idle EXCEPT !.order = intents[i].order, !.intent = i,
       !.pc = IF o.status = "pending_payment" THEN "record" ELSE "clear"])
  /\ UNCHANGED <<basket, forms, money>>

\* Stripe's event, the redirect or the browser, as often as they like.  Only an order that
\* waits is paid, with its own intent (validatePaymentIntentForOrderProcessing).
ReceivePayment(w, i) ==
  LET o == orders[intents[i].order] IN
  /\ intents[i].status = "succeeded"
  /\ i \in payments \/ o.status # "pending_payment" \/ o.intent \in {0, i}
  /\ Begin(w, [Idle EXCEPT !.order = intents[i].order, !.intent = i,
       !.pc = IF o.status = "pending_payment" THEN "record" ELSE "clear"])
  /\ UNCHANGED <<basket, forms, money>>

\* recordPaymentAndAllocations looks at the status again, and records nothing if it changed.
RecordPayment(w) ==
  LET j == job[w] IN
  /\ At(w, "record") /\ Goto(w, "settle")
  /\ payments' = IF orders[j.order].status = "pending_payment" THEN payments \cup {j.intent}
                 ELSE payments
  /\ UNCHANGED <<basket, forms, orders, intents>>

\* setOrderStatus, without a condition.
SettleOrder(w) ==
  /\ At(w, "settle") /\ Goto(w, "clear")
  /\ orders' = [orders EXCEPT ![job[w].order].status = "paid"]
  /\ UNCHANGED <<basket, forms, intents, payments>>

\* Mutant: the order lets go of the cart first, and then knows no cart to empty.
UnlinkOnly(w) ==
  /\ At(w, "clear") /\ Goto(w, "unlink")
  /\ UNCHANGED <<basket, forms, money>>

\* clearCheckoutSourceCartForOrder
ReadSourceCart(w) ==
  /\ At(w, "clear")
  /\ IF orders[job[w].order].linked THEN Goto(w, "wipe") ELSE Stop(w)
  /\ UNCHANGED <<basket, forms, money>>

WipeCart(w) ==
  /\ At(w, "wipe") /\ Goto(w, "unlink")
  /\ cart' = EmptyCart
  /\ UNCHANGED <<session, writes, forms, money>>

UnlinkCart(w) ==
  /\ At(w, "unlink") /\ Stop(w)
  /\ orders' = [orders EXCEPT ![job[w].order].linked = FALSE]
  /\ UNCHANGED <<basket, forms, intents, payments>>

Payment(w) ==
  \/ \E i \in DOMAIN intents : ReceivePayment(w, i)
  \/ RecordPayment(w) \/ SettleOrder(w)
  \/ ReadSourceCart(w) \/ WipeCart(w) \/ UnlinkCart(w)

Step(w) == Edit(w) \/ GroupOrder(w) \/ CheckOut(w) \/ Payment(w)

Next ==
  \/ \E w \in Worker : Step(w)
  \/ Deadline \/ Pay

Spec == Init /\ [][Next]_vars

=============================================================================
