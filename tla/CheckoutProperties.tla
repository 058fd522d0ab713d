------------------------- MODULE CheckoutProperties -------------------------
(***************************************************************************)
(* What Checkout.tla should guarantee to the group and to who pays.        *)
(***************************************************************************)
EXTENDS Checkout, DataFacts

\* The type invariant of the session, the cart, forms, orders, intents and jobs.
TypeOK ==
  /\ session \in Session
  /\ writes \in 0..MaxWrites
  /\ DOMAIN cart \subseteq 1..MaxWrites /\ cart \in [DOMAIN cart -> Line]
  /\ Len(forms) <= MaxForms
  /\ DOMAIN orders \subseteq DOMAIN forms /\ orders \in [DOMAIN orders -> Order]
  /\ intents \in Seq(Intent) /\ Len(intents) <= MaxForms + MaxReplaced
  /\ payments \subseteq DOMAIN intents
  /\ \A w \in Worker : job[w] \in Job

\* What TypeOK needs to be inductive: a job at a step that uses a form, an order or an
\* intent holds one that exists; the bounds count what is under way; and an order has one
\* intent of its own key, so that there are no more of those than forms.
WritePc == {"add", "write", "set"}
FormPc  == {"lock", "print", "page"}
OrderPc == {"intent", "cancel", "make", "store"}

Replaces(j) == j.pc \in {"cancel", "make"} /\ j.flag

JobIsTyped(j, formIds, orderIds, intentIds) ==
  /\ j \in Job
  /\ j.pc \in OrderPc \cup {"match", "read", "abandon", "create"} => j.form \in formIds
  /\ j.pc \in OrderPc \cup {"abandon"} => j.order \in orderIds
  /\ j.pc \in {"store", "record"} => j.intent \in intentIds

WithinBounds ==
  /\ writes + Cardinality({w \in Worker : job[w].pc \in WritePc}) <= MaxWrites
  /\ Len(forms) + Cardinality({w \in Worker : job[w].pc \in FormPc}) <= MaxForms
  /\ Cardinality({i \in DOMAIN intents : ~intents[i].stable})
       + Cardinality({w \in Worker : Replaces(job[w])}) <= MaxReplaced
  /\ \A i, k \in DOMAIN intents :
       intents[i].stable /\ intents[k].stable /\ intents[i].order = intents[k].order => i = k

Typing ==
  /\ TypeOK
  /\ IsSequence(forms)
  /\ job \in [Worker -> Job]
  /\ \A w \in Worker : JobIsTyped(job[w], DOMAIN forms, DOMAIN orders, DOMAIN intents)
  /\ WithinBounds

\* When a group's host is about to be given a payment intent, the order it is for has the
\* lines the host's form showed, whichever order that is: a new one, a reused one, or the
\* one the form made before (groupCheckoutFingerprintsMatch, evaluatePendingOrderReuse).
OrderIsAsShown ==
  \A w \in Worker :
    job[w].pc \in {"intent", "store"} /\ orders[job[w].order].group =>
      Content(orders[job[w].order].lines) = Content(forms[job[w].form].shown)

\* "One unpaid checkout per cart" (createOrderFromCart).
OneUnpaidOrder == Cardinality(Unpaid) <= 1

Paid == {f \in DOMAIN orders : orders[f].status = "paid"}

\* No line, as it was last written, is paid for in two orders
\* (clearCheckoutSourceCartForOrder).
NoLineIsPaidTwice ==
  \A f, g \in Paid : \A l \in DOMAIN orders[f].lines \cap DOMAIN orders[g].lines :
    orders[f].lines[l] = orders[g].lines[l] => f = g

\* An order is paid only when an intent of its own succeeded, however often and in
\* whatever order events and requests arrive (processSuccessfulPayment).
PaidIsCharged ==
  \A f \in Paid : \E i \in DOMAIN intents :
    intents[i].order = f /\ intents[i].status = "succeeded"

\* What makes it so for any number of workers, inductively: who is about to record a payment
\* or to settle an order holds the intent that succeeded.  (The first conjuncts say that
\* jobs, orders and intents have their fields.)
IntentFields == {"order", "status", "stable", "shown"}
OrderFields  == {"status", "group", "lines", "linked", "intent"}
JobFields    == {"pc", "who", "line", "item", "quantity", "seen", "print", "form", "order",
                 "intent", "flag"}

Charges(j, i) ==
  i \in DOMAIN intents /\ intents[i].order = j.order /\ intents[i].status = "succeeded"

Charged ==
  /\ DOMAIN job = Worker /\ \A w \in Worker : DOMAIN job[w] = JobFields
  /\ \A f \in DOMAIN orders : DOMAIN orders[f] = OrderFields
  /\ IsSequence(intents) /\ \A i \in DOMAIN intents : DOMAIN intents[i] = IntentFields
  /\ \A w \in Worker : job[w].pc \in {"record", "settle"} => Charges(job[w], job[w].intent)
  /\ PaidIsCharged

\* With one worker, what a job read of the session is still so when it writes: only the
\* deadline moves meanwhile.
Alone == \E w : Worker = {w}

AsRead(j) ==
  /\ j.pc \in WritePc => session.status # "locked_checkout"
  /\ j.pc = "unlock" => session.status = "locked_checkout"
  /\ j.pc = "end" => session.status \notin {"none", "submitted"}
  /\ j.pc \in {"expire", "lock", "match"} => Open
  /\ j.pc = "match" => j.seen = session.status
  /\ j.pc \in {"read", "abandon", "create"} =>
       j.seen = session.status /\ j.seen \in {"none", "locked_checkout"}

SessionIsAsRead == \A w \in Worker : AsRead(job[w])

\* With one worker, the lines of a group's order are those its form showed: the cart is the
\* form's from the comparison until the order is written.
SameContent(f, g) == Content(orders[f].lines) = Content(forms[g].shown)

Shows(j) ==
  /\ j.pc = "page" /\ j.print # NoPrint => j.print.lines = cart
  /\ j.pc \in {"read", "abandon", "create"} /\ j.seen # "none" => cart = forms[j.form].shown
  /\ j.pc \in {"abandon", "create"} => j.print.lines = cart
  /\ j.pc \in OrderPc /\ orders[j.order].group => SameContent(j.order, j.form)

LinesAreShown ==
  /\ \A f \in DOMAIN forms : forms[f].print # NoPrint => forms[f].print.lines = forms[f].shown
  /\ \A f \in DOMAIN orders : orders[f].group =>
       orders[f].lines = forms[f].shown /\ session.status # "none"
  /\ \A w \in Worker : Shows(job[w])

\* With one worker, an order that waits is the only one, and a paid order shares no line as
\* it was last written with the cart, once it is cleared, or with another order that waits
\* or is paid.
Fresh(lines, f) ==
  \A l \in DOMAIN lines \cap DOMAIN orders[f].lines : lines[l].at # orders[f].lines[l].at

Clears(j, f) == j.pc \in {"clear", "wipe"} /\ j.order = f /\ orders[f].linked

Serves(j) ==
  /\ j.pc = "create" => Unpaid = {}
  /\ j.pc = "abandon" => Unpaid \subseteq {j.order}
  /\ j.pc \in {"abandon", "create"} => j.print.lines = cart
  /\ j.pc \in {"record", "settle"} => j.order \in Unpaid
  /\ j.pc \in {"clear", "wipe", "unlink"} => j.order \notin Unpaid

Waiting == {f \in DOMAIN orders : orders[f].status = "pending_payment"}

OrdersAreApart ==
  /\ \A i \in DOMAIN intents : intents[i].order \in DOMAIN orders
  /\ Waiting \subseteq Unpaid /\ \A f, g \in Unpaid : f = g
  /\ \A l \in DOMAIN cart : cart[l].at <= writes
  /\ \A f \in DOMAIN orders : \A l \in DOMAIN orders[f].lines : orders[f].lines[l].at <= writes
  /\ \A f \in Paid : Fresh(cart, f) \/ \E w \in Worker : Clears(job[w], f)
  /\ \A f \in Paid, g \in Paid \cup Unpaid : f # g => Fresh(orders[g].lines, f)
  /\ \A w \in Worker : Serves(job[w])

\* While the cart is locked, nothing is added and no line changes; lines may go (a guest
\* leaves, an order is paid).
LockedCartIsFixed ==
  [][session.status = "locked_checkout" /\ session'.status = "locked_checkout" =>
       DOMAIN cart' \subseteq DOMAIN cart /\ \A l \in DOMAIN cart' : cart'[l] = cart[l]]_vars

\* A closed group order is reopened by its host's new start only, and a submitted one does
\* not close in any other way (unlock, end, expiry).
ClosedStaysClosed ==
  [][session.status \in {"submitted", "ended", "expired"} /\ session'.status # session.status =>
       \/ \E w \in Worker : At(w, "start")
       \/ session.status # "submitted" /\ session'.status = "ended"]_vars
=============================================================================
