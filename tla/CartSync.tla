------------------------------ MODULE CartSync ------------------------------
(***************************************************************************)
(* The browser's copy of one cart and its synchronisation.                 *)
(*                                                                         *)
(* A tap changes the shown cart at once and becomes an operation; after a  *)
(* pause the pending operations go to the server in one batch, while the   *)
(* customer taps on.  Items with options are added one by one by their     *)
(* dialog, through the same queue.  JavaScript runs one callback at a      *)
(* time: a step is one callback, with the promise reactions that follow    *)
(* it, or the server's work on one request.                                *)
(***************************************************************************)
EXTENDS Integers, Sequences, FiniteSetsExt, SequencesExt

CONSTANTS
  Item,        \* what can be in the cart, one line each
  Configured,  \* those with options, which a dialog adds
  Taps,        \* what customers do in a run
  Faults,      \* the faults a run admits
  MaxTaps      \* bound: taps

Tap   == {"add", "increment", "decrement", "remove", "configure", "navigate"}
Fault == {"refused", "lost", "dialog_fails"}

ASSUME CartSyncAssumption ==
  /\ Configured \subseteq Item
  /\ Taps \subseteq Tap
  /\ Faults \subseteq Fault
  /\ MaxTaps \in Nat

VARIABLES
  shown,      \* the cart on the page, lines by id: the server's, or -n for "optimistic:"
  server,     \* the cart in the database
  made,       \* lines the server made so far, the source of its ids
  taps,       \* taps so far, the source of optimistic ids
  pending,    \* the operations not sent yet, in order, at most one of a line
  timer,      \* whether the debounce timer runs
  batch,      \* the operations of the flush under way (flushPromise), <<>> for none
  confirmed,  \* the cart to roll back to, <<>> before the first tap
  waiting,    \* the flushes that wait for the one under way
  queue,      \* the cart's mutations: the batch, or an item that its dialog adds
  phase,      \* how far the first of them is
  answer,     \* what it will show: the server's cart, or the one to go back to; else empty
  leaving,    \* a navigation that waits for the cart
  \* History, which no step depends on:
  wanted,     \* by item, the quantity the customer left on the page
  contended,  \* items tapped while an addition of them was under way, refused, or changed
              \* by an answer while more of them was to be sent: see TapsAreKept
  heard       \* the last answer came, and when nothing was pending

page    == <<shown, pending, timer, batch, confirmed, waiting>>
history == <<wanted, contended, heard>>
vars    == <<page, server, made, taps, queue, phase, answer, leaving, history>>

\* The queue's element for it; a dialog's is its line and item.
Batch == <<>>

Line == [item : Item, quantity : Nat \ {0}]

\* since: the first tap an operation stands for.
Operation ==
  [type : {"addItem", "setQuantity", "removeLine"}, line : Int, item : Item, quantity : Nat,
   since : Nat]

EmptyCart == [l \in {} |-> 0]

OfItem(c, i)   == {l \in DOMAIN c : c[l].item = i}
Quantity(c, i) == MapThenSumSet(LAMBDA l : c[l].quantity, OfItem(c, i))
Put(c, l, i, n) ==
  [k \in DOMAIN c \cup {l} |-> IF k = l THEN [item |-> i, quantity |-> n] ELSE c[k]]

\* Mutant: a line of quantity zero stays.
SetAnyQuantity(c, l, n) == Put(c, l, c[l].item, n)

\* rebuildCartFromItems of what is left; a line at zero goes.
optimisticUpdateCartItemQuantity(c, l, n) ==
  IF n <= 0 THEN [k \in DOMAIN c \ {l} |-> c[k]] ELSE Put(c, l, c[l].item, n)

Init ==
  /\ \E i \in Item, n \in 0..1 :
       server = IF n = 0 THEN EmptyCart ELSE [l \in {1} |-> [item |-> i, quantity |-> 1]]
  /\ made = 1
  /\ shown = server /\ answer = EmptyCart
  /\ taps = 0
  /\ pending = <<>> /\ batch = <<>> /\ confirmed = <<>> /\ waiting = <<>> /\ queue = <<>>
  /\ timer = FALSE
  /\ phase = "start"
  /\ leaving = [at |-> "page", ahead |-> 0, since |-> 0]
  /\ wanted = [i \in Item |-> Quantity(server, i)]
  /\ contended = {}
  /\ heard = TRUE

-----------------------------------------------------------------------------
(* A tap (scheduleOptimisticCartSync).                                     *)

\* Mutant: what is pending for the line stays.
KeepFirst(ops, o) ==
  IF \E n \in DOMAIN ops : ops[n].line = o.line THEN ops ELSE Append(ops, o)

\* An operation takes the place of the one that is pending for its line.
Coalesce(ops, o) ==
  IF \E n \in DOMAIN ops : ops[n].line = o.line
  THEN [n \in DOMAIN ops |->
          IF ops[n].line = o.line THEN [o EXCEPT !.since = ops[n].since] ELSE ops[n]]
  ELSE Append(ops, o)

\* The operation for a line, after the page shows the cart c: what is gone is removed, what
\* the server does not know is added with its quantity.
OperationFor(c, l, i) ==
  [type     |-> IF l \notin DOMAIN c THEN "removeLine"
                ELSE IF l < 0 THEN "addItem" ELSE "setQuantity",
   line     |-> l,
   item     |-> i,
   quantity |-> IF l \in DOMAIN c THEN c[l].quantity ELSE 0,
   since    |-> taps + 1]

AddUnderWay(i) ==
  \/ \E n \in DOMAIN batch : batch[n].item = i /\ batch[n].type = "addItem"
  \/ queue # <<>> /\ phase # "start" /\ Head(queue) # Batch /\ Head(queue)[2] = i

\* The page shows c, in which line l of item i changed.
Schedule(c, l, i) ==
  /\ taps < MaxTaps
  /\ shown' = c
  /\ pending' = Coalesce(pending, OperationFor(c, l, i))
  /\ confirmed' = IF confirmed = <<>> THEN <<shown>> ELSE confirmed
  /\ timer' = TRUE
  /\ taps' = taps + 1
  /\ wanted' = [wanted EXCEPT ![i] = Quantity(c, i)]
  /\ contended' = IF AddUnderWay(i) THEN contended \cup {i} ELSE contended
  /\ UNCHANGED <<batch, waiting, server, made, queue, phase, answer, leaving, heard>>

\* optimisticSimpleAdd: one more of the item's line, or a line of its own; of several lines
\* none is changed, and one of them is sent as it is.
Add ==
  /\ "add" \in Taps
  /\ \E i \in Item \ Configured :
       \/ OfItem(shown, i) = {} /\ Schedule(Put(shown, -(taps + 1), i, 1), -(taps + 1), i)
       \/ \E l \in OfItem(shown, i) :
            Schedule(IF OfItem(shown, i) = {l} THEN Put(shown, l, i, shown[l].quantity + 1)
                     ELSE shown, l, i)

ChangeBy(l, n) ==
  Schedule(optimisticUpdateCartItemQuantity(shown, l, shown[l].quantity + n), l, shown[l].item)

Increment == "increment" \in Taps /\ \E l \in DOMAIN shown : ChangeBy(l, 1)
Decrement == "decrement" \in Taps /\ \E l \in DOMAIN shown : ChangeBy(l, -1)
RemoveLine == "remove" \in Taps /\ \E l \in DOMAIN shown : ChangeBy(l, -shown[l].quantity)

\* The dialog of an item with options: enqueueCartMutation.
Configure ==
  /\ "configure" \in Taps /\ taps < MaxTaps
  /\ \E i \in Configured : queue' = Append(queue, <<-(taps + 1), i>>)
  /\ taps' = taps + 1
  /\ UNCHANGED <<page, server, made, phase, answer, leaving, history>>

-----------------------------------------------------------------------------
(* flushSession                                                            *)

\* Cancelling a line the server never saw needs no call.
Sendable(ops) ==
  LET kept[n \in 0..Len(ops)] ==
        IF n = 0 THEN <<>>
        ELSE IF ops[n].type = "removeLine" /\ ops[n].line <= 0 THEN kept[n - 1]
        ELSE Append(kept[n - 1], ops[n])
  IN  kept[Len(ops)]

\* What is pending joins the mutations q as a batch.
Flush(q) ==
  /\ pending' = <<>>
  /\ batch' = Sendable(pending)
  /\ queue' = IF Sendable(pending) = <<>> THEN q ELSE Append(q, Batch)

TimerFires ==
  /\ timer /\ timer' = FALSE
  /\ \/ pending = <<>> /\ UNCHANGED <<pending, batch, queue, waiting>>
     \/ /\ pending # <<>> /\ batch # <<>>
        /\ waiting' = Append(waiting, "timer")
        /\ UNCHANGED <<pending, batch, queue>>
     \/ pending # <<>> /\ batch = <<>> /\ Flush(queue) /\ UNCHANGED waiting
  /\ UNCHANGED <<shown, confirmed, server, made, taps, phase, answer, leaving, history>>

\* Mutant: a navigation waits for the scheduler only.
AfterFlushOnly(q) == [leaving EXCEPT !.at = "queue", !.ahead = 0]

\* flushCartMutations: it waits for the mutations that are in the queue now.
AfterFlush(q) == [leaving EXCEPT !.at = "queue", !.ahead = Len(q)]

\* flushAllCartWork: the timer gives way to a flush.
Navigate ==
  /\ "navigate" \in Taps /\ leaving.at = "page" /\ timer' = FALSE
  /\ \/ pending = <<>> /\ leaving' = [AfterFlush(queue) EXCEPT !.since = taps]
        /\ UNCHANGED <<pending, batch, queue, waiting>>
     \/ /\ pending # <<>> /\ batch # <<>>
        /\ waiting' = Append(waiting, "navigation")
        /\ leaving' = [leaving EXCEPT !.at = "waiting", !.since = taps]
        /\ UNCHANGED <<pending, batch, queue>>
     \/ /\ pending # <<>> /\ batch = <<>> /\ Flush(queue)
        /\ leaving' = [IF batch' = <<>> THEN AfterFlush(queue)
                       ELSE [leaving EXCEPT !.at = "flushing"] EXCEPT !.since = taps]
        /\ UNCHANGED waiting
  /\ UNCHANGED <<shown, confirmed, server, made, taps, phase, answer, history>>

-----------------------------------------------------------------------------
(* The server (syncCartBatchAction, addToCartAction).                      *)

Result(c, n, refusals) == [cart |-> c, made |-> n, refusals |-> refusals]

AddTo(r, i, n) ==
  IF OfItem(r.cart, i) = {} THEN Result(Put(r.cart, r.made + 1, i, n), r.made + 1, r.refusals)
  ELSE LET l == CHOOSE k \in OfItem(r.cart, i) : TRUE
       IN  Result(Put(r.cart, l, i, r.cart[l].quantity + n), r.made, r.refusals)

\* An operation of a line that is gone is refused.
Apply(r, o) ==
  IF o.type = "addItem" THEN AddTo(r, o.item, o.quantity)
  ELSE IF o.line \notin DOMAIN r.cart THEN [r EXCEPT !.refusals = @ \cup {o.item}]
  ELSE [r EXCEPT !.cart = optimisticUpdateCartItemQuantity(@, o.line, o.quantity)]

\* The first n operations of the batch, without those of the lines refused.
ApplyAll(n, refused) ==
  LET r[k \in 0..n] ==
        IF k = 0 THEN Result(server, made, {})
        ELSE IF batch[k].line \in refused THEN r[k - 1]
        ELSE Apply(r[k - 1], batch[k])
  IN  r[n]

\* The operations are applied one by one: some are refused; one may throw, which ends the
\* request, as does a request or an answer that is lost.
TakeBatch ==
  /\ queue # <<>> /\ Head(queue) = Batch /\ phase = "start"
  /\ \E refused \in SUBSET {batch[n].line : n \in DOMAIN batch}, n \in 0..Len(batch),
        end \in {"answered", "lost"} :
       LET r == ApplyAll(n, refused)
           refusals == r.refusals \cup {batch[k].item : k \in {k \in DOMAIN batch : batch[k].line \in refused}}
       IN  /\ refused # {} => "refused" \in Faults
           /\ end = "lost" => "lost" \in Faults
           /\ end = "answered" => n = Len(batch)
           /\ server' = r.cart /\ made' = r.made
           /\ answer' = IF end = "lost" THEN EmptyCart ELSE r.cart
           /\ phase' = IF end = "lost" THEN end
                       ELSE IF refusals = {} THEN "answered" ELSE "refused"
           /\ contended' = IF end = "lost" THEN Item ELSE contended \cup refusals
  /\ UNCHANGED <<page, taps, queue, leaving, wanted, heard>>

-----------------------------------------------------------------------------
(* Its answer.                                                             *)

\* The line of the local cart that decides a line of the server's: the last one of its id
\* or, not yet known to the server, of its item, that has more.
Above(s, l, k) ==
  {m \in DOMAIN l : /\ m = k \/ (m < 0 /\ l[m].item = s[k].item)
                    /\ l[m].quantity > s[k].quantity}

\* Local lines that the server's cart does not have stay; so do higher quantities.
mergeServerCartWithLocalPending(s, l) ==
  [k \in DOMAIN s \cup {m \in DOMAIN l \ DOMAIN s : m > 0 \/ OfItem(s, l[m].item) = {}} |->
     IF k \notin DOMAIN s THEN l[k]
     ELSE IF Above(s, l, k) = {} THEN s[k]
     ELSE [s[k] EXCEPT !.quantity = l[Min(Above(s, l, k))].quantity]]

\* Mutant: local lines stay although nothing is pending.
MergeAlways == mergeServerCartWithLocalPending(answer, shown)

\* Without newer taps the page takes the server's cart as it is.
ServerCart ==
  IF pending = <<>> THEN answer ELSE mergeServerCartWithLocalPending(answer, shown)

Popped(q) == IF leaving.at = "queue" /\ leaving.ahead > 0
             THEN [leaving EXCEPT !.ahead = @ - 1] ELSE leaving

\* Mutant: nobody looks for what was tapped meanwhile.
EndIdle ==
  /\ queue' = Tail(queue) /\ batch' = <<>> /\ waiting' = <<>>
  /\ leaving' = IF leaving.at \in {"waiting", "flushing"} THEN AfterFlush(queue') ELSE Popped(queue')
  /\ UNCHANGED <<pending, timer>>

\* The flush is over: the timer starts again if there is more, the first flush that waited
\* sends it at once, and a navigation that did not start that one goes on to the queue.
EndFlush ==
  LET again == waiting # <<>> /\ pending # <<>>
  IN  /\ IF again THEN Flush(Tail(queue))
         ELSE queue' = Tail(queue) /\ batch' = <<>> /\ UNCHANGED pending
      /\ timer' = (timer \/ pending # <<>>)
      /\ waiting' = <<>>
      /\ leaving' =
           IF leaving.at = "waiting" /\ Head(waiting) = "navigation" /\ batch' # <<>>
           THEN [leaving EXCEPT !.at = "flushing"]
           ELSE IF leaving.at \in {"waiting", "flushing"} THEN AfterFlush(queue')
           ELSE Popped(queue')

\* The items of these operations of which the page changes a line.
SameLines(c, d, i) == OfItem(c, i) = OfItem(d, i) /\ \A l \in OfItem(c, i) : c[l] = d[l]
Overtaken(ops) ==
  {i \in Item : (\E n \in DOMAIN ops : ops[n].item = i) /\ ~SameLines(shown, shown', i)}

TakeAnswer ==
  /\ queue # <<>> /\ Head(queue) = Batch /\ phase # "start" /\ phase' = "start"
  /\ \/ /\ phase \in {"answered", "refused"}
        /\ shown' = ServerCart
        /\ confirmed' = <<answer>>
     \/ /\ phase = "lost"
        /\ shown' = IF pending = <<>> THEN Head(confirmed) ELSE shown
        /\ UNCHANGED confirmed
  /\ heard' = (pending = <<>> /\ phase # "lost")
  /\ contended' = contended \cup Overtaken(pending)
  /\ EndFlush
  /\ answer' = EmptyCart
  /\ UNCHANGED <<server, made, taps, wanted>>

-----------------------------------------------------------------------------
(* The dialog's addition (runModifierAddInBackground).                     *)

Adding(i) == queue # <<>> /\ Head(queue) # Batch /\ Head(queue)[2] = i

ShowConfigured(i) ==
  /\ Adding(i) /\ phase = "start" /\ phase' = "sent"
  /\ answer' = shown
  /\ shown' = Put(shown, Head(queue)[1], i, 1)
  /\ wanted' = [wanted EXCEPT ![i] = Quantity(shown', i)]
  /\ contended' = IF \E o \in Range(pending) \cup Range(batch) : o.item = i
                  THEN contended \cup {i} ELSE contended
  /\ UNCHANGED <<pending, timer, batch, confirmed, waiting, server, made, taps, queue, leaving, heard>>

\* The item is added, and the answer comes or is lost; or it is not added.  Of a lost answer
\* the page knows no more than of a refusal.
TakeConfigured(i) ==
  /\ Adding(i) /\ phase = "sent"
  /\ \/ LET r == AddTo(Result(server, made, {}), i, 1)
        IN  /\ server' = r.cart /\ made' = r.made
            /\ \/ answer' = r.cart /\ phase' = "answered"
               \/ "lost" \in Faults /\ UNCHANGED answer /\ phase' = "refused"
     \/ /\ "dialog_fails" \in Faults /\ phase' = "refused"
        /\ UNCHANGED <<server, made, answer>>
  /\ UNCHANGED <<page, taps, queue, leaving, history>>

\* Both ways the page keeps local lines: a failed addition's own line, too.
EndConfigured(i) ==
  /\ Adding(i) /\ phase \in {"answered", "refused"} /\ phase' = "start"
  /\ shown' = mergeServerCartWithLocalPending(answer, shown)
  /\ queue' = Tail(queue)
  /\ leaving' = Popped(queue')
  /\ heard' = (heard /\ pending = <<>> /\ phase = "answered")
  /\ contended' = contended \cup Overtaken(batch) \cup Overtaken(pending)
                              \cup (IF phase = "answered" THEN {} ELSE {i})
  /\ answer' = EmptyCart
  /\ UNCHANGED <<pending, timer, batch, confirmed, waiting, server, made, taps, wanted>>

Customer == Add \/ Increment \/ Decrement \/ RemoveLine \/ Configure \/ Navigate

Browser ==
  \/ TimerFires \/ TakeBatch \/ TakeAnswer
  \/ \E i \in Configured : ShowConfigured(i) \/ TakeConfigured(i) \/ EndConfigured(i)

Next == Customer \/ Browser

Spec     == Init /\ [][Next]_vars
FairSpec == Spec /\ WF_vars(Browser)

=============================================================================
