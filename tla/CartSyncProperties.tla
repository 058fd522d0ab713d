------------------------- MODULE CartSyncProperties -------------------------
(***************************************************************************)
(* What CartSync.tla should guarantee to who taps.                         *)
(***************************************************************************)
EXTENDS CartSync

CartOf(c) == \A l \in DOMAIN c : c[l] \in Line

\* The type invariant of the carts, the operations and the queue.
TypeOK ==
  /\ CartOf(shown) /\ CartOf(server) /\ CartOf(answer)
  /\ DOMAIN server \subseteq 1..made
  /\ taps \in 0..MaxTaps
  /\ pending \in Seq(Operation) /\ batch \in Seq(Operation)
  /\ timer \in BOOLEAN /\ heard \in BOOLEAN
  /\ Len(confirmed) <= 1 /\ \A n \in DOMAIN confirmed : CartOf(confirmed[n])
  /\ waiting \in Seq({"timer", "navigation"})
  /\ queue \in Seq({Batch} \cup (Int \X Configured))
  /\ phase \in {"start", "sent", "answered", "refused", "lost"}
  /\ leaving \in [at : {"page", "waiting", "flushing", "queue"}, ahead : Nat, since : Nat]
  /\ wanted \in [Item -> Nat] /\ contended \subseteq Item

\* For the proofs: a cart has finitely many lines, what is added is not nothing, and there is
\* a cart to go back to.
Cart(c) ==
  /\ IsFiniteSet(DOMAIN c) /\ DOMAIN c \subseteq Int
  /\ c \in [DOMAIN c -> Line]

Meant ==
  {o \in Operation : /\ o.type = "addItem" => o.line < 0
                     /\ o.type = "setQuantity" => o.line >= 0
                     /\ o.quantity = 0 <=> o.type = "removeLine"}

Typing ==
  /\ TypeOK
  /\ pending \in Seq(Meant) /\ batch \in Seq(Meant)
  /\ made \in Nat
  /\ Cart(shown) /\ Cart(server) /\ Cart(answer)
  /\ confirmed # <<>> => Cart(Head(confirmed)) /\ confirmed = <<Head(confirmed)>>
  /\ pending # <<>> \/ batch # <<>> => confirmed # <<>>

\* The flush under way is in the queue once; a dialog's line has an id of the page's.
QueueHasBatch ==
  /\ batch # <<>> <=> \E n \in DOMAIN queue : queue[n] = Batch
  /\ \A m, n \in DOMAIN queue : queue[m] = Batch /\ queue[n] = Batch => m = n
  /\ \A n \in DOMAIN queue : queue[n] # Batch => queue[n][1] < 0
  /\ queue = <<>> => phase = "start"

AtRest == pending = <<>> /\ queue = <<>>

\* When nothing is pending or under way and the last answer came with nothing pending, the
\* page shows the server's cart, line by line: no tap, merge, cancelled line or dialog since
\* has left one behind (applyServerCartPreservingPending, flushSession).
ShownIsServer == AtRest /\ heard => shown = server

\* Then the server has of each item what the customer left on the page, however the taps
\* were coalesced, batched, overtaken and cancelled; except of an item tapped while an
\* addition of it was under way, one that was refused or of which an answer changed lines on
\* the page while more was to be sent, and once an answer was lost (scheduleOptimisticCartSync,
\* flushSession).
TapsAreKept ==
  AtRest => \A i \in Item \ contended : Quantity(server, i) = wanted[i]

\* "Navigates to cart/checkout only after pending cart mutations finish": when a navigation
\* goes on, nothing tapped before it is pending or under way (flushAllCartWork).
LeavesSynced ==
  leaving.at = "queue" /\ leaving.ahead = 0 =>
    \A o \in Range(pending \o batch) : o.since > leaving.since

\* From its flush on, a navigation has nothing older than itself pending, nor under way unless
\* it still waits for that.
Younger(ops) == \A n \in DOMAIN ops : ops[n].since > leaving.since

LeavesInOrder ==
  /\ leaving.since <= taps /\ leaving.ahead <= Len(queue)
  /\ leaving.at # "queue" => leaving.ahead = 0
  /\ leaving.at = "waiting" => waiting # <<>>
  /\ leaving.at \in {"flushing", "queue"} => Younger(pending)
  /\ leaving.at = "queue" =>
       Younger(batch) \/ \E n \in 1..leaving.ahead : queue[n] = Batch

\* A dialog's addition is under way.
Dialog == queue # <<>> /\ Head(queue) # Batch /\ phase # "start"

Touched == {pending[n].line : n \in DOMAIN pending}

Asked == [item |-> Head(queue)[2], quantity |-> 1]

\* The page and the server have the same of the line l.
Agrees(l) ==
  /\ l \in DOMAIN shown <=> l \in DOMAIN server
  /\ l \in DOMAIN shown => shown[l] = server[l]

\* The page has no more of it than the server.
Below(l) ==
  l \in DOMAIN shown => /\ l \in DOMAIN server
                        /\ shown[l].item = server[l].item
                        /\ shown[l].quantity <= server[l].quantity

\* What the batch or the dialog under way will show is the server's cart.
AnswerIsServer ==
  queue # <<>> /\ (phase = "answered" \/ (phase = "refused" /\ Head(queue) = Batch)) =>
    answer = server

\* The server has what a dialog has added.
DialogIsServed == Dialog /\ phase = "answered" => OfItem(server, Head(queue)[2]) # {}

\* The page follows the server in every line but those that are pending and the one that a
\* dialog adds; of the lines that are cancelled only that one can be on the page.
PageFollows ==
  /\ ~Dialog => \A l \in Int \ Touched : Agrees(l)
  /\ Dialog => \A l \in (Int \ Touched) \ {Head(queue)[1]} :
                 IF phase \in {"answered", "refused"} THEN Below(l) ELSE Agrees(l)
  /\ Dialog /\ Head(queue)[1] \in DOMAIN shown \ Touched => shown[Head(queue)[1]] = Asked
  /\ \A n \in DOMAIN pending :
       pending[n].type = "removeLine" /\ pending[n].line <= 0 /\ pending[n].line \in DOMAIN shown =>
         Dialog /\ pending[n].line = Head(queue)[1] /\ shown[pending[n].line] = Asked

\* So it is while no answer was overtaken and no flush is under way.
ShownFollows == AnswerIsServer /\ DialogIsServed /\ (heard /\ batch = <<>> => PageFollows)

\* A line's id is one item's, for the page, the server and what is on its way.
Names(l, i) ==
  \/ \E c \in {shown, server, answer} : l \in OfItem(c, i)
  \/ \E ops \in {pending, batch} : \E n \in DOMAIN ops : ops[n].line = l /\ ops[n].item = i
  \/ \E n \in DOMAIN queue : queue[n] = <<l, i>>

IdsAreApart ==
  \A l \in Int, i \in Item : Names(l, i) =>
    l \in (-taps)..made \ {0} /\ \A j \in Item : Names(l, j) => i = j

\* At most one operation of a line.
OneEach(ops) == \A m, n \in DOMAIN ops : ops[m].line = ops[n].line => m = n

On(ops, l)      == \E n \in DOMAIN ops : ops[n].line = l
Of(ops, i)      == \E n \in DOMAIN ops : ops[n].item = i
Sets(ops, l, q) == \E n \in DOMAIN ops : ops[n].line = l /\ ops[n].quantity = q

\* The quantity that the server's line l comes to, with the operations b and then p.
ComesTo(s, b, p, l, q) ==
  IF On(p, l) THEN Sets(p, l, q) ELSE IF On(b, l) THEN Sets(b, l, q) ELSE s[l].quantity = q

AddsOf(ops, i) == {n \in DOMAIN ops : ops[n].item = i /\ ops[n].type = "addItem"}

\* Of the item i, the page c is what the server's s comes to, which is w: line by line, or by
\* an addition after all else; a line that was cancelled may be on the page yet.
Calm(i, c, s, b, p, w) ==
  /\ \A k, l \in OfItem(c, i) : k = l
  /\ \A k, l \in OfItem(s, i) : k = l
  /\ \A l \in OfItem(c, i) : l > 0 => l \in OfItem(s, i) /\ ComesTo(s, b, p, l, c[l].quantity)
  /\ \A l \in OfItem(s, i) \ OfItem(c, i) : ComesTo(s, b, p, l, 0)
  /\ \A l \in OfItem(c, i) : l < 0 =>
       /\ i \notin Configured
       /\ \/ Sets(p, l, c[l].quantity) \/ Sets(b, l, c[l].quantity)
          \/ ~On(p, l) /\ ~On(b, l) /\ OfItem(s, i) = {}
  /\ \A n \in AddsOf(p, i) :
       /\ p[n].line \in OfItem(c, i) /\ c[p[n].line].quantity = p[n].quantity
       /\ w = p[n].quantity
       /\ \A l \in OfItem(s, i) : On(p, l) => \E m \in 1..n : p[m].line = l
  /\ \A n \in AddsOf(b, i) :
       /\ ~Of(p, i)
       /\ b[n].line \in OfItem(c, i) /\ c[b[n].line].quantity = b[n].quantity
       /\ w = b[n].quantity
       /\ \A l \in OfItem(s, i) : \E m \in 1..n : b[m].line = l
  /\ AddsOf(b, i) \cup AddsOf(p, i) = {} =>
       /\ \A l \in OfItem(s, i) : ComesTo(s, b, p, l, w)
       /\ OfItem(s, i) = {} => w = 0
  /\ \A n \in DOMAIN b : b[n].item = i /\ b[n].type = "removeLine" => ~On(p, b[n].line)

\* The server has added it, and the page does not know the new line.
JustAdded(i, c, s, p, w) ==
  /\ ~Of(p, i) /\ i \notin Configured
  /\ \E k, l \in Int : /\ OfItem(c, i) = {l} /\ OfItem(s, i) = {k} /\ l < 0
                       /\ c[l].quantity = w /\ s[k].quantity = w

\* The same while a dialog adds one in the line d, which nothing else does.
CalmDialog(i, c, s, d, w) ==
  /\ ~Of(batch, i) /\ ~Of(pending, i)
  /\ \A k, l \in OfItem(s, i) : k = l
  /\ d \in OfItem(c, i) /\ c[d].quantity = 1
  /\ phase = "sent" =>
       /\ OfItem(c, i) = OfItem(s, i) \cup {d}
       /\ \A l \in OfItem(s, i) : c[l].quantity = s[l].quantity /\ w = s[l].quantity + 1
       /\ OfItem(s, i) = {} => w = 1
  /\ phase = "answered" =>
       /\ OfItem(s, i) # {} /\ OfItem(c, i) \subseteq OfItem(s, i) \cup {d}
       /\ \A l \in OfItem(s, i) :
            w = s[l].quantity /\ (l \in OfItem(c, i) => c[l].quantity <= w)

\* The cart a dialog goes back to has the server's lines that nothing is to change, and no
\* other.
CanGoBack(i, a, s) ==
  /\ \A k, l \in OfItem(a, i) : k = l
  /\ \A l \in OfItem(a, i) : l > 0 =>
       l \in OfItem(s, i) /\ (On(batch, l) \/ On(pending, l) \/ a[l].quantity = s[l].quantity)
  /\ \A l \in OfItem(a, i) : l < 0 =>
       i \notin Configured /\ \A k \in OfItem(s, i) : On(batch, k) \/ On(pending, k)
  /\ \A l \in OfItem(s, i) \ OfItem(a, i) : On(batch, l) \/ On(pending, l)

\* The batch is at the server's, or was.
AtServer == queue # <<>> /\ Head(queue) = Batch /\ phase # "start"
Coming == IF AtServer THEN <<>> ELSE batch

DialogOf(i) == Dialog /\ Head(queue)[2] = i

IsKept(i) ==
  /\ DialogOf(i) => CalmDialog(i, shown, server, Head(queue)[1], wanted[i])
  /\ ~DialogOf(i) => \/ Calm(i, shown, server, Coming, pending, wanted[i])
                     \/ /\ AtServer /\ AddsOf(batch, i) # {}
                        /\ JustAdded(i, shown, server, pending, wanted[i])
  /\ Dialog /\ phase # "answered" /\ ~DialogOf(i) => CanGoBack(i, answer, server)

\* So it is of every item, until an answer is lost.
Keeping ==
  /\ phase = "lost" => contended = Item
  /\ contended # Item => /\ IdsAreApart /\ OneEach(pending) /\ OneEach(batch)
                         /\ \A i \in Item \ contended : IsKept(i)

\* Whatever is tapped is sent in the end, and a navigation goes on (flushSession's finally).
SyncsInTheEnd ==
  <>[](AtRest /\ (leaving.at = "queue" => leaving.ahead = 0)
              /\ leaving.at \in {"page", "queue"})

=============================================================================
