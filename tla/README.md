# A verification of Mennyu's orders, checkouts, refunds and payouts

Mennyu (Open Order) is a Next.js application for food pods: a customer fills one cart from several
vendors, pays once, and the order is split into one *vendor order* per vendor. Vendor orders are sent
to the vendors' kitchens (Deliverect, Square, or the vendor's own dashboard), the kitchens report
back, and the platform pays the vendors through Stripe Connect. The application runs as serverless
invocations over one PostgreSQL database, through Prisma. Hardly any handler takes a lock, and most
of them spread reads and writes over several statements: that is where the interesting behaviours are.

Paths below are relative to the repository (`src/...` is the application's own `src` directory).

## 1. Inventory

| Component | State | Operations | Meets | Hard behaviours | What makes it correct |
|---|---|---|---|---|---|
| Parent status and transition rules (`src/domain/order-state.ts`, `vendor-order-transition.ts`, `src/lib/vendor-manual-fulfillment.ts`) | none | derive a parent status, validate a transition, skip ahead | all below | overlapping cases, double counting | the parent reflects its vendor orders; no active order looks failed |
| Status authority and kitchen policy (`status-authority.ts`, `kitchen-action-policy.ts`) | `VendorOrder.statusAuthority` | who may act on a vendor order | dashboard, webhooks | inferred from legacy columns | an administrator's override is kept |
| POS mappers and merges (`deliverect-status-map.ts`, `square-status-mapper.ts`) | none | map a report, merge it into a row | status service | late and reordered reports | fulfillment only advances; the kitchen's state is reached |
| Vendor order status service (`order-status.service.ts`, `vendor-order-status-instrumentation.ts`, `square-status-sync.service.ts`) | `VendorOrder`, histories, `Order.status` | inbound status, staff transitions, recomputation | POS, staff, parent | read-merge-write without a transaction | nothing is invented, lost or undone |
| Routing and submission (`routing.service.ts`, `deliverect.service.ts`, `square-order.service.ts`) | routing columns, POS ids | submit, retry | POS | lost answers, two submissions at once, half-created Square orders | one ticket per vendor order; a refused order is visible |
| Post-payment flow (`post-payment.service.ts`) | `Order.status` | `processSuccessfulPayment` | Stripe, routing | three concurrent callers, crash | every paid vendor order is routed or failed |
| Webhook ingress (`src/app/api/webhooks/*`) | `WebhookEvent`, `ProviderWebhookEvent` | log, deduplicate, apply | status service, payments | row created before the work is done | each event counts once, and at least once |
| Vendor payouts (`vendor-payout-transfer*.service.ts`) | `VendorPayoutTransfer` | execute, retry, rotate key, reconcile, block | Stripe, refunds | refund racing with transfer, crash after Stripe | a vendor is paid at most once, and not for refunded orders |
| Refunds and ledger (`refund*.service.ts`, `admin-refund.service.ts`) | `RefundAttempt`, `OrderRefund` | precheck, refund, webhook sync | Stripe, payouts | cap outside the transaction, webhook before answer | never more refunded than paid; ledger equals Stripe |
| Transfer reversals (`vendor-payout-transfer-reversal.service.ts`) | reversal rows | prepare, execute, retry | Stripe, refunds | crash in `submitted` | a refunded transfer is clawed back once |
| Pod payouts (`pod-payout-*.service.ts`) | pod transfers | as vendor payouts | Stripe | as vendor payouts | as vendor payouts |
| Checkout and payment (`order.service.ts`, `payment.service.ts`) | `Order`, `Payment` | create, reuse, abandon, record | Stripe, cart | abandonment racing with payment, two tabs | one open order per cart; a paid order is not dropped |
| Group orders (`group-order.service.ts`) | `GroupOrderSession`, participants | start, join, lock, unlock, leave, end, expire | cart, checkout | lock racing with mutations, unconditional unlock | the host pays for what the group saw |
| Cart service (`cart.service.ts`) | `Cart`, `CartItem` | add, set, remove | group orders | concurrent line changes | one open cart per session and pod |
| Browser cart sync (`src/lib/cart-sync-scheduler.ts`, `cart-mutation-queue.ts`, `cart-optimistic-*.ts`) | pending operations, shown cart | coalesce, flush, merge, roll back | cart service | answers to old batches | the shown cart ends as the customer left it |
| Customer messages (`customer-order-notification.service.ts`, `sms.service.ts`) | milestone rows | send once | status service | concurrent evaluations | at most one message per milestone |
| Deliverect reconciliation fallback | `lastExternalStatusAt`, attempt columns | poll once when no webhook came | status service | poll racing with a webhook | as inbound status |
| Invitations, menus, accounts, reporting, pages | various | token life cycles, imports, reads | | | see `PROJECT.json` |

How they interact on an order's way: *checkout* creates an `Order` in `pending_payment` with its vendor
orders; *Stripe's webhook*, the redirect page and the orders route each call the *post-payment flow*,
which marks the order paid, submits each pending vendor order through *routing*, and derives the
parent status. From there *POS webhooks*, the *vendor dashboard* and *administrators* change vendor
orders, each time recomputing the parent. A rejection or an administrator starts a *refund*, which
blocks or reverses *payouts*.

## 2. Modules

| Module | What it is |
|---|---|
| `OrderStatus` | The pure rules as operators: derivation of the parent, transitions, skips, mappers, merges, authority and policy. No state, no recursion. |
| `VendorOrders` | One order, its vendor orders, and every handler that moves them, statement by statement, with kitchens and crashes. |
| `VendorOrderProperties` | Type invariant, invariants, action and liveness properties, and the strengthening used by the proofs. |
| `VendorPayouts` | What a vendor is owed for one vendor order: the transfer row, Stripe's transfers and idempotency keys, refunds and the reversal, call by call. |
| `PayoutObligation` | The promise in the abstract: at most one transfer, then settled or extinguished, for good. |
| `VendorPayoutProperties` | The payouts' invariants, the refinement mapping, liveness, and the strengthening used by the proofs. |
| `Refunds` | One paid order's refunds: attempts, the ledger and its summary, Stripe's refunds and its webhook. |
| `RefundProperties` | What the ledger owes Stripe and the customer, liveness, and the strengthening used by the proofs. |
| `Checkout` | One cart with its group order, the checkout forms, orders, payment intents and payments. |
| `CheckoutProperties` | What the host pays for, what a lock means, and the strengthening used by the proofs. |
| `CartSync` | The browser's copy of a cart: taps, coalescing, batches, answers, dialogs and navigation, against a server. |
| `CartSyncProperties` | When page and server agree, which taps reach the server, what a navigation waits for. |
| `DataFacts` | Lemmas the proofs share: sequences that grow, induction over numbers, iterated steps, sums over finite sets. |
| `VendorOrdersProofs`, `VendorOrdersSerialProofs` | The theorems about the orders: for overlapping handlers, and for one at a time. |
| `VendorPayoutsProofs`, `PayoutObligationProofs` | The theorems about the payouts: for overlapping invocations, and the refinement by one at a time. |
| `RefundsProofs`, `CheckoutProofs`, `CartSyncProofs` | The theorems about the refunds, the checkout and the browser's cart. |
| `MCVendorOrders`, `MCVendorPayouts`, `MCRefunds`, `MCCheckout`, `MCCartSync` | Instances for TLC. |

The modules meet in the program's tables, and each takes over where another stops: `CartSync`'s server
is the cart of `Checkout`; `Checkout` ends when an order is paid and its cart emptied, which is where
`VendorOrders` begins; a decline there is a `vendor_denial` in `Refunds`; a refund that succeeds there is
`RefundSucceeds` in `VendorPayouts`. They are not composed into one state space: what one hands to the
next is a single fact (a line, a paid order, a declined vendor order, a refunded amount), and each module
takes it as an input that may come at any time.

### How VendorOrders corresponds to the code

*State.* `row` holds the columns of `VendorOrder` that decide anything: `routing`, `fulfillment`,
`authority` (`statusAuthority`, "none" for NULL), `recovered` (`manuallyRecoveredAt`), `ext` (whether
`deliverectOrderId` or `squareOrderId` is stored), `heard` (whether Deliverect set `lastExternalStatusAt`). `logged` are the vendor orders with a history row
from a manual recovery, which the receipt test also accepts. `status` is `Order.status`; `shown` is
the last `OrderStatusHistory` row. `events` are the reports with a webhook event row. `pos`, `tickets`
and `signals` are the world outside: what each kitchen is doing, how many orders the POS was given,
and the reports it sent. `calls`, `requests` bound the inputs, `touched` is a history variable.

*Handlers.* An invocation is a `job` of a worker. A job holds where it is (`pc`) and what it read or
decided so far: the columns it will write, the parent status it will write, the vendor orders it has
yet to submit. Each action is one statement or one external call of the handler; what a handler does
between two statements is part of the earlier one. Between two actions any other job may run, because
the code opens no transaction around them.

| Handler | Actions |
|---|---|
| `applyDeliverectInboundStatus` | `ReceiveDeliverectWebhook` (event row, read, merge), `PromoteAuthority` (read of the authority), `WriteVendorOrder`, then the parent |
| `attemptDeliverectReconciliationFallback` (the administrator's recheck, the scheduled job) | `AskRecheck` (eligibility), `LookUpDeliverectOrder` (the call), `ApplyLookup` (the second read and the merge), then as a webhook from `PromoteAuthority` on |
| `applySquareOrderStatusSync` | `ReceiveSquareWebhook` or `AskSquareSync` (the administrator's button), `FetchSquareOrder`, `WriteVendorOrder`, then the parent |
| `applyVendorOrderTransition` from the dashboard and the administrator's route | `DashboardTransition`, `AdminTransition`, `WriteVendorOrder`, then the parent |
| manual recovery | `AskRecovery` (the route's checks), `RecoverVendorOrder` (the service's own read), `WriteVendorOrder`, `LogRecovery`, then the parent |
| retry routing | `AskRetry`, then a submission, then the parent if it succeeded |
| `processSuccessfulPayment` | `ReceivePayment`, `OpenRouting`, `LoadVendorOrders`, `SubmitVendorOrder` for each, `SettleOrder`; its status writes are `PersistParentStatus` and `AppendParentHistory` |
| `submitVendorOrderToDeliverect` | `SubmitVendorOrder`, `DeliverectPrecheckFails` or `CallDeliverect`, `WriteVendorOrder`, `ReadAuthority`, `StampAuthority` |
| `submitVendorOrderToSquare` | `SubmitVendorOrder`, `CallSquare`, `persistPartialSquareOrder`, `submitSquareExternalPayment`, `recordSquareRoutingFailure`, `WriteVendorOrder` |
| the parent | `recomputeParentStatus` (read and derive), `PersistParentStatus`, `AppendParentHistory` |

*The world.* A kitchen that has a ticket moves forward or cancels and reports each move; a Deliverect
POS may also report a receipt or a failure before it starts, and may still take the order up after a
failure (the merge has a branch for exactly that). Reports are a set, so they arrive in any order,
late, or never; the event row makes a second delivery a no-op. Deliverect has no idempotency, so each
accepted submission is a ticket; Square's key makes it create the order once. `Faults` switches on
crashes, answers that are lost after the POS took the order, accepted submissions and webhooks without
an id, and failed fetches.

*Simplifications, all of them deliberate.* Numeric Deliverect codes and Square states stand for the
kitchen state they are mapped to; unknown codes, which change nothing, are left out, and so are
Square orders without a pickup or a total. The webhook's event row is created in the same step as the
row is read: between the two the code only looks up the vendor order. The dashboard route reads the
vendor order for its own checks and `applyVendorOrderTransition` reads it again; the two reads are one
step, as are the administrator's. The route's exception that lets a vendor confirm a degraded order
ends in the same lock inside the service, so it is not an action. `applyVendorOrderStatusWithMeta`
reads the authority only for the history row. A lookup may happen as soon as an order was submitted (the
25 minutes are only a clock), and `MaxRequests` stands for the scheduled job's claim, which allows one
automatic attempt per silent order; a forced lookup after a manual recovery finds nothing to do, because
the recovery accepted the order. A lookup whose answer maps to no status changes nothing. Refunds after a rejection, issue rows, messages, audit
columns and the automatic payout are left out: nothing here reads them.

### How VendorPayouts corresponds to the code

*State.* `row` is one `VendorPayoutTransfer`: status, what `blockedReason` tells apart, the stored
Stripe transfer (0 for none), the idempotency key (how often it was rotated) and the destination account
(`NoAccount` for the sentinel "blocked"). `vendor` is the account the vendor can be paid on at the
moment, `charge` says whether the payment's charge id is stored, `refunded` what the refund ledger says of
this vendor order, `reversal` the status of the reversal row. A refund is of a part ("partial") or leaves
nothing of the vendor order; in that case `refunded` tells the refunds that the code claws back ("full": one
refund of exactly this vendor order's total, or of exactly the whole order's) from all others ("rest": what
remained after a partial refund, or a refund of the order's remainder after another vendor order was
refunded, which may be the first that touches this one). "outside" is a refund from Stripe's dashboard that
nobody tells the payouts about. Stripe's side is `sent` (the account of each transfer made),
`reversed`, and `remembered`: the keys it still knows, with the parameters and the answer they got.
`errors` counts the faults.

*Handlers.* As in `VendorOrders`, an invocation is the job of a worker, a step is one statement or one
call, and any other job may run in between; no service opens a transaction or locks the row.

| Handler | Actions |
|---|---|
| `executeVendorPayoutTransfersForPayment`, `runManualVendorPayoutTransferBatch`, the retry job (`runEligibleVendorPayoutTransferRetries`) | `Ask`, then `ReEvaluate` for the last two, then `ListEligible` |
| `reEvaluateBlockedVendorPayoutTransferRows` | `ReEvaluate` (one read), `BlockRow`, `PromoteRow` |
| `executeVendorPayoutTransfer` | `ReadForExecution`, `ReconcileRow`, `ResolveCharge`, one of `TransferIsMade`, `TransferIsRefused`, `TransferIsRepeated`, `TransferMismatches`, then `MarkPaid`, `MarkFailed` or one of the two `markBlocked...`; `PaidWriteFails` is the write that fails inside the try block |
| `retryFailedVendorPayoutTransfer` | `ReadForRetry`, `ReconcileRow`, `BalanceIsUnavailable` or `Requeue`, then an execution |
| `retryVendorPayoutTransferWithNewKey` | `AskNewKey` (its read), `ReconcileRow`, `BalanceIsUnavailable` or `RotateKey`, then an execution |
| `reconcileVendorPayoutTransfer` | `ReconcileRow`, `MarkPaid` |
| `markRefundSucceeded` and what follows | `RefundSucceeds`, `SyncEligibility`, `CancelTransfer` or `BlockForReview`, `PrepareReversal` |
| `executeVendorPayoutTransferReversal`, its batch and its retry | `AskReversal`, `ReverseAgain`, `TakeReversal`, `SubmitReversal`, `CallReversal`, `FinishReversal` |
| `prepareMissingTransferReversalForRefund` (the administrators' repair) | `AskReversal` (its checks), `PrepareReversal` |
| the webhook's row of a refund from Stripe's dashboard | `DashboardRefund` |

*The world.* `TransferIs...` say what Stripe does with a transfer and its key: make it, refuse it (and
perhaps remember the refusal), repeat the remembered answer, or report other parameters. Answers get
lost after the transfer was made. `KeysExpire` forgets all keys, which happens after a day and so never
during an invocation. `VendorConnects` changes the vendor's account at any time.

*Simplifications.* Amounts are positive and always what the row says, so amount, currency, group and
window decide nothing in a match and the transfer's metadata names the row: a transfer matches unless it
was reversed or went to another account. The zero-amount branches are left out. Reading the row and
listing Stripe's transfers in a reconciliation are one step; so are a refund's read of the ledger and of
the row. The reconciliation does not select `blockedReason`, so only a row's status keeps it off a row that a
refund closed; a refund of the order is booked for each vendor order at once, so its amount appears only as
"full" or "rest". A balance that is short or unknown is a fault rather than an amount that is tracked; both of its
consequences are kept. The connect reasons are one reason. A reversal repeated after its own key
expired, which Stripe refuses because nothing is left to reverse, is one of the refusals.

### How Refunds corresponds to the code

*State.* `attempt` is `RefundAttempt` by what its idempotency key is made of (scope, vendor order,
amount); `ledger` is `OrderRefund` by its key, which for a row the webhook creates is Stripe's id; a row
says whether it is linked to its attempt (`refundAttemptId`, unique). `summary` is the order's
denormalized columns, `denied` the vendor orders their vendors declined. Stripe's side is `refunds`, and
`known`, the answers it remembers by key: only administrators' refunds send one. `inbox` is, by event,
whether it was sent, has its `WebhookEvent` row, and was processed. `asked` and `crashes` count.

| Handler | Actions |
|---|---|
| a vendor's decline, then `executeRefund` | `AskDenial`, `ClaimDenial` (the attempt), `Precheck`, `CheckCaps`, `RecordPending`, Stripe's call, `StoreRefund`, `MarkRefund`; or `RefuseDenial` |
| `runAdminRefundExecution` | `AskAdmin` (the preview's checks), `CheckCaps`, `RecordPending`, `AdoptAttempt`, `LinkAttempt`, Stripe's call, `StoreRefund`, `MarkRefund`; or `FailAttempt`, `FailRow` |
| `dismissStaleRefundAttempt` | `AskDismissal`, `VerifyNoConflict` (the listing at Stripe), `DismissAttempt` |
| Stripe's webhook | `DeliverEvent` (the event row), `FindRow`, then `ReopenRow`, or `BookRefund`, `RefreshSummary`, `ApplySucceeded`, then `MarkProcessed` |

*The world.* `RefundIsMade`, `RefundIsRefused` and `RefundIsRepeated` are what Stripe does with a call;
the answer may be lost. `DashboardRefund` is a refund somebody makes in Stripe's dashboard, without
metadata. A refund that Stripe leaves pending (`Slow`) settles later (`RefundSettles`) and each change is
an event, in as many copies as Stripe has event types for it. `Crash` ends a job of a `Mortal` worker.

*Simplifications.* Amounts are in whole units of cents, small but real: caps, sums and remaining amounts
are computed. A line-item refund is a partial refund of its vendor order. The cap check reads and the
preview's read are one step each. The payouts that a refund touches are `VendorPayouts`' business; issue
rows, notes and messages are left out. A dismissal's verification and its update are two steps, as in
the code.

### How Checkout corresponds to the code

*State.* `session` is the `GroupOrderSession`: its status, whether its deadline has passed (`late`) and
who is in. `cart` is the lines by id, each with its owner and when it was last written. `forms` are the
checkout pages that were opened, each with the fingerprint and lines it shows. `orders` are by the form
whose idempotency key made them, with the lines they copied, whether they are still linked to the cart
and the stored intent. `intents` is Stripe's side, `payments` the `Payment` rows.

| Handler | Actions |
|---|---|
| `addCartItem`, `updateCartItem`/`removeCartItem`, `clearCartForSession` | `AskAdd`, `MatchLine`, `WriteLine`; `AskSet`, `SetLine`; `AskClear`, `EmptyLines` |
| `group-order.service.ts` | `Join`, `Leave`; `AskStart`, `StartSession`; `AskUnlock`, `Unlock`; `AskEnd`, `EndSession`; `AskExpire`, `Expire` |
| the checkout page | `AskForm`, `LockCart`, `TakePrint`, `ShowForm` |
| `createOrderFromCart` | `SubmitForm`, `MatchPrint`, `ReadCart`, `AbandonOrder`, `CreateOrder` |
| `createPaymentIntent` and the resumption | `ReadOrder` or `Resume`, `CancelIntent`, `MakeIntent`, `StoreIntent` |
| `processSuccessfulPayment` (webhook, redirect, orders route) | `ReceivePayment` (its checks), `RecordPayment`, `SettleOrder`, `ReadSourceCart`, `WipeCart`, `UnlinkCart` |

`Pay` is the customer's card at Stripe: any open intent whose form is still shown, at any time.

*Simplifications.* Reads that precede the first check are one step with it (access in the route and in
the service; the order and the intent's validation; the cart and the pending order). Joining and leaving
are one step each. An item is a menu item with its options and notes. Whether lines can be ordered at
all, and whether tip and pickup time equal the pending order's, are faults (`unorderable`, `other_tip`).
Removing a line is not counted as a write. Left out are the development bypass of payments and the cart
page's own clean-up, which unlinks paid orders from the cart. What follows "paid" is `VendorOrders`.

### How CartSync corresponds to the code

*State.* `shown` is the cart on the page, by line id: the server's, or -n for `optimistic:`; `server` the
cart in the database. `pending`, `timer`, `batch`, `confirmed` and `waiting` are the scheduler's session
(`pendingByKey` with `pendingOrder`, `debounceTimer`, the operations behind `flushPromise`,
`confirmedCart`, the `flushSession` calls that await the promise). `queue` is the cart's chain in
`cart-mutation-queue.ts`, `phase` and `answer` how far its first element is, `leaving` a click on
`AwaitCartNavigationLink`. `wanted`, `contended` and `heard` are history.

| Code | Actions |
|---|---|
| `scheduleOptimisticCartSync` from a tap | `Add`, `Increment`, `Decrement`, `RemoveLine` |
| `flushSession` | `TimerFires`, `TakeAnswer` with `EndFlush` (its `finally`, and the flushes that waited) |
| `syncCartBatchAction` | `TakeBatch` |
| `runModifierAddInBackground` | `Configure`, `ShowConfigured`, `TakeConfigured`, `EndConfigured` |
| `flushAllCartWork` | `Navigate` |

*Simplifications.* JavaScript runs one callback at a time, so a step is one callback with the promise
reactions that follow it. All views of the page share one cart. `hasUnresolvedLocalWork` is "something is
pending", because the version only grows with a pending operation; the snapshot before the window is dead
code, because `confirmedCart` is always set. Messages and the promises given to each tap are left out, as
are notes, the Quick Cart's background refresh and other tabs. An item is its menu item with options: what
`lineMatchesSimpleAdd` and `lineConfigKey` compare.

## 3. Runs

One order with one or two vendor orders is enough for every question asked: vendor orders only meet in
the parent's derivation, whose counts (none, some, all) two distinguish, and in the post-payment loop.
Two workers are enough for a stale read: one reads, the other writes in between.

Bounds, all of them guards named in `VendorOrders`: `MaxCalls` deliveries of the payment's success,
`MaxRequests` requests by people, `MaxTickets` accepted submissions per vendor order (2 allows the
duplicate), `MaxReports` reports of the kitchens. `CHECK_DEADLOCK FALSE` everywhere: an order that is
finished, with all inputs used up, rightly stops. In `Refunds`: `MaxRequests` refunds asked for (two, of
any two kinds, meet in every way two can), `MaxCrashes`, and `Slow`, the refunds Stripe may leave pending;
two vendor orders of one cent each, so that one can be exhausted without the other. In `Checkout`:
`MaxQuantity`, `MaxWrites` (a line and a change of it, or two lines), `MaxForms` (a form left open and the
one that overtakes it), `MaxReplaced` intents; one guest and one item. In `CartSync`: `MaxTaps`, three, which
is a batch under way, newer taps, and one to cancel or overtake them; a plain item and one with options.

### What holds

| Run | Instance | Shows |
|---|---|---|
| `serial_deliverect` | Deliverect + manual, one worker, all requests, lookups, lost answers | types; nothing invented; parent, history and derivation agree at rest; the kitchen is reflected; fulfillment only advances; overrides are kept |
| `serial_pos` | Deliverect + Square, one worker, retries, syncs, failed fetches | no second ticket unless the first failed; fulfillment only advances |
| `races` | Deliverect, two workers, lookups, crashes, lost answers | the inductive invariant; nothing returns to pending, also when a lookup answers late |
| `closing` | two Deliverect kitchens, lost answers, fair | every vendor order of a paid order is routed or failed; when all kitchens are done the customer is shown a final status, for good |
| `payout_serial` | two accounts, one worker, every request, every fault but a failed lookup, fair | types; `KeepsObligation`: the machine implements `PayoutObligation`; `VendorIsPaid`: a vendor that can be paid is paid |
| `payout_races` | one account, two workers, crashes, lost answers and writes, rotations, refunds, reversals | the inductive invariants `Backed` and `Guarded`; at most one standing transfer while Stripe remembers its keys |
| `payout_settled` | two accounts, one worker, every request, refunds of all kinds, refusals, failed lookups, expiring keys | every refund the payouts hear of leaves the row closed and the vendor with nothing, or found it paid, and then one refund of everything leaves a reversal; a paid row is backed |
| `refunds` | one desk next to one webhook that may die, two requests of any kinds, lost answers, refusals, late and repeated events | types; no money is booked twice or elsewhere; all is booked once all events are processed; no vendor order is refunded beyond its total while answers arrive; the inductive `Booking` |
| `refunds_live` | the same without slow refunds, fair | every refund Stripe makes is booked as succeeded in the end, for good; the proofs' inductive invariant |
| `ordering` | one request at a time, host and guest, all requests, lost answers, failed lookups, other tips | types; the host is charged for what the form showed; one unpaid order; no line paid twice; nothing paid without its own intent; a lock fixes the cart; closed stays closed; the proofs' inductive invariant |
| `cart_sync` | taps of every kind, dialogs, a navigation, refusals, lost answers, failed dialogs, fair | types; page and server agree at the end; the server has what was tapped; a navigation waits for what was tapped before it; everything is sent in the end |

"Serial" properties hold when handlers do not overlap: they say that the rules and their composition are
right. Not all of them survive overlapping. With two workers TLC breaks `AdminOverrideIsKept` (the
promotion was decided before the recovery), `ParentAgreesAtRest` (a slower recomputation stores an older
status last, and nothing recomputes it until the next update) and `FulfillmentOnlyAdvances` (a merge
computed before a cancellation is written after it); what does survive is what `races`
checks and the theorems prove, for Square as well.

The same goes for `ordering`: with two overlapping requests TLC breaks `LockedCartIsFixed`,
`ClosedStaysClosed`, `OrderIsAsShown` and `OneUnpaidOrder` (below); forms that are left open while other
requests run, and the steps of one request, are in the run, and the types and `Charged` are proved for any overlap.
`TapsAreKept` excepts items by the history `contended`, which gains an item when it is tapped while an addition
of it is under way, when the server refuses it or its dialog fails (or adds it and the answer is lost, which the page
takes for a failure and rolls back), when an answer changes its lines on the page
while an operation of it is yet to be sent or answered (`Overtaken`), and when its dialog shows a line while there
is such an operation; an answer that is lost excepts every item. The list below has what goes wrong then. Nothing
else is excepted: newer taps that an answer leaves as they are, decrements, removals, and all that happens to
other items must come out right. `cart_sync` also passes with four taps, and, without faults and navigation,
with five.

The payouts lean on two defences against paying twice: the idempotency key, and the look at Stripe before
sending. `payout_serial` lets the key expire and keeps the look reliable; `payout_races` makes the look
race and fail and keeps the key; without both a vendor is paid twice (below). `payout_races` has one account on
purpose: with two, `PaidAtMostOnce` fails without any fault, because a recheck can change the row's account
while a transfer to the old one is under way; the next send mismatches the key, the rotation finds no
transfer to the *new* account, and a second one is made. `MaxErrors` bounds how often a fault strikes (two
lost answers with a failed lookup before each of two sends fit into 4), `MaxKey` the rotations of the key. It is
one in `payout_races` because the property ends there: with two, TLC finds a vendor paid twice without an
expired key (below).

### Where the code does not do what its comments say

One run checks a statement quoted from the repository; TLC finds a behaviour that breaks it.

| Run | Statement | What happens |
|---|---|---|
| `payout_refund` | "so refunded obligations cannot be paid via Connect" (`src/services/vendor-payout-transfer-refund-eligibility.service.ts:3`) | the refund cancels a row whose transfer was just made; the run then marks it paid, and no reversal exists |

Other observations, met while modelling, that the modules reproduce and no run asks for:

*Orders and payouts*

- after another vendor order was refunded, a refund of the order is of its remainder
  (`src/services/refund-calculation.service.ts:359`), so the vendor orders that it gives back in whole get no
  reversal, nothing lost and nothing overlapping: the amount is not the order's total
  (`src/services/vendor-payout-transfer-reversal.service.ts:97`). The same goes for partial refunds that add up.
  The administrators' repair asks the same question and answers `partial_refund_manual_review`. This is why
  `RefundedIsNotPaid` asks for a reversal only of `"full"`;
- the reconciliation does not read a row's reason (`vendor-payout-transfer-reconciliation.service.ts:50`): when a
  failing execution writes its status over a refund's, it takes the row up again and may mark it paid;
- a vendor order both failed and cancelled is counted twice, so the order looks failed while another vendor
  order is active ("Fulfillment/terminal outcomes take precedence over routing", `src/domain/order-state.ts:52`);
- after a crash that follows the order's "paid" the repeated call returns early and vendor orders stay
  unrouted ("one idempotent flow", `src/services/post-payment.service.ts:2`);
- a lookup at Stripe that fails counts as nothing found: with a lost answer and an expired key the vendor is
  paid twice ("Check Stripe for an existing matching transfer before creating a new one",
  `src/services/vendor-payout-transfer.service.ts:302`);
- a key rotated twice defeats both defences: a mismatch that is marked late, after a rotation, invites a second
  rotation, which finds no transfer and sends with the third key, before the first rotation's execution sends
  with the second (`retryVendorPayoutTransferWithNewKey` looks at the row's mark, not at which key it is about);
- a late failure report alone makes the order `failed` while the kitchen cooks: routing is looked at first
  (`src/domain/order-state.ts:61`);
- the webhook and the redirect can submit the same vendor order twice ("avoid duplicate submission",
  `src/services/deliverect.service.ts:115`); the source's TODO knows the race of retries;
- a Deliverect vendor without a channel link is turned away before the code that is there to "persist failed
  preflight (validation / channel config)" (`src/services/routing.service.ts:90`, `deliverect.service.ts:34`);
- a manual recovery "requires a paid parent order" (its route, line 4), but "paid" is inferred from a status
  that an administrator's transition of an unpaid order changes;
- Square's sync writes `pos` over an administrator's override (`docs/STATUS_AUTHORITY_DESIGN.md:194`), without
  any overlap;
- a reversal that crashes between `submitted` and Stripe's answer stays there: execution wants `pending`,
  retry wants `failed` (`src/services/vendor-payout-transfer-reversal.service.ts:603,686`).

*Refunds*

- a row the webhook creates settles without refreshing the denormalized sums ("Updated on refund success",
  `prisma/schema.prisma:1055`) and without telling the payouts;
- two overlapping refunds can exceed a vendor order, because caps are read before the row is written; so can
  a retry after a lost answer, because `executeRefund` sends no idempotency key;
- a crash leaves an attempt `attempted`, which refuses every later automatic refund as in progress; a desk
  that dies between storing Stripe's id and marking the row leaves the refund unbooked, because the event's
  own row cannot be linked (`refundAttemptId` is unique). Until an event books it nothing counts it: when the
  administrator had retried a refused refund, the row is the failed one (`refund-ledger.service.ts:444` takes it
  up as it is), and TLC finds a refund of the whole vendor order approved next to it. `refunds` lets only the
  webhook's worker die, so `WithinCaps` is a property of desks that live;
- of two overlapping administrators' requests with one key, the slower refusal marks the other's success failed;
- a "pending" event that is late or delivered again reopens a settled refund, and one that comes before the
  request stored Stripe's id leaves a pending row that blocks administrators.

*Checkout and group orders*

- the lock is read again in the mutation's transaction without being locked, so a mutation may land after the
  lock ("closes pre-lock in-flight mutation races", `src/services/group-order.service.ts:664`); unlocking and
  expiry write without a condition and can reopen or close a session that has moved on;
- two submissions at once make two unpaid orders; reuse of a pending order leaves the session
  `locked_checkout`; repeating a group's submission with the same key is denied, because the session is submitted;
- a solo checkout has no fingerprint: it orders the cart as it is by then;
- an addition is checked against one line and merged, in the transaction, into whichever matches then, another
  participant's too;
- lines added while the host pays are deleted with the paid ones; and (read in the code, not modelled) a
  visit of the cart page between the order's "paid" and that deletion unlinks the order, so that paid lines
  stay in the cart;
- an intent whose lookup failed is replaced although it may be paid: it then never matches the stored one; and
  a payment of an order that another form abandoned returns early and is not recorded
  (`src/services/post-payment.service.ts:79`), or, if it was validated just before, marks the abandoned order paid.

*The browser's cart*

- an answer undoes a newer decrement or removal on the page until the next batch ("without letting the UI
  regress behind newer local intent", `src/lib/cart-sync-scheduler.ts:123`): the merge keeps the higher
  quantity and never a removal; a tap in that moment starts from the wrong quantity;
- a second addition of an item while its first is under way is sent with the whole quantity on top of the
  first: two taps put three in the cart ("become an addItem with final qty",
  `src/lib/cart-optimistic-line-mutations.ts:119`);
- removing a line whose addition is under way only cancels it locally, and the line comes back;
- a line that is removed and added again while an answer comes counts twice: the merge shows the server's line
  again and drops the optimistic one, whose addition stays pending; a tap on the line that is back turns the
  pending removal into a quantity, and both are sent; an answer of a dialog that comes while a batch with such a
  pair is under way leaves the server's old line on the page;
- the line of a dialog that failed stays ("Roll back only this pending modifier line",
  `src/components/vendor-menu/VendorMenuCartContext.tsx:290`), because the merge keeps optimistic lines that the
  snapshot does not have; and a cancelled line that was the only thing pending sends nothing that would correct
  the page;
- after a lost answer the page goes back to the cart before the batch, without a dialog's addition made since,
  although the server may have applied part of the batch.

### Fairness

`FairSpec` is weakly fair, per worker, to the steps of a running job (the platform runs an invocation
to its end), to the receipt of the payment (Stripe redelivers until answered) and to Deliverect's
webhooks (the POS delivers its reports). People and kitchens are not assumed to do anything.

In `VendorPayouts` it is weakly fair to each worker's running job (an invocation runs to its end), strongly
fair to the retry job's start (it is scheduled for ever, and other requests may keep a worker busy now and
then) and strongly fair to the expiry of keys (Stripe forgets them whatever the platform does). Faults are
finitely many. `VendorIsPaid` still excepts a row that Stripe's parameter mismatch has blocked: the code
leaves it to a person.

In `Refunds` it is weakly fair to each worker's running job and strongly fair to the delivery of each
event: Stripe sends an event again until a delivery answers well, and requests may keep a worker busy now
and then. Deaths are finitely many. In `CartSync` it is weakly fair to the browser and the server together
(timers fire, requests end one way or another); the customer need not tap.

## 4. Proofs

What TLC checks on a small instance, the theorems below state for every value of the constants: any vendor
orders, workers, accounts, items, kinds of request, faults and bounds, unless a hypothesis says otherwise.
The strengthened invariants of the lone worker (`Fits`, `Reflects`, `Ticketed`, `Agrees`, `AsRead`,
`Found`, `Settles`; in `Refunds` `Counting`; in `Checkout` `Typing`, `SessionIsAsRead`, `LinesAreShown`,
`OrdersAreApart`) and of the browser (`Typing`, `QueueHasBatch`, `LeavesInOrder`, `ShownFollows`, `Keeping`) are
in no configuration: TLC checked each before it was proved (`Keeping` with the ids, which it quantifies over,
from a range), and what it is there for is in a run.
The assumptions on the constants are each module's own (modes are modes, bounds are naturals,
`NoOrder` is none; in `Refunds` also that Stripe knows an event type at all, `Copies # {}`, and that there
are finitely many vendor orders, each of a positive total, since totals are added up; in `Checkout` that there
is an item, and finitely many workers, because the number of jobs under way bounds how far a counter can exceed
its bound).

Hypotheses are of two kinds. Some say how the machine is scheduled: `Alone` (one worker, so one handler at a
time; while a form of the checkout is open, or an intent, any other handler may still run), `OneDesk` (one
worker serves the people's refunds, next to any number of webhook deliveries). The others switch off a fault or
a kind of request under which the code does *not* keep the property; each of them is needed, and section 3 says
what happens without it:

| Hypothesis | Of | Because otherwise |
|---|---|---|
| `NothingIsLost` | the payouts' refund settlement | an answer or a write that is lost, or a crash, leaves a transfer that no row names, or a refund that stops before it reached the row |
| `"unlisted" \notin Faults` | the payouts' refinement | a failed lookup counts as "nothing found", and with an expired key a second transfer is sent |
| `OneAccount` | `PaidAtMostOnce` | the account in the row may change while a transfer to the old one is under way |
| `KeysAreKept` (no expiry, at most one rotation) | `PaidAtMostOnce` | two rotations let an execution that still holds the second key send after the third key did |
| `Immortal` (no desk's process dies) | `WithinCaps` | a desk that dies between storing Stripe's id and marking the row leaves a refund that no row counts, and another is approved next to it |
| `OneDesk` | `WithinCaps`, `LedgerIsComplete` | two desks both read what remains before either writes its row, and one may take up the row of the other |
| `"sync" \notin Kinds` | `AdminOverrideIsKept` | Square's synchronisation writes the authority `pos` without looking at it |
| `"retry" \notin Kinds` | `ParentAgreesAtRest` | a retry that fails again recomputes no parent |
| `"crash" \notin Faults` | `ParentAgreesAtRest`, `KitchenIsReflected` | the event row is there, its effect is not |
| `NobodyOverrides`, `EveryCallAnswers` | `ResubmitOnlyAfterFailure` | an administrator may mark a routed order failed, a lookup may do so after the kitchen's word, and a lost answer or a missing id hides a ticket |

### The orders

`VendorOrdersProofs`, for any number of workers, from `ConstantsAssumption`:

| Theorem | Statement |
|---|---|
| `TypeCorrect` | `Spec => []TypeOK` |
| `NothingInventedHolds` | `Spec => []NothingInvented` |
| `NoInventedStatusHolds` | `Spec => []NoInventedStatus` |
| `StartedStaysStartedHolds` | `Spec => StartedStaysStarted` |

*The argument.* `NoInventedStatus` (a vendor order no person touched shows a state its kitchen was in)
is not inductive: a job may be about to write anything. `NothingInvented` adds what every job may
carry between its read and its write (`Carries`): a job that is about no vendor order carries no
columns; only Square's sync and Deliverect's lookup, before their merge, may carry "pending"; and a fulfillment
carried for an untouched vendor order was told by its kitchen. It also adds that each kitchen is in a
state it told. Lemmas about the pure rules (`DeliverectMerge`, `SquareMerge`, `TargetFact`,
`SkipAheadFact`, `DashboardPatchFact`, `DifferenceFact`, ...) say what a merge or a patch can produce.
`RequestCarries` and `JobCarries` show, action by action, that the one job an action changes still
carries only that; `OthersCarry` that the rest is undisturbed, since kitchens' words and touched marks
only grow; `RowsChange` that rows change only in `WriteVendorOrder`, `StampAuthority` and
`persistPartialSquareOrder`. `StartedStaysStarted` follows from the same invariant: a write takes its
columns from the job, and a writing job never carries "pending".

`VendorOrdersSerialProofs`, for one worker (`Alone`) and the hypotheses of the last column:

| Invariant | Theorem | What follows | Theorem | Hypotheses |
|---|---|---|---|---|
| `Fits` | `LoneJobFits` | `FulfillmentOnlyAdvances` | `FulfillmentAdvances` | |
| `Fits` | | `AdminOverrideIsKept` | `OverrideIsKept` | no `sync` |
| `Reflects` | `ReportsAreReflected` | `KitchenIsReflected` | `KitchensAreReflected` | no crash |
| `Ticketed` | `TicketsAreKnown` | `ResubmitOnlyAfterFailure` | `NoSecondTicket` | `NobodyOverrides`, `EveryCallAnswers` |
| `Agrees` | `ParentIsSettled` | `ParentAgreesAtRest` | `ParentAgrees` | no retry, no crash |

*The argument.* None of the four properties is inductive, because a handler's read and its write are two
steps. `Fits` says what a lone job may rely on: the row it is about to write is the row it read, so what it
carries moves that row forward (from lemmas on the rules: `DeliverectAdvances`, `SkipAdvances`,
`DashboardAdvances`), and it replaces no override. `Reflects` compares ranks: a kitchen is as far as each of
its reports, a row as far as each report that was delivered, or the job that took the report is about to write
it there; at rest the two ranks are equal, and ranks are injective. `Ticketed` relates the kitchen's tickets
to the row: a vendor order with a ticket that was not rejected is routed with the POS's id or about to be,
and no job has it on its list to submit. `Agrees` follows the derived parent through the end of a handler:
from the write of a row on, the job is on its way to derive (`Settling`), what it derived still follows from
the rows when it is stored, and what it stored is what it appends to the history. Each invariant has a lemma
for the requests that start a job, one for the steps that only move it, and one for those that write.

### The payouts

`VendorPayoutsProofs` (of the constants only `MaxKey \in Nat` is used):

| Theorem | Statement |
|---|---|
| `PayoutsAreTyped` | `Spec => []TypeOK` |
| `PayoutsAreBacked` | `Spec => []Backed` |
| `PaidRowsAreBacked` | `Spec => []PaidIsBacked` |
| `KeysGuard` | `OneAccount /\ KeysAreKept => (Spec => []Guarded)` |
| `VendorIsPaidOnce` | `OneAccount /\ KeysAreKept => (Spec => []PaidAtMostOnce)` |

*The argument.* `PaidIsBacked` (a paid row names a transfer Stripe made; only a full refund claws money
back; a reversal recorded as done was done) is not inductive, because a job may be about to write any id.
`Backed` adds that every transfer id in the row, in a job and in Stripe's memory is at most the number of
transfers made, that a job at a step that writes or reverses a transfer holds one, and that jobs at the
reversal's steps only exist once a reversal row does, which needs a full refund. The proof regroups
`TypeOK /\ Backed` into what the jobs hold (`JobsOK`) and what the row, Stripe and the ledger hold (`DataOK`).
Stripe's transfers and the two facts about reversals only grow (`OnlyGrows`), so other jobs keep what they
held, and the one job that moves does so in one of a few ways, each with a lemma (`StopKeeps`, `GotoKeeps`,
`BeginKeeps`, `TakeKeeps`). Each action then has a lemma of a few lines: how its job moves, and which part of
the data it writes.

`PaidAtMostOnce` is about overlapping executions, with crashes, lost answers and failed lookups, and rests on
the idempotency keys. `Guarded` says which key anybody can hold: the row, an execution or a mismatch comes to
the second key only after Stripe answered the first, and if by then a transfer of the first key stands, the
look at Stripe before a rotation finds it, so nobody rotates; hence whoever can still send repeats an answer
that Stripe remembers, or sends the first transfer there is.

`PayoutObligationProofs`, for one worker (`Alone`):

| Theorem | Statement | Hypotheses |
|---|---|---|
| `RowIsAsRead` | `Spec => []AsRead` | |
| `TransfersAreFound` | `Spec => []Found` | `"unlisted" \notin Faults` |
| `ObligationIsKept` | `Spec => KeepsObligation` | `"unlisted" \notin Faults` |
| `RefundsSettle` | `Spec => []Settles` | `NothingIsLost` |
| `RefundedStaysUnpaid` | `Spec => []RefundedIsNotPaid` | `NothingIsLost` |

*The argument.* `KeepsObligation` is a refinement: under the mapping of `VendorPayoutProperties` (transfers
are those Stripe made, settled is a paid row, extinguished one that a refund closed) every step is a `Transfer`,
a `Settle`, an `Extinguish` or a stutter. That needs to know what the row is when it is written, which is
`AsRead`: what a lone handler is about to write replaces a status its handler expects. And it needs that a
transfer is only sent when there is none, which is `Found`: the one transfer there is went to the account the
row names, so the look before sending finds it. Crashes, lost answers and expired keys are all allowed: the
next invocation looks. `Settles` follows a refund to its end: what was sent is paid or about to be; a refund that
the payouts hear of closes the row, or finds it paid, before its handler ends, because what the handler read of
the ledger and of the row is still so when it writes; and one that is `"full"` leaves a paid row with a reversal.
Of `"partial"` and `"rest"` the theorem says that no row is left that could still be sent, and nothing of a
reversal, since the code makes none.

### The refunds

`RefundsProofs`:

| Theorem | Statement |
|---|---|
| `BackingHolds` | `Spec => []Backing` |
| `LedgerIsAlwaysBacked` | `Spec => []LedgerIsBacked` |
| `TypeCorrect` | `Spec => []TypeOK` |
| `BookingHolds` | `OneDesk => (Spec => []Booking)` |
| `LedgerCompletes` | `OneDesk => (Spec => []LedgerIsComplete)` |
| `CountingHolds` | `OneDesk /\ Immortal => (Spec => []Counting)` |
| `CapsHold` | `OneDesk /\ Immortal => (Spec => []WithinCaps)` |

*The argument.* `LedgerIsBacked` (a row of the ledger that names a refund names one that Stripe made, of its
amount and vendor order, and no two rows book the same money) is not inductive: a job may be about to store
or to book any refund. `Backing` adds what each job holds at the steps that write (`Carries`), what Stripe
remembers under a key, and that an event is about a refund that exists. Refunds only grow and keep amount
and vendor order, so whatever was backed stays so (`BacksKeeps`, `CarriesKeeps`, `StripeKeeps`). A handful of
lemmas say how the one job that moves can move (`SetBecomes`, `GotoBecomes`, `StopBecomes`, ...) and how a
row may change (`StatusKeeps`, `LinkKeeps`, `NewRowKeeps`, `SucceededKeeps`); then each group of actions has
a lemma of its own, up to `NextKeepsBacking`. The types need `Typing`: a request's job is about a request, a
delivery's about an event.

`LedgerIsComplete` (at rest, with every event processed, each refund made at once is one succeeded row) needs
`Booking`: such a refund has told so by every event; an event that was processed left its refund booked; a
booked row is never overwritten, because no request takes up a row whose attempt succeeded and a delivery only
writes its own refund's row; and a delivery that reaches the end has booked (`Follows`). With two desks a
second request may take up the row of the first between its answer and its mark, which is why it is `OneDesk`.

`WithinCaps` (while answers arrive, no vendor order is refunded beyond its total) compares what Stripe made
with what the code can count, which are rows. `Counting` says how the two are related. A refund whose answer
arrived is in a row that names it, or the desk is about to write it there (`IsCounted`); a row of a refund that
has not failed counts (`RowsCount`), because an event or a delivery that says "failed" is about a refund that
did (`FailuresAreTold`); so the answered refunds go one for one into rows that count, and what remains, which
is computed from the rows, leaves the vendor order its total (`RemainingLeavesRoom`, from `SumInto`). From the
check of the caps to the request at Stripe nothing but the desk's own answer adds to what was answered, so the
room is still there (`LeavesRoom`), and then one refund is added (`AnswerCounts`, from `SumWithOne`). The steps
that make no refund, answer nothing and change no row (`QuietStep`), those of the desk, of deliveries and of
Stripe have a lemma each. The room is computed with a fold whose order of elements is a choice; that any order
gives the same sum is `SumIs`.

### The checkout

`CheckoutProofs`:

| Theorem | Statement |
|---|---|
| `ChargedHolds` | `Spec => []Charged` |
| `PaidOrdersAreCharged` | `Spec => []PaidIsCharged` |
| `CheckoutIsTyped` | `Spec => []TypeOK` |
| `SessionStaysAsRead` | `Alone => (Spec => []SessionIsAsRead)` |
| `LockedCartStaysFixed` | `Alone => (Spec => LockedCartIsFixed)` |
| `ClosedOrdersStayClosed` | `Alone => (Spec => ClosedStaysClosed)` |
| `LinesStayShown` | `Alone => (Spec => []LinesAreShown)` |
| `OrdersAreAsShown` | `Alone => (Spec => []OrderIsAsShown)` |
| `OrdersStayApart` | `Alone => (Spec => []OrdersAreApart)` |
| `OneOrderWaits` | `Alone => (Spec => []OneUnpaidOrder)` |
| `LinesArePaidOnce` | `Alone => (Spec => []NoLineIsPaidTwice)` |

*The argument.* `PaidIsCharged` (a paid order has an intent of its own that succeeded) needs that whoever is
about to record a payment or to settle an order holds such an intent: that is `Charged`. A succeeded intent
stays one, so it is enough to know which actions touch money at all. Most do not: `EditIsQuiet`,
`GroupOrderIsQuiet`, `PageIsQuiet`, `SubmissionIsQuiet`, `IntentIsQuiet` and `ClearingIsQuiet` say that they
make no order paid, take no success back and send no job to record or to settle, and `QuietKeeps` that this is
enough. `ReceiveKeeps`, `RecordKeeps`, `SettleKeeps` and `PayKeeps` do the four that are left.

The types need more than themselves, for any number of workers: a bound that is checked when a request
starts is exceeded by those already under way, so `Typing` counts them, and what a job holds at each step is
there (the form, the order, the intent), which the functions applied to it need.

The rest holds for one handler at a time, in three layers, each resting on the one before. `SessionIsAsRead`:
the status a handler read of the session is still the session's when it writes, which is what a check without a
condition in the write relies on; a lock is therefore only opened or ended by a handler that saw it, and nobody
who saw a lock writes lines (`LockedCartIsFixed`, `ClosedStaysClosed`). `LinesAreShown`: a form of a group shows
the lines its fingerprint was taken of, and from the comparison of fingerprints to the order the cart is
what that form showed; so are the lines of the order, and the amount (`OrderIsAsShown`). `OrdersAreApart`: an
order that waits, or is paid and not settled, is the only one, and a paid order shares no line, as it was last
written, with the cart or with another such order. A line carries the number of its last write (`at`), which
the model counts for exactly this: a line that is written again is fresh against every order there is
(`Fresh`), and only the handler that settled an order has its old lines still in the cart (`Clears`).

### The browser's cart

`CartSyncProofs`, from `CartSyncAssumption` (kinds of taps and faults, and that `MaxTaps` is a number); there
is one browser, so nothing is said of scheduling:

| Theorem | Statement |
|---|---|
| `CartSyncIsTyped` | `Spec => []TypeOK` |
| `NavigationLeavesSynced` | `Spec => []LeavesSynced` |
| `ShownStaysServer` | `Spec => []ShownIsServer` |
| `TapsStayKept` | `Spec => []TapsAreKept` |

*The argument.* The types are not inductive. A refused batch goes back to the cart before it, so there must be
one while anything is pending or under way (`Typing`); that is so because the batch under way is in the queue
exactly once (`QueueHasBatch`), and because a window of taps and a batch end only together with that cart.
What an operation does to a cart, on the page and on the server, has a lemma each (`PutIsCart`, `UpdateIsCart`,
`AddToIs`, `ApplyIs`), what taps are merged to, or sent as, has others (`CoalesceIs`, `SendableIs`).

`LeavesSynced` (when a navigation goes on, nothing tapped before it is pending or under way) needs to know
where older taps can be: never pending once the navigation has flushed, and under way only in a batch that is
among the elements it waits for (`LeavesInOrder`). That a flush which ends starts the next one at once for
those who waited, before the page can be tapped again, is what keeps it.

`ShownIsServer` says nothing until everything is at rest, so its invariant has to say what is true in between.
While no flush is under way and the last answer was not overtaken, page and server agree in every line but those
that are pending and the one a dialog adds; a line that was cancelled before the server ever saw it is on neither
side, unless a dialog has just put it there (`PageFollows`). During a dialog's own request the page
may be ahead by the dialog's line or, once the server has answered, the server may be ahead of the page
(`Below`). With nothing pending and no dialog nothing is excepted, which is the property.

`TapsAreKept` compares what the server has at rest with what the customer left on the page, and so its
invariant has to say, at any moment and of each item that is not contended, what the server's cart *comes to*
with the operations under way and then the pending ones (`Keeping`). Mostly this is seen line by line (`Calm`):
the page and the server each have at most one line of the item; a line of the server's comes to what the page
shows, or to nothing when the page no longer shows it; an optimistic line is an addition that is on its way, of
its whole quantity, and by then every line the server has is removed. Three moments differ. The server has
added the line and its answer is not back (`JustAdded`); a dialog adds one, with its line on the page and
then on the server (`CalmDialog`); and a dialog that fails goes back to an older page, which must not bring back
anything (`CanGoBack`). All of it rests on ids: a line names one item for good, on the page, on the server and in
every operation (`IdsAreApart`), and no two operations under way, nor two pending ones, are of one line
(`OneEach`, which coalescing is for).

Each action has its lemma (`TapKeeps`, `ConfigureKeeps`, `SendKeeps`, `BatchKeeps`, `AnswerKeeps`, `ShowKeeps`,
`TakeKeeps`, `EndKeeps`). Taps rest on what coalescing does to a calm item (`CalmTapped`, `CalmAdded`), flushes on
what of the pending operations is sent (`SendableHas`, `FlushIsCalm`), answers and the end of a dialog on what a
merge does to one (`MergeOf`, `MergeIsCalm`, `AnsweredIsCalm`, `BackIsCalm`). A batch is applied one operation at
a time, so its lemma has an invariant of its own: with the first k applied, the lines these name have their
quantities and the others what they had (`Half`), until an addition makes the item's only line (`Done`).

`Sendable` and `ApplyAll` and the quantities of a cart are recursive functions; what a step keeps, they keep
(`StepsStay`).

### Sequences, iterated steps and sums

`DataFacts` has what the proofs need of data. Sequences that grow or have one element replaced
(`AppendKeeps`, `ReplaceKeeps`, `IndexIsPositive`, `AppendLen`), without `Seq`, whose element set would have
to be named. Recursive functions: what such a function is for every argument is shown by induction over the
numbers, stated for a set of numbers and not for a predicate (`Induction`, from the library's well-foundedness
of `<`); first that a function with the recursion's equations exists (`IterationExists`, `SumExists`), hence
that the chosen one has them, then what a step keeps (`StepsStay`). And sums over a finite set, as
`MapThenSumSet` takes them: there is a fold (`FoldExists`), it gives numbers (`FoldIs`), any two agree (`SumIs`),
amounts that go one for one into others sum to no more (`SumInto`), and one more element adds its amount
(`SumWithOne`).

### Only model-checked

- The liveness properties (`PaidOrderIsRouted`, `ClosedOrderIsShown`, `VendorIsPaid`, `EachRefundIsBooked`,
  `SyncsInTheEnd`): the prover handles neither liveness under fairness nor ENABLED.

Every safety invariant and action property that a run checks is stated by a theorem, some under the hypotheses
above: there the run has the same ones.

No operator is RECURSIVE: recursion is written with functions, or with the folds of the community modules.

## 5. Plan

**Done:** the orders with the reconciliation lookup, the vendor payouts, the refunds with Stripe's webhook,
checkout with group orders and the server's cart, and the browser's cart.

**Left,** in the order of what they would add:

1. Pod payouts: the same statements as `VendorPayouts`, over allocations.
2. Stripe's webhook for payments with its event row, composed with `Checkout` and `VendorOrders`.
3. Customer messages: one message per milestone, under concurrent recomputations.

Runs stay at two actors per shared row and at most two rows; section 3 gives the bounds.

## 6. Not modelled

Pod payouts, customer messages and the row of payment webhooks are left for later (section 5). Menu imports,
the mapping of payloads to and from the POS, pricing arithmetic, accounts, invitations, reporting and the
pages are not modelled: they are data transformations, reads, or changes of a single row, without the
interleavings the models are about; `PROJECT.json` gives the reason for each. They are most of the
repository's lines, and the models say nothing about them.

Amounts are modelled where handlers decide on them, in `Refunds`; in the order core and in `Checkout` nothing
depends on them but equality, and section 2 says what stands for them in the payouts. Time is modelled as what
may happen at any moment: a key or a session expires, an answer is late, a lookup comes.

## 7. Running

In this directory: `tlasany M.tla`; `tlc -workers 2 -config <run>.cfg <module>` with `MCVendorOrders` for
`serial_deliverect`, `serial_pos`, `races` and `closing`, `MCVendorPayouts` for `payout_...`, `MCRefunds` for
`refunds` and `refunds_live`, `MCCheckout` for `ordering`, `MCCartSync` for `cart_sync`; `tlapm <module>` with
`VendorOrdersProofs`, `VendorOrdersSerialProofs`, `VendorPayoutsProofs`, `PayoutObligationProofs`,
`RefundsProofs`, `CheckoutProofs`, `CartSyncProofs` and `DataFacts`. Every run
ends within two minutes, a proof module within a few, `CheckoutProofs` and `CartSyncProofs` within ten.
