# A TLA+ verification of the Bilokat marketplace

Bilokat is a multi-seller marketplace for namkeen: a NestJS backend over
PostgreSQL (Prisma, isolation level READ COMMITTED, no explicit locking), with a
storefront for customers and a console for staff, sellers and couriers that call it,
and a landing page with a little shop of its own that never does. An order is split into one *slice*
(`seller_orders`) per seller. Customers, sellers, operators, couriers and the
payment gateway act on the same rows at the same time, and nearly every handler
has the shape *read, decide, then write in a transaction*. What can go wrong
between the read and the write is what this project is about.

All paths below are relative to the repository; `commerce/` stands for
`src/commerce/` of the backend.

## 1. The system

| Component | State it keeps | Operations | Interacts with | Correct when |
|---|---|---|---|---|
| Orders and slices (`order.service`, `seller-ops.service`) | `orders`, `seller_orders`, `order_items`, `products.stockOnHand`, `coupons.usageCount` | checkout, buyNow, cancelOrder, resolveRejectedSlice; sellers accept or reject | payment intent and cart inside the checkout transaction | stock is conserved, an item is released once, no slice is both refunded and paid out, a cancelled order stays cancelled, the split adds up to the total, the buyer is charged for what it keeps |
| Fulfilment (`fulfilment.service`) | `orders.status` | advance along the table `NEXT`, gated on payment and on the sellers' answers | payables inside its transaction, notices after it | only forward, only with the gates passed, delivery owes exactly the accepted slices |
| Payments (`payment.service`, `gateway/`) | `payments`, `payment_transactions`, `payment_webhooks`, `orders.paymentStatus` | intent; webhook events captured and failed | the gateway, at least once and in any order | an event is applied once, a capture is booked once and stands |
| COD verification (`cod.service`) | `cod_verifications`, `orders.status` | initiateOtp, verifyOtp, reject | orders | no confirmation without an OTP, a bounded number of guesses |
| Courier last mile (`delivery.service`) | `delivery_assignments`, `seller_orders.deliveredAt`, one flag of the process | assign, reassign, cancel, accept, reject, pickup, outForDelivery, deliver, fail | finalizes orders, earns fees and payables | one active task per slice, an order is finalized when, and only when, all is delivered |
| Courier payouts (`courier-payout.service`) | `courier_payouts` | earn inside the delivery transaction, settle per partner | last mile | a delivery is paid once, the total settled is the sum of the rows |
| Settlement (`settlement.service`) | `seller_payables`, `settlements`, `adjustments`, reconciliation runs | earn, adjust, batch, advance a batch, debit refunds, reconcile | fulfilment, returns | net = earned - adjustments, a payable is in one live batch, the books balance |
| Returns, replacements, refunds (`returns.service`) | `return_requests`, `return_items`, `refunds`, `replacements` | request, decide, pickup, inspect, replace, refund, complete, reconcile a refund event | gateway (a call that cannot be rolled back), settlement | no item returned twice, no money refunded twice, a crash after the gateway call is recoverable |
| Replacement courier (`replacement-courier.service`) | `replacement_assignments` | the last mile of a replacement | returns | a replacement is completed or cancelled, not both |
| Notification outbox (`notification.service`) | `notification_outbox` | enqueue, dispatch pass, mark | every component, after its transaction | a row is sent, retried or given up; it is sent more often than it says only after an overlap or a crash |
| Cart (`cart.service`) | `carts`, `cart_items` | resolve, merge a guest cart, add, update | checkout claims it | one order per cart |
| Publishing (`publishing/`) | `products.status` and visibility | draft, edit, submit, archive; approve, reject | seller's status; catalogue, checkout | what is on sale is what was approved, of a seller who may sell |
| Seller onboarding (`seller/`) | `sellers.status`, `seller_applications` | profile, submit, review, activate, switch | publishing | the seller's status goes with its application's |
| Reviews (`reviews/`) | `product_reviews`, the product's number and average of ratings | create, edit, remove; approve, reject, hide, unhide | catalogue | the aggregate is that of the visible reviews, which read as approved |
| Sessions (`auth/`) | `user_sessions` | login, refresh (rotate), logout, revoke | control console | a login has one open session; a replaced token that comes back ends all |
| Addresses (`addresses/`) | the default flag | create, update, delete | checkout | one default address |
| Wishlist (`wishlist/`) | `wishlist_items` | add, remove, list | storefront | what is shown as saved is saved |
| Analytics and reports (`analytics/`, parts of `settlement.service`, `courier-payout.service`) | none: orders, returns, refunds, payables, fees | overview, trend, products, categories, sellers; lists, period totals, summaries, reconciliation | console | reports drawn from the same tables for the same period agree |
| Storefront (`customer-storefront/`) | the state of the page, a token, the cart's badge, the hearts, the bell | every call a customer makes | cart, checkout, orders, returns, notices | what is charged is what was shown; a page shows the server once it is at rest |
| Console (`catalog-console/`) | a list read under a filter, its ticks, an open dialog | the calls of staff, sellers and couriers | every service above | it lists what it was asked for and offers nothing the service refuses |
| Landing shop (`landing-page/`) | products, bag, overlays, coupon, orders: all in the browser | quiz, box builder, bundles, drawer, checkout | | what is charged is what the drawer showed; what ships free does |
| Control console, catalogue, courier tracking | single rows, or none | single writes, or reads | storefront | nothing to interleave on the server |
| Bootstrap, config, health, Prisma, scripts | none of the marketplace's own | | | |

**Interaction style.** Services call each other in process, mostly inside the
caller's transaction (fulfilment earns payables, delivery earns fees). The only
messages are webhooks; the only background work is the outbox dispatcher. There
are no queues and no locks of the application's own, so every hazard is one of
*stale reads*, *unconditional writes by id*, *aggregates over committed rows*,
*external calls inside a handler* and *at-least-once delivery*. In the browser they
are *answers that arrive late, in another order or not at all* and *pages that keep
what they read*. The list, line by line, is under `hazards` in `PROJECT.json`.

## 2. Modules

| Module | Models | Built on |
|---|---|---|
| `OrderContract` | the abstract promise about one order: every operation atomic, every gate evaluated at the moment of the change | |
| `OrderLifecycle` | one order under concurrent requests of customer, sellers, operators, OTP service and gateway | refines `OrderContract` (PREPAID) |
| `CourierDelivery` | the last mile on top of that order: assignments, couriers' calls, finalization, notice | EXTENDS `OrderLifecycle` |
| `PaymentWebhook` | the gateway's event log under duplicates, reordering and lost deliveries | its property `OrderSeesEvents` is what `OrderLifecycle` assumes of a payment event |
| `CheckoutContract` | the abstract promise about placing orders: each in one step that sees everything it needs | |
| `Checkout` | many buyers' checkout and buyNow transactions, with their row locks, over carts, stock and a coupon | refines `CheckoutContract`; the orders it places are those `OrderLifecycle` begins with |
| `RefundContract` | the abstract promise about the money of returned goods: goods, then money, then books | |
| `ReturnCases` | the returns of one order, the refund at the gateway, its late, repeated and lost answers | refines `RefundContract` |
| `Settlement` | payables, adjustments, refund debits, batches and their payment | begins with what `EarnDeliveredSlices` of `OrderLifecycle` writes; is debited by the close of a return |
| `ReplacementCourier` | a replacement's way to the buyer: operator's leg, courier's leg, shipment booking, fee | begins with the replacement that `ReturnCases` issues |
| `NotificationOutbox` | outbox rows written in and out of transactions, overlapping dispatch passes, crashes | |
| `SellerOnboarding`, `ProductPublishing` | one seller's application and status; one product's way to the shop | composed by `Supply`, which lets them share the seller's status |
| `StorefrontCheckout` | the cart page, the checkout page and the badge, with the calls under way and the server's cart | the cart and checkout of `ShoppingCart` and `Checkout`, seen by one buyer |
| `StorefrontOrder` | the order page: payment, cash on delivery, cancellation, returns panel | orders, OTP and returns, seen by one buyer |
| `StorefrontShop` | start, sign-in, hearts, bell, and the pages that list under a filter | wishlist, notices, reviews, addresses, catalogue |
| `Console` | the boards of staff, sellers and couriers against the steps their services allow | |
| `LandingShop` | the whole landing shop | |
| `Reports` | the reports, as operators over the tables, and the events that fill the tables | |
| `Platform` | one behaviour for each of `Supply`, `ReplacementCourier` and the six modules above | composes them |
| `ProductReviews`, `AddressBook`, `ShoppingCart`, `AuthSessions` | the small services of a customer | composed by `Customer` |
| `OrderMoney` | the paise of an order: quote, coupon, split, refunds of slices and of returned goods | composed by `Customer`; the amounts that `OrderLifecycle` and `ReturnCases` abstract |
| `OrderProofs`, `CheckoutProofs`, `ReturnProofs`, `LedgerProofs`, `CustomerProofs`, `StorefrontProofs`, `PlatformProofs` | the proofs about the modules above (section 4) | EXTEND the module they are about |
| `FiniteSums` | lemmas: a sum over a finite set is typed, is 0 for the empty set, changes by the term that is added or removed, is linear, and is the sum over the parts of the set; a nonempty set of numbers has a least one | cited by every module of proofs but `OrderProofs` |
| `MCOrderLifecycle`, `MCCourierDelivery`, `MCPaymentWebhook`, `MCCheckout`, `MCReturnCases`, `MCSettlement`, `MCNotificationOutbox`, `MCCustomer`, `MCPlatform` | the instances for TLC | |

A definition whose comment says *mutation* is a plausible bug of the definition
after it; replacing one by the other must break the property that `PROJECT.json`
names next to the two.

### 2.1 How a handler becomes actions

A request in flight is a slot of `req` (of `call` for the last mile, of `work`
for an event). `Read...` is everything the handler does before it opens its
transaction: its checks are the guard, and what it keeps from its reads is the
record put into the slot. `Commit...` is the transaction. Between the two, any
other action may happen, which is what READ COMMITTED with no locks allows.

* **Several reads in a row are one step.** `verifyOtp` reads the order and then
  the COD row, `advance` the order and then the slices. Splitting them would only
  add executions in which another commit falls between two reads, and an
  execution in which it falls before both or after both is in the model already.
  The cases that differ are those of a check that was already outdated when the
  next read ran; they end in the same write as a read that has become outdated by
  the time of the commit, which the model has.
* **A transaction is one step** as long as it decides nothing on rows it has not
  written (and so locked) itself. `cancelOrder` reads the slices inside its
  transaction and then updates the same rows; a resolution that comes in between
  waits for, or is waited for on, the slice's row (`Locked`). Two transactions do
  decide on rows they do not lock, and are two steps: the refund cap of
  `resolveRejectedSlice` (`AggregateRefunds`, `CommitResolve`) and the outstanding
  slices of `deliver` (`CountOutstanding`, `CommitDeliver`). The claim of a webhook
  event and its application are two steps for the same reason: the payment is
  read between them with no lock.
* **`Abort`, `Drop`, `Lose`** stand for every way a handler may end without its
  effect: a guarded update that matches no row (409), a database error, PostgreSQL
  choosing it as the victim of a deadlock, a process that dies. They can always
  happen, so the guards of `Commit...` need no negative twin.
* **Single guarded `updateMany`s** (a seller's accept or reject) have no earlier
  read that matters and are one action.

### 2.2 `OrderLifecycle`

`order`, `payStatus`, `payment`, `cod`, `attempts`, `slice` are columns.
`cleared` stands for the CAPTURE transaction or the OTP history entry, `delivered`
for `deliveredAt`, `payables` for the rows of `seller_payables` (unique per slice,
so a set), `released` and `refunds` count what was put back on the shelves and what
was given back to the buyer. `Init` is what checkout and buyNow leave behind.

| Code | Actions |
|---|---|
| `cancelOrder` | `ReadCancel`, `CommitCancel` |
| `resolveRejectedSlice` | `ReadResolve`, `AggregateRefunds`, `CommitResolve` |
| `advance` | `ReadAdvance`, `CommitAdvance` with `EarnDeliveredSlices` |
| `accept`, `reject` of a seller | `Accept`, `Reject` |
| `initiateOtp` | `ReadIssueOtp`, `CommitIssueOtp` |
| `verifyOtp`, `reject` | `ReadVerifyOtp`, `CommitWrongCode`, `CommitExpire`, `CommitRejectCod`, `CommitConfirmCod` |
| an applied payment event | `PaymentCaptured`, `PaymentFailed` |

Left out: texts, history rows, timestamps other than `deliveredAt`, order numbers,
the amounts of lines (a slice has one total), and the statuses after DELIVERED,
which belong to the returns flow. The OTP itself is a free choice between right,
wrong and too late.

### 2.3 `CourierDelivery`

`task` and `parcel` are an assignment's status and slice, `fees` the rows of
`courier_payouts`, `deliveredNow` the field `_deliveredNow` of the singleton
service, `notices` the order status at which the buyer was told "delivered".
Everything of `OrderLifecycle` goes on beside it (`OrderStep`). The steps of a
partner (accept, reject, pickup, ...) differ only in the status they want and the
one they write, so they are rows of `TaskMoves`: each checks the status it read
and then writes by id.

An operator who advances the order to DELIVERED writes `deliveredAt` of the
accepted slices and so waits for a delivery that has stamped one of them. That
delivery may in turn wait for the order row; PostgreSQL then aborts one of the two.
What is left are the serial outcomes, so `OrderStep` simply waits for the stamps.
The flag is raised inside the transaction callback, before the commit, and stays
up after a rollback.

Left out: the registry and the status of partners, the courier provider's waybill,
read-only views.

### 2.4 `PaymentWebhook`

Events are model values: captures and failures. `CreateIntent` is the commit of the order's
transaction, which brings the payment. `Receive` is the look at the log and for the payment;
`Duplicate`, `InsertFails`, `Ignore` and `Claim` are the outcomes of the insert under the
unique index (a claim waits while another delivery of the same event is open), `Apply` is
the rest of the transaction, `Answer` the 2xx. A refused delivery leaves a `FAILED` row that
takes the event's key: `Unfound` finds no payment (404), `Unverified` does not verify (403,
in the sandbox handler only; the gateway's parser refuses before anything is written). The
bare `catch` around the insert answers 2xx for every error: `Duplicate` when a row of the
event is there, a `FAILED` one included, and `InsertFails` when none need be; the callback
returns, and the commit of the failed transaction rolls it back. The history variable
`swallowed` remembers the latter. The sandbox handler `confirmFromWebhook` and the gateway
handler `confirmFromGatewayEvent` have the same steps and are modelled once. That Razorpay's
`payment.captured` and `order.paid` are both taken for captures, with different event ids,
is in `commerce/gateway/razorpay.gateway.ts`. An event with another amount than the
payment's is answered with an error and writes nothing; it is left out.

So the answer tells the gateway less than it seems to: `AnsweredIsApplied` holds with
two exceptions that it names, and `AnsweredIsDone`, without them, is refuted (section 3).

### 2.5 `Checkout`

Here the transactions themselves are taken apart, because they compete for the same
rows: `stock`, `cart` and `usage` are what is committed, `stage`, `left` and `asks`
how far each call is. An update under a condition (`updateMany ... where`) waits for
the row's lock, looks at the committed value, and keeps the lock to the end of the
transaction. So the model checks it when it takes its lock and lets it land at the
commit: nobody else could have seen, or changed, the row in between.

| Code | Actions |
|---|---|
| `assertClaimableCart`, before the transaction | `ReadCart` |
| the guarded update of the cart's status | `Claim`, `SpendCart` |
| `calcQuote`, `quoteFromLines`, `validateCoupon` | `Quote` (reads without locks; the coupon even over another connection) |
| the increment of `usageCount` | `Redeem`, `CountUse` |
| the loop over the items | `Ask` (the lock is wanted), `Take` (granted, and there is enough), `Decrement` |
| the end of the transaction | `Commit` |
| 404, 409, 400 | `Refuse` |
| a lost connection, a timeout of the transaction | `Fail`, which may always happen |
| PostgreSQL aborting one of a circle of transactions | `EndDeadlock` |
| `cancelOrder`, `resolveRejectedSlice` giving stock back | `Withdraw` |

`findMany` names no order, so `Ask` takes the items in any. `buyNow` is a call whose
source is not a cart. `Withdraw` waits until none of its items is locked, then gives
them back together; that it locks them one by one itself is left out, as are the
cart's editing (the items are read once, after the claim), order numbers, the money,
the payment intent, and coupons with no limit, of which there is nothing to say.
The pool of connections, which `validateCoupon` draws a second one from while the
transaction keeps its own, has no size in the repository and is left out.
The failing of `OrderLifecycle` to release stock only once (below) is left out of
`Withdraw` too: what `Checkout` says of conservation is said of checkouts.

### 2.6 `ReturnCases`

`ret`, `remedy`, `pick`, `result` are the columns of a return request and its items,
`refund`, `amount`, `gatewayRef` those of its refund; `completions` counts the
REFUND_COMPLETED events, each of which comes with a debit of the sellers. `gateway`
holds the gateway's own refunds, which no rollback undoes.

| Code | Actions |
|---|---|
| `request` | `ReadRequest` (quantities still returnable), `CommitRequest` |
| `decide`, `schedulePickup`, `pickedUp` | `ReadStep`, `CommitStep` |
| `inspect`, with the replacement it issues | `ReadInspect`, `CommitInspect` |
| `initiateRefund` | `ReadInitiate`, `CommitInitiate` |
| `completeRefund` | `ReadComplete`, `CallGateway`, `BookProcessing`, or on to the close |
| `reconcileRefundFromEvent` | `ReadEvent`, `Dismiss`, `BookFailure`, or on to the close |
| `applyRefundTerminalEffects` | `CountCompleted` (the sum over committed refunds), `CommitClose` |
| the gateway finishes a refund, on its own time | `Settle` |
| a check that fails, a process that dies | `Drop`; `lost` counts the answers lost with it |

An event may be reported any number of times from the moment the gateway has the refund, so
also before `completeRefund` has stored its reference. Money is counted in halves of a
unit's share, which makes PASS and PARTIAL_PASS whole numbers; paise are the subject of
`OrderMoney`. `sliceRefunds` is what the order's resolved slices were refunded before the
delivery: rows of `refunds` that `resolveRejectedSlice` created COMPLETED, with a made-up
reference and no call to the gateway. The cap of `initiateRefund` and the sum that closes
the order count them like the rows of returns (`AmountIn`, `CompletedWith`), so an order may
count as REFUNDED while the gateway has moved less than its total (`RefundedIsInHand` is
refuted), and one whose slices were all resolved and which was delivered all the same is
closed by no return. `overlapped` is a history variable: some call began while another was
in flight. Properties conditioned on it say what the handlers promise to callers who wait
for one another, whatever the gateway does meanwhile. Left out: uploading evidence, the
return window, texts, and a second resolution of a slice that read it before the first and
commits after the delivery (`OrderLifecycle` has that race; here the sum of the resolved
slices is at most the total, as the cap of `resolveRejectedSlice` has it for calls that
follow one another).

### 2.7 `Settlement`

All amounts are in paise and written absolutely, as `settlement.service.ts` does, so
a call in flight carries the `net` and `adjusted` it read. `ledger` is the sum of a
payable's adjustment rows, which are only ever appended. Rounding is written out
(`Round`, `Commission`, `Debit`): the commission is rounded on the sale, the debit on
each return. `raced` collects the payables written by a call that had read other
amounts, `steered` those that an operator adjusted; both are history. `CommitBatch`
relies on the one thing the database guards, the unique payable of a settlement item
(`NotBatched`); `CommitAdvance` on the guarded status update (`StillIs`). Reports and
reconciliation only read.

### 2.8 `ReplacementCourier`

Three services write the same rows by id. `stale` is raised by a call that writes
although what it read had changed; most of what holds, holds until then, and
overlapping or dying calls alone do not raise it. `pickup` is three steps, as in the
code: its transaction (`CommitTask`), the booking at the provider (`BookShipment`,
which cannot be rolled back), the waybill (`StoreWaybill`). The courier stays ACTIVE
and all fees are equal.

### 2.9 `NotificationOutbox`

A notice in a transaction writes its rows at once (`EnqueueTx`), one outside of any
writes them one by one and may die in between. `ReadPass` takes the oldest `Batch` due
rows with the attempts it saw; for each row there is a `Send`, whose answer may be
false in either direction (the provider took it and the connection died), and a
`Mark`, which writes the status and `seen + 1` by id. The interval timer does not wait
for the last pass.

### 2.10 `Supply`: `SellerOnboarding` and `ProductPublishing`

`submitApplication` reads the seller, then the application, then writes the
application and the seller in two statements with no transaction: four actions, and
a process may die between any two. `reviewApplication`, `activateSeller` and
`adminSetSellerStatus` are read and commit. `torn` is raised by a status written over
outdated reads and by a submission that died half way. What a product says is
the number of its edits; `reviewed` is what the approval had read. `Supply` lets both
share `seller`; at most `MaxBusy` calls are under way in the two together.

### 2.11 `Customer`: reviews, addresses, carts, sessions, money

Five modules that share no table: a behaviour chooses one of them (`part`) and leaves
the others at rest, which keeps the state space the sum and not the product of theirs.

* `ProductReviews`: approving, hiding and unhiding aggregate the committed reviews in
  one step and write in another, under the lock of the review.
* `AddressBook`: whether an address becomes the default is decided before the
  transaction; `Clear` is the statement that takes the flag from those it sees.
* `ShoppingCart`: `ResolveUser` and `ResolveGuest`, then each write of a migration on
  its own (`Create`, `CopyItem`, `MarkMerged`), then the item (`ReadItem`, `WriteItem`).
  `asked` is what the user has asked for since the last checkout.
* `AuthSessions`: `ReadSession` decides between rotation, reuse and expiry; `Rotate`
  closes the old row and `OpenNext` writes the new one, in two writes.
* `OrderMoney` is sequential. It builds any basket of up to `MaxLines` lines, quotes it
  (percentage, fixed and free-shipping coupons, tax, delivery threshold), splits the
  total (the last seller takes the remainder), then resolves slices before delivery
  and takes returns after it. A return covers any lines of the order (`Return(n)`): the
  part of each is rounded on its own, PASS or PARTIAL_PASS, and their sum is refunded whole
  or, when it would exceed the total, refused whole. The code computes in doubles; an exact
  half may round either way, so every rounding is a choice of both (`Rounded`).

### 2.12 The storefront: `StorefrontCheckout`, `StorefrontOrder`, `StorefrontShop`

Three variables each. `screen` is the state of the React components that matter: the
page, what it shows, what is typed and ticked. `held` is the server's side, reduced to
what an answer says; its handlers are atomic here, as their own interleavings are the
subject of the modules above. `calls` is what lies between: a click sends a call with
what the page knows (`Send`), the server serves it at some later time (`Serve...`), the
answer arrives after that in any order, or never (`Answer...`, `Refuse`, `Lose`). A call
is `live` as long as the page that sent it is mounted: React drops a `setState` of an
unmounted component, while what is kept above the pages (badge, hearts, bell, token)
follows the answer wherever it arrives. The forms (checkout, capture, OTP, returns,
sign-in) are disabled while their own call is under way; quantities, hearts, filters and
cancellation can be pressed again.

The checkout page asks for a price with the code as it is typed and places the order with
`coupon.trim()`, so a code comes with what trimming makes of it (`Trimmed`), and the server
knows the `CouponCodes` and compares exactly. It may refuse any preview and any order for
reasons of its own (a coupon that has expired or is used up, a minimum, goods off sale); it
must refuse a code that it has not issued. A refused preview leaves the old amount on the
button, and `applied`, the code that amount is for, becomes `None`. A price is the pair of the
cart's lines and the code: prices of goods and terms of coupons stay what they are between
the preview and the order.

`sure` is the history variable of the clients: no two calls of which one writes were
under way at once (`Cross`), none was lost, and nobody else wrote. It says when a page
*must* be right; until then the properties only claim what the server enforces.

| Code | Module, actions |
|---|---|
| `App.jsx` (badge), `CartView.jsx` | `StorefrontCheckout`: `Open`, `AddToCart`, `SetQuantity`, `Remove`, `ClearAll`, `AnswerLoad`, `AnswerLine` |
| `CheckoutView.jsx` | `TypeCoupon`, `Apply`, `FetchPreview`, `Place`, `AnswerPreview`, `AnswerPlace` |
| `OrderView.jsx` | `StorefrontOrder`: `Open`, `Move` (same component, another order), `Cancel`, `Capture`, `SendOtp`, `Verify` |
| the returns panel | `OpenForm`, `Submit`, `Attach`, `OpenEvidence`, `AnswerList`, `AnswerCase` |
| sellers, operators and couriers meanwhile | `Progress` |
| `App.jsx`, `AccountView.jsx`, `NotificationsBell.jsx` | `StorefrontShop`: `AnswerMe`, `SignIn`, `AnswerLogin`, `AnswerIds`, `SignOut`, `ToggleWish`, `Poll`, `MarkInBell` |
| the pages that list | `PickTag`, `TurnPage`, `RemoveSaved`, `MarkRead`, `Change`, `AnswerList` |

### 2.13 `Console`

The console has a dozen views of one shape: a list, read under a filter, and on each
row the steps the view believes possible. The module has that shape once. A behaviour
follows one of the `Boards`. `Steps` holds, per board, what the services accept, and
`...Buttons` what the view offers, each from its own source; `Prompted` are the steps
that go through a dialog, which keeps the row it was opened with. `Elsewhere` is another
desk. Of `CourierTasks.jsx`, `CourierAction` is all there is: the view calls `api`, which
it never imports, so no step of a courier is ever sent (`unsent`). `App.jsx:68` shows a
staff member who is no seller the tab `ops` whichever is picked; the boards are modelled
as if mounted.

### 2.14 `LandingShop`

A single-threaded program with no server. Its difficulty is that overlays cover the
page and each other (`Top`), that the search opens over anything by a keyboard shortcut,
and that the drawer and the checkout compute the same total separately (`DrawerTotal`,
`CheckoutTotal`). The clock that gives a box its id is a sequence of distinct ids.

### 2.15 `Reports`

The tables are one record, `held`; events (`Placed`, `Delivered`, `Refunded`, ...) fill
them as the services do when nothing goes wrong, and time passes in half days. The
reports are operators over that record, with the window each computes from the dates it
is given: `ResolveWindow` (analytics), `DateFilter` (lists) and `TotalsFilter` (the
totals of the finance report) are three different translations in the code, and kept so.
So are two amounts. Overview and days add up grand totals: of the order for the platform,
of its slice for a seller, tax and delivery included and the coupon taken off
(`analytics.service.ts:89-95`, `:129-131`, `:209-213`; `SliceGmv`). Products and categories
add up line totals (`:253`, `:297`; `TotalOf`). A payable is earned on a third, the lines of
the slice less its part of the coupon (`settlement.service.ts:56-62`; `GoodsOf`). Refunds
are the slices' grand shares; the paise of a return in parts are a matter of `OrderMoney`.
How the total is shared out is given (`GrandTotal`, `ShareOf`); that the shares make up the
total is what `SplitIsFair` shows.
What is said of reports is said of reports drawn from the same tables; a page that
draws two of them by two calls may see an event in between. A ranking (`Ranking`) is any
sequence of the rows by amount, then by units: what the sort does with equal rows is left
open.

### 2.16 `Platform`

The parts share no table, so a behaviour follows one of them (`part`), as in `Customer`.
Its two runs, `backoffice` and `clients`, differ in the `Parts` they follow.

## 3. What is checked

| Run | Instance | Shows |
|---|---|---|
| `order_prepaid` | 2 sellers with totals 2 and 1, 3 requests in flight | no slice is refunded and paid out, pending requests rely on what still holds, the handlers implement `OrderContract` |
| `order_cod` | 2 sellers, 2 requests, 2 attempts | what survives OTP requests that race everything else |
| `courier_prepaid` | 2 slices, 2 assignments, 2 calls, 1 request beside them | whoever finalizes the order: it is complete, what was handed over was accepted, it implements `OrderContract` |
| `webhook_events` | 2 captures, 1 failure, 2 deliveries of one of them at once, 2 deliveries lost, not verified or failing to insert, from before the order's commit, fairness | events are applied at most once, answered when applied or ignored (but for the exceptions named), never both ignored, and every one is answered in the end |
| `checkout` | 2 calls for one cart, a rival cart with the same 2 products, a buyNow; a coupon with one use; fairness | one order per cart, stock is conserved, the transactions implement `CheckoutContract`, every call ends |
| `returns` | 2 units of an item, 2 returns, 2 refunds at the gateway, 2 calls, 1 lost answer, PREPAID and COD, resolved slices that were refunded nothing, half or all of the total | goods before money before books (`RefundContract`), the order is REFUNDED only when covered, no event is swallowed that need not be, and all is in order while calls follow one another |
| `settlement` | 2 payables of 14 paise at 10 %, returned in halves, adjusted by -10; 2 batches, 2 calls | a payable is settled exactly with its batch, books and ledger agree where no write raced, a batch pays its items |
| `outbox` | 2 rows, passes of 2, 2 attempts, 2 passes at a time, 1 crash, fairness | how often a row is sent, and that every row ends |
| `backoffice` | supply: 2 calls in onboarding, catalogue or both, 1 edit; replacements: 2 assignments, 2 calls, 2 fees paid | seller and application stay together, what is on sale was reviewed and is of a vetted seller; one courier, one shipment, fees for what was delivered; what is final stays |
| `clients` | 2 or 3 calls under way, 3 to 5 steps of the user, 2 rows, orders, goods and sellers, a coupon typed with a blank and without, 2 days of reports on 3 products | what is shown is what is charged, what is stored, and what other reports say |
| `customer` | 2 calls; 2 buyers with 2 reviews, 3 addresses, 3 carts, 3 sessions; baskets of up to 3 lines out of 2 goods, 3 coupons | the rating summary, the default address, the cart, the sessions, the split, the refunds |
| `stock_released_once` | 2 sellers, 2 requests, PREPAID | a violation, see below |

The properties, in the order of their weight:

* `ContractSpec` of the order (refinement): with stale reads and all, a PREPAID order
  behaves as if every operation were atomic and every gate were evaluated at the
  commit; also with couriers at work.
* `ContractSpec` of `Checkout`: checks and locks spread over a transaction amount to one
  check of everything at the commit, and to one effect, the use of the coupon included.
* `ContractSpec` of `ReturnCases`: although every status is written by id after an
  outdated check and the gateway speaks when it likes, money only moves for inspected
  goods and books only follow money.
* `RefundedNotPaidOut`: buyer and seller never both get the money of a slice.
* `AcceptedBeforeShipment`, `ClearedBeforeConfirmation`: the gates hold for the
  order although they were passed before the transaction that relies on them.
* `CancelledIffReleased`: cancellation of the order and of a slice race, and still
  a slice is cancelled exactly when its stock went back.
* `ReadsStayGood`: what a pending transaction relies on still holds. It is the heart
  of why the above are true, and of their proofs.
* `SettledIsPaid`, `BooksBalance`, `SettledInFull` (a batch pays the sum of its items, and
  goods that all came back leave a seller no more than the roundings): batches of
  outdated payables, lost updates and the two roundings of a commission.
* `NoEventSwallowed`, `RefundsAreDue` (the order is REFUNDED only when it is covered, by
  money in hand and by the rows of its resolved slices, and the whole bookkeeping of a
  return is right while calls do not overlap): sums that miss open transactions, events that
  overtake their call.
* `DeliveredIsComplete`, `DeliveredWasAccepted`: the courier's count of outstanding
  slices is old when it commits, and yet never too small.
* `AppliedOnce`, `AnsweredIsApplied`, `IgnoredIsCaptured`, `OrderSeesEvents`,
  `EveryEventAnswered`: the event log. `OrderSeesEvents` is what `OrderLifecycle` takes
  for granted of a payment event.
* `OneOrderPerCart`, `StockConserved`, `EveryCallEnds`: double clicks, orders placed and
  withdrawn at once, transactions that wait for each other's items.
* `OneDelivery`: three services on one replacement: one courier, one shipment, the fee for
  exactly the leg that was delivered.
* `NoSurplusSends`, `EveryRowEnds`: overlapping dispatch passes.
* `SellerFollowsApplication`, `OnSaleAsVetted`: decisions taken on outdated reads; that the
  catalogue is of vetted sellers holds however the calls overlap.
* `FinalIsFinal`: a decision on an application, a publication, an archive, a delivered or
  cancelled replacement and a fee that was paid stay, unless an outdated read is written.
* `MoneyAddsUp`: the split is fair, and after any sequence of slice refunds and of returns
  of several lines the buyer has paid for what it keeps, to a paisa for each seller and each
  line that was refunded; the cap on refunds refuses none by more than that and a paisa for
  each line of the order.
* `ChargedAsShown`: the checkout button shows a price that was previewed for some cart and
  some coupon, and the order charges that of the cart and the trimmed coupon at the click;
  they are the same if the code in the field is the one a price was last asked for under, and
  was given, and no calls crossed. And the landing shop computes its total twice.
* `PagesShowTheServer`, `ShowsTheBoard`: every page patches, keeps or reloads what it shows
  in its own way after each call; whichever order calls end in, what remains is right, and
  nothing is offered that the service refuses.
* `ReportsAgree`: the reports group the same rows by day, category, product, seller,
  status and window, each with its own filter, and have to add up: in grand totals or in line
  totals, whichever they use, and in units and orders across both.
* `SummaryAgrees`, `OneDefault`, `CartAsAsked`, `OneSessionPerLogin`.

Many of these carry a condition, and the condition is the finding: `stale`, `torn`,
`raced` and `overlapped` are history variables that say *a call wrote although what it
had read was no longer so* (or, for `overlapped`, that calls overlapped at all). What
holds without the condition is stated without it; what needs it is refuted without it
by the statements below.

`CustomerTypes.cfg` holds the type invariants of the parts of `Customer`, among them that
a buyer has one review of a product and that a cart holds no more than there is. TLC finds
no error in it: `tlc -config CustomerTypes.cfg MCCustomer`.

**Refuted.** What comments, tests and documents of the repository say, and the code
does not keep. `stock_released_once` is a run of its own. The others are definitions of
the modules: put `INVARIANT <name>` (`PROPERTY` for `CancelledIsFinal`, `CaptureStands` and
`TokenOutlivesOutage`) in place of the properties of the configuration given, and TLC
prints the shortest execution.

| Statement | Configuration | What happens |
|---|---|---|
| `StockReleasedOnce` | `StockReleasedOnce.cfg` | `resolveRejectedSlice` writes by id after an outdated check: a cancellation or a second resolution releases the same stock again |
| `CancelledIsFinal` | `OrderCod.cfg` | an OTP verified before a cancellation confirms the order after it |
| `FinalizedOnceDelivered` | `CourierPrepaid.cfg` | the last two slices, delivered at once, leave the order SHIPPED for good |
| `NoticeAfterDelivery` | `CourierPrepaid.cfg` | the flag shared by all calls makes one announce what another has not committed |
| `OneCapture` | `WebhookEvents.cfg` | two events of one capture both book it |
| `AnsweredIsDone` | `WebhookEvents.cfg` | "another request won" (`payment.service.ts:174`): the catch says so of every failed insert, also next to the `FAILED` row of a refused delivery; the event is answered as processed and never applied |
| `CaptureStands` | `WebhookEvents.cfg` | a late failure undoes a capture |
| `CouponWithinLimit` | `Checkouts.cfg` | two checkouts read the usage counter before either increments it |
| `RefundedIsInHand` | `Returns.cfg` | "the customer is refunded this slice's grand-total share" (`order.service.ts:321-322`): the row of a resolved slice is COMPLETED and counts towards REFUNDED, and no gateway was ever called for it |
| `RefundPaidOnce` | `Returns.cfg` | the answer of the gateway is lost, and the repeated call refunds again |
| `FailedRefundCanBeRetried` | `Returns.cfg` | a case whose refund failed can neither be initiated nor completed again |
| `InspectionCanBeFinished` | `Returns.cfg` | a partial inspection moves the case to INSPECTION, from where `inspect` refuses it |
| `LedgerAgrees` | `Settlements.cfg` | of two overlapping adjustments one is lost in the net, both are in the ledger |
| `NetZeroOnFullReturn` | `Settlements.cfg` | commission rounded on the sale and on each return: a paisa stays with the seller |
| `OwedIfDelivered` | `BackOffice.cfg` | a stale step overwrites DELIVERED after the fee was earned |
| `RetryCeiling` | `Outbox.cfg` | overlapping passes send a row more often than `MAX_ATTEMPTS` |
| `OperatesOnceApproved` | `BackOffice.cfg` | an operator's switch makes a seller ACTIVE that no reviewer approved |
| `SummaryIsOfPublished` | `Customer.cfg` | two moderations overlap and one aggregate misses the other |
| `MergedOnce` | `Customer.cfg` | a guest's cart, merged and bought, is merged again with the next request |
| `PassIsFullShare` | `Customer.cfg` | "PASS => full share" (`returns.policy.ts:10`): the parts of several lines, each rounded up, exceed the total, and so does the last return after others that were rounded up; the refund is refused whole, even the first |
| `ChargedAsShownAlways` | `Clients.cfg` | a code with a blank behind it is refused in the preview, which leaves the old price on the button, and trimmed (`CheckoutView.jsx:57`) and accepted in the order; or the field is edited after the preview, or the cart changes in another call: the order is placed at a price never shown |
| `ShowsTheStatus` | `Clients.cfg` | the order page does not reload after a verified OTP: the order reads as placed |
| `AuthorizedIsConfirmed` | `Clients.cfg` | `verify` announces "Order authorized" (`OrderView.jsx:139`) whatever status the answer carries |
| `OfferedIsAccepted` | `Clients.cfg` | the page offers to cancel a PACKED order (`OrderView.jsx:78`), which `order.service.ts:263` refuses |
| `HeartsAreSaved` | `Clients.cfg` | what the wishlist page takes off stays a heart everywhere else |
| `TabIsOfItsCategory` | `Clients.cfg` | the notifications page sends a category that the service does not know: every tab lists all |
| `TokenOutlivesOutage` | `Clients.cfg` | a network error of the first call signs the buyer out |
| `DeliversToSavedPin` | `Clients.cfg` | the pincode that was checked and saved is not the one the order goes to |
| `CouponIsForFirstOrder` | `Clients.cfg` | the coupon "for your first order" (`CTABanner.tsx:25`) is good for each |
| `LinesAreDistinct` | `Clients.cfg` | the same bundle twice makes two lines of one id: a step of one is a step of both |
| `TabIsShown` | `Clients.cfg` | the payables are loaded again under the filter that was just left |
| `TickedIsShown` | `Clients.cfg` | a ticked row that the filter hides stays ticked and is settled |
| `ConfirmedIsTaken` | `Clients.cfg` | a dialog outlives the state of the row it was opened for |
| `ActionsAreSent` | `Clients.cfg` | `CourierTasks.jsx:73` calls `api`, which the view does not import: no step of a courier is sent |
| `TotalsAreOfTheList` | `Clients.cfg` | the totals of a period end with the midnight of its last day (`settlement.service.ts:713`), its list with the last instant (`:133`) |
| `CategoriesMakeUpGmv` | `Clients.cfg` | "Category breakdown of GMV/units" (`analytics.service.ts:265`): the categories add up line totals, the GMV of the overview is of grand totals |
| `RefundsAddUp` | `Clients.cfg` | sellers are told of the refunds of their rejected slices, the platform of those of returns (`analytics.service.ts:145`) |

Three more things are plain in the code and need no run: `Analytics.jsx` draws
`overview.series`, which no service returns; the console shows staff one tab (2.13);
`CodSection` looks for the statuses `VERIFIED` and `COMPLETED`, which a verification never
has, so that its form stays open for a confirmed order (`Verified` of `StorefrontOrder`).

Two more weaknesses have the same causes and no statement of their own: two overlapping
resolutions also refund a slice twice, past the cap on refunds, and two operators may
both assign one slice.

**Bounds, and why they are enough.** Two slices are the least at which one can be
resolved while another ships, and at which the refund cap can admit one and refuse
the other (hence the unequal totals). Two requests show every race of two
handlers; the third, for PREPAID, lets a resolution, a cancellation and an advance
overlap. Two assignments and two calls show every race of two couriers; a request
beside them shows the operator. `MaxAttempts` is 2 in place of 5: a counter only
matters at its limit, before it, and at zero. `MaxLost` bounds the deliveries (and the
gateway's answers) that are lost, `MaxCrashes` the passes that die.

Four calls are the least for `checkout`: two for one cart, one that shares both products
with them in baskets that can be locked in opposite order, and one outside of any cart;
the shelf (2 and 3 units against a demand of 4 and 4) makes the second or third call
find its last item gone after it has taken another, and the limit of 1 makes two coupons
one too many.

Two returns of two units can compete for a unit, or make up the order together; each may
have a refund at the gateway, or one of them two. 14 paise at 10 % are the smallest goods
value whose commission rounds differently in one piece and in halves; -10 is an adjustment
that fits once and not twice. `MaxNet` and `MaxAdjusted` only cut off amounts that no
further step distinguishes, `MaxPaid` fees reported twice. Two assignments let a replacement
be reassigned. Two outbox rows with passes of up to two are taken together by overlapping
passes, and marked in either order. In `backoffice` two calls (`MaxBusy`) show every race of
two, within onboarding and catalogue or across both; an edit is enough to tell an approved
text from a later one. In `customer` the bounds on rows (`MaxReviews`, `MaxAddresses`,
`MaxCarts`, `MaxSessions`) let one row be replaced and one of the replacements be replaced
again; two goods of 7 and 250, in baskets of up to three lines, stay below the delivery
threshold or pass it, and give shares with a remainder; one has a quantity of 2, so that a
line comes back whole or in two parts, alone or with the others; the coupons reach, or do
not reach, their cap, their minimum and the worth of the basket.

In `clients` the calls under way are limited by `Calls` (checkout 3, order page 2, shop 3,
console 2) and the steps of the user by `Clicks` (5, 4, 3 and 3, landing 4). Four codes can
be typed: nothing, a coupon, the same with a blank behind it, and a blank. Two calls
show every pair of answers in both orders; the third lets a page be left with a call
under way and be answered by the two of the next mount. Five steps are a cart edited, a
coupon typed, applied and typed again, and an order placed; four are a box filled, ordered
and the shop used again. Two rows tell a row that is acted on from one that is not, a page
size of 1 makes them two pages, and two orders, one of each method, are what a page can be
moved between. The reports have two days of two instants (`LastInstant`), an order of two
sellers and one of the first alone, and five events (`MaxEvents`): one order placed,
delivered, returned and refunded, beside another one. Three products in two categories are
one more than a ranking has room for (`Limit`), so that one report is cut off and others are
not; the amounts, in paise, have tax, delivery and a coupon, so that grand totals, line totals
and goods less discount are three different sums.

`released`, `refunds` and `attempts` are unbounded but each step of theirs uses up a
slice's status or a request, and the instances are finite. `Permutations` of ids are
symmetries: no property names one of them. The runs with liveness use none.
`CHECK_DEADLOCK FALSE` is set because everything here may come to rest: an order that is
delivered or cancelled, a shop whose calls have all ended, a refunded return, an outbox
that is empty, tables whose bound on rows is reached.

**Fairness.** The order modules, returns, settlements, `Customer` and all of `Platform` are
checked for safety only: nothing in the code makes a seller answer, an operator advance, a
gateway finish or a user click, and a call of the browser has no timeout. `Checkout` assumes
that a call which can go on does (Node's event loop), and that PostgreSQL ends a deadlock
(its `deadlock_timeout`); a call that waits for a lock held by one that can go on need not
be able to itself. Weak fairness of each call's own step says both. `PaymentWebhook` has
liveness under three assumptions: the order is committed, a handler that has started runs to
its end unless it is lost (the event loop), and the gateway repeats an event until it gets a
2xx (the documents count on the provider's retries, `PROJECT-DOCS/04-API-SPECIFICATION.md`,
section 110). `NotificationOutbox` assumes that passes begin again and again and get on:
that is the worker's interval timer (`onModuleInit`, when the worker is enabled) and the
gateway client, which aborts a request after eight seconds. All are weak fairness; losses
and crashes are finitely many.

## 4. What is proved

For any finite set of slices, any set of requests, tasks, calls, events, deliveries,
returns, items, payables, batches, rows and passes, any totals, rates, stock and limits:

* `OrderProofs`. For both payment methods: `TypeOK`, `AcceptedBeforeShipment`,
  `ClearedBeforeConfirmation`, `CancelledIffReleased`, `ReadsStayGood`. Under
  `Method = "PREPAID"`: `DeliveryPaysAccepted` (a delivered order owes exactly its
  accepted slices), `RefundedNotPaidOut`, `ForwardOnly` (the order moves along `NEXT` or is
  cancelled in time), and the refinement `ContractSpec`. PREPAID, with couriers:
  `CourierTypeOK`, `DeliveredIsComplete`, `DeliveredWasAccepted`, `DeliveryPaysAccepted`
  again, and `ContractSpec` again for the composed system.
* `LedgerProofs`, of the three modules that book what happened elsewhere. The event log:
  `WebhookTypeOK`, `AppliedOnce`, `AnsweredIsApplied`, `IgnoredIsCaptured`,
  `OrderSeesEvents`. The outbox: `OutboxTypeOK` (no row counts more attempts than it may
  have), `SentWasAccepted`, `GivenUpAfterTrying`, `NoSurplusSends`. Settlements: `TypeOK`
  (no payable and no batch falls below zero), `SettledIsPaid`, `BooksBalance`, `PaidIsPaid`,
  `SettledInFull` (a batch pays the sum of its items; after a full return at most half a
  paisa per rounding is left). (`WebhookSpec` and `OutboxSpec` carry their module's name so
  that one module can extend all three.)
* `CheckoutProofs`: `TypeOK` (with it, that nothing is oversold), `OneOrderPerCart`,
  `UsageCountsOrders`, `StockConserved` (no unit is lost or made), and the refinement
  `ContractSpec`, for any finite set of calls.
* `ReturnProofs`, for both payment methods, whatever the resolved slices were refunded, with
  any number of lost answers and events:
  `TypeOK`, `GoodsBeforeMoney`, `MoneyBeforeBooks`, `NoEventSwallowed`, `RefundsAreDue`
  and the refinement `ContractSpec`.
* `CustomerProofs`: `OneSessionPerLogin`, `OneDefault`, `CartAsAsked`, `SummaryAgrees`,
  `MoneyAddsUp` (for any prices, quantities, rates, coupons and numbers of lines and
  sellers, in any order of refunds, wherever an exact half is rounded to).
* `PlatformProofs`, of the back office: `TypeOK`, `SellerFollowsApplication`,
  `OnSaleAsVetted`, `OneDelivery`, `FinalIsFinal`. Of what is seen in a browser, for any
  number of calls under way and steps of the user: `ChargedAsShown` (checkout page and
  landing shop), `PagesShowTheServer` (cart, order page, the shop's pages), `ShowsTheBoard`
  (the thirteen boards of the console). Of the reports, for any orders, lines, sellers and
  periods and any events: `ReportsAgree`. The invariants of the order page, of the shop's
  pages and of the reports, with their proofs, are in `StorefrontProofs`.

The assumptions are the named ones of the modules (`OrderAssumption`, `CourierAssumption`,
`WebhookAssumption`, `CheckoutAssumption`, `ReturnAssumption`, `SettlementAssumption`,
`OutboxAssumption`, `CustomerAssumption`, `PlatformAssumption`, `PageAssumption`,
`OrderAssumption`, `ShopAssumption`, `GoodsAssumption`, `ReportAssumption`,
`BillAssumption`, `ConsoleAssumption`) and nothing else; the runs evaluate them. They say
that counts and bounds are natural numbers, that sets summed over are finite, that `None` is
no value of another kind, and, in `ReturnAssumption`, that an order has a line with a
positive quantity, which `createOrderFromQuote` ensures: for an order without goods every
refund would cover the whole; and, in `CustomerAssumption`, that a product costs something
and a line has some of it (`@Min(0.01)` and `@Min(1)` in the requests' classes), without
which a part of the total would be a division by zero, and that rates and coupons are not
negative. Those of the clients say that `None` (no answer yet) and `Refused` (an HTTP error)
are no answers, as a promise tells the three apart; that the codes of coupons have no blanks
around them (`prisma/seed.ts:57-59`); that the line of the cart can be had at all; that the
landing shop has products and they cost something, that its bundles cost no less than the
threshold of free delivery (499 to 899 in `data/products.ts:330-353`, 399 in
`CartDrawer.tsx:41`), that the quiz recommends products of the shop, and that the clock
gives each box an id of its own, as no two are built in one millisecond. Those of the
reports say that orders, sellers and the lines of an order are finitely many, that
quantities, totals, fees and the limit of a ranking are natural numbers, and that a
commission is between 0 and 100 percent, without which a seller could owe for a sale; and
`BillAssumption`, that the slices' shares make up the grand total, as `SplitIsFair` has it,
and none is discounted below zero. Properties proved here and absent from the run table were
model-checked on the same instances before they were proved; so was every inductive
invariant.

**The arguments.** `AcceptedBeforeShipment` is not inductive: a pending advance to
SHIPPED has checked the slices and will commit without looking again. The
invariant therefore also says what is true of every pending request
(`ReadsStayGood`): the slices that an advance to a shipment stage has seen as
accepted still are, or were cancelled. This holds because a slice only moves one
way: PLACED to ACCEPTED or REJECTED, REJECTED to CANCELLED, anything to CANCELLED;
no step leads out of `{"ACCEPTED", "CANCELLED"}` (lemma `SlicesMoveOneWay`). In the same
way `cleared` never goes back to FALSE, so an advance to CONFIRMED that has seen the
money may be as late as it likes; that `payStatus = "PAID"`, or a confirmed COD row,
implies `cleared` is the conjunct that carries the read to the invariant.

For a PREPAID order nothing writes the status by id, so `StillAt` makes every
advance and every cancellation conditional on the status that was read. `PInv` adds
that the statuses of a pending resolution and of the order fit: after a resolution
has begun, the slice is REJECTED or CANCELLED and so never earns, which is what
excludes refund and payable of one slice. The refinement maps the four variables of
`OrderContract` to those of the same name; each commit is one abstract step, each
read a stutter, and `ReadsStayGood` is what turns the outdated gate into the
abstract one at the commit.

With couriers the invariant also says what a pending call carries: a stamped call's
slice is accepted and its `last` is still true, because `delivered` only grows and a
slice outside CANCELLED does not come back (`Carried`, `GoodCalls`). The flag
`deliveredNow` plays no part, which is why the notice can be wrong while the order
cannot.

For the event log the invariant is that an open claim is the only one of its event
and that its entry is not in the log yet (`OneClaim`).

For checkouts it says what a lock is worth: an item taken and not yet committed is
still on the shelf in full and has one holder (`Reserved`), and a claimed cart is
still ACTIVE and has one claimant (`Claimed`). From the first, what a commit takes is
there, and leaves alone what others hold (`CommitTakesItsOwn`); from the second, the
cart of an order was never spent before. `UsageCountsOrders` follows because a
call commits at most once (`Spent`), so that a commit adds one new element to the finite
set of orders with the coupon.

For returns no status can be trusted, as each is written by id. What can is what only
grows: a complete inspection stays complete, a refund the gateway has processed stays
processed, a reference once stored belongs to its case (lemma `Grow`). `GoodCall` says
of every call in flight which of these facts it has seen, `GoodRow` which of them a row
attests, `GoodGateway` that what the gateway was asked for belongs to an inspected
case; a call's fact is still true when it commits because facts only grow
(`CallsStayGood`). The refinement maps `inspected`, `paid` and `closed` to those facts.

`NoEventSwallowed` and `RefundsAreDue` hold while calls do not overlap, crashes and late
events included, and need three more layers on top of that invariant. `SerialInv`: at most
one call is at work (`OneCall`); what it has read is still so; a case has as many rows,
refunds and closes as its status says (`RefundRow`, `TakenOnce`); and what was returned,
owed and repaid, three sums over the cases, stay one below the other (`Covered`).
`EventInv`: the gateway only tells of refunds it has taken, and a reference that a call
still holds is stored nowhere (`Unstored`), so the one event that can come too early is the
one that `early` names. `CoverInv`: a refund that was never booked has moved no money, and a
close that has seen the grand total covered will still find it covered, because money in
hand stays there. The refunds of resolved slices are a constant part of every one of these
sums (`SlicesStay`).

**Sums.** `FiniteSums` is what makes the properties about all calls, items or rows
provable. The sum over a set is defined by a recursive function in the community modules,
and induction over finite sets is out of reach, because the library's theorem takes a
predicate as its parameter. The lemmas go round it: were a statement false of some finite
set, it would be false of one without a proper subset of which it is false
(`MinimalSet`, from the well-foundedness of cardinalities), and a step from that subset
refutes it. From `SumAdd`, `SumRemove`, `SumSame` and `SumMonotone` the proofs only ever
use one step at a time: a commit takes from the shelf what it adds to the order
(`StockConserved`), a batch adds an item to its total (`TotalOfItems`), a decision adds
a review to the published ones (`SummaryAgrees`). `SumLinear`, `SumAtMost`, `SumDisjoint`
and `SumParts` are what the split among sellers needs.

For settlements `SettledIsPaid` and `BooksBalance` are inductive together with what
calls in flight know (`GoodCall`): the amounts of a call add up to no less than zero,
they fit the ledger unless the payable is in `raced`, and an advance is along
`Settlement_Next`. That a payable is in one batch is carried by the unique constraint
(`NotBatched`) and not by any read. `SettledInFull` adds what is left of a payable after its
returns (`LeftOver`): the commission is rounded once for the sale and once for each return,
so what is left exceeds the net of the goods not yet returned by at most half a paisa for
each, whatever the rate. The invariant is that inequality multiplied out (`Left`), so that
no division is left in it, and a debit adds one such bound to it.

For the outbox `PassesAreGood` says that what a pass has read of a row never exceeds what
was sent, whatever other passes write: a mark writes `seen + 1` after one more send.
While no pass overlaps and none dies (`Alone`), the one pass there is also has exact
reads, and every send but the one in hand is counted.

For the services of a customer the invariants say what a call in flight knows while the
history variable of its service is FALSE, and how many rows there can be. A refresh that has
closed its session holds the only right to open the next one (`OneRefreshPerLogin`). A call
that is about to clear or give a default has seen the others (`AddressCalls`). A call on the
cart knows which cart is active and how much is in it, a merge in addition what the guest's
cart still holds (`CartCalls`, `Asked`). A moderation knows the review it is about and that
the aggregate it will write leaves nothing out (`ReviewCalls`, `Approved`).

`MoneyAddsUp` is arithmetic rather than concurrency, and free of division: how far a share
is from its exact part is multiplied by the subtotal (`Off`). Rounded shares are off by at
most half a subtotal (`MoneyNearest`), and all shares together by nothing, because the last
seller takes what is left and the lines of the sellers are all the lines (`OffSum`,
`WorthBySeller`); so the last share is off by what the others are, with the sign turned
(`LastOff`, `OffBound`), and some of the sellers never have much more than their part
(`SharesBound`). The invariant of the refunds (`Charged`) keeps slices and goods apart: of
the goods, what was refunded is the part of what was sent back, to a paisa for each line of
a refund. `ChargedAtFirst` shows it as long as only slices were refunded, `ChargedOnce`
through one more return, whose lines are rounded one by one and summed, and
`ChargedForTheRest` draws both halves of the property from it: what the buyer is charged, and
by how much the cap can refuse. A return has no more lines than the order, which is where
`Len(basket)` in the second half comes from.

For sellers, products and replacements it is the same as for the customer's services:
`KnowsSeller`, `KnowsProduct` and `KnowsTask` are what a call relies on when it writes. That
a product on sale comes from a vetted seller joins two services: `vetted` only changes away
from "no", so a product that found its seller vetted never loses that, whatever the status
does afterwards. `OneDelivery` is a count: while no call writes over what another has
changed, open assignments, shipments and fees are sets of at most one element (`Couriers`,
`Shipments`, `Fees`), and the clients, which stand beside these in `Platform`, leave them
alone.

For the pages the invariant has the same shape five times: types of what is shown, asked
and answered that hold always, and under `sure` what each of the calls under way is still
good for. An answer is not good because it is recent. It is good because whatever could
have changed the row since it was drawn up is a call too, and would have crossed this one
(`Cross`). So while a page is sure no two of its calls cross, a write is alone, an answered
read says what is held, and what is shown is held, or is about to be replaced by an answer
that is under way, or was written by a call whose answer is under way.

* Checkout (`CheckoutPageInv`). `PlacingAsShown` carries `ChargedAsShown`: a placement that
  was clicked on a sure page is the only write there is, and its cart still costs what it
  showed. It is sure only while `applied` is the code in the field: a preview that is
  refused leaves none, and one that was given was of a code that trimming leaves as it is.
  `OrdersOfCarts` is what the server adds: a cart that is ordered stops being active.
  `AskedOnPage` says which calls a page can have sent, since a late answer only counts on
  the page that asked.
* Order page (`OrderPageInv`). Status, payment, OTP and panel are patched by different
  answers, so `OrderIsCurrent` says of each who still owes it one. Two need more: the status
  stays PLACED on the page after a verified OTP, which `StatusIsCurrent` names as the one
  exception, and the panel is on the first open case (`PanelIsRight`).
* Shop (`ShopPageInv`). List, hearts and bell are sure each on its own. A read is answered
  for all of them or for one, and an answer that takes a row off a list, a heart or an unread
  notice is current before and after it is applied, which `ListIsCurrent` and
  `HeartsAreCurrent` say by applying it. The bell counts no less than is unread.
* Console (`BoardInv`). A step crosses everything, so on a sure board it is alone
  (`ActIsAlone`); a list that comes is that of the filter asked for last. That nothing is
  offered that the service refuses is a fact about two tables: the rows of a board only have
  states of their service (`States`, kept by `ResultsAreStates`), and on each of the
  thirteen boards each button on such a row is a step of the service (`ButtonsAreTaken`).
* Landing shop (`LandingInv`). No calls, but overlays over each other: what the drawer and
  the checkout were opened for is still in the bag (`OpenedFor`), so both totals are of the
  same lines; boxes in the bag and in orders have distinct ids (`BoxesSoldOnce`). Subtotals
  are sums over the positions of the lines, to which `FiniteSums` applies; `Kept`, which
  takes lines away, is a recursive function over positions, because `SelectSeq` takes an
  operator and no prover can expand it.

The invariant of the reports, `ReportFits`, is of another kind. That days, categories and
sellers add up is no matter of how the tables came about: the lines of the orders in
question fall into parts by day, by key or by seller, each line into exactly one
(`FallsInto`), and units and line totals go with the parts (`LinesInParts`, `CountInParts`).
Grand totals are of slices and not of lines: an order's is the sum over its slices
(`SlicesTotal`, from `BillAssumption`), so that they fall into parts by order and by seller
(`SellersGmv`); for the days, orders are parted directly. What has to be shown is that the
filters divide them so: a day lies in the window because dividing by two keeps the order of
instants, and a seller's orders are those of the platform that have a slice of it. A ranking
is chosen among all sequences of the rows in order, so its totals need that there is one
(`RankingExists`, by the least row of a smallest set without) and that it holds every row
once (`RankingIs`). Reconciliation and the lists do depend on the tables, and there the
invariant says, of each order and each slice, which columns are set together: a fee, and the
payables of all slices but the rejected ones, with the delivery; a return with a delivered
order; a batch with its date; a net with its goods and adjustments.

`Platform` follows one part at a time, so `PagesInv` is the conjunction of the six, each
under its `part`, and each part's steps leave the variables of the rest alone.

**Only model-checked.** Everything about COD beyond the five invariants above (the
unconditional write of the OTP confirmation refutes `ForwardOnly`, so a COD order
does not implement `OrderContract` and `DeliveryPaysAccepted` is not claimed for
it). Liveness
(`EveryEventAnswered`, `EveryCallEnds`, `EveryRowEnds`): fairness and ENABLED are out of
reach too, as is every RECURSIVE operator, of which the modules have none.

## 5. Plan

Done, in this order: the order (`OrderContract`, `OrderLifecycle`), the last mile
(`CourierDelivery`), the event log (`PaymentWebhook`), checkouts (`CheckoutContract`,
`Checkout`), returns and refunds (`RefundContract`, `ReturnCases`), settlements
(`Settlement`), replacements (`ReplacementCourier`), the outbox (`NotificationOutbox`),
sellers and products (`Supply`), the customer's services and the money of an order
(`Customer`), the storefront, the console, the landing shop and the reports (`Platform`),
each with its run, and the proofs of section 4.

Left, most important first:

1. The partner registry and the partner's status in `CourierDelivery`, and the booking of
   the shipment there, which `ReplacementCourier` shows for replacements.
2. Weaker conditions: `overlapped` of `ReturnCases` could be narrowed to calls about the
   same case, as `stale` and `raced` are elsewhere; `sure` of the clients, to calls about
   the same row.
3. The clients against the detailed services in place of atomic ones: what a page shows
   while two handlers race on the server.

## 6. Not modelled

Courier tracking asks the provider and stores nothing. Validation, throttling, response
envelopes, configuration and health have no state of the marketplace. Scripts are
bootstrap and end-to-end drivers. Signatures and the gateways' HTTP are taken as given.

Within modelled components: the search and the sort orders of the catalogue; the return
window, and evidence beside the page that uploads it (`returns.service`); KYC documents,
their verification and sellers created by staff (`seller-onboarding.service`); partners
and their status (`delivery.service`); passwords and account status (`auth.service`); the
texts of everything.

Of the applications: all layout and forms that only collect fields (profile, address,
registration, product draft, seller's application); the storefront's list of orders and
the reviews on its product page, which load and show like the pages that are modelled; the
console's sign-in, summaries beside its lists, audit log and the charts of
`Analytics.jsx`; the landing page's sections of text.

Two weaknesses seen while reading are in no property, as there is no rule of the code to
hold them against: cancelling a PAID order (`order.service.ts:260`) gives the stock back
and leaves the captured money without a refund row, and wrong OTPs are counted from a
read (`cod.service.ts:88`), so that concurrent guesses count once.
