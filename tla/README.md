# A verification project for the Rive backend

The Rive backend is a NestJS application over PostgreSQL (through Prisma) that sells fashion
items: a catalogue with stock per variant, checkout with coupons, cash on delivery or card
payment through Paymob, an admin panel, and an AI agent that receives events and calls back.
This directory holds TLA+ modules that model the parts of it that change shared state, TLC
configurations that check them on small instances, and TLAPS proofs of the main properties for
instances of any size.

Paths below are relative to `src/` in the backend (`orders.service.ts` is
`src/orders/orders.service.ts`, and so on).

## 1. The system

### Components

| component | state it keeps | operations that change it | talks to |
|---|---|---|---|
| orders (`orders/`) | `Order` (status, paymentStatus, reservationExpiresAt, idempotencyKey), `OrderItem` | create, cancel, transition, mark paid, collect COD, expire, delete | variants, coupons, outbox, audit log |
| order tracking (`orders/`) | a Map of recent calls, in the memory of each process | `trackOrder` | orders |
| coupons (`coupons/`) | `usageCount`, `usageLimit`, `usagePerCustomer`, terms | CRUD, `validateCoupon`; reserved and returned by orders | orders |
| payment (`payment/`) | `ProcessedPaymobEvent`, `paymentSessionId`, `paymobTransactionId` | checkout session, webhook, reconcile, refund | Paymob, orders, outbox |
| outbox (`agent-events/`) | `AgentOutbox` (status, attempts, nextTryAt) | enqueue, claim, deliver, resend, cleanup | the AI agent |
| agent API (`agent-api/`) | `AgentRequest` | writes under an idempotency key | orders, notes |
| sessions (`auth/`) | `User`, `RefreshToken`, reset tokens | login, refresh, logout, change and reset of the password, block | everything behind a guard |
| lockout, two-factor, verification (`auth/`) | counters, secret, recovery codes, verification token | login, enable, disable, regenerate, verify | sessions |
| staff and roles (`auth/`) | `User.roleId`, `Role`, `RolePermission` | create, update and delete users and roles, catalog sync at start | guards |
| customers (`customers/`) | personal data, `DataDeletionRequest` | erase, approve or reject a request, block | every record that names a customer |
| products (`products/`) | `ProductVariant` (stock, price, `updatedAt`), `Product`, images, `PriceHistory` | CRUD; `updateVariant` under an optimistic lock; reorder | orders, categories |
| catalogue content (`categories/`, `collections/`, ...) | trees, links, pages, banners, reviews | CRUD, removal of a category by cascade | products, audit log |
| integrations (`integrations/`) | bulk stock and price writes; messages of WhatsApp and Meta | Excel import, webhooks, replies | products, platforms |
| automation (`automation/`) | `PendingApproval`, workflows | approve, reject, toggle, trust | audit log |
| settings (`settings/`, `shipping-zones/`) | `SiteSettings`, `SystemSettings`, zones | maintenance mode, fees | guards, checkout |
| back office (`notes/`, `suppliers/`, `expenses/`, ...) | independent rows | CRUD with an audit entry | audit log |
| seed data (`prisma/`) | roles, admin account, demo rows | a run at deployment | what the owner edits |
| the rest | - | reports, exports, health, mail, uploads | - |

Interaction is by shared rows and database transactions. Several application instances run at
once (ARCHITECTURE.md speaks of expiry "across active instances"), every request is its own chain
of `await`s, and an external scheduler calls the internal endpoints. There is no lock manager
besides PostgreSQL's row locks at READ COMMITTED.

### What is hard

* **Interleaving.** Two transactions see each other's effects statement by statement. A guard is
  safe only if it is in the WHERE of the UPDATE that takes the row lock; a guard on an earlier
  plain read may be stale.
* **Atomicity across statements.** A reservation touches several variants, a coupon and the order.
* **Failure.** An exception, a deadlock victim or the transaction timeout rolls back; the process
  may stop between a call to Paymob and the update that records it.
* **Unreliable delivery.** Webhooks are repeated, reordered and late; cron calls overlap.
* **Time.** Reservations lapse after thirty minutes, leases after five, and nobody but the cron
  job notices.

`PROJECT.json` lists every hazard at its line, with the properties that would catch it.

### What makes each component correct

* orders and stock: stock never goes below zero; every unit is on the shelf or held by exactly one
  order; a release gives everything back exactly once; statuses move along the transition table;
  a paid order is never released; every lapsed reservation is resolved.
* coupons: `usageCount` stays within the limit and equals the number of orders that hold a use;
  no customer exceeds `usagePerCustomer`.
* payment: one Paymob transaction acts once; money taken is tied to an order that ships or is
  refunded; a refund happens once.
* outbox: an event exists if its change committed and it could be inserted; one worker sends it at
  a time while its lease lasts; it is delivered or reported as failed in the end; within its lease
  a delivered event stays delivered.
* sessions: a refresh token is used once; after a revocation no session of the user survives.
* accounts: a refused attempt counts; a one-time code opens one login and nobody who needs codes is
  without them; the newest verification link works; an erased customer is named nowhere.
* administration: at least one active full admin; a release that renames permissions takes none
  away; an approval is decided once; a write with an idempotency key runs once, until
  the clean-up of the week-old keys.
* the shop: an edit replaces only what its author saw; a product that can be bought has a category;
  quoted and charged amounts agree until the coupon changes; both rows of maintenance mode agree; a
  limit counts every call.
* records: an audit log tells what happened; a message is stored once, if it is read at all; a later
  seed run leaves the owner's changes alone.

## 2. Modules

Orders, payment and outbox:

| module | what it is |
|---|---|
| `OrderStatus` | statuses, transition table, status sets of the guarded updates |
| `OrderTx` | the nine order operations as interleaved transactions |
| `ReservationLedger` | abstract: an order takes its whole cart and coupon use in one step, gives it back once |
| `OrderRefinement` | the refinement mapping, the properties, the fairness of expiry |
| `AgentOutbox` | the outbox table, its workers, its properties and fairness |
| `OrderEvents` | composition: an order's change and its outbox row commit together; expiry and dispatch under fairness |
| `PaymobPayments` | checkout sessions, webhooks, refunds and reconciliation, with the gateway and what the order service does to the row meanwhile |
| `Storefront` | coupon terms, shipping, fees: what `validateCoupon` quotes and `create` charges |
| `OrderTracking` | the rate limit of `trackOrder` |

Accounts:

| module | what it is |
|---|---|
| `Sessions` | the password and the refresh tokens of an account |
| `LoginLockout` | `failedLoginAttempts` and `lockedUntil` |
| `TwoFactor` | switching two-factor login on and off, recovery codes, time steps |
| `EmailVerification` | verification links |
| `StaffAccounts` | staff users, roles, who may edit whom |
| `PermissionSync` | the move from coarse permission keys to the catalog, by instances that start together and beside seed runs |
| `Erasure` | personal data of a customer, deletion requests, the orders in the way |

The shop and its back office:

| module | what it is |
|---|---|
| `AgentRequests` | idempotency keys of the agent's writes |
| `Approvals` | pending approvals and workflow switches |
| `Catalogue` | categories and products, removal, links, orders that refer to a product |
| `VariantEdits` | `updateVariant`, stock moves of orders, imports, price history |
| `ProductEdits` | `update`, `reorder`, images of products |
| `StoreSettings` | maintenance mode in two rows |
| `Inbox` | messages of WhatsApp, Facebook and Instagram, replies |
| `BackOffice` | ten services that write one row and one audit entry |
| `SeedRun` | first and later runs of the seed against the owner's changes |

Instances and proofs:

| module | what it is |
|---|---|
| `MCOrders`, `MCEvents`, `MCOutbox`, `MCPayments`, `MCAccounts`, `MCStore` | values of the constants for TLC; the last two run several modules side by side |
| `OrderTxProofs` | safety of `OrderTx` |
| `ReservationLedgerProofs` | the conservation laws of the ledger |
| `OrderLedgerProofs` | `OrderTx` implements the ledger, and what follows |
| `AgentOutboxProofs` | what holds of events that their lease covers, for batches of any size |
| `PaymobPaymentsProofs` | one session, one verdict per transaction, nothing to repair |
| `SessionsProofs` | one live token per session, purged sessions stay out |
| `AccountProofs` | lockout, two-factor codes, verification links, erasure, the migration of permissions, and all of them with the sessions (`MCAccounts`) |
| `StoreProofs` | approvals, idempotency keys, maintenance mode, catalogue, inbox, variants, products, amounts, back office, seed, and their composition (`MCStore`) |

### How `OrderTx` corresponds to the code

A process `p` runs one service call at a time; `tx[p]` is its open transaction: the operation, the
next statement (`pc`), the order, the row it has written (`row`), the variants (`done`) and the
coupon (`coup`) it has updated. Committed rows are `order`, `stock` and `used`. Following
PostgreSQL at READ COMMITTED:

* a plain read sees the committed value and takes no lock (`CancelBegin`, `TransitionBegin`,
  `ReadForPayment`, `CountUses`, `DeleteBegin`, `FindItems`);
* an UPDATE waits for the row lock (`RowFree`, `VariantFree`, `CouponFree`), evaluates its WHERE
  on the latest committed row and keeps the lock to the end;
* the effects appear at `Commit`; `Abort` drops them at any point. It stands for exceptions,
  failed guards, deadlock victims, timeouts and crashes.

| operation | statements in the model |
|---|---|
| `create` | `CreateBegin`, `Reserve` per item, `CountUses`, `Redeem`, `Insert`, `Commit` |
| `cancelByOrderNumber` | `CancelBegin` (read), `Flip` (guarded update), `Unredeem`, `Restock` per item, `Commit` |
| `expireOrder`, failed-payment webhook | `Expire`, `PaymentFailed` (guarded update), then as above |
| `transitionStatus` | `TransitionBegin`, then `Flip`, `TransitionToPaid` or `Advance` |
| `markPaid` | `MarkPaidBegin`, `MarkPaid` |
| `markCodCollected` | `CollectBegin`, `Collect` |
| `refundTransaction` | `RefundBegin` (checks, Paymob), `Refund` |
| `deleteOrderPermanently` | `DeleteBegin`, `FindItems`, `Restock`, `Unredeem`, `Drop` |

Abstractions: prices, addresses, customers' records, audit entries and outbox events are left out
of these transactions; there is one coupon; a cart has one line per variant with a positive
quantity (the code rejects a repeated variant); items are updated in any order, where `create`
follows the cart and a release starts all its updates together; a refund needs a Paymob
transaction, which is approximated by the order being ONLINE and paid; variants are never
archived; `reservationExpiresAt` is a flag that is set (`resv`) and one that says it has passed
(`lapsed`). An order id is inserted at most once and remains, with `live = FALSE`, after its
DELETE: ids are random and never reused.

### The ledger

`ReservationLedger` has no transactions: `Take(o)` moves a whole cart, `GiveBack(o)` returns it.
`ClaimOf` maps an order row to what the order has taken: nothing before the insert, its cart while
it is live and not released (or shipped and deleted later: those goods are sold), given back
otherwise. Only `Commit` changes the mapped state; every other step is a stutter. The conservation
laws (`Conservation`, `CouponExact`) are stated on the ledger and carried over by the refinement.
`Conservation` counts units as a set of pairs of order and number, so that it needs no sum.

### How `AgentOutbox` corresponds to the code

`row[e]` is the row of an event: status, attempts, and whether `nextTryAt` has passed. A worker is one
`dispatchDue` call, of the cron endpoint (50 rows) or of a `kick` (10 rows, and it goes on after
the three seconds that the request waits for it). `worker[w]` is what the call has in memory: the
rows it claimed and has not recorded, the open request and its result, and the attempts it
read when it claimed.

| code | actions |
|---|---|
| `enqueueInTx`, at the commit of the change | `Enqueue` |
| `claimDue` | `Claim`: one statement, the oldest due rows up to the limit |
| `deliver` | `Post`, `Fetched`, `Record` (or `RefuseOversized`) |
| a crash, or an update that throws | `Stop`: the rest of the batch stays claimed |
| `nextTryAt` passes | `RetryDue` for a retry, `LeaseEnds` for a claimed row |
| `resend`, `cleanup` | `Resend`, `Cleanup` |

Time is counted in requests: `LeaseCovers` requests of ten seconds each fit into the lease of five
minutes (29 of them, with room for their updates), so a lease ends only if its worker is gone or
has recorded that many rows. A batch may be larger, as the 50 rows of the cron job are: its worker
goes on after the lease, and the rows it has not sent by then are entered in `late`, a history of the
events that another worker may claim and send meanwhile. The model assumes that database statements
are quick and that the process is not paused; a pause longer than the lease has the effect of a
larger batch. `Fetched` lets an error hide a request that the agent has accepted: delivery is at least
once, and the agent has the event id to tell repetitions. The kill switch is on; payloads,
signatures and the age that `cleanup` asks for are left out (any settled row may be old enough).

### How `PaymobPayments` corresponds to the code

`call[c]` is one request: its next step, the order, the intention or transaction it is about, and
the row that its transaction has written but not committed (which locks the row, as in `OrderTx`).
`order[o]` is the row of an ONLINE order (status, payment status, session, transaction); `processed`
is the table `ProcessedPaymobEvent`, `events` counts per transaction the payment events in the outbox and
those that were dropped because their insert failed under its SAVEPOINT (`enqueueInTx`),
`audited` is what reconciliation writes into the audit log. `bound`, `txn` and `sent` belong to the
gateway: the order of each intention, the state of each payment attempt, and the webhooks sent, which
stay in the set, so that one may be received late, repeatedly, in any order or never.

| code | actions |
|---|---|
| `createCheckoutSession` | `CheckoutBegin` (`expireOrder`), then `ReuseSession`, or `ReadForCheckout`, `CreateIntention` (the gateway), `SaveSession` (the guarded update) |
| `handleWebhook`, success | `Webhook` (INSERT of the processed event), `ReadForPayment`, `MarkPaid`, `Link`, `Commit` |
| `handleWebhook`, otherwise | `Webhook`, `CancelPending`, `Commit` |
| `refundTransaction` | `ReadForRefund`, `PostRefund` (the gateway), `RecordRefund` |
| `reconcilePayments`, per order | `ReportUnlinked`, or `ReadForReconcile`, `Reconcile` |
| cancel, expire, `transitionStatus` | `Release`; `Transition`, then `MarkPaid` or `Advance` |
| exception, rollback, refusal by the gateway, crash | `Abort` |
| the customer and the gateway | `Attempt`, `Settle` |

The INSERT of the processed event waits for another open transaction that has inserted the same
id, and fails if that one commits (`NewEvent`). Amounts, currencies and references are taken to
match, and the signature of a webhook to be right: a mismatch ends the code's path with an exception or a
manual-review entry. The gateway captures at most one attempt of an intention and refuses to
refund more than it captured (`Parts` refunds). Orders paid on delivery are turned away by the first
lines of each function and are not in the module.

An audit looks back `daysBack` days, at most thirty: `lapsed` has the orders that are older
(`LeaveWindow`), and `Selected` leaves them out. How long the window is does not matter to the model, only that
an order leaves it at some moment.

Two things differ from the code on purpose. The branches of `reconcilePayments` that repair an order are
not actions: they need a transaction linked to an order that is PENDING, CANCELLED or EXPIRED, and
`NothingToRepair` says that reconciliation never reads such a row; it is checked and proved. And the
list of orders is not cut at 200: the model's audit may ask for any order.

### How `OrderEvents` corresponds to the code

`OrderEvents` extends the order transactions and the outbox. `CommitAndReport` is `Commit` together
with the `Enqueue` of the transaction's event, since `enqueueInTx` inserts the row through the same
transaction; a rolled-back call leaves neither. The insert is made under a SAVEPOINT: if it fails,
the change is committed without the event, which `dropped` records and nothing in the code repairs.
One event stands for all that a transaction enqueues, and events that the changes of status after
PENDING would add are not in its run. A row may be too large for the agent and is then recorded as
failed without being sent.

### How `Storefront` and `OrderTracking` correspond to the code

Amounts are integers in piasters, as in the code's rounding to two decimals; a percentage is
computed in hundredths of a piaster and rounded half up, once for the quote and once for the order.
`ReadSite`, `ReadCoupon` and `PlaceOrder` are the reads of one `create` and its transaction, with
edits of the coupon, the settings and the zone in between. `expired` says that the coupon's
`expiresAt` is over (`CouponExpires`; an edit or a new coupon may set a date that is over or not).
Both functions refuse an expired coupon; only `create` counts the orders of the customer, which `OrderTx` models
(`CustomerMayUse`), so a quote says nothing about `usagePerCustomer`. `OrderTracking` keeps the Map of one
process: a restart empties it, and two processes each admit three calls per minute. Entries are
never removed from the Map, which costs memory and no call. The list of timestamps of an entry is a set: equal
ones are told apart by a number (`Stamp`), and the code asks for nothing but how many there are.

### How the account modules correspond to the code

Each keeps one account (`StaffAccounts`: all of them), and a request is a record with the next
statement and what it has read. A read and a later write by id are always two actions.

* `Sessions`. `Rotate` is the guarded `updateMany` (`revokedAt: null`), which locks the row until
  `RotateCommit`; `PurgeBegin` fixes the rows that a revoke-all statement sees, `Purged` waits for
  their locks. A login or a rotation that read before a purge and inserts after it is marked
  `raced`. That tokens expire by date and that a disabled user is refused are left out: both only
  take tokens away.
* `LoginLockout`. The counter is written back as it was read, plus one, and a lock starts at the
  threshold. Two refusals that overlap count once (`mixed`).
* `TwoFactor`. The reads of the user and of a code are one step. A set of ten recovery codes is
  represented by one. Logins that overlap can set the last time step back (`tangled`), and two
  regenerations that overlap can leave two sets of codes.
* `EmailVerification`. A link is found by its token and confirmed by the user's id.
* `StaffAccounts`. The permissions to create and to edit users are one. `deleteUser` has no route
  and is left out, as is `createPermission`. The run `Accounts` has one call at a time; with two in
  `StaffCalls` TLC finds the trace in which two full admins demote each other and none is left.
* `PermissionSync`. Its statements are separate steps of every instance, which may stop after each.
  `SeedKey` is the upsert of one key by a seed run, at any moment. A stop after the new keys exist
  and before they are granted, or a seed run that creates `reviews.view` before an instance reads the
  keys, loses the grants that depend on the split (`cutShort`): the next start takes it for done.
* `Erasure`. The erasing transaction changes the email of the user, a key, and therefore excludes
  inserts that refer to the row; it is one step. Calls that were authenticated before it may write
  after it (`pending`), and two decisions about one request may overlap (`overruled`).

### How the shop modules correspond to the code

* `AgentRequests`. Look-up, write and insert of the response are three steps; a second call under a
  key that overlaps the first runs again (`disturbed`), a retry of an answered one does not, until
  `ForgetKey`, the part of the outbox's clean-up that deletes keys a week old; `ran` counts the runs
  since then.
* `Approvals`. Read, check, update by id: two calls about one row may both decide (`crossed`).
* `Catalogue`. The raw DELETE of products and that of their category are one step: the transaction
  holds their locks. Foreign keys are guards; what breaks one rolls back.
* `VariantEdits`. The version is `updatedAt`; two writes are taken to be more than a millisecond
  apart, which is its resolution. Imports of Excel write without a version. `patchy` marks a price
  that changed without its history row.
* `ProductEdits`. A behaviour follows one topic, because update, reorder and images decide by no row
  in common; `reorder` gets a list of all products. Updates that overlap can leave the price
  history out of order (`spoilt`) and two primary images (`doubled`).
* `StoreSettings`. The two rows of maintenance mode are written one after the other; a stop in
  between makes the panel and the guard disagree (`torn`).
* `Inbox`. A payload is a sequence of entries, and the handlers read the first one only (of
  WhatsApp, its first change); the messages of the others are lost, and success is answered all the
  same. Echoes, receipts and Meta items without a sender are not messages, as the code skips them; a
  change of WhatsApp's that carries statuses is `Status`. A WhatsApp message is upserted by its id;
  a repeated payload of Meta does store a message again, so only the conversation is unique there.
  `FailHook` is an exception or a stop.
* `BackOffice`. Ten services differ in whether they look the row up, mark or delete it, and which
  operations write no audit entry (`Rules`); one service and one of its rows are followed.
* `SeedRun`. One row stands for each kind of data. What the owner edits *during* a first run is left
  out; a run may stop after every statement and a later one takes over. Edits of the role full_admin
  are in (`OwnerEdits`): every later run writes it anew, and the properties say so. The upserts of
  permissions, which are the same on every run, are `SeedKey` of `PermissionSync`.

The history variables in parentheses above mark the overlaps that the code does not guard against.
A property that is conditioned on one of them fails without the condition: the model contains the
race, the property says what holds apart from it, and the theorem about it (section 4) says
that nothing else breaks it. They are the places where a status or a version in the WHERE clause
would let the condition go.

### `MCAccounts` and `MCStore`

No service in them decides by a row that another one of them changes, other than what its module
contains. So a behaviour runs one of them (`area`), and the others stay as they began: the states
of the instances add up instead of multiplying, and a property of one module is checked in
all of its states. `MCStore` runs the orders (calls that do not overlap) and the outbox the same way.

## 3. Runs

| run | question | instance |
|---|---|---|
| `OrdersRaces` | what survives any interleaving of all nine operations? | 2 processes, 1 ONLINE and 1 COD order that compete for 1 unit, 1 coupon use; 2.8 M states |
| `OrdersReservations` | do the reservation operations implement the ledger? | 3 processes, 4 carts over 2 variants (one with two units, one a retry with the idempotency key of another), 1 coupon use |
| `OrderEvents` | is every lapsed reservation resolved, and every change of an order whose event was inserted delivered or listed as failed? | 2 processes, 1 order, 2 events (one too large), 2 workers, batches of 2, leases that cover 1 request, 1 retry, with fairness |
| `OrdersPaidAfterRelease` | is `assertTransition` enforced (ARCHITECTURE.md:89)? Violated | 2 processes, create, expire, pay |
| `OrdersDeleteRace` | does a deletion return only stock that is still held (orders.service.ts:1008)? Violated | 2 processes, create, cancel, delete |
| `OutboxDoubleSend` | do parallel workers never double-send (agent-events.service.ts:186)? Violated | batches of 2, lease of 1 request |
| `Payments` | what survives any two overlapping requests to the payment service on one order? | 2 calls, 1 order, 2 intentions, 2 attempts, 1 refund; 0.5 M states |
| `PaymentsAudits` | is a refund that was made and not recorded reported by an audit, while the order is in its window? | 2 calls, 1 intention, 1 attempt, with fairness |
| `PaymentsPending` | does `payment.failed` mean a declined transaction (docs/AGENT_EVENTS.md:42)? Violated | as `PaymentsAudits`, without fairness |
| `Accounts` | what do overlapping requests to the account services leave intact? | 7 areas, two overlapping calls each: 3 tokens, 2 passwords, a threshold of 3, 3 codes, 3 time steps, 2 staff and 1 staff call, 2 deletion requests; 1.1 M states |
| `Store` | what do the shop, its back office and long sequences of order calls leave intact? | 13 areas, two overlapping calls each; orders: 1 process, 3 orders, 2 variants, all operations; outbox: 2 workers, 2 events, batches of 2, lease of 1 request, no retries; agent API: 1 key |
| `PermissionsLost` | does nobody lose access when the permissions are split (permissions.service.ts:89)? Violated | the migration of `Accounts`, 1 instance and a seed run |

Some properties of `Accounts` and `Store` join those of several modules:

| property | parts |
|---|---|
| `SecretsHold` | `NoStepTwice` (two-factor), `NewestLinkWorks` (verification) |
| `ErasureStands` | `ErasedIsNameless`, `ErasedByDecision` |
| `LimitsHold` | `PerCustomerLimit` (coupons), `TrackingLimited` |
| `AnswersStand` | `DecisionStands` (approvals), `AnsweredRunsOnce` (agent), `SwitchesAgree` (maintenance), `TrailHolds` (audit log) |
| `ShelvesHold` | `LiveProductsStay` (catalogue), `PagesHold` (order of products, images, price history) |
| `QuotesAndAmounts` | `QuoteStands`, `AmountsHold` |
| `SeedingSparesOwner` | `OwnerDecides`, `FullAdminHoldsCatalog` |

**Bounds.** A process serves one call at a time and starts over, so the number of calls is
not bounded, only the number of orders and of calls that overlap. Every hazard listed for orders
needs two overlapping calls on one row; three are used where two carts and a retry have to meet.
The instances are tight on purpose: one unit for two carts, one coupon use for two orders, so that
every guard is decided by the race. The constraint `OneSurplusUnit` cuts behaviours in which
the deletion race has already given back a unit too many; the properties checked under it are
invariants and action properties, and every state with at most one surplus unit is
still explored. Symmetry is used over processes, tokens and requests in runs without liveness.

The payment runs have one order because no statement of the payment service touches two; two
attempts let a declined one come before or after a captured one, and two intentions let overlapping
checkouts create one each. Calls start over, so the number of webhooks received, sessions asked for and
audits is not bounded.

In `Accounts`, three tokens are a session, its rotation and a second rotation or session, which is
what reuse needs; a threshold of three lets refusals fall on both sides of a success; three codes
are an old set, a new one and one more of a request that overlaps. In `Store` the bounds that are
not numbers of calls or rows are `MostRuns`, `MostRows` (repeated effects of one key or message: two
are a violation already), `MostEdits` (one change by the owner, who makes it at any moment) and the
length of the clock in `OrderTracking`, which exceeds a window. The outbox there has batches of two
under a lease of one request, so that every second row of a batch may be late; a retry, which adds
only more of the same claims, is in `OrderEvents`. Two events are enough for a batch that overruns
its lease and a second worker that claims the rest.

**Fairness.** `OrderEventsSpec` assumes what the deployment provides. `CronFairness`: the workflow
`expire-reservations.yml` calls the endpoint every five minutes for ever, so an expiry that is
possible again and again is tried (strong fairness of `Expire`); every transaction ends, by
commit or by Prisma's transaction timeout (weak fairness of `Abort`); and one that is
tried again and again is not rolled back every time (strong fairness of its statements and
its commit). Without the last one the code could not promise anything: a database that rolls
back every transaction releases nothing. `DispatchFairness`: the cron job keeps dispatching, `fetch`
ends (it has a timeout), time passes, and workers which send a row again and again get to
record it once. `ResendsEnd`: resending ends. `claimDue` takes the oldest rows first, and an
administrator who sends old failed events again for ever would keep a younger event waiting; TLC
finds that behaviour when the assumption is dropped and there are more events than a batch holds.

For payments, `AuditFairness` assumes that administrators keep asking for audits of every order
(`audit = true`: the scheduled reconciliation looks only at orders that are still unpaid and never
sees a lost refund) as long as the order is in their window, that the gateway answers one of these
questions in the end, and that every call ends.

**What the violations of the order runs show.** `markPaidInTransaction` checks the transition on an unlocked
read and updates WHERE `paymentStatus <> PAID`. An expiry that commits in between leaves
`paymentStatus` PENDING, so the payment makes the row PAID after its stock and its coupon use
were given back. `deleteOrderPermanently` decides on an unlocked read that the order holds stock;
a cancellation that commits in between has returned it already, and the deletion returns it again.
Both need the status in the WHERE, or a `SELECT ... FOR UPDATE`. `usagePerCustomer` is counted
before any lock is taken and is checked and proved only for calls that do not overlap; two overlapping
checkouts of one customer can exceed it, if their carts share no variant (a shared one makes the
second wait for the first).

**What the outbox violation shows.** `FOR UPDATE SKIP LOCKED` separates two claims, not two sends:
the row locks are gone when the claiming statement ends. All rows of a batch share one lease of five
minutes, and 50 rows sent one after another with a timeout of ten seconds may take 500 seconds.
The rows at the end of the batch become due while the first worker still has them. The `Store` run
and the theorems say how far this goes: only rows that their lease did not cover are sent twice, or put back
after their delivery by a late result. A batch no larger than 29, as a `kick` of ten has, has none of them.

**What the payment violation shows.** The webhook handler asks for `success` and `pending = false`, and takes
everything else for a failure. A webhook that says that a transaction is still pending thus cancels
the order, enqueues `payment.failed` and uses up the transaction's id in `ProcessedPaymobEvent`; the webhook that
reports the capture afterwards is answered with "already processed". The documentation describes the
event as a declined charge. The fix is to leave pending transactions alone.

**What the permissions violation shows.** The start of the application grants the keys that were
split off a coarser meaning (`LEGACY_EXTRA_GRANTS`) only while `reviews.view` does not exist.
`seedDatabase` upserts the whole catalog on every run. When it runs on a database of an earlier
release before the application does, or when the application stops between the creation of the keys
and the grants, the split counts as done, and the roles are without the keys that were split off.
`AccessKept` says what holds all the same: every replacement of a coarse key, and nothing beyond
what the old keys amounted to. A row or a setting that records the migration would close it.

**What overlapping staff calls would show.** `ensureNotLastFullAdmin` counts the other active full
admins in one query and the update by id comes in another. Two full admins who demote or disable
each other at once count each other, and none is left, which the comment above the check means to
prevent (users.service.ts:187). The count and the update belong into one transaction that locks the
role.

**What the payment runs say besides.** A success that comes after an expiry or a cancellation is
refused, together with its processed event; the order then has a session and no transaction, so that
reconciliation reports an unlinked intention without asking what became of its attempts, and
nothing gives the money back. The code that would repair such orders is not reached (`NothingToRepair`):
a transaction is stored with an order only in the step that makes it PAID.

## 4. Proofs

`OrderTxProofs` proves, with no assumption but `OrderTxAssumption` (the types of the
constants) and for all nine operations running concurrently:

| theorem | property |
|---|---|
| `TypeSafety` | `TypeOK` |
| `NeverOversold` | `StockNonNegative` |
| `ReservationsCovered` | `ReservedCovered` |
| `CouponNeverOverspent` | `CouponWithinLimit` |
| `ReleaseSparesPaid` | `ReleasedIsUnpaid` |
| `PaidMeansCollected` | `PaidIsCollected` |
| `KeysAreUnique` | `OneOrderPerKey` |

None of these is inductive: they speak of committed rows, and what a commit does is decided by
statements executed long before. The inductive invariant `IInv` adds three things. `ShapeOK`: what a
step says of the operation (an `advance` step never writes PAID or a released status, a `collect`
is of a COD order). `CoveredOK`: what an open transaction relies on is still true (the stock
it decremented is there, the coupon use it took is below the limit, its order's row is not there
yet). `Apart`: two open transactions hold no row lock in common, which is why nobody can
invalidate `CoveredOK` by committing. `RowOK` is the part of the row properties that must hold
of rows not committed yet. There is one lemma per action, `CommitStep` being the real one; `NextIInv`
joins them.

`KeysAreUnique` needs an invariant of its own, `KeyInv`. The unique column is checked by the
insert and not by the commit, so uniqueness among committed rows says too little. `KeyInv` has it for
the committed rows and the open inserts together: an insert waits for, or fails on, a key that either of them
holds, and no update makes a row of a key that a deletion has freed.

`ReservationLedgerProofs` proves the laws of the ledger (`LedgerConserves`, `LedgerCountsCoupons`)
by counting: `UnitsAdd` and `UnitsRemove` say how the set of held units grows and shrinks.

`OrderLedgerProofs` proves that `OrderTx` implements the ledger, and what follows from it, under
either of two conditions. `ReservationCalls`: callers use only create, cancel, expire and the failed
payment, which may overlap on one order. `[]OrdersApart`: no two open calls are about the same
order, and then all nine operations may be used, and calls on different orders still compete for
stock, for the coupon and for keys.

| theorem | property | condition |
|---|---|---|
| `ReservationsImplementLedger`, `ApartImplementLedger` | `LedgerSpec` | the one, the other |
| `ReservationsConserve`, `ApartConserve` | `Conservation` | the one, the other |
| `ReservationsCountCoupons`, `ApartCountCoupons` | `CouponExact` | the one, the other |
| `ReservationsKeepPaths` | `LifecycleRespected` | the first |

Both conditions lead to one invariant, `CallInv`, with a clause per operation. A create that commits
has taken its whole cart and its coupon use; a release has returned them, and the committed row is
still one that it may release (`ReleaseOK`); a later change takes and returns nothing, and the
status that it will write is one the committed row may go to (`LaterOK`); a deletion has returned
what the committed row holds, all of it or nothing (`DeleteOK`). So a commit is `Take`, `GiveBack`
or a stutter of the ledger, and a step of `allowedTransitions` (`CommitPath`). What remains is that
no other commit changes the row a call has read (`OthersStand`). Under `ReservationCalls` the row
locks see to that: only a release that has flipped the row relies on it, and it holds the lock. The
other operations rely on an unlocked read, which is what `OrdersApart` makes safe. Some condition is
needed: `OrdersDeleteRace` and `OrdersPaidAfterRelease` are two calls on one order that break
`Conservation` and `LifecycleRespected`. What the theorems under `OrdersApart` add is that
contention between orders, for units, coupon uses and keys, never loses any of them: every such loss
takes two calls on one order. The life cycle and the limit per customer, which have no meaning
across orders and customers, are not proved under such a condition, since it would leave out the
overlaps that matter.

`AgentOutboxProofs` proves, for any number of events and workers:

| theorem | property |
|---|---|
| `OutboxTypeSafety` | `OutboxTypeOK` |
| `OneSenderAtATime` | `OnTimeIsSentOnce` |
| `DeliveriesAreFinal` | `OnTimeStaysDelivered` |

Nothing is assumed of the size of a batch. `LeaseInv` follows the rows that a worker holds: once it
has used up its lease, all of them are `late` (`Overrun`); any other row that is held is `sending`
under a lease that has not ended (`HeldOK`), and held by one worker (`Disjoint`). A lease ends only
if each worker that holds the row has used it up, so a row that becomes due while it is held is
`late`, and a claim never takes another one from its worker.

`PaymobPaymentsProofs` proves, with no assumption but `PaymentsAssumption` and for any number of
orders, calls, intentions and transactions:

| theorem | property |
|---|---|
| `PaymentTypeSafety` | `PaymentsTypeOK` |
| `OneSession` | `OneSessionPerOrder` |
| `ReportedOnce` | `OneVerdict` |
| `RepairIsUnreachable` | `NothingToRepair` |
| `RecordsOfTheGateway` | `RecordsAreBacked` |

There are three layers. `BaseInv` says that what calls, webhooks and transactions name exists, that
a row which is written and not committed keeps the session of the committed row, and that two open
transactions do not write one row; `OneSessionPerOrder` is inductive with these. `VerdictInv` says
that a call which handles a webhook owns its transaction until it commits; its event is inserted or
dropped at that moment. `SealedInv` is the argument of `RepairIsUnreachable`: a row with a
transaction is past the statuses that are repaired; a row written by an open transaction does not
take its order back to one of them; and what a call has decided on an older read (`Link`, `Advance`)
cannot either, because `AllowedTransitions` leads nowhere to PENDING and released statuses are
written only by updates that demand PENDING. `BackedInv`, for `RecordsOfTheGateway`, follows one
claim from the gateway into the row: the session of an order never changes and its intention is
captured once, so there is one captured transaction that an order can name; what a call has read of
it (a success, an amount that was refunded) is true when it reads, and stays true until it writes,
since the gateway takes neither back.

`SessionsProofs` proves, for any number of tokens, passwords and overlapping requests:

| theorem | property |
|---|---|
| `SessionsTypeSafety` | `SessionsTypeOK` |
| `SingleRotation` | `OneLiveTokenPerSession` |
| `RevokedStaysOut` | `PurgedStayOut` |

A rotation owns the row of its token from the guarded update to its commit, so a chain of tokens
never forks: a session has at most one token that is live or being rotated. A purge misses only
what commits after it began; such a token belongs to a request that read before, and is
marked: `SeenOrRaced` says that while a purge runs, whoever may add a token is marked and every other
live token is in the snapshot, and `LoginsCurrent` that a login which is not marked knows the password
of the account.

`AccountProofs` proves:

| theorem | property | argument |
|---|---|---|
| `LockoutIsExact` | `RefusalsAreCounted` | a lock begins with the counter at zero, and unless `mixed` a counted refusal finds the row as its attempt read it |
| `VerificationIsEarned` | `NewestLinkWorks` | a confirmation that goes on has found a link that reached the mailbox, and whatever it overwrites, the address is verified from then on |
| `ErasureIsFinal` | `ErasureStands` | after the erasure every call that may still write is `pending`; a decision in progress is of a request that is open, or is `overruled` |
| `NobodyIsLockedOut` | `EnabledHasCodes` | only the transaction that turns the factor off deletes codes and creates none; every other one that deletes creates before it commits |
| `CodesWorkOnce` | `NoStepTwice` | a login accepts only a step above the one it read; unless `tangled` that is the one it overwrites |
| `MigrationKeepsAccess` | `AccessKept` | see below |
| `SecretsAreKept` | `SecretsHold` | the composition: each service behaves as it does alone |
| `AccountsTyped` | `TypeOK` of `MCAccounts` | the composition |

`SyncInv`, for `MigrationKeepsAccess`, is about instances that migrate at once, stop anywhere and
are joined by seed runs: a role never holds more than its old keys and what they amount to; it holds
an old key or all that replaces it; and from the moment the new key is there until every split key
is granted, some instance has seen that the split is to be done and has not granted yet, or the
split was cut short (`SplitUnderWay`). An instance that drops old keys finds them all replaced. That
there is always an active full admin is not proved: it holds only for calls that do not overlap,
which is what the run `Accounts` has.

`StoreProofs` proves, for any number of overlapping calls:

| theorem | property | argument |
|---|---|---|
| `DecisionsAreFinal` | `DecisionStands` | unless `crossed`, the call about to decide is the only one and finds the row as it read it |
| `AnsweredKeysRunOnce` | `AnsweredRunsOnce` | unless `disturbed`, a key has at most one call, whose step tells how often it ran since its row was last cleaned up |
| `PanelTellsTruth` | `SwitchesAgree` | unless `torn`, one switch runs at most, and it writes to the second row what it wrote to the first |
| `ShelfSurvives` | `LiveProductsStay` | inductive with the types, once no move has the category itself for its target |
| `MessagesAreKept` | `KeptOnce` | every message of the entry that is read is stored or still to come, a chat message is written only under its conversation, and the one reply in progress was taken by the platform before it is recorded |
| `EditsAreInformed` | `NoBlindEdit` | a form whose `updatedAt` is the row's has seen the row; for the history see below |
| `QuotesStand` | `QuotesAndAmounts` | a use is taken by a guarded update, so a limit is passed only by lowering it (`ReadInTime`); the amounts add up by the arithmetic of rounding (`RoundedAmounts`) |
| `TrailIsTrue` | `TrailHolds` | entries written and still to come are no more than the writes made, and as many unless one was lost, per operation (`Told`); what was made tells the state of the row (`RowFollows`) |
| `OwnerIsSpared` | `SeedingSparesOwner` | a run that stands anywhere but in the first one has a tail of a later run's work left (`LaterLeft`), and none of that writes a row the owner has decided about |
| `PagesAreWhole` | `PagesHold` | see below |
| `AnswersAreKept` | `AnswersStand` | the composition of the services in `MCStore` |
| `TrackingIsLimited` | `TrackingLimited` | see below |
| `ShelvesAreKept` | `ShelvesHold` | the composition |
| `StoreTyped` | `StoreTypeOK` | the composition; the types of the inbox, the seed and the products need `HooksBounded`, `RunsTyped` and `FlagsTyped` besides |

Three of these invariants are worth a sentence. The price history of `VariantEdits` is written after
the price, in another statement, and the rows of overlapping calls come in any order. `Balance`
regards the changes whose row is still to come as steps of a walk over the prices, from the last row
of the history to the price of the variant: as many lead into a price as out of it, but for the two
ends. No row has to be the next one, and when none is left the ends meet. The reorders of
`ProductEdits` write row by row, wait for each other's locks and are rolled back at any point.
`Under` says that below what the open transactions have written lies one committed order: it is what
the rows show of a product that nobody has locked, and what its transaction remembers of one that is
locked. A transaction that commits has locked every product (`ListCovers`, from the injections of
finite sets), so that what lies below becomes its list. For the limit of `OrderTracking`, `NumberOK`
compares the Map with the history of calls that were let through: what the Map has dropped is older
than every window that a call to come falls into, so a window that takes one more stamp had only
recent ones. That a stamp is a new one (`Tidy`) makes the numbers of stamps numbers of calls, and
each failure or open call has one of its own.

The assumptions on the constants say what the code fixes: prices, tags and pictures exist
(`VariantAssumption`, `ProductAssumption`), coupons, zones and settings have amounts that are not
negative (`StorefrontAssumption`), a banner has a day to end after the one it starts (`BackOfficeAssumption`), and
in `permission-catalog.ts` a replacement is in the catalog and is not itself replaced
(`PermissionSyncAssumption`). TLC evaluates them in the runs.

Only model-checked:

* everything temporal beyond invariants, action properties and the refinement: `LapsedIsResolved`,
  `ChangesAreReported` and `LostRefundIsReported` need fairness and ENABLED, which the prover does not have;
* `PerCustomerLimit` (half of `LimitsHold`) and `AlwaysAFullAdmin`, which hold only for calls that do not overlap;
* `LifecycleRespected` for the operations beside the reservation ones, under the same restriction.

## 5. Not modelled

* Reports, exports, lists and health checks read and change nothing.
* Infrastructure: bootstrap, guards' plumbing, throttling by the framework, logging, HTTP.
* Registration and the edits of a profile: unique columns decide, in one statement.
* Addresses, wishlists and carts beyond the fact that they name a customer or a product: one row
  per visitor, written by that visitor alone.
* The sending of mail and the templates' wording; uploads to object storage.
* The parsing of sheets, feeds and requests, cryptography, and validation of input: functions
  without shared state whose detail no property here tells apart.
* `recordReward` of referrals and `deleteUser`, which nothing in the program calls.

`PROJECT.json` gives the reason per component.

## 6. Plan

1. *(done)* `OrderStatus`, `OrderTx`, `ReservationLedger`, `PaymobPayments`, `AgentOutbox`, their runs
   and proofs.
2. *(done)* Accounts: sessions, lockout, two-factor login, verification, staff, permissions, erasure.
3. *(done)* The shop: amounts, tracking, edits, catalogue, settings, inbox, approvals, agent
   requests, back office, seed; the composition of orders with their events.
4. *(done)* Theorems of `SessionsProofs`, `AccountProofs` and `StoreProofs`.
5. *(done)* Theorems: `RecordsAreBacked`, `OneOrderPerKey`, `AccessKept`; edits of variants
   and products, amounts, back office, seed; the compositions of accounts and of the store.
6. *(done)* The ledger for all operations, where calls on one order do not overlap.
7. Addresses and the mail queue, if they come to share state with anything else.
