-------------------------- MODULE OrderRefinement --------------------------
(***************************************************************************)
(* The order transactions against the reservation ledger, and the           *)
(* correctness properties of the order life cycle.                          *)
(***************************************************************************)
EXTENDS OrderTx

\* An order holds its cart from its insert until a release or a deletion gives
\* it back; the goods of an order deleted after shipping stay sold.
ClaimOf(row) ==
    IF row.status = "NONE" THEN "none"
    ELSE IF row.status \in Released \/ (~row.live /\ row.status \in HoldingStock)
         THEN "freed"
    ELSE "held"

Ledger == INSTANCE ReservationLedger
            WITH claim <- [ o \in Orders |-> ClaimOf(order[o]) ]

\* The transactions of create, cancel and expire take and give back whole carts
\* atomically and once, whatever the interleaving of their statements.
LedgerSpec == Ledger!LedgerSpec

\* No unit is lost or sold twice (see ReservationLedger).
Conservation == Ledger!Conservation

\* usageCount is the number of orders that hold a use of the coupon.
CouponExact == Ledger!CouponExact

\* create's guarded decrement keeps committed stock from going below zero.
StockNonNegative == \A v \in Variants : stock[v] >= 0

\* What an open create call has decremented is still on the shelf for it when it
\* commits: nobody else can take the units its guard has seen.
ReservedCovered ==
    \A p \in Procs : tx[p].op = "create" =>
        \A v \in tx[p].done : stock[v] >= Qty[tx[p].o][v]

\* The guarded increment keeps usageCount within usageLimit, and the guarded
\* decrement keeps it from going below zero.
CouponWithinLimit == used \in 0 .. UsageLimit

\* An ONLINE order that was cancelled or has expired was not paid: the release
\* takes only rows that are still PENDING when it holds their lock.
ReleasedIsUnpaid ==
    \A o \in Orders \ Cod : order[o].status \in Released => order[o].payment = "PENDING"

\* Status PAID is never written without paymentStatus PAID, and a refund, a
\* collection or a late admin update never separates the two.
PaidIsCollected ==
    \A o \in Orders : order[o].status = "PAID" => order[o].payment = "PAID"

\* At most one order exists for an idempotency key.
OneOrderPerKey ==
    \A o, q \in Orders : o # q /\ order[o].live /\ order[q].live
                         => RequestKey[o] # RequestKey[q]

\* ARCHITECTURE.md: status transitions are enforced by assertTransition, so that
\* an order moves only along allowedTransitions.
LifecycleRespected ==
    [][ \A o \in Orders : order[o].live /\ order'[o].live =>
            TransitionAllowed(order[o].status, order'[o].status) ]_order

\* A customer never holds more than usagePerCustomer uses of the coupon.
PerCustomerLimit ==
    \A o \in Orders : CustomerOf[o] # Guest => Cardinality(CustomerUses(o)) <= UsagePerCustomer

-----------------------------------------------------------------------------
(* Expiry, under the fairness of the deployment: the external cron keeps     *)
(* calling expire-reservations, PostgreSQL and Prisma end every transaction  *)
(* (commit, or abort after the transaction timeout), and a statement that is *)
(* tried again and again is not rolled back every single time.               *)

CronFairness ==
    /\ \A o \in Orders : SF_vars(\E p \in Procs : Expire(p, o))
    /\ \A v \in Variants : SF_vars(\E p \in Procs : Restock(p, v))
    /\ SF_vars(\E p \in Procs : Unredeem(p)) /\ SF_vars(\E p \in Procs : Commit(p))
    /\ \A p \in Procs : WF_vars(Abort(p))

\* A reservation whose thirty minutes have passed does not stay PENDING: the
\* order is paid, released or deleted in the end.
LapsedIsResolved ==
    \A o \in Orders : o \in lapsed ~> ~(order[o].live /\ order[o].status = "PENDING")
=============================================================================
