------------------------------ MODULE OrderTx ------------------------------
(***************************************************************************)
(* OrdersService over PostgreSQL at READ COMMITTED.                         *)
(*                                                                          *)
(* A process runs one service call at a time as an interactive transaction: *)
(* plain reads see the committed rows and take no lock, an UPDATE, INSERT   *)
(* or DELETE waits for the row lock, evaluates its WHERE on the latest      *)
(* committed row and keeps the lock until the transaction ends.  Rows       *)
(* written by a transaction stay in its record tx[p] until Commit; Abort    *)
(* drops them.  One action is one statement that can wait or whose place    *)
(* in the interleaving matters.                                             *)
(***************************************************************************)
EXTENDS OrderStatus, Integers, FiniteSets

CONSTANTS
    Orders,            \* ids that a create call may insert, one call per id
    NoOrder,           \* the order of an idle process
    Variants,          \* product variants
    Procs,             \* concurrent service calls
    Qty,               \* Qty[o][v]: quantity of v in the cart of o
    Cod,               \* orders paid by cash on delivery; the others are ONLINE
    Couponed,          \* orders whose cart names the coupon
    RequestKey,        \* idempotencyKey of the create call
    CustomerOf,        \* userId of the create call
    Guest,             \* the userId of a guest checkout
    InitialStock,      \* stock of each variant before the first order
    UsageLimit,        \* Coupon.usageLimit
    UsagePerCustomer,  \* Coupon.usagePerCustomer
    Ops                \* the service operations that callers use

OpNames == { "create", "cancel", "expire", "payFailed", "transition", "pay",
             "collect", "refund", "delete" }

ASSUME OrderTxAssumption ==
    /\ NoOrder \notin Orders
    /\ Qty \in [Orders -> [Variants -> Nat]]
    /\ Cod \subseteq Orders
    /\ Couponed \subseteq Orders
    /\ InitialStock \in [Variants -> Nat]
    /\ UsageLimit \in Nat
    /\ UsagePerCustomer \in Nat
    /\ Ops \subseteq OpNames

VARIABLES
    order,   \* the committed Order rows
    lapsed,  \* the orders whose reservationExpiresAt has passed
    stock,   \* ProductVariant.stock
    used,    \* Coupon.usageCount
    tx       \* the transaction each process has open

vars == << order, lapsed, stock, used, tx >>

\* The order's items: one per variant, each with a positive quantity.
Items(o) == { v \in Variants : Qty[o][v] > 0 }

\* A row keeps its last values after the DELETE, with live = FALSE.
Rows == [ status : Statuses, payment : PaymentStatuses,
          resv : BOOLEAN, live : BOOLEAN ]

NoRow == [ status |-> "NONE", payment |-> "PENDING", resv |-> FALSE, live |-> FALSE ]

\* The data of tx.order.create; COD orders have no reservationExpiresAt.
NewRow(o) == [ status |-> "PENDING", payment |-> "PENDING",
               resv |-> o \notin Cod, live |-> TRUE ]

TxOps == { "idle", "create", "release", "pay", "advance", "collect", "refund", "delete" }

Steps == { "idle", "reserve", "count", "redeem", "insert", "flip", "unredeem",
           "items", "restock", "payread", "pay", "advance", "collect", "refund", "drop",
           "commit" }

Transactions ==
    [ op : TxOps, pc : Steps, o : Orders \cup {NoOrder}, to : Statuses,
      row  : Rows,              \* the Order row as written, NoRow if not written
      done : SUBSET Variants,   \* the variants whose stock it has updated
      coup : BOOLEAN ]          \* it has updated the coupon's usageCount

Begin(op, pc, o, to) == [ op |-> op, pc |-> pc, o |-> o, to |-> to, row |-> NoRow,
                          done |-> {}, coup |-> FALSE ]

IdleTx == Begin("idle", "idle", NoOrder, "NONE")

TypeOK ==
    /\ order \in [Orders -> Rows]
    /\ lapsed \in SUBSET Orders
    /\ stock \in [Variants -> Int]
    /\ used \in Int
    /\ tx \in [Procs -> Transactions]

Init ==
    /\ order = [ o \in Orders |-> NoRow ]
    /\ lapsed = {}
    /\ stock = InitialStock
    /\ used = 0
    /\ tx = [ p \in Procs |-> IdleTx ]

-----------------------------------------------------------------------------
(* Row locks.                                                              *)

RowFree(p, o)     == \A q \in Procs \ {p} : ~(tx[q].o = o /\ tx[q].row # NoRow)
VariantFree(p, v) == \A q \in Procs \ {p} : v \notin tx[q].done
CouponFree(p)     == \A q \in Procs \ {p} : ~tx[q].coup

\* No other open transaction has inserted the same idempotencyKey.
KeyFree(p, o) ==
    \A q \in Procs \ {p} : ~( /\ tx[q].op = "create"
                              /\ tx[q].row # NoRow
                              /\ RequestKey[tx[q].o] = RequestKey[o] )

\* Mutant: no unique index on idempotencyKey.
KeyTakenNever(o) == FALSE

\* Another order with the same idempotencyKey is committed.
KeyTaken(o) == \E o2 \in Orders : order[o2].live /\ RequestKey[o2] = RequestKey[o]

\* The statement leaves p holding the row with these new values.
WriteRow(p, row, pc) == tx' = [tx EXCEPT ![p].row = row, ![p].pc = pc]

DbUnchanged == UNCHANGED << order, lapsed, stock, used >>
Idle(p)     == tx[p].op = "idle"
At(p, pc)   == tx[p].pc = pc

-----------------------------------------------------------------------------
(* create                                                                  *)

CreateBegin(p, o) ==
    /\ "create" \in Ops /\ Idle(p)
    /\ order[o] = NoRow /\ \A q \in Procs : tx[q].o # o
    /\ ~KeyTaken(o)
    /\ tx' = [tx EXCEPT ![p] = Begin("create", "reserve", o, "PENDING")]
    /\ DbUnchanged

\* Mutant: the decrement without `stock: { gte: quantity }`.
InStockUnchecked(o, v) == TRUE

InStock(o, v) == stock[v] >= Qty[o][v]

\* updateMany({stock: {gte: quantity}}, decrement); in any order of the items, where
\* the code follows dto.items.
Reserve(p, v) ==
    LET o == tx[p].o  done == tx[p].done \cup {v} IN
    /\ At(p, "reserve") /\ v \in Items(o) \ tx[p].done
    /\ VariantFree(p, v) /\ InStock(o, v)
    /\ tx' = [tx EXCEPT ![p].done = done,
                        ![p].pc = IF done # Items(o) THEN "reserve"
                                  ELSE IF o \in Couponed THEN "count" ELSE "insert"]
    /\ DbUnchanged

\* The uses of the coupon that count against the customer of o.
CustomerUses(o) ==
    { o2 \in Couponed : /\ order[o2].live /\ order[o2].status \notin Released
                        /\ CustomerOf[o2] = CustomerOf[o] }

\* Mutant: `>` instead of `>=` against usagePerCustomer.
CustomerMayUseOneMore(o) ==
    CustomerOf[o] # Guest => Cardinality(CustomerUses(o)) <= UsagePerCustomer

CustomerMayUse(o) ==
    CustomerOf[o] # Guest => Cardinality(CustomerUses(o)) < UsagePerCustomer

CountUses(p) ==
    /\ At(p, "count") /\ CustomerMayUse(tx[p].o)
    /\ tx' = [tx EXCEPT ![p].pc = "redeem"]
    /\ DbUnchanged

\* Mutant: the increment without `usageCount: { lt: usageLimit }`.
UsesAlwaysLeft == TRUE

UsesLeft == used < UsageLimit

\* updateMany({usageCount: {lt: usageLimit}}, increment)
Redeem(p) ==
    /\ At(p, "redeem") /\ CouponFree(p) /\ UsesLeft
    /\ tx' = [tx EXCEPT ![p].coup = TRUE, ![p].pc = "insert"]
    /\ DbUnchanged

\* A taken key is P2002: the transaction rolls back and the existing order is returned.
Insert(p) ==
    LET o == tx[p].o IN
    /\ At(p, "insert") /\ KeyFree(p, o) /\ ~KeyTaken(o)
    /\ WriteRow(p, NewRow(o), "commit")
    /\ DbUnchanged

-----------------------------------------------------------------------------
(* Releasing a reservation: cancelByOrderNumber, transitionStatus to        *)
(* CANCELLED or EXPIRED, expireOrder and the failed-payment webhook.         *)

\* Mutant: a release that forgets the coupon.
AfterFlipKeepsCoupon(o) == "restock"

AfterFlip(o) == IF o \in Couponed THEN "unredeem" ELSE "restock"

\* The WHERE of cancelCodOrderInTransaction or cancelPendingOrderInTransaction.
Releasable(o) ==
    /\ order[o].live
    /\ order[o].status \in (IF o \in Cod THEN CodCancellable ELSE {"PENDING"})

\* Mutant: the new status is written to paymentStatus as well.
ReleasedRowBoth(o, to) == [order[o] EXCEPT !.status = to, !.payment = to, !.resv = FALSE]

ReleasedRow(o, to) == [order[o] EXCEPT !.status = to, !.resv = FALSE]

\* cancelByOrderNumber reads the order and checks its status first.
CancelBegin(p, o) ==
    /\ "cancel" \in Ops /\ Idle(p) /\ Releasable(o)
    /\ tx' = [tx EXCEPT ![p] = Begin("release", "flip", o, "CANCELLED")]
    /\ DbUnchanged

\* Mutant: the release updates by id, trusting the status it read.
FlipUnguarded(p) ==
    LET o == tx[p].o IN
    /\ At(p, "flip") /\ RowFree(p, o) /\ order[o].live
    /\ WriteRow(p, ReleasedRow(o, tx[p].to), AfterFlip(o))
    /\ DbUnchanged

Flip(p) ==
    LET o == tx[p].o IN
    /\ At(p, "flip") /\ RowFree(p, o) /\ Releasable(o)
    /\ WriteRow(p, ReleasedRow(o, tx[p].to), AfterFlip(o))
    /\ DbUnchanged

\* A release whose guarded update is the first statement that matters.
ReleaseNow(p, o, to) ==
    /\ Idle(p) /\ RowFree(p, o) /\ order[o].live /\ order[o].status = "PENDING"
    /\ tx' = [tx EXCEPT ![p] = [Begin("release", AfterFlip(o), o, to) EXCEPT
                                    !.row = ReleasedRow(o, to)]]
    /\ DbUnchanged

\* Mutant: `reservationExpiresAt: { gt: now }`.
NotYetDue(o) == order[o].resv /\ o \notin lapsed

\* reservationExpiresAt is set and has passed.
Due(o) == order[o].resv /\ o \in lapsed

\* expireOrder: from the cron endpoint, onModuleInit or createCheckoutSession.
Expire(p, o) ==
    /\ "expire" \in Ops /\ Due(o)
    /\ ReleaseNow(p, o, "EXPIRED")

\* cancelPendingOrderInTransaction as the failed-payment webhook calls it.
PaymentFailed(p, o) ==
    /\ "payFailed" \in Ops /\ o \notin Cod
    /\ ReleaseNow(p, o, "CANCELLED")

\* The coupon is decremented only where usageCount > 0.
Unredeem(p) ==
    /\ At(p, "unredeem") /\ CouponFree(p)
    /\ tx' = [tx EXCEPT ![p].coup = used > 0,
                        ![p].pc = IF tx[p].op = "delete" THEN "drop" ELSE "restock"]
    /\ DbUnchanged

\* The step after the last item: deleteOrderPermanently goes on to the coupon.
\* Mutant: deleteOrderPermanently leaves the coupon use behind.
AfterRestockKeepsCoupon(p) == IF tx[p].op # "delete" THEN "commit" ELSE "drop"

AfterRestock(p) ==
    IF tx[p].op # "delete" THEN "commit"
    ELSE IF tx[p].o \in Couponed THEN "unredeem" ELSE "drop"

\* Mutant: only the first item of the order goes back to stock.
RestockFirst(p, v) ==
    /\ At(p, "restock") /\ v \in Items(tx[p].o) \ tx[p].done /\ VariantFree(p, v)
    /\ tx' = [tx EXCEPT ![p].done = @ \cup {v}, ![p].pc = AfterRestock(p)]
    /\ DbUnchanged

Restock(p, v) ==
    LET done == tx[p].done \cup {v} IN
    /\ At(p, "restock") /\ v \in Items(tx[p].o) \ tx[p].done /\ VariantFree(p, v)
    /\ tx' = [tx EXCEPT ![p].done = done,
                        ![p].pc = IF done # Items(tx[p].o) THEN "restock"
                                  ELSE AfterRestock(p)]
    /\ DbUnchanged

-----------------------------------------------------------------------------
(* transitionStatus, markPaid, markCodCollected, refund                     *)

\* Mutant: PAID is written by the plain update, not by markPaidInTransaction.
TransitionTxPlain(o, to) ==
    IF to \in Released THEN Begin("release", "flip", o, to)
    ELSE Begin("advance", "advance", o, to)

\* The branch that transitionStatus takes for the new status.
TransitionTx(o, to) ==
    IF to \in Released THEN Begin("release", "flip", o, to)
    ELSE IF to = "PAID" THEN Begin("pay", "payread", o, to)
    ELSE Begin("advance", "advance", o, to)

\* transitionStatus reads the row, asserts the transition and branches.
TransitionBegin(p, o, to) ==
    /\ "transition" \in Ops /\ Idle(p)
    /\ order[o].live /\ order[o].status # to
    /\ TransitionAllowed(order[o].status, to)
    /\ tx' = [tx EXCEPT ![p] = TransitionTx(o, to)]
    /\ DbUnchanged

\* The plain update by id: its WHERE does not repeat the status that was read.
Advance(p) ==
    LET o == tx[p].o IN
    /\ At(p, "advance") /\ RowFree(p, o) /\ order[o].live
    /\ WriteRow(p, [order[o] EXCEPT !.status = tx[p].to], "commit")
    /\ DbUnchanged

\* markPaidInTransaction, the read: already PAID returns, else assertTransition.
ReadForPayment(p, o) ==
    /\ order[o].live /\ TransitionAllowed(order[o].status, "PAID")
    /\ tx' = [tx EXCEPT ![p] = Begin("pay", IF order[o].status = "PAID" THEN "commit"
                                            ELSE "pay", o, "PAID")]
    /\ DbUnchanged

MarkPaidBegin(p, o) == "pay" \in Ops /\ Idle(p) /\ ReadForPayment(p, o)
TransitionToPaid(p) == At(p, "payread") /\ ReadForPayment(p, tx[p].o)

\* markPaidInTransaction, the write: WHERE paymentStatus <> PAID.
MarkPaid(p) ==
    LET o == tx[p].o IN
    /\ At(p, "pay") /\ RowFree(p, o) /\ order[o].live /\ order[o].payment # "PAID"
    /\ WriteRow(p, [order[o] EXCEPT !.status = "PAID", !.payment = "PAID",
                                    !.resv = FALSE], "commit")
    /\ DbUnchanged

CollectBegin(p, o) ==
    /\ "collect" \in Ops /\ Idle(p) /\ o \in Cod
    /\ order[o].live /\ order[o].status \in {"SHIPPED", "DELIVERED"}
    /\ order[o].payment # "PAID"
    /\ tx' = [tx EXCEPT ![p] = Begin("collect", "collect", o, "NONE")]
    /\ DbUnchanged

Collect(p) ==
    LET o == tx[p].o IN
    /\ At(p, "collect") /\ RowFree(p, o) /\ order[o].live
    /\ WriteRow(p, [order[o] EXCEPT !.payment = "PAID"], "commit")
    /\ DbUnchanged

\* refundTransaction checks the order and its Paymob transaction, which only ONLINE
\* orders have, then calls Paymob, then updates by id.
RefundBegin(p, o) ==
    /\ "refund" \in Ops /\ Idle(p) /\ o \notin Cod
    /\ order[o].live /\ order[o].status = "PAID" /\ order[o].payment # "REFUNDED"
    /\ tx' = [tx EXCEPT ![p] = Begin("refund", "refund", o, "REFUNDED")]
    /\ DbUnchanged

Refund(p) ==
    LET o == tx[p].o IN
    /\ At(p, "refund") /\ RowFree(p, o) /\ order[o].live
    /\ WriteRow(p, [order[o] EXCEPT !.status = "REFUNDED", !.payment = "REFUNDED"], "commit")
    /\ DbUnchanged

-----------------------------------------------------------------------------
(* deleteOrderPermanently                                                   *)

\* Mutant: the delete forgets that PAID orders still hold stock.
DeleteBeginKeepsStock(p, o) ==
    /\ "delete" \in Ops /\ Idle(p) /\ order[o].live
    /\ tx' = [tx EXCEPT ![p] = Begin("delete",
                IF order[o].status \in CodCancellable THEN "items" ELSE "drop", o, "NONE")]
    /\ DbUnchanged

DeleteBegin(p, o) ==
    /\ "delete" \in Ops /\ Idle(p) /\ order[o].live
    /\ tx' = [tx EXCEPT ![p] = Begin("delete",
                IF order[o].status \in HoldingStock THEN "items" ELSE "drop", o, "NONE")]
    /\ DbUnchanged

\* orderItem.findMany: the cascade of an earlier DELETE has taken the items away.
FindItems(p) ==
    LET o == tx[p].o IN
    /\ At(p, "items")
    /\ tx' = [tx EXCEPT ![p].pc = IF order[o].live THEN "restock" ELSE AfterRestock(p)]
    /\ DbUnchanged

\* DELETE ... WHERE id: no row left to delete is not an error.
Drop(p) ==
    LET o == tx[p].o IN
    /\ At(p, "drop") /\ RowFree(p, o)
    /\ WriteRow(p, IF order[o].live THEN [order[o] EXCEPT !.live = FALSE] ELSE NoRow, "commit")
    /\ DbUnchanged

-----------------------------------------------------------------------------
(* The end of a transaction, and the clock.                                 *)

\* What the open transaction of p will add to the stock of v.
StockDelta(p, v) ==
    IF v \notin tx[p].done THEN 0
    ELSE IF tx[p].op = "create" THEN -Qty[tx[p].o][v] ELSE Qty[tx[p].o][v]

UsageDelta(p) ==
    IF ~tx[p].coup THEN 0 ELSE IF tx[p].op = "create" THEN 1 ELSE -1

Commit(p) ==
    /\ At(p, "commit")
    /\ order' = IF tx[p].row = NoRow THEN order ELSE [order EXCEPT ![tx[p].o] = tx[p].row]
    /\ stock' = [ v \in Variants |-> stock[v] + StockDelta(p, v) ]
    /\ used' = used + UsageDelta(p)
    /\ tx' = [tx EXCEPT ![p] = IdleTx]
    /\ UNCHANGED lapsed

\* An exception, a failed guard, a deadlock victim, a timeout or a crash: roll back.
Abort(p) ==
    /\ ~Idle(p)
    /\ tx' = [tx EXCEPT ![p] = IdleTx]
    /\ DbUnchanged

\* Thirty minutes pass on a pending reservation.
Lapse(o) ==
    /\ order[o].live /\ order[o].status = "PENDING" /\ order[o].resv /\ o \notin lapsed
    /\ lapsed' = lapsed \cup {o}
    /\ UNCHANGED << order, stock, used, tx >>

Call(p) ==
    \E o \in Orders :
        \/ CreateBegin(p, o) \/ CancelBegin(p, o) \/ Expire(p, o) \/ PaymentFailed(p, o)
        \/ \E to \in LiveStatuses : TransitionBegin(p, o, to)
        \/ MarkPaidBegin(p, o) \/ CollectBegin(p, o) \/ RefundBegin(p, o) \/ DeleteBegin(p, o)

Statement(p) ==
    \/ \E v \in Variants : Reserve(p, v) \/ Restock(p, v)
    \/ CountUses(p) \/ Redeem(p) \/ Insert(p) \/ Flip(p) \/ Unredeem(p) \/ Advance(p)
    \/ TransitionToPaid(p) \/ MarkPaid(p) \/ Collect(p) \/ Refund(p)
    \/ FindItems(p) \/ Drop(p)

Next ==
    \/ \E p \in Procs : Call(p) \/ Statement(p) \/ Commit(p) \/ Abort(p)
    \/ \E o \in Orders : Lapse(o)

Spec == Init /\ [][Next]_vars
=============================================================================
