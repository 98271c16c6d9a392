--------------------------- MODULE OrderTxProofs ---------------------------
(***************************************************************************)
(* Safety of the order transactions for every set of orders, variants and   *)
(* processes, every cart, stock and coupon limit, with all operations       *)
(* running concurrently.                                                    *)
(***************************************************************************)
EXTENDS OrderRefinement, TLAPS

CreateSteps == { "reserve", "count", "redeem", "insert" }

\* What is true of every row, committed or written by an open transaction.
RowOK(o, row) ==
    /\ row.live => row.status \in LiveStatuses
    /\ row.status = "PAID" => row.payment = "PAID"
    /\ o \notin Cod /\ row.status \in Released \cup {"PENDING"} => row.payment = "PENDING"

\* What a transaction's step says of its operation.
ShapeOK(t) ==
    /\ (t.op = "idle") = (t.pc = "idle")
    /\ t.op = "idle" => t = IdleTx
    /\ t.op # "idle" => t.o \in Orders
    /\ t.pc \in CreateSteps => t.op = "create"
    /\ t.op = "create" => t.pc \in CreateSteps \cup {"commit"}
    /\ t.pc = "flip" => t.to \in Released
    /\ t.pc = "advance" => t.to \in LiveStatuses \ (Released \cup {"PENDING", "PAID"})
    /\ t.pc = "collect" => t.o \in Cod

\* What an open transaction can rely on in the committed rows.
CoveredOK(t) ==
    /\ t.op = "create" => order[t.o] = NoRow /\ \A v \in t.done : stock[v] >= Qty[t.o][v]
    /\ t.op \notin {"create", "idle"} => order[t.o] # NoRow
    /\ t.coup /\ t.op = "create" => used < UsageLimit
    /\ t.coup /\ t.op # "create" => used > 0

\* Two open transactions hold no lock in common.
Apart(t, u) ==
    /\ t.done \cap u.done = {}
    /\ ~(t.coup /\ u.coup)
    /\ t.o = u.o /\ t.row # NoRow => u.row = NoRow
    /\ t.op = "create" => u.o # t.o

TxOK(t) == ShapeOK(t) /\ CoveredOK(t) /\ RowOK(t.o, t.row)

IInv ==
    /\ TypeOK
    /\ StockNonNegative
    /\ CouponWithinLimit
    /\ \A o \in Orders : RowOK(o, order[o])
    /\ \A p \in Procs : TxOK(tx[p])
    /\ \A p, q \in Procs : p # q => Apart(tx[p], tx[q])

-----------------------------------------------------------------------------
LEMMA InitIInv == Init => IInv
<1> SUFFICES ASSUME Init PROVE IInv
    OBVIOUS
<1> USE OrderTxAssumption
<1>1. NoRow \in Rows /\ IdleTx \in Transactions
    BY DEF NoRow, Rows, IdleTx, Begin, Transactions, Statuses, LiveStatuses,
           PaymentStatuses, TxOps, Steps
<1>2. TypeOK
    BY <1>1 DEF Init, TypeOK
<1>3. StockNonNegative /\ CouponWithinLimit
    BY DEF Init, StockNonNegative, CouponWithinLimit
<1>4. \A o : RowOK(o, NoRow)
    BY DEF RowOK, NoRow, Released
<1>5. TxOK(IdleTx)
    BY <1>4 DEF TxOK, ShapeOK, CoveredOK, IdleTx, Begin, CreateSteps
<1>6. Apart(IdleTx, IdleTx)
    BY DEF Apart, IdleTx, Begin
<1> QED
    BY <1>2, <1>3, <1>4, <1>5, <1>6 DEF Init, IInv

\* A statement changes one transaction record: it preserves the invariant when
\* the new record is well formed and shares no lock with the others.
LEMMA StatementStep ==
    ASSUME IInv, NEW p \in Procs, NEW t \in Transactions,
           tx' = [tx EXCEPT ![p] = t], DbUnchanged,
           TxOK(t),
           \A q \in Procs \ {p} : Apart(t, tx[q]) /\ Apart(tx[q], t)
    PROVE  IInv'
<1> USE DEF IInv
<1>1. UNCHANGED << order, lapsed, stock, used >>
    BY DEF DbUnchanged
<1>2. TypeOK'
    BY <1>1 DEF TypeOK
<1>3. StockNonNegative' /\ CouponWithinLimit'
    BY <1>1 DEF StockNonNegative, CouponWithinLimit
<1>4. \A o \in Orders : RowOK(o, order[o])'
    BY <1>1 DEF RowOK
<1>5. \A q \in Procs : tx'[q] = IF q = p THEN t ELSE tx[q]
    BY DEF TypeOK
<1>6. ASSUME NEW q \in Procs PROVE TxOK(tx[q])'
    BY <1>1, <1>5 DEF TxOK, ShapeOK, CoveredOK, RowOK
<1>7. ASSUME NEW q \in Procs, NEW r \in Procs, q # r PROVE Apart(tx[q], tx[r])'
    BY <1>5, <1>7 DEF Apart
<1> QED
    BY <1>2, <1>3, <1>4, <1>6, <1>7
\* The records of a transaction are again transactions.
LEMMA BeginType ==
    ASSUME NEW op \in TxOps, NEW pc \in Steps, NEW o \in Orders, NEW to \in Statuses
    PROVE  Begin(op, pc, o, to) \in Transactions
BY DEF Begin, Transactions, NoRow, Rows, Statuses, PaymentStatuses

\* A call on an existing order opens a transaction that holds no lock.
LEMMA BeginStep ==
    ASSUME IInv, NEW p \in Procs, NEW o \in Orders, order[o].live,
           NEW op \in TxOps \ {"idle", "create"}, NEW to \in Statuses,
           NEW pc \in Steps \ (CreateSteps \cup {"idle"}),
           pc = "flip" => to \in Released,
           pc = "advance" => to \in LiveStatuses \ (Released \cup {"PENDING", "PAID"}),
           pc = "collect" => o \in Cod,
           tx' = [tx EXCEPT ![p] = Begin(op, pc, o, to)], DbUnchanged
    PROVE  IInv'
<1> DEFINE t == Begin(op, pc, o, to)
<1>1. t \in Transactions
    BY BeginType
<1>2. order[o] # NoRow
    BY DEF NoRow
<1>3. ShapeOK(t)
    BY DEF ShapeOK, Begin
<1>4. CoveredOK(t) /\ RowOK(t.o, t.row)
    BY <1>2 DEF CoveredOK, RowOK, Begin, NoRow, Released
<1>5. ASSUME NEW q \in Procs \ {p} PROVE Apart(t, tx[q]) /\ Apart(tx[q], t)
    <2>1. tx[q].op = "create" => order[tx[q].o] = NoRow
        BY DEF IInv, TxOK, CoveredOK
    <2> QED
        BY <1>2, <2>1 DEF Apart, Begin
<1> HIDE DEF t
<1>6. TxOK(t)
    BY <1>3, <1>4 DEF TxOK
<1> QED
    BY <1>1, <1>5, <1>6, StatementStep DEF t

\* A statement that writes the order row holds its lock afterwards.
LEMMA WriteStep ==
    ASSUME IInv, NEW p \in Procs, tx[p].op # "idle",
           NEW row \in Rows, RowOK(tx[p].o, row),
           NEW pc \in {"commit", "unredeem", "restock"},
           tx[p].op = "create" => pc = "commit",
           RowFree(p, tx[p].o),
           WriteRow(p, row, pc), DbUnchanged
    PROVE  IInv'
<1> DEFINE t == [tx[p] EXCEPT !.row = row, !.pc = pc]
<1>1. tx \in [Procs -> Transactions] /\ TxOK(tx[p])
    BY DEF IInv, TypeOK
<1>2. t \in Transactions
    BY <1>1 DEF Transactions, Steps
<1>3. tx' = [tx EXCEPT ![p] = t]
    BY <1>1 DEF WriteRow, Transactions
<1>4. /\ t.op = tx[p].op /\ t.o = tx[p].o /\ t.to = tx[p].to /\ t.done = tx[p].done
      /\ t.coup = tx[p].coup /\ t.row = row /\ t.pc = pc
    BY <1>1 DEF Transactions
<1> HIDE DEF t
<1>5. TxOK(t)
    <2>1. ShapeOK(t)
        BY <1>1, <1>4 DEF TxOK, ShapeOK, CreateSteps
    <2>2. CoveredOK(t) /\ RowOK(t.o, t.row)
        BY <1>1, <1>4 DEF TxOK, CoveredOK
    <2> QED
        BY <2>1, <2>2 DEF TxOK
<1>6. ASSUME NEW q \in Procs \ {p} PROVE Apart(t, tx[q]) /\ Apart(tx[q], t)
    <2>1. Apart(tx[p], tx[q]) /\ Apart(tx[q], tx[p])
        BY DEF IInv
    <2>2. ~(tx[q].o = tx[p].o /\ tx[q].row # NoRow)
        BY DEF RowFree
    <2> QED
        BY <1>4, <2>1, <2>2 DEF Apart
<1> QED
    BY <1>2, <1>3, <1>5, <1>6, StatementStep

\* The committed rows have the types and the shape the invariant gives them.
LEMMA RowFacts ==
    ASSUME IInv, NEW o \in Orders
    PROVE  /\ order[o] \in Rows /\ RowOK(o, order[o])
           /\ order[o].live => order[o].status \in LiveStatuses
BY DEF IInv, TypeOK, RowOK

LEMMA TxFacts ==
    ASSUME IInv, NEW p \in Procs
    PROVE  tx[p] \in Transactions /\ TxOK(tx[p]) /\ ShapeOK(tx[p]) /\ CoveredOK(tx[p])
BY DEF IInv, TypeOK, TxOK

-----------------------------------------------------------------------------
(* Opening a transaction.                                                   *)

LEMMA CreateBeginStep ==
    ASSUME IInv, NEW p \in Procs, NEW o \in Orders, CreateBegin(p, o)
    PROVE  IInv'
<1> DEFINE t == Begin("create", "reserve", o, "PENDING")
<1>1. t \in Transactions
    BY BeginType DEF TxOps, Steps, Statuses, LiveStatuses
<1>2. ShapeOK(t)
    BY DEF ShapeOK, Begin, CreateSteps
<1>3. CoveredOK(t) /\ RowOK(t.o, t.row)
    BY DEF CoveredOK, RowOK, Begin, NoRow, Released, CreateBegin
<1>4. ASSUME NEW q \in Procs \ {p} PROVE Apart(t, tx[q]) /\ Apart(tx[q], t)
    BY DEF Apart, Begin, CreateBegin
<1>5. tx' = [tx EXCEPT ![p] = t] /\ DbUnchanged
    BY DEF CreateBegin
<1> HIDE DEF t
<1>6. TxOK(t)
    BY <1>2, <1>3 DEF TxOK
<1> QED
    BY <1>1, <1>4, <1>5, <1>6, StatementStep

\* assertTransition never lets an order go back to PENDING.
LEMMA NeverBackToPending ==
    ASSUME NEW s \in LiveStatuses, NEW to, TransitionAllowed(s, to), s # to
    PROVE  to # "PENDING"
<1>1. to \in AllowedTransitions[s]
    BY DEF TransitionAllowed
<1> QED
    BY <1>1 DEF AllowedTransitions, LiveStatuses

LEMMA TransitionBeginStep ==
    ASSUME IInv, NEW p \in Procs, NEW o \in Orders, NEW to \in LiveStatuses,
           TransitionBegin(p, o, to)
    PROVE  IInv'
<1>1. order[o].live /\ DbUnchanged /\ to \in Statuses
    BY DEF TransitionBegin, Statuses
<1>2. to # "PENDING"
    BY RowFacts, NeverBackToPending DEF TransitionBegin, TransitionTx
<1>3. CASE to \in Released
    <2>1. tx' = [tx EXCEPT ![p] = Begin("release", "flip", o, to)]
        BY <1>3 DEF TransitionBegin, TransitionTx
    <2>2. "release" \in TxOps \ {"idle", "create"} /\ "flip" \in Steps \ (CreateSteps \cup {"idle"})
        BY DEF TxOps, Steps, CreateSteps
    <2> QED
        BY <1>1, <1>3, <2>1, <2>2, BeginStep
<1>4. CASE to = "PAID"
    <2>1. tx' = [tx EXCEPT ![p] = Begin("pay", "payread", o, to)]
        BY <1>4 DEF TransitionBegin, TransitionTx, Released
    <2>2. "pay" \in TxOps \ {"idle", "create"} /\ "payread" \in Steps \ (CreateSteps \cup {"idle"})
        BY DEF TxOps, Steps, CreateSteps
    <2> QED
        BY <1>1, <2>1, <2>2, BeginStep
<1>5. CASE to \notin Released \cup {"PAID"}
    <2>1. tx' = [tx EXCEPT ![p] = Begin("advance", "advance", o, to)]
        BY <1>5 DEF TransitionBegin, TransitionTx
    <2>2. "advance" \in TxOps \ {"idle", "create"} /\ "advance" \in Steps \ (CreateSteps \cup {"idle"})
        BY DEF TxOps, Steps, CreateSteps
    <2>3. to \in LiveStatuses \ (Released \cup {"PENDING", "PAID"})
        BY <1>2, <1>5
    <2> QED
        BY <1>1, <2>1, <2>2, <2>3, BeginStep
<1> QED
    BY <1>3, <1>4, <1>5

LEMMA ReadForPaymentStep ==
    ASSUME IInv, NEW p \in Procs, NEW o \in Orders, ReadForPayment(p, o)
    PROVE  IInv'
<1> DEFINE pc == IF order[o].status = "PAID" THEN "commit" ELSE "pay"
<1>1. /\ order[o].live /\ DbUnchanged
      /\ tx' = [tx EXCEPT ![p] = Begin("pay", pc, o, "PAID")]
    BY DEF ReadForPayment
<1>2. pc \in {"commit", "pay"}
    OBVIOUS
<1> HIDE DEF pc
<1> QED
    BY <1>1, <1>2, BeginStep DEF TxOps, Steps, CreateSteps, Statuses, LiveStatuses

LEMMA OtherBeginStep ==
    ASSUME IInv, NEW p \in Procs, NEW o \in Orders,
           CancelBegin(p, o) \/ CollectBegin(p, o) \/ RefundBegin(p, o) \/ DeleteBegin(p, o)
    PROVE  IInv'
<1> DEFINE ops == TxOps \ {"idle", "create"}
           pcs == Steps \ (CreateSteps \cup {"idle"})
<1>1. /\ {"release", "collect", "refund", "delete"} \subseteq ops
      /\ {"flip", "collect", "refund", "items", "drop"} \subseteq pcs
      /\ {"CANCELLED", "NONE", "REFUNDED"} \subseteq Statuses /\ "CANCELLED" \in Released
    BY DEF TxOps, Steps, CreateSteps, Statuses, LiveStatuses, Released
<1>2. CASE CancelBegin(p, o)
    <2>1. /\ order[o].live /\ DbUnchanged
          /\ tx' = [tx EXCEPT ![p] = Begin("release", "flip", o, "CANCELLED")]
        BY <1>2 DEF CancelBegin, Releasable
    <2> QED
        BY <1>1, <2>1, BeginStep
<1>3. CASE CollectBegin(p, o)
    <2>1. /\ order[o].live /\ DbUnchanged /\ o \in Cod
          /\ tx' = [tx EXCEPT ![p] = Begin("collect", "collect", o, "NONE")]
        BY <1>3 DEF CollectBegin
    <2> QED
        BY <1>1, <2>1, BeginStep
<1>4. CASE RefundBegin(p, o)
    <2>1. /\ order[o].live /\ DbUnchanged
          /\ tx' = [tx EXCEPT ![p] = Begin("refund", "refund", o, "REFUNDED")]
        BY <1>4 DEF RefundBegin
    <2> QED
        BY <1>1, <2>1, BeginStep
<1>5. CASE DeleteBegin(p, o)
    <2> DEFINE pc == IF order[o].status \in HoldingStock THEN "items" ELSE "drop"
    <2>1. /\ order[o].live /\ DbUnchanged
          /\ tx' = [tx EXCEPT ![p] = Begin("delete", pc, o, "NONE")]
        BY <1>5 DEF DeleteBegin
    <2>2. pc \in {"items", "drop"}
        OBVIOUS
    <2> HIDE DEF pc
    <2> QED
        BY <1>1, <2>1, <2>2, BeginStep
<1> QED
    BY <1>2, <1>3, <1>4, <1>5

\* A release whose first statement is the guarded update.
LEMMA ReleaseNowStep ==
    ASSUME IInv, NEW p \in Procs, NEW o \in Orders, NEW to \in Released, ReleaseNow(p, o, to)
    PROVE  IInv'
<1> DEFINE pc == AfterFlip(o)
           row == ReleasedRow(o, to)
           t == [Begin("release", pc, o, to) EXCEPT !.row = row]
<1>1. pc \in {"unredeem", "restock"}
    BY DEF AfterFlip
<1>2. /\ order[o] \in Rows /\ order[o].live /\ order[o].status = "PENDING"
      /\ RowOK(o, order[o]) /\ order[o] # NoRow
    BY RowFacts DEF ReleaseNow, NoRow
<1>3. row \in Rows /\ RowOK(o, row)
    BY <1>2 DEF ReleasedRow, Rows, RowOK, Released, Statuses, LiveStatuses
<1> HIDE DEF pc, row
<1>4. /\ t.op = "release" /\ t.pc = pc /\ t.o = o /\ t.to = to /\ t.row = row
      /\ t.done = {} /\ t.coup = FALSE
    BY DEF Begin
<1>5. t \in Transactions
    BY <1>1, <1>3 DEF Begin, Transactions, TxOps, Steps, Statuses, LiveStatuses, Released
<1>6. tx' = [tx EXCEPT ![p] = t] /\ DbUnchanged
    BY DEF ReleaseNow, pc, row
<1> HIDE DEF t
<1>7. TxOK(t)
    BY <1>1, <1>2, <1>3, <1>4 DEF TxOK, ShapeOK, CoveredOK, CreateSteps
<1>8. ASSUME NEW q \in Procs \ {p} PROVE Apart(t, tx[q]) /\ Apart(tx[q], t)
    <2>1. ~(tx[q].o = o /\ tx[q].row # NoRow)
        BY DEF ReleaseNow, RowFree
    <2>2. tx[q].op = "create" => order[tx[q].o] = NoRow
        BY TxFacts DEF CoveredOK
    <2> QED
        BY <1>2, <1>4, <2>1, <2>2 DEF Apart
<1> QED
    BY <1>5, <1>6, <1>7, <1>8, StatementStep

-----------------------------------------------------------------------------
(* Statements that write the order row.                                     *)

LEMMA InsertStep ==
    ASSUME IInv, NEW p \in Procs, Insert(p)
    PROVE  IInv'
<1> DEFINE o == tx[p].o
<1>1. tx[p].op = "create"
    BY TxFacts DEF Insert, At, ShapeOK, CreateSteps
<1>2. NewRow(o) \in Rows /\ RowOK(o, NewRow(o))
    BY DEF NewRow, Rows, RowOK, Released, Statuses, LiveStatuses, PaymentStatuses
<1>3. RowFree(p, o)
    BY <1>1 DEF IInv, Apart, RowFree
<1>4. WriteRow(p, NewRow(o), "commit") /\ DbUnchanged
    BY DEF Insert
<1> QED
    BY <1>1, <1>2, <1>3, <1>4, WriteStep

LEMMA FlipStep ==
    ASSUME IInv, NEW p \in Procs, Flip(p)
    PROVE  IInv'
<1> DEFINE o == tx[p].o
           row == ReleasedRow(o, tx[p].to)
           pc == AfterFlip(o)
<1>1. /\ tx[p].op \notin {"idle", "create"} /\ o \in Orders /\ tx[p].to \in Released
    BY TxFacts DEF Flip, At, ShapeOK, CreateSteps
<1>2. order[o] \in Rows /\ RowOK(o, order[o])
    BY <1>1, RowFacts
<1>3. order[o].live /\ (o \notin Cod => order[o].status = "PENDING")
    BY DEF Flip, Releasable
<1>4. row \in Rows /\ RowOK(o, row)
    BY <1>1, <1>2, <1>3 DEF ReleasedRow, Rows, RowOK, Released, Statuses, LiveStatuses
<1>5. pc \in {"unredeem", "restock"}
    BY DEF AfterFlip
<1>6. WriteRow(p, row, pc) /\ RowFree(p, o) /\ DbUnchanged
    BY DEF Flip
<1> HIDE DEF row, pc
<1> QED
    BY <1>1, <1>4, <1>5, <1>6, WriteStep

\* The single updates by id of transitionStatus, markPaid, collect and refund.
LEMMA UpdateStep ==
    ASSUME IInv, NEW p \in Procs, Advance(p) \/ MarkPaid(p) \/ Collect(p) \/ Refund(p)
    PROVE  IInv'
<1> DEFINE o == tx[p].o
<1>1. /\ tx[p].op \notin {"idle", "create"} /\ o \in Orders
      /\ order[o].live /\ RowFree(p, o) /\ DbUnchanged
    BY TxFacts DEF Advance, MarkPaid, Collect, Refund, At, ShapeOK, CreateSteps
<1>2. order[o] \in Rows /\ RowOK(o, order[o])
    BY <1>1, RowFacts
<1> HIDE DEF o
<1>3. SUFFICES ASSUME NEW row \in Rows, RowOK(o, row), WriteRow(p, row, "commit")
               PROVE  IInv'
    <2> USE DEF Rows, RowOK, Statuses, LiveStatuses, PaymentStatuses, Released
    <2>1. CASE Advance(p)
        <3> DEFINE row == [order[o] EXCEPT !.status = tx[p].to]
        <3>1. tx[p].to \in LiveStatuses \ (Released \cup {"PENDING", "PAID"})
            BY <2>1, TxFacts DEF Advance, At, ShapeOK
        <3>2. row \in Rows /\ RowOK(o, row)
            BY <1>1, <1>2, <3>1
        <3>3. WriteRow(p, row, "commit")
            BY <2>1 DEF Advance, o
        <3> QED
            BY <1>3, <3>2, <3>3
    <2>2. CASE MarkPaid(p)
        <3> DEFINE row == [order[o] EXCEPT !.status = "PAID", !.payment = "PAID", !.resv = FALSE]
        <3>1. row \in Rows /\ RowOK(o, row)
            BY <1>1, <1>2
        <3>2. WriteRow(p, row, "commit")
            BY <2>2 DEF MarkPaid, o
        <3> QED
            BY <1>3, <3>1, <3>2
    <2>3. CASE Collect(p)
        <3> DEFINE row == [order[o] EXCEPT !.payment = "PAID"]
        <3>1. o \in Cod
            BY <2>3, TxFacts DEF Collect, At, ShapeOK, o
        <3>2. row \in Rows /\ RowOK(o, row)
            BY <1>1, <1>2, <3>1
        <3>3. WriteRow(p, row, "commit")
            BY <2>3 DEF Collect, o
        <3> QED
            BY <1>3, <3>2, <3>3
    <2>4. CASE Refund(p)
        <3> DEFINE row == [order[o] EXCEPT !.status = "REFUNDED", !.payment = "REFUNDED"]
        <3>1. row \in Rows /\ RowOK(o, row)
            BY <1>1, <1>2
        <3>2. WriteRow(p, row, "commit")
            BY <2>4 DEF Refund, o
        <3> QED
            BY <1>3, <3>1, <3>2
    <2> QED
        BY <2>1, <2>2, <2>3, <2>4
<1>4. "commit" \in {"commit", "unredeem", "restock"}
    OBVIOUS
<1> QED
    BY <1>1, <1>3, <1>4, WriteStep DEF o

LEMMA DropStep ==
    ASSUME IInv, NEW p \in Procs, Drop(p)
    PROVE  IInv'
<1> DEFINE o == tx[p].o
           row == IF order[o].live THEN [order[o] EXCEPT !.live = FALSE] ELSE NoRow
<1>1. tx[p].op \notin {"idle", "create"} /\ o \in Orders
    BY TxFacts DEF Drop, At, ShapeOK, CreateSteps
<1>2. order[o] \in Rows /\ RowOK(o, order[o])
    BY <1>1, RowFacts
<1>3. row \in Rows /\ RowOK(o, row)
    BY <1>2 DEF NoRow, Rows, RowOK, Statuses, PaymentStatuses, Released
<1>4. WriteRow(p, row, "commit") /\ RowFree(p, o) /\ DbUnchanged
    BY DEF Drop
<1> HIDE DEF row
<1> QED
    BY <1>1, <1>3, <1>4, WriteStep

-----------------------------------------------------------------------------
(* Statements that lock a variant or the coupon, and the rest.              *)

\* t is the record of p after a statement that takes no lock, a variant's or the
\* coupon's, and leaves the row and the operation alone.
LockedBy(p, t) ==
    /\ t \in Transactions
    /\ t.op = tx[p].op /\ t.o = tx[p].o /\ t.to = tx[p].to /\ t.row = tx[p].row
    /\ tx[p].op # "idle" /\ t.pc \notin {"idle", "flip", "advance", "collect"}
    /\ IF tx[p].op = "create" THEN t.pc \in CreateSteps ELSE t.pc \notin CreateSteps
    /\ \A v \in t.done \ tx[p].done :
           VariantFree(p, v) /\ (tx[p].op = "create" => stock[v] >= Qty[tx[p].o][v])
    /\ t.coup /\ ~tx[p].coup =>
           CouponFree(p) /\ (IF tx[p].op = "create" THEN used < UsageLimit ELSE used > 0)

LEMMA LockStep ==
    ASSUME IInv, NEW p \in Procs, NEW t \in Transactions, LockedBy(p, t),
           tx' = [tx EXCEPT ![p] = t], DbUnchanged
    PROVE  IInv'
<1>1. tx[p] \in Transactions /\ ShapeOK(tx[p]) /\ CoveredOK(tx[p]) /\ RowOK(tx[p].o, tx[p].row)
    BY TxFacts DEF TxOK
<1>2. t.done \subseteq Variants /\ t.coup \in BOOLEAN /\ tx[p].coup \in BOOLEAN
    BY <1>1 DEF Transactions
<1>3. ShapeOK(t)
    BY <1>1 DEF ShapeOK, LockedBy
<1>4. CoveredOK(t)
    BY <1>1, <1>2 DEF CoveredOK, LockedBy
<1>5. TxOK(t)
    BY <1>1, <1>3, <1>4 DEF TxOK, LockedBy
<1>6. ASSUME NEW q \in Procs \ {p} PROVE Apart(t, tx[q]) /\ Apart(tx[q], t)
    <2>1. Apart(tx[p], tx[q]) /\ Apart(tx[q], tx[p])
        BY DEF IInv
    <2>2. \A v \in t.done \ tx[p].done : v \notin tx[q].done
        BY DEF VariantFree, LockedBy
    <2>3. t.coup /\ ~tx[p].coup => ~tx[q].coup
        BY DEF CouponFree, LockedBy
    <2> QED
        BY <2>1, <2>2, <2>3 DEF Apart, LockedBy
<1> QED
    BY <1>5, <1>6, StatementStep

LEMMA ReserveStep ==
    ASSUME IInv, NEW p \in Procs, NEW v \in Variants, Reserve(p, v)
    PROVE  IInv'
<1> DEFINE done == tx[p].done \cup {v}
           pc == IF done # Items(tx[p].o) THEN "reserve"
                 ELSE IF tx[p].o \in Couponed THEN "count" ELSE "insert"
           t == [tx[p] EXCEPT !.done = done, !.pc = pc]
<1>1. tx[p] \in Transactions /\ tx[p].op = "create"
    BY TxFacts DEF Reserve, At, ShapeOK, CreateSteps
<1>2. pc \in CreateSteps \ {"redeem"}
    BY DEF CreateSteps
<1>3. /\ DbUnchanged /\ VariantFree(p, v) /\ stock[v] >= Qty[tx[p].o][v]
      /\ tx' = [tx EXCEPT ![p] = t]
    BY <1>1 DEF Reserve, InStock, IInv, TypeOK, Transactions
<1> HIDE DEF pc
<1>4. t \in Transactions /\ LockedBy(p, t)
    BY <1>1, <1>2, <1>3 DEF Transactions, LockedBy, CreateSteps, Steps
<1> QED
    BY <1>3, <1>4, LockStep

LEMMA RestockStep ==
    ASSUME IInv, NEW p \in Procs, NEW v \in Variants, Restock(p, v)
    PROVE  IInv'
<1> DEFINE done == tx[p].done \cup {v}
           pc == IF done # Items(tx[p].o) THEN "restock" ELSE AfterRestock(p)
           t == [tx[p] EXCEPT !.done = done, !.pc = pc]
<1>1. tx[p] \in Transactions /\ tx[p].op \notin {"idle", "create"}
    BY TxFacts DEF Restock, At, ShapeOK, CreateSteps
<1>2. pc \in {"restock", "unredeem", "drop", "commit"}
    BY DEF AfterRestock
<1>3. DbUnchanged /\ VariantFree(p, v) /\ tx' = [tx EXCEPT ![p] = t]
    BY <1>1 DEF Restock, IInv, TypeOK, Transactions
<1> HIDE DEF pc
<1>4. t \in Transactions /\ LockedBy(p, t)
    BY <1>1, <1>2, <1>3 DEF Transactions, LockedBy, CreateSteps, Steps
<1> QED
    BY <1>3, <1>4, LockStep

LEMMA CouponStep ==
    ASSUME IInv, NEW p \in Procs, CountUses(p) \/ Redeem(p) \/ Unredeem(p) \/ FindItems(p)
    PROVE  IInv'
<1>1. tx[p] \in Transactions /\ ShapeOK(tx[p]) /\ tx \in [Procs -> Transactions] /\ DbUnchanged
    BY TxFacts DEF IInv, TypeOK, CountUses, Redeem, Unredeem, FindItems
<1> SUFFICES ASSUME TRUE PROVE \E t \in Transactions : LockedBy(p, t) /\ tx' = [tx EXCEPT ![p] = t]
    BY <1>1, LockStep
<1>2. CASE CountUses(p)
    <2> DEFINE t == [tx[p] EXCEPT !.pc = "redeem"]
    <2>1. tx[p].op = "create"
        BY <1>1, <1>2 DEF CountUses, At, ShapeOK, CreateSteps
    <2>2. t \in Transactions /\ LockedBy(p, t)
        BY <1>1, <2>1 DEF Transactions, LockedBy, CreateSteps, Steps
    <2>3. tx' = [tx EXCEPT ![p] = t]
        BY <1>1, <1>2 DEF CountUses, Transactions
    <2> QED
        BY <2>2, <2>3
<1>3. CASE Redeem(p)
    <2> DEFINE t == [tx[p] EXCEPT !.coup = TRUE, !.pc = "insert"]
    <2>1. tx[p].op = "create" /\ CouponFree(p) /\ used < UsageLimit
        BY <1>1, <1>3 DEF Redeem, UsesLeft, At, ShapeOK, CreateSteps
    <2>2. t \in Transactions /\ LockedBy(p, t)
        BY <1>1, <2>1 DEF Transactions, LockedBy, CreateSteps, Steps
    <2>3. tx' = [tx EXCEPT ![p] = t]
        BY <1>1, <1>3 DEF Redeem, Transactions
    <2> QED
        BY <2>2, <2>3
<1>4. CASE Unredeem(p)
    <2> DEFINE pc == IF tx[p].op = "delete" THEN "drop" ELSE "restock"
               coup == used > 0
               t == [tx[p] EXCEPT !.coup = coup, !.pc = pc]
    <2>0. /\ pc \in {"drop", "restock"} /\ coup \in BOOLEAN /\ (coup => used > 0)
          /\ tx' = [tx EXCEPT ![p].coup = coup, ![p].pc = pc]
        BY <1>4 DEF Unredeem
    <2> HIDE DEF pc, coup
    <2>1. tx[p].op \notin {"idle", "create"} /\ CouponFree(p)
        BY <1>1, <1>4 DEF Unredeem, At, ShapeOK, CreateSteps
    <2>2. t \in Transactions /\ LockedBy(p, t)
        BY <1>1, <2>0, <2>1 DEF Transactions, LockedBy, CreateSteps, Steps
    <2>3. tx' = [tx EXCEPT ![p] = t]
        BY <1>1, <2>0 DEF Transactions
    <2> QED
        BY <2>2, <2>3
<1>5. CASE FindItems(p)
    <2> DEFINE pc == IF order[tx[p].o].live THEN "restock" ELSE AfterRestock(p)
               t == [tx[p] EXCEPT !.pc = pc]
    <2>1. tx[p].op \notin {"idle", "create"}
        BY <1>1, <1>5 DEF FindItems, At, ShapeOK, CreateSteps
    <2>2. t \in Transactions /\ LockedBy(p, t)
        BY <1>1, <2>1 DEF Transactions, LockedBy, CreateSteps, Steps, AfterRestock
    <2>3. tx' = [tx EXCEPT ![p] = t]
        BY <1>1, <1>5 DEF FindItems, Transactions
    <2> QED
        BY <2>2, <2>3
<1> QED
    BY <1>2, <1>3, <1>4, <1>5

-----------------------------------------------------------------------------
(* The end of a transaction, and the clock.                                 *)

LEMMA IdleTxFacts ==
    /\ IdleTx \in Transactions /\ TxOK(IdleTx)
    /\ \A q \in Procs : IInv => Apart(IdleTx, tx[q]) /\ Apart(tx[q], IdleTx)
<1>1. IdleTx \in Transactions
    BY DEF IdleTx, Begin, Transactions, NoRow, Rows, Statuses, PaymentStatuses, TxOps, Steps
<1>2. TxOK(IdleTx)
    BY DEF TxOK, ShapeOK, CoveredOK, RowOK, NoRow, IdleTx, Begin, CreateSteps, Released
<1>3. ASSUME NEW q \in Procs, IInv PROVE Apart(IdleTx, tx[q]) /\ Apart(tx[q], IdleTx)
    <2>1. tx[q].op = "create" => NoOrder # tx[q].o
        BY <1>3, TxFacts, OrderTxAssumption DEF ShapeOK
    <2> QED
        BY <2>1 DEF Apart, IdleTx, Begin
<1> QED
    BY <1>1, <1>2, <1>3

LEMMA AbortStep ==
    ASSUME IInv, NEW p \in Procs, Abort(p)
    PROVE  IInv'
BY IdleTxFacts, StatementStep DEF Abort

LEMMA LapseStep ==
    ASSUME IInv, NEW o \in Orders, Lapse(o)
    PROVE  IInv'
BY DEF Lapse, IInv, TypeOK, StockNonNegative, CouponWithinLimit, TxOK, ShapeOK, CoveredOK,
       RowOK, Apart

LEMMA CommitStep ==
    ASSUME IInv, NEW p \in Procs, Commit(p)
    PROVE  IInv'
<1> DEFINE t == tx[p]
<1>1. /\ t \in Transactions /\ ShapeOK(t) /\ CoveredOK(t) /\ RowOK(t.o, t.row)
      /\ TypeOK /\ StockNonNegative /\ CouponWithinLimit
    BY TxFacts DEF IInv, TxOK
<1>2. t.op # "idle" /\ t.o \in Orders
    BY <1>1 DEF Commit, At, ShapeOK
<1>3. /\ t.row \in Rows /\ t.done \subseteq Variants /\ t.coup \in BOOLEAN
      /\ Qty[t.o] \in [Variants -> Nat]
    BY <1>1, <1>2, OrderTxAssumption DEF Transactions
<1>4. /\ order' = IF t.row = NoRow THEN order ELSE [order EXCEPT ![t.o] = t.row]
      /\ stock' = [ v \in Variants |-> stock[v] + StockDelta(p, v) ]
      /\ used' = used + UsageDelta(p)
      /\ tx' = [tx EXCEPT ![p] = IdleTx] /\ lapsed' = lapsed
    BY DEF Commit
<1>5. \A v \in Variants : /\ StockDelta(p, v) \in Int
                          /\ stock[v] + StockDelta(p, v) >= 0
                          /\ v \notin t.done => StockDelta(p, v) = 0
    BY <1>1, <1>3 DEF StockDelta, CoveredOK, StockNonNegative, TypeOK
<1>6. /\ UsageDelta(p) \in Int /\ used + UsageDelta(p) \in 0 .. UsageLimit
      /\ ~t.coup => UsageDelta(p) = 0
    BY <1>1, <1>3, OrderTxAssumption DEF UsageDelta, CoveredOK, CouponWithinLimit, TypeOK
<1>7. /\ \A q \in Procs : tx'[q] = IF q = p THEN IdleTx ELSE tx[q]
      /\ \A o \in Orders : order'[o] = IF t.row # NoRow /\ o = t.o THEN t.row ELSE order[o]
      /\ \A v \in Variants : stock'[v] = stock[v] + StockDelta(p, v)
    BY <1>1, <1>4 DEF TypeOK
<1>8. TypeOK'
    <2>1. order' \in [Orders -> Rows]
        BY <1>1, <1>3, <1>4 DEF TypeOK
    <2>2. stock' \in [Variants -> Int] /\ used' \in Int
        BY <1>1, <1>4, <1>5, <1>6 DEF TypeOK
    <2>3. tx' \in [Procs -> Transactions] /\ lapsed' \in SUBSET Orders
        BY <1>1, <1>4, IdleTxFacts DEF TypeOK
    <2> QED
        BY <2>1, <2>2, <2>3 DEF TypeOK
<1>9. StockNonNegative' /\ CouponWithinLimit'
    BY <1>4, <1>5, <1>6, <1>7 DEF StockNonNegative, CouponWithinLimit
<1>10. ASSUME NEW o \in Orders PROVE RowOK(o, order[o])'
    BY <1>1, <1>7, RowFacts DEF RowOK
<1>11. ASSUME NEW q \in Procs PROVE TxOK(tx[q])'
    <2>1. CASE q = p
        <3>1. tx'[q] = IdleTx
            BY <1>7, <2>1
        <3>2. ShapeOK(IdleTx) /\ RowOK(IdleTx.o, IdleTx.row)
            BY IdleTxFacts DEF TxOK
        <3>3. IdleTx.op = "idle" /\ IdleTx.coup = FALSE
            BY DEF IdleTx, Begin
        <3> QED
            BY <3>1, <3>2, <3>3 DEF TxOK, ShapeOK, CoveredOK, RowOK
    <2>2. CASE q # p
        <3> DEFINE u == tx[q]
        <3>1. u \in Transactions /\ TxOK(u) /\ ShapeOK(u) /\ CoveredOK(u) /\ tx'[q] = u
            BY <1>7, <2>2, TxFacts
        <3>2. Apart(u, t) /\ Apart(t, u)
            BY <2>2 DEF IInv
        <3>3. u.op # "idle" => u.o \in Orders
            BY <3>1 DEF ShapeOK
        <3>4. u.op = "create" => order'[u.o] = NoRow
            BY <1>7, <3>1, <3>2, <3>3 DEF CoveredOK, Apart
        <3>5. \A v \in u.done : v \in Variants /\ stock'[v] = stock[v]
            <4> TAKE v \in u.done
            <4>1. v \in Variants /\ v \notin t.done
                BY <3>1, <3>2 DEF Transactions, Apart
            <4>2. stock'[v] = stock[v] + 0
                BY <1>5, <1>7, <4>1
            <4> QED
                BY <1>1, <4>1, <4>2 DEF TypeOK
        <3>6. u.op \notin {"create", "idle"} => order'[u.o] # NoRow
            BY <1>7, <3>1, <3>3 DEF CoveredOK
        <3>7. u.coup => used' = used
            BY <1>1, <1>4, <1>6, <3>2 DEF Apart, TypeOK
        <3>8. CoveredOK(u)'
            BY <3>1, <3>4, <3>5, <3>6, <3>7 DEF CoveredOK
        <3> QED
            BY <3>1, <3>8 DEF TxOK, ShapeOK, RowOK, CoveredOK
    <2> QED
        BY <2>1, <2>2
<1>12. ASSUME NEW q \in Procs, NEW r \in Procs, q # r PROVE Apart(tx[q], tx[r])'
    <2>1. /\ q # p => tx'[q] = tx[q]
          /\ r # p => tx'[r] = tx[r]
          /\ q = p => tx'[q] = IdleTx
          /\ r = p => tx'[r] = IdleTx
        BY <1>7
    <2>2. Apart(tx[q], tx[r]) /\ Apart(IdleTx, tx[r]) /\ Apart(tx[q], IdleTx)
        BY <1>12, IdleTxFacts DEF IInv
    <2> QED
        BY <1>12, <2>1, <2>2 DEF Apart
<1> QED
    BY <1>8, <1>9, <1>10, <1>11, <1>12 DEF IInv

-----------------------------------------------------------------------------
(* The invariant, and what follows from it.                                 *)

LEMMA NextIInv == IInv /\ [Next]_vars => IInv'
<1> SUFFICES ASSUME IInv, [Next]_vars PROVE IInv'
    OBVIOUS
<1>1. ASSUME NEW p \in Procs, Call(p) PROVE IInv'
    <2> PICK o \in Orders :
            \/ CreateBegin(p, o) \/ CancelBegin(p, o) \/ Expire(p, o) \/ PaymentFailed(p, o)
            \/ \E to \in LiveStatuses : TransitionBegin(p, o, to)
            \/ MarkPaidBegin(p, o) \/ CollectBegin(p, o) \/ RefundBegin(p, o)
            \/ DeleteBegin(p, o)
        BY <1>1 DEF Call
    <2>1. CASE CreateBegin(p, o)
        BY <2>1, CreateBeginStep
    <2>2. CASE CancelBegin(p, o) \/ CollectBegin(p, o) \/ RefundBegin(p, o) \/ DeleteBegin(p, o)
        BY <2>2, OtherBeginStep
    <2>3. CASE Expire(p, o)
        BY <2>3, ReleaseNowStep DEF Expire, Released
    <2>4. CASE PaymentFailed(p, o)
        BY <2>4, ReleaseNowStep DEF PaymentFailed, Released
    <2>5. CASE \E to \in LiveStatuses : TransitionBegin(p, o, to)
        BY <2>5, TransitionBeginStep
    <2>6. CASE MarkPaidBegin(p, o)
        BY <2>6, ReadForPaymentStep DEF MarkPaidBegin
    <2> QED
        BY <2>1, <2>2, <2>3, <2>4, <2>5, <2>6
<1>2. ASSUME NEW p \in Procs, Statement(p) PROVE IInv'
    <2>1. CASE \E v \in Variants : Reserve(p, v)
        BY <2>1, ReserveStep
    <2>2. CASE \E v \in Variants : Restock(p, v)
        BY <2>2, RestockStep
    <2>3. CASE CountUses(p) \/ Redeem(p) \/ Unredeem(p) \/ FindItems(p)
        BY <2>3, CouponStep
    <2>4. CASE Insert(p)
        BY <2>4, InsertStep
    <2>5. CASE Flip(p)
        BY <2>5, FlipStep
    <2>6. CASE Advance(p) \/ MarkPaid(p) \/ Collect(p) \/ Refund(p)
        BY <2>6, UpdateStep
    <2>7. CASE TransitionToPaid(p)
        <3>1. tx[p].o \in Orders
            BY <2>7, TxFacts DEF TransitionToPaid, At, ShapeOK
        <3> QED
            BY <2>7, <3>1, ReadForPaymentStep DEF TransitionToPaid
    <2>8. CASE Drop(p)
        BY <2>8, DropStep
    <2> QED
        BY <1>2, <2>1, <2>2, <2>3, <2>4, <2>5, <2>6, <2>7, <2>8 DEF Statement
<1>3. ASSUME NEW p \in Procs, Commit(p) PROVE IInv'
    BY <1>3, CommitStep
<1>4. ASSUME NEW p \in Procs, Abort(p) PROVE IInv'
    BY <1>4, AbortStep
<1>5. ASSUME NEW o \in Orders, Lapse(o) PROVE IInv'
    BY <1>5, LapseStep
<1>6. CASE UNCHANGED vars
    BY <1>6 DEF vars, IInv, TypeOK, StockNonNegative, CouponWithinLimit, TxOK, ShapeOK,
                CoveredOK, RowOK, Apart
<1> QED
    BY <1>1, <1>2, <1>3, <1>4, <1>5, <1>6 DEF Next

LEMMA AlwaysIInv == Spec => []IInv
BY InitIInv, NextIInv, PTL DEF Spec

\* Every reachable state is well typed: in particular the order statuses, the
\* payment statuses and the shape of the open transactions.
THEOREM TypeSafety == Spec => []TypeOK
<1>1. IInv => TypeOK
    BY DEF IInv
<1> QED
    BY <1>1, AlwaysIInv, PTL

\* create's guarded decrement never oversells: the committed stock of a variant is
\* never negative, whatever operations run concurrently.
THEOREM NeverOversold == Spec => []StockNonNegative
<1>1. IInv => StockNonNegative
    BY DEF IInv
<1> QED
    BY <1>1, AlwaysIInv, PTL

\* The units an open create call has decremented stay available to it.
THEOREM ReservationsCovered == Spec => []ReservedCovered
<1>1. IInv => ReservedCovered
    BY DEF IInv, TxOK, CoveredOK, ReservedCovered
<1> QED
    BY <1>1, AlwaysIInv, PTL

\* The coupon's usageCount stays between zero and usageLimit.
THEOREM CouponNeverOverspent == Spec => []CouponWithinLimit
<1>1. IInv => CouponWithinLimit
    BY DEF IInv
<1> QED
    BY <1>1, AlwaysIInv, PTL

\* No paid ONLINE order is cancelled or expired by a release, an expiry, a failed
\* payment or an admin transition, even when they race with the payment.
THEOREM ReleaseSparesPaid == Spec => []ReleasedIsUnpaid
<1>1. IInv => ReleasedIsUnpaid
    BY DEF IInv, RowOK, ReleasedIsUnpaid
<1> QED
    BY <1>1, AlwaysIInv, PTL

\* Status PAID always goes with paymentStatus PAID.
THEOREM PaidMeansCollected == Spec => []PaidIsCollected
<1>1. IInv => PaidIsCollected
    BY DEF IInv, RowOK, PaidIsCollected
<1> QED
    BY <1>1, AlwaysIInv, PTL

-----------------------------------------------------------------------------
(* Idempotency keys: the unique index looks at committed rows and at the     *)
(* inserts of open transactions, and no update brings a deleted row back.    *)

Inserted(t) == t.op = "create" /\ t.row # NoRow

KeyOK(t) ==
    /\ Inserted(t) => \A o \in Orders : order[o].live => RequestKey[o] # RequestKey[t.o]
    /\ t.op # "create" /\ t.row.live => order[t.o].live

KeyInv ==
    /\ OneOrderPerKey
    /\ \A p \in Procs : KeyOK(tx[p])
    /\ \A p, q \in Procs : p # q /\ Inserted(tx[p]) /\ Inserted(tx[q])
                           => RequestKey[tx[p].o] # RequestKey[tx[q].o]

\* A statement or a call whose transaction keeps its row, or keys that are not taken.
LEMMA KeyStep ==
    ASSUME IInv, KeyInv, NEW p \in Procs, NEW t, DbUnchanged,
           tx'[p] = t, \A q \in Procs \ {p} : tx'[q] = tx[q],
           \/ t.op = tx[p].op /\ t.o = tx[p].o /\ t.row = tx[p].row
           \/ t.row = NoRow
           \/ t.op # "create" /\ (t.row.live => order[t.o].live)
           \/ KeyFree(p, t.o) /\ ~KeyTaken(t.o) /\ t.op = "create"
    PROVE  KeyInv'
<1>1. UNCHANGED order /\ \A q \in Procs : tx'[q] = IF q = p THEN t ELSE tx[q]
    BY DEF DbUnchanged
<1>2. KeyOK(t) /\ \A q \in Procs \ {p} :
        Inserted(t) /\ Inserted(tx[q]) => RequestKey[t.o] # RequestKey[tx[q].o]
    <2>1. CASE t.op = tx[p].op /\ t.o = tx[p].o /\ t.row = tx[p].row
        BY <2>1 DEF KeyInv, KeyOK, Inserted
    <2>2. CASE t.row = NoRow
        BY <2>2 DEF KeyOK, Inserted, NoRow
    <2>3. CASE t.op # "create" /\ (t.row.live => order[t.o].live)
        BY <2>3 DEF KeyOK, Inserted
    <2>4. CASE KeyFree(p, t.o) /\ ~KeyTaken(t.o) /\ t.op = "create"
        BY <2>4 DEF KeyFree, KeyTaken, KeyOK, Inserted
    <2> QED
        BY <2>1, <2>2, <2>3, <2>4
<1>3. ASSUME NEW q \in Procs PROVE KeyOK(tx[q])'
    BY <1>1, <1>2 DEF KeyInv, KeyOK, Inserted
<1>4. ASSUME NEW q \in Procs, NEW r \in Procs, q # r, Inserted(tx[q])', Inserted(tx[r])'
      PROVE  RequestKey[tx'[q].o] # RequestKey[tx'[r].o]
    BY <1>1, <1>2, <1>4 DEF KeyInv, Inserted
<1>5. OneOrderPerKey'
    BY <1>1 DEF KeyInv, OneOrderPerKey
<1> QED
    BY <1>3, <1>4, <1>5 DEF KeyInv

LEMMA CallKey ==
    ASSUME IInv, KeyInv, NEW p \in Procs, Call(p)
    PROVE  KeyInv'
<1> PICK o \in Orders :
        \/ CreateBegin(p, o) \/ CancelBegin(p, o) \/ Expire(p, o) \/ PaymentFailed(p, o)
        \/ \E to \in LiveStatuses : TransitionBegin(p, o, to)
        \/ MarkPaidBegin(p, o) \/ CollectBegin(p, o) \/ RefundBegin(p, o) \/ DeleteBegin(p, o)
    BY DEF Call
<1>1. \A op, pc, q, to : Begin(op, pc, q, to).row = NoRow
    BY DEF Begin
<1>2. ASSUME NEW op, NEW pc, NEW to, DbUnchanged, tx' = [tx EXCEPT ![p] = Begin(op, pc, o, to)]
      PROVE  KeyInv'
    <2> DEFINE t == Begin(op, pc, o, to)
    <2>1. t.row = NoRow
        BY <1>1
    <2>2. tx'[p] = t /\ \A q \in Procs \ {p} : tx'[q] = tx[q]
        BY <1>2 DEF IInv, TypeOK
    <2> HIDE DEF t
    <2> QED
        BY <1>2, <2>1, <2>2, KeyStep
<1>3. ASSUME NEW to, ReleaseNow(p, o, to) PROVE KeyInv'
    <2> DEFINE t == [Begin("release", AfterFlip(o), o, to) EXCEPT !.row = ReleasedRow(o, to)]
    <2>1. t.op # "create" /\ t.o = o
        BY DEF Begin
    <2>2. tx'[p] = t /\ (\A q \in Procs \ {p} : tx'[q] = tx[q]) /\ DbUnchanged /\ order[o].live
        BY <1>3 DEF ReleaseNow, IInv, TypeOK
    <2> HIDE DEF t
    <2> QED
        BY <2>1, <2>2, KeyStep
<1>4. CASE \E to \in LiveStatuses : TransitionBegin(p, o, to)
    BY <1>2, <1>4 DEF TransitionBegin, TransitionTx
<1>5. CASE Expire(p, o) \/ PaymentFailed(p, o)
    BY <1>3, <1>5 DEF Expire, PaymentFailed
<1>6. CASE CreateBegin(p, o) \/ CancelBegin(p, o) \/ CollectBegin(p, o) \/ RefundBegin(p, o)
           \/ DeleteBegin(p, o)
    BY <1>2, <1>6 DEF CreateBegin, CancelBegin, CollectBegin, RefundBegin, DeleteBegin
<1>7. CASE MarkPaidBegin(p, o)
    BY <1>2, <1>7 DEF MarkPaidBegin, ReadForPayment
<1> QED
    BY <1>4, <1>5, <1>6, <1>7

LEMMA StatementKey ==
    ASSUME IInv, KeyInv, NEW p \in Procs, Statement(p) \/ Abort(p)
    PROVE  KeyInv'
<1>0. tx[p] \in Transactions /\ ShapeOK(tx[p])
    BY TxFacts
<1>1. ASSUME NEW row, NEW pc, WriteRow(p, row, pc), DbUnchanged, tx[p].op # "create",
             row.live => order[tx[p].o].live
      PROVE  KeyInv'
    <2> DEFINE t == tx'[p]
    <2>1. t.op # "create" /\ t.o = tx[p].o /\ t.row = row
        BY <1>0, <1>1 DEF Transactions, WriteRow, IInv, TypeOK
    <2>2. tx'[p] = t /\ \A q \in Procs \ {p} : tx'[q] = tx[q]
        BY <1>1 DEF WriteRow, IInv, TypeOK
    <2> HIDE DEF t
    <2> QED
        BY <1>1, <2>1, <2>2, KeyStep
<1>2. CASE (\E v \in Variants : Reserve(p, v) \/ Restock(p, v)) \/ CountUses(p) \/ Redeem(p)
           \/ Unredeem(p) \/ FindItems(p)
    <2> DEFINE t == tx'[p]
    <2>1. /\ t.op = tx[p].op /\ t.o = tx[p].o /\ t.row = tx[p].row
          /\ \A q \in Procs \ {p} : tx'[q] = tx[q]
        <3>1. CASE \E v \in Variants : Reserve(p, v) \/ Restock(p, v)
            BY <1>0, <3>1 DEF Reserve, Restock, Transactions, IInv, TypeOK
        <3>2. CASE CountUses(p)
            BY <1>0, <3>2 DEF CountUses, Transactions, IInv, TypeOK
        <3>3. CASE FindItems(p)
            BY <1>0, <3>3 DEF FindItems, Transactions, IInv, TypeOK
        <3>4. CASE Redeem(p)
            BY <1>0, <3>4 DEF Redeem, Transactions, IInv, TypeOK
        <3>5. CASE Unredeem(p)
            BY <1>0, <3>5 DEF Unredeem, Transactions, IInv, TypeOK
        <3> QED
            BY <1>2, <3>1, <3>2, <3>3, <3>4, <3>5
    <2>2. DbUnchanged
        BY <1>2 DEF Reserve, Restock, CountUses, FindItems, Redeem, Unredeem
    <2>3. tx'[p] = t
        OBVIOUS
    <2> HIDE DEF t
    <2> QED
        BY <2>1, <2>2, <2>3, KeyStep
<1>3. CASE Insert(p)
    <2> DEFINE o == tx[p].o
               t == tx'[p]
    <2>1. t.op = "create" /\ t.o = o
        BY <1>0, <1>3 DEF Transactions, Insert, WriteRow, At, ShapeOK, CreateSteps, IInv, TypeOK
    <2>2. /\ tx'[p] = t /\ \A q \in Procs \ {p} : tx'[q] = tx[q]
          /\ DbUnchanged /\ KeyFree(p, o) /\ ~KeyTaken(o)
        BY <1>3 DEF Insert, WriteRow, IInv, TypeOK
    <2> HIDE DEF t
    <2> QED
        BY <2>1, <2>2, KeyStep
<1>4. CASE Flip(p) \/ Advance(p) \/ MarkPaid(p) \/ Collect(p) \/ Refund(p) \/ Drop(p)
    <2>1. tx[p].op # "create" /\ DbUnchanged
        BY <1>0, <1>4 DEF ShapeOK, CreateSteps, Flip, Advance, MarkPaid, Collect, Refund, Drop, At
    <2>2. CASE Drop(p)
        BY <1>1, <2>1, <2>2 DEF Drop, NoRow
    <2>3. CASE Flip(p)
        BY <1>1, <2>1, <2>3 DEF Flip, Releasable
    <2>4. CASE Advance(p) \/ MarkPaid(p)
        BY <1>1, <2>1, <2>4 DEF Advance, MarkPaid
    <2>5. CASE Collect(p) \/ Refund(p)
        BY <1>1, <2>1, <2>5 DEF Collect, Refund
    <2> QED
        BY <1>4, <2>2, <2>3, <2>4, <2>5
<1>5. CASE TransitionToPaid(p) \/ Abort(p)
    <2>1. PICK op, pc, q, to : tx' = [tx EXCEPT ![p] = Begin(op, pc, q, to)]
        BY <1>5 DEF TransitionToPaid, ReadForPayment, Abort, IdleTx
    <2>2. Begin(op, pc, q, to).row = NoRow
        BY DEF Begin
    <2>3. DbUnchanged
        BY <1>5 DEF TransitionToPaid, ReadForPayment, Abort
    <2>4. tx'[p] = Begin(op, pc, q, to) /\ \A r \in Procs \ {p} : tx'[r] = tx[r]
        BY <2>1 DEF IInv, TypeOK
    <2> QED
        BY <2>2, <2>3, <2>4, KeyStep
<1> QED
    BY <1>2, <1>3, <1>4, <1>5 DEF Statement

LEMMA CommitKey ==
    ASSUME IInv, KeyInv, NEW p \in Procs, Commit(p)
    PROVE  KeyInv'
<1>0. tx[p] \in Transactions /\ tx[p].o \in Orders
    BY TxFacts DEF Commit, At, ShapeOK
<1>1. \A q \in Procs : tx'[q] = IF q = p THEN IdleTx ELSE tx[q]
    BY DEF Commit, IInv, TypeOK
<1>2. IdleTx.row = NoRow /\ ~NoRow.live
    BY DEF IdleTx, Begin, NoRow
<1>3. \A o \in Orders :
        order'[o] = IF tx[p].row # NoRow /\ o = tx[p].o THEN tx[p].row ELSE order[o]
    BY <1>0 DEF Commit, IInv, TypeOK
<1>4. ASSUME NEW q \in Procs \ {p}, ~Inserted(tx[q]), tx[q].op # "create", tx[q].row.live
      PROVE  order'[tx[q].o].live
    <2>1. tx[q].row # NoRow /\ order[tx[q].o].live
        BY <1>2, <1>4 DEF KeyInv, KeyOK
    <2>2. tx[q].o \in Orders
        BY <2>1, TxFacts, <1>2, <1>4 DEF ShapeOK
    <2>3. ~(tx[p].row # NoRow /\ tx[q].o = tx[p].o)
        BY <2>1 DEF IInv, Apart
    <2> QED
        BY <1>3, <2>1, <2>2, <2>3
<1>5. CASE Inserted(tx[p])
    <2>1. \A o \in Orders : order[o].live => RequestKey[o] # RequestKey[tx[p].o]
        BY <1>5 DEF KeyInv, KeyOK
    <2>2. \A o \in Orders : order'[o].live => order[o].live \/ o = tx[p].o
        BY <1>3
    <2>3. OneOrderPerKey'
        BY <2>1, <2>2 DEF KeyInv, OneOrderPerKey
    <2>4. ASSUME NEW q \in Procs PROVE KeyOK(tx[q])'
        <3>1. CASE q = p
            BY <1>1, <1>2, <3>1 DEF KeyOK, Inserted
        <3>2. CASE q # p
            BY <1>1, <1>4, <1>5, <2>2, <3>2 DEF KeyInv, KeyOK, Inserted
        <3> QED
            BY <3>1, <3>2
    <2> QED
        BY <1>1, <1>2, <2>3, <2>4 DEF KeyInv, Inserted
<1>6. CASE ~Inserted(tx[p])
    <2>1. \A o \in Orders : order'[o].live => order[o].live
        BY <1>2, <1>3, <1>6 DEF KeyInv, KeyOK, Inserted
    <2>2. OneOrderPerKey'
        BY <2>1 DEF KeyInv, OneOrderPerKey
    <2>3. ASSUME NEW q \in Procs PROVE KeyOK(tx[q])'
        <3>1. CASE q = p
            BY <1>1, <1>2, <3>1 DEF KeyOK, Inserted
        <3>2. CASE q # p
            BY <1>1, <1>4, <2>1, <3>2 DEF KeyInv, KeyOK, Inserted
        <3> QED
            BY <3>1, <3>2
    <2> QED
        BY <1>1, <1>2, <2>2, <2>3 DEF KeyInv, Inserted
<1> QED
    BY <1>5, <1>6

LEMMA NextKey == IInv /\ KeyInv /\ [Next]_vars => KeyInv'
<1> SUFFICES ASSUME IInv, KeyInv, [Next]_vars PROVE KeyInv'
    OBVIOUS
<1>1. ASSUME UNCHANGED << order, tx >> PROVE KeyInv'
    BY <1>1 DEF KeyInv, OneOrderPerKey, KeyOK, Inserted
<1>2. ASSUME NEW o \in Orders, Lapse(o) PROVE KeyInv'
    BY <1>1, <1>2 DEF Lapse
<1>3. CASE UNCHANGED vars
    BY <1>1, <1>3 DEF vars
<1> QED
    BY <1>2, <1>3, CallKey, StatementKey, CommitKey DEF Next

\* create: the look-up before the transaction and the unique index on idempotencyKey leave at
\* most one order for a key, however often and from how many clients it is submitted, and
\* whatever else changes or deletes orders meanwhile.
THEOREM KeysAreUnique == Spec => []OneOrderPerKey
<1>1. Init => KeyInv
    BY DEF Init, KeyInv, OneOrderPerKey, KeyOK, Inserted, IdleTx, Begin, NoRow
<1>2. KeyInv => OneOrderPerKey
    BY DEF KeyInv
<1> QED
    BY <1>1, <1>2, InitIInv, NextIInv, NextKey, PTL DEF Spec
=============================================================================
