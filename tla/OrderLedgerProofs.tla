-------------------------- MODULE OrderLedgerProofs --------------------------
(***************************************************************************)
(* The order transactions implement the reservation ledger, for every value *)
(* of the constants: where only create, cancel, expire and the failed        *)
(* payment change orders, however they overlap, and for all operations where *)
(* no two open calls are about one order.  The conservation laws of the      *)
(* ledger then hold, and in the first case the life cycle of the orders.     *)
(***************************************************************************)
EXTENDS OrderTxProofs, FiniteSetTheorems

\* The ledger again, with the laws proved of it.
Laws == INSTANCE ReservationLedgerProofs
            WITH claim <- [ o \in Orders |-> ClaimOf(order[o]) ]

ReservationCalls == Ops \subseteq { "create", "cancel", "expire", "payFailed" }

\* No two calls that are open at a time are about the same order.
OrdersApart ==
    \A p, q \in Procs : p # q /\ tx[p].op # "idle" => tx[p].o # tx[q].o

\* Either condition is enough for the ledger.
Orderly == ReservationCalls \/ OrdersApart

ReservationTxOps == { "idle", "create", "release" }

LaterOps == { "pay", "advance", "collect", "refund" }

\* A create call has taken what its step says, and all of it when it commits.
CreateOK(t) ==
    /\ t.pc \in {"count", "redeem"} => t.o \in Couponed
    /\ t.pc \in {"count", "redeem", "insert", "commit"} => t.done = Items(t.o)
    /\ t.coup = (t.pc \in {"insert", "commit"} /\ t.o \in Couponed)
    /\ t.pc = "commit" => t.row = NewRow(t.o)

\* A release that has flipped the row keeps the committed order releasable until it
\* commits, and then returns all the order holds.
ReleaseOK(t) ==
    /\ t.pc \in {"flip", "unredeem", "restock", "commit"}
    /\ t.pc = "unredeem" => t.o \in Couponed
    /\ t.coup = (t.pc \in {"restock", "commit"} /\ t.o \in Couponed)
    /\ t.pc = "commit" => t.done = Items(t.o)
    /\ t.pc = "flip" /\ t.to # "CANCELLED" =>
         ~ReservationCalls /\ order[t.o].live /\ order[t.o].status = "PENDING"
    /\ t.pc # "flip" =>
         /\ t.row.live /\ t.row.status \in Released /\ Releasable(t.o)
         /\ TransitionAllowed(order[t.o].status, t.row.status)

\* A later status change of an order that is not released takes and returns nothing.
LaterOK(t) ==
    /\ t.pc \in {"payread", "pay", "advance", "collect", "refund", "commit"}
    /\ t.done = {} /\ ~t.coup
    /\ order[t.o].live /\ order[t.o].status \notin Released
    /\ t.pc = "advance" => TransitionAllowed(order[t.o].status, t.to)
    /\ t.pc = "pay" => TransitionAllowed(order[t.o].status, "PAID")
    /\ t.pc = "refund" => order[t.o].status = "PAID"
    /\ t.row # NoRow => /\ t.row.live /\ t.row.status \notin Released
                        /\ TransitionAllowed(order[t.o].status, t.row.status)

\* A deletion returns all that an order still holds, and nothing of one that is shipped
\* or released.
DeleteOK(t) ==
    LET holds == order[t.o].status \in HoldingStock IN
    /\ t.pc \in {"items", "restock", "unredeem", "drop", "commit"}
    /\ order[t.o].live
    /\ t.pc \in {"items", "restock", "unredeem"} => holds
    /\ t.pc = "unredeem" => t.o \in Couponed /\ t.done = Items(t.o)
    /\ t.pc \in {"drop", "commit"} => t.done = IF holds THEN Items(t.o) ELSE {}
    /\ t.coup = (t.pc \in {"drop", "commit"} /\ t.o \in Couponed /\ holds)
    /\ t.pc = "commit" => t.row = [order[t.o] EXCEPT !.live = FALSE]

CallOK(t) ==
    /\ ReservationCalls => t.op \in ReservationTxOps
    /\ t.op = "create" => CreateOK(t)
    /\ t.op = "release" => ReleaseOK(t)
    /\ t.op \in LaterOps => LaterOK(t)
    /\ t.op = "delete" => DeleteOK(t)

CallInv ==
    /\ \A p \in Procs : CallOK(tx[p])
    /\ Laws!LedgerInv

LEMMA ConstantsOfLedger == Laws!LedgerConstants
BY OrderTxAssumption DEF Laws!LedgerConstants

\* The two instances of the ledger are the same specification.
LEMMA SameLedger ==
    /\ Ledger!LedgerInit <=> Laws!LedgerInit
    /\ Ledger!LedgerNext <=> Laws!LedgerNext
    /\ Ledger!vars = Laws!vars
    /\ UNCHANGED Ledger!vars <=> UNCHANGED Laws!vars
BY DEF Ledger!LedgerInit, Laws!LedgerInit, Ledger!LedgerNext, Laws!LedgerNext, Ledger!Take,
       Laws!Take, Ledger!GiveBack, Laws!GiveBack, Ledger!Uses, Laws!Uses, Ledger!vars, Laws!vars

LEMMA SameSets ==
    ASSUME NEW S
    PROVE  /\ Laws!IsFiniteSet(S) = IsFiniteSet(S)
           /\ Laws!Cardinality(S) = Cardinality(S)
           /\ Ledger!Cardinality(S) = Cardinality(S)
<1>1. Laws!IsFiniteSet(S) = IsFiniteSet(S)
    BY DEF Laws!IsFiniteSet, IsFiniteSet
<1>2. Laws!Cardinality(S) = Cardinality(S)
    BY DEF Laws!Cardinality, Cardinality
<1>3. Ledger!Cardinality(S) = Cardinality(S)
    BY DEF Ledger!Cardinality, Cardinality
<1> QED
    BY <1>1, <1>2, <1>3

LEMMA SameHolders ==
    Ledger!Holders = Laws!Holders /\ \A S, v : Ledger!Units(S, v) = Laws!Units(S, v)
BY DEF Ledger!Holders, Laws!Holders, Ledger!Units, Laws!Units

LEMMA LedgerInvStep ==
    ASSUME Laws!LedgerInv, Ledger!LedgerNext \/ UNCHANGED Ledger!vars
    PROVE  Laws!LedgerInv'
BY SameLedger, ConstantsOfLedger, Laws!LedgerStep

LEMMA InitLedger == Init => Ledger!LedgerInit
BY DEF Init, Ledger!LedgerInit, ClaimOf, NoRow

LEMMA InitCallInv == Init => CallInv
<1> SUFFICES ASSUME Init PROVE CallInv
    OBVIOUS
<1>1. Laws!LedgerInv
    BY InitLedger, SameLedger, ConstantsOfLedger, Laws!LedgerInitInv
<1> QED
    BY <1>1 DEF Init, CallInv, CallOK, IdleTx, Begin, ReservationTxOps, LaterOps

\* The use of a coupon by a held order is in the count.
LEMMA HeldUse ==
    ASSUME Laws!LedgerInv, NEW o \in Orders \cap Couponed,
           order[o].status \in HoldingStock, order[o].live
    PROVE  used > 0
<1> DEFINE S == Laws!Holders \cap Couponed
<1>1. o \in S
    BY DEF Laws!Holders, ClaimOf, Released, HoldingStock
<1>2. IsFiniteSet(S) /\ used = Cardinality(S)
    BY SameSets DEF Laws!LedgerInv, Laws!CouponLaw
<1> HIDE DEF S
<1>3. Cardinality(S) \in Nat /\ Cardinality(S) # 0
    BY <1>1, <1>2, FS_EmptySet, FS_CardinalityType
<1> QED
    BY <1>2, <1>3

-----------------------------------------------------------------------------
(* Every step but a commit changes only one transaction record.             *)

\* A record says what it did as long as the committed row of its order stays.
LEMMA CallStands ==
    ASSUME NEW q \in Procs, NEW u, tx'[q] = u, CallOK(u),
           u.op = "release" /\ u.pc # "flip" => order'[u.o] = order[u.o],
           u.op = "release" /\ ~ReservationCalls => order'[u.o] = order[u.o],
           u.op \in LaterOps \cup {"delete"} => order'[u.o] = order[u.o]
    PROVE  CallOK(tx[q])'
<1>1. CASE u.op = "create"
    BY <1>1 DEF CallOK, CreateOK, LaterOps, ReservationCalls, ReservationTxOps
<1>2. CASE u.op = "release"
    <2>1. ReleaseOK(u)
        BY <1>2 DEF CallOK
    <2>2. ReleaseOK(tx[q])'
        BY <1>2, <2>1 DEF ReleaseOK, Releasable, TransitionAllowed, ReservationCalls
    <2> QED
        BY <1>2, <2>2 DEF CallOK, LaterOps, ReservationCalls, ReservationTxOps
<1>3. CASE u.op \in LaterOps
    <2>1. LaterOK(tx[q])'
        BY <1>3 DEF CallOK, LaterOK, TransitionAllowed
    <2> QED
        BY <1>3, <2>1 DEF CallOK, LaterOps, ReservationCalls, ReservationTxOps
<1>4. CASE u.op = "delete"
    <2>1. DeleteOK(tx[q])'
        BY <1>4 DEF CallOK, DeleteOK
    <2> QED
        BY <1>4, <2>1 DEF CallOK, LaterOps, ReservationCalls, ReservationTxOps
<1>5. CASE u.op \notin {"create", "release", "delete"} \cup LaterOps
    BY <1>5 DEF CallOK, LaterOps, ReservationCalls, ReservationTxOps
<1> QED
    BY <1>1, <1>2, <1>3, <1>4, <1>5

LEMMA QuietStep ==
    ASSUME IInv, CallInv, NEW p \in Procs, NEW t \in Transactions, CallOK(t),
           tx' = [tx EXCEPT ![p] = t], DbUnchanged
    PROVE  CallInv' /\ UNCHANGED Ledger!vars
<1>1. UNCHANGED << order, stock, used >>
    BY DEF DbUnchanged
<1>2. UNCHANGED Ledger!vars
    BY <1>1 DEF Ledger!vars
<1>3. Laws!LedgerInv'
    BY <1>2, LedgerInvStep DEF CallInv
<1>4. ASSUME NEW q \in Procs PROVE CallOK(tx[q])'
    <2>1. tx'[q] = IF q = p THEN t ELSE tx[q]
        BY DEF IInv, TypeOK
    <2>2. CASE q = p
        BY <1>1, <2>1, <2>2, CallStands
    <2>3. CASE q # p
        BY <1>1, <2>1, <2>3, CallStands DEF CallInv
    <2> QED
        BY <2>2, <2>3
<1> QED
    BY <1>2, <1>3, <1>4 DEF CallInv

LEMMA CallFacts ==
    ASSUME IInv, CallInv, NEW p \in Procs
    PROVE  /\ CallOK(tx[p]) /\ tx[p] \in Transactions /\ ShapeOK(tx[p]) /\ CoveredOK(tx[p])
           /\ tx \in [Procs -> Transactions]
BY TxFacts DEF CallInv, IInv, TypeOK

\* A call that opens a transaction without a lock.
LEMMA BeginQuiet ==
    ASSUME IInv, CallInv, NEW p \in Procs, NEW o \in Orders, NEW op \in TxOps,
           NEW pc \in Steps, NEW to \in Statuses, CallOK(Begin(op, pc, o, to)),
           tx' = [tx EXCEPT ![p] = Begin(op, pc, o, to)], DbUnchanged
    PROVE  CallInv' /\ UNCHANGED Ledger!vars
<1>1. Begin(op, pc, o, to) \in Transactions
    BY BeginType
<1> QED
    BY <1>1, QuietStep

LEMMA ReleaseNowQuiet ==
    ASSUME IInv, CallInv, NEW p \in Procs, NEW o \in Orders, NEW to \in Released,
           ReleaseNow(p, o, to)
    PROVE  CallInv' /\ UNCHANGED Ledger!vars
<1> DEFINE pc == AfterFlip(o)
           row == ReleasedRow(o, to)
           t == [Begin("release", pc, o, to) EXCEPT !.row = row]
<1>1. /\ pc \in {"unredeem", "restock"}
      /\ pc = "unredeem" <=> o \in Couponed
    BY DEF AfterFlip
<1>2. order[o] \in Rows /\ order[o].live /\ order[o].status = "PENDING"
    BY RowFacts DEF ReleaseNow
<1>3. row \in Rows /\ row.live /\ row.status = to
    BY <1>2 DEF ReleasedRow, Rows, Released, Statuses, LiveStatuses
<1>4. tx' = [tx EXCEPT ![p] = t] /\ DbUnchanged
    BY DEF ReleaseNow
<1>5. Releasable(o) /\ TransitionAllowed(order[o].status, to)
    BY <1>2 DEF Releasable, CodCancellable, TransitionAllowed, AllowedTransitions,
                LiveStatuses, Released
<1> HIDE DEF pc, row
<1>6. /\ t.op = "release" /\ t.pc = pc /\ t.o = o /\ t.to = to /\ t.row = row
      /\ t.done = {} /\ t.coup = FALSE
    BY DEF Begin
<1>7. t \in Transactions
    BY <1>1, <1>2, <1>3 DEF Begin, Transactions, TxOps, Steps, Statuses, LiveStatuses, Released
<1> HIDE DEF t
<1>8. CallOK(t)
    BY <1>1, <1>3, <1>5, <1>6 DEF CallOK, ReleaseOK, ReservationTxOps, LaterOps
<1> QED
    BY <1>4, <1>7, <1>8, QuietStep

\* The new status that transitionStatus has checked, in each of its branches.
LEMMA TransitionQuiet ==
    ASSUME IInv, CallInv, NEW p \in Procs, NEW o \in Orders, NEW to \in LiveStatuses,
           TransitionBegin(p, o, to)
    PROVE  CallInv' /\ UNCHANGED Ledger!vars
<1>1. /\ order[o].live /\ order[o].status \in LiveStatuses /\ DbUnchanged /\ to \in Statuses
      /\ TransitionAllowed(order[o].status, to) /\ order[o].status # to
    BY RowFacts DEF TransitionBegin, Statuses
<1>2. ~ReservationCalls
    BY DEF TransitionBegin, ReservationCalls
<1>3. order[o].status \notin Released
    BY <1>1 DEF TransitionAllowed, AllowedTransitions, LiveStatuses, Released
<1>4. CASE to \in Released
    <2> DEFINE t == Begin("release", "flip", o, to)
    <2>1. to = "CANCELLED" \/ order[o].status = "PENDING"
        BY <1>1, <1>4 DEF TransitionAllowed, AllowedTransitions, LiveStatuses, Released
    <2>2. CallOK(t)
        BY <1>1, <1>2, <2>1 DEF CallOK, ReleaseOK, LaterOps, Begin
    <2>3. tx' = [tx EXCEPT ![p] = t]
        BY <1>4 DEF TransitionBegin, TransitionTx
    <2> QED
        BY <1>1, <2>2, <2>3, BeginQuiet DEF TxOps, Steps
<1>5. CASE to = "PAID"
    <2> DEFINE t == Begin("pay", "payread", o, to)
    <2>1. CallOK(t)
        BY <1>1, <1>2, <1>3 DEF CallOK, LaterOK, Begin
    <2>2. tx' = [tx EXCEPT ![p] = t]
        BY <1>5 DEF TransitionBegin, TransitionTx, Released
    <2> QED
        BY <1>1, <2>1, <2>2, BeginQuiet DEF TxOps, Steps
<1>6. CASE to \notin Released \cup {"PAID"}
    <2> DEFINE t == Begin("advance", "advance", o, to)
    <2>1. CallOK(t)
        BY <1>1, <1>2, <1>3 DEF CallOK, LaterOK, Begin
    <2>2. tx' = [tx EXCEPT ![p] = t]
        BY <1>6 DEF TransitionBegin, TransitionTx
    <2> QED
        BY <1>1, <2>1, <2>2, BeginQuiet DEF TxOps, Steps
<1> QED
    BY <1>4, <1>5, <1>6

LEMMA ReadForPaymentQuiet ==
    ASSUME IInv, CallInv, ~ReservationCalls, NEW p \in Procs, NEW o \in Orders,
           ReadForPayment(p, o)
    PROVE  CallInv' /\ UNCHANGED Ledger!vars
<1> DEFINE pc == IF order[o].status = "PAID" THEN "commit" ELSE "pay"
           t == Begin("pay", pc, o, "PAID")
<1>1. /\ order[o].live /\ order[o].status \in LiveStatuses /\ DbUnchanged
      /\ TransitionAllowed(order[o].status, "PAID") /\ tx' = [tx EXCEPT ![p] = t]
    BY RowFacts DEF ReadForPayment
<1>2. order[o].status \notin Released
    BY <1>1 DEF TransitionAllowed, AllowedTransitions, LiveStatuses, Released
<1>3. pc \in {"commit", "pay"}
    OBVIOUS
<1> HIDE DEF pc
<1>4. CallOK(t)
    BY <1>1, <1>2, <1>3 DEF CallOK, LaterOK, Begin
<1> QED
    BY <1>1, <1>3, <1>4, BeginQuiet DEF TxOps, Steps, Statuses, LiveStatuses

LEMMA CallQuiet ==
    ASSUME IInv, CallInv, NEW p \in Procs, Call(p)
    PROVE  CallInv' /\ UNCHANGED Ledger!vars
<1> PICK o \in Orders :
        \/ CreateBegin(p, o) \/ CancelBegin(p, o) \/ Expire(p, o) \/ PaymentFailed(p, o)
        \/ \E to \in LiveStatuses : TransitionBegin(p, o, to)
        \/ MarkPaidBegin(p, o) \/ CollectBegin(p, o) \/ RefundBegin(p, o)
        \/ DeleteBegin(p, o)
    BY DEF Call
<1> USE DEF TxOps, Steps
<1>1. {"PENDING", "CANCELLED", "NONE", "REFUNDED"} \subseteq Statuses
    BY DEF Statuses, LiveStatuses
<1>2. CASE CreateBegin(p, o)
    <2> DEFINE t == Begin("create", "reserve", o, "PENDING")
    <2>1. CallOK(t)
        BY DEF CallOK, CreateOK, Begin, ReservationTxOps, LaterOps
    <2>2. tx' = [tx EXCEPT ![p] = t] /\ DbUnchanged
        BY <1>2 DEF CreateBegin
    <2> QED
        BY <1>1, <2>1, <2>2, BeginQuiet
<1>3. CASE CancelBegin(p, o)
    <2> DEFINE t == Begin("release", "flip", o, "CANCELLED")
    <2>1. CallOK(t)
        BY DEF CallOK, ReleaseOK, Begin, ReservationTxOps, LaterOps
    <2>2. tx' = [tx EXCEPT ![p] = t] /\ DbUnchanged
        BY <1>3 DEF CancelBegin
    <2> QED
        BY <1>1, <2>1, <2>2, BeginQuiet
<1>4. CASE Expire(p, o) \/ PaymentFailed(p, o)
    BY <1>4, ReleaseNowQuiet DEF Expire, PaymentFailed, Released
<1>5. CASE \E to \in LiveStatuses : TransitionBegin(p, o, to)
    BY <1>5, TransitionQuiet
<1>6. CASE MarkPaidBegin(p, o)
    BY <1>6, ReadForPaymentQuiet DEF MarkPaidBegin, ReservationCalls
<1>7. CASE CollectBegin(p, o)
    <2> DEFINE t == Begin("collect", "collect", o, "NONE")
    <2>1. CallOK(t)
        BY <1>7 DEF CollectBegin, ReservationCalls, CallOK, LaterOK, Begin, Released
    <2>2. tx' = [tx EXCEPT ![p] = t] /\ DbUnchanged
        BY <1>7 DEF CollectBegin
    <2> QED
        BY <1>1, <2>1, <2>2, BeginQuiet
<1>8. CASE RefundBegin(p, o)
    <2> DEFINE t == Begin("refund", "refund", o, "REFUNDED")
    <2>1. CallOK(t)
        BY <1>8 DEF RefundBegin, ReservationCalls, CallOK, LaterOK, Begin, Released
    <2>2. tx' = [tx EXCEPT ![p] = t] /\ DbUnchanged
        BY <1>8 DEF RefundBegin
    <2> QED
        BY <1>1, <2>1, <2>2, BeginQuiet
<1>9. CASE DeleteBegin(p, o)
    <2> DEFINE pc == IF order[o].status \in HoldingStock THEN "items" ELSE "drop"
               t == Begin("delete", pc, o, "NONE")
    <2>1. /\ order[o].live /\ DbUnchanged /\ tx' = [tx EXCEPT ![p] = t]
          /\ ~ReservationCalls
        BY <1>9 DEF DeleteBegin, ReservationCalls
    <2>2. /\ pc \in {"items", "drop"}
          /\ pc = "items" <=> order[o].status \in HoldingStock
        OBVIOUS
    <2> HIDE DEF pc
    <2>3. CallOK(t)
        BY <2>1, <2>2 DEF CallOK, DeleteOK, Begin, LaterOps
    <2> QED
        BY <1>1, <2>1, <2>2, <2>3, BeginQuiet
<1> QED
    BY <1>2, <1>3, <1>4, <1>5, <1>6, <1>7, <1>8, <1>9

LEMMA CreateQuiet ==
    ASSUME IInv, CallInv, NEW p \in Procs,
           \/ \E v \in Variants : Reserve(p, v)
           \/ CountUses(p) \/ Redeem(p) \/ Insert(p)
    PROVE  CallInv' /\ UNCHANGED Ledger!vars
<1> USE DEF ReservationTxOps, LaterOps
<1>1. /\ tx[p] \in Transactions /\ CallOK(tx[p]) /\ tx \in [Procs -> Transactions]
      /\ tx[p].op = "create" /\ CreateOK(tx[p]) /\ DbUnchanged
    BY CallFacts DEF Reserve, CountUses, Redeem, Insert, At, ShapeOK, CreateSteps, CallOK
<1> SUFFICES \E t \in Transactions : CallOK(t) /\ tx' = [tx EXCEPT ![p] = t]
    BY <1>1, QuietStep
<1>2. ASSUME NEW v \in Variants, Reserve(p, v)
      PROVE  \E t \in Transactions : CallOK(t) /\ tx' = [tx EXCEPT ![p] = t]
    <2> DEFINE done == tx[p].done \cup {v}
               pc == IF done # Items(tx[p].o) THEN "reserve"
                     ELSE IF tx[p].o \in Couponed THEN "count" ELSE "insert"
               t == [tx[p] EXCEPT !.done = done, !.pc = pc]
    <2>1. /\ pc \in {"reserve", "count", "insert"}
          /\ pc # "reserve" => done = Items(tx[p].o)
          /\ pc = "count" => tx[p].o \in Couponed
          /\ pc = "insert" => tx[p].o \notin Couponed
          /\ tx[p].coup = FALSE
        BY <1>1, <1>2 DEF Reserve, At, CreateOK
    <2>2. tx' = [tx EXCEPT ![p] = t]
        BY <1>1, <1>2 DEF Reserve, Transactions
    <2>3. done \in SUBSET Variants
        BY <1>1 DEF Transactions
    <2> HIDE DEF pc, done
    <2>4. t \in Transactions /\ CallOK(t)
        BY <1>1, <2>1, <2>3 DEF Transactions, Steps, CallOK, CreateOK
    <2> QED
        BY <2>2, <2>4
<1>3. CASE CountUses(p)
    <2> DEFINE t == [tx[p] EXCEPT !.pc = "redeem"]
    <2>1. tx' = [tx EXCEPT ![p] = t]
        BY <1>1, <1>3 DEF CountUses, Transactions
    <2>2. t \in Transactions /\ CallOK(t)
        BY <1>1, <1>3 DEF CountUses, At, Transactions, Steps, CallOK, CreateOK
    <2> QED
        BY <2>1, <2>2
<1>4. CASE Redeem(p)
    <2> DEFINE t == [tx[p] EXCEPT !.coup = TRUE, !.pc = "insert"]
    <2>1. tx' = [tx EXCEPT ![p] = t]
        BY <1>1, <1>4 DEF Redeem, Transactions
    <2>2. t \in Transactions /\ CallOK(t)
        BY <1>1, <1>4 DEF Redeem, At, Transactions, Steps, CallOK, CreateOK
    <2> QED
        BY <2>1, <2>2
<1>5. CASE Insert(p)
    <2> DEFINE row == NewRow(tx[p].o)
               t == [tx[p] EXCEPT !.row = row, !.pc = "commit"]
    <2>1. tx' = [tx EXCEPT ![p] = t]
        BY <1>1, <1>5 DEF Insert, WriteRow, Transactions
    <2>2. row \in Rows
        BY DEF NewRow, Rows, Statuses, LiveStatuses, PaymentStatuses
    <2>3. t.row = NewRow(t.o)
        BY <1>1 DEF Transactions
    <2> HIDE DEF row
    <2>4. t \in Transactions /\ CallOK(t)
        BY <1>1, <1>5, <2>2, <2>3 DEF Insert, At, Transactions, Steps, CallOK, CreateOK
    <2> QED
        BY <2>1, <2>4
<1> QED
    BY <1>2, <1>3, <1>4, <1>5

\* Where a statement of a release, a deletion or a later change can run.
LEMMA StatementFacts ==
    ASSUME IInv, CallInv, NEW p \in Procs, DbUnchanged,
           tx[p].pc \notin CreateSteps \cup {"idle"}
    PROVE  /\ tx[p] \in Transactions /\ CallOK(tx[p]) /\ tx \in [Procs -> Transactions]
           /\ tx[p].o \in Orders /\ order[tx[p].o] \in Rows
           /\ tx[p].op \in {"create", "release", "delete"} \cup LaterOps
           /\ tx[p].op = "create" => tx[p].pc = "commit"
           /\ order[tx[p].o].live => order[tx[p].o].status \in LiveStatuses
BY CallFacts, RowFacts DEF ShapeOK, CreateSteps, LaterOps, TxOps, Transactions

LEMMA RestockQuiet ==
    ASSUME IInv, CallInv, NEW p \in Procs, NEW v \in Variants, Restock(p, v)
    PROVE  CallInv' /\ UNCHANGED Ledger!vars
<1> DEFINE done == tx[p].done \cup {v}
           pc == IF done # Items(tx[p].o) THEN "restock" ELSE AfterRestock(p)
           t == [tx[p] EXCEPT !.done = done, !.pc = pc]
<1>1. DbUnchanged /\ tx[p].pc = "restock"
    BY DEF Restock, At
<1>2. /\ tx[p] \in Transactions /\ CallOK(tx[p]) /\ tx \in [Procs -> Transactions]
      /\ tx[p].op \in {"release", "delete"}
    BY <1>1, StatementFacts DEF CreateSteps, CallOK, LaterOK
<1>3. tx' = [tx EXCEPT ![p] = t]
    BY <1>2 DEF Restock, Transactions
<1>4. done \in SUBSET Variants
    BY <1>2 DEF Transactions
<1>5. CASE tx[p].op = "release"
    <2>1. pc \in {"restock", "commit"} /\ (pc = "commit" => done = Items(tx[p].o))
        BY <1>5 DEF AfterRestock
    <2> HIDE DEF pc, done
    <2>2. t \in Transactions /\ CallOK(t)
        BY <1>1, <1>2, <1>4, <1>5, <2>1
           DEF Transactions, Steps, CallOK, ReleaseOK, ReservationTxOps, LaterOps
    <2> QED
        BY <1>1, <1>3, <2>2, QuietStep
<1>6. CASE tx[p].op = "delete"
    <2>1. /\ pc \in {"restock", "unredeem", "drop"}
          /\ pc # "restock" => done = Items(tx[p].o)
          /\ pc = "unredeem" => tx[p].o \in Couponed
          /\ pc = "drop" => tx[p].o \notin Couponed
        BY <1>6 DEF AfterRestock
    <2>2. ~ReservationCalls /\ DeleteOK(tx[p])
        BY <1>2, <1>6 DEF CallOK, ReservationTxOps
    <2> HIDE DEF pc, done
    <2>3. /\ t.op = "delete" /\ t.o = tx[p].o /\ t.pc = pc /\ t.done = done
          /\ t.coup = FALSE /\ order[t.o].live /\ order[t.o].status \in HoldingStock
        BY <1>1, <1>2, <1>6, <2>2 DEF Transactions, DeleteOK
    <2>4. t \in Transactions
        BY <1>2, <1>4, <2>1 DEF Transactions, Steps
    <2> HIDE DEF t
    <2>5. CallOK(t)
        BY <2>1, <2>2, <2>3 DEF CallOK, DeleteOK, LaterOps
    <2> QED
        BY <1>1, <1>3, <2>4, <2>5, QuietStep DEF t
<1> QED
    BY <1>2, <1>5, <1>6

LEMMA UnredeemQuiet ==
    ASSUME IInv, CallInv, NEW p \in Procs, Unredeem(p)
    PROVE  CallInv' /\ UNCHANGED Ledger!vars
<1> DEFINE pc == IF tx[p].op = "delete" THEN "drop" ELSE "restock"
           t == [tx[p] EXCEPT !.coup = TRUE, !.pc = pc]
<1>1. DbUnchanged /\ tx[p].pc = "unredeem"
    BY DEF Unredeem, At
<1>2. /\ tx[p] \in Transactions /\ CallOK(tx[p]) /\ tx \in [Procs -> Transactions]
      /\ tx[p].op \in {"release", "delete"} /\ tx[p].o \in Orders
    BY <1>1, StatementFacts DEF CreateSteps, CallOK, LaterOK
<1>3. /\ tx[p].o \in Couponed /\ order[tx[p].o].live
      /\ order[tx[p].o].status \in HoldingStock
    BY <1>1, <1>2 DEF CallOK, ReleaseOK, DeleteOK, Releasable, CodCancellable, HoldingStock
<1>4. used > 0
    BY <1>2, <1>3, HeldUse DEF CallInv
<1>5. tx' = [tx EXCEPT ![p].coup = TRUE, ![p].pc = pc]
    BY <1>2, <1>4 DEF Unredeem
<1>6. tx' = [tx EXCEPT ![p] = t]
    BY <1>2, <1>5 DEF Transactions
<1>7. CASE tx[p].op = "release"
    <2>1. t \in Transactions /\ CallOK(t)
        BY <1>1, <1>2, <1>3, <1>7
           DEF Transactions, Steps, CallOK, ReleaseOK, ReservationTxOps, LaterOps
    <2> QED
        BY <1>1, <1>6, <2>1, QuietStep
<1>8. CASE tx[p].op = "delete"
    <2>1. t \in Transactions /\ CallOK(t)
        BY <1>1, <1>2, <1>3, <1>8
           DEF Transactions, Steps, CallOK, DeleteOK, ReservationTxOps, LaterOps
    <2> QED
        BY <1>1, <1>6, <2>1, QuietStep
<1> QED
    BY <1>2, <1>7, <1>8

LEMMA FlipQuiet ==
    ASSUME IInv, CallInv, NEW p \in Procs, Flip(p)
    PROVE  CallInv' /\ UNCHANGED Ledger!vars
<1> DEFINE o == tx[p].o
           row == ReleasedRow(o, tx[p].to)
           pc == AfterFlip(o)
           t == [tx[p] EXCEPT !.row = row, !.pc = pc]
<1>1. DbUnchanged /\ tx[p].pc = "flip" /\ Releasable(o)
    BY DEF Flip, At
<1>2. /\ tx[p] \in Transactions /\ CallOK(tx[p]) /\ tx \in [Procs -> Transactions]
      /\ tx[p].op = "release" /\ o \in Orders /\ order[o] \in Rows
    BY <1>1, StatementFacts DEF CreateSteps, CallOK, LaterOK, DeleteOK
<1>3. tx[p].to \in Released
    BY <1>1, CallFacts DEF ShapeOK
<1>4. row \in Rows /\ row.live /\ row.status = tx[p].to
    BY <1>1, <1>2, <1>3 DEF ReleasedRow, Rows, Released, Statuses, LiveStatuses, Releasable
<1>5. order[o].live /\ order[o].status \in CodCancellable
    BY <1>1 DEF Releasable, CodCancellable
<1>6. tx[p].to = "CANCELLED" \/ order[o].status = "PENDING"
    BY <1>1, <1>2 DEF CallOK, ReleaseOK
<1>7. TransitionAllowed(order[o].status, row.status)
    BY <1>3, <1>4, <1>5, <1>6
       DEF TransitionAllowed, AllowedTransitions, LiveStatuses, Released, CodCancellable
<1>8. pc \in {"unredeem", "restock"} /\ (pc = "unredeem" <=> o \in Couponed)
    BY DEF AfterFlip
<1>9. tx' = [tx EXCEPT ![p] = t]
    BY <1>2 DEF Flip, WriteRow, Transactions
<1> HIDE DEF row, pc
<1>10. /\ t.op = "release" /\ t.o = o /\ t.pc = pc /\ t.row = row /\ t.coup = FALSE
       /\ t \in Transactions
    BY <1>1, <1>2, <1>4, <1>8 DEF Transactions, Steps, CallOK, ReleaseOK
<1> HIDE DEF t
<1>11. CallOK(t)
    BY <1>1, <1>3, <1>4, <1>7, <1>8, <1>10
       DEF CallOK, ReleaseOK, ReservationTxOps, LaterOps
<1> QED
    BY <1>1, <1>9, <1>10, <1>11, QuietStep

\* A later change writes a row of an order that still holds what it has taken.
LEMMA LaterWrite ==
    ASSUME IInv, CallInv, NEW p \in Procs, tx[p].op \in LaterOps, NEW row \in Rows,
           row.live, row.status \notin Released,
           TransitionAllowed(order[tx[p].o].status, row.status),
           WriteRow(p, row, "commit"), DbUnchanged
    PROVE  CallInv' /\ UNCHANGED Ledger!vars
<1> DEFINE t == [tx[p] EXCEPT !.row = row, !.pc = "commit"]
<1>1. tx[p] \in Transactions /\ CallOK(tx[p]) /\ tx \in [Procs -> Transactions]
    BY CallFacts
<1>2. tx' = [tx EXCEPT ![p] = t]
    BY <1>1 DEF WriteRow, Transactions
<1>3. /\ t \in Transactions /\ t.op = tx[p].op /\ t.o = tx[p].o /\ t.pc = "commit"
      /\ t.done = tx[p].done /\ t.coup = tx[p].coup /\ t.row = row
    BY <1>1 DEF Transactions, Steps
<1> HIDE DEF t
<1>4. CallOK(t)
    BY <1>1, <1>3 DEF CallOK, LaterOK, LaterOps
<1> QED
    BY <1>2, <1>3, <1>4, QuietStep

LEMMA LaterQuiet ==
    ASSUME IInv, CallInv, NEW p \in Procs,
           Advance(p) \/ TransitionToPaid(p) \/ MarkPaid(p) \/ Collect(p) \/ Refund(p)
    PROVE  CallInv' /\ UNCHANGED Ledger!vars
<1> DEFINE o == tx[p].o
<1>1. DbUnchanged /\ tx[p].pc \in {"advance", "payread", "pay", "collect", "refund"}
    BY DEF Advance, TransitionToPaid, ReadForPayment, MarkPaid, Collect, Refund, At
<1>2. /\ tx[p] \in Transactions /\ CallOK(tx[p]) /\ tx \in [Procs -> Transactions]
      /\ o \in Orders /\ order[o] \in Rows /\ tx[p].op \in LaterOps
    BY <1>1, StatementFacts DEF CreateSteps, CallOK, ReleaseOK, DeleteOK
<1>3. LaterOK(tx[p]) /\ ~ReservationCalls /\ order[o].live
    BY <1>2 DEF CallOK, ReservationTxOps, LaterOps, LaterOK
<1>4. CASE Advance(p)
    <2> DEFINE row == [order[o] EXCEPT !.status = tx[p].to]
    <2>1. tx[p].pc = "advance" /\ tx[p].to \in LiveStatuses \ Released
        BY <1>4, CallFacts DEF Advance, At, ShapeOK
    <2>2. /\ row \in Rows /\ row.live /\ row.status \notin Released
          /\ TransitionAllowed(order[o].status, row.status)
        BY <1>2, <1>3, <2>1 DEF Rows, Statuses, LaterOK
    <2>3. WriteRow(p, row, "commit")
        BY <1>4 DEF Advance
    <2> HIDE DEF row
    <2> QED
        BY <1>1, <1>2, <2>2, <2>3, LaterWrite
<1>5. CASE TransitionToPaid(p)
    BY <1>2, <1>3, <1>5, ReadForPaymentQuiet DEF TransitionToPaid
<1>6. CASE MarkPaid(p)
    <2> DEFINE row == [order[o] EXCEPT !.status = "PAID", !.payment = "PAID", !.resv = FALSE]
    <2>1. TransitionAllowed(order[o].status, "PAID")
        BY <1>3, <1>6 DEF MarkPaid, At, LaterOK
    <2>2. /\ row \in Rows /\ row.live /\ row.status = "PAID"
        BY <1>2, <1>3 DEF Rows, Statuses, LiveStatuses, PaymentStatuses
    <2>3. WriteRow(p, row, "commit")
        BY <1>6 DEF MarkPaid
    <2> HIDE DEF row
    <2> QED
        BY <1>1, <1>2, <2>1, <2>2, <2>3, LaterWrite DEF Released
<1>7. CASE Collect(p)
    <2> DEFINE row == [order[o] EXCEPT !.payment = "PAID"]
    <2>1. /\ row \in Rows /\ row.live /\ row.status = order[o].status
          /\ row.status \notin Released
        BY <1>2, <1>3 DEF Rows, PaymentStatuses, LaterOK
    <2>2. WriteRow(p, row, "commit")
        BY <1>7 DEF Collect
    <2> HIDE DEF row
    <2> QED
        BY <1>1, <1>2, <2>1, <2>2, LaterWrite DEF TransitionAllowed
<1>8. CASE Refund(p)
    <2> DEFINE row == [order[o] EXCEPT !.status = "REFUNDED", !.payment = "REFUNDED"]
    <2>1. row \in Rows /\ row.live /\ row.status = "REFUNDED" /\ order[o].status = "PAID"
        BY <1>2, <1>3, <1>8
           DEF Rows, Statuses, LiveStatuses, PaymentStatuses, LaterOK, Refund, At
    <2>2. TransitionAllowed("PAID", "REFUNDED") /\ "REFUNDED" \notin Released
        BY DEF TransitionAllowed, AllowedTransitions, LiveStatuses, Released
    <2>3. WriteRow(p, row, "commit")
        BY <1>8 DEF Refund
    <2> HIDE DEF row
    <2> QED
        BY <1>1, <1>2, <2>1, <2>2, <2>3, LaterWrite
<1> QED
    BY <1>4, <1>5, <1>6, <1>7, <1>8

LEMMA DeleteQuiet ==
    ASSUME IInv, CallInv, NEW p \in Procs, FindItems(p) \/ Drop(p)
    PROVE  CallInv' /\ UNCHANGED Ledger!vars
<1> DEFINE o == tx[p].o
<1>1. DbUnchanged /\ tx[p].pc \in {"items", "drop"}
    BY DEF FindItems, Drop, At
<1>2. /\ tx[p] \in Transactions /\ CallOK(tx[p]) /\ tx \in [Procs -> Transactions]
      /\ o \in Orders /\ order[o] \in Rows /\ tx[p].op = "delete"
    BY <1>1, StatementFacts DEF CreateSteps, CallOK, ReleaseOK, LaterOK
<1>3. DeleteOK(tx[p]) /\ ~ReservationCalls /\ order[o].live
    BY <1>2 DEF CallOK, ReservationTxOps, DeleteOK
<1>4. CASE FindItems(p)
    <2> DEFINE t == [tx[p] EXCEPT !.pc = "restock"]
    <2>1. tx' = [tx EXCEPT ![p] = t]
        BY <1>2, <1>3, <1>4 DEF FindItems, Transactions
    <2>2. t \in Transactions /\ CallOK(t)
        BY <1>2, <1>3, <1>4
           DEF FindItems, At, Transactions, Steps, CallOK, DeleteOK, LaterOps
    <2> QED
        BY <1>1, <2>1, <2>2, QuietStep
<1>5. CASE Drop(p)
    <2> DEFINE row == [order[o] EXCEPT !.live = FALSE]
               t == [tx[p] EXCEPT !.row = row, !.pc = "commit"]
    <2>1. tx' = [tx EXCEPT ![p] = t] /\ tx[p].pc = "drop"
        BY <1>2, <1>3, <1>5 DEF Drop, At, WriteRow, Transactions
    <2>2. row \in Rows
        BY <1>2 DEF Rows
    <2>3. /\ t \in Transactions /\ t.op = "delete" /\ t.o = o /\ t.pc = "commit"
          /\ t.done = tx[p].done /\ t.coup = tx[p].coup
          /\ t.row = [order[t.o] EXCEPT !.live = FALSE]
        BY <1>2, <2>2 DEF Transactions, Steps
    <2> HIDE DEF t
    <2>4. CallOK(t)
        BY <1>3, <2>1, <2>3 DEF CallOK, DeleteOK, LaterOps
    <2> QED
        BY <1>1, <2>1, <2>3, <2>4, QuietStep
<1> QED
    BY <1>4, <1>5

LEMMA StatementQuiet ==
    ASSUME IInv, CallInv, NEW p \in Procs, Statement(p)
    PROVE  CallInv' /\ UNCHANGED Ledger!vars
BY CreateQuiet, RestockQuiet, UnredeemQuiet, FlipQuiet, LaterQuiet, DeleteQuiet DEF Statement

LEMMA AbortQuiet ==
    ASSUME IInv, CallInv, NEW p \in Procs, Abort(p)
    PROVE  CallInv' /\ UNCHANGED Ledger!vars
<1>1. CallOK(IdleTx)
    BY DEF CallOK, IdleTx, Begin, ReservationTxOps, LaterOps
<1> QED
    BY <1>1, IdleTxFacts, QuietStep DEF Abort

LEMMA LapseQuiet ==
    ASSUME CallInv, UNCHANGED << order, stock, used, tx >>
    PROVE  CallInv' /\ UNCHANGED Ledger!vars
<1>1. UNCHANGED Ledger!vars
    BY DEF Ledger!vars
<1> QED
    BY <1>1, LedgerInvStep
       DEF CallInv, CallOK, CreateOK, ReleaseOK, Releasable, LaterOK, DeleteOK

-----------------------------------------------------------------------------
(* A commit of create is Take, one that releases or deletes an order that    *)
(* holds stock is GiveBack, and every other one leaves the ledger alone.     *)

\* What a commit does to the committed state.
LEMMA CommitFacts ==
    ASSUME IInv, CallInv, NEW p \in Procs, Commit(p)
    PROVE  LET t == tx[p] IN
           /\ t.o \in Orders /\ t.op \in {"create", "release", "delete"} \cup LaterOps
           /\ t.pc = "commit" /\ t.row \in Rows /\ CallOK(t)
           /\ \A o \in Orders :
                order'[o] = IF o = t.o /\ t.row # NoRow THEN t.row ELSE order[o]
           /\ order' = IF t.row = NoRow THEN order ELSE [order EXCEPT ![t.o] = t.row]
           /\ tx' = [tx EXCEPT ![p] = IdleTx]
           /\ \A v \in Variants : Qty[t.o][v] \in Nat /\ stock[v] \in Nat
<1> DEFINE t == tx[p]
<1>1. t \in Transactions /\ CallOK(t) /\ ShapeOK(t) /\ t.pc = "commit"
    BY CallFacts DEF Commit, At
<1>2. t.op \in {"create", "release", "delete"} \cup LaterOps
    BY <1>1 DEF ShapeOK, Transactions, TxOps, LaterOps
<1>3. t.o \in Orders /\ t.row \in Rows
    BY <1>1, <1>2 DEF ShapeOK, Transactions, LaterOps
<1>4. /\ order' = IF t.row = NoRow THEN order ELSE [order EXCEPT ![t.o] = t.row]
      /\ tx' = [tx EXCEPT ![p] = IdleTx]
    BY DEF Commit
<1>5. \A o \in Orders : order'[o] = IF o = t.o /\ t.row # NoRow THEN t.row ELSE order[o]
    BY <1>3, <1>4 DEF IInv, TypeOK
<1>6. \A v \in Variants : Qty[t.o][v] \in Nat /\ stock[v] \in Nat
    BY <1>3, OrderTxAssumption DEF IInv, TypeOK, StockNonNegative
<1> QED
    BY <1>1, <1>2, <1>3, <1>4, <1>5, <1>6

LEMMA CreateCommit ==
    ASSUME IInv, CallInv, NEW p \in Procs, Commit(p), tx[p].op = "create"
    PROVE  Ledger!Take(tx[p].o)
<1> DEFINE t == tx[p]
           claim == [ o \in Orders |-> ClaimOf(order[o]) ]
<1>1. /\ t.o \in Orders /\ t.pc = "commit" /\ CallOK(t)
      /\ \A o \in Orders :
            order'[o] = IF o = t.o /\ t.row # NoRow THEN t.row ELSE order[o]
      /\ \A v \in Variants : Qty[t.o][v] \in Nat /\ stock[v] \in Nat
    BY CommitFacts
<1>2. CoveredOK(t) /\ t.done = Items(t.o) /\ t.coup = (t.o \in Couponed)
    BY <1>1, CallFacts DEF CallOK, CreateOK
<1>3. order[t.o] = NoRow /\ t.row = NewRow(t.o) /\ t.row # NoRow
    BY <1>1, <1>2 DEF CallOK, CreateOK, CoveredOK, NewRow, NoRow
<1>4. claim[t.o] = "none" /\ ClaimOf(t.row) = "held"
    BY <1>1, <1>3 DEF ClaimOf, NoRow, NewRow, Released
<1>5. claim' = [claim EXCEPT ![t.o] = "held"]
    BY <1>1, <1>3, <1>4
<1>6. \A v \in Variants : /\ stock[v] >= Qty[t.o][v]
                          /\ StockDelta(p, v) = -Qty[t.o][v]
    BY <1>1, <1>2 DEF StockDelta, Items, CoveredOK
<1>7. stock' = [ v \in Variants |-> stock[v] - Qty[t.o][v] ]
    BY <1>1, <1>6 DEF Commit
<1>8. used' = used + Ledger!Uses(t.o) /\ used + Ledger!Uses(t.o) <= UsageLimit
    <2>1. used \in Int /\ used <= UsageLimit /\ UsageLimit \in Nat
        BY OrderTxAssumption DEF IInv, CouponWithinLimit, TypeOK
    <2>2. used' = used + UsageDelta(p)
        BY DEF Commit
    <2>3. CASE t.coup
        <3>1. UsageDelta(p) = 1 /\ Ledger!Uses(t.o) = 1
            BY <1>2, <2>3 DEF UsageDelta, Ledger!Uses
        <3>2. used < UsageLimit
            BY <1>2, <2>3 DEF CoveredOK
        <3> QED
            BY <2>1, <2>2, <3>1, <3>2
    <2>4. CASE ~t.coup
        <3>1. UsageDelta(p) = 0 /\ Ledger!Uses(t.o) = 0
            BY <1>2, <2>4 DEF UsageDelta, Ledger!Uses
        <3> QED
            BY <2>1, <2>2, <3>1
    <2> QED
        BY <2>3, <2>4
<1> QED
    BY <1>4, <1>5, <1>6, <1>7, <1>8 DEF Ledger!Take

\* A transaction that returns the cart of an order that holds it.
Returns(t) ==
    \/ t.op = "release"
    \/ t.op = "delete" /\ order[t.o].status \in HoldingStock

LEMMA ReturnFacts ==
    ASSUME IInv, CallInv, NEW p \in Procs, Commit(p), Returns(tx[p])
    PROVE  LET t == tx[p] IN
           /\ t.done = Items(t.o) /\ t.coup = (t.o \in Couponed) /\ t.op # "create"
           /\ ClaimOf(order[t.o]) = "held" /\ ClaimOf(t.row) = "freed" /\ t.row # NoRow
<1> DEFINE t == tx[p]
<1>1. t.o \in Orders /\ t.pc = "commit" /\ CallOK(t) /\ order[t.o] \in Rows
    BY CommitFacts, RowFacts
<1>2. CASE t.op = "release"
    <2>1. /\ t.row.live /\ t.row.status \in Released /\ Releasable(t.o)
          /\ t.done = Items(t.o) /\ t.coup = (t.o \in Couponed)
        BY <1>1, <1>2 DEF CallOK, ReleaseOK
    <2> QED
        BY <1>2, <2>1 DEF ClaimOf, Released, Releasable, CodCancellable, NoRow
<1>3. CASE t.op = "delete" /\ order[t.o].status \in HoldingStock
    <2>1. /\ order[t.o].live /\ t.row = [order[t.o] EXCEPT !.live = FALSE]
          /\ t.done = Items(t.o) /\ t.coup = (t.o \in Couponed)
        BY <1>1, <1>3 DEF CallOK, DeleteOK
    <2>2. t.row.status = order[t.o].status /\ ~t.row.live
        BY <1>1, <2>1 DEF Rows
    <2> QED
        BY <1>3, <2>1, <2>2 DEF ClaimOf, Released, HoldingStock, NoRow
<1> QED
    BY <1>2, <1>3 DEF Returns

LEMMA ReturnCommit ==
    ASSUME IInv, CallInv, NEW p \in Procs, Commit(p), Returns(tx[p])
    PROVE  Ledger!GiveBack(tx[p].o)
<1> DEFINE t == tx[p]
           claim == [ o \in Orders |-> ClaimOf(order[o]) ]
<1>1. /\ t.o \in Orders
      /\ \A o \in Orders :
            order'[o] = IF o = t.o /\ t.row # NoRow THEN t.row ELSE order[o]
      /\ \A v \in Variants : Qty[t.o][v] \in Nat /\ stock[v] \in Nat
    BY CommitFacts
<1>2. /\ t.done = Items(t.o) /\ t.coup = (t.o \in Couponed) /\ t.op # "create"
      /\ ClaimOf(order[t.o]) = "held" /\ ClaimOf(t.row) = "freed" /\ t.row # NoRow
    BY ReturnFacts
<1>3. claim[t.o] = "held"
    BY <1>1, <1>2
<1>4. claim' = [claim EXCEPT ![t.o] = "freed"]
    BY <1>1, <1>2
<1>5. \A v \in Variants : StockDelta(p, v) = Qty[t.o][v]
    BY <1>1, <1>2 DEF StockDelta, Items
<1>6. stock' = [ v \in Variants |-> stock[v] + Qty[t.o][v] ]
    BY <1>1, <1>5 DEF Commit
<1>7. used' = used - Ledger!Uses(t.o)
    <2>1. used \in Int /\ used' = used + UsageDelta(p)
        BY DEF Commit, IInv, TypeOK
    <2>2. CASE t.coup
        <3>1. UsageDelta(p) = -1 /\ Ledger!Uses(t.o) = 1
            BY <1>2, <2>2 DEF UsageDelta, Ledger!Uses
        <3> QED
            BY <2>1, <3>1
    <2>3. CASE ~t.coup
        <3>1. UsageDelta(p) = 0 /\ Ledger!Uses(t.o) = 0
            BY <1>2, <2>3 DEF UsageDelta, Ledger!Uses
        <3> QED
            BY <2>1, <3>1
    <2> QED
        BY <2>2, <2>3
<1> QED
    BY <1>3, <1>4, <1>6, <1>7 DEF Ledger!GiveBack

\* A later change keeps what the order holds, and so does the deletion of an order that
\* is shipped or released.
LEMMA NeutralCommit ==
    ASSUME IInv, CallInv, NEW p \in Procs, Commit(p), tx[p].op # "create", ~Returns(tx[p])
    PROVE  UNCHANGED Ledger!vars
<1> DEFINE t == tx[p]
           claim == [ o \in Orders |-> ClaimOf(order[o]) ]
<1>1. /\ t.o \in Orders /\ t.pc = "commit" /\ CallOK(t)
      /\ t.op \in {"create", "release", "delete"} \cup LaterOps
      /\ \A o \in Orders :
            order'[o] = IF o = t.o /\ t.row # NoRow THEN t.row ELSE order[o]
      /\ RowOK(t.o, t.row) /\ t.row \in Rows
    BY CommitFacts, TxFacts DEF TxOK
<1>2. /\ order[t.o] \in Rows
      /\ order[t.o].live => order[t.o].status \in LiveStatuses
    BY <1>1, RowFacts
<1>3. ASSUME t.op \in LaterOps
      PROVE  /\ t.done = {} /\ ~t.coup
             /\ t.row # NoRow => ClaimOf(t.row) = ClaimOf(order[t.o])
    <2>1. /\ t.done = {} /\ ~t.coup /\ order[t.o].live /\ order[t.o].status \notin Released
          /\ t.row # NoRow => t.row.live /\ t.row.status \notin Released
        BY <1>1, <1>3 DEF CallOK, LaterOK
    <2>2. ClaimOf(order[t.o]) = "held"
        BY <1>2, <2>1 DEF ClaimOf, LiveStatuses
    <2>3. t.row # NoRow => ClaimOf(t.row) = "held"
        BY <1>1, <2>1 DEF ClaimOf, RowOK, LiveStatuses
    <2> QED
        BY <2>1, <2>2, <2>3
<1>4. ASSUME t.op = "delete"
      PROVE  /\ t.done = {} /\ ~t.coup
             /\ t.row # NoRow => ClaimOf(t.row) = ClaimOf(order[t.o])
    <2>1. /\ t.done = {} /\ ~t.coup /\ order[t.o].live
          /\ t.row = [order[t.o] EXCEPT !.live = FALSE]
          /\ order[t.o].status \notin HoldingStock
        BY <1>1, <1>4 DEF CallOK, DeleteOK, Returns
    <2>2. t.row.status = order[t.o].status
        BY <1>2, <2>1 DEF Rows
    <2>3. /\ t.row.status \notin HoldingStock /\ order[t.o].status \notin HoldingStock
          /\ t.row.live = FALSE
        BY <1>2, <2>1, <2>2 DEF Rows
    <2>4. ClaimOf(t.row) = ClaimOf(order[t.o])
        BY <2>2, <2>3 DEF ClaimOf
    <2> QED
        BY <2>1, <2>4
<1>5. /\ t.done = {} /\ ~t.coup
      /\ t.row # NoRow => ClaimOf(t.row) = ClaimOf(order[t.o])
    BY <1>1, <1>3, <1>4 DEF Returns
<1>6. claim' = claim
    BY <1>1, <1>5
<1>7. stock' = stock
    <2>1. stock \in [Variants -> Nat]
        BY DEF IInv, TypeOK, StockNonNegative
    <2>2. stock' = [ v \in Variants |-> stock[v] + StockDelta(p, v) ]
        BY DEF Commit
    <2>3. \A v \in Variants : StockDelta(p, v) = 0
        BY <1>5 DEF StockDelta
    <2> QED
        BY <2>1, <2>2, <2>3
<1>8. used' = used
    BY <1>5 DEF Commit, UsageDelta, IInv, TypeOK
<1> QED
    BY <1>6, <1>7, <1>8 DEF Ledger!vars

\* What the other open calls know of their orders stands when p commits.
LEMMA OthersStand ==
    ASSUME IInv, CallInv, Orderly, NEW p \in Procs, Commit(p), NEW q \in Procs \ {p}
    PROVE  CallOK(tx[q])'
<1> DEFINE t == tx[p]
           u == tx[q]
<1>1. /\ t.o \in Orders /\ t.op \in {"create", "release", "delete"} \cup LaterOps
      /\ \A o \in Orders :
            order'[o] = IF o = t.o /\ t.row # NoRow THEN t.row ELSE order[o]
      /\ tx' = [tx EXCEPT ![p] = IdleTx]
    BY CommitFacts
<1>2. tx'[q] = u /\ CallOK(u) /\ ShapeOK(u)
    BY <1>1, CallFacts
<1>3. u.op = "idle" \/ u.o \in Orders
    BY <1>2 DEF ShapeOK
<1>4. CASE OrdersApart
    <2>1. t.o # u.o
        BY <1>1, <1>4 DEF OrdersApart, LaterOps
    <2>2. u.op # "idle" => order'[u.o] = order[u.o]
        BY <1>1, <1>3, <2>1
    <2> QED
        BY <1>2, <2>2, CallStands DEF LaterOps
<1>5. CASE ReservationCalls
    <2>1. u.op \in ReservationTxOps /\ LaterOps \cap ReservationTxOps = {}
        BY <1>2, <1>5 DEF CallOK, LaterOps, ReservationTxOps
    <2>2. Apart(t, u)
        BY DEF IInv
    <2>3. u.op = "release" /\ u.pc # "flip" => u.row # NoRow
        BY <1>2 DEF CallOK, ReleaseOK, NoRow
    <2>4. u.op = "release" /\ u.pc # "flip" => order'[u.o] = order[u.o]
        BY <1>1, <1>3, <2>2, <2>3 DEF Apart
    <2> QED
        BY <1>2, <1>5, <2>1, <2>4, CallStands DEF ReservationTxOps
<1> QED
    BY <1>4, <1>5 DEF Orderly

\* The life cycle of the orders, as one step.
PathKept ==
    \A o \in Orders : order[o].live /\ order'[o].live =>
        TransitionAllowed(order[o].status, order'[o].status)

LEMMA CommitPath ==
    ASSUME IInv, CallInv, NEW p \in Procs, Commit(p)
    PROVE  PathKept
<1> DEFINE t == tx[p]
<1> SUFFICES ASSUME NEW o \in Orders, order[o].live, order'[o].live
             PROVE  TransitionAllowed(order[o].status, order'[o].status)
    BY DEF PathKept
<1>1. /\ t.o \in Orders /\ t.pc = "commit" /\ CallOK(t)
      /\ t.op \in {"create", "release", "delete"} \cup LaterOps
      /\ order'[o] = IF o = t.o /\ t.row # NoRow THEN t.row ELSE order[o]
    BY CommitFacts
<1>2. CASE ~(o = t.o /\ t.row # NoRow)
    BY <1>1, <1>2 DEF TransitionAllowed
<1>3. CASE o = t.o /\ t.row # NoRow
    <2>1. t.op # "create"
        BY <1>3, CallFacts DEF CoveredOK, NoRow
    <2>2. t.op # "delete"
        <3>1. t.op = "delete" => t.row = [order[o] EXCEPT !.live = FALSE] /\ order[o] \in Rows
            BY <1>1, <1>3, RowFacts DEF CallOK, DeleteOK
        <3> QED
            BY <1>1, <1>3, <3>1 DEF Rows
    <2> QED
        BY <1>1, <1>3, <2>1, <2>2 DEF CallOK, ReleaseOK, LaterOK
<1> QED
    BY <1>2, <1>3

\* Calls, statements and roll-backs leave the committed rows alone.
LEMMA OnlyCommitWrites ==
    ASSUME NEW p \in Procs, Call(p) \/ Statement(p) \/ Abort(p)
    PROVE  UNCHANGED order
<1>1. Call(p) => DbUnchanged
    BY DEF Call, CreateBegin, CancelBegin, Expire, PaymentFailed, ReleaseNow,
           TransitionBegin, MarkPaidBegin, ReadForPayment, CollectBegin, RefundBegin,
           DeleteBegin
<1>2. Statement(p) => DbUnchanged
    BY DEF Statement, Reserve, Restock, CountUses, Redeem, Insert, Flip, Unredeem, Advance,
           TransitionToPaid, ReadForPayment, MarkPaid, Collect, Refund, FindItems, Drop
<1> QED
    BY <1>1, <1>2 DEF DbUnchanged, Abort

LEMMA CommitLedger ==
    ASSUME IInv, CallInv, Orderly, NEW p \in Procs, Commit(p)
    PROVE  CallInv' /\ [Ledger!LedgerNext]_(Ledger!vars)
<1>1. tx[p].o \in Orders /\ tx' = [tx EXCEPT ![p] = IdleTx]
    BY CommitFacts
<1>2. [Ledger!LedgerNext]_(Ledger!vars)
    BY <1>1, CreateCommit, ReturnCommit, NeutralCommit DEF Ledger!LedgerNext
<1>3. ASSUME NEW q \in Procs PROVE CallOK(tx[q])'
    <2>1. CASE q = p
        <3>1. tx'[q] = IdleTx
            BY <1>1, <2>1, CallFacts
        <3> QED
            BY <3>1 DEF CallOK, IdleTx, Begin, ReservationTxOps, LaterOps
    <2> QED
        BY <2>1, OthersStand
<1> QED
    BY <1>2, <1>3, LedgerInvStep DEF CallInv

LEMMA StepLedger ==
    ASSUME Orderly, IInv, CallInv, [Next]_vars
    PROVE  CallInv' /\ [Ledger!LedgerNext]_(Ledger!vars) /\ [PathKept]_order
<1>1. ASSUME NEW p \in Procs, Call(p) \/ Statement(p) \/ Abort(p)
      PROVE  CallInv' /\ UNCHANGED Ledger!vars /\ UNCHANGED order
    <2>1. CallInv' /\ UNCHANGED Ledger!vars
        BY <1>1, CallQuiet, StatementQuiet, AbortQuiet
    <2>2. UNCHANGED order
        BY <1>1, OnlyCommitWrites
    <2> QED
        BY <2>1, <2>2
<1>2. ASSUME NEW p \in Procs, Commit(p)
      PROVE  CallInv' /\ [Ledger!LedgerNext]_(Ledger!vars) /\ PathKept
    BY <1>2, CommitLedger, CommitPath
<1>3. CASE (\E o \in Orders : Lapse(o)) \/ UNCHANGED vars
    <2>1. UNCHANGED << order, stock, used, tx >>
        BY <1>3 DEF Lapse, vars
    <2> QED
        BY <2>1, LapseQuiet
<1> QED
    BY <1>1, <1>2, <1>3 DEF Next

LEMMA InitLedgerInvs == Init => IInv /\ CallInv /\ Ledger!LedgerInit
BY InitIInv, InitCallInv, InitLedger

\* The invariant, under either condition.
LEMMA AlwaysCallInv == Spec /\ []Orderly => [](IInv /\ CallInv)
<1>1. IInv /\ CallInv /\ Orderly /\ [Next]_vars => IInv' /\ CallInv'
    BY NextIInv, StepLedger
<1> QED
    BY <1>1, InitLedgerInvs, PTL DEF Spec

LEMMA OrderlyImplementsLedger == Spec /\ []Orderly => LedgerSpec
<1>1. IInv /\ CallInv /\ Orderly /\ [Next]_vars => [Ledger!LedgerNext]_(Ledger!vars)
    BY StepLedger
<1> QED
    BY <1>1, AlwaysCallInv, InitLedgerInvs, PTL DEF Spec, LedgerSpec, Ledger!LedgerSpec

LEMMA OrderlyKeepsPaths == Spec /\ []Orderly => LifecycleRespected
<1>1. IInv /\ CallInv /\ Orderly /\ [Next]_vars => [PathKept]_order
    BY StepLedger
<1>2. Spec /\ []Orderly => [][PathKept]_order
    BY <1>1, AlwaysCallInv, PTL DEF Spec
<1> QED
    BY <1>2 DEF LifecycleRespected, PathKept

LEMMA LawsHold == CallInv => Conservation /\ CouponExact
BY SameSets, SameHolders
   DEF CallInv, Laws!LedgerInv, Laws!StockLaw, Laws!CouponLaw, Conservation,
       Ledger!Conservation, CouponExact, Ledger!CouponExact

LEMMA ReservationsOrderly == ASSUME ReservationCalls PROVE []Orderly
<1>1. Orderly
    BY DEF Orderly
<1> QED
    BY <1>1, PTL

LEMMA ApartOrderly == []OrdersApart => []Orderly
<1>1. OrdersApart => Orderly
    BY DEF Orderly
<1> QED
    BY <1>1, PTL

-----------------------------------------------------------------------------
\* The reservation transactions implement the ledger: whatever the interleaving of
\* create, cancel, expire and failed payments, an order takes its whole cart and its
\* coupon use in one step and gives them back at most once.
THEOREM ReservationsImplementLedger ==
    ASSUME ReservationCalls PROVE Spec => LedgerSpec
BY ReservationsOrderly, OrderlyImplementsLedger, PTL

\* No unit of stock is lost or sold twice by reservations and releases.
THEOREM ReservationsConserve ==
    ASSUME ReservationCalls PROVE Spec => []Conservation
BY ReservationsOrderly, AlwaysCallInv, LawsHold, PTL

\* usageCount is the number of orders that hold a use of the coupon.
THEOREM ReservationsCountCoupons ==
    ASSUME ReservationCalls PROVE Spec => []CouponExact
BY ReservationsOrderly, AlwaysCallInv, LawsHold, PTL

\* Reservations and releases move an order along allowedTransitions only.
THEOREM ReservationsKeepPaths ==
    ASSUME ReservationCalls PROVE Spec => LifecycleRespected
BY ReservationsOrderly, OrderlyKeepsPaths, PTL

\* All nine operations, deletions and later status changes included, implement the ledger
\* as long as no two of them are about one order at a time, whatever the interleaving of
\* calls on different orders that compete for stock, for the coupon and for keys.
THEOREM ApartImplementLedger == Spec /\ []OrdersApart => LedgerSpec
BY ApartOrderly, OrderlyImplementsLedger, PTL

\* Then no unit of stock is lost or sold twice.
THEOREM ApartConserve == Spec /\ []OrdersApart => []Conservation
BY ApartOrderly, AlwaysCallInv, LawsHold, PTL

\* Then usageCount is exact, deletions included.
THEOREM ApartCountCoupons == Spec /\ []OrdersApart => []CouponExact
BY ApartOrderly, AlwaysCallInv, LawsHold, PTL
=============================================================================
