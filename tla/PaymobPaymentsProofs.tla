------------------------ MODULE PaymobPaymentsProofs ------------------------
(***************************************************************************)
(* Payments for any number of orders, calls, intentions and transactions.   *)
(***************************************************************************)
EXTENDS PaymobPayments, TLAPS

\* What a call names exists, and it writes no session with the row that it locks.
CallBound(u) ==
    /\ u.pc # "idle" => u.o \in Orders
    /\ u.pc = "save" => u.i \in Intentions /\ bound[u.i] = u.o
    /\ u.wrote => u.pc \in {"link", "commit"} /\ u.row.session = order[u.o].session

\* A webhook's transaction, a transaction's intention and a session's order exist.
GatewayBound ==
    /\ \A m \in sent : txn[m.t].i # None
    /\ \A t \in Txns : txn[t].i # None => bound[txn[t].i] \in Orders
    /\ \A t \in Txns : txn[t].state # "none" => txn[t].i # None
    /\ \A o \in Orders : order[o].session # None => bound[order[o].session] = o

WritersApart ==
    \A c, d \in Calls : c # d /\ call[c].wrote /\ call[d].wrote => call[c].o # call[d].o

BaseInv ==
    /\ PaymentsTypeOK /\ GatewayBound /\ WritersApart /\ OneSessionPerOrder
    /\ \A c \in Calls : CallBound(call[c])

USE PaymentsAssumption

LEMMA RowUpdates ==
    ASSUME NEW row \in Rows
    PROVE  /\ \A s \in LiveStatuses : [row EXCEPT !.status = s] \in Rows
           /\ \A s \in LiveStatuses : ReleasedRow(row, s) \in Rows
           /\ \A i \in Intentions : [row EXCEPT !.session = i] \in Rows
           /\ \A t \in Txns \cup {None} : [row EXCEPT !.txid = t] \in Rows
           /\ [row EXCEPT !.status = "PAID", !.payment = "PAID", !.resv = FALSE] \in Rows
           /\ [row EXCEPT !.status = "REFUNDED", !.payment = "REFUNDED"] \in Rows
BY DEF Rows, ReleasedRow, LiveStatuses, PaymentStatuses

LEMMA CallUpdates ==
    ASSUME NEW u \in CallStates
    PROVE  /\ \A pc \in Steps : [u EXCEPT !.pc = pc] \in CallStates
           /\ \A i \in Intentions : [u EXCEPT !.pc = "save", !.i = i] \in CallStates
           /\ \A pc \in Steps, row \in Rows :
                [u EXCEPT !.pc = pc, !.wrote = TRUE, !.row = row] \in CallStates
BY DEF CallStates, Steps

LEMMA NewRowType == NewRow \in Rows
BY DEF NewRow, Rows, LiveStatuses, PaymentStatuses

LEMMA BeginCalls ==
    ASSUME NEW pc \in Steps, NEW o \in Orders \cup {None}, NEW t \in Txns \cup {None},
           NEW to \in LiveStatuses, NEW row \in Rows
    PROVE  /\ Begin(pc, o, t, to) \in CallStates
           /\ [Begin(pc, o, t, to) EXCEPT !.row = row] \in CallStates
BY NewRowType DEF Begin, CallStates

LEMMA IdleCallType == IdleCall \in CallStates
BY BeginCalls, NewRowType DEF IdleCall, Steps, LiveStatuses

LEMMA InitBase == PaymentsInit => BaseInv
<1> SUFFICES ASSUME PaymentsInit PROVE BaseInv
    OBVIOUS
<1>1. PaymentsTypeOK
    BY IdleCallType, NewRowType DEF PaymentsInit, PaymentsTypeOK, GatewayTxns
<1>2. GatewayBound /\ WritersApart /\ OneSessionPerOrder
    BY DEF PaymentsInit, GatewayBound, WritersApart, OneSessionPerOrder, NewRow, IdleCall, Begin
<1>3. \A c \in Calls : CallBound(call[c])
    BY DEF PaymentsInit, CallBound, IdleCall, Begin
<1> QED
    BY <1>1, <1>2, <1>3 DEF BaseInv

-----------------------------------------------------------------------------
\* A step of one call, or of the clock, that stores no session.
LEMMA SessionsKept ==
    ASSUME BaseInv, NEW c \in Calls, NEW u \in CallStates, CallBound(u),
           u.wrote => RowFree(c, u.o),
           call' = [call EXCEPT ![c] = u],
           order' \in [Orders -> Rows],
           \A o \in Orders : order'[o].session = order[o].session,
           UNCHANGED << returned, bound, txn, sent >>
    PROVE  /\ call' \in [Calls -> CallStates]
           /\ (GatewayBound /\ WritersApart /\ OneSessionPerOrder)'
           /\ \A d \in Calls : CallBound(call[d])'
<1> USE DEF BaseInv, PaymentsTypeOK
<1>1. call' \in [Calls -> CallStates]
    OBVIOUS
<1>2. GatewayBound'
    BY DEF GatewayBound
<1>3. OneSessionPerOrder'
    BY DEF OneSessionPerOrder
<1>4. WritersApart'
    BY DEF WritersApart, RowFree
<1>5. ASSUME NEW d \in Calls PROVE CallBound(call[d])'
    <2>1. CASE d = c
        BY <2>1 DEF CallBound
    <2>2. CASE d # c
        BY <2>2 DEF CallBound
    <2> QED
        BY <2>1, <2>2
<1> QED
    BY <1>1, <1>2, <1>3, <1>4, <1>5

\* A call that goes on, without touching its row: to another step, or to its end.
LEMMA Goes ==
    ASSUME BaseInv, NEW c \in Calls, NEW u \in CallStates,
           call' = [call EXCEPT ![c] = u],
           \/ u = IdleCall
           \/ /\ ~Idle(c) /\ u.o = call[c].o /\ u.pc # "save"
              /\ u.wrote = call[c].wrote /\ u.row = call[c].row
              /\ u.wrote => u.pc \in {"link", "commit"}
           \/ u.o \in Orders /\ u.pc # "save" /\ ~u.wrote,
           order' \in [Orders -> Rows],
           \A o \in Orders : order'[o].session = order[o].session,
           UNCHANGED << returned, bound, txn, sent >>
    PROVE  /\ call' \in [Calls -> CallStates]
           /\ (GatewayBound /\ WritersApart /\ OneSessionPerOrder)'
           /\ \A d \in Calls : CallBound(call[d])'
<1>1. CallBound(u)
    BY DEF BaseInv, CallBound, IdleCall, Begin, Idle
<1>2. ASSUME u.wrote PROVE RowFree(c, u.o)
    <2>1. u # IdleCall
        BY <1>2 DEF IdleCall, Begin
    <2>2. call[c].wrote /\ u.o = call[c].o
        BY <1>2, <2>1
    <2>3. \A d \in Calls \ {c} : ~(call[d].wrote /\ call[d].o = call[c].o)
        BY <2>2 DEF BaseInv, WritersApart
    <2> QED
        BY <2>2, <2>3 DEF RowFree
<1> QED
    BY <1>1, <1>2, SessionsKept

\* A call that writes the row it locks, and leaves the session in it alone.
LEMMA Writes ==
    ASSUME BaseInv, NEW c \in Calls, NEW row \in Rows, NEW pc \in {"link", "commit"},
           ~Idle(c), RowFree(c, call[c].o), row.session = order[call[c].o].session,
           WriteRow(c, row, pc), UNCHANGED << order, returned, bound, txn, sent >>
    PROVE  /\ call' \in [Calls -> CallStates]
           /\ (GatewayBound /\ WritersApart /\ OneSessionPerOrder)'
           /\ \A d \in Calls : CallBound(call[d])'
<1> DEFINE u == [call[c] EXCEPT !.pc = pc, !.wrote = TRUE, !.row = row]
<1>0. call[c] \in CallStates /\ CallBound(call[c])
    BY DEF BaseInv, PaymentsTypeOK
<1>1. u \in CallStates
    BY <1>0, CallUpdates DEF Steps
<1>2. /\ u.o = call[c].o /\ u.pc = pc /\ u.row = row /\ u.wrote = TRUE
    BY <1>0 DEF CallStates
<1>3. call' = [call EXCEPT ![c] = u]
    BY DEF WriteRow
<1> HIDE DEF u
<1>4. CallBound(u)
    BY <1>0, <1>2 DEF CallBound, Idle
<1>5. order' \in [Orders -> Rows] /\ \A o \in Orders : order'[o].session = order[o].session
    BY DEF BaseInv, PaymentsTypeOK
<1> QED
    BY <1>1, <1>2, <1>3, <1>4, <1>5, SessionsKept

\* The statement of a call outside a transaction.
LEMMA RowUpdated ==
    ASSUME BaseInv, NEW o \in Orders, NEW row \in Rows, Update(o, row),
           row.session = order[o].session
    PROVE  /\ order' \in [Orders -> Rows]
           /\ \A q \in Orders : order'[q].session = order[q].session
BY DEF BaseInv, PaymentsTypeOK, Update

LEMMA SessionKeptInRow ==
    ASSUME NEW row \in Rows
    PROVE  /\ \A s \in LiveStatuses : [row EXCEPT !.status = s].session = row.session
           /\ \A s \in LiveStatuses : ReleasedRow(row, s).session = row.session
           /\ \A t \in Txns \cup {None} : [row EXCEPT !.txid = t].session = row.session
           /\ [row EXCEPT !.status = "PAID", !.payment = "PAID", !.resv = FALSE].session
                = row.session
           /\ [row EXCEPT !.status = "REFUNDED", !.payment = "REFUNDED"].session = row.session
BY DEF Rows, ReleasedRow

-----------------------------------------------------------------------------
(* One lemma per operation: what it leaves of BaseInv.                      *)

LEMMA CheckoutBase ==
    ASSUME BaseInv, NEW c \in Calls,
           (\E o \in Orders : CheckoutBegin(c, o)) \/ Checkout(c)
    PROVE  BaseInv'
<1> USE DEF BaseInv
<1>0. call[c] \in CallStates /\ CallBound(call[c]) /\ \A o \in Orders : order[o] \in Rows
    BY DEF PaymentsTypeOK
<1>1. ASSUME NEW o \in Orders, CheckoutBegin(c, o) PROVE BaseInv'
    <2> DEFINE u == Begin("read", o, None, "PENDING")
    <2>1. u \in CallStates
        BY BeginCalls, NewRowType DEF Steps, LiveStatuses
    <2>2. u.o \in Orders /\ u.pc # "save" /\ ~u.wrote
        BY DEF Begin
    <2>3. call' = [call EXCEPT ![c] = u]
        BY <1>1 DEF CheckoutBegin, Start
    <2>4. ReleasedRow(order[o], "EXPIRED") \in Rows
          /\ ReleasedRow(order[o], "EXPIRED").session = order[o].session
        BY <1>0, RowUpdates, SessionKeptInRow DEF LiveStatuses
    <2>5. order' \in [Orders -> Rows] /\ \A q \in Orders : order'[q].session = order[q].session
        BY <1>1, <2>4, RowUpdated DEF CheckoutBegin, PaymentsTypeOK
    <2>6. UNCHANGED << returned, bound, txn, sent, lapsed, processed, events, audited >>
        BY <1>1 DEF CheckoutBegin, gateway, journal
    <2> HIDE DEF u
    <2> QED
        BY <2>1, <2>2, <2>3, <2>5, <2>6, Goes DEF PaymentsTypeOK
<1>2. CASE ReadForCheckout(c)
    <2> DEFINE u == [call[c] EXCEPT !.pc = "fetch"]
    <2>1. u \in CallStates
        BY <1>0, CallUpdates DEF Steps
    <2>2. /\ ~Idle(c) /\ u.o = call[c].o /\ u.pc # "save"
          /\ u.wrote = call[c].wrote /\ u.row = call[c].row /\ ~u.wrote
        BY <1>0, <1>2 DEF ReadForCheckout, At, Idle, CallStates, CallBound
    <2>3. call' = [call EXCEPT ![c] = u]
        BY <1>2 DEF ReadForCheckout, Goto
    <2>4. UNCHANGED << order, returned, bound, txn, sent, lapsed, processed, events, audited >>
        BY <1>2 DEF ReadForCheckout, gateway, DbUnchanged
    <2> HIDE DEF u
    <2> QED
        BY <2>1, <2>2, <2>3, <2>4, Goes DEF PaymentsTypeOK
<1>3. CASE ReuseSession(c)
    <2>1. call[c].o \in Orders /\ order[call[c].o].session \in Intentions
        BY <1>0, <1>3 DEF ReuseSession, At, CallBound, PaymentsTypeOK, Rows
    <2>2. call' \in [Calls -> CallStates] /\ returned' \in [Orders -> SUBSET Intentions]
        BY <1>3, <2>1, IdleCallType DEF ReuseSession, Return, PaymentsTypeOK
    <2>3. OneSessionPerOrder'
        BY <1>3, <2>1 DEF ReuseSession, OneSessionPerOrder, PaymentsTypeOK
    <2>4. WritersApart' /\ \A d \in Calls : CallBound(call[d])'
        BY <1>3 DEF ReuseSession, Return, gateway, WritersApart, CallBound, IdleCall, Begin, PaymentsTypeOK
    <2>5. GatewayBound'
        BY <1>3 DEF ReuseSession, gateway, GatewayBound
    <2> QED
        BY <1>3, <2>2, <2>3, <2>4, <2>5 DEF PaymentsTypeOK, ReuseSession, gateway
<1>4. CASE SaveSession(c)
    <2> DEFINE q == call[c].o
               row == [order[q] EXCEPT !.session = call[c].i]
    <2>1. q \in Orders /\ call[c].i \in Intentions /\ bound[call[c].i] = q
        BY <1>0, <1>4 DEF SaveSession, At, CallBound
    <2>2. row \in Rows /\ row.session = call[c].i
        BY <2>1, RowUpdates DEF PaymentsTypeOK, Rows
    <2>3. order' = [order EXCEPT ![q] = row] /\ returned' = [returned EXCEPT ![q] = @ \cup {call[c].i}]
        BY <1>4 DEF SaveSession, Update
    <2>4. returned[q] = {}
        BY <1>4, <2>1 DEF SaveSession, SessionStillWanted, OneSessionPerOrder, PaymentsTypeOK
    <2>5. \A d \in Calls \ {c} : call[d].wrote => call[d].o # q
        BY <1>4 DEF SaveSession, RowFree
    <2>6. UNCHANGED << lapsed, processed, events, audited, bound, txn, sent >>
          /\ call' = [call EXCEPT ![c] = IdleCall]
        BY <1>4 DEF SaveSession, gateway, Return
    <2> HIDE DEF q, row
    <2>7. PaymentsTypeOK'
        BY <2>1, <2>2, <2>3, <2>6, IdleCallType DEF PaymentsTypeOK
    <2>8. OneSessionPerOrder'
        BY <2>1, <2>2, <2>3, <2>4 DEF OneSessionPerOrder, PaymentsTypeOK
    <2>9. GatewayBound'
        BY <2>1, <2>2, <2>3, <2>6 DEF GatewayBound, PaymentsTypeOK
    <2>10. WritersApart'
        BY <2>6 DEF WritersApart, IdleCall, Begin, PaymentsTypeOK
    <2>11. ASSUME NEW d \in Calls PROVE CallBound(call[d])'
        BY <2>1, <2>2, <2>3, <2>5, <2>6 DEF CallBound, IdleCall, Begin, PaymentsTypeOK
    <2> QED
        BY <2>7, <2>8, <2>9, <2>10, <2>11
<1>5. ASSUME NEW i \in Intentions, CreateIntention(c, i) PROVE BaseInv'
    <2> DEFINE u == [call[c] EXCEPT !.pc = "save", !.i = i]
    <2>0. u \in CallStates
        BY <1>0, CallUpdates
    <2>00. ~call[c].wrote
        BY <1>0, <1>5 DEF CreateIntention, At, CallBound
    <2>1. u \in CallStates /\ u.pc = "save" /\ u.i = i /\ u.o = call[c].o /\ ~u.wrote
        BY <1>0, <2>0, <2>00 DEF CallStates
    <2>2. call' = [call EXCEPT ![c] = u] /\ bound' = [bound EXCEPT ![i] = u.o]
        BY <1>5, <2>1 DEF CreateIntention
    <2>3. u.o \in Orders
        BY <1>0, <1>5, <2>1 DEF CreateIntention, At, CallBound
    <2>4. UNCHANGED << order, lapsed, processed, events, audited, returned, txn, sent >>
        BY <1>5 DEF CreateIntention, DbUnchanged
    <2>5. \A j \in Intentions : bound[j] \in Orders => bound'[j] = bound[j]
        BY <1>5, <2>2 DEF CreateIntention, PaymentsTypeOK
    <2> HIDE DEF u
    <2>6. PaymentsTypeOK'
        BY <2>1, <2>2, <2>3, <2>4 DEF PaymentsTypeOK
    <2>7. GatewayBound'
        <3>1. \A t \in Txns : txn[t].i \in Intentions \cup {None}
            BY DEF PaymentsTypeOK, GatewayTxns
        <3>2. \A q \in Orders : order[q].session \in Intentions \cup {None}
            BY DEF PaymentsTypeOK, Rows
        <3> QED
            BY <2>4, <2>5, <3>1, <3>2 DEF GatewayBound
    <2>8. OneSessionPerOrder' /\ WritersApart'
        BY <2>1, <2>2, <2>4 DEF OneSessionPerOrder, WritersApart, PaymentsTypeOK
    <2>9. ASSUME NEW d \in Calls PROVE CallBound(call[d])'
        <3>1. CASE d = c
            BY <2>1, <2>2, <2>3, <3>1 DEF CallBound, PaymentsTypeOK
        <3>2. CASE d # c
            BY <2>2, <2>4, <2>5, <3>2 DEF CallBound, PaymentsTypeOK
        <3> QED
            BY <3>1, <3>2
    <2> QED
        BY <2>6, <2>7, <2>8, <2>9
<1> QED
    BY <1>1, <1>2, <1>3, <1>4, <1>5 DEF Checkout

\* A transaction of the gateway takes a new state and reports it.
LEMMA TxnStep ==
    ASSUME BaseInv, NEW t \in Txns, NEW i \in Intentions, bound[i] \in Orders,
           NEW state \in {"pending", "captured", "declined"},
           txn' = [txn EXCEPT ![t] = [ i |-> i, refunds |-> 0, state |-> state ]],
           sent' = sent \cup Report(t, state),
           UNCHANGED << bound, call >>, DbUnchanged
    PROVE  BaseInv'
<1> USE DEF BaseInv
<1>1. [ i |-> i, refunds |-> 0, state |-> state ] \in GatewayTxns
    BY DEF GatewayTxns
<1>2. Report(t, state) \in SUBSET Webhooks /\ \A m \in Report(t, state) : m.t = t
    <2>1. [ t |-> t, success |-> state = "captured", pending |-> FALSE ] \in Webhooks
        BY DEF Webhooks
    <2>2. ASSUME NEW m \in [ t : {t}, success : BOOLEAN, pending : {TRUE} ]
          PROVE  m \in Webhooks /\ m.t = t
        BY DEF Webhooks
    <2>3. CASE state = "pending"
        BY <2>2, <2>3 DEF Report
    <2>4. CASE state # "pending"
        BY <2>1, <2>4 DEF Report
    <2> QED
        BY <2>3, <2>4
<1>3. PaymentsTypeOK'
    BY <1>1, <1>2 DEF PaymentsTypeOK, DbUnchanged
<1>40. txn' = [txn EXCEPT ![t] = [ i |-> i, refunds |-> 0, state |-> state ]]
       /\ DOMAIN txn = Txns /\ i # None /\ state # "none" /\ UNCHANGED << bound, order >>
    BY DEF PaymentsTypeOK, DbUnchanged
<1>41. ASSUME NEW q \in Txns
       PROVE  /\ txn[q].i # None => txn'[q].i # None /\ bound'[txn'[q].i] \in Orders
              /\ txn'[q].i # None => bound'[txn'[q].i] \in Orders
              /\ txn'[q].state # "none" => txn'[q].i # None
    <2>1. CASE q = t
        BY <1>40, <2>1
    <2>2. CASE q # t
        BY <1>40, <2>2 DEF GatewayBound
    <2> QED
        BY <2>1, <2>2
<1>42. txn'[t].i # None
    BY <1>40
<1>43. ASSUME NEW m \in sent' PROVE txn'[m.t].i # None
    <2>1. m \in Report(t, state) \/ (m \in sent /\ m.t \in Txns)
        BY <1>43 DEF PaymentsTypeOK, Webhooks
    <2> QED
        BY <1>2, <1>41, <1>42, <2>1 DEF GatewayBound
<1>4. GatewayBound'
    BY <1>40, <1>41, <1>43 DEF GatewayBound
<1>5. OneSessionPerOrder' /\ WritersApart' /\ \A d \in Calls : CallBound(call[d])'
    BY DEF OneSessionPerOrder, WritersApart, CallBound, DbUnchanged
<1> QED
    BY <1>3, <1>4, <1>5

LEMMA GatewayBase == ASSUME BaseInv, Gateway PROVE BaseInv'
<1> USE DEF BaseInv
<1>1. PICK t \in Txns, state \in {"pending", "captured", "declined"} :
        Settle(t, state) \/ \E i \in Intentions : Attempt(t, i, state)
    BY DEF Gateway
<1>2. CASE Settle(t, state)
    <2>1. txn[t].i \in Intentions /\ bound[txn[t].i] \in Orders
        BY <1>2 DEF Settle, GatewayBound, PaymentsTypeOK, GatewayTxns
    <2> QED
        BY <1>2, <2>1, TxnStep DEF Settle
<1>3. ASSUME NEW i \in Intentions, Attempt(t, i, state) PROVE BaseInv'
    <2>1. PICK o \in Orders : i \in returned[o]
        BY <1>3 DEF Attempt
    <2>2. i = order[o].session /\ i # None
        BY <2>1 DEF OneSessionPerOrder
    <2>3. bound[i] \in Orders
        BY <2>2 DEF GatewayBound
    <2> QED
        BY <1>3, <2>3, TxnStep DEF Attempt
<1> QED
    BY <1>1, <1>2, <1>3

\* The webhook's call and its transaction.
LEMMA WebhookBase ==
    ASSUME BaseInv, NEW c \in Calls,
           \/ \E m \in Webhooks : Webhook(c, m)
           \/ ReadForPayment(c) \/ MarkPaid(c) \/ Link(c)
           \/ CancelPending(c) \/ Abort(c) \/ Commit(c)
    PROVE  BaseInv'
<1> USE DEF BaseInv
<1>0. call[c] \in CallStates /\ CallBound(call[c])
    BY DEF PaymentsTypeOK
<1>00. ~Idle(c) => call[c].o \in Orders /\ order[call[c].o] \in Rows
    BY <1>0 DEF Idle, CallBound, PaymentsTypeOK
<1>1. ASSUME NEW m \in Webhooks, Webhook(c, m) PROVE BaseInv'
    <2>1. txn[m.t].i \in Intentions /\ OrderOf(m.t) \in Orders /\ m.t \in Txns
        BY <1>1 DEF Webhook, GatewayBound, OrderOf, PaymentsTypeOK, Webhooks, GatewayTxns
    <2>2. PICK u \in CallStates : /\ call' = [call EXCEPT ![c] = u]
                                  /\ u.o \in Orders /\ u.pc # "save" /\ ~u.wrote
        <3>1. CASE IsSuccess(m)
            <4>1. Begin("payread", OrderOf(m.t), m.t, "PAID") \in CallStates
                BY <2>1, BeginCalls, NewRowType DEF Steps, LiveStatuses
            <4> QED
                BY <1>1, <2>1, <3>1, <4>1 DEF Webhook, Start, Begin
        <3>2. CASE ~IsSuccess(m)
            <4>1. Begin("cancel", OrderOf(m.t), m.t, "CANCELLED") \in CallStates
                BY <2>1, BeginCalls, NewRowType DEF Steps, LiveStatuses
            <4> QED
                BY <1>1, <2>1, <3>2, <4>1 DEF Webhook, Start, Begin
        <3> QED
            BY <3>1, <3>2
    <2>3. UNCHANGED << order, returned, bound, txn, sent, lapsed, processed, events, audited >>
        BY <1>1 DEF Webhook, gateway, DbUnchanged
    <2> QED
        BY <2>2, <2>3, Goes DEF PaymentsTypeOK
<1>2. ASSUME NEW pc \in Steps \ {"save"}, ~Idle(c), Goto(c, pc), UNCHANGED gateway, DbUnchanged,
             call[c].wrote => pc \in {"link", "commit"}
      PROVE  BaseInv'
    <2> DEFINE u == [call[c] EXCEPT !.pc = pc]
    <2>1. u \in CallStates
        BY <1>0, CallUpdates
    <2>2. /\ u.o = call[c].o /\ u.pc = pc /\ u.wrote = call[c].wrote /\ u.row = call[c].row
        BY <1>0 DEF CallStates
    <2>3. call' = [call EXCEPT ![c] = u]
        BY <1>2 DEF Goto
    <2>4. UNCHANGED << order, returned, bound, txn, sent, lapsed, processed, events, audited >>
        BY <1>2 DEF gateway, DbUnchanged
    <2> HIDE DEF u
    <2> QED
        BY <1>2, <2>1, <2>2, <2>3, <2>4, Goes DEF PaymentsTypeOK
<1>3. ASSUME NEW row \in Rows, NEW pc \in {"link", "commit"}, ~Idle(c), RowFree(c, call[c].o),
             row.session = order[call[c].o].session, WriteRow(c, row, pc), UNCHANGED gateway,
             DbUnchanged
      PROVE  BaseInv'
    BY <1>3, Writes DEF gateway, DbUnchanged, PaymentsTypeOK
<1>4. CASE ReadForPayment(c)
    BY <1>0, <1>2, <1>4 DEF ReadForPayment, At, Idle, Steps, CallBound
<1>5. CASE MarkPaid(c)
    BY <1>00, <1>3, <1>5, RowUpdates, SessionKeptInRow DEF MarkPaid, At, Idle
<1>6. CASE Link(c)
    <2>1. Current(c) \in Rows /\ Current(c).session = order[call[c].o].session
        BY <1>0, <1>00, <1>6 DEF Link, At, Idle, Current, CallBound, CallStates
    <2>2. call[c].t \in Txns \cup {None}
        BY <1>0 DEF CallStates
    <2>3. [Current(c) EXCEPT !.txid = call[c].t] \in Rows
          /\ [Current(c) EXCEPT !.txid = call[c].t].session = order[call[c].o].session
        BY <2>1, <2>2, RowUpdates, SessionKeptInRow
    <2> QED
        BY <1>3, <1>6, <2>3 DEF Link, At, Idle
<1>7. CASE CancelPending(c)
    <2>1. FailedRow(c) \in Rows /\ FailedRow(c).session = order[call[c].o].session
        BY <1>00, <1>7, RowUpdates, SessionKeptInRow
           DEF FailedRow, CancelPending, At, Idle, LiveStatuses
    <2>2. ~Idle(c)
        BY <1>7 DEF CancelPending, At, Idle
    <2> QED
        BY <1>2, <1>3, <1>7, <2>1, <2>2 DEF CancelPending, Steps
<1>8. CASE Abort(c)
    BY <1>8, Goes, IdleCallType DEF Abort, Return, gateway, DbUnchanged, PaymentsTypeOK
<1>9. CASE Commit(c)
    <2>1. order' \in [Orders -> Rows] /\ \A o \in Orders : order'[o].session = order[o].session
        BY <1>0, <1>9 DEF Commit, PaymentsTypeOK, CallBound, CallStates
    <2>2. processed' \in SUBSET Txns /\ events' \in [EventTypes \X Txns -> Nat]
        <3>1. CASE call[c].t = None
            BY <1>9, <3>1 DEF Commit, PaymentsTypeOK
        <3>2. CASE call[c].t # None
            <4>1. PICK e \in { EventOf(c), << "dropped", call[c].t >> } :
                    processed' = processed \cup {call[c].t} /\ events' = [events EXCEPT ![e] = @ + 1]
                BY <1>9, <3>2 DEF Commit
            <4>2. e \in EventTypes \X Txns /\ call[c].t \in Txns
                BY <1>0, <3>2, <4>1 DEF EventOf, EventTypes, CallStates
            <4>3. events[e] + 1 \in Nat
                BY <4>2 DEF PaymentsTypeOK
            <4> QED
                BY <4>1, <4>2, <4>3 DEF PaymentsTypeOK
        <3> QED
            BY <3>1, <3>2
    <2> QED
        BY <1>9, <2>1, <2>2, Goes, IdleCallType DEF Commit, Return, gateway, PaymentsTypeOK
<1> QED
    BY <1>1, <1>4, <1>5, <1>6, <1>7, <1>8, <1>9

LEMMA AdminBase ==
    ASSUME BaseInv, NEW c \in Calls,
           \/ \E o \in Orders, to \in LiveStatuses : Transition(c, o, to) \/ Release(c, o, to)
           \/ Advance(c)
    PROVE  BaseInv'
<1> USE DEF BaseInv
<1>0. call[c] \in CallStates /\ CallBound(call[c]) /\ \A o \in Orders : order[o] \in Rows
    BY DEF PaymentsTypeOK
<1>1. ASSUME NEW o \in Orders, NEW to \in LiveStatuses, Transition(c, o, to) PROVE BaseInv'
    <2> DEFINE u == Begin(IF to = "PAID" THEN "pay" ELSE "advance", o, None, to)
    <2>1. u \in CallStates
        BY BeginCalls, NewRowType DEF Steps
    <2>2. u.o \in Orders /\ u.pc # "save" /\ ~u.wrote
        BY DEF Begin
    <2>3. call' = [call EXCEPT ![c] = u]
        BY <1>1 DEF Transition, Start
    <2>4. UNCHANGED << order, returned, bound, txn, sent, lapsed, processed, events, audited >>
        BY <1>1 DEF Transition, gateway, DbUnchanged
    <2> HIDE DEF u
    <2> QED
        BY <2>1, <2>2, <2>3, <2>4, Goes DEF PaymentsTypeOK
<1>2. ASSUME NEW o \in Orders, NEW to \in LiveStatuses, Release(c, o, to) PROVE BaseInv'
    <2>0. ReleasedRow(order[o], to) \in Rows
          /\ ReleasedRow(order[o], to).session = order[o].session
        BY <1>0, RowUpdates, SessionKeptInRow
    <2>1. order' \in [Orders -> Rows] /\ \A q \in Orders : order'[q].session = order[q].session
        BY <1>2, <2>0, RowUpdated DEF Release
    <2>2. UNCHANGED << returned, bound, txn, sent, lapsed, processed, events, audited, call >>
        BY <1>2 DEF Release, gateway, journal
    <2>3. GatewayBound' /\ OneSessionPerOrder' /\ WritersApart'
        BY <2>1, <2>2 DEF GatewayBound, OneSessionPerOrder, WritersApart
    <2>4. \A d \in Calls : CallBound(call[d])'
        BY <2>1, <2>2 DEF CallBound
    <2> QED
        BY <2>1, <2>2, <2>3, <2>4 DEF PaymentsTypeOK
<1>3. CASE Advance(c)
    <2>1. call[c].o \in Orders /\ call[c].to \in LiveStatuses
        BY <1>0, <1>3 DEF Advance, At, CallBound, CallStates
    <2>2. order[call[c].o] \in Rows
        BY <2>1 DEF PaymentsTypeOK
    <2>3. order' \in [Orders -> Rows] /\ \A q \in Orders : order'[q].session = order[q].session
        BY <1>3, <2>1, <2>2, RowUpdated, RowUpdates, SessionKeptInRow DEF Advance
    <2> QED
        BY <1>3, <2>3, Goes, IdleCallType DEF Advance, Return, gateway, journal, PaymentsTypeOK
<1> QED
    BY <1>1, <1>2, <1>3

LEMMA LapseBase == ASSUME BaseInv, NEW o \in Orders, Lapse(o) \/ LeaveWindow(o) PROVE BaseInv'
<1>1. lapsed' \in SUBSET (Orders \X Dates)
    BY DEF Lapse, LeaveWindow, BaseInv, PaymentsTypeOK, Dates
<1>2. UNCHANGED << order, returned, bound, txn, sent, processed, events, audited, call >>
    BY DEF Lapse, LeaveWindow, gateway, journal
<1> QED
    BY <1>1, <1>2 DEF BaseInv, PaymentsTypeOK, GatewayBound, OneSessionPerOrder, WritersApart, CallBound

LEMMA RefundBase ==
    ASSUME BaseInv, NEW c \in Calls,
           \/ PostRefund(c) \/ RecordRefund(c) \/ Reconcile(c)
           \/ \E o \in Orders : \/ ReadForRefund(c, o)
                             \/ \E audit \in BOOLEAN : \/ ReportUnlinked(c, o, audit)
                                                      \/ ReadForReconcile(c, o, audit)
    PROVE  BaseInv'
<1> USE DEF BaseInv
<1>0. call[c] \in CallStates /\ CallBound(call[c]) /\ \A o \in Orders : order[o] \in Rows
    BY DEF PaymentsTypeOK
<1>1. ASSUME NEW o \in Orders, ReadForRefund(c, o) PROVE BaseInv'
    <2> DEFINE u == Begin("post", o, order[o].txid, "REFUNDED")
    <2>1. u \in CallStates
        BY <1>0, BeginCalls, NewRowType DEF Steps, LiveStatuses, Rows
    <2>2. u.o \in Orders /\ u.pc # "save" /\ ~u.wrote
        BY DEF Begin
    <2>3. call' = [call EXCEPT ![c] = u]
        BY <1>1 DEF ReadForRefund, Start
    <2>4. UNCHANGED << order, returned, bound, txn, sent, lapsed, processed, events, audited >>
        BY <1>1 DEF ReadForRefund, gateway, DbUnchanged
    <2> HIDE DEF u
    <2> QED
        BY <2>1, <2>2, <2>3, <2>4, Goes DEF PaymentsTypeOK
<1>2. CASE PostRefund(c)
    <2> DEFINE t == call[c].t
               u == [call[c] EXCEPT !.pc = "record"]
               r == [ i |-> txn[t].i, refunds |-> txn[t].refunds + 1, state |-> txn[t].state ]
    <2>1. u \in CallStates
        BY <1>0, CallUpdates DEF Steps
    <2>2. /\ u.o = call[c].o /\ u.pc = "record" /\ ~u.wrote /\ call[c].o \in Orders
        BY <1>0, <1>2 DEF PostRefund, At, CallBound, CallStates
    <2>3. call' = [call EXCEPT ![c] = u] /\ txn' = [txn EXCEPT ![t] = r]
          /\ UNCHANGED << order, returned, bound, sent, lapsed, processed, events, audited >>
        BY <1>2 DEF PostRefund, Goto, DbUnchanged
    <2>4. t \in Txns => r \in GatewayTxns
        BY <1>2, PaymentsAssumption DEF PostRefund, PaymentsTypeOK, GatewayTxns
    <2>5. \A q \in Txns : txn'[q].i = txn[q].i /\ txn'[q].state = txn[q].state
        BY <2>3 DEF PaymentsTypeOK
    <2> HIDE DEF t, u, r
    <2>6. PaymentsTypeOK'
        BY <2>1, <2>3, <2>4 DEF PaymentsTypeOK
    <2>7. GatewayBound'
        BY <2>3, <2>5 DEF GatewayBound, PaymentsTypeOK, Webhooks
    <2>8. OneSessionPerOrder' /\ WritersApart' /\ \A d \in Calls : CallBound(call[d])'
        BY <2>2, <2>3 DEF OneSessionPerOrder, WritersApart, CallBound, PaymentsTypeOK
    <2> QED
        BY <2>6, <2>7, <2>8
<1>3. CASE RecordRefund(c)
    <2>1. call[c].o \in Orders /\ order[call[c].o] \in Rows
        BY <1>0, <1>3 DEF RecordRefund, At, CallBound, PaymentsTypeOK
    <2>2. order' \in [Orders -> Rows] /\ \A q \in Orders : order'[q].session = order[q].session
        BY <1>3, <2>1, RowUpdated, RowUpdates, SessionKeptInRow DEF RecordRefund
    <2> QED
        BY <1>3, <2>2, Goes, IdleCallType DEF RecordRefund, Return, gateway, journal, PaymentsTypeOK
<1>4. ASSUME NEW o \in Orders, NEW audit \in BOOLEAN, ReportUnlinked(c, o, audit) PROVE BaseInv'
    BY <1>4 DEF ReportUnlinked, gateway, PaymentsTypeOK, GatewayBound, OneSessionPerOrder, WritersApart,
                CallBound
<1>5. ASSUME NEW o \in Orders, NEW audit \in BOOLEAN, ReadForReconcile(c, o, audit) PROVE BaseInv'
    <2> DEFINE u == [Begin("check", o, order[o].txid, "PENDING") EXCEPT !.row = order[o]]
    <2>1. u \in CallStates
        BY <1>0, BeginCalls, NewRowType DEF Steps, LiveStatuses, Rows
    <2>2. u.o \in Orders /\ u.pc # "save" /\ ~u.wrote
        BY DEF Begin
    <2>3. call' = [call EXCEPT ![c] = u]
        BY <1>5 DEF ReadForReconcile
    <2>4. UNCHANGED << order, returned, bound, txn, sent, lapsed, processed, events, audited >>
        BY <1>5 DEF ReadForReconcile, gateway, DbUnchanged
    <2> HIDE DEF u
    <2> QED
        BY <2>1, <2>2, <2>3, <2>4, Goes DEF PaymentsTypeOK
<1>6. CASE Reconcile(c)
    <2>1. audited' \in SUBSET (Orders \X {"unlinked", "mismatch"})
        BY <1>0, <1>6 DEF Reconcile, At, CallBound, PaymentsTypeOK
    <2> QED
        BY <1>6, <2>1, Goes, IdleCallType DEF Reconcile, Return, gateway, PaymentsTypeOK
<1> QED
    BY <1>1, <1>2, <1>3, <1>4, <1>5, <1>6

LEMMA StutterBase == ASSUME BaseInv, UNCHANGED paymentVars PROVE BaseInv'
BY DEF paymentVars, BaseInv, PaymentsTypeOK, GatewayBound, OneSessionPerOrder, WritersApart, CallBound

LEMMA NextBase == BaseInv /\ [PaymentsNext]_paymentVars => BaseInv'
<1> SUFFICES ASSUME BaseInv, [PaymentsNext]_paymentVars PROVE BaseInv'
    OBVIOUS
<1>1. ASSUME NEW c \in Calls, Request(c) \/ Checkout(c) \/ Continue(c) PROVE BaseInv'
    <2>1. CASE Request(c)
        <3>1. CASE \E m \in Webhooks : Webhook(c, m)
            BY <3>1, WebhookBase
        <3>2. ASSUME NEW o \in Orders, CheckoutBegin(c, o) PROVE BaseInv'
            BY <3>2, CheckoutBase
        <3>3. ASSUME NEW o \in Orders, NEW to \in LiveStatuses,
                     Transition(c, o, to) \/ Release(c, o, to)
              PROVE  BaseInv'
            BY <3>3, AdminBase
        <3>4. ASSUME NEW o \in Orders,
                     \/ ReadForRefund(c, o)
                     \/ \E audit \in BOOLEAN : \/ ReportUnlinked(c, o, audit)
                                              \/ ReadForReconcile(c, o, audit)
              PROVE  BaseInv'
            BY <3>4, RefundBase
        <3> QED
            BY <2>1, <3>1, <3>2, <3>3, <3>4 DEF Request
    <2>2. CASE Checkout(c)
        BY <2>2, CheckoutBase
    <2>3. CASE Continue(c)
        <3>1. CASE Advance(c)
            BY <3>1, AdminBase
        <3>2. CASE PostRefund(c) \/ RecordRefund(c) \/ Reconcile(c)
            BY <3>2, RefundBase
        <3> QED
            BY <2>3, <3>1, <3>2, WebhookBase DEF Continue
    <2> QED
        BY <1>1, <2>1, <2>2, <2>3
<1> QED
    BY <1>1, GatewayBase, LapseBase, StutterBase DEF PaymentsNext

\* Whatever requests, webhooks and stops interleave, rows, calls and the gateway's records
\* keep their types, and a row keeps the session that checkouts were given.
THEOREM PaymentTypeSafety == PaymentsSpec => []PaymentsTypeOK
<1>1. BaseInv => PaymentsTypeOK
    BY DEF BaseInv
<1> QED
    BY <1>1, InitBase, NextBase, PTL DEF PaymentsSpec

\* createCheckoutSession: for any number of overlapping checkouts, only the session that
\* the guarded update has stored is ever returned.
THEOREM OneSession == PaymentsSpec => []OneSessionPerOrder
<1>1. BaseInv => OneSessionPerOrder
    BY DEF BaseInv
<1> QED
    BY <1>1, InitBase, NextBase, PTL DEF PaymentsSpec

-----------------------------------------------------------------------------
(* Why reconciliation has nothing to repair.  A transaction is linked only   *)
(* to a row that is PAID or beyond, and no statement takes a row back from   *)
(* there to a status that reconciliation would repair: cancellations and     *)
(* expiries take PENDING rows under their lock, and an administrator's late  *)
(* update writes neither PENDING nor a released status.                      *)

Sealed(row) == row.txid # None => row.status \notin Repairable

CallSealed(u) ==
    /\ u.wrote => /\ Sealed(u.row)
                  /\ order[u.o].status \notin Repairable => u.row.status \notin Repairable
    /\ u.pc = "link" => IF u.wrote THEN u.row.status \notin Repairable
                                   ELSE order[u.o].status \notin Repairable
    /\ u.pc = "advance" => u.to \notin Repairable
    /\ u.pc = "check" => u.row.status \notin Repairable

SealedInv ==
    /\ \A o \in Orders : Sealed(order[o])
    /\ \A c \in Calls : CallSealed(call[c])

\* A step of a call that commits nothing.
LEMMA SealedLocal ==
    ASSUME BaseInv, SealedInv, NEW c \in Calls, NEW u, CallSealed(u),
           call' = [call EXCEPT ![c] = u], UNCHANGED order
    PROVE  SealedInv'
BY DEF BaseInv, PaymentsTypeOK, SealedInv, CallSealed, Sealed

\* A step that commits a row while nobody else has written it.
LEMMA SealedUpdate ==
    ASSUME BaseInv, SealedInv, NEW c \in Calls, NEW o \in Orders, NEW row, NEW u,
           order' = [order EXCEPT ![o] = row], call' = [call EXCEPT ![c] = u],
           Sealed(row), order[o].status \notin Repairable => row.status \notin Repairable,
           RowFree(c, o), ~u.wrote, u.pc \notin {"link", "advance", "check"}
    PROVE  SealedInv'
<1> USE DEF BaseInv, PaymentsTypeOK
<1>1. \A q \in Orders : /\ Sealed(order[q])' /\ q # o => order'[q] = order[q]
                        /\ order[q].status \notin Repairable => order'[q].status \notin Repairable
    BY DEF SealedInv, Sealed
<1>2. ASSUME NEW d \in Calls PROVE CallSealed(call[d])'
    <2>1. CASE d = c
        BY <2>1 DEF CallSealed
    <2>2. CASE d # c
        <3>1. call'[d] = call[d] /\ CallSealed(call[d]) /\ CallBound(call[d])
            BY <2>2 DEF SealedInv
        <3>2. call[d].wrote => call[d].o # o
            BY <2>2 DEF RowFree
        <3>3. call[d].pc = "link" => call[d].o \in Orders
            BY <3>1 DEF CallBound
        <3>4. call[d].wrote => call[d].o \in Orders
            BY <3>1 DEF CallBound
        <3>5. call[d].wrote => order'[call[d].o] = order[call[d].o]
            BY <1>1, <3>2, <3>4
        <3> QED
            BY <1>1, <3>1, <3>3, <3>5 DEF CallSealed, Sealed
    <2> QED
        BY <2>1, <2>2
<1> QED
    BY <1>1, <1>2 DEF SealedInv

\* Nothing that an idle call or a fresh one holds can break the seal.
LEMMA FreshSealed ==
    ASSUME NEW u, ~u.wrote, u.pc \notin {"link", "advance", "check"}
    PROVE  CallSealed(u)
BY DEF CallSealed

LEMMA SameStatusSealed ==
    ASSUME NEW row \in Rows, NEW i \in Intentions
    PROVE  /\ [row EXCEPT !.session = i].status = row.status
           /\ [row EXCEPT !.session = i].txid = row.txid
BY DEF Rows

LEMMA StatusWritten ==
    ASSUME NEW row \in Rows
    PROVE  /\ \A s : /\ [row EXCEPT !.status = s].status = s
                     /\ ReleasedRow(row, s).status = s
                     /\ ReleasedRow(row, s).txid = row.txid
           /\ [row EXCEPT !.status = "PAID", !.payment = "PAID", !.resv = FALSE].status = "PAID"
           /\ [row EXCEPT !.status = "REFUNDED", !.payment = "REFUNDED"].status = "REFUNDED"
           /\ \A t : [row EXCEPT !.txid = t].status = row.status
BY DEF Rows, ReleasedRow

\* From a status that is not to be repaired, no transition leads to one that is.
LEMMA AdminStatuses ==
    ASSUME NEW s \in LiveStatuses, NEW to \in LiveStatuses, TransitionAllowed(s, to), s # to,
           to \notin Released
    PROVE  to \notin Repairable
<1>1. "PENDING" \notin AllowedTransitions[s]
    BY DEF LiveStatuses, AllowedTransitions
<1> QED
    BY <1>1 DEF TransitionAllowed, Released, Repairable

LEMMA CheckoutSealed ==
    ASSUME BaseInv, SealedInv, NEW c \in Calls,
           (\E o \in Orders : CheckoutBegin(c, o)) \/ Checkout(c)
    PROVE  SealedInv'
<1>0. call[c] \in CallStates /\ CallBound(call[c]) /\ CallSealed(call[c])
      /\ \A o \in Orders : order[o] \in Rows
    BY DEF BaseInv, PaymentsTypeOK, SealedInv
<1>1. ASSUME NEW o \in Orders, CheckoutBegin(c, o) PROVE SealedInv'
    <2> DEFINE u == Begin("read", o, None, "PENDING")
    <2>1. call' = [call EXCEPT ![c] = u]
        BY <1>1 DEF CheckoutBegin, Start
    <2>2. ~u.wrote /\ u.pc = "read"
        BY DEF Begin
    <2> HIDE DEF u
    <2>3. CASE ~Due(o)
        BY <1>1, <2>1, <2>2, <2>3, FreshSealed, SealedLocal DEF CheckoutBegin
    <2>4. CASE Due(o)
        <3> DEFINE r == ReleasedRow(order[o], "EXPIRED")
        <3>1. order[o].txid = None /\ order[o].status \in Repairable
            BY <2>4 DEF Due, SealedInv, Sealed, Repairable
        <3>2. r.txid = None
            BY <1>0, <3>1, StatusWritten
        <3>3. order' = [order EXCEPT ![o] = r] /\ RowFree(c, o)
            BY <1>1, <2>4 DEF CheckoutBegin, Update
        <3> HIDE DEF r
        <3> QED
            BY <2>1, <2>2, <3>1, <3>2, <3>3, SealedUpdate DEF Sealed
    <2> QED
        BY <2>3, <2>4
<1>2. CASE ReadForCheckout(c)
    <2>1. ~call[c].wrote /\ [call[c] EXCEPT !.pc = "fetch"].pc = "fetch"
          /\ [call[c] EXCEPT !.pc = "fetch"].wrote = call[c].wrote
        BY <1>0, <1>2 DEF ReadForCheckout, At, CallBound, CallStates
    <2> QED
        BY <1>2, <2>1, FreshSealed, SealedLocal DEF ReadForCheckout, Goto, DbUnchanged
<1>3. CASE ReuseSession(c)
    BY <1>3, FreshSealed, SealedLocal DEF ReuseSession, Return, IdleCall, Begin
<1>4. CASE SaveSession(c)
    <2> DEFINE q == call[c].o
               r == [order[q] EXCEPT !.session = call[c].i]
    <2>1. q \in Orders /\ call[c].i \in Intentions
        BY <1>0, <1>4 DEF SaveSession, At, CallBound
    <2>2. r.status = order[q].status /\ r.txid = order[q].txid
        BY <1>0, <2>1, SameStatusSealed
    <2>3. order' = [order EXCEPT ![q] = r] /\ call' = [call EXCEPT ![c] = IdleCall]
          /\ RowFree(c, q)
        BY <1>4 DEF SaveSession, Update, Return
    <2>4. Sealed(order[q])
        BY <2>1 DEF SealedInv
    <2>5. ~IdleCall.wrote /\ IdleCall.pc = "idle"
        BY DEF IdleCall, Begin
    <2> HIDE DEF q, r
    <2> QED
        BY <2>1, <2>2, <2>3, <2>4, <2>5, SealedUpdate DEF Sealed
<1>5. ASSUME NEW i \in Intentions, CreateIntention(c, i) PROVE SealedInv'
    <2> DEFINE u == [call[c] EXCEPT !.pc = "save", !.i = i]
    <2>1. ~call[c].wrote
        BY <1>0, <1>5 DEF CreateIntention, At, CallBound
    <2>2. u.pc = "save" /\ u.wrote = call[c].wrote
        BY <1>0 DEF CallStates
    <2>3. call' = [call EXCEPT ![c] = u] /\ UNCHANGED order
        BY <1>5 DEF CreateIntention, DbUnchanged
    <2> HIDE DEF u
    <2> QED
        BY <2>1, <2>2, <2>3, FreshSealed, SealedLocal
<1> QED
    BY <1>1, <1>2, <1>3, <1>4, <1>5 DEF Checkout

LEMMA WebhookSealed ==
    ASSUME BaseInv, SealedInv, NEW c \in Calls,
           \/ \E m \in Webhooks : Webhook(c, m)
           \/ ReadForPayment(c) \/ MarkPaid(c) \/ Link(c)
           \/ CancelPending(c) \/ Abort(c) \/ Commit(c)
    PROVE  SealedInv'
<1>0. call[c] \in CallStates /\ CallBound(call[c]) /\ CallSealed(call[c])
      /\ \A o \in Orders : order[o] \in Rows /\ Sealed(order[o])
    BY DEF BaseInv, PaymentsTypeOK, SealedInv
<1>1. ASSUME NEW m \in Webhooks, Webhook(c, m) PROVE SealedInv'
    <2> DEFINE p == Begin("payread", OrderOf(m.t), m.t, "PAID")
               n == Begin("cancel", OrderOf(m.t), m.t, "CANCELLED")
    <2>0. /\ p.pc = "payread" /\ ~p.wrote
          /\ n.pc = "cancel" /\ ~n.wrote
        BY DEF Begin
    <2>1. call' = [call EXCEPT ![c] = p] \/ call' = [call EXCEPT ![c] = n]
        BY <1>1 DEF Webhook, Start
    <2>2. UNCHANGED order
        BY <1>1 DEF Webhook, DbUnchanged
    <2> HIDE DEF p, n
    <2> QED
        BY <2>0, <2>1, <2>2, FreshSealed, SealedLocal
<1>2. ASSUME NEW pc, Goto(c, pc), UNCHANGED order, ~call[c].wrote,
             pc \in {"pay", "commit"} \/ (pc = "link" /\ order[call[c].o].status \notin Repairable)
      PROVE  SealedInv'
    <2> DEFINE u == [call[c] EXCEPT !.pc = pc]
    <2>1. /\ u.o = call[c].o /\ u.pc = pc /\ u.wrote = call[c].wrote
        BY <1>0 DEF CallStates
    <2>2. call' = [call EXCEPT ![c] = u]
        BY <1>2 DEF Goto
    <2> HIDE DEF u
    <2>3. CallSealed(u)
        BY <1>2, <2>1 DEF CallSealed
    <2> QED
        BY <1>2, <2>2, <2>3, SealedLocal
<1>3. ASSUME NEW row, NEW pc \in {"link", "commit"}, WriteRow(c, row, pc), UNCHANGED order,
             \/ row.status \notin Repairable
             \/ pc = "commit" /\ Sealed(row) /\ order[call[c].o].status \in Repairable
      PROVE  SealedInv'
    <2> DEFINE u == [call[c] EXCEPT !.pc = pc, !.wrote = TRUE, !.row = row]
    <2>1. /\ u.o = call[c].o /\ u.pc = pc /\ u.wrote = TRUE /\ u.row = row
        BY <1>0 DEF CallStates
    <2>2. call' = [call EXCEPT ![c] = u]
        BY <1>3 DEF WriteRow
    <2> HIDE DEF u
    <2>3. CallSealed(u)
        BY <1>3, <2>1 DEF CallSealed, Sealed
    <2> QED
        BY <1>3, <2>2, <2>3, SealedLocal
<1>4. CASE ReadForPayment(c)
    <2>1. ~call[c].wrote
        BY <1>0, <1>4 DEF ReadForPayment, At, CallBound
    <2>2. "PAID" \notin Repairable
        BY DEF Repairable
    <2> QED
        BY <1>2, <1>4, <2>1, <2>2 DEF ReadForPayment, DbUnchanged
<1>5. CASE MarkPaid(c)
    <2> DEFINE r == [order[call[c].o] EXCEPT !.status = "PAID", !.payment = "PAID", !.resv = FALSE]
    <2>1. call[c].o \in Orders
        BY <1>0, <1>5 DEF MarkPaid, At, CallBound
    <2>2. r.status \notin Repairable
        BY <1>0, <2>1, StatusWritten DEF Repairable
    <2>3. \E pc \in {"link", "commit"} : WriteRow(c, r, pc)
        BY <1>5 DEF MarkPaid
    <2> HIDE DEF r
    <2> QED
        BY <1>3, <1>5, <2>2, <2>3 DEF MarkPaid, DbUnchanged
<1>6. CASE Link(c)
    <2> DEFINE r == [Current(c) EXCEPT !.txid = call[c].t]
    <2>1. call[c].o \in Orders
        BY <1>0, <1>6 DEF Link, At, CallBound
    <2>2. Current(c) \in Rows /\ Current(c).status \notin Repairable
        BY <1>0, <1>6, <2>1 DEF Link, At, Current, CallSealed, CallStates
    <2>3. r.status \notin Repairable
        BY <2>2, StatusWritten
    <2>4. WriteRow(c, r, "commit")
        BY <1>6 DEF Link
    <2> HIDE DEF r
    <2> QED
        BY <1>3, <1>6, <2>3, <2>4 DEF Link, DbUnchanged
<1>7. CASE CancelPending(c)
    <2>1. call[c].o \in Orders /\ ~call[c].wrote
        BY <1>0, <1>7 DEF CancelPending, At, CallBound
    <2>2. CASE order[call[c].o].status = "PENDING" /\ WriteRow(c, FailedRow(c), "commit")
        <3>1. order[call[c].o].status \in Repairable /\ order[call[c].o].txid = None
            BY <1>0, <2>1, <2>2 DEF Repairable, Sealed
        <3>2. FailedRow(c).txid = None
            BY <1>0, <2>1, <3>1, StatusWritten DEF FailedRow
        <3> QED
            BY <1>3, <1>7, <2>2, <3>1, <3>2 DEF Sealed, CancelPending, DbUnchanged
    <2>3. CASE Goto(c, "commit")
        BY <1>2, <1>7, <2>1, <2>3 DEF CancelPending, DbUnchanged
    <2> QED
        BY <1>7, <2>2, <2>3 DEF CancelPending
<1>8. CASE Abort(c)
    BY <1>8, FreshSealed, SealedLocal DEF Abort, Return, IdleCall, Begin, DbUnchanged
<1>9. CASE Commit(c)
    <2>1. call[c].o \in Orders /\ call' = [call EXCEPT ![c] = IdleCall]
          /\ ~IdleCall.wrote /\ IdleCall.pc = "idle"
        BY <1>0, <1>9 DEF Commit, At, Return, CallBound, IdleCall, Begin
    <2>2. CASE ~call[c].wrote
        BY <1>9, <2>1, <2>2, FreshSealed, SealedLocal DEF Commit
    <2>3. CASE call[c].wrote
        <3>1. order' = [order EXCEPT ![call[c].o] = call[c].row]
            BY <1>9, <2>3 DEF Commit
        <3>2. RowFree(c, call[c].o)
            BY <2>3 DEF RowFree, BaseInv, WritersApart
        <3>3. Sealed(call[c].row) /\ (order[call[c].o].status \notin Repairable
                                        => call[c].row.status \notin Repairable)
            BY <1>0, <2>3 DEF CallSealed
        <3> QED
            BY <2>1, <3>1, <3>2, <3>3, SealedUpdate
    <2> QED
        BY <2>2, <2>3
<1> QED
    BY <1>1, <1>4, <1>5, <1>6, <1>7, <1>8, <1>9

LEMMA AdminSealed ==
    ASSUME BaseInv, SealedInv, NEW c \in Calls,
           \/ \E o \in Orders, to \in LiveStatuses : Transition(c, o, to) \/ Release(c, o, to)
           \/ Advance(c)
    PROVE  SealedInv'
<1>0. call[c] \in CallStates /\ CallBound(call[c]) /\ CallSealed(call[c])
      /\ \A o \in Orders : order[o] \in Rows /\ Sealed(order[o])
    BY DEF BaseInv, PaymentsTypeOK, SealedInv
<1>1. ASSUME NEW o \in Orders, NEW to \in LiveStatuses, Transition(c, o, to) PROVE SealedInv'
    <2> DEFINE u == Begin(IF to = "PAID" THEN "pay" ELSE "advance", o, None, to)
    <2>1. ~u.wrote /\ u.to = to /\ u.pc \in {"pay", "advance"}
        BY DEF Begin
    <2>2. call' = [call EXCEPT ![c] = u] /\ UNCHANGED order
        BY <1>1 DEF Transition, Start, DbUnchanged
    <2>3. to \notin Repairable
        BY <1>0, <1>1, AdminStatuses DEF Transition, Rows
    <2> HIDE DEF u
    <2>4. CallSealed(u)
        BY <2>1, <2>3 DEF CallSealed
    <2> QED
        BY <2>2, <2>4, SealedLocal
<1>2. ASSUME NEW o \in Orders, NEW to \in LiveStatuses, Release(c, o, to) PROVE SealedInv'
    <2> DEFINE r == ReleasedRow(order[o], to)
    <2>1. order[o].status = "PENDING"
        BY <1>2 DEF Release, Due
    <2>2. order[o].status \in Repairable /\ r.txid = None
        BY <1>0, <2>1, StatusWritten DEF Repairable, Sealed
    <2>3. order' = [order EXCEPT ![o] = r] /\ RowFree(c, o) /\ call' = call
          /\ call[c].pc = "idle"
        BY <1>2 DEF Release, Update, Idle
    <2>4. call' = [call EXCEPT ![c] = call[c]] /\ ~call[c].wrote
        BY <1>0, <2>3 DEF BaseInv, PaymentsTypeOK, CallBound
    <2> HIDE DEF r
    <2> QED
        BY <2>2, <2>3, <2>4, SealedUpdate DEF Sealed
<1>3. CASE Advance(c)
    <2> DEFINE q == call[c].o
               r == [order[q] EXCEPT !.status = call[c].to]
    <2>1. q \in Orders /\ call[c].to \notin Repairable
        BY <1>0, <1>3 DEF Advance, At, CallBound, CallSealed
    <2>2. r.status \notin Repairable
        BY <1>0, <2>1, StatusWritten
    <2>3. order' = [order EXCEPT ![q] = r] /\ call' = [call EXCEPT ![c] = IdleCall]
          /\ RowFree(c, q)
        BY <1>3 DEF Advance, Update, Return
    <2>4. ~IdleCall.wrote /\ IdleCall.pc = "idle"
        BY DEF IdleCall, Begin
    <2> HIDE DEF q, r
    <2> QED
        BY <2>1, <2>2, <2>3, <2>4, SealedUpdate DEF Sealed
<1> QED
    BY <1>1, <1>2, <1>3

LEMMA RefundSealed ==
    ASSUME BaseInv, SealedInv, NEW c \in Calls,
           \/ PostRefund(c) \/ RecordRefund(c) \/ Reconcile(c)
           \/ \E o \in Orders : \/ ReadForRefund(c, o)
                             \/ \E audit \in BOOLEAN : \/ ReportUnlinked(c, o, audit)
                                                      \/ ReadForReconcile(c, o, audit)
    PROVE  SealedInv'
<1>0. call[c] \in CallStates /\ CallBound(call[c]) /\ CallSealed(call[c])
      /\ \A o \in Orders : order[o] \in Rows /\ Sealed(order[o])
    BY DEF BaseInv, PaymentsTypeOK, SealedInv
<1>1. ASSUME NEW o \in Orders, ReadForRefund(c, o) PROVE SealedInv'
    <2> DEFINE u == Begin("post", o, order[o].txid, "REFUNDED")
    <2>1. call' = [call EXCEPT ![c] = u] /\ UNCHANGED order
        BY <1>1 DEF ReadForRefund, Start, DbUnchanged
    <2>2. ~u.wrote /\ u.pc = "post"
        BY DEF Begin
    <2> HIDE DEF u
    <2> QED
        BY <2>1, <2>2, FreshSealed, SealedLocal
<1>2. CASE PostRefund(c)
    <2> DEFINE u == [call[c] EXCEPT !.pc = "record"]
    <2>1. u.pc = "record" /\ u.wrote = call[c].wrote /\ ~call[c].wrote
        BY <1>0, <1>2 DEF PostRefund, At, CallBound, CallStates
    <2>2. call' = [call EXCEPT ![c] = u] /\ UNCHANGED order
        BY <1>2 DEF PostRefund, Goto, DbUnchanged
    <2> HIDE DEF u
    <2> QED
        BY <2>1, <2>2, FreshSealed, SealedLocal
<1>3. CASE RecordRefund(c)
    <2> DEFINE q == call[c].o
               r == [order[q] EXCEPT !.status = "REFUNDED", !.payment = "REFUNDED"]
    <2>1. q \in Orders
        BY <1>0, <1>3 DEF RecordRefund, At, CallBound
    <2>2. r.status \notin Repairable
        BY <1>0, <2>1, StatusWritten DEF Repairable
    <2>3. order' = [order EXCEPT ![q] = r] /\ call' = [call EXCEPT ![c] = IdleCall]
          /\ RowFree(c, q)
        BY <1>3 DEF RecordRefund, Update, Return
    <2>4. ~IdleCall.wrote /\ IdleCall.pc = "idle"
        BY DEF IdleCall, Begin
    <2> HIDE DEF q, r
    <2> QED
        BY <2>1, <2>2, <2>3, <2>4, SealedUpdate DEF Sealed
<1>4. ASSUME NEW o \in Orders, NEW audit \in BOOLEAN, ReportUnlinked(c, o, audit)
      PROVE  SealedInv'
    BY <1>4 DEF ReportUnlinked, SealedInv, Sealed, CallSealed
<1>5. ASSUME NEW o \in Orders, NEW audit \in BOOLEAN, ReadForReconcile(c, o, audit)
      PROVE  SealedInv'
    <2> DEFINE b == Begin("check", o, order[o].txid, "PENDING")
               u == [b EXCEPT !.row = order[o]]
    <2>1. /\ u.pc = "check" /\ u.row = order[o] /\ ~u.wrote
        BY DEF Begin
    <2>2. call' = [call EXCEPT ![c] = u] /\ UNCHANGED order /\ order[o].txid # None
        BY <1>5 DEF ReadForReconcile, DbUnchanged
    <2>3. order[o].status \notin Repairable
        BY <1>0, <2>2 DEF Sealed
    <2> HIDE DEF u
    <2>4. CallSealed(u)
        BY <2>1, <2>3 DEF CallSealed
    <2> QED
        BY <2>2, <2>4, SealedLocal
<1>6. CASE Reconcile(c)
    BY <1>6, FreshSealed, SealedLocal DEF Reconcile, Return, IdleCall, Begin
<1> QED
    BY <1>1, <1>2, <1>3, <1>4, <1>5, <1>6

\* Steps of the gateway and of the clock touch no row and no call.
LEMMA OutsideSealed ==
    ASSUME SealedInv, Gateway \/ (\E o \in Orders : Lapse(o) \/ LeaveWindow(o)) \/ UNCHANGED paymentVars
    PROVE  SealedInv'
<1>1. UNCHANGED << order, call >>
    BY DEF Gateway, Settle, Attempt, Lapse, LeaveWindow, paymentVars, DbUnchanged
<1> QED
    BY <1>1 DEF SealedInv, Sealed, CallSealed

LEMMA NextSealed == BaseInv /\ SealedInv /\ [PaymentsNext]_paymentVars => SealedInv'
<1> SUFFICES ASSUME BaseInv, SealedInv, [PaymentsNext]_paymentVars PROVE SealedInv'
    OBVIOUS
<1>1. ASSUME NEW c \in Calls, Request(c) \/ Checkout(c) \/ Continue(c) PROVE SealedInv'
    <2>1. CASE Request(c)
        <3>1. CASE \E m \in Webhooks : Webhook(c, m)
            BY <3>1, WebhookSealed
        <3>2. ASSUME NEW o \in Orders, CheckoutBegin(c, o) PROVE SealedInv'
            BY <3>2, CheckoutSealed
        <3>3. ASSUME NEW o \in Orders, NEW to \in LiveStatuses,
                     Transition(c, o, to) \/ Release(c, o, to)
              PROVE  SealedInv'
            BY <3>3, AdminSealed
        <3>4. ASSUME NEW o \in Orders,
                     \/ ReadForRefund(c, o)
                     \/ \E audit \in BOOLEAN : \/ ReportUnlinked(c, o, audit)
                                              \/ ReadForReconcile(c, o, audit)
              PROVE  SealedInv'
            BY <3>4, RefundSealed
        <3> QED
            BY <2>1, <3>1, <3>2, <3>3, <3>4 DEF Request
    <2>2. CASE Checkout(c)
        BY <2>2, CheckoutSealed
    <2>3. CASE Continue(c)
        <3>1. CASE Advance(c)
            BY <3>1, AdminSealed
        <3>2. CASE PostRefund(c) \/ RecordRefund(c) \/ Reconcile(c)
            BY <3>2, RefundSealed
        <3> QED
            BY <2>3, <3>1, <3>2, WebhookSealed DEF Continue
    <2> QED
        BY <1>1, <2>1, <2>2, <2>3
<1> QED
    BY <1>1, OutsideSealed DEF PaymentsNext

LEMMA InitSealed == PaymentsInit => SealedInv
BY DEF PaymentsInit, SealedInv, Sealed, CallSealed, NewRow, IdleCall, Begin

\* reconcilePayments: whatever interleaves before its read, an order that it finds linked to
\* a transaction has none of the statuses that it repairs.
THEOREM RepairIsUnreachable == PaymentsSpec => []NothingToRepair
<1>1. SealedInv => NothingToRepair
    BY DEF SealedInv, CallSealed, NothingToRepair, At
<1> QED
    BY <1>1, InitBase, NextBase, InitSealed, NextSealed, PTL DEF PaymentsSpec

-----------------------------------------------------------------------------
(* Why a transaction is reported once.  A call that handles a webhook owns   *)
(* its transaction from the INSERT of the processed event to the commit: no  *)
(* other call handles it, and it is not on record yet.                       *)

HandlesWebhook(u) == u.pc \in {"payread", "pay", "link", "cancel", "commit"} /\ u.t # None

VerdictInv ==
    /\ OneVerdict
    /\ \A c \in Calls : InWebhook(c) => call[c].t \notin processed
    /\ \A c, d \in Calls : c # d /\ InWebhook(c) /\ InWebhook(d) => call[c].t # call[d].t

\* A step of a call that stays with its transaction, takes a free one or lets it go.
LEMMA VerdictLocal ==
    ASSUME BaseInv, VerdictInv, NEW c \in Calls, NEW u,
           call' = [call EXCEPT ![c] = u], UNCHANGED << processed, events >>,
           HandlesWebhook(u) => (InWebhook(c) /\ u.t = call[c].t) \/ NewEvent(u.t)
    PROVE  VerdictInv'
<1>1. OneVerdict'
    BY DEF VerdictInv, OneVerdict
<1>2. call'[c] = u /\ \A d \in Calls \ {c} : call'[d] = call[d]
    BY DEF BaseInv, PaymentsTypeOK
<1>3. InWebhook(c)' <=> HandlesWebhook(u)
    BY <1>2 DEF InWebhook, HandlesWebhook
<1>4. \A d \in Calls \ {c} : InWebhook(d)' <=> InWebhook(d)
    BY <1>2 DEF InWebhook
<1>5. HandlesWebhook(u) => /\ u.t \notin processed
                          /\ \A d \in Calls \ {c} : InWebhook(d) => call[d].t # u.t
    BY DEF VerdictInv, NewEvent
<1>6. \A d \in Calls : InWebhook(d)' => call'[d].t \notin processed'
    BY <1>2, <1>3, <1>4, <1>5 DEF VerdictInv
<1>7. \A a, d \in Calls : a # d /\ InWebhook(a)' /\ InWebhook(d)' => call'[a].t # call'[d].t
    BY <1>2, <1>3, <1>4, <1>5 DEF VerdictInv
<1> QED
    BY <1>1, <1>6, <1>7 DEF VerdictInv

LEMMA VerdictCommit ==
    ASSUME BaseInv, VerdictInv, NEW c \in Calls, Commit(c)
    PROVE  VerdictInv'
<1>1. ~HandlesWebhook(IdleCall) /\ call' = [call EXCEPT ![c] = IdleCall]
    BY DEF Commit, Return, HandlesWebhook, IdleCall, Begin
<1>2. CASE call[c].t = None
    BY <1>1, <1>2, VerdictLocal DEF Commit
<1>3. CASE call[c].t # None
    <2> DEFINE t == call[c].t
    <2>1. t \in Txns /\ InWebhook(c)
        BY <1>3 DEF BaseInv, PaymentsTypeOK, CallStates, Commit, At, InWebhook
    <2>2. t \notin processed
        BY <2>1 DEF VerdictInv
    <2>3. PICK e \in { EventOf(c), << "dropped", t >> } :
            processed' = processed \cup {t} /\ events' = [events EXCEPT ![e] = @ + 1]
        BY <1>3 DEF Commit
    <2>4. events \in [EventTypes \X Txns -> Nat]
        BY DEF BaseInv, PaymentsTypeOK
    <2>5. e \in { << "payment.succeeded", t >>, << "payment.failed", t >>, << "dropped", t >> }
        BY <2>3 DEF EventOf
    <2>6. ~InWebhook(c)' /\ \A d \in Calls \ {c} : call'[d] = call[d] /\ (InWebhook(d)' <=> InWebhook(d))
        BY <1>1 DEF BaseInv, PaymentsTypeOK, InWebhook, HandlesWebhook
    <2>7. \A d \in Calls \ {c} : InWebhook(d) => call[d].t # t
        BY <2>1 DEF VerdictInv
    <2> HIDE DEF t
    <2>8. ASSUME NEW q \in Txns
          PROVE  events'[<<"payment.succeeded", q>>] + events'[<<"payment.failed", q>>]
                    + events'[<<"dropped", q>>] = IF q \in processed' THEN 1 ELSE 0
        <3>1. /\ << "payment.succeeded", q >> \in EventTypes \X Txns
              /\ << "payment.failed", q >> \in EventTypes \X Txns
              /\ << "dropped", q >> \in EventTypes \X Txns
            BY DEF EventTypes
        <3>2. events[<<"payment.succeeded", q>>] + events[<<"payment.failed", q>>] + events[<<"dropped", q>>]
                = IF q \in processed THEN 1 ELSE 0
            BY DEF VerdictInv, OneVerdict
        <3>3. /\ events[<<"payment.succeeded", q>>] \in Nat /\ events[<<"payment.failed", q>>] \in Nat
              /\ events[<<"dropped", q>>] \in Nat
            BY <2>4, <3>1
        <3>4. CASE q # t
            BY <2>3, <2>4, <2>5, <3>1, <3>2, <3>4
        <3>5. CASE q = t
            <4> DEFINE m == events[<<"payment.succeeded", q>>]
                       n == events[<<"payment.failed", q>>]
                       k == events[<<"dropped", q>>]
            <4>1. m \in Nat /\ n \in Nat /\ k \in Nat
                BY <3>3
            <4>2. q \notin processed
                BY <2>2, <3>5
            <4>3. m + n + k = 0
                BY <3>2, <4>2
            <4>4. m = 0 /\ n = 0 /\ k = 0
                <5> HIDE DEF m, n, k
                <5> QED
                    BY <4>1, <4>3
            <4>5. q \in processed'
                BY <2>3, <3>5
            <4>6. e = << "payment.succeeded", q >> \/ e = << "payment.failed", q >> \/ e = << "dropped", q >>
                BY <2>5, <3>5
            <4>7. \A x \in EventTypes \X Txns : events'[x] = IF x = e THEN events[x] + 1 ELSE events[x]
                BY <2>3, <2>4
            <4> QED
                BY <3>1, <4>4, <4>5, <4>6, <4>7
        <3> QED
            BY <3>4, <3>5
    <2>9. OneVerdict'
        BY <2>8 DEF OneVerdict
    <2> QED
        BY <2>3, <2>6, <2>7, <2>9 DEF VerdictInv
<1> QED
    BY <1>2, <1>3

\* A call that does not handle a webhook when it is over with its step.
LEMMA VerdictElsewhere ==
    ASSUME BaseInv, VerdictInv, NEW c \in Calls,
           UNCHANGED << processed, events >>,
           \/ UNCHANGED call
           \/ \E pc \in Steps : \E o, t, to :
                /\ call' = [call EXCEPT ![c] = Begin(pc, o, t, to)]
                /\ (pc \in {"idle", "read", "post"} \/ t = None)
           \/ \E pc \in {"fetch", "record"} : Goto(c, pc)
           \/ \E u : call' = [call EXCEPT ![c] = u] /\ u.pc \in {"save", "check"}
    PROVE  VerdictInv'
<1>1. CASE UNCHANGED call
    BY <1>1 DEF VerdictInv, OneVerdict, InWebhook
<1>2. ASSUME NEW pc \in Steps, NEW o, NEW t, NEW to,
             call' = [call EXCEPT ![c] = Begin(pc, o, t, to)],
             pc \in {"idle", "read", "post"} \/ t = None
      PROVE  VerdictInv'
    <2>1. ~HandlesWebhook(Begin(pc, o, t, to))
        BY <1>2 DEF HandlesWebhook, Begin
    <2> QED
        BY <1>2, <2>1, VerdictLocal
<1>3. ASSUME NEW pc \in {"fetch", "record"}, Goto(c, pc) PROVE VerdictInv'
    <2> DEFINE u == [call[c] EXCEPT !.pc = pc]
    <2>1. u.pc = pc
        BY DEF BaseInv, PaymentsTypeOK, CallStates
    <2>2. call' = [call EXCEPT ![c] = u]
        BY <1>3 DEF Goto
    <2> HIDE DEF u
    <2>3. ~HandlesWebhook(u)
        BY <2>1 DEF HandlesWebhook
    <2> QED
        BY <2>2, <2>3, VerdictLocal
<1>4. ASSUME NEW u, call' = [call EXCEPT ![c] = u], u.pc \in {"save", "check"} PROVE VerdictInv'
    <2>1. ~HandlesWebhook(u)
        BY <1>4 DEF HandlesWebhook
    <2> QED
        BY <1>4, <2>1, VerdictLocal
<1> QED
    BY <1>1, <1>2, <1>3, <1>4

LEMMA RequestVerdict ==
    ASSUME BaseInv, VerdictInv, NEW c \in Calls, Request(c)
    PROVE  VerdictInv'
<1>1. ASSUME NEW m \in Webhooks, Webhook(c, m) PROVE VerdictInv'
    <2> DEFINE p == Begin("payread", OrderOf(m.t), m.t, "PAID")
               n == Begin("cancel", OrderOf(m.t), m.t, "CANCELLED")
    <2>1. p.t = m.t /\ n.t = m.t
        BY DEF Begin
    <2>2. call' = [call EXCEPT ![c] = p] \/ call' = [call EXCEPT ![c] = n]
        BY <1>1 DEF Webhook, Start
    <2>3. NewEvent(m.t) /\ UNCHANGED << processed, events >>
        BY <1>1 DEF Webhook, DbUnchanged
    <2> HIDE DEF p, n
    <2> QED
        BY <2>1, <2>2, <2>3, VerdictLocal
<1>2. ASSUME NEW o \in Orders, CheckoutBegin(c, o) PROVE VerdictInv'
    BY <1>2, VerdictElsewhere DEF CheckoutBegin, Start, journal, Steps
<1>3. ASSUME NEW o \in Orders, ReadForRefund(c, o) PROVE VerdictInv'
    BY <1>3, VerdictElsewhere DEF ReadForRefund, Start, DbUnchanged, Steps
<1>4. ASSUME NEW o \in Orders, NEW to \in LiveStatuses, Transition(c, o, to) PROVE VerdictInv'
    <2>1. \E pc \in {"pay", "advance"} : Start(c, pc, o, None, to)
        BY <1>4 DEF Transition
    <2> QED
        BY <1>4, <2>1, VerdictElsewhere DEF Transition, Start, DbUnchanged, Steps
<1>5. ASSUME NEW o \in Orders, NEW to \in LiveStatuses, Release(c, o, to) PROVE VerdictInv'
    BY <1>5, VerdictElsewhere DEF Release, journal
<1>6. ASSUME NEW o \in Orders, NEW audit \in BOOLEAN, ReportUnlinked(c, o, audit)
      PROVE  VerdictInv'
    BY <1>6, VerdictElsewhere DEF ReportUnlinked
<1>7. ASSUME NEW o \in Orders, NEW audit \in BOOLEAN, ReadForReconcile(c, o, audit)
      PROVE  VerdictInv'
    <2> DEFINE u == [Begin("check", o, order[o].txid, "PENDING") EXCEPT !.row = order[o]]
    <2>1. u.pc = "check"
        BY DEF Begin
    <2>2. call' = [call EXCEPT ![c] = u] /\ UNCHANGED << processed, events >>
        BY <1>7 DEF ReadForReconcile, DbUnchanged
    <2> HIDE DEF u
    <2> QED
        BY <2>1, <2>2, VerdictElsewhere
<1> QED
    BY <1>1, <1>2, <1>3, <1>4, <1>5, <1>6, <1>7 DEF Request

LEMMA CheckoutVerdict ==
    ASSUME BaseInv, VerdictInv, NEW c \in Calls, Checkout(c)
    PROVE  VerdictInv'
<1>1. CASE ReuseSession(c) \/ SaveSession(c)
    BY <1>1, VerdictElsewhere DEF ReuseSession, SaveSession, Return, IdleCall, Steps
<1>2. CASE ReadForCheckout(c)
    BY <1>2, VerdictElsewhere DEF ReadForCheckout, DbUnchanged
<1>3. ASSUME NEW i \in Intentions, CreateIntention(c, i) PROVE VerdictInv'
    <2> DEFINE u == [call[c] EXCEPT !.pc = "save", !.i = i]
    <2>1. u.pc = "save"
        BY DEF BaseInv, PaymentsTypeOK, CallStates
    <2>2. call' = [call EXCEPT ![c] = u] /\ UNCHANGED << processed, events >>
        BY <1>3 DEF CreateIntention, DbUnchanged
    <2> HIDE DEF u
    <2> QED
        BY <2>1, <2>2, VerdictElsewhere
<1> QED
    BY <1>1, <1>2, <1>3 DEF Checkout

LEMMA ContinueVerdict ==
    ASSUME BaseInv, VerdictInv, NEW c \in Calls, Continue(c)
    PROVE  VerdictInv'
<1>0. call[c] \in CallStates
    BY DEF BaseInv, PaymentsTypeOK
<1>1. ASSUME NEW pc, Goto(c, pc), call[c].pc \in {"payread", "cancel"},
             UNCHANGED << processed, events >>
      PROVE  VerdictInv'
    <2> DEFINE u == [call[c] EXCEPT !.pc = pc]
    <2>1. u.t = call[c].t
        BY <1>0 DEF CallStates
    <2>2. call' = [call EXCEPT ![c] = u]
        BY <1>1 DEF Goto
    <2> HIDE DEF u
    <2> QED
        BY <1>1, <2>1, <2>2, VerdictLocal DEF HandlesWebhook, InWebhook
<1>2. ASSUME NEW row, NEW pc, WriteRow(c, row, pc), call[c].pc \in {"pay", "link", "cancel"},
             UNCHANGED << processed, events >>
      PROVE  VerdictInv'
    <2> DEFINE u == [call[c] EXCEPT !.pc = pc, !.wrote = TRUE, !.row = row]
    <2>1. u.t = call[c].t
        BY <1>0 DEF CallStates
    <2>2. call' = [call EXCEPT ![c] = u]
        BY <1>2 DEF WriteRow
    <2> HIDE DEF u
    <2> QED
        BY <1>2, <2>1, <2>2, VerdictLocal DEF HandlesWebhook, InWebhook
<1>3. CASE ReadForPayment(c)
    BY <1>1, <1>3 DEF ReadForPayment, At, DbUnchanged
<1>4. CASE MarkPaid(c)
    BY <1>2, <1>4 DEF MarkPaid, At, DbUnchanged
<1>5. CASE Link(c)
    BY <1>2, <1>5 DEF Link, At, DbUnchanged
<1>6. CASE CancelPending(c)
    BY <1>1, <1>2, <1>6 DEF CancelPending, At, DbUnchanged
<1>7. CASE Advance(c) \/ RecordRefund(c)
    BY <1>7, VerdictElsewhere DEF Advance, RecordRefund, Return, IdleCall, journal, Steps
<1>8. CASE PostRefund(c)
    BY <1>8, VerdictElsewhere DEF PostRefund, DbUnchanged
<1>9. CASE Reconcile(c) \/ Abort(c)
    BY <1>9, VerdictElsewhere DEF Reconcile, Abort, Return, IdleCall, DbUnchanged, Steps
<1>10. CASE Commit(c)
    BY <1>10, VerdictCommit
<1> QED
    BY <1>3, <1>4, <1>5, <1>6, <1>7, <1>8, <1>9, <1>10 DEF Continue

LEMMA OutsideVerdict ==
    ASSUME VerdictInv, Gateway \/ (\E o \in Orders : Lapse(o) \/ LeaveWindow(o)) \/ UNCHANGED paymentVars
    PROVE  VerdictInv'
<1>1. UNCHANGED << processed, events, call >>
    BY DEF Gateway, Settle, Attempt, Lapse, LeaveWindow, journal, paymentVars, DbUnchanged
<1> QED
    BY <1>1 DEF VerdictInv, OneVerdict, InWebhook

LEMMA InitVerdict == PaymentsInit => VerdictInv
BY DEF PaymentsInit, VerdictInv, OneVerdict, InWebhook, IdleCall, Begin, EventTypes

\* handleWebhook: however often and in whatever order webhooks arrive and calls stop, a
\* transaction on record was reported once, or its only event was dropped by enqueueInTx; and
\* any other one was not reported at all.
THEOREM ReportedOnce == PaymentsSpec => []OneVerdict
<1>1. BaseInv /\ VerdictInv /\ [PaymentsNext]_paymentVars => VerdictInv'
    BY RequestVerdict, CheckoutVerdict, ContinueVerdict, OutsideVerdict DEF PaymentsNext
<1>2. VerdictInv => OneVerdict
    BY DEF VerdictInv
<1> QED
    BY <1>1, <1>2, InitBase, NextBase, InitVerdict, PTL DEF PaymentsSpec

-----------------------------------------------------------------------------
(* Why records are backed by the gateway.  Every attempt of an order is one  *)
(* of its session, which never changes, and an intention is captured once:   *)
(* hence an order has one captured transaction at most, and what calls have  *)
(* read of it is still true when they write.                                 *)

Captured(t, o) == txn[t].state = "captured" /\ txn[t].i # None /\ OrderOf(t) = o

RowBacked(o, row) ==
    /\ row.txid # None => Captured(row.txid, o)
    /\ row.payment = "REFUNDED" => row.txid # None /\ txn[row.txid].refunds > 0

\* The attempts of an order are those of its session, and of these one at most is not declined.
OneCapture ==
    /\ \A t \in Txns : txn[t].i # None => order[OrderOf(t)].session = txn[t].i
    /\ \A t, x \in Txns : t # x /\ txn[t].i # None /\ txn[t].i = txn[x].i =>
         txn[t].state = "declined" \/ txn[x].state = "declined"

SuccessIsCaptured == \A m \in sent : IsSuccess(m) => txn[m.t].state = "captured"

CallBacked(u) ==
    /\ u.wrote => /\ RowBacked(u.o, u.row)
                  /\ order[u.o].txid # None => u.row.txid # None
    /\ u.pc \in {"payread", "link"} => u.t # None
    /\ u.pc \in {"payread", "pay", "link"} /\ u.t # None => Captured(u.t, u.o)
    /\ u.pc \in {"post", "record"} => u.t # None /\ Captured(u.t, u.o) /\ order[u.o].txid = u.t
    /\ u.pc = "record" => txn[u.t].refunds > 0

BackedInv ==
    /\ OneCapture /\ SuccessIsCaptured
    /\ \A o \in Orders : RowBacked(o, order[o])
    /\ \A c \in Calls : CallBacked(call[c])

\* A step of the gateway takes nothing back, and a row that is linked stays linked.
TxnsKept ==
    \A t \in Txns, o \in Orders : Captured(t, o) =>
        Captured(t, o)' /\ (txn[t].refunds > 0 => txn'[t].refunds > 0)

LinkKept(o) == order[o].txid # None => order'[o].txid = order[o].txid

LEMMA OneCaptured ==
    ASSUME OneCapture, NEW o \in Orders, NEW t \in Txns, NEW x \in Txns,
           Captured(t, o), Captured(x, o)
    PROVE  t = x
BY DEF OneCapture, Captured, OrderOf

\* What a row or a call says of the gateway remains true.
LEMMA RowKept ==
    ASSUME NEW o \in Orders, NEW row \in Rows, RowBacked(o, row), TxnsKept
    PROVE  RowBacked(o, row)'
<1>1. row.txid # None => row.txid \in Txns
    BY DEF Rows
<1> QED
    BY <1>1 DEF RowBacked, TxnsKept

LEMMA CallKept ==
    ASSUME NEW u \in CallStates, CallBound(u), CallBacked(u), TxnsKept,
           \A o \in Orders : LinkKept(o),
           u.wrote => order'[u.o].txid = order[u.o].txid
    PROVE  CallBacked(u)'
<1>1. u.row \in Rows /\ (u.t # None => u.t \in Txns) /\ (u.pc # "idle" => u.o \in Orders)
    BY DEF CallStates, CallBound
<1>2. u.wrote => RowBacked(u.o, u.row)' /\ (order'[u.o].txid # None => u.row.txid # None)
    <2> SUFFICES ASSUME u.wrote
                 PROVE  RowBacked(u.o, u.row)' /\ (order'[u.o].txid # None => u.row.txid # None)
        OBVIOUS
    <2>1. u.o \in Orders /\ RowBacked(u.o, u.row) /\ (order[u.o].txid # None => u.row.txid # None)
        BY <1>1 DEF CallBacked, CallBound
    <2> QED
        BY <1>1, <2>1, RowKept
<1>3. u.pc \in {"payread", "pay", "link"} /\ u.t # None => Captured(u.t, u.o)'
    BY <1>1 DEF CallBacked, TxnsKept
<1>4. u.pc \in {"post", "record"} => /\ u.t # None /\ Captured(u.t, u.o)' /\ order'[u.o].txid = u.t
                                     /\ (txn[u.t].refunds > 0 => txn'[u.t].refunds > 0)
    BY <1>1 DEF CallBacked, TxnsKept, LinkKept
<1> QED
    BY <1>2, <1>3, <1>4 DEF CallBacked

\* A call that takes no part in the step.
LEMMA CallsKept ==
    ASSUME BaseInv, BackedInv, NEW d \in Calls, call'[d] = call[d], TxnsKept,
           \A o \in Orders : LinkKept(o),
           call[d].wrote => order'[call[d].o].txid = order[call[d].o].txid
    PROVE  CallBacked(call[d])'
<1>1. PICK u \in CallStates : u = call[d] /\ CallBound(call[d]) /\ CallBacked(call[d])
    BY DEF BaseInv, PaymentsTypeOK, BackedInv
<1>2. CallBound(u) /\ CallBacked(u)
    BY <1>1
<1>3. CallBacked(u)'
    BY <1>1, <1>2, CallKept
<1> QED
    BY <1>1, <1>3

\* A step of one call that commits nothing.
LEMMA BackedLocal ==
    ASSUME BaseInv, BackedInv, NEW c \in Calls, NEW u, CallBacked(u),
           call' = [call EXCEPT ![c] = u], UNCHANGED << order, bound, txn, sent >>
    PROVE  BackedInv'
<1>1. TxnsKept /\ \A o \in Orders : LinkKept(o)
    BY DEF TxnsKept, Captured, OrderOf, LinkKept
<1>2. OneCapture' /\ SuccessIsCaptured' /\ \A o \in Orders : RowBacked(o, order[o])'
    BY DEF BackedInv, OneCapture, SuccessIsCaptured, RowBacked, Captured, OrderOf
<1>3. ASSUME NEW d \in Calls PROVE CallBacked(call[d])'
    <2>1. CASE d = c
        <3>1. call'[d] = u
            BY <2>1 DEF BaseInv, PaymentsTypeOK
        <3> QED
            BY <3>1 DEF CallBacked, RowBacked, Captured, OrderOf
    <2>2. CASE d # c
        BY <1>1, <2>2, CallsKept DEF BaseInv, PaymentsTypeOK
    <2> QED
        BY <2>1, <2>2
<1> QED
    BY <1>2, <1>3 DEF BackedInv

\* A call that goes no further with a payment or a refund.
LEMMA FreshBacked ==
    ASSUME NEW u, ~u.wrote, u.pc \notin {"payread", "pay", "link", "post", "record"}
    PROVE  CallBacked(u)
BY DEF CallBacked

\* A step that commits a row which nobody else has written, and ends the call's part in it.
LEMMA BackedUpdate ==
    ASSUME BaseInv, BackedInv, NEW c \in Calls, NEW o \in Orders, NEW row \in Rows, NEW u,
           order' = [order EXCEPT ![o] = row], call' = [call EXCEPT ![c] = u],
           UNCHANGED << bound, txn, sent >>,
           RowBacked(o, row), order[o].txid # None => row.txid # None,
           order[o].session # None => row.session = order[o].session,
           RowFree(c, o), ~u.wrote, u.pc \notin {"payread", "pay", "link", "post", "record"}
    PROVE  BackedInv'
<1>1. \A q \in Orders : order[q] \in Rows /\ order'[q] = IF q = o THEN row ELSE order[q]
    BY DEF BaseInv, PaymentsTypeOK
<1>2. TxnsKept
    BY DEF TxnsKept, Captured, OrderOf
<1>3. order[o].txid # None => row.txid = order[o].txid
    <2> SUFFICES ASSUME order[o].txid # None PROVE row.txid = order[o].txid
        OBVIOUS
    <2>1. order[o].txid \in Txns /\ row.txid \in Txns
        BY <1>1 DEF Rows
    <2>2. Captured(order[o].txid, o) /\ Captured(row.txid, o)
        BY DEF BackedInv, RowBacked
    <2> QED
        BY <2>1, <2>2, OneCaptured DEF BackedInv
<1>4. \A q \in Orders : LinkKept(q)
    BY <1>1, <1>3 DEF LinkKept
<1>5. \A q \in Orders : RowBacked(q, order[q])'
    <2>1. \A q \in Orders : RowBacked(q, order'[q])
        BY <1>1 DEF BackedInv
    <2> QED
        BY <2>1 DEF RowBacked, Captured, OrderOf
<1>6. OneCapture'
    <2>1. \A t \in Txns : txn[t].i # None => OrderOf(t) \in Orders /\ order[OrderOf(t)].session # None
        BY DEF BaseInv, GatewayBound, BackedInv, OneCapture, OrderOf
    <2>2. \A q \in Orders : order[q].session # None => order'[q].session = order[q].session
        BY <1>1
    <2> QED
        BY <2>1, <2>2 DEF BackedInv, OneCapture, OrderOf
<1>7. SuccessIsCaptured'
    BY DEF BackedInv, SuccessIsCaptured
<1>8. ASSUME NEW d \in Calls PROVE CallBacked(call[d])'
    <2>1. CASE d = c
        <3>1. call'[d] = u
            BY <2>1 DEF BaseInv, PaymentsTypeOK
        <3> QED
            BY <3>1 DEF CallBacked
    <2>2. CASE d # c
        <3>1. call'[d] = call[d] /\ CallBacked(call[d]) /\ CallBound(call[d])
            BY <2>2 DEF BaseInv, PaymentsTypeOK, BackedInv
        <3>2. call[d].wrote => call[d].o \in Orders /\ call[d].o # o
            BY <2>2, <3>1 DEF RowFree, CallBound
        <3>3. call[d].wrote => order'[call[d].o].txid = order[call[d].o].txid
            BY <1>1, <3>2
        <3> QED
            BY <1>2, <1>4, <3>1, <3>3, CallsKept
    <2> QED
        BY <2>1, <2>2
<1> QED
    BY <1>5, <1>6, <1>7, <1>8 DEF BackedInv

\* A row that is written and not committed.
LEMMA BackedWrite ==
    ASSUME BaseInv, BackedInv, NEW c \in Calls, NEW row \in Rows, NEW pc \in {"link", "commit"},
           call[c].o \in Orders, RowBacked(call[c].o, row),
           order[call[c].o].txid # None => row.txid # None,
           pc = "link" => call[c].t # None /\ Captured(call[c].t, call[c].o),
           WriteRow(c, row, pc), UNCHANGED << order, bound, txn, sent >>
    PROVE  BackedInv'
<1> DEFINE u == [call[c] EXCEPT !.pc = pc, !.wrote = TRUE, !.row = row]
<1>1. u.pc = pc /\ u.row = row /\ u.o = call[c].o /\ u.t = call[c].t
    BY DEF BaseInv, PaymentsTypeOK, CallStates
<1>2. call' = [call EXCEPT ![c] = u]
    BY DEF WriteRow
<1> HIDE DEF u
<1>3. CallBacked(u)
    BY <1>1 DEF CallBacked
<1> QED
    BY <1>2, <1>3, BackedLocal

\* A call that goes on without writing a row.
LEMMA BackedGoto ==
    ASSUME BaseInv, BackedInv, NEW c \in Calls, NEW pc \in Steps \ {"payread", "post", "record"},
           ~call[c].wrote, Goto(c, pc), UNCHANGED << order, bound, txn, sent >>,
           pc \in {"pay", "link"} => call[c].t # None /\ Captured(call[c].t, call[c].o)
    PROVE  BackedInv'
<1> DEFINE u == [call[c] EXCEPT !.pc = pc]
<1>1. u.pc = pc /\ u.wrote = call[c].wrote /\ u.o = call[c].o /\ u.t = call[c].t
    BY DEF BaseInv, PaymentsTypeOK, CallStates
<1>2. call' = [call EXCEPT ![c] = u]
    BY DEF Goto
<1> HIDE DEF u
<1>3. CallBacked(u)
    BY <1>1 DEF CallBacked
<1> QED
    BY <1>2, <1>3, BackedLocal

\* A step of the gateway.
LEMMA BackedByGateway ==
    ASSUME BaseInv, BackedInv, UNCHANGED order, TxnsKept, OneCapture', SuccessIsCaptured',
           \A d \in Calls : call'[d] = call[d] \/ CallBacked(call[d])'
    PROVE  BackedInv'
<1>1. \A o \in Orders : LinkKept(o)
    BY DEF LinkKept
<1>2. ASSUME NEW o \in Orders PROVE RowBacked(o, order[o])'
    <2>1. PICK row \in Rows : row = order[o] /\ RowBacked(o, order[o])
        BY DEF BaseInv, PaymentsTypeOK, BackedInv
    <2>2. RowBacked(o, row)
        BY <2>1
    <2>3. RowBacked(o, row)'
        BY <2>2, RowKept
    <2> QED
        BY <2>1, <2>3
<1>3. ASSUME NEW d \in Calls PROVE CallBacked(call[d])'
    BY <1>1, CallsKept
<1> QED
    BY <1>2, <1>3 DEF BackedInv

\* A step that changes the status of a row, and not what the row says of the gateway.
LEMMA BackedStatus ==
    ASSUME BaseInv, BackedInv, NEW c \in Calls, NEW o \in Orders, NEW row \in Rows, NEW u,
           order' = [order EXCEPT ![o] = row], call' = [call EXCEPT ![c] = u],
           UNCHANGED << bound, txn, sent >>,
           row.txid = order[o].txid, row.payment = order[o].payment,
           row.session = order[o].session,
           RowFree(c, o), ~u.wrote, u.pc \notin {"payread", "pay", "link", "post", "record"}
    PROVE  BackedInv'
<1>1. RowBacked(o, row)
    BY DEF BackedInv, RowBacked
<1> QED
    BY <1>1, BackedUpdate

\* What the updates of a row do to its transaction and its payment.
LEMMA RecordsInRow ==
    ASSUME NEW row \in Rows
    PROVE  /\ \A s \in LiveStatuses : [row EXCEPT !.status = s].txid = row.txid
                                      /\ [row EXCEPT !.status = s].payment = row.payment
           /\ \A s \in LiveStatuses : ReleasedRow(row, s).txid = row.txid
                                      /\ ReleasedRow(row, s).payment = row.payment
           /\ \A i \in Intentions : /\ [row EXCEPT !.session = i].txid = row.txid
                                    /\ [row EXCEPT !.session = i].payment = row.payment
                                    /\ [row EXCEPT !.session = i].session = i
           /\ \A t \in Txns \cup {None} : [row EXCEPT !.txid = t].txid = t
                                          /\ [row EXCEPT !.txid = t].payment = row.payment
           /\ [row EXCEPT !.status = "PAID", !.payment = "PAID", !.resv = FALSE].txid = row.txid
           /\ [row EXCEPT !.status = "PAID", !.payment = "PAID", !.resv = FALSE].payment = "PAID"
           /\ [row EXCEPT !.status = "REFUNDED", !.payment = "REFUNDED"].txid = row.txid
BY DEF Rows, ReleasedRow

LEMMA IdleIsFresh ==
    /\ ~IdleCall.wrote /\ IdleCall.pc \notin {"payread", "pay", "link", "post", "record"}
    /\ CallBacked(IdleCall)
BY DEF IdleCall, Begin, CallBacked

LEMMA CheckoutBacked ==
    ASSUME BaseInv, BackedInv, NEW c \in Calls,
           (\E o \in Orders : CheckoutBegin(c, o)) \/ Checkout(c)
    PROVE  BackedInv'
<1>0. call[c] \in CallStates /\ CallBound(call[c]) /\ CallBacked(call[c])
      /\ \A o \in Orders : order[o] \in Rows
    BY DEF BaseInv, PaymentsTypeOK, BackedInv
<1>1. ASSUME NEW o \in Orders, CheckoutBegin(c, o) PROVE BackedInv'
    <2> DEFINE u == Begin("read", o, None, "PENDING")
               row == ReleasedRow(order[o], "EXPIRED")
    <2>1. ~u.wrote /\ u.pc \notin {"payread", "pay", "link", "post", "record"}
        BY DEF Begin
    <2>2. call' = [call EXCEPT ![c] = u] /\ UNCHANGED << bound, txn, sent >>
        BY <1>1 DEF CheckoutBegin, Start, gateway
    <2>3. row \in Rows /\ row.txid = order[o].txid /\ row.payment = order[o].payment
          /\ row.session = order[o].session
        BY <1>0, RowUpdates, RecordsInRow, SessionKeptInRow DEF LiveStatuses
    <2>4. \/ RowFree(c, o) /\ order' = [order EXCEPT ![o] = row]
          \/ UNCHANGED order
        BY <1>1 DEF CheckoutBegin, Update
    <2> HIDE DEF u, row
    <2>5. CASE UNCHANGED order
        BY <2>1, <2>2, <2>5, FreshBacked, BackedLocal
    <2>6. CASE RowFree(c, o) /\ order' = [order EXCEPT ![o] = row]
        BY <2>1, <2>2, <2>3, <2>6, BackedStatus
    <2> QED
        BY <2>4, <2>5, <2>6
<1>2. CASE ReuseSession(c)
    BY <1>2, IdleIsFresh, BackedLocal DEF ReuseSession, Return, gateway
<1>3. CASE ReadForCheckout(c)
    BY <1>0, <1>3, BackedGoto DEF ReadForCheckout, At, CallBound, Steps, gateway, DbUnchanged
<1>4. CASE SaveSession(c)
    <2> DEFINE q == call[c].o
               row == [order[q] EXCEPT !.session = call[c].i]
    <2>1. q \in Orders /\ call[c].i \in Intentions
        BY <1>0, <1>4 DEF SaveSession, At, CallBound
    <2>2. row \in Rows /\ row.txid = order[q].txid /\ row.payment = order[q].payment
        BY <1>0, <2>1, RowUpdates, RecordsInRow
    <2>3. order' = [order EXCEPT ![q] = row] /\ call' = [call EXCEPT ![c] = IdleCall]
          /\ UNCHANGED << bound, txn, sent >> /\ RowFree(c, q) /\ order[q].session = None
        BY <1>4 DEF SaveSession, Update, Return, gateway, SessionStillWanted
    <2> HIDE DEF q, row
    <2>4. RowBacked(q, row)
        BY <2>1, <2>2 DEF BackedInv, RowBacked
    <2> QED
        BY <2>1, <2>2, <2>3, <2>4, IdleIsFresh, BackedUpdate
<1>5. ASSUME NEW i \in Intentions, CreateIntention(c, i) PROVE BackedInv'
    <2>1. \A j \in Intentions : j # i => bound'[j] = bound[j]
        BY <1>5 DEF CreateIntention, BaseInv, PaymentsTypeOK
    <2>2. \A t \in Txns : txn[t].i # None => txn[t].i \in Intentions /\ txn[t].i # i
        BY <1>5 DEF CreateIntention, BaseInv, PaymentsTypeOK, GatewayTxns, GatewayBound
    <2>3. UNCHANGED << order, txn, sent >>
        BY <1>5 DEF CreateIntention, DbUnchanged
    <2>4. TxnsKept
        BY <2>1, <2>2, <2>3 DEF TxnsKept, Captured, OrderOf
    <2>5. OneCapture'
        BY <2>1, <2>2, <2>3 DEF BackedInv, OneCapture, OrderOf
    <2>6. SuccessIsCaptured'
        BY <2>3 DEF BackedInv, SuccessIsCaptured
    <2>7. call'[c].pc = "save" /\ ~call'[c].wrote
        BY <1>0, <1>5 DEF CreateIntention, At, CallBound, CallStates, BaseInv, PaymentsTypeOK
    <2>8. CallBacked(call[c])'
        BY <2>7 DEF CallBacked
    <2>9. \A d \in Calls : call'[d] = call[d] \/ CallBacked(call[d])'
        BY <1>5, <2>8 DEF CreateIntention, BaseInv, PaymentsTypeOK
    <2> QED
        BY <2>3, <2>4, <2>5, <2>6, <2>9, BackedByGateway
<1> QED
    BY <1>1, <1>2, <1>3, <1>4, <1>5 DEF Checkout

LEMMA WebhookBacked ==
    ASSUME BaseInv, BackedInv, NEW c \in Calls,
           \/ \E m \in Webhooks : Webhook(c, m)
           \/ ReadForPayment(c) \/ MarkPaid(c) \/ Link(c)
           \/ CancelPending(c) \/ Abort(c) \/ Commit(c)
    PROVE  BackedInv'
<1>0. call[c] \in CallStates /\ CallBound(call[c]) /\ CallBacked(call[c])
    BY DEF BaseInv, PaymentsTypeOK, BackedInv
<1>00. ~Idle(c) => /\ call[c].o \in Orders /\ order[call[c].o] \in Rows
                   /\ RowBacked(call[c].o, order[call[c].o])
    BY <1>0 DEF Idle, CallBound, BaseInv, PaymentsTypeOK, BackedInv
<1>1. ASSUME NEW m \in Webhooks, Webhook(c, m) PROVE BackedInv'
    <2>1. UNCHANGED << order, bound, txn, sent >>
        BY <1>1 DEF Webhook, gateway, DbUnchanged
    <2>2. CASE IsSuccess(m)
        <3> DEFINE u == Begin("payread", OrderOf(m.t), m.t, "PAID")
        <3>1. call' = [call EXCEPT ![c] = u]
            BY <1>1, <2>2 DEF Webhook, Start
        <3>2. m.t \in Txns /\ Captured(m.t, OrderOf(m.t))
            BY <1>1, <2>2 DEF Webhook, Webhooks, Captured, BackedInv, SuccessIsCaptured,
                              BaseInv, GatewayBound
        <3>3. CallBacked(u)
            BY <3>2 DEF CallBacked, Begin
        <3> HIDE DEF u
        <3> QED
            BY <2>1, <3>1, <3>3, BackedLocal
    <2>3. CASE ~IsSuccess(m)
        <3> DEFINE u == Begin("cancel", OrderOf(m.t), m.t, "CANCELLED")
        <3>1. call' = [call EXCEPT ![c] = u]
            BY <1>1, <2>3 DEF Webhook, Start
        <3>2. CallBacked(u)
            BY DEF CallBacked, Begin
        <3> HIDE DEF u
        <3> QED
            BY <2>1, <3>1, <3>2, BackedLocal
    <2> QED
        BY <2>2, <2>3
<1>2. CASE ReadForPayment(c)
    <2>1. PICK pc \in {"pay", "link"} : Goto(c, pc)
        BY <1>2 DEF ReadForPayment
    <2>2. ~call[c].wrote /\ call[c].t # None /\ Captured(call[c].t, call[c].o)
        BY <1>0, <1>2 DEF ReadForPayment, At, CallBound, CallBacked
    <2> QED
        BY <1>2, <2>1, <2>2, BackedGoto DEF ReadForPayment, gateway, DbUnchanged, Steps
<1>3. CASE MarkPaid(c)
    <2> DEFINE o == call[c].o
               row == [order[o] EXCEPT !.status = "PAID", !.payment = "PAID", !.resv = FALSE]
               pc == IF call[c].t = None THEN "commit" ELSE "link"
    <2>1. WriteRow(c, row, pc) /\ UNCHANGED << order, bound, txn, sent >>
        BY <1>3 DEF MarkPaid, gateway, DbUnchanged
    <2>2. o \in Orders /\ row \in Rows /\ row.txid = order[o].txid /\ row.payment = "PAID"
        BY <1>00, <1>3, RowUpdates, RecordsInRow DEF MarkPaid, At, Idle
    <2>3. pc \in {"link", "commit"}
          /\ (pc = "link" => call[c].t # None /\ Captured(call[c].t, call[c].o))
        BY <1>0, <1>3 DEF MarkPaid, At, CallBacked
    <2> HIDE DEF row, pc
    <2>4. RowBacked(o, row)
        BY <2>2 DEF RowBacked, BackedInv
    <2> QED
        BY <2>1, <2>2, <2>3, <2>4, BackedWrite
<1>4. CASE Link(c)
    <2> DEFINE o == call[c].o
               t == call[c].t
               row == [Current(c) EXCEPT !.txid = t]
    <2>1. WriteRow(c, row, "commit") /\ UNCHANGED << order, bound, txn, sent >>
        BY <1>4 DEF Link, gateway, DbUnchanged
    <2>2. o \in Orders /\ t \in Txns /\ t # None /\ Captured(t, o)
        BY <1>0, <1>4 DEF Link, At, CallBound, CallBacked, CallStates
    <2>3. Current(c) \in Rows /\ RowBacked(o, Current(c))
        BY <1>0, <1>00, <1>4 DEF Link, At, Idle, Current, CallStates, CallBacked
    <2>4. row \in Rows /\ row.txid = t /\ row.payment = Current(c).payment
        BY <2>2, <2>3, RowUpdates, RecordsInRow
    <2> HIDE DEF row
    <2>5. row.payment = "REFUNDED" => txn[t].refunds > 0
        <3> SUFFICES ASSUME row.payment = "REFUNDED" PROVE txn[t].refunds > 0
            OBVIOUS
        <3>1. Current(c).txid \in Txns /\ Captured(Current(c).txid, o)
              /\ txn[Current(c).txid].refunds > 0
            BY <2>3, <2>4 DEF RowBacked, Rows
        <3>2. Current(c).txid = t
            BY <2>2, <3>1, OneCaptured DEF BackedInv
        <3> QED
            BY <3>1, <3>2
    <2>6. RowBacked(o, row)
        BY <2>2, <2>4, <2>5 DEF RowBacked
    <2> QED
        BY <2>1, <2>2, <2>4, <2>6, BackedWrite
<1>5. CASE CancelPending(c)
    <2>1. UNCHANGED << order, bound, txn, sent >> /\ ~Idle(c) /\ ~call[c].wrote
        BY <1>0, <1>5 DEF CancelPending, gateway, DbUnchanged, At, Idle, CallBound
    <2>2. CASE WriteRow(c, FailedRow(c), "commit")
        <3> DEFINE o == call[c].o
                   row == FailedRow(c)
        <3>1. row \in Rows /\ row.txid = order[o].txid /\ row.payment = order[o].payment
            BY <1>00, <2>1, RowUpdates, RecordsInRow DEF FailedRow, LiveStatuses
        <3>2. WriteRow(c, row, "commit")
            BY <2>2
        <3> HIDE DEF row
        <3>3. RowBacked(o, row)
            BY <1>00, <2>1, <3>1 DEF RowBacked
        <3> QED
            BY <1>00, <2>1, <3>1, <3>2, <3>3, BackedWrite
    <2>3. CASE Goto(c, "commit")
        BY <2>1, <2>3, BackedGoto DEF Steps
    <2> QED
        BY <1>5, <2>2, <2>3 DEF CancelPending
<1>6. CASE Abort(c)
    BY <1>6, IdleIsFresh, BackedLocal DEF Abort, Return, gateway, DbUnchanged
<1>7. CASE Commit(c)
    <2>1. call' = [call EXCEPT ![c] = IdleCall] /\ UNCHANGED << bound, txn, sent >>
        BY <1>7 DEF Commit, Return, gateway
    <2>2. CASE ~call[c].wrote
        BY <1>7, <2>1, <2>2, IdleIsFresh, BackedLocal DEF Commit
    <2>3. CASE call[c].wrote
        <3> DEFINE o == call[c].o
                   row == call[c].row
        <3>1. o \in Orders /\ row \in Rows /\ row.session = order[o].session
            BY <1>0, <1>00, <1>7, <2>3 DEF Commit, At, Idle, CallBound, CallStates
        <3>2. RowBacked(o, row) /\ (order[o].txid # None => row.txid # None)
            BY <1>0, <2>3 DEF CallBacked
        <3>3. RowFree(c, o)
            BY <2>3 DEF RowFree, BaseInv, WritersApart
        <3>4. order' = [order EXCEPT ![o] = row]
            BY <1>7, <2>3 DEF Commit
        <3> HIDE DEF o, row
        <3> QED
            BY <2>1, <3>1, <3>2, <3>3, <3>4, IdleIsFresh, BackedUpdate
    <2> QED
        BY <2>2, <2>3
<1> QED
    BY <1>1, <1>2, <1>3, <1>4, <1>5, <1>6, <1>7

LEMMA AdminBacked ==
    ASSUME BaseInv, BackedInv, NEW c \in Calls,
           \/ \E o \in Orders, to \in LiveStatuses : Transition(c, o, to) \/ Release(c, o, to)
           \/ Advance(c)
    PROVE  BackedInv'
<1>0. call[c] \in CallStates /\ CallBound(call[c]) /\ \A o \in Orders : order[o] \in Rows
    BY DEF BaseInv, PaymentsTypeOK
<1>1. ASSUME NEW o \in Orders, NEW to \in LiveStatuses, Transition(c, o, to) PROVE BackedInv'
    <2> DEFINE u == Begin(IF to = "PAID" THEN "pay" ELSE "advance", o, None, to)
    <2>1. call' = [call EXCEPT ![c] = u] /\ UNCHANGED << order, bound, txn, sent >>
        BY <1>1 DEF Transition, Start, gateway, DbUnchanged
    <2>2. CallBacked(u)
        BY DEF CallBacked, Begin
    <2> HIDE DEF u
    <2> QED
        BY <2>1, <2>2, BackedLocal
<1>2. ASSUME NEW o \in Orders, NEW to \in LiveStatuses, Release(c, o, to) PROVE BackedInv'
    <2> DEFINE row == ReleasedRow(order[o], to)
    <2>1. row \in Rows /\ row.txid = order[o].txid /\ row.payment = order[o].payment
          /\ row.session = order[o].session
        BY <1>0, RowUpdates, RecordsInRow, SessionKeptInRow
    <2>2. order' = [order EXCEPT ![o] = row] /\ UNCHANGED << call, bound, txn, sent >>
          /\ RowFree(c, o)
        BY <1>2 DEF Release, Update, gateway
    <2>3. call' = [call EXCEPT ![c] = call[c]]
        BY <2>2 DEF BaseInv, PaymentsTypeOK
    <2>4. ~call[c].wrote /\ call[c].pc = "idle"
        BY <1>0, <1>2 DEF Release, Idle, CallBound
    <2> HIDE DEF row
    <2> QED
        BY <2>1, <2>2, <2>3, <2>4, BackedStatus
<1>3. CASE Advance(c)
    <2> DEFINE o == call[c].o
               row == [order[o] EXCEPT !.status = call[c].to]
    <2>1. o \in Orders /\ call[c].to \in LiveStatuses
        BY <1>0, <1>3 DEF Advance, At, CallBound, CallStates
    <2>2. row \in Rows /\ row.txid = order[o].txid /\ row.payment = order[o].payment
          /\ row.session = order[o].session
        BY <1>0, <2>1, RowUpdates, RecordsInRow, SessionKeptInRow
    <2>3. order' = [order EXCEPT ![o] = row] /\ call' = [call EXCEPT ![c] = IdleCall]
          /\ UNCHANGED << bound, txn, sent >> /\ RowFree(c, o)
        BY <1>3 DEF Advance, Update, Return, gateway
    <2> HIDE DEF o, row
    <2> QED
        BY <2>1, <2>2, <2>3, IdleIsFresh, BackedStatus
<1> QED
    BY <1>1, <1>2, <1>3

LEMMA RefundBacked ==
    ASSUME BaseInv, BackedInv, NEW c \in Calls,
           \/ PostRefund(c) \/ RecordRefund(c) \/ Reconcile(c)
           \/ \E o \in Orders : \/ ReadForRefund(c, o)
                             \/ \E audit \in BOOLEAN : \/ ReportUnlinked(c, o, audit)
                                                      \/ ReadForReconcile(c, o, audit)
    PROVE  BackedInv'
<1>0. call[c] \in CallStates /\ CallBound(call[c]) /\ CallBacked(call[c])
      /\ \A o \in Orders : order[o] \in Rows /\ RowBacked(o, order[o])
    BY DEF BaseInv, PaymentsTypeOK, BackedInv
<1>1. ASSUME NEW o \in Orders, ReadForRefund(c, o) PROVE BackedInv'
    <2> DEFINE u == Begin("post", o, order[o].txid, "REFUNDED")
    <2>1. call' = [call EXCEPT ![c] = u] /\ UNCHANGED << order, bound, txn, sent >>
        BY <1>1 DEF ReadForRefund, Start, gateway, DbUnchanged
    <2>2. order[o].txid # None /\ Captured(order[o].txid, o)
        BY <1>0, <1>1 DEF ReadForRefund, RowBacked
    <2>3. CallBacked(u)
        BY <2>2 DEF CallBacked, Begin
    <2> HIDE DEF u
    <2> QED
        BY <2>1, <2>3, BackedLocal
<1>2. CASE PostRefund(c)
    <2> DEFINE t == call[c].t
               o == call[c].o
    <2>1. t \in Txns /\ o \in Orders /\ ~call[c].wrote /\ Captured(t, o) /\ order[o].txid = t
        BY <1>0, <1>2 DEF PostRefund, At, CallBound, CallBacked, CallStates
    <2>2. UNCHANGED << order, bound, sent >>
        BY <1>2 DEF PostRefund, DbUnchanged
    <2>3. /\ \A x \in Txns : txn'[x].i = txn[x].i /\ txn'[x].state = txn[x].state
          /\ \A x \in Txns \ {t} : txn'[x] = txn[x]
          /\ txn'[t].refunds = txn[t].refunds + 1
        BY <1>2, <2>1 DEF PostRefund, BaseInv, PaymentsTypeOK
    <2>4. txn[t].refunds \in Nat /\ txn'[t].refunds > 0
        BY <2>1, <2>3 DEF BaseInv, PaymentsTypeOK, GatewayTxns
    <2>5. TxnsKept
        BY <2>2, <2>3, <2>4 DEF TxnsKept, Captured, OrderOf
    <2>6. OneCapture' /\ SuccessIsCaptured'
        <3>1. \A m \in sent : m.t \in Txns
            BY DEF BaseInv, PaymentsTypeOK, Webhooks
        <3> QED
            BY <2>2, <2>3, <3>1 DEF BackedInv, OneCapture, SuccessIsCaptured, OrderOf
    <2>7. /\ call'[c].pc = "record" /\ call'[c].t = t /\ call'[c].o = o /\ ~call'[c].wrote
          /\ \A d \in Calls : d = c \/ call'[d] = call[d]
        BY <1>0, <1>2, <2>1 DEF PostRefund, Goto, BaseInv, PaymentsTypeOK, CallStates
    <2> HIDE DEF t, o
    <2>8. Captured(call[c].t, call[c].o)' /\ order'[o].txid = t /\ t # None
        BY <2>1, <2>2, <2>3, <2>7 DEF Captured, OrderOf
    <2>9. CallBacked(call[c])'
        BY <2>4, <2>7, <2>8 DEF CallBacked
    <2> QED
        BY <2>2, <2>5, <2>6, <2>7, <2>9, BackedByGateway
<1>3. CASE RecordRefund(c)
    <2> DEFINE o == call[c].o
               row == [order[o] EXCEPT !.status = "REFUNDED", !.payment = "REFUNDED"]
    <2>1. o \in Orders /\ order[o].txid # None /\ txn[order[o].txid].refunds > 0
          /\ Captured(order[o].txid, o)
        BY <1>0, <1>3 DEF RecordRefund, At, CallBound, CallBacked
    <2>2. row \in Rows /\ row.txid = order[o].txid /\ row.session = order[o].session
        BY <1>0, <2>1, RowUpdates, RecordsInRow, SessionKeptInRow
    <2>3. order' = [order EXCEPT ![o] = row] /\ call' = [call EXCEPT ![c] = IdleCall]
          /\ UNCHANGED << bound, txn, sent >> /\ RowFree(c, o)
        BY <1>3 DEF RecordRefund, Update, Return, gateway
    <2> HIDE DEF o, row
    <2>4. RowBacked(o, row)
        BY <2>1, <2>2 DEF RowBacked
    <2> QED
        BY <2>1, <2>2, <2>3, <2>4, IdleIsFresh, BackedUpdate
<1>4. CASE Reconcile(c)
    BY <1>4, IdleIsFresh, BackedLocal DEF Reconcile, Return, gateway
<1>5. ASSUME NEW o \in Orders, NEW audit \in BOOLEAN, ReportUnlinked(c, o, audit) PROVE BackedInv'
    <2>1. call' = [call EXCEPT ![c] = call[c]] /\ UNCHANGED << order, bound, txn, sent >>
        BY <1>5 DEF ReportUnlinked, gateway, BaseInv, PaymentsTypeOK
    <2> QED
        BY <1>0, <2>1, BackedLocal
<1>6. ASSUME NEW o \in Orders, NEW audit \in BOOLEAN, ReadForReconcile(c, o, audit) PROVE BackedInv'
    <2> DEFINE u == [Begin("check", o, order[o].txid, "PENDING") EXCEPT !.row = order[o]]
    <2>1. call' = [call EXCEPT ![c] = u] /\ UNCHANGED << order, bound, txn, sent >>
        BY <1>6 DEF ReadForReconcile, gateway, DbUnchanged
    <2>2. CallBacked(u)
        BY DEF CallBacked, Begin
    <2> HIDE DEF u
    <2> QED
        BY <2>1, <2>2, BackedLocal
<1> QED
    BY <1>1, <1>2, <1>3, <1>4, <1>5, <1>6

\* A transaction that is not captured takes a new state, of the same intention or, as a first
\* state, of one that is open.
LEMMA TxnBacked ==
    ASSUME BaseInv, BackedInv, NEW t \in Txns, NEW i \in Intentions,
           NEW state \in {"pending", "captured", "declined"},
           txn[t].state # "captured",
           \E o \in Orders : order[o].session = i,
           \A x \in Txns \ {t} : txn[x].i = i => txn[x].state = "declined",
           txn' = [txn EXCEPT ![t] = [ i |-> i, refunds |-> 0, state |-> state ]],
           sent' = sent \cup Report(t, state),
           UNCHANGED << bound, call >>, DbUnchanged
    PROVE  BackedInv'
<1>1. /\ txn'[t].i = i /\ txn'[t].state = state
      /\ \A x \in Txns \ {t} : txn'[x] = txn[x]
      /\ UNCHANGED << order, bound, call >>
    BY DEF BaseInv, PaymentsTypeOK, DbUnchanged
<1>2. order[bound[i]].session = i
    BY DEF BaseInv, GatewayBound
<1>3. TxnsKept
    BY <1>1 DEF TxnsKept, Captured, OrderOf
<1>4. OneCapture'
    <2>1. ASSUME NEW x \in Txns, txn'[x].i # None PROVE (order[OrderOf(x)].session = txn[x].i)'
        BY <1>1, <1>2, <2>1 DEF BackedInv, OneCapture, OrderOf
    <2>2. ASSUME NEW x \in Txns, NEW y \in Txns, x # y, txn'[x].i # None, txn'[x].i = txn'[y].i
          PROVE  txn'[x].state = "declined" \/ txn'[y].state = "declined"
        <3>1. CASE x = t
            BY <1>1, <2>2, <3>1
        <3>2. CASE y = t
            BY <1>1, <2>2, <3>2
        <3>3. CASE x # t /\ y # t
            BY <1>1, <2>2, <3>3 DEF BackedInv, OneCapture
        <3> QED
            BY <3>1, <3>2, <3>3
    <2> QED
        BY <2>1, <2>2 DEF OneCapture
<1>5. SuccessIsCaptured'
    <2> SUFFICES ASSUME NEW m \in sent', IsSuccess(m) PROVE txn'[m.t].state = "captured"
        BY DEF SuccessIsCaptured, IsSuccess
    <2>1. CASE m \in sent
        BY <1>1, <2>1 DEF BackedInv, SuccessIsCaptured, BaseInv, PaymentsTypeOK, Webhooks
    <2>2. CASE m \in Report(t, state)
        <3>1. state # "pending"
            BY <2>2 DEF Report, IsSuccess
        <3>2. m = [ t |-> t, success |-> state = "captured", pending |-> FALSE ]
            BY <2>2, <3>1 DEF Report
        <3> QED
            BY <1>1, <3>2 DEF IsSuccess
    <2> QED
        BY <2>1, <2>2
<1> QED
    BY <1>1, <1>3, <1>4, <1>5, BackedByGateway

LEMMA GatewayBacked == ASSUME BaseInv, BackedInv, Gateway PROVE BackedInv'
<1>1. PICK t \in Txns, state \in {"pending", "captured", "declined"} :
        Settle(t, state) \/ \E i \in Intentions : Attempt(t, i, state)
    BY DEF Gateway
<1>2. CASE Settle(t, state)
    <2>1. txn[t].i # None /\ txn[t].state = "pending" /\ OrderOf(t) \in Orders
        BY <1>2 DEF Settle, BaseInv, GatewayBound, OrderOf
    <2>2. PICK i \in Intentions : i = txn[t].i
        BY <2>1 DEF BaseInv, PaymentsTypeOK, GatewayTxns
    <2>3. \E o \in Orders : order[o].session = i
        BY <2>1, <2>2 DEF BackedInv, OneCapture
    <2>4. \A x \in Txns \ {t} : txn[x].i = i => txn[x].state = "declined"
        BY <2>1, <2>2 DEF BackedInv, OneCapture
    <2>5. /\ state \in {"pending", "captured", "declined"}
          /\ txn' = [txn EXCEPT ![t] = [ i |-> i, refunds |-> 0, state |-> state ]]
          /\ sent' = sent \cup Report(t, state)
          /\ UNCHANGED << bound, call >> /\ DbUnchanged
        BY <1>2, <2>2 DEF Settle
    <2> QED
        BY <2>1, <2>3, <2>4, <2>5, TxnBacked
<1>3. ASSUME NEW i \in Intentions, Attempt(t, i, state) PROVE BackedInv'
    <2>1. \E o \in Orders : order[o].session = i
        BY <1>3 DEF Attempt, BaseInv, OneSessionPerOrder
    <2> QED
        BY <1>3, <2>1, TxnBacked DEF Attempt, Open
<1> QED
    BY <1>1, <1>2, <1>3

LEMMA NextBacked == BaseInv /\ BackedInv /\ [PaymentsNext]_paymentVars => BackedInv'
<1> SUFFICES ASSUME BaseInv, BackedInv, [PaymentsNext]_paymentVars PROVE BackedInv'
    OBVIOUS
<1>1. ASSUME NEW c \in Calls, Request(c) PROVE BackedInv'
    BY <1>1, CheckoutBacked, WebhookBacked, AdminBacked, RefundBacked DEF Request
<1>2. ASSUME NEW c \in Calls, Checkout(c) PROVE BackedInv'
    BY <1>2, CheckoutBacked
<1>3. ASSUME NEW c \in Calls, Continue(c) PROVE BackedInv'
    BY <1>3, WebhookBacked, AdminBacked, RefundBacked DEF Continue
<1>4. CASE Gateway
    BY <1>4, GatewayBacked
<1>5. ASSUME UNCHANGED << order, call, bound, txn, sent >> PROVE BackedInv'
    BY <1>5 DEF BackedInv, OneCapture, SuccessIsCaptured, RowBacked, CallBacked, Captured, OrderOf
<1>6. ASSUME NEW o \in Orders, Lapse(o) \/ LeaveWindow(o) PROVE BackedInv'
    BY <1>5, <1>6 DEF Lapse, LeaveWindow, gateway, journal
<1>7. CASE UNCHANGED paymentVars
    BY <1>5, <1>7 DEF paymentVars
<1> QED
    BY <1>1, <1>2, <1>3, <1>4, <1>6, <1>7 DEF PaymentsNext

LEMMA InitBacked == PaymentsInit => BackedInv
BY DEF PaymentsInit, BackedInv, OneCapture, SuccessIsCaptured, RowBacked, CallBacked, Captured,
       OrderOf, NewRow, IdleCall, Begin

\* Whatever overlaps, repeats, arrives late or is lost, an order that names a transaction was
\* paid by it, and an order recorded as refunded had a refund at the gateway.
THEOREM RecordsOfTheGateway == PaymentsSpec => []RecordsAreBacked
<1>1. BaseInv /\ BackedInv => RecordsAreBacked
    BY DEF BackedInv, RowBacked, Captured, RecordsAreBacked
<1> QED
    BY <1>1, InitBase, NextBase, InitBacked, NextBacked, PTL DEF PaymentsSpec
=============================================================================
