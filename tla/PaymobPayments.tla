--------------------------- MODULE PaymobPayments ---------------------------
(***************************************************************************)
(* PaymobService and the Paymob gateway, for ONLINE orders.                 *)
(*                                                                          *)
(* A call is one request to the service: a checkout session, a webhook, a   *)
(* status change, a refund or the reconciliation of one order.  An action   *)
(* ends where the call awaits the gateway or another call may run between   *)
(* two of its statements.  Rows a transaction has written stay in its call  *)
(* record until Commit and lock the row, as in OrderTx.  The gateway sends  *)
(* a webhook for each state of a transaction; one may arrive late, several  *)
(* times, or never.                                                         *)
(***************************************************************************)
EXTENDS OrderStatus, Integers

CONSTANTS
    Orders,      \* ONLINE orders that customers have created
    Intentions,  \* payment intentions that the gateway can create
    Txns,        \* payment attempts at the gateway
    None,        \* no order, no intention, no transaction
    Calls,       \* concurrent calls
    Parts        \* refunds that fit into the amount of one transaction

ASSUME PaymentsAssumption ==
    /\ None \notin Orders /\ None \notin Intentions /\ None \notin Txns
    /\ Parts \in Nat

VARIABLES
    order,      \* the Order rows
    lapsed,     \* the dates that have passed: reservationExpiresAt, and the window of audits
    processed,  \* ProcessedPaymobEvent.paymobTransactionId
    events,     \* per transaction: its events in the outbox, and those that were dropped
    audited,    \* the reconciliation entries of the audit log
    returned,   \* returned[o]: the sessions that checkout calls for o returned
    call,       \* the calls in progress
    bound,      \* gateway: the order of each intention
    txn,        \* gateway: the transactions
    sent        \* gateway: the webhooks sent

paymentVars == << order, lapsed, processed, events, audited, returned, call, bound, txn, sent >>
gateway == << bound, txn, sent >>
journal == << processed, events, audited, returned >>

Rows == [ status : LiveStatuses, payment : PaymentStatuses, resv : BOOLEAN,
          session : Intentions \cup {None}, txid : Txns \cup {None} ]

NewRow == [ status |-> "PENDING", payment |-> "PENDING", resv |-> TRUE,
            session |-> None, txid |-> None ]

Steps == { "idle", "read", "fetch", "save", "payread", "pay", "link", "cancel",
           "advance", "post", "record", "check", "commit" }

CallStates ==
    [ pc : Steps, o : Orders \cup {None}, i : Intentions \cup {None},
      t : Txns \cup {None}, to : LiveStatuses,
      wrote : BOOLEAN,  \* row is written and not committed
      row : Rows ]      \* or the row that reconciliation has read

Begin(pc, o, t, to) == [ pc |-> pc, o |-> o, i |-> None, t |-> t, to |-> to,
                         wrote |-> FALSE, row |-> NewRow ]

IdleCall == Begin("idle", None, None, "PENDING")

\* "dropped": enqueueInTx could not insert the event.
EventTypes == { "payment.succeeded", "payment.failed", "dropped" }

\* The window of an audit is daysBack, of at most 30 days.
Dates == { "reservation", "window" }

GatewayTxns == [ i : Intentions \cup {None}, refunds : 0 .. Parts,
                 state : { "none", "pending", "captured", "declined" } ]

Webhooks == [ t : Txns, success : BOOLEAN, pending : BOOLEAN ]

PaymentsTypeOK ==
    /\ order \in [Orders -> Rows]
    /\ lapsed \in SUBSET (Orders \X Dates)
    /\ processed \in SUBSET Txns
    /\ events \in [EventTypes \X Txns -> Nat]
    /\ audited \in SUBSET (Orders \X {"unlinked", "mismatch"})
    /\ returned \in [Orders -> SUBSET Intentions]
    /\ call \in [Calls -> CallStates]
    /\ bound \in [Intentions -> Orders \cup {None}]
    /\ txn \in [Txns -> GatewayTxns]
    /\ sent \in SUBSET Webhooks

PaymentsInit ==
    /\ order = [ o \in Orders |-> NewRow ]
    /\ lapsed = {} /\ processed = {} /\ audited = {} /\ sent = {}
    /\ events = [ e \in EventTypes \X Txns |-> 0 ]
    /\ returned = [ o \in Orders |-> {} ]
    /\ call = [ c \in Calls |-> IdleCall ]
    /\ bound = [ i \in Intentions |-> None ]
    /\ txn = [ t \in Txns |-> [ i |-> None, refunds |-> 0, state |-> "none" ] ]

-----------------------------------------------------------------------------
Idle(c)   == call[c].pc = "idle"
At(c, pc) == call[c].pc = pc

\* No other open transaction has written the row of o.
RowFree(c, o) == \A d \in Calls \ {c} : ~(call[d].wrote /\ call[d].o = o)

\* The row as the transaction of c sees it.
Current(c) == IF call[c].wrote THEN call[c].row ELSE order[call[c].o]

Start(c, pc, o, t, to) == call' = [call EXCEPT ![c] = Begin(pc, o, t, to)]
Goto(c, pc)            == call' = [call EXCEPT ![c] = [call[c] EXCEPT !.pc = pc]]
WriteRow(c, row, pc)   ==
    call' = [call EXCEPT ![c] = [call[c] EXCEPT !.pc = pc, !.wrote = TRUE, !.row = row]]
Return(c)              == call' = [call EXCEPT ![c] = IdleCall]

\* A statement outside a transaction commits at once.
Update(o, row) == order' = [order EXCEPT ![o] = row]

DbUnchanged == UNCHANGED << order, lapsed, processed, events, audited, returned >>

-----------------------------------------------------------------------------
(* createCheckoutSession                                                    *)

\* Mutant: the new status is written to paymentStatus as well.
ReleasedRowBoth(row, to) == [row EXCEPT !.status = to, !.payment = to, !.resv = FALSE]

ReleasedRow(row, to) == [row EXCEPT !.status = to, !.resv = FALSE]

Due(o) == order[o].status = "PENDING" /\ order[o].resv /\ << o, "reservation" >> \in lapsed

\* expireOrder, a transaction of its own, comes before the read.
CheckoutBegin(c, o) ==
    /\ Idle(c) /\ Start(c, "read", o, None, "PENDING")
    /\ \/ Due(o) /\ RowFree(c, o) /\ Update(o, ReleasedRow(order[o], "EXPIRED"))
       \/ ~Due(o) /\ UNCHANGED order
    /\ UNCHANGED << lapsed, journal, gateway >>

AwaitsPayment(o) ==
    order[o].status = "PENDING" /\ order[o].resv /\ << o, "reservation" >> \notin lapsed

\* tryReuseExistingCheckoutSession
ReuseSession(c) ==
    LET o == call[c].o IN
    /\ At(c, "read") /\ AwaitsPayment(o) /\ order[o].session # None
    /\ returned' = [returned EXCEPT ![o] = @ \cup {order[o].session}]
    /\ Return(c)
    /\ UNCHANGED << order, lapsed, processed, events, audited, gateway >>

ReadForCheckout(c) ==
    LET o == call[c].o IN
    /\ At(c, "read") /\ AwaitsPayment(o) /\ order[o].session = None
    /\ Goto(c, "fetch")
    /\ UNCHANGED gateway /\ DbUnchanged

\* POST /v1/intention/ answers with a new intention for the order.
CreateIntention(c, i) ==
    /\ At(c, "fetch") /\ bound[i] = None
    /\ bound' = [bound EXCEPT ![i] = call[c].o]
    /\ call' = [call EXCEPT ![c] = [call[c] EXCEPT !.pc = "save", !.i = i]]
    /\ UNCHANGED << txn, sent >> /\ DbUnchanged

\* Mutant: the WHERE without `paymentSessionId: null`.
SessionStillWantedLoose(o) == order[o].status = "PENDING"

\* The WHERE of the update that stores the session.
SessionStillWanted(o) == order[o].status = "PENDING" /\ order[o].session = None

SaveSession(c) ==
    LET o == call[c].o IN
    /\ At(c, "save") /\ RowFree(c, o) /\ SessionStillWanted(o)
    /\ Update(o, [order[o] EXCEPT !.session = call[c].i])
    /\ returned' = [returned EXCEPT ![o] = @ \cup {call[c].i}]
    /\ Return(c)
    /\ UNCHANGED << lapsed, processed, events, audited, gateway >>

-----------------------------------------------------------------------------
(* The gateway                                                              *)

Report(t, state) ==
    IF state = "pending" THEN [ t : {t}, success : BOOLEAN, pending : {TRUE} ]
    ELSE { [ t |-> t, success |-> state = "captured", pending |-> FALSE ] }

\* An intention takes no further attempt while one is pending or after one was captured.
Open(i) == \A t \in Txns : txn[t].i = i => txn[t].state = "declined"

Attempt(t, i, state) ==
    /\ txn[t].state = "none" /\ state \in {"pending", "captured", "declined"}
    /\ Open(i) /\ \E o \in Orders : i \in returned[o]
    /\ txn' = [txn EXCEPT ![t] = [ i |-> i, refunds |-> 0, state |-> state ]]
    /\ sent' = sent \cup Report(t, state)
    /\ UNCHANGED << bound, call >> /\ DbUnchanged

Settle(t, state) ==
    /\ txn[t].state = "pending" /\ state \in {"captured", "declined"}
    /\ txn' = [txn EXCEPT ![t] = [ i |-> txn[t].i, refunds |-> 0, state |-> state ]]
    /\ sent' = sent \cup Report(t, state)
    /\ UNCHANGED << bound, call >> /\ DbUnchanged

OrderOf(t) == bound[txn[t].i]

-----------------------------------------------------------------------------
(* handleWebhook, of a webhook whose HMAC is right                          *)

IsSuccess(m) == m.success /\ ~m.pending

InWebhook(c) == call[c].pc \in {"payread", "pay", "link", "cancel", "commit"} /\ call[c].t # None

\* The INSERT waits for another call that has inserted t, then fails if t is committed.
NewEvent(t) == t \notin processed /\ \A d \in Calls : ~(InWebhook(d) /\ call[d].t = t)

Webhook(c, m) ==
    /\ m \in sent /\ Idle(c) /\ NewEvent(m.t)
    /\ IF IsSuccess(m) THEN Start(c, "payread", OrderOf(m.t), m.t, "PAID")
                       ELSE Start(c, "cancel", OrderOf(m.t), m.t, "CANCELLED")
    /\ UNCHANGED gateway /\ DbUnchanged

\* markPaidInTransaction: an order that is PAID is left as it is.
ReadForPayment(c) ==
    LET status == order[call[c].o].status IN
    /\ At(c, "payread") /\ TransitionAllowed(status, "PAID")
    /\ Goto(c, IF status = "PAID" THEN "link" ELSE "pay")
    /\ UNCHANGED gateway /\ DbUnchanged

\* updateMany where paymentStatus is not PAID.
MarkPaid(c) ==
    LET o == call[c].o IN
    /\ At(c, "pay") /\ RowFree(c, o) /\ order[o].payment # "PAID"
    /\ WriteRow(c, [order[o] EXCEPT !.status = "PAID", !.payment = "PAID", !.resv = FALSE],
                IF call[c].t = None THEN "commit" ELSE "link")
    /\ UNCHANGED gateway /\ DbUnchanged

\* order.update by id: paymobTransactionId.
Link(c) ==
    /\ At(c, "link") /\ RowFree(c, call[c].o)
    /\ WriteRow(c, [Current(c) EXCEPT !.txid = call[c].t], "commit")
    /\ UNCHANGED gateway /\ DbUnchanged

\* Mutant: the order of a declined transaction remembers it.
FailedRowLinked(c) == [ReleasedRow(order[call[c].o], "CANCELLED") EXCEPT !.txid = call[c].t]

FailedRow(c) == ReleasedRow(order[call[c].o], "CANCELLED")

\* cancelPendingOrderInTransaction: an order that is not PENDING is left as it is.
CancelPending(c) ==
    LET o == call[c].o IN
    /\ At(c, "cancel")
    /\ \/ order[o].status = "PENDING" /\ RowFree(c, o) /\ WriteRow(c, FailedRow(c), "commit")
       \/ order[o].status # "PENDING" /\ Goto(c, "commit")
    /\ UNCHANGED gateway /\ DbUnchanged

\* Mutant: the processed event is committed on its own, before the change it stands for.
AbortKeepsEvent(c) ==
    /\ ~Idle(c) /\ Return(c)
    /\ processed' = IF InWebhook(c) THEN processed \cup {call[c].t} ELSE processed
    /\ UNCHANGED << order, lapsed, events, audited, returned, gateway >>

\* An exception, a refusal or failure of the gateway, or a crash.
Abort(c) == ~Idle(c) /\ Return(c) /\ UNCHANGED gateway /\ DbUnchanged

EventOf(c) == << IF call[c].to = "PAID" THEN "payment.succeeded" ELSE "payment.failed",
                 call[c].t >>

\* The event is inserted, or dropped under its SAVEPOINT; the change is committed all the same.
Commit(c) ==
    /\ At(c, "commit") /\ Return(c)
    /\ order' = IF call[c].wrote THEN [order EXCEPT ![call[c].o] = call[c].row] ELSE order
    /\ IF call[c].t = None THEN UNCHANGED << processed, events >>
       ELSE /\ processed' = processed \cup {call[c].t}
            /\ \E outcome \in { EventOf(c), << "dropped", call[c].t >> } :
                   events' = [events EXCEPT ![outcome] = @ + 1]
    /\ UNCHANGED << lapsed, audited, returned, gateway >>

-----------------------------------------------------------------------------
(* What OrdersService does to the row meanwhile (see OrderTx)               *)

\* A cancellation, or an expiry by the cron job.
Release(c, o, to) ==
    /\ Idle(c) /\ RowFree(c, o)
    /\ \/ to = "CANCELLED" /\ order[o].status = "PENDING"
       \/ to = "EXPIRED" /\ Due(o)
    /\ Update(o, ReleasedRow(order[o], to))
    /\ UNCHANGED << lapsed, journal, call, gateway >>

\* transitionStatus reads the row, and marks the order paid or updates it by id.
Transition(c, o, to) ==
    /\ Idle(c) /\ order[o].status # to /\ to \notin Released
    /\ TransitionAllowed(order[o].status, to)
    /\ Start(c, IF to = "PAID" THEN "pay" ELSE "advance", o, None, to)
    /\ UNCHANGED gateway /\ DbUnchanged

Advance(c) ==
    LET o == call[c].o IN
    /\ At(c, "advance") /\ RowFree(c, o)
    /\ Update(o, [order[o] EXCEPT !.status = call[c].to])
    /\ Return(c)
    /\ UNCHANGED << lapsed, journal, gateway >>

Lapse(o) ==
    /\ order[o].status = "PENDING" /\ order[o].resv
    /\ lapsed' = lapsed \cup {<< o, "reservation" >>}
    /\ UNCHANGED << order, journal, call, gateway >>

\* The order is older than any window of an audit.
LeaveWindow(o) ==
    /\ lapsed' = lapsed \cup {<< o, "window" >>}
    /\ UNCHANGED << order, journal, call, gateway >>

-----------------------------------------------------------------------------
(* refundTransaction                                                        *)

ReadForRefund(c, o) ==
    /\ Idle(c)
    /\ order[o].status = "PAID" /\ order[o].payment # "REFUNDED" /\ order[o].txid # None
    /\ Start(c, "post", o, order[o].txid, "REFUNDED")
    /\ UNCHANGED gateway /\ DbUnchanged

\* Mutant: response.ok is not looked at.
PostRefundAnyReply(c) ==
    /\ At(c, "post") /\ Goto(c, "record")
    /\ UNCHANGED gateway /\ DbUnchanged

\* The gateway accepts the refund: a part of the amount is still there.
PostRefund(c) ==
    LET t == call[c].t IN
    /\ At(c, "post") /\ txn[t].refunds < Parts
    /\ txn' = [txn EXCEPT ![t] = [ i |-> txn[t].i, refunds |-> txn[t].refunds + 1,
                                   state |-> txn[t].state ]]
    /\ Goto(c, "record")
    /\ UNCHANGED << bound, sent >> /\ DbUnchanged

RecordRefund(c) ==
    LET o == call[c].o IN
    /\ At(c, "record") /\ RowFree(c, o)
    /\ Update(o, [order[o] EXCEPT !.status = "REFUNDED", !.payment = "REFUNDED"])
    /\ Return(c)
    /\ UNCHANGED << lapsed, journal, gateway >>

-----------------------------------------------------------------------------
(* reconcilePayments, for one order of its list                             *)

\* The statuses of orders that reconciliation repairs.
Repairable == { "PENDING", "CANCELLED", "EXPIRED" }

\* The WHERE of the order list.
Selected(o, audit) ==
    /\ << o, "window" >> \notin lapsed
    /\ order[o].txid # None \/ order[o].session # None
    /\ audit \/ (order[o].status \in Repairable /\ order[o].payment = "PENDING")

ReportUnlinked(c, o, audit) ==
    /\ Idle(c) /\ Selected(o, audit) /\ order[o].txid = None
    /\ audited' = audited \cup {<< o, "unlinked" >>}
    /\ UNCHANGED << order, lapsed, processed, events, returned, call, gateway >>

ReadForReconcile(c, o, audit) ==
    /\ Idle(c) /\ Selected(o, audit) /\ order[o].txid # None
    /\ call' = [call EXCEPT ![c] = [Begin("check", o, order[o].txid, "PENDING")
                                      EXCEPT !.row = order[o]]]
    /\ UNCHANGED gateway /\ DbUnchanged

\* Mutant: is_refunded is not looked at.
ExpectedPaymentCaptured(t) ==
    CASE txn[t].state = "captured" -> "PAID"
      [] txn[t].state = "declined" -> "FAILED"
      [] OTHER                     -> "PENDING"

\* The paymentStatus that the state of the transaction at the gateway calls for.
ExpectedPayment(t) ==
    CASE txn[t].refunds > 0        -> "REFUNDED"
      [] txn[t].state = "captured" -> "PAID"
      [] txn[t].state = "declined" -> "FAILED"
      [] OTHER                     -> "PENDING"

\* A captured transaction, not refunded, of an order with a Repairable status would be
\* repaired here: NothingToRepair shows that no call meets one.
Reconcile(c) ==
    /\ At(c, "check") /\ Return(c)
    /\ audited' = IF ExpectedPayment(call[c].t) = "PAID" \/ ExpectedPayment(call[c].t) = call[c].row.payment
                  THEN audited ELSE audited \cup {<< call[c].o, "mismatch" >>}
    /\ UNCHANGED << order, lapsed, processed, events, returned, gateway >>

-----------------------------------------------------------------------------
Checkout(c) ==
    \/ ReuseSession(c) \/ ReadForCheckout(c) \/ SaveSession(c)
    \/ \E i \in Intentions : CreateIntention(c, i)

Continue(c) ==
    \/ ReadForPayment(c) \/ MarkPaid(c) \/ Link(c) \/ CancelPending(c) \/ Advance(c)
    \/ PostRefund(c) \/ RecordRefund(c) \/ Reconcile(c) \/ Commit(c) \/ Abort(c)

Request(c) ==
    \/ \E m \in Webhooks : Webhook(c, m)
    \/ \E o \in Orders :
        \/ CheckoutBegin(c, o) \/ ReadForRefund(c, o)
        \/ \E to \in LiveStatuses : Transition(c, o, to) \/ Release(c, o, to)
        \/ \E audit \in BOOLEAN : ReportUnlinked(c, o, audit) \/ ReadForReconcile(c, o, audit)

Gateway ==
    \E t \in Txns : \E state \in { "pending", "captured", "declined" } :
        Settle(t, state) \/ \E i \in Intentions : Attempt(t, i, state)

PaymentsNext ==
    \/ \E c \in Calls : Request(c) \/ Checkout(c) \/ Continue(c)
    \/ Gateway
    \/ \E o \in Orders : Lapse(o) \/ LeaveWindow(o)

PaymentsSpec == PaymentsInit /\ [][PaymentsNext]_paymentVars

-----------------------------------------------------------------------------
\* createCheckoutSession: however many checkouts of an order overlap, every session they
\* return is the one stored with the order, so that a payment never belongs to a lost one.
OneSessionPerOrder == \A o \in Orders : returned[o] \subseteq {order[o].session}

\* handleWebhook: the processed event, the order's change and the outbox event commit
\* together: a transaction on record was reported once, as succeeded or as failed, unless its
\* event could not be inserted; one that is not on record can still be delivered again.
OneVerdict ==
    \A t \in Txns :
        events[<<"payment.succeeded", t>>] + events[<<"payment.failed", t>>] + events[<<"dropped", t>>]
            = IF t \in processed THEN 1 ELSE 0

\* An order that names a transaction was paid by it, and an order that is recorded as
\* refunded had it refunded at the gateway.
RecordsAreBacked ==
    \A o \in Orders :
        /\ order[o].txid # None => /\ txn[order[o].txid].state = "captured"
                                   /\ OrderOf(order[o].txid) = o
        /\ order[o].payment = "REFUNDED" =>
             order[o].txid # None /\ txn[order[o].txid].refunds > 0

\* reconcilePayments: no order that it finds linked to a transaction has a status that it
\* would repair, whatever happened before, so that its repair branches never run.
NothingToRepair ==
    \A c \in Calls : At(c, "check") => call[c].row.status \notin Repairable

\* docs/AGENT_EVENTS.md: payment.failed stands for a webhook of a declined transaction.
FailedMeansDeclined ==
    \A t \in Txns : events[<<"payment.failed", t>>] > 0 => txn[t].state = "declined"

-----------------------------------------------------------------------------
\* Administrators keep asking for audits, and the gateway answers in the end.
AuditFairness ==
    /\ \A o \in Orders : SF_paymentVars(\E c \in Calls : ReadForReconcile(c, o, TRUE))
    /\ SF_paymentVars(\E c \in Calls : Reconcile(c))
    /\ \A c \in Calls : WF_paymentVars(Abort(c))

FairPayments == PaymentsSpec /\ AuditFairness

\* A refund that the gateway has made and the service has lost, because the call ended
\* between the two, is reported by an audit, unless none is run before the order has left
\* the longest window of audits.
LostRefundIsReported ==
    \A o \in Orders :
        order[o].txid # None /\ txn[order[o].txid].refunds > 0
          ~> \/ order[o].payment = "REFUNDED" \/ << o, "mismatch" >> \in audited
             \/ << o, "window" >> \in lapsed
=============================================================================
