---------------------------- MODULE OrderEvents ----------------------------
(***************************************************************************)
(* Orders and the events that tell the agent about them: OrdersService over *)
(* AgentEventsService.  A transaction that creates or releases an order     *)
(* inserts the row of its event, which rolls back with it, or is dropped    *)
(* alone if it cannot be inserted; the workers deliver it later.  One event *)
(* stands for all those of a transaction (order.created and stock.changed,  *)
(* or order.status_changed, order.cancelled and stock.changed).             *)
(***************************************************************************)
EXTENDS OrderRefinement, AgentOutbox

CONSTANTS
    Created,   \* Created[o]: the event of the creation of o
    Resolved   \* Resolved[o]: the event of its cancellation or expiry

ASSUME OrderEventsAssumption ==
    /\ Ops \subseteq { "create", "cancel", "expire", "payFailed" }
    /\ Created \in [Orders -> Events] /\ Resolved \in [Orders -> Events]

VARIABLE dropped   \* history: events whose insert failed

orderEventVars == << vars, outboxVars, dropped >>

\* emitOrderCreated and emitStatusChanged: enqueueInTx with the transaction of the change.
Emitted(p) ==
    IF tx[p].op = "create" THEN {Created[tx[p].o]}
    ELSE IF order[tx[p].o].status # tx[p].row.status THEN {Resolved[tx[p].o]} ELSE {}

\* COMMIT: the changes and their event, or the changes alone if enqueueInTx has rolled its
\* insert back to the SAVEPOINT.
CommitAndReport(p) ==
    /\ Commit(p)
    /\ \E inserted \in { Emitted(p), {} } :
        /\ row' = [ e \in Events |-> IF e \in inserted
                                     THEN [ status |-> "pending", attempts |-> 0, due |-> TRUE ]
                                     ELSE row[e] ]
        /\ dropped' = dropped \cup (Emitted(p) \ inserted)
    /\ UNCHANGED << worker, received, late >>

\* What the workers, the clock and the administrators do with the table.
Dispatch ==
    \/ \E w \in Workers : Claim(w) \/ Stop(w) \/ \E e \in Events : Deliver(w, e)
    \/ \E e \in Events : RetryDue(e) \/ LeaseEnds(e) \/ Resend(e)
    \/ \E S \in SUBSET Events : Cleanup(S)

OrderStep ==
    \/ \E p \in Procs : Call(p) \/ Statement(p) \/ Abort(p)
    \/ \E o \in Orders : Lapse(o)

OrderEventsNext ==
    \/ \E p \in Procs : CommitAndReport(p)
    \/ OrderStep /\ UNCHANGED << outboxVars, dropped >>
    \/ Dispatch /\ UNCHANGED << vars, dropped >>

OrderEventsInit == Init /\ OutboxInit /\ dropped = {}

\* The fairness of both parts.
OrderEventsSpec ==
    /\ OrderEventsInit /\ [][OrderEventsNext]_orderEventVars
    /\ CronFairness /\ DispatchFairness /\ ResendsEnd

-----------------------------------------------------------------------------
Settled(e) == row[e].status \in {"delivered", "failed", "gone"}

\* An order that was created is reported, and so is its cancellation or expiry, but for an
\* event that could not be inserted: no crash between the commit, the kick and the answer of the
\* agent loses one that was; it is delivered or, after the last retry, listed as failed.
ChangesAreReported ==
    \A o \in Orders :
        /\ order[o].live ~> Created[o] \in dropped \/ Settled(Created[o])
        /\ order[o].status \in Released ~> Resolved[o] \in dropped \/ Settled(Resolved[o])
=============================================================================
