------------------------- MODULE AgentOutboxProofs -------------------------
(***************************************************************************)
(* The outbox for any number of events and workers and any batch size.  A  *)
(* row that a worker holds is claimed by nobody else until the worker has   *)
(* made as many requests as a lease covers; from then on its rows are late. *)
(***************************************************************************)
EXTENDS AgentOutbox, TLAPS

\* The row of the open request is still in the batch, and was not claimed too often.
BatchOK(u) ==
    /\ u.now # NoEvent => u.now \in u.batch
    /\ \A e \in Events : u.seen[e] <= Retries

BaseInv ==
    /\ OutboxTypeOK
    /\ \A e \in Events : row[e].status \in {"pending", "sending"} => row[e].attempts <= Retries
    /\ \A w \in Workers : BatchOK(worker[w])

\* A worker that has used up its lease holds late rows only.
Overrun == \A w \in Workers : worker[w].spent >= LeaseCovers => worker[w].batch \subseteq late

\* Any other row that is held is under a lease that has not ended, and held once.
HeldOK == \A w \in Workers : \A e \in worker[w].batch \ late : row[e].status = "sending" /\ ~row[e].due

Disjoint == \A w, u \in Workers : w # u => worker[w].batch \cap worker[u].batch \subseteq late

LeaseInv == Overrun /\ HeldOK /\ Disjoint

-----------------------------------------------------------------------------
LEMMA InitBase == OutboxInit => BaseInv /\ LeaseInv
<1> SUFFICES ASSUME OutboxInit PROVE BaseInv /\ LeaseInv
    OBVIOUS
<1>1. OutboxTypeOK
    BY AgentOutboxAssumption DEF OutboxInit, OutboxTypeOK, OutboxRows, RowStatuses, WorkerStates, IdleWorker, Between, Replies
<1>2. BatchOK(IdleWorker)
    BY AgentOutboxAssumption DEF BatchOK, IdleWorker, Between
<1> QED
    BY <1>1, <1>2 DEF OutboxInit, BaseInv, LeaseInv, Overrun, HeldOK, Disjoint, IdleWorker, Between

-----------------------------------------------------------------------------
(* One worker's step: its new record, and what the others see of it.        *)

\* A finished row leaves the batch; if the lease is used up, the rest of it is late.
LEMMA BatchShrinks ==
    ASSUME BaseInv, NEW w \in Workers, NEW e \in worker[w].batch,
           NEW spent \in {worker[w].spent, worker[w].spent + 1}, NextInBatch(w, e, spent)
    PROVE  /\ worker' \in [Workers -> WorkerStates]
           /\ \A u \in Workers : BatchOK(worker'[u])
           /\ \A u \in Workers : worker'[u].batch \subseteq worker[u].batch
           /\ e \notin worker'[w].batch
           /\ late' \in SUBSET Events /\ late \subseteq late'
           /\ Overrun => Overrun'
<1> DEFINE old == worker[w]
           rest == old.batch \ {e}
           next == [ batch |-> rest, now |-> NoEvent, reply |-> "none", seen |-> old.seen, spent |-> spent ]
<1>1. old \in WorkerStates /\ worker \in [Workers -> WorkerStates] /\ BatchOK(old) /\ old.spent \in Nat
    BY DEF BaseInv, OutboxTypeOK, WorkerStates
<1>2. next \in WorkerStates /\ IdleWorker \in WorkerStates
    <2>1. rest \in SUBSET Events /\ spent \in Nat
        BY <1>1 DEF WorkerStates
    <2>2. IdleWorker \in WorkerStates
        BY AgentOutboxAssumption DEF WorkerStates, IdleWorker, Between, Replies
    <2>3. old.seen \in [Events -> 0 .. Retries + 1]
        BY <1>1 DEF WorkerStates
    <2> HIDE DEF rest, old
    <2> QED
        BY <2>1, <2>2, <2>3 DEF WorkerStates, Replies
<1>4. BatchOK(next)
    BY <1>1 DEF BatchOK, WorkerStates
<1>5. BatchOK(IdleWorker)
    BY AgentOutboxAssumption DEF BatchOK, IdleWorker, Between
<1>6. worker' = [worker EXCEPT ![w] = IF rest = {} THEN IdleWorker ELSE next]
    BY DEF NextInBatch, Between
<1>7. worker'[w] \in {IdleWorker, next} /\ \A u \in Workers \ {w} : worker'[u] = worker[u]
    BY <1>1, <1>6
<1>8. worker' \in [Workers -> WorkerStates]
    BY <1>1, <1>2, <1>6
<1>9. IdleWorker.batch = {} /\ next.batch = rest /\ next.spent = spent
    BY <1>1 DEF IdleWorker, Between, WorkerStates
<1>10. late' = (IF spent >= LeaseCovers THEN late \cup rest ELSE late) /\ rest \subseteq Events
    BY <1>1 DEF NextInBatch, WorkerStates
<1>11. late' \in SUBSET Events /\ late \subseteq late'
    BY <1>10 DEF BaseInv, OutboxTypeOK
<1> HIDE DEF next, rest
<1>12. \A u \in Workers : BatchOK(worker'[u])
    BY <1>4, <1>5, <1>7 DEF BaseInv
<1>13. Overrun => Overrun'
    BY <1>7, <1>9, <1>10, <1>11 DEF Overrun
<1> QED
    BY <1>7, <1>8, <1>9, <1>11, <1>12, <1>13 DEF rest

\* The row of an event after a result, whatever its worker believed.
LEMMA RowWritten ==
    ASSUME BaseInv, NEW w \in Workers, NEW e \in Events, NEW status \in {"delivered", "failed", "pending"},
           Write(e, status, worker[w].seen[e] + 1),
           status = "pending" => worker[w].seen[e] + 1 <= Retries
    PROVE  /\ row' \in [Events -> OutboxRows]
           /\ \A f \in Events : row'[f].status \in {"pending", "sending"} => row'[f].attempts <= Retries
           /\ \A f \in Events \ {e} : row'[f] = row[f]
           /\ row'[e].status = status
<1>1. worker[w].seen[e] \in Nat /\ worker[w].seen[e] <= Retries /\ Retries \in Nat
    BY AgentOutboxAssumption DEF BaseInv, OutboxTypeOK, WorkerStates, BatchOK
<1>2. worker[w].seen[e] + 1 \in 0 .. Retries + 1
    BY <1>1
<1> DEFINE n == worker[w].seen[e] + 1
<1>3. row \in [Events -> OutboxRows]
    BY DEF BaseInv, OutboxTypeOK
<1>4. row' = [row EXCEPT ![e].status = status, ![e].attempts = n,
                         ![e].due = IF status = "pending" THEN FALSE ELSE @]
    BY DEF Write
<1>5. n \in 0 .. Retries + 1 /\ (status = "pending" => n <= Retries)
    BY <1>2
<1> HIDE DEF n
<1> QED
    BY <1>3, <1>4, <1>5 DEF OutboxRows, RowStatuses, BaseInv

-----------------------------------------------------------------------------
\* A claim takes rows whose lease is over, which nobody holds.
LEMMA ClaimStep ==
    ASSUME BaseInv, NEW w \in Workers, Claim(w)
    PROVE  BaseInv' /\ (LeaseInv => LeaseInv')
<1> DEFINE seen == [ e \in Events |-> IF e \in DueBatch THEN row[e].attempts ELSE 0 ]
           u == [ batch |-> DueBatch, now |-> NoEvent, reply |-> "none", seen |-> seen, spent |-> 0 ]
<1>1. DueBatch \in SUBSET Events /\ \A e \in DueBatch : Claimable(e)
    BY DEF DueBatch
<1>2. worker' = [worker EXCEPT ![w] = u]
    BY DEF Claim, Between
<1>3. \A e \in Events : seen[e] \in 0 .. Retries + 1 /\ seen[e] <= Retries
    BY <1>1, AgentOutboxAssumption DEF BaseInv, OutboxTypeOK, OutboxRows, Claimable
<1>4. row' = [ e \in Events |-> IF e \in DueBatch
                               THEN [row[e] EXCEPT !.status = "sending", !.due = FALSE] ELSE row[e] ]
      /\ row \in [Events -> OutboxRows]
    BY DEF Claim, BaseInv, OutboxTypeOK
<1>5. \A e \in Events : row[e] \in OutboxRows
                        /\ (row[e].status \in {"pending", "sending"} => row[e].attempts <= Retries)
    BY DEF BaseInv, OutboxTypeOK
<1>6. seen \in [Events -> 0 .. Retries + 1]
    BY <1>3
<1> HIDE DEF seen
<1>7. u \in WorkerStates
    BY <1>1, <1>6 DEF WorkerStates, Replies
<1>8. BatchOK(u)
    BY <1>3 DEF BatchOK
<1>9. u.batch = DueBatch /\ ~(u.spent >= LeaseCovers) /\ worker \in [Workers -> WorkerStates]
    BY AgentOutboxAssumption DEF BaseInv, OutboxTypeOK
<1> HIDE DEF u
<1>10. worker' \in [Workers -> WorkerStates] /\ worker'[w] = u
       /\ \A v \in Workers \ {w} : worker'[v] = worker[v]
    BY <1>2, <1>7, <1>9
<1>11. row' \in [Events -> OutboxRows]
       /\ \A e \in Events : row'[e].status \in {"pending", "sending"} => row'[e].attempts <= Retries
    BY <1>1, <1>4, <1>5 DEF OutboxRows, RowStatuses, Claimable
<1>12. BaseInv'
    <2>1. OutboxTypeOK'
        BY <1>10, <1>11 DEF Claim, BaseInv, OutboxTypeOK
    <2>2. \A v \in Workers : BatchOK(worker'[v])
        BY <1>8, <1>10 DEF BaseInv
    <2> QED
        BY <2>1, <2>2, <1>11 DEF BaseInv, BatchOK
<1>13. ASSUME LeaseInv PROVE LeaseInv'
    <2>1. \A e \in DueBatch : row[e].due /\ row'[e].status = "sending" /\ ~row'[e].due
        BY <1>1, <1>4, <1>5 DEF Claimable, OutboxRows
    <2>2. \A e \in Events \ DueBatch : row'[e] = row[e]
        BY <1>4
    <2>3. \A v \in Workers : worker[v].batch \cap DueBatch \subseteq late
        BY <1>13, <2>1 DEF LeaseInv, HeldOK
    <2>4. \A v \in Workers : worker[v].batch \subseteq Events
        BY DEF BaseInv, OutboxTypeOK, WorkerStates
    <2>5. late' = late
        BY DEF Claim
    <2>6. Overrun'
        BY <1>9, <1>10, <1>13, <2>5 DEF LeaseInv, Overrun
    <2>7. HeldOK' /\ Disjoint'
        BY <1>9, <1>10, <1>13, <2>1, <2>2, <2>3, <2>4, <2>5 DEF LeaseInv, HeldOK, Disjoint
    <2> QED
        BY <2>6, <2>7 DEF LeaseInv
<1> QED
    BY <1>12, <1>13

\* A step that changes only what w knows of its request.
LEMMA RequestStep ==
    ASSUME BaseInv, NEW w \in Workers, NEW e \in Events, Post(w, e) \/ Fetched(w, e)
    PROVE  BaseInv' /\ (LeaseInv => LeaseInv')
<1>1. worker \in [Workers -> WorkerStates] /\ worker[w] \in WorkerStates /\ BatchOK(worker[w])
    BY DEF BaseInv, OutboxTypeOK
<1>2. /\ worker' \in [Workers -> WorkerStates]
      /\ \A v \in Workers \ {w} : worker'[v] = worker[v]
      /\ worker'[w].batch = worker[w].batch /\ worker'[w].now \in worker[w].batch
      /\ worker'[w].seen = worker[w].seen /\ worker'[w].spent = worker[w].spent
    <2>1. CASE Post(w, e)
        BY <1>1, <2>1 DEF Post, WorkerStates
    <2>2. CASE Fetched(w, e)
        <3>1. worker[w].now = e /\ e \in worker[w].batch
            BY <1>1, <2>2, AgentOutboxAssumption DEF Fetched, Sending, BatchOK
        <3>2. PICK reply \in Replies : worker' = [worker EXCEPT ![w].reply = reply]
            BY <2>2 DEF Fetched
        <3> QED
            BY <1>1, <3>1, <3>2 DEF WorkerStates
    <2> QED
        BY <2>1, <2>2
<1>3. \A v \in Workers : BatchOK(worker'[v]) /\ worker'[v].batch = worker[v].batch
    BY <1>2 DEF BaseInv, BatchOK
<1>4. row' = row /\ late' = late /\ received' \in SUBSET Events
    BY DEF Post, Fetched, BaseInv, OutboxTypeOK
<1> QED
    BY <1>2, <1>3, <1>4 DEF BaseInv, OutboxTypeOK, BatchOK, LeaseInv, Overrun, HeldOK, Disjoint

\* The result of a row is written by the worker that holds it.
LEMMA ResultStep ==
    ASSUME BaseInv, NEW w \in Workers, NEW e \in Events, Record(w, e) \/ RefuseOversized(w, e)
    PROVE  BaseInv' /\ (LeaseInv => LeaseInv') /\ e \in worker[w].batch
           /\ \A f \in Events \ {e} : row'[f] = row[f]
<1>1. worker[w] \in WorkerStates /\ BatchOK(worker[w])
    BY DEF BaseInv, OutboxTypeOK
<1>2. worker[w].seen[e] \in Nat /\ Retries \in Nat
    BY <1>1, AgentOutboxAssumption DEF WorkerStates
<1>3. PICK status \in {"delivered", "failed", "pending"}, spent \in {worker[w].spent, worker[w].spent + 1} :
        /\ e \in worker[w].batch /\ received' = received
        /\ Write(e, status, worker[w].seen[e] + 1) /\ NextInBatch(w, e, spent)
        /\ status = "pending" => worker[w].seen[e] + 1 <= Retries
    <2>1. CASE Record(w, e)
        <3> DEFINE n == worker[w].seen[e] + 1
                   s == StatusAfter(worker[w].reply, n)
        <3>1. e \in worker[w].batch
            BY <1>1, <2>1, AgentOutboxAssumption DEF Record, BatchOK
        <3>2. s \in {"delivered", "failed", "pending"} /\ (s = "pending" => n <= Retries)
            BY <1>2 DEF StatusAfter
        <3>3. Write(e, s, n) /\ NextInBatch(w, e, worker[w].spent + 1) /\ received' = received
            BY <2>1 DEF Record
        <3> QED
            BY <3>1, <3>2, <3>3
    <2>2. CASE RefuseOversized(w, e)
        BY <2>2 DEF RefuseOversized
    <2> QED
        BY <2>1, <2>2
<1>4. /\ worker' \in [Workers -> WorkerStates]
      /\ \A u \in Workers : BatchOK(worker'[u]) /\ worker'[u].batch \subseteq worker[u].batch
      /\ e \notin worker'[w].batch
      /\ late' \in SUBSET Events /\ late \subseteq late' /\ (Overrun => Overrun')
    BY <1>3, BatchShrinks
<1>5. /\ row' \in [Events -> OutboxRows]
      /\ \A f \in Events : row'[f].status \in {"pending", "sending"} => row'[f].attempts <= Retries
      /\ \A f \in Events \ {e} : row'[f] = row[f]
    BY <1>3, RowWritten
<1>6. BaseInv'
    BY <1>3, <1>4, <1>5 DEF BaseInv, OutboxTypeOK, BatchOK
<1>7. ASSUME LeaseInv PROVE LeaseInv'
    <2>1. \A u \in Workers : e \notin worker'[u].batch \ late' /\ worker'[u].batch \subseteq Events
        BY <1>3, <1>4, <1>7 DEF LeaseInv, Disjoint, WorkerStates
    <2>2. HeldOK' /\ Disjoint'
        BY <1>4, <1>5, <1>7, <2>1 DEF LeaseInv, HeldOK, Disjoint
    <2> QED
        BY <1>4, <1>7, <2>2 DEF LeaseInv
<1> QED
    BY <1>3, <1>5, <1>6, <1>7

LEMMA StopStep ==
    ASSUME BaseInv, NEW w \in Workers, Stop(w)
    PROVE  BaseInv' /\ (LeaseInv => LeaseInv')
<1>1. IdleWorker \in WorkerStates /\ IdleWorker.batch = {} /\ IdleWorker.now = NoEvent
    BY AgentOutboxAssumption DEF WorkerStates, IdleWorker, Between, Replies
<1>2. BatchOK(IdleWorker)
    BY AgentOutboxAssumption DEF BatchOK, IdleWorker, Between
<1>3. worker' \in [Workers -> WorkerStates] /\ worker'[w] = IdleWorker
      /\ \A u \in Workers \ {w} : worker'[u] = worker[u]
    BY <1>1 DEF Stop, BaseInv, OutboxTypeOK
<1>4. row' = row /\ received' = received /\ late' = late
    BY DEF Stop
<1> HIDE DEF IdleWorker
<1> QED
    BY <1>1, <1>2, <1>3, <1>4 DEF BaseInv, OutboxTypeOK, BatchOK, LeaseInv, Overrun, HeldOK, Disjoint

-----------------------------------------------------------------------------
(* Steps of nobody's worker.                                                *)

\* A row that is rewritten outside of the workers was held by none of them, or is late.
LEMMA FreeRowStep ==
    ASSUME BaseInv, row' \in [Events -> OutboxRows], UNCHANGED << worker, received, late >>,
           \A e \in Events : row'[e].status \in {"pending", "sending"} => row'[e].attempts <= Retries
    PROVE  /\ BaseInv'
           /\ LeaseInv /\ (\A w \in Workers : \A e \in worker[w].batch \ late : row'[e] = row[e])
              => LeaseInv'
    BY DEF BaseInv, OutboxTypeOK, BatchOK, LeaseInv, Overrun, HeldOK, Disjoint

LEMMA RowStep ==
    ASSUME BaseInv, NEW e \in Events, Enqueue(e) \/ RetryDue(e) \/ LeaseEnds(e) \/ Resend(e)
    PROVE  BaseInv' /\ (LeaseInv => LeaseInv')
           /\ (row[e].status = "delivered" => row'[e].status = "delivered")
           /\ \A f \in Events \ {e} : row'[f] = row[f]
<1>1. row \in [Events -> OutboxRows] /\ row[e] \in OutboxRows
      /\ \A f \in Events : row[f].status \in {"pending", "sending"} => row[f].attempts <= Retries
    BY DEF BaseInv, OutboxTypeOK
<1>2. /\ row' \in [Events -> OutboxRows]
      /\ \A f \in Events : row'[f].status \in {"pending", "sending"} => row'[f].attempts <= Retries
      /\ \A f \in Events \ {e} : row'[f] = row[f]
      /\ row[e].status = "delivered" => row'[e].status = "delivered"
    <2>1. PICK r \in OutboxRows :
            /\ row' = [row EXCEPT ![e] = r]
            /\ r.status \in {"pending", "sending"} => r.attempts <= Retries
            /\ row[e].status # "delivered"
        <3>1. CASE Enqueue(e) \/ Resend(e)
            <4> DEFINE r == [ status |-> "pending", attempts |-> 0, due |-> TRUE ]
            <4>1. r \in OutboxRows /\ r.attempts <= Retries
                BY AgentOutboxAssumption DEF OutboxRows, RowStatuses
            <4>2. row' = [row EXCEPT ![e] = r] /\ row[e].status # "delivered"
                BY <3>1 DEF Enqueue, Resend
            <4> QED
                BY <4>1, <4>2
        <3>2. CASE RetryDue(e) \/ LeaseEnds(e)
            <4> DEFINE r == [ status |-> row[e].status, attempts |-> row[e].attempts, due |-> TRUE ]
            <4>1. r \in OutboxRows /\ row' = [row EXCEPT ![e] = r]
                BY <1>1, <3>2 DEF RetryDue, LeaseEnds, OutboxRows
            <4>2. row[e].status # "delivered" /\ (r.status \in {"pending", "sending"} => r.attempts <= Retries)
                BY <1>1, <3>2 DEF RetryDue, LeaseEnds
            <4> QED
                BY <4>1, <4>2
        <3> QED
            BY <3>1, <3>2
    <2> QED
        BY <1>1, <2>1
<1>3. UNCHANGED << worker, received, late >>
    BY DEF Enqueue, RetryDue, LeaseEnds, Resend
<1>4. ASSUME LeaseInv, NEW w \in Workers PROVE e \notin worker[w].batch \ late
    <2>1. CASE LeaseEnds(e)
        BY <1>4, <2>1 DEF LeaseEnds, LeaseOver, LeaseInv, Overrun
    <2>2. CASE row[e].status # "sending"
        BY <1>4, <2>2 DEF LeaseInv, HeldOK
    <2> QED
        BY <2>1, <2>2 DEF Enqueue, RetryDue, Resend
<1>5. \A w \in Workers : worker[w].batch \subseteq Events
    BY DEF BaseInv, OutboxTypeOK, WorkerStates
<1> QED
    BY <1>2, <1>3, <1>4, <1>5, FreeRowStep

LEMMA CleanupStep ==
    ASSUME BaseInv, NEW S \in SUBSET Events, Cleanup(S)
    PROVE  BaseInv' /\ (LeaseInv => LeaseInv')
           /\ \A e \in Events : row'[e].status \in {row[e].status, "gone"}
<1>1. row \in [Events -> OutboxRows] /\ \A e \in Events : row[e] \in OutboxRows
      /\ (row[e].status \in {"pending", "sending"} => row[e].attempts <= Retries)
    BY DEF BaseInv, OutboxTypeOK
<1>2. row' = [ e \in Events |-> IF e \in S THEN [row[e] EXCEPT !.status = "gone"] ELSE row[e] ]
      /\ \A e \in S : row[e].status \in {"delivered", "failed"}
    BY DEF Cleanup
<1>3. /\ row' \in [Events -> OutboxRows]
      /\ \A e \in Events : row'[e].status \in {"pending", "sending"} => row'[e].attempts <= Retries
      /\ \A e \in Events : row'[e].status \in {row[e].status, "gone"}
      /\ \A e \in Events : row[e].status = "sending" => row'[e] = row[e]
    BY <1>1, <1>2 DEF OutboxRows, RowStatuses
<1>4. UNCHANGED << worker, received, late >>
    BY DEF Cleanup
<1>5. \A w \in Workers : worker[w].batch \subseteq Events
    BY DEF BaseInv, OutboxTypeOK, WorkerStates
<1>6. LeaseInv => \A w \in Workers : \A e \in worker[w].batch \ late : row'[e] = row[e]
    BY <1>3, <1>5 DEF LeaseInv, HeldOK
<1> QED
    BY <1>3, <1>4, <1>6, FreeRowStep

-----------------------------------------------------------------------------
LEMMA NextStep ==
    ASSUME BaseInv, [OutboxNext]_outboxVars
    PROVE  BaseInv' /\ (LeaseInv => LeaseInv')
<1>1. CASE UNCHANGED outboxVars
    BY <1>1 DEF outboxVars, BaseInv, OutboxTypeOK, BatchOK, LeaseInv, Overrun, HeldOK, Disjoint
<1>2. ASSUME NEW w \in Workers, Claim(w) PROVE BaseInv' /\ (LeaseInv => LeaseInv')
    BY <1>2, ClaimStep
<1>3. ASSUME NEW w \in Workers, Stop(w) PROVE BaseInv' /\ (LeaseInv => LeaseInv')
    BY <1>3, StopStep
<1>4. ASSUME NEW w \in Workers, NEW e \in Events, Deliver(w, e)
      PROVE BaseInv' /\ (LeaseInv => LeaseInv')
    BY <1>4, RequestStep, ResultStep DEF Deliver
<1>5. ASSUME NEW e \in Events, Enqueue(e) \/ RetryDue(e) \/ LeaseEnds(e) \/ Resend(e)
      PROVE BaseInv' /\ (LeaseInv => LeaseInv')
    BY <1>5, RowStep
<1>6. ASSUME NEW S \in SUBSET Events, Cleanup(S) PROVE BaseInv' /\ (LeaseInv => LeaseInv')
    BY <1>6, CleanupStep
<1> QED
    BY <1>1, <1>2, <1>3, <1>4, <1>5, <1>6 DEF OutboxNext

LEMMA AlwaysBase == OutboxSpec => []BaseInv
<1>1. OutboxInit => BaseInv
    BY InitBase
<1>2. BaseInv /\ [OutboxNext]_outboxVars => BaseInv'
    BY NextStep
<1> QED
    BY <1>1, <1>2, PTL DEF OutboxSpec

LEMMA AlwaysLease == OutboxSpec => []LeaseInv
<1>1. OutboxInit => LeaseInv
    BY InitBase
<1>2. BaseInv /\ LeaseInv /\ [OutboxNext]_outboxVars => LeaseInv'
    BY NextStep
<1> QED
    BY <1>1, <1>2, AlwaysBase, PTL DEF OutboxSpec

\* Rows, workers and counters keep their types: deliver gives up after the last of
\* AGENT_RETRY_DELAYS_MS, so that attempts stays within bounds.
THEOREM OutboxTypeSafety == OutboxSpec => []OutboxTypeOK
<1>1. BaseInv => OutboxTypeOK
    BY DEF BaseInv
<1> QED
    BY <1>1, AlwaysBase, PTL

\* claimDue and deliver: however large the batches are, two workers send one event at once
\* only if it has once waited in a batch for longer than a lease covers.
THEOREM OneSenderAtATime == OutboxSpec => []OnTimeIsSentOnce
<1>1. BaseInv /\ LeaseInv => OnTimeIsSentOnce
    BY DEF BaseInv, BatchOK, LeaseInv, Disjoint, OnTimeIsSentOnce
<1> QED
    BY <1>1, AlwaysBase, AlwaysLease, PTL

\* The final update of deliver, by id and without a guard, takes a delivered event back only
\* if that event has once waited in a batch for longer than a lease covers.
THEOREM DeliveriesAreFinal == OutboxSpec => OnTimeStaysDelivered
<1> DEFINE Kept == \A e \in Events \ late : row[e].status = "delivered" =>
                                    row'[e].status \in {"delivered", "gone"}
<1>1. BaseInv /\ LeaseInv /\ [OutboxNext]_outboxVars => [Kept]_row
    <2> SUFFICES ASSUME BaseInv, LeaseInv, OutboxNext PROVE [Kept]_row
        BY DEF outboxVars
    <2>1. ASSUME NEW w \in Workers, Claim(w) PROVE Kept
        <3>1. \A e \in DueBatch : row[e].status # "delivered"
            BY DEF DueBatch, Claimable
        <3>2. \A e \in Events \ DueBatch : row'[e] = row[e]
            BY <2>1 DEF Claim
        <3> QED
            BY <3>1, <3>2
    <2>2. ASSUME NEW w \in Workers, Stop(w) PROVE row' = row
        BY <2>2 DEF Stop
    <2>3. ASSUME NEW w \in Workers, NEW e \in Events, Deliver(w, e) PROVE [Kept]_row
        <3>1. CASE Post(w, e) \/ Fetched(w, e)
            BY <3>1 DEF Post, Fetched
        <3>2. CASE Record(w, e) \/ RefuseOversized(w, e)
            <4>1. e \in late \/ row[e].status = "sending"
                BY <3>2, ResultStep DEF LeaseInv, HeldOK
            <4>2. \A f \in Events \ {e} : row'[f] = row[f]
                BY <3>2, ResultStep
            <4> QED
                BY <4>1, <4>2
        <3> QED
            BY <2>3, <3>1, <3>2 DEF Deliver
    <2>4. ASSUME NEW e \in Events, Enqueue(e) \/ RetryDue(e) \/ LeaseEnds(e) \/ Resend(e) PROVE Kept
        BY <2>4, RowStep
    <2>5. ASSUME NEW S \in SUBSET Events, Cleanup(S) PROVE Kept
        BY <2>5, CleanupStep
    <2> QED
        BY <2>1, <2>2, <2>3, <2>4, <2>5 DEF OutboxNext
<1>2. OnTimeStaysDelivered <=> [][Kept]_row
    BY DEF OnTimeStaysDelivered
<1> QED
    BY <1>1, <1>2, AlwaysBase, AlwaysLease, PTL DEF OutboxSpec
=============================================================================
