---------------------------- MODULE AgentOutbox ----------------------------
(***************************************************************************)
(* AgentEventsService: the AgentOutbox table and the workers that deliver   *)
(* its rows to the agent.  A worker is one dispatchDue call, of the cron     *)
(* endpoint or of a kick; several run at once.  It claims a batch under a   *)
(* lease and sends it row by row.  A lease is measured in requests: that    *)
(* many of them, each as slow as REQUEST_TIMEOUT_MS allows, are sent and    *)
(* recorded before CLAIM_LEASE_MS ends.                                     *)
(***************************************************************************)
EXTENDS Integers, FiniteSets

CONSTANTS
    Events,       \* ids of the events, numbered by createdAt
    NoEvent,      \* the event of a worker that is not sending
    Oversized,    \* events whose body is larger than MAX_BODY_BYTES
    Workers,      \* dispatchDue calls that may overlap
    Limit,        \* the most rows that a dispatchDue call claims
    LeaseCovers,  \* the requests that fit into a lease
    Retries       \* AGENT_RETRY_DELAYS_MS.length

ASSUME AgentOutboxAssumption ==
    /\ Events \subseteq Nat /\ NoEvent \notin Events
    /\ Oversized \subseteq Events
    /\ Limit \in Nat \ {0} /\ LeaseCovers \in Nat \ {0} /\ Retries \in Nat

VARIABLES
    row,      \* the rows of AgentOutbox
    worker,   \* what each dispatchDue call holds in memory
    received, \* the events that the agent has accepted
    late      \* history: events that waited in a batch for longer than its lease covers

outboxVars == << row, worker, received, late >>

\* "none": not inserted yet; "gone": deleted by cleanup.
RowStatuses == { "none", "pending", "sending", "delivered", "failed", "gone" }

\* due: nextTryAt has passed.
OutboxRows == [ status : RowStatuses, attempts : 0 .. Retries + 1, due : BOOLEAN ]

Replies == { "ok", "rejected", "error" }

WorkerStates ==
    [ batch : SUBSET Events,               \* claimed rows not recorded yet
      now   : Events \cup {NoEvent},       \* the row of the open request
      reply : Replies \cup {"none"},       \* its outcome
      seen  : [Events -> 0 .. Retries + 1], \* row.attempts as it was claimed
      spent : Nat ]                         \* requests made and recorded since the claim

\* A worker between two requests.
Between(batch, seen, spent) == [ batch |-> batch, now |-> NoEvent, reply |-> "none",
                                 seen |-> seen, spent |-> spent ]

IdleWorker == Between({}, [ e \in Events |-> 0 ], 0)

OutboxTypeOK ==
    /\ row \in [Events -> OutboxRows]
    /\ worker \in [Workers -> WorkerStates]
    /\ received \in SUBSET Events
    /\ late \in SUBSET Events

OutboxInit ==
    /\ row = [ e \in Events |-> [ status |-> "none", attempts |-> 0, due |-> FALSE ] ]
    /\ worker = [ w \in Workers |-> IdleWorker ]
    /\ received = {} /\ late = {}

\* The request of e is open.
Sending(w, e) == worker[w].now = e /\ worker[w].reply = "none"

\* The transaction of a business change commits, its event with it.
Enqueue(e) ==
    /\ row[e].status = "none"
    /\ row' = [row EXCEPT ![e] = [ status |-> "pending", attempts |-> 0, due |-> TRUE ]]
    /\ UNCHANGED << worker, received, late >>

-----------------------------------------------------------------------------
(* dispatchDue                                                              *)

\* Mutant: the claim takes pending rows only, never those of a dead worker.
ClaimablePending(e) == row[e].status = "pending" /\ row[e].due

Claimable(e) == row[e].status \in {"pending", "sending"} /\ row[e].due

\* The rows of ORDER BY createdAt LIMIT.
DueBatch ==
    LET C == { e \in Events : Claimable(e) } IN
    { e \in C : Cardinality({ f \in C : f < e }) < Limit }

\* claimDue: one UPDATE; rows that another claim has locked are skipped.
Claim(w) ==
    /\ worker[w] = IdleWorker /\ DueBatch # {}
    /\ row' = [ e \in Events |-> IF e \in DueBatch
                                 THEN [row[e] EXCEPT !.status = "sending", !.due = FALSE]
                                 ELSE row[e] ]
    /\ worker' = [worker EXCEPT ![w] = Between(DueBatch,
                    [ e \in Events |-> IF e \in DueBatch THEN row[e].attempts ELSE 0 ], 0)]
    /\ UNCHANGED << received, late >>

\* deliver: the POST leaves.
Post(w, e) ==
    /\ e \in worker[w].batch \ Oversized /\ worker[w].now = NoEvent
    /\ worker' = [worker EXCEPT ![w].now = e]
    /\ UNCHANGED << row, received, late >>

\* The fetch ends: 2xx, 400 or 401, or anything else.  An answer that is lost may
\* belong to an event that the agent has accepted.
Fetched(w, e) ==
    /\ Sending(w, e)
    /\ \E reply \in Replies :
        /\ worker' = [worker EXCEPT ![w].reply = reply]
        /\ received' \in { received \cup A : A \in IF reply = "ok" THEN {{e}}
                                                  ELSE IF reply = "rejected" THEN {{}}
                                                  ELSE {{}, {e}} }
    /\ UNCHANGED << row, late >>

\* Mutant: one retry more than there are delays.
StatusAfterOneMore(reply, attempts) ==
    IF reply = "ok" THEN "delivered"
    ELSE IF reply = "rejected" \/ attempts > Retries + 1 THEN "failed"
    ELSE "pending"

StatusAfter(reply, attempts) ==
    IF reply = "ok" THEN "delivered"
    ELSE IF reply = "rejected" \/ attempts > Retries THEN "failed"
    ELSE "pending"

\* The worker goes on to the next row of its batch, whether or not its lease covers it.
NextInBatch(w, e, spent) ==
    LET rest == worker[w].batch \ {e} IN
    /\ worker' = [worker EXCEPT ![w] = IF rest = {} THEN IdleWorker
                                       ELSE Between(rest, worker[w].seen, spent)]
    /\ late' = IF spent >= LeaseCovers THEN late \cup rest ELSE late

\* The final update of deliver, by id: nothing repeats the lease or the status.
Write(e, status, attempts) ==
    row' = [row EXCEPT ![e].status = status, ![e].attempts = attempts,
                       ![e].due = IF status = "pending" THEN FALSE ELSE @]

Record(w, e) ==
    LET attempts == worker[w].seen[e] + 1 IN
    /\ worker[w].now = e /\ worker[w].reply # "none"
    /\ row[e].status # "gone"
    /\ Write(e, StatusAfter(worker[w].reply, attempts), attempts)
    /\ NextInBatch(w, e, worker[w].spent + 1)
    /\ UNCHANGED received

\* markFailed without a request.
RefuseOversized(w, e) ==
    /\ e \in worker[w].batch \cap Oversized /\ worker[w].now = NoEvent
    /\ row[e].status # "gone"
    /\ Write(e, "failed", worker[w].seen[e] + 1)
    /\ NextInBatch(w, e, worker[w].spent)
    /\ UNCHANGED received

\* A crash, or an update that throws: its row is gone, or the database is away.
\* The rest of the batch stays claimed.
Stop(w) ==
    /\ worker[w] # IdleWorker
    /\ worker' = [worker EXCEPT ![w] = IdleWorker]
    /\ UNCHANGED << row, received, late >>

-----------------------------------------------------------------------------
(* The clock, the administrator and the clean-up                            *)

RetryDue(e) ==
    /\ row[e].status = "pending" /\ ~row[e].due
    /\ row' = [row EXCEPT ![e].due = TRUE]
    /\ UNCHANGED << worker, received, late >>

\* Mutant: a lease shorter than one request.
LeaseOverAtOnce(e) == TRUE

\* The workers that still hold e have used up its lease.
LeaseOver(e) == \A w \in Workers : e \in worker[w].batch => worker[w].spent >= LeaseCovers

LeaseEnds(e) ==
    /\ row[e].status = "sending" /\ ~row[e].due /\ LeaseOver(e)
    /\ row' = [row EXCEPT ![e].due = TRUE]
    /\ UNCHANGED << worker, received, late >>

Resend(e) ==
    /\ row[e].status = "failed"
    /\ row' = [row EXCEPT ![e] = [ status |-> "pending", attempts |-> 0, due |-> TRUE ]]
    /\ UNCHANGED << worker, received, late >>

\* Old delivered rows (7 days) and old failed rows (30 days), counted from createdAt.
Cleanup(S) ==
    /\ S # {} /\ \A e \in S : row[e].status \in {"delivered", "failed"}
    /\ row' = [ e \in Events |-> IF e \in S THEN [row[e] EXCEPT !.status = "gone"] ELSE row[e] ]
    /\ UNCHANGED << worker, received, late >>

Deliver(w, e) == Post(w, e) \/ Fetched(w, e) \/ Record(w, e) \/ RefuseOversized(w, e)

OutboxNext ==
    \/ \E w \in Workers : Claim(w) \/ Stop(w) \/ \E e \in Events : Deliver(w, e)
    \/ \E e \in Events : Enqueue(e) \/ RetryDue(e) \/ LeaseEnds(e) \/ Resend(e)
    \/ \E S \in SUBSET Events : Cleanup(S)

OutboxSpec == OutboxInit /\ [][OutboxNext]_outboxVars

-----------------------------------------------------------------------------
\* claimDue: "so parallel workers never double-send".  No event is in the open
\* requests of two workers.
NoDoubleSend ==
    \A w, u \in Workers : w # u /\ worker[w].now # NoEvent => worker[w].now # worker[u].now

\* However large the batches are and however often they overrun their lease: the events that a
\* lease covers, the first ones of a batch, are in the open request of one worker at most.
OnTimeIsSentOnce ==
    \A w, u \in Workers :
        w # u /\ worker[w].now = worker[u].now => worker[w].now \in late \cup {NoEvent}

\* deliver writes its result by id: it may put a delivered event back, or mark it failed, only
\* if the event once waited for longer than a lease covers; else only the clean-up takes it away.
OnTimeStaysDelivered ==
    [][ \A e \in Events \ late : row[e].status = "delivered" =>
            row'[e].status \in {"delivered", "gone"} ]_row

\* The cron job keeps dispatching, fetch has a timeout, time passes, and the workers that
\* send a row again and again are not stopped before its result is written each time.
DispatchFairness ==
    /\ SF_outboxVars(\E w \in Workers : Claim(w))
    /\ SF_outboxVars(\E w \in Workers, e \in Events : Post(w, e))
    /\ SF_outboxVars(\E w \in Workers, e \in Events : Fetched(w, e))
    /\ SF_outboxVars(\E w \in Workers, e \in Events : Record(w, e) \/ RefuseOversized(w, e))
    /\ \A e \in Events : WF_outboxVars(RetryDue(e) \/ LeaseEnds(e))

\* claimDue takes the oldest rows first: an administrator who sends old failed events
\* again for ever would keep a younger one from being claimed.
ResendsEnd == <>[][\A e \in Events : ~Resend(e)]_outboxVars
=============================================================================
