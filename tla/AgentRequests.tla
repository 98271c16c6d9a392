---------------------------- MODULE AgentRequests ----------------------------
(***************************************************************************)
(* AgentApiService.idempotent: the writes of the AI agent on one order, each*)
(* under an Idempotency-Key.  The key is looked up, the write runs, and the *)
(* response is stored, in three steps.                                      *)
(***************************************************************************)
EXTENDS Naturals

CONSTANTS
    AgentKeys,   \* idempotency keys
    AgentCalls,  \* calls that may overlap
    MostRuns     \* bound on the runs under one key

ASSUME AgentAssumption == MostRuns \in Nat \ {0, 1}

VARIABLES
    agentOrder,  \* the status of the order
    agentLog,    \* the AgentRequest rows: key -> endpoint
    agentCall,   \* the calls in progress
    ran,         \* history: how often each key has run since cleanup took its row
    disturbed    \* history: the keys with an overlap or a stop before the row was stored

agentVars == << agentOrder, agentLog, agentCall, ran, disturbed >>

\* AGENT_ALLOWED_STATUSES, and the steps to them that assertTransition allows.
AgentSteps == { << "PENDING", "CONFIRMED" >>, << "CONFIRMED", "PROCESSING" >>,
                << "PROCESSING", "SHIPPED" >>, << "SHIPPED", "DELIVERED" >>,
                << "PAID", "CONFIRMED" >>, << "PAID", "PROCESSING" >>, << "PAID", "SHIPPED" >>,
                << "PENDING", "CANCELLED" >>, << "CONFIRMED", "CANCELLED" >>,
                << "PROCESSING", "CANCELLED" >> }
AgentStatuses == {"CONFIRMED", "PROCESSING", "SHIPPED", "DELIVERED", "CANCELLED"}

\* The endpoint holds the order and the status asked for.
Endpoints == AgentStatuses \cup {"note"}

AgentCallStates == [ pc : {"idle", "run", "store"}, key : AgentKeys, endpoint : Endpoints ]

AgentTypeOK ==
    /\ agentOrder \in {"PENDING", "PAID"} \cup AgentStatuses
    /\ agentLog \in [AgentKeys -> Endpoints \cup {"none"}]
    /\ agentCall \in [AgentCalls -> AgentCallStates]
    /\ ran \in [AgentKeys -> 0 .. MostRuns]
    /\ disturbed \in SUBSET AgentKeys

AgentInit ==
    /\ agentOrder \in {"PENDING", "PAID"}
    /\ agentLog = [ k \in AgentKeys |-> "none" ]
    /\ agentCall \in [AgentCalls -> { [ pc |-> "idle", key |-> k, endpoint |-> "note" ] : k \in AgentKeys }]
    /\ ran = [ k \in AgentKeys |-> 0 ] /\ disturbed = {}

-----------------------------------------------------------------------------
\* The stored response, or a conflict if the endpoint is another one, is the answer.
UsedKey(k) == agentLog[k] # "none"

LookUp(c, k, endpoint) ==
    /\ agentCall[c].pc = "idle" /\ ~UsedKey(k)
    /\ agentCall' = [agentCall EXCEPT ![c] = [ pc |-> "run", key |-> k, endpoint |-> endpoint ]]
    /\ disturbed' = IF \E d \in AgentCalls : agentCall[d].pc # "idle" /\ agentCall[d].key = k
                    THEN disturbed \cup {k} ELSE disturbed
    /\ UNCHANGED << agentOrder, agentLog, ran >>

RunWrite(c) ==
    LET k == agentCall[c].key IN
    /\ agentCall[c].pc = "run" /\ ran[k] < MostRuns
    /\ ran' = [ran EXCEPT ![k] = @ + 1]
    /\ agentCall' = [agentCall EXCEPT ![c].pc = "store"]
    /\ UNCHANGED << agentLog, disturbed >>

\* addNote
AddNote(c) == agentCall[c].endpoint = "note" /\ RunWrite(c) /\ UNCHANGED agentOrder

\* updateStatus; the statuses that move money are refused before.
AgentTransition(c) ==
    LET to == agentCall[c].endpoint IN
    /\ << agentOrder, to >> \in AgentSteps
    /\ RunWrite(c) /\ agentOrder' = to

\* create; a unique key that is there already is left alone.
Store(c) ==
    LET r == agentCall[c] IN
    /\ r.pc = "store"
    /\ agentLog' = [agentLog EXCEPT ![r.key] = IF @ = "none" THEN r.endpoint ELSE @]
    /\ agentCall' = [agentCall EXCEPT ![c].pc = "idle"]
    /\ UNCHANGED << agentOrder, ran, disturbed >>

\* A transition that is refused, an exception, or a stop of the process.
AgentStops(c) ==
    LET r == agentCall[c] IN
    /\ r.pc # "idle"
    /\ agentCall' = [agentCall EXCEPT ![c].pc = "idle"]
    /\ disturbed' = IF r.pc = "store" THEN disturbed \cup {r.key} ELSE disturbed
    /\ UNCHANGED << agentOrder, agentLog, ran >>

\* cleanup: the row is a week old and goes; the key is a new one again.
ForgetKey(k) ==
    /\ UsedKey(k)
    /\ agentLog' = [agentLog EXCEPT ![k] = "none"] /\ ran' = [ran EXCEPT ![k] = 0]
    /\ UNCHANGED << agentOrder, agentCall, disturbed >>

AgentNext ==
    \/ \E k \in AgentKeys : ForgetKey(k)
    \/ \E c \in AgentCalls :
        \/ \E k \in AgentKeys, endpoint \in Endpoints : LookUp(c, k, endpoint)
        \/ AddNote(c) \/ AgentTransition(c) \/ Store(c) \/ AgentStops(c)

AgentSpec == AgentInit /\ [][AgentNext]_agentVars

-----------------------------------------------------------------------------
\* A retry of a call that was answered does not run the write again as long as cleanup leaves
\* the row of its key, a week: for any sequence of calls, keys and endpoints.  A key is at
\* risk before that only while its first call is under way.
AnsweredRunsOnce ==
    \A k \in AgentKeys : k \notin disturbed => ran[k] = 1 \/ (ran[k] = 0 /\ ~UsedKey(k))
=============================================================================
