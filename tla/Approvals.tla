------------------------------ MODULE Approvals ------------------------------
(***************************************************************************)
(* AutomationService: the decisions of administrators about what a workflow *)
(* wants to do, and the switches of a workflow.  A row is read and checked, *)
(* and updated later by id; the audit log follows.                          *)
(***************************************************************************)
CONSTANTS
    Cases,       \* PendingApproval ids
    NoCase,
    Deciders     \* calls that may overlap

ASSUME ApprovalsAssumption == NoCase \notin Cases

VARIABLES
    caseRow,   \* the PendingApproval rows
    workflow,  \* isActive and trustLevel of the workflow
    decider,   \* the calls in progress
    crossed,   \* history: rows about which two calls overlapped
    verdict    \* history: the first decision that was reported to an administrator

approvalVars == << caseRow, workflow, decider, crossed, verdict >>

Decisions == {"approved", "rejected"}
TrustLevels == {"suggestion_only", "requires_approval", "auto_execute"}
Switches == {"on", "off"}
DeciderStates ==
    [ call : {"none", "decide", "toggle", "trust"},
      x : Cases \cup {NoCase}, to : {"none"} \cup Decisions \cup TrustLevels \cup Switches ]

IdleDecider == [ call |-> "none", x |-> NoCase, to |-> "none" ]

ApprovalsTypeOK ==
    /\ caseRow \in [Cases -> {"pending"} \cup Decisions]
    /\ workflow \in [ active : Switches, trust : TrustLevels ]
    /\ decider \in [Deciders -> DeciderStates]
    /\ crossed \in SUBSET (Cases \cup {NoCase})
    /\ verdict \in [Cases -> {"none"} \cup Decisions]

\* The rows come from the workflow engine.
ApprovalsInit ==
    /\ caseRow = [ x \in Cases |-> "pending" ]
    /\ workflow = [ active |-> "off", trust |-> "suggestion_only" ]
    /\ decider = [ d \in Deciders |-> IdleDecider ]
    /\ crossed = {} /\ verdict = [ x \in Cases |-> "none" ]

-----------------------------------------------------------------------------
Ask(d, call, x, to) ==
    /\ decider[d].call = "none"
    /\ decider' = [decider EXCEPT ![d] = [ call |-> call, x |-> x, to |-> to ]]
    /\ crossed' = IF \E e \in Deciders : decider[e].call # "none" /\ decider[e].x = x
                  THEN crossed \cup {x} ELSE crossed
    /\ UNCHANGED << caseRow, workflow, verdict >>

Answer(d, call) ==
    decider[d].call = call /\ decider' = [decider EXCEPT ![d] = IdleDecider] /\ UNCHANGED crossed

\* Mutant: what is not approved can be decided again.
NotApproved(x) == caseRow[x] # "approved"

Undecided(x) == caseRow[x] = "pending"

\* approvePendingApproval and rejectPendingApproval
DecideRead(d, x, to) == Undecided(x) /\ Ask(d, "decide", x, to)

Decide(d) ==
    LET r == decider[d] IN
    /\ Answer(d, "decide")
    /\ caseRow' = [caseRow EXCEPT ![r.x] = r.to]
    /\ verdict' = [verdict EXCEPT ![r.x] = IF @ = "none" THEN r.to ELSE @]
    /\ UNCHANGED workflow

\* toggleWorkflow: without a value, the opposite of what was read.
ToggleRead(d, to) == Ask(d, "toggle", NoCase, to)

Toggle(d) ==
    /\ Answer(d, "toggle")
    /\ workflow' = [workflow EXCEPT !.active = decider[d].to]
    /\ UNCHANGED << caseRow, verdict >>

TrustRead(d, to) == Ask(d, "trust", NoCase, to)

UpdateTrustLevel(d) ==
    /\ Answer(d, "trust")
    /\ workflow' = [workflow EXCEPT !.trust = decider[d].to]
    /\ UNCHANGED << caseRow, verdict >>

AskerLeaves(d) ==
    /\ decider[d].call # "none" /\ Answer(d, decider[d].call)
    /\ UNCHANGED << caseRow, workflow, verdict >>

ApprovalsNext ==
    \E d \in Deciders :
        \/ \E x \in Cases, to \in Decisions : DecideRead(d, x, to)
        \/ \E to \in Switches : ToggleRead(d, to)
        \/ \E to \in TrustLevels : TrustRead(d, to)
        \/ Decide(d) \/ Toggle(d) \/ UpdateTrustLevel(d) \/ AskerLeaves(d)

ApprovalsSpec == ApprovalsInit /\ [][ApprovalsNext]_approvalVars

-----------------------------------------------------------------------------
\* "Pending approval has already been resolved": what one administrator was told is what
\* stays on record, whoever asks later; only two calls about one row that overlap can both
\* be told that theirs was the decision.
DecisionStands ==
    \A x \in Cases \ crossed : verdict[x] # "none" => caseRow[x] = verdict[x]
=============================================================================
