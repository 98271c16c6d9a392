----------------------------- MODULE StoreProofs -----------------------------
(***************************************************************************)
(* The services around the store, each for any number of overlapping calls: *)
(* approvals, the agent's requests, maintenance mode, the catalogue, the    *)
(* inbox, edits of variants and products, checkouts' amounts, the back      *)
(* office, the seed and the limit of trackOrder; and all of them together.  *)
(***************************************************************************)
EXTENDS MCStore, OrderLedgerProofs, AgentOutboxProofs, FiniteSetTheorems, SequenceTheorems, TLAPS

-----------------------------------------------------------------------------
(* Approvals.  Unless two calls about a row have overlapped, the call that  *)
(* is about to decide it is the only one, and finds it as it was read.      *)

DeciderOK(r) ==
    /\ r.call = "decide" => r.x \in Cases /\ r.to \in Decisions
    /\ r.call = "toggle" => r.to \in Switches
    /\ r.call = "trust"  => r.to \in TrustLevels

ApprovalsInv ==
    /\ ApprovalsTypeOK
    /\ \A d \in Deciders : DeciderOK(decider[d])
    /\ \A d, e \in Deciders :
         d # e /\ decider[d].call # "none" /\ decider[e].call # "none" /\ decider[d].x = decider[e].x
           => decider[d].x \in crossed
    /\ \A x \in Cases \ crossed :
         /\ caseRow[x] = IF verdict[x] = "none" THEN "pending" ELSE verdict[x]
         /\ \A d \in Deciders : decider[d].call = "decide" /\ decider[d].x = x => verdict[x] = "none"

LEMMA ApprovalsInitOK == ApprovalsInit => ApprovalsInv
<1> SUFFICES ASSUME ApprovalsInit PROVE ApprovalsInv
    OBVIOUS
<1>1. \A d \in Deciders : decider[d].call = "none"
    BY DEF ApprovalsInit, IdleDecider
<1>2. ApprovalsTypeOK
    BY DEF ApprovalsInit, ApprovalsTypeOK, IdleDecider, DeciderStates, Decisions, Switches, TrustLevels
<1> QED
    BY <1>1, <1>2 DEF ApprovalsInit, ApprovalsInv, DeciderOK

LEMMA AskStep ==
    ASSUME ApprovalsInv, NEW d \in Deciders, NEW call \in {"decide", "toggle", "trust"},
           NEW x \in Cases \cup {NoCase}, NEW to \in {"none"} \cup Decisions \cup TrustLevels \cup Switches,
           Ask(d, call, x, to),
           DeciderOK([ call |-> call, x |-> x, to |-> to ]), call = "decide" => Undecided(x)
    PROVE  ApprovalsInv'
<1> DEFINE r == [ call |-> call, x |-> x, to |-> to ]
<1>1. r \in DeciderStates
    BY DEF DeciderStates
<1>2. /\ decider'[d] = r /\ decider' \in [Deciders -> DeciderStates] /\ decider[d].call = "none"
      /\ \A e \in Deciders \ {d} : decider'[e] = decider[e]
    BY <1>1 DEF Ask, ApprovalsInv, ApprovalsTypeOK
<1>3. /\ crossed \subseteq crossed' /\ crossed' \in SUBSET (Cases \cup {NoCase})
      /\ \A e \in Deciders : decider[e].call # "none" /\ decider[e].x = x => x \in crossed'
    BY DEF Ask, ApprovalsInv, ApprovalsTypeOK
<1>4. UNCHANGED << caseRow, workflow, verdict >>
    BY DEF Ask
<1>5. ApprovalsTypeOK'
    BY <1>2, <1>3, <1>4 DEF ApprovalsInv, ApprovalsTypeOK
<1>6. \A e \in Deciders : DeciderOK(decider'[e])
    BY <1>2 DEF ApprovalsInv
<1>7. \A e, g \in Deciders :
         e # g /\ decider'[e].call # "none" /\ decider'[g].call # "none" /\ decider'[e].x = decider'[g].x
           => decider'[e].x \in crossed'
    BY <1>2, <1>3 DEF ApprovalsInv
<1>8. ASSUME NEW y \in Cases \ crossed'
      PROVE  /\ caseRow'[y] = IF verdict'[y] = "none" THEN "pending" ELSE verdict'[y]
             /\ \A e \in Deciders : decider'[e].call = "decide" /\ decider'[e].x = y => verdict'[y] = "none"
    <2>1. y \in Cases \ crossed
        BY <1>3, <1>8
    <2>2. call = "decide" /\ x = y => verdict[y] = "none"
        BY <2>1 DEF ApprovalsInv, ApprovalsTypeOK, Undecided, Decisions
    <2> QED
        BY <1>2, <1>4, <2>1, <2>2 DEF ApprovalsInv
<1> QED
    BY <1>5, <1>6, <1>7, <1>8 DEF ApprovalsInv

LEMMA IdleDeciderTyped == IdleDecider \in DeciderStates /\ IdleDecider.call = "none" /\ DeciderOK(IdleDecider)
BY DEF IdleDecider, DeciderStates, DeciderOK

\* A call that leaves the approvals alone ends.
LEMMA AnswerStep ==
    ASSUME ApprovalsInv, NEW d \in Deciders, decider' = [decider EXCEPT ![d] = IdleDecider],
           workflow' \in [ active : Switches, trust : TrustLevels ], UNCHANGED << caseRow, crossed, verdict >>
    PROVE  ApprovalsInv'
<1>1. /\ decider'[d] = IdleDecider /\ decider' \in [Deciders -> DeciderStates]
      /\ \A e \in Deciders \ {d} : decider'[e] = decider[e]
    BY IdleDeciderTyped DEF ApprovalsInv, ApprovalsTypeOK
<1>2. ApprovalsTypeOK'
    BY <1>1 DEF ApprovalsInv, ApprovalsTypeOK
<1> QED
    BY <1>1, <1>2, IdleDeciderTyped DEF ApprovalsInv

LEMMA DecideStep == ASSUME ApprovalsInv, NEW d \in Deciders, Decide(d) PROVE ApprovalsInv'
<1> DEFINE r == decider[d]
<1>0. r.call = "decide" /\ r.x \in Cases /\ r.to \in Decisions /\ "none" \notin Decisions
    <2>1. r.call = "decide" /\ DeciderOK(r)
        BY DEF Decide, Answer, ApprovalsInv
    <2> QED
        BY <2>1 DEF DeciderOK, Decisions
<1>1. /\ decider'[d] = IdleDecider /\ decider' \in [Deciders -> DeciderStates]
      /\ \A e \in Deciders \ {d} : decider'[e] = decider[e]
    BY IdleDeciderTyped DEF Decide, Answer, ApprovalsInv, ApprovalsTypeOK
<1>2. /\ caseRow' = [caseRow EXCEPT ![r.x] = r.to]
      /\ verdict' = [verdict EXCEPT ![r.x] = IF verdict[r.x] = "none" THEN r.to ELSE verdict[r.x]]
      /\ UNCHANGED << workflow, crossed >>
    BY DEF Decide, Answer
<1>3. ApprovalsTypeOK'
    BY <1>0, <1>1, <1>2 DEF ApprovalsInv, ApprovalsTypeOK
<1>4. ASSUME NEW y \in Cases \ crossed
      PROVE  /\ caseRow'[y] = IF verdict'[y] = "none" THEN "pending" ELSE verdict'[y]
             /\ \A e \in Deciders : decider'[e].call = "decide" /\ decider'[e].x = y => verdict'[y] = "none"
    <2>1. CASE y = r.x
        <3>1. verdict[y] = "none"
            BY <1>0, <2>1 DEF ApprovalsInv
        <3>2. caseRow'[y] = r.to /\ verdict'[y] = r.to
            BY <1>0, <1>2, <2>1, <3>1 DEF ApprovalsInv, ApprovalsTypeOK
        <3>3. \A e \in Deciders : ~(decider'[e].call = "decide" /\ decider'[e].x = y)
            BY <1>0, <1>1, <2>1, IdleDeciderTyped DEF ApprovalsInv
        <3> QED
            BY <1>0, <3>2, <3>3
    <2>2. CASE y # r.x
        <3>1. caseRow'[y] = caseRow[y] /\ verdict'[y] = verdict[y]
            BY <1>0, <1>2, <2>2 DEF ApprovalsInv, ApprovalsTypeOK
        <3> QED
            BY <1>1, <3>1, IdleDeciderTyped DEF ApprovalsInv
    <2> QED
        BY <2>1, <2>2
<1> QED
    BY <1>1, <1>2, <1>3, <1>4, IdleDeciderTyped DEF ApprovalsInv

LEMMA ApprovalsNextOK == ApprovalsInv /\ [ApprovalsNext]_approvalVars => ApprovalsInv'
<1> SUFFICES ASSUME ApprovalsInv, [ApprovalsNext]_approvalVars PROVE ApprovalsInv'
    OBVIOUS
<1>0. workflow \in [ active : Switches, trust : TrustLevels ]
    BY DEF ApprovalsInv, ApprovalsTypeOK
<1>1. ASSUME NEW d \in Deciders, NEW x \in Cases, NEW to \in Decisions, DecideRead(d, x, to) PROVE ApprovalsInv'
    BY <1>1, AskStep DEF DecideRead, DeciderOK
<1>2. ASSUME NEW d \in Deciders, NEW to \in Switches, ToggleRead(d, to) PROVE ApprovalsInv'
    BY <1>2, AskStep DEF ToggleRead, DeciderOK
<1>3. ASSUME NEW d \in Deciders, NEW to \in TrustLevels, TrustRead(d, to) PROVE ApprovalsInv'
    BY <1>3, AskStep DEF TrustRead, DeciderOK
<1>4. ASSUME NEW d \in Deciders, Decide(d) PROVE ApprovalsInv'
    BY <1>4, DecideStep
<1>5. CASE UNCHANGED approvalVars
    BY <1>5 DEF approvalVars, ApprovalsInv, ApprovalsTypeOK
<1>6. ASSUME NEW d \in Deciders, Toggle(d) PROVE ApprovalsInv'
    <2>1. decider[d].to \in Switches
        BY <1>6 DEF Toggle, Answer, ApprovalsInv, DeciderOK
    <2>2. workflow' \in [ active : Switches, trust : TrustLevels ]
        BY <1>0, <1>6, <2>1 DEF Toggle
    <2> QED
        BY <1>6, <2>2, AnswerStep DEF Toggle, Answer
<1>7. ASSUME NEW d \in Deciders, UpdateTrustLevel(d) PROVE ApprovalsInv'
    <2>1. decider[d].to \in TrustLevels
        BY <1>7 DEF UpdateTrustLevel, Answer, ApprovalsInv, DeciderOK
    <2>2. workflow' \in [ active : Switches, trust : TrustLevels ]
        BY <1>0, <1>7, <2>1 DEF UpdateTrustLevel
    <2> QED
        BY <1>7, <2>2, AnswerStep DEF UpdateTrustLevel, Answer
<1>8. ASSUME NEW d \in Deciders, AskerLeaves(d) PROVE ApprovalsInv'
    BY <1>0, <1>8, AnswerStep DEF AskerLeaves, Answer
<1> QED
    BY <1>1, <1>2, <1>3, <1>4, <1>5, <1>6, <1>7, <1>8 DEF ApprovalsNext

\* approvePendingApproval and rejectPendingApproval: what an administrator was told is what the row
\* says, unless two calls about it overlapped.
THEOREM DecisionsAreFinal == ApprovalsSpec => []DecisionStands
<1>1. ApprovalsInv => DecisionStands
    BY DEF ApprovalsInv, DecisionStands
<1> QED
    BY <1>1, ApprovalsInitOK, ApprovalsNextOK, PTL DEF ApprovalsSpec

-----------------------------------------------------------------------------
(* AgentRequests.  A key that was not disturbed has one call at most, and   *)
(* that call is before its write, or between its write and its row.         *)

CallsUnder(k) == { c \in AgentCalls : agentCall[c].pc # "idle" /\ agentCall[c].key = k }

OneCall(k) == \A c, d \in CallsUnder(k) : c = d

StageOK(k) == \A c \in AgentCalls : agentCall[c].key = k =>
    /\ agentCall[c].pc = "run"   => ran[k] = 0 /\ agentLog[k] = "none"
    /\ agentCall[c].pc = "store" => ran[k] = 1 /\ agentLog[k] = "none"

StoredOK(k) ==
    \/ ran[k] = 0 /\ agentLog[k] = "none"
    \/ ran[k] = 1 /\ \/ agentLog[k] # "none"
                     \/ \E c \in AgentCalls : agentCall[c].key = k /\ agentCall[c].pc = "store"

KeyAnswered(k) == OneCall(k) /\ StageOK(k) /\ StoredOK(k)

AgentInv == AgentTypeOK /\ \A k \in AgentKeys \ disturbed : KeyAnswered(k)

LEMMA AgentInitOK == AgentInit => AgentInv
<1> SUFFICES ASSUME AgentInit PROVE AgentInv
    OBVIOUS
<1>1. \A c \in AgentCalls : agentCall[c].pc = "idle"
    BY DEF AgentInit
<1>2. agentCall \in [AgentCalls -> AgentCallStates]
    BY DEF AgentInit, AgentCallStates, Endpoints
<1>3. 0 \in 0 .. MostRuns
    BY AgentAssumption
<1>4. AgentTypeOK
    <2>1. ran \in [AgentKeys -> 0 .. MostRuns]
        BY <1>3 DEF AgentInit
    <2>2. agentLog \in [AgentKeys -> Endpoints \cup {"none"}] /\ disturbed \in SUBSET AgentKeys
        BY DEF AgentInit
    <2>3. agentOrder \in {"PENDING", "PAID"} \cup AgentStatuses
        BY DEF AgentInit
    <2> QED
        BY <1>2, <2>1, <2>2, <2>3 DEF AgentTypeOK
<1>5. \A k \in AgentKeys : ran[k] = 0 /\ agentLog[k] = "none"
    BY DEF AgentInit
<1>6. ASSUME NEW k \in AgentKeys PROVE KeyAnswered(k)
    <2>1. OneCall(k)
        BY <1>1 DEF OneCall, CallsUnder
    <2>2. StageOK(k)
        BY <1>1 DEF StageOK
    <2>3. StoredOK(k)
        BY <1>5 DEF StoredOK
    <2> QED
        BY <2>1, <2>2, <2>3 DEF KeyAnswered
<1> QED
    BY <1>4, <1>6 DEF AgentInv

\* A key whose calls and rows a step leaves alone.
LEMMA OtherKey ==
    ASSUME NEW k \in AgentKeys, KeyAnswered(k), ran'[k] = ran[k], agentLog'[k] = agentLog[k],
           \A c \in AgentCalls : agentCall'[c] = agentCall[c]
                               \/ ((agentCall[c].pc = "idle" \/ agentCall[c].key # k) /\
                                   (agentCall'[c].pc = "idle" \/ agentCall'[c].key # k))
    PROVE  KeyAnswered(k)'
<1>1. OneCall(k)'
    BY DEF KeyAnswered, OneCall, CallsUnder
<1>2. StageOK(k)'
    BY DEF KeyAnswered, StageOK
<1>3. StoredOK(k)'
    BY DEF KeyAnswered, StoredOK
<1> QED
    BY <1>1, <1>2, <1>3 DEF KeyAnswered

LEMMA LookUpStep ==
    ASSUME AgentInv, NEW c \in AgentCalls, NEW k \in AgentKeys, NEW endpoint \in Endpoints, LookUp(c, k, endpoint)
    PROVE  AgentInv'
<1> DEFINE r == [ pc |-> "run", key |-> k, endpoint |-> endpoint ]
<1>1. r \in AgentCallStates
    BY DEF AgentCallStates
<1>2. /\ agentCall'[c] = r /\ agentCall' \in [AgentCalls -> AgentCallStates] /\ agentCall[c].pc = "idle"
      /\ \A d \in AgentCalls \ {c} : agentCall'[d] = agentCall[d]
    BY <1>1 DEF LookUp, AgentInv, AgentTypeOK
<1>3. disturbed \subseteq disturbed' /\ disturbed' \in SUBSET AgentKeys
    BY DEF LookUp, AgentInv, AgentTypeOK
<1>4. AgentTypeOK'
    BY <1>2, <1>3 DEF LookUp, AgentInv, AgentTypeOK
<1>5. ASSUME NEW j \in AgentKeys \ disturbed' PROVE KeyAnswered(j)'
    <2>1. KeyAnswered(j) /\ ran' = ran /\ agentLog' = agentLog
        BY <1>3 DEF AgentInv, LookUp
    <2>2. CASE j # k
        BY <1>2, <2>1, <2>2, OtherKey
    <2>3. CASE j = k
        <3>1. \A d \in AgentCalls : agentCall[d].pc = "idle" \/ agentCall[d].key # k
            BY <1>5, <2>3 DEF LookUp
        <3>2. ran[k] = 0 /\ agentLog[k] = "none"
            BY <2>1, <2>3, <3>1 DEF KeyAnswered, StoredOK, LookUp, UsedKey
        <3> QED
            BY <1>2, <2>1, <2>3, <3>1, <3>2 DEF KeyAnswered, OneCall, CallsUnder, StageOK, StoredOK
    <2> QED
        BY <2>2, <2>3
<1> QED
    BY <1>4, <1>5 DEF AgentInv

LEMMA RunStep == ASSUME AgentInv, NEW c \in AgentCalls, AddNote(c) \/ AgentTransition(c) PROVE AgentInv'
<1> DEFINE k == agentCall[c].key
<1>1. /\ agentCall[c] \in AgentCallStates /\ agentCall[c].pc = "run" /\ ran[k] < MostRuns /\ k \in AgentKeys
      /\ ran' = [ran EXCEPT ![k] = ran[k] + 1]
      /\ agentCall' = [agentCall EXCEPT ![c].pc = "store"]
      /\ UNCHANGED << agentLog, disturbed >>
    BY DEF AddNote, AgentTransition, RunWrite, AgentInv, AgentTypeOK, AgentCallStates
<1>2. /\ agentCall' \in [AgentCalls -> AgentCallStates]
      /\ agentCall'[c].pc = "store" /\ agentCall'[c].key = k
      /\ \A d \in AgentCalls \ {c} : agentCall'[d] = agentCall[d]
    BY <1>1 DEF AgentInv, AgentTypeOK, AgentCallStates
<1>3. ran' \in [AgentKeys -> 0 .. MostRuns]
    <2>1. ran[k] \in 0 .. MostRuns /\ ran[k] + 1 \in 0 .. MostRuns
        BY <1>1, AgentAssumption DEF AgentInv, AgentTypeOK
    <2> QED
        BY <1>1, <2>1 DEF AgentInv, AgentTypeOK
<1>4. agentOrder' \in {"PENDING", "PAID"} \cup AgentStatuses
    BY DEF AddNote, AgentTransition, AgentSteps, AgentStatuses, AgentInv, AgentTypeOK
<1>5. AgentTypeOK'
    BY <1>1, <1>2, <1>3, <1>4 DEF AgentInv, AgentTypeOK
<1>6. ASSUME NEW j \in AgentKeys \ disturbed PROVE KeyAnswered(j)'
    <2>1. KeyAnswered(j)
        BY DEF AgentInv
    <2>2. CASE j # k
        BY <1>1, <1>2, <2>1, <2>2, OtherKey DEF AgentInv, AgentTypeOK
    <2>3. CASE j = k
        <3>0. ran[k] = 0 /\ agentLog[k] = "none"
            BY <1>1, <2>1, <2>3 DEF KeyAnswered, StageOK
        <3>1. ran[k] = 0 /\ agentLog[k] = "none" /\ ran'[k] = 1
            BY <1>1, <3>0 DEF AgentInv, AgentTypeOK
        <3>2. \A d \in AgentCalls \ {c} : agentCall[d].pc = "idle" \/ agentCall[d].key # k
            BY <1>1, <2>1, <2>3 DEF KeyAnswered, OneCall, CallsUnder
        <3>4. OneCall(j)'
            BY <1>1, <1>2, <2>3, <3>1, <3>2 DEF OneCall, CallsUnder
        <3>5. StageOK(j)'
            BY <1>1, <1>2, <2>3, <3>1, <3>2 DEF StageOK
        <3>6. StoredOK(j)'
            BY <1>1, <1>2, <2>3, <3>1, <3>2 DEF StoredOK
        <3> QED
            BY <3>4, <3>5, <3>6 DEF KeyAnswered
    <2> QED
        BY <2>2, <2>3
<1> QED
    BY <1>1, <1>5, <1>6 DEF AgentInv

LEMMA StoreStep == ASSUME AgentInv, NEW c \in AgentCalls, Store(c) PROVE AgentInv'
<1> DEFINE r == agentCall[c]
<1>1. /\ r \in AgentCallStates /\ r.pc = "store" /\ r.key \in AgentKeys /\ r.endpoint \in Endpoints
      /\ agentLog' = [agentLog EXCEPT ![r.key] = IF agentLog[r.key] = "none" THEN r.endpoint ELSE agentLog[r.key]]
      /\ agentCall' = [agentCall EXCEPT ![c].pc = "idle"]
      /\ UNCHANGED << agentOrder, ran, disturbed >>
    BY DEF Store, AgentInv, AgentTypeOK, AgentCallStates
<1>2. /\ agentCall' \in [AgentCalls -> AgentCallStates] /\ agentCall'[c].pc = "idle"
      /\ \A d \in AgentCalls \ {c} : agentCall'[d] = agentCall[d]
    BY <1>1 DEF AgentInv, AgentTypeOK, AgentCallStates
<1>3. AgentTypeOK'
    BY <1>1, <1>2 DEF AgentInv, AgentTypeOK
<1>4. ASSUME NEW j \in AgentKeys \ disturbed PROVE KeyAnswered(j)'
    <2>1. KeyAnswered(j)
        BY DEF AgentInv
    <2>2. CASE j # r.key
        BY <1>1, <1>2, <2>1, <2>2, OtherKey DEF AgentInv, AgentTypeOK
    <2>3. CASE j = r.key
        <3>1. ran[j] = 1 /\ agentLog'[j] # "none" /\ ran'[j] = 1
            <4>1. ran[j] = 1 /\ agentLog[j] = "none"
                BY <1>1, <2>1, <2>3 DEF KeyAnswered, StageOK
            <4>2. r.endpoint # "none"
                BY <1>1 DEF Endpoints, AgentStatuses
            <4> QED
                BY <1>1, <2>3, <4>1, <4>2 DEF AgentInv, AgentTypeOK
        <3>2. \A d \in AgentCalls \ {c} : agentCall[d].pc = "idle" \/ agentCall[d].key # j
            BY <1>1, <2>1, <2>3 DEF KeyAnswered, OneCall, CallsUnder
        <3>4. OneCall(j)'
            BY <1>1, <1>2, <2>3, <3>1, <3>2 DEF OneCall, CallsUnder
        <3>5. StageOK(j)'
            BY <1>1, <1>2, <2>3, <3>1, <3>2 DEF StageOK
        <3>6. StoredOK(j)'
            BY <1>1, <1>2, <2>3, <3>1, <3>2 DEF StoredOK
        <3> QED
            BY <3>4, <3>5, <3>6 DEF KeyAnswered
    <2> QED
        BY <2>2, <2>3
<1> QED
    BY <1>1, <1>3, <1>4 DEF AgentInv

LEMMA AgentStopsStep == ASSUME AgentInv, NEW c \in AgentCalls, AgentStops(c) PROVE AgentInv'
<1> DEFINE r == agentCall[c]
<1>1. /\ r \in AgentCallStates /\ r.pc # "idle" /\ r.key \in AgentKeys
      /\ disturbed' = IF r.pc = "store" THEN disturbed \cup {r.key} ELSE disturbed
      /\ agentCall' = [agentCall EXCEPT ![c].pc = "idle"]
      /\ UNCHANGED << agentOrder, agentLog, ran >>
    BY DEF AgentStops, AgentInv, AgentTypeOK, AgentCallStates
<1>2. /\ agentCall' \in [AgentCalls -> AgentCallStates] /\ agentCall'[c].pc = "idle"
      /\ \A d \in AgentCalls \ {c} : agentCall'[d] = agentCall[d]
    BY <1>1 DEF AgentInv, AgentTypeOK, AgentCallStates
<1>3. AgentTypeOK'
    BY <1>1, <1>2 DEF AgentInv, AgentTypeOK
<1>4. ASSUME NEW j \in AgentKeys \ disturbed' PROVE KeyAnswered(j)'
    <2>1. KeyAnswered(j)
        BY <1>1 DEF AgentInv
    <2>2. CASE j # r.key
        BY <1>1, <1>2, <2>1, <2>2, OtherKey
    <2>3. CASE j = r.key
        <3>1. r.pc = "run"
            BY <1>1, <1>4, <2>3 DEF AgentCallStates
        <3>2. ran[j] = 0 /\ agentLog[j] = "none"
            BY <2>1, <2>3, <3>1 DEF KeyAnswered, StageOK
        <3>3. \A d \in AgentCalls \ {c} : agentCall[d].pc = "idle" \/ agentCall[d].key # j
            BY <1>1, <2>1, <2>3 DEF KeyAnswered, OneCall, CallsUnder
        <3>4. OneCall(j)'
            BY <1>1, <1>2, <3>2, <3>3 DEF OneCall, CallsUnder
        <3>5. StageOK(j)'
            BY <1>1, <1>2, <3>2, <3>3 DEF StageOK
        <3>6. StoredOK(j)'
            BY <1>1, <1>2, <3>2, <3>3 DEF StoredOK
        <3> QED
            BY <3>4, <3>5, <3>6 DEF KeyAnswered
    <2> QED
        BY <2>2, <2>3
<1> QED
    BY <1>3, <1>4 DEF AgentInv

LEMMA ForgetKeyStep == ASSUME AgentInv, NEW k \in AgentKeys, ForgetKey(k) PROVE AgentInv'
<1>1. /\ agentLog[k] # "none" /\ UNCHANGED << agentOrder, agentCall, disturbed >>
      /\ agentLog' = [agentLog EXCEPT ![k] = "none"] /\ ran' = [ran EXCEPT ![k] = 0]
    BY DEF ForgetKey, UsedKey
<1>2. AgentTypeOK'
    <2>1. 0 \in 0 .. MostRuns
        BY AgentAssumption
    <2> QED
        BY <1>1, <2>1 DEF AgentInv, AgentTypeOK
<1>3. ASSUME NEW j \in AgentKeys \ disturbed PROVE KeyAnswered(j)'
    <2>1. KeyAnswered(j)
        BY DEF AgentInv
    <2>2. CASE j # k
        BY <1>1, <2>1, <2>2, OtherKey DEF AgentInv, AgentTypeOK
    <2>3. CASE j = k
        <3>1. \A c \in AgentCalls : agentCall[c].key = j => agentCall[c].pc # "run" /\ agentCall[c].pc # "store"
            BY <1>1, <2>1, <2>3 DEF KeyAnswered, StageOK
        <3>2. OneCall(j)'
            BY <1>1, <2>1 DEF KeyAnswered, OneCall, CallsUnder
        <3>3. ran'[j] = 0 /\ agentLog'[j] = "none"
            BY <1>1, <2>3 DEF AgentInv, AgentTypeOK
        <3> QED
            BY <1>1, <3>1, <3>2, <3>3 DEF KeyAnswered, StageOK, StoredOK
    <2> QED
        BY <2>2, <2>3
<1> QED
    BY <1>1, <1>2, <1>3 DEF AgentInv

LEMMA AgentNextOK == AgentInv /\ [AgentNext]_agentVars => AgentInv'
<1> SUFFICES ASSUME AgentInv, [AgentNext]_agentVars PROVE AgentInv'
    OBVIOUS
<1>1. CASE UNCHANGED agentVars
    <2>1. AgentTypeOK'
        BY <1>1 DEF agentVars, AgentInv, AgentTypeOK
    <2>2. \A k \in AgentKeys \ disturbed : KeyAnswered(k)'
        BY <1>1 DEF agentVars, AgentInv, KeyAnswered, OneCall, CallsUnder, StageOK, StoredOK
    <2> QED
        BY <1>1, <2>1, <2>2 DEF agentVars, AgentInv
<1> QED
    BY <1>1, LookUpStep, RunStep, StoreStep, AgentStopsStep, ForgetKeyStep DEF AgentNext

\* idempotent: until cleanup deletes its row, a key whose first call was answered before the next one
\* came has run once.
THEOREM AnsweredKeysRunOnce == AgentSpec => []AnsweredRunsOnce
<1>1. AgentInv => AnsweredRunsOnce
    BY DEF AgentInv, KeyAnswered, StoredOK, AnsweredRunsOnce, UsedKey
<1> QED
    BY <1>1, AgentInitOK, AgentNextOK, PTL DEF AgentSpec

-----------------------------------------------------------------------------
(* StoreSettings.  While nothing is torn one switch runs at most, and what  *)
(* it has written to the first row is what it writes to the second.         *)

SettingsInv ==
    /\ SettingsTypeOK
    /\ ~torn => \A c, d \in SettingsCalls :
         settingsCall[c].pc # "idle" /\ settingsCall[d].pc # "idle" => c = d
    /\ ~torn => \A c \in SettingsCalls :
         settingsCall[c].pc = "system" => (GuardCloses <=> settingsCall[c].value)
    /\ SwitchesAgree

LEMMA SettingsInitOK == SettingsInit => SettingsInv
<1> SUFFICES ASSUME SettingsInit PROVE SettingsInv
    OBVIOUS
<1>1. \A c \in SettingsCalls : settingsCall[c] = NoSettingsCall
    BY DEF SettingsInit
<1>2. \A c \in SettingsCalls : settingsCall[c].pc = "idle"
    BY <1>1 DEF NoSettingsCall
<1>3. NoSettingsCall \in [ pc : {"idle", "site", "system"}, value : BOOLEAN, last : BOOLEAN ]
    BY DEF NoSettingsCall
<1>4. SettingsTypeOK
    BY <1>3 DEF SettingsInit, SettingsTypeOK
<1>5. SwitchesAgree
    BY DEF SettingsInit, SwitchesAgree, GuardCloses, PanelShows
<1> QED
    BY <1>2, <1>4, <1>5 DEF SettingsInv

LEMMA SettingsNextOK == SettingsInv /\ [SettingsNext]_settingsVars => SettingsInv'
<1> SUFFICES ASSUME SettingsInv, [SettingsNext]_settingsVars PROVE SettingsInv'
    OBVIOUS
<1> USE DEF SettingsInv, SettingsTypeOK, SwitchesAgree, NoSettingsCall, GuardCloses, PanelShows, NoSwitchRuns
<1>1. CASE GetSiteSettings
    BY <1>1 DEF GetSiteSettings
<1>2. ASSUME NEW c \in SettingsCalls, NEW value \in BOOLEAN, NEW last \in BOOLEAN, Switch(c, value, last)
      PROVE  SettingsInv'
    BY <1>2 DEF Switch
<1>3. ASSUME NEW c \in SettingsCalls, WriteSite(c) PROVE SettingsInv'
    BY <1>3 DEF WriteSite
<1>4. ASSUME NEW c \in SettingsCalls, WriteSystem(c) PROVE SettingsInv'
    BY <1>4 DEF WriteSystem
<1>5. ASSUME NEW c \in SettingsCalls, StopSwitch(c) PROVE SettingsInv'
    BY <1>5 DEF StopSwitch
<1>6. ASSUME NEW duty \in BOOLEAN, SetEnforce2FA(duty) PROVE SettingsInv'
    BY <1>6 DEF SetEnforce2FA
<1>7. CASE UNCHANGED settingsVars
    BY <1>7 DEF settingsVars
<1> QED
    BY <1>1, <1>2, <1>3, <1>4, <1>5, <1>6, <1>7 DEF SettingsNext

\* setMaintenanceMode and updateSiteSettings: the panel shows what the guard does, unless switches
\* overlapped or one stopped half-way.
THEOREM PanelTellsTruth == SettingsSpec => []SwitchesAgree
<1>1. SettingsInv => SwitchesAgree
    BY DEF SettingsInv
<1> QED
    BY <1>1, SettingsInitOK, SettingsNextOK, PTL DEF SettingsSpec

-----------------------------------------------------------------------------
(* Catalogue.  The shelf is inductive with the types and one fact more: a   *)
(* category is not moved into itself.                                       *)

CatalogueInv ==
    /\ CatalogueTypeOK
    /\ \A e \in Editors : editor[e].call = "move" => editor[e].to # editor[e].cat
    /\ LiveProductsStay

LEMMA CatalogueInitOK == CatalogueInit => CatalogueInv
<1> SUFFICES ASSUME CatalogueInit PROVE CatalogueInv
    OBVIOUS
<1>1. CatalogueTypeOK
    BY DEF CatalogueInit, CatalogueTypeOK, GoodRows, EditorStates, IdleEditor
<1>2. \A e \in Editors : editor[e].call = "none"
    BY DEF CatalogueInit, IdleEditor
<1>3. LiveProductsStay
    BY DEF CatalogueInit, LiveProductsStay, HasGood
<1> QED
    BY <1>1, <1>2, <1>3 DEF CatalogueInv

\* A call begins, or ends without a write.
LEMMA EditorMoves ==
    ASSUME CatalogueInv, NEW e \in Editors, NEW r \in EditorStates, r.call = "move" => r.to # r.cat,
           editor' = [editor EXCEPT ![e] = r], UNCHANGED << cats, good, sold, linked, mislaid >>
    PROVE  CatalogueInv'
<1>1. CatalogueTypeOK'
    BY DEF CatalogueInv, CatalogueTypeOK
<1>2. \A f \in Editors : editor'[f].call = "move" => editor'[f].to # editor'[f].cat
    BY DEF CatalogueInv, CatalogueTypeOK
<1>3. LiveProductsStay'
    BY DEF CatalogueInv, LiveProductsStay, HasGood
<1> QED
    BY <1>1, <1>2, <1>3 DEF CatalogueInv

LEMMA IdleEditorTyped == IdleEditor \in EditorStates /\ IdleEditor.call = "none"
BY DEF IdleEditor, EditorStates

\* What a call leaves of the editors when it ends.
LEMMA FinishStep ==
    ASSUME CatalogueInv, NEW e \in Editors, editor' = [editor EXCEPT ![e] = IdleEditor]
    PROVE  /\ editor' \in [Editors -> EditorStates]
           /\ \A f \in Editors : editor'[f].call = "move" => editor'[f].to # editor'[f].cat
BY IdleEditorTyped DEF CatalogueInv, CatalogueTypeOK

LEMMA ShelfStep ==
    ASSUME CatalogueInv, NEW e \in Editors, CreateProduct(e) \/ HideProduct(e) \/ Sell(e) \/ AddLink(e)
    PROVE  CatalogueInv'
<1>0. editor[e] \in EditorStates /\ good \in [Goods -> GoodRows] /\ cats \subseteq Cats
    BY DEF CatalogueInv, CatalogueTypeOK
<1>1. editor' = [editor EXCEPT ![e] = IdleEditor]
    BY DEF CreateProduct, HideProduct, Sell, AddLink, Finishes
<1>2. UNCHANGED << cats, mislaid >>
    BY DEF CreateProduct, HideProduct, Sell, AddLink
<1>3. CASE CreateProduct(e)
    <2>1. PICK g \in Goods : /\ good[g].state = "none"
                            /\ good' = [good EXCEPT ![g] = [ state |-> "live", cat |-> editor[e].cat ]]
        BY <1>3 DEF CreateProduct
    <2>2. editor[e].cat \in cats /\ UNCHANGED << sold, linked >>
        BY <1>3 DEF CreateProduct
    <2>3. /\ good' \in [Goods -> GoodRows] /\ good'[g].state = "live" /\ good'[g].cat \in cats
          /\ \A h \in Goods \ {g} : good'[h] = good[h]
        BY <1>0, <2>1, <2>2 DEF GoodRows
    <2>4. CatalogueTypeOK'
        BY <1>1, <1>2, <2>2, <2>3, FinishStep DEF CatalogueInv, CatalogueTypeOK
    <2>5. LiveProductsStay'
        BY <1>2, <2>1, <2>2, <2>3 DEF CatalogueInv, LiveProductsStay, HasGood
    <2> QED
        BY <1>1, <2>4, <2>5, FinishStep DEF CatalogueInv
<1>4. CASE HideProduct(e)
    <2>1. good' = [ g \in Goods |-> IF g \in editor[e].g THEN [good[g] EXCEPT !.state = "hidden"] ELSE good[g] ]
        BY <1>4 DEF HideProduct
    <2>2. \A g \in editor[e].g : HasGood(g)
        BY <1>4 DEF HideProduct
    <2>3. /\ good' \in [Goods -> GoodRows]
          /\ \A g \in Goods : good'[g].cat = good[g].cat /\ (HasGood(g)' <=> HasGood(g))
        BY <1>0, <2>1, <2>2 DEF GoodRows, HasGood
    <2>4. UNCHANGED << sold, linked >>
        BY <1>4 DEF HideProduct
    <2>5. CatalogueTypeOK'
        BY <1>1, <1>2, <2>3, <2>4, FinishStep DEF CatalogueInv, CatalogueTypeOK
    <2>6. LiveProductsStay'
        BY <1>2, <2>3, <2>4 DEF CatalogueInv, CatalogueTypeOK, LiveProductsStay
    <2> QED
        BY <1>1, <2>5, <2>6, FinishStep DEF CatalogueInv
<1>5. CASE Sell(e) \/ AddLink(e)
    <2>1. sold' \subseteq sold \cup editor[e].g /\ linked' \subseteq linked \cup editor[e].g /\ UNCHANGED good
        BY <1>5 DEF Sell, AddLink
    <2>2. editor[e].g \subseteq Goods /\ \A g \in editor[e].g : HasGood(g)
        BY <1>0, <1>5 DEF Sell, AddLink, EditorStates
    <2>3. CatalogueTypeOK'
        BY <1>1, <1>2, <2>1, <2>2, FinishStep DEF CatalogueInv, CatalogueTypeOK
    <2>4. LiveProductsStay'
        BY <1>2, <2>1, <2>2 DEF CatalogueInv, LiveProductsStay, HasGood
    <2> QED
        BY <1>1, <2>3, <2>4, FinishStep DEF CatalogueInv
<1> QED
    BY <1>3, <1>4, <1>5

LEMMA RemoveCategoryStep == ASSUME CatalogueInv, NEW e \in Editors, RemoveCategory(e) PROVE CatalogueInv'
<1> DEFINE r == editor[e]
<1>0. r \in EditorStates /\ good \in [Goods -> GoodRows] /\ cats \subseteq Cats /\ r.cat \in cats
    BY DEF CatalogueInv, CatalogueTypeOK, RemoveCategory
<1>1. editor' = [editor EXCEPT ![e] = IdleEditor]
    BY DEF RemoveCategory, Finishes
<1>2. /\ Doomed(e) \cap sold = {} /\ cats' = cats \ {r.cat} /\ linked' = linked \ Doomed(e) /\ UNCHANGED sold
      /\ r.call \in {"remove", "move", "force"}
    BY DEF RemoveCategory
<1>3. CASE r.call = "move"
    <2>1. /\ r.to \in cats /\ r.to # r.cat /\ UNCHANGED mislaid
          /\ good' = [ g \in Goods |-> IF g \in OnShelf(r.cat) THEN [good[g] EXCEPT !.cat = r.to] ELSE good[g] ]
        BY <1>3 DEF RemoveCategory, MoveGoods, CatalogueInv
    <2>2. /\ good' \in [Goods -> GoodRows]
          /\ \A g \in Goods : good'[g].state = good[g].state
          /\ \A g \in Goods : good'[g].cat = IF g \in OnShelf(r.cat) THEN r.to ELSE good[g].cat
        BY <1>0, <2>1 DEF GoodRows
    <2>3. CatalogueTypeOK'
        BY <1>1, <1>2, <2>1, <2>2, FinishStep DEF CatalogueInv, CatalogueTypeOK
    <2>4. LiveProductsStay'
        BY <1>2, <2>1, <2>2 DEF CatalogueInv, CatalogueTypeOK, LiveProductsStay, HasGood, OnShelf
    <2> QED
        BY <1>1, <2>3, <2>4, FinishStep DEF CatalogueInv
<1>4. CASE r.call # "move"
    <2>1. /\ good' = [ g \in Goods |-> IF g \in Doomed(e) THEN [ state |-> "purged", cat |-> NoCat ] ELSE good[g] ]
          /\ OnShelf(r.cat) \subseteq Doomed(e)
          /\ mislaid' = IF r.call = "force" THEN mislaid ELSE mislaid \cup { g \in Doomed(e) : LiveGood(g) }
        BY <1>4 DEF RemoveCategory, Purge
    <2>2. r.call = "remove" => { g \in Doomed(e) : LiveGood(g) } = {}
        BY DEF Doomed
    <2>3. mislaid' = {}
        BY <1>2, <1>4, <2>1, <2>2 DEF CatalogueInv, LiveProductsStay
    <2>4. /\ good' \in [Goods -> GoodRows]
          /\ \A g \in Goods \cap Doomed(e) : good'[g].state = "purged"
          /\ \A g \in Goods \ Doomed(e) : good'[g] = good[g]
        BY <1>0, <2>1 DEF GoodRows
    <2>5. CatalogueTypeOK'
        BY <1>1, <1>2, <2>3, <2>4, FinishStep DEF CatalogueInv, CatalogueTypeOK
    <2>6. LiveProductsStay'
        BY <1>2, <2>1, <2>3, <2>4 DEF CatalogueInv, CatalogueTypeOK, LiveProductsStay, HasGood, OnShelf
    <2> QED
        BY <1>1, <2>5, <2>6, FinishStep DEF CatalogueInv
<1> QED
    BY <1>3, <1>4

LEMMA CatalogueNextOK == CatalogueInv /\ [CatalogueNext]_catalogueVars => CatalogueInv'
<1> SUFFICES ASSUME CatalogueInv, [CatalogueNext]_catalogueVars PROVE CatalogueInv'
    OBVIOUS
<1>1. ASSUME NEW e \in Editors, NEW call \in {"create", "delete", "sell", "link", "remove", "move", "force"},
             NEW c \in Cats \cup {NoCat}, NEW to \in Cats \cup {NoCat}, NEW gs \in SUBSET Goods,
             Checked(e, call, c, to, gs), call = "move" => to # c
      PROVE  CatalogueInv'
    <2> DEFINE r == [ call |-> call, cat |-> c, to |-> to, g |-> gs ]
    <2>1. r \in EditorStates /\ r.call = call /\ r.to = to /\ r.cat = c
        BY DEF EditorStates
    <2>2. editor' = [editor EXCEPT ![e] = r] /\ UNCHANGED << cats, good, sold, linked, mislaid >>
        BY <1>1 DEF Checked
    <2> HIDE DEF r
    <2> QED
        BY <1>1, <2>1, <2>2, EditorMoves
<1>2. ASSUME NEW c \in Cats, AddCategory(c) PROVE CatalogueInv'
    BY <1>2 DEF AddCategory, CatalogueInv, CatalogueTypeOK, LiveProductsStay, HasGood
<1>3. ASSUME NEW e \in Editors, NEW c \in Cats, CreateRead(e, c) PROVE CatalogueInv'
    BY <1>1, <1>2, <1>3 DEF CreateRead
<1>4. ASSUME NEW e \in Editors, NEW c \in Cats, NEW call \in {"remove", "move", "force"},
             NEW to \in Cats \cup {NoCat}, RemoveRead(e, c, call, to)
      PROVE  CatalogueInv'
    BY <1>1, <1>4 DEF RemoveRead
<1>5. ASSUME NEW e \in Editors, NEW g \in Goods, NEW call \in {"delete", "sell", "link"}, GoodRead(e, call, g)
      PROVE  CatalogueInv'
    BY <1>1, <1>5 DEF GoodRead
<1>6. ASSUME NEW e \in Editors, CreateProduct(e) \/ HideProduct(e) \/ Sell(e) \/ AddLink(e) PROVE CatalogueInv'
    BY <1>6, ShelfStep
<1>7. ASSUME NEW e \in Editors, RemoveCategory(e) PROVE CatalogueInv'
    BY <1>7, RemoveCategoryStep
<1>8. ASSUME NEW e \in Editors, EditorFails(e) PROVE CatalogueInv'
    BY <1>8, IdleEditorTyped, EditorMoves DEF EditorFails, Finishes
<1>9. ASSUME NEW g \in Goods, Unlink(g) PROVE CatalogueInv'
    BY <1>9 DEF Unlink, CatalogueInv, CatalogueTypeOK, LiveProductsStay, HasGood
<1>10. CASE UNCHANGED catalogueVars
    BY <1>10 DEF catalogueVars, CatalogueInv, CatalogueTypeOK, LiveProductsStay, HasGood
<1> QED
    BY <1>2, <1>3, <1>4, <1>5, <1>6, <1>7, <1>8, <1>9, <1>10 DEF CatalogueNext

\* CategoriesService.remove: whatever is created, sold, hidden or removed meanwhile, no live product
\* goes with its category, no order loses its product, and no product is without a category.
THEOREM ShelfSurvives == CatalogueSpec => []LiveProductsStay
<1>1. CatalogueInv => LiveProductsStay
    BY DEF CatalogueInv
<1> QED
    BY <1>1, CatalogueInitOK, CatalogueNextOK, PTL DEF CatalogueSpec
-----------------------------------------------------------------------------
(* Inbox.  What an entry holds is stored or still to come, a message of a  *)
(* chat is written only under a conversation, and one reply runs at a time. *)

HookRecords == [ pc : HookStates, left : Seq(Received), all : Seq(Received) ]
ReplyRows   == {"none", "SENT", "FAILED", "READ"}
Replying(h) == hook[h].pc \in {"window", "sent"}

InboxTypes ==
    /\ stored \in [ Received -> Nat ]
    /\ talk \in [ Senders -> Nat ]
    /\ reply \in [ there : BOOLEAN, row : ReplyRows ]
    /\ hook \in [ Hooks -> HookRecords ]
    /\ answered \in SUBSET Received

ToComeOrStored(h) ==
    \A i \in DOMAIN hook[h].all :
        \/ stored[hook[h].all[i]] > 0
        \/ \E j \in DOMAIN hook[h].left : hook[h].left[j] = hook[h].all[i]

ChatOK(h) ==
    /\ hook[h].pc \in {"create", "append"} => hook[h].left # << >> /\ Item(h) \in Chats
    /\ hook[h].pc = "append" => talk[SenderOf[Item(h)]] = 1

RepliesOK ==
    /\ \A g, h \in Hooks : Replying(g) /\ Replying(h) => g = h
    /\ \A h \in Hooks : hook[h].pc = "sent" => reply.there
    /\ reply.row \in {"SENT", "READ"} => reply.there

RowsOK ==
    /\ \A m \in Texts : stored[m] <= 1
    /\ \A s \in Senders : talk[s] <= 1
    /\ \A m \in answered : stored[m] > 0
    /\ \A m \in Chats : stored[m] > 0 => talk[SenderOf[m]] = 1

InboxInv ==
    /\ InboxTypes
    /\ \A h \in Hooks : ToComeOrStored(h) /\ ChatOK(h)
    /\ RepliesOK
    /\ RowsOK

LEMMA InboxInitOK == InboxInit => InboxInv
<1> SUFFICES ASSUME InboxInit PROVE InboxInv
    OBVIOUS
<1>1. IdleHook \in HookRecords /\ IdleHook.pc = "idle" /\ IdleHook.all = << >>
    BY DEF IdleHook, HookRecords, HookStates
<1>2. \A h \in Hooks : hook[h] = IdleHook
    BY DEF InboxInit
<1>3. NoReply \in [ there : BOOLEAN, row : ReplyRows ] /\ NoReply.row = "none"
    BY DEF NoReply, ReplyRows
<1>4. InboxTypes
    BY <1>1, <1>3 DEF InboxInit, InboxTypes
<1>5. \A h \in Hooks : ToComeOrStored(h)
    BY <1>1, <1>2 DEF ToComeOrStored
<1>6. \A h \in Hooks : ChatOK(h)
    BY <1>1, <1>2 DEF ChatOK
<1>7. RepliesOK
    BY <1>1, <1>2, <1>3 DEF RepliesOK, Replying, InboxInit
<1>8. RowsOK
    BY InboxAssumption DEF RowsOK, InboxInit, Received
<1> QED
    BY <1>4, <1>5, <1>6, <1>7, <1>8 DEF InboxInv

\* What an entry is: a sequence of messages.
LEMMA EntriesAreSequences == \A e \in Entries : e \in Seq(Received)
<1> TAKE e \in Entries
<1>1. CASE e \in { << m >> : m \in Received }
    <2>1. PICK m \in Received : e = << m >>
        BY <1>1
    <2> QED
        BY <2>1
<1>2. CASE e \in (Texts \X Texts) \cup (Chats \X Chats)
    <2>1. PICK a \in Received, b \in Received : e = << a, b >>
        BY <1>2 DEF Received
    <2> QED
        BY <2>1
<1> QED
    BY <1>1, <1>2 DEF Entries

\* What is read of a payload is an entry.
LEMMA HeadIsEntry == \A payload \in Payloads : Head(payload) \in Entries
<1> TAKE payload \in Payloads
<1>1. CASE payload \in { << e >> : e \in Entries }
    <2>1. PICK e \in Entries : payload = << e >>
        BY <1>1
    <2> QED
        BY <2>1
<1>2. CASE payload \in Entries \X Entries
    <2>1. PICK a \in Entries, b \in Entries : payload = << a, b >>
        BY <1>2
    <2> QED
        BY <2>1
<1> QED
    BY <1>1, <1>2 DEF Payloads

\* A step that moves one hook's pc and no row but those of talk, which only grow.
LEMMA HookMovesOK ==
    ASSUME InboxInv, NEW h \in Hooks, NEW pc \in HookStates, HookMoves(h, pc),
           UNCHANGED << stored, answered >>,
           \A s \in Senders : talk[s] <= talk'[s] /\ talk'[s] <= 1, talk' \in [Senders -> Nat],
           pc \in {"create", "append"} => hook[h].left # << >> /\ Item(h) \in Chats,
           pc = "append" => talk'[SenderOf[Item(h)]] = 1
    PROVE  /\ hook' \in [ Hooks -> HookRecords ]
           /\ \A g \in Hooks : ToComeOrStored(g)' /\ ChatOK(g)'
           /\ RowsOK'
           /\ \A g \in Hooks \ {h} : hook'[g] = hook[g]
           /\ hook'[h].pc = pc
<1>1. hook \in [ Hooks -> HookRecords ]
    BY DEF InboxInv, InboxTypes
<1>2. /\ hook' \in [ Hooks -> HookRecords ]
      /\ \A g \in Hooks \ {h} : hook'[g] = hook[g]
      /\ hook'[h].pc = pc /\ hook'[h].left = hook[h].left /\ hook'[h].all = hook[h].all
    BY <1>1 DEF HookMoves, HookRecords
<1>3. \A g \in Hooks : hook'[g].left = hook[g].left /\ hook'[g].all = hook[g].all
    BY <1>2
<1>4. \A g \in Hooks : ToComeOrStored(g)'
    BY <1>3 DEF InboxInv, ToComeOrStored
<1>5. \A g \in Hooks : ChatOK(g)'
    <2> TAKE g \in Hooks
    <2>1. Item(g)' = Item(g)
        BY <1>3 DEF Item
    <2>2. CASE g = h
        BY <1>2, <2>1, <2>2 DEF ChatOK
    <2>3. CASE g # h
        <3>1. hook'[g] = hook[g] /\ ChatOK(g)
            BY <1>2, <2>3 DEF InboxInv
        <3>2. Item(g) \in Chats => SenderOf[Item(g)] \in Senders
            BY InboxAssumption
        <3> QED
            BY <2>1, <3>1, <3>2 DEF ChatOK, InboxInv, InboxTypes
    <2> QED
        BY <2>2, <2>3
<1>6. RowsOK'
    BY InboxAssumption DEF InboxInv, RowsOK, InboxTypes
<1> QED
    BY <1>2, <1>4, <1>5, <1>6

\* A step that makes one hook idle.
LEMMA HookEndsOK ==
    ASSUME InboxInv, NEW h \in Hooks, hook' = [hook EXCEPT ![h] = IdleHook],
           UNCHANGED << stored, talk >>
    PROVE  /\ hook' \in [ Hooks -> HookRecords ]
           /\ \A g \in Hooks : ToComeOrStored(g)' /\ ChatOK(g)'
           /\ \A g \in Hooks \ {h} : hook'[g] = hook[g]
           /\ hook'[h].pc = "idle"
<1>1. IdleHook \in HookRecords /\ IdleHook.pc = "idle" /\ IdleHook.all = << >>
    BY DEF IdleHook, HookRecords, HookStates
<1>2. /\ hook' \in [ Hooks -> HookRecords ]
      /\ \A g \in Hooks \ {h} : hook'[g] = hook[g]
      /\ hook'[h] = IdleHook
    BY <1>1 DEF InboxInv, InboxTypes
<1>3. ASSUME NEW g \in Hooks PROVE ToComeOrStored(g)' /\ ChatOK(g)'
    <2>1. CASE g = h
        BY <1>1, <1>2, <2>1 DEF ToComeOrStored, ChatOK
    <2>2. CASE g # h
        BY <1>2, <2>2 DEF InboxInv, ToComeOrStored, ChatOK, Item
    <2> QED
        BY <2>1, <2>2
<1> QED
    BY <1>1, <1>2, <1>3

\* A message is stored and its hook goes on to the next one.
LEMMA ItemDoneOK ==
    ASSUME InboxInv, NEW h \in Hooks, ItemDone(h), hook[h].left # << >>, Item(h) \in Received,
           NEW n \in Nat \ {0}, stored' = [stored EXCEPT ![Item(h)] = n],
           UNCHANGED << talk, reply, answered >>,
           Item(h) \in Texts => n <= 1,
           Item(h) \in Chats => talk[SenderOf[Item(h)]] = 1
    PROVE  InboxInv'
<1>1. hook \in [ Hooks -> HookRecords ] /\ stored \in [ Received -> Nat ]
    BY DEF InboxInv, InboxTypes
<1>2. hook[h] \in HookRecords /\ hook[h].left \in Seq(Received) /\ hook[h].all \in Seq(Received)
    BY <1>1 DEF HookRecords
<1>3. Tail(hook[h].left) \in Seq(Received)
    BY <1>2
<1>4. /\ hook' \in [ Hooks -> HookRecords ]
      /\ \A g \in Hooks \ {h} : hook'[g] = hook[g]
      /\ hook'[h].pc = "read" /\ hook'[h].left = Tail(hook[h].left) /\ hook'[h].all = hook[h].all
    BY <1>1, <1>3 DEF ItemDone, HookRecords, HookStates
<1>5. stored' \in [ Received -> Nat ] /\ stored'[Item(h)] = n
      /\ \A m \in Received \ {Item(h)} : stored'[m] = stored[m]
    BY <1>1
<1>6. ASSUME NEW g \in Hooks PROVE ToComeOrStored(g)'
    <2>1. CASE g = h
        <3> SUFFICES ASSUME NEW i \in DOMAIN hook[h].all, ~(stored'[hook[h].all[i]] > 0)
                     PROVE  \E j \in DOMAIN Tail(hook[h].left) : Tail(hook[h].left)[j] = hook[h].all[i]
            BY <1>4, <2>1 DEF ToComeOrStored
        <3>1. hook[h].all[i] \in Received
            BY <1>2
        <3>2. hook[h].all[i] # Item(h) /\ ~(stored[hook[h].all[i]] > 0)
            BY <1>5, <3>1
        <3>3. PICK j \in DOMAIN hook[h].left : hook[h].left[j] = hook[h].all[i]
            BY <3>2 DEF InboxInv, ToComeOrStored
        <3>4. j \in 1 .. Len(hook[h].left) /\ j # 1
            BY <1>2, <3>2, <3>3 DEF Item
        <3>5. /\ j - 1 \in DOMAIN Tail(hook[h].left)
              /\ Tail(hook[h].left)[j - 1] = hook[h].left[j]
            BY <1>2, <3>4
        <3> QED
            BY <3>3, <3>5
    <2>2. CASE g # h
        <3>1. hook'[g] = hook[g] /\ ToComeOrStored(g) /\ hook[g].all \in Seq(Received)
            BY <1>1, <1>4, <2>2 DEF InboxInv, HookRecords
        <3>2. \A m \in Received : stored[m] > 0 => stored'[m] > 0
            BY <1>1, <1>5
        <3> QED
            BY <3>1, <3>2 DEF ToComeOrStored
    <2> QED
        BY <2>1, <2>2
<1>7. ASSUME NEW g \in Hooks PROVE ChatOK(g)'
    <2>1. CASE g = h
        BY <1>4, <2>1 DEF ChatOK
    <2>2. CASE g # h
        BY <1>4, <2>2 DEF InboxInv, ChatOK, Item
    <2> QED
        BY <2>1, <2>2
<1>8. RepliesOK'
    BY <1>4 DEF InboxInv, RepliesOK, Replying
<1>9. RowsOK'
    <2>1. \A m \in Texts : stored'[m] <= 1
        BY <1>5 DEF InboxInv, RowsOK, Received
    <2>2. \A m \in answered : stored'[m] > 0
        BY <1>5 DEF InboxInv, RowsOK, InboxTypes
    <2>3. \A m \in Chats : stored'[m] > 0 => talk[SenderOf[m]] = 1
        BY <1>5 DEF InboxInv, RowsOK, Received
    <2> QED
        BY <2>1, <2>2, <2>3 DEF InboxInv, RowsOK
<1>10. InboxTypes'
    BY <1>4, <1>5 DEF InboxInv, InboxTypes
<1> QED
    BY <1>6, <1>7, <1>8, <1>9, <1>10 DEF InboxInv

LEMMA PayloadStep ==
    ASSUME InboxInv, NEW h \in Hooks,
           \/ \E payload \in Payloads : Receive(h, payload)
           \/ StoreText(h) \/ FindTalk(h) \/ CreateTalk(h) \/ StoreChat(h)
    PROVE  InboxInv'
<1>0. /\ hook \in [ Hooks -> HookRecords ] /\ hook[h] \in HookRecords
      /\ stored \in [ Received -> Nat ] /\ talk \in [ Senders -> Nat ]
    BY DEF InboxInv, InboxTypes
<1>1. ASSUME NEW payload \in Payloads, Receive(h, payload) PROVE InboxInv'
    <2> DEFINE msgs == Head(payload)
               New == [ pc |-> "read", left |-> msgs, all |-> msgs ]
    <2>1. New \in HookRecords
        <3>1. msgs \in Seq(Received)
            BY HeadIsEntry, EntriesAreSequences
        <3> HIDE DEF msgs
        <3> QED
            BY <3>1 DEF HookRecords, HookStates
    <2>2. hook' \in [ Hooks -> HookRecords ] /\ hook'[h] = New
          /\ \A g \in Hooks \ {h} : hook'[g] = hook[g]
        BY <1>0, <1>1, <2>1 DEF Receive
    <2>3. ASSUME NEW g \in Hooks PROVE ToComeOrStored(g)' /\ ChatOK(g)'
        <3>1. CASE g = h
            BY <1>1, <2>2, <3>1 DEF ToComeOrStored, ChatOK
        <3>2. CASE g # h
            BY <1>1, <2>2, <3>2 DEF InboxInv, ToComeOrStored, ChatOK, Item, Receive
        <3> QED
            BY <3>1, <3>2
    <2>4. RepliesOK'
        BY <1>1, <2>2 DEF InboxInv, RepliesOK, Replying, Receive
    <2> QED
        BY <1>1, <2>2, <2>3, <2>4 DEF InboxInv, InboxTypes, RowsOK, Receive
<1>2. CASE StoreText(h)
    <2>1. Item(h) \in Received /\ stored[Item(h)] \in Nat /\ stored[Item(h)] <= 1 /\ Item(h) \notin Chats
        BY <1>0, <1>2, InboxAssumption DEF StoreText, Received, InboxInv, RowsOK
    <2>2. RowsAfterUpsert(Item(h)) = 1
        BY <2>1 DEF RowsAfterUpsert
    <2>3. stored' = [stored EXCEPT ![Item(h)] = 1]
        BY <1>2, <2>2 DEF StoreText
    <2>4. /\ ItemDone(h) /\ hook[h].left # << >> /\ UNCHANGED << talk, reply, answered >>
          /\ 1 \in Nat \ {0} /\ 1 <= 1 /\ (Item(h) \in Chats => talk[SenderOf[Item(h)]] = 1)
        BY <1>2, <2>1 DEF StoreText, Reading
    <2> QED
        BY <2>1, <2>3, <2>4, ItemDoneOK
<1>3. CASE FindTalk(h)
    <2> DEFINE Then == IF talk[SenderOf[Item(h)]] = 0 THEN "create" ELSE "append"
    <2>1. Then \in HookStates /\ SenderOf[Item(h)] \in Senders
        BY <1>3, InboxAssumption DEF FindTalk, HookStates
    <2>2. talk[SenderOf[Item(h)]] \in Nat /\ talk[SenderOf[Item(h)]] <= 1
        BY <1>0, <2>1 DEF InboxInv, RowsOK
    <2>3. /\ hook' \in [ Hooks -> HookRecords ]
          /\ \A g \in Hooks : ToComeOrStored(g)' /\ ChatOK(g)'
          /\ RowsOK'
          /\ \A g \in Hooks \ {h} : hook'[g] = hook[g]
          /\ hook'[h].pc = Then
        <3> HIDE DEF Then
        <3>1. \A s \in Senders : talk[s] <= talk'[s] /\ talk'[s] <= 1
            BY <1>0, <1>3 DEF FindTalk, InboxInv, RowsOK
        <3>2. Then = "append" => talk'[SenderOf[Item(h)]] = 1
            BY <1>3, <2>2 DEF Then, FindTalk
        <3>3. HookMoves(h, Then) /\ UNCHANGED << stored, talk, answered >>
              /\ hook[h].left # << >> /\ Item(h) \in Chats
            BY <1>3 DEF FindTalk, Then, Reading
        <3> QED
            BY <1>0, <2>1, <3>1, <3>2, <3>3, HookMovesOK
    <2>4. RepliesOK'
        BY <1>3, <2>3 DEF InboxInv, RepliesOK, Replying, FindTalk
    <2> QED
        BY <1>3, <2>3, <2>4 DEF InboxInv, InboxTypes, FindTalk
<1>4. CASE CreateTalk(h)
    <2>1. hook[h].left # << >> /\ Item(h) \in Chats /\ SenderOf[Item(h)] \in Senders
        BY <1>4, InboxAssumption DEF CreateTalk, HookAt, InboxInv, ChatOK
    <2>2. talk' \in [ Senders -> Nat ] /\ talk'[SenderOf[Item(h)]] = 1
          /\ \A s \in Senders : talk[s] <= talk'[s] /\ talk'[s] <= 1
        BY <1>0, <1>4, <2>1 DEF CreateTalk, InboxInv, RowsOK
    <2>3. /\ hook' \in [ Hooks -> HookRecords ]
          /\ \A g \in Hooks : ToComeOrStored(g)' /\ ChatOK(g)'
          /\ RowsOK'
          /\ \A g \in Hooks \ {h} : hook'[g] = hook[g]
          /\ hook'[h].pc = "append"
        <3>1. HookMoves(h, "append") /\ UNCHANGED << stored, answered >> /\ "append" \in HookStates
            BY <1>4 DEF CreateTalk, HookStates
        <3> QED
            BY <2>1, <2>2, <3>1, HookMovesOK
    <2>4. RepliesOK'
        BY <1>4, <2>3 DEF InboxInv, RepliesOK, Replying, CreateTalk
    <2> QED
        BY <1>4, <2>2, <2>3, <2>4 DEF InboxInv, InboxTypes, CreateTalk
<1>5. CASE StoreChat(h)
    <2>1. /\ hook[h].left # << >> /\ Item(h) \in Chats /\ Item(h) \notin Texts /\ Item(h) \in Received
          /\ talk[SenderOf[Item(h)]] = 1
        BY <1>5, InboxAssumption DEF StoreChat, HookAt, InboxInv, ChatOK, Received
    <2>2. stored[Item(h)] + 1 \in Nat \ {0} /\ stored' = [stored EXCEPT ![Item(h)] = stored[Item(h)] + 1]
        BY <1>0, <1>5, <2>1 DEF StoreChat
    <2> QED
        BY <1>5, <2>1, <2>2, ItemDoneOK DEF StoreChat
<1> QED
    BY <1>1, <1>2, <1>3, <1>4, <1>5

LEMMA HookAnswers == ASSUME InboxInv, NEW h \in Hooks, AnswerHook(h) PROVE InboxInv'
<1>1. UNCHANGED << stored, talk, reply >> /\ hook' = [hook EXCEPT ![h] = IdleHook]
    BY DEF AnswerHook
<1>2. /\ hook' \in [ Hooks -> HookRecords ]
      /\ \A g \in Hooks : ToComeOrStored(g)' /\ ChatOK(g)'
      /\ \A g \in Hooks \ {h} : hook'[g] = hook[g]
      /\ hook'[h].pc = "idle"
    BY <1>1, HookEndsOK
<1>3. \A i \in DOMAIN hook[h].all : hook[h].all[i] \in Received /\ stored[hook[h].all[i]] > 0
    <2>1. hook[h].all \in Seq(Received) /\ hook[h].left = << >>
        BY DEF AnswerHook, InboxInv, InboxTypes, HookRecords
    <2> QED
        BY <2>1 DEF InboxInv, ToComeOrStored
<1>4. \A m \in answered' : m \in Received /\ stored[m] > 0
    BY <1>3 DEF AnswerHook, InboxInv, RowsOK, InboxTypes
<1>5. RowsOK'
    BY <1>1, <1>4 DEF InboxInv, RowsOK
<1>6. RepliesOK'
    BY <1>1, <1>2 DEF InboxInv, RepliesOK, Replying
<1>7. answered' \in SUBSET Received
    BY <1>4
<1>8. InboxTypes'
    BY <1>1, <1>2, <1>7 DEF InboxInv, InboxTypes
<1> QED
    BY <1>2, <1>5, <1>6, <1>8 DEF InboxInv

LEMMA ReplyStep ==
    ASSUME InboxInv, NEW h \in Hooks,
           FailHook(h) \/ ReadWindow(h) \/ PostReply(h) \/ ReplyRefused(h) \/ KeepReply(h)
    PROVE  InboxInv'
<1>0. /\ reply \in [ there : BOOLEAN, row : ReplyRows ]
      /\ \A s \in Senders : talk[s] <= talk[s] /\ talk[s] <= 1 /\ talk \in [ Senders -> Nat ]
    BY DEF InboxInv, InboxTypes, RowsOK
<1>1. CASE ReadWindow(h) \/ PostReply(h)
    <2> DEFINE Then == IF ReadWindow(h) THEN "window" ELSE "sent"
    <2>1. HookMoves(h, Then) /\ UNCHANGED << stored, talk, answered >> /\ Then \in HookStates
        BY <1>1 DEF ReadWindow, PostReply, HookStates
    <2>2. /\ hook' \in [ Hooks -> HookRecords ]
          /\ \A g \in Hooks : ToComeOrStored(g)' /\ ChatOK(g)'
          /\ RowsOK'
          /\ \A g \in Hooks \ {h} : hook'[g] = hook[g]
          /\ hook'[h].pc = Then
        <3>1. Then \notin {"create", "append"} /\ talk' \in [ Senders -> Nat ]
              /\ \A s \in Senders : talk[s] <= talk'[s] /\ talk'[s] <= 1
            BY <1>0, <2>1 DEF InboxInv, InboxTypes
        <3> HIDE DEF Then
        <3> QED
            BY <2>1, <3>1, HookMovesOK
    <2>3. reply' \in [ there : BOOLEAN, row : ReplyRows ]
        <3>1. CASE ReadWindow(h)
            BY <3>1 DEF ReadWindow, NoReply, ReplyRows
        <3>2. CASE PostReply(h)
            BY <1>0, <3>2 DEF PostReply
        <3> QED
            BY <1>1, <3>1, <3>2
    <2>4. RepliesOK'
        <3>1. CASE ReadWindow(h)
            <4>1. reply'.row = "none" /\ Then = "window" /\ \A g \in Hooks : ~Replying(g)
                BY <3>1 DEF ReadWindow, NoReply, HookAt, Replying
            <4> QED
                BY <2>2, <4>1 DEF RepliesOK, Replying
        <3>2. CASE PostReply(h) /\ ~ReadWindow(h)
            <4>1. reply'.there /\ Then = "sent" /\ Replying(h)
                BY <1>0, <3>2 DEF PostReply, HookAt, Replying
            <4> QED
                BY <2>2, <4>1 DEF InboxInv, RepliesOK, Replying
        <3> QED
            BY <1>1, <3>1, <3>2
    <2> QED
        BY <1>0, <2>1, <2>2, <2>3, <2>4 DEF InboxInv, InboxTypes
<1>2. CASE FailHook(h) \/ ReplyRefused(h) \/ KeepReply(h)
    <2>1. UNCHANGED << stored, talk, answered >> /\ hook' = [hook EXCEPT ![h] = IdleHook]
        BY <1>2 DEF FailHook, ReplyRefused, KeepReply
    <2>2. /\ hook' \in [ Hooks -> HookRecords ]
          /\ \A g \in Hooks : ToComeOrStored(g)' /\ ChatOK(g)'
          /\ \A g \in Hooks \ {h} : hook'[g] = hook[g]
          /\ hook'[h].pc = "idle"
        BY <2>1, HookEndsOK
    <2>3. reply' \in [ there : BOOLEAN, row : ReplyRows ] /\ reply'.there = reply.there
          /\ (reply'.row \in {"SENT", "READ"} => reply.there)
        <3>1. CASE FailHook(h)
            BY <1>0, <3>1 DEF FailHook, InboxInv, RepliesOK
        <3>2. CASE ReplyRefused(h)
            BY <1>0, <3>2 DEF ReplyRefused, ReplyRows
        <3>3. CASE KeepReply(h)
            <4>1. reply.there
                BY <3>3 DEF KeepReply, HookAt, InboxInv, RepliesOK
            <4> QED
                BY <1>0, <3>3, <4>1 DEF KeepReply, ReplyRows
        <3> QED
            BY <1>2, <3>1, <3>2, <3>3
    <2>4. RepliesOK'
        BY <2>2, <2>3 DEF InboxInv, RepliesOK, Replying
    <2>5. RowsOK'
        BY <2>1 DEF InboxInv, RowsOK
    <2> QED
        BY <2>1, <2>2, <2>3, <2>4, <2>5 DEF InboxInv, InboxTypes
<1> QED
    BY <1>1, <1>2

LEMMA InboxNextOK == InboxInv /\ [InboxNext]_inboxVars => InboxInv'
<1> SUFFICES ASSUME InboxInv, [InboxNext]_inboxVars PROVE InboxInv'
    OBVIOUS
<1>1. CASE UNCHANGED inboxVars
    BY <1>1 DEF inboxVars, InboxInv, InboxTypes, ToComeOrStored, ChatOK, Item, RepliesOK, Replying, RowsOK
<1>2. CASE Status
    <2>1. reply' \in [ there : BOOLEAN, row : ReplyRows ] /\ reply'.there
        BY <1>2 DEF Status, ReplyRows, InboxInv, InboxTypes
    <2>2. InboxTypes' /\ RepliesOK'
        BY <1>2, <2>1 DEF Status, InboxInv, InboxTypes, RepliesOK, Replying
    <2>3. \A h \in Hooks : ToComeOrStored(h)' /\ ChatOK(h)'
        BY <1>2 DEF Status, InboxInv, ToComeOrStored, ChatOK, Item
    <2>4. RowsOK'
        BY <1>2 DEF Status, InboxInv, RowsOK
    <2> QED
        BY <2>2, <2>3, <2>4 DEF InboxInv
<1>3. ASSUME NEW h \in Hooks,
             \/ \E payload \in Payloads : Receive(h, payload)
             \/ StoreText(h) \/ FindTalk(h) \/ CreateTalk(h) \/ StoreChat(h)
      PROVE  InboxInv'
    BY <1>3, PayloadStep
<1>4. ASSUME NEW h \in Hooks, AnswerHook(h) PROVE InboxInv'
    BY <1>4, HookAnswers
<1>5. ASSUME NEW h \in Hooks,
             FailHook(h) \/ ReadWindow(h) \/ PostReply(h) \/ ReplyRefused(h) \/ KeepReply(h)
      PROVE  InboxInv'
    BY <1>5, ReplyStep
<1> QED
    BY <1>1, <1>2, <1>3, <1>4, <1>5 DEF InboxNext

\* handleWebhookPayload and sendReply: however payloads are repeated, overlap and fail, a
\* WhatsApp message is one row, a customer one conversation, a message of the first entry of a payload
\* that was answered is stored, and no row says SENT of a reply that the platform did not take.
THEOREM MessagesAreKept == InboxSpec => []KeptOnce
<1>1. InboxInv => KeptOnce
    BY DEF InboxInv, RowsOK, RepliesOK, KeptOnce
<1> QED
    BY <1>1, InboxInitOK, InboxNextOK, PTL DEF InboxSpec

-----------------------------------------------------------------------------
(* VariantEdits, for any finite number of forms.  The edits whose           *)
(* PriceHistory row is still to come are steps of a walk over the prices    *)
(* that begins at the last row of the history and ends at the price of the  *)
(* variant: as many of them lead to a price as away from it, but for the    *)
(* two ends.  No row has to be the next one for this to hold.               *)

InLog    == { f \in Forms : form[f].pc = "log" }
Into(p)  == { f \in InLog : form[f].price = p }
OutOf(p) == { f \in InLog : form[f].old = p }

Balance(p) == Cardinality(Into(p)) + (IF ledger = p THEN 1 ELSE 0)
              = Cardinality(OutOf(p)) + (IF variant.price = p THEN 1 ELSE 0)

\* A form whose updatedAt is still that of the row has seen the row as it is.
Seen(r) ==
    r.pc \in {"open", "sent"} =>
        /\ r.saw.at <= variant.at
        /\ r.saw.at = variant.at => r.saw = variant /\ (r.pc = "sent" => r.old = variant.price)

VariantInv ==
    /\ VariantTypeOK /\ ~blind
    /\ \A f \in Forms : Seen(form[f])
    /\ IsFiniteSet(InLog)
    /\ ~patchy => \A p \in Prices : Balance(p)

LEMMA IdleFormTyped ==
    ASSUME NEW r \in VariantRows
    PROVE  IdleForm(r) \in FormStates /\ IdleForm(r).pc = "idle"
BY VariantAssumption DEF IdleForm, FormStates, VariantRows

LEMMA FirstRowTyped == FirstRow \in VariantRows /\ AnyPrice \in Prices
BY VariantAssumption DEF FirstRow, VariantRows, AnyPrice

LEMMA VariantInitOK == VariantInit => VariantInv
<1> SUFFICES ASSUME VariantInit PROVE VariantInv
    OBVIOUS
<1>1. \A f \in Forms : form[f] \in FormStates /\ form[f].pc = "idle"
    BY FirstRowTyped, IdleFormTyped DEF VariantInit
<1>2. VariantTypeOK
    BY <1>1, FirstRowTyped DEF VariantInit, VariantTypeOK, FirstRow
<1>3. InLog = {}
    BY <1>1 DEF InLog
<1>4. \A p : Into(p) = {} /\ OutOf(p) = {}
    BY <1>3 DEF Into, OutOf
<1>5. \A p \in Prices : Balance(p)
    BY <1>4, FS_EmptySet DEF Balance, VariantInit
<1> QED
    BY <1>1, <1>2, <1>3, <1>5, FS_EmptySet DEF VariantInv, Seen, VariantInit

\* A step of one form that neither begins nor ends a wait for its PriceHistory row.
LEMMA FormStep ==
    ASSUME VariantInv, NEW f \in Forms, NEW u \in FormStates, form' = [form EXCEPT ![f] = u],
           form[f].pc # "log", u.pc # "log"
    PROVE  InLog' = InLog /\ \A p : Into(p)' = Into(p) /\ OutOf(p)' = OutOf(p)
<1>1. \A g \in Forms : form'[g] = IF g = f THEN u ELSE form[g]
    BY DEF VariantInv, VariantTypeOK
<1>2. InLog' = InLog /\ \A g \in InLog : form'[g] = form[g]
    BY <1>1 DEF InLog
<1> QED
    BY <1>2 DEF Into, OutOf

LEMMA LoadStep == ASSUME VariantInv, NEW f \in Forms, Load(f) PROVE VariantInv'
<1>1. PICK u \in FormStates : /\ form' = [form EXCEPT ![f] = u]
                              /\ u.pc = "open" /\ u.saw = variant
    <2>1. /\ [IdleForm(variant) EXCEPT !.pc = "open"] \in FormStates
          /\ [IdleForm(variant) EXCEPT !.pc = "open"].pc = "open"
          /\ [IdleForm(variant) EXCEPT !.pc = "open"].saw = variant
        BY IdleFormTyped DEF VariantInv, VariantTypeOK, IdleForm, FormStates
    <2> QED
        BY <2>1 DEF Load
<1>2. /\ form[f].pc = "idle" /\ form' \in [Forms -> FormStates]
      /\ UNCHANGED << variant, ledger, blind, patchy >>
    BY <1>1 DEF Load, VariantInv, VariantTypeOK
<1>3. InLog' = InLog /\ \A p : Into(p)' = Into(p) /\ OutOf(p)' = OutOf(p)
    BY <1>1, <1>2, FormStep
<1>4. VariantTypeOK'
    BY <1>2 DEF VariantInv, VariantTypeOK
<1>5. \A p \in Prices : Balance(p)' = Balance(p)
    BY <1>2, <1>3 DEF Balance
<1>6. variant.at \in Nat
    BY VariantAssumption DEF VariantInv, VariantTypeOK, VariantRows
<1>7. \A g \in Forms : Seen(form[g])'
    BY <1>1, <1>2, <1>6 DEF Seen, VariantInv, VariantTypeOK
<1> QED
    BY <1>2, <1>3, <1>4, <1>5, <1>7 DEF VariantInv

LEMMA SendStep ==
    ASSUME VariantInv, NEW f \in Forms, NEW price \in Prices, NEW units \in 0 .. MostStock,
           NEW sets \in SUBSET {"price", "stock"}, Send(f, price, units, sets)
    PROVE  VariantInv'
<1>1. form[f] \in FormStates /\ form[f].pc = "open" /\ variant \in VariantRows
    BY DEF VariantInv, VariantTypeOK, Send
<1>2. PICK u \in FormStates : /\ form' = [form EXCEPT ![f] = u]
                              /\ u.pc = "sent" /\ u.saw = form[f].saw /\ u.old = variant.price
    <2> DEFINE p == IF "price" \in sets THEN price ELSE variant.price
    <2> DEFINE s == IF "stock" \in sets THEN units ELSE 0
    <2> DEFINE w == [form[f] EXCEPT !.pc = "sent", !.old = variant.price,
                         !.price = p, !.stock = s, !.sets = sets]
    <2>1. p \in Prices /\ s \in 0 .. MostStock /\ variant.price \in Prices
        BY <1>1, VariantAssumption DEF VariantRows
    <2> HIDE DEF p, s
    <2>2. w \in FormStates /\ w.pc = "sent" /\ w.saw = form[f].saw /\ w.old = variant.price
        BY <1>1, <2>1 DEF FormStates
    <2>3. form' = [form EXCEPT ![f] = w]
        BY <1>1 DEF Send, VariantInv, VariantTypeOK, FormStates, p, s
    <2> QED
        BY <2>2, <2>3
<1>3. form' \in [Forms -> FormStates] /\ UNCHANGED << variant, ledger, blind, patchy >>
    <2>1. form \in [Forms -> FormStates]
        BY DEF VariantInv, VariantTypeOK
    <2>2. form' \in [Forms -> FormStates]
        BY <1>2, <2>1
    <2> QED
        BY <2>2 DEF Send
<1>4. InLog' = InLog /\ \A p : Into(p)' = Into(p) /\ OutOf(p)' = OutOf(p)
    BY <1>1, <1>2, FormStep
<1>5. VariantTypeOK'
    BY <1>3 DEF VariantInv, VariantTypeOK
<1>6. \A p \in Prices : Balance(p)' = Balance(p)
    BY <1>3, <1>4 DEF Balance
<1>7. \A g \in Forms : Seen(form[g])'
    BY <1>1, <1>2, <1>3 DEF Seen, VariantInv, VariantTypeOK
<1> QED
    BY <1>3, <1>4, <1>5, <1>6, <1>7 DEF VariantInv

\* Every write moves updatedAt on, so that no form has seen the row as it is now.
LEMMA WriteHides ==
    ASSUME VariantInv, NEW price \in Prices, NEW units \in 0 .. MostStock, WriteVariant(price, units)
    PROVE  /\ variant' \in VariantRows /\ variant'.price = price
           /\ \A r \in FormStates : Seen(r) => Seen(r)'
<1>1. /\ variant' \in VariantRows /\ variant'.price = price
      /\ variant.at \in Nat /\ variant'.at = variant.at + 1
    BY VariantAssumption DEF VariantInv, VariantTypeOK, VariantRows, WriteVariant
<1>2. ASSUME NEW r \in FormStates, Seen(r) PROVE Seen(r)'
    <2>1. r.saw.at \in Nat
        BY VariantAssumption DEF FormStates, VariantRows
    <2> QED
        BY <1>1, <1>2, <2>1 DEF Seen
<1> QED
    BY <1>1, <1>2

LEMMA UpdateVariantStep == ASSUME VariantInv, NEW f \in Forms, UpdateVariant(f) PROVE VariantInv'
<1> DEFINE r == form[f]
<1> DEFINE price == IF "price" \in r.sets THEN r.price ELSE variant.price
<1> DEFINE units == IF "stock" \in r.sets THEN r.stock ELSE variant.stock
<1> DEFINE logs == "price" \in r.sets /\ r.price # r.old
<1>1. /\ r \in FormStates /\ r.pc = "sent" /\ r.saw = variant /\ r.old = variant.price
      /\ variant \in VariantRows
    BY DEF VariantInv, VariantTypeOK, UpdateVariant, StillAsSeen, Seen
<1>2. WriteVariant(price, units) /\ UNCHANGED << ledger, patchy >> /\ blind' = FALSE
    BY <1>1 DEF UpdateVariant, VariantInv
<1>3. /\ price \in Prices /\ units \in 0 .. MostStock
      /\ logs => price = r.price
      /\ ~logs => price = variant.price
    BY <1>1 DEF FormStates, VariantRows
<1> HIDE DEF price, units
<1>4. /\ variant' \in VariantRows /\ variant'.price = price
      /\ \A u \in FormStates : Seen(u) => Seen(u)'
    BY <1>2, <1>3, WriteHides
<1>5. PICK u \in FormStates :
        /\ form' = [form EXCEPT ![f] = u]
        /\ u.pc = (IF logs THEN "log" ELSE "idle")
        /\ logs => u.price = r.price /\ u.old = r.old
    <2>1. /\ [r EXCEPT !.pc = "log"] \in FormStates /\ [r EXCEPT !.pc = "log"].pc = "log"
          /\ [r EXCEPT !.pc = "log"].price = r.price /\ [r EXCEPT !.pc = "log"].old = r.old
        BY <1>1 DEF FormStates
    <2>2. IdleForm(FirstRow) \in FormStates /\ IdleForm(FirstRow).pc = "idle"
        BY FirstRowTyped, IdleFormTyped
    <2>3. form' = [form EXCEPT ![f] = IF logs THEN [r EXCEPT !.pc = "log"] ELSE IdleForm(FirstRow)]
        BY DEF UpdateVariant
    <2>4. CASE logs
        BY <2>1, <2>3, <2>4
    <2>5. CASE ~logs
        BY <2>2, <2>3, <2>5
    <2> QED
        BY <2>4, <2>5
<1> HIDE DEF r, logs
<1>6. /\ form' \in [Forms -> FormStates]
      /\ \A g \in Forms : form'[g] = IF g = f THEN u ELSE form[g]
    BY <1>5 DEF VariantInv, VariantTypeOK
<1>7. VariantTypeOK'
    BY <1>2, <1>4, <1>6 DEF VariantInv, VariantTypeOK
<1>8. ASSUME NEW g \in Forms PROVE Seen(form[g])'
    <2>1. PICK w \in FormStates : w = form'[g] /\ Seen(w)
        BY <1>5, <1>6 DEF Seen, VariantInv, VariantTypeOK
    <2> QED
        BY <1>4, <2>1 DEF Seen
<1>9. IsFiniteSet(InLog') /\ (~patchy' => \A p \in Prices : Balance(p)')
    <2>1. CASE logs
        <3>1. f \notin InLog /\ InLog' = InLog \cup {f}
            BY <1>1, <1>5, <1>6, <2>1 DEF InLog, r
        <3>2. \A p : Into(p)' = IF p = price THEN Into(p) \cup {f} ELSE Into(p)
            BY <1>3, <1>5, <1>6, <2>1, <3>1 DEF Into, InLog
        <3>3. \A p : OutOf(p)' = IF p = variant.price THEN OutOf(p) \cup {f} ELSE OutOf(p)
            BY <1>1, <1>5, <1>6, <2>1, <3>1 DEF OutOf, InLog
        <3>4. IsFiniteSet(InLog')
            BY <3>1, FS_AddElement DEF VariantInv
        <3>5. ASSUME NEW p \in Prices, ~patchy' PROVE Balance(p)'
            <4>1. /\ IsFiniteSet(Into(p)) /\ IsFiniteSet(OutOf(p))
                  /\ f \notin Into(p) /\ f \notin OutOf(p)
                BY <3>1, FS_Subset DEF VariantInv, Into, OutOf
            <4>2. /\ Cardinality(Into(p)) \in Nat /\ Cardinality(OutOf(p)) \in Nat
                  /\ Cardinality(Into(p) \cup {f}) = Cardinality(Into(p)) + 1
                  /\ Cardinality(OutOf(p) \cup {f}) = Cardinality(OutOf(p)) + 1
                BY <4>1, FS_AddElement, FS_CardinalityType
            <4>3. Balance(p)
                BY <1>2, <3>5 DEF VariantInv
            <4>4. Cardinality(Into(p)') = Cardinality(Into(p)) + (IF p = price THEN 1 ELSE 0)
                <5>1. CASE p = price
                    BY <3>2, <4>2, <5>1
                <5>2. CASE p # price
                    BY <3>2, <4>2, <5>2
                <5> QED
                    BY <5>1, <5>2
            <4>5. Cardinality(OutOf(p)') = Cardinality(OutOf(p)) + (IF p = variant.price THEN 1 ELSE 0)
                <5>1. CASE p = variant.price
                    BY <3>3, <4>2, <5>1
                <5>2. CASE p # variant.price
                    BY <3>3, <4>2, <5>2
                <5> QED
                    BY <5>1, <5>2
            <4> QED
                BY <1>2, <1>4, <4>2, <4>3, <4>4, <4>5 DEF Balance
        <3> QED
            BY <3>4, <3>5
    <2>2. CASE ~logs
        <3>1. InLog' = InLog /\ \A p : Into(p)' = Into(p) /\ OutOf(p)' = OutOf(p)
            BY <1>1, <1>5, <2>2, FormStep DEF r
        <3>2. variant'.price = variant.price
            BY <1>3, <1>4, <2>2
        <3> QED
            BY <1>2, <3>1, <3>2 DEF Balance, VariantInv
    <2> QED
        BY <2>1, <2>2
<1> QED
    BY <1>2, <1>7, <1>8, <1>9 DEF VariantInv

LEMMA LogPriceStep == ASSUME VariantInv, NEW f \in Forms, LogPrice(f) PROVE VariantInv'
<1>1. /\ form[f] \in FormStates /\ form[f].pc = "log" /\ f \in InLog
      /\ variant' = variant /\ ledger' = form[f].price /\ ledger' \in Prices
      /\ blind' = blind /\ patchy' \in BOOLEAN
    BY DEF VariantInv, VariantTypeOK, LogPrice, FormStates, InLog
<1>2. ~patchy' => ~patchy /\ form[f].old = ledger
    BY DEF LogPrice
<1>3. PICK u \in FormStates : form' = [form EXCEPT ![f] = u] /\ u.pc = "idle"
    BY FirstRowTyped, IdleFormTyped DEF LogPrice
<1>4. form' \in [Forms -> FormStates] /\ \A g \in Forms : form'[g] = IF g = f THEN u ELSE form[g]
    BY <1>3 DEF VariantInv, VariantTypeOK
<1>5. VariantTypeOK'
    BY <1>1, <1>4 DEF VariantInv, VariantTypeOK
<1>6. \A g \in Forms : Seen(form[g])'
    BY <1>1, <1>3, <1>4 DEF VariantInv, Seen
<1>7. InLog' = InLog \ {f} /\ IsFiniteSet(InLog')
    <2>1. InLog' = InLog \ {f}
        BY <1>3, <1>4 DEF InLog
    <2> QED
        BY <2>1, FS_RemoveElement DEF VariantInv
<1>8. \A p : /\ Into(p)' = Into(p) \ {f} /\ (f \in Into(p) <=> p = form[f].price)
             /\ OutOf(p)' = OutOf(p) \ {f} /\ (f \in OutOf(p) <=> p = form[f].old)
    <2>1. \A g \in InLog' : form'[g] = form[g]
        BY <1>4, <1>7 DEF InLog
    <2>2. ASSUME NEW p PROVE Into(p)' = Into(p) \ {f} /\ OutOf(p)' = OutOf(p) \ {f}
        BY <1>7, <2>1 DEF Into, OutOf
    <2>3. ASSUME NEW p PROVE (f \in Into(p) <=> p = form[f].price) /\ (f \in OutOf(p) <=> p = form[f].old)
        BY <1>1 DEF Into, OutOf
    <2> QED
        BY <2>2, <2>3
<1>9. ASSUME NEW p \in Prices, ~patchy' PROVE Balance(p)'
    <2>1. IsFiniteSet(Into(p)) /\ IsFiniteSet(OutOf(p))
        BY FS_Subset DEF VariantInv, Into, OutOf
    <2>2. /\ Cardinality(Into(p)) \in Nat /\ Cardinality(OutOf(p)) \in Nat
          /\ Cardinality(Into(p)') = Cardinality(Into(p)) - (IF p = form[f].price THEN 1 ELSE 0)
          /\ Cardinality(OutOf(p)') = Cardinality(OutOf(p)) - (IF p = form[f].old THEN 1 ELSE 0)
        BY <1>8, <2>1, FS_RemoveElement, FS_CardinalityType
    <2>3. Balance(p)
        BY <1>2, <1>9 DEF VariantInv
    <2> QED
        BY <1>1, <1>2, <1>9, <2>2, <2>3 DEF Balance
<1> QED
    BY <1>1, <1>5, <1>6, <1>7, <1>9 DEF VariantInv

LEMMA CloseFormStep == ASSUME VariantInv, NEW f \in Forms, CloseForm(f) PROVE VariantInv'
<1>1. PICK u \in FormStates : form' = [form EXCEPT ![f] = u] /\ u.pc = "idle"
    BY FirstRowTyped, IdleFormTyped DEF CloseForm
<1>2. /\ form' \in [Forms -> FormStates] /\ \A g \in Forms : form'[g] = IF g = f THEN u ELSE form[g]
      /\ UNCHANGED << variant, ledger, blind >> /\ patchy' \in BOOLEAN
    BY <1>1 DEF CloseForm, VariantInv, VariantTypeOK
<1>3. VariantTypeOK'
    BY <1>2 DEF VariantInv, VariantTypeOK
<1>4. \A g \in Forms : Seen(form[g])'
    BY <1>1, <1>2 DEF VariantInv, Seen
<1>5. IsFiniteSet(InLog')
    <2>1. InLog' = InLog \ {f}
        BY <1>1, <1>2 DEF InLog
    <2> QED
        BY <2>1, FS_RemoveElement DEF VariantInv
<1>6. ASSUME NEW p \in Prices, ~patchy' PROVE Balance(p)'
    <2>1. ~patchy /\ form[f].pc # "log"
        BY <1>6 DEF CloseForm
    <2>2. Into(p)' = Into(p) /\ OutOf(p)' = OutOf(p)
        BY <1>1, <2>1, FormStep
    <2> QED
        BY <1>2, <2>1, <2>2 DEF VariantInv, Balance
<1> QED
    BY <1>2, <1>3, <1>4, <1>5, <1>6 DEF VariantInv

\* The writes that pass by the forms: of orders and of imports.
LEMMA OtherWriteStep ==
    ASSUME VariantInv, NEW price \in Prices, NEW units \in 0 .. MostStock, WriteVariant(price, units),
           UNCHANGED << form, ledger, blind >>, patchy' \in BOOLEAN,
           ~patchy' => ~patchy /\ price = variant.price
    PROVE  VariantInv'
<1>1. /\ variant' \in VariantRows /\ variant'.price = price
      /\ \A u \in FormStates : Seen(u) => Seen(u)'
    BY WriteHides
<1>2. VariantTypeOK'
    BY <1>1 DEF VariantInv, VariantTypeOK
<1>3. ASSUME NEW g \in Forms PROVE Seen(form[g])'
    <2>1. PICK w \in FormStates : w = form[g] /\ w = form'[g] /\ Seen(w)
        BY DEF VariantInv, VariantTypeOK, Seen
    <2> QED
        BY <1>1, <2>1 DEF Seen
<1>4. InLog' = InLog /\ \A p : Into(p)' = Into(p) /\ OutOf(p)' = OutOf(p)
    BY DEF InLog, Into, OutOf
<1>5. ~patchy' => \A p \in Prices : Balance(p)'
    BY <1>1, <1>4 DEF VariantInv, Balance
<1> QED
    BY <1>2, <1>3, <1>4, <1>5 DEF VariantInv

LEMMA VariantNextOK == VariantInv /\ [VariantNext]_variantVars => VariantInv'
<1> SUFFICES ASSUME VariantInv, [VariantNext]_variantVars PROVE VariantInv'
    OBVIOUS
<1>1. ASSUME NEW f \in Forms,
             \/ \E price \in Prices, units \in 0 .. MostStock, sets \in SUBSET {"price", "stock"} :
                    Send(f, price, units, sets)
             \/ Load(f) \/ UpdateVariant(f) \/ LogPrice(f) \/ CloseForm(f)
      PROVE  VariantInv'
    BY <1>1, SendStep, LoadStep, UpdateVariantStep, LogPriceStep, CloseFormStep
<1>2. ASSUME NEW units \in 0 .. MostStock, StockMoves(units) PROVE VariantInv'
    BY <1>2, OtherWriteStep DEF StockMoves, VariantInv, VariantTypeOK, VariantRows
<1>3. ASSUME NEW price \in Prices, NEW units \in 0 .. MostStock, ImportProducts(price, units)
      PROVE  VariantInv'
    BY <1>3, OtherWriteStep DEF ImportProducts, VariantInv, VariantTypeOK
<1>4. CASE UNCHANGED variantVars
    BY <1>4 DEF variantVars, VariantInv, VariantTypeOK, Seen, InLog, Balance, Into, OutOf
<1> QED
    BY <1>1, <1>2, <1>3, <1>4 DEF VariantNext

\* ProductsService.updateVariant: an edit replaces only what its administrator saw, and the
\* history ends with the price of the row once no row of it is awaited, unless a call
\* stopped before its row, an import changed the price, or two rows came out of order.
THEOREM EditsAreInformed == VariantSpec => []NoBlindEdit
<1>1. VariantInv => NoBlindEdit
    <2> SUFFICES ASSUME VariantInv, ~patchy, \A f \in Forms : form[f].pc # "log" PROVE ledger = variant.price
        BY DEF VariantInv, NoBlindEdit
    <2>1. \A p : Into(p) = {} /\ OutOf(p) = {}
        BY DEF InLog, Into, OutOf
    <2>2. Balance(ledger) /\ Cardinality({}) = 0
        BY FS_EmptySet DEF VariantInv, VariantTypeOK
    <2> QED
        BY <2>1, <2>2 DEF Balance
<1> QED
    BY VariantInitOK, VariantNextOK, <1>1, PTL DEF VariantSpec

-----------------------------------------------------------------------------
(* BackOffice, for any number of clerks.  What the log tells of and what    *)
(* calls have yet to tell are together no more than what was written, and   *)
(* no less unless a call stopped or an entry failed.                        *)

Wrote(op) == { c \in Clerks : clerk[c].pc = "wrote" /\ clerk[c].op = op }

Told(op) ==
    /\ IsFiniteSet(Wrote(op))
    /\ trail[op] + Cardinality(Wrote(op)) <= made[op]
    /\ ~missing /\ op \notin Rules.silent => trail[op] + Cardinality(Wrote(op)) = made[op]
    /\ op \in Rules.silent => Wrote(op) = {}

\* Each operation leaves the row in a state that the next one may start from.
RowFollows ==
    /\ made["create"] > 0 => made["create"] = 1 /\ entry.state # "none"
    /\ made["remove"] > 0 => entry.state = IF Rules.marks THEN "marked" ELSE "gone"
    /\ ~Rules.marks => made["remove"] <= 1

OfficeInv ==
    /\ OfficeTypeOK /\ RowFollows
    /\ \A op \in Operations : Told(op)
    /\ entry.starts < entry.ends
    /\ \A c \in Clerks : clerk[c].row.starts < clerk[c].row.ends

LEMMA RulesTyped ==
    ASSUME service \in DOMAIN Services
    PROVE  Rules.marks \in BOOLEAN /\ Rules.silent \subseteq Operations /\ Rules.ops \subseteq Operations
<1>1. \A looks, marks \in BOOLEAN, ops, silent \in SUBSET Operations :
         /\ Keeps(looks, marks, ops, silent).marks \in BOOLEAN
         /\ Keeps(looks, marks, ops, silent).silent \subseteq Operations
         /\ Keeps(looks, marks, ops, silent).ops \subseteq Operations
    BY DEF Keeps
<1>2. \A s \in { Reviews, Notes, Suppliers, Expenses, ListItems, Banners, Bundles, Collections, Pages, Templates } :
         s.marks \in BOOLEAN /\ s.silent \subseteq Operations /\ s.ops \subseteq Operations
    <2>1. {"create"} \subseteq Operations /\ {"update"} \subseteq Operations
        BY DEF Operations
    <2> QED
        BY <1>1, <2>1 DEF Reviews, Notes, Suppliers, Expenses, ListItems, Banners, Bundles, Collections,
                          Pages, Templates
<1>3. Rules \in { Reviews, Notes, Suppliers, Expenses, ListItems, Banners, Bundles, Collections, Pages, Templates }
    BY DEF Rules, Services
<1> QED
    BY <1>2, <1>3

LEMMA IdleClerkTyped ==
    /\ FirstEntry \in EntryRows /\ FirstEntry.starts < FirstEntry.ends
    /\ FirstEntry.state \in {"none", "there"}
    /\ IdleClerk \in ClerkStates /\ IdleClerk.pc = "idle" /\ IdleClerk.row = FirstEntry
<1>1. FirstDay \in Days /\ LastDay \in Days /\ FirstDay < LastDay
    <2>1. PICK a, z \in Days : a < z /\ \A d \in Days : a <= d /\ d <= z
        BY BackOfficeAssumption
    <2>2. FirstDay \in Days /\ \A e \in Days : FirstDay <= e
        BY <2>1 DEF FirstDay
    <2>3. LastDay \in Days /\ \A e \in Days : LastDay >= e
        BY <2>1, BackOfficeAssumption DEF LastDay
    <2> QED
        BY <2>1, <2>2, <2>3, BackOfficeAssumption
<1>2. /\ FirstEntry \in EntryRows /\ FirstEntry.starts < FirstEntry.ends
      /\ FirstEntry.state \in {"none", "there"}
    BY <1>1 DEF FirstEntry, EntryRows
<1> QED
    BY <1>2 DEF IdleClerk, ClerkStates, Operations

LEMMA OfficeInitOK == OfficeInit => OfficeInv
<1> SUFFICES ASSUME OfficeInit PROVE OfficeInv
    OBVIOUS
<1>1. OfficeTypeOK /\ \A c \in Clerks : clerk[c] = IdleClerk
    <2>1. clerk \in [Clerks -> ClerkStates] /\ \A c \in Clerks : clerk[c] = IdleClerk
        BY IdleClerkTyped DEF OfficeInit
    <2>2. Never \in [Operations -> 0 .. MostChanges]
        BY BackOfficeAssumption DEF Never
    <2> QED
        BY <2>1, <2>2, IdleClerkTyped DEF OfficeInit, OfficeTypeOK
<1>2. \A op \in Operations : made[op] = 0 /\ trail[op] = 0
    BY DEF OfficeInit, Never
<1>3. \A op \in Operations : Wrote(op) = {}
    BY <1>1, IdleClerkTyped DEF Wrote
<1>4. \A op \in Operations : Told(op)
    BY <1>2, <1>3, FS_EmptySet DEF Told
<1> QED
    BY <1>1, <1>2, <1>4, IdleClerkTyped DEF OfficeInv, RowFollows, OfficeInit, Operations

\* A call moves on without having written.
LEMMA ClerkStep ==
    ASSUME OfficeInv, NEW c \in Clerks, NEW u \in ClerkStates, clerk' = [clerk EXCEPT ![c] = u],
           clerk[c].pc # "wrote", u.pc # "wrote", u.row.starts < u.row.ends,
           UNCHANGED << service, entry, made, trail, missing >>, supplier' \in {"live", "marked"}
    PROVE  OfficeInv'
<1>1. clerk' \in [Clerks -> ClerkStates] /\ \A d \in Clerks : clerk'[d] = IF d = c THEN u ELSE clerk[d]
    BY DEF OfficeInv, OfficeTypeOK
<1>2. \A op \in Operations : Wrote(op)' = Wrote(op)
    BY <1>1 DEF Wrote
<1>3. OfficeTypeOK' /\ RowFollows'
    BY <1>1 DEF OfficeInv, OfficeTypeOK, RowFollows, Rules
<1>4. \A op \in Operations : Told(op)'
    BY <1>2 DEF OfficeInv, Told, Rules
<1> QED
    BY <1>1, <1>3, <1>4 DEF OfficeInv

LEMMA LookStep ==
    ASSUME OfficeInv, NEW c \in Clerks, NEW op \in Operations, NEW starts \in Days, NEW ends \in Days,
           NEW named \in BOOLEAN, Look(c, op, starts, ends, named)
    PROVE  OfficeInv'
<1>1. PICK asked \in EntryRows : asked = Asked(op, starts, ends, named) /\ asked.starts < asked.ends
    <2>1. entry \in EntryRows /\ entry.starts < entry.ends /\ starts < ends
        BY DEF Look, OfficeInv, OfficeTypeOK
    <2>2. /\ [entry EXCEPT !.starts = starts, !.ends = ends, !.named = named] \in EntryRows
          /\ [entry EXCEPT !.starts = starts, !.ends = ends, !.named = named].starts = starts
          /\ [entry EXCEPT !.starts = starts, !.ends = ends, !.named = named].ends = ends
        BY <2>1 DEF EntryRows
    <2> QED
        BY <2>1, <2>2 DEF Asked
<1>2. PICK u \in ClerkStates : clerk' = [clerk EXCEPT ![c] = u] /\ u.pc = "looked" /\ u.row = asked
    <2>1. [ pc |-> "looked", op |-> op, row |-> asked ] \in ClerkStates
        BY DEF ClerkStates
    <2> QED
        BY <1>1, <2>1 DEF Look
<1>3. clerk[c].pc = "idle" /\ UNCHANGED << service, entry, supplier, made, trail, missing >>
    BY DEF Look
<1> QED
    BY <1>1, <1>2, <1>3, ClerkStep DEF OfficeInv, OfficeTypeOK

LEMMA WriteEntryStep == ASSUME OfficeInv, NEW c \in Clerks, WriteEntry(c) PROVE OfficeInv'
<1>1. PICK r \in ClerkStates : /\ r = clerk[c] /\ r.pc = "looked" /\ r.row.starts < r.row.ends
                               /\ r.row \in EntryRows /\ r.op \in Operations
    BY DEF WriteEntry, OfficeInv, OfficeTypeOK, ClerkStates
<1>2. /\ Rules.marks \in BOOLEAN /\ Rules.silent \subseteq Operations
      /\ UNCHANGED << service, supplier, trail, missing, Rules >>
    BY RulesTyped DEF WriteEntry, OfficeInv, OfficeTypeOK, Rules
<1>3. \A op \in Operations : made[op] \in Nat /\ trail[op] \in Nat
    BY DEF OfficeInv, OfficeTypeOK
<1>4. /\ made' = [made EXCEPT ![r.op] = @ + 1]
      /\ made["create"] + made["update"] + made["remove"] < MostChanges
    BY <1>1 DEF WriteEntry, WritesLeft
<1>5. \A op \in Operations : made'[op] = made[op] + (IF op = r.op THEN 1 ELSE 0)
    BY <1>1, <1>3, <1>4 DEF OfficeInv, OfficeTypeOK
<1>6. made' \in [Operations -> 0 .. MostChanges]
    <2>1. \A op \in Operations : made'[op] \in 0 .. MostChanges
        BY <1>3, <1>4, <1>5, BackOfficeAssumption DEF Operations
    <2> QED
        BY <1>4, <2>1 DEF OfficeInv, OfficeTypeOK
<1>7. /\ entry' \in EntryRows /\ entry'.starts < entry'.ends
      /\ r.op = "create" => entry.state = "none" /\ entry'.state = "there"
      /\ r.op = "update" => entry.state \in {"there", "marked"} /\ entry'.state = entry.state
      /\ r.op = "remove" => /\ entry.state \in {"there", "marked"}
                            /\ entry'.state = IF Rules.marks THEN "marked" ELSE "gone"
    BY <1>1, <1>2 DEF WriteEntry, Updated, OfficeInv, OfficeTypeOK, EntryRows, Operations
<1>8. RowFollows'
    BY <1>1, <1>2, <1>3, <1>5, <1>7 DEF OfficeInv, RowFollows, Operations
<1>9. PICK u \in ClerkStates : /\ clerk' = [clerk EXCEPT ![c] = u]
                               /\ u.pc = (IF r.op \in Rules.silent THEN "idle" ELSE "wrote")
                               /\ u.pc = "wrote" => u.op = r.op
                               /\ u.row.starts < u.row.ends
    <2>1. /\ [r EXCEPT !.pc = "wrote"] \in ClerkStates /\ [r EXCEPT !.pc = "wrote"].pc = "wrote"
          /\ [r EXCEPT !.pc = "wrote"].op = r.op /\ [r EXCEPT !.pc = "wrote"].row = r.row
        BY <1>1 DEF ClerkStates
    <2>2. clerk' = [clerk EXCEPT ![c] = IF r.op \in Rules.silent THEN IdleClerk ELSE [r EXCEPT !.pc = "wrote"]]
        BY <1>1 DEF WriteEntry, OfficeInv, OfficeTypeOK
    <2> QED
        BY <1>1, <2>1, <2>2, IdleClerkTyped
<1>10. /\ clerk' \in [Clerks -> ClerkStates]
       /\ \A d \in Clerks : clerk'[d] = IF d = c THEN u ELSE clerk[d]
    BY <1>9 DEF OfficeInv, OfficeTypeOK
<1>11. OfficeTypeOK'
    BY <1>2, <1>6, <1>7, <1>10 DEF OfficeInv, OfficeTypeOK
<1>12. ASSUME NEW op \in Operations PROVE Told(op)'
    <2>1. CASE op = r.op /\ op \notin Rules.silent
        <3>1. c \notin Wrote(op) /\ Wrote(op)' = Wrote(op) \cup {c}
            BY <1>1, <1>9, <1>10, <2>1 DEF Wrote
        <3>2. IsFiniteSet(Wrote(op)) /\ Cardinality(Wrote(op)) \in Nat
            BY FS_CardinalityType DEF OfficeInv, Told
        <3>3. IsFiniteSet(Wrote(op)') /\ Cardinality(Wrote(op)') = Cardinality(Wrote(op)) + 1
            BY <3>1, <3>2, FS_AddElement
        <3> QED
            BY <1>2, <1>3, <1>5, <2>1, <3>2, <3>3 DEF OfficeInv, Told
    <2>2. CASE op # r.op \/ op \in Rules.silent
        <3>1. Wrote(op)' = Wrote(op)
            BY <1>1, <1>9, <1>10, <2>2 DEF Wrote
        <3>2. Cardinality(Wrote(op)) \in Nat
            BY FS_CardinalityType DEF OfficeInv, Told
        <3> QED
            BY <1>2, <1>3, <1>5, <2>2, <3>1, <3>2 DEF OfficeInv, Told
    <2> QED
        BY <2>1, <2>2
<1> QED
    BY <1>7, <1>8, <1>9, <1>10, <1>11, <1>12 DEF OfficeInv

\* The entry of a write is written, or left out; or the call stops, whatever it has done.
LEMMA EndStep == ASSUME OfficeInv, NEW c \in Clerks, RecordEntry(c) \/ LeaveOffice(c) PROVE OfficeInv'
<1>1. PICK r \in ClerkStates : r = clerk[c] /\ r.op \in Operations
    BY DEF OfficeInv, OfficeTypeOK, ClerkStates
<1>2. clerk' = [clerk EXCEPT ![c] = IdleClerk] /\ UNCHANGED << service, entry, supplier, made, Rules >>
    BY DEF RecordEntry, LeaveOffice, Rules
<1>3. PICK u \in ClerkStates : u = IdleClerk /\ u.pc = "idle" /\ u.row.starts < u.row.ends
    BY IdleClerkTyped
<1>4. /\ clerk' \in [Clerks -> ClerkStates]
      /\ \A d \in Clerks : clerk'[d] = IF d = c THEN u ELSE clerk[d]
    BY <1>2, <1>3 DEF OfficeInv, OfficeTypeOK
<1>5. \A op \in Operations : made[op] \in 0 .. MostChanges /\ trail[op] \in Nat
    BY DEF OfficeInv, OfficeTypeOK
<1>6. \/ r.pc = "wrote" /\ trail' = [trail EXCEPT ![r.op] = @ + 1] /\ missing' = missing
      \/ trail' = trail /\ missing' = TRUE
      \/ r.pc # "wrote" /\ trail' = trail /\ missing' = missing
    BY <1>1 DEF RecordEntry, LeaveOffice, OfficeInv, OfficeTypeOK
<1>7. ASSUME NEW op \in Operations PROVE Told(op)' /\ trail'[op] \in 0 .. MostChanges
    <2>1. /\ IsFiniteSet(Wrote(op)) /\ Cardinality(Wrote(op)) \in Nat
          /\ Wrote(op)' = Wrote(op) \ {c}
          /\ c \in Wrote(op) <=> r.pc = "wrote" /\ op = r.op
        BY <1>1, <1>3, <1>4, FS_CardinalityType DEF OfficeInv, Told, Wrote
    <2>2. /\ IsFiniteSet(Wrote(op)') /\ Cardinality(Wrote(op)') \in Nat
          /\ Cardinality(Wrote(op)') = Cardinality(Wrote(op)) - (IF r.pc = "wrote" /\ op = r.op THEN 1 ELSE 0)
        BY <2>1, FS_RemoveElement, FS_CardinalityType
    <2>3. \/ r.pc = "wrote" /\ trail'[op] = trail[op] + (IF op = r.op THEN 1 ELSE 0) /\ missing' = missing
          \/ trail'[op] = trail[op] /\ missing' = TRUE
          \/ r.pc # "wrote" /\ trail'[op] = trail[op] /\ missing' = missing
        BY <1>1, <1>5, <1>6 DEF OfficeInv, OfficeTypeOK
    <2>4. Told(op) /\ made'[op] = made[op] /\ Rules' = Rules
        BY <1>2 DEF OfficeInv
    <2>5. Told(op)'
        BY <1>5, <2>1, <2>2, <2>3, <2>4 DEF Told
    <2> QED
        BY <1>5, <2>2, <2>3, <2>4, <2>5, BackOfficeAssumption DEF Told
<1>8. OfficeTypeOK'
    <2>1. trail' \in [Operations -> 0 .. MostChanges] /\ missing' \in BOOLEAN
        BY <1>6, <1>7 DEF OfficeInv, OfficeTypeOK
    <2> QED
        BY <1>2, <1>4, <2>1 DEF OfficeInv, OfficeTypeOK
<1>9. RowFollows'
    BY <1>2 DEF OfficeInv, RowFollows
<1> QED
    BY <1>2, <1>3, <1>4, <1>7, <1>8, <1>9 DEF OfficeInv

LEMMA OfficeNextOK == OfficeInv /\ [OfficeNext]_officeVars => OfficeInv'
<1> SUFFICES ASSUME OfficeInv, [OfficeNext]_officeVars PROVE OfficeInv'
    OBVIOUS
<1>1. ASSUME NEW c \in Clerks, NEW op \in Operations, NEW starts \in Days, NEW ends \in Days,
             NEW named \in BOOLEAN, Look(c, op, starts, ends, named)
      PROVE  OfficeInv'
    BY <1>1, LookStep
<1>2. ASSUME NEW c \in Clerks, WriteEntry(c) \/ RecordEntry(c) \/ LeaveOffice(c) PROVE OfficeInv'
    BY <1>2, WriteEntryStep, EndStep
<1>3. CASE DropSupplier \/ UNCHANGED officeVars
    <2>1. UNCHANGED << service, entry, clerk, made, trail, missing >> /\ supplier' \in {"live", "marked"}
        BY <1>3 DEF DropSupplier, officeVars, OfficeInv, OfficeTypeOK
    <2> QED
        BY <2>1 DEF OfficeInv, OfficeTypeOK, RowFollows, Told, Rules, Wrote
<1> QED
    BY <1>1, <1>2, <1>3 DEF OfficeNext

\* The services of the back office: the audit log tells of every write and of nothing else,
\* a row is created and removed once, and none comes back after its removal.
THEOREM TrailIsTrue == OfficeSpec => []TrailHolds
<1>1. OfficeInv => TrailHolds
    <2> SUFFICES ASSUME OfficeInv PROVE TrailHolds
        OBVIOUS
    <2>1. \A op \in Operations : made[op] \in Nat /\ trail[op] \in Nat /\ Cardinality(Wrote(op)) \in Nat
        BY FS_CardinalityType DEF OfficeInv, OfficeTypeOK, Told
    <2>2. \A op \in Operations : trail[op] <= made[op]
        BY <2>1 DEF OfficeInv, Told
    <2>3. ASSUME OpenClerks = {}, ~missing, NEW op \in Operations \ Rules.silent PROVE trail[op] = made[op]
        <3>1. Wrote(op) = {}
            BY <2>3 DEF OpenClerks, Wrote
        <3> QED
            BY <2>1, <2>3, <3>1, FS_EmptySet DEF OfficeInv, Told
    <2> QED
        BY <2>1, <2>2, <2>3 DEF OfficeInv, TrailHolds, RowFollows, Operations
<1> QED
    BY OfficeInitOK, OfficeNextOK, <1>1, PTL DEF OfficeSpec

-----------------------------------------------------------------------------
(* Storefront, for any number of buyers and any terms.  Unless the limit of *)
(* the coupon was lowered, a checkout has read one that is no higher than   *)
(* the limit now.  The rest is arithmetic, and holds for amounts of any size.*)

BuyerStates ==
    [ pc : {"idle", "coupon", "redeem"}, subtotal : Subtotals \cup {0}, cod : BOOLEAN, plain : BOOLEAN,
      site : Sites, terms : Terms ]

SaleRows == [ subtotal : Nat, discount : Nat, fee : Nat, codFee : Nat, total : Nat ]

AddsUp(s) ==
    /\ s.total >= s.codFee
    /\ s.discount <= s.subtotal => s.total + s.discount - (s.subtotal + s.fee + s.codFee) \in 0 .. 1

HasRead(r) == r.pc = "redeem" /\ ~r.plain

\* What a checkout has read allows no more uses than the coupon does.
ReadInTime(r) ==
    HasRead(r) =>
        coupon.terms.limit = 0 \/ (r.terms.limit > 0 /\ r.terms.limit <= coupon.terms.limit)

StorefrontInv ==
    /\ StorefrontTypeOK /\ buyer \in [Buyers -> BuyerStates] /\ sale \in SaleRows
    /\ QuoteStands /\ AddsUp(sale)
    /\ ~coupon.there => coupon.used = 0 /\ \A b \in Buyers : ~HasRead(buyer[b])
    /\ ~lowered => /\ coupon.terms.limit > 0 => coupon.used <= coupon.terms.limit
                   /\ \A b \in Buyers : ReadInTime(buyer[b])

LEMMA RoundedAmounts ==
    ASSUME NEW subtotal \in Nat, NEW fee \in Nat, NEW codFee \in Nat, NEW discount \in Nat
    PROVE  LET total == Rounded(Larger(100 * (subtotal + fee), discount) - discount + 100 * codFee)
           IN  /\ Rounded(discount) \in Nat /\ total \in Nat /\ total >= codFee
               /\ Rounded(discount) <= subtotal =>
                    total + Rounded(discount) - (subtotal + fee + codFee) \in 0 .. 1
<1> DEFINE before == Larger(100 * (subtotal + fee), discount) - discount
<1> DEFINE paid == before + 100 * codFee
<1>1. /\ before \in Nat
      /\ discount <= 100 * (subtotal + fee) => before = 100 * (subtotal + fee) - discount
      /\ discount > 100 * (subtotal + fee) => before = 0
    BY DEF Larger
<1> HIDE DEF before
<1>2. /\ Rounded(discount) \in Nat
      /\ 100 * Rounded(discount) <= discount + 50 /\ discount + 50 < 100 * Rounded(discount) + 100
    BY DEF Rounded
<1>3. /\ Rounded(paid) \in Nat
      /\ 100 * Rounded(paid) <= paid + 50 /\ paid + 50 < 100 * Rounded(paid) + 100
    BY <1>1 DEF Rounded
<1>4. Rounded(paid) >= codFee
    BY <1>1, <1>3
<1>5. ASSUME Rounded(discount) <= subtotal
      PROVE  Rounded(paid) + Rounded(discount) - (subtotal + fee + codFee) \in 0 .. 1
    BY <1>1, <1>2, <1>3, <1>5
<1> QED
    BY <1>2, <1>3, <1>4, <1>5 DEF before

LEMMA DiscountsAreNat ==
    ASSUME NEW terms \in Terms, NEW subtotal \in Nat
    PROVE  OrderDiscount(terms, subtotal) \in Nat /\ QuotedDiscount(terms, subtotal) = OrderDiscount(terms, subtotal)
<1>1. terms.value \in Nat
    BY StorefrontAssumption
<1>2. subtotal * terms.value \in Nat /\ 100 * Smaller(terms.value, subtotal) \in Nat
    BY <1>1 DEF Smaller
<1> QED
    BY <1>2 DEF OrderDiscount, QuotedDiscount

LEMMA AmountsAddUp ==
    ASSUME NEW s \in Sites, NEW price \in Fees, NEW subtotal \in Nat, NEW discount \in Nat, NEW cod \in BOOLEAN
    PROVE  Amounts(s, price, subtotal, discount, cod) \in SaleRows /\ AddsUp(Amounts(s, price, subtotal, discount, cod))
<1> DEFINE fee == ShippingFee(s, price, subtotal, discount)
<1> DEFINE codFee == IF cod THEN s.codFee ELSE 0
<1>1. fee \in Nat /\ codFee \in Nat
    BY StorefrontAssumption DEF ShippingFee
<1> DEFINE total == Rounded(Larger(100 * (subtotal + fee), discount) - discount + 100 * codFee)
<1>2. Amounts(s, price, subtotal, discount, cod)
      = [ subtotal |-> subtotal, discount |-> Rounded(discount), fee |-> fee, codFee |-> codFee, total |-> total ]
    BY DEF Amounts
<1> HIDE DEF fee, codFee
<1>3. /\ Rounded(discount) \in Nat /\ total \in Nat /\ total >= codFee
      /\ Rounded(discount) <= subtotal => total + Rounded(discount) - (subtotal + fee + codFee) \in 0 .. 1
    BY <1>1, RoundedAmounts
<1> HIDE DEF total
<1> QED
    BY <1>1, <1>2, <1>3 DEF SaleRows, AddsUp

LEMMA StorefrontConstants ==
    /\ AnyTerms \in Terms /\ IdleBuyer \in BuyerStates /\ IdleBuyer.pc = "idle"
    /\ NoAmounts \in SaleRows /\ AddsUp(NoAmounts)
    /\ NoQuote \in [ fresh : BOOLEAN, subtotal : Subtotals \cup {0}, discount : Nat ] /\ ~NoQuote.fresh
    /\ \A t \in Terms : t.limit \in Nat
<1>1. AnyTerms \in Terms /\ (CHOOSE s \in Sites : TRUE) \in Sites /\ \A t \in Terms : t.limit \in Nat
    BY StorefrontAssumption DEF AnyTerms
<1>2. IdleBuyer \in BuyerStates /\ IdleBuyer.pc = "idle"
    BY <1>1 DEF IdleBuyer, BuyerStates
<1>3. NoAmounts \in SaleRows /\ AddsUp(NoAmounts)
    BY DEF NoAmounts, SaleRows, AddsUp
<1> QED
    BY <1>1, <1>2, <1>3 DEF NoQuote

LEMMA RowsTyped ==
    ASSUME NEW s \in SaleRows, NEW bs \in [Buyers -> BuyerStates]
    PROVE  /\ \A f \in DOMAIN s : s[f] \in Nat
           /\ \A b \in Buyers : bs[b].pc \in {"idle", "coupon", "redeem"} /\ bs[b].subtotal \in Subtotals \cup {0}
<1>1. \A f \in DOMAIN s : s[f] \in Nat
    BY DEF SaleRows
<1>2. \A b \in Buyers : bs[b] \in BuyerStates
    OBVIOUS
<1> QED
    BY <1>1, <1>2 DEF BuyerStates

LEMMA StorefrontInitOK == StorefrontInit => StorefrontInv
<1> SUFFICES ASSUME StorefrontInit PROVE StorefrontInv
    OBVIOUS
<1>1. buyer \in [Buyers -> BuyerStates] /\ \A b \in Buyers : buyer[b].pc = "idle"
    BY StorefrontConstants DEF StorefrontInit
<1>2. StorefrontTypeOK
    <2>1. sale \in SaleRows
        BY StorefrontConstants DEF StorefrontInit
    <2>2. zone \in [ state : {"none", "closed", "open"}, fee : Fees ]
        BY DEF StorefrontInit
    <2>3. coupon \in [ there : BOOLEAN, terms : Terms, used : 0 .. MostUses ]
        <3>1. {0} \subseteq 0 .. MostUses /\ {TRUE} \subseteq BOOLEAN
            BY StorefrontAssumption
        <3> QED
            BY <3>1 DEF StorefrontInit
    <2> QED
        BY <1>1, <2>1, <2>2, <2>3, RowsTyped, StorefrontConstants DEF StorefrontInit, StorefrontTypeOK
<1>3. coupon.used = 0 /\ coupon.terms.limit \in Nat
    BY StorefrontConstants DEF StorefrontInit
<1> QED
    BY <1>1, <1>2, <1>3, StorefrontConstants DEF StorefrontInit, StorefrontInv, QuoteStands, ReadInTime, HasRead

\* An edit resets the quote; a limit is only lowered on record.
LEMMA EditCouponStep ==
    ASSUME StorefrontInv, NEW terms \in Terms, NEW over \in BOOLEAN, EditCoupon(terms, over)
    PROVE  StorefrontInv'
<1>1. /\ coupon \in [ there : BOOLEAN, terms : Terms, used : 0 .. MostUses ] /\ coupon.there
      /\ coupon' = [coupon EXCEPT !.terms = terms] /\ expired' \in BOOLEAN /\ quote' = NoQuote
      /\ UNCHANGED << site, zone, buyer, sale >>
    BY DEF EditCoupon, StorefrontInv, StorefrontTypeOK
<1>2. /\ coupon' \in [ there : BOOLEAN, terms : Terms, used : 0 .. MostUses ]
      /\ coupon'.there /\ coupon'.terms = terms /\ coupon'.used = coupon.used
    BY <1>1
<1>3. /\ lowered' \in BOOLEAN
      /\ ~lowered' => ~lowered /\ (terms.limit = 0 \/ (coupon.terms.limit > 0 /\ coupon.terms.limit <= terms.limit))
    <2>1. terms.limit \in Nat /\ coupon.terms.limit \in Nat
        BY <1>1, StorefrontConstants
    <2> QED
        BY <2>1 DEF EditCoupon, StorefrontInv, StorefrontTypeOK
<1>4. StorefrontTypeOK'
    BY <1>1, <1>2, <1>3, StorefrontConstants DEF StorefrontInv, StorefrontTypeOK
<1>5. QuoteStands'
    BY <1>1, StorefrontConstants DEF QuoteStands
<1>6. /\ terms.limit \in Nat /\ coupon.terms.limit \in Nat /\ coupon.used \in Nat
      /\ \A b \in Buyers : buyer[b].terms.limit \in Nat
    <2>1. \A b \in Buyers : buyer[b] \in BuyerStates
        BY DEF StorefrontInv
    <2>2. \A b \in Buyers : buyer[b].terms \in Terms
        BY <2>1 DEF BuyerStates
    <2> QED
        BY <1>1, <2>2, StorefrontConstants, StorefrontAssumption
<1>7. ~lowered' => /\ terms.limit > 0 => coupon.used <= terms.limit
                   /\ \A b \in Buyers : ReadInTime(buyer[b])'
    BY <1>1, <1>2, <1>3, <1>6 DEF StorefrontInv, ReadInTime, HasRead
<1> QED
    BY <1>1, <1>2, <1>4, <1>5, <1>7 DEF StorefrontInv, AddsUp

\* With the row go the checkouts that have read it.
LEMMA RemoveCouponStep == ASSUME StorefrontInv, RemoveCoupon PROVE StorefrontInv'
<1>1. /\ coupon \in [ there : BOOLEAN, terms : Terms, used : 0 .. MostUses ]
      /\ coupon' = [coupon EXCEPT !.there = FALSE, !.used = 0] /\ quote' = NoQuote
      /\ expired' \in BOOLEAN /\ lowered' = FALSE
      /\ UNCHANGED << site, zone, sale >>
    BY DEF RemoveCoupon, StorefrontInv, StorefrontTypeOK
<1>2. /\ coupon' \in [ there : BOOLEAN, terms : Terms, used : 0 .. MostUses ]
      /\ ~coupon'.there /\ coupon'.used = 0 /\ coupon'.terms = coupon.terms
    <2>1. 0 \in 0 .. MostUses
        BY StorefrontAssumption
    <2> QED
        BY <1>1, <2>1
<1>3. /\ buyer' \in [Buyers -> BuyerStates]
      /\ \A b \in Buyers : ~HasRead(buyer'[b]) /\ ReadInTime(buyer[b])'
    <2>1. \A b \in Buyers : buyer[b] \in BuyerStates
        BY DEF StorefrontInv
    <2>2. \A b \in Buyers : buyer'[b] \in BuyerStates /\ (buyer'[b].pc # "redeem" \/ buyer'[b].plain)
        BY <2>1, StorefrontConstants DEF RemoveCoupon, BuyerStates
    <2> QED
        BY <2>2 DEF RemoveCoupon, ReadInTime, HasRead
<1>4. StorefrontTypeOK'
    <2>1. sale' \in SaleRows
        BY <1>1 DEF StorefrontInv
    <2> QED
        BY <1>1, <1>2, <1>3, <2>1, RowsTyped, StorefrontConstants DEF StorefrontInv, StorefrontTypeOK
<1>5. QuoteStands'
    BY <1>1, StorefrontConstants DEF QuoteStands
<1> QED
    BY <1>1, <1>2, <1>3, <1>4, <1>5, StorefrontConstants DEF StorefrontInv, AddsUp

LEMMA CreateCouponStep ==
    ASSUME StorefrontInv, NEW terms \in Terms, NEW over \in BOOLEAN, CreateCoupon(terms, over)
    PROVE  StorefrontInv'
<1>1. /\ ~coupon.there /\ coupon.used = 0 /\ \A b \in Buyers : ~HasRead(buyer[b])
      /\ coupon' = [ there |-> TRUE, terms |-> terms, used |-> 0 ] /\ expired' \in BOOLEAN
      /\ UNCHANGED << site, zone, lowered, quote, buyer, sale >> /\ ~quote.fresh
    BY DEF CreateCoupon, StorefrontInv, QuoteStands, buyerVars
<1>2. /\ coupon' \in [ there : BOOLEAN, terms : Terms, used : 0 .. MostUses ]
      /\ coupon'.there /\ coupon'.used = 0 /\ coupon'.terms.limit \in Nat
    <2>1. 0 \in 0 .. MostUses /\ terms.limit \in Nat
        BY StorefrontAssumption
    <2> QED
        BY <1>1, <2>1
<1>3. QuoteStands' /\ \A b \in Buyers : ReadInTime(buyer[b])'
    BY <1>1 DEF QuoteStands, StorefrontInv, ReadInTime, HasRead
<1> QED
    BY <1>1, <1>2, <1>3 DEF StorefrontInv, StorefrontTypeOK, AddsUp

LEMMA CouponExpiresStep == ASSUME StorefrontInv, CouponExpires PROVE StorefrontInv'
<1>1. /\ expired' \in BOOLEAN /\ quote' = NoQuote
      /\ UNCHANGED << coupon, site, zone, lowered, buyer, sale >>
    BY DEF CouponExpires
<1>2. StorefrontTypeOK'
    BY <1>1, StorefrontConstants DEF StorefrontInv, StorefrontTypeOK
<1>3. QuoteStands' /\ \A b \in Buyers : ReadInTime(buyer[b])' = ReadInTime(buyer[b])
    BY <1>1, StorefrontConstants DEF QuoteStands, ReadInTime
<1> QED
    BY <1>1, <1>2, <1>3 DEF StorefrontInv, AddsUp

\* Settings and the zone are read anew by every order.
LEMMA SettingsOrZoneStep ==
    ASSUME StorefrontInv, site' \in Sites, zone' \in [ state : {"none", "closed", "open"}, fee : Fees ],
           UNCHANGED << coupon, expired, lowered, quote, buyer, sale >>
    PROVE  StorefrontInv'
<1>1. StorefrontTypeOK'
    BY DEF StorefrontInv, StorefrontTypeOK
<1>2. QuoteStands' /\ \A b \in Buyers : ReadInTime(buyer[b])' = ReadInTime(buyer[b])
    BY DEF StorefrontInv, QuoteStands, UsesLeftNow, ReadInTime
<1> QED
    BY <1>1, <1>2 DEF StorefrontInv, AddsUp

LEMMA ValidateCouponStep ==
    ASSUME StorefrontInv, NEW subtotal \in Subtotals, ValidateCoupon(subtotal)
    PROVE  StorefrontInv'
<1>1. /\ coupon.there /\ coupon.terms \in Terms /\ subtotal \in Nat
      /\ UNCHANGED << coupon, expired, site, zone, lowered, buyer, sale >>
      /\ quote' = [ fresh |-> TRUE, subtotal |-> subtotal, discount |-> QuotedDiscount(coupon.terms, subtotal) ]
    BY StorefrontAssumption DEF ValidateCoupon, shopVars, StorefrontInv, StorefrontTypeOK
<1>2. /\ QuotedDiscount(coupon.terms, subtotal) \in Nat
      /\ QuotedDiscount(coupon.terms, subtotal) = OrderDiscount(coupon.terms, subtotal)
    BY <1>1, DiscountsAreNat
<1>3. StorefrontTypeOK'
    BY <1>1, <1>2 DEF StorefrontInv, StorefrontTypeOK
<1>4. QuoteStands'
    BY <1>1, <1>2 DEF ValidateCoupon, QuoteStands, UsesLeftNow
<1>5. \A b \in Buyers : ReadInTime(buyer[b])' = ReadInTime(buyer[b])
    BY <1>1 DEF ReadInTime
<1> QED
    BY <1>1, <1>3, <1>4, <1>5 DEF StorefrontInv, AddsUp

\* A checkout reads on, or is given up.
LEMMA BuyerStep ==
    ASSUME StorefrontInv, NEW b \in Buyers, NEW u \in BuyerStates, buyer' = [buyer EXCEPT ![b] = u],
           HasRead(u) => coupon.there /\ u.terms = coupon.terms,
           UNCHANGED << coupon, expired, site, zone, lowered, quote >>, sale' \in SaleRows, AddsUp(sale')
    PROVE  StorefrontInv'
<1>1. buyer' \in [Buyers -> BuyerStates] /\ \A c \in Buyers : buyer'[c] = IF c = b THEN u ELSE buyer[c]
    BY DEF StorefrontInv
<1>2. StorefrontTypeOK'
    BY <1>1, RowsTyped DEF StorefrontInv, StorefrontTypeOK
<1>3. QuoteStands'
    BY DEF StorefrontInv, QuoteStands, UsesLeftNow
<1>4. coupon.terms.limit \in Nat
    BY StorefrontConstants DEF StorefrontInv, StorefrontTypeOK
<1>5. \A c \in Buyers : ReadInTime(buyer[c]) => ReadInTime(buyer[c])'
    BY <1>1, <1>4 DEF ReadInTime
<1> QED
    BY <1>1, <1>2, <1>3, <1>5 DEF StorefrontInv

LEMMA ReadSiteStep ==
    ASSUME StorefrontInv, NEW b \in Buyers, NEW subtotal \in Subtotals, NEW cod \in BOOLEAN,
           NEW plain \in BOOLEAN, ReadSite(b, subtotal, cod, plain)
    PROVE  StorefrontInv'
<1>1. PICK u \in BuyerStates : buyer' = [buyer EXCEPT ![b] = u] /\ ~HasRead(u)
    <2> DEFINE w == [ pc |-> IF plain THEN "redeem" ELSE "coupon", subtotal |-> subtotal,
                      cod |-> cod, plain |-> plain, site |-> site, terms |-> AnyTerms ]
    <2>1. w \in BuyerStates
        BY StorefrontConstants DEF BuyerStates, StorefrontInv, StorefrontTypeOK
    <2>2. ~HasRead(w)
        BY DEF HasRead
    <2>3. buyer' = [buyer EXCEPT ![b] = w]
        BY DEF ReadSite
    <2> QED
        BY <2>1, <2>2, <2>3
<1> QED
    BY <1>1, BuyerStep, StorefrontConstants DEF ReadSite, shopVars

LEMMA ReadCouponStep == ASSUME StorefrontInv, NEW b \in Buyers, ReadCoupon(b) PROVE StorefrontInv'
<1>1. buyer[b] \in BuyerStates /\ coupon.terms \in Terms /\ coupon.there
    BY DEF ReadCoupon, StorefrontInv, StorefrontTypeOK
<1>2. PICK u \in BuyerStates : buyer' = [buyer EXCEPT ![b] = u] /\ u.terms = coupon.terms
    <2> DEFINE w == [buyer[b] EXCEPT !.pc = "redeem", !.terms = coupon.terms]
    <2>1. w \in BuyerStates /\ w.terms = coupon.terms
        BY <1>1 DEF BuyerStates
    <2>2. buyer' = [buyer EXCEPT ![b] = w]
        BY <1>1 DEF ReadCoupon, BuyerStates
    <2> QED
        BY <2>1, <2>2
<1> QED
    BY <1>1, <1>2, BuyerStep DEF ReadCoupon, shopVars, StorefrontInv

LEMMA RefuseOrderStep == ASSUME StorefrontInv, NEW b \in Buyers, RefuseOrder(b) PROVE StorefrontInv'
<1>1. PICK u \in BuyerStates : buyer' = [buyer EXCEPT ![b] = u] /\ ~HasRead(u)
    BY StorefrontConstants DEF RefuseOrder, HasRead
<1> QED
    BY <1>1, BuyerStep DEF RefuseOrder, shopVars, StorefrontInv

LEMMA PlaceOrderStep == ASSUME StorefrontInv, NEW b \in Buyers, PlaceOrder(b) PROVE StorefrontInv'
<1>1. PICK r \in BuyerStates : /\ r = buyer[b] /\ r.pc = "redeem" /\ (ReadInTime(r) \/ lowered)
                               /\ r.subtotal \in Nat /\ r.site \in Sites /\ r.terms \in Terms
                               /\ r.terms.limit \in Nat /\ r.cod \in BOOLEAN
    <2>1. buyer[b] \in BuyerStates /\ buyer[b].pc = "redeem" /\ (ReadInTime(buyer[b]) \/ lowered)
        BY DEF PlaceOrder, StorefrontInv
    <2>2. /\ buyer[b].subtotal \in Nat /\ buyer[b].site \in Sites /\ buyer[b].terms \in Terms
          /\ buyer[b].cod \in BOOLEAN
        <3>1. buyer[b].subtotal \in Subtotals \cup {0}
            BY <2>1 DEF BuyerStates
        <3>2. buyer[b].subtotal \in Nat
            <4>1. ASSUME NEW n \in Subtotals \cup {0} PROVE n \in Nat
                BY StorefrontAssumption
            <4> QED
                BY <3>1, <4>1
        <3> QED
            BY <2>1, <3>2 DEF BuyerStates
    <2> QED
        BY <2>1, <2>2, StorefrontConstants
<1>2. PICK discount \in Nat : discount = IF r.plain THEN 0 ELSE OrderDiscount(r.terms, r.subtotal)
    BY <1>1, DiscountsAreNat
<1>3. sale' \in SaleRows /\ AddsUp(sale')
    <2>1. sale' = Amounts(r.site, zone.fee, r.subtotal, discount, r.cod) /\ zone.fee \in Fees
        BY <1>1, <1>2 DEF PlaceOrder, StorefrontInv, StorefrontTypeOK
    <2> QED
        BY <1>1, <2>1, AmountsAddUp
<1>4. PICK u \in BuyerStates : buyer' = [buyer EXCEPT ![b] = u] /\ u.pc = "idle"
    BY StorefrontConstants DEF PlaceOrder
<1>5. UNCHANGED << expired, site, zone, lowered >>
    BY DEF PlaceOrder
<1>6. CASE r.plain
    BY <1>1, <1>3, <1>4, <1>5, <1>6, BuyerStep DEF PlaceOrder, HasRead
<1>7. CASE ~r.plain
    <2>1. /\ coupon \in [ there : BOOLEAN, terms : Terms, used : 0 .. MostUses ] /\ coupon.there
          /\ r.terms.limit = 0 \/ coupon.used < r.terms.limit
          /\ coupon.used < MostUses /\ coupon' = [coupon EXCEPT !.used = @ + 1] /\ quote' = NoQuote
        BY <1>1, <1>7 DEF PlaceOrder, Redeemable, StorefrontInv, StorefrontTypeOK
    <2>2. coupon.used \in Nat /\ coupon.used + 1 \in 0 .. MostUses /\ coupon.terms.limit \in Nat
        BY <2>1, StorefrontAssumption, StorefrontConstants
    <2>3. /\ coupon' \in [ there : BOOLEAN, terms : Terms, used : 0 .. MostUses ]
          /\ coupon'.there /\ coupon'.terms = coupon.terms /\ coupon'.used = coupon.used + 1
        BY <2>1, <2>2
    <2>4. /\ buyer' \in [Buyers -> BuyerStates]
          /\ \A c \in Buyers : ReadInTime(buyer[c]) => ReadInTime(buyer[c])'
        BY <1>4, <2>3 DEF StorefrontInv, ReadInTime, HasRead
    <2>5. StorefrontTypeOK'
        BY <1>3, <1>5, <2>1, <2>3, <2>4, RowsTyped, StorefrontConstants
        DEF StorefrontInv, StorefrontTypeOK
    <2>6. QuoteStands'
        BY <2>1, StorefrontConstants DEF QuoteStands
    <2>7. ~lowered /\ coupon.terms.limit > 0 => coupon.used + 1 <= coupon.terms.limit
        BY <1>1, <1>7, <2>1, <2>2 DEF ReadInTime, HasRead
    <2> QED
        BY <1>3, <1>5, <2>3, <2>4, <2>5, <2>6, <2>7 DEF StorefrontInv
<1> QED
    BY <1>6, <1>7

LEMMA ReturnUseStep == ASSUME StorefrontInv, ReturnUse PROVE StorefrontInv'
<1>1. /\ coupon \in [ there : BOOLEAN, terms : Terms, used : 0 .. MostUses ] /\ coupon.used > 0
      /\ coupon' = [coupon EXCEPT !.used = @ - 1] /\ quote' = NoQuote
      /\ UNCHANGED << expired, site, zone, lowered, buyer, sale >>
    BY DEF ReturnUse, StorefrontInv, StorefrontTypeOK
<1>2. /\ coupon' \in [ there : BOOLEAN, terms : Terms, used : 0 .. MostUses ]
      /\ coupon'.there = coupon.there /\ coupon'.terms = coupon.terms
      /\ coupon.used \in Nat /\ coupon'.used = coupon.used - 1 /\ coupon.terms.limit \in Nat
    <2>1. coupon.used \in Nat /\ coupon.used - 1 \in 0 .. MostUses /\ coupon.terms.limit \in Nat
        BY <1>1, StorefrontAssumption, StorefrontConstants
    <2> QED
        BY <1>1, <2>1
<1>3. StorefrontTypeOK' /\ QuoteStands'
    BY <1>1, <1>2, StorefrontConstants DEF StorefrontInv, StorefrontTypeOK, QuoteStands
<1>4. \A b \in Buyers : ReadInTime(buyer[b])' = ReadInTime(buyer[b])
    BY <1>1, <1>2 DEF ReadInTime
<1> QED
    BY <1>1, <1>2, <1>3, <1>4 DEF StorefrontInv, AddsUp

LEMMA StorefrontNextOK == StorefrontInv /\ [StorefrontNext]_storefrontVars => StorefrontInv'
<1> SUFFICES ASSUME StorefrontInv, [StorefrontNext]_storefrontVars PROVE StorefrontInv'
    OBVIOUS
<1>1. ASSUME NEW terms \in Terms, NEW over \in BOOLEAN, EditCoupon(terms, over) \/ CreateCoupon(terms, over)
      PROVE  StorefrontInv'
    BY <1>1, EditCouponStep, CreateCouponStep
<1>2. CASE \/ DeactivateZone \/ RemoveZone \/ \E s \in Sites : EditSite(s)
           \/ \E fee \in Fees, state \in {"closed", "open"} : CreateZone(state, fee) \/ UpdateZone(state, fee)
    <2>1. /\ site' \in Sites /\ zone' \in [ state : {"none", "closed", "open"}, fee : Fees ]
          /\ UNCHANGED << coupon, expired, lowered, quote, buyer, sale >>
        BY <1>2 DEF DeactivateZone, RemoveZone, CreateZone, UpdateZone, SetZone, EditSite, buyerVars,
                    StorefrontInv, StorefrontTypeOK
    <2> QED
        BY <2>1, SettingsOrZoneStep
<1>3. ASSUME NEW subtotal \in Subtotals, ValidateCoupon(subtotal) PROVE StorefrontInv'
    BY <1>3, ValidateCouponStep
<1>4. ASSUME NEW b \in Buyers,
             \/ \E subtotal \in Subtotals, cod, plain \in BOOLEAN : ReadSite(b, subtotal, cod, plain)
             \/ ReadCoupon(b) \/ PlaceOrder(b) \/ RefuseOrder(b)
      PROVE  StorefrontInv'
    BY <1>4, ReadSiteStep, ReadCouponStep, PlaceOrderStep, RefuseOrderStep
<1>5. CASE CouponExpires \/ RemoveCoupon \/ ReturnUse
    BY <1>5, CouponExpiresStep, RemoveCouponStep, ReturnUseStep
<1>6. CASE UNCHANGED storefrontVars
    BY <1>6, SettingsOrZoneStep DEF storefrontVars, StorefrontInv, StorefrontTypeOK
<1> QED
    BY <1>1, <1>2, <1>3, <1>4, <1>5, <1>6 DEF StorefrontNext

\* validateCoupon and create: until the coupon is edited or used or expires, the checks that both make
\* pass in create and the discount is the one quoted; the limit holds unless it was lowered; and the amounts of every order add up to one piaster.
THEOREM QuotesStand == StorefrontSpec => []QuotesAndAmounts
<1>1. StorefrontInv => QuotesAndAmounts
    <2> SUFFICES ASSUME StorefrontInv PROVE QuotesAndAmounts
        OBVIOUS
    <2>1. coupon.terms.limit \in Nat /\ coupon.used \in Nat
        BY StorefrontConstants, StorefrontAssumption DEF StorefrontInv, StorefrontTypeOK
    <2>2. coupon.terms.limit > 0 /\ coupon.used > coupon.terms.limit => lowered
        BY <2>1 DEF StorefrontInv
    <2> QED
        BY <2>2 DEF StorefrontInv, QuotesAndAmounts, AmountsHold, AddsUp
<1> QED
    BY StorefrontInitOK, StorefrontNextOK, <1>1, PTL DEF StorefrontSpec

-----------------------------------------------------------------------------
(* SeedRun.  A run that takes the database for a new one knows of nothing   *)
(* that the owner has settled; any other run consists of what is left of    *)
(* LaterWork, which touches full_admin and the account only; what the owner *)
(* makes of full_admin after that stands until the next run.                *)

Verbs    == { "upsert", "clear", "grant", "admin", "repair", "write", "keep", "ask", "product", "try", "stale", "city" }
Subjects == { "full_admin", "sales", "support", "account", "user", "list", "list item", "category", "product",
              "images", "variant", "own variant", "category item", "workflow", "approval", "automation run",
              "city zone", "zone", "template", "page" }
Work     == [ do : Verbs, on : Subjects ]

\* What a later run has left to do is the end of its work.
LaterLeft ==
    /\ run \in Seq(Work) /\ Len(run) <= 4
    /\ \A i \in 1 .. Len(run) : run[i] = LaterWork[i + 4 - Len(run)]
    /\ Len(run) = 1 /\ settled["full_admin"] = "unknown" => seeded["full_admin"] = "seeded"

SeedInv ==
    /\ seeded \in [ Touchable -> {"absent", "bare", "seeded", "owner"} ]
    /\ settled \in [ Touchable -> {"unknown", "absent", "owner"} ]
    /\ OwnerDecides /\ (settled["full_admin"] # "unknown" => Len(run) <= 1)
    /\ seeded["full_admin"] = "absent" =>
         /\ \A k \in Touchable : seeded[k] = "absent" /\ settled[k] = "unknown"
         /\ run = << >> \/ (run = FirstWork /\ first)
    /\ first => \A k \in Touchable : settled[k] = "unknown"
    /\ ~first => LaterLeft

LEMMA StepsAreWork == ASSUME NEW do \in Verbs, NEW on \in Subjects PROVE Step(do, on) \in Work
BY DEF Step, Work

LEMMA LaterWorkIs ==
    /\ LaterWork \in Seq(Work) /\ Len(LaterWork) = 4
    /\ \A i \in 1 .. 4 : /\ i < 4 <=> LaterWork[i].on = "full_admin"
                         /\ LaterWork[i].do = IF i = 1 THEN "upsert" ELSE IF i = 2 THEN "clear"
                                              ELSE IF i = 3 THEN "grant" ELSE "repair"
<1>1. RoleWork("full_admin") \in Seq(Work) /\ << Step("repair", "account") >> \in Seq(Work)
    <2>1. \A a, b, c \in Work : << a, b, c >> \in Seq(Work) /\ << a >> \in Seq(Work)
        OBVIOUS
    <2>2. /\ Step("upsert", "full_admin") \in Work /\ Step("clear", "full_admin") \in Work
          /\ Step("grant", "full_admin") \in Work /\ Step("repair", "account") \in Work
        BY DEF Step, Work, Verbs, Subjects
    <2> QED
        BY <2>1, <2>2 DEF RoleWork
<1>2. Len(RoleWork("full_admin")) = 3 /\ Len(<< Step("repair", "account") >>) = 1
    BY DEF RoleWork
<1>3. LaterWork = RoleWork("full_admin") \o << Step("repair", "account") >>
    BY DEF LaterWork
<1>4. /\ LaterWork \in Seq(Work) /\ Len(LaterWork) = 4
      /\ \A i \in 1 .. 4 : LaterWork[i] = IF i <= 3 THEN RoleWork("full_admin")[i]
                                          ELSE << Step("repair", "account") >>[i - 3]
    BY <1>1, <1>2, <1>3, ConcatProperties
<1>5. /\ RoleWork("full_admin")[1] = Step("upsert", "full_admin")
      /\ RoleWork("full_admin")[2] = Step("clear", "full_admin")
      /\ RoleWork("full_admin")[3] = Step("grant", "full_admin")
      /\ << Step("repair", "account") >>[1] = Step("repair", "account")
    BY DEF RoleWork
<1>6. ASSUME NEW i \in 1 .. 4
      PROVE  LaterWork[i] = IF i = 1 THEN Step("upsert", "full_admin") ELSE IF i = 2 THEN Step("clear", "full_admin")
                            ELSE IF i = 3 THEN Step("grant", "full_admin") ELSE Step("repair", "account")
    <2>1. CASE i = 4
        <3>1. LaterWork[i] = << Step("repair", "account") >>[i - 3] /\ i - 3 = 1
            BY <1>4, <2>1
        <3> QED
            BY <1>5, <2>1, <3>1
    <2>2. CASE i # 4
        BY <1>4, <1>5, <2>2
    <2> QED
        BY <2>1, <2>2
<1>7. ASSUME NEW i \in 1 .. 4
      PROVE  /\ i < 4 <=> LaterWork[i].on = "full_admin"
             /\ LaterWork[i].do = IF i = 1 THEN "upsert" ELSE IF i = 2 THEN "clear"
                                  ELSE IF i = 3 THEN "grant" ELSE "repair"
    BY <1>6 DEF Step
<1> QED
    BY <1>4, <1>7

\* What comes first stays where it is.
LEMMA WorkSequences ==
    \A s, t \in Seq(Work) :
        /\ s \o t \in Seq(Work) /\ Len(s \o t) = Len(s) + Len(t)
        /\ \A i \in 1 .. Len(s) : (s \o t)[i] = s[i]
BY ConcatProperties, LenProperties

LEMMA DataWorkIs ==
    DataWork \in Seq(Work) /\ Len(DataWork) >= 5 /\ DataWork[5] = Step("product", "product")
<1>1. \A a, b, c, d \in Work : /\ << a >> \in Seq(Work) /\ << a, b >> \in Seq(Work)
                               /\ << a, b, c >> \in Seq(Work) /\ << a, b, c, d >> \in Seq(Work)
    OBVIOUS
<1>2. /\ UserWork \in Seq(Work) /\ ListWork \in Seq(Work) /\ CategoryWork \in Seq(Work)
      /\ ProductWork \in Seq(Work) /\ SyncWork \in Seq(Work) /\ WorkflowWork \in Seq(Work)
      /\ ZoneWork \in Seq(Work) /\ TemplateWork \in Seq(Work) /\ PageWork \in Seq(Work)
    <2>1. UserWork \in Seq(Work)
        <3>1. Step("keep", "user") \in Work
            BY DEF Step, Work, Verbs, Subjects
        <3> QED
            BY <1>1, <3>1 DEF UserWork
    <2>2. ListWork \in Seq(Work)
        <3>1. Step("write", "list") \in Work /\ Step("write", "list item") \in Work
            BY DEF Step, Work, Verbs, Subjects
        <3> QED
            BY <1>1, <3>1 DEF ListWork
    <2>3. CategoryWork \in Seq(Work)
        <3>1. Step("write", "category") \in Work
            BY DEF Step, Work, Verbs, Subjects
        <3> QED
            BY <1>1, <3>1 DEF CategoryWork
    <2>4. ProductWork \in Seq(Work)
        <3>1. Step("product", "product") \in Work /\ Step("try", "images") \in Work
              /\ Step("try", "variant") \in Work /\ Step("stale", "own variant") \in Work
            BY DEF Step, Work, Verbs, Subjects
        <3> QED
            BY <1>1, <3>1 DEF ProductWork
    <2>5. SyncWork \in Seq(Work)
        <3>1. Step("keep", "category item") \in Work
            BY DEF Step, Work, Verbs, Subjects
        <3> QED
            BY <1>1, <3>1 DEF SyncWork
    <2>6. WorkflowWork \in Seq(Work)
        <3>1. Step("keep", "workflow") \in Work /\ Step("ask", "approval") \in Work
              /\ Step("keep", "automation run") \in Work
            BY DEF Step, Work, Verbs, Subjects
        <3> QED
            BY <1>1, <3>1 DEF WorkflowWork
    <2>7. ZoneWork \in Seq(Work)
        <3>1. Step("city", "city zone") \in Work /\ Step("try", "zone") \in Work
            BY DEF Step, Work, Verbs, Subjects
        <3> QED
            BY <1>1, <3>1 DEF ZoneWork
    <2>8. TemplateWork \in Seq(Work)
        <3>1. Step("write", "template") \in Work
            BY DEF Step, Work, Verbs, Subjects
        <3> QED
            BY <1>1, <3>1 DEF TemplateWork
    <2>9. PageWork \in Seq(Work)
        <3>1. Step("keep", "page") \in Work
            BY DEF Step, Work, Verbs, Subjects
        <3> QED
            BY <1>1, <3>1 DEF PageWork
    <2> QED
        BY <2>1, <2>2, <2>3, <2>4, <2>5, <2>6, <2>7, <2>8, <2>9
<1>3. /\ Len(UserWork) = 1 /\ Len(ListWork) = 2 /\ Len(CategoryWork) = 1 /\ Len(ProductWork) = 4
      /\ ProductWork[1] = Step("product", "product")
    BY DEF UserWork, ListWork, CategoryWork, ProductWork
<1>4. PICK before \in Seq(Work) : before = UserWork \o ListWork \o CategoryWork /\ Len(before) = 4
    <2>1. ASSUME NEW s \in Seq(Work), NEW t \in Seq(Work), NEW u \in Seq(Work),
                 Len(s) = 1, Len(t) = 2, Len(u) = 1
          PROVE  s \o t \o u \in Seq(Work) /\ Len(s \o t \o u) = 4
        <3>1. s \o t \in Seq(Work) /\ Len(s \o t) = 3
            BY <2>1, ConcatProperties
        <3> QED
            BY <2>1, <3>1, ConcatProperties
    <2>2. UserWork \o ListWork \o CategoryWork \in Seq(Work) /\ Len(UserWork \o ListWork \o CategoryWork) = 4
        BY <1>2, <1>3, <2>1, Zenon
    <2> QED
        BY <2>2, Zenon
<1>5. PICK some \in Seq(Work) : /\ some = before \o ProductWork /\ Len(some) = 8
                                /\ some[5] = Step("product", "product")
    <2>1. ASSUME NEW s \in Seq(Work), NEW t \in Seq(Work), Len(s) = 4, Len(t) = 4
          PROVE  s \o t \in Seq(Work) /\ Len(s \o t) = 8 /\ (s \o t)[5] = t[1]
        <3>1. /\ s \o t \in Seq(Work) /\ Len(s \o t) = Len(s) + Len(t)
              /\ \A i \in 1 .. Len(s) + Len(t) : (s \o t)[i] = IF i <= Len(s) THEN s[i] ELSE t[i - Len(s)]
            BY ConcatProperties, Zenon
        <3>2. ASSUME NEW i \in Int, i = 5 PROVE (s \o t)[i] = t[1]
            <4>1. (s \o t)[i] = t[i - 4] /\ i - 4 = 1
                BY <2>1, <3>1, <3>2
            <4> QED
                BY <4>1
        <3>3. 5 \in Int
            OBVIOUS
        <3>4. (s \o t)[5] = t[1]
            BY <3>2, <3>3, Zenon
        <3> QED
            BY <2>1, <3>1, <3>4
    <2>2. /\ before \o ProductWork \in Seq(Work) /\ Len(before \o ProductWork) = 8
          /\ (before \o ProductWork)[5] = ProductWork[1]
        BY <1>2, <1>3, <1>4, <2>1, Zenon
    <2> QED
        BY <1>3, <2>2
<1> DEFINE Good(s) == s \in Seq(Work) /\ Len(s) \in Nat /\ Len(s) >= 5 /\ s[5] = Step("product", "product")
<1>6. ASSUME NEW s, Good(s), NEW t \in Seq(Work) PROVE Good(s \o t)
    <2>1. Len(t) \in Nat
        BY LenProperties
    <2> QED
        BY <1>6, <2>1, WorkSequences
<1>7. Good(some)
    BY <1>5
<1> HIDE DEF Good
<1>8. Good(some \o SyncWork \o WorkflowWork \o ZoneWork \o TemplateWork \o PageWork)
    BY <1>2, <1>6, <1>7
<1>9. DataWork = some \o SyncWork \o WorkflowWork \o ZoneWork \o TemplateWork \o PageWork
    BY <1>4, <1>5 DEF DataWork
<1> QED
    BY <1>8, <1>9 DEF Good

LEMMA FirstWorkIs ==
    /\ FirstWork # << >> /\ Head(FirstWork) = Step("upsert", "full_admin")
    /\ "full_admin" \in Touchable /\ "product" \in Touchable
<1>1. "full_admin" \in Touchable
    BY DEF Touchable, SeedRoles
<1>2. "product" \in Touchable
    <2>1. 5 \in DOMAIN DataWork /\ DataWork[5].on = "product"
        <3>1. DOMAIN DataWork = 1 .. Len(DataWork) /\ Len(DataWork) \in Nat
            BY DataWorkIs, LenProperties
        <3>2. Step("product", "product").on = "product"
            BY DEF Step
        <3> QED
            BY <3>1, <3>2, DataWorkIs
    <2> QED
        BY <2>1 DEF Touchable
<1>3. ASSUME NEW r \in SeedRoles
      PROVE  RoleWork(r) \in Seq(Work) /\ Len(RoleWork(r)) = 3 /\ RoleWork(r)[1] = Step("upsert", r)
    <2>1. \A a, b, c \in Work : << a, b, c >> \in Seq(Work)
        OBVIOUS
    <2>2. Step("upsert", r) \in Work /\ Step("clear", r) \in Work /\ Step("grant", r) \in Work
        <3>1. r \in Subjects /\ "upsert" \in Verbs /\ "clear" \in Verbs /\ "grant" \in Verbs
            BY DEF Verbs, Subjects, SeedRoles
        <3> QED
            BY <3>1, StepsAreWork
    <2> QED
        BY <2>1, <2>2 DEF RoleWork
<1>4. << Step("admin", "account") >> \in Seq(Work)
    <2>1. Step("admin", "account") \in Work
        BY DEF Step, Work, Verbs, Subjects
    <2> QED
        BY <2>1
<1> DEFINE Good(s) == s \in Seq(Work) /\ Len(s) \in Nat /\ Len(s) >= 1 /\ s[1] = Step("upsert", "full_admin")
<1>5. ASSUME NEW s, Good(s), NEW t \in Seq(Work) PROVE Good(s \o t)
    <2>1. Len(t) \in Nat
        BY LenProperties
    <2> QED
        BY <1>5, <2>1, WorkSequences
<1>6. Good(RoleWork("full_admin"))
    BY <1>3 DEF SeedRoles
<1>7. ASSUME NEW s, Good(s) PROVE s # << >> /\ Head(s) = Step("upsert", "full_admin")
    BY <1>7
<1> HIDE DEF Good
<1>8. Good(FirstWork)
    <2>1. RoleWork("sales") \in Seq(Work) /\ RoleWork("support") \in Seq(Work)
        BY <1>3 DEF SeedRoles
    <2> QED
        BY <1>4, <1>5, <1>6, <2>1, DataWorkIs DEF FirstWork
<1> QED
    BY <1>1, <1>2, <1>7, <1>8

Marks == {"absent", "bare", "seeded", "owner"}

LEMMA SeedInitOK == SeedInit => SeedInv
<1> SUFFICES ASSUME SeedInit PROVE SeedInv
    OBVIOUS
<1>1. run \in Seq(Work) /\ Len(run) = 0
    BY DEF SeedInit
<1> QED
    BY <1>1, FirstWorkIs DEF SeedInit, SeedInv, Forgotten, OwnerDecides, LaterLeft

\* The next step of a run: a later one only touches full_admin, and grants just before it ends.
LEMMA LaterHead ==
    ASSUME LaterLeft, run # << >>
    PROVE  /\ Tail(run) \in Seq(Work) /\ Len(Tail(run)) = Len(run) - 1 /\ Len(run) \in 1 .. 4
           /\ \A i \in 1 .. Len(Tail(run)) : Tail(run)[i] = LaterWork[i + 4 - Len(Tail(run))]
           /\ Head(run).do \in {"upsert", "clear", "grant", "repair"}
           /\ Head(run).do = "repair" \/ Head(run).on = "full_admin"
           /\ Len(run) = 2 => Head(run).do = "grant"
           /\ Len(run) = 1 => Head(run).do = "repair"
<1>1. /\ run \in Seq(Work) /\ Len(run) \in 1 .. 4 /\ Head(run) = run[1]
      /\ \A i \in 1 .. Len(run) : run[i] = LaterWork[i + 4 - Len(run)]
    <2>1. run \in Seq(Work) /\ Len(run) \in Nat /\ Len(run) # 0 /\ Len(run) <= 4
        BY LenProperties, EmptySeq DEF LaterLeft
    <2>2. Head(run) = run[1]
        BY <2>1
    <2>3. ASSUME NEW n \in Nat, n # 0, n <= 4 PROVE n \in 1 .. 4
        BY <2>3
    <2>4. Len(run) \in 1 .. 4
        BY <2>1, <2>3, Zenon
    <2>5. \A i \in 1 .. Len(run) : run[i] = LaterWork[i + 4 - Len(run)]
        BY DEF LaterLeft
    <2> QED
        BY <2>1, <2>2, <2>4, <2>5
<1>2. /\ Tail(run) \in Seq(Work) /\ Len(Tail(run)) = Len(run) - 1
      /\ \A i \in 1 .. Len(Tail(run)) : Tail(run)[i] = run[i + 1]
    BY <1>1, HeadTailProperties
<1>3. \A i \in 1 .. Len(Tail(run)) : Tail(run)[i] = LaterWork[i + 4 - Len(Tail(run))]
    BY <1>1, <1>2
<1>4. PICK i \in 1 .. 4 : i = 5 - Len(run) /\ Head(run) = LaterWork[i]
    <2>1. 1 \in 1 .. Len(run) /\ 5 - Len(run) \in 1 .. 4 /\ 1 + 4 - Len(run) = 5 - Len(run)
        <3>1. ASSUME NEW n \in 1 .. 4 PROVE 1 \in 1 .. n /\ 5 - n \in 1 .. 4 /\ 1 + 4 - n = 5 - n
            OBVIOUS
        <3> QED
            BY <1>1, <3>1, Zenon
    <2> QED
        BY <1>1, <2>1
<1>5. /\ Head(run).do \in {"upsert", "clear", "grant", "repair"}
      /\ Head(run).do = "repair" \/ Head(run).on = "full_admin"
      /\ Len(run) = 2 => Head(run).do = "grant"
      /\ Len(run) = 1 => Head(run).do = "repair"
    <2>1. Len(run) \in 1 .. 4 /\ (Len(run) = 2 => i = 3) /\ (Len(run) = 1 => i = 4) /\ (i < 4 \/ i = 4)
        <3>1. ASSUME NEW n \in 1 .. 4, i = 5 - n PROVE (n = 2 => i = 3) /\ (n = 1 => i = 4) /\ (i < 4 \/ i = 4)
            BY <3>1
        <3> QED
            BY <1>1, <1>4, <3>1, Zenon
    <2>2. /\ i < 4 => LaterWork[i].on = "full_admin"
          /\ LaterWork[i].do = IF i = 1 THEN "upsert" ELSE IF i = 2 THEN "clear"
                               ELSE IF i = 3 THEN "grant" ELSE "repair"
        BY LaterWorkIs
    <2> QED
        BY <1>4, <2>1, <2>2
<1> QED
    BY <1>1, <1>2, <1>3, <1>5

\* One step of a run.
LEMMA DoStep ==
    ASSUME SeedInv, NEW what, Do(what), seeded' \in [Touchable -> Marks],
           seeded["full_admin"] # "absent" => seeded'["full_admin"] # "absent",
           what = "upsert" /\ Subject = "full_admin" => seeded'["full_admin"] # "absent",
           ~first => \A k \in Touchable \ {"full_admin"} : seeded'[k] = seeded[k],
           ~first /\ what = "grant" => seeded'["full_admin"] = "seeded",
           what = "repair" => seeded' = seeded
    PROVE  SeedInv'
<1>1. /\ run # << >> /\ Head(run).do = what /\ run' = Tail(run)
      /\ first' = (first /\ Tail(run) # << >>) /\ settled' = settled
    BY DEF Do
<1>2. seeded'["full_admin"] # "absent"
    <2>1. CASE seeded["full_admin"] = "absent"
        <3>1. Head(run) = Step("upsert", "full_admin")
            BY <1>1, <2>1, FirstWorkIs DEF SeedInv
        <3>2. what = "upsert" /\ Subject = "full_admin"
            BY <1>1, <3>1 DEF Step, Subject
        <3> QED
            BY <3>2
    <2> QED
        BY <2>1
<1>3. CASE first
    <2>1. \A k \in Touchable : settled'[k] = "unknown"
        BY <1>1, <1>3 DEF SeedInv
    <2>2. ~first' => LaterLeft'
        <3>1. ASSUME ~first' PROVE run' \in Seq(Work) /\ Len(run') = 0
            <4>1. Tail(run) = << >>
                BY <1>1, <1>3, <3>1
            <4> QED
                BY <1>1, <4>1, EmptySeq
        <3> QED
            BY <3>1 DEF LaterLeft
    <2> QED
        BY <1>1, <1>2, <2>1, <2>2, FirstWorkIs DEF SeedInv, Marks, OwnerDecides
<1>4. CASE ~first
    <2>1. /\ Tail(run) \in Seq(Work) /\ Len(Tail(run)) = Len(run) - 1 /\ Len(run) \in 1 .. 4
          /\ \A i \in 1 .. Len(Tail(run)) : Tail(run)[i] = LaterWork[i + 4 - Len(Tail(run))]
          /\ Len(run) = 2 => what = "grant"
          /\ Len(run) = 1 => what = "repair"
        BY <1>1, <1>4, LaterHead DEF SeedInv
    <2>2. LaterLeft'
        <3>1. Len(run') = 1 => Len(run) = 2
            BY <1>1, <2>1
        <3> QED
            BY <1>1, <1>4, <2>1, <3>1 DEF LaterLeft
    <2>3. settled["full_admin"] # "unknown" => what = "repair" /\ Len(run') <= 1
        <3>1. settled["full_admin"] # "unknown" => Len(run) <= 1
            BY DEF SeedInv
        <3>2. Len(run) <= 1 => Len(run) = 1 /\ Len(Tail(run)) <= 1
            BY <2>1
        <3> QED
            BY <1>1, <2>1, <3>1, <3>2
    <2>4. ~first' /\ OwnerDecides'
        BY <1>1, <1>4, <2>3 DEF SeedInv, OwnerDecides
    <2> QED
        BY <1>1, <1>2, <2>2, <2>3, <2>4 DEF SeedInv, Marks
<1> QED
    BY <1>3, <1>4

\* A step that writes one kind of data.
LEMMA WritesStep ==
    ASSUME SeedInv, NEW what, Do(what), NEW k, NEW value, Writes(k, value), what # "repair",
           k \in Touchable => value \in Marks,
           what \in {"upsert", "clear", "grant"} => k = Subject,
           k = "full_admin" /\ value = "absent" => seeded["full_admin"] = "absent" /\ what # "upsert",
           what = "grant" => value = "seeded"
    PROVE  SeedInv'
<1>1. /\ seeded \in [Touchable -> Marks] /\ seeded' \in [Touchable -> Marks] /\ "full_admin" \in Touchable
      /\ \A t \in Touchable : seeded'[t] = IF t = k THEN value ELSE seeded[t]
    BY FirstWorkIs DEF SeedInv, Writes, Marks
<1>2. ~first => k = "full_admin"
    BY LaterHead DEF SeedInv, Do, Subject
<1>3. what = "upsert" /\ Subject = "full_admin" => seeded'["full_admin"] # "absent"
    BY <1>1
<1> QED
    BY <1>1, <1>2, <1>3, DoStep

LEMMA RunWorks ==
    ASSUME SeedInv,
           \/ Upsert \/ WriteData \/ KeepData \/ TryToWrite \/ SeedApproval \/ DropStaleVariant \/ MigrateCities
           \/ ClearGrants \/ WriteGrants \/ WriteAdmin \/ RepairAdmin
    PROVE  SeedInv'
<1>1. \A k \in Touchable : seeded[k] \in Marks
    BY DEF SeedInv, Marks
<1>2. CASE Upsert \/ KeepData \/ WriteData \/ WriteGrants \/ ClearGrants
    BY <1>1, <1>2, WritesStep DEF Upsert, KeepData, WriteData, WriteGrants, ClearGrants, IfAbsent, Marks
<1>3. CASE TryToWrite
    BY <1>1, <1>3, WritesStep DEF TryToWrite, Marks
<1>4. CASE SeedApproval
    BY <1>1, <1>4, WritesStep DEF SeedApproval, IfAbsent, Marks
<1>5. CASE DropStaleVariant
    <2>1. PICK value : /\ Do("stale") /\ Writes("own variant", value)
                       /\ "own variant" \in Touchable => value \in Marks
        BY <1>1, <1>5 DEF DropStaleVariant, Marks
    <2>2. "stale" # "repair" /\ "stale" \notin {"upsert", "clear", "grant"} /\ "own variant" # "full_admin"
        OBVIOUS
    <2> QED
        BY <2>1, <2>2, WritesStep
<1>6. CASE MigrateCities
    <2>1. PICK value : /\ Do("city") /\ Writes("city zone", value)
                       /\ "city zone" \in Touchable => value \in Marks
        BY <1>1, <1>6 DEF MigrateCities, IfAbsent, Marks
    <2>2. "city" # "repair" /\ "city" \notin {"upsert", "clear", "grant"} /\ "city zone" # "full_admin"
        OBVIOUS
    <2> QED
        BY <2>1, <2>2, WritesStep
<1>7. CASE WriteAdmin
    <2>1. Do("admin") /\ seeded' = seeded /\ seeded \in [Touchable -> Marks]
        BY <1>7 DEF WriteAdmin, SeedInv, Marks
    <2> QED
        BY <2>1, DoStep
<1>8. CASE RepairAdmin
    <2>1. Do("repair") /\ seeded' = seeded /\ seeded \in [Touchable -> Marks]
        BY <1>8 DEF RepairAdmin, SeedInv, Marks
    <2> QED
        BY <2>1, DoStep
<1> QED
    BY <1>2, <1>3, <1>4, <1>5, <1>6, <1>7, <1>8

\* A product that fails takes its images and variants with it; only a first run has products.
LEMMA ProductFails == ASSUME SeedInv, WriteProduct PROVE SeedInv'
<1>1. CASE Do("product") /\ Writes("product", "seeded")
    BY <1>1, WritesStep DEF Marks
<1>2. CASE ~(Do("product") /\ Writes("product", "seeded"))
    <2>1. run # << >> /\ Head(run).do = "product" /\ UNCHANGED << seeded, admin, first, settled, edits >>
        BY <1>2 DEF WriteProduct
    <2>2. first
        BY <2>1, LaterHead DEF SeedInv
    <2>3. seeded["full_admin"] # "absent"
        BY <2>1, FirstWorkIs DEF SeedInv, Step
    <2>4. settled["full_admin"] = "unknown" /\ OwnerDecides' = OwnerDecides
        BY <2>1, <2>2, FirstWorkIs DEF SeedInv, OwnerDecides
    <2> QED
        BY <2>1, <2>2, <2>3, <2>4 DEF SeedInv
<1> QED
    BY <1>1, <1>2

LEMMA StartRunStep == ASSUME SeedInv, NEW force \in BOOLEAN, StartRun(force) PROVE SeedInv'
<1>1. /\ first' = (force \/ NoRoles) /\ run' = (IF first' THEN FirstWork ELSE LaterWork)
      /\ seeded' = seeded
      /\ settled' = IF force THEN Forgotten ELSE [settled EXCEPT !["full_admin"] = "unknown"]
    BY DEF StartRun, IsFirstSeedRun
<1>2. "full_admin" \in SeedRoles /\ "full_admin" \in Touchable
    BY FirstWorkIs DEF SeedRoles
<1>3. NoRoles => \A k \in Touchable : settled[k] = "unknown"
    BY <1>2 DEF SeedInv, NoRoles
<1>4. first' => \A k \in Touchable : settled'[k] = "unknown"
    BY <1>1, <1>3 DEF SeedInv, Forgotten
<1>5. ~first' => LaterLeft'
    <2>1. \A i \in 1 .. Len(LaterWork) : i + 4 - Len(LaterWork) = i
        BY LaterWorkIs
    <2>2. LaterWork \in Seq(Work) /\ Len(LaterWork) = 4 /\ ~(4 = 1)
        BY LaterWorkIs
    <2>3. ASSUME ~first' PROVE run' = LaterWork
        BY <1>1, <2>3
    <2>4. ASSUME ~first'
          PROVE  /\ run' \in Seq(Work) /\ Len(run') = 4
                 /\ \A i \in 1 .. Len(run') : run'[i] = LaterWork[i + 4 - Len(run')]
        BY <2>1, <2>2, <2>3, <2>4
    <2>5. ~first' => Len(run') <= 4 /\ Len(run') # 1
        <3>1. ASSUME NEW n, n = 4 PROVE n <= 4 /\ n # 1
            BY <3>1
        <3> QED
            BY <2>4, <3>1, Zenon
    <2> QED
        BY <2>4, <2>5 DEF LaterLeft
<1>6. seeded["full_admin"] = "absent" => first'
    BY <1>1 DEF SeedInv, NoRoles, Touchable
<1>7. settled' \in [ Touchable -> {"unknown", "absent", "owner"} ]
    BY <1>1 DEF SeedInv, Forgotten
<1>8. OwnerDecides' /\ settled'["full_admin"] = "unknown"
    BY <1>1, <1>2 DEF SeedInv, OwnerDecides, Forgotten
<1> QED
    BY <1>1, <1>4, <1>5, <1>6, <1>7, <1>8 DEF SeedInv

\* The owner deletes or edits what is there, while no first run writes.
LEMMA OwnerStep == ASSUME SeedInv, NEW k \in Touchable, OwnerDeletes(k) \/ OwnerEdits(k) PROVE SeedInv'
<1>1. /\ ~first /\ UNCHANGED << run, first >> /\ LaterLeft
      /\ seeded[k] # "absent" \/ seeded["product"] # "absent"
    BY DEF OwnerDeletes, OwnerEdits, OwnerMay, SeedInv
<1>2. seeded["full_admin"] # "absent" /\ "full_admin" \in Touchable
    BY <1>1, FirstWorkIs DEF SeedInv
<1>3. CASE k # "full_admin"
    <2>1. PICK value \in {"absent", "owner"} :
             seeded' = [seeded EXCEPT ![k] = value] /\ settled' = [settled EXCEPT ![k] = value]
        BY <1>3 DEF OwnerDeletes, OwnerEdits
    <2>2. /\ seeded'["full_admin"] = seeded["full_admin"] /\ settled'["full_admin"] = settled["full_admin"]
          /\ OwnerDecides'
        BY <1>2, <1>3, <2>1 DEF SeedInv, OwnerDecides
    <2>3. LaterLeft'
        BY <1>1, <2>2 DEF LaterLeft
    <2> QED
        BY <1>1, <1>2, <2>1, <2>2, <2>3 DEF SeedInv
<1>4. CASE k = "full_admin"
    <2>1. /\ seeded' = [seeded EXCEPT !["full_admin"] = "owner"]
          /\ settled' = [settled EXCEPT !["full_admin"] = IF WritesFullAdmin THEN "unknown" ELSE "owner"]
        BY <1>4 DEF OwnerDeletes, Deletable, OwnerEdits
    <2>2. \A i \in 1 .. Len(run) : run[i] = LaterWork[i + 4 - Len(run)]
        BY <1>1, Zenon DEF LaterLeft
    <2>3. run \in Seq(Work) /\ Len(run) \in Nat /\ Len(run) <= 4 /\ DOMAIN run = 1 .. Len(run)
        BY <1>1, LenProperties DEF LaterLeft
    <2>4. Len(run) >= 2 => WritesFullAdmin
        <3>1. ASSUME NEW n \in Nat, n <= 4, n >= 2
              PROVE  1 \in 1 .. n /\ 1 + 4 - n \in 1 .. 4 /\ 1 + 4 - n < 4
            BY <3>1
        <3>2. ASSUME Len(run) >= 2 PROVE run[1].on = "full_admin" /\ 1 \in DOMAIN run
            <4>1. 1 \in 1 .. Len(run) /\ 1 + 4 - Len(run) \in 1 .. 4 /\ 1 + 4 - Len(run) < 4
                BY <2>3, <3>1, <3>2, Zenon
            <4>2. run[1] = LaterWork[1 + 4 - Len(run)]
                BY <2>2, <4>1, Zenon
            <4>3. LaterWork[1 + 4 - Len(run)].on = "full_admin"
                BY <4>1, LaterWorkIs, Zenon
            <4> QED
                BY <2>3, <4>1, <4>2, <4>3, Zenon
        <3> QED
            BY <3>2 DEF WritesFullAdmin
    <2>5. Len(run) = 1 => ~WritesFullAdmin
        <3> SUFFICES ASSUME Len(run) = 1, NEW i \in DOMAIN run PROVE run[i].on # "full_admin"
            BY DEF WritesFullAdmin
        <3>1. i = 1 /\ i \in 1 .. Len(run) /\ i + 4 - Len(run) = 4
            BY <2>3
        <3>2. run[i] = LaterWork[4]
            BY <2>2, <3>1, Zenon
        <3> QED
            BY <3>2, LaterWorkIs
    <2>6. LaterLeft'
        BY <1>1, <1>2, <2>1, <2>5 DEF LaterLeft, SeedInv
    <2>7. settled'["full_admin"] # "unknown" => Len(run') <= 1
        <3>1. Len(run) >= 2 \/ Len(run) <= 1
            BY <2>3
        <3> QED
            BY <1>1, <1>2, <2>1, <2>4, <3>1 DEF SeedInv
    <2>8. OwnerDecides' /\ seeded'["full_admin"] = "owner"
        BY <1>2, <2>1 DEF SeedInv, OwnerDecides
    <2> QED
        BY <1>1, <2>1, <2>6, <2>7, <2>8 DEF SeedInv
<1> QED
    BY <1>3, <1>4

LEMMA SeedNextOK == SeedInv /\ [SeedNext]_seedVars => SeedInv'
<1> SUFFICES ASSUME SeedInv, [SeedNext]_seedVars PROVE SeedInv'
    OBVIOUS
<1>1. CASE StopRun
    <2>1. run' \in Seq(Work) /\ Len(run') = 0 /\ run' = << >> /\ ~first'
        BY <1>1 DEF StopRun
    <2> QED
        BY <1>1, <2>1 DEF StopRun, SeedInv, OwnerDecides, LaterLeft
<1>2. CASE AdminLosesRole \/ UNCHANGED seedVars
    <2>1. UNCHANGED << seeded, run, first, settled >>
        BY <1>2 DEF AdminLosesRole, seedVars
    <2>2. LaterLeft' = LaterLeft /\ OwnerDecides' = OwnerDecides
        BY <2>1 DEF LaterLeft, OwnerDecides
    <2> QED
        BY <2>1, <2>2 DEF SeedInv
<1> QED
    BY <1>1, <1>2, StartRunStep, RunWorks, ProductFails, OwnerStep DEF SeedNext

\* seedDatabase: what the owner deleted or edited is not brought back by later runs, and a later run
\* that has come that far has given full_admin, whatever the owner had made of it, the whole catalog.
THEOREM OwnerIsSpared == SeedSpec => []SeedingSparesOwner
<1>1. SeedInv => SeedingSparesOwner
    <2> SUFFICES ASSUME SeedInv PROVE SeedingSparesOwner
        OBVIOUS
    <2>1. ASSUME run # << >>, Len(run) <= Len(LaterWork) - 3, ~first, settled["full_admin"] = "unknown"
          PROVE  seeded["full_admin"] = "seeded"
        <3>1. LaterLeft /\ Len(run) \in 1 .. 4
            BY <2>1, LaterHead DEF SeedInv
        <3>2. Len(run) = 1
            <4>1. Len(LaterWork) = 4
                BY LaterWorkIs
            <4>2. Len(run) <= 1
                BY <2>1, <4>1
            <4> QED
                BY <3>1, <4>2
        <3> QED
            BY <2>1, <3>1, <3>2 DEF LaterLeft
    <2> QED
        BY <2>1 DEF SeedInv, SeedingSparesOwner, FullAdminHoldsCatalog
<1> QED
    BY SeedInitOK, SeedNextOK, <1>1, PTL DEF SeedSpec

-----------------------------------------------------------------------------
(* ProductEdits, for any number of calls, products and images.  Of reorder: *)
(* under the open transactions lies one committed order, which is nobody's  *)
(* or a list's.  A transaction undoes what it has locked, and one that has  *)
(* locked every product leaves its own list.                                *)

TagCalls     == [ pc : {"idle", "read", "log"}, old : Tags, new : Tags ]
SortCalls    == [ open : BOOLEAN, list : Listings, at : 0 .. Size, was : [ Shelved -> 0 .. Size ] ]
PictureCalls == [ pc : {"idle", "unset", "set"}, picture : Pictures, primary : BOOLEAN ]

OneByOne(rows) == rows = NoRank \/ \A g, h \in Shelved : rows[g] = rows[h] => g = h

\* rows is the order of the products without what the open transactions have written.
Under(rows) ==
    \A g \in Shelved :
        /\ \A d \in Desks : g \in Locks(d) => rows[g] = sortCall[d].was[g]
        /\ (\A d \in Desks : g \notin Locks(d)) => rows[g] = rank[g]

SortsInv ==
    /\ rank \in [ Shelved -> 0 .. Size ] /\ sortCall \in [ Desks -> SortCalls ]
    /\ \A d \in Desks : ~sortCall[d].open => sortCall[d].at = 0
    /\ \A d, e \in Desks : d # e => Locks(d) \cap Locks(e) = {}
    /\ \A d \in Desks : \A i \in 1 .. sortCall[d].at : rank[sortCall[d].list[i]] = i - 1
    /\ \E rows \in [ Shelved -> 0 .. Size ] : Under(rows) /\ OneByOne(rows)

\* Of update: as long as calls come one by one, a call knows the price and its log entry.
TagsInv ==
    /\ tag \in Tags /\ tagLog \in Tags /\ tagCall \in [ Desks -> TagCalls ]
    /\ ~spoilt =>
         /\ \A d, e \in Desks : d # e => tagCall[d].pc = "idle" \/ tagCall[e].pc = "idle"
         /\ \A d \in Desks : /\ tagCall[d].pc = "read" => tagCall[d].old = tag
                             /\ tagCall[d].pc = "log" => tagCall[d].new = tag
         /\ (\A d \in Desks : tagCall[d].pc # "log") => tagLog = tag

\* Of updateImage: a call that is about to set the primary image has unset the others.
PicturesInv ==
    /\ pictureCall \in [ Desks -> PictureCalls ]
    /\ picture \in [ Pictures -> {"none", "plain", "primary"} ]
    /\ ~doubled =>
         /\ \A i, j \in Pictures : picture[i] = "primary" /\ picture[j] = "primary" => i = j
         /\ \A d, e \in Desks : d # e /\ pictureCall[d].pc # "idle" /\ pictureCall[e].pc # "idle"
                                  => ~pictureCall[d].primary \/ ~pictureCall[e].primary
         /\ \A d \in Desks : pictureCall[d].pc = "set" /\ pictureCall[d].primary
                               => \A i \in Pictures : picture[i] # "primary"

ProductsInv == TagsInv /\ SortsInv /\ PicturesInv

LEMMA IdleProductCalls ==
    /\ NoTagCall \in TagCalls /\ NoTagCall.pc = "idle" /\ AnyTag \in Tags
    /\ NoSort \in SortCalls /\ ~NoSort.open /\ NoSort.at = 0 /\ Size \in Nat
    /\ NoPick \in PictureCalls /\ NoPick.pc = "idle"
<1>1. AnyTag \in Tags /\ (CHOOSE i \in Pictures : TRUE) \in Pictures
    BY ProductAssumption DEF AnyTag
<1>2. Size \in Nat /\ ExistsBijection(1 .. Size, Shelved)
    BY ProductAssumption, FS_CardinalityType DEF Size
<1>3. Listings # {}
    BY <1>2 DEF ExistsBijection, Bijection, Injection, IsInjective, Listings
<1>4. (CHOOSE l \in Listings : TRUE) \in Listings
    BY <1>3
<1>5. NoTagCall \in TagCalls /\ NoTagCall.pc = "idle"
    BY <1>1 DEF NoTagCall, TagCalls
<1>6. NoSort \in SortCalls /\ ~NoSort.open /\ NoSort.at = 0
    BY <1>2, <1>4 DEF NoSort, SortCalls, NoRank
<1>7. NoPick \in PictureCalls /\ NoPick.pc = "idle"
    BY <1>1 DEF NoPick, PictureCalls
<1> QED
    BY <1>1, <1>2, <1>5, <1>6, <1>7

LEMMA ProductsInitOK == ProductsInit => ProductsInv
<1> SUFFICES ASSUME ProductsInit PROVE ProductsInv
    OBVIOUS
<1>1. TagsInv
    BY IdleProductCalls DEF ProductsInit, TagsInv
<1>2. PicturesInv
    BY IdleProductCalls DEF ProductsInit, PicturesInv
<1>3. SortsInv
    <2>1. /\ sortCall \in [ Desks -> SortCalls ] /\ \A d \in Desks : ~sortCall[d].open /\ sortCall[d].at = 0
          /\ rank = NoRank /\ rank \in [ Shelved -> 0 .. Size ]
        BY IdleProductCalls DEF ProductsInit, NoRank
    <2>2. \A d \in Desks : Locks(d) = {}
        BY <2>1 DEF Locks
    <2> QED
        BY <2>1, <2>2 DEF SortsInv, Under, OneByOne
<1> QED
    BY <1>1, <1>2, <1>3 DEF ProductsInv

LEMMA EditPriceStep == ASSUME TagsInv, EditPrice PROVE TagsInv'
<1>1. ASSUME NEW d \in Desks, NEW new \in Tags, ReadTag(d, new) PROVE TagsInv'
    <2>1. PICK u \in TagCalls : tagCall' = [tagCall EXCEPT ![d] = u] /\ u.pc = "read" /\ u.old = tag
        <3>1. [ pc |-> "read", old |-> tag, new |-> new ] \in TagCalls
            BY DEF TagsInv, TagCalls
        <3> QED
            BY <1>1, <3>1 DEF ReadTag
    <2>2. ~spoilt' => ~spoilt /\ \A e \in Desks : tagCall[e].pc = "idle"
        BY <1>1 DEF ReadTag
    <2> QED
        BY <1>1, <2>1, <2>2 DEF ReadTag, TagsInv
<1>2. ASSUME NEW d \in Desks, WriteTag(d) PROVE TagsInv'
    <2>1. /\ tagCall[d] \in TagCalls /\ tagCall[d].pc = "read"
          /\ tagCall[d].new \in Tags /\ tag' = tagCall[d].new /\ UNCHANGED << tagLog, spoilt >>
        BY <1>2 DEF WriteTag, TagsInv, TagCalls
    <2>2. PICK u \in TagCalls : /\ tagCall' = [tagCall EXCEPT ![d] = u]
                                /\ \/ u.pc = "log" /\ u.new = tag'
                                   \/ u.pc = "idle" /\ tagCall[d].old = tag'
        <3>1. /\ [tagCall[d] EXCEPT !.pc = "log"] \in TagCalls
              /\ [tagCall[d] EXCEPT !.pc = "log"].pc = "log"
              /\ [tagCall[d] EXCEPT !.pc = "log"].new = tagCall[d].new
            BY <2>1 DEF TagCalls
        <3> QED
            BY <1>2, <2>1, <3>1, IdleProductCalls DEF WriteTag
    <2> QED
        BY <2>1, <2>2 DEF TagsInv
<1>3. ASSUME NEW d \in Desks, LogTag(d) PROVE TagsInv'
    <2>1. /\ tagCall[d] \in TagCalls /\ tagCall[d].pc = "log" /\ tagCall[d].new \in Tags
          /\ tagLog' = tagCall[d].new /\ UNCHANGED << tag, spoilt >>
        BY <1>3 DEF LogTag, TagsInv, TagCalls
    <2>2. PICK u \in TagCalls : tagCall' = [tagCall EXCEPT ![d] = u] /\ u.pc = "idle"
        BY <1>3, IdleProductCalls DEF LogTag
    <2> QED
        BY <2>1, <2>2 DEF TagsInv
<1>4. ASSUME NEW d \in Desks, StopTag(d) PROVE TagsInv'
    <2>1. UNCHANGED << tag, tagLog >> /\ (~spoilt' => ~spoilt /\ tagCall[d].pc # "log")
        BY <1>4 DEF StopTag
    <2>2. PICK u \in TagCalls : tagCall' = [tagCall EXCEPT ![d] = u] /\ u.pc = "idle"
        BY <1>4, IdleProductCalls DEF StopTag
    <2> QED
        BY <2>1, <2>2 DEF TagsInv
<1> QED
    BY <1>1, <1>2, <1>3, <1>4 DEF EditPrice

LEMMA EditImagesStep == ASSUME PicturesInv, EditImages PROVE PicturesInv'
<1>1. ASSUME NEW i \in Pictures, AddImage(i, "plain") \/ AddImage(i, "primary") \/ RemoveImage(i)
      PROVE  PicturesInv'
    <2>1. PICK kind \in {"none", "plain", "primary"} :
             /\ picture' = [picture EXCEPT ![i] = kind] /\ pictureCall' = pictureCall
             /\ ~doubled' => ~doubled /\ kind # "primary"
        <3>1. CASE AddImage(i, "plain")
            BY <3>1 DEF AddImage
        <3>2. CASE AddImage(i, "primary")
            BY <3>2 DEF AddImage
        <3>3. CASE RemoveImage(i)
            BY <3>3 DEF RemoveImage
        <3> QED
            BY <1>1, <3>1, <3>2, <3>3
    <2> QED
        BY <2>1 DEF PicturesInv
<1>2. ASSUME NEW d \in Desks, NEW i \in Pictures, NEW primary \in BOOLEAN, FindImage(d, i, primary)
      PROVE  PicturesInv'
    <2>1. PICK u \in PictureCalls : /\ pictureCall' = [pictureCall EXCEPT ![d] = u] /\ u.primary = primary
                                    /\ u.pc = (IF primary THEN "unset" ELSE "set")
        <3>1. [ pc |-> IF primary THEN "unset" ELSE "set", picture |-> i, primary |-> primary ] \in PictureCalls
            BY DEF PictureCalls
        <3> QED
            BY <1>2, <3>1 DEF FindImage
    <2>2. /\ picture' = picture /\ pictureCall[d].pc = "idle"
          /\ ~doubled' => ~doubled /\ (primary => \A e \in Desks : pictureCall[e].pc = "idle" \/ ~pictureCall[e].primary)
        BY <1>2 DEF FindImage
    <2> QED
        BY <2>1, <2>2 DEF PicturesInv
<1>3. ASSUME NEW d \in Desks, UnsetPrimary(d) PROVE PicturesInv'
    <2>1. PICK u \in PictureCalls : /\ pictureCall' = [pictureCall EXCEPT ![d] = u]
                                    /\ u.primary = pictureCall[d].primary /\ u.pc = "set"
        <3> DEFINE w == [pictureCall[d] EXCEPT !.pc = "set"]
        <3>1. pictureCall[d] \in PictureCalls
            BY DEF PicturesInv
        <3>2. w \in PictureCalls /\ w.primary = pictureCall[d].primary /\ w.pc = "set"
            BY <3>1 DEF PictureCalls
        <3>3. pictureCall' = [pictureCall EXCEPT ![d] = w]
            BY <1>3, <3>1 DEF UnsetPrimary, PictureCalls
        <3> QED
            BY <3>2, <3>3
    <2>2. /\ pictureCall[d].pc = "unset" /\ doubled' = doubled
          /\ picture' \in [ Pictures -> {"none", "plain", "primary"} ]
          /\ \A i \in Pictures : picture'[i] # "primary"
        BY <1>3 DEF UnsetPrimary, PicturesInv
    <2> QED
        BY <2>1, <2>2 DEF PicturesInv
<1>4. ASSUME NEW d \in Desks, UpdateImage(d) PROVE PicturesInv'
    <2>1. PICK r \in PictureCalls : r = pictureCall[d] /\ r.pc = "set" /\ r.picture \in Pictures
        BY <1>4 DEF UpdateImage, PicturesInv, PictureCalls
    <2>2. PICK u \in PictureCalls : pictureCall' = [pictureCall EXCEPT ![d] = u] /\ u.pc = "idle"
        BY <1>4, IdleProductCalls DEF UpdateImage
    <2>3. PICK kind \in {"plain", "primary"} : /\ picture' = [picture EXCEPT ![r.picture] = kind]
                                               /\ kind = "primary" => r.primary
        BY <1>4, <2>1 DEF UpdateImage
    <2>4. doubled' = doubled
        BY <1>4 DEF UpdateImage
    <2>5. picture' \in [ Pictures -> {"none", "plain", "primary"} ] /\ pictureCall' \in [ Desks -> PictureCalls ]
        BY <2>1, <2>2, <2>3 DEF PicturesInv
    <2>6. CASE ~doubled /\ kind = "primary"
        <3>1. /\ \A i \in Pictures : picture[i] # "primary"
              /\ \A e \in Desks : e # d /\ pictureCall[e].pc # "idle" => ~pictureCall[e].primary
            BY <2>1, <2>3, <2>6 DEF PicturesInv
        <3>2. \A i \in Pictures : picture'[i] = "primary" => i = r.picture
            BY <2>3, <3>1 DEF PicturesInv
        <3>3. \A e \in Desks : pictureCall'[e].pc # "idle" => ~pictureCall'[e].primary
            BY <2>2, <3>1 DEF PicturesInv
        <3> QED
            BY <2>5, <3>2, <3>3 DEF PicturesInv
    <2>7. CASE ~doubled /\ kind = "plain"
        <3>1. \A i \in Pictures : picture'[i] = "primary" => picture[i] = "primary"
            BY <2>3, <2>7 DEF PicturesInv
        <3> QED
            BY <2>2, <2>5, <2>7, <3>1 DEF PicturesInv
    <2> QED
        BY <2>4, <2>5, <2>6, <2>7 DEF PicturesInv
<1>5. ASSUME NEW d \in Desks, StopImage(d) PROVE PicturesInv'
    <2>1. PICK u \in PictureCalls : pictureCall' = [pictureCall EXCEPT ![d] = u] /\ u.pc = "idle"
        BY <1>5, IdleProductCalls DEF StopImage
    <2> QED
        BY <1>5, <2>1 DEF StopImage, PicturesInv
<1> QED
    BY <1>1, <1>2, <1>3, <1>4, <1>5 DEF EditImages

LEMMA SortTyped ==
    ASSUME SortsInv, NEW d \in Desks
    PROVE  /\ sortCall[d] \in SortCalls /\ sortCall[d].at \in 0 .. Size /\ Size \in Nat
           /\ sortCall[d].list \in [1 .. Size -> Shelved] /\ sortCall[d].was \in [Shelved -> 0 .. Size]
           /\ \A i, j \in 1 .. Size : sortCall[d].list[i] = sortCall[d].list[j] => i = j
           /\ Locks(d) \subseteq Shelved
<1>1. sortCall[d] \in SortCalls /\ Size \in Nat
    BY IdleProductCalls DEF SortsInv
<1>2. sortCall[d].at \in 0 .. Size /\ sortCall[d].list \in Listings /\ sortCall[d].was \in [Shelved -> 0 .. Size]
    BY <1>1 DEF SortCalls
<1>3. /\ sortCall[d].list \in [1 .. Size -> Shelved]
      /\ \A i, j \in 1 .. Size : sortCall[d].list[i] = sortCall[d].list[j] => i = j
    BY <1>2 DEF Listings
<1>4. Locks(d) \subseteq Shelved
    <2>1. \A i \in 1 .. sortCall[d].at : i \in 1 .. Size
        BY <1>1, <1>2
    <2> QED
        BY <1>3, <2>1, Zenon DEF Locks
<1> QED
    BY <1>1, <1>2, <1>3, <1>4, Zenon

\* A transaction that has gone through its list has locked every product.
LEMMA ListCovers == ASSUME SortsInv, NEW d \in Desks, sortCall[d].at = Size PROVE Locks(d) = Shelved
<1>1. /\ sortCall[d].list \in [1 .. Size -> Shelved] /\ Size \in Nat
      /\ \A i, j \in 1 .. Size : sortCall[d].list[i] = sortCall[d].list[j] => i = j
    BY SortTyped
<1>2. sortCall[d].list \in Injection(1 .. Size, Shelved)
    BY <1>1 DEF Injection, IsInjective
<1>3. Cardinality(1 .. Size) = Size /\ Cardinality(Shelved) = Size /\ IsFiniteSet(Shelved)
    BY <1>1, FS_Interval, ProductAssumption DEF Size
<1>4. sortCall[d].list \in Surjection(1 .. Size, Shelved)
    BY <1>2, <1>3, FS_Injection
<1>5. \A g \in Shelved : \E i \in 1 .. Size : sortCall[d].list[i] = g
    BY <1>4 DEF Surjection
<1>6. Locks(d) = { sortCall[d].list[i] : i \in 1 .. Size }
    BY DEF Locks
<1>7. \A i \in 1 .. Size : sortCall[d].list[i] \in Shelved
    BY <1>1
<1> QED
    BY <1>5, <1>6, <1>7

\* What a step of one transaction leaves of the others' locks.
LEMMA OthersLocks ==
    ASSUME SortsInv, NEW d \in Desks, NEW u \in SortCalls, sortCall' = [sortCall EXCEPT ![d] = u]
    PROVE  /\ sortCall' \in [ Desks -> SortCalls ] /\ sortCall'[d] = u
           /\ \A e \in Desks \ {d} : sortCall'[e] = sortCall[e] /\ Locks(e)' = Locks(e)
           /\ Locks(d)' = { u.list[i] : i \in 1 .. u.at }
           /\ u.at = 0 => Locks(d)' = {}
<1>1. sortCall' \in [ Desks -> SortCalls ] /\ sortCall'[d] = u /\ \A e \in Desks \ {d} : sortCall'[e] = sortCall[e]
    BY DEF SortsInv
<1>2. \A e \in Desks \ {d} : Locks(e)' = Locks(e)
    BY <1>1 DEF Locks
<1>3. Locks(d)' = { u.list[i] : i \in 1 .. u.at }
    BY <1>1 DEF Locks
<1>4. ASSUME u.at = 0 PROVE Locks(d)' = {}
    BY <1>3, <1>4
<1> QED
    BY <1>1, <1>2, <1>3, <1>4

LEMMA BeginSortStep == ASSUME SortsInv, NEW d \in Desks, NEW list \in Listings, BeginSort(d, list) PROVE SortsInv'
<1> DEFINE w == [ open |-> TRUE, list |-> list, at |-> 0, was |-> NoRank ]
<1>1. w \in SortCalls /\ w.open /\ w.at = 0
    BY IdleProductCalls DEF SortCalls, NoRank
<1>2. PICK u \in SortCalls : sortCall' = [sortCall EXCEPT ![d] = u] /\ u.at = 0
    BY <1>1 DEF BeginSort
<1>3. /\ sortCall' \in [ Desks -> SortCalls ] /\ sortCall'[d] = u /\ Locks(d)' = {}
      /\ \A e \in Desks \ {d} : sortCall'[e] = sortCall[e] /\ Locks(e)' = Locks(e)
    BY <1>2, OthersLocks
<1>4. rank' = rank /\ Locks(d) = {}
    <2>1. sortCall[d].at = 0
        BY DEF BeginSort, SortsInv
    <2> QED
        BY <2>1 DEF BeginSort, Locks
<1>5. PICK rows \in [ Shelved -> 0 .. Size ] : Under(rows) /\ OneByOne(rows)
    BY DEF SortsInv
<1>6. Under(rows)'
    BY <1>3, <1>4, <1>5 DEF Under
<1>7. \A e \in Desks : ~sortCall'[e].open => sortCall'[e].at = 0
    BY <1>2, <1>3 DEF SortsInv
<1>8. \A e, f \in Desks : e # f => Locks(e)' \cap Locks(f)' = {}
    BY <1>3 DEF SortsInv
<1>9. \A e \in Desks : \A i \in 1 .. sortCall'[e].at : rank'[sortCall'[e].list[i]] = i - 1
    BY <1>2, <1>3, <1>4 DEF SortsInv
<1>10. OneByOne(rows)' /\ rank' \in [ Shelved -> 0 .. Size ]
    BY <1>4, <1>5 DEF SortsInv, OneByOne, NoRank
<1> QED
    BY <1>3, <1>6, <1>7, <1>8, <1>9, <1>10 DEF SortsInv

LEMMA CommitSortStep == ASSUME SortsInv, NEW d \in Desks, CommitSort(d) PROVE SortsInv'
<1>1. PICK u \in SortCalls : sortCall' = [sortCall EXCEPT ![d] = u] /\ u.at = 0
    BY IdleProductCalls DEF CommitSort
<1>2. /\ sortCall' \in [ Desks -> SortCalls ] /\ sortCall'[d] = u /\ Locks(d)' = {}
      /\ \A e \in Desks \ {d} : sortCall'[e] = sortCall[e] /\ Locks(e)' = Locks(e)
    BY <1>1, OthersLocks
<1>3. rank' = rank /\ sortCall[d].at = Size /\ Locks(d) = Shelved
    BY ListCovers DEF CommitSort
<1>4. \A e \in Desks : Locks(e)' = {}
    <2>1. ASSUME NEW e \in Desks \ {d} PROVE Locks(e) = {}
        <3>1. Locks(e) \subseteq Shelved /\ Locks(e) \cap Locks(d) = {}
            BY SortTyped DEF SortsInv
        <3> QED
            BY <1>3, <3>1
    <2> QED
        BY <1>2, <2>1
<1>5. \A g, h \in Shelved : rank[g] = rank[h] => g = h
    <2>1. \A g \in Shelved : \E i \in 1 .. Size : g = sortCall[d].list[i] /\ rank[g] = i - 1
        BY <1>3 DEF Locks, SortsInv
    <2>2. ASSUME NEW g \in Shelved, NEW h \in Shelved, rank[g] = rank[h] PROVE g = h
        <3>1. PICK i \in 1 .. Size : g = sortCall[d].list[i] /\ rank[g] = i - 1
            BY <2>1
        <3>2. PICK j \in 1 .. Size : h = sortCall[d].list[j] /\ rank[h] = j - 1
            BY <2>1
        <3>3. i = j
            BY <2>2, <3>1, <3>2, IdleProductCalls
        <3> QED
            BY <3>1, <3>2, <3>3
    <2> QED
        BY <2>2
<1>6. rank \in [ Shelved -> 0 .. Size ]
    BY DEF SortsInv
<1>7. \E rows \in [ Shelved -> 0 .. Size ] : Under(rows)' /\ OneByOne(rows)'
    <2>1. PICK rows \in [ Shelved -> 0 .. Size ] : rows = rank
        BY <1>6
    <2>2. Under(rows)'
        BY <1>3, <1>4, <2>1 DEF Under
    <2>3. OneByOne(rows)'
        BY <1>5, <2>1 DEF OneByOne
    <2> QED
        BY <2>2, <2>3
<1>8. \A e \in Desks : ~sortCall'[e].open => sortCall'[e].at = 0
    BY <1>1, <1>2 DEF SortsInv
<1>9. \A e \in Desks : \A i \in 1 .. sortCall'[e].at : rank'[sortCall'[e].list[i]] = i - 1
    BY <1>1, <1>2, <1>3 DEF SortsInv
<1>10. \A e, f \in Desks : e # f => Locks(e)' \cap Locks(f)' = {}
    BY <1>4
<1> QED
    BY <1>2, <1>3, <1>6, <1>7, <1>8, <1>9, <1>10 DEF SortsInv

LEMMA RollbackSortStep == ASSUME SortsInv, NEW d \in Desks, RollbackSort(d) PROVE SortsInv'
<1>1. PICK u \in SortCalls : sortCall' = [sortCall EXCEPT ![d] = u] /\ u.at = 0
    BY IdleProductCalls DEF RollbackSort
<1>2. /\ sortCall' \in [ Desks -> SortCalls ] /\ sortCall'[d] = u /\ Locks(d)' = {}
      /\ \A e \in Desks \ {d} : sortCall'[e] = sortCall[e] /\ Locks(e)' = Locks(e)
    BY <1>1, OthersLocks
<1>3. /\ rank' \in [ Shelved -> 0 .. Size ]
      /\ \A g \in Locks(d) : rank'[g] = sortCall[d].was[g]
      /\ \A g \in Shelved \ Locks(d) : rank'[g] = rank[g]
    <2>1. /\ sortCall[d].was \in [ Shelved -> 0 .. Size ] /\ Locks(d) \subseteq Shelved
          /\ rank \in [ Shelved -> 0 .. Size ]
        BY SortTyped DEF SortsInv
    <2> QED
        BY <2>1 DEF RollbackSort
<1>4. PICK rows \in [ Shelved -> 0 .. Size ] : Under(rows) /\ OneByOne(rows)
    BY DEF SortsInv
<1>5. ASSUME NEW g \in Shelved
      PROVE  /\ \A e \in Desks : g \in Locks(e)' => rows[g] = sortCall'[e].was[g]
             /\ (\A e \in Desks : g \notin Locks(e)') => rows[g] = rank'[g]
    <2>1. \A e \in Desks : g \in Locks(e)' => rows[g] = sortCall'[e].was[g]
        BY <1>2, <1>4 DEF Under
    <2>2. ASSUME \A e \in Desks : g \notin Locks(e)' PROVE rows[g] = rank'[g]
        <3>1. CASE g \in Locks(d)
            BY <1>3, <1>4, <3>1 DEF Under
        <3>2. CASE g \notin Locks(d)
            BY <1>2, <1>3, <1>4, <2>2, <3>2 DEF Under
        <3> QED
            BY <3>1, <3>2
    <2> QED
        BY <2>1, <2>2
<1>6. Under(rows)' /\ OneByOne(rows)'
    BY <1>4, <1>5 DEF Under, OneByOne, NoRank
<1>7. \A e \in Desks : ~sortCall'[e].open => sortCall'[e].at = 0
    BY <1>1, <1>2 DEF SortsInv
<1>8. \A e, f \in Desks : e # f => Locks(e)' \cap Locks(f)' = {}
    BY <1>2 DEF SortsInv
<1>9. ASSUME NEW e \in Desks, NEW i \in 1 .. sortCall'[e].at PROVE rank'[sortCall'[e].list[i]] = i - 1
    <2>1. e # d /\ sortCall'[e] = sortCall[e]
        BY <1>1, <1>2
    <2>2. sortCall[e].list[i] \in Locks(e) /\ Locks(e) \subseteq Shelved /\ Locks(e) \cap Locks(d) = {}
        BY <2>1, SortTyped DEF Locks, SortsInv
    <2>3. rank[sortCall[e].list[i]] = i - 1
        BY <2>1 DEF SortsInv
    <2> QED
        BY <1>3, <2>1, <2>2, <2>3
<1> QED
    BY <1>2, <1>3, <1>6, <1>7, <1>8, <1>9 DEF SortsInv

\* A product is written by one transaction at a time, so what it overwrites is what lies under it.
LEMMA SortOneStep == ASSUME SortsInv, NEW d \in Desks, SortOne(d) PROVE SortsInv'
<1> DEFINE place == sortCall[d].at
           g     == sortCall[d].list[place + 1]
           w     == [sortCall[d] EXCEPT !.at = place + 1, !.was[g] = rank[g]]
<1>1. /\ sortCall[d] \in SortCalls /\ place \in Nat /\ Size \in Nat /\ place < Size
      /\ sortCall[d].list \in [1 .. Size -> Shelved] /\ sortCall[d].was \in [Shelved -> 0 .. Size]
      /\ \A i, j \in 1 .. Size : sortCall[d].list[i] = sortCall[d].list[j] => i = j
      /\ rank \in [ Shelved -> 0 .. Size ]
    BY SortTyped DEF SortOne, SortsInv
<1>2. g \in Shelved /\ place + 1 \in 1 .. Size
    <2>1. place + 1 \in 1 .. Size
        <3> HIDE DEF place
        <3> QED
            BY <1>1
    <2> HIDE DEF place
    <2> QED
        BY <1>1, <2>1
<1>3. g \notin Locks(d)
    <2>1. ASSUME NEW i \in 1 .. place, g = sortCall[d].list[i] PROVE FALSE
        <3>1. i \in 1 .. Size /\ i # place + 1
            BY <1>1
        <3> QED
            BY <1>1, <1>2, <2>1, <3>1
    <2> QED
        BY <2>1 DEF Locks
<1>4. /\ w \in SortCalls /\ w.at = place + 1 /\ w.list = sortCall[d].list /\ w.open
      /\ w.was = [sortCall[d].was EXCEPT ![g] = rank[g]]
    <2>1. [sortCall[d].was EXCEPT ![g] = rank[g]] \in [ Shelved -> 0 .. Size ] /\ place + 1 \in 0 .. Size
        BY <1>1, <1>2
    <2>2. w = [sortCall[d] EXCEPT !.at = place + 1, !.was = [sortCall[d].was EXCEPT ![g] = rank[g]]]
        BY <1>1 DEF SortCalls
    <2> HIDE DEF g, place, w
    <2> QED
        BY <1>1, <2>1, <2>2 DEF SortCalls, SortOne
<1>5. sortCall' = [sortCall EXCEPT ![d] = w]
    BY <1>1 DEF SortOne, SortCalls, SortsInv
<1>6. rank' = [rank EXCEPT ![g] = place] /\ \A e \in Desks \ {d} : g \notin Locks(e)
    BY DEF SortOne
<1> HIDE DEF g, place, w
<1>7. /\ sortCall' \in [ Desks -> SortCalls ] /\ sortCall'[d] = w
      /\ \A e \in Desks \ {d} : sortCall'[e] = sortCall[e] /\ Locks(e)' = Locks(e)
      /\ Locks(d)' = { w.list[i] : i \in 1 .. w.at }
    BY <1>4, <1>5, OthersLocks
<1>8. Locks(d)' = Locks(d) \cup {g}
    <2>1. \A i \in 1 .. place : i \in 1 .. place + 1 /\ w.list[i] = sortCall[d].list[i]
        BY <1>1, <1>4
    <2>2. \A i \in 1 .. place + 1 : i \in 1 .. place \/ i = place + 1
        BY <1>1
    <2>3. w.list[place + 1] = g /\ place + 1 \in 1 .. place + 1
        BY <1>1, <1>4 DEF g
    <2>4. Locks(d) = { sortCall[d].list[i] : i \in 1 .. place }
        BY DEF Locks, place
    <2> QED
        BY <1>4, <1>7, <2>1, <2>2, <2>3, <2>4
<1>9. rank' \in [ Shelved -> 0 .. Size ] /\ rank'[g] = place /\ \A h \in Shelved \ {g} : rank'[h] = rank[h]
    BY <1>1, <1>2, <1>6
<1>10. PICK rows \in [ Shelved -> 0 .. Size ] : Under(rows) /\ OneByOne(rows)
    BY DEF SortsInv
<1>11. rows[g] = rank[g]
    BY <1>2, <1>3, <1>6, <1>10 DEF Under
<1>12. ASSUME NEW h \in Shelved
       PROVE  /\ \A e \in Desks : h \in Locks(e)' => rows[h] = sortCall'[e].was[h]
              /\ (\A e \in Desks : h \notin Locks(e)') => rows[h] = rank'[h]
    <2>1. ASSUME NEW e \in Desks \ {d}, h \in Locks(e)' PROVE rows[h] = sortCall'[e].was[h]
        BY <1>7, <1>10, <2>1 DEF Under
    <2>2. ASSUME h \in Locks(d)' PROVE rows[h] = sortCall'[d].was[h]
        <3>1. CASE h = g
            BY <1>1, <1>2, <1>4, <1>7, <1>11, <3>1
        <3>2. CASE h # g
            <4>1. h \in Locks(d) /\ w.was[h] = sortCall[d].was[h]
                BY <1>1, <1>4, <1>8, <2>2, <3>2
            <4> QED
                BY <1>7, <1>10, <4>1 DEF Under
        <3> QED
            BY <3>1, <3>2
    <2>3. ASSUME \A e \in Desks : h \notin Locks(e)' PROVE rows[h] = rank'[h]
        <3>1. h # g /\ \A e \in Desks : h \notin Locks(e)
            BY <1>7, <1>8, <2>3
        <3> QED
            BY <1>9, <1>10, <3>1 DEF Under
    <2> QED
        BY <2>1, <2>2, <2>3
<1>13. Under(rows)' /\ OneByOne(rows)'
    BY <1>10, <1>12 DEF Under, OneByOne, NoRank
<1>14. \A e \in Desks : ~sortCall'[e].open => sortCall'[e].at = 0
    BY <1>4, <1>7 DEF SortsInv
<1>15. \A e, f \in Desks : e # f => Locks(e)' \cap Locks(f)' = {}
    <2>1. \A e, f \in Desks \ {d} : e # f => Locks(e)' \cap Locks(f)' = {}
        BY <1>7 DEF SortsInv
    <2>2. \A e \in Desks \ {d} : Locks(e)' \cap Locks(d)' = {}
        BY <1>6, <1>7, <1>8 DEF SortsInv
    <2> QED
        BY <2>1, <2>2
<1>16. ASSUME NEW e \in Desks, NEW i \in 1 .. sortCall'[e].at PROVE rank'[sortCall'[e].list[i]] = i - 1
    <2>1. CASE e # d
        <3>1. sortCall[e].list[i] \in Locks(e) /\ Locks(e) \subseteq Shelved /\ g \notin Locks(e)
            BY <1>6, <1>7, <2>1, SortTyped DEF Locks
        <3>2. rank[sortCall[e].list[i]] = i - 1
            BY <1>7, <2>1 DEF SortsInv
        <3> QED
            BY <1>7, <1>9, <2>1, <3>1, <3>2
    <2>2. CASE e = d /\ i = place + 1
        BY <1>1, <1>4, <1>7, <1>9, <2>2 DEF g
    <2>3. CASE e = d /\ i # place + 1
        <3>1. i \in 1 .. place
            BY <1>1, <1>4, <1>7, <2>3
        <3>2. sortCall[d].list[i] \in Locks(d) /\ rank[sortCall[d].list[i]] = i - 1
            BY <3>1 DEF Locks, SortsInv, place
        <3>3. sortCall[d].list[i] \in Shelved /\ sortCall[d].list[i] # g
            BY <1>3, <3>2, SortTyped
        <3> QED
            BY <1>4, <1>7, <1>9, <2>3, <3>2, <3>3
    <2> QED
        BY <2>1, <2>2, <2>3
<1> QED
    BY <1>7, <1>9, <1>13, <1>14, <1>15, <1>16 DEF SortsInv

LEMMA SortsStand == ASSUME SortsInv, UNCHANGED sortVars PROVE SortsInv'
<1>1. sortCall' = sortCall /\ rank' = rank /\ \A d \in Desks : Locks(d)' = Locks(d)
    BY DEF sortVars, Locks
<1>2. PICK rows \in [ Shelved -> 0 .. Size ] : Under(rows) /\ OneByOne(rows)
    BY DEF SortsInv
<1>3. Under(rows)' /\ OneByOne(rows)'
    BY <1>1, <1>2 DEF Under, OneByOne, NoRank
<1>4. \A d, e \in Desks : d # e => Locks(d)' \cap Locks(e)' = {}
    BY <1>1 DEF SortsInv
<1> QED
    BY <1>1, <1>3, <1>4 DEF SortsInv

LEMMA ProductsNextOK == ASSUME ProductsInv, [ProductsNext]_productVars PROVE ProductsInv'
<1>1. CASE EditPrice /\ UNCHANGED << sortVars, pictureVars >>
    <2>1. TagsInv'
        BY <1>1, EditPriceStep DEF ProductsInv
    <2>2. SortsInv'
        BY <1>1, SortsStand DEF ProductsInv
    <2>3. PicturesInv'
        BY <1>1 DEF ProductsInv, PicturesInv, pictureVars
    <2> QED
        BY <2>1, <2>2, <2>3 DEF ProductsInv
<1>2. CASE Reorder /\ UNCHANGED << tagVars, pictureVars >>
    <2>1. SortsInv'
        BY <1>2, BeginSortStep, SortOneStep, CommitSortStep, RollbackSortStep DEF ProductsInv, Reorder
    <2>2. TagsInv' /\ PicturesInv'
        BY <1>2 DEF ProductsInv, TagsInv, PicturesInv, tagVars, pictureVars
    <2> QED
        BY <2>1, <2>2 DEF ProductsInv
<1>3. CASE EditImages /\ UNCHANGED << tagVars, sortVars >>
    <2>1. PicturesInv'
        BY <1>3, EditImagesStep DEF ProductsInv
    <2>2. TagsInv'
        BY <1>3 DEF ProductsInv, TagsInv, tagVars
    <2>3. SortsInv'
        BY <1>3, SortsStand DEF ProductsInv
    <2> QED
        BY <2>1, <2>2, <2>3 DEF ProductsInv
<1>4. CASE UNCHANGED productVars
    <2>1. TagsInv' /\ PicturesInv'
        BY <1>4 DEF ProductsInv, TagsInv, PicturesInv, tagVars, pictureVars, productVars
    <2>2. SortsInv'
        BY <1>4, SortsStand DEF ProductsInv, productVars
    <2> QED
        BY <2>1, <2>2 DEF ProductsInv
<1> QED
    BY <1>1, <1>2, <1>3, <1>4 DEF ProductsNext

LEMMA ProductsInvHolds == ProductsInv => PagesHold
<1> SUFFICES ASSUME ProductsInv PROVE PagesHold
    OBVIOUS
<1>1. ASSUME \A d \in Desks : ~sortCall[d].open PROVE OneByOne(rank)
    <2>1. \A d \in Desks : Locks(d) = {}
        BY <1>1 DEF ProductsInv, SortsInv, Locks
    <2>2. PICK rows \in [ Shelved -> 0 .. Size ] : Under(rows) /\ OneByOne(rows)
        BY DEF ProductsInv, SortsInv
    <2>3. rows = rank
        BY <2>1, <2>2 DEF Under, ProductsInv, SortsInv
    <2> QED
        BY <2>2, <2>3
<1>2. ASSUME ~doubled PROVE Cardinality({ i \in Pictures : picture[i] = "primary" }) <= 1
    <2> DEFINE P == { i \in Pictures : picture[i] = "primary" }
    <2>1. \A i, j \in P : i = j
        BY <1>2 DEF ProductsInv, PicturesInv
    <2>2. CASE P = {}
        BY <2>2, FS_EmptySet
    <2>3. ASSUME NEW i \in P PROVE Cardinality(P) <= 1
        <3>1. P = {i} /\ Cardinality({i}) = 1
            BY <2>1, <2>3, FS_Singleton
        <3> QED
            BY <3>1
    <2> QED
        BY <2>2, <2>3
<1> QED
    BY <1>1, <1>2 DEF PagesHold, OneByOne, ProductsInv, TagsInv

\* Whatever calls of ProductsService.reorder, updateImage and update do: when no transaction of reorder is
\* open the places of the products are those of one list; unless two calls for a primary image
\* overlapped or one was added there is at most one; and unless two updates overlapped or one stopped, the
\* price history ends with the price.
THEOREM PagesAreWhole == ProductsSpec => []PagesHold
<1>1. ProductsInit => ProductsInv
    BY ProductsInitOK
<1>2. ProductsInv /\ [ProductsNext]_productVars => ProductsInv'
    BY ProductsNextOK
<1>3. ProductsInv => PagesHold
    BY ProductsInvHolds
<1> QED
    BY <1>1, <1>2, <1>3, PTL DEF ProductsSpec

-----------------------------------------------------------------------------
(* The limit of trackOrder.  The Map keeps what a call could still count:   *)
(* a stamp it has dropped is older than any window that is yet to end.      *)

OpenCalls(n)      == { c \in Trackers : tracker[c].open /\ tracker[c].number = n }
StampsAt(stamps, m) == { s \in stamps : s.at = m }
Within(stamps, m) == { s \in stamps : s.at \in m .. (m + Window - 1) }

\* The stamps of one moment are numbered from 1 and none is of a moment to come.
Tidy(stamps) == \A s \in stamps : s.at <= moment /\ s.nth \in 1 .. Cardinality(StampsAt(stamps, s.at))

NumberOK(n) ==
    /\ IsFiniteSet(passed[n]) /\ IsFiniteSet(OpenCalls(n)) /\ Tidy(passed[n])
    /\ tries[n] \subseteq passed[n] /\ Recent(tries[n]) = Recent(passed[n])
    /\ \A m \in 0 .. LastMoment : Cardinality(Within(passed[n], m)) <= MostTries
    /\ failures[n] + Cardinality(OpenCalls(n)) <= Cardinality(passed[n])

TrackingInv == TrackingTypeOK /\ \A n \in Numbers : NumberOK(n)

NothingAsked ==
    /\ tracker = [ c \in Trackers |-> NoTracker ] /\ tries = Fresh /\ passed = Fresh
    /\ failures = [ n \in Numbers |-> 0 ]

LEMMA OneMore ==
    ASSUME NEW S, NEW x, IsFiniteSet(S)
    PROVE  /\ IsFiniteSet(S \cup {x}) /\ Cardinality(S \cup {x}) <= Cardinality(S) + 1
           /\ Cardinality(S) \in Nat /\ Cardinality(S \cup {x}) \in Nat
           /\ x \notin S => Cardinality(S \cup {x}) = Cardinality(S) + 1
<1>1. IsFiniteSet(S \cup {x})
    BY FS_AddElement
<1>2. Cardinality(S) \in Nat /\ Cardinality(S \cup {x}) \in Nat
    BY <1>1, FS_CardinalityType
<1>3. Cardinality(S \cup {x}) = IF x \in S THEN Cardinality(S) ELSE Cardinality(S) + 1
    BY FS_AddElement
<1> QED
    BY <1>1, <1>2, <1>3

LEMMA NoTrackerTyped ==
    NoTracker \in [ open : BOOLEAN, number : Numbers, right : BOOLEAN ] /\ ~NoTracker.open
BY TrackingAssumption DEF NoTracker

\* Nothing asked, nothing counted.
LEMMA FreshNumbers == TrackingTypeOK /\ NothingAsked => TrackingInv
<1> SUFFICES ASSUME TrackingTypeOK, NothingAsked, NEW n \in Numbers PROVE NumberOK(n)
    BY DEF TrackingInv
<1>1. passed[n] = {} /\ tries[n] = {} /\ failures[n] = 0
    BY DEF NothingAsked, Fresh
<1>2. OpenCalls(n) = {}
    BY NoTrackerTyped DEF NothingAsked, OpenCalls
<1>3. \A m \in 0 .. LastMoment : Within(passed[n], m) = {}
    BY <1>1 DEF Within
<1>4. Recent(tries[n]) = Recent(passed[n])
    BY <1>1
<1> QED
    BY <1>1, <1>2, <1>3, <1>4, FS_EmptySet, TrackingAssumption DEF NumberOK, Tidy

LEMMA TrackingInitOK == TrackingInit => TrackingInv
<1> SUFFICES ASSUME TrackingInit PROVE TrackingInv
    OBVIOUS
<1>1. TrackingTypeOK
    BY TrackingAssumption, NoTrackerTyped DEF TrackingInit, TrackingTypeOK, Fresh
<1> QED
    BY <1>1, FreshNumbers DEF TrackingInit, NothingAsked

\* A call that is let through: its stamp is a new one, and every window it falls into holds
\* only stamps of the last minute besides.
LEMMA TrackStep ==
    ASSUME TrackingInv, NEW c \in Trackers, NEW n \in Numbers, NEW right \in BOOLEAN, Track(c, n, right)
    PROVE  TrackingInv'
<1> DEFINE s == Stamp(tries[n])
           P == passed[n]
           now == StampsAt(P, moment)
<1>1. /\ moment \in Nat /\ Window \in Nat \ {0} /\ moment \in 0 .. LastMoment /\ LastMoment \in Nat
      /\ MostTries \in Nat
    BY TrackingAssumption DEF TrackingInv, TrackingTypeOK
<1>2. P \subseteq Stamps /\ NumberOK(n) /\ tries[n] \subseteq P
    BY DEF TrackingInv, TrackingTypeOK, NumberOK
<1>3. { t \in tries[n] : t.at = moment } = now
    <2>1. \A t \in P : t.at = moment => t \in Recent(P)
        BY <1>1 DEF Recent
    <2>2. \A t \in P : t.at = moment => t \in tries[n]
        BY <1>2, <2>1 DEF NumberOK, Recent
    <2> QED
        BY <1>2, <2>2 DEF StampsAt
<1>4. IsFiniteSet(now) /\ Cardinality(now) \in Nat
    BY <1>2, FS_Subset, FS_CardinalityType DEF NumberOK, StampsAt
<1>5. s = [ at |-> moment, nth |-> Cardinality(now) + 1 ]
    BY <1>3 DEF Stamp
<1>6. s \in Stamps /\ s.at = moment /\ s.nth = Cardinality(now) + 1
    BY <1>1, <1>4, <1>5 DEF Stamps
<1>7. s \notin P
    <2>1. ASSUME s \in P PROVE s.nth \in 1 .. Cardinality(now)
        BY <1>2, <1>6, <2>1 DEF NumberOK, Tidy
    <2> QED
        BY <1>4, <1>6, <2>1
<1>8. /\ tries' = [tries EXCEPT ![n] = Recent(@) \cup {s}]
      /\ passed' = [passed EXCEPT ![n] = @ \cup {s}]
      /\ tracker' = [tracker EXCEPT ![c] = [ open |-> TRUE, number |-> n, right |-> right ]]
      /\ UNCHANGED << moment, phone, failures >>
      /\ ~tracker[c].open /\ Cardinality(Recent(tries[n])) < MostTries
    BY DEF Track
<1>9. /\ passed'[n] = P \cup {s} /\ tries'[n] = Recent(tries[n]) \cup {s}
      /\ \A k \in Numbers \ {n} : passed'[k] = passed[k] /\ tries'[k] = tries[k]
    BY <1>8 DEF TrackingInv, TrackingTypeOK
<1>10. Recent(tries[n]) \in SUBSET Stamps
    BY <1>2 DEF Recent
<1>11. TrackingTypeOK'
    <2>1. passed' \in [ Numbers -> SUBSET Stamps ] /\ tries' \in [ Numbers -> SUBSET Stamps ]
        BY <1>2, <1>6, <1>8, <1>10 DEF TrackingInv, TrackingTypeOK
    <2> QED
        BY <1>8, <2>1 DEF TrackingInv, TrackingTypeOK
<1>12. \A k \in Numbers : OpenCalls(k)' = IF k = n THEN OpenCalls(n) \cup {c} ELSE OpenCalls(k)
    BY <1>8 DEF OpenCalls, TrackingInv, TrackingTypeOK
<1>13. ASSUME NEW k \in Numbers \ {n} PROVE NumberOK(k)'
    <2>1. NumberOK(k) /\ OpenCalls(k)' = OpenCalls(k) /\ passed'[k] = passed[k] /\ tries'[k] = tries[k]
        BY <1>9, <1>12 DEF TrackingInv
    <2> QED
        BY <1>8, <2>1 DEF NumberOK, Tidy, Recent, Within, StampsAt
<1>14. NumberOK(n)'
    <2>1. /\ IsFiniteSet(passed'[n]) /\ Cardinality(passed'[n]) = Cardinality(P) + 1
          /\ Cardinality(P) \in Nat
        <3>1. IsFiniteSet(P)
            BY <1>2 DEF NumberOK
        <3>2. /\ IsFiniteSet(P \cup {s}) /\ Cardinality(P \cup {s}) = Cardinality(P) + 1
              /\ Cardinality(P) \in Nat
            BY <1>7, <3>1, OneMore
        <3> QED
            BY <1>9, <3>2
    <2>2. /\ IsFiniteSet(OpenCalls(n)') /\ Cardinality(OpenCalls(n)') <= Cardinality(OpenCalls(n)) + 1
          /\ Cardinality(OpenCalls(n)) \in Nat /\ Cardinality(OpenCalls(n)') \in Nat
        <3>1. OpenCalls(n)' = OpenCalls(n) \cup {c} /\ IsFiniteSet(OpenCalls(n))
            BY <1>2, <1>12 DEF NumberOK
        <3> QED
            BY <3>1, OneMore
    <2>3. failures'[n] + Cardinality(OpenCalls(n)') <= Cardinality(passed'[n])
        <3>1. failures'[n] = failures[n] /\ failures[n] \in Nat
            BY <1>8 DEF TrackingInv, TrackingTypeOK
        <3>2. failures[n] + Cardinality(OpenCalls(n)) <= Cardinality(P)
            BY <1>2 DEF NumberOK
        <3> QED
            BY <2>1, <2>2, <3>1, <3>2
    <2>4. Tidy(passed[n])'
        <3>1. /\ StampsAt(passed'[n], moment) = now \cup {s}
              /\ \A m \in Nat \ {moment} : StampsAt(passed'[n], m) = StampsAt(P, m)
            BY <1>6, <1>9 DEF StampsAt
        <3>2. Cardinality(now \cup {s}) = Cardinality(now) + 1
            BY <1>4, <1>7, OneMore DEF StampsAt
        <3>3. ASSUME NEW t \in P \cup {s}
              PROVE  t.at <= moment /\ t.nth \in 1 .. Cardinality(StampsAt(passed'[n], t.at))
            <4>1. CASE t = s
                <5>1. t.at = moment /\ t.nth = Cardinality(now) + 1
                    BY <1>6, <4>1
                <5>2. StampsAt(passed'[n], t.at) = now \cup {s}
                    BY <3>1, <5>1
                <5>3. Cardinality(StampsAt(passed'[n], t.at)) = Cardinality(now) + 1
                    BY <3>2, <5>2
                <5> QED
                    BY <1>1, <1>4, <5>1, <5>3
            <4>2. CASE t \in P /\ t.at = moment
                <5>1. t.nth \in 1 .. Cardinality(now)
                    BY <1>2, <4>2 DEF NumberOK, Tidy
                <5>2. Cardinality(StampsAt(passed'[n], t.at)) = Cardinality(now) + 1
                    BY <3>1, <3>2, <4>2
                <5> QED
                    BY <1>1, <1>4, <4>2, <5>1, <5>2
            <4>3. CASE t \in P /\ t.at # moment
                <5>1. t.at \in Nat
                    BY <1>2, <4>3 DEF Stamps
                <5>2. t.at <= moment /\ t.nth \in 1 .. Cardinality(StampsAt(P, t.at))
                    BY <1>2, <4>3 DEF NumberOK, Tidy
                <5> QED
                    BY <3>1, <4>3, <5>1, <5>2
            <4> QED
                BY <4>1, <4>2, <4>3
        <3> QED
            BY <1>8, <1>9, <3>3 DEF Tidy, StampsAt
    <2>5. tries'[n] \subseteq passed'[n]
        BY <1>2, <1>9 DEF Recent
    <2>6. Recent(tries[n])' = Recent(passed[n])'
        <3>1. Recent(tries[n]) = Recent(P)
            BY <1>2 DEF NumberOK
        <3> QED
            BY <1>8, <1>9, <3>1 DEF Recent
    <2>7. ASSUME NEW m \in 0 .. LastMoment PROVE Cardinality(Within(passed[n], m))' <= MostTries
        <3> DEFINE old == Within(P, m)
        <3>1. IsFiniteSet(old) /\ Cardinality(old) <= MostTries /\ Cardinality(old) \in Nat
            BY <1>2, FS_Subset, FS_CardinalityType DEF NumberOK, Within
        <3>2. CASE moment \in m .. (m + Window - 1)
            <4>1. Within(passed'[n], m) = old \cup {s}
                BY <1>6, <1>9, <3>2 DEF Within
            <4>2. old \subseteq Recent(tries[n])
                <5>1. \A t \in old : t \in P /\ t.at \in Nat /\ t.at >= m
                    BY <1>2 DEF Within, Stamps
                <5>2. \A t \in old : moment - t.at < Window
                    BY <1>1, <3>2, <5>1
                <5> QED
                    BY <1>2, <5>1, <5>2 DEF NumberOK, Recent
            <4>3. IsFiniteSet(Recent(tries[n])) /\ Cardinality(Recent(tries[n])) \in Nat
                BY <1>2, FS_Subset, FS_CardinalityType DEF NumberOK, Recent
            <4>4. Cardinality(old) < MostTries
                BY <1>1, <1>8, <3>1, <4>2, <4>3, FS_Subset
            <4>5. Cardinality(old \cup {s}) <= Cardinality(old) + 1 /\ Cardinality(old \cup {s}) \in Nat
                BY <3>1, OneMore
            <4>6. Cardinality(old \cup {s}) <= MostTries
                BY <1>1, <3>1, <4>4, <4>5
            <4> QED
                BY <4>1, <4>6
        <3>3. CASE moment \notin m .. (m + Window - 1)
            <4>1. Within(passed'[n], m) = old
                BY <1>6, <1>9, <3>3 DEF Within
            <4> QED
                BY <3>1, <4>1
        <3> QED
            BY <3>2, <3>3
    <2> QED
        BY <2>1, <2>2, <2>3, <2>4, <2>5, <2>6, <2>7 DEF NumberOK
<1> QED
    BY <1>11, <1>13, <1>14 DEF TrackingInv

\* A call that ends fails at most once.
LEMMA AnswerTrackerStep == ASSUME TrackingInv, NEW c \in Trackers, AnswerTracker(c) PROVE TrackingInv'
<1> DEFINE n == tracker[c].number
<1>1. /\ tracker[c].open /\ tracker' = [tracker EXCEPT ![c] = NoTracker]
      /\ failures' \in { failures, [failures EXCEPT ![n] = @ + 1] }
      /\ UNCHANGED << moment, tries, phone, passed >>
    BY DEF AnswerTracker
<1>2. n \in Numbers /\ failures \in [ Numbers -> Nat ]
    BY DEF TrackingInv, TrackingTypeOK
<1>3. TrackingTypeOK'
    BY <1>1, <1>2, NoTrackerTyped DEF TrackingInv, TrackingTypeOK
<1>4. \A k \in Numbers : OpenCalls(k)' = IF k = n THEN OpenCalls(n) \ {c} ELSE OpenCalls(k)
    BY <1>1, NoTrackerTyped DEF OpenCalls, TrackingInv, TrackingTypeOK
<1>5. ASSUME NEW k \in Numbers PROVE NumberOK(k)'
    <2>1. NumberOK(k)
        BY DEF TrackingInv
    <2>2. /\ IsFiniteSet(OpenCalls(k)')
          /\ failures'[k] + Cardinality(OpenCalls(k)') <= failures[k] + Cardinality(OpenCalls(k))
          /\ failures'[k] \in Nat /\ failures[k] \in Nat
          /\ Cardinality(OpenCalls(k)) \in Nat /\ Cardinality(OpenCalls(k)') \in Nat
        <3>1. CASE k = n
            <4>1. c \in OpenCalls(k)
                BY <1>1, <3>1 DEF OpenCalls
            <4>2. OpenCalls(k)' = OpenCalls(k) \ {c}
                BY <1>4, <3>1
            <4>3. IsFiniteSet(OpenCalls(k)') /\ Cardinality(OpenCalls(k)') = Cardinality(OpenCalls(k)) - 1
                BY <2>1, <4>1, <4>2, FS_RemoveElement DEF NumberOK
            <4>4. Cardinality(OpenCalls(k)) \in Nat /\ Cardinality(OpenCalls(k)') \in Nat
                BY <2>1, <4>3, FS_CardinalityType DEF NumberOK
            <4>5. failures'[k] \in { failures[k], failures[k] + 1 } /\ failures[k] \in Nat
                BY <1>1, <1>2, <3>1
            <4> QED
                BY <4>3, <4>4, <4>5
        <3>2. CASE k # n
            <4>1. OpenCalls(k)' = OpenCalls(k) /\ failures'[k] = failures[k] /\ failures[k] \in Nat
                BY <1>1, <1>2, <1>4, <3>2
            <4>2. IsFiniteSet(OpenCalls(k)) /\ Cardinality(OpenCalls(k)) \in Nat
                BY <2>1, FS_CardinalityType DEF NumberOK
            <4> QED
                BY <4>1, <4>2
        <3> QED
            BY <3>1, <3>2
    <2>3. failures'[k] + Cardinality(OpenCalls(k)') <= Cardinality(passed[k])
        <3>1. /\ failures[k] + Cardinality(OpenCalls(k)) <= Cardinality(passed[k])
              /\ Cardinality(passed[k]) \in Nat
            BY <2>1, FS_CardinalityType DEF NumberOK
        <3> QED
            BY <2>2, <3>1
    <2> QED
        BY <1>1, <2>1, <2>2, <2>3 DEF NumberOK, Tidy, Recent, Within, StampsAt
<1> QED
    BY <1>3, <1>5 DEF TrackingInv

\* The passing of time drops the same stamps from both.
LEMMA MinuteStep == ASSUME TrackingInv, MinuteGoes PROVE TrackingInv'
<1>1. /\ moment' = moment + 1 /\ moment' \in 0 .. LastMoment /\ moment \in Nat
      /\ UNCHANGED << tries, tracker, phone, passed, failures >>
    BY TrackingAssumption DEF MinuteGoes, TrackingInv, TrackingTypeOK
<1>2. TrackingTypeOK'
    BY <1>1 DEF TrackingInv, TrackingTypeOK
<1>3. ASSUME NEW n \in Numbers PROVE NumberOK(n)'
    <2>1. NumberOK(n) /\ passed[n] \subseteq Stamps /\ tries[n] \subseteq passed[n]
        BY DEF TrackingInv, TrackingTypeOK, NumberOK
    <2>2. \A s \in passed[n] : s.at \in Nat
        BY <2>1 DEF Stamps
    <2>3. \A s \in passed[n] : moment' - s.at < Window => moment - s.at < Window
        BY <1>1, <2>2, TrackingAssumption
    <2>4. Recent(tries[n])' = Recent(passed[n])'
        <3>1. \A s \in Recent(passed[n]) : s \in tries[n]
            BY <2>1 DEF NumberOK, Recent
        <3>2. \A s \in passed[n] : moment' - s.at < Window => s \in tries[n]
            BY <2>3, <3>1 DEF Recent
        <3> QED
            BY <1>1, <2>1, <3>2 DEF Recent
    <2>5. Tidy(passed[n])'
        BY <1>1, <2>1, <2>2 DEF NumberOK, Tidy, StampsAt
    <2>6. OpenCalls(n)' = OpenCalls(n)
        BY <1>1 DEF OpenCalls
    <2> QED
        BY <1>1, <2>1, <2>4, <2>5, <2>6 DEF NumberOK, Within
<1> QED
    BY <1>2, <1>3 DEF TrackingInv

LEMMA TrackingNextOK == ASSUME TrackingInv, [TrackingNext]_trackingVars PROVE TrackingInv'
<1>1. CASE Restart
    <2>1. TrackingTypeOK'
        BY <1>1, NoTrackerTyped DEF Restart, Fresh, TrackingInv, TrackingTypeOK
    <2>2. NothingAsked'
        BY <1>1 DEF Restart, NothingAsked, Fresh, NoTracker
    <2> QED
        BY <2>1, <2>2, FreshNumbers, PTL
<1>2. CASE (\E n \in Numbers : ErasePhone(n)) \/ UNCHANGED trackingVars
    <2>1. UNCHANGED << moment, tries, tracker, passed, failures >> /\ phone' \in [ Numbers -> BOOLEAN ]
        BY <1>2 DEF ErasePhone, trackingVars, TrackingInv, TrackingTypeOK
    <2> QED
        BY <2>1 DEF TrackingInv, TrackingTypeOK, NumberOK, OpenCalls, Tidy, StampsAt, Recent, Within
<1> QED
    BY <1>1, <1>2, TrackStep, AnswerTrackerStep, MinuteStep DEF TrackingNext

\* trackOrder lets no more than maxAttempts calls for one number through in any minute of one process,
\* refuses one only when as many were let through in the last minute, and writes no more failures than calls.
THEOREM TrackingIsLimited == TrackingSpec => []TrackingLimited
<1>1. TrackingInv => TrackingLimited
    <2> SUFFICES ASSUME TrackingInv, NEW n \in Numbers
                 PROVE  /\ \A m \in 0 .. LastMoment :
                            Cardinality({ s \in passed[n] : s.at \in m .. (m + Window - 1) }) <= MostTries
                        /\ Recent(tries[n]) = Recent(passed[n])
                        /\ failures[n] <= Cardinality(passed[n])
        BY DEF TrackingLimited
    <2>1. NumberOK(n) /\ failures[n] \in Nat
        BY DEF TrackingInv, TrackingTypeOK
    <2>2. Cardinality(OpenCalls(n)) \in Nat /\ Cardinality(passed[n]) \in Nat
        BY <2>1, FS_CardinalityType DEF NumberOK
    <2>3. failures[n] <= Cardinality(passed[n])
        BY <2>1, <2>2 DEF NumberOK
    <2> QED
        BY <2>1, <2>3 DEF NumberOK, Within
<1> QED
    BY <1>1, TrackingInitOK, TrackingNextOK, PTL DEF TrackingSpec

-----------------------------------------------------------------------------
(* What the type invariants of the inbox, the seed and the products add to  *)
(* the invariants above.                                                    *)

HooksBounded ==
    /\ \A m \in Received : stored[m] <= MostRows
    /\ \A h \in Hooks : hook[h].all \in Entries \cup {<< >>}

LEMMA InboxTyped == InboxSpec => []InboxTypeOK
<1>1. InboxInit => HooksBounded
    BY InboxAssumption DEF InboxInit, HooksBounded, IdleHook
<1>2. ASSUME InboxInv, HooksBounded, [InboxNext]_inboxVars PROVE HooksBounded'
    <2>1. /\ stored \in [ Received -> Nat ] /\ hook \in [ Hooks -> HookRecords ]
          /\ \A m \in Received : stored[m] <= MostRows
          /\ \A h \in Hooks : hook[h].all \in Entries \cup {<< >>}
          /\ IdleHook.all = << >>
        BY <1>2 DEF InboxInv, InboxTypes, HooksBounded, IdleHook
    <2>2. \A m \in Received : stored'[m] <= MostRows
        <3>1. ASSUME NEW h \in Hooks, StoreText(h) \/ StoreChat(h) PROVE \A m \in Received : stored'[m] <= MostRows
            <4>1. CASE StoreText(h)
                <5>1. /\ stored[Item(h)] < MostRows
                      /\ stored' = [stored EXCEPT ![Item(h)] = IF stored[Item(h)] = 0 THEN 1 ELSE stored[Item(h)]]
                    BY <4>1 DEF StoreText, RowsAfterUpsert
                <5> QED
                    BY <2>1, <5>1, InboxAssumption
            <4>2. CASE StoreChat(h)
                <5>1. stored[Item(h)] < MostRows /\ stored' = [stored EXCEPT ![Item(h)] = stored[Item(h)] + 1]
                    BY <4>2 DEF StoreChat
                <5> QED
                    BY <2>1, <5>1, InboxAssumption
            <4> QED
                BY <3>1, <4>1, <4>2
        <3>2. CASE stored' = stored
            BY <2>1, <3>2
        <3> QED
            BY <1>2, <3>1, <3>2
               DEF InboxNext, inboxVars, Receive, FindTalk, CreateTalk, AnswerHook, FailHook, ReadWindow, PostReply,
                   ReplyRefused, KeepReply, Status
    <2>3. \A h \in Hooks : hook'[h].all \in Entries \cup {<< >>}
        <3>1. ASSUME NEW h \in Hooks, NEW pc, \/ HookMoves(h, pc) \/ ItemDone(h)
              PROVE  \A g \in Hooks : hook'[g].all = hook[g].all
            <4>1. CASE HookMoves(h, pc)
                BY <2>1, <4>1 DEF HookMoves, HookRecords
            <4>2. CASE ItemDone(h)
                BY <2>1, <4>2 DEF ItemDone, HookRecords
            <4> QED
                BY <3>1, <4>1, <4>2
        <3>2. ASSUME NEW h \in Hooks, NEW payload \in Payloads, Receive(h, payload)
              PROVE  \A g \in Hooks : hook'[g].all \in Entries \cup {<< >>}
            BY <2>1, <3>2, HeadIsEntry DEF Receive
        <3>3. ASSUME NEW h \in Hooks, hook' = [hook EXCEPT ![h] = IdleHook]
              PROVE  \A g \in Hooks : hook'[g].all \in Entries \cup {<< >>}
            BY <2>1, <3>3
        <3>4. CASE \E h \in Hooks : StoreText(h) \/ FindTalk(h) \/ CreateTalk(h) \/ StoreChat(h) \/ ReadWindow(h)
                                     \/ PostReply(h)
            <4>1. PICK h \in Hooks : ItemDone(h) \/ \E pc : HookMoves(h, pc)
                BY <3>4 DEF StoreText, FindTalk, CreateTalk, StoreChat, ReadWindow, PostReply
            <4>2. \A g \in Hooks : hook'[g].all = hook[g].all
                BY <3>1, <4>1
            <4> QED
                BY <2>1, <4>2
        <3>5. CASE \E h \in Hooks : AnswerHook(h) \/ FailHook(h) \/ ReplyRefused(h) \/ KeepReply(h)
            BY <3>3, <3>5 DEF AnswerHook, FailHook, ReplyRefused, KeepReply
        <3>6. CASE Status \/ UNCHANGED inboxVars
            BY <2>1, <3>6 DEF Status, inboxVars
        <3> QED
            BY <1>2, <3>2, <3>4, <3>5, <3>6 DEF InboxNext
    <2> QED
        BY <2>2, <2>3 DEF HooksBounded
<1>3. InboxInv /\ HooksBounded => InboxTypeOK
    <2> SUFFICES ASSUME InboxInv, HooksBounded PROVE InboxTypeOK
        OBVIOUS
    <2>1. stored \in [ Received -> 0 .. MostRows ]
        BY InboxAssumption DEF InboxInv, InboxTypes, HooksBounded
    <2> QED
        BY <2>1 DEF InboxInv, InboxTypes, HookRecords, ReplyRows, HooksBounded, InboxTypeOK
<1> QED
    BY <1>1, <1>2, <1>3, InboxInitOK, InboxNextOK, PTL DEF InboxSpec

-----------------------------------------------------------------------------
RunsTyped ==
    /\ run \in Seq(SeedSteps) /\ edits \in 0 .. MostEdits
    /\ admin \in {"absent", "without role", "with role"}

LEMMA WorkTyped == FirstWork \in Seq(SeedSteps) /\ LaterWork \in Seq(SeedSteps)
<1>1. DataWork \in Seq(SeedSteps)
    <2>1. DataWork \in Seq(Work) /\ DOMAIN DataWork = 1 .. Len(DataWork) /\ Len(DataWork) \in Nat
        BY DataWorkIs, LenProperties
    <2>2. ASSUME NEW i \in 1 .. Len(DataWork) PROVE DataWork[i] \in SeedSteps
        <3>1. DataWork[i] \in Work
            BY <2>1
        <3>2. DataWork[i].do \in DataDo /\ DataWork[i].on \in Touchable
            BY <2>1 DEF DataDo, Touchable
        <3>3. DataWork[i] = [ do |-> DataWork[i].do, on |-> DataWork[i].on ]
            BY <3>1 DEF Work
        <3> QED
            BY <3>2, <3>3 DEF SeedSteps
    <2> QED
        BY <2>1, <2>2
<1>2. \A a, b, c \in SeedSteps : << a >> \in Seq(SeedSteps) /\ << a, b, c >> \in Seq(SeedSteps)
    OBVIOUS
<1>3. ASSUME NEW r \in SeedRoles PROVE RoleWork(r) \in Seq(SeedSteps)
    <2>1. r \in Touchable
        BY DEF Touchable
    <2>2. Step("upsert", r) \in SeedSteps /\ Step("clear", r) \in SeedSteps /\ Step("grant", r) \in SeedSteps
        BY <2>1 DEF Step, SeedSteps
    <2> QED
        BY <1>2, <2>2 DEF RoleWork
<1>4. << Step("admin", "account") >> \in Seq(SeedSteps) /\ << Step("repair", "account") >> \in Seq(SeedSteps)
    <2>1. Step("admin", "account") \in SeedSteps /\ Step("repair", "account") \in SeedSteps
        BY DEF Step, SeedSteps
    <2> QED
        BY <1>2, <2>1
<1>5. /\ RoleWork("full_admin") \in Seq(SeedSteps) /\ RoleWork("sales") \in Seq(SeedSteps)
      /\ RoleWork("support") \in Seq(SeedSteps)
    BY <1>3 DEF SeedRoles
<1>6. \A s, t \in Seq(SeedSteps) : s \o t \in Seq(SeedSteps)
    BY ConcatProperties
<1>7. LaterWork \in Seq(SeedSteps)
    BY <1>4, <1>5, <1>6 DEF LaterWork
<1> DEFINE roles == RoleWork("full_admin") \o RoleWork("sales") \o RoleWork("support")
<1>8. roles \in Seq(SeedSteps)
    <2>1. RoleWork("full_admin") \o RoleWork("sales") \in Seq(SeedSteps)
        BY <1>5, <1>6
    <2> QED
        BY <1>5, <1>6, <2>1
<1>9. roles \o << Step("admin", "account") >> \in Seq(SeedSteps)
    BY <1>4, <1>6, <1>8
<1>10. FirstWork \in Seq(SeedSteps)
    BY <1>1, <1>6, <1>9 DEF FirstWork
<1> QED
    BY <1>7, <1>10

LEMMA FirstTyped == ASSUME first \in BOOLEAN, [SeedNext]_seedVars PROVE (first \in BOOLEAN)'
<1>1. ASSUME NEW what, Do(what) PROVE first' \in BOOLEAN
    BY <1>1 DEF Do
<1>2. CASE \E force \in BOOLEAN : StartRun(force)
    BY <1>2 DEF StartRun, IsFirstSeedRun, NoRoles
<1>3. CASE StopRun
    BY <1>3 DEF StopRun
<1>4. CASE WriteProduct \/ AdminLosesRole \/ UNCHANGED seedVars
    BY <1>1, <1>4 DEF WriteProduct, AdminLosesRole, seedVars
<1>5. CASE \E k \in Touchable : OwnerDeletes(k) \/ OwnerEdits(k)
    BY <1>5 DEF OwnerDeletes, OwnerEdits, OwnerMay
<1>6. CASE Upsert \/ WriteData \/ KeepData \/ TryToWrite \/ SeedApproval \/ DropStaleVariant \/ MigrateCities
           \/ ClearGrants \/ WriteGrants \/ WriteAdmin \/ RepairAdmin
    BY <1>1, <1>6 DEF Upsert, WriteData, KeepData, TryToWrite, SeedApproval, DropStaleVariant, MigrateCities,
                      ClearGrants, WriteGrants, WriteAdmin, RepairAdmin
<1> QED
    BY <1>2, <1>3, <1>4, <1>5, <1>6 DEF SeedNext

LEMMA RunsStayTyped == ASSUME RunsTyped, [SeedNext]_seedVars PROVE RunsTyped'
<1> DEFINE Works == Seq(SeedSteps)
<1>1. run \in Works /\ edits \in 0 .. MostEdits /\ admin \in {"absent", "without role", "with role"}
    BY DEF RunsTyped
<1>2. FirstWork \in Works /\ LaterWork \in Works /\ << >> \in Works /\ (run # << >> => Tail(run) \in Works)
    BY <1>1, WorkTyped, HeadTailProperties, EmptySeq
<1>3. SubSeq(run, 1 + Len(ProductWork), Len(run)) \in Works
    <2>1. Len(ProductWork) = 4 /\ Len(run) \in Nat
        BY <1>1, LenProperties DEF ProductWork
    <2>2. \A i \in 5 .. Len(run) : run[i] \in SeedSteps
        <3>1. run \in [ 1 .. Len(run) -> SeedSteps ]
            BY <1>1, LenProperties
        <3> QED
            BY <2>1, <3>1
    <2>3. SubSeq(run, 5, Len(run)) \in Works
        BY <2>1, <2>2, SubSeqProperties
    <2> QED
        BY <2>1, <2>3
<1> SUFFICES run' \in Works /\ edits' \in 0 .. MostEdits /\ admin' \in {"absent", "without role", "with role"}
    BY DEF RunsTyped
<1> HIDE DEF Works
<1>4. ASSUME NEW what, Do(what) PROVE run' \in Works /\ edits' = edits
    BY <1>2, <1>4 DEF Do
<1>5. CASE Upsert \/ WriteData \/ KeepData \/ TryToWrite \/ SeedApproval \/ DropStaleVariant \/ MigrateCities
           \/ ClearGrants \/ WriteGrants
    BY <1>1, <1>4, <1>5 DEF Upsert, WriteData, KeepData, TryToWrite, SeedApproval, DropStaleVariant, MigrateCities,
                            ClearGrants, WriteGrants, Writes
<1>6. CASE WriteAdmin \/ RepairAdmin
    BY <1>1, <1>4, <1>6 DEF WriteAdmin, RepairAdmin
<1>7. CASE WriteProduct
    BY <1>1, <1>3, <1>4, <1>7 DEF WriteProduct, Writes
<1>8. CASE \E force \in BOOLEAN : StartRun(force)
    <2>1. run' \in {FirstWork, LaterWork} /\ UNCHANGED << admin, edits >>
        BY <1>8 DEF StartRun
    <2> QED
        BY <1>1, <1>2, <2>1
<1>9. CASE StopRun \/ AdminLosesRole \/ UNCHANGED seedVars
    BY <1>1, <1>2, <1>9 DEF StopRun, AdminLosesRole, seedVars
<1>10. CASE \E k \in Touchable : OwnerDeletes(k) \/ OwnerEdits(k)
    <2>1. edits < MostEdits /\ edits' = edits + 1
        BY <1>10 DEF OwnerDeletes, OwnerEdits, OwnerMay
    <2>2. edits \in 0 .. MostEdits /\ MostEdits \in Nat
        BY <1>1, SeedAssumption
    <2>3. edits' \in 0 .. MostEdits
        BY <2>1, <2>2
    <2>4. UNCHANGED << run, admin >>
        BY <1>10 DEF OwnerDeletes, OwnerEdits, OwnerMay
    <2> QED
        BY <1>1, <2>3, <2>4
<1> QED
    BY <1>5, <1>6, <1>7, <1>8, <1>9, <1>10 DEF SeedNext

LEMMA SeedTyped == SeedSpec => []SeedTypeOK
<1>1. SeedInit => first \in BOOLEAN
    BY DEF SeedInit
<1>2. SeedInit => RunsTyped
    BY SeedAssumption, EmptySeq DEF SeedInit, RunsTyped
<1>3. SeedInv /\ RunsTyped /\ first \in BOOLEAN => SeedTypeOK
    <2>1. ASSUME RunsTyped PROVE \A i \in DOMAIN run : run[i] \in SeedSteps
        BY <2>1, LenProperties DEF RunsTyped
    <2> QED
        BY <2>1 DEF SeedInv, RunsTyped, SeedTypeOK
<1> QED
    BY <1>1, <1>2, <1>3, FirstTyped, RunsStayTyped, SeedInitOK, SeedNextOK, PTL DEF SeedSpec

-----------------------------------------------------------------------------
FlagsTyped == topic \in {"price", "order", "images"} /\ spoilt \in BOOLEAN /\ doubled \in BOOLEAN

LEMMA ProductsTyped == ProductsSpec => []ProductsTypeOK
<1>1. ProductsInit => FlagsTyped
    BY DEF ProductsInit, FlagsTyped
<1>2. ASSUME ProductsInv, FlagsTyped, [ProductsNext]_productVars PROVE FlagsTyped'
    <2>1. ASSUME EditPrice PROVE spoilt' \in BOOLEAN
        BY <1>2, <2>1 DEF EditPrice, ReadTag, WriteTag, LogTag, StopTag, FlagsTyped
    <2>2. ASSUME EditImages PROVE doubled' \in BOOLEAN
        <3>1. \A d \in Desks : pictureCall[d].primary \in BOOLEAN
            BY <1>2 DEF ProductsInv, PicturesInv, PictureCalls
        <3> QED
            BY <1>2, <2>2, <3>1 DEF EditImages, AddImage, RemoveImage, FindImage, UnsetPrimary, UpdateImage, StopImage,
                                    FlagsTyped
    <2> QED
        BY <1>2, <2>1, <2>2 DEF ProductsNext, productVars, tagVars, pictureVars, FlagsTyped
<1>3. ProductsInv /\ FlagsTyped => ProductsTypeOK
    BY DEF ProductsInv, TagsInv, TagCalls, SortsInv, SortCalls, PicturesInv, PictureCalls, FlagsTyped, ProductsTypeOK
<1> QED
    BY <1>1, <1>2, <1>3, ProductsInitOK, ProductsNextOK, PTL DEF ProductsSpec

-----------------------------------------------------------------------------
(* The services together, as the run checks them.  One that runs leaves the *)
(* rows of the others alone, so each behaves as its own specification says. *)

LEMMA StoreBegins ==
    StoreInit =>
        /\ Init /\ OutboxInit /\ AgentInit /\ ApprovalsInit /\ CatalogueInit
        /\ VariantInit /\ StorefrontInit /\ SettingsInit /\ SeedInit /\ InboxInit
        /\ OfficeInit /\ ProductsInit /\ TrackingInit
BY DEF StoreInit

StoreSteps ==
    /\ [Next]_vars /\ [OutboxNext]_outboxVars /\ [AgentNext]_agentVars
    /\ [ApprovalsNext]_approvalVars /\ [CatalogueNext]_catalogueVars /\ [VariantNext]_variantVars
    /\ [StorefrontNext]_storefrontVars /\ [SettingsNext]_settingsVars /\ [SeedNext]_seedVars
    /\ [InboxNext]_inboxVars /\ [OfficeNext]_officeVars /\ [ProductsNext]_productVars
    /\ [TrackingNext]_trackingVars

LEMMA StoreStepsByService == [StoreNext]_storeVars => StoreSteps
<1> SUFFICES ASSUME [StoreNext]_storeVars PROVE StoreSteps
    OBVIOUS
<1>1. CASE InOrders
    BY <1>1 DEF InOrders, StoreSteps
<1>2. CASE InOutbox
    BY <1>2 DEF InOutbox, StoreSteps
<1>3. CASE InAgent
    BY <1>3 DEF InAgent, StoreSteps
<1>4. CASE InApprovals
    BY <1>4 DEF InApprovals, StoreSteps
<1>5. CASE InCatalogue
    BY <1>5 DEF InCatalogue, StoreSteps
<1>6. CASE InVariants
    BY <1>6 DEF InVariants, StoreSteps
<1>7. CASE InStorefront
    BY <1>7 DEF InStorefront, StoreSteps
<1>8. CASE InSettings
    BY <1>8 DEF InSettings, StoreSteps
<1>9. CASE InSeed
    BY <1>9 DEF InSeed, StoreSteps
<1>10. CASE InInbox
    BY <1>10 DEF InInbox, StoreSteps
<1>11. CASE InOffice
    BY <1>11 DEF InOffice, StoreSteps
<1>12. CASE InProducts
    BY <1>12 DEF InProducts, StoreSteps
<1>13. CASE InTracking
    BY <1>13 DEF InTracking, StoreSteps
<1>14. CASE UNCHANGED storeVars
    BY <1>14 DEF storeVars, StoreSteps
<1> QED
    BY <1>1, <1>2, <1>3, <1>4, <1>5, <1>6, <1>7, <1>8, <1>9, <1>10, <1>11, <1>12, <1>13, <1>14
       DEF StoreNext

LEMMA StoreComposes ==
    StoreSpec =>
        /\ Spec /\ OutboxSpec /\ AgentSpec /\ ApprovalsSpec /\ CatalogueSpec
        /\ VariantSpec /\ StorefrontSpec /\ SettingsSpec /\ SeedSpec /\ InboxSpec
        /\ OfficeSpec /\ ProductsSpec /\ TrackingSpec
<1>1. StoreSteps =>
        /\ [Next]_vars /\ [OutboxNext]_outboxVars /\ [AgentNext]_agentVars
        /\ [ApprovalsNext]_approvalVars /\ [CatalogueNext]_catalogueVars /\ [VariantNext]_variantVars
        /\ [StorefrontNext]_storefrontVars /\ [SettingsNext]_settingsVars /\ [SeedNext]_seedVars
        /\ [InboxNext]_inboxVars /\ [OfficeNext]_officeVars /\ [ProductsNext]_productVars
        /\ [TrackingNext]_trackingVars
    BY DEF StoreSteps
<1> QED
    BY <1>1, StoreBegins, StoreStepsByService, PTL
       DEF StoreSpec, Spec, OutboxSpec, AgentSpec, ApprovalsSpec, CatalogueSpec, VariantSpec, StorefrontSpec,
           SettingsSpec, SeedSpec, InboxSpec, OfficeSpec, ProductsSpec, TrackingSpec

\* What a caller was told holds afterwards, whatever runs: the decision about an approval, an answer
\* under an idempotency key, the maintenance mode of the panel, the audit log of the back office.
THEOREM AnswersAreKept == StoreSpec => []AnswersStand
<1>1. StoreSpec => []DecisionStands
    BY StoreComposes, DecisionsAreFinal
<1>2. StoreSpec => []AnsweredRunsOnce
    BY StoreComposes, AnsweredKeysRunOnce
<1>3. StoreSpec => []SwitchesAgree
    BY StoreComposes, PanelTellsTruth
<1>4. StoreSpec => []TrailHolds
    BY StoreComposes, TrailIsTrue
<1>5. DecisionStands /\ AnsweredRunsOnce /\ SwitchesAgree /\ TrailHolds => AnswersStand
    BY DEF AnswersStand
<1> QED
    BY <1>1, <1>2, <1>3, <1>4, <1>5, PTL

\* A product on the shelf stays there when a category goes (CategoriesService.remove), and its place, primary
\* image and price history are those of one edit (ProductsService), whatever runs besides.
THEOREM ShelvesAreKept == StoreSpec => []ShelvesHold
<1>1. StoreSpec => []LiveProductsStay
    BY StoreComposes, ShelfSurvives
<1>2. StoreSpec => []PagesHold
    BY StoreComposes, PagesAreWhole
<1>3. LiveProductsStay /\ PagesHold => ShelvesHold
    BY DEF ShelvesHold
<1> QED
    BY <1>1, <1>2, <1>3, PTL

\* What every service keeps is of the shape that the code gives it, whatever runs besides.
THEOREM StoreTyped == StoreSpec => []StoreTypeOK
<1>1. StoreSpec => []ApprovalsTypeOK
    <2>1. ApprovalsInv => ApprovalsTypeOK
        BY DEF ApprovalsInv
    <2> QED
        BY <2>1, StoreComposes, ApprovalsInitOK, ApprovalsNextOK, PTL DEF ApprovalsSpec
<1>2. StoreSpec => []AgentTypeOK
    <2>1. AgentInv => AgentTypeOK
        BY DEF AgentInv
    <2> QED
        BY <2>1, StoreComposes, AgentInitOK, AgentNextOK, PTL DEF AgentSpec
<1>3. StoreSpec => []SettingsTypeOK
    <2>1. SettingsInv => SettingsTypeOK
        BY DEF SettingsInv
    <2> QED
        BY <2>1, StoreComposes, SettingsInitOK, SettingsNextOK, PTL DEF SettingsSpec
<1>4. StoreSpec => []CatalogueTypeOK
    <2>1. CatalogueInv => CatalogueTypeOK
        BY DEF CatalogueInv
    <2> QED
        BY <2>1, StoreComposes, CatalogueInitOK, CatalogueNextOK, PTL DEF CatalogueSpec
<1>5. StoreSpec => []VariantTypeOK
    <2>1. VariantInv => VariantTypeOK
        BY DEF VariantInv
    <2> QED
        BY <2>1, StoreComposes, VariantInitOK, VariantNextOK, PTL DEF VariantSpec
<1>6. StoreSpec => []OfficeTypeOK
    <2>1. OfficeInv => OfficeTypeOK
        BY DEF OfficeInv
    <2> QED
        BY <2>1, StoreComposes, OfficeInitOK, OfficeNextOK, PTL DEF OfficeSpec
<1>7. StoreSpec => []StorefrontTypeOK
    <2>1. StorefrontInv => StorefrontTypeOK
        BY DEF StorefrontInv
    <2> QED
        BY <2>1, StoreComposes, StorefrontInitOK, StorefrontNextOK, PTL DEF StorefrontSpec
<1>8. StoreSpec => []TrackingTypeOK
    <2>1. TrackingInv => TrackingTypeOK
        BY DEF TrackingInv
    <2> QED
        BY <2>1, StoreComposes, TrackingInitOK, TrackingNextOK, PTL DEF TrackingSpec
<1>9. StoreSpec => []TypeOK
    BY StoreComposes, TypeSafety, PTL
<1>10. StoreSpec => []OutboxTypeOK
    BY StoreComposes, OutboxTypeSafety, PTL
<1>11. StoreSpec => []SeedTypeOK
    BY StoreComposes, SeedTyped, PTL
<1>12. StoreSpec => []InboxTypeOK
    BY StoreComposes, InboxTyped, PTL
<1>13. StoreSpec => []ProductsTypeOK
    BY StoreComposes, ProductsTyped, PTL
<1>14. /\ TypeOK /\ OutboxTypeOK /\ AgentTypeOK /\ ApprovalsTypeOK /\ CatalogueTypeOK /\ VariantTypeOK
       /\ StorefrontTypeOK /\ SettingsTypeOK /\ SeedTypeOK /\ InboxTypeOK /\ OfficeTypeOK
       /\ ProductsTypeOK /\ TrackingTypeOK
       => StoreTypeOK
    BY DEF StoreTypeOK
<1> QED
    BY <1>1, <1>2, <1>3, <1>4, <1>5, <1>6, <1>7, <1>8, <1>9, <1>10, <1>11, <1>12, <1>13, <1>14, PTL
=============================================================================
