---------------------------- MODULE AccountProofs ----------------------------
(***************************************************************************)
(* The services around accounts that are smaller than Sessions, each for    *)
(* any number of overlapping calls: lockout, second factor, verification    *)
(* links, erasure, staff accounts and the migration of permissions.         *)
(***************************************************************************)
EXTENDS MCAccounts, SessionsProofs

-----------------------------------------------------------------------------
(* LoginLockout.  A lock begins with the counter at zero, and an attempt has*)
(* read a row that was not locked: unless a refusal was counted from a stale*)
(* row, one that is counted finds the row as it was read.                   *)

LockInv ==
    /\ LockoutTypeOK
    /\ \A a \in Attempts : attempt[a].seen.lock # "on"
    /\ ~mixed /\ counter.lock = "on" => counter.fails = 0
    /\ RefusalsAreCounted

LEMMA ClearedTyped == Cleared \in Counters /\ Cleared.lock = "off" /\ Cleared.fails = 0
BY LockoutAssumption DEF Cleared, Counters

LEMMA IdleAttemptIn == IdleAttempt \in AttemptStates /\ IdleAttempt.seen.lock # "on"
BY ClearedTyped DEF IdleAttempt, AttemptStates

LEMMA IdleAttemptTyped ==
    \A pc \in {"idle", "pending"} :
        /\ [IdleAttempt EXCEPT !.pc = pc] \in AttemptStates
        /\ [IdleAttempt EXCEPT !.pc = pc].seen.lock # "on"
BY ClearedTyped DEF IdleAttempt, AttemptStates

LEMMA LockInit == LockoutInit => LockInv
<1> SUFFICES ASSUME LockoutInit PROVE LockInv
    OBVIOUS
<1>1. counter \in Counters /\ counter.lock = "off" /\ counter.fails = 0
    BY ClearedTyped DEF LockoutInit
<1>2. \A a \in Attempts : attempt[a] \in AttemptStates /\ attempt[a].seen.lock # "on"
    BY IdleAttemptIn DEF LockoutInit
<1>3. LockoutTypeOK
    <2>1. refused \in 0 .. LockThreshold
        BY LockoutAssumption DEF LockoutInit
    <2>2. mixed \in BOOLEAN /\ attempt \in [Attempts -> AttemptStates]
        BY IdleAttemptIn DEF LockoutInit
    <2> QED
        BY <1>1, <2>1, <2>2 DEF LockoutTypeOK
<1> QED
    BY <1>1, <1>2, <1>3 DEF LockInv, RefusalsAreCounted, LockoutInit

\* An attempt that moves without touching the counter.
LEMMA AttemptMoves ==
    ASSUME LockInv, NEW a \in Attempts, NEW r \in AttemptStates, r.seen.lock # "on",
           attempt' = [attempt EXCEPT ![a] = r],
           \/ UNCHANGED << counter, refused, mixed >>
           \/ counter' = Cleared /\ refused' = 0 /\ mixed' = FALSE
    PROVE  LockInv'
<1>1. \A b \in Attempts : attempt'[b] \in AttemptStates /\ attempt'[b].seen.lock # "on"
    BY DEF LockInv, LockoutTypeOK
<1>2. attempt' \in [Attempts -> AttemptStates]
    BY DEF LockInv, LockoutTypeOK
<1>3. CASE UNCHANGED << counter, refused, mixed >>
    BY <1>1, <1>2, <1>3 DEF LockInv, LockoutTypeOK, RefusalsAreCounted
<1>4. CASE counter' = Cleared /\ refused' = 0 /\ mixed' = FALSE
    <2>1. counter' \in Counters /\ counter'.lock = "off" /\ counter'.fails = 0
        BY <1>4, ClearedTyped
    <2>2. refused' \in 0 .. LockThreshold
        BY <1>4, LockoutAssumption
    <2>3. mixed' \in BOOLEAN
        BY <1>4
    <2>4. LockoutTypeOK'
        BY <1>2, <2>1, <2>2, <2>3 DEF LockoutTypeOK
    <2>5. RefusalsAreCounted'
        BY <1>4, <2>1 DEF RefusalsAreCounted
    <2> QED
        BY <1>1, <2>1, <2>4, <2>5 DEF LockInv
<1> QED
    BY <1>3, <1>4

LEMMA WrongStep ==
    ASSUME LockInv, NEW a \in Attempts, Wrong(a)
    PROVE  LockInv'
<1> DEFINE seen == attempt[a].seen
<1>1. seen \in Counters /\ seen.lock # "on" /\ counter \in Counters /\ refused \in 0 .. LockThreshold
    BY DEF LockInv, LockoutTypeOK, AttemptStates
<1>2. counter' \in Counters
    <2>1. CASE seen.fails + 1 >= LockThreshold
        BY <2>1, LockoutAssumption DEF Wrong, Miss, Counters
    <2>2. CASE ~(seen.fails + 1 >= LockThreshold)
        <3>1. seen.fails + 1 \in 0 .. LockThreshold - 1
            BY <1>1, <2>2, LockoutAssumption DEF Counters
        <3>2. counter' = [counter EXCEPT !.fails = seen.fails + 1]
            BY <2>2 DEF Wrong, Miss
        <3> QED
            BY <1>1, <3>1, <3>2 DEF Counters
    <2> QED
        BY <2>1, <2>2
<1>3. \E r \in AttemptStates : r.seen.lock # "on" /\ attempt' = [attempt EXCEPT ![a] = r]
    <2>1. CASE attempt[a].pc = "password"
        BY <2>1, IdleAttemptIn DEF Wrong
    <2>2. CASE attempt[a].pc # "password"
        <3>1. attempt' = [attempt EXCEPT ![a] = [IdleAttempt EXCEPT !.pc = "pending"]]
            BY <2>2, Zenon DEF Wrong
        <3>2. /\ [IdleAttempt EXCEPT !.pc = "pending"] \in AttemptStates
              /\ [IdleAttempt EXCEPT !.pc = "pending"].seen.lock # "on"
            BY IdleAttemptTyped, Zenon
        <3> QED
            BY <3>1, <3>2, Zenon
    <2> QED
        BY <2>1, <2>2
<1>4. \A b \in Attempts : attempt'[b].seen.lock # "on"
    BY <1>3 DEF LockInv, LockoutTypeOK
<1>5. LockoutTypeOK'
    <2>1. attempt' \in [Attempts -> AttemptStates]
        BY <1>3 DEF LockInv, LockoutTypeOK
    <2>2. refused' \in 0 .. LockThreshold
        BY <1>1, LockoutAssumption DEF Wrong
    <2>3. mixed' \in BOOLEAN
        BY DEF Wrong
    <2> QED
        BY <1>2, <2>1, <2>2, <2>3 DEF LockoutTypeOK
<1>6. ASSUME ~mixed'
      PROVE  /\ counter'.lock = "on" => counter'.fails = 0
             /\ refused' = IF counter'.lock = "on" THEN LockThreshold ELSE counter'.fails
    <2>1. ~mixed /\ seen = counter
        BY <1>6 DEF Wrong, LockInv, LockoutTypeOK
    <2>2. counter.lock # "on" /\ refused = counter.fails /\ counter.fails \in 0 .. LockThreshold - 1
        BY <1>1, <2>1 DEF LockInv, RefusalsAreCounted, Counters
    <2>3. refused' = counter.fails + 1
        BY <2>2, LockoutAssumption DEF Wrong
    <2>4. CASE counter.fails + 1 >= LockThreshold
        <3>1. counter' = [ fails |-> 0, lock |-> "on" ]
            BY <2>1, <2>4 DEF Wrong, Miss
        <3> QED
            BY <2>2, <2>3, <2>4, <3>1, LockoutAssumption
    <2>5. CASE ~(counter.fails + 1 >= LockThreshold)
        <3>1. counter' = [counter EXCEPT !.fails = counter.fails + 1]
            BY <2>1, <2>5 DEF Wrong, Miss
        <3>2. counter'.lock = counter.lock /\ counter'.fails = counter.fails + 1
            BY <1>1, <3>1 DEF Counters
        <3> QED
            BY <2>2, <2>3, <3>2
    <2> QED
        BY <2>4, <2>5
<1> QED
    BY <1>4, <1>5, <1>6 DEF LockInv, RefusalsAreCounted

LEMMA LockEndsStep == ASSUME LockInv, LockEnds PROVE LockInv'
<1>1. counter' = [ fails |-> counter.fails, lock |-> "over" ] /\ counter \in Counters
    BY DEF LockEnds, LockInv, LockoutTypeOK, Counters
<1>2. counter' \in Counters
    BY <1>1 DEF Counters
<1>3. refused' \in 0 .. LockThreshold
    BY LockoutAssumption DEF LockEnds, LockInv, LockoutTypeOK
<1> QED
    BY <1>1, <1>2, <1>3 DEF LockEnds, LockInv, LockoutTypeOK, RefusalsAreCounted

LEMMA LockNext == LockInv /\ [LockoutNext]_lockoutVars => LockInv'
<1> SUFFICES ASSUME LockInv, [LockoutNext]_lockoutVars PROVE LockInv'
    OBVIOUS
<1>1. ASSUME NEW a \in Attempts, NEW right \in BOOLEAN,
             Read(a, "idle", "password", right) \/ Read(a, "pending", "code", right)
      PROVE  LockInv'
    <2>1. PICK to \in {"password", "code"} :
            /\ counter.lock # "on" /\ UNCHANGED << counter, refused, mixed >>
            /\ attempt' = [attempt EXCEPT ![a] = [ pc |-> to, right |-> right, seen |-> counter ]]
        BY <1>1 DEF Read
    <2>2. [ pc |-> to, right |-> right, seen |-> counter ] \in AttemptStates
        BY DEF AttemptStates, LockInv, LockoutTypeOK
    <2> QED
        BY <2>1, <2>2, AttemptMoves
<1>2. ASSUME NEW a \in Attempts, Wrong(a) PROVE LockInv'
    BY <1>2, WrongStep
<1>3. ASSUME NEW a \in Attempts, RightPassword(a) \/ RightCode(a) \/ GiveUp(a) PROVE LockInv'
    <2>1. PICK pc \in {"idle", "pending"} : attempt' = [attempt EXCEPT ![a] = [IdleAttempt EXCEPT !.pc = pc]]
        BY <1>3 DEF RightPassword, RightCode, GiveUp, IdleAttempt
    <2>2. \/ UNCHANGED << counter, refused, mixed >>
          \/ counter' = Cleared /\ refused' = 0 /\ mixed' = FALSE
        BY <1>3 DEF RightPassword, RightCode, GiveUp
    <2> QED
        BY <2>1, <2>2, IdleAttemptTyped, AttemptMoves
<1>4. CASE LockEnds
    BY <1>4, LockEndsStep
<1>5. CASE UNCHANGED lockoutVars
    BY <1>5 DEF lockoutVars, LockInv, LockoutTypeOK, RefusalsAreCounted
<1> QED
    BY <1>1, <1>2, <1>3, <1>4, <1>5 DEF LockoutNext

\* recordFailedLogin and the clearing of its counter: whatever logins overlap, the account is
\* locked at the threshold and not before, unless a refusal was counted from a stale row.
THEOREM LockoutIsExact == LockoutSpec => []RefusalsAreCounted
<1>1. LockInv => RefusalsAreCounted
    BY DEF LockInv
<1> QED
    BY <1>1, LockInit, LockNext, PTL DEF LockoutSpec

-----------------------------------------------------------------------------
(* EmailVerification.  A confirmation that goes on has found a token that   *)
(* reached the mailbox, and whatever it overwrites, the address is verified *)
(* from then on.                                                            *)

LinkInv ==
    /\ LinkTypeOK
    /\ \A c \in Readers : reader[c] # NoLink => reader[c] \in proven \cap mailed
    /\ NewestLinkWorks

LEMMA LinkInitOK == LinkInit => LinkInv
BY LinkAssumption DEF LinkInit, LinkInv, LinkTypeOK, NewestLinkWorks

LEMMA LinkNextOK == LinkInv /\ [LinkNext]_linkVars => LinkInv'
<1> SUFFICES ASSUME LinkInv, [LinkNext]_linkVars PROVE LinkInv'
    OBVIOUS
<1> USE DEF LinkInv, LinkTypeOK, NewestLinkWorks
<1>1. ASSUME NEW l \in Links, RequestVerification(l) PROVE LinkInv'
    BY <1>1 DEF RequestVerification
<1>2. ASSUME NEW l \in Links, SendMail(l) PROVE LinkInv'
    BY <1>2 DEF SendMail
<1>3. CASE LinkLapses
    BY <1>3 DEF LinkLapses
<1>4. ASSUME NEW c \in Readers, NEW l \in Links, FindLink(c, l) PROVE LinkInv'
    BY <1>4 DEF FindLink
<1>5. ASSUME NEW c \in Readers, ConfirmLink(c) PROVE LinkInv'
    BY <1>5 DEF ConfirmLink
<1>6. ASSUME NEW c \in Readers, StopReader(c) PROVE LinkInv'
    BY <1>6 DEF StopReader
<1>7. CASE UNCHANGED linkVars
    BY <1>7 DEF linkVars
<1> QED
    BY <1>1, <1>2, <1>3, <1>4, <1>5, <1>6, <1>7 DEF LinkNext

\* confirmEmailVerification: however requests and confirmations overlap, the newest link is not
\* lost before the address is verified, and only a link that was mailed verifies it.
THEOREM VerificationIsEarned == LinkSpec => []NewestLinkWorks
<1>1. LinkInv => NewestLinkWorks
    BY DEF LinkInv
<1> QED
    BY <1>1, LinkInitOK, LinkNextOK, PTL DEF LinkSpec

-----------------------------------------------------------------------------
(* Erasure.  After the erasure nobody is admitted, so that the calls which  *)
(* still write are those it has found; and a decision that is not contested *)
(* finds its request pending.                                               *)

ErasureInv ==
    /\ ErasureTypeOK
    /\ \A v \in Visits :
        /\ Calls(v, "write") /\ customer.erased => visit[v].kind \in pending
        /\ visit[v].call \in {"approve", "reject"} =>
             visit[v].p \in Petitions /\ (~overruled => petition[visit[v].p] = "pending")
    /\ ErasureStands

LEMMA IdleVisitTyped == IdleVisit \in VisitStates /\ IdleVisit.call = "none"
BY DEF IdleVisit, VisitStates, Kinds

LEMMA ErasureInitOK == ErasureInit => ErasureInv
<1> SUFFICES ASSUME ErasureInit PROVE ErasureInv
    OBVIOUS
<1>1. \A v \in Visits : visit[v] \in VisitStates /\ visit[v].call = "none"
    BY IdleVisitTyped DEF ErasureInit
<1>2. ErasureTypeOK
    BY IdleVisitTyped DEF ErasureInit, ErasureTypeOK, Customers, Kinds
<1>3. ErasureStands
    BY DEF ErasureInit, ErasureStands, ErasedIsNameless, ErasedByDecision
<1> QED
    BY <1>1, <1>2, <1>3 DEF ErasureInv, Calls

\* A call that arrives, ends without a write, or changes what no property is about.
LEMMA VisitMoves ==
    ASSUME ErasureInv, NEW v \in Visits, NEW r \in VisitStates,
           r.call = "write" => ~customer.erased,
           r.call \in {"approve", "reject"} => r.p \in Petitions /\ petition[r.p] = "pending",
           visit' = [visit EXCEPT ![v] = r],
           customer' \in Customers, customer'.erased = customer.erased, customer'.deletion = customer.deletion,
           names' \subseteq names,
           UNCHANGED << purchase, petition, pending, overruled >>
    PROVE  ErasureInv'
<1>1. visit'[v] = r /\ \A w \in Visits \ {v} : visit'[w] = visit[w]
    BY DEF ErasureInv, ErasureTypeOK
<1>2. ErasureTypeOK'
    BY DEF ErasureInv, ErasureTypeOK
<1>3. ErasureStands'
    BY DEF ErasureInv, ErasureStands, ErasedIsNameless, ErasedByDecision
<1> QED
    BY <1>1, <1>2, <1>3 DEF ErasureInv, Calls

LEMMA WriteRecordStep == ASSUME ErasureInv, NEW v \in Visits, WriteRecord(v) PROVE ErasureInv'
<1> DEFINE kind == visit[v].kind
<1>1. kind \in Kinds /\ (customer.erased => kind \in pending)
    BY DEF WriteRecord, ErasureInv, ErasureTypeOK, VisitStates
<1>2. /\ visit'[v] = IdleVisit /\ visit' \in [Visits -> VisitStates]
      /\ \A w \in Visits \ {v} : visit'[w] = visit[w]
    BY IdleVisitTyped DEF WriteRecord, Depart, ErasureInv, ErasureTypeOK
<1>3. \/ petition' = petition
      \/ \E p \in Petitions : petition[p] = "none" /\ petition' = [petition EXCEPT ![p] = "pending"]
    BY DEF WriteRecord
<1>4. \A q \in Petitions : petition[q] \in {"pending", "approved", "rejected"} => petition'[q] = petition[q]
    BY <1>3 DEF ErasureInv, ErasureTypeOK
<1>5. \A q \in Petitions : petition'[q] = "approved" => petition[q] = "approved"
    BY <1>3 DEF ErasureInv, ErasureTypeOK
<1>6. petition' \in [Petitions -> {"none", "pending", "approved", "rejected"}]
    BY <1>3 DEF ErasureInv, ErasureTypeOK
<1>7. ErasureTypeOK'
    BY <1>1, <1>2, <1>6 DEF WriteRecord, ErasureInv, ErasureTypeOK
<1>8. ErasedIsNameless'
    BY <1>1 DEF WriteRecord, ErasureInv, ErasureStands, ErasedIsNameless
<1>9. ErasedByDecision'
    BY <1>4, <1>5 DEF WriteRecord, ErasureInv, ErasureStands, ErasedByDecision
<1>10. \A w \in Visits :
         /\ Calls(w, "write")' /\ customer'.erased => visit'[w].kind \in pending'
         /\ visit'[w].call \in {"approve", "reject"} =>
              visit'[w].p \in Petitions /\ (~overruled' => petition'[visit'[w].p] = "pending")
    BY <1>2, <1>4, IdleVisitTyped DEF WriteRecord, ErasureInv, Calls
<1> QED
    BY <1>7, <1>8, <1>9, <1>10 DEF ErasureInv, ErasureStands

\* Both erasing transactions.
LEMMA EraseStep ==
    ASSUME ErasureInv, NEW v \in Visits, NEW byAdmin \in BOOLEAN, Erase(v, byAdmin),
           UNCHANGED purchase,
           \/ byAdmin /\ UNCHANGED << petition, overruled >>
           \/ /\ ~byAdmin /\ visit[v].call = "approve"
              /\ overruled' = (overruled \/ Contested(v, visit[v].p))
              /\ petition' = [petition EXCEPT ![visit[v].p] = "approved"]
    PROVE  ErasureInv'
<1>1. /\ visit'[v] = IdleVisit /\ visit' \in [Visits -> VisitStates]
      /\ \A w \in Visits \ {v} : visit'[w] = visit[w]
    BY IdleVisitTyped DEF Erase, Depart, ErasureInv, ErasureTypeOK
<1>2. customer' \in Customers /\ customer'.erased /\ (customer.deletion => customer'.deletion)
    BY DEF Erase, ErasureInv, ErasureTypeOK, Customers
<1>3. names' = {} /\ pending' \in SUBSET Kinds
    <2>1. \A w \in Visits : visit[w].kind \in Kinds
        BY DEF ErasureInv, ErasureTypeOK, VisitStates
    <2>2. pending \in SUBSET Kinds
        BY DEF ErasureInv, ErasureTypeOK
    <2> QED
        BY <2>1, <2>2 DEF Erase, NamesAfterErasure
<1>4. \A w \in Visits : Calls(w, "write") => visit[w].kind \in pending'
    BY DEF Erase
<1>5. visit[v].call = "approve" => visit[v].p \in Petitions
    BY DEF ErasureInv
<1>6. /\ petition' \in [Petitions -> {"none", "pending", "approved", "rejected"}]
      /\ overruled' \in BOOLEAN /\ (overruled => overruled')
    BY <1>5 DEF ErasureInv, ErasureTypeOK
<1>7. ErasureTypeOK'
    BY <1>1, <1>2, <1>3, <1>6 DEF ErasureInv, ErasureTypeOK
<1>8. ErasureStands'
    <2>1. byAdmin => customer'.deletion
        BY DEF Erase
    <2>2. ~byAdmin => \E p \in Petitions : petition'[p] = "approved"
        BY <1>5 DEF ErasureInv, ErasureTypeOK
    <2> QED
        BY <1>2, <1>3, <2>1, <2>2 DEF ErasureStands, ErasedIsNameless, ErasedByDecision
<1>9. ASSUME NEW w \in Visits, visit'[w].call \in {"approve", "reject"}
      PROVE  visit'[w].p \in Petitions /\ (~overruled' => petition'[visit'[w].p] = "pending")
    <2>1. w # v /\ visit'[w] = visit[w] /\ visit[w].p \in Petitions
        BY <1>1, <1>9, IdleVisitTyped DEF ErasureInv
    <2>2. CASE UNCHANGED << petition, overruled >>
        BY <1>9, <2>1, <2>2 DEF ErasureInv
    <2>3. CASE /\ visit[v].call = "approve"
               /\ overruled' = (overruled \/ Contested(v, visit[v].p))
               /\ petition' = [petition EXCEPT ![visit[v].p] = "approved"]
        <3>1. ~overruled' => visit[w].p # visit[v].p
            BY <1>9, <2>1, <2>3 DEF Contested
        <3> QED
            BY <1>5, <1>6, <1>9, <2>1, <2>3, <3>1 DEF ErasureInv, ErasureTypeOK
    <2> QED
        BY <2>2, <2>3
<1>10. \A w \in Visits : Calls(w, "write")' => visit'[w].kind \in pending'
    BY <1>1, <1>4, IdleVisitTyped DEF Calls
<1> QED
    BY <1>7, <1>8, <1>9, <1>10 DEF ErasureInv

LEMMA RejectStep == ASSUME ErasureInv, NEW v \in Visits, Reject(v) PROVE ErasureInv'
<1> DEFINE p == visit[v].p
<1>1. /\ visit'[v] = IdleVisit /\ visit' \in [Visits -> VisitStates]
      /\ \A w \in Visits \ {v} : visit'[w] = visit[w]
    BY IdleVisitTyped DEF Reject, Depart, ErasureInv, ErasureTypeOK
<1>2. p \in Petitions /\ (~overruled => petition[p] = "pending")
    BY DEF Reject, Calls, ErasureInv
<1>3. petition' = [petition EXCEPT ![p] = "rejected"] /\ overruled' = (overruled \/ Contested(v, p))
    BY DEF Reject
<1>4. /\ petition' \in [Petitions -> {"none", "pending", "approved", "rejected"}]
      /\ overruled' \in BOOLEAN /\ (overruled => overruled')
    BY <1>2, <1>3 DEF ErasureInv, ErasureTypeOK
<1>5. ErasureTypeOK'
    BY <1>1, <1>4 DEF Reject, ErasureInv, ErasureTypeOK
<1>6. ErasedIsNameless'
    BY DEF Reject, ErasureInv, ErasureStands, ErasedIsNameless
<1>7. ErasedByDecision'
    <2>1. ~overruled => ((\E q \in Petitions : petition'[q] = "approved")
                            <=> \E q \in Petitions : petition[q] = "approved")
        BY <1>2, <1>3 DEF ErasureInv, ErasureTypeOK
    <2> QED
        BY <1>4, <2>1 DEF Reject, ErasureInv, ErasureStands, ErasedByDecision
<1>8. ASSUME NEW w \in Visits, visit'[w].call \in {"approve", "reject"}
      PROVE  visit'[w].p \in Petitions /\ (~overruled' => petition'[visit'[w].p] = "pending")
    <2>1. w # v /\ visit'[w] = visit[w] /\ visit[w].p \in Petitions
        BY <1>1, <1>8, IdleVisitTyped DEF ErasureInv
    <2>2. ~overruled' => visit[w].p # p
        BY <1>3, <1>8, <2>1 DEF Contested
    <2> QED
        BY <1>2, <1>3, <1>4, <1>8, <2>1, <2>2 DEF ErasureInv, ErasureTypeOK
<1>9. \A w \in Visits : Calls(w, "write")' /\ customer'.erased => visit'[w].kind \in pending'
    BY <1>1, IdleVisitTyped DEF Calls, Reject, ErasureInv
<1> QED
    BY <1>5, <1>6, <1>7, <1>8, <1>9 DEF ErasureInv, ErasureStands

LEMMA ErasureStep == ErasureInv /\ [ErasureNext]_erasureVars => ErasureInv'
<1> SUFFICES ASSUME ErasureInv, [ErasureNext]_erasureVars PROVE ErasureInv'
    OBVIOUS
<1>0. customer \in Customers /\ visit \in [Visits -> VisitStates]
    BY DEF ErasureInv, ErasureTypeOK
<1>1. ASSUME NEW v \in Visits, NEW call \in {"write", "approve", "reject", "delete", "block", "unblock"},
             NEW kind \in Kinds, NEW p \in Petitions \cup {NoPetition}, Arrive(v, call, kind, p),
             call = "write" => ~customer.erased,
             call \in {"approve", "reject"} => p \in Petitions /\ petition[p] = "pending"
      PROVE  ErasureInv'
    <2> DEFINE r == [ call |-> call, kind |-> kind, p |-> p ]
    <2>1. r \in VisitStates /\ r.call = call /\ r.p = p
        BY DEF VisitStates
    <2>2. visit' = [visit EXCEPT ![v] = r] /\ UNCHANGED << customer, purchase, names, petition, pending, overruled >>
        BY <1>1 DEF Arrive
    <2> HIDE DEF r
    <2> QED
        BY <1>0, <1>1, <2>1, <2>2, VisitMoves
<1>2. ASSUME NEW v \in Visits, NEW kind \in Kinds, Visit(v, kind) PROVE ErasureInv'
    BY <1>1, <1>2 DEF Visit, Admitted
<1>3. ASSUME NEW v \in Visits, NEW p \in Petitions, ApproveRead(v, p) \/ RejectRead(v, p) PROVE ErasureInv'
    BY <1>1, <1>3 DEF ApproveRead, RejectRead, Kinds
<1>4. ASSUME NEW v \in Visits, \/ DeleteRead(v) \/ \E call \in {"block", "unblock"} : BlockRead(v, call)
      PROVE  ErasureInv'
    BY <1>1, <1>4 DEF DeleteRead, BlockRead, Kinds
<1>5. ASSUME NEW v \in Visits, WriteRecord(v) PROVE ErasureInv'
    BY <1>5, WriteRecordStep
<1>6. ASSUME NEW v \in Visits, Approve(v) PROVE ErasureInv'
    BY <1>6, EraseStep DEF Approve, Calls
<1>7. ASSUME NEW v \in Visits, Reject(v) PROVE ErasureInv'
    BY <1>7, RejectStep
<1>8. ASSUME NEW v \in Visits, DeleteCustomer(v) PROVE ErasureInv'
    BY <1>8, EraseStep DEF DeleteCustomer
<1>9. ASSUME NEW v \in Visits, BlockCustomer(v) PROVE ErasureInv'
    <2> DEFINE r == [visit[v] EXCEPT !.call = "drop tokens"]
    <2>1. r \in VisitStates /\ r.call = "drop tokens"
        BY <1>0 DEF VisitStates
    <2>2. visit' = [visit EXCEPT ![v] = r]
        BY <1>9 DEF BlockCustomer
    <2>3. customer' \in Customers /\ customer'.erased = customer.erased /\ customer'.deletion = customer.deletion
        BY <1>0, <1>9 DEF BlockCustomer, Customers
    <2>4. UNCHANGED << purchase, names, petition, pending, overruled >>
        BY <1>9 DEF BlockCustomer
    <2> HIDE DEF r
    <2> QED
        BY <2>1, <2>2, <2>3, <2>4, VisitMoves
<1>10. ASSUME NEW v \in Visits, DropTokens(v) \/ UnblockCustomer(v) \/ Abandon(v) PROVE ErasureInv'
    <2>1. visit' = [visit EXCEPT ![v] = IdleVisit] /\ names' \subseteq names
        BY <1>10 DEF DropTokens, UnblockCustomer, Abandon, Depart
    <2>2. customer' \in Customers /\ customer'.erased = customer.erased /\ customer'.deletion = customer.deletion
        BY <1>0, <1>10 DEF DropTokens, UnblockCustomer, Abandon, Customers
    <2>3. UNCHANGED << purchase, petition, pending, overruled >>
        BY <1>10 DEF DropTokens, UnblockCustomer, Abandon
    <2> QED
        BY <2>1, <2>2, <2>3, IdleVisitTyped, VisitMoves
<1>11. ASSUME NEW to \in {"active", "paid", "over"}, Ship(to) PROVE ErasureInv'
    BY <1>11 DEF Ship, ErasureInv, ErasureTypeOK, ErasureStands, ErasedIsNameless, ErasedByDecision, Calls
<1>12. CASE UNCHANGED erasureVars
    BY <1>12 DEF erasureVars, ErasureInv, ErasureTypeOK, ErasureStands, ErasedIsNameless, ErasedByDecision, Calls
<1> QED
    BY <1>2, <1>3, <1>4, <1>5, <1>6, <1>7, <1>8, <1>9, <1>10, <1>11, <1>12 DEF ErasureNext

\* deleteCustomer and approveDeletionRequest: whatever calls and decisions overlap, nothing names an
\* erased customer but what was being written at that moment, and nobody is erased without a decision.
THEOREM ErasureIsFinal == ErasureSpec => []ErasureStands
<1>1. ErasureInv => ErasureStands
    BY DEF ErasureInv
<1> QED
    BY <1>1, ErasureInitOK, ErasureStep, PTL DEF ErasureSpec

-----------------------------------------------------------------------------
(* TwoFactor.  Only the transaction that switches it off deletes codes and  *)
(* creates none; and a login that finds the step as it read it moves it on. *)

ChangeOK(r) ==
    /\ r.kind \in {"none", "setup", "verify"} => r.deleted = {}
    /\ r.deleted \cap r.created = {}
    /\ r.kind = "regenerate" /\ r.pc = "commit" => r.created # {}
    /\ r.kind = "enable" /\ r.pc \in {"user", "commit"} => r.created # {}
    /\ r.kind \in {"none", "setup", "verify"} => r.pc \notin {"delete", "wait"}
    /\ r.kind = "regenerate" => r.pc # "user"
    /\ r.kind \in {"none", "setup", "disable", "regenerate"} \/ r.k # NoCode => r.step = 0
    /\ r.kind = "enable" \/ (r.kind = "verify" /\ r.k = NoCode) => r.step > r.seen

FactorInv ==
    /\ TwoFactorTypeOK
    /\ \A c \in Changes : ChangeOK(change[c])
    /\ EnabledHasCodes
    /\ NoStepTwice

LEMMA IdleChangeTyped == IdleChange \in ChangeStates
BY TwoFactorAssumption DEF IdleChange, ChangeStates

LEMMA IdleChangeOK == ChangeOK(IdleChange)
BY DEF ChangeOK, IdleChange

LEMMA TwoFactorInitOK == TwoFactorInit => FactorInv
<1> SUFFICES ASSUME TwoFactorInit PROVE FactorInv
    OBVIOUS
<1>1. now \in 1 .. LastStep
    BY TwoFactorAssumption DEF TwoFactorInit
<1>2. factor \in Factors /\ ~factor.on
    BY TwoFactorAssumption DEF TwoFactorInit, FactorOff, Factors
<1>3. TwoFactorTypeOK
    BY <1>1, <1>2, IdleChangeTyped DEF TwoFactorInit, TwoFactorTypeOK
<1>4. \A c \in Changes : ChangeOK(change[c])
    BY IdleChangeOK DEF TwoFactorInit
<1> QED
    BY <1>2, <1>3, <1>4 DEF FactorInv, EnabledHasCodes, NoStepTwice, TwoFactorInit

\* A change begins, goes on, or is rolled back; nothing is committed.
LEMMA ChangeMoves ==
    ASSUME FactorInv, NEW c \in Changes, NEW r \in ChangeStates, ChangeOK(r),
           change' = [change EXCEPT ![c] = r],
           UNCHANGED << factor, code, now, opened, tangled >>
    PROVE  FactorInv'
<1>1. TwoFactorTypeOK'
    BY DEF FactorInv, TwoFactorTypeOK
<1>2. \A d \in Changes : ChangeOK(change'[d])
    BY DEF FactorInv, TwoFactorTypeOK
<1>3. EnabledHasCodes' /\ NoStepTwice'
    BY DEF FactorInv, EnabledHasCodes, NoStepTwice, HasRow
<1> QED
    BY <1>1, <1>2, <1>3 DEF FactorInv

LEMMA BeginStep ==
    ASSUME FactorInv, NEW c \in Changes, NEW s \in 0 .. LastStep, NEW k \in Codes \cup {NoCode},
           NEW kind \in {"setup", "enable", "disable", "regenerate", "verify"},
           NEW pc \in {"user", "delete"}, Begin(c, kind, pc, s, k),
           kind \in {"setup", "disable", "regenerate"} \/ k # NoCode => s = 0,
           kind = "enable" \/ (kind = "verify" /\ k = NoCode) => s > factor.used,
           pc = IF kind \in {"enable", "regenerate"} THEN "delete" ELSE "user"
    PROVE  FactorInv'
<1> DEFINE r == [IdleChange EXCEPT !.kind = kind, !.pc = pc, !.seen = factor.used, !.step = s, !.k = k]
<1>1. factor.used \in 0 .. LastStep
    BY DEF FactorInv, TwoFactorTypeOK, Factors
<1>2. r \in ChangeStates
    BY <1>1 DEF IdleChange, ChangeStates
<1>3. ChangeOK(r)
    BY DEF ChangeOK, IdleChange
<1>4. change' = [change EXCEPT ![c] = r] /\ UNCHANGED << factor, code, now, opened, tangled >>
    BY DEF Begin
<1> HIDE DEF r
<1> QED
    BY <1>2, <1>3, <1>4, ChangeMoves

LEMMA StatementStep ==
    ASSUME FactorInv, NEW c \in Changes, UserUpdate(c) \/ DeleteBegin(c) \/ DeleteAndCreate(c) \/ Rollback(c)
    PROVE  FactorInv'
<1> DEFINE r == change[c]
<1>0. r \in ChangeStates /\ ChangeOK(r) /\ change \in [Changes -> ChangeStates]
    BY DEF FactorInv, TwoFactorTypeOK
<1>1. CASE UserUpdate(c)
    <2> DEFINE next == IF r.kind = "disable" THEN "delete" ELSE "commit"
               new == [r EXCEPT !.pc = next, !.wrote = TRUE]
    <2>1. r.pc = "user" /\ change' = [change EXCEPT ![c] = new] /\ UNCHANGED << factor, code, now, opened, tangled >>
        BY <1>0, <1>1 DEF UserUpdate, At
    <2>2. new \in ChangeStates
        BY <1>0 DEF ChangeStates
    <2>3. ChangeOK(new)
        BY <1>0, <2>1 DEF ChangeOK, ChangeStates
    <2> HIDE DEF new
    <2> QED
        BY <2>1, <2>2, <2>3, ChangeMoves
<1>2. CASE DeleteBegin(c)
    <2> DEFINE new == [r EXCEPT !.pc = "wait", !.snap = { k \in Codes : HasRow(k) }]
    <2>1. change' = [change EXCEPT ![c] = new] /\ UNCHANGED << factor, code, now, opened, tangled >>
        BY <1>0, <1>2 DEF DeleteBegin
    <2>2. new \in ChangeStates
        BY <1>0 DEF ChangeStates
    <2>3. ChangeOK(new)
        BY <1>0, <1>2 DEF DeleteBegin, At, ChangeOK, ChangeStates
    <2> HIDE DEF new
    <2> QED
        BY <2>1, <2>2, <2>3, ChangeMoves
<1>3. CASE DeleteAndCreate(c)
    <2>1. PICK made \in IF r.kind = "disable" THEN {{}} ELSE { {k} : k \in Unissued } :
            change' = [change EXCEPT ![c].pc = IF r.kind = "enable" THEN "user" ELSE "commit",
                         ![c].deleted = { k \in r.snap : HasRow(k) }, ![c].created = made]
        BY <1>3 DEF DeleteAndCreate
    <2> DEFINE new == [r EXCEPT !.pc = IF r.kind = "enable" THEN "user" ELSE "commit",
                         !.deleted = { k \in r.snap : HasRow(k) }, !.created = made]
    <2>2. change' = [change EXCEPT ![c] = new] /\ UNCHANGED << factor, code, now, opened, tangled >>
        BY <1>0, <1>3, <2>1 DEF DeleteAndCreate
    <2>3. made \subseteq Codes /\ (r.kind # "disable" => made # {}) /\ \A k \in made : ~HasRow(k)
        BY <2>1 DEF Unissued
    <2>4. new \in ChangeStates
        BY <1>0, <2>3 DEF ChangeStates
    <2>5. r.kind \notin {"none", "setup", "verify"}
        BY <1>0, <1>3 DEF DeleteAndCreate, At, ChangeOK
    <2>6. ChangeOK(new)
        BY <1>0, <2>3, <2>5 DEF ChangeOK, ChangeStates
    <2> HIDE DEF new
    <2> QED
        BY <2>2, <2>4, <2>6, ChangeMoves
<1>4. CASE Rollback(c)
    BY <1>4, IdleChangeTyped, IdleChangeOK, ChangeMoves DEF Rollback
<1> QED
    BY <1>1, <1>2, <1>3, <1>4

LEMMA CommitStep == ASSUME FactorInv, NEW c \in Changes, Commit(c) PROVE FactorInv'
<1> DEFINE r == change[c]
<1>0. /\ r \in ChangeStates /\ ChangeOK(r) /\ r.pc = "commit"
      /\ factor \in Factors /\ code \in [Codes -> {"none", "unused", "used"}]
    BY DEF FactorInv, TwoFactorTypeOK, Commit, At
<1>1. factor' \in Factors
    BY <1>0 DEF Commit, FactorAfter, FactorOff, Factors, ChangeStates, ChangeOK
<1>2. code' \in [Codes -> {"none", "unused", "used"}]
    BY <1>0 DEF Commit
<1>3. /\ \A d \in Changes : change'[d] \in ChangeStates /\ ChangeOK(change'[d])
      /\ change' \in [Changes -> ChangeStates]
    BY IdleChangeTyped, IdleChangeOK DEF Commit, FactorInv, TwoFactorTypeOK
<1>4. opened' \in SUBSET (1 .. LastStep)
    <2>1. opened' = {} \/ opened' = opened \/ (r.step # 0 /\ opened' = opened \cup {r.step})
        BY DEF Commit
    <2>2. r.step # 0 => r.step \in 1 .. LastStep
        BY <1>0, TwoFactorAssumption DEF ChangeStates
    <2>3. \A s \in opened : s \in 1 .. LastStep
        BY DEF FactorInv, TwoFactorTypeOK
    <2>4. ASSUME NEW s \in opened' PROVE s \in 1 .. LastStep
        BY <2>1, <2>2, <2>3
    <2> QED
        BY <2>4
<1>5. tangled' \in BOOLEAN /\ now' \in 1 .. LastStep
    BY DEF Commit, FactorInv, TwoFactorTypeOK
<1>6. EnabledHasCodes'
    <2> SUFFICES ASSUME factor'.on PROVE \E k \in Codes : code'[k] # "none"
        BY DEF EnabledHasCodes, HasRow
    <2>1. CASE r.kind \in {"enable", "regenerate"}
        <3>1. PICK k \in r.created : k \in Codes /\ k \notin r.deleted
            BY <1>0, <2>1 DEF ChangeOK, ChangeStates
        <3> QED
            BY <3>1 DEF Commit
    <2>2. CASE r.kind = "disable"
        BY <2>2 DEF Commit, FactorAfter, FactorOff
    <2>3. CASE r.kind \in {"none", "setup", "verify"}
        <3>1. factor.on /\ r.deleted = {}
            BY <1>0, <2>3 DEF Commit, FactorAfter, Factors, ChangeOK
        <3>2. PICK k \in Codes : code[k] # "none"
            BY <3>1 DEF FactorInv, EnabledHasCodes, HasRow
        <3> QED
            BY <3>1, <3>2 DEF Commit
    <2> QED
        BY <1>0, <2>1, <2>2, <2>3 DEF ChangeStates
<1>7. NoStepTwice'
    <2> SUFFICES ASSUME ~tangled' PROVE \A s \in opened' : s <= factor'.used
        BY DEF NoStepTwice
    <2>1. ~tangled /\ (r.kind \in {"enable", "verify"} => r.seen = factor.used)
        BY DEF Commit
    <2>2. \A s \in opened : s \in Nat /\ s <= factor.used
        BY <2>1 DEF FactorInv, NoStepTwice, TwoFactorTypeOK
    <2>3. CASE r.kind \in {"setup", "disable"}
        BY <2>3 DEF Commit
    <2>4. CASE r.kind \in {"none", "regenerate"} \/ (r.kind = "verify" /\ r.k # NoCode)
        <3>1. opened' = opened /\ factor' = factor
            BY <1>0, <2>4 DEF Commit, FactorAfter, ChangeOK
        <3> QED
            BY <2>2, <3>1
    <2>5. CASE r.kind = "enable" \/ (r.kind = "verify" /\ r.k = NoCode)
        <3>1. r.step \in Nat /\ r.step > factor.used /\ factor.used \in Nat
            BY <1>0, <2>1, <2>5 DEF ChangeOK, ChangeStates, Factors
        <3>2. factor'.used = r.step
            BY <1>0, <2>5 DEF Commit, FactorAfter, Factors
        <3>3. opened' = opened \cup {r.step}
            BY <2>5, <3>1 DEF Commit
        <3> QED
            BY <2>2, <3>1, <3>2, <3>3
    <2> QED
        BY <1>0, <2>3, <2>4, <2>5 DEF ChangeStates
<1> QED
    BY <1>1, <1>2, <1>3, <1>4, <1>5, <1>6, <1>7 DEF FactorInv, TwoFactorTypeOK

LEMMA FactorNext == FactorInv /\ [TwoFactorNext]_twoFactorVars => FactorInv'
<1> SUFFICES ASSUME FactorInv, [TwoFactorNext]_twoFactorVars PROVE FactorInv'
    OBVIOUS
<1>0. LastStep \in Nat /\ factor.used \in 0 .. LastStep /\ now \in 1 .. LastStep
    BY TwoFactorAssumption DEF FactorInv, TwoFactorTypeOK, Factors
<1>1. ASSUME NEW c \in Changes, SetupRead(c) PROVE FactorInv'
    BY <1>0, <1>1, BeginStep DEF SetupRead
<1>2. ASSUME NEW c \in Changes, NEW s \in 1 .. LastStep, EnableRead(c, s) PROVE FactorInv'
    BY <1>0, <1>2, BeginStep DEF EnableRead, Accepted
<1>3. ASSUME NEW c \in Changes, NEW s \in 1 .. LastStep, NEW k \in Codes \cup {NoCode}, DisableRead(c, s, k)
      PROVE  FactorInv'
    BY <1>0, <1>3, BeginStep DEF DisableRead
<1>4. ASSUME NEW c \in Changes, NEW s \in 1 .. LastStep, NEW k \in Codes \cup {NoCode}, RegenerateRead(c, s, k)
      PROVE  FactorInv'
    BY <1>0, <1>4, BeginStep DEF RegenerateRead
<1>5. ASSUME NEW c \in Changes, NEW s \in 1 .. LastStep, VerifyStep(c, s) PROVE FactorInv'
    BY <1>0, <1>5, BeginStep DEF VerifyStep, Accepted
<1>6. ASSUME NEW c \in Changes, NEW k \in Codes, VerifyCode(c, k) PROVE FactorInv'
    BY <1>0, <1>6, BeginStep, TwoFactorAssumption DEF VerifyCode
<1>7. ASSUME NEW c \in Changes, UserUpdate(c) \/ DeleteBegin(c) \/ DeleteAndCreate(c) \/ Rollback(c)
      PROVE  FactorInv'
    BY <1>7, StatementStep
<1>8. ASSUME NEW c \in Changes, Commit(c) PROVE FactorInv'
    BY <1>8, CommitStep
<1>9. CASE Tick
    <2>1. now' \in 1 .. LastStep
        BY <1>0, <1>9 DEF Tick
    <2> QED
        BY <1>9, <2>1 DEF Tick, FactorInv, TwoFactorTypeOK, EnabledHasCodes, NoStepTwice, HasRow
<1>10. CASE UNCHANGED twoFactorVars
    BY <1>10 DEF twoFactorVars, FactorInv, TwoFactorTypeOK, EnabledHasCodes, NoStepTwice, HasRow
<1> QED
    BY <1>1, <1>2, <1>3, <1>4, <1>5, <1>6, <1>7, <1>8, <1>9, <1>10 DEF TwoFactorNext

LEMMA AlwaysFactorInv == TwoFactorSpec => []FactorInv
BY TwoFactorInitOK, FactorNext, PTL DEF TwoFactorSpec

\* enableTwoFactor, disableTwoFactor, regenerateRecoveryCodes: whatever of them overlap, an account
\* with the second factor on has recovery codes.
THEOREM NobodyIsLockedOut == TwoFactorSpec => []EnabledHasCodes
<1>1. FactorInv => EnabledHasCodes
    BY DEF FactorInv
<1> QED
    BY <1>1, AlwaysFactorInv, PTL

\* verifyTwoFactorLogin: the step recorded is never behind one that opened a login, unless two
\* logins overlapped, so that a code that was observed opens nothing.
THEOREM CodesWorkOnce == TwoFactorSpec => []NoStepTwice
<1>1. FactorInv => NoStepTwice
    BY DEF FactorInv
<1> QED
    BY <1>1, AlwaysFactorInv, PTL

-----------------------------------------------------------------------------
(* PermissionSync, for any number of instances that overlap.  A role never   *)
(* holds more than its old keys and what they amount to, keeps its old key   *)
(* until it holds what replaces it; and while the keys that were split are   *)
(* not all granted, an instance that saw the split to be done is about to,   *)
(* or the split has been cut short.                                          *)

OldHeld(r)    == had[r] \cap Legacy
SplitHeld(r)  == had[r] \cap DOMAIN ExtraGrants
Replaced(r)   == \A k \in OldHeld(r) : Expands[k] \subseteq holds[r]
SplitDone     == \A r \in Groups : \A k \in SplitHeld(r) : ExtraGrants[k] \subseteq holds[r]

\* What the role holds after the instance has written its grants.
WithGrants(u, r) == holds[r] \cup { k \in Keys : << r, k >> \in u.grants }

HoldsOK(r) ==
    /\ had[r] \subseteq DOMAIN ExtraGrants \cup Legacy
    /\ holds[r] \subseteq OldHeld(r) \cup Equivalent(had[r])
    /\ had[r] \ Legacy \subseteq holds[r]
    /\ holds[r] \cap Legacy \subseteq known
    /\ \A k \in OldHeld(r) : k \in holds[r] \/ Expands[k] \subseteq holds[r]

InstanceOK(u) ==
    /\ u.pc = "create" => (u.preSplit <=> SplitKey \in u.missing)
    /\ u.pc = "grant" => \A r \in Groups :
         /\ { k \in Keys : << r, k >> \in u.grants } \subseteq Equivalent(had[r]) \ Legacy
         /\ \A k \in OldHeld(r) : Expands[k] \subseteq WithGrants(u, r)
         /\ u.preSplit => \A k \in SplitHeld(r) : ExtraGrants[k] \subseteq WithGrants(u, r)
    /\ u.pc \in {"drop grants", "drop keys"} \/ (u.pc = "superuser" /\ u.legacy # {})
       => \A r \in Groups : Replaced(r)

\* The instance is about to grant what has been split, or the superuser everything.
WillSplit(i)  == sync[i].preSplit /\ (SyncAt(i, "holders") \/ SyncAt(i, "grant"))
WillGrant(i)  == sync[i].preSplit /\ (SyncAt(i, "holders") \/ SyncAt(i, "grant") \/ SyncAt(i, "superuser"))

SplitUnderWay ==
    \/ cutShort
    \/ /\ SplitDone \/ \E i \in Instances : WillSplit(i)
       /\ Catalog \subseteq holds[Superuser] \/ \E i \in Instances : WillGrant(i)

SyncInv ==
    /\ SyncTypeOK
    /\ \A r \in Groups : HoldsOK(r)
    /\ \A i \in Instances : InstanceOK(sync[i])
    /\ SplitKey \in known => SplitUnderWay

\* What a set of keys amounts to, spelled out.
LEMMA EquivalentKeys ==
    ASSUME NEW keys, NEW x
    PROVE  x \in Equivalent(keys) <=>
             \/ x \in keys /\ x \notin Legacy
             \/ \E k \in keys : k \in Legacy /\ x \in Expands[k]
             \/ \E k \in keys : k \in DOMAIN ExtraGrants /\ x \in ExtraGrants[k]
BY DEF Equivalent, Replacement

\* Old keys and new keys are apart, and a key that is split was held before the release.
LEMMA KeysApart ==
    /\ Catalog \subseteq Keys /\ Legacy \cap Catalog = {} /\ SplitKey \in Catalog
    /\ SplitKey \notin DOMAIN ExtraGrants \cup Legacy
    /\ \A k \in Legacy : Expands[k] \subseteq Catalog \ DOMAIN ExtraGrants
    /\ \A k \in DOMAIN ExtraGrants : ExtraGrants[k] \subseteq Catalog \ DOMAIN ExtraGrants
    /\ Superuser \notin Groups
BY PermissionSyncAssumption DEF Legacy

LEMMA SplitKeysAreOld ==
    ASSUME NEW r \in Groups, HoldsOK(r), NEW k \in DOMAIN ExtraGrants, k \in holds[r]
    PROVE  k \in had[r]
BY KeysApart, EquivalentKeys DEF HoldsOK, OldHeld

LEMMA SyncInitOK == SyncInit => SyncInv
<1> SUFFICES ASSUME SyncInit PROVE SyncInv
    OBVIOUS
<1>1. known \subseteq DOMAIN ExtraGrants \cup Legacy /\ had \in [Groups -> SUBSET known]
      /\ \A r \in Groups : holds[r] = had[r]
    BY KeysApart DEF SyncInit, Holders
<1>2. known \subseteq Keys
    BY <1>1, PermissionSyncAssumption DEF Legacy
<1>3. IdleSync \in SyncStates
    BY DEF IdleSync, SyncStates
<1>4. SyncTypeOK
    BY <1>1, <1>2, <1>3 DEF SyncTypeOK, SyncInit, Holders
<1>5. ASSUME NEW r \in Groups PROVE HoldsOK(r)
    BY <1>1, EquivalentKeys DEF HoldsOK, OldHeld
<1>6. \A i \in Instances : InstanceOK(sync[i])
    BY DEF SyncInit, IdleSync, InstanceOK, SyncAt
<1>7. SplitKey \notin known
    BY <1>1, KeysApart
<1> QED
    BY <1>4, <1>5, <1>6, <1>7 DEF SyncInv

\* An instance takes a step, and the roles hold what they held.
LEMMA SyncMoves ==
    ASSUME SyncInv, NEW i \in Instances, NEW u \in SyncStates, sync' = [sync EXCEPT ![i] = u],
           UNCHANGED << holds, had >>, known' \in SUBSET Keys, known \cap Legacy \subseteq known',
           cutShort' \in BOOLEAN, InstanceOK(u), SplitKey \in known' => SplitUnderWay'
    PROVE  SyncInv'
<1>1. \A j \in Instances \ {i} : sync'[j] = sync[j]
    BY DEF SyncInv, SyncTypeOK
<1>2. SyncTypeOK'
    BY DEF SyncInv, SyncTypeOK
<1>3. ASSUME NEW r \in Groups PROVE HoldsOK(r)'
    BY DEF SyncInv, HoldsOK, OldHeld, Equivalent, Replacement
<1>4. ASSUME NEW j \in Instances PROVE InstanceOK(sync[j])'
    <2>1. InstanceOK(sync'[j])
        BY <1>1 DEF SyncInv, SyncTypeOK
    <2> QED
        BY <2>1 DEF InstanceOK, OldHeld, SplitHeld, WithGrants, Replaced
<1> QED
    BY <1>2, <1>3, <1>4 DEF SyncInv

\* Nothing is granted, and every instance that was about to grant still is.
LEMMA SplitGoesOn ==
    ASSUME SplitUnderWay, UNCHANGED << holds, had >>, cutShort => cutShort',
           \A j \in Instances : (WillSplit(j) => WillSplit(j)') /\ (WillGrant(j) => WillGrant(j)')
    PROVE  SplitUnderWay'
<1>1. SplitDone' <=> SplitDone
    BY DEF SplitDone, SplitHeld
<1> QED
    BY <1>1 DEF SplitUnderWay

LEMMA ReadKeysStep == ASSUME SyncInv, NEW i \in Instances, ReadKeys(i) PROVE SyncInv'
<1> DEFINE u == [ pc |-> "create", legacy |-> known \cap Legacy, missing |-> Catalog \ known,
                  preSplit |-> SplitKey \notin known, grants |-> {} ]
<1>1. u \in SyncStates /\ sync' = [sync EXCEPT ![i] = u] /\ UNCHANGED << known, holds, had, cutShort >>
    BY DEF ReadKeys, SyncStates
<1>2. sync'[i] = u /\ \A j \in Instances \ {i} : sync'[j] = sync[j]
    BY <1>1 DEF SyncInv, SyncTypeOK
<1>3. u.pc = "create" /\ u.preSplit = (SplitKey \in u.missing)
    BY KeysApart
<1> HIDE DEF u
<1>4. InstanceOK(u)
    BY <1>3 DEF InstanceOK
<1>5. sync[i].pc = "idle"
    BY DEF ReadKeys, SyncAt
<1>6. \A j \in Instances : (WillSplit(j) => WillSplit(j)') /\ (WillGrant(j) => WillGrant(j)')
    BY <1>2, <1>5 DEF WillSplit, WillGrant, SyncAt
<1> QED
    BY <1>1, <1>4, <1>6, SplitGoesOn, SyncMoves DEF SyncInv, SyncTypeOK

LEMMA CreateMissingStep == ASSUME SyncInv, NEW i \in Instances, CreateMissing(i) PROVE SyncInv'
<1> DEFINE pc == IF sync[i].legacy # {} \/ sync[i].preSplit THEN "holders" ELSE "superuser"
           u == [sync[i] EXCEPT !.pc = pc]
<1>1. sync[i] \in SyncStates /\ sync[i].pc = "create" /\ InstanceOK(sync[i])
    BY DEF SyncInv, SyncTypeOK, CreateMissing, SyncAt
<1>2. u \in SyncStates /\ u.pc = pc /\ u.preSplit = sync[i].preSplit /\ u.legacy = sync[i].legacy
    BY <1>1 DEF SyncStates
<1>3. sync' = [sync EXCEPT ![i] = u] /\ UNCHANGED << holds, had >>
      /\ known' = known \cup sync[i].missing /\ cutShort' = cutShort
    BY DEF CreateMissing, SyncGoto
<1>4. sync'[i] = u /\ \A j \in Instances \ {i} : sync'[j] = sync[j]
    BY <1>3 DEF SyncInv, SyncTypeOK
<1>5. known' \in SUBSET Keys /\ known \cap Legacy \subseteq known'
    BY <1>1, <1>3, KeysApart DEF SyncInv, SyncTypeOK, SyncStates
<1> HIDE DEF u
<1>6. InstanceOK(u)
    BY <1>2 DEF InstanceOK
<1>7. SplitKey \in known' => SplitUnderWay'
    <2>1. CASE SplitKey \in known
        <3>1. \A j \in Instances : (WillSplit(j) => WillSplit(j)') /\ (WillGrant(j) => WillGrant(j)')
            BY <1>1, <1>4 DEF WillSplit, WillGrant, SyncAt
        <3> QED
            BY <1>3, <2>1, <3>1, SplitGoesOn DEF SyncInv
    <2>2. CASE SplitKey \in sync[i].missing
        <3>1. u.preSplit /\ u.pc = "holders"
            BY <1>1, <1>2, <2>2 DEF InstanceOK
        <3>2. WillSplit(i)' /\ WillGrant(i)'
            BY <1>4, <3>1 DEF WillSplit, WillGrant, SyncAt
        <3> QED
            BY <3>2 DEF SplitUnderWay
    <2> QED
        BY <1>3, <2>1, <2>2
<1> QED
    BY <1>2, <1>3, <1>5, <1>6, <1>7, SyncMoves DEF SyncInv, SyncTypeOK

LEMMA ReadHoldersStep == ASSUME SyncInv, NEW i \in Instances, ReadHolders(i) PROVE SyncInv'
<1> DEFINE grants == { g \in Groups \X Keys : \E key \in holds[g[1]] : g[2] \in Targets(i, key) }
           u == [sync[i] EXCEPT !.pc = "grant", !.grants = grants]
<1>1. sync[i] \in SyncStates /\ sync[i].pc = "holders"
    BY DEF SyncInv, SyncTypeOK, ReadHolders, SyncAt
<1>2. \A r \in Groups, k \in Keys :
        << r, k >> \in grants <=> \E key \in holds[r] : k \in Targets(i, key)
    OBVIOUS
<1>3. grants \in SUBSET (Groups \X Keys)
    OBVIOUS
<1>4. sync' = [sync EXCEPT ![i] = u] /\ UNCHANGED << known, holds, had, cutShort >>
    BY <1>1 DEF ReadHolders, SyncInv, SyncTypeOK
<1> HIDE DEF grants
<1>5. u \in SyncStates /\ u.pc = "grant" /\ u.preSplit = sync[i].preSplit /\ u.grants = grants
    BY <1>1, <1>3 DEF SyncStates
<1> HIDE DEF u
<1>6. InstanceOK(u)
    <2> SUFFICES ASSUME NEW r \in Groups
                 PROVE  /\ { k \in Keys : << r, k >> \in u.grants } \subseteq Equivalent(had[r]) \ Legacy
                        /\ \A k \in OldHeld(r) : Expands[k] \subseteq WithGrants(u, r)
                        /\ u.preSplit => \A k \in SplitHeld(r) : ExtraGrants[k] \subseteq WithGrants(u, r)
        BY <1>5 DEF InstanceOK
    <2>0. HoldsOK(r)
        BY DEF SyncInv
    <2>1. ASSUME NEW k \in Keys, << r, k >> \in u.grants PROVE k \in Equivalent(had[r]) \ Legacy
        <3>1. PICK key \in holds[r] : k \in Targets(i, key)
            BY <1>2, <1>5, <2>1
        <3>2. CASE key \in Legacy
            <4>1. key \in had[r] /\ k \in Expands[key]
                BY <2>0, <3>1, <3>2, KeysApart, EquivalentKeys DEF HoldsOK, OldHeld, Targets
            <4> QED
                BY <3>2, <4>1, KeysApart, EquivalentKeys
        <3>3. CASE key \notin Legacy
            <4>1. key \in DOMAIN ExtraGrants /\ k \in ExtraGrants[key]
                BY <3>1, <3>3 DEF Targets
            <4>2. key \in had[r]
                BY <2>0, <4>1, SplitKeysAreOld
            <4> QED
                BY <4>1, <4>2, KeysApart, EquivalentKeys
        <3> QED
            BY <3>2, <3>3
    <2>2. ASSUME NEW k \in OldHeld(r), NEW x \in Expands[k] PROVE x \in WithGrants(u, r)
        <3>1. k \in Legacy /\ x \in Keys /\ (k \in holds[r] \/ x \in holds[r])
            BY <2>0, <2>2, KeysApart DEF HoldsOK, OldHeld
        <3>2. k \in holds[r] => << r, x >> \in u.grants
            BY <1>2, <1>5, <2>2, <3>1 DEF Targets
        <3> QED
            BY <3>1, <3>2 DEF WithGrants
    <2>3. ASSUME u.preSplit, NEW k \in SplitHeld(r), NEW x \in ExtraGrants[k] PROVE x \in WithGrants(u, r)
        <3>1. k \notin Legacy /\ k \in holds[r] /\ k \in DOMAIN ExtraGrants /\ x \in Keys
            BY <2>0, <2>3, KeysApart, PermissionSyncAssumption DEF HoldsOK, SplitHeld
        <3>2. x \in Targets(i, k)
            BY <1>5, <2>3, <3>1 DEF Targets
        <3> QED
            BY <1>2, <1>5, <3>1, <3>2 DEF WithGrants
    <2> QED
        BY <2>1, <2>2, <2>3
<1>7. sync'[i] = u /\ \A j \in Instances \ {i} : sync'[j] = sync[j]
    BY <1>4 DEF SyncInv, SyncTypeOK
<1>8. \A j \in Instances : (WillSplit(j) => WillSplit(j)') /\ (WillGrant(j) => WillGrant(j)')
    BY <1>5, <1>7 DEF WillSplit, WillGrant, SyncAt
<1> QED
    BY <1>4, <1>5, <1>6, <1>8, SplitGoesOn, SyncMoves DEF SyncInv, SyncTypeOK

\* A grant, or the removal of old keys that the roles have replaced.
LEMMA HoldsMoves ==
    ASSUME SyncInv, NEW i \in Instances, NEW u \in SyncStates, sync' = [sync EXCEPT ![i] = u],
           UNCHANGED << had, cutShort >>, holds' \in [Holders -> SUBSET Keys], known' \in SUBSET Keys,
           \A r \in Holders : holds[r] \ Legacy \subseteq holds'[r],
           \A r \in Groups : HoldsOK(r)',
           SplitKey \in known' => SplitKey \in known,
           InstanceOK(u)',
           WillSplit(i) => SplitDone',
           WillGrant(i) => WillGrant(i)' \/ Catalog \subseteq holds'[Superuser]
    PROVE  SyncInv'
<1>1. sync'[i] = u /\ \A j \in Instances \ {i} : sync'[j] = sync[j] /\ sync[j] \in SyncStates
    BY DEF SyncInv, SyncTypeOK
<1>2. SyncTypeOK'
    BY DEF SyncInv, SyncTypeOK
<1>3. \A r \in Groups : r \in Holders
    BY DEF Holders
<1>4. \A k \in Legacy : Expands[k] \cap Legacy = {}
    BY KeysApart
<1>5. \A k \in DOMAIN ExtraGrants : ExtraGrants[k] \cap Legacy = {}
    BY KeysApart
<1>6. \A r \in Groups : Replaced(r) => Replaced(r)'
    BY <1>3, <1>4 DEF Replaced, OldHeld
<1>7. SplitDone => SplitDone'
    BY <1>3, <1>5 DEF SplitDone, SplitHeld
<1>8. Catalog \subseteq holds[Superuser] => Catalog \subseteq holds'[Superuser]
    BY KeysApart DEF Holders
<1>9. ASSUME NEW j \in Instances PROVE InstanceOK(sync[j])'
    <2>1. CASE j = i
        BY <1>1, <2>1 DEF InstanceOK, OldHeld, SplitHeld, WithGrants, Replaced
    <2>2. CASE j # i
        <3>1. PICK w \in SyncStates : w = sync[j] /\ w = sync'[j] /\ InstanceOK(sync[j])
            BY <1>1, <2>2 DEF SyncInv
        <3>2. InstanceOK(w)
            BY <3>1
        <3>3. \A r \in Groups : WithGrants(w, r) \ Legacy \subseteq WithGrants(w, r)'
            BY <1>3 DEF WithGrants
        <3>4. InstanceOK(w)'
            <4>1. w.pc = "create" => (w.preSplit <=> SplitKey \in w.missing)
                BY <3>2 DEF InstanceOK
            <4>2. ASSUME w.pc = "grant", NEW r \in Groups
                  PROVE  /\ { k \in Keys : << r, k >> \in w.grants } \subseteq Equivalent(had'[r]) \ Legacy
                         /\ \A k \in OldHeld(r)' : Expands[k] \subseteq WithGrants(w, r)'
                         /\ w.preSplit => \A k \in SplitHeld(r)' : ExtraGrants[k] \subseteq WithGrants(w, r)'
                <5>1. \A k \in OldHeld(r) : Expands[k] \subseteq WithGrants(w, r) /\ Expands[k] \cap Legacy = {}
                    BY <1>4, <3>2, <4>2 DEF InstanceOK, OldHeld
                <5>2. w.preSplit => \A k \in SplitHeld(r) : /\ ExtraGrants[k] \subseteq WithGrants(w, r)
                                                           /\ ExtraGrants[k] \cap Legacy = {}
                    BY <1>5, <3>2, <4>2 DEF InstanceOK, SplitHeld
                <5>3. { k \in Keys : << r, k >> \in w.grants } \subseteq Equivalent(had[r]) \ Legacy
                    BY <3>2, <4>2 DEF InstanceOK
                <5>4. OldHeld(r)' = OldHeld(r) /\ SplitHeld(r)' = SplitHeld(r) /\ had' = had
                    BY DEF OldHeld, SplitHeld
                <5> QED
                    BY <3>3, <5>1, <5>2, <5>3, <5>4
            <4>3. w.pc \in {"drop grants", "drop keys"} \/ (w.pc = "superuser" /\ w.legacy # {})
                  => \A r \in Groups : Replaced(r)'
                BY <1>6, <3>2 DEF InstanceOK
            <4> QED
                BY <4>1, <4>2, <4>3 DEF InstanceOK
        <3> QED
            BY <3>1, <3>4
    <2> QED
        BY <2>1, <2>2
<1>10. \A j \in Instances \ {i} : (WillSplit(j) => WillSplit(j)') /\ (WillGrant(j) => WillGrant(j)')
    BY <1>1 DEF WillSplit, WillGrant, SyncAt
<1>11. SplitDone \/ (\E j \in Instances : WillSplit(j)) => SplitDone' \/ \E j \in Instances : WillSplit(j)'
    BY <1>7, <1>10
<1>12. Catalog \subseteq holds[Superuser] \/ (\E j \in Instances : WillGrant(j))
         => Catalog \subseteq holds'[Superuser] \/ \E j \in Instances : WillGrant(j)'
    BY <1>8, <1>10
<1>13. SplitKey \in known' => SplitUnderWay'
    BY <1>11, <1>12 DEF SyncInv, SplitUnderWay
<1> QED
    BY <1>2, <1>9, <1>13 DEF SyncInv

LEMMA IdleSyncOK == IdleSync \in SyncStates /\ IdleSync.pc = "idle"
BY DEF IdleSync, SyncStates

LEMMA GrantTargetsStep == ASSUME SyncInv, NEW i \in Instances, GrantTargets(i) PROVE SyncInv'
<1>1. sync[i] \in SyncStates /\ sync[i].pc = "grant" /\ InstanceOK(sync[i])
    BY DEF SyncInv, SyncTypeOK, GrantTargets, SyncAt
<1>2. PICK u \in SyncStates : /\ sync' = [sync EXCEPT ![i] = u]
                             /\ u.pc = "superuser" /\ u.preSplit = sync[i].preSplit
    <2>1. /\ [sync[i] EXCEPT !.pc = "superuser"] \in SyncStates
          /\ [sync[i] EXCEPT !.pc = "superuser"].pc = "superuser"
          /\ [sync[i] EXCEPT !.pc = "superuser"].preSplit = sync[i].preSplit
        BY <1>1 DEF SyncStates
    <2> QED
        BY <2>1 DEF GrantTargets, SyncGoto
<1>3. UNCHANGED << known, had, cutShort >>
    BY DEF GrantTargets
<1>4. \A r \in Holders : holds'[r] = WithGrants(sync[i], r)
    BY DEF GrantTargets, WithGrants
<1>5. holds' \in [Holders -> SUBSET Keys]
    BY DEF GrantTargets, SyncInv, SyncTypeOK
<1>6. \A r \in Holders : holds[r] \subseteq holds'[r]
    BY <1>4 DEF WithGrants
<1>7. ASSUME NEW r \in Groups
      PROVE  /\ HoldsOK(r)' /\ Replaced(r)'
             /\ sync[i].preSplit => \A k \in SplitHeld(r) : ExtraGrants[k] \subseteq holds'[r]
    <2>1. HoldsOK(r) /\ r \in Holders
        BY DEF SyncInv, Holders
    <2>2. OldHeld(r)' = OldHeld(r) /\ UNCHANGED << known, had >>
        BY <1>3 DEF OldHeld
    <2>3. holds'[r] \subseteq holds[r] \cup (Equivalent(had[r]) \ Legacy)
        BY <1>1, <1>4, <2>1 DEF InstanceOK, WithGrants
    <2>4. HoldsOK(r)'
        BY <1>6, <2>1, <2>2, <2>3 DEF HoldsOK
    <2>5. Replaced(r)'
        BY <1>1, <1>4, <2>1, <2>2 DEF InstanceOK, Replaced
    <2> QED
        BY <1>1, <1>4, <2>1, <2>4, <2>5 DEF InstanceOK
<1>8. InstanceOK(u)'
    BY <1>2, <1>7 DEF InstanceOK
<1>9. WillSplit(i) => SplitDone'
    BY <1>3, <1>7 DEF WillSplit, SplitDone, SplitHeld
<1>10. WillGrant(i) => WillGrant(i)'
    BY <1>2, <1>3 DEF WillGrant, SyncAt, SyncInv, SyncTypeOK
<1> QED
    BY <1>2, <1>3, <1>5, <1>6, <1>7, <1>8, <1>9, <1>10, HoldsMoves DEF SyncInv, SyncTypeOK

LEMMA GrantSuperuserStep == ASSUME SyncInv, NEW i \in Instances, GrantSuperuser(i) PROVE SyncInv'
<1>1. sync[i] \in SyncStates /\ sync[i].pc = "superuser" /\ InstanceOK(sync[i])
    BY DEF SyncInv, SyncTypeOK, GrantSuperuser, SyncAt
<1>2. PICK u \in SyncStates : /\ sync' = [sync EXCEPT ![i] = u]
                             /\ (u.pc = "idle" \/ (u.pc = "drop grants" /\ sync[i].legacy # {}))
    <2>1. /\ [sync[i] EXCEPT !.pc = "drop grants"] \in SyncStates
          /\ [sync[i] EXCEPT !.pc = "drop grants"].pc = "drop grants"
        BY <1>1 DEF SyncStates
    <2> QED
        BY <2>1, IdleSyncOK DEF GrantSuperuser, SyncGoto
<1>3. UNCHANGED << known, had, cutShort >>
    BY DEF GrantSuperuser
<1>4. /\ holds' \in [Holders -> SUBSET Keys] /\ Catalog \subseteq holds'[Superuser]
      /\ holds[Superuser] \subseteq holds'[Superuser]
      /\ \A r \in Groups : holds'[r] = holds[r] /\ r \in Holders
    BY KeysApart DEF GrantSuperuser, SyncInv, SyncTypeOK, Holders
<1>5. ASSUME NEW r \in Groups PROVE HoldsOK(r)' /\ Replaced(r)' = Replaced(r)
    BY <1>3, <1>4 DEF SyncInv, HoldsOK, OldHeld, Replaced, Equivalent, Replacement
<1>6. InstanceOK(u)'
    BY <1>1, <1>2, <1>5 DEF InstanceOK
<1>7. ~WillSplit(i) /\ \A r \in Holders : holds[r] \ Legacy \subseteq holds'[r]
    BY <1>1, <1>4 DEF WillSplit, SyncAt, Holders
<1> QED
    BY <1>2, <1>3, <1>4, <1>5, <1>6, <1>7, HoldsMoves DEF SyncInv, SyncTypeOK

\* The removal of old keys from the roles, and then of the keys.
LEMMA DropReplacedStep ==
    ASSUME SyncInv, NEW i \in Instances, DropGrants(i) \/ DropKeys(i)
    PROVE  SyncInv'
<1>1. /\ sync[i] \in SyncStates /\ sync[i].legacy \subseteq Legacy
      /\ sync[i].pc \in {"drop grants", "drop keys"} /\ \A r \in Groups : Replaced(r)
    BY DEF SyncInv, SyncTypeOK, DropGrants, DropKeys, SyncAt, InstanceOK, SyncStates
<1>2. PICK u \in SyncStates : sync' = [sync EXCEPT ![i] = u] /\ u.pc \in {"idle", "drop keys"}
    <2>1. /\ [sync[i] EXCEPT !.pc = "drop keys"] \in SyncStates
          /\ [sync[i] EXCEPT !.pc = "drop keys"].pc = "drop keys"
        BY <1>1 DEF SyncStates
    <2> QED
        BY <2>1, IdleSyncOK DEF DropGrants, DropKeys, SyncGoto
<1>3. /\ UNCHANGED << had, cutShort >> /\ holds' = [ r \in Holders |-> holds[r] \ sync[i].legacy ]
      /\ known' = known \/ known' = known \ sync[i].legacy
    BY DEF DropGrants, DropKeys
<1>4. /\ holds' \in [Holders -> SUBSET Keys] /\ known' \in SUBSET Keys
      /\ \A r \in Holders : holds[r] \ Legacy \subseteq holds'[r]
      /\ SplitKey \in known' => SplitKey \in known
    BY <1>1, <1>3 DEF SyncInv, SyncTypeOK
<1>5. ASSUME NEW r \in Groups PROVE HoldsOK(r)' /\ Replaced(r)'
    <2>1. HoldsOK(r) /\ Replaced(r) /\ OldHeld(r)' = OldHeld(r)
          /\ holds'[r] = holds[r] \ sync[i].legacy
        BY <1>1, <1>3 DEF SyncInv, Holders, OldHeld
    <2>2. \A k \in OldHeld(r) : Expands[k] \subseteq holds[r] /\ Expands[k] \cap Legacy = {}
        BY <2>1, KeysApart DEF Replaced, OldHeld
    <2>3. \A k \in OldHeld(r) : Expands[k] \subseteq holds'[r]
        BY <1>1, <2>1, <2>2
    <2>4. HoldsOK(r)'
        BY <1>1, <1>3, <2>1, <2>3 DEF HoldsOK
    <2> QED
        BY <2>1, <2>3, <2>4 DEF Replaced
<1>7. InstanceOK(u)'
    BY <1>2, <1>5 DEF InstanceOK
<1>8. ~WillSplit(i) /\ ~WillGrant(i)
    BY <1>1 DEF WillSplit, WillGrant, SyncAt
<1> QED
    BY <1>2, <1>3, <1>4, <1>5, <1>7, <1>8, HoldsMoves

LEMMA SyncStopsStep == ASSUME SyncInv, NEW i \in Instances, SyncStops(i) PROVE SyncInv'
<1>1. sync' = [sync EXCEPT ![i] = IdleSync] /\ UNCHANGED << known, holds, had >>
    BY DEF SyncStops
<1>2. cutShort' \in BOOLEAN /\ (cutShort \/ WillSplit(i) \/ WillGrant(i) => cutShort')
    BY DEF SyncStops, WillSplit, WillGrant, SyncAt, SyncInv, SyncTypeOK
<1>3. InstanceOK(IdleSync)
    BY IdleSyncOK DEF InstanceOK
<1>4. \A j \in Instances \ {i} : (WillSplit(j) => WillSplit(j)') /\ (WillGrant(j) => WillGrant(j)')
    BY <1>1 DEF WillSplit, WillGrant, SyncAt, SyncInv, SyncTypeOK
<1>5. SplitKey \in known' => SplitUnderWay'
    <2>1. CASE cutShort'
        BY <2>1 DEF SplitUnderWay
    <2>2. CASE ~cutShort'
        BY <1>1, <1>2, <1>4, <2>2, SplitGoesOn DEF SyncInv
    <2> QED
        BY <2>1, <2>2
<1> QED
    BY <1>1, <1>2, <1>3, <1>5, IdleSyncOK, SyncMoves DEF SyncInv, SyncTypeOK

LEMMA SeedKeyStep == ASSUME SyncInv, NEW k \in Catalog, SeedKey(k) PROVE SyncInv'
<1>1. known' = known \cup {k} /\ UNCHANGED << holds, sync, had >>
    BY DEF SeedKey
<1>2. cutShort' \in BOOLEAN /\ (cutShort \/ (k = SplitKey /\ SplitKey \notin known) => cutShort')
    BY DEF SeedKey, SyncInv, SyncTypeOK
<1>3. SyncTypeOK'
    BY <1>1, <1>2, KeysApart DEF SyncInv, SyncTypeOK
<1>4. ASSUME NEW r \in Groups PROVE HoldsOK(r)'
    BY <1>1 DEF SyncInv, HoldsOK, OldHeld, Equivalent, Replacement
<1>5. ASSUME NEW i \in Instances PROVE InstanceOK(sync[i])'
    <2>1. InstanceOK(sync[i])
        BY DEF SyncInv
    <2> QED
        BY <1>1, <2>1 DEF InstanceOK, OldHeld, SplitHeld, WithGrants, Replaced
<1>6. SplitKey \in known' => SplitUnderWay'
    <2>1. CASE SplitKey \in known
        <3>1. \A i \in Instances : (WillSplit(i) => WillSplit(i)') /\ (WillGrant(i) => WillGrant(i)')
            BY <1>1 DEF WillSplit, WillGrant, SyncAt
        <3> QED
            BY <1>1, <1>2, <2>1, <3>1, SplitGoesOn DEF SyncInv
    <2>2. CASE SplitKey \notin known
        BY <1>1, <1>2, <2>2 DEF SplitUnderWay
    <2> QED
        BY <2>1, <2>2
<1> QED
    BY <1>3, <1>4, <1>5, <1>6 DEF SyncInv

LEMMA SyncNextOK == SyncInv /\ [SyncNext]_syncVars => SyncInv'
<1> SUFFICES ASSUME SyncInv, [SyncNext]_syncVars PROVE SyncInv'
    OBVIOUS
<1>1. CASE UNCHANGED syncVars
    BY <1>1 DEF syncVars, SyncInv, SyncTypeOK, HoldsOK, OldHeld, Equivalent, Replacement, InstanceOK, Replaced,
                WithGrants, SplitHeld, SplitDone, SplitUnderWay, WillSplit, WillGrant, SyncAt
<1> QED
    BY <1>1, ReadKeysStep, CreateMissingStep, ReadHoldersStep, GrantTargetsStep, GrantSuperuserStep,
       DropReplacedStep, SyncStopsStep, SeedKeyStep DEF SyncNext

\* syncPermissionCatalog: however many instances start at once, wherever they stop and whenever a seed
\* run writes the catalog, when no instance is busy and nothing is left to do every role holds what
\* replaces its old keys, and no more than they amounted to; and all of that, and the superuser
\* everything, unless the split was cut short.
THEOREM MigrationKeepsAccess == SyncSpec => []AccessKept
<1>1. ASSUME SyncInv, Synchronised, NEW r \in Groups
      PROVE  Replacement(had[r]) \subseteq holds[r] /\ holds[r] \subseteq Equivalent(had[r])
    <2>1. HoldsOK(r) /\ holds[r] \cap Legacy = {}
        BY <1>1 DEF SyncInv, Synchronised, HoldsOK
    <2>2. holds[r] \subseteq Equivalent(had[r])
        BY <2>1 DEF HoldsOK, OldHeld
    <2>3. Replacement(had[r]) \subseteq holds[r]
        BY <2>1 DEF HoldsOK, OldHeld, Replacement
    <2> QED
        BY <2>2, <2>3
<1>2. ASSUME SyncInv, Synchronised, ~cutShort
      PROVE  /\ \A r \in Groups : Equivalent(had[r]) \subseteq holds[r]
             /\ Catalog \subseteq holds[Superuser]
    <2>1. /\ SplitKey \in known
          /\ \A i \in Instances : ~WillSplit(i) /\ ~WillGrant(i)
        BY <1>2, KeysApart DEF Synchronised, WillSplit, WillGrant, SyncAt
    <2>2. SplitDone /\ Catalog \subseteq holds[Superuser]
        BY <1>2, <2>1 DEF SyncInv, SplitUnderWay
    <2>3. ASSUME NEW r \in Groups PROVE Equivalent(had[r]) \subseteq holds[r]
        BY <1>1, <1>2, <2>2 DEF Equivalent, SplitDone, SplitHeld
    <2> QED
        BY <2>2, <2>3
<1>3. SyncInv => AccessKept
    BY <1>1, <1>2 DEF AccessKept
<1> QED
    BY <1>3, SyncInitOK, SyncNextOK, PTL DEF SyncSpec

-----------------------------------------------------------------------------
(* The services together, as the runs check them: one that runs leaves the  *)
(* rows of the others alone, so each behaves as its own specification says  *)
(* and what is proved of it holds of them together.                         *)

LEMMA AccountsBegin ==
    Init => /\ SessionsInit /\ LockoutInit /\ TwoFactorInit /\ StaffInit
            /\ SyncInit /\ ErasureInit /\ LinkInit
BY DEF Init

LEMMA AccountsStep ==
    [Next]_accountVars =>
        /\ [SessionsNext]_sessionVars /\ [LockoutNext]_lockoutVars /\ [TwoFactorNext]_twoFactorVars
        /\ [StaffNext]_staffVars /\ [SyncNext]_syncVars /\ [ErasureNext]_erasureVars /\ [LinkNext]_linkVars
<1> SUFFICES ASSUME [Next]_accountVars
             PROVE  /\ [SessionsNext]_sessionVars /\ [LockoutNext]_lockoutVars /\ [TwoFactorNext]_twoFactorVars
                    /\ [StaffNext]_staffVars /\ [SyncNext]_syncVars /\ [ErasureNext]_erasureVars
                    /\ [LinkNext]_linkVars
    OBVIOUS
<1>1. CASE InSessions
    BY <1>1 DEF InSessions
<1>2. CASE InLockout
    BY <1>2 DEF InLockout
<1>3. CASE InTwoFactor
    BY <1>3 DEF InTwoFactor
<1>4. CASE InStaff
    BY <1>4 DEF InStaff
<1>5. CASE InPermissions
    BY <1>5 DEF InPermissions
<1>6. CASE InErasure
    BY <1>6 DEF InErasure
<1>7. CASE InLinks
    BY <1>7 DEF InLinks
<1>8. CASE UNCHANGED accountVars
    BY <1>8 DEF accountVars
<1> QED
    BY <1>1, <1>2, <1>3, <1>4, <1>5, <1>6, <1>7, <1>8 DEF Next

\* In the composition of the services around accounts every service behaves as it does alone: no step of
\* one changes a row of another.
THEOREM AccountsCompose ==
    Spec => /\ SessionsSpec /\ LockoutSpec /\ TwoFactorSpec /\ StaffSpec
            /\ SyncSpec /\ ErasureSpec /\ LinkSpec
BY AccountsBegin, AccountsStep, PTL
   DEF Spec, SessionsSpec, LockoutSpec, TwoFactorSpec, StaffSpec, SyncSpec, ErasureSpec, LinkSpec

\* No time step of the authenticator is accepted twice by logins that do not overlap (verify), and the last
\* link mailed to verify an address works or has been used, whatever the other services do meanwhile.
THEOREM SecretsAreKept == Spec => []SecretsHold
<1>1. Spec => []NoStepTwice
    BY AccountsCompose, CodesWorkOnce
<1>2. Spec => []NewestLinkWorks
    BY AccountsCompose, VerificationIsEarned
<1>3. NoStepTwice /\ NewestLinkWorks => SecretsHold
    BY DEF SecretsHold
<1> QED
    BY <1>1, <1>2, <1>3, PTL

-----------------------------------------------------------------------------
(* The types of all of them.                                                *)

LEMMA IdleStaffTyped == IdleStaffCall \in StaffCallStates
BY DEF IdleStaffCall, StaffCallStates

StaffTyped == StaffTypeOK /\ \A c \in StaffCalls : staffCall[c].kind = "update" => staffCall[c].u \in Staff

\* A step of one call that leaves the accounts alone.
LEMMA StaffCallTyped ==
    ASSUME StaffTyped, NEW c \in StaffCalls, NEW r \in StaffCallStates, r.kind = "update" => r.u \in Staff,
           staffCall' = [staffCall EXCEPT ![c] = r], staff' \in [ Staff -> StaffRows ],
           roles' \in SUBSET Roles, editors' \in SUBSET Roles
    PROVE  StaffTyped'
BY DEF StaffTyped, StaffTypeOK

LEMMA UpdateWriteTyped ==
    ASSUME StaffTyped, NEW c \in StaffCalls, UpdateWrite(c)
    PROVE  staff' \in [ Staff -> StaffRows ]
<1> DEFINE r      == staffCall[c]
           role   == IF "role" \in r.sets THEN r.role ELSE staff[r.u].role
           active == IF "active" \in r.sets THEN r.active ELSE staff[r.u].active
<1>1. r \in StaffCallStates /\ r.u \in Staff /\ staff[r.u] \in StaffRows
    BY DEF StaffTyped, StaffTypeOK, UpdateWrite
<1>2. role \in Roles \cup {NoRole} /\ active \in BOOLEAN
    BY <1>1 DEF StaffRows, StaffCallStates
<1>3. staff' = [staff EXCEPT ![r.u] = [staff[r.u] EXCEPT !.role = role, !.active = active]]
    BY <1>1 DEF UpdateWrite, StaffTyped, StaffTypeOK
<1> HIDE DEF role, active
<1> QED
    BY <1>1, <1>2, <1>3 DEF StaffTyped, StaffTypeOK, StaffRows

LEMMA StaffNextTyped == StaffTyped /\ [StaffNext]_staffVars => StaffTyped'
<1> SUFFICES ASSUME StaffTyped, [StaffNext]_staffVars PROVE StaffTyped'
    OBVIOUS
<1>0. /\ staff \in [ Staff -> StaffRows ] /\ roles \in SUBSET Roles /\ editors \in SUBSET Roles
      /\ IdleStaffCall \in StaffCallStates /\ IdleStaffCall.kind = "none"
    BY IdleStaffTyped DEF StaffTyped, StaffTypeOK, IdleStaffCall
<1>1. ASSUME NEW c \in StaffCalls, NEW kind \in {"update", "delete role", "set permissions"}, NEW u \in Staff,
             NEW role \in Roles \cup {NoRole}, NEW active \in BOOLEAN, NEW sets \in SUBSET {"role", "active"},
             Enter(c, kind, u, role, active, sets)
      PROVE  StaffTyped'
    <2>1. PICK r \in StaffCallStates : staffCall' = [staffCall EXCEPT ![c] = r] /\ r.u \in Staff
        <3>1. [ kind |-> kind, u |-> u, role |-> role, active |-> active, sets |-> sets ] \in StaffCallStates
            BY DEF StaffCallStates
        <3> QED
            BY <1>1, <3>1 DEF Enter
    <2> QED
        BY <1>0, <1>1, <2>1, StaffCallTyped DEF Enter
<1>2. ASSUME NEW actor \in Staff, NEW u \in Staff,
             CreateAdminUser(actor, u) \/ \E role \in Roles : CreateUser(actor, u, role)
      PROVE  StaffTyped'
    <2>1. PICK role \in Roles \cup {NoRole} :
             /\ staff' = [staff EXCEPT ![u] = [ known |-> TRUE, admin |-> TRUE, role |-> role, active |-> TRUE ]]
             /\ UNCHANGED << roles, editors, staffCall >>
        BY <1>2 DEF CreateAdminUser, CreateUser
    <2> QED
        BY <2>1 DEF StaffTyped, StaffTypeOK, StaffRows
<1>3. ASSUME NEW actor \in Staff, NEW role \in Roles, NEW edit \in BOOLEAN, CreateRole(actor, role, edit)
      PROVE  StaffTyped'
    BY <1>3 DEF CreateRole, StaffTyped, StaffTypeOK
<1>4. ASSUME NEW c \in StaffCalls, UpdateWrite(c) PROVE StaffTyped'
    BY <1>0, <1>4, UpdateWriteTyped, StaffCallTyped DEF UpdateWrite, Leave
<1>5. ASSUME NEW c \in StaffCalls, DeleteRole(c) PROVE StaffTyped'
    <2>1. staff' \in [ Staff -> StaffRows ]
        <3>1. ASSUME NEW u \in Staff PROVE staff[u] \in StaffRows /\ [staff[u] EXCEPT !.role = NoRole] \in StaffRows
            BY <1>0 DEF StaffRows
        <3> QED
            BY <1>5, <3>1 DEF DeleteRole
    <2> QED
        BY <1>0, <1>5, <2>1, StaffCallTyped DEF DeleteRole, Leave
<1>6. ASSUME NEW c \in StaffCalls, SetPermissions(c) \/ Quit(c) PROVE StaffTyped'
    <2>1. editors' \in SUBSET Roles
        <3>1. CASE Quit(c)
            BY <1>0, <3>1 DEF Quit
        <3>2. ASSUME SetPermissions(c) PROVE editors' \in SUBSET Roles
            <4>1. PICK role \in roles : editors' = editors \cup {role} \/ editors' = editors \ {role}
                BY <3>2 DEF SetPermissions
            <4> QED
                BY <1>0, <4>1
        <3> QED
            BY <1>6, <3>1, <3>2
    <2> QED
        BY <1>0, <1>6, <2>1, StaffCallTyped DEF SetPermissions, Quit, Leave
<1>7. CASE UNCHANGED staffVars
    BY <1>7 DEF staffVars, StaffTyped, StaffTypeOK
<1>8. ASSUME NEW actor \in Staff, NEW c \in StaffCalls,
             \/ \E u \in Staff, role \in Roles \cup {NoRole}, active \in BOOLEAN,
                   sets \in SUBSET {"role", "active"} : UpdateRead(c, actor, u, role, active, sets)
             \/ \E role \in Roles : DeleteRoleRead(c, actor, role)
             \/ \E role \in Roles, edit \in BOOLEAN : PermissionsRead(c, actor, role, edit)
      PROVE  StaffTyped'
    BY <1>1, <1>8 DEF UpdateRead, DeleteRoleRead, PermissionsRead
<1> QED
    BY <1>2, <1>3, <1>4, <1>5, <1>6, <1>7, <1>8 DEF StaffNext

LEMMA SyncNextTyped == SyncTypeOK /\ [SyncNext]_syncVars => SyncTypeOK'
<1> SUFFICES ASSUME SyncTypeOK, [SyncNext]_syncVars PROVE SyncTypeOK'
    OBVIOUS
<1>0. /\ known \in SUBSET Keys /\ holds \in [ Holders -> SUBSET Keys ] /\ had \in [ Groups -> SUBSET Keys ]
      /\ sync \in [ Instances -> SyncStates ] /\ IdleSync \in SyncStates /\ Superuser \in Holders
      /\ cutShort \in BOOLEAN
    BY IdleSyncOK DEF SyncTypeOK, Holders
<1>1. ASSUME NEW i \in Instances, NEW u \in SyncStates, sync' = [sync EXCEPT ![i] = u],
             known' \in SUBSET Keys, holds' \in [ Holders -> SUBSET Keys ], had' = had, cutShort' \in BOOLEAN
      PROVE  SyncTypeOK'
    BY <1>0, <1>1 DEF SyncTypeOK
<1>2. ASSUME NEW i \in Instances, NEW pc \in {"holders", "grant", "superuser", "drop grants", "drop keys"},
             SyncGoto(i, pc), known' \in SUBSET Keys, holds' \in [ Holders -> SUBSET Keys ], had' = had, cutShort' \in BOOLEAN
      PROVE  SyncTypeOK'
    <2> DEFINE u == [sync[i] EXCEPT !.pc = pc]
    <2>1. u \in SyncStates
        BY <1>0 DEF SyncStates
    <2>2. sync' = [sync EXCEPT ![i] = u]
        BY <1>0, <1>2 DEF SyncGoto
    <2> QED
        BY <1>1, <1>2, <2>1, <2>2
<1>3. ASSUME NEW i \in Instances, ReadKeys(i) PROVE SyncTypeOK'
    <2> DEFINE u == [ pc |-> "create", legacy |-> known \cap Legacy, missing |-> Catalog \ known,
                      preSplit |-> SplitKey \notin known, grants |-> {} ]
    <2>1. u \in SyncStates
        BY DEF SyncStates
    <2> QED
        BY <1>0, <1>1, <1>3, <2>1 DEF ReadKeys
<1>4. ASSUME NEW i \in Instances, CreateMissing(i) PROVE SyncTypeOK'
    <2>1. known' \in SUBSET Keys
        BY <1>0, <1>4, KeysApart DEF CreateMissing, SyncStates
    <2> QED
        BY <1>0, <1>2, <1>4, <2>1 DEF CreateMissing
<1>5. ASSUME NEW i \in Instances, ReadHolders(i) PROVE SyncTypeOK'
    <2> DEFINE G == { g \in Groups \X Keys : \E key \in holds[g[1]] : g[2] \in Targets(i, key) }
               u == [sync[i] EXCEPT !.pc = "grant", !.grants = G]
    <2>1. u \in SyncStates
        <3>1. G \in SUBSET (Groups \X Keys)
            OBVIOUS
        <3> HIDE DEF G
        <3> QED
            BY <1>0, <3>1 DEF SyncStates
    <2>2. sync' = [sync EXCEPT ![i] = u]
        <3> HIDE DEF G
        <3>1. sync' = [sync EXCEPT ![i].pc = "grant", ![i].grants = G]
            BY <1>5 DEF ReadHolders, G
        <3> QED
            BY <1>0, <3>1
    <2> HIDE DEF G, u
    <2> QED
        BY <1>0, <1>1, <1>5, <2>1, <2>2 DEF ReadHolders
<1>6. ASSUME NEW i \in Instances, GrantTargets(i) PROVE SyncTypeOK'
    <2>1. holds' \in [ Holders -> SUBSET Keys ]
        BY <1>0, <1>6 DEF GrantTargets
    <2> QED
        BY <1>0, <1>2, <1>6, <2>1 DEF GrantTargets
<1>7. ASSUME NEW i \in Instances, GrantSuperuser(i) PROVE SyncTypeOK'
    <2>1. holds' \in [ Holders -> SUBSET Keys ]
        BY <1>0, <1>7, KeysApart DEF GrantSuperuser
    <2> QED
        BY <1>0, <1>1, <1>2, <1>7, <2>1 DEF GrantSuperuser
<1>8. ASSUME NEW i \in Instances, DropGrants(i) PROVE SyncTypeOK'
    <2>1. holds' \in [ Holders -> SUBSET Keys ]
        BY <1>0, <1>8 DEF DropGrants
    <2> QED
        BY <1>0, <1>2, <1>8, <2>1 DEF DropGrants
<1>9. ASSUME NEW i \in Instances, DropKeys(i) PROVE SyncTypeOK'
    <2>1. holds' \in [ Holders -> SUBSET Keys ] /\ known' \in SUBSET Keys
        BY <1>0, <1>9 DEF DropKeys
    <2> QED
        BY <1>0, <1>1, <1>9, <2>1 DEF DropKeys
<1>10. ASSUME NEW i \in Instances, SyncStops(i) PROVE SyncTypeOK'
    <2>1. cutShort' \in BOOLEAN
        BY <1>10 DEF SyncStops
    <2> QED
        BY <1>0, <1>1, <1>10, <2>1 DEF SyncStops
<1>11. ASSUME NEW k \in Catalog, SeedKey(k) PROVE SyncTypeOK'
    <2>1. cutShort' \in BOOLEAN
        BY <1>11 DEF SeedKey
    <2> QED
        BY <1>11, <2>1, KeysApart DEF SeedKey, SyncTypeOK
<1>12. CASE UNCHANGED syncVars
    BY <1>12 DEF syncVars, SyncTypeOK
<1> QED
    BY <1>3, <1>4, <1>5, <1>6, <1>7, <1>8, <1>9, <1>10, <1>11, <1>12 DEF SyncNext

\* Every row, call and history of the accounts stays in its set, for any number of tokens, attempts, accounts,
\* roles, instances, petitions and links; whatever of it overlaps, stops or is repeated.
THEOREM AccountsTyped == Spec => []TypeOK
<1>1. Spec => []SessionsTypeOK
    BY AccountsCompose, SessionsTypeSafety
<1>2. LockoutSpec => []LockoutTypeOK
    <2>1. LockInv => LockoutTypeOK
        BY DEF LockInv
    <2> QED
        BY <2>1, LockInit, LockNext, PTL DEF LockoutSpec
<1>3. TwoFactorSpec => []TwoFactorTypeOK
    <2>1. FactorInv => TwoFactorTypeOK
        BY DEF FactorInv
    <2> QED
        BY <2>1, AlwaysFactorInv, PTL
<1>4. StaffSpec => []StaffTypeOK
    <2>1. StaffInit => StaffTyped
        BY StaffAssumption, IdleStaffTyped
           DEF StaffInit, StaffTyped, StaffTypeOK, StaffRows, NoAccount, IdleStaffCall
    <2>2. StaffTyped => StaffTypeOK
        BY DEF StaffTyped
    <2> QED
        BY <2>1, <2>2, StaffNextTyped, PTL DEF StaffSpec
<1>5. SyncSpec => []SyncTypeOK
    <2>1. SyncInit => SyncTypeOK
        BY SyncInitOK DEF SyncInv
    <2> QED
        BY <2>1, SyncNextTyped, PTL DEF SyncSpec
<1>6. ErasureSpec => []ErasureTypeOK
    <2>1. ErasureInv => ErasureTypeOK
        BY DEF ErasureInv
    <2> QED
        BY <2>1, ErasureInitOK, ErasureStep, PTL DEF ErasureSpec
<1>7. LinkSpec => []LinkTypeOK
    <2>1. LinkInv => LinkTypeOK
        BY DEF LinkInv
    <2> QED
        BY <2>1, LinkInitOK, LinkNextOK, PTL DEF LinkSpec
<1>8. /\ SessionsTypeOK /\ LockoutTypeOK /\ TwoFactorTypeOK /\ StaffTypeOK /\ SyncTypeOK /\ ErasureTypeOK
      /\ LinkTypeOK
      => TypeOK
    BY DEF TypeOK
<1> QED
    BY <1>1, <1>2, <1>3, <1>4, <1>5, <1>6, <1>7, <1>8, AccountsCompose, PTL
=============================================================================
