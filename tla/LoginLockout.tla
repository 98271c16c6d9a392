---------------------------- MODULE LoginLockout ----------------------------
(***************************************************************************)
(* AuthService: the lockout of one account by refused passwords and codes.  *)
(* An attempt reads the User row, compares, and writes the counter that it  *)
(* read, increased; the two-factor token of a correct password brings the   *)
(* attempt back with a code.                                                *)
(***************************************************************************)
EXTENDS Naturals

CONSTANTS
    Attempts,      \* logins that may overlap
    LockThreshold  \* ACCOUNT_LOCKOUT_THRESHOLD

ASSUME LockoutAssumption == LockThreshold \in Nat \ {0}

VARIABLES
    counter,  \* failedLoginAttempts and lockedUntil
    attempt,  \* the logins in progress
    refused,  \* history: refusals since the counter was cleared
    mixed     \* history: a refusal since then was counted from a stale row

lockoutVars == << counter, attempt, refused, mixed >>

\* over: lockedUntil is set and has passed.
Counters == [ fails : 0 .. LockThreshold - 1, lock : {"off", "on", "over"} ]

Cleared == [ fails |-> 0, lock |-> "off" ]

AttemptStates == [ pc : {"idle", "password", "pending", "code"},
                   right : BOOLEAN,   \* the comparison succeeds
                   seen : Counters ]  \* the row as it was read

LockoutTypeOK ==
    /\ counter \in Counters
    /\ attempt \in [Attempts -> AttemptStates]
    /\ refused \in 0 .. LockThreshold
    /\ mixed \in BOOLEAN

IdleAttempt == [ pc |-> "idle", right |-> FALSE, seen |-> Cleared ]

LockoutInit ==
    /\ counter = Cleared
    /\ attempt = [ a \in Attempts |-> IdleAttempt ]
    /\ refused = 0 /\ mixed = FALSE

-----------------------------------------------------------------------------
\* login, and verifyTwoFactorLogin with the token of a correct password: the row is read
\* and the lock checked, then bcrypt or the code is compared.
Read(a, from, to, right) ==
    /\ attempt[a].pc = from /\ counter.lock # "on"
    /\ attempt' = [attempt EXCEPT ![a] = [ pc |-> to, right |-> right, seen |-> counter ]]
    /\ UNCHANGED << counter, refused, mixed >>

\* Mutant: the lock does not set the counter back.
MissAfter(seen) ==
    IF seen.fails + 1 >= LockThreshold
    THEN [ fails |-> LockThreshold - 1, lock |-> "on" ]
    ELSE [counter EXCEPT !.fails = seen.fails + 1]

\* Mutant: the account is locked one refusal later.
MissLate(seen) ==
    IF seen.fails >= LockThreshold THEN [ fails |-> 0, lock |-> "on" ]
    ELSE [counter EXCEPT !.fails = seen.fails + 1]

\* The row after a refusal, from the row that was read.
Miss(seen) ==
    IF seen.fails + 1 >= LockThreshold THEN [ fails |-> 0, lock |-> "on" ]
    ELSE [counter EXCEPT !.fails = seen.fails + 1]

\* A two-factor token may be tried again.
Wrong(a) ==
    /\ attempt[a].pc \in {"password", "code"} /\ ~attempt[a].right
    /\ counter' = Miss(attempt[a].seen)
    /\ attempt' = [attempt EXCEPT ![a] = IF attempt[a].pc = "password" THEN IdleAttempt
                                         ELSE [IdleAttempt EXCEPT !.pc = "pending"]]
    /\ refused' = IF refused < LockThreshold THEN refused + 1 ELSE refused
    /\ mixed' = (mixed \/ attempt[a].seen # counter)

\* A password that is right writes only if there was something to clear; then the tokens
\* are issued, or the second factor is asked for.
RightPassword(a) ==
    /\ attempt[a].pc = "password" /\ attempt[a].right
    /\ \E pc \in {"idle", "pending"} : attempt' = [attempt EXCEPT ![a] = [IdleAttempt EXCEPT !.pc = pc]]
    /\ IF attempt[a].seen # Cleared
       THEN counter' = Cleared /\ refused' = 0 /\ mixed' = FALSE
       ELSE UNCHANGED << counter, refused, mixed >>

RightCode(a) ==
    /\ attempt[a].pc = "code" /\ attempt[a].right
    /\ attempt' = [attempt EXCEPT ![a] = IdleAttempt]
    /\ counter' = Cleared /\ refused' = 0 /\ mixed' = FALSE

\* The two-factor token expires, the client leaves, or the process stops.
GiveUp(a) ==
    /\ attempt[a].pc # "idle"
    /\ attempt' = [attempt EXCEPT ![a] = IdleAttempt]
    /\ UNCHANGED << counter, refused, mixed >>

\* lockedUntil passes: fifteen minutes, longer than any comparison that began before.
LockEnds ==
    /\ counter.lock = "on" /\ \A a \in Attempts : attempt[a].pc \in {"idle", "pending"}
    /\ counter' = [counter EXCEPT !.lock = "over"]
    /\ refused' = IF mixed THEN refused ELSE 0
    /\ UNCHANGED << attempt, mixed >>

LockoutNext ==
    \/ \E a \in Attempts :
        \/ \E right \in BOOLEAN : Read(a, "idle", "password", right) \/ Read(a, "pending", "code", right)
        \/ Wrong(a) \/ RightPassword(a) \/ RightCode(a) \/ GiveUp(a)
    \/ LockEnds

LockoutSpec == LockoutInit /\ [][LockoutNext]_lockoutVars

-----------------------------------------------------------------------------
\* The counter is exact and the account is locked at the threshold, neither sooner nor later,
\* over any sequence of passwords, codes, successes and locks; except after two refusals
\* overlapped, when one of them may be lost.
RefusalsAreCounted ==
    ~mixed => refused = IF counter.lock = "on" THEN LockThreshold ELSE counter.fails
=============================================================================
