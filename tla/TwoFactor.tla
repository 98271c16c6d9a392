------------------------------ MODULE TwoFactor ------------------------------
(***************************************************************************)
(* AuthService: switching two-factor authentication of one account on and   *)
(* off, its recovery codes, and the logins that use them.  A transaction's  *)
(* statements are steps; what it has written locks the rows and is seen by  *)
(* others after its commit.                                                 *)
(***************************************************************************)
EXTENDS Naturals

CONSTANTS
    Codes,      \* recovery codes; a set of ten is represented by one code
    NoCode,
    LastStep,   \* time steps of thirty seconds: 1 .. LastStep
    Changes     \* requests that may overlap

ASSUME TwoFactorAssumption == NoCode \notin Codes /\ LastStep \in Nat \ {0}

VARIABLES
    factor,   \* the two-factor columns of the User row
    code,     \* the TwoFactorRecoveryCode rows
    change,   \* the requests in progress
    now,      \* the current time step
    opened,   \* history: the time steps whose code opened a login, under this secret
    tangled   \* history: a login wrote to a row that had changed since it read it

twoFactorVars == << factor, code, change, now, opened, tangled >>

\* used: twoFactorLastUsedStep, 0 for null.
Factors == [ on : BOOLEAN, secret : BOOLEAN, used : 0 .. LastStep ]

FactorOff == [ on |-> FALSE, secret |-> FALSE, used |-> 0 ]

ChangeStates ==
    [ kind : {"none", "setup", "enable", "disable", "regenerate", "verify"},
      pc : {"idle", "user", "delete", "wait", "commit"},
      seen : 0 .. LastStep,           \* twoFactorLastUsedStep as it was read
      step : 0 .. LastStep,           \* the time step of the code presented
      k : Codes \cup {NoCode},        \* or the recovery code that matched
      snap : SUBSET Codes,            \* the rows that its DELETE saw
      deleted : SUBSET Codes, created : SUBSET Codes,
      wrote : BOOLEAN ]               \* it has updated the User row

IdleChange == [ kind |-> "none", pc |-> "idle", seen |-> 0, step |-> 0, k |-> NoCode,
                snap |-> {}, deleted |-> {}, created |-> {}, wrote |-> FALSE ]

TwoFactorTypeOK ==
    /\ factor \in Factors
    /\ code \in [Codes -> {"none", "unused", "used"}]
    /\ change \in [Changes -> ChangeStates]
    /\ now \in 1 .. LastStep
    /\ opened \in SUBSET (1 .. LastStep)
    /\ tangled \in BOOLEAN

TwoFactorInit ==
    /\ factor = FactorOff
    /\ code = [ k \in Codes |-> "none" ]
    /\ change = [ c \in Changes |-> IdleChange ]
    /\ now = 1 /\ opened = {} /\ tangled = FALSE

-----------------------------------------------------------------------------
At(c, pc)  == change[c].pc = pc
HasRow(k)  == code[k] # "none"

\* checkDelta with window 1, and the comparison with twoFactorLastUsedStep.
Accepted(s) == s \in now - 1 .. now + 1 /\ s > factor.used

UserFree(c) == \A d \in Changes \ {c} : ~change[d].wrote
CodeFree(c, k) == \A d \in Changes \ {c} : k \notin change[d].deleted

Begin(c, kind, pc, step, k) ==
    /\ At(c, "idle")
    /\ change' = [change EXCEPT ![c] = [IdleChange EXCEPT
                    !.kind = kind, !.pc = pc, !.seen = factor.used, !.step = step, !.k = k]]
    /\ UNCHANGED << factor, code, now, opened, tangled >>

Rollback(c) ==
    /\ ~At(c, "idle")
    /\ change' = [change EXCEPT ![c] = IdleChange]
    /\ UNCHANGED << factor, code, now, opened, tangled >>

-----------------------------------------------------------------------------
(* The reads and checks before the writes                                   *)

SetupRead(c) == ~factor.on /\ Begin(c, "setup", "user", 0, NoCode)

EnableRead(c, s) ==
    ~factor.on /\ factor.secret /\ Accepted(s) /\ Begin(c, "enable", "delete", s, NoCode)

\* A time step that is accepted here is not recorded, nor is the recovery code used up.
Confirmed(s, k) == (factor.secret /\ Accepted(s)) \/ (k # NoCode /\ code[k] = "unused")

DisableRead(c, s, k) ==
    factor.on /\ Confirmed(s, k) /\ Begin(c, "disable", "user", 0, NoCode)

RegenerateRead(c, s, k) ==
    factor.on /\ Confirmed(s, k) /\ Begin(c, "regenerate", "delete", 0, NoCode)

\* verifyTwoFactorLogin asks for a secret and does not look at twoFactorEnabledAt.
VerifyStep(c, s) == factor.secret /\ Accepted(s) /\ Begin(c, "verify", "user", s, NoCode)
VerifyCode(c, k) == code[k] = "unused" /\ Begin(c, "verify", "user", 0, k)

-----------------------------------------------------------------------------
(* The statements                                                           *)

\* UPDATE of the User row, by id.
UserUpdate(c) ==
    /\ At(c, "user") /\ UserFree(c)
    /\ LET next == IF change[c].kind = "disable" THEN "delete" ELSE "commit" IN
       change' = [change EXCEPT ![c].pc = next, ![c].wrote = TRUE]
    /\ UNCHANGED << factor, code, now, opened, tangled >>

\* deleteMany sees the committed rows, and waits for those that others have locked.
DeleteBegin(c) ==
    /\ At(c, "delete")
    /\ change' = [change EXCEPT ![c].pc = "wait", ![c].snap = { k \in Codes : HasRow(k) }]
    /\ UNCHANGED << factor, code, now, opened, tangled >>

\* Codes that no row and no request holds.
Unissued == { k \in Codes : ~HasRow(k) /\ \A d \in Changes :
                 change[d].k # k /\ k \notin change[d].snap \cup change[d].created }

\* Mutant: the codes are created before the old ones are deleted.
CreateFirst(c) ==
    /\ At(c, "wait") /\ \A k \in change[c].snap : CodeFree(c, k)
    /\ \E new \in IF change[c].kind = "disable" THEN {{}} ELSE { {k} : k \in Unissued } :
        change' = [change EXCEPT ![c].pc = IF change[c].kind = "enable" THEN "user" ELSE "commit",
                     ![c].deleted = { k \in change[c].snap : HasRow(k) } \cup new,
                     ![c].created = new]
    /\ UNCHANGED << factor, code, now, opened, tangled >>

\* The rows that are left of them are deleted; createMany follows.
DeleteAndCreate(c) ==
    /\ At(c, "wait") /\ \A k \in change[c].snap : CodeFree(c, k)
    /\ \E new \in IF change[c].kind = "disable" THEN {{}} ELSE { {k} : k \in Unissued } :
        change' = [change EXCEPT ![c].pc = IF change[c].kind = "enable" THEN "user" ELSE "commit",
                     ![c].deleted = { k \in change[c].snap : HasRow(k) },
                     ![c].created = new]
    /\ UNCHANGED << factor, code, now, opened, tangled >>

\* Mutant: a login forgets to record the time step.
StepForgotten(c) ==
    LET r == change[c] IN
    CASE r.kind = "setup"   -> [factor EXCEPT !.secret = TRUE]
      [] r.kind = "enable"  -> [factor EXCEPT !.on = TRUE, !.used = r.step]
      [] r.kind = "disable" -> FactorOff
      [] OTHER              -> factor

\* The User row as the transaction leaves it.
FactorAfter(c) ==
    LET r == change[c] IN
    CASE r.kind = "setup"                  -> [factor EXCEPT !.secret = TRUE]
      [] r.kind = "enable"                 -> [factor EXCEPT !.on = TRUE, !.used = r.step]
      [] r.kind = "disable"                -> FactorOff
      [] r.kind = "verify" /\ r.k = NoCode -> [factor EXCEPT !.used = r.step]
      [] OTHER                             -> factor

\* The update of a recovery code is by id: it fails if the row is gone.
Commit(c) ==
    LET r == change[c] IN
    /\ At(c, "commit")
    /\ r.kind = "verify" /\ r.k # NoCode => HasRow(r.k) /\ CodeFree(c, r.k)
    /\ factor' = FactorAfter(c)
    /\ code' = [ k \in Codes |->
                   IF k \in r.deleted THEN "none"
                   ELSE IF k \in r.created THEN "unused"
                   ELSE IF k = r.k THEN "used" ELSE code[k] ]
    /\ opened' = IF r.kind \in {"setup", "disable"} THEN {}
                 ELSE IF r.step = 0 THEN opened ELSE opened \cup {r.step}
    /\ tangled' = (tangled \/ (r.kind \in {"enable", "verify"} /\ r.seen # factor.used))
    /\ change' = [change EXCEPT ![c] = IdleChange]
    /\ UNCHANGED now

Tick ==
    /\ now < LastStep - 1 /\ now' = now + 1
    /\ UNCHANGED << factor, code, change, opened, tangled >>

TwoFactorNext ==
    \/ \E c \in Changes :
        \/ SetupRead(c) \/ UserUpdate(c) \/ DeleteBegin(c) \/ DeleteAndCreate(c)
        \/ Commit(c) \/ Rollback(c)
        \/ \E s \in 1 .. LastStep :
            \/ EnableRead(c, s) \/ VerifyStep(c, s)
            \/ \E k \in Codes \cup {NoCode} : DisableRead(c, s, k) \/ RegenerateRead(c, s, k)
        \/ \E k \in Codes : VerifyCode(c, k)
    \/ Tick

TwoFactorSpec == TwoFactorInit /\ [][TwoFactorNext]_twoFactorVars

-----------------------------------------------------------------------------
\* Whatever enabling, disabling and regenerating overlap, an account with two-factor
\* authentication on has the recovery codes of one of them: nobody is left without.
EnabledHasCodes == factor.on => \E k \in Codes : HasRow(k)

\* No code of a time step can open a second login: the last step that is recorded is not
\* behind any that did, except after logins that overlapped.
NoStepTwice == ~tangled => \A s \in opened : s <= factor.used
=============================================================================
