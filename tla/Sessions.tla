------------------------------ MODULE Sessions ------------------------------
(***************************************************************************)
(* AuthService: the password and the refresh tokens of one account, under   *)
(* overlapping requests.                                                    *)
(*                                                                          *)
(* A session is the chain of refresh tokens that one login opened; it is    *)
(* named by its first token.  A purge is the statement that revokes or      *)
(* deletes every token of the account: it touches the rows that it saw when *)
(* it began, and waits for the rows that open rotations have locked.        *)
(***************************************************************************)
CONSTANTS
    Tokens,        \* refresh tokens; each one is issued at most once
    NoToken,
    Passwords,
    Requests       \* requests about the account that may overlap

ASSUME SessionsAssumption == NoToken \notin Tokens /\ Passwords # {}

VARIABLES
    account,   \* the User row
    token,     \* the RefreshToken rows
    request,   \* the requests in progress
    condemned  \* history: the sessions that a finished purge has covered

sessionVars == << account, token, request, condemned >>

\* reset: an unexpired passwordResetToken is stored.
Accounts == [ pw : Passwords, reset : BOOLEAN, blocked : BOOLEAN ]

\* spent: rotated or logged out by its holder; revoked: by a purge; gone: deleted.
\* raced: its login or rotation overlapped the last purge of its session.
TokenRows == [ state : {"none", "live", "spent", "revoked", "gone"},
               root : Tokens \cup {NoToken}, pw : Passwords, raced : BOOLEAN ]

SessionRequests ==
    [ pc : {"idle", "issue", "rotate", "rotated", "purge", "purging"},
      kind : {"none", "login", "refresh", "change", "reset", "reuse", "block"},
      t : Tokens \cup {NoToken},  \* the token presented
      pw : Passwords,             \* the password that was right, or the new one
      snap : SUBSET Tokens,       \* the rows that the purge saw
      raced : BOOLEAN ]

SessionsTypeOK ==
    /\ account \in Accounts
    /\ token \in [Tokens -> TokenRows]
    /\ request \in [Requests -> SessionRequests]
    /\ condemned \in SUBSET Tokens

Request(pc, kind, t, pw) ==
    [ pc |-> pc, kind |-> kind, t |-> t, pw |-> pw, snap |-> {}, raced |-> FALSE ]

AnyPassword == CHOOSE p \in Passwords : TRUE
IdleRequest == Request("idle", "none", NoToken, AnyPassword)

\* register: a new account.  Its first pair is issued like that of a login.
SessionsInit ==
    /\ account = [ pw |-> AnyPassword, reset |-> FALSE, blocked |-> FALSE ]
    /\ token = [ t \in Tokens |-> [ state |-> "none", root |-> NoToken,
                                    pw |-> AnyPassword, raced |-> FALSE ] ]
    /\ request = [ c \in Requests |-> IdleRequest ]
    /\ condemned = {}

-----------------------------------------------------------------------------
Live(t)   == token[t].state = "live"
In(c, pc) == request[c].pc = pc

\* The row of a token that no longer works; the history of its session goes with it.
Ended(t, state) == [ state |-> state, root |-> token[t].root, pw |-> AnyPassword, raced |-> FALSE ]

Purging == \E d \in Requests : In(d, "purging")

\* No open rotation has locked the row of t.
TokenFree(t) == \A d \in Requests : In(d, "rotated") => request[d].t # t

SetsPassword(c) == request[c].kind \in {"change", "reset"}

\* No open change of password has locked the User row.
AccountFree ==
    \A d \in Requests : In(d, "purging") => ~SetsPassword(d)

Done(c)     == request' = [request EXCEPT ![c] = IdleRequest]
Open(c, r)  == In(c, "idle") /\ request' = [request EXCEPT ![c] = r]

\* A refusal, an exception or a stopped process; an open transaction rolls back.
Drop(c) ==
    /\ ~In(c, "idle") /\ Done(c)
    /\ UNCHANGED << account, token, condemned >>

-----------------------------------------------------------------------------
(* login and verifyTwoFactorLogin                                           *)

\* The row is read; bcrypt and, for five minutes, the second factor follow.
LoginRead(c, pw) ==
    /\ ~account.blocked /\ pw = account.pw
    /\ Open(c, [Request("issue", "login", NoToken, pw) EXCEPT !.raced = Purging])
    /\ UNCHANGED << account, token, condemned >>

\* issueTokenPair
Issue(c) ==
    /\ In(c, "issue")
    /\ \E n \in Tokens :
        /\ token[n].state = "none"
        /\ token' = [token EXCEPT ![n] = [ state |-> "live", root |-> n,
                        pw |-> request[c].pw, raced |-> request[c].raced ]]
    /\ Done(c)
    /\ UNCHANGED << account, condemned >>

-----------------------------------------------------------------------------
(* refresh and logout                                                       *)

\* A token that is not live is taken for a stolen one: everything is revoked.
RefreshRead(c, t) ==
    /\ token[t].state \in {"live", "spent", "revoked"} /\ ~account.blocked
    /\ Open(c, IF Live(t) THEN Request("rotate", "refresh", t, AnyPassword)
                          ELSE Request("purge", "reuse", t, AnyPassword))
    /\ UNCHANGED << account, token, condemned >>

\* Mutant: the update is by id, without revokedAt: null.
RotateUnchecked(c) ==
    /\ In(c, "rotate") /\ TokenFree(request[c].t)
    /\ request' = [request EXCEPT ![c].pc = "rotated", ![c].raced = Purging]
    /\ UNCHANGED << account, token, condemned >>

\* updateMany where revokedAt is null, then the new row, in a transaction.
Rotate(c) ==
    /\ In(c, "rotate") /\ TokenFree(request[c].t)
    /\ request' = [request EXCEPT ![c] =
                     IF Live(request[c].t)
                     THEN [request[c] EXCEPT !.pc = "rotated", !.raced = Purging]
                     ELSE [request[c] EXCEPT !.pc = "purge", !.kind = "reuse"]]
    /\ UNCHANGED << account, token, condemned >>

\* COMMIT of the rotation.
RotateCommit(c) ==
    LET t == request[c].t IN
    /\ In(c, "rotated")
    /\ \E n \in Tokens :
        /\ token[n].state = "none"
        /\ token' = [token EXCEPT ![t] = Ended(t, "spent"),
                       ![n] = [token[t] EXCEPT !.state = "live",
                                 !.raced = token[t].raced \/ request[c].raced]]
    /\ Done(c)
    /\ UNCHANGED << account, condemned >>

Logout(t) ==
    /\ Live(t) /\ TokenFree(t)
    /\ token' = [token EXCEPT ![t] = Ended(t, "spent")]
    /\ UNCHANGED << account, request, condemned >>

-----------------------------------------------------------------------------
(* changePassword, forgotPassword and resetPassword                         *)

\* changePassword has compared the current password; the new one is hashed.
ChangeRead(c, new) ==
    /\ Open(c, Request("purge", "change", NoToken, new))
    /\ UNCHANGED << account, token, condemned >>

ResetRead(c, new) ==
    /\ account.reset
    /\ Open(c, Request("purge", "reset", NoToken, new))
    /\ UNCHANGED << account, token, condemned >>

Forgot ==
    /\ AccountFree /\ account' = [account EXCEPT !.reset = TRUE]
    /\ UNCHANGED << token, request, condemned >>

\* passwordResetExpiresAt passes.
ResetLapse ==
    /\ account.reset /\ account' = [account EXCEPT !.reset = FALSE]
    /\ UNCHANGED << token, request, condemned >>

-----------------------------------------------------------------------------
(* blockCustomer and unblockCustomer                                        *)

Block(c) ==
    /\ AccountFree /\ account' = [account EXCEPT !.blocked = TRUE]
    /\ Open(c, Request("purge", "block", NoToken, AnyPassword))
    /\ UNCHANGED << token, condemned >>

Unblock ==
    /\ AccountFree /\ account' = [account EXCEPT !.blocked = FALSE]
    /\ UNCHANGED << token, request, condemned >>

-----------------------------------------------------------------------------
(* The purge of changePassword, resetPassword, blockCustomer and a reuse    *)

Stored(t) == token[t].state \in {"live", "spent", "revoked"}

\* Mutant: a change of password revokes nothing.
PurgeSeesNone(c) ==
    { t \in Tokens : CASE request[c].kind = "block"  -> Stored(t)
                       [] request[c].kind = "change" -> FALSE
                       [] OTHER                      -> Live(t) }

PurgeSees(c) == { t \in Tokens : IF request[c].kind = "block" THEN Stored(t) ELSE Live(t) }

\* A change of password updates the User row, by id; then the purge takes its snapshot.
PurgeBegin(c) ==
    /\ In(c, "purge") /\ (SetsPassword(c) => AccountFree)
    /\ request' = [ d \in Requests |->
            IF d = c THEN [request[c] EXCEPT !.pc = "purging", !.snap = PurgeSees(c)]
            ELSE IF In(d, "issue") \/ In(d, "rotated")
            THEN [request[d] EXCEPT !.raced = TRUE] ELSE request[d] ]
    /\ UNCHANGED << account, token, condemned >>

\* The token as the purge leaves it.
Purged(c, t) ==
    IF t \notin request[c].snap THEN token[t]
    ELSE IF request[c].kind = "block" THEN Ended(t, "gone")
    ELSE IF Live(t) THEN Ended(t, "revoked") ELSE token[t]

\* The statement ends; with it a change of password commits.
PurgeEnd(c) ==
    LET r == request[c] IN
    /\ In(c, "purging") /\ \A t \in r.snap : TokenFree(t)
    /\ token' = [ t \in Tokens |-> Purged(c, t) ]
    /\ condemned' = condemned \cup { token[t].root : t \in r.snap }
    /\ account' = IF SetsPassword(c)
                  THEN [account EXCEPT !.pw = r.pw, !.reset = @ /\ r.kind = "change"]
                  ELSE account
    /\ Done(c)

-----------------------------------------------------------------------------
SessionsNext ==
    \/ \E c \in Requests :
        \/ \E pw \in Passwords : LoginRead(c, pw) \/ ResetRead(c, pw) \/ ChangeRead(c, pw)
        \/ Issue(c) \/ Rotate(c) \/ RotateCommit(c)
        \/ Block(c) \/ PurgeBegin(c) \/ PurgeEnd(c) \/ Drop(c)
        \/ \E t \in Tokens : RefreshRead(c, t)
    \/ \E t \in Tokens : Logout(t)
    \/ Forgot \/ ResetLapse \/ Unblock

SessionsSpec == SessionsInit /\ [][SessionsNext]_sessionVars

-----------------------------------------------------------------------------
\* refresh: "a refresh token is only ever valid for a single rotation".  However many
\* requests present it at once, a session never has two tokens that work.
OneLiveTokenPerSession ==
    \A t, u \in Tokens : Live(t) /\ Live(u) /\ token[t].root = token[u].root => t = u

\* A session that was covered by a purge is over, and every session knows the password of
\* the account; except the ones whose login or rotation was under way at that moment.
PurgedStayOut ==
    \A t \in Tokens : Live(t) /\ ~token[t].raced =>
        token[t].root \notin condemned /\ token[t].pw = account.pw
=============================================================================
