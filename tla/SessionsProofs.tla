--------------------------- MODULE SessionsProofs ---------------------------
(***************************************************************************)
(* Sessions for any number of tokens, passwords and overlapping requests.   *)
(* A rotation owns the row of its token from its guarded update to its      *)
(* commit, so that the chain of a session never forks.  A purge misses only *)
(* what committed after its snapshot, and whoever could do that is marked.  *)
(***************************************************************************)
EXTENDS Sessions, TLAPS

Known(t) == token[t].state # "none"

\* A token belongs to a session that was opened.
RootsKnown == \A t \in Tokens : Known(t) => token[t].root \in Tokens /\ Known(token[t].root)

\* What requests hold: a purge has seen rows that exist, a rotation has a token that works
\* and that no other rotation has.
RequestOK(c) ==
    /\ In(c, "rotate") \/ In(c, "rotated") => request[c].t \in Tokens
    /\ In(c, "rotated") => Live(request[c].t)
    /\ \A t \in request[c].snap : Known(t)

Apart == \A c, d \in Requests :
    In(c, "rotated") /\ In(d, "rotated") /\ request[c].t = request[d].t => c = d

ChainInv ==
    /\ SessionsTypeOK
    /\ RootsKnown
    /\ \A c \in Requests : RequestOK(c)
    /\ Apart
    /\ OneLiveTokenPerSession

\* Whoever may add a token while a purge runs is marked, and what is live and not marked is
\* in its snapshot.
SeenOrRaced ==
    \A c \in Requests : In(c, "purging") =>
        /\ \A d \in Requests : In(d, "issue") \/ In(d, "rotated") => request[d].raced
        /\ \A t \in Tokens : Live(t) /\ ~token[t].raced => t \in request[c].snap

\* A login that is not marked has compared with the password of the account.
LoginsCurrent == \A c \in Requests : In(c, "issue") /\ ~request[c].raced => request[c].pw = account.pw

PurgeInv ==
    /\ \A t \in condemned : Known(t)
    /\ SeenOrRaced
    /\ LoginsCurrent
    /\ PurgedStayOut

-----------------------------------------------------------------------------
(* Types                                                                    *)

LEMMA PasswordExists == AnyPassword \in Passwords
BY SessionsAssumption DEF AnyPassword

LEMMA RequestTyped ==
    ASSUME NEW pc \in {"idle", "issue", "rotate", "rotated", "purge", "purging"},
           NEW kind \in {"none", "login", "refresh", "change", "reset", "reuse", "block"},
           NEW t \in Tokens \cup {NoToken}, NEW pw \in Passwords
    PROVE  Request(pc, kind, t, pw) \in SessionRequests
BY DEF Request, SessionRequests

LEMMA IdleTyped == IdleRequest \in SessionRequests
BY RequestTyped, PasswordExists DEF IdleRequest

LEMMA EndedTyped ==
    ASSUME SessionsTypeOK, NEW t \in Tokens, NEW state \in {"spent", "revoked", "gone"}
    PROVE  /\ Ended(t, state) \in TokenRows
           /\ Ended(t, state).state = state /\ Ended(t, state).root = token[t].root
BY PasswordExists DEF Ended, TokenRows, SessionsTypeOK

LEMMA InitChain == SessionsInit => ChainInv /\ PurgeInv
<1> SUFFICES ASSUME SessionsInit PROVE ChainInv /\ PurgeInv
    OBVIOUS
<1>1. SessionsTypeOK
    BY PasswordExists, IdleTyped DEF SessionsInit, SessionsTypeOK, Accounts, TokenRows
<1>2. \A c \in Requests : request[c].pc = "idle" /\ request[c].snap = {}
    BY DEF SessionsInit, IdleRequest, Request
<1>3. \A t \in Tokens : token[t].state = "none"
    BY DEF SessionsInit
<1> QED
    BY <1>1, <1>2, <1>3 DEF ChainInv, RootsKnown, RequestOK, Apart, OneLiveTokenPerSession, Known,
       Live, In, PurgeInv, SeenOrRaced, LoginsCurrent, PurgedStayOut, SessionsInit

-----------------------------------------------------------------------------
(* Steps that leave the tokens alone                                        *)

\* A request begins, is dropped, or finds that its token was spent.
LEMMA RequestStep ==
    ASSUME ChainInv, PurgeInv, NEW c \in Requests, NEW r \in SessionRequests,
           r.pc \in {"idle", "issue", "rotate", "purge"},
           r.pc = "rotate" => r.t \in Tokens,
           r.pc = "issue" => (r.raced \/ ~Purging) /\ r.pw = account.pw,
           \A t \in r.snap : Known(t),
           request' = [request EXCEPT ![c] = r],
           account' \in Accounts, account'.pw = account.pw,
           UNCHANGED << token, condemned >>
    PROVE  ChainInv' /\ PurgeInv'
<1>1. request'[c] = r /\ \A d \in Requests \ {c} : request'[d] = request[d]
    BY DEF ChainInv, SessionsTypeOK
<1>2. SessionsTypeOK'
    BY DEF ChainInv, SessionsTypeOK
<1>3. \A d \in Requests : RequestOK(d)'
    BY <1>1 DEF ChainInv, RequestOK, In, Known, Live
<1>4. Apart'
    BY <1>1 DEF ChainInv, Apart, In
<1>5. RootsKnown' /\ OneLiveTokenPerSession'
    BY DEF ChainInv, RootsKnown, Known, OneLiveTokenPerSession, Live
<1>6. SeenOrRaced'
    BY <1>1 DEF PurgeInv, SeenOrRaced, In, Live, Purging
<1>7. LoginsCurrent' /\ PurgedStayOut' /\ (\A t \in condemned : Known(t))'
    BY <1>1 DEF PurgeInv, LoginsCurrent, PurgedStayOut, In, Live, Known
<1> QED
    BY <1>2, <1>3, <1>4, <1>5, <1>6, <1>7 DEF ChainInv, PurgeInv

\* forgotPassword, the end of a reset token, unblockCustomer.
LEMMA AccountStep ==
    ASSUME ChainInv, PurgeInv, account' \in Accounts, account'.pw = account.pw,
           UNCHANGED << token, request, condemned >>
    PROVE  ChainInv' /\ PurgeInv'
<1>1. ChainInv'
    BY DEF ChainInv, SessionsTypeOK, RootsKnown, RequestOK, Apart, OneLiveTokenPerSession, In, Live, Known
<1>2. PurgeInv'
    BY DEF PurgeInv, SeenOrRaced, LoginsCurrent, PurgedStayOut, In, Live, Known
<1> QED
    BY <1>1, <1>2

\* The guarded update of refresh takes the row lock.
LEMMA RotateStep ==
    ASSUME ChainInv, PurgeInv, NEW c \in Requests, Rotate(c)
    PROVE  ChainInv' /\ PurgeInv'
<1> DEFINE r == request[c]
           taken == [r EXCEPT !.pc = "rotated", !.raced = Purging]
           stale == [r EXCEPT !.pc = "purge", !.kind = "reuse"]
<1>1. r \in SessionRequests /\ r.pc = "rotate" /\ r.t \in Tokens /\ \A t \in r.snap : Known(t)
    BY DEF Rotate, In, ChainInv, SessionsTypeOK, RequestOK
<1>2. CASE ~Live(r.t)
    <2>1. stale \in SessionRequests /\ stale.pc = "purge" /\ stale.snap = r.snap
        BY <1>1 DEF SessionRequests
    <2>2. request' = [request EXCEPT ![c] = stale] /\ UNCHANGED << account, token, condemned >>
        BY <1>2 DEF Rotate
    <2>3. account' \in Accounts /\ account'.pw = account.pw
        BY <2>2 DEF ChainInv, SessionsTypeOK
    <2> HIDE DEF stale
    <2> QED
        BY <1>1, <2>1, <2>2, <2>3, RequestStep
<1>3. CASE Live(r.t)
    <2>1. taken \in SessionRequests /\ taken.pc = "rotated" /\ taken.snap = r.snap /\ taken.t = r.t
          /\ taken.raced = Purging
        <3>1. Purging \in BOOLEAN
            BY DEF Purging
        <3> HIDE DEF Purging
        <3> QED
            BY <1>1, <3>1 DEF SessionRequests
    <2>2. request' = [request EXCEPT ![c] = taken] /\ UNCHANGED << account, token, condemned >>
        BY <1>3 DEF Rotate
    <2> HIDE DEF taken
    <2>3. request'[c] = taken /\ \A d \in Requests \ {c} : request'[d] = request[d]
        BY <2>2 DEF ChainInv, SessionsTypeOK
    <2>4. SessionsTypeOK'
        BY <2>1, <2>2 DEF ChainInv, SessionsTypeOK
    <2>5. \A d \in Requests : RequestOK(d)'
        BY <1>1, <1>3, <2>1, <2>2, <2>3 DEF ChainInv, RequestOK, In, Known, Live
    <2>6. Apart'
        <3>1. \A d \in Requests : In(d, "rotated") => request[d].t # r.t
            BY DEF Rotate, TokenFree
        <3> QED
            BY <2>1, <2>3, <3>1 DEF ChainInv, Apart, In
    <2>7. RootsKnown' /\ OneLiveTokenPerSession'
        BY <2>2 DEF ChainInv, RootsKnown, Known, OneLiveTokenPerSession, Live
    <2>8. SeenOrRaced'
        <3>1. \A d \in Requests : In(d, "purging")' => d # c /\ In(d, "purging")
            BY <2>1, <2>3 DEF In
        <3>2. (\E d \in Requests : In(d, "purging")) => taken.raced
            BY <2>1 DEF Purging
        <3> QED
            BY <2>1, <2>2, <2>3, <3>1, <3>2 DEF PurgeInv, SeenOrRaced, In, Live
    <2>9. LoginsCurrent' /\ PurgedStayOut' /\ (\A t \in condemned : Known(t))'
        BY <2>1, <2>2, <2>3 DEF PurgeInv, LoginsCurrent, PurgedStayOut, In, Live, Known
    <2> QED
        BY <2>4, <2>5, <2>6, <2>7, <2>8, <2>9 DEF ChainInv, PurgeInv
<1> QED
    BY <1>2, <1>3

-----------------------------------------------------------------------------
(* Steps that add, end or revoke tokens                                     *)

\* issueTokenPair of a login opens a session of its own.
LEMMA IssueStep ==
    ASSUME ChainInv, PurgeInv, NEW c \in Requests, Issue(c)
    PROVE  ChainInv' /\ PurgeInv'
<1> DEFINE r == request[c]
<1>1. PICK n \in Tokens :
        /\ token[n].state = "none"
        /\ token' = [token EXCEPT ![n] = [ state |-> "live", root |-> n, pw |-> r.pw, raced |-> r.raced ]]
    BY DEF Issue
<1>2. /\ token'[n] = [ state |-> "live", root |-> n, pw |-> r.pw, raced |-> r.raced ]
      /\ \A t \in Tokens \ {n} : token'[t] = token[t]
    BY <1>1 DEF ChainInv, SessionsTypeOK
<1>3. request' = [request EXCEPT ![c] = IdleRequest] /\ r.pc = "issue" /\ UNCHANGED << account, condemned >>
    BY DEF Issue, Done, In
<1>4. /\ request'[c] = IdleRequest /\ IdleRequest.pc = "idle" /\ IdleRequest.snap = {}
      /\ \A d \in Requests \ {c} : request'[d] = request[d]
    BY <1>3 DEF ChainInv, SessionsTypeOK, IdleRequest, Request
<1>5. SessionsTypeOK'
    <2>1. r \in SessionRequests
        BY DEF ChainInv, SessionsTypeOK
    <2>2. token'[n] \in TokenRows
        BY <1>2, <2>1 DEF TokenRows, SessionRequests
    <2> QED
        BY <1>1, <1>2, <1>3, <2>2, IdleTyped DEF ChainInv, SessionsTypeOK
<1>6. RootsKnown'
    BY <1>1, <1>2 DEF ChainInv, RootsKnown, Known
<1>7. \A d \in Requests : RequestOK(d)'
    BY <1>1, <1>2, <1>4 DEF ChainInv, RequestOK, In, Known, Live
<1>8. Apart'
    BY <1>4 DEF ChainInv, Apart, In
<1>9. OneLiveTokenPerSession'
    <2>1. \A t \in Tokens : Known(t) => token[t].root # n
        BY <1>1 DEF ChainInv, RootsKnown, Known
    <2> QED
        BY <1>2, <2>1 DEF ChainInv, OneLiveTokenPerSession, Live, Known
<1>10. SeenOrRaced'
    BY <1>2, <1>3, <1>4 DEF PurgeInv, SeenOrRaced, In, Live
<1>11. LoginsCurrent' /\ (\A t \in condemned : Known(t))'
    BY <1>1, <1>2, <1>3, <1>4 DEF PurgeInv, LoginsCurrent, In, Known
<1>12. PurgedStayOut'
    <2>1. n \notin condemned
        BY <1>1 DEF PurgeInv, Known
    <2>2. ~r.raced => r.pw = account.pw
        BY <1>3 DEF PurgeInv, LoginsCurrent, In
    <2> QED
        BY <1>2, <1>3, <2>1, <2>2 DEF PurgeInv, PurgedStayOut, Live
<1> QED
    BY <1>5, <1>6, <1>7, <1>8, <1>9, <1>10, <1>11, <1>12 DEF ChainInv, PurgeInv

\* The rotation commits: its token gives way to the next one of the session.
LEMMA RotateCommitStep ==
    ASSUME ChainInv, PurgeInv, NEW c \in Requests, RotateCommit(c)
    PROVE  ChainInv' /\ PurgeInv'
<1> DEFINE r == request[c]
           t == request[c].t
<1>1. r.pc = "rotated" /\ t \in Tokens /\ Live(t) /\ r \in SessionRequests
    BY DEF RotateCommit, In, ChainInv, RequestOK, SessionsTypeOK
<1>2. PICK n \in Tokens :
        /\ token[n].state = "none"
        /\ token' = [token EXCEPT ![t] = Ended(t, "spent"),
                        ![n] = [token[t] EXCEPT !.state = "live", !.raced = token[t].raced \/ r.raced]]
    BY DEF RotateCommit
<1>3. n # t
    BY <1>1, <1>2 DEF Live
<1>4. /\ token'[t] = Ended(t, "spent")
      /\ token'[n] = [token[t] EXCEPT !.state = "live", !.raced = token[t].raced \/ r.raced]
      /\ \A u \in Tokens \ {n, t} : token'[u] = token[u]
    BY <1>1, <1>2, <1>3 DEF ChainInv, SessionsTypeOK
<1>5. /\ token[t] \in TokenRows /\ token'[n] \in TokenRows /\ token'[t] \in TokenRows
      /\ token'[n].state = "live" /\ token'[n].root = token[t].root /\ token'[n].pw = token[t].pw
      /\ token'[n].raced = (token[t].raced \/ r.raced)
      /\ token'[t].state = "spent" /\ token'[t].root = token[t].root
    <2>1. token[t] \in TokenRows
        BY <1>1 DEF ChainInv, SessionsTypeOK
    <2>2. (token[t].raced \/ r.raced) \in BOOLEAN
        BY <2>1, <1>1 DEF TokenRows, SessionRequests
    <2>3. token'[t] \in TokenRows /\ token'[t].state = "spent" /\ token'[t].root = token[t].root
        BY <1>1, <1>4, EndedTyped DEF ChainInv
    <2> QED
        BY <1>4, <2>1, <2>2, <2>3 DEF TokenRows
<1>6. request' = [request EXCEPT ![c] = IdleRequest] /\ UNCHANGED << account, condemned >>
    BY DEF RotateCommit, Done
<1>7. /\ request'[c] = IdleRequest /\ IdleRequest.pc = "idle" /\ IdleRequest.snap = {}
      /\ \A d \in Requests \ {c} : request'[d] = request[d]
    BY <1>6 DEF ChainInv, SessionsTypeOK, IdleRequest, Request
<1>8. SessionsTypeOK'
    BY <1>2, <1>4, <1>5, <1>6, IdleTyped DEF ChainInv, SessionsTypeOK
<1> HIDE DEF t
<1>9. \A u \in Tokens : /\ Known(u) => Known(u)' /\ token'[u].root = token[u].root
                        /\ Known(u)' => Known(u) \/ u = n
    BY <1>1, <1>2, <1>4, <1>5 DEF Known, Live
<1>10. RootsKnown'
    <2>1. Known(t)
        BY <1>1 DEF Known, Live
    <2> QED
        BY <1>1, <1>5, <1>9, <2>1 DEF ChainInv, RootsKnown
<1>11. \A d \in Requests : RequestOK(d)'
    <2>1. \A d \in Requests \ {c} : In(d, "rotated") => request[d].t # t
        BY <1>1 DEF ChainInv, Apart, In, t
    <2>2. \A u \in Tokens : Live(u) /\ u # t => Live(u)'
        BY <1>1, <1>2, <1>4 DEF Live
    <2>3. ASSUME NEW d \in Requests \ {c} PROVE RequestOK(d)'
        <3>1. request'[d] = request[d] /\ RequestOK(d) /\ request[d] \in SessionRequests
            BY <1>7 DEF ChainInv, SessionsTypeOK
        <3>2. request[d].snap \subseteq Tokens
            BY <3>1 DEF SessionRequests
        <3> QED
            BY <1>9, <2>1, <2>2, <3>1, <3>2 DEF RequestOK, In
    <2> QED
        BY <1>7, <2>3 DEF RequestOK, In
<1>12. Apart'
    BY <1>7 DEF ChainInv, Apart, In
<1>13. \A u \in Tokens : Live(u)' => u = n \/ (u # t /\ token'[u] = token[u] /\ Live(u))
    BY <1>4, <1>5 DEF Live
<1>14. OneLiveTokenPerSession'
    <2>1. \A u \in Tokens : Live(u) /\ u # t => token[u].root # token[t].root
        BY <1>1 DEF ChainInv, OneLiveTokenPerSession
    <2>2. \A u \in Tokens : Live(u)' /\ u # n => token'[u].root # token'[n].root
        BY <1>5, <1>13, <2>1
    <2> QED
        BY <1>13, <2>2 DEF ChainInv, OneLiveTokenPerSession
<1>15. SeenOrRaced'
    <2>1. \A d \in Requests : In(d, "purging") => r.raced
        BY <1>1 DEF PurgeInv, SeenOrRaced, In
    <2>2. (\E d \in Requests : In(d, "purging")) => token'[n].raced
        BY <1>5, <2>1
    <2>3. \A d \in Requests : In(d, "purging")' => d # c /\ In(d, "purging") /\ request'[d] = request[d]
        BY <1>7 DEF In
    <2>4. \A d \in Requests : In(d, "issue")' \/ In(d, "rotated")' =>
                d # c /\ request'[d] = request[d] /\ (In(d, "issue") \/ In(d, "rotated"))
        BY <1>7 DEF In
    <2> QED
        BY <1>13, <2>2, <2>3, <2>4 DEF PurgeInv, SeenOrRaced
<1>16. LoginsCurrent' /\ (\A u \in condemned : Known(u))'
    <2>1. LoginsCurrent'
        BY <1>6, <1>7 DEF PurgeInv, LoginsCurrent, In
    <2> QED
        BY <1>6, <1>9, <2>1 DEF PurgeInv, ChainInv, SessionsTypeOK
<1>17. PurgedStayOut'
    BY <1>1, <1>5, <1>6, <1>13 DEF PurgeInv, PurgedStayOut
<1> QED
    BY <1>8, <1>10, <1>11, <1>12, <1>14, <1>15, <1>16, <1>17 DEF ChainInv, PurgeInv

\* logout waits for a rotation of its token.
LEMMA LogoutStep ==
    ASSUME ChainInv, PurgeInv, NEW t \in Tokens, Logout(t)
    PROVE  ChainInv' /\ PurgeInv'
<1>1. /\ Live(t) /\ TokenFree(t) /\ UNCHANGED << account, request, condemned >>
      /\ token' = [token EXCEPT ![t] = Ended(t, "spent")]
    BY DEF Logout
<1>2. /\ token'[t] \in TokenRows /\ token'[t].state = "spent" /\ token'[t].root = token[t].root
      /\ \A u \in Tokens \ {t} : token'[u] = token[u]
    BY <1>1, EndedTyped DEF ChainInv, SessionsTypeOK, Ended
<1>3. SessionsTypeOK'
    BY <1>1, <1>2 DEF ChainInv, SessionsTypeOK
<1>4. RootsKnown' /\ OneLiveTokenPerSession' /\ Apart'
    BY <1>1, <1>2 DEF ChainInv, RootsKnown, Known, OneLiveTokenPerSession, Live, Apart, In
<1>5. \A d \in Requests : RequestOK(d)'
    BY <1>1, <1>2 DEF ChainInv, RequestOK, TokenFree, In, Known, Live
<1>6. PurgeInv'
    BY <1>1, <1>2 DEF PurgeInv, SeenOrRaced, LoginsCurrent, PurgedStayOut, In, Known, Live
<1> QED
    BY <1>3, <1>4, <1>5, <1>6 DEF ChainInv

\* A purge takes its snapshot, and marks who may add a token while it runs.
LEMMA PurgeBeginStep ==
    ASSUME ChainInv, PurgeInv, NEW c \in Requests, PurgeBegin(c)
    PROVE  ChainInv' /\ PurgeInv'
<1> DEFINE r == request[c]
           begun == [r EXCEPT !.pc = "purging", !.snap = PurgeSees(c)]
           Racing(d) == In(d, "issue") \/ In(d, "rotated")
<1>1. r.pc = "purge" /\ UNCHANGED << account, token, condemned >>
    BY DEF PurgeBegin, In
<1>2. /\ PurgeSees(c) \subseteq Tokens
      /\ \A t \in Tokens : Live(t) => t \in PurgeSees(c)
      /\ \A t \in PurgeSees(c) : Known(t)
    BY DEF PurgeSees, Stored, Live, Known
<1>3. begun \in SessionRequests /\ begun.pc = "purging" /\ begun.snap = PurgeSees(c)
    BY <1>2 DEF ChainInv, SessionsTypeOK, SessionRequests
<1>4. /\ request' = [ d \in Requests |-> IF d = c THEN begun
                          ELSE IF Racing(d) THEN [request[d] EXCEPT !.raced = TRUE] ELSE request[d] ]
    BY DEF PurgeBegin
<1> HIDE DEF begun
<1>5. request'[c] = begun
    BY <1>4
<1>6. ASSUME NEW d \in Requests \ {c}
      PROVE  /\ request'[d] \in SessionRequests
             /\ request'[d].pc = request[d].pc /\ request'[d].t = request[d].t
             /\ request'[d].pw = request[d].pw /\ request'[d].snap = request[d].snap
             /\ Racing(d) => request'[d].raced
             /\ ~Racing(d) => request'[d] = request[d]
    <2>1. request[d] \in SessionRequests
        BY DEF ChainInv, SessionsTypeOK
    <2>2. CASE Racing(d)
        <3>1. request'[d] = [request[d] EXCEPT !.raced = TRUE]
            BY <1>4, <2>2
        <3> HIDE DEF Racing
        <3> QED
            BY <2>1, <2>2, <3>1 DEF SessionRequests
    <2>3. CASE ~Racing(d)
        <3>1. request'[d] = request[d]
            BY <1>4, <2>3
        <3> HIDE DEF Racing
        <3> QED
            BY <2>1, <2>3, <3>1
    <2> QED
        BY <2>2, <2>3
<1>7. SessionsTypeOK'
    <2>1. \A d \in Requests : request'[d] \in SessionRequests
        BY <1>3, <1>5, <1>6
    <2>2. request' \in [Requests -> SessionRequests]
        BY <1>4, <2>1
    <2> QED
        BY <1>1, <2>2 DEF ChainInv, SessionsTypeOK
<1>8. RootsKnown' /\ OneLiveTokenPerSession'
    BY <1>1 DEF ChainInv, RootsKnown, Known, OneLiveTokenPerSession, Live
<1>9. \A d \in Requests : RequestOK(d)'
    <2>1. RequestOK(c)'
        BY <1>1, <1>2, <1>3, <1>5 DEF RequestOK, In, Known
    <2>2. ASSUME NEW d \in Requests \ {c} PROVE RequestOK(d)'
        BY <1>1, <1>6 DEF ChainInv, RequestOK, In, Known, Live
    <2> QED
        BY <2>1, <2>2
<1>10. Apart'
    BY <1>3, <1>5, <1>6 DEF ChainInv, Apart, In
<1>11. SeenOrRaced'
    <2>1. \A d \in Requests : In(d, "issue")' \/ In(d, "rotated")' => request'[d].raced
        BY <1>3, <1>5, <1>6 DEF In
    <2>2. ASSUME NEW d \in Requests, In(d, "purging")', NEW t \in Tokens, Live(t)', ~token'[t].raced
          PROVE  t \in request'[d].snap
        <3>1. Live(t) /\ ~token[t].raced
            BY <1>1, <2>2 DEF Live
        <3>2. CASE d = c
            BY <1>2, <1>3, <1>5, <3>1, <3>2
        <3>3. CASE d # c
            <4>1. In(d, "purging") /\ request'[d].snap = request[d].snap
                BY <1>6, <2>2, <3>3 DEF In
            <4> QED
                BY <3>1, <4>1 DEF PurgeInv, SeenOrRaced
        <3> QED
            BY <3>2, <3>3
    <2> QED
        BY <2>1, <2>2 DEF SeenOrRaced
<1>12. LoginsCurrent'
    <2>1. \A d \in Requests : In(d, "issue")' => request'[d].raced
        BY <1>3, <1>5, <1>6 DEF In
    <2> QED
        BY <2>1 DEF LoginsCurrent
<1>13. PurgedStayOut' /\ (\A t \in condemned : Known(t))'
    BY <1>1 DEF PurgeInv, PurgedStayOut, Live, Known
<1> QED
    BY <1>7, <1>8, <1>9, <1>10, <1>11, <1>12, <1>13 DEF ChainInv, PurgeInv

\* The purge ends: what is live then is marked, for the rest was in the snapshot.
LEMMA PurgeEndStep ==
    ASSUME ChainInv, PurgeInv, NEW c \in Requests, PurgeEnd(c)
    PROVE  ChainInv' /\ PurgeInv'
<1> DEFINE r == request[c]
<1>1. /\ r.pc = "purging" /\ \A t \in r.snap : TokenFree(t)
      /\ token' = [ t \in Tokens |-> Purged(c, t) ]
      /\ condemned' = condemned \cup { token[t].root : t \in r.snap }
      /\ request' = [request EXCEPT ![c] = IdleRequest]
    BY DEF PurgeEnd, In, Done
<1>2. r \in SessionRequests /\ r.snap \subseteq Tokens /\ \A t \in r.snap : Known(t)
    BY DEF ChainInv, SessionsTypeOK, RequestOK, SessionRequests
<1>3. /\ request'[c] = IdleRequest /\ IdleRequest.pc = "idle" /\ IdleRequest.snap = {}
      /\ \A d \in Requests \ {c} : request'[d] = request[d]
    BY <1>1 DEF ChainInv, SessionsTypeOK, IdleRequest, Request
<1>4. ASSUME NEW t \in Tokens
      PROVE  /\ token'[t] \in TokenRows /\ token'[t].root = token[t].root
             /\ Known(t) => Known(t)'
             /\ t \in r.snap => ~Live(t)'
             /\ t \notin r.snap => token'[t] = token[t]
             /\ Live(t)' => token'[t] = token[t] /\ Live(t)
    <2>1. token'[t] = Purged(c, t) /\ token[t] \in TokenRows
        BY <1>1 DEF ChainInv, SessionsTypeOK
    <2>2. CASE t \notin r.snap
        BY <2>1, <2>2 DEF Purged, Known, Live
    <2>3. CASE t \in r.snap /\ r.kind = "block"
        BY <2>1, <2>3, EndedTyped DEF Purged, Known, Live, ChainInv
    <2>4. CASE t \in r.snap /\ r.kind # "block" /\ Live(t)
        BY <2>1, <2>4, EndedTyped DEF Purged, Known, Live, ChainInv
    <2>5. CASE t \in r.snap /\ r.kind # "block" /\ ~Live(t)
        BY <2>1, <2>5 DEF Purged, Known, Live
    <2> QED
        BY <2>2, <2>3, <2>4, <2>5
<1>5. SessionsTypeOK'
    <2>1. token' \in [Tokens -> TokenRows]
        BY <1>1, <1>4
    <2>2. request' \in [Requests -> SessionRequests]
        BY <1>1, IdleTyped DEF ChainInv, SessionsTypeOK
    <2>3. condemned' \in SUBSET Tokens
        BY <1>1, <1>2 DEF ChainInv, RootsKnown, SessionsTypeOK
    <2>4. account' \in Accounts
        <3>1. account \in Accounts /\ r.pw \in Passwords
            BY <1>2 DEF ChainInv, SessionsTypeOK, SessionRequests
        <3>2. CASE SetsPassword(c)
            <4>1. account' = [account EXCEPT !.pw = r.pw, !.reset = @ /\ r.kind = "change"]
                BY <3>2 DEF PurgeEnd
            <4>2. (account.reset /\ r.kind = "change") \in BOOLEAN
                BY <3>1 DEF Accounts
            <4> QED
                BY <3>1, <4>1, <4>2 DEF Accounts
        <3>3. CASE ~SetsPassword(c)
            BY <3>1, <3>3 DEF PurgeEnd
        <3> QED
            BY <3>2, <3>3
    <2> QED
        BY <2>1, <2>2, <2>3, <2>4 DEF SessionsTypeOK
<1>6. RootsKnown'
    <2>1. \A t \in Tokens : Known(t)' => Known(t)
        BY <1>2, <1>4 DEF Known
    <2> QED
        BY <1>4, <2>1 DEF ChainInv, RootsKnown
<1>7. \A d \in Requests : RequestOK(d)'
    <2>1. ASSUME NEW d \in Requests \ {c} PROVE RequestOK(d)'
        <3>1. request'[d] = request[d] /\ RequestOK(d) /\ request[d].snap \subseteq Tokens
            BY <1>3 DEF ChainInv, SessionsTypeOK, SessionRequests
        <3>2. In(d, "rotated") => request[d].t \in Tokens \ r.snap
            BY <1>1, <3>1 DEF RequestOK, TokenFree
        <3> QED
            BY <1>4, <3>1, <3>2 DEF RequestOK, In, Live
    <2> QED
        BY <1>3, <2>1 DEF RequestOK, In
<1>8. Apart'
    BY <1>3 DEF ChainInv, Apart, In
<1>9. OneLiveTokenPerSession'
    BY <1>4 DEF ChainInv, OneLiveTokenPerSession
<1>10. \A t \in Tokens : Live(t)' => token'[t].raced
    <2>1. \A t \in Tokens : Live(t) /\ ~token[t].raced => t \in r.snap
        BY <1>1 DEF PurgeInv, SeenOrRaced, In
    <2> QED
        BY <1>4, <2>1
<1>11. SeenOrRaced'
    <2>1. \A d \in Requests : In(d, "purging")' => In(d, "purging")
        BY <1>3 DEF In
    <2>2. \A d \in Requests : In(d, "issue")' \/ In(d, "rotated")' =>
                request'[d] = request[d] /\ (In(d, "issue") \/ In(d, "rotated"))
        BY <1>3 DEF In
    <2> QED
        BY <1>10, <2>1, <2>2 DEF PurgeInv, SeenOrRaced
<1>12. LoginsCurrent'
    <2>1. \A d \in Requests : In(d, "issue") => request[d].raced
        BY <1>1 DEF PurgeInv, SeenOrRaced, In
    <2> QED
        BY <1>3, <2>1 DEF LoginsCurrent, In
<1>13. PurgedStayOut'
    BY <1>10 DEF PurgedStayOut
<1>14. (\A t \in condemned : Known(t))'
    <2>1. \A t \in r.snap : token[t].root \in Tokens /\ Known(token[t].root)
        BY <1>2 DEF ChainInv, RootsKnown
    <2> QED
        BY <1>1, <1>4, <2>1 DEF PurgeInv, ChainInv, SessionsTypeOK
<1> QED
    BY <1>5, <1>6, <1>7, <1>8, <1>9, <1>11, <1>12, <1>13, <1>14 DEF ChainInv, PurgeInv

-----------------------------------------------------------------------------
(* Every step                                                               *)

\* The reads that precede a write: login, refresh, changePassword, resetPassword, blockCustomer.
LEMMA ReadStep ==
    ASSUME ChainInv, PurgeInv, NEW c \in Requests,
           \/ \E pw \in Passwords : LoginRead(c, pw) \/ ResetRead(c, pw) \/ ChangeRead(c, pw)
           \/ \E t \in Tokens : RefreshRead(c, t)
           \/ Block(c)
    PROVE  ChainInv' /\ PurgeInv'
<1>0. account \in Accounts
    BY DEF ChainInv, SessionsTypeOK
<1>1. ASSUME NEW pw \in Passwords, LoginRead(c, pw) PROVE ChainInv' /\ PurgeInv'
    <2> DEFINE r0 == Request("issue", "login", NoToken, pw)
               r == [r0 EXCEPT !.raced = Purging]
    <2>1. r0 \in SessionRequests /\ r0.pc = "issue" /\ r0.snap = {} /\ r0.pw = pw
        BY DEF Request, SessionRequests
    <2>2. Purging \in BOOLEAN
        BY DEF Purging
    <2>3. request' = [request EXCEPT ![c] = r] /\ UNCHANGED << account, token, condemned >> /\ pw = account.pw
        BY <1>1 DEF LoginRead, Open
    <2> HIDE DEF r0, Purging
    <2>4. r \in SessionRequests /\ r.pc = "issue" /\ r.snap = {} /\ r.pw = pw /\ r.raced = Purging
        BY <2>1, <2>2 DEF SessionRequests
    <2> HIDE DEF r
    <2> QED
        BY <1>0, <2>3, <2>4, RequestStep
<1>2. ASSUME NEW pw \in Passwords, ResetRead(c, pw) \/ ChangeRead(c, pw) PROVE ChainInv' /\ PurgeInv'
    <2>1. PICK kind \in {"reset", "change"} :
            request' = [request EXCEPT ![c] = Request("purge", kind, NoToken, pw)]
        BY <1>2 DEF ResetRead, ChangeRead, Open
    <2>2. UNCHANGED << account, token, condemned >>
        BY <1>2 DEF ResetRead, ChangeRead
    <2> DEFINE r == Request("purge", kind, NoToken, pw)
    <2>3. r \in SessionRequests /\ r.pc = "purge" /\ r.snap = {}
        BY DEF Request, SessionRequests
    <2> HIDE DEF r
    <2> QED
        BY <1>0, <2>1, <2>2, <2>3, RequestStep DEF r
<1>3. ASSUME NEW t \in Tokens, RefreshRead(c, t) PROVE ChainInv' /\ PurgeInv'
    <2>1. PICK pc \in {"rotate", "purge"}, kind \in {"refresh", "reuse"} :
            request' = [request EXCEPT ![c] = Request(pc, kind, t, AnyPassword)]
        BY <1>3 DEF RefreshRead, Open
    <2>2. UNCHANGED << account, token, condemned >>
        BY <1>3 DEF RefreshRead
    <2> DEFINE r == Request(pc, kind, t, AnyPassword)
    <2>3. r \in SessionRequests /\ r.pc = pc /\ r.t = t /\ r.snap = {}
        BY PasswordExists DEF Request, SessionRequests
    <2>4. request' = [request EXCEPT ![c] = r]
        BY <2>1
    <2> HIDE DEF r
    <2> QED
        BY <1>0, <2>2, <2>3, <2>4, RequestStep
<1>4. CASE Block(c)
    <2> DEFINE r == Request("purge", "block", NoToken, AnyPassword)
    <2>1. r \in SessionRequests /\ r.pc = "purge" /\ r.snap = {}
        BY PasswordExists DEF Request, SessionRequests
    <2>2. /\ request' = [request EXCEPT ![c] = r] /\ UNCHANGED << token, condemned >>
          /\ account' = [account EXCEPT !.blocked = TRUE]
        BY <1>4 DEF Block, Open
    <2>3. account' \in Accounts /\ account'.pw = account.pw
        BY <1>0, <2>2 DEF Accounts
    <2> HIDE DEF r
    <2> QED
        BY <2>1, <2>2, <2>3, RequestStep
<1> QED
    BY <1>1, <1>2, <1>3, <1>4

LEMMA DropStep ==
    ASSUME ChainInv, PurgeInv, NEW c \in Requests, Drop(c)
    PROVE  ChainInv' /\ PurgeInv'
<1>1. request' = [request EXCEPT ![c] = IdleRequest] /\ UNCHANGED << account, token, condemned >>
    BY DEF Drop, Done
<1>2. IdleRequest.pc = "idle" /\ IdleRequest.snap = {} /\ IdleRequest \in SessionRequests
    BY IdleTyped DEF IdleRequest, Request
<1>3. account' \in Accounts /\ account'.pw = account.pw
    BY <1>1 DEF ChainInv, SessionsTypeOK
<1> QED
    BY <1>1, <1>2, <1>3, RequestStep

LEMMA NextStep == ChainInv /\ PurgeInv /\ [SessionsNext]_sessionVars => ChainInv' /\ PurgeInv'
<1> SUFFICES ASSUME ChainInv, PurgeInv, [SessionsNext]_sessionVars PROVE ChainInv' /\ PurgeInv'
    OBVIOUS
<1>0. account \in Accounts
    BY DEF ChainInv, SessionsTypeOK
<1>1. ASSUME NEW c \in Requests,
             \/ \E pw \in Passwords : LoginRead(c, pw) \/ ResetRead(c, pw) \/ ChangeRead(c, pw)
             \/ \E t \in Tokens : RefreshRead(c, t)
             \/ Block(c)
      PROVE  ChainInv' /\ PurgeInv'
    BY <1>1, ReadStep
<1>2. ASSUME NEW c \in Requests, Issue(c) PROVE ChainInv' /\ PurgeInv'
    BY <1>2, IssueStep
<1>3. ASSUME NEW c \in Requests, Rotate(c) PROVE ChainInv' /\ PurgeInv'
    BY <1>3, RotateStep
<1>4. ASSUME NEW c \in Requests, RotateCommit(c) PROVE ChainInv' /\ PurgeInv'
    BY <1>4, RotateCommitStep
<1>5. ASSUME NEW c \in Requests, PurgeBegin(c) PROVE ChainInv' /\ PurgeInv'
    BY <1>5, PurgeBeginStep
<1>6. ASSUME NEW c \in Requests, PurgeEnd(c) PROVE ChainInv' /\ PurgeInv'
    BY <1>6, PurgeEndStep
<1>7. ASSUME NEW c \in Requests, Drop(c) PROVE ChainInv' /\ PurgeInv'
    BY <1>7, DropStep
<1>8. ASSUME NEW t \in Tokens, Logout(t) PROVE ChainInv' /\ PurgeInv'
    BY <1>8, LogoutStep
<1>9. CASE Forgot \/ ResetLapse \/ Unblock
    <2>1. account' \in Accounts /\ account'.pw = account.pw /\ UNCHANGED << token, request, condemned >>
        BY <1>0, <1>9 DEF Forgot, ResetLapse, Unblock, Accounts
    <2> QED
        BY <2>1, AccountStep
<1>10. CASE UNCHANGED sessionVars
    BY <1>0, <1>10, AccountStep DEF sessionVars
<1> QED
    BY <1>1, <1>2, <1>3, <1>4, <1>5, <1>6, <1>7, <1>8, <1>9, <1>10 DEF SessionsNext

LEMMA AlwaysInv == SessionsSpec => [](ChainInv /\ PurgeInv)
BY InitChain, NextStep, PTL DEF SessionsSpec

-----------------------------------------------------------------------------
\* Every row, request and history variable keeps its type, whatever requests overlap.
THEOREM SessionsTypeSafety == SessionsSpec => []SessionsTypeOK
<1>1. ChainInv => SessionsTypeOK
    BY DEF ChainInv
<1> QED
    BY <1>1, AlwaysInv, PTL

\* refresh: however many requests present a token, and however rotations, logouts, resets and
\* blocks overlap, a session never has two refresh tokens that work.
THEOREM SingleRotation == SessionsSpec => []OneLiveTokenPerSession
<1>1. ChainInv => OneLiveTokenPerSession
    BY DEF ChainInv
<1> QED
    BY <1>1, AlwaysInv, PTL

\* changePassword, resetPassword, blockCustomer and the detection of reuse: no session outlives
\* them but one whose login or rotation was under way.
THEOREM RevokedStaysOut == SessionsSpec => []PurgedStayOut
<1>1. PurgeInv => PurgedStayOut
    BY DEF PurgeInv
<1> QED
    BY <1>1, AlwaysInv, PTL
=============================================================================
