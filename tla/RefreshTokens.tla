--------------------------- MODULE RefreshTokens ---------------------------
(***************************************************************************)
(* Refresh tokens: the store of apps/api/src/services/auth/tokens.ts and   *)
(* the routes /auth/login, /auth/refresh and /auth/logout that call it.    *)
(*                                                                         *)
(* A raw token is a member of Tokens; its hash is what table               *)
(* refresh_tokens keeps, so a row is named by its token.  rotate() runs in *)
(* a transaction of READ COMMITTED Postgres: a statement sees what was     *)
(* committed when it began, and waits for the rows it wants to lock.  What *)
(* a transaction writes reaches rows, rotated and revoked at its commit.   *)
(*                                                                         *)
(* A browser has one cookie, and its tabs send any number of requests at   *)
(* once.  Not modelled: the password and TOTP checks before issue(), the   *)
(* access token, revokeAllForUser (no caller), requests without a cookie   *)
(* to /auth/refresh (refused, nothing changes).                            *)
(***************************************************************************)
EXTENDS FiniteSets

CONSTANTS
    Users,
    Browsers,
    Account,    \* the user who logs in from a browser
    Requests,   \* bound: requests under way at once
    Tokens,     \* bound: raw tokens that are ever drawn
    NoToken     \* an empty cookie

ASSUME TokenAssumptions ==
    /\ Browsers # {}
    /\ Account \in [Browsers -> Users]
    /\ NoToken \notin Tokens

VARIABLES
    rows,       \* committed rows of refresh_tokens
    owner,      \* user_id
    rotated,    \* rotated_at is set
    revoked,    \* revoked_at is set
    expired,    \* expires_at has passed
    jar,        \* the refresh cookie of a browser
    pc,         \* where a request is
    from,       \* the browser that sent it
    token,      \* the cookie it carries
    reply,      \* the cookie its answer sets; before that, the successor it will draw
    sees,       \* rows the family revoke found when it began
    scan,       \* rows of sees it has not reached
    parent,     \* history: the token a row replaced
    faulted,    \* history: users with a lost answer or overlapping requests of a browser
    abandoned   \* history: tokens a browser dropped without logging out

table == <<rows, owner, rotated, revoked, parent>>
request == <<pc, from, token, reply, sees, scan>>
history == <<faulted, abandoned>>
vars == <<table, expired, jar, request, history>>

Cookies == Tokens \cup {NoToken}
Answered == {"in", "ok", "reuse", "stale", "failed", "bye"}

TypeOK ==
    /\ rows \subseteq Tokens
    /\ owner \in [Tokens -> Users]
    /\ rotated \subseteq rows
    /\ revoked \subseteq rows
    /\ expired \subseteq rows
    /\ jar \in [Browsers -> rows \cup {NoToken}]
    /\ pc \in [Requests -> {"idle", "refresh", "logout", "locked", "rotating", "revoking"}
                           \cup Answered]
    /\ from \in [Requests -> Browsers]
    /\ token \in [Requests -> rows \cup {NoToken}]
    /\ reply \in [Requests -> Cookies]
    /\ sees \in [Requests -> SUBSET rows]
    /\ scan \in [Requests -> SUBSET rows]
    /\ \A r \in Requests : scan[r] \subseteq sees[r]
    /\ parent \in [Tokens -> Cookies]
    /\ faulted \subseteq Users
    /\ abandoned \subseteq Tokens

NoBrowser == CHOOSE b \in Browsers : TRUE   \* for a request that is idle

Init ==
    /\ rows = {} /\ rotated = {} /\ revoked = {} /\ expired = {}
    /\ owner = [t \in Tokens |-> CHOOSE u \in Users : TRUE]
    /\ parent = [t \in Tokens |-> NoToken]
    /\ jar = [b \in Browsers |-> NoToken]
    /\ pc = [r \in Requests |-> "idle"]
    /\ from = [r \in Requests |-> NoBrowser]
    /\ token = [r \in Requests |-> NoToken]
    /\ reply = [r \in Requests |-> NoToken]
    /\ sees = [r \in Requests |-> {}]
    /\ scan = [r \in Requests |-> {}]
    /\ faulted = {}
    /\ abandoned = {}

----------------------------------------------------------------------------
Spent(t) == t \in rotated \cup revoked

Live == (rows \ (rotated \cup revoked)) \ expired

\* randomBytes(32): a raw token never drawn before.  Which one is all the
\* same, so one is chosen.
FreshTokens == Tokens \ (rows \cup {reply[r] : r \in Requests})
NewToken == CHOOSE t \in FreshTokens : TRUE

\* Row locks: the row rotate() selected FOR UPDATE and those its family
\* revoke has updated.
Locks(r) ==
    CASE pc[r] \in {"locked", "rotating"} -> {token[r]}
      [] pc[r] = "revoking" -> {token[r]} \cup ((sees[r] \ scan[r]) \ revoked)
      [] OTHER -> {}

LockedByOther(t, r) == \E q \in Requests \ {r} : t \in Locks(q)

\* A browser that sends while another request of it is under way can present
\* a token that this request replaces.
Overlap(b) ==
    faulted' = IF \E q \in Requests : pc[q] # "idle" /\ from[q] = b
               THEN faulted \cup {Account[b]} ELSE faulted

Answer(r, how, cookie) ==
    /\ pc' = [pc EXCEPT ![r] = how]
    /\ reply' = [reply EXCEPT ![r] = cookie]
    /\ sees' = [sees EXCEPT ![r] = {}]
    /\ scan' = [scan EXCEPT ![r] = {}]
    /\ token' = [token EXCEPT ![r] = NoToken]
    /\ UNCHANGED from

\* POST /auth/login: issue() inserts one row.
Login(r, b) ==
    /\ pc[r] = "idle"
    /\ FreshTokens # {}
    /\ rows' = rows \cup {NewToken}
    /\ owner' = [owner EXCEPT ![NewToken] = Account[b]]
    /\ pc' = [pc EXCEPT ![r] = "in"]
    /\ from' = [from EXCEPT ![r] = b]
    /\ reply' = [reply EXCEPT ![r] = NewToken]
    /\ Overlap(b)
    /\ UNCHANGED <<rotated, revoked, parent, expired, jar, token, sees, scan, abandoned>>

\* POST /auth/refresh and /auth/logout leave the browser with its cookie.
Send(r, b, kind, successor) ==
    /\ pc[r] = "idle"
    /\ pc' = [pc EXCEPT ![r] = kind]
    /\ from' = [from EXCEPT ![r] = b]
    /\ token' = [token EXCEPT ![r] = jar[b]]
    /\ reply' = [reply EXCEPT ![r] = successor]
    /\ Overlap(b)
    /\ UNCHANGED <<table, expired, jar, sees, scan, abandoned>>

\* The successor of a token that may be rotated is drawn beforehand.
Refresh(r, b) ==
    /\ jar[b] # NoToken
    /\ \/ jar[b] \in Live /\ FreshTokens # {} /\ Send(r, b, "refresh", NewToken)
       \/ jar[b] \notin Live /\ Send(r, b, "refresh", NoToken)

Logout(r, b) == Send(r, b, "logout", NoToken)

\* Mutant of Lock: SELECT without FOR UPDATE.
LockNothing(r) ==
    /\ pc[r] = "refresh"
    /\ pc' = [pc EXCEPT ![r] = "locked"]
    /\ UNCHANGED <<table, expired, jar, from, token, reply, sees, scan, history>>

\* rotate(): SELECT ... FOR UPDATE.
Lock(r) ==
    /\ pc[r] = "refresh"
    /\ ~LockedByOther(token[r], r)
    /\ pc' = [pc EXCEPT ![r] = "locked"]
    /\ UNCHANGED <<table, expired, jar, from, token, reply, sees, scan, history>>

\* The row was rotated or revoked: the family revoke begins.
Replay(r) ==
    /\ pc[r] = "locked"
    /\ Spent(token[r])
    /\ pc' = [pc EXCEPT ![r] = "revoking"]
    /\ sees' = [sees EXCEPT ![r] = {t \in rows \ revoked : owner[t] = owner[token[r]]}]
    /\ scan' = [scan EXCEPT ![r] = sees'[r]]
    /\ reply' = [reply EXCEPT ![r] = NoToken]
    /\ UNCHANGED <<table, expired, jar, from, token, history>>

\* Mutant of RevokeRow: revokeAllForUser() on a connection of its own, which
\* waits for the row the transaction of rotate() holds.
RevokeRowElsewhere(r) ==
    /\ pc[r] = "revoking"
    /\ \E t \in scan[r] \ {token[r]} :
          /\ ~LockedByOther(t, r)
          /\ scan' = [scan EXCEPT ![r] = @ \ {t}]
    /\ UNCHANGED <<table, expired, jar, pc, from, token, reply, sees, history>>

\* It reaches its rows one by one, in any order, and waits for their locks.
RevokeRow(r) ==
    /\ pc[r] = "revoking"
    /\ \E t \in scan[r] :
          /\ ~LockedByOther(t, r)
          /\ scan' = [scan EXCEPT ![r] = @ \ {t}]
    /\ UNCHANGED <<table, expired, jar, pc, from, token, reply, sees, history>>

RevokeCommit(r) ==
    /\ pc[r] = "revoking"
    /\ scan[r] = {}
    /\ revoked' = revoked \cup sees[r]
    /\ pc' \in {[pc EXCEPT ![r] = a] : a \in {"reuse", "failed"}}
    /\ token' = [token EXCEPT ![r] = NoToken]
    /\ UNCHANGED <<rows, owner, rotated, parent, expired, jar, from, reply, sees, scan, history>>

\* Past expires_at: refused, the row stays as it is.
RefuseExpired(r) ==
    /\ pc[r] = "locked"
    /\ ~Spent(token[r])
    /\ token[r] \in expired
    /\ Answer(r, "stale", NoToken)
    /\ UNCHANGED <<table, expired, jar, history>>

\* The UPDATE and the INSERT, not yet committed.
Rotate(r) ==
    /\ pc[r] = "locked"
    /\ ~Spent(token[r])
    /\ token[r] \notin expired
    /\ pc' = [pc EXCEPT ![r] = "rotating"]
    /\ UNCHANGED <<table, expired, jar, from, token, reply, sees, scan, history>>

\* Mutant of WriteRotation: WHERE user_id in place of WHERE id.
WriteRotationOfUser(r) ==
    /\ rows' = rows \cup {reply[r]}
    /\ owner' = [owner EXCEPT ![reply[r]] = owner[token[r]]]
    /\ rotated' = rotated \cup {t \in rows : owner[t] = owner[token[r]]}
    /\ parent' = [parent EXCEPT ![reply[r]] = token[r]]
    /\ UNCHANGED revoked

WriteRotation(r) ==
    /\ rows' = rows \cup {reply[r]}
    /\ owner' = [owner EXCEPT ![reply[r]] = owner[token[r]]]
    /\ rotated' = rotated \cup {token[r]}
    /\ parent' = [parent EXCEPT ![reply[r]] = token[r]]
    /\ UNCHANGED revoked

\* COMMIT; when only its acknowledgement is lost, rotate() throws all the same.
RotateCommit(r) ==
    /\ pc[r] = "rotating"
    /\ WriteRotation(r)
    /\ \/ Answer(r, "ok", reply[r]) /\ UNCHANGED abandoned
       \/ Answer(r, "failed", NoToken) /\ abandoned' = abandoned \cup {reply[r]}
    /\ UNCHANGED <<expired, jar, faulted>>

\* A database error, or the victim of a deadlock: ROLLBACK, and the route
\* clears the cookie whatever was thrown.
Abort(r) ==
    /\ pc[r] \in {"refresh", "locked", "rotating", "revoking"}
    /\ Answer(r, "failed", NoToken)
    /\ UNCHANGED <<table, expired, jar, history>>

\* Mutant of LogoutRevoke: the cookie is cleared, the token stays active.
LogoutClears(r) ==
    /\ pc[r] = "logout"
    /\ Answer(r, "bye", NoToken)
    /\ UNCHANGED <<table, expired, jar, history>>

\* revoke(): one UPDATE, which also waits for the row.
LogoutRevoke(r) ==
    /\ pc[r] = "logout"
    /\ ~LockedByOther(token[r], r)
    /\ revoked' = revoked \cup ({token[r]} \ {NoToken})
    /\ Answer(r, "bye", NoToken)
    /\ UNCHANGED <<rows, owner, rotated, parent, expired, jar, history>>

Idle(r) ==
    /\ pc' = [pc EXCEPT ![r] = "idle"]
    /\ token' = [token EXCEPT ![r] = NoToken]
    /\ reply' = [reply EXCEPT ![r] = NoToken]
    /\ sees' = [sees EXCEPT ![r] = {}]
    /\ scan' = [scan EXCEPT ![r] = {}]
    /\ from' = [from EXCEPT ![r] = NoBrowser]
    /\ UNCHANGED <<table, expired>>

\* revoke() throws: the error answer leaves the cookie alone.
LogoutFails(r) ==
    /\ pc[r] = "logout"
    /\ Idle(r)
    /\ UNCHANGED <<jar, history>>

\* The answer arrives and its Set-Cookie is obeyed.
Receive(r) ==
    /\ pc[r] \in Answered
    /\ jar' = [jar EXCEPT ![from[r]] = reply[r]]
    /\ abandoned' = IF pc[r] \in {"in", "failed"}
                    THEN abandoned \cup ({jar[from[r]]} \ {NoToken}) ELSE abandoned
    /\ Idle(r)
    /\ UNCHANGED faulted

\* The answer is lost: connection, process or tab is gone.
LoseAnswer(r) ==
    /\ pc[r] \in Answered
    /\ faulted' = faulted \cup {Account[from[r]]}
    /\ Idle(r)
    /\ UNCHANGED <<jar, abandoned>>

\* Thirty days pass.
Expire ==
    /\ expired' = rows
    /\ UNCHANGED <<table, jar, request, history>>

\* What the server does for a request until it is answered.
Serve(r) ==
    \/ Lock(r) \/ Replay(r) \/ RevokeRow(r) \/ RevokeCommit(r)
    \/ RefuseExpired(r) \/ Rotate(r) \/ RotateCommit(r)
    \/ LogoutRevoke(r)

Step(r) ==
    \/ \E b \in Browsers : Login(r, b) \/ Refresh(r, b) \/ Logout(r, b)
    \/ Serve(r) \/ Abort(r) \/ LogoutFails(r)
    \/ Receive(r) \/ LoseAnswer(r)

Next == Expire \/ \E r \in Requests : Step(r)

Spec == Init /\ [][Next]_vars

----------------------------------------------------------------------------
(* Properties.                                                             *)

\* A token is replaced at most once: however many requests present the same
\* cookie at the same time, one of them rotates it.
OneSuccessor ==
    \A s, t \in rows : parent[s] = parent[t] /\ parent[s] # NoToken => s = t

\* rotated_at and the successor row appear together, whatever fails between
\* the UPDATE and the INSERT: no session is cut off by a half rotation.
RotatedHasSuccessor ==
    rotated = {parent[t] : t \in rows} \ {NoToken}

\* A token is exchanged at most once, and never after it was revoked: of the
\* requests that present one cookie at the same time one rotates it, and a
\* logout or a family revoke that races a refresh of the same token either
\* comes first, and the refresh is refused, or finds the successor drawn.
SpentStaysUnused ==
    [][\A s \in rows' \ rows : parent'[s] \notin rotated \cup revoked]_vars

\* Nobody is accused of reuse, and loses all sessions, unless an answer to the
\* user was lost or requests of one browser overlapped: rotations, logouts,
\* expiry, errors of the other browsers of the user never cause it.
ReuseNeedsFault ==
    \A r \in Requests : pc[r] \in {"revoking", "reuse"} => Account[from[r]] \in faulted

\* As long as nothing was lost or overlapped, a token that would still be
\* accepted is the cookie of a browser, on its way to it, or one a browser
\* dropped by another login or after an error: logout and rotation leave
\* none behind.
NoForgottenSession ==
    \A t \in Live :
        \/ owner[t] \in faulted
        \/ t \in abandoned
        \/ \E b \in Browsers : jar[b] = t
        \/ \E r \in Requests : pc[r] \in Answered /\ reply[r] = t

\* Two or more transactions wait for each other's rows: Postgres
\* aborts one of them after deadlock_timeout.
Blocked(r) ==
    /\ pc[r] = "revoking"
    /\ scan[r] # {}
    /\ \A t \in scan[r] : LockedByOther(t, r)

WaitsFor(r, q) == \E t \in scan[r] : t \in Locks(q)

Deadlocked(r) ==
    \E S \in SUBSET Requests :
        /\ r \in S
        /\ \A q \in S :
              /\ Blocked(q)
              /\ \A p \in Requests \ {q} : WaitsFor(q, p) => p \in S
              /\ \E p \in S \ {q} : WaitsFor(p, q)

\* The guards of what the server does for a request.
CanServe(r) ==
    \/ pc[r] \in {"locked", "rotating"}
    \/ pc[r] \in {"refresh", "logout"} /\ ~LockedByOther(token[r], r)
    \/ pc[r] = "revoking" /\ (scan[r] = {} \/ \E t \in scan[r] : ~LockedByOther(t, r))

NobodyWaitsInVain ==
    \A r \in Requests :
        pc[r] # "idle" /\ pc[r] \notin Answered
            => \E q \in Requests : CanServe(q) \/ Deadlocked(q)

\* No request waits for nothing: while one is unanswered, the server can go on
\* with some request, or Postgres sees a deadlock to break.  No transaction
\* keeps a row after its answer, and none waits for a row of its own.
SomeoneGoesOn ==
    /\ \A r \in Requests : CanServe(r) <=> ENABLED Serve(r)
    /\ NobodyWaitsInVain
=============================================================================
