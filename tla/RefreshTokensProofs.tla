------------------------ MODULE RefreshTokensProofs ------------------------
(***************************************************************************)
(* Rotation of refresh tokens, for every number of users, browsers,        *)
(* requests and tokens.                                                    *)
(***************************************************************************)
EXTENDS RefreshTokens, FiniteSetTheorems, WellFoundedInduction, TLAPS

Working == {"refresh", "locked", "rotating"}

\* The cookie an answer sets is in the table; a successor that is drawn is not.
ReplyInv ==
    \A r \in Requests :
        /\ pc[r] \in Answered => reply[r] \in rows \cup {NoToken}
        /\ pc[r] \in {"revoking", "logout"} => reply[r] = NoToken
        /\ pc[r] \in Working /\ reply[r] # NoToken => reply[r] \notin rows
        /\ pc[r] \in Working \cup {"revoking"} => token[r] \in rows

\* No two requests draw the same successor.
DrawnInv ==
    \A r, q \in Requests :
        r # q /\ pc[r] \in Working /\ pc[q] \in Working /\ reply[r] # NoToken
            => reply[r] # reply[q]

\* Row locks exclude each other.
LockInv == \A r, q \in Requests : r # q => Locks(r) \cap Locks(q) = {}

\* The row under rotation stays unspent until the commit.
RotateInv ==
    \A r \in Requests :
        /\ pc[r] = "rotating" => reply[r] # NoToken /\ ~Spent(token[r])
        /\ pc[r] \in {"refresh", "locked"} /\ reply[r] = NoToken
               => Spent(token[r]) \/ token[r] \in expired

ParentInv ==
    /\ OneSuccessor
    /\ RotatedHasSuccessor
    /\ \A t \in Tokens \ rows : parent[t] = NoToken

RInv == TypeOK /\ ReplyInv /\ DrawnInv /\ LockInv /\ RotateInv /\ ParentInv

\* A new token is in no row and in no request.
LEMMA NewIsFresh == FreshTokens # {} => NewToken \in FreshTokens
  BY DEF NewToken

\* The value of from for an idle request is a browser.
LEMMA IdleBrowser == NoBrowser \in Browsers
  BY TokenAssumptions DEF NoBrowser

\* Every step keeps the types.
LEMMA TypeStep ==
  ASSUME RInv, [Next]_vars
  PROVE  TypeOK'
<1> USE TokenAssumptions, IdleBrowser DEF RInv, TypeOK, ReplyInv, table, request, history,
        Cookies, Answered, Working
<1>1. ASSUME NEW r \in Requests, NEW b \in Browsers, Login(r, b) PROVE TypeOK'
  BY <1>1, NewIsFresh DEF Login, Overlap, FreshTokens
<1>2. ASSUME NEW r \in Requests, NEW b \in Browsers, Refresh(r, b) PROVE TypeOK'
  BY <1>2, NewIsFresh DEF Refresh, Send, Overlap, FreshTokens
<1>3. ASSUME NEW r \in Requests, NEW b \in Browsers, Logout(r, b) PROVE TypeOK'
  BY <1>3 DEF Logout, Send, Overlap
<1>4. ASSUME NEW r \in Requests, Lock(r) PROVE TypeOK'
  BY <1>4 DEF Lock
<1>5. ASSUME NEW r \in Requests, Replay(r) PROVE TypeOK'
  BY <1>5 DEF Replay
<1>6. ASSUME NEW r \in Requests, RevokeRow(r) PROVE TypeOK'
  BY <1>6 DEF RevokeRow
<1>7. ASSUME NEW r \in Requests, RevokeCommit(r) PROVE TypeOK'
  BY <1>7 DEF RevokeCommit
<1>8. ASSUME NEW r \in Requests, RefuseExpired(r) PROVE TypeOK'
  BY <1>8 DEF RefuseExpired, Answer
<1>9. ASSUME NEW r \in Requests, Rotate(r) PROVE TypeOK'
  BY <1>9 DEF Rotate
<1>10. ASSUME NEW r \in Requests, RotateCommit(r) PROVE TypeOK'
  <2>1. /\ reply[r] \in Tokens /\ token[r] \in rows
        /\ rows' = rows \cup {reply[r]} /\ rotated' = rotated \cup {token[r]}
        /\ UNCHANGED <<revoked, expired, jar, from, faulted>>
    BY <1>10 DEF RotateCommit, WriteRotation, Answer, RotateInv
  <2>2. owner' \in [Tokens -> Users] /\ parent' \in [Tokens -> Cookies]
    BY <1>10, <2>1 DEF RotateCommit, WriteRotation
  <2>3. /\ pc' \in [Requests -> {"idle", "refresh", "logout", "locked", "rotating", "revoking"}
                                  \cup Answered]
        /\ reply' \in [Requests -> Cookies]
        /\ token' \in [Requests -> rows' \cup {NoToken}]
        /\ sees' \in [Requests -> SUBSET rows'] /\ scan' \in [Requests -> SUBSET rows']
        /\ \A q \in Requests : scan'[q] \subseteq sees'[q]
        /\ abandoned' \subseteq Tokens
    BY <1>10, <2>1 DEF RotateCommit, Answer
  <2> QED
    BY <2>1, <2>2, <2>3
<1>11. ASSUME NEW r \in Requests, LogoutRevoke(r) PROVE TypeOK'
  BY <1>11 DEF LogoutRevoke, Answer
<1>12. ASSUME NEW r \in Requests, Abort(r) PROVE TypeOK'
  BY <1>12 DEF Abort, Answer
<1>13. ASSUME NEW r \in Requests, LogoutFails(r) PROVE TypeOK'
  BY <1>13 DEF LogoutFails, Idle
<1>14. ASSUME NEW r \in Requests, Receive(r) PROVE TypeOK'
  BY <1>14 DEF Receive, Idle
<1>15. ASSUME NEW r \in Requests, LoseAnswer(r) PROVE TypeOK'
  BY <1>15 DEF LoseAnswer, Idle
<1>16. CASE Expire
  BY <1>16 DEF Expire
<1>17. CASE UNCHANGED vars
  BY <1>17 DEF vars
<1> QED
  BY <1>1, <1>2, <1>3, <1>4, <1>5, <1>6, <1>7, <1>8, <1>9, <1>10, <1>11, <1>12, <1>13,
     <1>14, <1>15, <1>16, <1>17 DEF Next, Step, Serve

\* Every step keeps ReplyInv: a successor enters the table with the commit that answers it.
LEMMA ReplyStep ==
  ASSUME RInv, [Next]_vars
  PROVE  ReplyInv'
<1> USE TokenAssumptions DEF RInv, TypeOK, ReplyInv, DrawnInv, RotateInv, Live, Spent,
        table, request, history, Cookies, Answered, Working
<1>1. ASSUME NEW r \in Requests, NEW b \in Browsers, Login(r, b) PROVE ReplyInv'
  BY <1>1, NewIsFresh DEF Login, Overlap, FreshTokens
<1>2. ASSUME NEW r \in Requests, NEW b \in Browsers, Refresh(r, b) PROVE ReplyInv'
  BY <1>2, NewIsFresh DEF Refresh, Send, Overlap, FreshTokens
<1>3. ASSUME NEW r \in Requests, NEW b \in Browsers, Logout(r, b) PROVE ReplyInv'
  BY <1>3 DEF Logout, Send, Overlap
<1>4. ASSUME NEW r \in Requests, Lock(r) PROVE ReplyInv'
  BY <1>4 DEF Lock
<1>5. ASSUME NEW r \in Requests, Replay(r) PROVE ReplyInv'
  BY <1>5 DEF Replay
<1>6. ASSUME NEW r \in Requests, RevokeRow(r) PROVE ReplyInv'
  BY <1>6 DEF RevokeRow
<1>7. ASSUME NEW r \in Requests, RevokeCommit(r) PROVE ReplyInv'
  BY <1>7 DEF RevokeCommit
<1>8. ASSUME NEW r \in Requests, RefuseExpired(r) PROVE ReplyInv'
  BY <1>8 DEF RefuseExpired, Answer
<1>9. ASSUME NEW r \in Requests, Rotate(r) PROVE ReplyInv'
  BY <1>9 DEF Rotate
<1>10. ASSUME NEW r \in Requests, RotateCommit(r) PROVE ReplyInv'
  BY <1>10 DEF RotateCommit, WriteRotation, Answer
<1>11. ASSUME NEW r \in Requests, LogoutRevoke(r) PROVE ReplyInv'
  BY <1>11 DEF LogoutRevoke, Answer
<1>12. ASSUME NEW r \in Requests, Abort(r) PROVE ReplyInv'
  BY <1>12 DEF Abort, Answer
<1>13. ASSUME NEW r \in Requests, LogoutFails(r) PROVE ReplyInv'
  BY <1>13 DEF LogoutFails, Idle
<1>14. ASSUME NEW r \in Requests, Receive(r) PROVE ReplyInv'
  BY <1>14 DEF Receive, Idle
<1>15. ASSUME NEW r \in Requests, LoseAnswer(r) PROVE ReplyInv'
  BY <1>15 DEF LoseAnswer, Idle
<1>16. CASE Expire
  BY <1>16 DEF Expire
<1>17. CASE UNCHANGED vars
  BY <1>17 DEF vars
<1> QED
  BY <1>1, <1>2, <1>3, <1>4, <1>5, <1>6, <1>7, <1>8, <1>9, <1>10, <1>11, <1>12, <1>13,
     <1>14, <1>15, <1>16, <1>17 DEF Next, Step, Serve

\* Only Refresh draws a successor, and it draws a new one.
LEMMA DrawnStep ==
  ASSUME RInv, [Next]_vars
  PROVE  DrawnInv'
<1> USE TokenAssumptions DEF RInv, TypeOK, ReplyInv, DrawnInv, table, request, history,
        Cookies, Answered, Working
<1>1. ASSUME NEW r \in Requests, NEW b \in Browsers, Login(r, b) PROVE DrawnInv'
  BY <1>1, NewIsFresh DEF Login, Overlap, FreshTokens
<1>2. ASSUME NEW r \in Requests, NEW b \in Browsers, Refresh(r, b) PROVE DrawnInv'
  BY <1>2, NewIsFresh DEF Refresh, Send, Overlap, FreshTokens
<1>3. ASSUME NEW r \in Requests, NEW b \in Browsers, Logout(r, b) PROVE DrawnInv'
  BY <1>3 DEF Logout, Send, Overlap
<1>4. ASSUME NEW r \in Requests, Lock(r) PROVE DrawnInv'
  BY <1>4 DEF Lock
<1>5. ASSUME NEW r \in Requests, Replay(r) PROVE DrawnInv'
  BY <1>5 DEF Replay
<1>6. ASSUME NEW r \in Requests, RevokeRow(r) PROVE DrawnInv'
  BY <1>6 DEF RevokeRow
<1>7. ASSUME NEW r \in Requests, RevokeCommit(r) PROVE DrawnInv'
  BY <1>7 DEF RevokeCommit
<1>8. ASSUME NEW r \in Requests, RefuseExpired(r) PROVE DrawnInv'
  BY <1>8 DEF RefuseExpired, Answer
<1>9. ASSUME NEW r \in Requests, Rotate(r) PROVE DrawnInv'
  BY <1>9 DEF Rotate
<1>10. ASSUME NEW r \in Requests, RotateCommit(r) PROVE DrawnInv'
  BY <1>10 DEF RotateCommit, WriteRotation, Answer
<1>11. ASSUME NEW r \in Requests, LogoutRevoke(r) PROVE DrawnInv'
  BY <1>11 DEF LogoutRevoke, Answer
<1>12. ASSUME NEW r \in Requests, Abort(r) PROVE DrawnInv'
  BY <1>12 DEF Abort, Answer
<1>13. ASSUME NEW r \in Requests, LogoutFails(r) PROVE DrawnInv'
  BY <1>13 DEF LogoutFails, Idle
<1>14. ASSUME NEW r \in Requests, Receive(r) PROVE DrawnInv'
  BY <1>14 DEF Receive, Idle
<1>15. ASSUME NEW r \in Requests, LoseAnswer(r) PROVE DrawnInv'
  BY <1>15 DEF LoseAnswer, Idle
<1>16. CASE Expire
  BY <1>16 DEF Expire
<1>17. CASE UNCHANGED vars
  BY <1>17 DEF vars
<1> QED
  BY <1>1, <1>2, <1>3, <1>4, <1>5, <1>6, <1>7, <1>8, <1>9, <1>10, <1>11, <1>12, <1>13,
     <1>14, <1>15, <1>16, <1>17 DEF Next, Step, Serve

\* Giving up locks, or locking a row that nobody else holds, keeps LockInv.
LEMMA FewerLocks ==
  ASSUME LockInv, \A q \in Requests : Locks(q)' \subseteq Locks(q)
  PROVE  LockInv'
  BY DEF LockInv

LEMMA OneMoreLock ==
  ASSUME LockInv, NEW r \in Requests, NEW t, ~LockedByOther(t, r),
         Locks(r)' \subseteq Locks(r) \cup {t},
         \A q \in Requests \ {r} : Locks(q)' \subseteq Locks(q)
  PROVE  LockInv'
  BY DEF LockInv, LockedByOther

\* A request that leaves the transaction gives up its locks.
LEMMA Unlocks ==
  ASSUME LockInv, NEW r \in Requests, revoked \subseteq revoked',
         pc'[r] \notin {"locked", "rotating", "revoking"},
         \A q \in Requests \ {r} : /\ pc'[q] = pc[q] /\ token'[q] = token[q]
                                   /\ sees'[q] = sees[q] /\ scan'[q] = scan[q]
  PROVE  LockInv'
<1>1. \A q \in Requests : Locks(q)' \subseteq Locks(q)
  BY DEF Locks
<1> QED BY <1>1, FewerLocks

\* Lock and RevokeRow take locks; every other step gives up locks or keeps them.
LEMMA LockStep ==
  ASSUME RInv, [Next]_vars
  PROVE  LockInv'
<1> USE DEF table, request, history
<1>0. LockInv /\ TypeOK
  BY DEF RInv
<1>1. ASSUME NEW r \in Requests, NEW b \in Browsers,
             Login(r, b) \/ Refresh(r, b) \/ Logout(r, b)
      PROVE LockInv'
  BY <1>0, <1>1, Unlocks DEF Login, Refresh, Logout, Send, TypeOK
<1>2. ASSUME NEW r \in Requests, Lock(r) PROVE LockInv'
  <2>1. Locks(r)' \subseteq Locks(r) \cup {token[r]} /\ ~LockedByOther(token[r], r)
    BY <1>0, <1>2 DEF Lock, Locks, TypeOK
  <2>2. \A q \in Requests \ {r} : Locks(q)' \subseteq Locks(q)
    BY <1>0, <1>2 DEF Lock, Locks, TypeOK
  <2> QED BY <1>0, <2>1, <2>2, OneMoreLock
<1>3. ASSUME NEW r \in Requests, Replay(r) \/ Rotate(r) PROVE LockInv'
  <2>1. \A q \in Requests : Locks(q)' \subseteq Locks(q)
    BY <1>0, <1>3 DEF Replay, Rotate, Locks, TypeOK
  <2> QED BY <1>0, <2>1, FewerLocks
<1>4. ASSUME NEW r \in Requests, RevokeRow(r) PROVE LockInv'
  <2>1. PICK t \in scan[r] : ~LockedByOther(t, r) /\ scan' = [scan EXCEPT ![r] = @ \ {t}]
    BY <1>4 DEF RevokeRow
  <2>2. pc' = pc /\ token' = token /\ sees' = sees /\ revoked' = revoked
    BY <1>4 DEF RevokeRow
  <2>3. Locks(r)' \subseteq Locks(r) \cup {t}
    BY <1>0, <1>4, <2>1, <2>2 DEF RevokeRow, Locks, TypeOK
  <2>4. \A q \in Requests \ {r} : Locks(q)' \subseteq Locks(q)
    BY <1>0, <2>1, <2>2 DEF Locks, TypeOK
  <2> QED BY <1>0, <2>1, <2>3, <2>4, OneMoreLock
<1>5. ASSUME NEW r \in Requests, RevokeCommit(r) PROVE LockInv'
  <2>1. pc' = [pc EXCEPT ![r] = "reuse"] \/ pc' = [pc EXCEPT ![r] = "failed"]
    BY <1>5 DEF RevokeCommit
  <2>2. /\ revoked \subseteq revoked' /\ UNCHANGED <<sees, scan>>
        /\ token' = [token EXCEPT ![r] = NoToken]
    BY <1>5 DEF RevokeCommit
  <2> QED BY <1>0, <2>1, <2>2, Unlocks DEF TypeOK
<1>6. ASSUME NEW r \in Requests, RefuseExpired(r) \/ Abort(r) PROVE LockInv'
  BY <1>0, <1>6, Unlocks DEF RefuseExpired, Abort, Answer, TypeOK
<1>7. ASSUME NEW r \in Requests, RotateCommit(r) PROVE LockInv'
  <2>1. \E how \in {"ok", "failed"}, cookie \in {reply[r], NoToken} : Answer(r, how, cookie)
    BY <1>7 DEF RotateCommit
  <2>2. revoked' = revoked
    BY <1>7 DEF RotateCommit, WriteRotation
  <2> QED BY <1>0, <2>1, <2>2, Unlocks DEF Answer, TypeOK
<1>8. ASSUME NEW r \in Requests, LogoutRevoke(r) PROVE LockInv'
  BY <1>0, <1>8, Unlocks DEF LogoutRevoke, Answer, TypeOK
<1>9. ASSUME NEW r \in Requests, LogoutFails(r) \/ Receive(r) \/ LoseAnswer(r) PROVE LockInv'
  <2>1. Idle(r)
    BY <1>9 DEF LogoutFails, Receive, LoseAnswer
  <2> QED BY <1>0, <2>1, Unlocks DEF Idle, TypeOK
<1>10. CASE Expire \/ UNCHANGED vars
  <2>1. \A q \in Requests : Locks(q)' \subseteq Locks(q)
    BY <1>10 DEF Expire, vars, Locks
  <2> QED BY <1>0, <2>1, FewerLocks
<1> QED
  BY <1>1, <1>2, <1>3, <1>4, <1>5, <1>6, <1>7, <1>8, <1>9, <1>10 DEF Next, Step, Serve

\* A logout or a family revoke waits for the row under rotation.
LEMMA RotateStep ==
  ASSUME RInv, [Next]_vars
  PROVE  RotateInv'
<1> USE TokenAssumptions DEF RInv, TypeOK, ReplyInv, RotateInv, LockInv, Locks,
        LockedByOther, Live, Spent, table, request, history, Cookies, Answered, Working
<1>1. ASSUME NEW r \in Requests, NEW b \in Browsers, Login(r, b) PROVE RotateInv'
  BY <1>1, NewIsFresh DEF Login, Overlap, FreshTokens
<1>2. ASSUME NEW r \in Requests, NEW b \in Browsers, Refresh(r, b) PROVE RotateInv'
  BY <1>2, NewIsFresh DEF Refresh, Send, Overlap, FreshTokens
<1>3. ASSUME NEW r \in Requests, NEW b \in Browsers, Logout(r, b) PROVE RotateInv'
  BY <1>3 DEF Logout, Send, Overlap
<1>4. ASSUME NEW r \in Requests, Lock(r) PROVE RotateInv'
  BY <1>4 DEF Lock
<1>5. ASSUME NEW r \in Requests, Replay(r) PROVE RotateInv'
  BY <1>5 DEF Replay
<1>6. ASSUME NEW r \in Requests, RevokeRow(r) PROVE RotateInv'
  BY <1>6 DEF RevokeRow
<1>7. ASSUME NEW r \in Requests, RevokeCommit(r) PROVE RotateInv'
  BY <1>7 DEF RevokeCommit
<1>8. ASSUME NEW r \in Requests, RefuseExpired(r) PROVE RotateInv'
  BY <1>8 DEF RefuseExpired, Answer
<1>9. ASSUME NEW r \in Requests, Rotate(r) PROVE RotateInv'
  BY <1>9 DEF Rotate
<1>10. ASSUME NEW r \in Requests, RotateCommit(r) PROVE RotateInv'
  BY <1>10 DEF RotateCommit, WriteRotation, Answer
<1>11. ASSUME NEW r \in Requests, LogoutRevoke(r) PROVE RotateInv'
  BY <1>11 DEF LogoutRevoke, Answer
<1>12. ASSUME NEW r \in Requests, Abort(r) PROVE RotateInv'
  BY <1>12 DEF Abort, Answer
<1>13. ASSUME NEW r \in Requests, LogoutFails(r) PROVE RotateInv'
  BY <1>13 DEF LogoutFails, Idle
<1>14. ASSUME NEW r \in Requests, Receive(r) PROVE RotateInv'
  BY <1>14 DEF Receive, Idle
<1>15. ASSUME NEW r \in Requests, LoseAnswer(r) PROVE RotateInv'
  BY <1>15 DEF LoseAnswer, Idle
<1>16. CASE Expire
  BY <1>16 DEF Expire
<1>17. CASE UNCHANGED vars
  BY <1>17 DEF vars
<1> QED
  BY <1>1, <1>2, <1>3, <1>4, <1>5, <1>6, <1>7, <1>8, <1>9, <1>10, <1>11, <1>12, <1>13,
     <1>14, <1>15, <1>16, <1>17 DEF Next, Step, Serve

\* Only RotateCommit writes parent and rotated, and both together.
LEMMA ParentStep ==
  ASSUME RInv, [Next]_vars
  PROVE  ParentInv'
<1> USE TokenAssumptions DEF RInv, TypeOK, ReplyInv, RotateInv, ParentInv, OneSuccessor,
        RotatedHasSuccessor, Spent, table, request, history, Cookies, Answered, Working
<1>1. ASSUME NEW r \in Requests, NEW b \in Browsers, Login(r, b) PROVE ParentInv'
  BY <1>1, NewIsFresh DEF Login, Overlap, FreshTokens
<1>2. ASSUME NEW r \in Requests, NEW b \in Browsers, Refresh(r, b) PROVE ParentInv'
  BY <1>2, NewIsFresh DEF Refresh, Send, Overlap, FreshTokens
<1>3. ASSUME NEW r \in Requests, NEW b \in Browsers, Logout(r, b) PROVE ParentInv'
  BY <1>3 DEF Logout, Send, Overlap
<1>4. ASSUME NEW r \in Requests, Lock(r) PROVE ParentInv'
  BY <1>4 DEF Lock
<1>5. ASSUME NEW r \in Requests, Replay(r) PROVE ParentInv'
  BY <1>5 DEF Replay
<1>6. ASSUME NEW r \in Requests, RevokeRow(r) PROVE ParentInv'
  BY <1>6 DEF RevokeRow
<1>7. ASSUME NEW r \in Requests, RevokeCommit(r) PROVE ParentInv'
  BY <1>7 DEF RevokeCommit
<1>8. ASSUME NEW r \in Requests, RefuseExpired(r) PROVE ParentInv'
  BY <1>8 DEF RefuseExpired, Answer
<1>9. ASSUME NEW r \in Requests, Rotate(r) PROVE ParentInv'
  BY <1>9 DEF Rotate
<1>10. ASSUME NEW r \in Requests, RotateCommit(r) PROVE ParentInv'
  BY <1>10 DEF RotateCommit, WriteRotation, Answer
<1>11. ASSUME NEW r \in Requests, LogoutRevoke(r) PROVE ParentInv'
  BY <1>11 DEF LogoutRevoke, Answer
<1>12. ASSUME NEW r \in Requests, Abort(r) PROVE ParentInv'
  BY <1>12 DEF Abort, Answer
<1>13. ASSUME NEW r \in Requests, LogoutFails(r) PROVE ParentInv'
  BY <1>13 DEF LogoutFails, Idle
<1>14. ASSUME NEW r \in Requests, Receive(r) PROVE ParentInv'
  BY <1>14 DEF Receive, Idle
<1>15. ASSUME NEW r \in Requests, LoseAnswer(r) PROVE ParentInv'
  BY <1>15 DEF LoseAnswer, Idle
<1>16. CASE Expire
  BY <1>16 DEF Expire
<1>17. CASE UNCHANGED vars
  BY <1>17 DEF vars
<1> QED
  BY <1>1, <1>2, <1>3, <1>4, <1>5, <1>6, <1>7, <1>8, <1>9, <1>10, <1>11, <1>12, <1>13,
     <1>14, <1>15, <1>16, <1>17 DEF Next, Step, Serve

LEMMA RotationInit == Init => RInv
  BY TokenAssumptions, IdleBrowser
     DEF Init, RInv, TypeOK, ReplyInv, DrawnInv, LockInv, RotateInv, ParentInv, OneSuccessor,
         RotatedHasSuccessor, Locks, Cookies, Answered, Working, NoBrowser

\* The inductive invariant of rotation.
THEOREM RotationInvariant == Spec => []RInv
<1>1. Init => RInv
  BY RotationInit
<1>2. RInv /\ [Next]_vars => RInv'
  BY TypeStep, ReplyStep, DrawnStep, LockStep, RotateStep, ParentStep DEF RInv
<1> QED
  BY <1>1, <1>2, PTL DEF Spec

\* A browser uses a token that is its cookie or that a request of it carries.
Holds(b, t) ==
    \/ jar[b] = t
    \/ \E r \in Requests : from[r] = b /\ (token[r] = t \/ reply[r] = t)

\* Two browsers never use the same token.
HoldInv == \A b, c \in Browsers, t \in Tokens : Holds(b, t) /\ Holds(c, t) => b = c

\* What a browser uses, and what its family revoke has found, is its user's.
OwnerInv ==
    /\ \A b \in Browsers : jar[b] # NoToken => owner[jar[b]] = Account[b]
    /\ \A r \in Requests :
          /\ pc[r] = "idle" => token[r] = NoToken /\ reply[r] = NoToken
          /\ token[r] # NoToken => owner[token[r]] = Account[from[r]]
          /\ reply[r] \in rows => owner[reply[r]] = Account[from[r]]
          /\ pc[r] = "revoking" => \A t \in sees[r] : owner[t] = Account[from[r]]

\* A browser whose user met no fault has one request at a time, and the token
\* it would present next is not spent.
CalmInv ==
    \A b \in Browsers : Account[b] \notin faulted =>
        /\ \A r, q \in Requests :
              pc[r] # "idle" /\ pc[q] # "idle" /\ from[r] = b /\ from[q] = b => r = q
        /\ (\A r \in Requests : pc[r] # "idle" => from[r] # b) => ~Spent(jar[b])
        /\ \A r \in Requests : pc[r] # "idle" /\ from[r] = b =>
              /\ pc[r] \notin {"revoking", "reuse"}
              /\ pc[r] \in Working \cup {"logout"} => token[r] = jar[b] /\ ~Spent(jar[b])
              /\ pc[r] \in Answered => ~Spent(reply[r])

\* Once such a request is answered, the token it presented is no longer good.
DoneInv ==
    \A r \in Requests :
        Account[from[r]] \notin faulted /\ pc[r] \in {"ok", "bye", "stale"}
            => jar[from[r]] \notin Live

UInv == RInv /\ HoldInv /\ OwnerInv /\ CalmInv /\ DoneInv /\ NoForgottenSession

\* A browser comes to use a token that is new, or keeps what it used.
LEMMA HoldStep ==
  ASSUME UInv, [Next]_vars
  PROVE  HoldInv'
<1> USE TokenAssumptions, IdleBrowser DEF UInv, RInv, TypeOK, HoldInv, Holds, ReplyInv,
        OwnerInv, table, request, history, Cookies, Answered, Working
<1>1. ASSUME NEW r \in Requests, NEW b \in Browsers, Login(r, b) PROVE HoldInv'
  BY <1>1, NewIsFresh DEF Login, Overlap, FreshTokens
<1>2. ASSUME NEW r \in Requests, NEW b \in Browsers, Refresh(r, b) PROVE HoldInv'
  <2>1. /\ jar' = jar /\ from'[r] = b /\ token'[r] = jar[b]
        /\ \A q \in Requests \ {r} : /\ from'[q] = from[q] /\ token'[q] = token[q]
                                      /\ reply'[q] = reply[q]
    BY <1>2 DEF Refresh, Send
  <2>2. reply'[r] = NoToken \/ (reply'[r] = NewToken /\ FreshTokens # {})
    BY <1>2 DEF Refresh, Send
  <2>3. FreshTokens # {} => \A c \in Browsers : ~Holds(c, NewToken)
    BY NewIsFresh DEF FreshTokens
  <2>4. \A c \in Browsers, t \in Tokens : Holds(c, t)' => Holds(c, t) \/ (c = b /\ t = reply'[r])
    BY <2>1
  <2> HIDE DEF Holds
  <2> QED BY <2>2, <2>3, <2>4
<1>3. ASSUME NEW r \in Requests, NEW b \in Browsers, Logout(r, b) PROVE HoldInv'
  BY <1>3 DEF Logout, Send, Overlap
<1>4. ASSUME NEW r \in Requests, Lock(r) PROVE HoldInv'
  BY <1>4 DEF Lock
<1>5. ASSUME NEW r \in Requests, Replay(r) PROVE HoldInv'
  BY <1>5 DEF Replay
<1>6. ASSUME NEW r \in Requests, RevokeRow(r) PROVE HoldInv'
  BY <1>6 DEF RevokeRow
<1>7. ASSUME NEW r \in Requests, RevokeCommit(r) PROVE HoldInv'
  BY <1>7 DEF RevokeCommit
<1>8. ASSUME NEW r \in Requests, RefuseExpired(r) PROVE HoldInv'
  BY <1>8 DEF RefuseExpired, Answer
<1>9. ASSUME NEW r \in Requests, Rotate(r) PROVE HoldInv'
  BY <1>9 DEF Rotate
<1>10. ASSUME NEW r \in Requests, RotateCommit(r) PROVE HoldInv'
  BY <1>10 DEF RotateCommit, WriteRotation, Answer
<1>11. ASSUME NEW r \in Requests, LogoutRevoke(r) PROVE HoldInv'
  BY <1>11 DEF LogoutRevoke, Answer
<1>12. ASSUME NEW r \in Requests, Abort(r) PROVE HoldInv'
  BY <1>12 DEF Abort, Answer
<1>13. ASSUME NEW r \in Requests, LogoutFails(r) PROVE HoldInv'
  BY <1>13 DEF LogoutFails, Idle
<1>14. ASSUME NEW r \in Requests, Receive(r) PROVE HoldInv'
  BY <1>14 DEF Receive, Idle
<1>15. ASSUME NEW r \in Requests, LoseAnswer(r) PROVE HoldInv'
  BY <1>15 DEF LoseAnswer, Idle
<1>16. CASE Expire
  BY <1>16 DEF Expire
<1>17. CASE UNCHANGED vars
  BY <1>17 DEF vars
<1> QED
  BY <1>1, <1>2, <1>3, <1>4, <1>5, <1>6, <1>7, <1>8, <1>9, <1>10, <1>11, <1>12, <1>13,
     <1>14, <1>15, <1>16, <1>17 DEF Next, Step, Serve

\* The owner of a row never changes.
LEMMA OwnerStep ==
  ASSUME UInv, [Next]_vars
  PROVE  OwnerInv'
<1> USE TokenAssumptions, IdleBrowser DEF UInv, RInv, TypeOK, ReplyInv, DrawnInv,
        RotateInv, OwnerInv, table, request, history, Cookies, Answered, Working
<1>1. ASSUME NEW r \in Requests, NEW b \in Browsers, Login(r, b) PROVE OwnerInv'
  BY <1>1, NewIsFresh DEF Login, Overlap, FreshTokens
<1>2. ASSUME NEW r \in Requests, NEW b \in Browsers, Refresh(r, b) PROVE OwnerInv'
  BY <1>2, NewIsFresh DEF Refresh, Send, Overlap, FreshTokens
<1>3. ASSUME NEW r \in Requests, NEW b \in Browsers, Logout(r, b) PROVE OwnerInv'
  BY <1>3 DEF Logout, Send, Overlap
<1>4. ASSUME NEW r \in Requests, Lock(r) PROVE OwnerInv'
  BY <1>4 DEF Lock
<1>5. ASSUME NEW r \in Requests, Replay(r) PROVE OwnerInv'
  BY <1>5 DEF Replay
<1>6. ASSUME NEW r \in Requests, RevokeRow(r) PROVE OwnerInv'
  BY <1>6 DEF RevokeRow
<1>7. ASSUME NEW r \in Requests, RevokeCommit(r) PROVE OwnerInv'
  BY <1>7 DEF RevokeCommit
<1>8. ASSUME NEW r \in Requests, RefuseExpired(r) PROVE OwnerInv'
  BY <1>8 DEF RefuseExpired, Answer
<1>9. ASSUME NEW r \in Requests, Rotate(r) PROVE OwnerInv'
  BY <1>9 DEF Rotate
<1>10. ASSUME NEW r \in Requests, RotateCommit(r) PROVE OwnerInv'
  BY <1>10 DEF RotateCommit, WriteRotation, Answer
<1>11. ASSUME NEW r \in Requests, LogoutRevoke(r) PROVE OwnerInv'
  BY <1>11 DEF LogoutRevoke, Answer
<1>12. ASSUME NEW r \in Requests, Abort(r) PROVE OwnerInv'
  BY <1>12 DEF Abort, Answer
<1>13. ASSUME NEW r \in Requests, LogoutFails(r) PROVE OwnerInv'
  BY <1>13 DEF LogoutFails, Idle
<1>14. ASSUME NEW r \in Requests, Receive(r) PROVE OwnerInv'
  BY <1>14 DEF Receive, Idle
<1>15. ASSUME NEW r \in Requests, LoseAnswer(r) PROVE OwnerInv'
  BY <1>15 DEF LoseAnswer, Idle
<1>16. CASE Expire
  BY <1>16 DEF Expire
<1>17. CASE UNCHANGED vars
  BY <1>17 DEF vars
<1> QED
  BY <1>1, <1>2, <1>3, <1>4, <1>5, <1>6, <1>7, <1>8, <1>9, <1>10, <1>11, <1>12, <1>13,
     <1>14, <1>15, <1>16, <1>17 DEF Next, Step, Serve

\* The token of a request is nothing to the other browsers.
LEMMA NotShared ==
  ASSUME UInv, NEW r \in Requests, token[r] # NoToken, NEW b \in Browsers \ {from[r]}
  PROVE  jar[b] # token[r] /\ \A q \in Requests : from[q] = b => reply[q] # token[r]
<1>1. token[r] \in Tokens /\ Holds(from[r], token[r]) /\ from[r] \in Browsers
  BY DEF UInv, RInv, TypeOK, Holds
<1>2. ~Holds(b, token[r])
  BY <1>1 DEF UInv, HoldInv
<1> QED
  BY <1>2 DEF Holds

\* A step of another browser spends no token of this one; its own steps spend what they replace.
LEMMA CalmStep ==
  ASSUME UInv, [Next]_vars
  PROVE  CalmInv'
<1> USE TokenAssumptions, IdleBrowser DEF UInv, RInv, TypeOK, ReplyInv, OwnerInv, CalmInv,
        Spent, table, request, history, Cookies, Answered, Working
<1>1. ASSUME NEW r \in Requests, NEW b \in Browsers, Login(r, b) PROVE CalmInv'
  BY <1>1, NewIsFresh DEF Login, Overlap, FreshTokens
<1>2. ASSUME NEW r \in Requests, NEW b \in Browsers, Refresh(r, b) PROVE CalmInv'
  <2>1. /\ pc[r] = "idle" /\ pc' = [pc EXCEPT ![r] = "refresh"]
        /\ from' = [from EXCEPT ![r] = b] /\ token' = [token EXCEPT ![r] = jar[b]]
        /\ \A q \in Requests \ {r} : reply'[q] = reply[q]
        /\ UNCHANGED <<rotated, revoked, jar>>
    BY <1>2 DEF Refresh, Send
  <2>2. /\ faulted \subseteq faulted'
        /\ Account[b] \notin faulted' => \A q \in Requests : pc[q] # "idle" => from[q] # b
    BY <1>2 DEF Refresh, Send, Overlap
  <2> QED BY <2>1, <2>2
<1>3. ASSUME NEW r \in Requests, NEW b \in Browsers, Logout(r, b) PROVE CalmInv'
  BY <1>3 DEF Logout, Send, Overlap
<1>4. ASSUME NEW r \in Requests, Lock(r) PROVE CalmInv'
  BY <1>4 DEF Lock
<1>5. ASSUME NEW r \in Requests, Replay(r) PROVE CalmInv'
  BY <1>5 DEF Replay
<1>6. ASSUME NEW r \in Requests, RevokeRow(r) PROVE CalmInv'
  BY <1>6 DEF RevokeRow
<1>7. ASSUME NEW r \in Requests, RevokeCommit(r) PROVE CalmInv'
  BY <1>7 DEF RevokeCommit
<1>8. ASSUME NEW r \in Requests, RefuseExpired(r) PROVE CalmInv'
  BY <1>8 DEF RefuseExpired, Answer
<1>9. ASSUME NEW r \in Requests, Rotate(r) PROVE CalmInv'
  BY <1>9 DEF Rotate
<1>10. ASSUME NEW r \in Requests, RotateCommit(r) PROVE CalmInv'
  <2>1. /\ rotated' = rotated \cup {token[r]} /\ pc[r] = "rotating"
        /\ UNCHANGED <<revoked, jar, from, faulted>>
        /\ token[r] \in rows /\ reply[r] \notin rows
    BY <1>10 DEF RotateInv, RotateCommit, WriteRotation, Answer
  <2>2. /\ pc'[r] \in {"ok", "failed"} /\ reply'[r] \in {reply[r], NoToken}
        /\ \A q \in Requests \ {r} : /\ pc'[q] = pc[q] /\ token'[q] = token[q]
                                      /\ reply'[q] = reply[q]
    BY <1>10 DEF RotateCommit, Answer
  <2>3. \A c \in Browsers \ {from[r]} :
           jar[c] # token[r] /\ \A q \in Requests : from[q] = c => reply[q] # token[r]
    BY <2>1, NotShared
  <2>4. /\ reply[r] \notin rotated \cup revoked /\ NoToken \notin rotated \cup revoked
        /\ reply[r] # token[r] /\ NoToken # token[r]
    BY <2>1
  <2>5. reply'[r] \notin rotated' \cup revoked'
    BY <2>1, <2>2, <2>4
  <2> QED BY <2>1, <2>2, <2>3, <2>5
<1>11. ASSUME NEW r \in Requests, LogoutRevoke(r) PROVE CalmInv'
  BY <1>11, NotShared DEF LogoutRevoke, Answer
<1>12. ASSUME NEW r \in Requests, Abort(r) PROVE CalmInv'
  BY <1>12 DEF Abort, Answer
<1>13. ASSUME NEW r \in Requests, LogoutFails(r) PROVE CalmInv'
  BY <1>13 DEF LogoutFails, Idle
<1>14. ASSUME NEW r \in Requests, Receive(r) PROVE CalmInv'
  BY <1>14 DEF Receive, Idle
<1>15. ASSUME NEW r \in Requests, LoseAnswer(r) PROVE CalmInv'
  BY <1>15 DEF LoseAnswer, Idle
<1>16. CASE Expire
  BY <1>16 DEF Expire
<1>17. CASE UNCHANGED vars
  BY <1>17 DEF vars
<1> QED
  BY <1>1, <1>2, <1>3, <1>4, <1>5, <1>6, <1>7, <1>8, <1>9, <1>10, <1>11, <1>12, <1>13,
     <1>14, <1>15, <1>16, <1>17 DEF Next, Step, Serve

\* A good answer is given only after the token it replaces was spent or has expired.
LEMMA DoneStep ==
  ASSUME UInv, [Next]_vars
  PROVE  DoneInv'
<1> USE TokenAssumptions, IdleBrowser DEF UInv, RInv, TypeOK, ReplyInv, OwnerInv, CalmInv,
        DoneInv, Live, table, request, history, Cookies, Answered, Working
<1>1. ASSUME NEW r \in Requests, NEW b \in Browsers, Login(r, b) PROVE DoneInv'
  BY <1>1, NewIsFresh DEF Login, Overlap, FreshTokens
<1>2. ASSUME NEW r \in Requests, NEW b \in Browsers, Refresh(r, b) PROVE DoneInv'
  BY <1>2, NewIsFresh DEF Refresh, Send, Overlap, FreshTokens
<1>3. ASSUME NEW r \in Requests, NEW b \in Browsers, Logout(r, b) PROVE DoneInv'
  BY <1>3 DEF Logout, Send, Overlap
<1>4. ASSUME NEW r \in Requests, Lock(r) PROVE DoneInv'
  BY <1>4 DEF Lock
<1>5. ASSUME NEW r \in Requests, Replay(r) PROVE DoneInv'
  BY <1>5 DEF Replay
<1>6. ASSUME NEW r \in Requests, RevokeRow(r) PROVE DoneInv'
  BY <1>6 DEF RevokeRow
<1>7. ASSUME NEW r \in Requests, RevokeCommit(r) PROVE DoneInv'
  BY <1>7 DEF RevokeCommit
<1>8. ASSUME NEW r \in Requests, RefuseExpired(r) PROVE DoneInv'
  BY <1>8 DEF RefuseExpired, Answer
<1>9. ASSUME NEW r \in Requests, Rotate(r) PROVE DoneInv'
  BY <1>9 DEF Rotate
<1>10. ASSUME NEW r \in Requests, RotateCommit(r) PROVE DoneInv'
  BY <1>10 DEF RotateInv, RotateCommit, WriteRotation, Answer
<1>11. ASSUME NEW r \in Requests, LogoutRevoke(r) PROVE DoneInv'
  BY <1>11 DEF LogoutRevoke, Answer
<1>12. ASSUME NEW r \in Requests, Abort(r) PROVE DoneInv'
  BY <1>12 DEF Abort, Answer
<1>13. ASSUME NEW r \in Requests, LogoutFails(r) PROVE DoneInv'
  BY <1>13 DEF LogoutFails, Idle
<1>14. ASSUME NEW r \in Requests, Receive(r) PROVE DoneInv'
  BY <1>14 DEF Receive, Idle
<1>15. ASSUME NEW r \in Requests, LoseAnswer(r) PROVE DoneInv'
  BY <1>15 DEF LoseAnswer, Idle
<1>16. CASE Expire
  BY <1>16 DEF Expire
<1>17. CASE UNCHANGED vars
  BY <1>17 DEF vars
<1> QED
  BY <1>1, <1>2, <1>3, <1>4, <1>5, <1>6, <1>7, <1>8, <1>9, <1>10, <1>11, <1>12, <1>13,
     <1>14, <1>15, <1>16, <1>17 DEF Next, Step, Serve

\* A token leaves the cookie spent, expired or abandoned.
LEMMA SessionStep ==
  ASSUME UInv, [Next]_vars
  PROVE  NoForgottenSession'
<1> USE TokenAssumptions, IdleBrowser DEF UInv, RInv, TypeOK, ReplyInv, OwnerInv, CalmInv,
        DoneInv, NoForgottenSession, Live, table, request, history, Cookies, Answered,
        Working
<1>1. ASSUME NEW r \in Requests, NEW b \in Browsers, Login(r, b) PROVE NoForgottenSession'
  BY <1>1, NewIsFresh DEF Login, Overlap, FreshTokens
<1>2. ASSUME NEW r \in Requests, NEW b \in Browsers, Refresh(r, b) PROVE NoForgottenSession'
  <2>1. /\ pc[r] = "idle" /\ faulted \subseteq faulted'
        /\ UNCHANGED <<rows, rotated, revoked, expired, owner, jar, abandoned>>
        /\ \A q \in Requests \ {r} : pc'[q] = pc[q] /\ reply'[q] = reply[q]
    BY <1>2 DEF Refresh, Send, Overlap
  <2> QED
    BY <2>1
<1>3. ASSUME NEW r \in Requests, NEW b \in Browsers, Logout(r, b) PROVE NoForgottenSession'
  BY <1>3 DEF Logout, Send, Overlap
<1>4. ASSUME NEW r \in Requests, Lock(r) PROVE NoForgottenSession'
  BY <1>4 DEF Lock
<1>5. ASSUME NEW r \in Requests, Replay(r) PROVE NoForgottenSession'
  BY <1>5 DEF Replay
<1>6. ASSUME NEW r \in Requests, RevokeRow(r) PROVE NoForgottenSession'
  BY <1>6 DEF RevokeRow
<1>7. ASSUME NEW r \in Requests, RevokeCommit(r) PROVE NoForgottenSession'
  BY <1>7 DEF RevokeCommit
<1>8. ASSUME NEW r \in Requests, RefuseExpired(r) PROVE NoForgottenSession'
  BY <1>8 DEF RefuseExpired, Answer
<1>9. ASSUME NEW r \in Requests, Rotate(r) PROVE NoForgottenSession'
  BY <1>9 DEF Rotate
<1>10. ASSUME NEW r \in Requests, RotateCommit(r) PROVE NoForgottenSession'
  BY <1>10 DEF RotateCommit, WriteRotation, Answer
<1>11. ASSUME NEW r \in Requests, LogoutRevoke(r) PROVE NoForgottenSession'
  BY <1>11 DEF LogoutRevoke, Answer
<1>12. ASSUME NEW r \in Requests, Abort(r) PROVE NoForgottenSession'
  BY <1>12 DEF Abort, Answer
<1>13. ASSUME NEW r \in Requests, LogoutFails(r) PROVE NoForgottenSession'
  BY <1>13 DEF LogoutFails, Idle
<1>14. ASSUME NEW r \in Requests, Receive(r) PROVE NoForgottenSession'
  BY <1>14 DEF Receive, Idle
<1>15. ASSUME NEW r \in Requests, LoseAnswer(r) PROVE NoForgottenSession'
  BY <1>15 DEF LoseAnswer, Idle
<1>16. CASE Expire
  BY <1>16 DEF Expire
<1>17. CASE UNCHANGED vars
  BY <1>17 DEF vars
<1> QED
  BY <1>1, <1>2, <1>3, <1>4, <1>5, <1>6, <1>7, <1>8, <1>9, <1>10, <1>11, <1>12, <1>13,
     <1>14, <1>15, <1>16, <1>17 DEF Next, Step, Serve

\* The inductive invariant of sessions.
THEOREM SessionInvariant == Spec => []UInv
<1>1. Init => UInv
  <2>1. Init => RInv
    BY RotationInit
  <2>2. Init => HoldInv /\ OwnerInv /\ CalmInv /\ DoneInv /\ NoForgottenSession
    BY TokenAssumptions, IdleBrowser
       DEF Init, HoldInv, Holds, OwnerInv, CalmInv, DoneInv, NoForgottenSession, Spent, Live,
           Answered, Working
  <2> QED BY <2>1, <2>2 DEF UInv
<1>2. UInv /\ [Next]_vars => UInv'
  <2> SUFFICES ASSUME UInv, [Next]_vars PROVE UInv'
    OBVIOUS
  <2>1. RInv'
    BY TypeStep, ReplyStep, DrawnStep, LockStep, RotateStep, ParentStep DEF UInv, RInv
  <2> QED
    BY <2>1, HoldStep, OwnerStep, CalmStep, DoneStep, SessionStep DEF UInv
<1> QED
  BY <1>1, <1>2, PTL DEF Spec

\* The variables keep their types.
THEOREM RefreshTypes == Spec => []TypeOK
  BY RotationInvariant, PTL DEF RInv

\* No two requests exchange one token, whatever they interleave with
\* (rotate, tokens.ts:290).
THEOREM RotatedOnce == Spec => []OneSuccessor
  BY RotationInvariant, PTL DEF RInv, ParentInv

\* rotated_at and the successor appear together, whatever fails.
THEOREM RotationIsWhole == Spec => []RotatedHasSuccessor
  BY RotationInvariant, PTL DEF RInv, ParentInv

\* A token that was exchanged or revoked is never exchanged (again).
THEOREM SpentIsUnused == Spec => SpentStaysUnused
<1>1. RInv /\ [Next]_vars
        => [\A s \in rows' \ rows : parent'[s] \notin rotated \cup revoked]_vars
  <2> SUFFICES ASSUME RInv, Next, NEW s \in rows' \ rows
               PROVE  parent'[s] \notin rotated \cup revoked
    BY DEF vars
  <2>1. CASE \E r \in Requests : RotateCommit(r)
    <3>1. PICK r \in Requests : RotateCommit(r)
      BY <2>1
    <3>2. s = reply[r] /\ s \in Tokens /\ parent'[s] = token[r]
      BY <3>1 DEF RotateCommit, WriteRotation, RInv, TypeOK, RotateInv, Cookies
    <3> QED BY <3>1, <3>2 DEF RotateCommit, RInv, RotateInv, Spent
  <2>2. CASE \E r \in Requests, b \in Browsers : Login(r, b)
    <3>1. s \in Tokens /\ parent'[s] = NoToken
      BY <2>2, NewIsFresh DEF Login, FreshTokens, RInv, TypeOK, ParentInv
    <3> QED BY <3>1, TokenAssumptions DEF RInv, TypeOK
  <2>3. rows' = rows \/ (\E r \in Requests : RotateCommit(r))
          \/ (\E r \in Requests, b \in Browsers : Login(r, b))
    BY DEF Next, Step, Serve, Expire, Refresh, Logout, Send, Lock, Replay, RevokeRow,
           RevokeCommit, RefuseExpired, Rotate, Abort, LogoutRevoke, LogoutFails, Receive,
           LoseAnswer, Idle, table
  <2> QED
    BY <2>1, <2>2, <2>3
<1> QED
  BY <1>1, RotationInvariant, PTL DEF Spec, SpentStaysUnused

\* A user is accused of reuse only after a lost answer or overlapping requests
\* of one browser, however many browsers and requests there are.
THEOREM NoFalseAccusation == Spec => []ReuseNeedsFault
<1>1. UInv => ReuseNeedsFault
  BY DEF UInv, RInv, TypeOK, CalmInv, ReuseNeedsFault
<1> QED
  BY <1>1, SessionInvariant, PTL

\* Logout and rotation leave no token behind that would still be accepted.
THEOREM SessionsEnd == Spec => []NoForgottenSession
<1>1. UInv => NoForgottenSession
  BY DEF UInv
<1> QED
  BY <1>1, SessionInvariant, PTL

----------------------------------------------------------------------------
(* Waiting for rows, for any number of requests under way.  CanServe spells *)
(* out the guards of Serve, as ENABLED is out of the prover's reach; the    *)
(* run of SomeoneGoesOn checks that the two agree.                          *)

\* Whom a request of a set waits for is in the set as well.
Closed(S) == \A q \in S : \A p \in Requests \ {q} : WaitsFor(q, p) => p \in S

\* A set of natural numbers has a least one.
LEMMA LeastOf ==
  ASSUME NEW S \in SUBSET Nat, S # {} PROVE \E m \in S : \A k \in S : m <= k
<1>1. PICK m \in S : \A k \in S : ~ (<<k, m>> \in OpToRel(<, Nat))
  BY NatLessThanWellFounded, WFMin, Zenon
<1>2. \A k \in S : ~ (k < m)
  BY <1>1, Zenon DEF OpToRel
<1> QED BY <1>2

\* Where all are blocked, and wait for none but each other, some of them wait
\* for each other: the smallest such set is a deadlock, as one whom nobody in
\* it waits for could be left out.
LEMMA BlockedDeadlock ==
  ASSUME IsFiniteSet(Requests), NEW B \in SUBSET Requests, B # {}, Closed(B),
         \A q \in B : Blocked(q)
  PROVE  \E q \in Requests : Deadlocked(q)
<1> DEFINE Sets == {S \in SUBSET B : S # {} /\ Closed(S)}
           Sizes == {Cardinality(S) : S \in Sets}
<1>1. ASSUME NEW S \in SUBSET Requests PROVE IsFiniteSet(S) /\ Cardinality(S) \in Nat
  <2>1. IsFiniteSet(S)
    BY FS_Subset
  <2> QED BY <2>1, FS_CardinalityType
<1>2. Sizes \in SUBSET Nat /\ Sizes # {}
  BY <1>1
<1>3. PICK n \in Sizes : \A k \in Sizes : n <= k
  <2> HIDE DEF Sizes
  <2> QED BY <1>2, LeastOf
<1>4. PICK S \in Sets : \A T \in Sets : Cardinality(S) <= Cardinality(T)
  BY <1>3
<1>5. ASSUME NEW q \in S PROVE \E p \in S \ {q} : WaitsFor(p, q)
  <2> SUFFICES ASSUME \A p \in S \ {q} : ~WaitsFor(p, q) PROVE FALSE
    OBVIOUS
  <2> DEFINE T == S \ {q}
  <2>1. Closed(T)
    BY <1>4 DEF Closed
  <2>2. PICK p \in Requests \ {q} : WaitsFor(q, p)
    <3>1. PICK t \in scan[q] : LockedByOther(t, q)
      BY <1>4 DEF Blocked
    <3> QED BY <3>1 DEF LockedByOther, WaitsFor
  <2>3. p \in T
    BY <1>4, <2>2 DEF Closed
  <2>4. T \in Sets
    <3> HIDE DEF T
    <3>1. T \subseteq B
      BY <1>4 DEF T
    <3> QED BY <2>1, <2>3, <3>1
  <2>5. Cardinality(S) <= Cardinality(T)
    <3> HIDE DEF T
    <3> QED BY <1>4, <2>4
  <2>6. IsFiniteSet(S) /\ Cardinality(S) \in Nat
    BY <1>1, <1>4
  <2>7. Cardinality(T) = Cardinality(S) - 1
    BY <2>6, FS_RemoveElement
  <2> QED BY <2>5, <2>6, <2>7
<1>6. PICK q \in S : TRUE
  BY <1>4
<1>7. \A p \in S : \A x \in Requests \ {p} : WaitsFor(p, x) => x \in S
  BY <1>4 DEF Closed
<1>8. S \in SUBSET Requests /\ \A p \in S : Blocked(p)
  BY <1>4
<1>9. Deadlocked(q)
  BY <1>5, <1>6, <1>7, <1>8 DEF Deadlocked
<1> QED BY <1>6, <1>8, <1>9

\* Where no request can go on, only a family revoke holds a row, and it is
\* blocked.
LEMMA HolderBlocked ==
  ASSUME \A q \in Requests : ~CanServe(q), NEW p \in Requests, Locks(p) # {}
  PROVE  Blocked(p)
<1>1. pc[p] = "revoking"
  BY DEF CanServe, Locks
<1> QED BY <1>1 DEF CanServe, Blocked

\* While a request is unanswered the server can go on with some request, or
\* there is a deadlock for Postgres to break: no request waits for a row that
\* an answered request has kept, nor for its own.
THEOREM UnansweredGoOn ==
  ASSUME IsFiniteSet(Requests)
  PROVE  Spec => []NobodyWaitsInVain
<1>1. TypeOK => NobodyWaitsInVain
  <2> SUFFICES ASSUME TypeOK, NEW r \in Requests, pc[r] # "idle", pc[r] \notin Answered,
                      \A q \in Requests : ~CanServe(q)
               PROVE  \E q \in Requests : Deadlocked(q)
    BY DEF NobodyWaitsInVain
  <2> DEFINE B == {q \in Requests : Blocked(q)}
  <2>1. Closed(B)
    <3>1. ASSUME NEW q \in B, NEW p \in Requests, WaitsFor(q, p) PROVE Blocked(p)
      <4>1. Locks(p) # {}
        BY <3>1 DEF WaitsFor
      <4> QED BY <4>1, HolderBlocked
    <3> QED BY <3>1 DEF Closed
  <2>2. B # {}
    <3>1. pc[r] \in {"refresh", "logout", "revoking"}
      BY DEF TypeOK, CanServe
    <3>2. CASE pc[r] = "revoking"
      BY <3>2 DEF CanServe, Blocked
    <3>3. CASE pc[r] \in {"refresh", "logout"}
      <4>1. PICK q \in Requests : Locks(q) # {}
        BY <3>3 DEF CanServe, LockedByOther
      <4>2. Blocked(q)
        BY <4>1, HolderBlocked
      <4> QED BY <4>2
    <3> QED BY <3>1, <3>2, <3>3
  <2> QED BY <2>1, <2>2, BlockedDeadlock
<1> QED BY <1>1, RefreshTypes, PTL

\* Requests deadlock only with others of the same user, as family revokes of
\* a user who met a lost answer or overlapping requests of one browser: no
\* other user's sign-in is ever the victim, and none without a fault.
DeadlockNeedsFault ==
    \A r \in Requests : Deadlocked(r) =>
        /\ Account[from[r]] \in faulted
        /\ \E q \in Requests \ {r} : Blocked(q) /\ Account[from[q]] = Account[from[r]]

THEOREM DeadlocksAreOfOneUser == Spec => []DeadlockNeedsFault
<1>1. UInv => DeadlockNeedsFault
  <2> SUFFICES ASSUME UInv, NEW r \in Requests, Deadlocked(r)
               PROVE  /\ Account[from[r]] \in faulted
                      /\ \E q \in Requests \ {r} :
                            Blocked(q) /\ Account[from[q]] = Account[from[r]]
    BY DEF DeadlockNeedsFault
  <2>1. Blocked(r) /\ \E q \in Requests \ {r} : Blocked(q) /\ WaitsFor(q, r)
    BY DEF Deadlocked
  <2>2. PICK q \in Requests \ {r} : Blocked(q) /\ WaitsFor(q, r)
    BY <2>1
  <2>3. PICK t \in scan[q] : t \in Locks(r)
    BY <2>2 DEF WaitsFor
  <2>4. pc[r] = "revoking" /\ pc[q] = "revoking"
    BY <2>1, <2>2 DEF Blocked
  <2>5. owner[t] = Account[from[q]]
    <3>1. t \in sees[q]
      BY <2>3 DEF UInv, RInv, TypeOK
    <3> QED BY <2>4, <3>1 DEF UInv, OwnerInv
  <2>6. owner[t] = Account[from[r]]
    <3>1. t = token[r] \/ t \in sees[r]
      BY <2>3, <2>4 DEF Locks
    <3>2. token[r] \in rows
      BY <2>4 DEF UInv, RInv, ReplyInv
    <3>3. token[r] # NoToken
      BY <3>2, TokenAssumptions DEF UInv, RInv, TypeOK
    <3> QED BY <2>4, <3>1, <3>3 DEF UInv, OwnerInv
  <2>7. Account[from[r]] \in faulted
    BY <2>4 DEF UInv, RInv, TypeOK, CalmInv
  <2> QED BY <2>2, <2>5, <2>6, <2>7
<1> QED BY <1>1, SessionInvariant, PTL
============================================================================
