---- MODULE AuthServiceProofs ----
(***************************************************************************)
(* Type correctness of AuthService and RememberedRows, for every value of  *)
(* its constants, and what a step does to the request that takes it, to    *)
(* the accounts and to the tables of tokens. The lemmas on Step, Abort and *)
(* Environment are stated apart from Next because Lockout, Sessions,       *)
(* Accounts and Browser compose these actions anew.                        *)
(***************************************************************************)
EXTENDS AuthService, TLAPS

\* The empty tables and the seeded one have their types.
LEMMA InitialType == Init => TypeOK
  BY SeedAssumption DEF Init, TypeOK, TokenRow, ResetRow, Request, NoRequest,
     Maybe, Awaits

LEMMA NoRequestType == NoRequest \in Request
  BY DEF NoRequest, Request, Maybe, Awaits

\* What Respond, Await and the helpers on rows return has its type.
LEMMA RespondType ==
  ASSUME TypeOK, NEW r \in Requests, Respond(r)
  PROVE  req' \in [Requests -> Request]
  BY NoRequestType DEF TypeOK, Respond

LEMMA AwaitType ==
  ASSUME TypeOK, NEW r \in Requests, NEW await \in Awaits, Await(r, await)
  PROVE  req' \in [Requests -> Request]
  BY DEF TypeOK, Await, Request

\* Rows the code inserts, and the update of all tokens of one user.
LEMMA NewSessionType ==
  ASSUME NEW u \in Maybe(UserIds) PROVE NewSession(u) \in TokenRow
  BY DEF NewSession, TokenRow

LEMMA RevokeAllType ==
  ASSUME TypeOK, NEW u PROVE RevokeAllOf(u) \in [Tokens -> TokenRow]
  BY DEF TypeOK, RevokeAllOf, TokenRow

LEMMA RevokeType ==
  ASSUME TypeOK, NEW t PROVE Revoke(t) \in [Tokens -> TokenRow]
  BY DEF TypeOK, Revoke, TokenRow

LEMMA NewUserType ==
  ASSUME NEW e \in Maybe(Addresses), NEW p \in Maybe(Passwords),
         NEW g \in Maybe(GoogleIds)
  PROVE  NewUser(e, p, g) \in UserRow
  BY DEF NewUser, UserRow

LEMMA UnlockedType ==
  ASSUME NEW row \in UserRow PROVE Unlocked(row) \in UserRow
  BY DEF Unlocked, UserRow

\* A request as a lookup leaves it: some fields differ from NoRequest.
LEMMA LookupType ==
  ASSUME NEW await \in Awaits, NEW u \in Maybe(UserIds), NEW t \in Maybe(Tokens),
         NEW k \in Maybe(ResetTokens)
  PROVE  /\ [NoRequest EXCEPT !.user = u, !.pc = await] \in Request
         /\ [NoRequest EXCEPT !.user = u, !.token = t, !.pc = await] \in Request
         /\ [NoRequest EXCEPT !.pc = await, !.user = u] \in Request
         /\ [NoRequest EXCEPT !.pc = await, !.token = t] \in Request
         /\ [NoRequest EXCEPT !.pc = await, !.user = u, !.reset = k] \in Request
  BY DEF NoRequest, Request, Maybe

\* A profile that Google returned, as a request holds it.
LEMMA GoogleProfileType ==
  ASSUME NEW g \in GoogleIds, NEW e \in Addresses
  PROVE  GoogleProfile(g, e) \in Request
  BY DEF GoogleProfile, NoRequest, Request, Awaits, Maybe
----------------------------------------------------------------------------
\* Every await of every request keeps the types.
LEMMA StepType ==
  ASSUME TypeOK, RememberedRows, NEW r \in Requests, Step(r)
  PROVE  TypeOK'
<1>0. /\ req[r] \in Request
      /\ \A t \in Tokens : refreshTokens[t] \in TokenRow
      /\ \A k \in ResetTokens : resetTokens[k] \in ResetRow
      /\ \A u \in UserIds : users[u] \in UserRow
  BY DEF TypeOK
<1>1. CASE Register(r)
  <2>1. PICK e \in Addresses, p \in Passwords, u \in UserIds :
          /\ users' = [users EXCEPT ![u] = NewUser(LowerCase[e], p, None)]
          /\ UNCHANGED <<refreshTokens, resetTokens, inbox, req>>
    BY <1>1 DEF Register
  <2>2. NewUser(LowerCase[e], p, None) \in UserRow
    BY NewUserType, LowerCaseAssumption DEF Maybe
  <2> QED BY <2>1, <2>2 DEF TypeOK
<1>2. CASE LoginLookup(r)
  <2>1. PICK e \in Addresses, p \in Passwords, u \in UserIds :
          /\ req' = [req EXCEPT ![r] =
               [NoRequest EXCEPT !.user = u, !.pc = IF users[u].password = p THEN "login.issue" ELSE "login.failed"]]
          /\ UNCHANGED <<users, refreshTokens, resetTokens, inbox>>
    BY <1>2 DEF LoginLookup
  <2> DEFINE await == IF users[u].password = p THEN "login.issue" ELSE "login.failed"
  <2>2. await \in Awaits
    BY <1>0 DEF Awaits, TokenRow
  <2> HIDE DEF await
  <2>4. [NoRequest EXCEPT !.user = u, !.pc = await] \in Request
    BY <2>2, LookupType DEF Maybe
  <2>5. req' = [req EXCEPT ![r] = [NoRequest EXCEPT !.user = u, !.pc = await]]
    BY <2>1 DEF await
  <2> QED BY <2>1, <2>4, <2>5 DEF TypeOK
<1>3. CASE RecordFailedAttempt(r)
  <2>3. req[r].user \in UserIds
    BY <1>3 DEF RecordFailedAttempt, At, RememberedRows, Remembers
  <2>1. users' \in [UserIds -> UserRow]
    <3>1. [users[req[r].user] EXCEPT !.failed = users[req[r].user].failed + 1] \in UserRow
      BY <1>0, <2>3 DEF UserRow
    <3>2. users' = [users EXCEPT ![req[r].user] =
                      [@ EXCEPT !.failed = users[req[r].user].failed + 1]]
      BY <1>3 DEF RecordFailedAttempt
    <3> QED BY <2>3, <3>1, <3>2 DEF TypeOK
  <2>2. req' \in [Requests -> Request]
    BY <1>3, RespondType, AwaitType DEF RecordFailedAttempt, Awaits
  <2> QED BY <1>3, <2>1, <2>2 DEF RecordFailedAttempt, TypeOK
<1>4. CASE LockAccount(r)
  <2>1. users' \in [UserIds -> UserRow]
    BY <1>4 DEF LockAccount, TypeOK, UserRow
  <2>2. req' \in [Requests -> Request]
    BY <1>4, RespondType, AwaitType DEF LockAccount, Awaits
  <2> QED BY <1>4, <2>1, <2>2 DEF LockAccount, TypeOK
<1>5. CASE LoginIssue(r)
  <2>3. req[r].user \in UserIds
    BY <1>5 DEF LoginIssue, At, RememberedRows, Remembers
  <2>4. users' \in [UserIds -> UserRow]
    <3>1. Unlocked(users[req[r].user]) \in UserRow
      BY <1>0, <2>3, UnlockedType
    <3> QED BY <1>5, <2>3, <3>1 DEF LoginIssue, TypeOK
  <2>1. refreshTokens' \in [Tokens -> TokenRow]
    BY <1>5, <1>0, NewSessionType DEF LoginIssue, TypeOK, Request
  <2>2. req' \in [Requests -> Request]
    BY <1>5, RespondType, AwaitType DEF LoginIssue, Awaits
  <2> QED BY <1>5, <2>1, <2>4, <2>2 DEF LoginIssue, TypeOK
<1>6. CASE RefreshLookup(r)
  <2>1. PICK t \in Tokens :
          /\ req' = [req EXCEPT ![r] =
               [NoRequest EXCEPT !.user = refreshTokens[t].user, !.token = t, !.pc = CASE refreshTokens[t].state = "revoked" -> "refresh.reuse"
                          [] refreshTokens[t].state = "expired" -> "refresh.expired"
                          [] refreshTokens[t].state = "valid" -> "refresh.user"]]
          /\ UNCHANGED <<users, refreshTokens, resetTokens, inbox>>
    BY <1>6 DEF RefreshLookup
  <2> DEFINE await == CASE refreshTokens[t].state = "revoked" -> "refresh.reuse"
                          [] refreshTokens[t].state = "expired" -> "refresh.expired"
                          [] refreshTokens[t].state = "valid" -> "refresh.user"
  <2>2. await \in Awaits
    BY <1>0 DEF Awaits, TokenRow
  <2>3. refreshTokens[t].user \in Maybe(UserIds)
    BY <1>0 DEF TypeOK, TokenRow, ResetRow, Maybe
  <2> HIDE DEF await
  <2>4. [NoRequest EXCEPT !.user = refreshTokens[t].user, !.token = t, !.pc = await] \in Request
    BY <2>2, <2>3, LookupType DEF Maybe
  <2>5. req' = [req EXCEPT ![r] = [NoRequest EXCEPT !.user = refreshTokens[t].user, !.token = t, !.pc = await]]
    BY <2>1 DEF await
  <2> QED BY <2>1, <2>4, <2>5 DEF TypeOK
<1>7. CASE RevokeFamily(r)
  <2>1. refreshTokens' \in [Tokens -> TokenRow]
    BY <1>7, RevokeAllType DEF RevokeFamily
  <2>2. req' \in [Requests -> Request]
    BY <1>7, RespondType, AwaitType DEF RevokeFamily, Awaits
  <2> QED BY <1>7, <2>1, <2>2 DEF RevokeFamily, TypeOK
<1>8. CASE RevokeExpired(r)
  <2>1. refreshTokens' \in [Tokens -> TokenRow]
    BY <1>8, RevokeType DEF RevokeExpired
  <2>2. req' \in [Requests -> Request]
    BY <1>8, RespondType, AwaitType DEF RevokeExpired, Awaits
  <2> QED BY <1>8, <2>1, <2>2 DEF RevokeExpired, TypeOK
<1>9. CASE RefreshUser(r)
  <2>2. req' \in [Requests -> Request]
    BY <1>9, RespondType, AwaitType DEF RefreshUser, Awaits
  <2> QED BY <1>9, <2>2 DEF RefreshUser, TypeOK
<1>10. CASE Rotate(r)
  <2>1. refreshTokens' \in [Tokens -> TokenRow]
    BY <1>10, <1>0, NewSessionType, RevokeType DEF Rotate, Request
  <2>2. req' \in [Requests -> Request]
    BY <1>10, RespondType, AwaitType DEF Rotate, Awaits
  <2> QED BY <1>10, <2>1, <2>2 DEF Rotate, TypeOK
<1>11. CASE LogoutAuthorize(r)
  <2>1. PICK u \in UserIds, t \in Tokens :
          /\ req' = [req EXCEPT ![r] =
               [NoRequest EXCEPT !.pc = "logout", !.token = t]]
          /\ UNCHANGED <<users, refreshTokens, resetTokens, inbox>>
    BY <1>11 DEF LogoutAuthorize
  <2> DEFINE await == "logout"
  <2>2. await \in Awaits
    BY <1>0 DEF Awaits, TokenRow
  <2> HIDE DEF await
  <2>4. [NoRequest EXCEPT !.pc = await, !.token = t] \in Request
    BY <2>2, LookupType DEF Maybe
  <2>5. req' = [req EXCEPT ![r] = [NoRequest EXCEPT !.pc = await, !.token = t]]
    BY <2>1 DEF await
  <2> QED BY <2>1, <2>4, <2>5 DEF TypeOK
<1>12. CASE Logout(r)
  <2>1. refreshTokens' \in [Tokens -> TokenRow]
    BY <1>12, RevokeType DEF Logout
  <2>2. req' \in [Requests -> Request]
    BY <1>12, RespondType, AwaitType DEF Logout, Awaits
  <2> QED BY <1>12, <2>1, <2>2 DEF Logout, TypeOK
<1>13. CASE LogoutAllAuthorize(r)
  <2>1. PICK u \in UserIds :
          /\ req' = [req EXCEPT ![r] =
               [NoRequest EXCEPT !.pc = "logoutAll", !.user = u]]
          /\ UNCHANGED <<users, refreshTokens, resetTokens, inbox>>
    BY <1>13 DEF LogoutAllAuthorize
  <2> DEFINE await == "logoutAll"
  <2>2. await \in Awaits
    BY <1>0 DEF Awaits, TokenRow
  <2> HIDE DEF await
  <2>4. [NoRequest EXCEPT !.pc = await, !.user = u] \in Request
    BY <2>2, LookupType DEF Maybe
  <2>5. req' = [req EXCEPT ![r] = [NoRequest EXCEPT !.pc = await, !.user = u]]
    BY <2>1 DEF await
  <2> QED BY <2>1, <2>4, <2>5 DEF TypeOK
<1>14. CASE LogoutAll(r)
  <2>1. refreshTokens' \in [Tokens -> TokenRow]
    BY <1>14, RevokeAllType DEF LogoutAll
  <2>2. req' \in [Requests -> Request]
    BY <1>14, RespondType, AwaitType DEF LogoutAll, Awaits
  <2> QED BY <1>14, <2>1, <2>2 DEF LogoutAll, TypeOK
<1>15. CASE GoogleLookup(r)
  <2>1. PICK g \in GoogleIds, e \in Addresses :
          /\ Calls(r, "google")
          /\ \/ /\ GoogleMatches(g, LowerCase[e]) = {}
                /\ req' = [req EXCEPT ![r] =
                     [GoogleProfile(g, LowerCase[e]) EXCEPT !.pc = "google.create"]]
             \/ \E u \in GoogleMatches(g, LowerCase[e]) :
                  /\ users[u].googleId = g => users[u].isActive
                  /\ req' = [req EXCEPT ![r] =
                       [GoogleProfile(g, LowerCase[e]) EXCEPT !.user = u,
                          !.isActive = users[u].isActive,
                          !.pc = IF users[u].googleId = g
                                 THEN "google.issue" ELSE "google.link"]]
          /\ UNCHANGED <<users, refreshTokens, resetTokens, inbox>>
    BY <1>15, Zenon DEF GoogleLookup
  <2>2. GoogleProfile(g, LowerCase[e]) \in Request
    BY GoogleProfileType, LowerCaseAssumption
  <2>3. [GoogleProfile(g, LowerCase[e]) EXCEPT !.pc = "google.create"] \in Request
    BY <2>2 DEF Request, Awaits
  <2>4. ASSUME NEW u \in GoogleMatches(g, LowerCase[e])
        PROVE  [GoogleProfile(g, LowerCase[e]) EXCEPT !.user = u,
                  !.isActive = users[u].isActive,
                  !.pc = IF users[u].googleId = g
                         THEN "google.issue" ELSE "google.link"] \in Request
    <3>1. u \in UserIds /\ users[u].isActive \in BOOLEAN
      BY <1>0 DEF GoogleMatches, UserRow
    <3> DEFINE await == IF users[u].googleId = g THEN "google.issue" ELSE "google.link"
    <3>2. await \in Awaits
      BY DEF Awaits
    <3> HIDE DEF await
    <3>3. [GoogleProfile(g, LowerCase[e]) EXCEPT !.user = u,
             !.isActive = users[u].isActive, !.pc = await] \in Request
      BY <2>2, <3>1, <3>2 DEF Request, Maybe
    <3> QED BY <3>3 DEF await
  <2> QED BY <2>1, <2>3, <2>4 DEF TypeOK
<1>16. CASE GoogleCreate(r)
  <2>1. CASE EmailTaken(req[r].email) \/ GoogleIdTaken(req[r].googleId)
    BY <1>16, <2>1, RespondType DEF GoogleCreate, TypeOK
  <2>2. CASE ~(EmailTaken(req[r].email) \/ GoogleIdTaken(req[r].googleId))
    <3>1. PICK u \in UserIds :
            /\ users' = [users EXCEPT ![u] =
                           NewUser(req[r].email, None, req[r].googleId)]
            /\ req' = [req EXCEPT ![r] = [@ EXCEPT !.pc = "google.issue", !.user = u]]
      BY <1>16, <2>2 DEF GoogleCreate
    <3>2. NewUser(req[r].email, None, req[r].googleId) \in UserRow
      BY <1>0, NewUserType DEF Request, Maybe
    <3>3. [req[r] EXCEPT !.pc = "google.issue", !.user = u] \in Request
      BY <1>0 DEF Request, Awaits, Maybe
    <3> QED BY <1>16, <3>1, <3>2, <3>3 DEF GoogleCreate, TypeOK
  <2> QED BY <2>1, <2>2
<1>17. CASE GoogleLink(r)
  <2>1. users' \in [UserIds -> UserRow]
    BY <1>17, <1>0 DEF GoogleLink, TypeOK, UserRow, Request
  <2>2. req' \in [Requests -> Request]
    BY <1>17, RespondType, AwaitType DEF GoogleLink, Awaits
  <2> QED BY <1>17, <2>1, <2>2 DEF GoogleLink, TypeOK
<1>18. CASE GoogleIssue(r)
  <2>1. refreshTokens' \in [Tokens -> TokenRow]
    BY <1>18, <1>0, NewSessionType DEF GoogleIssue, TypeOK, Request
  <2>2. req' \in [Requests -> Request]
    BY <1>18, RespondType, AwaitType DEF GoogleIssue, Awaits
  <2> QED BY <1>18, <2>1, <2>2 DEF GoogleIssue, TypeOK
<1>19. CASE ForgotLookup(r)
  <2>1. PICK e \in Addresses, u \in UserIds :
          /\ req' = [req EXCEPT ![r] =
               [NoRequest EXCEPT !.pc = "forgot.create", !.user = u]]
          /\ UNCHANGED <<users, refreshTokens, resetTokens, inbox>>
    BY <1>19 DEF ForgotLookup
  <2> DEFINE await == "forgot.create"
  <2>2. await \in Awaits
    BY <1>0 DEF Awaits, TokenRow
  <2> HIDE DEF await
  <2>4. [NoRequest EXCEPT !.pc = await, !.user = u] \in Request
    BY <2>2, LookupType DEF Maybe
  <2>5. req' = [req EXCEPT ![r] = [NoRequest EXCEPT !.pc = await, !.user = u]]
    BY <2>1 DEF await
  <2> QED BY <2>1, <2>4, <2>5 DEF TypeOK
<1>20. CASE ForgotCreate(r)
  <2>1. PICK k \in ResetTokens :
          /\ resetTokens' = [resetTokens EXCEPT ![k].user = req[r].user]
          /\ req' = [req EXCEPT ![r] = [@ EXCEPT !.pc = "forgot.mail", !.reset = k]]
          /\ UNCHANGED <<users, refreshTokens, inbox>>
    BY <1>20 DEF ForgotCreate
  <2>2. resetTokens' \in [ResetTokens -> ResetRow]
    BY <1>0, <2>1 DEF TypeOK, ResetRow, Request
  <2>3. [req[r] EXCEPT !.pc = "forgot.mail", !.reset = k] \in Request
    BY <1>0 DEF Request, Awaits, Maybe
  <2> QED BY <2>1, <2>2, <2>3 DEF TypeOK
<1>21. CASE ForgotMail(r)
  <2>1. inbox' \in SUBSET ResetTokens
    BY <1>21 DEF ForgotMail, At, RememberedRows, Remembers, TypeOK
  <2>2. req' \in [Requests -> Request]
    BY <1>21, RespondType, AwaitType DEF ForgotMail, Awaits
  <2> QED BY <1>21, <2>1, <2>2 DEF ForgotMail, TypeOK
<1>22. CASE ResetLookup(r)
  <2>1. PICK k \in inbox :
          /\ req' = [req EXCEPT ![r] =
               [NoRequest EXCEPT !.pc = "reset.user", !.user = resetTokens[k].user, !.reset = k]]
          /\ UNCHANGED <<users, refreshTokens, resetTokens, inbox>>
    BY <1>22 DEF ResetLookup
  <2> DEFINE await == "reset.user"
  <2>2. await \in Awaits
    BY <1>0 DEF Awaits, TokenRow
  <2>3. k \in ResetTokens /\ resetTokens[k].user \in Maybe(UserIds)
    BY <1>0 DEF TypeOK, TokenRow, ResetRow, Maybe
  <2> HIDE DEF await
  <2>4. [NoRequest EXCEPT !.pc = await, !.user = resetTokens[k].user, !.reset = k] \in Request
    BY <2>2, <2>3, LookupType DEF Maybe
  <2>5. req' = [req EXCEPT ![r] = [NoRequest EXCEPT !.pc = await, !.user = resetTokens[k].user, !.reset = k]]
    BY <2>1 DEF await
  <2> QED BY <2>1, <2>4, <2>5 DEF TypeOK
<1>23. CASE ResetUser(r)
  <2>2. req' \in [Requests -> Request]
    BY <1>23, RespondType, AwaitType DEF ResetUser, Awaits
  <2> QED BY <1>23, <2>2 DEF ResetUser, TypeOK
<1>24. CASE ResetCommit(r)
  <2>3. req[r].user \in UserIds
    BY <1>24 DEF ResetCommit, At, RememberedRows, Remembers
  <2>4. PICK p \in Passwords :
          /\ users' = [users EXCEPT ![req[r].user] =
                         [Unlocked(@) EXCEPT !.password = p]]
          /\ resetTokens' = [resetTokens EXCEPT ![req[r].reset].state = "used"]
          /\ refreshTokens' = RevokeAllOf(req[r].user)
          /\ Respond(r)
          /\ UNCHANGED inbox
    BY <1>24 DEF ResetCommit
  <2>5. users' \in [UserIds -> UserRow]
    <3>1. Unlocked(users[req[r].user]) \in UserRow
      BY <1>0, <2>3, UnlockedType
    <3>2. [Unlocked(users[req[r].user]) EXCEPT !.password = p] \in UserRow
      BY <3>1 DEF UserRow, Maybe
    <3> QED BY <2>3, <2>4, <3>2 DEF TypeOK
  <2>6. resetTokens' \in [ResetTokens -> ResetRow]
    BY <2>4 DEF TypeOK, ResetRow
  <2> QED BY <2>4, <2>5, <2>6, RevokeAllType, RespondType DEF TypeOK
<1> QED
    BY <1>1, <1>2, <1>3, <1>4, <1>5, <1>6, <1>7, <1>8, <1>9, <1>10, <1>11, <1>12,
     <1>13, <1>14, <1>15, <1>16, <1>17, <1>18, <1>19, <1>20, <1>21, <1>22, <1>23,
     <1>24 DEF Step
----------------------------------------------------------------------------
\* Rows are never deleted and tokens never change hands.
LEMMA RowsStay ==
  ASSUME TypeOK, RememberedRows, NEW r \in Requests, Step(r)
  PROVE  /\ \A u \in UserIds : users[u].email # None => users'[u].email # None
         /\ \A t \in Tokens : refreshTokens[t].user # None
              => refreshTokens'[t].user = refreshTokens[t].user
         /\ \A k \in ResetTokens : resetTokens[k].user # None
              => resetTokens'[k].user = resetTokens[k].user
         /\ \A q \in Requests \ {r} : req'[q] = req[q]
<1> USE DEF TypeOK
<1>0. /\ \A u \in UserIds : users[u] \in UserRow
      /\ \A t \in Tokens : refreshTokens[t] \in TokenRow
      /\ \A k \in ResetTokens : resetTokens[k] \in ResetRow
  OBVIOUS
<1>1. CASE Register(r)
  BY <1>0, <1>1 DEF Register, UserRow, TokenRow, ResetRow, Issued, Present,
     Respond, Await, Unlocked, Revoke, RevokeAllOf, NewSession
<1>2. CASE LoginLookup(r)
  BY <1>0, <1>2 DEF LoginLookup, UserRow, TokenRow, ResetRow, Issued, Present,
     Respond, Await, Unlocked, Revoke, RevokeAllOf, NewSession
<1>3. CASE RecordFailedAttempt(r)
  BY <1>0, <1>3 DEF RecordFailedAttempt, UserRow, TokenRow, ResetRow, Issued, Present,
     Respond, Await, Unlocked, Revoke, RevokeAllOf, NewSession
<1>4. CASE LockAccount(r)
  BY <1>0, <1>4 DEF LockAccount, UserRow, TokenRow, ResetRow, Issued, Present,
     Respond, Await, Unlocked, Revoke, RevokeAllOf, NewSession
<1>5. CASE LoginIssue(r)
  BY <1>0, <1>5 DEF LoginIssue, UserRow, TokenRow, ResetRow, Issued, Present,
     Respond, Await, Unlocked, Revoke, RevokeAllOf, NewSession
<1>6. CASE RefreshLookup(r)
  BY <1>0, <1>6 DEF RefreshLookup, UserRow, TokenRow, ResetRow, Issued, Present,
     Respond, Await, Unlocked, Revoke, RevokeAllOf, NewSession
<1>7. CASE RevokeFamily(r)
  BY <1>0, <1>7 DEF RevokeFamily, UserRow, TokenRow, ResetRow, Issued, Present,
     Respond, Await, Unlocked, Revoke, RevokeAllOf, NewSession
<1>8. CASE RevokeExpired(r)
  BY <1>0, <1>8 DEF RevokeExpired, UserRow, TokenRow, ResetRow, Issued, Present,
     Respond, Await, Unlocked, Revoke, RevokeAllOf, NewSession
<1>9. CASE RefreshUser(r)
  BY <1>0, <1>9 DEF RefreshUser, UserRow, TokenRow, ResetRow, Issued, Present,
     Respond, Await, Unlocked, Revoke, RevokeAllOf, NewSession
<1>10. CASE Rotate(r)
  BY <1>0, <1>10 DEF Rotate, UserRow, TokenRow, ResetRow, Issued, Present,
     Respond, Await, Unlocked, Revoke, RevokeAllOf, NewSession
<1>11. CASE LogoutAuthorize(r)
  BY <1>0, <1>11 DEF LogoutAuthorize, UserRow, TokenRow, ResetRow, Issued, Present,
     Respond, Await, Unlocked, Revoke, RevokeAllOf, NewSession
<1>12. CASE Logout(r)
  BY <1>0, <1>12 DEF Logout, UserRow, TokenRow, ResetRow, Issued, Present,
     Respond, Await, Unlocked, Revoke, RevokeAllOf, NewSession
<1>13. CASE LogoutAllAuthorize(r)
  BY <1>0, <1>13 DEF LogoutAllAuthorize, UserRow, TokenRow, ResetRow, Issued, Present,
     Respond, Await, Unlocked, Revoke, RevokeAllOf, NewSession
<1>14. CASE LogoutAll(r)
  BY <1>0, <1>14 DEF LogoutAll, UserRow, TokenRow, ResetRow, Issued, Present,
     Respond, Await, Unlocked, Revoke, RevokeAllOf, NewSession
<1>15. CASE GoogleLookup(r)
  BY <1>0, <1>15 DEF GoogleLookup, UserRow, TokenRow, ResetRow, Issued, Present,
     Respond, Await, Unlocked, Revoke, RevokeAllOf, NewSession
<1>16. CASE GoogleCreate(r)
  BY <1>0, <1>16 DEF GoogleCreate, UserRow, TokenRow, ResetRow, Issued, Present,
     Respond, Await, Unlocked, Revoke, RevokeAllOf, NewSession
<1>17. CASE GoogleLink(r)
  BY <1>0, <1>17 DEF GoogleLink, UserRow, TokenRow, ResetRow, Issued, Present,
     Respond, Await, Unlocked, Revoke, RevokeAllOf, NewSession
<1>18. CASE GoogleIssue(r)
  BY <1>0, <1>18 DEF GoogleIssue, UserRow, TokenRow, ResetRow, Issued, Present,
     Respond, Await, Unlocked, Revoke, RevokeAllOf, NewSession
<1>19. CASE ForgotLookup(r)
  BY <1>0, <1>19 DEF ForgotLookup, UserRow, TokenRow, ResetRow, Issued, Present,
     Respond, Await, Unlocked, Revoke, RevokeAllOf, NewSession
<1>20. CASE ForgotCreate(r)
  BY <1>0, <1>20 DEF ForgotCreate, UserRow, TokenRow, ResetRow, Issued, Present,
     Respond, Await, Unlocked, Revoke, RevokeAllOf, NewSession
<1>21. CASE ForgotMail(r)
  BY <1>0, <1>21 DEF ForgotMail, UserRow, TokenRow, ResetRow, Issued, Present,
     Respond, Await, Unlocked, Revoke, RevokeAllOf, NewSession
<1>22. CASE ResetLookup(r)
  BY <1>0, <1>22 DEF ResetLookup, UserRow, TokenRow, ResetRow, Issued, Present,
     Respond, Await, Unlocked, Revoke, RevokeAllOf, NewSession
<1>23. CASE ResetUser(r)
  BY <1>0, <1>23 DEF ResetUser, UserRow, TokenRow, ResetRow, Issued, Present,
     Respond, Await, Unlocked, Revoke, RevokeAllOf, NewSession
<1>24. CASE ResetCommit(r)
  BY <1>0, <1>24 DEF ResetCommit, UserRow, TokenRow, ResetRow, Issued, Present,
     Respond, Await, Unlocked, Revoke, RevokeAllOf, NewSession
<1> QED
    BY <1>1, <1>2, <1>3, <1>4, <1>5, <1>6, <1>7, <1>8, <1>9, <1>10, <1>11, <1>12,
     <1>13, <1>14, <1>15, <1>16, <1>17, <1>18, <1>19, <1>20, <1>21, <1>22, <1>23,
     <1>24 DEF Step

\* Tokens issued in a step are issued to users who exist.
LEMMA TokensOwned ==
  ASSUME TypeOK, RememberedRows, NEW r \in Requests, Step(r)
  PROVE  OwnedTokens'
<1>0. /\ \A u \in UserIds : users[u].email # None => users'[u].email # None
      /\ \A t \in Tokens : refreshTokens[t].user # None
           => refreshTokens'[t].user = refreshTokens[t].user
      /\ \A k \in ResetTokens : resetTokens[k].user # None
           => resetTokens'[k].user = resetTokens[k].user
      /\ inbox \in SUBSET ResetTokens
  BY RowsStay DEF TypeOK
<1>u. /\ \A t \in Tokens : refreshTokens[t].user \in Maybe(UserIds)
      /\ \A k \in ResetTokens : resetTokens[k].user \in Maybe(UserIds)
  BY DEF TypeOK, TokenRow, ResetRow
<1>1. \A t \in Tokens : refreshTokens'[t].user # None
        => \/ refreshTokens'[t].user = refreshTokens[t].user
           \/ /\ refreshTokens'[t].user = req[r].user
              /\ req[r].pc \in {"login.issue", "refresh.rotate", "google.issue"}
  <2>1. CASE Register(r)
    BY <2>1 DEF Register, TypeOK, TokenRow, At, Issued,
       Revoke, RevokeAllOf, NewSession
  <2>2. CASE LoginLookup(r)
    BY <2>2 DEF LoginLookup, TypeOK, TokenRow, At, Issued,
       Revoke, RevokeAllOf, NewSession
  <2>3. CASE RecordFailedAttempt(r)
    BY <2>3 DEF RecordFailedAttempt, TypeOK, TokenRow, At, Issued,
       Revoke, RevokeAllOf, NewSession
  <2>4. CASE LockAccount(r)
    BY <2>4 DEF LockAccount, TypeOK, TokenRow, At, Issued,
       Revoke, RevokeAllOf, NewSession
  <2>5. CASE LoginIssue(r)
    BY <2>5 DEF LoginIssue, TypeOK, TokenRow, At, Issued,
       Revoke, RevokeAllOf, NewSession
  <2>6. CASE RefreshLookup(r)
    BY <2>6 DEF RefreshLookup, TypeOK, TokenRow, At, Issued,
       Revoke, RevokeAllOf, NewSession
  <2>7. CASE RevokeFamily(r)
    BY <2>7 DEF RevokeFamily, TypeOK, TokenRow, At, Issued,
       Revoke, RevokeAllOf, NewSession
  <2>8. CASE RevokeExpired(r)
    BY <2>8 DEF RevokeExpired, TypeOK, TokenRow, At, Issued,
       Revoke, RevokeAllOf, NewSession
  <2>9. CASE RefreshUser(r)
    BY <2>9 DEF RefreshUser, TypeOK, TokenRow, At, Issued,
       Revoke, RevokeAllOf, NewSession
  <2>10. CASE Rotate(r)
    BY <2>10 DEF Rotate, TypeOK, TokenRow, At, Issued,
       Revoke, RevokeAllOf, NewSession
  <2>11. CASE LogoutAuthorize(r)
    BY <2>11 DEF LogoutAuthorize, TypeOK, TokenRow, At, Issued,
       Revoke, RevokeAllOf, NewSession
  <2>12. CASE Logout(r)
    BY <2>12 DEF Logout, TypeOK, TokenRow, At, Issued,
       Revoke, RevokeAllOf, NewSession
  <2>13. CASE LogoutAllAuthorize(r)
    BY <2>13 DEF LogoutAllAuthorize, TypeOK, TokenRow, At, Issued,
       Revoke, RevokeAllOf, NewSession
  <2>14. CASE LogoutAll(r)
    BY <2>14 DEF LogoutAll, TypeOK, TokenRow, At, Issued,
       Revoke, RevokeAllOf, NewSession
  <2>15. CASE GoogleLookup(r)
    BY <2>15 DEF GoogleLookup, TypeOK, TokenRow, At, Issued,
       Revoke, RevokeAllOf, NewSession
  <2>16. CASE GoogleCreate(r)
    BY <2>16 DEF GoogleCreate, TypeOK, TokenRow, At, Issued,
       Revoke, RevokeAllOf, NewSession
  <2>17. CASE GoogleLink(r)
    BY <2>17 DEF GoogleLink, TypeOK, TokenRow, At, Issued,
       Revoke, RevokeAllOf, NewSession
  <2>18. CASE GoogleIssue(r)
    BY <2>18 DEF GoogleIssue, TypeOK, TokenRow, At, Issued,
       Revoke, RevokeAllOf, NewSession
  <2>19. CASE ForgotLookup(r)
    BY <2>19 DEF ForgotLookup, TypeOK, TokenRow, At, Issued,
       Revoke, RevokeAllOf, NewSession
  <2>20. CASE ForgotCreate(r)
    BY <2>20 DEF ForgotCreate, TypeOK, TokenRow, At, Issued,
       Revoke, RevokeAllOf, NewSession
  <2>21. CASE ForgotMail(r)
    BY <2>21 DEF ForgotMail, TypeOK, TokenRow, At, Issued,
       Revoke, RevokeAllOf, NewSession
  <2>22. CASE ResetLookup(r)
    BY <2>22 DEF ResetLookup, TypeOK, TokenRow, At, Issued,
       Revoke, RevokeAllOf, NewSession
  <2>23. CASE ResetUser(r)
    BY <2>23 DEF ResetUser, TypeOK, TokenRow, At, Issued,
       Revoke, RevokeAllOf, NewSession
  <2>24. CASE ResetCommit(r)
    BY <2>24 DEF ResetCommit, TypeOK, TokenRow, At, Issued,
       Revoke, RevokeAllOf, NewSession
  <2> QED
      BY <2>1, <2>2, <2>3, <2>4, <2>5, <2>6, <2>7, <2>8, <2>9, <2>10, <2>11, <2>12,
     <2>13, <2>14, <2>15, <2>16, <2>17, <2>18, <2>19, <2>20, <2>21, <2>22, <2>23,
     <2>24 DEF Step
<1>2. \A k \in ResetTokens : resetTokens'[k].user # None
        => \/ resetTokens'[k].user = resetTokens[k].user
           \/ resetTokens'[k].user = req[r].user /\ req[r].pc = "forgot.create"
  <2>1. CASE Register(r)
    BY <2>1 DEF Register, TypeOK, ResetRow, At
  <2>2. CASE LoginLookup(r)
    BY <2>2 DEF LoginLookup, TypeOK, ResetRow, At
  <2>3. CASE RecordFailedAttempt(r)
    BY <2>3 DEF RecordFailedAttempt, TypeOK, ResetRow, At
  <2>4. CASE LockAccount(r)
    BY <2>4 DEF LockAccount, TypeOK, ResetRow, At
  <2>5. CASE LoginIssue(r)
    BY <2>5 DEF LoginIssue, TypeOK, ResetRow, At
  <2>6. CASE RefreshLookup(r)
    BY <2>6 DEF RefreshLookup, TypeOK, ResetRow, At
  <2>7. CASE RevokeFamily(r)
    BY <2>7 DEF RevokeFamily, TypeOK, ResetRow, At
  <2>8. CASE RevokeExpired(r)
    BY <2>8 DEF RevokeExpired, TypeOK, ResetRow, At
  <2>9. CASE RefreshUser(r)
    BY <2>9 DEF RefreshUser, TypeOK, ResetRow, At
  <2>10. CASE Rotate(r)
    BY <2>10 DEF Rotate, TypeOK, ResetRow, At
  <2>11. CASE LogoutAuthorize(r)
    BY <2>11 DEF LogoutAuthorize, TypeOK, ResetRow, At
  <2>12. CASE Logout(r)
    BY <2>12 DEF Logout, TypeOK, ResetRow, At
  <2>13. CASE LogoutAllAuthorize(r)
    BY <2>13 DEF LogoutAllAuthorize, TypeOK, ResetRow, At
  <2>14. CASE LogoutAll(r)
    BY <2>14 DEF LogoutAll, TypeOK, ResetRow, At
  <2>15. CASE GoogleLookup(r)
    BY <2>15 DEF GoogleLookup, TypeOK, ResetRow, At
  <2>16. CASE GoogleCreate(r)
    BY <2>16 DEF GoogleCreate, TypeOK, ResetRow, At
  <2>17. CASE GoogleLink(r)
    BY <2>17 DEF GoogleLink, TypeOK, ResetRow, At
  <2>18. CASE GoogleIssue(r)
    BY <2>18 DEF GoogleIssue, TypeOK, ResetRow, At
  <2>19. CASE ForgotLookup(r)
    BY <2>19 DEF ForgotLookup, TypeOK, ResetRow, At
  <2>20. CASE ForgotCreate(r)
    BY <2>20 DEF ForgotCreate, TypeOK, ResetRow, At
  <2>21. CASE ForgotMail(r)
    BY <2>21 DEF ForgotMail, TypeOK, ResetRow, At
  <2>22. CASE ResetLookup(r)
    BY <2>22 DEF ResetLookup, TypeOK, ResetRow, At
  <2>23. CASE ResetUser(r)
    BY <2>23 DEF ResetUser, TypeOK, ResetRow, At
  <2>24. CASE ResetCommit(r)
    BY <2>24 DEF ResetCommit, TypeOK, ResetRow, At
  <2> QED
      BY <2>1, <2>2, <2>3, <2>4, <2>5, <2>6, <2>7, <2>8, <2>9, <2>10, <2>11, <2>12,
     <2>13, <2>14, <2>15, <2>16, <2>17, <2>18, <2>19, <2>20, <2>21, <2>22, <2>23,
     <2>24 DEF Step
<1>3. inbox' \subseteq inbox \cup (IF req[r].pc = "forgot.mail" THEN {req[r].reset} ELSE {})
  <2>1. CASE Register(r)
    BY <2>1 DEF Register, At
  <2>2. CASE LoginLookup(r)
    BY <2>2 DEF LoginLookup, At
  <2>3. CASE RecordFailedAttempt(r)
    BY <2>3 DEF RecordFailedAttempt, At
  <2>4. CASE LockAccount(r)
    BY <2>4 DEF LockAccount, At
  <2>5. CASE LoginIssue(r)
    BY <2>5 DEF LoginIssue, At
  <2>6. CASE RefreshLookup(r)
    BY <2>6 DEF RefreshLookup, At
  <2>7. CASE RevokeFamily(r)
    BY <2>7 DEF RevokeFamily, At
  <2>8. CASE RevokeExpired(r)
    BY <2>8 DEF RevokeExpired, At
  <2>9. CASE RefreshUser(r)
    BY <2>9 DEF RefreshUser, At
  <2>10. CASE Rotate(r)
    BY <2>10 DEF Rotate, At
  <2>11. CASE LogoutAuthorize(r)
    BY <2>11 DEF LogoutAuthorize, At
  <2>12. CASE Logout(r)
    BY <2>12 DEF Logout, At
  <2>13. CASE LogoutAllAuthorize(r)
    BY <2>13 DEF LogoutAllAuthorize, At
  <2>14. CASE LogoutAll(r)
    BY <2>14 DEF LogoutAll, At
  <2>15. CASE GoogleLookup(r)
    BY <2>15 DEF GoogleLookup, At
  <2>16. CASE GoogleCreate(r)
    BY <2>16 DEF GoogleCreate, At
  <2>17. CASE GoogleLink(r)
    BY <2>17 DEF GoogleLink, At
  <2>18. CASE GoogleIssue(r)
    BY <2>18 DEF GoogleIssue, At
  <2>19. CASE ForgotLookup(r)
    BY <2>19 DEF ForgotLookup, At
  <2>20. CASE ForgotCreate(r)
    BY <2>20 DEF ForgotCreate, At
  <2>21. CASE ForgotMail(r)
    BY <2>21 DEF ForgotMail, At
  <2>22. CASE ResetLookup(r)
    BY <2>22 DEF ResetLookup, At
  <2>23. CASE ResetUser(r)
    BY <2>23 DEF ResetUser, At
  <2>24. CASE ResetCommit(r)
    BY <2>24 DEF ResetCommit, At
  <2> QED
      BY <2>1, <2>2, <2>3, <2>4, <2>5, <2>6, <2>7, <2>8, <2>9, <2>10, <2>11, <2>12,
     <2>13, <2>14, <2>15, <2>16, <2>17, <2>18, <2>19, <2>20, <2>21, <2>22, <2>23,
     <2>24 DEF Step
<1>4. req[r].pc \in {"login.issue", "refresh.rotate", "google.issue",
                     "forgot.create", "forgot.mail"}
        => req[r].user \in UserIds /\ users[req[r].user].email # None
  BY DEF RememberedRows, Remembers
<1>5. req[r].pc = "forgot.mail"
        => /\ req[r].reset \in ResetTokens
           /\ resetTokens[req[r].reset].user = req[r].user
  BY DEF RememberedRows, Remembers
<1>6. \A t \in Tokens : refreshTokens'[t].user # None
        => users'[refreshTokens'[t].user].email # None
  BY <1>0, <1>u, <1>1, <1>4 DEF RememberedRows, OwnedTokens, Maybe
<1>7. \A k \in ResetTokens : resetTokens'[k].user # None
        => users'[resetTokens'[k].user].email # None
  BY <1>0, <1>u, <1>2, <1>4 DEF RememberedRows, OwnedTokens, Maybe
<1>8. \A k \in inbox' : resetTokens'[k].user # None
  BY <1>0, <1>3, <1>4, <1>5, NoneAssumption DEF RememberedRows, OwnedTokens
<1> QED BY <1>6, <1>7, <1>8 DEF OwnedTokens

\* What the request that takes the step remembers after it.
LEMMA OwnRequest ==
  ASSUME TypeOK, RememberedRows, NEW r \in Requests, Step(r)
  PROVE  Remembers(req[r])'
<1>0. /\ \A u \in UserIds : users[u].email # None => users'[u].email # None
      /\ \A t \in Tokens : refreshTokens[t].user # None
           => refreshTokens'[t].user = refreshTokens[t].user
      /\ \A k \in ResetTokens : resetTokens[k].user # None
           => resetTokens'[k].user = resetTokens[k].user
      /\ inbox \in SUBSET ResetTokens
      /\ req \in [Requests -> Request]
      /\ \A t \in Tokens : refreshTokens[t].user \in Maybe(UserIds)
      /\ \A k \in ResetTokens : resetTokens[k].user \in Maybe(UserIds)
      /\ Remembers(req[r]) /\ OwnedTokens
  BY RowsStay DEF TypeOK, TokenRow, ResetRow, RememberedRows
<1>1. CASE Register(r)
  BY <1>0, <1>1, NoneAssumption, LowerCaseAssumption DEF Register, Remembers,
     OwnedTokens, Maybe, At, Calls, Await, Respond, NoRequest, Request,
     Present, Live, InService, Authorized, Issued, GoogleProfile, GoogleMatches, NewUser
<1>2. CASE LoginLookup(r)
  BY <1>0, <1>2, NoneAssumption, LowerCaseAssumption DEF LoginLookup, Remembers,
     OwnedTokens, Maybe, At, Calls, Await, Respond, NoRequest, Request,
     Present, Live, InService, Authorized, Issued, GoogleProfile, GoogleMatches, NewUser
<1>3. CASE RecordFailedAttempt(r)
  BY <1>0, <1>3, NoneAssumption, LowerCaseAssumption DEF RecordFailedAttempt, Remembers,
     OwnedTokens, Maybe, At, Calls, Await, Respond, NoRequest, Request,
     Present, Live, InService, Authorized, Issued, GoogleProfile, GoogleMatches, NewUser
<1>4. CASE LockAccount(r)
  BY <1>0, <1>4, NoneAssumption, LowerCaseAssumption DEF LockAccount, Remembers,
     OwnedTokens, Maybe, At, Calls, Await, Respond, NoRequest, Request,
     Present, Live, InService, Authorized, Issued, GoogleProfile, GoogleMatches, NewUser
<1>5. CASE LoginIssue(r)
  BY <1>0, <1>5, NoneAssumption, LowerCaseAssumption DEF LoginIssue, Remembers,
     OwnedTokens, Maybe, At, Calls, Await, Respond, NoRequest, Request,
     Present, Live, InService, Authorized, Issued, GoogleProfile, GoogleMatches, NewUser
<1>6. CASE RefreshLookup(r)
  <2>1. PICK t \in Tokens :
          /\ Issued(t)
          /\ req'[r].user = refreshTokens[t].user /\ req'[r].token = t
          /\ req'[r].pc \in {"refresh.reuse", "refresh.expired", "refresh.user"}
    <3>1. PICK t \in Tokens :
            /\ Issued(t)
            /\ req' = [req EXCEPT ![r] = [NoRequest EXCEPT
                 !.user = refreshTokens[t].user, !.token = t,
                 !.pc = CASE refreshTokens[t].state = "revoked" -> "refresh.reuse"
                          [] refreshTokens[t].state = "expired" -> "refresh.expired"
                          [] refreshTokens[t].state = "valid" -> "refresh.user"]]
      BY <1>6 DEF RefreshLookup
    <3>2. refreshTokens[t].state \in {"valid", "expired", "revoked"}
      BY DEF TypeOK, TokenRow
    <3> QED BY <1>0, <3>1, <3>2 DEF NoRequest
  <2>2. /\ refreshTokens' = refreshTokens /\ users' = users
        /\ resetTokens' = resetTokens
    BY <1>6 DEF RefreshLookup
  <2> QED BY <1>0, <2>1, <2>2 DEF Remembers, OwnedTokens, Maybe, Issued
<1>7. CASE RevokeFamily(r)
  BY <1>0, <1>7, NoneAssumption, LowerCaseAssumption DEF RevokeFamily, Remembers,
     OwnedTokens, Maybe, At, Calls, Await, Respond, NoRequest, Request,
     Present, Live, InService, Authorized, Issued, GoogleProfile, GoogleMatches, NewUser
<1>8. CASE RevokeExpired(r)
  BY <1>0, <1>8, NoneAssumption, LowerCaseAssumption DEF RevokeExpired, Remembers,
     OwnedTokens, Maybe, At, Calls, Await, Respond, NoRequest, Request,
     Present, Live, InService, Authorized, Issued, GoogleProfile, GoogleMatches, NewUser
<1>9. CASE RefreshUser(r)
  BY <1>0, <1>9, NoneAssumption, LowerCaseAssumption DEF RefreshUser, Remembers,
     OwnedTokens, Maybe, At, Calls, Await, Respond, NoRequest, Request,
     Present, Live, InService, Authorized, Issued, GoogleProfile, GoogleMatches, NewUser
<1>10. CASE Rotate(r)
  BY <1>0, <1>10, NoneAssumption, LowerCaseAssumption DEF Rotate, Remembers,
     OwnedTokens, Maybe, At, Calls, Await, Respond, NoRequest, Request,
     Present, Live, InService, Authorized, Issued, GoogleProfile, GoogleMatches, NewUser
<1>11. CASE LogoutAuthorize(r)
  BY <1>0, <1>11, NoneAssumption, LowerCaseAssumption DEF LogoutAuthorize, Remembers,
     OwnedTokens, Maybe, At, Calls, Await, Respond, NoRequest, Request,
     Present, Live, InService, Authorized, Issued, GoogleProfile, GoogleMatches, NewUser
<1>12. CASE Logout(r)
  BY <1>0, <1>12, NoneAssumption, LowerCaseAssumption DEF Logout, Remembers,
     OwnedTokens, Maybe, At, Calls, Await, Respond, NoRequest, Request,
     Present, Live, InService, Authorized, Issued, GoogleProfile, GoogleMatches, NewUser
<1>13. CASE LogoutAllAuthorize(r)
  BY <1>0, <1>13, NoneAssumption, LowerCaseAssumption DEF LogoutAllAuthorize, Remembers,
     OwnedTokens, Maybe, At, Calls, Await, Respond, NoRequest, Request,
     Present, Live, InService, Authorized, Issued, GoogleProfile, GoogleMatches, NewUser
<1>14. CASE LogoutAll(r)
  BY <1>0, <1>14, NoneAssumption, LowerCaseAssumption DEF LogoutAll, Remembers,
     OwnedTokens, Maybe, At, Calls, Await, Respond, NoRequest, Request,
     Present, Live, InService, Authorized, Issued, GoogleProfile, GoogleMatches, NewUser
<1>15. CASE GoogleLookup(r)
  <2>1. PICK g \in GoogleIds, e \in Addresses :
          /\ Calls(r, "google")
          /\ \/ /\ GoogleMatches(g, LowerCase[e]) = {}
                /\ req' = [req EXCEPT ![r] =
                     [GoogleProfile(g, LowerCase[e]) EXCEPT !.pc = "google.create"]]
             \/ \E u \in GoogleMatches(g, LowerCase[e]) :
                  /\ users[u].googleId = g => users[u].isActive
                  /\ req' = [req EXCEPT ![r] =
                       [GoogleProfile(g, LowerCase[e]) EXCEPT !.user = u,
                          !.isActive = users[u].isActive,
                          !.pc = IF users[u].googleId = g
                                 THEN "google.issue" ELSE "google.link"]]
          /\ UNCHANGED <<users, refreshTokens, resetTokens, inbox>>
    BY <1>15, Zenon DEF GoogleLookup
  <2>2. CASE req' = [req EXCEPT ![r] =
               [GoogleProfile(g, LowerCase[e]) EXCEPT !.pc = "google.create"]]
    <3>1. req'[r].pc = "google.create" /\ req'[r].email = LowerCase[e]
      BY <1>0, <2>2 DEF GoogleProfile, NoRequest
    <3> QED BY <3>1, LowerCaseAssumption, NoneAssumption DEF Remembers
  <2>3. ASSUME NEW u \in GoogleMatches(g, LowerCase[e]),
               req' = [req EXCEPT ![r] =
                 [GoogleProfile(g, LowerCase[e]) EXCEPT !.user = u,
                    !.isActive = users[u].isActive,
                    !.pc = IF users[u].googleId = g
                           THEN "google.issue" ELSE "google.link"]]
        PROVE  Remembers(req[r])'
    <3>1. req'[r].pc \in {"google.issue", "google.link"} /\ req'[r].user = u
      BY <1>0, <2>3 DEF GoogleProfile, NoRequest
    <3>2. u \in UserIds /\ users'[u].email # None
      BY <1>0 DEF GoogleMatches, Present
    <3> QED BY <3>1, <3>2 DEF Remembers
  <2> QED BY <2>1, <2>2, <2>3
<1>16. CASE GoogleCreate(r)
  <2>1. CASE EmailTaken(req[r].email) \/ GoogleIdTaken(req[r].googleId)
    <3>1. req'[r] = NoRequest
      BY <1>0, <1>16, <2>1 DEF GoogleCreate, Respond
    <3> QED BY <3>1 DEF Remembers, NoRequest
  <2>2. CASE ~(EmailTaken(req[r].email) \/ GoogleIdTaken(req[r].googleId))
    <3>1. PICK u \in UserIds :
            /\ users' = [users EXCEPT ![u] =
                           NewUser(req[r].email, None, req[r].googleId)]
            /\ req' = [req EXCEPT ![r] = [@ EXCEPT !.pc = "google.issue", !.user = u]]
      BY <1>16, <2>2 DEF GoogleCreate
    <3>2. req'[r].pc = "google.issue" /\ req'[r].user = u
      BY <1>0, <3>1 DEF Request
    <3>3. req[r].email # None
      BY <1>0, <1>16 DEF GoogleCreate, At, Remembers
    <3>4. users'[u].email # None
      BY <3>1, <3>3 DEF TypeOK, NewUser
    <3> QED BY <3>2, <3>4 DEF Remembers
  <2> QED BY <2>1, <2>2
<1>17. CASE GoogleLink(r)
  BY <1>0, <1>17, NoneAssumption, LowerCaseAssumption DEF GoogleLink, Remembers,
     OwnedTokens, Maybe, At, Calls, Await, Respond, NoRequest, Request,
     Present, Live, InService, Authorized, Issued, GoogleProfile, GoogleMatches, NewUser
<1>18. CASE GoogleIssue(r)
  BY <1>0, <1>18, NoneAssumption, LowerCaseAssumption DEF GoogleIssue, Remembers,
     OwnedTokens, Maybe, At, Calls, Await, Respond, NoRequest, Request,
     Present, Live, InService, Authorized, Issued, GoogleProfile, GoogleMatches, NewUser
<1>19. CASE ForgotLookup(r)
  BY <1>0, <1>19, NoneAssumption, LowerCaseAssumption DEF ForgotLookup, Remembers,
     OwnedTokens, Maybe, At, Calls, Await, Respond, NoRequest, Request,
     Present, Live, InService, Authorized, Issued, GoogleProfile, GoogleMatches, NewUser
<1>20. CASE ForgotCreate(r)
  <2>1. PICK k \in ResetTokens :
          /\ resetTokens' = [resetTokens EXCEPT ![k].user = req[r].user]
          /\ req' = [req EXCEPT ![r] = [@ EXCEPT !.pc = "forgot.mail", !.reset = k]]
          /\ UNCHANGED <<users, refreshTokens, inbox>>
    BY <1>20 DEF ForgotCreate
  <2>2. /\ req'[r].pc = "forgot.mail" /\ req'[r].reset = k
        /\ req'[r].user = req[r].user
    BY <1>0, <2>1 DEF Request
  <2>3. resetTokens'[k].user = req[r].user
    BY <2>1 DEF TypeOK, ResetRow
  <2>4. req[r].user \in UserIds /\ users[req[r].user].email # None
    BY <1>0, <1>20 DEF ForgotCreate, At, Remembers
  <2> QED BY <2>1, <2>2, <2>3, <2>4 DEF Remembers
<1>21. CASE ForgotMail(r)
  BY <1>0, <1>21, NoneAssumption, LowerCaseAssumption DEF ForgotMail, Remembers,
     OwnedTokens, Maybe, At, Calls, Await, Respond, NoRequest, Request,
     Present, Live, InService, Authorized, Issued, GoogleProfile, GoogleMatches, NewUser
<1>22. CASE ResetLookup(r)
  BY <1>0, <1>22, NoneAssumption, LowerCaseAssumption DEF ResetLookup, Remembers,
     OwnedTokens, Maybe, At, Calls, Await, Respond, NoRequest, Request,
     Present, Live, InService, Authorized, Issued, GoogleProfile, GoogleMatches, NewUser
<1>23. CASE ResetUser(r)
  BY <1>0, <1>23, NoneAssumption, LowerCaseAssumption DEF ResetUser, Remembers,
     OwnedTokens, Maybe, At, Calls, Await, Respond, NoRequest, Request,
     Present, Live, InService, Authorized, Issued, GoogleProfile, GoogleMatches, NewUser
<1>24. CASE ResetCommit(r)
  BY <1>0, <1>24, NoneAssumption, LowerCaseAssumption DEF ResetCommit, Remembers,
     OwnedTokens, Maybe, At, Calls, Await, Respond, NoRequest, Request,
     Present, Live, InService, Authorized, Issued, GoogleProfile, GoogleMatches, NewUser
<1> QED
    BY <1>1, <1>2, <1>3, <1>4, <1>5, <1>6, <1>7, <1>8, <1>9, <1>10, <1>11, <1>12,
     <1>13, <1>14, <1>15, <1>16, <1>17, <1>18, <1>19, <1>20, <1>21, <1>22, <1>23,
     <1>24 DEF Step

\* The three lemmas above, put together.
LEMMA StepRemembers ==
  ASSUME TypeOK, RememberedRows, NEW r \in Requests, Step(r)
  PROVE  RememberedRows'
<1>1. ASSUME NEW q \in Requests, q # r PROVE Remembers(req[q])'
  <2>1. req'[q] = req[q] /\ req[q] \in Request /\ Remembers(req[q])
    BY <1>1, RowsStay DEF TypeOK, RememberedRows
  <2>2. /\ \A u \in UserIds : users[u].email # None => users'[u].email # None
        /\ \A t \in Tokens : refreshTokens[t].user # None
             => refreshTokens'[t].user = refreshTokens[t].user
        /\ \A k \in ResetTokens : resetTokens[k].user # None
             => resetTokens'[k].user = resetTokens[k].user
    BY RowsStay
  <2> QED BY <2>1, <2>2, NoneAssumption DEF Remembers
<1> QED BY <1>1, OwnRequest, TokensOwned DEF RememberedRows

\* A request that dies forgets what it remembered.
LEMMA AbortInvariant ==
  ASSUME TypeOK, RememberedRows, NEW r \in Requests, Abort(r)
  PROVE  TypeOK' /\ RememberedRows'
<1>1. TypeOK'
  BY RespondType DEF Abort, TypeOK
<1>2. RememberedRows'
  BY DEF Abort, Respond, NoRequest, TypeOK, RememberedRows, Remembers, OwnedTokens
<1> QED BY <1>1, <1>2

\* Time passing and edits of the users table keep keys and owners.
LEMMA EnvironmentInvariant ==
  ASSUME TypeOK, RememberedRows, Environment
  PROVE  TypeOK' /\ RememberedRows'
<1>1. /\ TypeOK'
      /\ req' = req /\ inbox' = inbox
      /\ \A u \in UserIds : users'[u].email = users[u].email
      /\ \A t \in Tokens : refreshTokens'[t].user = refreshTokens[t].user
      /\ \A k \in ResetTokens : resetTokens'[k].user = resetTokens[k].user
  <2>1. CASE LockElapses
    BY <2>1 DEF LockElapses, TypeOK, UserRow
  <2>2. CASE TokenExpires
    BY <2>2 DEF TokenExpires, TypeOK, TokenRow
  <2>3. CASE ResetTokenExpires
    BY <2>3 DEF ResetTokenExpires, TypeOK, ResetRow
  <2>4. CASE AccountEdited
    <3>1. PICK u \in UserIds, isActive \in BOOLEAN, deleted \in BOOLEAN :
            /\ users' = [users EXCEPT ![u] =
                           [@ EXCEPT !.isActive = isActive, !.deleted = deleted]]
            /\ UNCHANGED <<refreshTokens, resetTokens, inbox, req>>
      BY <2>4 DEF AccountEdited
    <3> DEFINE row == [users[u] EXCEPT !.isActive = isActive, !.deleted = deleted]
    <3>2. row \in UserRow /\ row.email = users[u].email
      BY DEF TypeOK, UserRow
    <3>3. users' = [users EXCEPT ![u] = row]
      BY <3>1
    <3> HIDE DEF row
    <3> QED BY <3>1, <3>2, <3>3 DEF TypeOK
  <2> QED BY <2>1, <2>2, <2>3, <2>4 DEF Environment
<1>3. /\ \A t \in Tokens : refreshTokens[t].user \in Maybe(UserIds)
      /\ \A k \in ResetTokens : resetTokens[k].user \in Maybe(UserIds)
      /\ inbox \in SUBSET ResetTokens
  BY DEF TypeOK, TokenRow, ResetRow
<1>4. OwnedTokens'
  BY <1>1, <1>3 DEF RememberedRows, OwnedTokens, Maybe
<1>5. \A r \in Requests : Remembers(req[r])'
  BY <1>1 DEF RememberedRows, Remembers
<1> QED BY <1>1, <1>4, <1>5 DEF RememberedRows

\* No request is under way at first.
LEMMA InitialRemembered == Init => RememberedRows
  BY DEF Init, NoRequest, RememberedRows, Remembers, OwnedTokens

\* The types and the remembered rows are inductive only together.
LEMMA Invariance == Spec => [](TypeOK /\ RememberedRows)
<1>1. Init => TypeOK /\ RememberedRows
  BY InitialType, InitialRemembered
<1>2. TypeOK /\ RememberedRows /\ [Next]_vars => (TypeOK /\ RememberedRows)'
  <2> SUFFICES ASSUME TypeOK, RememberedRows, [Next]_vars
               PROVE  TypeOK' /\ RememberedRows'
    OBVIOUS
  <2>1. ASSUME NEW r \in Requests, Step(r) PROVE TypeOK' /\ RememberedRows'
    BY <2>1, StepType, StepRemembers
  <2>2. ASSUME NEW r \in Requests, Abort(r) PROVE TypeOK' /\ RememberedRows'
    BY <2>2, AbortInvariant
  <2>3. CASE Environment
    BY <2>3, EnvironmentInvariant
  <2>4. CASE UNCHANGED vars
    BY <2>4 DEF vars, TypeOK, RememberedRows, Remembers, OwnedTokens
  <2> QED BY <2>1, <2>2, <2>3, <2>4 DEF Next
<1> QED BY <1>1, <1>2, PTL DEF Spec

\* The tables and the requests have their types in every reachable state.
THEOREM TypeCorrect == Spec => []TypeOK
BY Invariance, PTL

\* A suspended request never works on a row that is gone or somebody else's:
\* the ids auth.service.ts carries over an await stay good.
THEOREM RowsRemembered == Spec => []RememberedRows
BY Invariance, PTL
----------------------------------------------------------------------------
(* What a step does to the request that takes it, and to the accounts.     *)

\* The lookup that begins a request, and what it has read.
Begins(r) == LET q == req'[r] IN
    /\ req[r].pc = "idle"
    /\ UNCHANGED <<users, refreshTokens, resetTokens, inbox>>
    /\ \/ /\ q.pc \in {"login.issue", "login.failed", "logoutAll", "forgot.create"}
          /\ q.user \in UserIds /\ InService(q.user) /\ q.token = None
       \/ /\ q.token \in Tokens /\ Issued(q.token)
          /\ q.user = refreshTokens[q.token].user
          /\ \/ q.pc = "refresh.reuse" /\ refreshTokens[q.token].state = "revoked"
             \/ q.pc = "refresh.expired" /\ refreshTokens[q.token].state = "expired"
             \/ q.pc = "refresh.user" /\ refreshTokens[q.token].state = "valid"
       \/ q.pc = "logout" /\ q.token \in Tokens /\ Issued(q.token)
       \/ /\ q.pc = "google.create" /\ "google" \in Operations
          /\ q.token = None /\ q.email \in Addresses /\ LowerCase[q.email] = q.email
       \/ /\ q.pc \in {"google.issue", "google.link"} /\ "google" \in Operations
          /\ q.token = None /\ q.user \in UserIds /\ Present(q.user)
          /\ q.isActive = users[q.user].isActive
          /\ q.pc = "google.issue" => users[q.user].isActive
       \/ /\ q.pc = "reset.user" /\ q.token = None
          /\ q.reset \in ResetTokens /\ resetTokens[q.reset].state = "valid"

\* A request goes on to its next await.
GoesOn(r) == LET p == req[r]
                 q == req'[r] IN
    /\ q.token = p.token /\ q.isActive = p.isActive
    /\ \/ p.pc = "google.create" \/ q.user = p.user
    /\ \/ p.pc = "forgot.create" \/ q.reset = p.reset
    /\ \/ p.pc = "login.failed" /\ q.pc = "login.lock"
       \/ p.pc = "refresh.user" /\ q.pc = "refresh.rotate" /\ InService(p.user)
       \/ p.pc = "google.create" /\ q.pc = "google.issue"
            /\ q.user \in UserIds /\ ~Present(q.user) /\ users'[q.user].isActive
       \/ p.pc = "google.link" /\ q.pc = "google.issue" /\ p.isActive
       \/ p.pc = "forgot.create" /\ q.pc = "forgot.mail"
       \/ p.pc = "reset.user" /\ q.pc = "reset.commit" /\ InService(p.user)

\* A request responds, or fails, and is gone.
Ends(r) == req[r].pc # "idle" /\ req'[r] = NoRequest

\* A request that responds has nothing left in hand.
LEMMA Responded ==
  ASSUME TypeOK, NEW r \in Requests, Respond(r)
  PROVE  /\ req'[r] = NoRequest /\ req'[r].pc = "idle"
         /\ \A s \in Requests \ {r} : req'[s] = req[s]
  BY DEF TypeOK, Respond, NoRequest

\* A request that awaits something else keeps what it has in hand.
LEMMA Awaited ==
  ASSUME TypeOK, NEW r \in Requests, NEW await, Await(r, await)
  PROVE  /\ req'[r].pc = await
         /\ req'[r].user = req[r].user /\ req'[r].token = req[r].token
         /\ req'[r].reset = req[r].reset /\ req'[r].isActive = req[r].isActive
  BY DEF TypeOK, Await, Request

\* The two lookups that branch most, apart from the others.
LEMMA GoogleBegins ==
  ASSUME TypeOK, NEW r \in Requests, GoogleLookup(r)
  PROVE  Begins(r)
<1>0. req \in [Requests -> Request]
  BY DEF TypeOK
<1>1. PICK g \in GoogleIds, e \in Addresses :
        /\ Calls(r, "google")
        /\ \/ /\ GoogleMatches(g, LowerCase[e]) = {}
              /\ req' = [req EXCEPT ![r] =
                   [GoogleProfile(g, LowerCase[e]) EXCEPT !.pc = "google.create"]]
           \/ \E u \in GoogleMatches(g, LowerCase[e]) :
                /\ users[u].googleId = g => users[u].isActive
                /\ req' = [req EXCEPT ![r] =
                     [GoogleProfile(g, LowerCase[e]) EXCEPT !.user = u,
                        !.isActive = users[u].isActive,
                        !.pc = IF users[u].googleId = g
                               THEN "google.issue" ELSE "google.link"]]
        /\ UNCHANGED <<users, refreshTokens, resetTokens, inbox>>
  BY Zenon DEF GoogleLookup
<1> DEFINE profile == GoogleProfile(g, LowerCase[e])
           linked(u) == [profile EXCEPT
                !.user = u, !.isActive = users[u].isActive,
                !.pc = IF users[u].googleId = g THEN "google.issue" ELSE "google.link"]
           unknown == [profile EXCEPT !.pc = "google.create"]
<1>2. /\ unknown.pc = "google.create" /\ unknown.token = None /\ unknown.email = LowerCase[e]
      /\ \A u \in UserIds :
           /\ linked(u).pc = IF users[u].googleId = g THEN "google.issue" ELSE "google.link"
           /\ linked(u).token = None /\ linked(u).user = u
           /\ linked(u).isActive = users[u].isActive
  BY DEF GoogleProfile, NoRequest
<1>3. \/ req' = [req EXCEPT ![r] = unknown]
      \/ \E u \in GoogleMatches(g, LowerCase[e]) :
           (users[u].googleId = g => users[u].isActive) /\ req' = [req EXCEPT ![r] = linked(u)]
  BY <1>1, Zenon
<1>4. /\ "google" \in Operations /\ req[r].pc = "idle"
      /\ UNCHANGED <<users, refreshTokens, resetTokens, inbox>>
      /\ LowerCase[e] \in Addresses /\ LowerCase[LowerCase[e]] = LowerCase[e]
  BY <1>1, LowerCaseAssumption DEF Calls, At
<1> HIDE DEF profile, linked, unknown
<1>5. CASE req' = [req EXCEPT ![r] = unknown]
  <2>1. req'[r] = unknown
    BY <1>0, <1>5
  <2> QED BY <1>2, <1>4, <2>1 DEF Begins
<1>6. CASE \E u \in GoogleMatches(g, LowerCase[e]) :
             (users[u].googleId = g => users[u].isActive) /\ req' = [req EXCEPT ![r] = linked(u)]
  <2>1. PICK u \in GoogleMatches(g, LowerCase[e]) :
          (users[u].googleId = g => users[u].isActive) /\ req' = [req EXCEPT ![r] = linked(u)]
    BY <1>6
  <2>2. u \in UserIds /\ Present(u)
    BY DEF GoogleMatches
  <2>3. req'[r] = linked(u)
    BY <1>0, <2>1
  <2> QED BY <1>2, <1>4, <2>1, <2>2, <2>3 DEF Begins
<1> QED BY <1>3, <1>5, <1>6

LEMMA RefreshBegins ==
  ASSUME TypeOK, NEW r \in Requests, RefreshLookup(r)
  PROVE  Begins(r) /\ req'[r].pc \in {"refresh.reuse", "refresh.expired", "refresh.user"}
<1>1. PICK t \in Tokens :
        /\ req' = [req EXCEPT ![r] = [NoRequest EXCEPT
             !.user = refreshTokens[t].user, !.token = t,
             !.pc = CASE refreshTokens[t].state = "revoked" -> "refresh.reuse"
                      [] refreshTokens[t].state = "expired" -> "refresh.expired"
                      [] refreshTokens[t].state = "valid" -> "refresh.user"]]
        /\ Issued(t) /\ req[r].pc = "idle"
        /\ UNCHANGED <<users, refreshTokens, resetTokens, inbox>>
  BY DEF RefreshLookup, Calls, At
<1> DEFINE pc == CASE refreshTokens[t].state = "revoked" -> "refresh.reuse"
                   [] refreshTokens[t].state = "expired" -> "refresh.expired"
                   [] refreshTokens[t].state = "valid" -> "refresh.user"
<1>2. refreshTokens[t].state \in {"valid", "expired", "revoked"}
  BY DEF TypeOK, TokenRow
<1>3. /\ pc \in {"refresh.reuse", "refresh.expired", "refresh.user"}
      /\ pc = "refresh.reuse" => refreshTokens[t].state = "revoked"
      /\ pc = "refresh.expired" => refreshTokens[t].state = "expired"
      /\ pc = "refresh.user" => refreshTokens[t].state = "valid"
  BY <1>2
<1>5. req' = [req EXCEPT ![r] =
                [NoRequest EXCEPT !.user = refreshTokens[t].user, !.token = t, !.pc = pc]]
  BY <1>1
<1> HIDE DEF pc
<1>4. req'[r].pc = pc /\ req'[r].token = t /\ req'[r].user = refreshTokens[t].user
  BY <1>5 DEF NoRequest, TypeOK
<1> QED BY <1>1, <1>3, <1>4 DEF Begins

\* Every step but Register begins a request, takes it to its next await or ends
\* it, and touches no other.
LEMMA StepMoves ==
  ASSUME TypeOK, RememberedRows, NEW r \in Requests, Step(r)
  PROVE  /\ \A s \in Requests \ {r} : req'[s] = req[s]
         /\ \/ Register(r) /\ req' = req
            \/ Begins(r) \/ GoesOn(r) \/ Ends(r)
<1>0. req \in [Requests -> Request] /\ req[r] \in Request
  BY DEF TypeOK
<1>1. CASE Register(r)
  BY <1>1 DEF Register
<1>2. CASE LoginLookup(r)
  <2>1. PICK u \in UserIds, pc \in {"login.issue", "login.failed"} :
          req' = [req EXCEPT ![r] = [NoRequest EXCEPT !.user = u, !.pc = pc]] /\ InService(u)
    BY <1>2 DEF LoginLookup, InService
  <2>2. req'[r].pc = pc /\ req'[r].user = u /\ req'[r].token = None
    BY <1>0, <2>1 DEF NoRequest
  <2> QED BY <1>2, <2>1, <2>2 DEF LoginLookup, Begins, Calls, At
<1>3. CASE LogoutAllAuthorize(r) \/ ForgotLookup(r)
  <2>1. PICK u \in UserIds, pc \in {"logoutAll", "forgot.create"} :
          req' = [req EXCEPT ![r] = [NoRequest EXCEPT !.pc = pc, !.user = u]] /\ InService(u)
    BY <1>3 DEF LogoutAllAuthorize, ForgotLookup, Authorized
  <2>2. req'[r].pc = pc /\ req'[r].user = u /\ req'[r].token = None
    BY <1>0, <2>1 DEF NoRequest
  <2>3. /\ req[r].pc = "idle" /\ UNCHANGED <<users, refreshTokens, resetTokens, inbox>>
        /\ \A s \in Requests \ {r} : req'[s] = req[s]
    BY <1>0, <1>3, <2>1 DEF LogoutAllAuthorize, ForgotLookup, Calls, At
  <2> QED BY <2>1, <2>2, <2>3 DEF Begins
<1>4. CASE LogoutAuthorize(r)
  BY <1>0, <1>4 DEF LogoutAuthorize, Begins, Calls, At, NoRequest
<1>5. CASE ResetLookup(r)
  <2>1. PICK k \in inbox :
          /\ resetTokens[k].state = "valid"
          /\ req' = [req EXCEPT ![r] = [NoRequest EXCEPT !.pc = "reset.user",
                       !.user = resetTokens[k].user, !.reset = k]]
    BY <1>5 DEF ResetLookup
  <2>2. req'[r].pc = "reset.user" /\ req'[r].reset = k /\ req'[r].token = None
    BY <1>0, <2>1 DEF NoRequest
  <2>3. k \in ResetTokens
    BY DEF TypeOK
  <2> QED BY <1>5, <2>1, <2>2, <2>3 DEF ResetLookup, Begins, Calls, At
<1>6. CASE GoogleLookup(r) \/ RefreshLookup(r)
  BY <1>0, <1>6, GoogleBegins, RefreshBegins, Zenon DEF GoogleLookup, RefreshLookup
<1>7. CASE RecordFailedAttempt(r) \/ RefreshUser(r) \/ ResetUser(r) \/ GoogleLink(r)
  <2>1. \/ Respond(r) /\ req[r].pc # "idle"
        \/ /\ req[r].pc = "login.failed" /\ Await(r, "login.lock")
        \/ /\ req[r].pc = "refresh.user" /\ Await(r, "refresh.rotate")
           /\ InService(req[r].user)
        \/ /\ req[r].pc = "reset.user" /\ Await(r, "reset.commit") /\ InService(req[r].user)
        \/ /\ req[r].pc = "google.link" /\ Await(r, "google.issue") /\ req[r].isActive
    BY <1>7 DEF RecordFailedAttempt, RefreshUser, ResetUser, GoogleLink, At
  <2>2. CASE Respond(r) /\ req[r].pc # "idle"
    BY <2>2, Responded DEF Ends
  <2>3. CASE ~Respond(r)
    <3>1. \A s \in Requests \ {r} : req'[s] = req[s]
      BY <1>0, <2>1, <2>3 DEF Await
    <3> QED BY <2>1, <2>3, <3>1, Awaited DEF GoesOn
  <2> QED BY <2>1, <2>2, <2>3
<1>8. CASE GoogleCreate(r)
  <2>1. CASE Respond(r)
    BY <1>8, <2>1, Responded DEF Ends, GoogleCreate, At
  <2>2. CASE \E u \in UserIds :
               /\ ~Present(u)
               /\ users' = [users EXCEPT ![u] = NewUser(req[r].email, None, req[r].googleId)]
               /\ req' = [req EXCEPT ![r] = [@ EXCEPT !.pc = "google.issue", !.user = u]]
    <3>1. PICK u \in UserIds :
            /\ ~Present(u)
            /\ users' = [users EXCEPT ![u] = NewUser(req[r].email, None, req[r].googleId)]
            /\ req' = [req EXCEPT ![r] = [req[r] EXCEPT !.pc = "google.issue", !.user = u]]
      BY <2>2
    <3>2. /\ req'[r].pc = "google.issue" /\ req'[r].user = u
          /\ req'[r].token = req[r].token /\ req'[r].isActive = req[r].isActive
          /\ req'[r].reset = req[r].reset
          /\ \A s \in Requests \ {r} : req'[s] = req[s]
      BY <1>0, <3>1 DEF Request
    <3>3. users'[u].isActive
      BY <3>1 DEF NewUser, TypeOK
    <3>4. req[r].pc = "google.create"
      BY <1>8 DEF GoogleCreate, At
    <3> QED BY <3>1, <3>2, <3>3, <3>4 DEF GoesOn
  <2> QED BY <1>8, <2>1, <2>2 DEF GoogleCreate
<1>9. CASE ForgotCreate(r)
  <2>1. PICK k \in ResetTokens :
          req' = [req EXCEPT ![r] = [req[r] EXCEPT !.pc = "forgot.mail", !.reset = k]]
    BY <1>9 DEF ForgotCreate
  <2>2. /\ req'[r].pc = "forgot.mail" /\ req'[r].user = req[r].user
        /\ req'[r].token = req[r].token /\ req'[r].isActive = req[r].isActive
        /\ \A s \in Requests \ {r} : req'[s] = req[s]
    BY <1>0, <2>1 DEF Request
  <2> QED BY <1>9, <2>2 DEF ForgotCreate, At, GoesOn
<1>10. CASE \/ LockAccount(r) \/ LoginIssue(r) \/ RevokeFamily(r) \/ RevokeExpired(r)
            \/ Rotate(r) \/ Logout(r) \/ LogoutAll(r) \/ GoogleIssue(r)
            \/ ForgotMail(r) \/ ResetCommit(r)
  <2>1. Respond(r) /\ req[r].pc # "idle"
    BY <1>10
    DEF LockAccount, LoginIssue, RevokeFamily, RevokeExpired, Rotate, Logout, LogoutAll,
        GoogleIssue, ForgotMail, ResetCommit, At
  <2> QED BY <2>1, Responded DEF Ends
<1> QED BY <1>1, <1>2, <1>3, <1>4, <1>5, <1>6, <1>7, <1>8, <1>9, <1>10 DEF Step

\* A step leaves what the gates and the unique indexes look at, or ...
IdentitiesKept == \A u \in UserIds :
    /\ users'[u].email = users[u].email /\ users'[u].googleId = users[u].googleId
    /\ users'[u].isActive = users[u].isActive /\ users'[u].deleted = users[u].deleted

\* ... inserts an account, or ...
Inserts == \E u \in UserIds, e \in Addresses :
    /\ ~Present(u) /\ LowerCase[e] = e /\ ~EmailTaken(e)
    /\ \E p, g : /\ g = None \/ ~GoogleIdTaken(g)
                 /\ users' = [users EXCEPT ![u] = NewUser(e, p, g)]

\* ... links one.
Links == \E u \in UserIds : \E g :
    /\ \A v \in UserIds \ {u} : users[v].googleId # g
    /\ users' = [users EXCEPT ![u].googleId = g]

\* Every step leaves the accounts, inserts one, or links one.
LEMMA StepAccounts ==
  ASSUME TypeOK, RememberedRows, NEW r \in Requests, Step(r),
         req[r].pc = "google.create"
           => req[r].email \in Addresses /\ LowerCase[req[r].email] = req[r].email
  PROVE  IdentitiesKept \/ Inserts \/ Links
<1>0. /\ users \in [UserIds -> UserRow] /\ Remembers(req[r])
  BY DEF TypeOK, RememberedRows
<1>1. CASE Register(r)
  <2>1. PICK e \in Addresses, p \in Passwords, u \in UserIds :
          /\ ~Present(u) /\ ~EmailTaken(LowerCase[e])
          /\ users' = [users EXCEPT ![u] = NewUser(LowerCase[e], p, None)]
    BY <1>1 DEF Register
  <2> QED BY <2>1, LowerCaseAssumption DEF Inserts
<1>2. CASE RecordFailedAttempt(r) \/ LockAccount(r) \/ LoginIssue(r) \/ ResetCommit(r)
  <2>1. req[r].user \in UserIds
    BY <1>0, <1>2
    DEF RecordFailedAttempt, LockAccount, LoginIssue, ResetCommit, At, Remembers
  <2>2. PICK row :
          /\ users' = [users EXCEPT ![req[r].user] = row]
          /\ row.email = users[req[r].user].email
          /\ row.googleId = users[req[r].user].googleId
          /\ row.isActive = users[req[r].user].isActive
          /\ row.deleted = users[req[r].user].deleted
    <3> DEFINE old == users[req[r].user]
    <3>0. old \in UserRow
      BY <1>0, <2>1
    <3>1. CASE RecordFailedAttempt(r)
      <4> WITNESS [old EXCEPT !.failed = old.failed + 1]
      <4> QED BY <1>0, <2>1, <3>0, <3>1 DEF RecordFailedAttempt, UserRow
    <3>2. CASE LockAccount(r)
      <4> WITNESS [old EXCEPT !.locked = "running"]
      <4> QED BY <1>0, <2>1, <3>0, <3>2 DEF LockAccount, UserRow
    <3>3. CASE LoginIssue(r)
      <4> WITNESS Unlocked(old)
      <4> QED BY <1>0, <2>1, <3>0, <3>3 DEF LoginIssue, Unlocked, UserRow
    <3>4. CASE ResetCommit(r)
      <4>1. PICK p : users' = [users EXCEPT ![req[r].user] =
                                 [Unlocked(old) EXCEPT !.password = p]]
        BY <3>4 DEF ResetCommit
      <4> WITNESS [Unlocked(old) EXCEPT !.password = p]
      <4> QED BY <1>0, <2>1, <3>0, <4>1 DEF Unlocked, UserRow
    <3> QED BY <1>2, <3>1, <3>2, <3>3, <3>4
  <2> QED BY <1>0, <2>1, <2>2 DEF IdentitiesKept
<1>3. CASE GoogleCreate(r)
  <2>1. CASE users' = users
    BY <2>1 DEF IdentitiesKept
  <2>2. CASE users' # users
    <3>1. PICK u \in UserIds :
            /\ ~EmailTaken(req[r].email) /\ ~GoogleIdTaken(req[r].googleId)
            /\ ~Present(u)
            /\ users' = [users EXCEPT ![u] = NewUser(req[r].email, None, req[r].googleId)]
      BY <1>3, <2>2 DEF GoogleCreate
    <3>2. req[r].email \in Addresses /\ LowerCase[req[r].email] = req[r].email
      BY <1>3 DEF GoogleCreate, At
    <3> QED BY <3>1, <3>2 DEF Inserts
  <2> QED BY <2>1, <2>2
<1>4. CASE GoogleLink(r)
  <2>1. CASE users' = users
    BY <2>1 DEF IdentitiesKept
  <2>2. CASE users' # users
    <3>1. /\ \A v \in UserIds \ {req[r].user} : users[v].googleId # req[r].googleId
          /\ users' = [users EXCEPT ![req[r].user].googleId = req[r].googleId]
          /\ req[r].user \in UserIds
      BY <1>0, <1>4, <2>2 DEF GoogleLink, At, Remembers
    <3> QED BY <3>1 DEF Links
  <2> QED BY <2>1, <2>2
<1>5. CASE users' = users
  BY <1>5 DEF IdentitiesKept
<1> QED BY <1>1, <1>2, <1>3, <1>4, <1>5
  DEF Step, LoginLookup, RefreshLookup, RevokeFamily, RevokeExpired, RefreshUser, Rotate,
      LogoutAuthorize, Logout, LogoutAllAuthorize, LogoutAll, GoogleLookup, GoogleIssue,
      ForgotLookup, ForgotCreate, ForgotMail, ResetLookup, ResetUser

\* Nothing but a committed reset changes the state of a reset token.
LEMMA StepResets ==
  ASSUME TypeOK, RememberedRows, NEW r \in Requests, Step(r)
  PROVE  \A k \in ResetTokens : resetTokens'[k].state =
           IF req[r].pc = "reset.commit" /\ k = req[r].reset
           THEN "used" ELSE resetTokens[k].state
<1>0. /\ resetTokens \in [ResetTokens -> ResetRow] /\ Remembers(req[r])
  BY DEF TypeOK, RememberedRows
<1>1. CASE ResetCommit(r)
  BY <1>0, <1>1 DEF ResetCommit, At, Remembers, ResetRow
<1>2. CASE ForgotCreate(r)
  BY <1>0, <1>2 DEF ForgotCreate, At, ResetRow
<1>3. CASE resetTokens' = resetTokens /\ req[r].pc # "reset.commit"
  BY <1>3
<1> QED BY <1>1, <1>2, <1>3
  DEF Step, Register, LoginLookup, RecordFailedAttempt, LockAccount, LoginIssue,
      RefreshLookup, RevokeFamily, RevokeExpired, RefreshUser, Rotate, LogoutAuthorize,
      Logout, LogoutAllAuthorize, LogoutAll, GoogleLookup, GoogleCreate, GoogleLink,
      GoogleIssue, ForgotLookup, ForgotMail, ResetLookup, ResetUser, Calls, At

\* Time and edits keep who an account is and who owns a token.
LEMMA EnvironmentKeeps ==
  ASSUME TypeOK, Environment
  PROVE  /\ req' = req
         /\ \A u \in UserIds : /\ users'[u].email = users[u].email
                               /\ users'[u].googleId = users[u].googleId
                               /\ ~Present(u) => users'[u].isActive = users[u].isActive
                                                 /\ users'[u].deleted = users[u].deleted
         /\ \A k \in ResetTokens : resetTokens'[k].state # resetTokens[k].state
              => resetTokens[k].state = "valid" /\ resetTokens'[k].state = "expired"
         /\ \A t \in Tokens : /\ refreshTokens'[t].user = refreshTokens[t].user
                              /\ refreshTokens'[t].state = "revoked"
                                   <=> refreshTokens[t].state = "revoked"
<1>0. /\ users \in [UserIds -> UserRow] /\ resetTokens \in [ResetTokens -> ResetRow]
      /\ refreshTokens \in [Tokens -> TokenRow]
  BY DEF TypeOK
<1>1. CASE LockElapses
  BY <1>0, <1>1 DEF LockElapses, UserRow
<1>2. CASE ResetTokenExpires
  BY <1>0, <1>2 DEF ResetTokenExpires, ResetRow
<1>3. CASE TokenExpires
  <2>1. PICK n \in Tokens :
          /\ refreshTokens[n].state = "valid"
          /\ refreshTokens' = [refreshTokens EXCEPT ![n].state = "expired"]
    BY <1>3 DEF TokenExpires
  <2>2. \A t \in Tokens : /\ refreshTokens'[t].user = refreshTokens[t].user
                          /\ refreshTokens'[t].state = "revoked"
                               <=> refreshTokens[t].state = "revoked"
    BY <1>0, <2>1 DEF TokenRow
  <2> QED BY <1>3, <2>2 DEF TokenExpires
<1>4. CASE AccountEdited
  <2>1. PICK u \in UserIds, a \in BOOLEAN, d \in BOOLEAN :
          /\ Present(u)
          /\ users' = [users EXCEPT ![u] = [users[u] EXCEPT !.isActive = a, !.deleted = d]]
          /\ UNCHANGED <<refreshTokens, resetTokens, inbox, req>>
    BY <1>4 DEF AccountEdited
  <2> DEFINE row == [users[u] EXCEPT !.isActive = a, !.deleted = d]
  <2>2. row.email = users[u].email /\ row.googleId = users[u].googleId
    BY <1>0 DEF UserRow
  <2>3. users' = [users EXCEPT ![u] = row]
    BY <2>1
  <2> HIDE DEF row
  <2>4. \A v \in UserIds : users'[v] = IF v = u THEN row ELSE users[v]
    BY <1>0, <2>3
  <2> QED BY <2>1, <2>2, <2>4
<1> QED BY <1>1, <1>2, <1>3, <1>4 DEF Environment
----------------------------------------------------------------------------
(* What a step does to the table of refresh tokens.                        *)

\* The awaits whose statement inserts a token, those whose statement revokes
\* the one in hand, and those whose statement sweeps an account.
Opening == {"login.issue", "google.issue", "refresh.rotate"}
Closing == {"refresh.expired", "refresh.rotate", "logout"}
Sweeping == {"refresh.reuse", "logoutAll", "reset.commit"}

\* A token that the step inserts, and one that it revokes.
Opens(t) == ~Issued(t) /\ refreshTokens'[t].user # None
Closes(r, t) ==
    \/ req[r].pc \in Closing /\ t = req[r].token
    \/ req[r].pc \in Sweeping /\ refreshTokens[t].user = req[r].user

\* Which steps write refresh tokens at all.
LEMMA TokenKinds ==
  ASSUME NEW r \in Requests, Step(r)
  PROVE  \/ refreshTokens' = refreshTokens /\ req[r].pc \notin Opening \cup Closing \cup Sweeping
         \/ LoginIssue(r) \/ GoogleIssue(r) \/ Rotate(r)
         \/ RevokeExpired(r) \/ Logout(r)
         \/ RevokeFamily(r) \/ LogoutAll(r) \/ ResetCommit(r)
  BY DEF Step, Register, LoginLookup, RecordFailedAttempt, LockAccount, RefreshLookup,
         RefreshUser, LogoutAuthorize, LogoutAllAuthorize, GoogleLookup, GoogleCreate,
         GoogleLink, ForgotLookup, ForgotCreate, ForgotMail, ResetLookup, ResetUser,
         Calls, At, Opening, Closing, Sweeping

\* A step opens at most one token, for the user of its request, and closes the
\* tokens its await says; every other stays as it is.
LEMMA TokenMoves ==
  ASSUME TypeOK, RememberedRows, NEW r \in Requests, Step(r)
  PROVE  /\ \A t \in Tokens : ~Opens(t) =>
              /\ refreshTokens'[t].user = refreshTokens[t].user
              /\ refreshTokens'[t].state =
                   IF Closes(r, t) THEN "revoked" ELSE refreshTokens[t].state
         /\ \A t \in Tokens : Opens(t) =>
              /\ refreshTokens'[t] = NewSession(req[r].user) /\ req[r].user \in UserIds
              /\ req[r].pc \in Opening /\ req'[r] = NoRequest
         /\ \A s, t \in Tokens : Opens(s) /\ Opens(t) => s = t
         /\ req[r].pc \in Opening => \E t \in Tokens : Opens(t)
<1> USE DEF Opens, Issued, Closes, Opening, Closing, Sweeping
<1>0. refreshTokens \in [Tokens -> TokenRow] /\ Remembers(req[r])
  BY DEF TypeOK, RememberedRows
<1>1. CASE refreshTokens' = refreshTokens /\ req[r].pc \notin Opening \cup Closing \cup Sweeping
  BY <1>1
<1>2. CASE LoginIssue(r) \/ GoogleIssue(r)
  <2>1. /\ req[r].pc \in {"login.issue", "google.issue"} /\ req[r].user \in UserIds
        /\ req'[r] = NoRequest
    BY <1>0, <1>2, Responded DEF LoginIssue, GoogleIssue, At, Remembers
  <2>2. PICK new \in Tokens :
          /\ refreshTokens[new].user = None
          /\ refreshTokens' = [refreshTokens EXCEPT ![new] = NewSession(req[r].user)]
    BY <1>2 DEF LoginIssue, GoogleIssue
  <2>3. NewSession(req[r].user).user = req[r].user
    BY DEF NewSession
  <2> QED BY <1>0, <2>1, <2>2, <2>3, NoneAssumption
<1>3. CASE Rotate(r)
  <2>1. /\ req[r].pc = "refresh.rotate" /\ req[r].user \in UserIds
        /\ req[r].token \in Tokens /\ refreshTokens[req[r].token].user = req[r].user
        /\ req'[r] = NoRequest
    BY <1>0, <1>3, Responded DEF Rotate, At, Remembers
  <2>2. PICK new \in Tokens :
          /\ refreshTokens[new].user = None
          /\ refreshTokens' = [Revoke(req[r].token) EXCEPT ![new] = NewSession(req[r].user)]
    BY <1>3 DEF Rotate
  <2>3. NewSession(req[r].user).user = req[r].user
    BY DEF NewSession
  <2>4. \A t \in Tokens : /\ Revoke(req[r].token)[t].user = refreshTokens[t].user
                          /\ Revoke(req[r].token)[t].state =
                               IF t = req[r].token THEN "revoked" ELSE refreshTokens[t].state
    BY <1>0, <2>1 DEF Revoke, TokenRow
  <2>5. Revoke(req[r].token) \in [Tokens -> TokenRow]
    BY <1>0, <2>1 DEF Revoke, TokenRow
  <2>6. \A t \in Tokens : refreshTokens'[t] = IF t = new THEN NewSession(req[r].user)
                                              ELSE Revoke(req[r].token)[t]
    BY <2>2, <2>5
  <2> QED BY <2>1, <2>2, <2>3, <2>4, <2>6, NoneAssumption
<1>4. CASE RevokeExpired(r) \/ Logout(r)
  <2>1. /\ refreshTokens' = [refreshTokens EXCEPT ![req[r].token].state = "revoked"]
        /\ req[r].pc \in {"refresh.expired", "logout"}
    BY <1>4 DEF RevokeExpired, Logout, Revoke, At
  <2> QED BY <1>0, <2>1 DEF TokenRow
<1>5. CASE RevokeFamily(r) \/ LogoutAll(r) \/ ResetCommit(r)
  <2>1. refreshTokens' = RevokeAllOf(req[r].user) /\ req[r].pc \in Sweeping
    BY <1>5 DEF RevokeFamily, LogoutAll, ResetCommit, At
  <2> QED BY <1>0, <2>1 DEF RevokeAllOf, TokenRow
<1> QED BY <1>1, <1>2, <1>3, <1>4, <1>5, TokenKinds
====
