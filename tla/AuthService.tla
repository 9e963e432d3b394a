---- MODULE AuthService ----
(***************************************************************************)
(* The authentication service of src/src/auth/auth.service.ts and the      *)
(* three tables it keeps in Postgres.  A request runs until its next       *)
(* `await` on the database; one such statement, or one $transaction([...]) *)
(* batch, is one atomic action, and the requests of Requests interleave    *)
(* between them.  A request the code refuses before it has written         *)
(* anything (401, 403, 409) changes nothing: it is a stuttering step and   *)
(* has no action, unless it is refused after its first await.              *)
(***************************************************************************)
EXTENDS Integers, FiniteSets

CONSTANTS
    UserIds,            \* primary keys the users table may hand out
    Addresses,          \* e-mail addresses as people type them
    LowerCase,          \* String.prototype.toLowerCase on Addresses
    Passwords,
    GoogleIds,
    Tokens,             \* refresh tokens; sha256 is injective on them
    ResetTokens,        \* password reset tokens
    Requests,           \* HTTP requests the replicas serve at one time
    MaxFailedAttempts,  \* MAX_FAILED_ATTEMPTS
    SeedUsers,          \* the users table the seeders leave behind
    Operations,         \* the endpoints clients call in this instance
    FailureBound,       \* bound: no login attempt at this many failures
    None

Maybe(S) == S \cup {None}

\* A row of the users table; email = None is a primary key not handed out.
UserRow == [email: Maybe(Addresses), password: Maybe(Passwords),
            googleId: Maybe(GoogleIds), isActive: BOOLEAN, deleted: BOOLEAN,
            failed: Nat, locked: {"no", "running", "elapsed"}]

\* A row of refresh_tokens; user = None is a token not generated yet.  The
\* code asks for expiresAt only where revokedAt is null, and so for the pair
\* expiresAt, usedAt of a reset token: three states tell all it can tell.
TokenRow == [user: Maybe(UserIds), state: {"valid", "expired", "revoked"}]

ResetRow == [user: Maybe(UserIds), state: {"valid", "expired", "used"}]

Endpoints == {"register", "login", "refresh", "logout", "logoutAll",
              "google", "forgot", "reset", "admin"}

\* The await a request is suspended at.
Awaits == {"idle", "login.failed", "login.lock", "login.issue",
           "refresh.reuse", "refresh.expired", "refresh.user",
           "refresh.rotate", "logout", "logoutAll",
           "google.create", "google.link", "google.issue",
           "forgot.create", "forgot.mail", "reset.user", "reset.commit"}

\* The local variables a request carries over its awaits.
Request == [pc: Awaits, user: Maybe(UserIds), token: Maybe(Tokens),
            reset: Maybe(ResetTokens), email: Maybe(Addresses),
            googleId: Maybe(GoogleIds), isActive: BOOLEAN]

ASSUME NoneAssumption ==
    /\ None \notin UserIds /\ None \notin Addresses /\ None \notin Passwords
    /\ None \notin GoogleIds /\ None \notin Tokens /\ None \notin ResetTokens
ASSUME LowerCaseAssumption ==
    /\ LowerCase \in [Addresses -> Addresses]
    /\ \A e \in Addresses : LowerCase[LowerCase[e]] = LowerCase[e]
ASSUME RequestsAssumption == IsFiniteSet(Requests) /\ Requests # {}
ASSUME BoundAssumption ==
    /\ MaxFailedAttempts \in Nat \ {0}
    /\ FailureBound \in Nat
    /\ Operations \subseteq Endpoints
ASSUME SeedAssumption ==
    /\ SeedUsers \in [UserIds -> UserRow]
    /\ \A u \in UserIds : /\ SeedUsers[u].failed = 0 /\ SeedUsers[u].locked = "no"
                          /\ SeedUsers[u].googleId = None
    /\ \A u, v \in UserIds : SeedUsers[u].email = SeedUsers[v].email
                             => u = v \/ SeedUsers[u].email = None
    /\ \A u \in UserIds : SeedUsers[u].email # None
                          => LowerCase[SeedUsers[u].email] = SeedUsers[u].email

VARIABLES
    users,          \* table users
    refreshTokens,  \* table refresh_tokens
    resetTokens,    \* table password_reset_tokens
    inbox,          \* reset tokens the mail provider has delivered
    req             \* the requests being served

vars == <<users, refreshTokens, resetTokens, inbox, req>>

NoRequest == [pc |-> "idle", user |-> None, token |-> None, reset |-> None,
              email |-> None, googleId |-> None, isActive |-> FALSE]

Init ==
    /\ users = SeedUsers
    /\ refreshTokens = [t \in Tokens |-> [user |-> None, state |-> "valid"]]
    /\ resetTokens = [k \in ResetTokens |-> [user |-> None, state |-> "valid"]]
    /\ inbox = {}
    /\ req = [r \in Requests |-> NoRequest]

TypeOK ==
    /\ users \in [UserIds -> UserRow]
    /\ refreshTokens \in [Tokens -> TokenRow]
    /\ resetTokens \in [ResetTokens -> ResetRow]
    /\ inbox \in SUBSET ResetTokens
    /\ req \in [Requests -> Request]

\* What a suspended request remembers of the tables stays true while others
\* run: its user exists for good, its tokens stay its user's.
Remembers(q) ==
    /\ q.pc \notin {"idle", "logout", "google.create"}
         => q.user \in UserIds /\ users[q.user].email # None
    /\ q.pc \in {"refresh.reuse", "refresh.expired", "refresh.user", "refresh.rotate"}
         => q.token \in Tokens /\ refreshTokens[q.token].user = q.user
    /\ q.pc = "logout"
         => q.token \in Tokens /\ refreshTokens[q.token].user # None
    /\ q.pc \in {"forgot.mail", "reset.user", "reset.commit"}
         => q.reset \in ResetTokens /\ resetTokens[q.reset].user = q.user
    /\ q.pc = "google.create" => q.email # None

\* The foreign keys: a token, and so a mailed one, belongs to an existing user.
OwnedTokens ==
    /\ \A t \in Tokens : refreshTokens[t].user # None
         => users[refreshTokens[t].user].email # None
    /\ \A k \in ResetTokens : resetTokens[k].user # None
         => users[resetTokens[k].user].email # None
    /\ \A k \in inbox : resetTokens[k].user # None

\* No request works on with a user or a token that is not there any more, or
\* is not the one it looked up: RecordFailedAttempt, Rotate and ResetCommit
\* update by an id read one or two awaits before.
RememberedRows == OwnedTokens /\ \A r \in Requests : Remembers(req[r])
----------------------------------------------------------------------------
(* Helpers *)

Present(u) == users[u].email # None
Live(u) == Present(u) /\ ~users[u].deleted
InService(u) == Live(u) /\ users[u].isActive

Issued(t) == refreshTokens[t].user # None
Open(t) == Issued(t) /\ refreshTokens[t].state # "revoked"

At(r, await) == req[r].pc = await
Calls(r, endpoint) == endpoint \in Operations /\ At(r, "idle")

Await(r, await) == req' = [req EXCEPT ![r].pc = await]
Respond(r) == req' = [req EXCEPT ![r] = NoRequest]

\* The row refreshToken.create inserts.
NewSession(u) == [user |-> u, state |-> "valid"]

\* refreshToken.update({where: {id}}): the state it was in is not asked for.
Revoke(t) == [refreshTokens EXCEPT ![t].state = "revoked"]

\* Mutation: the filter picks the expired tokens instead of all unrevoked ones.
RevokeExpiredOf(u) == [t \in Tokens |->
    IF refreshTokens[t].user = u /\ refreshTokens[t].state = "expired"
    THEN [refreshTokens[t] EXCEPT !.state = "revoked"]
    ELSE refreshTokens[t]]

\* refreshToken.updateMany({where: {userId, revokedAt: null}}).
RevokeAllOf(u) == [t \in Tokens |->
    IF refreshTokens[t].user = u
    THEN [refreshTokens[t] EXCEPT !.state = "revoked"]
    ELSE refreshTokens[t]]

\* Mutation: a decrement in place of the reset.
UnlockedByOne(row) == [row EXCEPT !.failed = @ - 1, !.locked = "no"]

\* data: {failedLoginAttempts: 0, lockedUntil: null}.
Unlocked(row) == [row EXCEPT !.failed = 0, !.locked = "no"]

\* The unique indexes of the users table.
EmailTaken(e) == \E u \in UserIds : users[u].email = e
GoogleIdTaken(g) == \E u \in UserIds : users[u].googleId = g

\* The row user.create inserts: the defaults of the schema.
NewUser(e, p, g) == [email |-> e, password |-> p, googleId |-> g,
                     isActive |-> TRUE, deleted |-> FALSE,
                     failed |-> 0, locked |-> "no"]
----------------------------------------------------------------------------
(* POST /auth/register *)

\* Mutation: the address is stored as typed.
RegisterAsTyped(r) == \E e \in Addresses, p \in Passwords, u \in UserIds :
    /\ Calls(r, "register")
    /\ ~Present(u)
    /\ ~EmailTaken(e)
    /\ users' = [users EXCEPT ![u] = NewUser(e, p, None)]
    /\ UNCHANGED <<refreshTokens, resetTokens, inbox, req>>

\* settings.allowRegistration is an input: it is not kept in these tables.
Register(r) == \E e \in Addresses, p \in Passwords, u \in UserIds :
    /\ Calls(r, "register")
    /\ ~Present(u)
    /\ ~EmailTaken(LowerCase[e])
    /\ users' = [users EXCEPT ![u] = NewUser(LowerCase[e], p, None)]
    /\ UNCHANGED <<refreshTokens, resetTokens, inbox, req>>
----------------------------------------------------------------------------
(* POST /auth/login *)

\* Mutation: lockedUntil is not looked at.
LoginLookupIgnoringLock(r) == \E e \in Addresses, p \in Passwords, u \in UserIds :
    /\ Calls(r, "login")
    /\ Live(u)
    /\ users[u].email = LowerCase[e]
    /\ users[u].isActive
    /\ users[u].failed < FailureBound
    /\ req' = [req EXCEPT ![r] = [NoRequest EXCEPT !.user = u,
                 !.pc = IF users[u].password = p
                        THEN "login.issue" ELSE "login.failed"]]
    /\ UNCHANGED <<users, refreshTokens, resetTokens, inbox>>

\* Mutation: findFirst without deletedAt: null.
LoginLookupOfDeleted(r) == \E e \in Addresses, p \in Passwords, u \in UserIds :
    /\ Calls(r, "login")
    /\ Present(u)
    /\ users[u].email = LowerCase[e]
    /\ users[u].isActive
    /\ users[u].locked # "running"
    /\ users[u].failed < FailureBound
    /\ req' = [req EXCEPT ![r] = [NoRequest EXCEPT !.user = u,
                 !.pc = IF users[u].password = p
                        THEN "login.issue" ELSE "login.failed"]]
    /\ UNCHANGED <<users, refreshTokens, resetTokens, inbox>>

\* The password is compared with the row just read, before the next await.
\* A row without a password compares unequal with everything.
LoginLookup(r) == \E e \in Addresses, p \in Passwords, u \in UserIds :
    /\ Calls(r, "login")
    /\ Live(u)
    /\ users[u].email = LowerCase[e]
    /\ users[u].isActive
    /\ users[u].locked # "running"
    /\ users[u].failed < FailureBound
    /\ req' = [req EXCEPT ![r] = [NoRequest EXCEPT !.user = u,
                 !.pc = IF users[u].password = p
                        THEN "login.issue" ELSE "login.failed"]]
    /\ UNCHANGED <<users, refreshTokens, resetTokens, inbox>>

\* Mutation: > for >=, one attempt late.
RecordFailedAttemptLate(r) == LET u == req[r].user
                                  failed == users[u].failed + 1 IN
    /\ At(r, "login.failed")
    /\ users' = [users EXCEPT ![u].failed = failed]
    /\ IF failed > MaxFailedAttempts
       THEN Await(r, "login.lock")
       ELSE Respond(r)
    /\ UNCHANGED <<refreshTokens, resetTokens, inbox>>

\* Mutation: the threshold is met one attempt early.
RecordFailedAttemptEarly(r) == LET u == req[r].user
                                   failed == users[u].failed + 1 IN
    /\ At(r, "login.failed")
    /\ users' = [users EXCEPT ![u].failed = failed]
    /\ IF failed >= MaxFailedAttempts - 1
       THEN Await(r, "login.lock")
       ELSE Respond(r)
    /\ UNCHANGED <<refreshTokens, resetTokens, inbox>>

\* The increment is done by the database; its result decides the next step.
RecordFailedAttempt(r) == LET u == req[r].user
                              failed == users[u].failed + 1 IN
    /\ At(r, "login.failed")
    /\ users' = [users EXCEPT ![u].failed = failed]
    /\ IF failed >= MaxFailedAttempts
       THEN Await(r, "login.lock")
       ELSE Respond(r)
    /\ UNCHANGED <<refreshTokens, resetTokens, inbox>>

LockAccount(r) ==
    /\ At(r, "login.lock")
    /\ users' = [users EXCEPT ![req[r].user].locked = "running"]
    /\ Respond(r)
    /\ UNCHANGED <<refreshTokens, resetTokens, inbox>>

LoginIssue(r) == \E t \in Tokens :
    /\ At(r, "login.issue")
    /\ ~Issued(t)
    /\ users' = [users EXCEPT ![req[r].user] = Unlocked(@)]
    /\ refreshTokens' = [refreshTokens EXCEPT ![t] = NewSession(req[r].user)]
    /\ Respond(r)
    /\ UNCHANGED <<resetTokens, inbox>>
----------------------------------------------------------------------------
(* POST /auth/refresh *)

\* Mutation: revokedAt is not looked at.
RefreshLookupOfRevoked(r) == \E t \in Tokens :
    /\ Calls(r, "refresh")
    /\ Issued(t)
    /\ req' = [req EXCEPT ![r] = [NoRequest EXCEPT
                 !.user = refreshTokens[t].user, !.token = t,
                 !.pc = IF refreshTokens[t].state = "expired"
                        THEN "refresh.expired" ELSE "refresh.user"]]
    /\ UNCHANGED <<users, refreshTokens, resetTokens, inbox>>

RefreshLookup(r) == \E t \in Tokens :
    /\ Calls(r, "refresh")
    /\ Issued(t)
    /\ req' = [req EXCEPT ![r] = [NoRequest EXCEPT
                 !.user = refreshTokens[t].user, !.token = t,
                 !.pc = CASE refreshTokens[t].state = "revoked" -> "refresh.reuse"
                          [] refreshTokens[t].state = "expired" -> "refresh.expired"
                          [] refreshTokens[t].state = "valid" -> "refresh.user"]]
    /\ UNCHANGED <<users, refreshTokens, resetTokens, inbox>>

RevokeFamily(r) ==
    /\ At(r, "refresh.reuse")
    /\ refreshTokens' = RevokeAllOf(req[r].user)
    /\ Respond(r)
    /\ UNCHANGED <<users, resetTokens, inbox>>

RevokeExpired(r) ==
    /\ At(r, "refresh.expired")
    /\ refreshTokens' = Revoke(req[r].token)
    /\ Respond(r)
    /\ UNCHANGED <<users, resetTokens, inbox>>

\* Mutation: isActive is not looked at.
RefreshUserInactive(r) ==
    /\ At(r, "refresh.user")
    /\ IF Live(req[r].user) THEN Await(r, "refresh.rotate") ELSE Respond(r)
    /\ UNCHANGED <<users, refreshTokens, resetTokens, inbox>>

RefreshUser(r) ==
    /\ At(r, "refresh.user")
    /\ IF InService(req[r].user) THEN Await(r, "refresh.rotate") ELSE Respond(r)
    /\ UNCHANGED <<users, refreshTokens, resetTokens, inbox>>

\* Mutation: the predecessor is left as it is.
RotateKeepingOld(r) == \E t \in Tokens :
    /\ At(r, "refresh.rotate")
    /\ ~Issued(t)
    /\ refreshTokens' = [refreshTokens EXCEPT ![t] = NewSession(req[r].user)]
    /\ Respond(r)
    /\ UNCHANGED <<users, resetTokens, inbox>>

\* The update is by id, without a test that the token is still unrevoked.
Rotate(r) == \E t \in Tokens :
    /\ At(r, "refresh.rotate")
    /\ ~Issued(t)
    /\ refreshTokens' = [Revoke(req[r].token) EXCEPT ![t] = NewSession(req[r].user)]
    /\ Respond(r)
    /\ UNCHANGED <<users, resetTokens, inbox>>
----------------------------------------------------------------------------
(* POST /auth/logout and /auth/logout-all *)

\* An access token exists for every user a session was ever issued to, and
\* JwtStrategy.validate reads the row once more.
Authorized(u) == InService(u) /\ \E t \in Tokens : refreshTokens[t].user = u

LogoutAuthorize(r) == \E u \in UserIds, t \in Tokens :
    /\ Calls(r, "logout")
    /\ Authorized(u)
    /\ Issued(t)
    /\ req' = [req EXCEPT ![r] = [NoRequest EXCEPT !.pc = "logout", !.token = t]]
    /\ UNCHANGED <<users, refreshTokens, resetTokens, inbox>>

Logout(r) ==
    /\ At(r, "logout")
    /\ refreshTokens' = Revoke(req[r].token)
    /\ Respond(r)
    /\ UNCHANGED <<users, resetTokens, inbox>>

LogoutAllAuthorize(r) == \E u \in UserIds :
    /\ Calls(r, "logoutAll")
    /\ Authorized(u)
    /\ req' = [req EXCEPT ![r] = [NoRequest EXCEPT !.pc = "logoutAll", !.user = u]]
    /\ UNCHANGED <<users, refreshTokens, resetTokens, inbox>>

LogoutAll(r) ==
    /\ At(r, "logoutAll")
    /\ refreshTokens' = RevokeAllOf(req[r].user)
    /\ Respond(r)
    /\ UNCHANGED <<users, resetTokens, inbox>>
----------------------------------------------------------------------------
(* GET /auth/google/callback *)

\* The rows findFirst may return: it has no order, and the branch on googleId
\* does not ask for deletedAt = null.
GoogleMatches(g, e) == {u \in UserIds :
    Present(u) /\ (users[u].googleId = g \/ (users[u].email = e /\ Live(u)))}

GoogleProfile(g, e) == [NoRequest EXCEPT !.googleId = g, !.email = e]

\* Mutation: a known Google identity signs in without a look at isActive.
GoogleLookupInactive(r) == \E g \in GoogleIds, e \in Addresses :
    /\ Calls(r, "google")
    /\ \E u \in GoogleMatches(g, LowerCase[e]) :
         req' = [req EXCEPT ![r] = [GoogleProfile(g, LowerCase[e]) EXCEPT
                   !.user = u, !.isActive = TRUE,
                   !.pc = IF users[u].googleId = g
                          THEN "google.issue" ELSE "google.link"]]
    /\ UNCHANGED <<users, refreshTokens, resetTokens, inbox>>

\* settings.enableGoogleLogin is an input, like allowRegistration.
GoogleLookup(r) == \E g \in GoogleIds, e \in Addresses :
    /\ Calls(r, "google")
    /\ \/ /\ GoogleMatches(g, LowerCase[e]) = {}
          /\ req' = [req EXCEPT ![r] =
               [GoogleProfile(g, LowerCase[e]) EXCEPT !.pc = "google.create"]]
       \/ \E u \in GoogleMatches(g, LowerCase[e]) :
            /\ users[u].googleId = g => users[u].isActive
            /\ req' = [req EXCEPT ![r] =
                 [GoogleProfile(g, LowerCase[e]) EXCEPT !.user = u,
                    !.isActive = users[u].isActive,
                    !.pc = IF users[u].googleId = g
                           THEN "google.issue" ELSE "google.link"]]
    /\ UNCHANGED <<users, refreshTokens, resetTokens, inbox>>

\* Mutation: existingUser is not set to the row just created.
GoogleCreateForgotten(r) == \E u \in UserIds :
    /\ At(r, "google.create")
    /\ ~EmailTaken(req[r].email) /\ ~GoogleIdTaken(req[r].googleId)
    /\ ~Present(u)
    /\ users' = [users EXCEPT ![u] = NewUser(req[r].email, None, req[r].googleId)]
    /\ Await(r, "google.issue")
    /\ UNCHANGED <<refreshTokens, resetTokens, inbox>>

\* A unique index refuses a row somebody else has created meanwhile (409).
GoogleCreate(r) ==
    /\ At(r, "google.create")
    /\ IF EmailTaken(req[r].email) \/ GoogleIdTaken(req[r].googleId)
       THEN Respond(r) /\ UNCHANGED users
       ELSE \E u \in UserIds :
              /\ ~Present(u)
              /\ users' = [users EXCEPT ![u] =
                             NewUser(req[r].email, None, req[r].googleId)]
              /\ req' = [req EXCEPT ![r] = [@ EXCEPT !.pc = "google.issue", !.user = u]]
    /\ UNCHANGED <<refreshTokens, resetTokens, inbox>>

\* The account is linked first; isActive of the row read before decides after.
GoogleLink(r) ==
    /\ At(r, "google.link")
    /\ IF \E v \in UserIds \ {req[r].user} : users[v].googleId = req[r].googleId
       THEN Respond(r) /\ UNCHANGED users
       ELSE /\ users' = [users EXCEPT ![req[r].user].googleId = req[r].googleId]
            /\ IF req[r].isActive THEN Await(r, "google.issue") ELSE Respond(r)
    /\ UNCHANGED <<refreshTokens, resetTokens, inbox>>

GoogleIssue(r) == \E t \in Tokens :
    /\ At(r, "google.issue")
    /\ ~Issued(t)
    /\ refreshTokens' = [refreshTokens EXCEPT ![t] = NewSession(req[r].user)]
    /\ Respond(r)
    /\ UNCHANGED <<users, resetTokens, inbox>>
----------------------------------------------------------------------------
(* POST /auth/forgot-password and /auth/reset-password *)

ForgotLookup(r) == \E e \in Addresses, u \in UserIds :
    /\ Calls(r, "forgot")
    /\ InService(u)
    /\ users[u].email = LowerCase[e]
    /\ req' = [req EXCEPT ![r] = [NoRequest EXCEPT !.pc = "forgot.create", !.user = u]]
    /\ UNCHANGED <<users, refreshTokens, resetTokens, inbox>>

\* Mutation: the row does not name its user.
ForgotCreateUnowned(r) == \E k \in ResetTokens :
    /\ At(r, "forgot.create")
    /\ resetTokens[k].user = None
    /\ req' = [req EXCEPT ![r] = [@ EXCEPT !.pc = "forgot.mail", !.reset = k]]
    /\ UNCHANGED <<users, refreshTokens, resetTokens, inbox>>

ForgotCreate(r) == \E k \in ResetTokens :
    /\ At(r, "forgot.create")
    /\ resetTokens[k].user = None
    /\ resetTokens' = [resetTokens EXCEPT ![k].user = req[r].user]
    /\ req' = [req EXCEPT ![r] = [@ EXCEPT !.pc = "forgot.mail", !.reset = k]]
    /\ UNCHANGED <<users, refreshTokens, inbox>>

\* Mail that cannot be sent answers 503 and is an Abort at this await.
ForgotMail(r) ==
    /\ At(r, "forgot.mail")
    /\ inbox' = inbox \cup {req[r].reset}
    /\ Respond(r)
    /\ UNCHANGED <<users, refreshTokens, resetTokens>>

\* Mutation: usedAt is not looked at.
ResetLookupOfUsed(r) == \E k \in inbox :
    /\ Calls(r, "reset")
    /\ resetTokens[k].state # "expired"
    /\ req' = [req EXCEPT ![r] = [NoRequest EXCEPT !.pc = "reset.user",
                 !.user = resetTokens[k].user, !.reset = k]]
    /\ UNCHANGED <<users, refreshTokens, resetTokens, inbox>>

ResetLookup(r) == \E k \in inbox :
    /\ Calls(r, "reset")
    /\ resetTokens[k].state = "valid"
    /\ req' = [req EXCEPT ![r] = [NoRequest EXCEPT !.pc = "reset.user",
                 !.user = resetTokens[k].user, !.reset = k]]
    /\ UNCHANGED <<users, refreshTokens, resetTokens, inbox>>

ResetUser(r) ==
    /\ At(r, "reset.user")
    /\ IF InService(req[r].user) THEN Await(r, "reset.commit") ELSE Respond(r)
    /\ UNCHANGED <<users, refreshTokens, resetTokens, inbox>>

\* The reset token is marked by id, without a test that it is still unused.
ResetCommit(r) == \E p \in Passwords :
    /\ At(r, "reset.commit")
    /\ users' = [users EXCEPT ![req[r].user] = [Unlocked(@) EXCEPT !.password = p]]
    /\ resetTokens' = [resetTokens EXCEPT ![req[r].reset].state = "used"]
    /\ refreshTokens' = RevokeAllOf(req[r].user)
    /\ Respond(r)
    /\ UNCHANGED inbox
----------------------------------------------------------------------------
(* What happens around the service *)

\* The replica dies, or the statement awaited fails: nothing more is written.
Abort(r) ==
    /\ ~At(r, "idle")
    /\ Respond(r)
    /\ UNCHANGED <<users, refreshTokens, resetTokens, inbox>>

LockElapses == \E u \in UserIds :
    /\ users[u].locked = "running"
    /\ users' = [users EXCEPT ![u].locked = "elapsed"]
    /\ UNCHANGED <<refreshTokens, resetTokens, inbox, req>>

TokenExpires == \E t \in Tokens :
    /\ Issued(t) /\ refreshTokens[t].state = "valid"
    /\ refreshTokens' = [refreshTokens EXCEPT ![t].state = "expired"]
    /\ UNCHANGED <<users, resetTokens, inbox, req>>

ResetTokenExpires == \E k \in ResetTokens :
    /\ resetTokens[k].user # None /\ resetTokens[k].state = "valid"
    /\ resetTokens' = [resetTokens EXCEPT ![k].state = "expired"]
    /\ UNCHANGED <<users, refreshTokens, inbox, req>>

\* Nothing in src/ sets isActive or deletedAt: somebody edits the table.
AccountEdited == \E u \in UserIds, isActive, deleted \in BOOLEAN :
    /\ "admin" \in Operations
    /\ Present(u)
    /\ users' = [users EXCEPT ![u] =
                   [@ EXCEPT !.isActive = isActive, !.deleted = deleted]]
    /\ UNCHANGED <<refreshTokens, resetTokens, inbox, req>>

Step(r) ==
    \/ Register(r)
    \/ LoginLookup(r) \/ RecordFailedAttempt(r) \/ LockAccount(r) \/ LoginIssue(r)
    \/ RefreshLookup(r) \/ RevokeFamily(r) \/ RevokeExpired(r)
    \/ RefreshUser(r) \/ Rotate(r)
    \/ LogoutAuthorize(r) \/ Logout(r) \/ LogoutAllAuthorize(r) \/ LogoutAll(r)
    \/ GoogleLookup(r) \/ GoogleCreate(r) \/ GoogleLink(r) \/ GoogleIssue(r)
    \/ ForgotLookup(r) \/ ForgotCreate(r) \/ ForgotMail(r)
    \/ ResetLookup(r) \/ ResetUser(r) \/ ResetCommit(r)

Environment == LockElapses \/ TokenExpires \/ ResetTokenExpires \/ AccountEdited

Next == (\E r \in Requests : Step(r) \/ Abort(r)) \/ Environment

Spec == Init /\ [][Next]_vars
====
