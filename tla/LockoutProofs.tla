---- MODULE LockoutProofs ----
(***************************************************************************)
(* ThresholdLocks, GuessesBounded and LateLocksBounded for every number of *)
(* accounts and requests, every threshold and every bound. GuessesBounded  *)
(* alone is not inductive: a step that compares one more wrong password    *)
(* has to know how many were compared before and are not yet counted in    *)
(* the row. So the invariant counts the requests that still owe the row an *)
(* increment, and those that owe it a lock.                                *)
(***************************************************************************)
EXTENDS LateLocks, AuthServiceProofs, FiniteSetTheorems

\* The requests of q that have yet to record a wrong password of u, and those
\* that have yet to record or to lock.
Failing(q, u) == {r \in Requests : q[r].pc = "login.failed" /\ q[r].user = u}
OwingTo(q, u) == {r \in Requests : q[r].pc \in {"login.failed", "login.lock"}
                                   /\ q[r].user = u}

\* A row the table has not handed out is unlocked, so inserting one is quiet.
FreshRows == \A u \in UserIds : users[u].email = None
               => users[u].failed = 0 /\ users[u].locked = "no"

\* Below the threshold every wrong password is in failed, owed, or allowed for.
BelowThreshold == \A u \in UserIds : users[u].failed < MaxFailedAttempts
    => guesses[u] + MaxFailedAttempts - 1
         <= users[u].failed + allowance[u] + Cardinality(Failing(req, u))

\* While the lock is off, what exceeds the allowance is owed by a request.
WhileUnlocked == \A u \in UserIds : users[u].locked # "running"
    => guesses[u] <= allowance[u] + Cardinality(OwingTo(req, u))

\* The inductive invariant of the lockout.
LockoutInv ==
    /\ LockoutTypeOK /\ RememberedRows /\ FreshRows
    /\ BelowThreshold /\ WhileUnlocked
    /\ GuessesBounded /\ ThresholdLocks
----------------------------------------------------------------------------
\* The two sets are finite, the first is part of the second.
LEMMA Counting ==
  ASSUME NEW q, NEW u
  PROVE  /\ IsFiniteSet(Failing(q, u)) /\ Cardinality(Failing(q, u)) \in Nat
         /\ IsFiniteSet(OwingTo(q, u)) /\ Cardinality(OwingTo(q, u)) \in Nat
         /\ Cardinality(Failing(q, u)) <= Cardinality(OwingTo(q, u))
         /\ Cardinality(OwingTo(q, u)) <= Cardinality(Requests)
         /\ Cardinality(Requests) \in Nat
<1>1. Failing(q, u) \in SUBSET OwingTo(q, u) /\ OwingTo(q, u) \in SUBSET Requests
  BY DEF Failing, OwingTo
<1>2. /\ IsFiniteSet(OwingTo(q, u))
      /\ Cardinality(OwingTo(q, u)) <= Cardinality(Requests)
  BY <1>1, RequestsAssumption, FS_Subset
<1>3. /\ IsFiniteSet(Failing(q, u))
      /\ Cardinality(Failing(q, u)) <= Cardinality(OwingTo(q, u))
  BY <1>1, <1>2, FS_Subset
<1> QED BY <1>2, <1>3, RequestsAssumption, FS_CardinalityType

\* A request that leaves a set shrinks it by one, one that joins adds one.
LEMMA Leaving ==
  ASSUME NEW S, NEW r \in S, IsFiniteSet(S)
  PROVE  Cardinality(S \ {r}) = Cardinality(S) - 1
  BY FS_RemoveElement

LEMMA Joining ==
  ASSUME NEW S, NEW r, r \notin S, IsFiniteSet(S)
  PROVE  Cardinality(S \cup {r}) = Cardinality(S) + 1
  BY FS_AddElement

\* A step that neither compares a wrong password nor touches the lock.
Quiet(r) ==
    /\ req[r].pc \notin {"login.failed", "login.lock", "login.issue", "reset.commit"}
    /\ req'[r].pc \notin {"login.failed", "login.lock"}
    /\ \A u \in UserIds : /\ users'[u].failed = users[u].failed
                          /\ users'[u].locked = users[u].locked

\* A wrong password compared with the row of an unlocked account.
WrongPassword(r, u) ==
    /\ At(r, "idle")
    /\ users[u].locked # "running"
    /\ req'[r].pc = "login.failed" /\ req'[r].user = u
    /\ users' = users

\* Every step is quiet, compares a wrong password, records, locks or clears.
LEMMA StepKinds ==
  ASSUME TypeOK, RememberedRows, FreshRows, NEW r \in Requests, Step(r)
  PROVE  \/ Quiet(r)
         \/ \E u \in UserIds : WrongPassword(r, u)
         \/ RecordFailedAttempt(r) \/ LockAccount(r)
         \/ LoginIssue(r) \/ ResetCommit(r)
<1>0. /\ \A u \in UserIds : users[u] \in UserRow
      /\ req \in [Requests -> Request]
      /\ \A t \in Tokens : refreshTokens[t] \in TokenRow
  BY DEF TypeOK
<1>1. CASE Register(r)
  <2>1. PICK e \in Addresses, p \in Passwords, u \in UserIds :
          /\ Calls(r, "register") /\ ~Present(u)
          /\ users' = [users EXCEPT ![u] = NewUser(LowerCase[e], p, None)]
          /\ req' = req
    BY <1>1 DEF Register
  <2> QED BY <1>0, <2>1 DEF Quiet, TypeOK, Calls, At, Present, FreshRows, NewUser
<1>2. CASE LoginLookup(r)
  <2>1. PICK e \in Addresses, p \in Passwords, u \in UserIds :
          /\ At(r, "idle") /\ users[u].locked # "running" /\ users' = users
          /\ req' = [req EXCEPT ![r] = [NoRequest EXCEPT !.user = u,
                       !.pc = IF users[u].password = p
                              THEN "login.issue" ELSE "login.failed"]]
    BY <1>2 DEF LoginLookup, Calls
  <2>2. /\ req'[r].user = u
        /\ req'[r].pc = IF users[u].password = p THEN "login.issue" ELSE "login.failed"
    BY <1>0, <2>1 DEF NoRequest
  <2> QED BY <2>1, <2>2 DEF Quiet, WrongPassword, At
<1>3. CASE RefreshLookup(r)
  <2>1. PICK t \in Tokens :
          /\ At(r, "idle") /\ users' = users
          /\ req' = [req EXCEPT ![r] = [NoRequest EXCEPT
                 !.user = refreshTokens[t].user, !.token = t,
                 !.pc = CASE refreshTokens[t].state = "revoked" -> "refresh.reuse"
                          [] refreshTokens[t].state = "expired" -> "refresh.expired"
                          [] refreshTokens[t].state = "valid" -> "refresh.user"]]
    BY <1>3 DEF RefreshLookup, Calls
  <2>2. refreshTokens[t].state \in {"valid", "expired", "revoked"}
    BY <1>0 DEF TokenRow
  <2>3. req'[r].pc \in {"refresh.reuse", "refresh.expired", "refresh.user"}
    BY <1>0, <2>1, <2>2 DEF NoRequest
  <2> QED BY <2>1, <2>3 DEF Quiet, At
<1>4. CASE GoogleLookup(r)
  <2>1. PICK g \in GoogleIds, e \in Addresses :
          /\ Calls(r, "google")
          /\ \/ /\ GoogleMatches(g, LowerCase[e]) = {}
                /\ req' = [req EXCEPT ![r] =
                     [GoogleProfile(g, LowerCase[e]) EXCEPT !.pc = "google.create"]]
             \/ \E u \in GoogleMatches(g, LowerCase[e]) :
                  /\ users[u].googleId = g => users[u].isActive
                  /\ req' = [req EXCEPT ![r] =
                       [GoogleProfile(g, LowerCase[e]) EXCEPT !.user = u,
                          !.isActive = users[u].isActive,
                          !.pc = IF users[u].googleId = g
                                 THEN "google.issue" ELSE "google.link"]]
          /\ UNCHANGED <<users, refreshTokens, resetTokens, inbox>>
    BY <1>4, Zenon DEF GoogleLookup
  <2>2. CASE req' = [req EXCEPT ![r] =
               [GoogleProfile(g, LowerCase[e]) EXCEPT !.pc = "google.create"]]
    BY <1>0, <2>1, <2>2 DEF GoogleProfile, NoRequest, Quiet, At, Calls
  <2>3. ASSUME NEW u \in GoogleMatches(g, LowerCase[e]),
               req' = [req EXCEPT ![r] =
                 [GoogleProfile(g, LowerCase[e]) EXCEPT !.user = u,
                    !.isActive = users[u].isActive,
                    !.pc = IF users[u].googleId = g
                           THEN "google.issue" ELSE "google.link"]]
        PROVE  Quiet(r)
    <3>1. req'[r].pc \in {"google.issue", "google.link"}
      BY <1>0, <2>3 DEF GoogleProfile, NoRequest
    <3> QED BY <2>1, <3>1 DEF Quiet, At, Calls
  <2> QED BY <2>1, <2>2, <2>3
<1>5. CASE GoogleCreate(r)
  <2>1. CASE EmailTaken(req[r].email) \/ GoogleIdTaken(req[r].googleId)
    <3>1. req' = [req EXCEPT ![r] = NoRequest] /\ users' = users
      BY <1>5, <2>1 DEF GoogleCreate, Respond
    <3>2. req[r].pc = "google.create"
      BY <1>5 DEF GoogleCreate, At
    <3>3. req'[r].pc = "idle"
      BY <1>0, <3>1 DEF NoRequest
    <3> QED BY <3>1, <3>2, <3>3 DEF Quiet
  <2>2. CASE ~(EmailTaken(req[r].email) \/ GoogleIdTaken(req[r].googleId))
    <3>1. PICK u \in UserIds :
            /\ ~Present(u)
            /\ users' = [users EXCEPT ![u] =
                           NewUser(req[r].email, None, req[r].googleId)]
            /\ req' = [req EXCEPT ![r] = [@ EXCEPT !.pc = "google.issue", !.user = u]]
      BY <1>5, <2>2 DEF GoogleCreate
    <3>2. req[r].pc = "google.create" /\ req'[r].pc = "google.issue"
      BY <1>0, <1>5, <3>1 DEF GoogleCreate, At, Request
    <3>3. \A v \in UserIds : /\ users'[v].failed = users[v].failed
                             /\ users'[v].locked = users[v].locked
      BY <1>0, <3>1 DEF TypeOK, Present, FreshRows, NewUser
    <3> QED BY <3>2, <3>3 DEF Quiet
  <2> QED BY <2>1, <2>2
<1>6. CASE GoogleLink(r)
  <2>1. \A v \in UserIds : /\ users'[v].failed = users[v].failed
                           /\ users'[v].locked = users[v].locked
    BY <1>0, <1>6 DEF GoogleLink, TypeOK, UserRow
  <2>2. req[r].pc = "google.link" /\ req'[r].pc \in {"idle", "google.issue"}
    BY <1>0, <1>6 DEF GoogleLink, At, Await, Respond, NoRequest, Request
  <2> QED BY <2>1, <2>2 DEF Quiet
<1>7. CASE RevokeFamily(r) \/ RevokeExpired(r) \/ Rotate(r) \/ Logout(r)
           \/ LogoutAll(r) \/ GoogleIssue(r) \/ ForgotMail(r)
  BY <1>0, <1>7 DEF RevokeFamily, RevokeExpired, Rotate, Logout, LogoutAll,
     GoogleIssue, ForgotMail, At, Respond, NoRequest, Quiet
<1>8. CASE RefreshUser(r) \/ ResetUser(r)
  <2>1. CASE RefreshUser(r)
    BY <1>0, <2>1 DEF RefreshUser, At, Await, Respond, NoRequest, Request, Quiet
  <2>2. CASE ResetUser(r)
    BY <1>0, <2>2 DEF ResetUser, At, Await, Respond, NoRequest, Request, Quiet
  <2> QED BY <1>8, <2>1, <2>2
<1>9. CASE LogoutAuthorize(r) \/ LogoutAllAuthorize(r)
           \/ ForgotLookup(r) \/ ResetLookup(r)
  <2>1. At(r, "idle") /\ users' = users
    BY <1>9 DEF LogoutAuthorize, LogoutAllAuthorize, ForgotLookup, ResetLookup, Calls
  <2>2. req'[r].pc \in {"logout", "logoutAll", "forgot.create", "reset.user"}
    BY <1>0, <1>9 DEF LogoutAuthorize, LogoutAllAuthorize, ForgotLookup,
       ResetLookup, NoRequest
  <2> QED BY <2>1, <2>2 DEF Quiet, At
<1>10. CASE ForgotCreate(r)
  <2>1. PICK k \in ResetTokens :
          req' = [req EXCEPT ![r] = [@ EXCEPT !.pc = "forgot.mail", !.reset = k]]
    BY <1>10 DEF ForgotCreate
  <2>2. req'[r].pc = "forgot.mail"
    BY <1>0, <2>1 DEF Request
  <2> QED BY <1>10, <2>2 DEF ForgotCreate, Quiet, At
<1> QED BY <1>1, <1>2, <1>3, <1>4, <1>5, <1>6, <1>7, <1>8, <1>9, <1>10 DEF Step
----------------------------------------------------------------------------
\* The part of it that speaks of the counters.
Counters ==
    /\ guesses \in [UserIds -> Nat] /\ allowance \in [UserIds -> Nat]
    /\ interrupted \in SUBSET UserIds
    /\ BelowThreshold /\ WhileUnlocked /\ GuessesBounded /\ ThresholdLocks

\* What the cases below share: the types, and that only r has moved.
Moves(r) ==
    /\ TypeOK /\ TypeOK' /\ RememberedRows /\ Counters
    /\ \A s \in Requests \ {r} : req'[s] = req[s]

\* The threshold is a number from 1 on.
LEMMA MaxType == MaxFailedAttempts \in Nat /\ MaxFailedAttempts >= 1
  BY BoundAssumption

\* A request that is in neither set before and after leaves both as they are.
LEMMA Bystander ==
  ASSUME NEW r \in Requests, Moves(r), NEW u \in UserIds,
         ~Owing(r) \/ req[r].user # u,
         ~Owing(r)' \/ req'[r].user # u
  PROVE  /\ Failing(req', u) = Failing(req, u)
         /\ OwingTo(req', u) = OwingTo(req, u)
  BY DEF Moves, Failing, OwingTo, Owing

\* An account whose row, counters and requests are untouched stays as it was.
LEMMA Untouched ==
  ASSUME NEW r \in Requests, Moves(r), NEW u \in UserIds,
         Failing(req', u) = Failing(req, u), OwingTo(req', u) = OwingTo(req, u),
         users'[u].failed = users[u].failed, users'[u].locked = users[u].locked,
         guesses'[u] = guesses[u], allowance'[u] = allowance[u]
  PROVE  /\ users'[u].failed < MaxFailedAttempts
              => guesses'[u] + MaxFailedAttempts - 1
                   <= users'[u].failed + allowance'[u] + Cardinality(Failing(req', u))
         /\ users'[u].locked # "running"
              => guesses'[u] <= allowance'[u] + Cardinality(OwingTo(req', u))
         /\ guesses'[u] <= allowance'[u] + Cardinality(Requests)
  BY DEF Moves, Counters, BelowThreshold, WhileUnlocked, GuessesBounded

\* A quiet step leaves every account as it was.
LEMMA QuietCounts ==
  ASSUME NEW r \in Requests, Moves(r), Quiet(r), ObserveStep(r)
  PROVE  Counters'
<1>1. /\ guesses' = guesses /\ allowance' = allowance
      /\ interrupted' = interrupted
  BY DEF Quiet, ObserveStep, Guessed, Cleared, At
<1>2. ~Owing(r) /\ ~Owing(r)'
  BY DEF Quiet, Owing
<1>3. \A u \in UserIds : /\ Failing(req', u) = Failing(req, u)
                         /\ OwingTo(req', u) = OwingTo(req, u)
  BY <1>2, Bystander
<1>4. BelowThreshold' /\ WhileUnlocked' /\ GuessesBounded'
  BY <1>1, <1>3, Untouched DEF Quiet, BelowThreshold, WhileUnlocked, GuessesBounded
<1>5. ThresholdLocks'
  BY <1>1 DEF Moves, Counters, Quiet, ThresholdLocks, At
<1> QED BY <1>1, <1>4, <1>5 DEF Moves, Counters

\* One more guess, and one more request that owes it.
LEMMA GuessCounts ==
  ASSUME NEW r \in Requests, Moves(r), ObserveStep(r),
         NEW w \in UserIds, WrongPassword(r, w)
  PROVE  Counters'
<1>1. /\ guesses' = [guesses EXCEPT ![w] = @ + 1]
      /\ allowance' = allowance /\ interrupted' = interrupted
  BY DEF WrongPassword, ObserveStep, Guessed, Cleared, At
<1>2. /\ guesses \in [UserIds -> Nat] /\ allowance \in [UserIds -> Nat]
      /\ \A v \in UserIds : users[v] \in UserRow
      /\ users' = users
  BY DEF Moves, Counters, TypeOK, WrongPassword
<1>3. /\ Failing(req', w) = Failing(req, w) \cup {r} /\ r \notin Failing(req, w)
      /\ OwingTo(req', w) = OwingTo(req, w) \cup {r} /\ r \notin OwingTo(req, w)
  BY DEF Moves, WrongPassword, Failing, OwingTo, At
<1>4. /\ Cardinality(Failing(req', w)) = Cardinality(Failing(req, w)) + 1
      /\ Cardinality(OwingTo(req', w)) = Cardinality(OwingTo(req, w)) + 1
  BY <1>3, Counting, Joining
<1>5. ASSUME NEW u \in UserIds
      PROVE  /\ users'[u].failed < MaxFailedAttempts
                  => guesses'[u] + MaxFailedAttempts - 1
                       <= users'[u].failed + allowance'[u] + Cardinality(Failing(req', u))
             /\ users'[u].locked # "running"
                  => guesses'[u] <= allowance'[u] + Cardinality(OwingTo(req', u))
             /\ guesses'[u] <= allowance'[u] + Cardinality(Requests)
  <2>1. CASE u = w
    <3>1. /\ users[w].failed < MaxFailedAttempts
               => guesses[w] + MaxFailedAttempts - 1
                    <= users[w].failed + allowance[w] + Cardinality(Failing(req, w))
          /\ guesses[w] <= allowance[w] + Cardinality(OwingTo(req, w))
      BY DEF Moves, Counters, BelowThreshold, WhileUnlocked, WrongPassword
    <3>2. /\ Cardinality(Failing(req, w)) \in Nat /\ Cardinality(OwingTo(req, w)) \in Nat
          /\ Cardinality(OwingTo(req', w)) <= Cardinality(Requests)
          /\ Cardinality(Requests) \in Nat
      BY Counting
    <3>3. users[w].failed \in Nat
      BY <1>2 DEF UserRow
    <3> HIDE DEF Moves
    <3> QED BY <1>1, <1>2, <1>4, <2>1, <3>1, <3>2, <3>3, MaxType
  <2>2. CASE u # w
    <3>1. /\ Failing(req', u) = Failing(req, u)
          /\ OwingTo(req', u) = OwingTo(req, u)
      BY <2>2, Bystander DEF WrongPassword, Owing, At
    <3> QED BY <1>1, <1>2, <2>2, <3>1, Untouched
  <2> QED BY <2>1, <2>2
<1>6. BelowThreshold' /\ WhileUnlocked' /\ GuessesBounded'
  BY <1>5 DEF BelowThreshold, WhileUnlocked, GuessesBounded
<1>7. ThresholdLocks'
  BY <1>1, <1>2 DEF Moves, Counters, WrongPassword, ThresholdLocks, At
<1>8. guesses' \in [UserIds -> Nat]
  BY <1>1, <1>2
<1> QED BY <1>1, <1>2, <1>6, <1>7, <1>8 DEF Moves, Counters

\* The increment moves one guess from owed to recorded; below the threshold
\* that is all the lock needs to know, at the threshold the request locks.
LEMMA RecordCounts ==
  ASSUME NEW r \in Requests, Moves(r), ObserveStep(r), RecordFailedAttempt(r)
  PROVE  Counters'
<1> DEFINE w == req[r].user
<1>1. /\ req[r].pc = "login.failed" /\ w \in UserIds
      /\ guesses' = guesses /\ allowance' = allowance /\ interrupted' = interrupted
  BY DEF Moves, RememberedRows, Remembers, RecordFailedAttempt, ObserveStep,
     Guessed, Cleared, At
<1>2. /\ guesses \in [UserIds -> Nat] /\ allowance \in [UserIds -> Nat]
      /\ \A v \in UserIds : users[v] \in UserRow
      /\ users \in [UserIds -> UserRow] /\ req \in [Requests -> Request]
  BY DEF Moves, Counters, TypeOK
<1>3. /\ users' = [users EXCEPT ![w] = [@ EXCEPT !.failed = users[w].failed + 1]]
      /\ users[w].failed + 1 >= MaxFailedAttempts
           => req' = [req EXCEPT ![r].pc = "login.lock"]
      /\ ~(users[w].failed + 1 >= MaxFailedAttempts)
           => req' = [req EXCEPT ![r] = NoRequest]
  BY DEF RecordFailedAttempt, Await, Respond
<1>4. /\ users'[w].failed = users[w].failed + 1 /\ users'[w].locked = users[w].locked
      /\ users[w].failed \in Nat
      /\ \A v \in UserIds : v # w => users'[v] = users[v]
  BY <1>1, <1>2, <1>3 DEF UserRow
<1>5. /\ users[w].failed + 1 >= MaxFailedAttempts
           => req'[r].pc = "login.lock" /\ req'[r].user = w
      /\ ~(users[w].failed + 1 >= MaxFailedAttempts) => req'[r].pc = "idle"
  BY <1>2, <1>3 DEF Request, NoRequest
<1>6. w \in UserIds /\ req[r].user = w
  BY <1>1
<1> HIDE DEF w
<1>7. /\ r \in Failing(req, w) /\ Failing(req', w) = Failing(req, w) \ {r}
      /\ users[w].failed + 1 >= MaxFailedAttempts
           => OwingTo(req', w) = OwingTo(req, w)
  BY <1>1, <1>5, <1>6 DEF Moves, Failing, OwingTo
<1>8. Cardinality(Failing(req', w)) = Cardinality(Failing(req, w)) - 1
  BY <1>7, Counting, Leaving
<1>9. ASSUME NEW u \in UserIds
      PROVE  /\ users'[u].failed < MaxFailedAttempts
                  => guesses'[u] + MaxFailedAttempts - 1
                       <= users'[u].failed + allowance'[u] + Cardinality(Failing(req', u))
             /\ users'[u].locked # "running"
                  => guesses'[u] <= allowance'[u] + Cardinality(OwingTo(req', u))
             /\ guesses'[u] <= allowance'[u] + Cardinality(Requests)
  <2>1. CASE u = w
    <3>1. /\ users[w].failed < MaxFailedAttempts
               => guesses[w] + MaxFailedAttempts - 1
                    <= users[w].failed + allowance[w] + Cardinality(Failing(req, w))
          /\ users[w].locked # "running"
               => guesses[w] <= allowance[w] + Cardinality(OwingTo(req, w))
          /\ guesses[w] <= allowance[w] + Cardinality(Requests)
      BY <1>6 DEF Moves, Counters, BelowThreshold, WhileUnlocked, GuessesBounded
    <3>2. /\ Cardinality(Failing(req, w)) \in Nat
          /\ Cardinality(Failing(req', w)) \in Nat
          /\ Cardinality(OwingTo(req', w)) \in Nat
          /\ Cardinality(Failing(req', w)) <= Cardinality(OwingTo(req', w))
      BY Counting
    <3>3. guesses[w] \in Nat /\ allowance[w] \in Nat
      BY <1>2, <1>6
    <3>4. CASE users[w].failed + 1 >= MaxFailedAttempts
      BY <1>1, <1>4, <1>7, <2>1, <3>1, <3>3, <3>4, MaxType
    <3>5. CASE ~(users[w].failed + 1 >= MaxFailedAttempts)
      BY <1>1, <1>4, <1>8, <2>1, <3>1, <3>2, <3>3, <3>5, MaxType
    <3> QED BY <3>4, <3>5
  <2>2. CASE u # w
    <3>1. /\ Failing(req', u) = Failing(req, u)
          /\ OwingTo(req', u) = OwingTo(req, u)
      BY <1>5, <1>6, <2>2, Bystander DEF Owing
    <3> QED BY <1>1, <1>4, <2>2, <3>1, Untouched
  <2> QED BY <2>1, <2>2
<1>10. BelowThreshold' /\ WhileUnlocked' /\ GuessesBounded'
  BY <1>9 DEF BelowThreshold, WhileUnlocked, GuessesBounded
<1>11. ThresholdLocks'
  <2> SUFFICES ASSUME NEW u \in UserIds, users'[u].failed >= MaxFailedAttempts
               PROVE  \/ users'[u].locked # "no" \/ u \in interrupted'
                      \/ \E s \in Requests : req'[s].pc = "login.lock" /\ req'[s].user = u
    BY DEF ThresholdLocks, At
  <2>1. CASE u = w
    BY <1>4, <1>5, <2>1
  <2>2. CASE u # w
    <3>1. \/ users[u].locked # "no" \/ u \in interrupted
          \/ \E s \in Requests : req[s].pc = "login.lock" /\ req[s].user = u
      BY <1>4, <2>2 DEF Moves, Counters, ThresholdLocks, At
    <3> QED BY <1>1, <1>4, <2>2, <3>1 DEF Moves
  <2> QED BY <2>1, <2>2
<1> QED BY <1>1, <1>10, <1>11 DEF Moves, Counters

\* The lock starts: from here on nothing is compared until it elapses.
LEMMA LockCounts ==
  ASSUME NEW r \in Requests, Moves(r), ObserveStep(r), LockAccount(r)
  PROVE  Counters'
<1> DEFINE w == req[r].user
<1>1. /\ req[r].pc = "login.lock" /\ w \in UserIds
      /\ req' = [req EXCEPT ![r] = NoRequest]
  BY DEF Moves, RememberedRows, Remembers, LockAccount, At, Respond
<1>2. req'[r].pc = "idle"
  BY <1>1 DEF Moves, TypeOK, NoRequest
<1>3. /\ guesses' = guesses /\ allowance' = allowance /\ interrupted' = interrupted \ {w}
  BY <1>1, <1>2 DEF ObserveStep, Guessed, Cleared, At
<1>4. /\ users'[w].locked = "running" /\ users'[w].failed = users[w].failed
      /\ \A v \in UserIds : v # w => users'[v] = users[v]
  BY <1>1 DEF LockAccount, Moves, TypeOK, UserRow
<1>5. w \in UserIds /\ req[r].user = w
  BY <1>1
<1> HIDE DEF w
<1>6. Failing(req', w) = Failing(req, w)
  BY <1>1, <1>2 DEF Moves, Failing
<1>7. ASSUME NEW u \in UserIds
      PROVE  /\ users'[u].failed < MaxFailedAttempts
                  => guesses'[u] + MaxFailedAttempts - 1
                       <= users'[u].failed + allowance'[u] + Cardinality(Failing(req', u))
             /\ users'[u].locked # "running"
                  => guesses'[u] <= allowance'[u] + Cardinality(OwingTo(req', u))
             /\ guesses'[u] <= allowance'[u] + Cardinality(Requests)
  <2>1. CASE u = w
    BY <1>3, <1>4, <1>6, <2>1 DEF Moves, Counters, BelowThreshold, GuessesBounded
  <2>2. CASE u # w
    <3>1. /\ Failing(req', u) = Failing(req, u)
          /\ OwingTo(req', u) = OwingTo(req, u)
      BY <1>2, <1>5, <2>2, Bystander DEF Owing
    <3> QED BY <1>3, <1>4, <2>2, <3>1, Untouched
  <2> QED BY <2>1, <2>2
<1>8. BelowThreshold' /\ WhileUnlocked' /\ GuessesBounded'
  BY <1>7 DEF BelowThreshold, WhileUnlocked, GuessesBounded
<1>9. ThresholdLocks'
  <2> SUFFICES ASSUME NEW u \in UserIds, u # w, users'[u].failed >= MaxFailedAttempts
               PROVE  \/ users'[u].locked # "no" \/ u \in interrupted'
                      \/ \E s \in Requests : req'[s].pc = "login.lock" /\ req'[s].user = u
    BY <1>4 DEF ThresholdLocks, At
  <2>1. \/ users[u].locked # "no" \/ u \in interrupted
        \/ \E s \in Requests : req[s].pc = "login.lock" /\ req[s].user = u
    BY <1>4 DEF Moves, Counters, ThresholdLocks, At
  <2> QED BY <1>3, <1>4, <1>5, <2>1 DEF Moves
<1> QED BY <1>3, <1>8, <1>9 DEF Moves, Counters

\* A login or a reset clears the row and the history alike.
LEMMA ClearCounts ==
  ASSUME NEW r \in Requests, Moves(r), ObserveStep(r),
         LoginIssue(r) \/ ResetCommit(r)
  PROVE  Counters'
<1> DEFINE w == req[r].user
<1>1. /\ req[r].pc \in {"login.issue", "reset.commit"} /\ w \in UserIds
      /\ req' = [req EXCEPT ![r] = NoRequest]
  BY DEF Moves, RememberedRows, Remembers, LoginIssue, ResetCommit, At, Respond
<1>2. req'[r].pc = "idle"
  BY <1>1 DEF Moves, TypeOK, NoRequest
<1>3. /\ guesses' = [guesses EXCEPT ![w] = 0]
      /\ allowance' = [allowance EXCEPT ![w] = MaxFailedAttempts - 1]
      /\ interrupted' = interrupted \ {w}
  BY <1>1, <1>2 DEF ObserveStep, Guessed, Cleared, At
<1>4. /\ users'[w].locked = "no" /\ users'[w].failed = 0
      /\ \A v \in UserIds : v # w => users'[v] = users[v]
  <2>1. users \in [UserIds -> UserRow]
    BY DEF Moves, TypeOK
  <2>2. /\ Unlocked(users[w]).locked = "no" /\ Unlocked(users[w]).failed = 0
        /\ Unlocked(users[w]) \in UserRow
    BY <1>1, <2>1, UnlockedType DEF Unlocked, UserRow
  <2>3. CASE LoginIssue(r)
    <3>1. users' = [users EXCEPT ![w] = Unlocked(users[w])]
      BY <2>3 DEF LoginIssue
    <3> QED BY <1>1, <2>1, <2>2, <3>1
  <2>4. CASE ResetCommit(r)
    <3>1. PICK p \in Passwords :
            users' = [users EXCEPT ![w] = [Unlocked(users[w]) EXCEPT !.password = p]]
      BY <2>4 DEF ResetCommit
    <3>2. /\ [Unlocked(users[w]) EXCEPT !.password = p].locked = "no"
          /\ [Unlocked(users[w]) EXCEPT !.password = p].failed = 0
      BY <2>2 DEF UserRow
    <3> QED BY <1>1, <2>1, <3>1, <3>2
  <2> QED BY <2>3, <2>4
<1>5. w \in UserIds /\ req[r].user = w
  BY <1>1
<1>6. /\ guesses' \in [UserIds -> Nat] /\ allowance' \in [UserIds -> Nat]
      /\ interrupted' \in SUBSET UserIds
  <2>1. MaxFailedAttempts - 1 \in Nat
    BY MaxType
  <2> QED BY <1>3, <2>1 DEF Moves, Counters
<1> HIDE DEF w
<1>7. ASSUME NEW u \in UserIds
      PROVE  /\ users'[u].failed < MaxFailedAttempts
                  => guesses'[u] + MaxFailedAttempts - 1
                       <= users'[u].failed + allowance'[u] + Cardinality(Failing(req', u))
             /\ users'[u].locked # "running"
                  => guesses'[u] <= allowance'[u] + Cardinality(OwingTo(req', u))
             /\ guesses'[u] <= allowance'[u] + Cardinality(Requests)
  <2>1. CASE u = w
    <3>1. guesses'[w] = 0 /\ allowance'[w] = MaxFailedAttempts - 1
      BY <1>3, <1>5 DEF Moves, Counters
    <3>2. /\ Cardinality(Failing(req', w)) \in Nat
          /\ Cardinality(OwingTo(req', w)) \in Nat /\ Cardinality(Requests) \in Nat
      BY Counting
    <3> QED BY <1>4, <2>1, <3>1, <3>2, MaxType
  <2>2. CASE u # w
    <3>1. /\ Failing(req', u) = Failing(req, u)
          /\ OwingTo(req', u) = OwingTo(req, u)
      BY <1>2, <1>5, <2>2, Bystander DEF Owing
    <3>2. guesses'[u] = guesses[u] /\ allowance'[u] = allowance[u]
      BY <1>3, <2>2 DEF Moves, Counters
    <3> QED BY <1>4, <2>2, <3>1, <3>2, Untouched
  <2> QED BY <2>1, <2>2
<1>8. BelowThreshold' /\ WhileUnlocked' /\ GuessesBounded'
  BY <1>7 DEF BelowThreshold, WhileUnlocked, GuessesBounded
<1>9. ThresholdLocks'
  <2> SUFFICES ASSUME NEW u \in UserIds, u # w, users'[u].failed >= MaxFailedAttempts
               PROVE  \/ users'[u].locked # "no" \/ u \in interrupted'
                      \/ \E s \in Requests : req'[s].pc = "login.lock" /\ req'[s].user = u
    BY <1>4, MaxType DEF ThresholdLocks, At
  <2>1. \/ users[u].locked # "no" \/ u \in interrupted
        \/ \E s \in Requests : req[s].pc = "login.lock" /\ req[s].user = u
    BY <1>4 DEF Moves, Counters, ThresholdLocks, At
  <2>2. req[r].pc # "login.lock"
    BY <1>1
  <2> QED BY <1>3, <1>4, <2>1, <2>2 DEF Moves
<1> QED BY <1>6, <1>8, <1>9 DEF Counters

\* A request that dies owing is paid for by the allowance.
LEMMA AbortCounts ==
  ASSUME NEW r \in Requests, Moves(r), Abort(r), ObserveAbort(r)
  PROVE  Counters'
<1> DEFINE w == req[r].user
<1>1. /\ users' = users /\ guesses' = guesses
      /\ req'[r].pc = "idle"
      /\ allowance' = IF Owing(r) THEN [allowance EXCEPT ![w] = @ + 1] ELSE allowance
      /\ interrupted' = IF At(r, "login.lock") THEN interrupted \cup {w} ELSE interrupted
  BY DEF Abort, ObserveAbort, Respond, Moves, TypeOK, NoRequest
<1>2. Owing(r) => w \in UserIds
  BY DEF Owing, Moves, RememberedRows, Remembers
<1>3. /\ guesses \in [UserIds -> Nat] /\ allowance \in [UserIds -> Nat]
      /\ interrupted \in SUBSET UserIds
      /\ \A v \in UserIds : users[v].failed \in Nat
  BY DEF Moves, Counters, TypeOK, UserRow
<1>4. /\ guesses' \in [UserIds -> Nat] /\ allowance' \in [UserIds -> Nat]
      /\ interrupted' \in SUBSET UserIds
  <2>1. At(r, "login.lock") => Owing(r)
    BY DEF At, Owing
  <2> HIDE DEF w
  <2> QED BY <1>1, <1>2, <1>3, <2>1
<1>5. w = req[r].user
  OBVIOUS
<1> HIDE DEF w
<1>6. ASSUME NEW u \in UserIds
      PROVE  /\ users'[u].failed < MaxFailedAttempts
                  => guesses'[u] + MaxFailedAttempts - 1
                       <= users'[u].failed + allowance'[u] + Cardinality(Failing(req', u))
             /\ users'[u].locked # "running"
                  => guesses'[u] <= allowance'[u] + Cardinality(OwingTo(req', u))
             /\ guesses'[u] <= allowance'[u] + Cardinality(Requests)
  <2>1. CASE u = w /\ Owing(r)
    <3>1. allowance'[u] = allowance[u] + 1
      BY <1>1, <1>3, <2>1
    <3>2. r \in OwingTo(req, u) /\ OwingTo(req', u) = OwingTo(req, u) \ {r}
      BY <1>1, <1>5, <2>1 DEF Moves, OwingTo, Owing
    <3>3. Cardinality(OwingTo(req', u)) = Cardinality(OwingTo(req, u)) - 1
      <4>1. IsFiniteSet(OwingTo(req, u))
        BY Counting
      <4> QED BY <3>2, <4>1, Leaving
    <3>4. Failing(req', u) = Failing(req, u) \ {r}
      BY <1>1 DEF Moves, Failing
    <3>5. Cardinality(Failing(req', u)) >= Cardinality(Failing(req, u)) - 1
      <4>1. IsFiniteSet(Failing(req, u)) /\ Cardinality(Failing(req, u)) \in Nat
        BY Counting
      <4>2. Cardinality(Failing(req, u) \ {r})
              = IF r \in Failing(req, u) THEN Cardinality(Failing(req, u)) - 1
                ELSE Cardinality(Failing(req, u))
        BY <4>1, FS_RemoveElement
      <4>3. Cardinality(Failing(req, u) \ {r}) >= Cardinality(Failing(req, u)) - 1
        BY <4>1, <4>2
      <4> QED BY <3>4, <4>3
    <3>6. /\ users[u].failed < MaxFailedAttempts
               => guesses[u] + MaxFailedAttempts - 1
                    <= users[u].failed + allowance[u] + Cardinality(Failing(req, u))
          /\ users[u].locked # "running"
               => guesses[u] <= allowance[u] + Cardinality(OwingTo(req, u))
          /\ guesses[u] <= allowance[u] + Cardinality(Requests)
      BY DEF Moves, Counters, BelowThreshold, WhileUnlocked, GuessesBounded
    <3>7. /\ Cardinality(OwingTo(req, u)) \in Nat /\ Cardinality(Requests) \in Nat
          /\ Cardinality(Failing(req', u)) \in Nat
          /\ Cardinality(Failing(req, u)) \in Nat
          /\ guesses[u] \in Nat /\ allowance[u] \in Nat /\ users[u].failed \in Nat
      BY <1>3, Counting
    <3> QED BY <1>1, <3>1, <3>3, <3>5, <3>6, <3>7, MaxType
  <2>2. CASE u # w \/ ~Owing(r)
    <3>1. /\ Failing(req', u) = Failing(req, u)
          /\ OwingTo(req', u) = OwingTo(req, u)
      BY <1>1, <1>5, <2>2, Bystander DEF Owing
    <3>2. allowance'[u] = allowance[u]
      BY <1>1, <1>3, <2>2
    <3> QED BY <1>1, <3>1, <3>2, Untouched
  <2> QED BY <2>1, <2>2
<1>7. BelowThreshold' /\ WhileUnlocked' /\ GuessesBounded'
  BY <1>6 DEF BelowThreshold, WhileUnlocked, GuessesBounded
<1>8. ThresholdLocks'
  <2> SUFFICES ASSUME NEW u \in UserIds, users'[u].failed >= MaxFailedAttempts
               PROVE  \/ users'[u].locked # "no" \/ u \in interrupted'
                      \/ \E s \in Requests : req'[s].pc = "login.lock" /\ req'[s].user = u
    BY DEF ThresholdLocks, At
  <2>1. \/ users[u].locked # "no" \/ u \in interrupted
        \/ \E s \in Requests : req[s].pc = "login.lock" /\ req[s].user = u
    BY <1>1 DEF Moves, Counters, ThresholdLocks, At
  <2> QED BY <1>1, <1>5, <2>1 DEF Moves, At
<1> QED BY <1>4, <1>7, <1>8 DEF Counters

\* A lock that elapses opens the account at no more than the allowance.
LEMMA EnvironmentCounts ==
  ASSUME TypeOK, Counters, Environment, ObserveEnvironment
  PROVE  Counters' /\ (FreshRows => FreshRows')
<1>1. /\ req' = req /\ guesses' = guesses /\ interrupted' = interrupted
      /\ allowance' = [u \in UserIds |->
           IF Elapsed(u) /\ allowance[u] < guesses[u] THEN guesses[u] ELSE allowance[u]]
  BY DEF Environment, LockElapses, TokenExpires, ResetTokenExpires, AccountEdited,
     ObserveEnvironment
<1>2. \A u \in UserIds :
        /\ users'[u].failed = users[u].failed /\ users'[u].email = users[u].email
        /\ users'[u].locked = users[u].locked \/ Elapsed(u)
  <2>1. CASE LockElapses
    BY <2>1 DEF LockElapses, Elapsed, TypeOK, UserRow
  <2>2. CASE TokenExpires \/ ResetTokenExpires
    BY <2>2 DEF TokenExpires, ResetTokenExpires
  <2>3. CASE AccountEdited
    <3>1. PICK u \in UserIds, isActive \in BOOLEAN, deleted \in BOOLEAN :
            users' = [users EXCEPT ![u] =
                        [@ EXCEPT !.isActive = isActive, !.deleted = deleted]]
      BY <2>3 DEF AccountEdited
    <3> DEFINE row == [users[u] EXCEPT !.isActive = isActive, !.deleted = deleted]
    <3>2. /\ row.failed = users[u].failed /\ row.email = users[u].email
          /\ row.locked = users[u].locked
      BY DEF TypeOK, UserRow
    <3>3. users' = [users EXCEPT ![u] = row]
      BY <3>1
    <3> HIDE DEF row
    <3> QED BY <3>2, <3>3 DEF TypeOK
  <2> QED BY <2>1, <2>2, <2>3 DEF Environment
<1>3. /\ guesses \in [UserIds -> Nat] /\ allowance \in [UserIds -> Nat]
      /\ interrupted \in SUBSET UserIds
      /\ \A v \in UserIds : users[v].failed \in Nat
  BY DEF Counters, TypeOK, UserRow
<1>4. allowance' \in [UserIds -> Nat]
  BY <1>1, <1>3
<1>5. ASSUME NEW u \in UserIds
      PROVE  /\ users'[u].failed < MaxFailedAttempts
                  => guesses'[u] + MaxFailedAttempts - 1
                       <= users'[u].failed + allowance'[u] + Cardinality(Failing(req', u))
             /\ users'[u].locked # "running"
                  => guesses'[u] <= allowance'[u] + Cardinality(OwingTo(req', u))
             /\ guesses'[u] <= allowance'[u] + Cardinality(Requests)
  <2>1. /\ users[u].failed < MaxFailedAttempts
             => guesses[u] + MaxFailedAttempts - 1
                  <= users[u].failed + allowance[u] + Cardinality(Failing(req, u))
        /\ users[u].locked # "running"
             => guesses[u] <= allowance[u] + Cardinality(OwingTo(req, u))
        /\ guesses[u] <= allowance[u] + Cardinality(Requests)
    BY DEF Counters, BelowThreshold, WhileUnlocked, GuessesBounded
  <2>2. /\ Cardinality(OwingTo(req, u)) \in Nat /\ Cardinality(Requests) \in Nat
        /\ Cardinality(Failing(req, u)) \in Nat
        /\ guesses[u] \in Nat /\ allowance[u] \in Nat /\ users[u].failed \in Nat
    BY <1>3, Counting
  <2>3. /\ allowance'[u] \in Nat /\ allowance'[u] >= allowance[u]
        /\ Elapsed(u) => allowance'[u] >= guesses[u]
    BY <1>1, <2>2
  <2> QED BY <1>1, <1>2, <2>1, <2>2, <2>3, MaxType
<1>6. BelowThreshold' /\ WhileUnlocked' /\ GuessesBounded'
  BY <1>5 DEF BelowThreshold, WhileUnlocked, GuessesBounded
<1>7. ThresholdLocks'
  BY <1>1, <1>2 DEF Counters, ThresholdLocks, Elapsed, At
<1>8. FreshRows => FreshRows'
  BY <1>2 DEF FreshRows, Elapsed
<1> QED BY <1>1, <1>3, <1>4, <1>6, <1>7, <1>8 DEF Counters
----------------------------------------------------------------------------
\* Nobody has guessed at first, and no seeded account is at the threshold.
LEMMA InitialCounts == LockoutInit => LockoutInv
<1> SUFFICES ASSUME LockoutInit PROVE LockoutInv
  OBVIOUS
<1>1. /\ Init /\ TypeOK /\ RememberedRows
      /\ guesses = [u \in UserIds |-> 0] /\ interrupted = {}
      /\ allowance = [u \in UserIds |-> MaxFailedAttempts - 1]
  BY InitialType, InitialRemembered DEF LockoutInit
<1>2. \A u \in UserIds : users[u].failed = 0 /\ users[u].locked = "no"
  BY <1>1, SeedAssumption DEF Init
<1>3. LockoutTypeOK /\ FreshRows
  BY <1>1, <1>2, MaxType DEF LockoutTypeOK, FreshRows
<1>4. BelowThreshold /\ WhileUnlocked /\ GuessesBounded
  <2> SUFFICES ASSUME NEW u \in UserIds
               PROVE  /\ guesses[u] + MaxFailedAttempts - 1
                           <= users[u].failed + allowance[u] + Cardinality(Failing(req, u))
                      /\ guesses[u] <= allowance[u] + Cardinality(OwingTo(req, u))
                      /\ guesses[u] <= allowance[u] + Cardinality(Requests)
    BY DEF BelowThreshold, WhileUnlocked, GuessesBounded
  <2>1. /\ Cardinality(OwingTo(req, u)) \in Nat /\ Cardinality(Requests) \in Nat
        /\ Cardinality(Failing(req, u)) \in Nat
    BY Counting
  <2> QED BY <1>1, <1>2, <2>1, MaxType
<1>5. ThresholdLocks
  BY <1>2, MaxType DEF ThresholdLocks
<1> QED BY <1>1, <1>3, <1>4, <1>5 DEF LockoutInv

\* Every step of a request keeps the invariant.
LEMMA LockoutStep ==
  ASSUME LockoutInv, NEW r \in Requests, Step(r), ObserveStep(r)
  PROVE  LockoutInv'
<1>1. TypeOK' /\ RememberedRows'
  BY StepType, StepRemembers DEF LockoutInv, LockoutTypeOK
<1>2. Moves(r)
  BY <1>1, RowsStay DEF Moves, Counters, LockoutInv, LockoutTypeOK
<1>3. \/ Quiet(r) \/ (\E u \in UserIds : WrongPassword(r, u))
      \/ RecordFailedAttempt(r) \/ LockAccount(r)
      \/ LoginIssue(r) \/ ResetCommit(r)
  BY StepKinds DEF LockoutInv, LockoutTypeOK
<1>4. Counters'
  BY <1>2, <1>3, QuietCounts, GuessCounts, RecordCounts, LockCounts, ClearCounts
<1>5. FreshRows'
  <2>1. \A u \in UserIds : users'[u].email = None => users[u].email = None
    BY RowsStay DEF LockoutInv, LockoutTypeOK
  <2>2. FreshRows /\ RememberedRows /\ users \in [UserIds -> UserRow]
    BY DEF LockoutInv, LockoutTypeOK, TypeOK
  <2>3. CASE Quiet(r) \/ (\E u \in UserIds : WrongPassword(r, u))
    BY <2>1, <2>2, <2>3 DEF Quiet, WrongPassword, FreshRows
  <2>4. CASE RecordFailedAttempt(r) \/ LockAccount(r) \/ LoginIssue(r) \/ ResetCommit(r)
    <3>1. req[r].user \in UserIds /\ users[req[r].user].email # None
      BY <2>2, <2>4 DEF RememberedRows, Remembers, RecordFailedAttempt, LockAccount,
         LoginIssue, ResetCommit, At
    <3>2. \A u \in UserIds : u # req[r].user => users'[u] = users[u]
      BY <2>2, <2>4 DEF RecordFailedAttempt, LockAccount, LoginIssue, ResetCommit
    <3>3. users'[req[r].user].email # None
      BY <3>1, RowsStay DEF LockoutInv, LockoutTypeOK
    <3> QED BY <2>2, <3>1, <3>2, <3>3 DEF FreshRows
  <2> QED BY <1>3, <2>3, <2>4
<1> QED BY <1>1, <1>4, <1>5 DEF Counters, LockoutInv, LockoutTypeOK

\* The invariant in every reachable state.
LEMMA LockoutInvariance == LockoutSpec => []LockoutInv
<1>1. LockoutInv /\ [LockoutNext]_lockoutVars => LockoutInv'
  <2> SUFFICES ASSUME LockoutInv, [LockoutNext]_lockoutVars PROVE LockoutInv'
    OBVIOUS
  <2>0. TypeOK /\ RememberedRows /\ Counters /\ FreshRows
    BY DEF LockoutInv, LockoutTypeOK, Counters
  <2>1. ASSUME NEW r \in Requests, Step(r), ObserveStep(r) PROVE LockoutInv'
    BY <2>1, LockoutStep
  <2>2. ASSUME NEW r \in Requests, Abort(r), ObserveAbort(r) PROVE LockoutInv'
    <3>1. TypeOK' /\ RememberedRows'
      BY <2>0, <2>2, AbortInvariant
    <3>2. Moves(r)
      BY <2>0, <2>2, <3>1 DEF Moves, Abort, Respond, TypeOK
    <3>3. Counters'
      BY <2>2, <3>2, AbortCounts
    <3>4. FreshRows'
      BY <2>0, <2>2 DEF Abort, FreshRows
    <3> QED BY <3>1, <3>3, <3>4 DEF Counters, LockoutInv, LockoutTypeOK
  <2>3. CASE Environment /\ ObserveEnvironment
    <3>1. TypeOK' /\ RememberedRows' /\ Counters' /\ FreshRows'
      BY <2>0, <2>3, EnvironmentInvariant, EnvironmentCounts
    <3> QED BY <3>1 DEF Counters, LockoutInv, LockoutTypeOK
  <2>4. CASE UNCHANGED lockoutVars
    BY <2>4 DEF lockoutVars, vars, historyVars, LockoutInv, LockoutTypeOK, TypeOK,
       RememberedRows, Remembers, OwnedTokens, FreshRows, BelowThreshold,
       WhileUnlocked, GuessesBounded, ThresholdLocks, At
  <2> QED BY <2>1, <2>2, <2>3, <2>4 DEF LockoutNext
<1> QED BY <1>1, InitialCounts, PTL DEF LockoutSpec

\* The tables, the requests and the history keep their types.
THEOREM LockoutTypeCorrect == LockoutSpec => []LockoutTypeOK
<1>1. LockoutInv => LockoutTypeOK
  BY DEF LockoutInv
<1> QED BY <1>1, LockoutInvariance, PTL

\* recordFailedAttempt leaves no account at the threshold without a lock,
\* unless the request that owed the lock died before its second update.
THEOREM ThresholdLocksAlways == LockoutSpec => []ThresholdLocks
<1>1. LockoutInv => ThresholdLocks
  BY DEF LockoutInv
<1> QED BY <1>1, LockoutInvariance, PTL

\* However login requests interleave, a burst buys at most one comparison for
\* each request in flight beyond what the lockout lets through.
THEOREM GuessesAlwaysBounded == LockoutSpec => []GuessesBounded
<1>1. LockoutInv => GuessesBounded
  BY DEF LockoutInv
<1> QED BY <1>1, LockoutInvariance, PTL
----------------------------------------------------------------------------
(* LateLocksBounded is inductive only together with the locks that are     *)
(* still under way: the locks set below the threshold and those about to   *)
(* be set are, together, fewer than the requests.  LateSpec implements     *)
(* LockoutSpec, so that what is proved above holds of it too.              *)

\* The requests of q that are about to lock u.
Locking(q, u) == {r \in Requests : q[r].pc = "login.lock" /\ q[r].user = u}

\* The late locks of an account and those under way.
LateCount(u) ==
    /\ late[u] < Cardinality(Requests)
    /\ users[u].failed < MaxFailedAttempts
         => late[u] + Cardinality(Locking(req, u)) < Cardinality(Requests)

\* The inductive invariant of late locks.
LateInv == late \in [UserIds -> Nat] /\ \A u \in UserIds : LateCount(u)
----------------------------------------------------------------------------
\* The requests about to lock can be counted.
LEMMA LockingCounts ==
  ASSUME NEW q, NEW u
  PROVE  /\ IsFiniteSet(Locking(q, u)) /\ Cardinality(Locking(q, u)) \in Nat
         /\ Cardinality(Locking(q, u)) <= Cardinality(Requests)
         /\ Cardinality(Requests) \in Nat
         /\ \A r \in Requests : r \notin Locking(q, u)
              => Cardinality(Locking(q, u)) < Cardinality(Requests)
<1>1. Locking(q, u) \in SUBSET Requests
  BY DEF Locking
<1>2. /\ IsFiniteSet(Locking(q, u))
      /\ Cardinality(Locking(q, u)) <= Cardinality(Requests)
      /\ Cardinality(Locking(q, u)) = Cardinality(Requests) => Locking(q, u) = Requests
  BY <1>1, RequestsAssumption, FS_Subset
<1>3. Cardinality(Locking(q, u)) \in Nat /\ Cardinality(Requests) \in Nat
  BY <1>2, RequestsAssumption, FS_CardinalityType
<1>4. ASSUME NEW r \in Requests, r \notin Locking(q, u)
      PROVE  Cardinality(Locking(q, u)) < Cardinality(Requests)
  <2>1. Locking(q, u) # Requests
    BY <1>4
  <2> QED BY <1>2, <1>3, <2>1
<1> QED BY <1>2, <1>3, <1>4

\* What the cases below share.
LateMoves(r) ==
    /\ TypeOK /\ RememberedRows /\ LateInv
    /\ req' \in [Requests -> Request]
    /\ \A s \in Requests \ {r} : req'[s] = req[s]

\* An account whose failures, locks and count stay, stays within the bound.
LEMMA LateKept ==
  ASSUME NEW u \in UserIds, LateCount(u),
         users'[u].failed = users[u].failed, late'[u] = late[u],
         Locking(req', u) = Locking(req, u)
  PROVE  LateCount(u)'
  BY DEF LateCount

\* No lock begins or ends with a step that leaves the rows' failures alone.
LEMMA QuietLate ==
  ASSUME NEW r \in Requests, LateMoves(r), ObserveLate(r),
         Quiet(r) \/ \E u \in UserIds : WrongPassword(r, u)
  PROVE  LateInv'
<1>1. /\ req[r].pc \notin {"login.lock", "login.issue", "reset.commit"}
      /\ req'[r].pc # "login.lock"
      /\ \A u \in UserIds : users'[u].failed = users[u].failed
  BY DEF Quiet, WrongPassword, At
<1>2. late' = late
  BY <1>1 DEF ObserveLate, Cleared, Belated, At
<1>3. \A u \in UserIds : Locking(req', u) = Locking(req, u)
  BY <1>1 DEF LateMoves, Locking
<1> QED BY <1>1, <1>2, <1>3, LateKept DEF LateMoves, LateInv

\* A request joins those about to lock only at the threshold.
LEMMA RecordLate ==
  ASSUME NEW r \in Requests, LateMoves(r), ObserveLate(r), RecordFailedAttempt(r)
  PROVE  LateInv'
<1> DEFINE w == req[r].user
<1>1. req[r].pc = "login.failed" /\ w \in UserIds
  BY DEF LateMoves, RememberedRows, Remembers, RecordFailedAttempt, At
<1>2. late' = late
  BY <1>1 DEF ObserveLate, Cleared, Belated, At
<1>3. /\ users \in [UserIds -> UserRow] /\ req \in [Requests -> Request]
      /\ late \in [UserIds -> Nat]
  BY DEF LateMoves, TypeOK, LateInv
<1>4. /\ users' = [users EXCEPT ![w] = [@ EXCEPT !.failed = users[w].failed + 1]]
      /\ users[w].failed + 1 >= MaxFailedAttempts
           => req' = [req EXCEPT ![r].pc = "login.lock"]
      /\ ~(users[w].failed + 1 >= MaxFailedAttempts)
           => req' = [req EXCEPT ![r] = NoRequest]
  BY DEF RecordFailedAttempt, Await, Respond
<1>5. /\ users'[w].failed = users[w].failed + 1 /\ users[w].failed \in Nat
      /\ \A u \in UserIds : u # w => users'[u] = users[u]
  BY <1>1, <1>3, <1>4 DEF UserRow
<1>6. /\ ~(users[w].failed + 1 >= MaxFailedAttempts) => req'[r].pc = "idle"
      /\ req'[r].pc = "login.lock" => req'[r].user = w
  BY <1>3, <1>4 DEF NoRequest, Request
<1>7. w = req[r].user
  OBVIOUS
<1> HIDE DEF w
<1>8. ASSUME NEW u \in UserIds PROVE LateCount(u)'
  <2>1. LateCount(u)
    BY DEF LateMoves, LateInv
  <2>2. CASE u = w /\ users[w].failed + 1 >= MaxFailedAttempts
    BY <1>2, <1>5, <2>1, <2>2, MaxType DEF LateCount
  <2>3. CASE u = w /\ ~(users[w].failed + 1 >= MaxFailedAttempts)
    <3>1. Locking(req', u) = Locking(req, u)
      BY <1>1, <1>6, <2>3 DEF LateMoves, Locking
    <3>2. users[u].failed < MaxFailedAttempts
      BY <1>5, <2>3, MaxType
    <3> QED BY <1>2, <2>1, <3>1, <3>2 DEF LateCount
  <2>4. CASE u # w
    <3>1. Locking(req', u) = Locking(req, u)
      BY <1>1, <1>6, <1>7, <2>4 DEF LateMoves, Locking
    <3> QED BY <1>2, <1>5, <2>1, <2>4, <3>1, LateKept
  <2> QED BY <2>2, <2>3, <2>4
<1> QED BY <1>2, <1>3, <1>8 DEF LateInv

\* A late lock moves one request from about to lock to counted.
LEMMA LockLate ==
  ASSUME NEW r \in Requests, LateMoves(r), ObserveLate(r), LockAccount(r)
  PROVE  LateInv'
<1> DEFINE w == req[r].user
<1>1. /\ req[r].pc = "login.lock" /\ w \in UserIds
      /\ req' = [req EXCEPT ![r] = NoRequest]
  BY DEF LateMoves, RememberedRows, Remembers, LockAccount, At, Respond
<1>2. /\ users \in [UserIds -> UserRow] /\ req \in [Requests -> Request]
      /\ late \in [UserIds -> Nat]
  BY DEF LateMoves, TypeOK, LateInv
<1>3. req'[r].pc = "idle"
  BY <1>1, <1>2 DEF NoRequest
<1>4. late' = IF users[w].failed < MaxFailedAttempts
              THEN [late EXCEPT ![w] = @ + 1] ELSE late
  BY <1>1 DEF ObserveLate, Cleared, Belated, At
<1>5. \A u \in UserIds : users'[u].failed = users[u].failed
  BY <1>2 DEF LockAccount, UserRow
<1>6. w = req[r].user
  OBVIOUS
<1> HIDE DEF w
<1>7. late' \in [UserIds -> Nat]
  BY <1>1, <1>2, <1>4
<1>8. /\ r \in Locking(req, w) /\ Locking(req', w) = Locking(req, w) \ {r}
      /\ \A u \in UserIds : u # w => Locking(req', u) = Locking(req, u)
  BY <1>1, <1>3, <1>6 DEF LateMoves, Locking
<1>9. Cardinality(Locking(req', w)) = Cardinality(Locking(req, w)) - 1
  BY <1>8, LockingCounts, Leaving
<1>10. ASSUME NEW u \in UserIds PROVE LateCount(u)'
  <2>1. LateCount(u) /\ late[u] \in Nat
    BY <1>2 DEF LateMoves, LateInv
  <2>2. /\ Cardinality(Locking(req, u)) \in Nat /\ Cardinality(Requests) \in Nat
        /\ Cardinality(Locking(req', u)) \in Nat
    BY LockingCounts
  <2>3. CASE u = w /\ users[w].failed < MaxFailedAttempts
    <3>1. late'[u] = late[u] + 1
      BY <1>2, <1>4, <2>3
    <3> QED BY <1>5, <1>9, <2>1, <2>2, <2>3, <3>1 DEF LateCount
  <2>4. CASE u = w /\ ~(users[w].failed < MaxFailedAttempts)
    BY <1>4, <1>5, <2>1, <2>4 DEF LateCount
  <2>5. CASE u # w
    <3>1. late'[u] = late[u]
      BY <1>2, <1>4, <2>5
    <3> QED BY <1>5, <1>8, <2>1, <2>5, <3>1, LateKept
  <2> QED BY <2>3, <2>4, <2>5
<1> QED BY <1>7, <1>10 DEF LateInv

\* The request that clears the account is not one that will lock it.
LEMMA ClearLate ==
  ASSUME NEW r \in Requests, LateMoves(r), ObserveLate(r),
         LoginIssue(r) \/ ResetCommit(r)
  PROVE  LateInv'
<1> DEFINE w == req[r].user
<1>1. /\ req[r].pc \in {"login.issue", "reset.commit"} /\ w \in UserIds
      /\ req' = [req EXCEPT ![r] = NoRequest]
  BY DEF LateMoves, RememberedRows, Remembers, LoginIssue, ResetCommit, At, Respond
<1>2. /\ users \in [UserIds -> UserRow] /\ req \in [Requests -> Request]
      /\ late \in [UserIds -> Nat]
  BY DEF LateMoves, TypeOK, LateInv
<1>3. req'[r].pc = "idle"
  BY <1>1, <1>2 DEF NoRequest
<1>4. late' = [late EXCEPT ![w] = 0]
  BY <1>1 DEF ObserveLate, Cleared
<1>5. \A u \in UserIds : u # w => users'[u] = users[u]
  BY <1>2 DEF LoginIssue, ResetCommit
<1>6. w = req[r].user
  OBVIOUS
<1> HIDE DEF w
<1>7. late' \in [UserIds -> Nat]
  BY <1>1, <1>2, <1>4
<1>8. ASSUME NEW u \in UserIds PROVE LateCount(u)'
  <2>1. LateCount(u)
    BY DEF LateMoves, LateInv
  <2>2. CASE u = w
    <3>1. late'[u] = 0
      BY <1>2, <1>4, <2>2
    <3>2. r \notin Locking(req', u)
      BY <1>3 DEF Locking
    <3>3. /\ Cardinality(Locking(req', u)) < Cardinality(Requests)
          /\ Cardinality(Locking(req', u)) \in Nat /\ Cardinality(Requests) \in Nat
      BY <3>2, LockingCounts
    <3> QED BY <3>1, <3>3 DEF LateCount
  <2>3. CASE u # w
    <3>1. Locking(req', u) = Locking(req, u)
      BY <1>1, <1>3, <1>6, <2>3 DEF LateMoves, Locking
    <3>2. late'[u] = late[u]
      BY <1>2, <1>4, <2>3
    <3> QED BY <1>5, <2>1, <2>3, <3>1, <3>2, LateKept
  <2> QED BY <2>2, <2>3
<1> QED BY <1>7, <1>8 DEF LateInv

\* A request that dies may have been about to lock: one lock less to come.
LEMMA AbortLate ==
  ASSUME NEW r \in Requests, LateMoves(r), Abort(r), UNCHANGED late
  PROVE  LateInv'
<1>1. req'[r].pc = "idle" /\ users' = users
  BY DEF Abort, Respond, LateMoves, TypeOK, NoRequest
<1>2. ASSUME NEW u \in UserIds PROVE LateCount(u)'
  <2>1. LateCount(u) /\ late[u] \in Nat
    BY DEF LateMoves, LateInv
  <2>2. Locking(req', u) \in SUBSET Locking(req, u)
    BY <1>1 DEF LateMoves, Locking
  <2>3. IsFiniteSet(Locking(req, u))
    BY LockingCounts
  <2>4. Cardinality(Locking(req', u)) <= Cardinality(Locking(req, u))
    BY <2>2, <2>3, FS_Subset
  <2>5. /\ Cardinality(Locking(req, u)) \in Nat /\ Cardinality(Requests) \in Nat
        /\ Cardinality(Locking(req', u)) \in Nat
    BY LockingCounts
  <2> QED BY <1>1, <2>1, <2>4, <2>5 DEF LateCount
<1> QED BY <1>2 DEF LateMoves, LateInv

\* A lock that elapses leaves the counts.
LEMMA EnvironmentLate ==
  ASSUME TypeOK, LateInv, Environment, UNCHANGED late
  PROVE  LateInv'
<1>1. req' = req
  BY DEF Environment, LockElapses, TokenExpires, ResetTokenExpires, AccountEdited
<1>2. \A u \in UserIds : users'[u].failed = users[u].failed
  <2>1. CASE LockElapses \/ TokenExpires \/ ResetTokenExpires
    BY <2>1 DEF LockElapses, TokenExpires, ResetTokenExpires, TypeOK, UserRow
  <2>2. CASE AccountEdited
    <3>1. PICK u \in UserIds, isActive \in BOOLEAN, deleted \in BOOLEAN :
            users' = [users EXCEPT ![u] =
                        [@ EXCEPT !.isActive = isActive, !.deleted = deleted]]
      BY <2>2 DEF AccountEdited
    <3> DEFINE row == [users[u] EXCEPT !.isActive = isActive, !.deleted = deleted]
    <3>2. row.failed = users[u].failed
      BY DEF TypeOK, UserRow
    <3>3. users' = [users EXCEPT ![u] = row]
      BY <3>1
    <3> HIDE DEF row
    <3> QED BY <3>2, <3>3 DEF TypeOK
  <2> QED BY <2>1, <2>2 DEF Environment
<1> QED BY <1>1, <1>2, LateKept DEF LateInv
----------------------------------------------------------------------------
\* Counting the late locks restricts nothing: what is proved of LockoutSpec is
\* proved of LateSpec.
THEOREM LateImplementsLockout == LateSpec => LockoutSpec
<1>1. LateInit => LockoutInit
  BY DEF LateInit
<1>2. [LateNext]_lateVars => [LockoutNext]_lockoutVars
  BY DEF LateNext, LockoutNext, lateVars
<1> QED BY <1>1, <1>2, PTL DEF LateSpec, LockoutSpec

\* Nobody is about to lock at first.
LEMMA LateStart == LateInit => LateInv
<1> SUFFICES ASSUME LateInit PROVE LateInv
  OBVIOUS
<1>1. late = [u \in UserIds |-> 0] /\ req = [r \in Requests |-> NoRequest]
  BY DEF LateInit, LockoutInit, Init
<1>2. PICK r \in Requests : TRUE
  BY RequestsAssumption
<1>3. ASSUME NEW u \in UserIds PROVE LateCount(u)
  <2>1. r \notin Locking(req, u)
    BY <1>1 DEF Locking, NoRequest
  <2>2. /\ Cardinality(Locking(req, u)) < Cardinality(Requests)
        /\ Cardinality(Locking(req, u)) \in Nat /\ Cardinality(Requests) \in Nat
    BY <2>1, LockingCounts
  <2> QED BY <1>1, <2>2 DEF LateCount
<1> QED BY <1>1, <1>3 DEF LateInv

\* No more locks hit a cleared account below the threshold than requests were
\* in flight when it was cleared, whatever the sizes and the interleaving.
THEOREM LateLocksAlwaysBounded == LateSpec => []LateLocksBounded
<1>1. TypeOK /\ RememberedRows /\ FreshRows /\ LateInv /\ [LateNext]_lateVars
        => LateInv'
  <2> SUFFICES ASSUME TypeOK, RememberedRows, FreshRows, LateInv, [LateNext]_lateVars
               PROVE  LateInv'
    OBVIOUS
  <2>1. ASSUME NEW r \in Requests, Step(r), ObserveLate(r) PROVE LateInv'
    <3>1. LateMoves(r)
      BY <2>1, StepType, RowsStay DEF LateMoves, TypeOK
    <3>2. \/ Quiet(r) \/ (\E u \in UserIds : WrongPassword(r, u))
          \/ RecordFailedAttempt(r) \/ LockAccount(r)
          \/ LoginIssue(r) \/ ResetCommit(r)
      BY <2>1, StepKinds
    <3> QED BY <2>1, <3>1, <3>2, QuietLate, RecordLate, LockLate, ClearLate
  <2>2. ASSUME NEW r \in Requests, Abort(r), UNCHANGED late PROVE LateInv'
    <3>1. LateMoves(r)
      BY <2>2, AbortInvariant DEF LateMoves, Abort, Respond, TypeOK
    <3> QED BY <2>2, <3>1, AbortLate
  <2>3. CASE Environment /\ UNCHANGED late
    BY <2>3, EnvironmentLate
  <2>4. CASE UNCHANGED lateVars
    BY <2>4, LateKept DEF lateVars, lockoutVars, vars, LateInv
  <2> QED BY <2>1, <2>2, <2>3, <2>4 DEF LateNext
<1>2. LockoutInv => TypeOK /\ RememberedRows /\ FreshRows
  BY DEF LockoutInv, LockoutTypeOK
<1>3. LateInv => LateLocksBounded
  BY DEF LateInv, LateCount, LateLocksBounded
<1> QED BY <1>1, <1>2, <1>3, LateStart, LateImplementsLockout, LockoutInvariance,
        PTL DEF LateSpec
====
