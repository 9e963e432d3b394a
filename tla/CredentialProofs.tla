---- MODULE CredentialProofs ----
(***************************************************************************)
(* What the service hands out, and what ends it, for any number of         *)
(* accounts, tokens and requests.  Each bound on what a race may still     *)
(* issue is inductive only with the requests that are still about to       *)
(* issue it: the two, together, are no more than the requests.             *)
(***************************************************************************)
EXTENDS Sessions, Accounts, AuthServiceProofs, FiniteSetTheorems

\* Any set of requests, counted.
LEMMA Pool ==
  ASSUME NEW S \in SUBSET Requests
  PROVE  /\ IsFiniteSet(S) /\ Cardinality(S) \in Nat /\ Cardinality(Requests) \in Nat
         /\ Cardinality(S) <= Cardinality(Requests)
         /\ \A T \in SUBSET S : Cardinality(T) \in Nat /\ Cardinality(T) <= Cardinality(S)
         /\ \A r \in S : Cardinality(S \ {r}) = Cardinality(S) - 1
         /\ \A r \in Requests \ S : Cardinality(S) < Cardinality(Requests)
<1>1. IsFiniteSet(S) /\ Cardinality(S) <= Cardinality(Requests)
      /\ (Cardinality(S) = Cardinality(Requests) => S = Requests)
  BY RequestsAssumption, FS_Subset
<1>2. Cardinality(S) \in Nat /\ Cardinality(Requests) \in Nat
  BY <1>1, RequestsAssumption, FS_CardinalityType
<1>3. \A T \in SUBSET S : Cardinality(T) \in Nat /\ Cardinality(T) <= Cardinality(S)
  BY <1>1, FS_Subset, FS_CardinalityType
<1>4. \A r \in S : Cardinality(S \ {r}) = Cardinality(S) - 1
  BY <1>1, FS_RemoveElement
<1>5. \A r \in Requests \ S : Cardinality(S) < Cardinality(Requests)
  BY <1>1, <1>2
<1> QED BY <1>1, <1>2, <1>3, <1>4, <1>5
----------------------------------------------------------------------------
(* What comes of a refresh token                                           *)

\* Requests that issue a session which is no successor of another.
Anew == {"login.issue", "google.create", "google.link", "google.issue"}

\* The requests of q that may yet rotate t, and what t was rotated into.
Rotating(q, t) ==
    {r \in Requests : q[r].pc \in {"refresh.user", "refresh.rotate"} /\ q[r].token = t}
Successors(p, t) == {c \in Tokens : p[c] = t}

\* A token that was never issued has no past.
Fresh(t) == ~Issued(t) => parent[t] = None /\ refreshTokens[t].state # "revoked"

\* Only a revoked token has successors, and each request that may still add one
\* is counted as if it had.
Rotations(t) ==
    /\ refreshTokens[t].state # "revoked" => Successors(parent, t) = {}
    /\ IsFiniteSet(Successors(parent, t))
    /\ Cardinality(Successors(parent, t)) + Cardinality(Rotating(req, t))
         <= Cardinality(Requests)

\* The inductive invariant of the lineage.
LineageInv ==
    /\ parent \in [Tokens -> Maybe(Tokens)]
    /\ \A t \in Tokens : Fresh(t) /\ Rotations(t)
    /\ \A r \in Requests : req[r].pc \in Anew => req[r].token = None
----------------------------------------------------------------------------
\* The requests that may rotate a token can be counted.
LEMMA RotatingCounts ==
  ASSUME NEW q, NEW t
  PROVE  /\ IsFiniteSet(Rotating(q, t)) /\ Cardinality(Rotating(q, t)) \in Nat
         /\ Cardinality(Requests) \in Nat
         /\ Cardinality(Rotating(q, t)) <= Cardinality(Requests)
         /\ \A r \in Rotating(q, t) :
              Cardinality(Rotating(q, t) \ {r}) = Cardinality(Rotating(q, t)) - 1
<1>1. Rotating(q, t) \in SUBSET Requests
  BY DEF Rotating
<1> QED BY <1>1, Pool

\* Who issues anew came by a lookup that took up no token, and who is about to
\* rotate a token took it up while it was valid.
LEMMA TakesUp ==
  ASSUME TypeOK, RememberedRows, NEW r \in Requests, Step(r),
         req[r].pc \in Anew => req[r].token = None
  PROVE  /\ \A s \in Requests \ {r} : req'[s] = req[s]
         /\ req'[r].pc \in Anew => req'[r].token = None
         /\ req'[r].pc \in {"refresh.user", "refresh.rotate"} =>
              \/ /\ req[r].pc \in {"refresh.user", "refresh.rotate"}
                 /\ req'[r].token = req[r].token
              \/ refreshTokens[req'[r].token].state = "valid" /\ refreshTokens' = refreshTokens
<1>1. CASE Begins(r)
  BY <1>1, StepMoves DEF Begins, Anew
<1>2. CASE GoesOn(r)
  BY <1>2, StepMoves DEF GoesOn, Anew
<1>3. CASE Ends(r)
  BY <1>3, StepMoves DEF Ends, NoRequest, Anew
<1>4. CASE Register(r) /\ req' = req
  BY <1>4
<1> QED BY <1>1, <1>2, <1>3, <1>4, StepMoves

\* A request that rotates t and did not before found it valid.
LEMMA RotatingGrows ==
  ASSUME TypeOK, RememberedRows, LineageInv, NEW r \in Requests, Step(r), NEW t \in Tokens
  PROVE  \/ Rotating(req', t) \subseteq Rotating(req, t)
         \/ refreshTokens[t].state = "valid"
<1>1. req[r].pc \in Anew => req[r].token = None
  BY DEF LineageInv
<1> QED BY <1>1, TakesUp DEF Rotating

\* No step but Rotate gives a token a parent; revoked tokens stay revoked, and
\* tokens not issued are not revoked.
LEMMA TokensKept ==
  ASSUME TypeOK, NEW r \in Requests, Step(r), ~Rotate(r), NEW t \in Tokens,
         RememberedRows, Fresh(t)
  PROVE  /\ refreshTokens'[t].state # "revoked" => refreshTokens[t].state # "revoked"
         /\ refreshTokens'[t].user = None => refreshTokens'[t].state # "revoked"
         /\ IssuedNow(t) => req[r].pc \in Anew
<1> USE DEF Fresh, Issued, IssuedNow, Opens
<1>0. Remembers(req[r])
  BY DEF RememberedRows
<1>1. CASE Opens(t)
  <2>1. req[r].pc \in Opening /\ refreshTokens'[t] = NewSession(req[r].user)
        /\ req[r].user \in UserIds
    BY <1>1, TokenMoves
  <2>2. req[r].pc \in Anew
    BY <1>1, <2>1, TokenKinds
    DEF LoginIssue, GoogleIssue, RevokeExpired, Logout, RevokeFamily, LogoutAll,
        ResetCommit, At, Anew, Opening
  <2> QED BY <1>1, <2>1, <2>2, NoneAssumption DEF NewSession
<1>2. CASE ~Opens(t)
  <2>1. Closes(r, t) => refreshTokens[t].user # None
    BY <1>0, NoneAssumption DEF Closes, Closing, Sweeping, Remembers
  <2> QED BY <1>2, <2>1, TokenMoves
<1> QED BY <1>1, <1>2

\* The step in which old is rotated into new.
LEMMA RotateLineage ==
  ASSUME TypeOK, RememberedRows, LineageInv, NEW r \in Requests, Rotate(r), ObserveIssue(r)
  PROVE  /\ parent' \in [Tokens -> Maybe(Tokens)]
         /\ \A t \in Tokens : Fresh(t)' /\ Rotations(t)'
<1>0. /\ parent \in [Tokens -> Maybe(Tokens)]
      /\ refreshTokens \in [Tokens -> TokenRow]
      /\ req \in [Requests -> Request]
      /\ Remembers(req[r])
  BY DEF LineageInv, TypeOK, RememberedRows
<1> DEFINE old == req[r].token
<1>1. /\ old \in Tokens /\ req[r].pc = "refresh.rotate"
      /\ refreshTokens[old].user # None
      /\ req[r].user # None
  BY <1>0, NoneAssumption DEF Rotate, At, Remembers
<1>2. PICK new \in Tokens :
        /\ refreshTokens[new].user = None
        /\ refreshTokens' = [Revoke(old) EXCEPT ![new] = NewSession(req[r].user)]
  BY DEF Rotate, Issued
<1>3. new # old
  BY <1>1, <1>2
<1>4. \A t \in Tokens : refreshTokens'[t] =
        IF t = new THEN NewSession(req[r].user)
        ELSE IF t = old THEN [refreshTokens[t] EXCEPT !.state = "revoked"]
        ELSE refreshTokens[t]
  BY <1>0, <1>1, <1>2, <1>3 DEF Revoke
<1>12. ASSUME NEW t \in Tokens
       PROVE  refreshTokens'[t].user = IF t = new THEN req[r].user ELSE refreshTokens[t].user
  <2>1. refreshTokens[t] \in TokenRow
    BY <1>0
  <2>2. /\ NewSession(req[r].user).user = req[r].user
        /\ [refreshTokens[t] EXCEPT !.state = "revoked"].user = refreshTokens[t].user
    BY <2>1 DEF NewSession, TokenRow
  <2> QED BY <1>4, <2>2
<1>5. \A t \in Tokens : IssuedNow(t) <=> t = new
  BY <1>1, <1>2, <1>12 DEF IssuedNow, Issued
<1>6. \A t \in Tokens : parent'[t] = IF t = new THEN old ELSE parent[t]
  BY <1>5 DEF ObserveIssue
<1>7. parent' \in [Tokens -> Maybe(Tokens)]
  BY <1>0, <1>1, <1>6 DEF ObserveIssue, Maybe
<1>8. parent[new] = None /\ refreshTokens[new].state # "revoked"
  BY <1>2 DEF LineageInv, Fresh, Issued
<1>9. \A t \in Tokens : Rotating(req', t) = Rotating(req, t) \ {r}
  BY <1>0 DEF Rotating, Rotate, Respond, NoRequest
<1>10. ASSUME NEW t \in Tokens PROVE Fresh(t)'
  <2>1. refreshTokens[t].user # None => refreshTokens'[t].user # None
    BY <1>1, <1>12
  <2>2. t # new /\ t # old => refreshTokens'[t] = refreshTokens[t] /\ parent'[t] = parent[t]
    BY <1>4, <1>6
  <2>3. refreshTokens'[new].user # None /\ refreshTokens'[old].user # None
    BY <1>1, <1>3, <1>12
  <2> QED BY <2>1, <2>2, <2>3 DEF LineageInv, Fresh, Issued
<1>11. ASSUME NEW t \in Tokens PROVE Rotations(t)'
  <2>0. /\ Rotations(t)
        /\ Rotations(new)
    BY DEF LineageInv
  <2>1. CASE t = old
    <3>1. Successors(parent', t) = Successors(parent, t) \cup {new}
      BY <1>0, <1>6, <2>1 DEF Successors
    <3>2. new \notin Successors(parent, t)
      BY <1>8, NoneAssumption DEF Successors
    <3>3. /\ IsFiniteSet(Successors(parent', t))
          /\ Cardinality(Successors(parent', t)) = Cardinality(Successors(parent, t)) + 1
          /\ Cardinality(Successors(parent, t)) \in Nat
      BY <2>0, <3>1, <3>2, FS_AddElement, FS_CardinalityType DEF Rotations
    <3>4. r \in Rotating(req, t)
      BY <1>1, <2>1 DEF Rotating
    <3>5. Cardinality(Rotating(req', t)) = Cardinality(Rotating(req, t)) - 1
      BY <1>9, <3>4, RotatingCounts
    <3>6. refreshTokens'[t].state = "revoked"
      BY <1>0, <1>3, <1>4, <2>1 DEF TokenRow
    <3> QED BY <2>0, <3>3, <3>5, <3>6, RotatingCounts DEF Rotations
  <2>2. CASE t # old
    <3>1. Successors(parent', t) = Successors(parent, t)
      BY <1>1, <1>6, <1>8, <2>2, NoneAssumption DEF Successors
    <3>2. refreshTokens'[t].state # "revoked" => refreshTokens[t].state # "revoked"
      BY <1>4, <1>8, <2>2
    <3>3. Cardinality(Rotating(req', t)) <= Cardinality(Rotating(req, t))
      <4>1. Rotating(req', t) \subseteq Rotating(req, t)
        BY <1>9
      <4> QED BY <4>1, RotatingCounts, FS_Subset
    <3> QED BY <2>0, <3>1, <3>2, <3>3, RotatingCounts, FS_CardinalityType DEF Rotations
  <2> QED BY <2>1, <2>2
<1> QED BY <1>7, <1>10, <1>11

\* Every other step of a request leaves the lineage as it is.
LEMMA OtherLineage ==
  ASSUME TypeOK, RememberedRows, LineageInv, NEW r \in Requests, Step(r), ~Rotate(r),
         ObserveIssue(r)
  PROVE  parent' = parent /\ \A t \in Tokens : Fresh(t)' /\ Rotations(t)'
<1>1. \A t \in Tokens : Fresh(t) /\ Rotations(t)
  BY DEF LineageInv
<1>2. \A t \in Tokens : parent'[t] = parent[t]
  <2>1. ASSUME NEW t \in Tokens, IssuedNow(t) PROVE req[r].token = None /\ parent[t] = None
    BY <1>1, <2>1, TokensKept DEF LineageInv, Fresh, IssuedNow
  <2> QED BY <2>1 DEF ObserveIssue
<1>3. parent' = parent
  <2>1. DOMAIN parent' = Tokens /\ DOMAIN parent = Tokens
    BY DEF ObserveIssue, LineageInv
  <2>2. parent' = [t \in Tokens |-> parent'[t]] /\ parent = [t \in Tokens |-> parent[t]]
    BY DEF ObserveIssue, LineageInv
  <2> QED BY <1>2, <2>2
<1>4. ASSUME NEW t \in Tokens PROVE Fresh(t)' /\ Rotations(t)'
  <2>0. /\ refreshTokens'[t].state # "revoked" => refreshTokens[t].state # "revoked"
        /\ refreshTokens'[t].user = None => refreshTokens'[t].state # "revoked"
        /\ refreshTokens[t].user # None => refreshTokens'[t].user = refreshTokens[t].user
    BY <1>1, TokensKept, RowsStay
  <2>1. Fresh(t)'
    BY <1>1, <1>3, <2>0 DEF Fresh, Issued
  <2>2. CASE Rotating(req', t) \subseteq Rotating(req, t)
    <3>1. Cardinality(Rotating(req', t)) <= Cardinality(Rotating(req, t))
      BY <2>2, RotatingCounts, FS_Subset
    <3> QED
      BY <1>1, <1>3, <2>0, <2>1, <3>1, RotatingCounts, FS_CardinalityType DEF Rotations
  <2>3. CASE refreshTokens[t].state = "valid"
    <3>1. Successors(parent, t) = {}
      BY <1>1, <2>3 DEF Rotations
    <3> QED BY <1>3, <2>1, <3>1, RotatingCounts, FS_EmptySet DEF Rotations
  <2> QED BY <2>2, <2>3, RotatingGrows
<1> QED BY <1>3, <1>4

\* A request that is aborted holds no token any more; nothing else changes.
LEMMA AbortLineage ==
  ASSUME TypeOK, LineageInv, NEW r \in Requests, Abort(r), parent' = parent
  PROVE  LineageInv'
<1>0. /\ req'[r].pc = "idle" /\ \A s \in Requests \ {r} : req'[s] = req[s]
      /\ refreshTokens' = refreshTokens
  BY Responded DEF Abort
<1>1. ASSUME NEW t \in Tokens PROVE Rotations(t)'
  <2>1. Rotating(req', t) \subseteq Rotating(req, t)
    BY <1>0 DEF Rotating
  <2>2. Cardinality(Rotating(req', t)) <= Cardinality(Rotating(req, t))
    BY <2>1, RotatingCounts, FS_Subset
  <2> QED
    BY <1>0, <2>2, RotatingCounts, FS_CardinalityType DEF LineageInv, Rotations
<1> QED BY <1>0, <1>1 DEF LineageInv, Fresh, Issued, Anew

\* Time and edits revoke nothing and issue nothing.
LEMMA EnvironmentLineage ==
  ASSUME TypeOK, LineageInv, Environment, parent' = parent
  PROVE  LineageInv'
<1>1. \A t \in Tokens : Fresh(t)' /\ Rotations(t)'
  BY EnvironmentKeeps DEF LineageInv, Fresh, Issued, Rotations
<1> QED BY <1>1, EnvironmentKeeps DEF LineageInv

LEMMA StutterLineage ==
  ASSUME LineageInv, UNCHANGED sessionVars PROVE LineageInv'
BY DEF LineageInv, sessionVars, vars, lineageVars, Fresh, Issued, Rotations, Successors,
       Rotating, Anew

\* No token is issued at first.
LEMMA InitialLineage == SessionsInit => LineageInv
<1> SUFFICES ASSUME SessionsInit PROVE LineageInv
  OBVIOUS
<1>1. \A t \in Tokens : Successors(parent, t) = {} /\ Rotating(req, t) = {}
  BY NoneAssumption DEF SessionsInit, Init, Successors, Rotating, NoRequest
<1>2. /\ parent \in [Tokens -> Maybe(Tokens)]
      /\ \A t \in Tokens : Fresh(t)
      /\ \A r \in Requests : req[r].pc \in Anew => req[r].token = None
  BY DEF SessionsInit, Init, Maybe, Fresh, NoRequest
<1>3. \A t \in Tokens : Rotations(t)
  <2>1. /\ IsFiniteSet({}) /\ Cardinality({}) = 0
        /\ Cardinality(Requests) \in Nat
    BY FS_EmptySet, RequestsAssumption, FS_CardinalityType
  <2> QED BY <1>1, <2>1 DEF Rotations
<1> QED BY <1>2, <1>3 DEF LineageInv

\* Every step of Sessions keeps the lineage.
LEMMA LineageStep ==
  ASSUME TypeOK, RememberedRows, LineageInv, [SessionsNext]_sessionVars
  PROVE  TypeOK' /\ RememberedRows' /\ LineageInv'
<1>1. ASSUME NEW r \in Requests, Step(r), ObserveIssue(r)
      PROVE  TypeOK' /\ RememberedRows' /\ LineageInv'
  <2>1. TypeOK' /\ RememberedRows'
    BY <1>1, StepType, StepRemembers
  <2>2. parent' \in [Tokens -> Maybe(Tokens)] /\ \A t \in Tokens : Fresh(t)' /\ Rotations(t)'
    BY <1>1, RotateLineage, OtherLineage DEF LineageInv
  <2>3. \A s \in Requests : req'[s].pc \in Anew => req'[s].token = None
    BY <1>1, TakesUp DEF LineageInv
  <2> QED BY <2>1, <2>2, <2>3 DEF LineageInv
<1>2. ASSUME NEW r \in Requests, Abort(r), UNCHANGED <<generation, since, parent>>
      PROVE  TypeOK' /\ RememberedRows' /\ LineageInv'
  BY <1>2, AbortInvariant, AbortLineage
<1>3. ASSUME Environment, UNCHANGED lineageVars
      PROVE  TypeOK' /\ RememberedRows' /\ LineageInv'
  BY <1>3, EnvironmentInvariant, EnvironmentLineage DEF lineageVars
<1>4. ASSUME UNCHANGED sessionVars PROVE TypeOK' /\ RememberedRows' /\ LineageInv'
  BY <1>4, StutterLineage
  DEF sessionVars, vars, TypeOK, RememberedRows, OwnedTokens, Remembers
<1> QED BY <1>1, <1>2, <1>3, <1>4 DEF SessionsNext

\* Types, remembered rows and lineage, in every reachable state.
LEMMA LineageInvariance == SessionsSpec => [](TypeOK /\ RememberedRows /\ LineageInv)
<1>1. SessionsInit => TypeOK /\ RememberedRows /\ LineageInv
  BY InitialType, InitialRemembered, InitialLineage DEF SessionsInit
<1>2. TypeOK /\ RememberedRows /\ LineageInv /\ [SessionsNext]_sessionVars
        => (TypeOK /\ RememberedRows /\ LineageInv)'
  BY LineageStep
<1> QED BY <1>1, <1>2, PTL DEF SessionsSpec

\* Whatever the interleaving of auth.service.ts:142-211, a token has no more
\* successors than there are requests: from the first rotation on, every new
\* lookup finds it revoked.
THEOREM RotationsAlwaysBounded == SessionsSpec => []RotationsBounded
<1>1. ASSUME LineageInv, NEW t \in Tokens
      PROVE  Cardinality({c \in Tokens : parent[c] = t}) <= Cardinality(Requests)
  <2>1. Cardinality(Successors(parent, t)) <= Cardinality(Requests)
    <3>1. /\ Cardinality(Successors(parent, t)) \in Nat
          /\ Cardinality(Successors(parent, t)) + Cardinality(Rotating(req, t))
               <= Cardinality(Requests)
      BY <1>1, FS_CardinalityType DEF LineageInv, Rotations
    <3> QED BY <3>1, RotatingCounts
  <2> QED BY <2>1 DEF Successors
<1>2. LineageInv => RotationsBounded
  BY <1>1 DEF RotationsBounded
<1> QED BY <1>2, LineageInvariance, PTL
----------------------------------------------------------------------------
(* What a sweep leaves of an account's sessions                            *)

\* The requests on their way to a session of u that began before its last sweep.
Issuing == {"login.issue", "refresh.user", "refresh.rotate", "google.link", "google.issue"}
Belated(q, s, g, u) ==
    {r \in Requests : q[r].user = u /\ q[r].pc \in Issuing /\ s[r] < g[u]}

\* The survivors and the requests that may yet add one, together, are fewer than
\* the requests: the one that swept is neither.
SurvivorCount(u) ==
    /\ IsFiniteSet(Survivors(u))
    /\ Cardinality(Survivors(u)) + Cardinality(Belated(req, seen, generation, u))
         < Cardinality(Requests)

\* The inductive invariant of sweeps.
SweepInv ==
    /\ generation \in [UserIds -> Nat]
    /\ seen \in [Requests -> Nat]
    /\ since \in [Tokens -> Nat]
    /\ \A u \in UserIds : SurvivorCount(u) /\ (~Present(u) => generation[u] = 0)
    /\ \A r \in Requests : req[r].pc \in {"idle", "google.create"} => seen[r] = 0

LEMMA BelatedSet == ASSUME NEW q, NEW s, NEW g, NEW u
                    PROVE  Belated(q, s, g, u) \in SUBSET Requests
BY DEF Belated

\* One more element is at most one more.
LEMMA AddOne ==
  ASSUME NEW S, NEW x, IsFiniteSet(S)
  PROVE  IsFiniteSet(S \cup {x}) /\ Cardinality(S \cup {x}) <= Cardinality(S) + 1
<1>1. /\ IsFiniteSet(S \cup {x})
      /\ Cardinality(S \cup {x}) = IF x \in S THEN Cardinality(S) ELSE Cardinality(S) + 1
  BY FS_AddElement
<1>2. Cardinality(S) \in Nat
  BY FS_CardinalityType
<1> QED BY <1>1, <1>2

\* Who sweeps an account has its id, and is done with it.
LEMMA SweepEnds ==
  ASSUME TypeOK, RememberedRows, NEW r \in Requests, Step(r), Sweeps(r)
  PROVE  /\ req[r].user \in UserIds /\ Present(req[r].user)
         /\ req'[r] = NoRequest
         /\ refreshTokens' = RevokeAllOf(req[r].user)
<1>1. Remembers(req[r])
  BY DEF RememberedRows
<1>2. RevokeFamily(r) \/ LogoutAll(r) \/ ResetCommit(r)
  BY DEF Sweeps, Step, Register, LoginLookup, RecordFailedAttempt, LockAccount, LoginIssue,
         RefreshLookup, RevokeExpired, RefreshUser, Rotate, LogoutAuthorize,
         Logout, LogoutAllAuthorize, GoogleLookup, GoogleCreate, GoogleLink, GoogleIssue,
         ForgotLookup, ForgotCreate, ForgotMail, ResetLookup, ResetUser, Calls, At
<1>3. refreshTokens' = RevokeAllOf(req[r].user) /\ Respond(r)
  BY <1>2 DEF RevokeFamily, LogoutAll, ResetCommit
<1> QED BY <1>1, <1>3, Responded DEF Sweeps, Remembers, Present

\* A request that began before a sweep went on from there; none joins later.
LEMMA BelatedMoves ==
  ASSUME TypeOK, RememberedRows, SweepInv, NEW r \in Requests, Step(r),
         ObserveSweep(r), ObserveBegin(r),
         NEW u \in UserIds, ~(Sweeps(r) /\ req[r].user = u)
  PROVE  /\ generation'[u] = generation[u]
         /\ Belated(req', seen', generation', u) \subseteq Belated(req, seen, generation, u)
<1>0. /\ \A s \in Requests \ {r} : req'[s] = req[s] /\ seen'[s] = seen[s]
      /\ seen'[r] = IF BeginsIssue(r) THEN generation[req'[r].user]
                    ELSE IF req'[r].pc = "idle" THEN 0 ELSE seen[r]
  BY StepMoves DEF ObserveBegin, SweepInv
<1>1. generation'[u] = generation[u]
  BY DEF ObserveSweep, SweepInv
<1>2. ASSUME r \in Belated(req', seen', generation', u)
      PROVE  r \in Belated(req, seen, generation, u)
  <2>1. req'[r].user = u /\ req'[r].pc \in Issuing /\ seen'[r] < generation[u]
    BY <1>1, <1>2 DEF Belated
  <2>2. ~BeginsIssue(r) /\ seen'[r] = seen[r]
    BY <1>0, <2>1 DEF SweepInv, Issuing
  <2>3. CASE Begins(r)
    BY <2>1, <2>2, <2>3 DEF Begins, BeginsIssue, At, Issuing
  <2>4. CASE GoesOn(r)
    <3>1. CASE req[r].pc = "google.create"
      <4>1. seen[r] = 0 /\ generation[u] = 0
        BY <2>1, <2>4, <3>1 DEF GoesOn, SweepInv
      <4> QED BY <2>1, <2>2, <4>1
    <3>2. CASE req[r].pc # "google.create"
      BY <2>1, <2>2, <2>4, <3>2 DEF GoesOn, Issuing, Belated
    <3> QED BY <3>1, <3>2
  <2>5. CASE Ends(r)
    BY <2>1, <2>5 DEF Ends, NoRequest, Issuing
  <2>6. CASE Register(r) /\ req' = req
    BY <2>1, <2>6 DEF Register, Calls, At, Issuing
  <2> QED BY <2>3, <2>4, <2>5, <2>6, StepMoves
<1>3. ASSUME NEW s \in Requests, s # r, s \in Belated(req', seen', generation', u)
      PROVE  s \in Belated(req, seen, generation, u)
  BY <1>0, <1>1, <1>3 DEF Belated
<1> QED BY <1>1, <1>2, <1>3 DEF Belated

\* A survivor is new only if a belated request issued it.
LEMMA SurvivorMoves ==
  ASSUME TypeOK, RememberedRows, SweepInv, NEW r \in Requests, Step(r),
         ObserveSweep(r), ObserveBegin(r), ObserveIssue(r),
         NEW u \in UserIds, ~(Sweeps(r) /\ req[r].user = u)
  PROVE  SurvivorCount(u)'
<1> DEFINE old == Belated(req, seen, generation, u)
           new == Belated(req, seen, generation, u)'
<1>0. /\ IsFiniteSet(Survivors(u)) /\ Cardinality(Survivors(u)) \in Nat
      /\ Cardinality(Survivors(u)) + Cardinality(old) < Cardinality(Requests)
  BY FS_CardinalityType DEF SweepInv, SurvivorCount
<1>1. new \subseteq old /\ generation'[u] = generation[u]
  BY BelatedMoves DEF Belated
<1>2. /\ Cardinality(new) <= Cardinality(old) /\ Cardinality(new) \in Nat
      /\ Cardinality(old) \in Nat /\ Cardinality(Requests) \in Nat
      /\ old \in SUBSET Requests
  <2> HIDE DEF new
  <2> QED BY <1>1, BelatedSet, Pool
<1>3. ASSUME NEW t \in Survivors(u)', ~IssuedNow(t) PROVE t \in Survivors(u)
  <2>1. t \in Tokens /\ refreshTokens'[t].user = u /\ Open(t)' /\ since'[t] < generation'[u]
    BY DEF Survivors
  <2>2. since'[t] = since[t] /\ refreshTokens[t].user = u /\ Open(t)
    BY <1>3, <2>1, TokenMoves DEF ObserveIssue, IssuedNow, Opens, Open, Issued
  <2> QED BY <1>1, <2>1, <2>2 DEF Survivors
<1> HIDE DEF new
<1>4. CASE \E t \in Survivors(u)' : IssuedNow(t)
  <2>1. PICK t \in Survivors(u)' : IssuedNow(t)
    BY <1>4
  <2>2. t \in Tokens /\ since'[t] = seen[r] /\ refreshTokens'[t].user = u
        /\ seen[r] < generation[u]
    BY <1>1, <2>1 DEF Survivors, ObserveIssue
  <2>3. req[r].user = u /\ req[r].pc \in Issuing /\ req'[r] = NoRequest
    <3>1. t \in Tokens /\ Opens(t)
      BY <2>1, <2>2 DEF IssuedNow, Opens
    <3>2. /\ refreshTokens'[t] = NewSession(req[r].user)
          /\ req[r].pc \in Opening /\ req'[r] = NoRequest
      BY <3>1, TokenMoves
    <3> QED BY <2>2, <3>2 DEF NewSession, Opening, Issuing
  <2>4. r \in old /\ r \notin new
    BY <2>2, <2>3 DEF Belated, NoRequest, Issuing, new
  <2>5. new \subseteq old \ {r}
    BY <1>1, <2>4
  <2>6. Cardinality(new) <= Cardinality(old) - 1
    <3>1. Cardinality(old \ {r}) = Cardinality(old) - 1
      BY <1>2, <2>4, Pool
    <3>2. Cardinality(new) <= Cardinality(old \ {r})
      <4>1. old \ {r} \in SUBSET Requests
        BY <1>2
      <4> HIDE DEF old
      <4> QED BY <2>5, <4>1, Pool
    <3> QED BY <3>1, <3>2
  <2>7. Survivors(u)' \subseteq Survivors(u) \cup {t}
    BY <1>3, <2>1, <2>2, TokenMoves DEF Survivors, IssuedNow, Opens
  <2>8. /\ IsFiniteSet(Survivors(u) \cup {t})
        /\ Cardinality(Survivors(u) \cup {t}) <= Cardinality(Survivors(u)) + 1
    BY <1>0, AddOne
  <2>9. /\ IsFiniteSet(Survivors(u)')
        /\ Cardinality(Survivors(u)') <= Cardinality(Survivors(u)) + 1
        /\ Cardinality(Survivors(u)') \in Nat
    BY <2>7, <2>8, <1>0, FS_Subset, FS_CardinalityType
  <2> QED BY <1>0, <1>2, <2>6, <2>9 DEF SurvivorCount, new
<1>5. CASE ~\E t \in Survivors(u)' : IssuedNow(t)
  <2>1. Survivors(u)' \subseteq Survivors(u)
    BY <1>3, <1>5
  <2>2. /\ IsFiniteSet(Survivors(u)')
        /\ Cardinality(Survivors(u)') <= Cardinality(Survivors(u))
        /\ Cardinality(Survivors(u)') \in Nat
    BY <2>1, <1>0, FS_Subset, FS_CardinalityType
  <2> QED BY <1>0, <1>2, <2>2 DEF SurvivorCount, new
<1> QED BY <1>4, <1>5

\* A sweep revokes every token of the account; the request that swept is done.
LEMMA SweepCounts ==
  ASSUME TypeOK, RememberedRows, SweepInv, NEW r \in Requests, Step(r), Sweeps(r),
         NEW u \in UserIds, req[r].user = u
  PROVE  SurvivorCount(u)'
<1>1. refreshTokens' = RevokeAllOf(u) /\ req'[r] = NoRequest
  BY SweepEnds
<1>2. Survivors(u)' = {}
  BY <1>1 DEF Survivors, Open, RevokeAllOf, TypeOK, TokenRow
<1>3. r \notin Belated(req, seen, generation, u)'
  BY <1>1 DEF Belated, NoRequest, Issuing
<1>4. Cardinality(Belated(req, seen, generation, u)') < Cardinality(Requests)
      /\ Cardinality(Belated(req, seen, generation, u)') \in Nat
  <2> DEFINE new == Belated(req', seen', generation', u)
  <2>1. new \in SUBSET Requests /\ r \notin new
    BY <1>3, BelatedSet DEF Belated
  <2> HIDE DEF new
  <2>2. Cardinality(new) < Cardinality(Requests) /\ Cardinality(new) \in Nat
    BY <2>1, Pool
  <2> QED BY <2>2 DEF new, Belated
<1> QED BY <1>2, <1>4, FS_EmptySet DEF SurvivorCount

\* Every step of a request keeps the count, for every account.
LEMMA SweepStep ==
  ASSUME TypeOK, RememberedRows, SweepInv, NEW r \in Requests, Step(r),
         ObserveSweep(r), ObserveBegin(r), ObserveIssue(r)
  PROVE  SweepInv'
<1>0. /\ generation \in [UserIds -> Nat] /\ seen \in [Requests -> Nat]
      /\ since \in [Tokens -> Nat]
  BY DEF SweepInv
<1>1. generation' \in [UserIds -> Nat]
  BY <1>0, SweepEnds DEF ObserveSweep
<1>2. seen' \in [Requests -> Nat]
  <2>1. BeginsIssue(r) => req'[r].user \in UserIds
    <3>1. Remembers(req[r])'
      BY OwnRequest
    <3> QED BY <3>1 DEF BeginsIssue, Remembers
  <2> QED BY <1>0, <2>1 DEF ObserveBegin
<1>3. since' \in [Tokens -> Nat]
  BY <1>0 DEF ObserveIssue
<1>4. \A u \in UserIds : SurvivorCount(u)'
  BY SurvivorMoves, SweepCounts
<1>5. ASSUME NEW u \in UserIds, ~Present(u)' PROVE generation'[u] = 0
  <2>1. ~Present(u)
    BY <1>5, RowsStay DEF Present
  <2>2. ~(Sweeps(r) /\ req[r].user = u)
    BY <2>1, SweepEnds
  <2> QED BY <2>1, <2>2, BelatedMoves DEF SweepInv
<1>6. ASSUME NEW s \in Requests, req'[s].pc \in {"idle", "google.create"}
      PROVE  seen'[s] = 0
  <2>1. CASE s # r
    BY <1>0, <1>6, <2>1, StepMoves DEF ObserveBegin, SweepInv
  <2>2. CASE s = r
    <3>1. seen'[r] = IF req'[r].pc = "idle" THEN 0 ELSE seen[r]
      BY <1>0, <1>6, <2>2 DEF ObserveBegin, BeginsIssue
    <3>2. req'[r].pc = "google.create" => seen[r] = 0
      <4>1. req'[r].pc = "google.create" => Begins(r) \/ req' = req
        BY StepMoves DEF GoesOn, Ends, NoRequest
      <4> QED BY <4>1 DEF Begins, SweepInv
    <3> QED BY <1>6, <2>2, <3>1, <3>2
  <2> QED BY <2>1, <2>2
<1> QED BY <1>1, <1>2, <1>3, <1>4, <1>5, <1>6 DEF SweepInv

\* Requests that die and rows that expire leave no more than there was.
LEMMA SweepElsewhere ==
  ASSUME TypeOK, SweepInv,
         UNCHANGED <<generation, since>>, seen' \in [Requests -> Nat],
         \A r \in Requests : \/ req'[r] = NoRequest /\ seen'[r] = 0
                             \/ req'[r] = req[r] /\ seen'[r] = seen[r],
         \A u \in UserIds : users'[u].email = users[u].email,
         \A t \in Tokens : /\ refreshTokens'[t].user = refreshTokens[t].user
                           /\ refreshTokens'[t].state = "revoked"
                                <=> refreshTokens[t].state = "revoked"
  PROVE  SweepInv'
<1>1. ASSUME NEW u \in UserIds PROVE SurvivorCount(u)'
  <2>1. Survivors(u)' = Survivors(u)
    BY DEF Survivors, Open, Issued
  <2>2. Belated(req', seen', generation', u) \subseteq Belated(req, seen, generation, u)
    BY DEF Belated, NoRequest, Issuing
  <2>3. /\ Cardinality(Belated(req', seen', generation', u))
             <= Cardinality(Belated(req, seen, generation, u))
        /\ Cardinality(Belated(req, seen, generation, u)) \in Nat
        /\ Cardinality(Belated(req', seen', generation', u)) \in Nat
        /\ Cardinality(Requests) \in Nat
    BY <2>2, BelatedSet, Pool
  <2>4. /\ IsFiniteSet(Survivors(u)) /\ Cardinality(Survivors(u)) \in Nat
        /\ Cardinality(Survivors(u)) + Cardinality(Belated(req, seen, generation, u))
             < Cardinality(Requests)
    BY FS_CardinalityType DEF SweepInv, SurvivorCount
  <2>5. Cardinality(Survivors(u)) + Cardinality(Belated(req', seen', generation', u))
          < Cardinality(Requests)
    BY <2>3, <2>4
  <2> QED BY <2>1, <2>4, <2>5 DEF SurvivorCount, Belated
<1> QED BY <1>1 DEF SweepInv, Present, NoRequest

\* Nothing has been swept at first.
LEMMA SweepStart == SessionsInit => SweepInv
<1> SUFFICES ASSUME SessionsInit PROVE SweepInv
  OBVIOUS
<1>1. \A u \in UserIds : Survivors(u) = {} /\ Belated(req, seen, generation, u) = {}
  BY DEF SessionsInit, Survivors, Belated
<1>2. /\ IsFiniteSet({}) /\ Cardinality({}) = 0
      /\ Cardinality(Requests) \in Nat /\ Cardinality(Requests) # 0
  BY FS_EmptySet, RequestsAssumption, FS_CardinalityType
<1>3. \A u \in UserIds : SurvivorCount(u)
  BY <1>1, <1>2 DEF SurvivorCount
<1> QED BY <1>3 DEF SessionsInit, SweepInv

\* The same in every reachable state.
LEMMA SweepInvariance == SessionsSpec => [](TypeOK /\ LineageInv /\ SweepInv)
<1> DEFINE Inv == TypeOK /\ RememberedRows /\ LineageInv /\ SweepInv
<1>1. SessionsInit => Inv
  BY InitialType, InitialRemembered, InitialLineage, SweepStart DEF SessionsInit
<1>2. Inv /\ [SessionsNext]_sessionVars => Inv'
  <2> SUFFICES ASSUME Inv, [SessionsNext]_sessionVars PROVE SweepInv'
    BY LineageStep
  <2>1. ASSUME NEW r \in Requests, Step(r), ObserveSweep(r), ObserveBegin(r), ObserveIssue(r)
        PROVE  SweepInv'
    BY <2>1, SweepStep
  <2>2. ASSUME NEW r \in Requests, Abort(r), ObserveBegin(r),
               UNCHANGED <<generation, since, parent>>
        PROVE  SweepInv'
    <3>1. /\ req'[r] = NoRequest /\ \A s \in Requests \ {r} : req'[s] = req[s]
          /\ users' = users /\ refreshTokens' = refreshTokens
      BY <2>2, Responded DEF Abort
    <3>2. ~BeginsIssue(r)
      BY <2>2 DEF Abort, BeginsIssue
    <3>3. seen' = [seen EXCEPT ![r] = 0] /\ seen \in [Requests -> Nat]
      BY <2>2, <3>1, <3>2 DEF ObserveBegin, NoRequest, SweepInv
    <3> QED BY <2>2, <3>1, <3>3, SweepElsewhere
  <2>3. ASSUME Environment, UNCHANGED lineageVars PROVE SweepInv'
    BY <2>3, EnvironmentKeeps, SweepElsewhere DEF lineageVars, SweepInv
  <2>4. ASSUME UNCHANGED sessionVars PROVE SweepInv'
    BY <2>4, SweepElsewhere DEF sessionVars, vars, lineageVars, SweepInv
  <2> QED BY <2>1, <2>2, <2>3, <2>4 DEF SessionsNext
<1> QED BY <1>1, <1>2, PTL DEF SessionsSpec

\* The tables, the requests and the lineage of tokens have their types.
THEOREM SessionsTypeCorrect == SessionsSpec => []SessionsTypeOK
<1>1. TypeOK /\ LineageInv /\ SweepInv => SessionsTypeOK
  BY DEF LineageInv, SweepInv, SessionsTypeOK
<1> QED BY <1>1, SweepInvariance, PTL

\* After logout-all, a replayed token or a password reset (auth.service.ts:164,
\* 228, 400), fewer sessions of before are left than there are requests: those
\* that requests past their lookup issue after the sweep.
THEOREM SurvivorsAlwaysBounded == SessionsSpec => []SurvivorsBounded
<1>1. ASSUME SweepInv, NEW u \in UserIds
      PROVE  Cardinality(Survivors(u)) < Cardinality(Requests)
  <2>1. /\ Cardinality(Survivors(u)) \in Nat
        /\ Cardinality(Survivors(u)) + Cardinality(Belated(req, seen, generation, u))
             < Cardinality(Requests)
    BY <1>1, FS_CardinalityType DEF SweepInv, SurvivorCount
  <2>2. Cardinality(Belated(req, seen, generation, u)) \in Nat
        /\ Cardinality(Requests) \in Nat
    BY BelatedSet, Pool
  <2> QED BY <2>1, <2>2
<1>2. SweepInv => SurvivorsBounded
  BY <1>1 DEF SurvivorsBounded
<1> QED BY <1>2, SweepInvariance, PTL
----------------------------------------------------------------------------
(* The refinement of SessionStore *)

\* What SessionStore sees of the table.
Holder == [t \in Tokens |-> refreshTokens[t].user]
Opened == {t \in Tokens : Open(t)}

\* A login, with a password or with Google, opens a session.
LEMMA IssueOpens ==
  ASSUME TypeOK, RememberedRows, NEW r \in Requests, LoginIssue(r) \/ GoogleIssue(r),
         parent' = parent
  PROVE  Store!OpenSession
<1>0. refreshTokens \in [Tokens -> TokenRow] /\ Remembers(req[r])
  BY DEF TypeOK, RememberedRows
<1>1. PICK new \in Tokens :
        /\ refreshTokens[new].user = None
        /\ refreshTokens' = [refreshTokens EXCEPT ![new] = NewSession(req[r].user)]
  BY DEF LoginIssue, GoogleIssue, Issued
<1>2. req[r].user \in UserIds
  BY <1>0 DEF LoginIssue, GoogleIssue, At, Remembers
<1>3. \A t \in Tokens : refreshTokens'[t] =
        IF t = new THEN NewSession(req[r].user) ELSE refreshTokens[t]
  BY <1>0, <1>1
<1>4. NewSession(req[r].user).user = req[r].user /\ NewSession(req[r].user).state = "valid"
  BY DEF NewSession
<1>5. Holder' = [Holder EXCEPT ![new] = req[r].user]
  BY <1>3, <1>4 DEF Holder
<1>6. Opened' = Opened \cup {new}
  BY <1>2, <1>3, <1>4, NoneAssumption DEF Opened, Open, Issued
<1> QED BY <1>1, <1>2, <1>5, <1>6 DEF Store!OpenSession, Store!Fresh, Holder, Opened

\* A refresh closes one session and opens its successor at once.
LEMMA RotateRotates ==
  ASSUME TypeOK, RememberedRows, LineageInv, NEW r \in Requests, Rotate(r), ObserveIssue(r)
  PROVE  Store!RotateSession
<1>0. refreshTokens \in [Tokens -> TokenRow] /\ Remembers(req[r])
  BY DEF TypeOK, RememberedRows
<1> DEFINE old == req[r].token
           user == req[r].user
<1>1. /\ old \in Tokens /\ user \in UserIds /\ refreshTokens[old].user = user
      /\ user # None
  BY <1>0, NoneAssumption DEF Rotate, At, Remembers
<1>2. PICK new \in Tokens :
        /\ refreshTokens[new].user = None
        /\ refreshTokens' = [Revoke(old) EXCEPT ![new] = NewSession(user)]
  BY DEF Rotate, Issued
<1>3. \A t \in Tokens : refreshTokens'[t] =
        IF t = new THEN NewSession(user)
        ELSE IF t = old THEN [refreshTokens[t] EXCEPT !.state = "revoked"]
        ELSE refreshTokens[t]
  BY <1>0, <1>1, <1>2 DEF Revoke
<1>4. ASSUME NEW t \in Tokens
      PROVE  /\ refreshTokens'[t].user = IF t = new THEN user ELSE refreshTokens[t].user
             /\ refreshTokens'[t].state = IF t = new THEN "valid"
                                          ELSE IF t = old THEN "revoked"
                                          ELSE refreshTokens[t].state
  <2>1. refreshTokens[t] \in TokenRow
    BY <1>0
  <2>2. /\ NewSession(user).user = user /\ NewSession(user).state = "valid"
        /\ [refreshTokens[t] EXCEPT !.state = "revoked"].user = refreshTokens[t].user
        /\ [refreshTokens[t] EXCEPT !.state = "revoked"].state = "revoked"
    BY <2>1 DEF NewSession, TokenRow
  <2> HIDE DEF old, user
  <2> QED BY <1>3, <2>2
<1>5. \A t \in Tokens : IssuedNow(t) <=> t = new
  BY <1>1, <1>2, <1>4 DEF IssuedNow, Issued
<1>6. parent' = [parent EXCEPT ![new] = old]
  BY <1>5 DEF ObserveIssue, LineageInv
<1>7. Holder' = [Holder EXCEPT ![new] = Holder[old]]
  BY <1>1, <1>4 DEF Holder
<1>8. Opened' = (Opened \ {old}) \cup {new}
  BY <1>1, <1>2, <1>4 DEF Opened, Open, Issued
<1>9. Holder[old] # None /\ Holder[new] = None
  BY <1>1, <1>2 DEF Holder
<1> HIDE DEF old, user
<1> QED BY <1>1, <1>2, <1>6, <1>7, <1>8, <1>9
        DEF Store!RotateSession, Store!Fresh, Holder, Opened

\* A logout, or the refresh of an expired token, closes one or none.
LEMMA RevokeCloses ==
  ASSUME TypeOK, RememberedRows, NEW r \in Requests, RevokeExpired(r) \/ Logout(r),
         parent' = parent
  PROVE  Store!CloseSession \/ UNCHANGED Store!storeVars
<1> DEFINE t == req[r].token
<1>1. /\ refreshTokens \in [Tokens -> TokenRow]
      /\ refreshTokens' = [refreshTokens EXCEPT ![t].state = "revoked"]
  BY DEF TypeOK, RevokeExpired, Logout, Revoke
<1>2. ASSUME NEW s \in Tokens
      PROVE  /\ refreshTokens'[s].user = refreshTokens[s].user
             /\ refreshTokens'[s].state = IF s = t THEN "revoked" ELSE refreshTokens[s].state
  BY <1>1 DEF TokenRow
<1>3. Holder' = Holder
  BY <1>2 DEF Holder
<1>4. Opened' = Opened \ {t}
  BY <1>2 DEF Opened, Open, Issued
<1> HIDE DEF t
<1>5. CASE t \in Opened
  BY <1>3, <1>4, <1>5 DEF Store!CloseSession, Holder, Opened
<1>6. CASE t \notin Opened
  BY <1>3, <1>4, <1>6 DEF Store!storeVars, Holder, Opened
<1> QED BY <1>5, <1>6

\* A replay, logout-all and a reset close all of one account.
LEMMA SweepCloses ==
  ASSUME TypeOK, RememberedRows, NEW r \in Requests,
         RevokeFamily(r) \/ LogoutAll(r) \/ ResetCommit(r), parent' = parent
  PROVE  Store!CloseAllOf
<1> DEFINE user == req[r].user
<1>1. /\ refreshTokens \in [Tokens -> TokenRow]
      /\ refreshTokens' = RevokeAllOf(user)
      /\ Remembers(req[r])
  BY DEF TypeOK, RememberedRows, RevokeFamily, LogoutAll, ResetCommit
<1>2. user \in UserIds
  BY <1>1 DEF RevokeFamily, LogoutAll, ResetCommit, At, Remembers
<1>3. ASSUME NEW s \in Tokens
      PROVE  /\ refreshTokens'[s].user = refreshTokens[s].user
             /\ refreshTokens'[s].state = IF refreshTokens[s].user = user THEN "revoked"
                                          ELSE refreshTokens[s].state
  BY <1>1 DEF RevokeAllOf, TokenRow
<1>4. Holder' = Holder
  BY <1>3 DEF Holder
<1>5. Opened' = {s \in Opened : Holder[s] # user}
  BY <1>3 DEF Opened, Open, Issued, Holder
<1> HIDE DEF user
<1> QED BY <1>2, <1>4, <1>5 DEF Store!CloseAllOf, Holder, Opened

\* Every step of the service is a step of the store, or none.
LEMMA ImplementsStep ==
  ASSUME TypeOK, RememberedRows, LineageInv, [SessionsNext]_sessionVars
  PROVE  [Store!StoreNext]_(Store!storeVars)
<1>1. ASSUME NEW r \in Requests, Step(r), ObserveIssue(r)
      PROVE  Store!StoreNext \/ UNCHANGED Store!storeVars
  <2>1. CASE Rotate(r)
    BY <1>1, <2>1, RotateRotates DEF Store!StoreNext
  <2>2. CASE ~Rotate(r)
    <3>0. parent' = parent
      BY <1>1, <2>2, OtherLineage
    <3>1. CASE refreshTokens' = refreshTokens
      BY <3>0, <3>1 DEF Store!storeVars, Open, Issued
    <3>2. CASE LoginIssue(r) \/ GoogleIssue(r)
      BY <3>0, <3>2, IssueOpens DEF Store!StoreNext
    <3>3. CASE RevokeExpired(r) \/ Logout(r)
      BY <3>0, <3>3, RevokeCloses DEF Store!StoreNext
    <3>4. CASE RevokeFamily(r) \/ LogoutAll(r) \/ ResetCommit(r)
      BY <3>0, <3>4, SweepCloses DEF Store!StoreNext
    <3> QED BY <1>1, <2>2, <3>1, <3>2, <3>3, <3>4, TokenKinds
  <2> QED BY <2>1, <2>2
<1>2. CASE \/ \E r \in Requests : Abort(r) /\ parent' = parent
           \/ UNCHANGED sessionVars
  BY <1>2 DEF Abort, sessionVars, vars, lineageVars, Store!storeVars, Open, Issued
<1>3. CASE Environment /\ UNCHANGED lineageVars
  <2>1. \A t \in Tokens : /\ refreshTokens'[t].user = refreshTokens[t].user
                          /\ refreshTokens'[t].state = "revoked"
                               <=> refreshTokens[t].state = "revoked"
    BY <1>3, EnvironmentKeeps
  <2>2. Holder' = Holder /\ Opened' = Opened
    BY <2>1 DEF Holder, Opened, Open, Issued
  <2> QED BY <1>3, <2>2 DEF lineageVars, Store!storeVars, Holder, Opened
<1> QED BY <1>1, <1>2, <1>3 DEF SessionsNext

\* The service implements SessionStore: for every interleaving of its requests,
\* the table of auth.service.ts opens, rotates and closes sessions as a store
\* with atomic operations would, and no closed session opens again.
THEOREM SessionsImplementStore == SessionsSpec => ImplementsSessionStore
<1>1. SessionsInit => Store!StoreInit
  BY DEF SessionsInit, Init, Store!StoreInit, Open, Issued
<1>2. TypeOK /\ RememberedRows /\ LineageInv /\ [SessionsNext]_sessionVars
        => [Store!StoreNext]_(Store!storeVars)
  BY ImplementsStep
<1> QED BY <1>1, <1>2, LineageInvariance, PTL
        DEF SessionsSpec, ImplementsSessionStore, Store!StoreSpec
----------------------------------------------------------------------------
(* Who the service gives credentials to                                    *)

\* The requests of q that have passed the gates on their way to a credential of
\* u, and those that have found the reset token k unused.
Pending(q, u) == {r \in Requests : q[r].user = u /\
    \/ q[r].pc \in {"login.issue", "refresh.rotate", "google.issue", "reset.commit"}
    \/ q[r].pc = "google.link" /\ q[r].isActive}
Spending(q, k) == {r \in Requests : q[r].pc \in {"reset.user", "reset.commit"}
                                    /\ q[r].reset = k}

\* The accounts out of service, for one reason and for the other.
Inactive == {u \in UserIds : Present(u) /\ ~users[u].isActive}
Deleted == {u \in UserIds : Present(u) /\ users[u].deleted}

\* An account in service has been granted nothing out of service; what one out
\* of service has been granted and what is pending fit into the requests.
Tally(count, out, q) ==
    /\ count \in [UserIds -> Nat]
    /\ \A u \in UserIds : /\ u \notin out => count[u] = 0
                          /\ count[u] + Cardinality(Pending(q, u)) <= Cardinality(Requests)

\* The same of a reset token and the requests that found it unused.
ResetTally ==
    /\ uses \in [ResetTokens -> Nat]
    /\ \A k \in ResetTokens :
         /\ resetTokens[k].state # "used" => uses[k] = 0
         /\ uses[k] + Cardinality(Spending(req, k)) <= Cardinality(Requests)

\* A request about to create an account has lowered the address, as every row has.
Lowered ==
    /\ \A r \in Requests : req[r].pc = "google.create"
         => req[r].email \in Addresses /\ LowerCase[req[r].email] = req[r].email
    /\ \A u \in UserIds : Present(u) => LowerCase[users[u].email] = users[u].email

\* What the two unique indexes of the table of users guarantee.
Distinct == \A u, v \in UserIds : Present(u) /\ Present(v) =>
    \/ u = v
    \/ /\ users[u].email # users[v].email
       /\ users[u].googleId = users[v].googleId => users[u].googleId = None

\* The inductive invariant of Accounts.
AccountsInv ==
    /\ TypeOK /\ RememberedRows /\ Lowered /\ Distinct /\ ResetTally
    /\ Tally(deactivated, Inactive, req)
    /\ deleted \in [UserIds -> Nat]

\* Without Google sign-in every gate also asks for deletedAt.
NoGoogle == \A r \in Requests : req[r].pc \notin {"google.create", "google.link", "google.issue"}
\* The tally of deleted accounts holds for as long.
DeletedInv == NoGoogle /\ Tally(deleted, Deleted, req)

\* Pending and spending requests are requests.
LEMMA PendingSet ==
  ASSUME NEW q, NEW u
  PROVE  Pending(q, u) \in SUBSET Requests /\ Spending(q, u) \in SUBSET Requests
BY DEF Pending, Spending

\* A step keeps who is out of service there.
LEMMA OutStay ==
  ASSUME TypeOK, RememberedRows, Lowered, NEW r \in Requests, Step(r)
  PROVE  Inactive \subseteq Inactive' /\ Deleted \subseteq Deleted'
<1>0. users \in [UserIds -> UserRow]
  BY DEF TypeOK
<1>1. ASSUME NEW u \in UserIds, Present(u)
      PROVE  /\ users'[u].email # None /\ users'[u].isActive = users[u].isActive
             /\ users'[u].deleted = users[u].deleted
  <2>1. CASE IdentitiesKept
    BY <1>1, <2>1 DEF IdentitiesKept, Present
  <2>2. CASE Inserts
    <3>1. users'[u] = users[u]
      BY <1>0, <1>1, <2>2 DEF Inserts
    <3> QED BY <1>1, <3>1 DEF Present
  <2>3. CASE Links
    <3>1. PICK v \in UserIds : \E g : users' = [users EXCEPT ![v].googleId = g]
      BY <2>3 DEF Links
    <3> QED BY <1>0, <1>1, <3>1 DEF UserRow, Present
  <2> QED BY <2>1, <2>2, <2>3, StepAccounts DEF Lowered
<1> QED BY <1>1 DEF Inactive, Deleted, Present

\* Who is granted a credential has passed the gates and is pending no more; and
\* only a look at a row in service makes a request pending.
LEMMA PendingMoves ==
  ASSUME TypeOK, RememberedRows, NEW r \in Requests, Step(r)
  PROVE  /\ Grants(r) => /\ req[r].user \in UserIds /\ Present(req[r].user)
                         /\ r \in Pending(req, req[r].user)
                         /\ \A u : Pending(req', u) = Pending(req, u) \ {r}
         /\ \A u \in UserIds : \/ Pending(req', u) \subseteq Pending(req, u)
                               \/ /\ ~Grants(r) /\ u \notin Inactive
                                  /\ NoGoogle /\ "google" \notin Operations
                                       => u \notin Deleted
<1>0. /\ \A s \in Requests \ {r} : req'[s] = req[s]
      /\ Remembers(req[r])
  BY StepMoves DEF RememberedRows
<1>1. CASE Grants(r)
  <2>1. req'[r] = NoRequest
    BY <1>1, StepMoves DEF Grants, Register, Calls, At, Begins, GoesOn, Ends
  <2>2. \A u : Pending(req', u) = Pending(req, u) \ {r}
    BY <1>0, <2>1 DEF Pending, NoRequest
  <2>3. req[r].user \in UserIds /\ Present(req[r].user) /\ r \in Pending(req, req[r].user)
    BY <1>0, <1>1 DEF Grants, Remembers, Present, Pending
  <2> QED BY <1>1, <2>2, <2>3
<1>2. CASE ~Grants(r)
  <2> SUFFICES ASSUME NEW u \in UserIds, ~(Pending(req', u) \subseteq Pending(req, u))
               PROVE  u \notin Inactive
                      /\ (NoGoogle /\ "google" \notin Operations => u \notin Deleted)
    BY <1>2
  <2>1. r \in Pending(req', u) /\ r \notin Pending(req, u)
    BY <1>0 DEF Pending
  <2>2. CASE Begins(r)
    BY <2>1, <2>2 DEF Begins, Pending, Inactive, Deleted, InService, Live, Present
  <2>3. CASE GoesOn(r)
    <3>1. CASE req[r].pc = "google.create" \/ req[r].pc = "google.link"
      BY <2>1, <2>3, <3>1 DEF GoesOn, Pending, Inactive, NoGoogle
    <3>2. CASE req[r].pc \in {"refresh.user", "reset.user"}
      BY <2>1, <2>3, <3>2 DEF GoesOn, Pending, Inactive, Deleted, InService, Live
    <3>3. CASE req[r].pc \in {"login.failed", "forgot.create"}
      BY <2>1, <2>3, <3>3 DEF GoesOn, Pending
    <3> QED BY <2>3, <3>1, <3>2, <3>3 DEF GoesOn
  <2>4. CASE Ends(r) \/ req' = req
    BY <2>1, <2>4 DEF Ends, Pending, NoRequest
  <2> QED BY <2>2, <2>3, <2>4, StepMoves
<1> QED BY <1>1, <1>2

\* A grant moves one request from pending to counted.
LEMMA TallyStep ==
  ASSUME TypeOK, RememberedRows, NEW r \in Requests, Step(r),
         NEW count, NEW after, NEW out, NEW outAfter, Tally(count, out, req),
         after = IF Grants(r) /\ req[r].user \in out
                 THEN [count EXCEPT ![req[r].user] = @ + 1] ELSE count,
         out \subseteq outAfter,
         \A u \in UserIds : \/ Pending(req', u) \subseteq Pending(req, u)
                            \/ ~Grants(r) /\ u \notin out
  PROVE  Tally(after, outAfter, req')
<1>1. after \in [UserIds -> Nat]
  <2>1. count \in [UserIds -> Nat]
    BY DEF Tally
  <2>2. Grants(r) => req[r].user \in UserIds
    BY PendingMoves
  <2>3. CASE Grants(r) /\ req[r].user \in out
    BY <2>1, <2>2, <2>3
  <2> QED BY <2>1, <2>3
<1>2. ASSUME NEW u \in UserIds
      PROVE  /\ u \notin outAfter => after[u] = 0
             /\ after[u] + Cardinality(Pending(req', u)) <= Cardinality(Requests)
  <2>0. /\ count[u] \in Nat /\ (u \notin out => count[u] = 0)
        /\ count[u] + Cardinality(Pending(req, u)) <= Cardinality(Requests)
        /\ count \in [UserIds -> Nat]
    BY DEF Tally
  <2>1. CASE Grants(r) /\ req[r].user = u /\ u \in out
    <3>1. after[u] = count[u] + 1
      BY <2>0, <2>1
    <3>2. /\ Cardinality(Pending(req', u)) = Cardinality(Pending(req, u)) - 1
          /\ Cardinality(Pending(req, u)) \in Nat
      BY <2>1, PendingMoves, PendingSet, Pool
    <3> QED BY <2>0, <2>1, <3>1, <3>2, Pool
  <2>2. CASE ~(Grants(r) /\ req[r].user = u /\ u \in out)
    <3>1. after[u] = count[u]
      BY <2>0, <2>2
    <3>2. CASE Pending(req', u) \subseteq Pending(req, u)
      <4>1. /\ Cardinality(Pending(req', u)) <= Cardinality(Pending(req, u))
            /\ Cardinality(Pending(req, u)) \in Nat /\ Cardinality(Pending(req', u)) \in Nat
            /\ Cardinality(Requests) \in Nat
        BY <3>2, PendingSet, Pool
      <4> QED BY <2>0, <3>1, <4>1
    <3>3. CASE u \notin out /\ ~Grants(r)
      <4>1. after[u] = 0
        BY <2>0, <3>1, <3>3
      <4>2. /\ Cardinality(Pending(req', u)) <= Cardinality(Requests)
            /\ Cardinality(Pending(req', u)) \in Nat
        BY PendingSet, Pool
      <4> QED BY <4>1, <4>2
    <3> QED BY <3>2, <3>3
  <2> QED BY <2>1, <2>2
<1> QED BY <1>1, <1>2 DEF Tally

\* An edit puts accounts out of service, or back and to zero; a request that
\* dies is pending no more.
LEMMA TallyElsewhere ==
  ASSUME NEW count, NEW after, NEW out, NEW outAfter, NEW q, NEW p, Tally(count, out, q),
         after \in [UserIds -> Nat],
         \A u \in UserIds : /\ after[u] \in {0, count[u]}
                            /\ u \notin outAfter => after[u] = 0
                            /\ Pending(p, u) \subseteq Pending(q, u)
  PROVE  Tally(after, outAfter, p)
<1>1. ASSUME NEW u \in UserIds
      PROVE  /\ u \notin outAfter => after[u] = 0
             /\ after[u] + Cardinality(Pending(p, u)) <= Cardinality(Requests)
  <2>1. /\ after[u] \in {0, count[u]} /\ (u \notin outAfter => after[u] = 0)
        /\ Pending(p, u) \subseteq Pending(q, u)
    BY <1>1
  <2>2. Pending(q, u) \in SUBSET Requests
    BY PendingSet
  <2>3. /\ Cardinality(Pending(p, u)) <= Cardinality(Pending(q, u))
        /\ Cardinality(Pending(q, u)) \in Nat /\ Cardinality(Pending(p, u)) \in Nat
        /\ Cardinality(Requests) \in Nat /\ Cardinality(Pending(q, u)) <= Cardinality(Requests)
    BY <2>1, <2>2, Pool
  <2>4. count[u] \in Nat /\ count[u] + Cardinality(Pending(q, u)) <= Cardinality(Requests)
    BY <1>1 DEF Tally
  <2> QED BY <2>1, <2>3, <2>4
<1> QED BY <1>1 DEF Tally

\* Only a lookup that finds the token unused makes a request spend it.
LEMMA ResetTallyStep ==
  ASSUME TypeOK, RememberedRows, ResetTally, NEW r \in Requests, Step(r), ObserveGrant(r)
  PROVE  ResetTally'
<1>0. /\ \A s \in Requests \ {r} : req'[s] = req[s]
      /\ Remembers(req[r]) /\ uses \in [ResetTokens -> Nat]
  BY StepMoves DEF RememberedRows, ResetTally
<1>1. uses' \in [ResetTokens -> Nat]
  BY <1>0 DEF ObserveGrant, At, Remembers
<1>2. ASSUME NEW k \in ResetTokens
      PROVE  /\ resetTokens'[k].state # "used" => uses'[k] = 0
             /\ uses'[k] + Cardinality(Spending(req', k)) <= Cardinality(Requests)
  <2>0. /\ uses[k] \in Nat /\ (resetTokens[k].state # "used" => uses[k] = 0)
        /\ uses[k] + Cardinality(Spending(req, k)) <= Cardinality(Requests)
    BY DEF ResetTally
  <2>1. /\ Cardinality(Spending(req, k)) \in Nat /\ Cardinality(Spending(req', k)) \in Nat
        /\ Cardinality(Requests) \in Nat
        /\ Cardinality(Spending(req', k)) <= Cardinality(Requests)
    BY PendingSet, Pool
  <2>2. CASE req[r].pc = "reset.commit" /\ req[r].reset = k
    <3>1. resetTokens'[k].state = "used" /\ uses'[k] = uses[k] + 1
      BY <1>0, <2>2, StepResets DEF ObserveGrant, At
    <3>2. req'[r] = NoRequest
      BY <2>2, StepMoves DEF Register, Calls, At, Begins, GoesOn, Ends
    <3>3. Spending(req', k) = Spending(req, k) \ {r} /\ r \in Spending(req, k)
      BY <1>0, <2>2, <3>2 DEF Spending, NoRequest
    <3>4. Cardinality(Spending(req', k)) = Cardinality(Spending(req, k)) - 1
      BY <3>3, PendingSet, Pool
    <3> QED BY <2>0, <2>1, <3>1, <3>4
  <2>3. CASE ~(req[r].pc = "reset.commit" /\ req[r].reset = k)
    <3>1. resetTokens'[k].state = resetTokens[k].state /\ uses'[k] = uses[k]
      BY <1>0, <2>3, StepResets DEF ObserveGrant, At
    <3>2. CASE Spending(req', k) \subseteq Spending(req, k)
      <4>1. Cardinality(Spending(req', k)) <= Cardinality(Spending(req, k))
        BY <3>2, PendingSet, Pool
      <4> QED BY <2>0, <2>1, <3>1, <4>1
    <3>3. CASE ~(Spending(req', k) \subseteq Spending(req, k))
      <4>1. r \in Spending(req', k) /\ r \notin Spending(req, k)
        BY <1>0, <3>3 DEF Spending
      <4>2. Begins(r)
        BY <4>1, StepMoves DEF Spending, GoesOn, Ends, NoRequest
      <4>3. resetTokens[k].state = "valid"
        BY <4>1, <4>2 DEF Begins, Spending
      <4> QED BY <2>0, <2>1, <3>1, <4>3
    <3> QED BY <3>2, <3>3
  <2> QED BY <2>2, <2>3
<1> QED BY <1>1, <1>2 DEF ResetTally

\* Every address is inserted in lower case, and only if no row has it.
LEMMA IdentityStep ==
  ASSUME TypeOK, RememberedRows, Lowered, Distinct, NEW r \in Requests, Step(r)
  PROVE  Lowered' /\ Distinct'
<1>0. users \in [UserIds -> UserRow]
  BY DEF TypeOK
<1>1. \A s \in Requests : req'[s].pc = "google.create"
        => req'[s].email \in Addresses /\ LowerCase[req'[s].email] = req'[s].email
  <2>1. CASE Begins(r)
    BY <2>1, StepMoves DEF Lowered, Begins
  <2>2. CASE GoesOn(r) \/ Ends(r) \/ req' = req
    BY <2>2, StepMoves DEF Lowered, GoesOn, Ends, NoRequest
  <2> QED BY <2>1, <2>2, StepMoves
<1>2. IdentitiesKept \/ Inserts \/ Links
  BY StepAccounts DEF Lowered
<1>3. CASE IdentitiesKept
  BY <1>1, <1>3 DEF IdentitiesKept, Lowered, Distinct, Present
<1>4. CASE Inserts
  <2>0. PICK u \in UserIds, e \in Addresses :
          /\ ~Present(u) /\ LowerCase[e] = e /\ ~EmailTaken(e)
          /\ \E p, g : /\ g = None \/ ~GoogleIdTaken(g)
                       /\ users' = [users EXCEPT ![u] = NewUser(e, p, g)]
    BY <1>4 DEF Inserts
  <2>1. PICK p, g : /\ g = None \/ ~GoogleIdTaken(g)
                    /\ users' = [users EXCEPT ![u] = NewUser(e, p, g)]
    BY <2>0
  <2>2. /\ users'[u].email = e /\ users'[u].googleId = g
        /\ \A v \in UserIds \ {u} : users'[v] = users[v]
    BY <1>0, <2>0, <2>1 DEF NewUser
  <2>3. \A v \in UserIds : users[v].email # e /\ (g = None \/ users[v].googleId # g)
    BY <2>0, <2>1 DEF EmailTaken, GoogleIdTaken
  <2> QED BY <1>1, <2>0, <2>2, <2>3 DEF Lowered, Distinct, Present
<1>5. CASE Links
  <2>0. PICK u \in UserIds : \E g :
          /\ \A v \in UserIds \ {u} : users[v].googleId # g
          /\ users' = [users EXCEPT ![u].googleId = g]
    BY <1>5 DEF Links
  <2>1. PICK g : /\ \A v \in UserIds \ {u} : users[v].googleId # g
                 /\ users' = [users EXCEPT ![u].googleId = g]
    BY <2>0
  <2>2. /\ users'[u].googleId = g /\ \A v \in UserIds : users'[v].email = users[v].email
        /\ \A v \in UserIds \ {u} : users'[v].googleId = users[v].googleId
    BY <1>0, <2>1 DEF UserRow
  <2> QED BY <1>1, <2>1, <2>2 DEF Lowered, Distinct, Present
<1> QED BY <1>2, <1>3, <1>4, <1>5

\* Every step of a request keeps the invariant, ...
LEMMA AccountsStep ==
  ASSUME AccountsInv, NEW r \in Requests, Step(r), ObserveGrant(r)
  PROVE  /\ AccountsInv'
         /\ "google" \notin Operations /\ DeletedInv => DeletedInv'
<1>1. TypeOK' /\ RememberedRows'
  BY StepType, StepRemembers DEF AccountsInv
<1>2. Lowered' /\ Distinct' /\ ResetTally'
  BY IdentityStep, ResetTallyStep DEF AccountsInv
<1>3. Inactive \subseteq Inactive' /\ Deleted \subseteq Deleted'
  BY OutStay DEF AccountsInv
<1>4. Grants(r) => req[r].user \in UserIds /\ Present(req[r].user)
  BY PendingMoves DEF AccountsInv
<1>5. Tally(deactivated', Inactive', req')
  <2>1. deactivated' = IF Grants(r) /\ req[r].user \in Inactive
                       THEN [deactivated EXCEPT ![req[r].user] = @ + 1] ELSE deactivated
    BY <1>4 DEF ObserveGrant, Inactive
  <2>2. \A u \in UserIds : \/ Pending(req', u) \subseteq Pending(req, u)
                           \/ ~Grants(r) /\ u \notin Inactive
    BY PendingMoves DEF AccountsInv
  <2> QED BY <1>3, <2>1, <2>2, TallyStep DEF AccountsInv
<1>6. deleted' \in [UserIds -> Nat]
  BY <1>4 DEF ObserveGrant, AccountsInv
<1>7. ASSUME "google" \notin Operations, DeletedInv PROVE DeletedInv'
  <2>1. \A s \in Requests : req'[s].pc
                              \notin {"google.create", "google.link", "google.issue"}
    BY <1>7, StepMoves DEF AccountsInv, DeletedInv, NoGoogle, Begins, GoesOn, Ends, NoRequest
  <2>2. deleted' = IF Grants(r) /\ req[r].user \in Deleted
                   THEN [deleted EXCEPT ![req[r].user] = @ + 1] ELSE deleted
    BY <1>4 DEF ObserveGrant, Deleted
  <2>3. \A u \in UserIds : \/ Pending(req', u) \subseteq Pending(req, u)
                           \/ ~Grants(r) /\ u \notin Deleted
    BY <1>7, PendingMoves DEF AccountsInv, DeletedInv
  <2>4. Tally(deleted', Deleted', req')
    BY <1>3, <1>7, <2>2, <2>3, TallyStep DEF AccountsInv, DeletedInv
  <2> QED BY <2>1, <2>4 DEF DeletedInv, NoGoogle
<1> QED BY <1>1, <1>2, <1>5, <1>6, <1>7 DEF AccountsInv

\* ... so does a request that dies, ...
LEMMA AccountsAbort ==
  ASSUME AccountsInv, NEW r \in Requests, Abort(r), UNCHANGED countVars
  PROVE  AccountsInv' /\ (DeletedInv => DeletedInv')
<1>1. TypeOK' /\ RememberedRows'
  BY AbortInvariant DEF AccountsInv
<1>2. /\ req'[r] = NoRequest /\ \A s \in Requests \ {r} : req'[s] = req[s]
      /\ UNCHANGED <<users, resetTokens, uses, deactivated, deleted>>
  BY Responded DEF Abort, AccountsInv, countVars
<1>3. Lowered' /\ Distinct'
  BY <1>2 DEF AccountsInv, Lowered, Distinct, Present, NoRequest
<1>4. Inactive' = Inactive /\ Deleted' = Deleted
  BY <1>2 DEF Inactive, Deleted, Present
<1>5. /\ \A u : Pending(req', u) \subseteq Pending(req, u)
      /\ \A k : Spending(req', k) \subseteq Spending(req, k)
  BY <1>2 DEF Pending, Spending, NoRequest
<1>6. ASSUME NEW count, NEW out, Tally(count, out, req) PROVE Tally(count, out, req')
  <2>1. count \in [UserIds -> Nat] /\ \A u \in UserIds : u \notin out => count[u] = 0
    BY <1>6 DEF Tally
  <2> QED BY <1>5, <1>6, <2>1, TallyElsewhere
<1>7. ResetTally'
  <2>1. ASSUME NEW k \in ResetTokens
        PROVE  uses[k] + Cardinality(Spending(req', k)) <= Cardinality(Requests)
    <3>1. /\ Cardinality(Spending(req', k)) <= Cardinality(Spending(req, k))
          /\ Cardinality(Spending(req, k)) \in Nat /\ Cardinality(Spending(req', k)) \in Nat
          /\ Cardinality(Requests) \in Nat
      BY <1>5, PendingSet, Pool
    <3>2. /\ uses[k] \in Nat
          /\ uses[k] + Cardinality(Spending(req, k)) <= Cardinality(Requests)
      BY DEF AccountsInv, ResetTally
    <3> QED BY <3>1, <3>2
  <2> QED BY <1>2, <2>1 DEF AccountsInv, ResetTally
<1>8. DeletedInv => DeletedInv'
  BY <1>2, <1>4, <1>6 DEF DeletedInv, NoGoogle, NoRequest
<1> QED BY <1>1, <1>2, <1>3, <1>4, <1>6, <1>7, <1>8 DEF AccountsInv

\* ... so do time, administrators and support, ...
LEMMA AccountsEnvironment ==
  ASSUME AccountsInv, Environment, ObserveEdit
  PROVE  AccountsInv' /\ (DeletedInv => DeletedInv')
<1>1. TypeOK' /\ RememberedRows'
  BY EnvironmentInvariant DEF AccountsInv
<1>2. /\ req' = req /\ uses' = uses
      /\ \A u \in UserIds : /\ users'[u].email = users[u].email
                            /\ users'[u].googleId = users[u].googleId
                            /\ ~Present(u) => users'[u].isActive = users[u].isActive
                                              /\ users'[u].deleted = users[u].deleted
      /\ \A k \in ResetTokens : resetTokens'[k].state # resetTokens[k].state
           => resetTokens[k].state = "valid" /\ resetTokens'[k].state = "expired"
  BY EnvironmentKeeps DEF AccountsInv, ObserveEdit
<1>3. Lowered' /\ Distinct'
  BY <1>2 DEF AccountsInv, Lowered, Distinct, Present
<1>4. ResetTally'
  BY <1>2 DEF AccountsInv, ResetTally
<1>5. /\ deactivated' \in [UserIds -> Nat] /\ deleted' \in [UserIds -> Nat]
      /\ \A u \in UserIds : /\ deactivated'[u] = IF users'[u].isActive THEN 0 ELSE deactivated[u]
                            /\ deleted'[u] = IF users'[u].deleted THEN deleted[u] ELSE 0
  BY DEF AccountsInv, Tally, ObserveEdit
<1>6. Tally(deactivated', Inactive', req')
  <2>1. ASSUME NEW u \in UserIds
        PROVE  /\ deactivated'[u] \in {0, deactivated[u]}
               /\ u \notin Inactive' => deactivated'[u] = 0
               /\ Pending(req', u) \subseteq Pending(req, u)
    BY <1>2, <1>5 DEF AccountsInv, Tally, Inactive, Present
  <2> QED BY <1>5, <2>1, TallyElsewhere DEF AccountsInv
<1>7. ASSUME DeletedInv PROVE DeletedInv'
  <2>1. ASSUME NEW u \in UserIds
        PROVE  /\ deleted'[u] \in {0, deleted[u]}
               /\ u \notin Deleted' => deleted'[u] = 0
               /\ Pending(req', u) \subseteq Pending(req, u)
    BY <1>2, <1>5, <1>7 DEF DeletedInv, Tally, Deleted, Present
  <2>2. Tally(deleted', Deleted', req')
    BY <1>5, <1>7, <2>1, TallyElsewhere DEF DeletedInv
  <2> QED BY <1>2, <1>7, <2>2 DEF DeletedInv, NoGoogle
<1> QED BY <1>1, <1>3, <1>4, <1>5, <1>6, <1>7 DEF AccountsInv

\* ... and so does nothing at all.
LEMMA AccountsStutter ==
  ASSUME AccountsInv, UNCHANGED accountVars
  PROVE  AccountsInv' /\ (DeletedInv => DeletedInv')
<1> USE DEF accountVars, vars, countVars
<1>1. TypeOK' /\ RememberedRows'
  BY DEF AccountsInv, TypeOK, RememberedRows, OwnedTokens, Remembers
<1>2. Lowered' /\ Distinct' /\ ResetTally'
  BY DEF AccountsInv, Lowered, Distinct, ResetTally, Present, Spending
<1>3. Inactive' = Inactive /\ Deleted' = Deleted /\ req' = req
  BY DEF Inactive, Deleted, Present
<1> QED BY <1>1, <1>2, <1>3 DEF AccountsInv, DeletedInv, NoGoogle

\* Nothing has been granted at first.
LEMMA AccountsStart == AccountsInit => AccountsInv /\ DeletedInv
<1> SUFFICES ASSUME AccountsInit PROVE AccountsInv /\ DeletedInv
  OBVIOUS
<1>1. TypeOK /\ RememberedRows
  BY InitialType, InitialRemembered DEF AccountsInit
<1>2. /\ users = SeedUsers /\ \A r \in Requests : req[r] = NoRequest
      /\ uses = [k \in ResetTokens |-> 0]
      /\ deactivated = [u \in UserIds |-> 0] /\ deleted = [u \in UserIds |-> 0]
  BY DEF AccountsInit, Init
<1>3. Lowered /\ Distinct
  BY <1>2, SeedAssumption DEF Lowered, Distinct, Present, NoRequest
<1>4. /\ \A u : Pending(req, u) = {} /\ Spending(req, u) = {}
      /\ Cardinality({}) = 0 /\ Cardinality(Requests) \in Nat
  BY <1>2, FS_EmptySet, RequestsAssumption, FS_CardinalityType DEF Pending, Spending, NoRequest
<1>5. ResetTally
  BY <1>2, <1>4 DEF ResetTally
<1>6. Tally(deactivated, Inactive, req) /\ Tally(deleted, Deleted, req)
  BY <1>2, <1>4 DEF Tally
<1>7. NoGoogle
  BY <1>2 DEF NoGoogle, NoRequest
<1> QED BY <1>1, <1>2, <1>3, <1>5, <1>6, <1>7 DEF AccountsInv, DeletedInv

\* The four together.
LEMMA AccountsNextInv ==
  ASSUME AccountsInv, [AccountsNext]_accountVars
  PROVE  AccountsInv' /\ ("google" \notin Operations /\ DeletedInv => DeletedInv')
<1>1. CASE \E r \in Requests : Step(r) /\ ObserveGrant(r)
  BY <1>1, AccountsStep
<1>2. CASE \E r \in Requests : Abort(r) /\ UNCHANGED countVars
  BY <1>2, AccountsAbort
<1>3. CASE Environment /\ ObserveEdit
  BY <1>3, AccountsEnvironment
<1>4. CASE UNCHANGED accountVars
  BY <1>4, AccountsStutter
<1> QED BY <1>1, <1>2, <1>3, <1>4 DEF AccountsNext

\* The invariant in every reachable state.
LEMMA AccountsInvariance == AccountsSpec => []AccountsInv
<1>1. AccountsInit => AccountsInv
  BY AccountsStart
<1>2. AccountsInv /\ [AccountsNext]_accountVars => AccountsInv'
  BY AccountsNextInv
<1> QED BY <1>1, <1>2, PTL DEF AccountsSpec

\* The tables, the requests and the counts have their types.
THEOREM AccountsTypeCorrect == AccountsSpec => []AccountsTypeOK
<1>1. AccountsInv => AccountsTypeOK
  BY DEF AccountsInv, AccountsTypeOK, ResetTally, Tally
<1> QED BY <1>1, AccountsInvariance, PTL

\* Whatever the interleaving of resetPassword (auth.service.ts:358-407), a reset
\* token sets no more passwords than there are requests that found it unused.
THEOREM ResetUsesAlwaysBounded == AccountsSpec => []ResetUsesBounded
<1>1. ASSUME AccountsInv, NEW k \in ResetTokens PROVE uses[k] <= Cardinality(Requests)
  <2>1. /\ uses[k] \in Nat /\ uses[k] + Cardinality(Spending(req, k)) <= Cardinality(Requests)
    BY <1>1 DEF AccountsInv, ResetTally
  <2>2. Cardinality(Spending(req, k)) \in Nat /\ Cardinality(Requests) \in Nat
    BY PendingSet, Pool
  <2> QED BY <2>1, <2>2
<1>2. AccountsInv => ResetUsesBounded
  BY <1>1 DEF ResetUsesBounded
<1> QED BY <1>2, AccountsInvariance, PTL

\* What is counted is at most the requests.
LEMMA TallyBounds ==
  ASSUME NEW count, NEW out, Tally(count, out, req), NEW u \in UserIds
  PROVE  count[u] <= Cardinality(Requests)
<1>1. count[u] \in Nat /\ count[u] + Cardinality(Pending(req, u)) <= Cardinality(Requests)
  BY DEF Tally
<1>2. Cardinality(Pending(req, u)) \in Nat /\ Cardinality(Requests) \in Nat
  BY PendingSet, Pool
<1> QED BY <1>1, <1>2

\* A deactivated account is granted nothing but what was past the gates of
\* login, refresh, googleLogin and resetPassword when it was deactivated.
THEOREM DeactivationAlwaysBounded == AccountsSpec => []DeactivationBounded
<1>1. AccountsInv => DeactivationBounded
  BY TallyBounds DEF AccountsInv, DeactivationBounded
<1> QED BY <1>1, AccountsInvariance, PTL

\* The same of a deleted account as long as nobody signs in with Google: that
\* gate (auth.service.ts:246-262) does not ask for deletedAt, and the run
\* google_deleted shows what it lets through.
THEOREM DeletionBoundedWithoutGoogle ==
  ASSUME "google" \notin Operations
  PROVE  AccountsSpec => []DeletionBounded
<1>1. AccountsInit => AccountsInv /\ DeletedInv
  BY AccountsStart
<1>2. AccountsInv /\ DeletedInv /\ [AccountsNext]_accountVars => (AccountsInv /\ DeletedInv)'
  BY AccountsNextInv
<1>3. DeletedInv => DeletionBounded
  BY TallyBounds DEF DeletedInv, DeletionBounded
<1> QED BY <1>1, <1>2, <1>3, PTL DEF AccountsSpec

\* A mailbox and a Google identity have one account each, in whatever order
\* register and googleLogin look up, are overtaken and insert or link.
THEOREM OneAccountPerIdentityAlways == AccountsSpec => []OneAccountPerIdentity
<1>1. AccountsInv => OneAccountPerIdentity
  BY DEF AccountsInv, Lowered, Distinct, OneAccountPerIdentity
<1> QED BY <1>1, AccountsInvariance, PTL

\* With the counts and the lineage left out, Accounts and Sessions are the
\* service: what AuthServiceProofs shows of it holds of them.
LEMMA ComposedSteps ==
  /\ [AccountsNext]_accountVars => [Next]_vars
  /\ [SessionsNext]_sessionVars => [Next]_vars
<1>1. AccountsNext \/ SessionsNext => Next
  BY DEF AccountsNext, SessionsNext, Next
<1>2. UNCHANGED accountVars \/ UNCHANGED sessionVars => UNCHANGED vars
  BY DEF accountVars, sessionVars
<1> QED BY <1>1, <1>2

\* Whoever counts grants sees behaviours of the service: TypeCorrect and
\* RowsRemembered hold of AccountsSpec.
THEOREM AccountsImplementService == AccountsSpec => Spec
BY ComposedSteps, PTL DEF AccountsSpec, AccountsInit, Spec

\* Whoever remembers lineages sees behaviours of the service: TypeCorrect and
\* RowsRemembered hold of SessionsSpec.
THEOREM SessionsImplementService == SessionsSpec => Spec
BY ComposedSteps, PTL DEF SessionsSpec, SessionsInit, Spec
====
