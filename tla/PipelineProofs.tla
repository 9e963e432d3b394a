---- MODULE PipelineProofs ----
(***************************************************************************)
(* The properties of Pipeline for any number of requests, replicas,        *)
(* clients and users, and any limits.                                      *)
(***************************************************************************)
EXTENDS Pipeline, TLAPS

\* The guards' stages before a user is attached.
Unauthenticated == {"global", "auth", "jwt"}
Stages == {"global", "auth", "jwt", "roles", "idle", "handler", "answered"}

\* What the fields of a request range over.
AccessToken == {None} \cup [sub: Users, role: Roles]
Status == 200..599
Maybe(S) == S \cup {None}

Request == [at: Stages, route: Maybe(Routes), client: Maybe(Clients),
            replica: Maybe(Replicas), token: AccessToken, user: Maybe(Roles),
            status: Status, refusedBy: Maybe(Tiers), struck: BOOLEAN]

\* A request at a guard has what it came with.
Arrived(q) == q.at \notin {"idle", "answered"} =>
    q.route \in Routes /\ q.client \in Clients /\ q.replica \in Replicas

\* The types, in the form the steps keep them.
TypeInv ==
    /\ role \in [Users -> Roles \cup {None}]
    /\ bucket \in [Keys -> [hits: Nat, blocked: BOOLEAN]]
    /\ passed \in [Windows -> Nat]
    /\ entitled \in SUBSET Requests
    /\ req \in [Requests -> Request]
    /\ \A r \in Requests : Arrived(req[r])

\* The key that every replica counts a window with.
SharedKey(w) == <<w[1], w[2], w[3], "redis">>

\* What passed was counted.
Counted == \A w \in Windows :
    passed[w] <= bucket[SharedKey(w)].hits /\ passed[w] <= Limit[w[1]]

\* Who may still reach a restricted handler has been entitled to it.
Entitles(r) ==
    LET q == req[r] IN
    /\ q.at \in Unauthenticated /\ q.token # None /\ role[q.token.sub] \in RequiredRoles(q.route)
         => r \in entitled
    /\ q.at = "roles" /\ q.user \in RequiredRoles(q.route) => r \in entitled
    /\ q.at = "handler" /\ RequiredRoles(q.route) # {} => r \in entitled

\* The same of every request.
EntitledInv == \A r \in Requests : Entitles(r)

\* The inductive invariant.
IInv == TypeInv /\ Counted /\ EntitledInv /\ OutageIsNotRefusal
----------------------------------------------------------------------------
(* What an exception is answered with *)

\* Every exception has a status.
LEMMA StatusRange ==
  ASSUME NEW e PROVE StatusOf(e) \in Status
<1>1. CASE e \in DOMAIN PrismaStatus
  BY <1>1 DEF StatusOf, PrismaStatus, Status
<1>2. CASE e \notin DOMAIN PrismaStatus
  BY <1>2 DEF StatusOf, HttpStatus, Status
<1> QED BY <1>1, <1>2

\* A store that cannot be reached is an error of the server, whether a guard or
\* Passport turns it into an answer.
LEMMA UnreachableIs5xx ==
  ASSUME NEW e \in Unreachable PROVE StatusOf(e) >= 500 /\ StatusOf(HandleRequest(e)) >= 500
<1>1. HandleRequest(e) = e
  BY NoneIsNoError DEF HandleRequest
<1>2. CASE e = "Error"
  BY <1>1, <1>2 DEF StatusOf, PrismaStatus, HttpStatus
<1>3. CASE e # "Error"
  BY <1>1, <1>3 DEF StatusOf, PrismaStatus, Unreachable
<1> QED BY <1>2, <1>3

\* So is a Redis the limiter cannot reach.
LEMMA RedisIs500 == StatusOf("MaxRetriesPerRequestError") = 500
  BY DEF StatusOf, PrismaStatus, HttpStatus
----------------------------------------------------------------------------
(* Steps that end a request, and steps that take it to the next stage *)

\* A request is answered.
LEMMA AnswerKeeps ==
  ASSUME IInv, NEW r \in Requests, NEW status \in Status,
         NEW refusedBy \in Maybe(Tiers), NEW struck \in BOOLEAN,
         struck => status >= 500,
         Answer(r, status, refusedBy, struck),
         UNCHANGED <<role, entitled>>
  PROVE  /\ req' \in [Requests -> Request] /\ \A s \in Requests : Arrived(req'[s])
         /\ EntitledInv' /\ OutageIsNotRefusal'
<1> DEFINE a == [NoRequest EXCEPT !.at = "answered", !.route = req[r].route,
                 !.status = status, !.refusedBy = refusedBy, !.struck = struck]
<1>1. req' = [req EXCEPT ![r] = a]
  BY DEF Answer
<1>2. a \in Request /\ a.at = "answered" /\ a.status = status /\ a.struck = struck
  <2>1. NoRequest \in Request
    BY DEF NoRequest, Request, Stages, Status, Maybe, AccessToken
  <2>2. req[r].route \in Maybe(Routes) /\ "answered" \in Stages
    BY DEF IInv, TypeInv, Request, Stages
  <2> QED BY <2>1, <2>2 DEF Request
<1>3. req' \in [Requests -> Request] /\ \A s \in Requests : Arrived(req'[s])
  BY <1>1, <1>2 DEF IInv, TypeInv, Arrived
<1> HIDE DEF a
<1>4. EntitledInv'
  BY <1>1, <1>2 DEF IInv, TypeInv, EntitledInv, Entitles, Unauthenticated
<1>5. OutageIsNotRefusal'
  BY <1>1, <1>2 DEF IInv, TypeInv, OutageIsNotRefusal, At
<1> QED BY <1>3, <1>4, <1>5

\* Most steps leave the counters alone.
LEMMA CountersStay ==
  ASSUME Counted, UNCHANGED <<bucket, passed>> PROVE Counted'
  BY DEF Counted

\* A request that is passed on, perhaps with a user attached.
LEMMA PassKeeps ==
  ASSUME IInv, NEW r \in Requests, NEW user \in Maybe(Roles),
         req[r].at \in {"global", "auth", "jwt", "roles"},
         req' = [req EXCEPT ![r].at = Then[req[r].at], ![r].user = user],
         req[r].at = "jwt" /\ user \in RequiredRoles(req[r].route) => r \in entitled,
         req[r].at = "roles" /\ RequiredRoles(req[r].route) # {} => r \in entitled,
         UNCHANGED <<role, entitled>>
  PROVE  /\ req' \in [Requests -> Request] /\ \A s \in Requests : Arrived(req'[s])
         /\ EntitledInv' /\ OutageIsNotRefusal'
<1> DEFINE q == req'[r]
<1>1. /\ Then["global"] = "auth" /\ Then["auth"] = "jwt"
      /\ Then["jwt"] = "roles" /\ Then["roles"] = "handler"
  BY DEF Then
<1>2. req \in [Requests -> Request] /\ Arrived(req[r])
  BY DEF IInv, TypeInv
<1>3. /\ q.at = Then[req[r].at] /\ q.user = user /\ q.route = req[r].route
      /\ q.client = req[r].client /\ q.replica = req[r].replica
      /\ q.token = req[r].token /\ q.status = req[r].status
      /\ q.struck = req[r].struck /\ q.refusedBy = req[r].refusedBy
  BY <1>2 DEF Request
<1>4. /\ \A s \in Requests \ {r} : req'[s] = req[s]
      /\ req' \in [Requests -> Request]
  <2>1. Then[req[r].at] \in Stages
    BY <1>1 DEF Stages
  <2>2. [req[r] EXCEPT !.at = Then[req[r].at], !.user = user] \in Request
    BY <1>2, <2>1 DEF Request
  <2>3. req' = [req EXCEPT ![r] = [req[r] EXCEPT !.at = Then[req[r].at], !.user = user]]
    OBVIOUS
  <2> QED BY <1>2, <2>2, <2>3
<1>5. \A s \in Requests : Arrived(req'[s])
  BY <1>1, <1>2, <1>3, <1>4 DEF IInv, TypeInv, Arrived
<1>6. \A s \in Requests \ {r} : Entitles(s)'
  BY <1>4 DEF IInv, EntitledInv, Entitles
<1>7. Entitles(r)'
  <2>1. Entitles(r)
    BY DEF IInv, EntitledInv
  <2>2. CASE req[r].at \in {"global", "auth"}
    BY <1>1, <1>3, <2>1, <2>2 DEF Entitles, Unauthenticated
  <2>3. CASE req[r].at = "jwt"
    BY <1>1, <1>3, <2>3 DEF Entitles, Unauthenticated
  <2>4. CASE req[r].at = "roles"
    BY <1>1, <1>3, <2>4 DEF Entitles, Unauthenticated
  <2> QED BY <2>2, <2>3, <2>4
<1>8. OutageIsNotRefusal'
  BY <1>1, <1>3, <1>4 DEF IInv, OutageIsNotRefusal, At
<1> QED BY <1>4, <1>5, <1>6, <1>7, <1>8 DEF EntitledInv

\* Pass attaches no user: it keeps the one there is.
LEMMA PassAsIs ==
  ASSUME IInv, NEW r \in Requests, Pass(r)
  PROVE  /\ req' = [req EXCEPT ![r].at = Then[req[r].at], ![r].user = req[r].user]
         /\ req[r].user \in Maybe(Roles)
<1>1. req \in [Requests -> Request]
  BY DEF IInv, TypeInv
<1>2. req[r] \in Request
  BY <1>1
<1>3. [req[r] EXCEPT !.at = Then[req[r].at]]
        = [req[r] EXCEPT !.at = Then[req[r].at], !.user = req[r].user]
  BY <1>2 DEF Request
<1> QED BY <1>1, <1>2, <1>3 DEF Pass, Request
----------------------------------------------------------------------------
(* The throttler's counters *)

\* Windows that are shared have a key, and keys a window.
LEMMA SharedKeys ==
  /\ \A w \in Windows : SharedKey(w) \in Keys /\ WindowOf(SharedKey(w)) = w
  /\ \A k \in Keys : WindowOf(k) \in Windows /\ k[1] \in Tiers
  BY DEF Windows, Keys, SharedKey, WindowOf

\* One hit on a window, let through only within the limit.
LEMMA HitCounts ==
  ASSUME IInv, NEW w \in Windows, NEW b \in BOOLEAN, NEW h \in Nat,
         bucket' = [bucket EXCEPT ![SharedKey(w)] = [hits |-> h, blocked |-> b]],
         \/ /\ passed' = [passed EXCEPT ![w] = @ + 1]
            /\ h = bucket[SharedKey(w)].hits + 1 /\ h <= Limit[w[1]]
         \/ passed' = passed /\ h >= bucket[SharedKey(w)].hits
         \/ passed' = passed /\ h >= Limit[w[1]]
  PROVE  /\ bucket' \in [Keys -> [hits: Nat, blocked: BOOLEAN]]
         /\ passed' \in [Windows -> Nat] /\ Counted'
<1>1. /\ bucket \in [Keys -> [hits: Nat, blocked: BOOLEAN]]
      /\ passed \in [Windows -> Nat] /\ Counted
  BY DEF IInv, TypeInv
<1>2. /\ SharedKey(w) \in Keys /\ w[1] \in Tiers
      /\ \A v \in Windows : SharedKey(v) \in Keys /\ (v # w => SharedKey(v) # SharedKey(w))
  BY SharedKeys DEF Windows
<1>3. Limit[w[1]] \in Nat /\ bucket[SharedKey(w)].hits \in Nat /\ passed[w] \in Nat
  BY <1>1, <1>2, PipelineAssumption
<1>4. ASSUME NEW v \in Windows
      PROVE  passed'[v] <= bucket'[SharedKey(v)].hits /\ passed'[v] <= Limit[v[1]]
  <2>1. passed[v] <= bucket[SharedKey(v)].hits /\ passed[v] <= Limit[v[1]]
    BY <1>1 DEF Counted
  <2>2. CASE v # w
    BY <1>1, <1>2, <2>1, <2>2
  <2>3. CASE v = w
    <3>1. bucket'[SharedKey(w)].hits = h
      BY <1>1, <1>2
    <3>2. passed'[w] = passed[w] + 1 \/ passed' = passed
      BY <1>1
    <3> QED BY <1>1, <1>3, <2>1, <2>3, <3>1, <3>2
  <2> QED BY <2>2, <2>3
<1>5. Counted'
  BY <1>4 DEF Counted
<1> QED BY <1>1, <1>2, <1>5

\* The limiter counts a request, and lets it pass or refuses it.
LEMMA ThrottleKeeps ==
  ASSUME IInv, NEW r \in Requests, NEW tier \in Tiers, Throttle(r, tier)
  PROVE  IInv'
<1> DEFINE w == <<tier, req[r].route, req[r].client>>
           hits == bucket[KeyOf(r, tier)].hits + 1
           refused == bucket[KeyOf(r, tier)].blocked \/ hits > Limit[tier]
           h == IF hits > Limit[tier] THEN Limit[tier] + 1 ELSE hits
<1>1. req[r].at = tier /\ req[r].at \in {"global", "auth"}
  BY DEF Throttle, At, Tiers
<1>2. /\ req[r] \in Request /\ req[r].route \in Routes /\ req[r].client \in Clients
  BY <1>1 DEF IInv, TypeInv, Arrived
<1>3. /\ w \in Windows /\ KeyOf(r, tier) = SharedKey(w) /\ WindowOf(KeyOf(r, tier)) = w
      /\ w[1] = tier /\ SharedKey(w) \in Keys
  BY <1>2, SharedKeys DEF Windows, KeyOf, StorageOf, SharedKey, WindowOf
<1>4. /\ bucket[KeyOf(r, tier)].hits \in Nat /\ bucket[KeyOf(r, tier)].blocked \in BOOLEAN
      /\ Limit[tier] \in Nat
  BY <1>3, PipelineAssumption DEF IInv, TypeInv
<1>5. /\ bucket' = [bucket EXCEPT ![SharedKey(w)] = [hits |-> h, blocked |-> refused]]
      /\ refused => Answer(r, StatusOf("ThrottlerException"), tier, FALSE) /\ passed' = passed
      /\ ~refused => Pass(r) /\ passed' = [passed EXCEPT ![w] = @ + 1]
      /\ UNCHANGED <<role, entitled>>
  BY <1>3 DEF Throttle
<1>6. h \in Nat /\ refused \in BOOLEAN
  BY <1>4
<1>7. /\ bucket' \in [Keys -> [hits: Nat, blocked: BOOLEAN]]
      /\ passed' \in [Windows -> Nat] /\ Counted'
  <2>1. CASE refused
    <3>1. h >= Limit[w[1]] \/ h >= bucket[SharedKey(w)].hits
      BY <1>3, <1>4
    <3> HIDE DEF h, refused, w
    <3> QED BY <1>3, <1>5, <1>6, <2>1, <3>1, HitCounts
  <2>2. CASE ~refused
    <3>1. h = bucket[SharedKey(w)].hits + 1 /\ h <= Limit[w[1]]
      BY <1>3, <1>4, <2>2
    <3> HIDE DEF h, refused, w
    <3> QED BY <1>3, <1>5, <1>6, <2>2, <3>1, HitCounts
  <2> QED BY <2>1, <2>2
<1>8. /\ req' \in [Requests -> Request] /\ \A s \in Requests : Arrived(req'[s])
      /\ EntitledInv' /\ OutageIsNotRefusal'
  <2> HIDE DEF refused
  <2>1. CASE refused
    BY <1>5, <2>1, AnswerKeeps, StatusRange DEF Maybe
  <2>2. CASE ~refused
    BY <1>1, <1>5, <2>2, PassAsIs, PassKeeps
  <2> QED BY <2>1, <2>2
<1> QED BY <1>5, <1>7, <1>8 DEF IInv, TypeInv

\* A window ends: what passed in it counts no more.
LEMMA WindowEndsKeeps ==
  ASSUME IInv, NEW k \in Keys, WindowEnds(k) PROVE IInv'
<1>1. /\ bucket \in [Keys -> [hits: Nat, blocked: BOOLEAN]]
      /\ passed \in [Windows -> Nat] /\ Counted
  BY DEF IInv, TypeInv
<1>2. bucket' \in [Keys -> [hits: Nat, blocked: BOOLEAN]] /\ passed' \in [Windows -> Nat]
  BY <1>1 DEF WindowEnds
<1>3. ASSUME NEW w \in Windows
      PROVE  passed'[w] <= bucket'[SharedKey(w)].hits /\ passed'[w] <= Limit[w[1]]
  <2>1. passed[w] <= bucket[SharedKey(w)].hits /\ passed[w] <= Limit[w[1]]
    BY <1>1 DEF Counted
  <2>2. SharedKey(w) \in Keys /\ WindowOf(SharedKey(w)) = w /\ w[1] \in Tiers
    BY SharedKeys DEF Windows
  <2>3. CASE w = WindowOf(k)
    <3>1. passed'[w] = 0
      BY <1>1, <2>3 DEF WindowEnds
    <3>2. bucket'[SharedKey(w)].hits \in Nat /\ Limit[w[1]] \in Nat
      BY <1>2, <2>2, PipelineAssumption
    <3> QED BY <3>1, <3>2
  <2>4. CASE w # WindowOf(k)
    <3>1. SharedKey(w) # k /\ passed'[w] = passed[w]
      BY <1>1, <2>2, <2>4 DEF WindowEnds
    <3> QED BY <1>1, <2>1, <2>2, <3>1 DEF WindowEnds
  <2> QED BY <2>3, <2>4
<1> QED
  BY <1>2, <1>3 DEF IInv, TypeInv, Counted, EntitledInv, Entitles, OutageIsNotRefusal, At, WindowEnds

\* A block ends.
LEMMA BlockEndsKeeps ==
  ASSUME IInv, NEW k \in Keys, BlockEnds(k) PROVE IInv'
<1>1. bucket \in [Keys -> [hits: Nat, blocked: BOOLEAN]] /\ Counted
  BY DEF IInv, TypeInv
<1>2. /\ bucket' \in [Keys -> [hits: Nat, blocked: BOOLEAN]]
      /\ \A l \in Keys : bucket'[l].hits = bucket[l].hits
  BY <1>1 DEF BlockEnds
<1>3. Counted'
  BY <1>1, <1>2, SharedKeys DEF Counted, BlockEnds
<1> QED
  BY <1>2, <1>3 DEF IInv, TypeInv, EntitledInv, Entitles, OutageIsNotRefusal, At, BlockEnds
----------------------------------------------------------------------------
(* The other steps of a request *)

\* Only counters, rows and history aside, an answer keeps everything.
LEMMA AnsweringKeeps ==
  ASSUME IInv, NEW r \in Requests, NEW status \in Status, NEW struck \in BOOLEAN,
         struck => status >= 500, Answer(r, status, None, struck),
         UNCHANGED <<role, bucket, passed, entitled>>
  PROVE  IInv'
<1>1. None \in Maybe(Tiers)
  BY DEF Maybe
<1>2. /\ req' \in [Requests -> Request] /\ \A s \in Requests : Arrived(req'[s])
      /\ EntitledInv' /\ OutageIsNotRefusal'
  BY <1>1, AnswerKeeps
<1> QED BY <1>2, CountersStay DEF IInv, TypeInv

\* A guard throws.
LEMMA ThrowKeeps ==
  ASSUME IInv, NEW r \in Requests, NEW e, Throw(r, e),
         UNCHANGED <<role, bucket, passed, entitled>>
  PROVE  IInv'
  BY StatusRange, AnsweringKeeps DEF Throw

\* A guard throws because what it needs is out of reach.
LEMMA StruckKeeps ==
  ASSUME IInv, NEW r \in Requests, NEW e, StatusOf(e) >= 500, Struck(r, e),
         UNCHANGED <<role, bucket, passed, entitled>>
  PROVE  IInv'
  BY StatusRange, AnsweringKeeps DEF Struck

\* A request is passed on.
LEMMA PassingKeeps ==
  ASSUME IInv, NEW r \in Requests, NEW user \in Maybe(Roles),
         req[r].at \in {"global", "auth", "jwt", "roles"},
         req' = [req EXCEPT ![r].at = Then[req[r].at], ![r].user = user],
         req[r].at = "jwt" /\ user \in RequiredRoles(req[r].route) => r \in entitled,
         req[r].at = "roles" /\ RequiredRoles(req[r].route) # {} => r \in entitled,
         UNCHANGED <<role, bucket, passed, entitled>>
  PROVE  IInv'
  BY PassKeeps, CountersStay DEF IInv, TypeInv

\* A request arrives.
LEMMA ArriveKeeps ==
  ASSUME IInv, NEW r \in Requests, Arrive(r) PROVE IInv'
<1>1. PICK route \in Routes, client \in Clients, replica \in Replicas, token \in AccessToken :
        /\ req' = [req EXCEPT ![r] = [NoRequest EXCEPT !.at = "global", !.route = route,
                     !.client = client, !.replica = replica, !.token = token]]
        /\ entitled' = IF token # None /\ role[token.sub] \in RequiredRoles(route)
                       THEN entitled \cup {r} ELSE entitled \ {r}
        /\ UNCHANGED <<role, bucket, passed>>
  BY DEF Arrive, AccessToken
<1> DEFINE a == [NoRequest EXCEPT !.at = "global", !.route = route, !.client = client,
                                  !.replica = replica, !.token = token]
<1>2. /\ a \in Request /\ a.at = "global" /\ a.route = route /\ a.token = token
      /\ a.client = client /\ a.replica = replica /\ a.struck = FALSE
  <2>1. NoRequest \in Request /\ NoRequest.struck = FALSE
    BY DEF NoRequest, Request, Stages, Status, Maybe, AccessToken
  <2>2. /\ "global" \in Stages /\ route \in Maybe(Routes)
        /\ client \in Maybe(Clients) /\ replica \in Maybe(Replicas)
    BY DEF Stages, Maybe
  <2> QED BY <2>1, <2>2 DEF Request
<1> HIDE DEF a
<1>3. req' = [req EXCEPT ![r] = a] /\ req \in [Requests -> Request]
  BY <1>1 DEF a, IInv, TypeInv
<1>4. req' \in [Requests -> Request] /\ \A s \in Requests : Arrived(req'[s])
  BY <1>2, <1>3 DEF IInv, TypeInv, Arrived
<1>5. entitled' \in SUBSET Requests /\ \A s \in Requests \ {r} : s \in entitled <=> s \in entitled'
  BY <1>1 DEF IInv, TypeInv
<1>6. EntitledInv'
  <2>1. Entitles(r)'
    BY <1>1, <1>2, <1>3 DEF Entitles
  <2>2. \A s \in Requests \ {r} : Entitles(s)'
    BY <1>1, <1>3, <1>5 DEF IInv, EntitledInv, Entitles
  <2> QED BY <2>1, <2>2 DEF EntitledInv
<1>7. OutageIsNotRefusal'
  BY <1>2, <1>3 DEF IInv, OutageIsNotRefusal, At
<1> QED BY <1>1, <1>4, <1>5, <1>6, <1>7, CountersStay DEF IInv, TypeInv

\* A route without limits is passed on at once.
LEMMA SkipThrottleKeeps ==
  ASSUME IInv, NEW r \in Requests, NEW tier \in Tiers, SkipThrottle(r, tier) PROVE IInv'
<1>1. req[r].at \in {"global", "auth"}
  BY DEF SkipThrottle, At, Tiers
<1> QED BY <1>1, PassAsIs, PassingKeeps DEF SkipThrottle

\* The JWT guard attaches a user, throws, or is struck.
LEMMA AuthenticateKeeps ==
  ASSUME IInv, NEW r \in Requests, Authenticate(r) PROVE IInv'
<1>1. req[r].at = "jwt" /\ req[r] \in Request /\ Entitles(r)
  BY DEF Authenticate, At, IInv, TypeInv, EntitledInv
<1>2. UNCHANGED <<role, bucket, passed, entitled>>
  BY DEF Authenticate
<1>3. CASE Public(req[r].route) /\ Pass(r)
  <2>1. RequiredRoles(req[r].route) = {}
    BY <1>3 DEF Public, RequiredRoles
  <2> QED BY <1>1, <1>2, <1>3, <2>1, PassAsIs, PassingKeeps
<1>4. CASE \E err \in {None, "UnauthorizedException"} : Throw(r, HandleRequest(err))
  BY <1>2, <1>4, ThrowKeeps
<1>5. CASE /\ req[r].token # None
           /\ req' = [req EXCEPT ![r].at = Then[@], ![r].user = UserFromRow(r)]
  <2>1. req[r].token \in [sub: Users, role: Roles]
    BY <1>1, <1>5 DEF Request, AccessToken
  <2>2. UserFromRow(r) \in Maybe(Roles)
    BY <2>1 DEF UserFromRow, IInv, TypeInv, Maybe
  <2>3. UserFromRow(r) \in RequiredRoles(req[r].route) => r \in entitled
    BY <1>1, <1>5 DEF Entitles, Unauthenticated, UserFromRow
  <2> QED BY <1>1, <1>2, <1>5, <2>2, <2>3, PassingKeeps
<1> QED BY <1>3, <1>4, <1>5 DEF Authenticate

\* The roles guard compares the role it was given.
LEMMA AuthorizeKeeps ==
  ASSUME IInv, NEW r \in Requests, Authorize(r) PROVE IInv'
<1>1. /\ req[r].at = "roles" /\ Entitles(r)
      /\ UNCHANGED <<role, bucket, passed, entitled>>
  BY DEF Authorize, At, IInv, EntitledInv
<1>2. CASE Throw(r, "ForbiddenException")
  BY <1>1, <1>2, ThrowKeeps
<1>3. CASE /\ Pass(r)
           /\ RequiredRoles(req[r].route) = {} \/ req[r].user \in RequiredRoles(req[r].route)
  <2>1. RequiredRoles(req[r].route) # {} => r \in entitled
    BY <1>1, <1>3 DEF Entitles
  <2> QED BY <1>1, <1>3, <2>1, PassAsIs, PassingKeeps
<1> QED BY <1>2, <1>3 DEF Authorize

\* The handler answers.
LEMMA HandleKeeps ==
  ASSUME IInv, NEW r \in Requests, Handle(r) PROVE IInv'
<1>1. UNCHANGED <<role, bucket, passed, entitled>> /\ 200 \in Status
  BY DEF Handle, Status
<1>2. CASE Answer(r, 200, None, FALSE)
  BY <1>1, <1>2, AnsweringKeeps
<1>3. CASE \E e \in Exceptions[req[r].route] : Throw(r, e)
  BY <1>1, <1>3, ThrowKeeps
<1> QED BY <1>2, <1>3 DEF Handle

\* Redis or Postgres is away at whatever stage asks for it.
LEMMA OutageKeeps ==
  ASSUME IInv, NEW r \in Requests,
         \/ \E tier \in Tiers : ThrottleStruck(r, tier)
         \/ AuthenticateStruck(r) \/ HandleStruck(r)
  PROVE  IInv'
<1>1. PICK e : StatusOf(e) >= 500 /\ Struck(r, e)
  BY RedisIs500, UnreachableIs5xx DEF ThrottleStruck, AuthenticateStruck, HandleStruck
<1>2. UNCHANGED <<role, bucket, passed, entitled>>
  BY DEF ThrottleStruck, AuthenticateStruck, HandleStruck
<1> QED BY <1>1, <1>2, StruckKeeps

\* Whoever gains a role is entitled to what is under way.
LEMMA EditUserKeeps ==
  ASSUME IInv, NEW u \in Users, EditUser(u) PROVE IInv'
<1>1. PICK now \in Roles \cup {None} :
        /\ role' = [role EXCEPT ![u] = now]
        /\ entitled' = entitled \cup {r \in Requests :
             req[r].token # None /\ req[r].token.sub = u /\ now \in RequiredRoles(req[r].route)}
        /\ UNCHANGED <<bucket, req, passed>>
  BY DEF EditUser
<1>2. role \in [Users -> Roles \cup {None}] /\ entitled \in SUBSET Requests
  BY DEF IInv, TypeInv
<1>3. TypeInv'
  BY <1>1, <1>2 DEF IInv, TypeInv
<1>4. ASSUME NEW r \in Requests PROVE Entitles(r)'
  <2>1. Entitles(r) /\ req[r] \in Request
    BY DEF IInv, EntitledInv, TypeInv
  <2>2. req[r].token # None => req[r].token.sub \in Users
    BY <2>1 DEF Request, AccessToken
  <2> QED BY <1>1, <1>2, <2>1, <2>2 DEF Entitles
<1> QED BY <1>1, <1>3, <1>4, CountersStay DEF IInv, EntitledInv, OutageIsNotRefusal, At
----------------------------------------------------------------------------
\* No request is under way at first, and none is counted.
LEMMA InitIInv ==
  ASSUME Init PROVE IInv
<1>1. NoRequest \in Request
  BY DEF NoRequest, Request, Stages, Status, Maybe, AccessToken
<1>2. TypeInv
  BY <1>1 DEF Init, TypeInv, NoRequest, Arrived
<1>3. Counted
  <2> SUFFICES ASSUME NEW w \in Windows
               PROVE  passed[w] <= bucket[SharedKey(w)].hits /\ passed[w] <= Limit[w[1]]
    BY DEF Counted
  <2>1. SharedKey(w) \in Keys /\ w[1] \in Tiers
    BY SharedKeys DEF Windows
  <2>2. Limit[w[1]] \in Nat
    BY <2>1, PipelineAssumption
  <2>3. passed[w] = 0 /\ bucket[SharedKey(w)].hits = 0
    BY <2>1 DEF Init
  <2> QED BY <2>2, <2>3
<1>4. EntitledInv /\ OutageIsNotRefusal
  BY DEF Init, EntitledInv, Entitles, Unauthenticated, OutageIsNotRefusal, At, NoRequest
<1> QED BY <1>2, <1>3, <1>4 DEF IInv

\* Every step keeps the invariant.
LEMMA NextKeeps ==
  ASSUME IInv, [Next]_vars PROVE IInv'
<1>1. CASE UNCHANGED vars
  BY <1>1 DEF vars, IInv, TypeInv, Counted, EntitledInv, Entitles, OutageIsNotRefusal, At
<1>2. CASE \E r \in Requests :
             \/ Arrive(r) \/ Authenticate(r) \/ AuthenticateStruck(r) \/ Authorize(r)
             \/ Handle(r) \/ HandleStruck(r)
             \/ \E tier \in Tiers :
                  Throttle(r, tier) \/ ThrottleStruck(r, tier) \/ SkipThrottle(r, tier)
  BY <1>2, ArriveKeeps, AuthenticateKeeps, AuthorizeKeeps, HandleKeeps, OutageKeeps,
     ThrottleKeeps, SkipThrottleKeeps
<1>3. CASE \E k \in Keys : WindowEnds(k) \/ BlockEnds(k)
  BY <1>3, WindowEndsKeeps, BlockEndsKeeps
<1>4. CASE \E u \in Users : EditUser(u)
  BY <1>4, EditUserKeeps
<1> QED BY <1>1, <1>2, <1>3, <1>4 DEF Next

\* The invariant in every reachable state.
LEMMA Inductive == Spec => []IInv
<1> QED BY InitIInv, NextKeeps, PTL DEF Spec

\* Every request, key and row of AppModule's pipeline has its type.
THEOREM PipelineTypeCorrect == Spec => []PipelineTypeOK
<1>1. TypeInv => PipelineTypeOK
  <2> SUFFICES ASSUME TypeInv, NEW r \in Requests
               PROVE  /\ req[r].at \in DOMAIN Then \cup {"idle", "handler", "answered"}
                      /\ req[r].token \in {None} \cup [sub: Users, role: Roles]
                      /\ req[r].user \in Roles \cup {None}
                      /\ req[r].status \in 200..599
    BY DEF TypeInv, PipelineTypeOK
  <2>1. req[r] \in Request
    BY DEF TypeInv
  <2>2. req[r].at \in Stages
    BY <2>1 DEF Request
  <2> QED BY <2>1, <2>2 DEF Request, Stages, Then, AccessToken, Maybe, Status
<1> QED BY <1>1, Inductive, PTL DEF IInv

\* However many replicas and requests there are, no more requests of a client
\* pass a tier in one window than its limit (ThrottlerStorageRedisService).
THEOREM LimitAlwaysShared == Spec => []LimitShared
<1>1. Counted => LimitShared
  BY DEF Counted, LimitShared
<1> QED BY <1>1, Inductive, PTL DEF IInv

\* A restricted handler runs only for who held the role since the request came
\* (JwtStrategy.validate and RolesGuard).
THEOREM AccessAlwaysCurrent == Spec => []CurrentAccess
<1>1. EntitledInv => CurrentAccess
  BY DEF EntitledInv, Entitles, CurrentAccess, At
<1> QED BY <1>1, Inductive, PTL DEF IInv

\* No outage is answered below 500, whatever the guards and filters make of it.
THEOREM OutageNeverRefusal == Spec => []OutageIsNotRefusal
<1> QED BY Inductive, PTL DEF IInv
====
