---- MODULE Pipeline ----
(***************************************************************************)
(* What AppModule puts before and behind every handler: ThrottlerGuard,    *)
(* JwtAuthGuard and RolesGuard in the order of their registration, then    *)
(* the two exception filters.  The throttler counts in the Redis that all  *)
(* replicas share; roles and accounts change while requests run.           *)
(***************************************************************************)
EXTENDS Integers, FiniteSets

CONSTANTS
    Requests,  \* requests in flight, on all replicas together
    Replicas,
    Clients,   \* what the throttler's tracker, req.ip, tells apart
    Users,
    Roles,     \* of the Role enum
    Routes,    \* of "register", "me", "settings", "live": see the decorators
    Limit,     \* requests in a window, by tier
    None

Tiers == {"global", "auth"}

ASSUME PipelineAssumption ==
    /\ IsFiniteSet(Requests)
    /\ Limit \in [Tiers -> Nat \ {0}]
    /\ None \notin Roles \cup Users

\* Decorators of POST /auth/register, GET /auth/me, PATCH /settings and
\* GET /health/live, which stand for the four kinds of routes there are.
Public(route) == route \in {"register", "live"}
RequiredRoles(route) == IF route = "settings" THEN {"SUPER_ADMIN"} ELSE {}
OptsIn(route) == route = "register"
Skips(route) == route = "live"

VARIABLES
    role,     \* the role in each user's row; None when out of service
    bucket,   \* the throttler's keys in storage: hits, and whether blocked
    req,      \* the requests
    passed,   \* history: requests let through in a key's window
    entitled  \* history: requests whose user held a required role since they
              \* arrived

vars == <<role, bucket, req, passed, entitled>>

\* A request: where it is, the access token it brought, the user's role as the
\* guards attached it; and of its answer the status, the tier that refused it,
\* and whether Redis or Postgres had failed it.
NoRequest == [at |-> "idle", route |-> None, client |-> None, replica |-> None,
              token |-> None, user |-> None,
              status |-> 200, refusedBy |-> None, struck |-> FALSE]

At(r, stage) == req[r].at = stage

\* Mutation: the package's default storage, a map in each replica's memory.
OwnMemory(replica) == replica

\* ThrottlerStorageRedisService over the shared client.
StorageOf(replica) == "redis"

Keys == Tiers \X Routes \X Clients \X (Replicas \cup {"redis"})
KeyOf(r, tier) == <<tier, req[r].route, req[r].client, StorageOf(req[r].replica)>>

\* The windows a client has, whatever storage counts them.
Windows == Tiers \X Routes \X Clients
WindowOf(key) == <<key[1], key[2], key[3]>>

Init ==
    /\ role \in [Users -> Roles]
    /\ bucket = [k \in Keys |-> [hits |-> 0, blocked |-> FALSE]]
    /\ req = [r \in Requests |-> NoRequest]
    /\ passed = [w \in Windows |-> 0]
    /\ entitled = {}

Then == [global |-> "auth", auth |-> "jwt", jwt |-> "roles", roles |-> "handler"]
Pass(r) == req' = [req EXCEPT ![r].at = Then[@]]
----------------------------------------------------------------------------
(* The exception filters, and a request's arrival and answer *)

\* PrismaClientExceptionFilter runs first; a code it does not know is a 500.
PrismaStatus ==
    [PrismaClientValidationError |-> 400, PrismaClientInitializationError |-> 503,
     P2002 |-> 409, P2003 |-> 422, P2014 |-> 422, P2025 |-> 404, P2024 |-> 503,
     P2011 |-> 400, P2012 |-> 400, P1001 |-> 500]

HttpStatus ==
    [BadRequestException |-> 400, UnauthorizedException |-> 401,
     ForbiddenException |-> 403, ThrottlerException |-> 429]

\* Mutation: no default for what is neither.
StatusWithoutDefault(exception) ==
    IF exception \in DOMAIN PrismaStatus THEN PrismaStatus[exception]
    ELSE IF exception \in DOMAIN HttpStatus THEN HttpStatus[exception] ELSE 0

\* HttpExceptionFilter takes the rest: what is no HttpException is a 500.
StatusOf(exception) ==
    IF exception \in DOMAIN PrismaStatus THEN PrismaStatus[exception]
    ELSE IF exception \in DOMAIN HttpStatus THEN HttpStatus[exception] ELSE 500

\* What a query throws when Postgres is away, or the pool is exhausted.
Unreachable == {"PrismaClientInitializationError", "P2024", "P1001", "Error"}
ASSUME NoneIsNoError == None \notin Unreachable

Answer(r, status, refusedBy, struck) == req' = [req EXCEPT ![r] =
    [NoRequest EXCEPT !.at = "answered", !.route = req[r].route,
                      !.status = status, !.refusedBy = refusedBy, !.struck = struck]]

Throw(r, exception) == Answer(r, StatusOf(exception), None, FALSE)
Struck(r, exception) == Answer(r, StatusOf(exception), None, TRUE)

\* A client calls, with no valid access token or with a user's, whose role is
\* that of the day it was signed.
Arrive(r) == \E route \in Routes, client \in Clients, replica \in Replicas,
                token \in {None} \cup [sub: Users, role: Roles] :
    /\ At(r, "idle") \/ At(r, "answered")
    /\ req' = [req EXCEPT ![r] = [NoRequest EXCEPT !.at = "global", !.route = route,
                 !.client = client, !.replica = replica, !.token = token]]
    /\ entitled' = IF token # None /\ role[token.sub] \in RequiredRoles(route)
                   THEN entitled \cup {r} ELSE entitled \ {r}
    /\ UNCHANGED <<role, bucket, passed>>
----------------------------------------------------------------------------
(* ThrottlerGuard: the tiers by increasing ttl *)

\* INCR, and PEXPIRE at the first hit, are one script.  A key over its limit is
\* blocked for blockDuration, which is its ttl; hits go on counting meanwhile.
\* Bound: they are counted to one past the limit.
Throttle(r, tier) == LET k == KeyOf(r, tier)
                         hits == bucket[k].hits + 1
                         refused == bucket[k].blocked \/ hits > Limit[tier] IN
    /\ At(r, tier) /\ ~Skips(req[r].route)
    /\ bucket' = [bucket EXCEPT ![k] =
         [hits |-> IF hits > Limit[tier] THEN Limit[tier] + 1 ELSE hits, blocked |-> refused]]
    /\ IF refused
       THEN Answer(r, StatusOf("ThrottlerException"), tier, FALSE) /\ UNCHANGED passed
       ELSE Pass(r) /\ passed' = [passed EXCEPT ![WindowOf(k)] = @ + 1]
    /\ UNCHANGED <<role, entitled>>

\* Nobody catches what the storage throws when Redis is away.
ThrottleStruck(r, tier) ==
    /\ At(r, tier) /\ ~Skips(req[r].route)
    /\ Struck(r, "MaxRetriesPerRequestError")
    /\ UNCHANGED <<role, bucket, passed, entitled>>

SkipThrottle(r, tier) ==
    /\ At(r, tier) /\ Skips(req[r].route)
    /\ Pass(r)
    /\ UNCHANGED <<role, bucket, passed, entitled>>

WindowEnds(k) ==
    /\ bucket[k].hits > 0
    /\ bucket' = [bucket EXCEPT ![k].hits = 0]
    /\ passed' = [passed EXCEPT ![WindowOf(k)] = 0]
    /\ UNCHANGED <<role, req, entitled>>

BlockEnds(k) ==
    /\ bucket[k].blocked
    /\ bucket' = [bucket EXCEPT ![k].blocked = FALSE]
    /\ UNCHANGED <<role, req, passed, entitled>>
----------------------------------------------------------------------------
(* JwtAuthGuard with JwtStrategy, and RolesGuard *)

\* Mutation: whatever goes wrong is "Authentication required".
HandleRequestAlike(err) == "UnauthorizedException"

\* handleRequest rethrows the strategy's error, if there is one.
HandleRequest(err) == IF err = None THEN "UnauthorizedException" ELSE err

\* Mutation: validate() trusts the payload and saves the query.
UserFromPayload(r) == req[r].token.role

\* validate(): the row in service, as it is now; None if there is none.
UserFromRow(r) == role[req[r].token.sub]

Authenticate(r) ==
    /\ At(r, "jwt")
    /\ \/ Public(req[r].route) /\ Pass(r)
       \/ ~Public(req[r].route) /\ req[r].token = None /\ Throw(r, HandleRequest(None))
       \/ /\ ~Public(req[r].route) /\ req[r].token # None
          /\ IF UserFromRow(r) = None
             THEN Throw(r, HandleRequest("UnauthorizedException"))
             ELSE req' = [req EXCEPT ![r].at = Then[@], ![r].user = UserFromRow(r)]
    /\ UNCHANGED <<role, bucket, passed, entitled>>

AuthenticateStruck(r) == \E err \in Unreachable :
    /\ At(r, "jwt") /\ ~Public(req[r].route) /\ req[r].token # None
    /\ Struck(r, HandleRequest(err))
    /\ UNCHANGED <<role, bucket, passed, entitled>>

Authorize(r) == LET required == RequiredRoles(req[r].route) IN
    /\ At(r, "roles")
    /\ IF required = {} \/ req[r].user \in required
       THEN Pass(r) ELSE Throw(r, "ForbiddenException")
    /\ UNCHANGED <<role, bucket, passed, entitled>>
----------------------------------------------------------------------------
(* The pipes and the handler *)

\* What a pipe or the handler may throw; getMe and liveness cannot fail.
Exceptions == [register |-> {"BadRequestException", "ForbiddenException", "P2002"},
               settings |-> {"BadRequestException"}, me |-> {}, live |-> {}]

\* The interceptor wraps what the handler returns.
Handle(r) ==
    /\ At(r, "handler")
    /\ \/ Answer(r, 200, None, FALSE)
       \/ \E e \in Exceptions[req[r].route] : Throw(r, e)
    /\ UNCHANGED <<role, bucket, passed, entitled>>

HandleStruck(r) == \E err \in Unreachable :
    /\ At(r, "handler") /\ Exceptions[req[r].route] # {}
    /\ Struck(r, err)
    /\ UNCHANGED <<role, bucket, passed, entitled>>

\* Somebody promotes, demotes, deactivates or restores a user.
EditUser(u) == \E now \in Roles \cup {None} :
    /\ role' = [role EXCEPT ![u] = now]
    /\ entitled' = entitled \cup {r \in Requests :
         req[r].token # None /\ req[r].token.sub = u /\ now \in RequiredRoles(req[r].route)}
    /\ UNCHANGED <<bucket, req, passed>>

Next ==
    \/ \E r \in Requests :
         \/ Arrive(r) \/ Authenticate(r) \/ AuthenticateStruck(r) \/ Authorize(r)
         \/ Handle(r) \/ HandleStruck(r)
         \/ \E tier \in Tiers :
              Throttle(r, tier) \/ ThrottleStruck(r, tier) \/ SkipThrottle(r, tier)
    \/ \E k \in Keys : WindowEnds(k) \/ BlockEnds(k)
    \/ \E u \in Users : EditUser(u)

Spec == Init /\ [][Next]_vars
----------------------------------------------------------------------------
(* Properties *)

\* Every variable has its type.
PipelineTypeOK ==
    /\ role \in [Users -> Roles \cup {None}]
    /\ bucket \in [Keys -> [hits: Nat, blocked: BOOLEAN]]
    /\ passed \in [Windows -> Nat]
    /\ entitled \in SUBSET Requests
    /\ \A r \in Requests :
         /\ req[r].at \in DOMAIN Then \cup {"idle", "handler", "answered"}
         /\ req[r].token \in {None} \cup [sub: Users, role: Roles]
         /\ req[r].user \in Roles \cup {None}
         /\ req[r].status \in 200..599

\* README: limits are "shared correctly across replicas".  However many replicas
\* a client's requests are spread over and however they interleave, no more of
\* them pass a tier in one window than its limit.
LimitShared == \A w \in Windows : passed[w] <= Limit[w[1]]

\* A restricted handler runs only for a user who was in service with a role it
\* requires at some moment since the request arrived: a demotion takes effect
\* at the next request, not when the access token with the old role expires.
CurrentAccess == \A r \in Requests :
    At(r, "handler") /\ RequiredRoles(req[r].route) # {} => r \in entitled

\* An outage is never answered as the client's fault: a 401 or 429 because
\* Postgres or Redis was away would sign users out, or have them back off.
OutageIsNotRefusal == \A r \in Requests :
    At(r, "answered") /\ req[r].struck => req[r].status >= 500

\* README: "a loose global limit on every route, a tight limit opt-in on
\* sensitive auth endpoints": the tight limit refuses only who opted in.
AuthTierIsOptIn == \A r \in Requests : req[r].refusedBy = "auth" => OptsIn(req[r].route)
====
