---- MODULE Replica ----
(***************************************************************************)
(* The life of one replica: the environment it is started with,            *)
(* PrismaService.connectWithRetry before it listens, the liveness and      *)
(* readiness probes of HealthController and other requests once it does,   *)
(* the orchestrator that acts on the probes' answers, and the shutdown     *)
(* hooks.  A readiness probe races SELECT 1 against a timer; a query that  *)
(* lost the race keeps its connection of the pool until the database lets  *)
(* go of it.                                                               *)
(***************************************************************************)
EXTENDS Environment, FiniteSets, Sequences

CONSTANTS
    Probes,            \* readiness requests in flight; a slot is free again
                       \* when its request is answered and its query is over
    Calls,             \* other requests in flight, which query Postgres
    MaxStartupRetries, \* MAX_STARTUP_RETRIES
    PoolMax            \* DB_POOL_MAX

Requests == Probes \cup Calls

ASSUME ReplicaAssumption ==
    /\ IsFiniteSet(Requests) /\ Probes \cap Calls = {}
    /\ MaxStartupRetries \in Nat \ {0}
    /\ PoolMax \in Nat \ {0}

VARIABLES
    config,    \* of the environment, what matters here: see Started
    phase,     \* of the process
    attempt,   \* of connectWithRetry
    database,  \* up, down (refuses), or silent (answers nothing at all)
    redis,     \* up or down
    heapHigh,  \* heap above MEMORY_HEAP_THRESHOLD_BYTES
    req,       \* the requests
    waiting,   \* the pool's queue: requests without a connection
    rotation   \* whether the load balancer sends requests here

surroundings == <<config, database, redis, heapHigh>>
vars == <<phase, attempt, surroundings, req, waiting, rotation>>

\* A request: whether it is still to be answered, and where its query is.
Request == [open: BOOLEAN, query: {"none", "queued", "running"}]
NoRequest == [open |-> FALSE, query |-> "none"]

Outcomes == {"refused", "incomplete", "unusable", "unbound", "built"}

\* How far a start gets: validateEnv refuses, a constructor misses a variable,
\* or cannot use its value, or listen() cannot, or nothing is wrong.  To pg,
\* connectionTimeoutMillis 0 means none.
Started(env) == LET parsed == Parse(env) IN
    [boots |-> IF ~Accepted(env) THEN "refused"
               ELSE IF Missing(env) # {} THEN "incomplete"
               ELSE IF ~StorageUsable(parsed) \/ ~TrustProxyUsable(parsed) THEN "unusable"
               ELSE IF ~HostUsable(parsed) THEN "unbound" ELSE "built",
     connTimeout |-> parsed["DB_CONN_TIMEOUT_MS"] # "zero"]

Init ==
    /\ config \in {Started(env) : env \in Environments}
    /\ phase = "booting" /\ attempt = 1
    /\ database \in {"up", "down", "silent"}
    /\ redis \in {"up", "down"}
    /\ heapHigh = FALSE
    /\ req = [p \in Requests |-> NoRequest]
    /\ waiting = <<>>
    /\ rotation = FALSE

TypeOK ==
    /\ config \in [boots: Outcomes, connTimeout: BOOLEAN]
    /\ phase \in {"booting", "connecting", "backoff", "listening",
                  "closing", "draining", "exited"}
    /\ attempt \in 1..MaxStartupRetries
    /\ database \in {"up", "down", "silent"}
    /\ redis \in {"up", "down"}
    /\ heapHigh \in BOOLEAN /\ rotation \in BOOLEAN
    /\ req \in [Requests -> Request]
    /\ waiting \in Seq(Requests)

Listening == phase = "listening"
PoolFull == Cardinality({p \in Requests : req[p].query = "running"}) >= PoolMax

\* The process ends, and with it every request it has.
Exits == /\ phase' = "exited" /\ rotation' = FALSE
         /\ req' = [p \in Requests |-> NoRequest] /\ waiting' = <<>>
----------------------------------------------------------------------------
(* bootstrap(), and the container's restart policy *)

\* validateEnv throws while AppModule is loaded, a constructor in create(), and
\* Express when it is told whom to trust: all of them before onModuleInit.
Boot ==
    /\ phase = "booting"
    /\ phase' = IF config.boots \in {"unbound", "built"} THEN "connecting" ELSE "exited"
    /\ UNCHANGED <<attempt, surroundings, req, waiting, rotation>>

\* app.listen() runs onModuleInit, and binds the address when it is through.
Connect ==
    /\ phase = "connecting" /\ database = "up"
    /\ phase' = IF config.boots = "built" THEN "listening" ELSE "exited"
    /\ UNCHANGED <<attempt, surroundings, req, waiting, rotation>>

\* Refused, or silent for connectionTimeoutMillis.
AttemptFails == database = "down" \/ (database = "silent" /\ config.connTimeout)

\* Mutation: the last failure is waited for like the others.
ConnectFailsAlike ==
    /\ phase = "connecting" /\ AttemptFails
    /\ phase' = "backoff"
    /\ UNCHANGED <<attempt, surroundings, req, waiting, rotation>>

\* The last failure is thrown to bootstrap(), which exits.
ConnectFails ==
    /\ phase = "connecting" /\ AttemptFails
    /\ phase' = IF attempt = MaxStartupRetries THEN "exited" ELSE "backoff"
    /\ UNCHANGED <<attempt, surroundings, req, waiting, rotation>>

BackoffElapses ==
    /\ phase = "backoff"
    /\ phase' = "connecting" /\ attempt' = attempt + 1
    /\ UNCHANGED <<surroundings, req, waiting, rotation>>

\* restart: unless-stopped.
Restart ==
    /\ phase = "exited"
    /\ phase' = "booting" /\ attempt' = 1
    /\ UNCHANGED <<surroundings, req, waiting, rotation>>
----------------------------------------------------------------------------
(* Every request passes the global guards first *)

\* Mutation: the decorator is missing, or names a tier nobody configured.
HealthLimited == FALSE

\* @SkipThrottle over both tiers keeps the rate limiter away.
HealthSkipsThrottle == TRUE

\* The limiter's storage is Redis, and it throws when Redis is away.
Admitted(p) == (p \in Probes /\ HealthSkipsThrottle) \/ redis = "up"

\* liveness() itself checks nothing.  The orchestrator kills a replica whose
\* liveness probe fails.
LivenessProbe ==
    /\ Listening
    /\ IF HealthSkipsThrottle \/ redis = "up"
       THEN UNCHANGED <<phase, req, waiting, rotation>> ELSE Exits
    /\ UNCHANGED <<attempt, surroundings>>
----------------------------------------------------------------------------
(* GET /health/ready, GET /health, and the requests of clients *)

\* The query gets a connection at once when the pool has one left for it.
EnterPool(p) == LET queues == PoolFull \/ waiting # <<>> IN
    /\ req' = [req EXCEPT ![p] =
         [open |-> TRUE, query |-> IF queues THEN "queued" ELSE "running"]]
    /\ waiting' = IF queues THEN Append(waiting, p) ELSE waiting

\* A pool that has been ended, a limiter without Redis and a server that is
\* closed refuse at once.  The load balancer acts on the answers of probes, and
\* sends calls only while the replica is in its rotation.
Arrive(p) ==
    /\ phase \in {"listening", "closing", "draining"} /\ req[p] = NoRequest
    /\ p \in Calls => rotation
    /\ IF Listening /\ Admitted(p)
       THEN EnterPool(p) /\ UNCHANGED rotation
       ELSE rotation' = (rotation /\ p \notin Probes) /\ UNCHANGED <<req, waiting>>
    /\ UNCHANGED <<phase, attempt, surroundings>>

\* Mutation: the failed indicator returns its status instead of throwing it.
AnswerWithoutThrow(p, healthy, query) ==
    /\ req' = [req EXCEPT ![p] = [open |-> FALSE, query |-> query]]
    /\ rotation' = IF p \in Probes /\ req[p].open THEN ~heapHigh ELSE rotation
    /\ UNCHANGED <<phase, attempt, surroundings>>

\* The outcome of the race is the probe's answer; a query that ends after its
\* request was answered tells nobody.
Answer(p, healthy, query) ==
    /\ req' = [req EXCEPT ![p] = [open |-> FALSE, query |-> query]]
    /\ rotation' = IF p \in Probes /\ req[p].open THEN healthy /\ ~heapHigh ELSE rotation
    /\ UNCHANGED <<phase, attempt, surroundings>>

\* The pool serves its queue in order, until it is ended.
Connection ==
    /\ Listening /\ waiting # <<>> /\ ~PoolFull
    /\ req' = [req EXCEPT ![Head(waiting)].query = "running"]
    /\ waiting' = Tail(waiting)
    /\ UNCHANGED <<phase, attempt, surroundings, rotation>>

QuerySettles(p) ==
    /\ req[p].query = "running" /\ database # "silent"
    /\ Answer(p, database = "up", "none")
    /\ UNCHANGED waiting

\* A handler with another query asks the pool for a connection again.
NextQuery(p) ==
    /\ p \in Calls /\ req[p].query = "running" /\ database = "up"
    /\ IF Listening
       THEN \* the connection it gives back goes to the head of the queue
            IF waiting = <<>> THEN UNCHANGED <<req, waiting>>
            ELSE /\ req' = [req EXCEPT ![p].query = "queued", ![Head(waiting)].query = "running"]
                 /\ waiting' = Append(Tail(waiting), p)
       ELSE req' = [req EXCEPT ![p] = NoRequest] /\ UNCHANGED waiting
    /\ UNCHANGED <<phase, attempt, surroundings, rotation>>

Without(queue, i) == SubSeq(queue, 1, i - 1) \o SubSeq(queue, i + 1, Len(queue))

\* Mutation: the pool is not given connectionTimeoutMillis.
QueueWithoutTimeout(p) == FALSE /\ req[p].query = "queued" /\ UNCHANGED vars

\* Postgres does not answer, or the pool that would hand a connection on has
\* been ended.
Stalled == database # "up" \/ ~Listening

\* What keeps a request longer than its timers: that, or calls whose queries
\* hold the connections it waits for, though Postgres is up.
Delayed(p) == Stalled \/ (req[p].query = "queued" /\ \E c \in Calls : req[c].query = "running")

\* connectionTimeoutMillis without a connection from the pool.
QueueTimeout(p) ==
    /\ req[p].query = "queued" /\ config.connTimeout
    /\ Delayed(p)
    /\ Answer(p, FALSE, "none")
    /\ \E i \in DOMAIN waiting : waiting[i] = p /\ waiting' = Without(waiting, i)

\* Mutation: the query is awaited without a timer.
NeverTimesOut(p) == FALSE /\ req[p].open /\ UNCHANGED vars

\* HEALTH_CHECK_TIMEOUT_MS have passed, the wait for a connection included.
\* The query is not cancelled.  A database that is up answers SELECT 1 itself
\* sooner than that.
TimerFires(p) ==
    /\ p \in Probes /\ req[p].open
    /\ Delayed(p)
    /\ Answer(p, FALSE, req[p].query)
    /\ UNCHANGED waiting
----------------------------------------------------------------------------
(* SIGTERM: onModuleDestroy of Prisma and Redis, then server.close() *)

\* While an attempt to connect is on, pool.end() waits for it to end.
Terminate ==
    /\ phase \in {"backoff", "listening"}
    /\ phase' = "closing"
    /\ UNCHANGED <<attempt, surroundings, req, waiting, rotation>>

\* pool.end() has waited for the connections in use, not for the queue; Redis'
\* quit is answered or fails.  Only now does the server stop to accept.
HooksDone ==
    /\ phase = "closing"
    /\ \A p \in Requests : req[p].query # "running"
    /\ phase' = "draining"
    /\ UNCHANGED <<attempt, surroundings, req, waiting, rotation>>

\* server.close() waits for the requests it has.
Drained ==
    /\ phase = "draining"
    /\ \A p \in Requests : ~req[p].open
    /\ Exits
    /\ UNCHANGED <<attempt, surroundings>>
----------------------------------------------------------------------------
\* Postgres, Redis and the heap come and go as they like.
Surroundings ==
    /\ database' \in {"up", "down", "silent"}
    /\ redis' \in {"up", "down"}
    /\ heapHigh' \in BOOLEAN
    /\ UNCHANGED <<config, phase, attempt, req, waiting, rotation>>

Startup == Boot \/ Connect \/ ConnectFails \/ BackoffElapses \/ Restart
Shutdown == HooksDone \/ Drained
Progress(p) == QuerySettles(p) \/ QueueTimeout(p) \/ TimerFires(p)

Next ==
    \/ Startup \/ Shutdown \/ Terminate \/ LivenessProbe \/ Connection \/ Surroundings
    \/ \E p \in Requests : Arrive(p) \/ NextQuery(p) \/ Progress(p)

\* Attempts end, timers fire, a database that is not silent settles its
\* queries, the pool hands connections on, the container restarts, and both
\* kinds of probe are sent periodically.  A timer that is armed fires, however
\* the database flaps, and a handler has finitely many queries, so one that
\* settles again and again is its last.  Nothing is assumed of Surroundings, of
\* SIGTERM, of the calls that come, or of how often a probe waits behind them
\* for longer than its timer.
Fairness ==
    /\ WF_vars(Startup) /\ WF_vars(Shutdown) /\ WF_vars(LivenessProbe)
    /\ WF_vars(Connection)
    /\ \A p \in Requests : WF_vars(Progress(p))
    /\ \A p \in Probes : SF_vars(Stalled /\ TimerFires(p)) /\ WF_vars(Arrive(p))
    /\ \A p \in Calls : SF_vars(QuerySettles(p))

Spec == Init /\ [][Next]_vars /\ Fairness
----------------------------------------------------------------------------
(* Properties *)

\* What the schema and its cross-checks accept has every variable that the
\* constructors of the selected providers demand by getOrThrow, whichever those
\* are; otherwise a replica that passed validation would crash and be restarted
\* for ever.  What an accepted start can fail by is a value that is there, and
\* whose form the schema does not look at ("unusable" and "unbound").
AcceptedComplete == config.boots # "incomplete"

\* Every readiness probe is answered, also one whose query never returns
\* because the database has gone silent with the query's connection in hand, or
\* because the pool was ended while the query waited for one.
ProbesAnswered == \A p \in Probes : req[p].open ~> ~req[p].open

\* Once the database has gone for good, silently or not and in whatever order
\* those alternate, the replica leaves the rotation and stays out of it, though
\* probes and calls may have taken every connection of the pool meanwhile.
Withdrawn == <>[](database # "up") => <>[]~rotation

\* Once the database stays up and the heap low, a replica nobody stops comes to
\* listen and goes on listening, however long the outage was, how many
\* connections it had tied up, and whatever Redis does meanwhile: neither the
\* startup retries nor the liveness probe make it crash-loop.  And it is in the
\* rotation again and again: calls that hold the pool may make a probe time out,
\* but take the replica out of the rotation only until they are over.
ReadyAgain ==
    config.boots = "built" /\ <>[](database = "up" /\ ~heapHigh /\ phase \notin {"closing", "draining"})
    => <>[]Listening /\ []<>rotation

\* A replica that is told to stop exits, unless the database stays silent: no
\* connection in use and no queued query that the ended pool will never serve
\* holds it up for good.  Without connectionTimeoutMillis one of them would.
ShutdownEnds ==
    config.connTimeout /\ <>[](database # "silent")
    => (phase = "closing" ~> phase = "exited")
====
