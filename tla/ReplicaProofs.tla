---- MODULE ReplicaProofs ----
(***************************************************************************)
(* What can be proved of a replica's life: that what the schema accepts    *)
(* lacks nothing a constructor demands, whichever of its variables an      *)
(* operator gets wrong; and that the queue of the pool holds exactly the   *)
(* requests that await a connection, each once.                            *)
(***************************************************************************)
EXTENDS Replica, SequenceTheorems, TLAPS

\* How the schema treats the variables that constructors demand.
LEMMA KindsOfDemanded ==
  /\ \A v \in {"DATABASE_URL", "REDIS_URL", "JWT_ACCESS_SECRET"} : envSchema[v] = "required"
  /\ \A v \in {"JWT_ACCESS_EXPIRES_IN", "JWT_REFRESH_EXPIRES_IN"} : envSchema[v] = "duration"
  /\ \A v \in {"APP_NAME", "APP_DESCRIPTION"} : envSchema[v] = "named"
  /\ envSchema["APP_VERSION"] = "version" /\ envSchema["MAIL_FROM"] = "text"
  BY DEF envSchema

\* What it makes of their values: an error, or something.
LEMMA NeverUndefined ==
  ASSUME NEW raw \in Raw
  PROVE  /\ raw # "fine" => Kind["required"][raw] = "error"
         /\ \A k \in {"required", "duration", "named", "version", "text"} :
              Kind[k][raw] # "undefined"
  BY DEF Kind, Raw

\* They are variables of the schema.
LEMMA DemandedVariables ==
  Aws \cup Smtp \cup {"DATABASE_URL", "REDIS_URL", "JWT_ACCESS_SECRET",
     "JWT_ACCESS_EXPIRES_IN", "JWT_REFRESH_EXPIRES_IN", "APP_NAME",
     "APP_DESCRIPTION", "APP_VERSION", "MAIL_FROM"} \subseteq Variables
  BY DEF Aws, Smtp, Variables, envSchema

\* Hence what is accepted is there when it is demanded.
LEMMA AcceptedMissesNothing ==
  ASSUME NEW env \in Environments, Accepted(env) PROVE Missing(env) = {}
<1> DEFINE config0 == Parse(env)
<1>1. \A v \in Variables : env[v] \in Raw
  BY DEF Environments, Raw
<1>2. \A v \in Variables : config0[v] = Kind[envSchema[v]][env[v]]
  BY DEF Parse
<1>3. ASSUME NEW v \in Demanded(config0) PROVE config0[v] # "undefined"
  <2>1. CASE v \in Aws /\ Chosen(config0, "STORAGE_PROVIDER")
    BY <2>1 DEF Accepted, CrossChecks, Falsy
  <2>2. CASE v \in Smtp /\ Chosen(config0, "MAIL_PROVIDER")
    BY <2>2 DEF Accepted, CrossChecks, Falsy
  <2>3. CASE v \in {"DATABASE_URL", "REDIS_URL", "JWT_ACCESS_SECRET",
                    "JWT_ACCESS_EXPIRES_IN", "JWT_REFRESH_EXPIRES_IN", "APP_NAME",
                    "APP_DESCRIPTION", "APP_VERSION", "MAIL_FROM"}
    <3>1. envSchema[v] \in {"required", "duration", "named", "version", "text"}
      BY <2>3, KindsOfDemanded
    <3>2. v \in Variables /\ env[v] \in Raw
      BY <1>1, <2>3, DemandedVariables
    <3> QED BY <1>2, <3>1, <3>2, NeverUndefined
  <2> QED BY <2>1, <2>2, <2>3 DEF Demanded
<1> QED BY <1>3 DEF Missing

\* The same of the configuration a replica starts with.
LEMMA StartedIsComplete ==
  ASSUME NEW env \in Environments PROVE Started(env).boots # "incomplete"
  BY AcceptedMissesNothing DEF Started

\* No step changes the environment of a running container.
LEMMA ConfigKept == [Next]_vars => config' = config
<1> SUFFICES ASSUME [Next]_vars PROVE config' = config
  OBVIOUS
<1>1. CASE Startup \/ Shutdown \/ Terminate \/ LivenessProbe \/ Connection \/ Surroundings
  BY <1>1 DEF Startup, Boot, Connect, ConnectFails, BackoffElapses, Restart, Shutdown, HooksDone,
              Drained, Terminate, LivenessProbe, Connection, Surroundings, surroundings
<1>2. CASE \E p \in Requests : Arrive(p) \/ NextQuery(p) \/ Progress(p)
  BY <1>2 DEF Arrive, NextQuery, Progress, QuerySettles, QueueTimeout, TimerFires, Answer,
              surroundings
<1> QED BY <1>1, <1>2 DEF Next, vars, surroundings

\* Whichever of its variables are wrong, and whichever providers it selects, an
\* environment that validateEnv accepts has what the constructors demand by
\* getOrThrow.
THEOREM AcceptedAlwaysComplete == Spec => []AcceptedComplete
<1>1. Init => AcceptedComplete
  BY StartedIsComplete DEF Init, AcceptedComplete
<1>2. AcceptedComplete /\ [Next]_vars => AcceptedComplete'
  BY ConfigKept DEF AcceptedComplete
<1> QED BY <1>1, <1>2, PTL DEF Spec
----------------------------------------------------------------------------
(* The queue of the pool                                                   *)

\* The queries that have no connection are those in the queue, each once: the
\* pool forgets nobody who waits, and serves nobody twice.
QueueInv ==
    /\ \A p \in Requests : req[p].query = "queued" <=> \E i \in 1..Len(waiting) : waiting[i] = p
    /\ \A i, j \in 1..Len(waiting) : waiting[i] = waiting[j] => i = j

\* An attempt is only waited for when it was not the last.
RetriesLeft == phase = "backoff" => attempt < MaxStartupRetries

\* The inductive invariant of types and queue.
ReplicaInv == TypeOK /\ RetriesLeft /\ QueueInv

\* What a queue is without its first element, without one in the middle, and
\* with one more.
LEMMA TailQueue ==
  ASSUME NEW s \in Seq(Requests), s # <<>>
  PROVE  /\ Tail(s) \in Seq(Requests) /\ Head(s) \in Requests /\ Head(s) = s[1]
         /\ Len(Tail(s)) = Len(s) - 1 /\ Len(s) \in Nat \ {0}
         /\ \A i \in 1..Len(Tail(s)) : Tail(s)[i] = s[i + 1]
  OBVIOUS

\* ... without the one at k: those behind it move up.
LEMMA ShorterQueue ==
  ASSUME NEW s \in Seq(Requests), NEW k \in 1..Len(s)
  PROVE  /\ Without(s, k) \in Seq(Requests) /\ Len(Without(s, k)) = Len(s) - 1
         /\ \A i \in 1..Len(Without(s, k)) :
              Without(s, k)[i] = IF i < k THEN s[i] ELSE s[i + 1]
<1> DEFINE n == Len(s)
           a == SubSeq(s, 1, k - 1)
           z == SubSeq(s, k + 1, n)
           t == Without(s, k)
<1>0. n \in Nat /\ k \in Int /\ 1 <= k /\ k <= n
  OBVIOUS
<1>1. a \in Seq(Requests) /\ Len(a) = k - 1
  OBVIOUS
<1>2. z \in Seq(Requests) /\ Len(z) = n - k
  OBVIOUS
<1>3. \A i \in 1..(k - 1) : a[i] = s[i]
  OBVIOUS
<1>4. \A i \in 1..(n - k) : z[i] = s[i + k]
  OBVIOUS
<1>5. t = a \o z
  BY DEF Without
<1> HIDE DEF a, z, n, t
<1>6. /\ t \in Seq(Requests) /\ Len(t) = Len(a) + Len(z)
      /\ \A i \in 1..Len(a) + Len(z) : t[i] = IF i <= Len(a) THEN a[i] ELSE z[i - Len(a)]
  BY <1>1, <1>2, <1>5, ConcatProperties
<1>7. Len(t) = (k - 1) + (n - k)
  BY <1>1, <1>2, <1>6
<1>8. Len(t) = n - 1
  BY <1>0, <1>7
<1>9. ASSUME NEW i \in 1..(n - 1) PROVE t[i] = IF i < k THEN s[i] ELSE s[i + 1]
  <2>0. i \in Int /\ 1 <= i /\ i <= n - 1
    BY <1>0
  <2>1. CASE i < k
    <3>1. i <= k - 1 /\ i \in 1..(k - 1) /\ i \in 1..((k - 1) + (n - k))
      BY <1>0, <2>0, <2>1
    <3> QED BY <1>1, <1>2, <1>3, <1>6, <2>1, <3>1
  <2>2. CASE ~(i < k)
    <3>1. /\ ~(i <= k - 1) /\ i - (k - 1) \in 1..(n - k) /\ (i - (k - 1)) + k = i + 1
          /\ i \in 1..((k - 1) + (n - k))
      BY <1>0, <2>0, <2>2
    <3>2. t[i] = z[i - (k - 1)]
      BY <1>1, <1>2, <1>6, <3>1
    <3>3. z[i - (k - 1)] = s[i + 1]
      BY <1>4, <3>1
    <3> QED BY <2>2, <3>2, <3>3
  <2> QED BY <2>1, <2>2
<1> QED BY <1>6, <1>8, <1>9 DEF n, t

\* A replica starts with its first attempt and an empty queue.
LEMMA ReplicaStart == Init => ReplicaInv
<1> SUFFICES ASSUME Init PROVE ReplicaInv
  OBVIOUS
<1>1. config \in [boots: Outcomes, connTimeout: BOOLEAN]
  <2>1. PICK env \in Environments : config = Started(env)
    BY DEF Init
  <2>2. (Parse(env)["DB_CONN_TIMEOUT_MS"] # "zero") \in BOOLEAN
    OBVIOUS
  <2>3. Started(env).boots \in Outcomes
    BY DEF Started, Outcomes
  <2> QED BY <2>1, <2>2, <2>3 DEF Started
<1>2. waiting \in Seq(Requests) /\ Len(waiting) = 0 /\ req \in [Requests -> Request]
  BY DEF Init, NoRequest, Request
<1>3. TypeOK /\ RetriesLeft
  <2>1. attempt \in 1..MaxStartupRetries /\ phase = "booting"
    BY ReplicaAssumption DEF Init
  <2>2. /\ database \in {"up", "down", "silent"} /\ redis \in {"up", "down"}
        /\ heapHigh \in BOOLEAN /\ rotation \in BOOLEAN
    BY DEF Init
  <2> QED BY <1>1, <1>2, <2>1, <2>2 DEF TypeOK, RetriesLeft
<1>4. QueueInv
  BY <1>2 DEF Init, NoRequest, QueueInv
<1> QED BY <1>3, <1>4 DEF ReplicaInv

\* Steps that leave the requests alone.
LEMMA ElsewhereKeeps ==
  ASSUME ReplicaInv, \/ Startup \/ HooksDone \/ Terminate \/ LivenessProbe \/ Surroundings
                     \/ UNCHANGED vars
  PROVE  ReplicaInv'
<1>1. UNCHANGED <<req, waiting, config>>
  BY DEF Startup, Boot, Connect, ConnectFails, BackoffElapses, Restart, HooksDone, Terminate,
         LivenessProbe, HealthSkipsThrottle, Surroundings, surroundings, vars
<1>2. /\ MaxStartupRetries \in Nat \ {0} /\ attempt \in 1..MaxStartupRetries /\ RetriesLeft
      /\ phase \in {"booting", "connecting", "backoff", "listening",
                    "closing", "draining", "exited"}
  BY ReplicaAssumption DEF ReplicaInv, TypeOK
<1>3. /\ attempt' \in 1..MaxStartupRetries /\ RetriesLeft'
      /\ phase' \in {"booting", "connecting", "backoff", "listening",
                     "closing", "draining", "exited"}
  <2>1. CASE ConnectFails
    BY <1>2, <2>1 DEF ConnectFails, RetriesLeft
  <2>2. CASE BackoffElapses
    BY <1>2, <2>2 DEF BackoffElapses, RetriesLeft
  <2>3. CASE Boot \/ Connect \/ Restart \/ HooksDone \/ Terminate
    BY <1>2, <2>3 DEF Boot, Connect, Restart, HooksDone, Terminate, RetriesLeft
  <2>4. CASE UNCHANGED <<phase, attempt>>
    BY <1>2, <2>4 DEF RetriesLeft
  <2> QED BY <2>1, <2>2, <2>3, <2>4
          DEF Startup, LivenessProbe, HealthSkipsThrottle, Surroundings, vars
<1>4. /\ database' \in {"up", "down", "silent"} /\ redis' \in {"up", "down"}
      /\ heapHigh' \in BOOLEAN /\ rotation' \in BOOLEAN
  <2>1. CASE Surroundings
    BY <2>1 DEF Surroundings, ReplicaInv, TypeOK
  <2>2. CASE UNCHANGED <<database, redis, heapHigh, rotation>>
    BY <2>2 DEF ReplicaInv, TypeOK
  <2> QED BY <2>1, <2>2
          DEF Startup, Boot, Connect, ConnectFails, BackoffElapses, Restart, HooksDone,
              Terminate, LivenessProbe, HealthSkipsThrottle, surroundings, vars
<1>5. TypeOK'
  BY <1>1, <1>3, <1>4 DEF ReplicaInv, TypeOK
<1>6. QueueInv'
  BY <1>1 DEF ReplicaInv, QueueInv
<1> QED BY <1>3, <1>5, <1>6 DEF ReplicaInv

\* The process ends with all it has.
LEMMA DrainedKeeps ==
  ASSUME ReplicaInv, Drained
  PROVE  ReplicaInv'
<1>1. /\ phase' = "exited" /\ rotation' = FALSE /\ UNCHANGED <<attempt, surroundings>>
      /\ req' = [p \in Requests |-> NoRequest] /\ waiting' = <<>>
  BY DEF Drained, Exits
<1>2. waiting' \in Seq(Requests) /\ Len(waiting') = 0 /\ req' \in [Requests -> Request]
  BY <1>1 DEF NoRequest, Request
<1>3. TypeOK' /\ RetriesLeft'
  BY <1>1, <1>2 DEF ReplicaInv, TypeOK, RetriesLeft, surroundings
<1>4. QueueInv'
  BY <1>1, <1>2 DEF NoRequest, QueueInv
<1> QED BY <1>3, <1>4 DEF ReplicaInv

\* What the requests do to the queue: one joins it, the first is served, one
\* gives up, one is served and another joins, or none of this.
Joins(p) == /\ req[p].query # "queued" /\ req'[p].query = "queued"
            /\ waiting' = Append(waiting, p)
            /\ \A q \in Requests \ {p} : req'[q] = req[q]
First(p) == /\ waiting # <<>> /\ p = Head(waiting) /\ waiting' = Tail(waiting)
            /\ req'[p].query # "queued"
            /\ \A q \in Requests \ {p} : req'[q] = req[q]
GivesUp(p) == /\ \E i \in 1..Len(waiting) : waiting[i] = p /\ waiting' = Without(waiting, i)
              /\ req'[p].query # "queued"
              /\ \A q \in Requests \ {p} : req'[q] = req[q]
Swap(p) == /\ waiting # <<>> /\ req[p].query # "queued" /\ req'[p].query = "queued"
           /\ req'[Head(waiting)].query # "queued"
           /\ waiting' = Append(Tail(waiting), p)
           /\ \A q \in Requests \ {p, Head(waiting)} : req'[q] = req[q]
Same == /\ waiting' = waiting
        /\ \A q \in Requests : req'[q].query = "queued" <=> req[q].query = "queued"

\* Each of these leaves in the queue exactly those that await a connection, each
\* once.
LEMMA QueueKeeps ==
  ASSUME ReplicaInv, NEW p \in Requests,
         Joins(p) \/ First(p) \/ GivesUp(p) \/ Swap(p) \/ Same
  PROVE  waiting' \in Seq(Requests) /\ QueueInv'
<1>0. waiting \in Seq(Requests) /\ QueueInv /\ Len(waiting) \in Nat
  BY DEF ReplicaInv, TypeOK
<1>1. CASE Joins(p)
  <2>1. /\ waiting' \in Seq(Requests) /\ Len(waiting') = Len(waiting) + 1
        /\ \A i \in 1..Len(waiting) : waiting'[i] = waiting[i]
        /\ waiting'[Len(waiting) + 1] = p
    BY <1>0, <1>1 DEF Joins
  <2>2. \A i \in 1..Len(waiting) : waiting[i] # p
    BY <1>0, <1>1 DEF Joins, QueueInv
  <2>3. \A i \in 1..Len(waiting') : i \in 1..Len(waiting) \/ i = Len(waiting) + 1
    BY <1>0, <2>1
  <2>4. \A i \in 1..Len(waiting) + 1 : i \in 1..Len(waiting')
    BY <2>1
  <2> QED BY <1>0, <1>1, <2>1, <2>2, <2>3, <2>4 DEF Joins, QueueInv
<1>2. CASE First(p)
  <2>1. /\ waiting' \in Seq(Requests) /\ Head(waiting) = waiting[1]
        /\ Len(waiting') = Len(waiting) - 1 /\ Len(waiting) \in Nat \ {0}
        /\ \A i \in 1..Len(waiting') : waiting'[i] = waiting[i + 1]
    BY <1>0, <1>2, TailQueue DEF First
  <2>2. /\ \A i \in 1..Len(waiting') : i + 1 \in 1..Len(waiting) /\ i + 1 # 1
        /\ \A i \in 1..Len(waiting) : i # 1 => i - 1 \in 1..Len(waiting') /\ (i - 1) + 1 = i
        /\ 1 \in 1..Len(waiting)
        /\ \A i, j \in 1..Len(waiting') : i + 1 = j + 1 => i = j
    BY <2>1
  <2>3. \A i \in 1..Len(waiting) : i # 1 => waiting[i] # p
    BY <1>0, <1>2, <2>1, <2>2 DEF First, QueueInv
  <2>4. \A i \in 1..Len(waiting) : i # 1 => waiting'[i - 1] = waiting[i]
    BY <2>1, <2>2
  <2>5. ASSUME NEW q \in Requests
        PROVE  req'[q].query = "queued" <=> \E i \in 1..Len(waiting') : waiting'[i] = q
    <3>1. CASE q = p
      BY <1>2, <2>1, <2>2, <2>3, <3>1 DEF First
    <3>2. CASE q # p
      <4>1. req[q].query = "queued" <=> \E i \in 1..Len(waiting) : waiting[i] = q
        BY <1>0 DEF QueueInv
      <4>2. req'[q] = req[q] /\ waiting[1] # q
        BY <1>2, <2>1, <3>2 DEF First
      <4> QED BY <2>1, <2>2, <2>4, <4>1, <4>2
    <3> QED BY <3>1, <3>2
  <2>6. \A i, j \in 1..Len(waiting') : waiting'[i] = waiting'[j] => i = j
    BY <1>0, <2>1, <2>2 DEF QueueInv
  <2> QED BY <2>1, <2>5, <2>6 DEF QueueInv
<1>3. CASE GivesUp(p)
  <2>1. PICK k \in 1..Len(waiting) : waiting[k] = p /\ waiting' = Without(waiting, k)
    BY <1>3 DEF GivesUp
  <2>2. /\ waiting' \in Seq(Requests) /\ Len(waiting') = Len(waiting) - 1
        /\ \A i \in 1..Len(waiting') :
             waiting'[i] = IF i < k THEN waiting[i] ELSE waiting[i + 1]
    BY <1>0, <2>1, ShorterQueue
  <2> DEFINE from(i) == IF i < k THEN i ELSE i + 1
             to(i) == IF i < k THEN i ELSE i - 1
  <2>3. /\ \A i \in 1..Len(waiting') : from(i) \in 1..Len(waiting) /\ from(i) # k
        /\ \A i \in 1..Len(waiting) : i # k => to(i) \in 1..Len(waiting') /\ from(to(i)) = i
        /\ \A i, j \in 1..Len(waiting') : from(i) = from(j) => i = j
    BY <1>0, <2>2
  <2>4. \A i \in 1..Len(waiting') : waiting'[i] = waiting[from(i)]
    BY <2>2
  <2> HIDE DEF from, to
  <2>5. \A i \in 1..Len(waiting) : i # k => waiting[i] # p
    BY <1>0, <2>1 DEF QueueInv
  <2>6. ASSUME NEW q \in Requests
        PROVE  req'[q].query = "queued" <=> \E i \in 1..Len(waiting') : waiting'[i] = q
    <3>1. CASE q = p
      BY <1>3, <2>3, <2>4, <2>5, <3>1 DEF GivesUp
    <3>2. CASE q # p
      <4>1. req[q].query = "queued" <=> \E i \in 1..Len(waiting) : waiting[i] = q
        BY <1>0 DEF QueueInv
      <4>2. req'[q] = req[q] /\ waiting[k] # q
        BY <1>3, <2>1, <3>2 DEF GivesUp
      <4> QED BY <2>3, <2>4, <4>1, <4>2
    <3> QED BY <3>1, <3>2
  <2>7. \A i, j \in 1..Len(waiting') : waiting'[i] = waiting'[j] => i = j
    BY <1>0, <2>3, <2>4 DEF QueueInv
  <2> QED BY <2>2, <2>6, <2>7 DEF QueueInv
<1>4. CASE Swap(p)
  <2> DEFINE n == Len(waiting)
  <2>1. /\ waiting' \in Seq(Requests) /\ Head(waiting) = waiting[1] /\ Len(waiting') = n
        /\ n \in Nat \ {0} /\ waiting[1] \in Requests
        /\ \A i \in 1..(n - 1) : waiting'[i] = waiting[i + 1]
        /\ waiting'[n] = p
    <3>1. /\ Tail(waiting) \in Seq(Requests) /\ Head(waiting) = waiting[1]
          /\ Len(Tail(waiting)) = n - 1 /\ n \in Nat \ {0} /\ Head(waiting) \in Requests
          /\ \A i \in 1..(n - 1) : Tail(waiting)[i] = waiting[i + 1]
      BY <1>0, <1>4, TailQueue DEF Swap
    <3>2. waiting' = Append(Tail(waiting), p)
      BY <1>4 DEF Swap
    <3> QED BY <3>1, <3>2
  <2>2. \A i \in 1..n : waiting[i] # p
    BY <1>0, <1>4 DEF Swap, QueueInv
  <2>3. /\ \A i \in 1..n : i \in 1..(n - 1) \/ i = n
        /\ \A i \in 1..(n - 1) : i + 1 \in 1..n /\ i + 1 # 1 /\ i \in 1..n
        /\ \A i \in 1..n : i # 1 => i - 1 \in 1..(n - 1) /\ (i - 1) + 1 = i
        /\ \A i, j \in 1..(n - 1) : i + 1 = j + 1 => i = j
        /\ 1 \in 1..n /\ n \in 1..n
    BY <2>1
  <2> HIDE DEF n
  <2>4. ASSUME NEW q \in Requests
        PROVE  req'[q].query = "queued" <=> \E i \in 1..n : waiting'[i] = q
    <3>0. req[q].query = "queued" <=> \E i \in 1..n : waiting[i] = q
      BY <1>0 DEF QueueInv, n
    <3>1. CASE q = p
      BY <1>4, <2>1, <2>3, <3>1 DEF Swap
    <3>2. CASE q = waiting[1]
      <4>1. \A i \in 1..n : waiting[i] = q => i = 1
        BY <1>0, <2>3, <3>2 DEF QueueInv, n
      <4>2. q # p /\ req'[q].query # "queued"
        BY <1>4, <2>1, <2>2, <2>3, <3>2 DEF Swap
      <4> QED BY <2>1, <2>3, <4>1, <4>2
    <3>3. CASE q # p /\ q # waiting[1]
      <4>1. req'[q] = req[q]
        BY <1>4, <2>1, <3>3 DEF Swap
      <4>2. \A i \in 1..n : i # 1 => waiting'[i - 1] = waiting[i] /\ i - 1 \in 1..n
        BY <2>1, <2>3
      <4>3. ASSUME NEW i \in 1..n, waiting[i] = q PROVE \E j \in 1..n : waiting'[j] = q
        <5>1. i # 1
          BY <3>3, <4>3
        <5> QED BY <4>2, <4>3, <5>1
      <4>4. ASSUME NEW i \in 1..n, waiting'[i] = q PROVE \E j \in 1..n : waiting[j] = q
        <5>1. i # n
          BY <2>1, <3>3, <4>4
        <5>2. i \in 1..(n - 1) /\ i + 1 \in 1..n
          BY <2>3, <5>1
        <5>3. waiting[i + 1] = q
          BY <2>1, <4>4, <5>2
        <5> QED BY <5>2, <5>3
      <4> QED BY <3>0, <4>1, <4>3, <4>4
    <3> QED BY <3>1, <3>2, <3>3
  <2>5. \A i, j \in 1..n : waiting'[i] = waiting'[j] => i = j
    BY <1>0, <2>1, <2>2, <2>3 DEF QueueInv, n
  <2> QED BY <2>1, <2>4, <2>5 DEF QueueInv, n
<1>5. CASE Same
  BY <1>0, <1>5 DEF Same, QueueInv
<1> QED BY <1>1, <1>2, <1>3, <1>4, <1>5

\* The steps of the requests, and what they do to the queue.
LEMMA RequestsMove ==
  ASSUME ReplicaInv, \/ Connection
                     \/ \E p \in Requests : Arrive(p) \/ NextQuery(p) \/ Progress(p)
  PROVE  /\ UNCHANGED <<phase, attempt, surroundings>> /\ rotation' \in BOOLEAN
         /\ req' \in [Requests -> Request]
         /\ \E p \in Requests : Joins(p) \/ First(p) \/ GivesUp(p) \/ Swap(p) \/ Same
<1>0. /\ req \in [Requests -> Request] /\ waiting \in Seq(Requests) /\ QueueInv
      /\ rotation \in BOOLEAN /\ heapHigh \in BOOLEAN
  BY DEF ReplicaInv, TypeOK
<1>1. CASE Connection
  <2>1. /\ waiting # <<>> /\ Head(waiting) \in Requests
        /\ req' = [req EXCEPT ![Head(waiting)].query = "running"]
        /\ waiting' = Tail(waiting) /\ rotation' = rotation
        /\ UNCHANGED <<phase, attempt, surroundings>>
    BY <1>0, <1>1, TailQueue DEF Connection
  <2>2. /\ req' \in [Requests -> Request] /\ req'[Head(waiting)].query = "running"
        /\ \A q \in Requests \ {Head(waiting)} : req'[q] = req[q]
    BY <1>0, <2>1 DEF Request
  <2> QED BY <1>0, <2>1, <2>2 DEF First
<1>2. ASSUME NEW p \in Requests, Arrive(p) \/ NextQuery(p) \/ Progress(p)
      PROVE  /\ UNCHANGED <<phase, attempt, surroundings>> /\ rotation' \in BOOLEAN
             /\ req' \in [Requests -> Request]
             /\ Joins(p) \/ First(p) \/ GivesUp(p) \/ Swap(p) \/ Same
  <2>0. UNCHANGED <<phase, attempt, surroundings>>
    BY <1>2 DEF Arrive, NextQuery, Progress, QuerySettles, QueueTimeout, TimerFires, Answer
  <2>1. CASE UNCHANGED <<req, waiting>> /\ rotation' \in BOOLEAN
    BY <1>0, <2>0, <2>1 DEF Same
  <2>2. CASE Arrive(p) /\ EnterPool(p) /\ rotation' = rotation
    <3>1. req[p].query = "none"
      BY <2>2 DEF Arrive, NoRequest
    <3>2. CASE PoolFull \/ waiting # <<>>
      <4>1. /\ req' = [req EXCEPT ![p] = [open |-> TRUE, query |-> "queued"]]
            /\ waiting' = Append(waiting, p)
        BY <2>2, <3>2 DEF EnterPool
      <4>2. /\ req' \in [Requests -> Request] /\ req'[p].query = "queued"
            /\ \A q \in Requests \ {p} : req'[q] = req[q]
        BY <1>0, <4>1 DEF Request
      <4> QED BY <1>0, <2>0, <2>2, <3>1, <4>1, <4>2 DEF Joins
    <3>3. CASE ~(PoolFull \/ waiting # <<>>)
      <4>1. /\ req' = [req EXCEPT ![p] = [open |-> TRUE, query |-> "running"]]
            /\ waiting' = waiting
        BY <2>2, <3>3 DEF EnterPool
      <4>2. /\ req' \in [Requests -> Request] /\ req'[p].query = "running"
            /\ \A q \in Requests \ {p} : req'[q] = req[q]
        BY <1>0, <4>1 DEF Request
      <4> QED BY <1>0, <2>0, <2>2, <3>1, <4>1, <4>2 DEF Same
    <3> QED BY <3>2, <3>3
  <2>3. CASE NextQuery(p)
    <3>1. CASE req' = [req EXCEPT ![p] = NoRequest] /\ waiting' = waiting
      <4>1. /\ req' \in [Requests -> Request] /\ req'[p].query = "none"
            /\ \A q \in Requests \ {p} : req'[q] = req[q]
        BY <1>0, <3>1 DEF NoRequest, Request
      <4> QED BY <1>0, <2>0, <2>3, <3>1, <4>1 DEF NextQuery, Same
    <3>2. CASE /\ waiting # <<>>
               /\ req' = [req EXCEPT ![p].query = "queued", ![Head(waiting)].query = "running"]
               /\ waiting' = Append(Tail(waiting), p)
      <4>1. Head(waiting) \in Requests /\ Head(waiting) = waiting[1] /\ 1 \in 1..Len(waiting)
        BY <1>0, <3>2, TailQueue
      <4>2. req[p].query = "running" /\ Head(waiting) # p
        BY <1>0, <2>3, <4>1 DEF NextQuery, QueueInv
      <4>3. /\ req' \in [Requests -> Request]
            /\ req'[p].query = "queued" /\ req'[Head(waiting)].query = "running"
            /\ \A q \in Requests \ {p, Head(waiting)} : req'[q] = req[q]
        BY <1>0, <3>2, <4>1, <4>2 DEF Request
      <4> QED BY <1>0, <2>0, <2>3, <3>2, <4>2, <4>3 DEF NextQuery, Swap
    <3> QED BY <1>0, <2>1, <2>3, <3>1, <3>2 DEF NextQuery
  <2>4. ASSUME NEW healthy \in BOOLEAN, NEW query \in {"none", "queued", "running"},
               Answer(p, healthy, query)
        PROVE  /\ rotation' \in BOOLEAN /\ req' \in [Requests -> Request]
               /\ req'[p].query = query
               /\ \A q \in Requests \ {p} : req'[q] = req[q]
    BY <1>0, <2>4 DEF Answer, Request
  <2>5. CASE QuerySettles(p)
    <3>1. /\ Answer(p, database = "up", "none") /\ (database = "up") \in BOOLEAN
          /\ req[p].query = "running" /\ waiting' = waiting
      BY <2>5 DEF QuerySettles
    <3>2. /\ rotation' \in BOOLEAN /\ req' \in [Requests -> Request] /\ req'[p].query = "none"
          /\ \A q \in Requests \ {p} : req'[q] = req[q]
      BY <2>4, <3>1
    <3> QED BY <2>0, <3>1, <3>2 DEF Same
  <2>6. CASE QueueTimeout(p)
    <3>1. /\ rotation' \in BOOLEAN /\ req' \in [Requests -> Request] /\ req'[p].query = "none"
          /\ \A q \in Requests \ {p} : req'[q] = req[q]
      BY <2>4, <2>6 DEF QueueTimeout
    <3>2. \E i \in 1..Len(waiting) : waiting[i] = p /\ waiting' = Without(waiting, i)
      BY <1>0, <2>6 DEF QueueTimeout
    <3> QED BY <2>0, <3>1, <3>2 DEF GivesUp
  <2>7. CASE TimerFires(p)
    <3>1. req[p].query \in {"none", "queued", "running"}
      BY <1>0 DEF Request
    <3>2. /\ rotation' \in BOOLEAN /\ req' \in [Requests -> Request]
          /\ req'[p].query = req[p].query /\ waiting' = waiting
          /\ \A q \in Requests \ {p} : req'[q] = req[q]
      BY <2>4, <2>7, <3>1 DEF TimerFires
    <3> QED BY <2>0, <3>2 DEF Same
  <2> QED BY <1>0, <1>2, <2>1, <2>2, <2>3, <2>5, <2>6, <2>7 DEF Arrive, Progress
<1> QED BY <1>1, <1>2

\* Every step keeps the invariant.
LEMMA ReplicaStep == ReplicaInv /\ [Next]_vars => ReplicaInv'
<1> SUFFICES ASSUME ReplicaInv, [Next]_vars PROVE ReplicaInv'
  OBVIOUS
<1>1. ASSUME \/ Connection
             \/ \E p \in Requests : Arrive(p) \/ NextQuery(p) \/ Progress(p)
      PROVE  ReplicaInv'
  <2>1. /\ UNCHANGED <<phase, attempt, surroundings>> /\ rotation' \in BOOLEAN
        /\ req' \in [Requests -> Request]
        /\ waiting' \in Seq(Requests) /\ QueueInv'
    BY <1>1, RequestsMove, QueueKeeps
  <2> QED BY <2>1 DEF ReplicaInv, TypeOK, RetriesLeft, surroundings
<1> QED BY <1>1, ElsewhereKeeps, DrainedKeeps DEF Next, Shutdown

\* The invariant in every reachable state.
LEMMA ReplicaInvariance == Spec => []ReplicaInv
BY ReplicaStart, ReplicaStep, PTL DEF Spec

\* A replica's variables have their types: it never attempts to connect more
\* often than MAX_STARTUP_RETRIES, and the queue of its pool holds requests.
THEOREM ReplicaTypeCorrect == Spec => []TypeOK
BY ReplicaInvariance, PTL DEF ReplicaInv

\* However many requests come, time out, are served out of the queue or rejoin
\* it with another query, those that await a connection are those in the queue,
\* each once.
THEOREM QueueAlwaysExact == Spec => []QueueInv
BY ReplicaInvariance, PTL DEF ReplicaInv
====
