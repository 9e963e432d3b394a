---- MODULE Settings ----
(***************************************************************************)
(* SettingsService: the singleton row of app_settings in Postgres and its  *)
(* copy in Redis, read and written by several requests (or replicas) at a  *)
(* time.  Each await on Postgres or Redis is one atomic action.            *)
(***************************************************************************)
EXTENDS Integers, FiniteSets

CONSTANTS
    Requests,      \* getSettings() and updateSettings() calls in flight
    RedisMayFail,  \* whether a Redis command may be rejected
    UpdateBound,   \* bound: how often the row changes
    None

ASSUME SettingsAssumption ==
    /\ IsFiniteSet(Requests)
    /\ RedisMayFail \in BOOLEAN
    /\ UpdateBound \in Nat

Flags == [allowRegistration: BOOLEAN, enableGoogleLogin: BOOLEAN]

\* A settings value with a history component: which change of the row made it.
Settings == [flags: Flags, version: Nat]

\* A PATCH names some of the flags, at least one.
UpdateSettingsDto == [{"allowRegistration"} -> BOOLEAN]
    \cup [{"enableGoogleLogin"} -> BOOLEAN] \cup Flags

FALLBACK_SETTINGS == [allowRegistration |-> TRUE, enableGoogleLogin |-> TRUE]

VARIABLES
    row,         \* the row with id 1; None on a database not seeded yet
    cache,       \* the key app:settings; None when absent or expired
    req,         \* the requests: where they await, and what they have read
    staleFills   \* history: writes of an older value into the cache since
                 \* the row last changed

vars == <<row, cache, req, staleFills>>

NoRequest == [pc |-> "idle", value |-> None]
Awaits == {"idle", "get.row", "get.fill", "update.write"}

Init ==
    /\ row \in {None, [flags |-> FALLBACK_SETTINGS, version |-> 0]}
    /\ cache = None
    /\ req = [r \in Requests |-> NoRequest]
    /\ staleFills = 0

\* What a read of the row gives.
Current == IF row = None THEN [flags |-> FALLBACK_SETTINGS, version |-> 0] ELSE row

At(r, await) == req[r].pc = await
Await(r, await, value) == req' = [req EXCEPT ![r] = [pc |-> await, value |-> value]]
Respond(r) == req' = [req EXCEPT ![r] = NoRequest]
----------------------------------------------------------------------------
(* getSettings *)

\* Mutation: a hit renews the key's time to live.
ReadCacheRenewing(r) ==
    /\ At(r, "idle")
    /\ \/ cache # None /\ Await(r, "get.fill", cache)
       \/ (cache = None \/ RedisMayFail) /\ Await(r, "get.row", None)
    /\ UNCHANGED <<row, cache, staleFills>>

\* A hit is returned at once and changes nothing; a miss, or a read Redis
\* rejects, goes on to the database.
ReadCache(r) ==
    /\ At(r, "idle")
    /\ cache = None \/ RedisMayFail
    /\ Await(r, "get.row", None)
    /\ UNCHANGED <<row, cache, staleFills>>

ReadRow(r) ==
    /\ At(r, "get.row")
    /\ Await(r, "get.fill", Current)
    /\ UNCHANGED <<row, cache, staleFills>>

\* SET ... EX 300, or nothing when Redis rejects it: the error is swallowed.
WriteCache(value) ==
    \/ cache' = value /\ staleFills' = IF value.version < Current.version
                                       THEN staleFills + 1 ELSE staleFills
    \/ RedisMayFail /\ UNCHANGED <<cache, staleFills>>

Fill(r) ==
    /\ At(r, "get.fill")
    /\ WriteCache(req[r].value)
    /\ Respond(r)
    /\ UNCHANGED <<row>>
----------------------------------------------------------------------------
(* updateSettings *)

\* Mutation: the flags the PATCH does not name are lost.
OnlyNamed(dto) == [flags |-> dto, version |-> Current.version + 1]

\* The upsert writes the named flags over the row, or over the fallback.
Merged(dto) == [flags |-> [f \in DOMAIN FALLBACK_SETTINGS |->
                             IF f \in DOMAIN dto THEN dto[f] ELSE Current.flags[f]],
                version |-> Current.version + 1]

Upsert(r) == \E dto \in UpdateSettingsDto :
    /\ At(r, "idle")
    /\ Current.version < UpdateBound
    /\ row' = Merged(dto)
    /\ staleFills' = 0
    /\ Await(r, "update.write", Merged(dto))
    /\ UNCHANGED <<cache>>

WriteThrough(r) ==
    /\ At(r, "update.write")
    /\ WriteCache(req[r].value)
    /\ Respond(r)
    /\ UNCHANGED row
----------------------------------------------------------------------------
(* Around the service *)

\* Mutation: SET without EX.
NeverExpires == FALSE /\ UNCHANGED vars

\* SETTINGS_CACHE_TTL_SECONDS have passed.
Expire ==
    /\ cache # None
    /\ cache' = None
    /\ UNCHANGED <<row, req, staleFills>>

\* The replica dies or the statement awaited fails.
Abort(r) ==
    /\ ~At(r, "idle")
    /\ Respond(r)
    /\ UNCHANGED <<row, cache, staleFills>>

\* "a direct DB edit" (settings.constants.ts): the cache does not learn of it.
DirectEdit == \E dto \in UpdateSettingsDto :
    /\ row # None
    /\ Current.version < UpdateBound
    /\ row' = Merged(dto)
    /\ staleFills' = 0
    /\ UNCHANGED <<cache, req>>

Resume(r) == ReadRow(r) \/ Fill(r) \/ WriteThrough(r)

Next ==
    \/ \E r \in Requests : ReadCache(r) \/ Upsert(r) \/ Resume(r) \/ Abort(r)
    \/ Expire
    \/ DirectEdit

\* Postgres and Redis answer or reject, so a suspended request resumes; and a
\* key written with EX expires.
Fairness == (\A r \in Requests : WF_vars(Resume(r))) /\ WF_vars(Expire)

Spec == Init /\ [][Next]_vars /\ Fairness
----------------------------------------------------------------------------
(* Properties *)

\* Every variable has its type.
TypeOK ==
    /\ row \in Settings \cup {None}
    /\ cache \in Settings \cup {None}
    /\ req \in [Requests -> [pc: Awaits, value: Settings \cup {None}]]
    /\ staleFills \in Nat

\* After the row has changed, the value it had before is written to the cache
\* at most once by each request that was in flight: a hit never renews it.  So
\* staleness ends after that many TTLs, not "at the next write".
StaleFillsBounded == staleFills <= Cardinality(Requests)

\* Once the row no longer changes, the cache comes to agree with it or to be
\* empty for good, whatever was cached, in flight or lost before.
CacheConverges == <>[](cache # None => cache = Current)
====
