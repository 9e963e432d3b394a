# TLA+ models of the NestJS Prisma starter kit

A formal model of this backend: the authentication service and its three tables,
the browser at the other end of the refresh cookie, the settings cache and the gates
that read it, file storage, the guards and filters around every handler, and the life
of a replica from its environment to its exit. The models are translated from the
source under `src/`; TLC checks them on small instances, and TLAPS proves their types and
their safety properties for every value of the constants.

Paths below are relative to the repository (`src/auth/...` is
`src/src/auth/...` in `PROJECT.json`).

## 1. Inventory

The application is a stateless Node.js process, of which several replicas may run.
State lives in Postgres, Redis, a disk or a bucket; the concurrency that matters is
between HTTP requests, in one replica or in several, which interleave at every
`await`. Nothing takes a lock: Prisma statements are atomic by themselves, and
`$transaction([...])` batches are atomic as a whole.

| Part | State | Operations | Interacts with | What is hard | What makes it correct |
| --- | --- | --- | --- | --- | --- |
| `AuthService` (`auth/auth.service.ts`) | tables `users`, `refresh_tokens`, `password_reset_tokens` | register, login, refresh, logout, logout-all, Google login, forgot and reset password | Settings (two gates), Mail, JWT strategy | check-then-act over awaits, parallel guesses, replays, replicas dying between two statements, accounts edited meanwhile | lockout holds against bursts, rotation and sweeps close sessions, one account per mailbox, credentials only to accounts in service |
| Auth controller (`auth/auth.controller.ts`) | the refresh cookie in the browser | set, clear, receive | AuthService | cookie path and lifetime, answers late, reordered or lost, two tabs | an honest browser never trips the replay alarm; no session is left over unaccounted for |
| `SettingsService` (`settings/`) | row 1 of `app_settings`, key `app:settings` in Redis | get (read-through), update (write-through) | Auth, Redis | late fills, writes in the other order, Redis failing, edits past the API | the cache converges; staleness is bounded; a closed gate comes to hold |
| Storage (`storage/`) | files or objects under `<folder>/<uuid><ext>` | upload, stream, delete | two providers | half-written files, deletes racing reads, aborts | what was answered is whole and readable; what was deleted stays deleted |
| Guards (`auth/guards`, `auth/strategies`) | none; read `users` | authenticate, role check | every route | tokens that outlive changes of the account, errors taken for refusals | the row is read anew for every request |
| Rate limiting (`app.module.ts`) | counters in Redis | two tiers | every route | replicas that count together, Redis outage, which tier applies where | limits hold across replicas; health is never limited |
| Filters, envelope, pipes (`common/filters`, `common/interceptors`, `common/pipes`) | none | map errors to answers | every route | an outage answered as a refusal | every error has a status, an outage one above 499 |
| Environment (`common/config/env.validation.ts`) | none | parse, cross-check | every constructor | which variables a selected provider needs; values nobody looks at before they are used | what is accepted lacks nothing that is demanded |
| Bootstrap, `PrismaService`, health (`main.ts`, `database/`, `health/`) | the process, the pool, requests in flight | connect with retry, listen, probe, SIGTERM, close | Postgres, Redis-backed limiter, orchestrator | silent database, exhausted pool, crash loops, resources closed under running requests | out of rotation when the database is gone, back when it is there, however busy the pool is; stops when it is told to |
| Mail (`mail/`) | none | send | forgot-password | failure after the token is stored | a token without mail is never used |
| Redis service (`common/redis`) | one connection | commands, quit | Settings, limiter | fail-fast, shutdown | commands fail rather than hang |
| Google strategy, seeders, logging, configuration helpers | none | | | | |

`PROJECT.json` lists every component with its status, and under `hazards` each place
where the code is hard to test, with the properties that watch it.

## 2. Modules

| Module | Models | Read it with |
| --- | --- | --- |
| `AuthService` | the service: one action per `await` of each endpoint | `auth/auth.service.ts`, `prisma/schema.prisma` |
| `Lockout` | `AuthService` + history variables for the failed-login threshold | `login`, `recordFailedAttempt` |
| `LateLocks` | `Lockout` + a count of locks that land after the account was cleared | `recordFailedAttempt`, `.env.example` |
| `SessionStore` | abstract: sessions that are opened, rotated, closed | |
| `Sessions` | `AuthService` + the lineage of tokens; implements `SessionStore` | `refresh`, `logoutAll`, `resetPassword` |
| `Accounts` | `AuthService` + counters of credentials issued | the `isActive`/`deletedAt` gates, reset tokens |
| `Browser` | `AuthService` composed with browsers, their cookies and answers on the way | `auth/auth.controller.ts` |
| `Settings` | row, cache, calls in flight | `settings/settings.service.ts` |
| `Gates` | `Settings` composed with the requests that act on its flags | `register`, `googleLogin` |
| `Storage` | objects, requests in flight, either provider | `storage/**` |
| `Pipeline` | throttler, JWT guard, roles guard, handler, exception filters on several replicas | `app.module.ts`, `auth/guards`, `jwt.strategy.ts`, `common/filters` |
| `Environment` | the schema, the cross-checks, what constructors demand and which values a start fails by (no state) | `common/config/env.validation.ts`, the constructors, `common/config/resolve-trust-proxy.util.ts` |
| `Replica` | one process from `Environment` to its exit, its pool, probes and calls | `main.ts`, `database/prisma.service.ts`, `database/db.health.ts`, `health/health.controller.ts` |
| `MC...` | instances for TLC | |
| `AuthServiceProofs`, `BrowserProofs`, `StorageProofs`, `PipelineProofs`, `ReplicaProofs` | theorems about the module of the same name | |
| `LockoutProofs` | theorems about `Lockout` and `LateLocks` | |
| `CredentialProofs` | theorems about `Sessions` and `Accounts` | |
| `SettingsProofs` | theorems about `Gates`, and so `Settings` | |

### How the models correspond to the code

- **Atomicity.** A request runs from one `await` on Postgres, Redis, the disk or
  the object store to the next; each statement, and each `$transaction([...])`
  batch, is one action. `bcrypt` and JWT signing change no shared state: the
  delay they add is part of the gap between the two actions around them.
- **Request state.** `req[r]` is what the handler keeps in local variables over its
  awaits (`pc` names the await). Tables are read only in the action of the
  statement that reads them; a later action uses what `req[r]` remembers, so
  every check-then-act gap of the code is a gap of the model.
- **Refusals.** In the service modules a request refused before it has written
  anything (400, 401, 403, 404, 409, 413, 415) changes nothing: it is a stuttering
  step and has no action. Which status it gets is the subject of `Pipeline`.
- **Failure.** `Abort(r)` ends a request at any await: the replica died, the
  statement failed, mail was not sent. Nothing after that await is executed and
  nothing before it is undone.
- **Time.** A lock, a refresh token, a reset token, the cache key, a window of the
  limiter and a block may run out at any moment (`LockElapses`, `TokenExpires`,
  `ResetTokenExpires`, `Expire`, `WindowEnds`, `BlockEnds`); no property depends on
  how long they last, but for the cookie, below.
- **Secrets.** `sha256` and `bcrypt` are equality, a fresh random token is one that
  is not yet in its table. A client of `AuthService` may present any token ever
  issued, also a revoked one; a reset token only after it was mailed; an object key
  only after an upload was answered with it.
- **External steps.** Nothing in the repository writes `isActive`, `deletedAt` or a
  role of an existing account: `AccountEdited` and `EditUser` are an operator who
  does. `DirectEdit` is an edit of `app_settings` past the API, which
  `settings.constants.ts` speaks of.
- `TokenRow.state` folds `expiresAt` and `revokedAt` (and `usedAt`) into the three
  states the code can tell apart; it asks for `expiresAt` only where `revokedAt`
  is null.
- **`Browser`.** A browser sends a request with the cookie it has at that moment, if
  the cookie's path is a prefix of the route's; the answer of a handler that ran to
  its end sets or clears the cookie when it is delivered, which may be late, in
  another order, or never. Only `refresh` finds a cookie: its path is
  `/api/v1/auth/refresh`. A cookie expires after the row it stands for, since both
  last `JWT_REFRESH_EXPIRES_IN` and the row is written first. A sign-in in the model
  is a login by password; the Google callback sets the same cookie in the same way.
  `disturbed` forgets a browser only when it signs in with the right password and has
  nothing else under way: a 401 leaves the old cookie in place.
- **`Gates`.** In `AuthService` the two flags of Settings are inputs (a closed gate is
  a refused request); `Gates` is where they are read: at the first await of
  `register` and `googleLogin`, from the cache or from the row, and acted on several
  awaits later (`Admit`).
- **`Pipeline`.** Four routes stand for the four kinds the decorators make: public and
  opting in to the tight tier (`register`), public and skipping both (`live`),
  authenticated (`me`), restricted to a role (`settings`). Tiers are looked at by
  increasing `ttl`, as `ThrottlerGuard` sorts them. A step named `...Struck` is the
  same stage with Redis or Postgres away. `PrismaStatus` and `HttpStatus` are the
  filters' mapping from exception to status; the order of registration makes the
  Prisma filter look first. The storage and its script are a library, modelled from
  its use: increment, expiry at the first hit, and block are one atomic command.
- **`Environment`.** A raw value is absent, blank, zero, malformed or fine; `Kind` says
  what each kind of schema (`preprocess`, `coerce`, `default`, `optional`) makes of
  each. `Number('')` is 0, so a blank `DB_..._MS` is a zero; a blank `SMTP_SECURE` or
  `DB_SSL` is an error, since no preprocessing turns it into `undefined`. A malformed
  value of a kind that takes any string stays one. Three of these make a start fail:
  `LOCAL_STORAGE_DEST` (`mkdirSync` in the provider's constructor, when that provider is
  selected), `TRUST_PROXY` (`app.set`, which has Express parse the list) and `HOST`
  (`app.listen`); and so does a blank `STORAGE_AWS_REGION` with the other provider, whose
  client is not built without a region. A `DATABASE_URL` or `REDIS_URL` that is a URL but
  leads nowhere is a database that is down, or a Redis.
- **`Replica`.** `Started(env)` keeps of an environment what decides anything later:
  how far the start gets (`refused` by validation, `incomplete` when `getOrThrow` throws,
  `unusable` when a constructor or Express does over a value, `unbound` when `listen`
  does after the database was reached, or `built`), and whether
  `DB_CONN_TIMEOUT_MS` is a timeout at all (0 means none to pg). A query gets a
  connection of the pool or queues for one; a probe that lost the race against
  `HEALTH_CHECK_TIMEOUT_MS` is answered, and its query goes on. A database is up,
  down (refuses at once), or silent (accepts and never answers). The timers of a
  request may run out (`Delayed`) when the database is not up, when the pool was ended,
  or when it waits for connections that calls hold, which may have queries of any length;
  only `SELECT 1` itself, once it has a connection to a database that is up, is taken to
  be answered in time. On SIGTERM the hooks run before the
  server stops to accept, as Nest does: `onModuleDestroy` ends the pool, which waits
  for connections in use and not for the queue (`closing`), then the server closes,
  which waits for its requests (`draining`). A `SIGKILL` is not modelled: the restart
  after it is the state from which `Init` starts.

History variables never restrict a step of the code, except for the named bounds below.

## 3. Runs

| Run | Config | Instance | Shows |
| --- | --- | --- | --- |
| `lockout` | `MCLockout.cfg` | 1 account, 2 requests, threshold 3 | `ThresholdLocks`, `GuessesBounded`, `LateLocksBounded` |
| `sessions` | `MCSessions.cfg` | 2 accounts, 2 requests, 4 tokens | `SurvivorsBounded`, `RotationsBounded`, refinement of `SessionStore` |
| `accounts_password` | `MCAccountsPassword.cfg` | 1 account, 2 requests, 4 tokens, 1 reset token | `RememberedRows`, `ResetUsesBounded`, `DeactivationBounded`, `DeletionBounded` |
| `accounts_google` | `MCAccountsGoogle.cfg` | 2 accounts, 2 Google ids, 3 spellings of 2 addresses, 3 tokens | `OneAccountPerIdentity`, `DeactivationBounded`, `RememberedRows` |
| `browser` | `MCBrowser.cfg` | 1 account, 2 browsers, 2 requests, 3 tokens, right and wrong passwords | `QuietCookieValid`, `OpenSessionsAccounted` |
| `settings` | `MCSettings.cfg` | 3 requests, 2 changes of the row, failing Redis, both gates | `StaleFillsBounded`, `CacheConverges`, `ClosedGateHolds` |
| `storage` | `MCStorage.cfg` | 3 requests, 3 objects, both providers | `KnownObjectsWhole`, `StreamsWhole`, `RemovedStayRemoved` |
| `pipeline` | `MCPipeline.cfg` | 2 requests, 2 replicas, 1 client, 1 user, limits 2 and 1, a restricted and a health route | `LimitShared`, `CurrentAccess`, `OutageIsNotRefusal` |
| `replica` | `MCReplica.cfg` | 2 probes and a call over 1 connection, 5 attempts, 8 variables of the environment with any kind of value | `AcceptedComplete`, `ProbesAnswered`, `Withdrawn`, `ReadyAgain`, `ShutdownEnds` |

Each module's type invariant is checked in a run of it as well. Every property of these runs
has a mutant in `PROJECT.json`: an operator, marked "Mutation" in the module, that
replaces a definition the way a plausible bug would, and breaks the property.

What the runs say, in words:

- *Lockout.* The number of wrong passwords compared exceeds the threshold by at
  most one for each request in flight (and one for each request that died before
  it recorded or locked, and one lock's worth after each lock that ran out). The
  comment "can't ... slip past the lockout threshold" is about lost updates, and
  none is lost: the excess is the requests that had passed the gate before. An
  account that a login or a reset has cleared may be locked again by a failed
  attempt that was under way, by fewer of them than there are requests, and never by
  one that came later.
- *Sessions.* A sweep ends every session but those that other requests in flight
  are about to issue; a token has at most one successor for each request in flight.
- *Accounts.* After deactivation (and deletion, except by Google) only requests
  that had read the row before still issue a credential. Two resets in a race may
  both use one mailed token; no more than the requests in flight can.
- *Browser.* A browser that sends one request at a time, loses no answer and does not
  retry after a 401 always holds a token that `refresh` does not take for a replay.
  `disturbed` collects the browsers that did otherwise; for these the alarm may close
  every session of the account, which is what `auth.service.ts:163` does for any
  revoked token.
- *Settings.* An update that was answered may be followed by one read of the old
  value for each request in flight, and each of these may put it back into the cache
  for another `SETTINGS_CACHE_TTL_SECONDS`; then it is over. A gate that stays closed
  lets in nobody from then on.
- *Storage.* Uploads, streams and deletes do not disturb one another: only the client
  that was told a key can ask for it.
- *Pipeline.* Replicas share one limit. Somebody demoted or deactivated keeps access
  for the requests that had arrived, not for the life of the token. An outage answers
  500 or 503.
- *Replica.* A replica whose database is gone leaves the rotation, and comes back when
  it is there, without being killed for it. Calls that hold the pool's connections may
  make a probe time out with Postgres up, and the replica leaves the rotation for it; then
  no more calls come, and the next probe puts it back (`ReadyAgain` says it is in the
  rotation again and again; that it stays there for good is false). SIGTERM ends it; a
  request that needs another query after the pool has ended is answered with an error.

Three runs expect a violation. Each checks one sentence of the README or of a comment
against what the code does, and has an entry under `findings`:

| Run | Config | Sentence | What the run shows |
| --- | --- | --- | --- |
| `google_deleted` | `MCGoogleDeleted.cfg` | every gate "re-checks deletedAt/isActive" | Google sign-in of a soft-deleted account goes on issuing sessions |
| `throttle` | `MCThrottle.cfg` | "a tight limit opt-in on sensitive auth endpoints" | the tight tier applies to every route that does not skip it: `GET /auth/me` is refused by it |
| `logout` | `MCLogout.cfg` | "Revokes the current device's session" | the cookie's path keeps it from `/auth/logout`, which then revokes nothing |

What else we met and leave to prose, since a run could only restate it:

- `README.md` calls reset tokens "one-time": in a race one is used twice
  (`ResetUsesBounded` says how often at most).
- "Revokes every session for the user" has the exceptions of `SurvivorsBounded`, and
  "a read right after this update never serves the stale pre-update value" those of
  `StaleFillsBounded`.
- The extension of a stored key is the client's (`s3-storage.provider.ts:43`,
  `local-storage.provider.ts:26`) and is not checked against `SAFE_FILENAME_PATTERN`,
  which every later request for the key must match: an object with an odd extension
  is stored, its URL answered, and refused with 400 for good.
- Some environments pass validation and crash at every start, to be restarted by
  `restart: unless-stopped` without end: a `LOCAL_STORAGE_DEST` under a file or where the
  process may not write (`local-storage.provider.ts:18`), a `TRUST_PROXY` that is no list
  of subnets (`main.ts:54`), a `HOST` that is no address of the machine (`main.ts:147`),
  a blank `STORAGE_AWS_REGION`. `AcceptedComplete` is about what is missing, not about
  these. The repository's README promises that the app "refuses to boot with a
  missing/invalid value rather than failing later at request time", and that it does.
- `DB_CONN_TIMEOUT_MS` may be 0, also by being blank. Then a connection attempt
  against a silent database does not end, and neither does a wait for the pool.
  `ShutdownEnds` excludes it; the other properties of `Replica` hold with it.

### Bounds, and why they are enough

- `FailureBound`: no login is begun at this many recorded failures. Above the
  threshold the code does not distinguish counts; the lockout run has 8 with a
  threshold of 3. The browser run has 2: there a wrong password matters for what it does
  to the cookie, which is nothing, and not for the lock.
- `GuessBound`: wrong passwords watched since the account was last cleared (6 =
  threshold + two requests + one more).
- `SweepBound`: sweeps of one account (1). The properties compare a token with the
  latest sweep; an instance with 2 was also run by hand and passes.
- `UpdateBound`: changes of the settings row (2): an old value, a newer one, and
  one that may be overwritten.
- `Throttle` counts hits to one past the limit; beyond it the code does not
  distinguish them.
- Two concurrent requests suffice for every interleaving of one check-then-act with
  one other writer; Settings, Storage and Replica have three, since a third party (a
  reader, a deleter, a call that takes the only connection) sees the outcome of two
  others.
- Four tokens allow login, two competing rotations, and one more issue. The browser run
  has three: a session on each browser, and a rotation or a second sign-in of one; the
  theorems of `BrowserProofs` cover more.
- The pipeline's limits, 2 and 1, are small enough that two requests meet both.
- `Watched`, in the replica run, is eight variables that take part in a cross-check, in a
  timeout, or in a way to fail after validation, with five kinds of values each, which
  reach every outcome of a start but `incomplete`; `AcceptedAlwaysComplete` covers the rest.
- Finite sets of tokens and ids make the models stop when they are spent: those
  runs set `CHECK_DEADLOCK FALSE`. `Settings` and `Replica` never stop, and
  deadlock is checked there.
- Symmetry is used over requests, tokens, browsers, replicas, Google ids and object
  ids in runs without liveness; no definition tells two of them apart.

### Fairness

Only `Settings` (with `Gates`) and `Replica` have liveness properties.

- `Settings`: WF of `Resume(r)`: Postgres and Redis answer or reject (statement
  timeout; `maxRetriesPerRequest: 3`). WF of `Expire`: every write carries `EX 300`.
  `Gates` has the same for its steps, and WF of `Admit(r)`: hashing and lookups end.
  Aborts, updates and edits are not fair.
- `Replica`: WF of the startup and shutdown steps (connection timeout, `setTimeout`,
  `restart: unless-stopped` of `docker-compose.yml`, Nest's hooks), of both periodic
  probes (the Dockerfile's HEALTHCHECK, an orchestrator's probes), and of each
  request's progress (timers fire; a database that is not silent settles its queries;
  the pool serves its queue in order). SF of `TimerFires` while the database
  or the pool is stalled: one that flaps does not stop the clock. No such fairness for a
  probe that waits behind calls, since it may as well be served in time. SF of `QuerySettles` for calls: a handler has finitely many queries, so one
  that goes on to the next (`NextQuery`) does not do so for ever. Nothing is assumed
  about the database, Redis, the heap, SIGTERM or the calls that come: the properties
  say what follows *if* the database stays away, or stays up.

## 4. Proofs

TLAPS checks eight modules without gaps. Every invariant and every action property that
a passing run checks is a theorem, for every value of the constants, with one condition
(`DeletionBounded`, below). The assumptions are the named `ASSUME`s of the modules proved
about:

- `None` is no member of the data sets, nor a record that stands for a tab, nor the order
  to clear a cookie; lower-casing is idempotent; thresholds, limits and pool sizes are
  positive.
- `Requests` is finite and not empty; so are a replica's requests finite. A server has
  finitely many requests at a time; without that, no bound "one for each request in
  flight" says anything.
- The seeded table has distinct lower-case addresses, no failures and no Google ids:
  `prisma/seeders/user.seeder.ts` sets neither `failedLoginAttempts` nor `googleId`.

All the other sets may be infinite.

The bounds share one argument. "At most one for each request in flight" is not inductive:
a step that adds one more has to know how many were added before, and by whom. It becomes
inductive when what happened is counted together with the requests that are still about to
make it happen: the sum is at most the requests. A step that makes it happen moves its
request from the second count to the first; and a request joins the second count only at a
lookup, where the guard of the code shows that the first is zero (a token not revoked, an
account in service, a reset token unused), so that all requests together still fit.

- **`AuthServiceProofs`**: `TypeCorrect`, `RowsRemembered`. `RememberedRows` is
  inductive with `TypeOK`: rows are never removed and tokens never change hands, so
  what a request has looked up stays true whichever action another request takes. The
  proof has one lemma per group of actions and one for the requests that do not move.
  Three lemmas say, once for all the modules that compose `Step`, what a step can do: to
  the request that takes it (`StepMoves`: it begins, goes on, or ends, and what it has in
  hand when it does), to the accounts (`StepAccounts`: it inserts one, links one, or leaves
  who they are), and to the tokens (`TokenMoves`: it opens at most one, for its own user,
  and revokes what the await it is at says).
- **`LockoutProofs`**: `LockoutTypeCorrect`, `ThresholdLocksAlways`,
  `GuessesAlwaysBounded`, `LateImplementsLockout`, `LateLocksAlwaysBounded`. The
  strengthening `LockoutInv` relates three things: an account below the threshold that is
  not locked has had as many guesses as it has recorded failures plus requests that owe one
  (`BelowThreshold`); while it is unlocked at the threshold, the guesses are covered by the
  allowance and the requests still owing (`WhileUnlocked`); rows not yet handed out are
  fresh (`FreshRows`). The sets `Failing(u)` and `OwingTo(u)` of requests are counted with
  lemmas on cardinality: each kind of step adds one request, removes one, or leaves the
  sets alone, and pays for it in `guesses`, `failed` or `allowance`. The late locks set and
  the requests about to set one are, together, fewer than the requests (`LateInv`).
- **`CredentialProofs`** on `Sessions`: `SessionsTypeCorrect`, `RotationsAlwaysBounded`,
  `SurvivorsAlwaysBounded`, `SessionsImplementStore`. `LineageInv` says that a token has no
  successor before it is revoked, that its successors and the requests about to rotate it
  are together no more than the requests, and that who issues a session anew carries no
  token. `SweepInv` counts the survivors of an account's last sweep with the requests that
  began before it and are still on their way to a session (`Belated`): together they are
  *fewer* than the requests, since the one that swept is neither. A request that begins
  after a sweep has seen its generation, and joins neither. The refinement needs no more
  than `TypeOK`, `RememberedRows` (the successor is the same user's) and `LineageInv`
  (which steps leave `parent` alone); it has one lemma for each operation of the store.
- **`CredentialProofs`** on `Accounts`: `AccountsTypeCorrect`, `ResetUsesAlwaysBounded`,
  `DeactivationAlwaysBounded`, `DeletionBoundedWithoutGoogle`,
  `OneAccountPerIdentityAlways`. `AccountsInv` has a tally for each reason an account is
  out of service: what it was granted since, and the requests past the gates (`Pending`),
  are no more than the requests, and an account in service has been granted nothing. The
  same of a reset token and the requests that found it unused (`ResetTally`). Identities
  need `Lowered` beside the unique indexes: a request that is about to create an account,
  like every row, has its address in lower case; without it two spellings of a mailbox
  would pass the index. `DeletionBounded` is proved under `"google" \notin Operations`,
  the instance of the run that checks it: the Google gate does not ask for `deletedAt`, and
  with it the property is false (`google_deleted`).
- **`BrowserProofs`**: `BrowserTypeCorrect`, `QuietCookieAlwaysValid`,
  `OpenSessionsAlwaysAccounted`, and `BrowserImplementsService`: what browsers and the
  network do is a behaviour of `AuthService`, so what is proved of it holds behind the
  cookie too. `QuietCookieValid` speaks of a browser that waits for nothing. It is
  inductive with what is true while one waits (`Quiet`): an undisturbed browser has one
  request under way at most, the token that answers it is not revoked, and a revoked cookie
  is about to be replaced. That in turn needs who holds what: a token on its way to a
  browser has been seen by no other request and is in no other cookie, and no two browsers
  hold one token (`UnseenInv`), so nobody else's refresh or logout can revoke it; a cookie
  is a token of the account the browser signed in to (`HeldInv`), so a sweep of that
  account disturbs it; and what a refresh has in hand is the cookie it was sent with
  (`Tabbed`).
- **`SettingsProofs`**: `StaleFillsAlwaysBounded`, `GatesTypeCorrect` and
  `GatesImplementSettings`. Stale writes since the row changed, and requests that hold an
  older value, are together no more than the requests: a read takes the row's value, so
  none joins them between two changes. A gate is asked for only while the call behind it
  is under way, since the call and the decision end in one step.
- **`StorageProofs`**: `StorageTypeCorrect`, `KnownObjectsAlwaysWhole`,
  `StreamsAlwaysWhole`, `RemovedAlwaysStayRemoved`. The invariant says that an upload
  has its key to itself until it is answered, that streams and deletes are for keys
  that were, and that a known object is whole or condemned and absent.
- **`PipelineProofs`**: `PipelineTypeCorrect`, `LimitAlwaysShared`, `AccessAlwaysCurrent`,
  `OutageNeverRefusal`. What passed in a window was counted by the one key all replicas
  share; a request on its way to a restricted handler whose user now holds the role, or
  held it when the guard read the row, has been entitled; every exception an outage
  throws is mapped above 499.
- **`ReplicaProofs`**: `AcceptedAlwaysComplete`, for every set of `Watched` variables: a
  demanded variable is in a cross-check or of a kind that is never left undefined.
  `ReplicaTypeCorrect`
  needs that an attempt is waited for only when it was not the last (`RetriesLeft`), and
  that the queue holds who awaits a connection and nobody else: `QueueAlwaysExact` says so,
  each once, though requests join at the end, are served at the front, give up in the
  middle, or hand their connection on and rejoin in one step. TLC has checked `QueueInv`
  with two probes and two calls over one connection.

Two models were changed by their proofs. `Browser` used to forget that a browser had
been disturbed whenever it tried to sign in; `Quiet` is not inductive then, since the
answer to a wrong password leaves a revoked cookie in place, and no instance with only the
right password could show it. And a request that gives up its place in the pool's queue
leaves it by its index, as the pool does, where the model had filtered the queue by a
predicate.

Only model-checked: liveness under fairness (`CacheConverges`, `ClosedGateHolds`,
`ProbesAnswered`, `Withdrawn`, `ReadyAgain`, `ShutdownEnds`), which is out of the prover's
reach. The three runs that expect a violation show what no theorem could.

## 5. Not modelled, and why

- Logging and correlation ids, the bodies and messages of errors, the response
  envelope's layout, Swagger, CORS and helmet: formatting and wiring, without state.
- What schemas accept and reject: each looks at one request. The models take what they
  let through as inputs, and a 400 as one of the exceptions a handler may end with. The
  strict pipe acts on decorated classes only, of which there are none.
- Google's OAuth exchange is Passport's; its profile is an input.
- Access tokens are not tracked in `AuthService`: `JwtStrategy` reads the account's row
  for every request, which is what `Authorized` does; `Pipeline` has them, with the role
  they were signed with. Their own expiry is a signature check.
- The reconnection of ioredis and the scheduling of Node are libraries'; a command
  succeeds or is rejected.
- Timing side channels (the dummy hash of `login`) are not behaviour TLA+ speaks of.
- An object that is stored while its answer is lost: no code refers to it again, so
  there is nothing to state.

## 6. Plan

Done so far: the service and its lockout, sessions and accounts; settings and gates;
storage; the browser; the pipeline; the replica from environment to exit; a theorem for
every safety property the passing runs check. Left, in this order:

1. **An abstract lockout**: a specification of an account that takes guesses one at a
   time, and `Lockout` shown to implement it up to the allowance, so that the bound need
   not be read out of history variables.
2. **An abstract cache** for `Settings`, with the staleness it promises.
3. **A replica's pool**: no more queries run than it has connections
   (`PoolMax`), and a queue only while all of them are taken.
4. **Mail**: the answers of forgot-password when mail fails, and for whom.
5. **Expiry arithmetic**: `parseExpiry` and the cookie's `maxAge` as operators.
