# TLA+ verification of the API rate limiter platform

The platform is a FastAPI application in one process: a middleware authenticates
every request by its API key, counts it in Redis against a fixed window and
refuses it with 429 when the window is full; usage rows, clients, limits and the
audit log live in Postgres; administrative endpoints change clients and limits.
This directory holds TLA+ models of it, configurations that check them with TLC,
and proofs that TLAPS checks for all values of the constants.

## The system

| component | code | state it keeps | operations |
|---|---|---|---|
| rate limiting middleware | `app/middleware/rate_limiter.py` | requests in flight, pending usage tasks | `dispatch`, `_log_usage` |
| rate limit service | `app/services/rate_limit_service.py`, `app/core/constants.py` | Redis keys `rate_limit:<key>:<bucket>` | `_window_key`, `_get_limits`, `check_and_increment`, `get_current_count` |
| authentication | `app/core/auth.py`, `get_by_api_key_with_config` | none (reads two tables) | `authenticate_api_key` |
| client management | `client_service.py`, `client_repository.py`, `endpoints/clients.py` | `api_clients` | register, enable, disable, get, list |
| rate limit administration | `rate_limit_admin_service.py`, `rate_limit_repository.py`, `endpoints/rate_limits.py` | `rate_limit_configs` | get, put (upsert) |
| audit log | `audit_repository.py` | `audit_logs` | create |
| usage logging and queries | `usage_repository.py`, `usage_service.py`, `endpoints/usage.py` | `api_usage` | create; current, daily, monthly |
| analytics | `analytics_service.py`, `endpoints/analytics.py` | two cached answers in Redis, 60 s | summary, top clients, system stats |
| database sessions | `app/db/session.py` | connection pool, open transactions | `get_db`, `AsyncSessionLocal` |
| Redis client | `app/db/redis.py` | pool of 50 connections | `get_redis` |
| assembly, health | `app/main.py` | a connection of each pool while `/health` runs | exception handler, `/health` |

How they interact. Every request, administrative ones included, passes the
middleware. The middleware reads `api_clients` and `rate_limit_configs` in a
session of its own, sends one MULTI/EXEC pipeline to Redis while that session is
open, then calls the endpoint and finally starts a task that inserts the usage
row in a third session. The endpoint has its own session and commits it itself.
Administrators change, by their commits, the rows that other requests are reading.

What is hard here. Requests interleave at every `await`, with each other, with
commits of administrators and with the clock; the window key is computed before
the pipeline is executed; answers of Redis and of COMMIT can be lost; the process
and Redis can restart in the middle; the usage row is written by a task nobody
waits for; checks (duplicate email, loaded row, `is_active`) precede the writes
they justify; reports run several statements between which others commit, and keep
their answer in a cache that others are filling too; a request uses two sessions
and a Redis connection, from pools it shares with its own usage task. `PROJECT.json`
lists each of these hazards at its line, with the properties that cover it.

What makes each part correct:

- *limiter*: a window of a client admits no more than its limit, refuses nobody
  before it is full, and tells the truth in its headers;
- *middleware*: every request is answered, and every verdict leaves one usage row
  unless a handler or an insert fails or the process dies;
- *authentication*: what a request works with was in force together;
- *client management*: one client per email, registration all or nothing;
- *limit administration*: what is stored is what somebody asked for;
- *audit log*: one entry per committed change, none for others;
- *usage queries*: a row is counted in one day, and in every period around it;
- *analytics*: an answer is no older than a TTL and its computation, and its
  figures do not contradict each other;
- *pages of clients*: a walk over the pages misses nobody who is there throughout,
  but for clients that are tied in the order;
- *pools*: connections come back whatever fails, and requests waiting for one do
  not wait on each other in a circle.

## Modules

| module | what it is |
|---|---|
| `FixedWindow` | window arithmetic and the Redis counter (operators only) |
| `Gateway` | the request path: `dispatch`, counters, usage tasks, faults, environment |
| `WindowQuota` | abstract: what a fixed window promises, without clock or store |
| `GatewayQuota` | the refinement mapping from `Gateway` to `WindowQuota` |
| `GatewayHistory` | `Gateway` with the rows committed while a request loads its client |
| `ClientAdmin` | concurrent administrative transactions |
| `ClientRows` | abstract: the atomic changes of clients that other requests may assume |
| `AdminRows` | the refinement mapping from `ClientAdmin` to `ClientRows` |
| `UsageQueries` | the `api_usage` table and the queries over it (operators only) |
| `Reports` | requests that read: usage of a client, cached analytics, pages of clients |
| `ConnectionPools` | who holds which connection of the two pools |
| `MCGateway`, `MCGatewayHistory`, `MCClientAdmin`, `MCReports`, `MCConnectionPools` | instances for TLC |
| `GatewayProofs` | proofs: types of `Gateway`, quota of a counter, composition with `ClientRows` |
| `GatewayWindowProofs` | proofs: what counters make of windows, late pipelines, bursts |
| `GatewayOutcomeProofs` | proofs: refinement of `WindowQuota`, headers, usage rows |
| `ClientAdminProofs` | proofs: types, emails, refinement of `ClientRows`, lock waits |
| `AdminHistoryProofs` | proofs: provisioning, audit log, stored settings |
| `ReportsProofs` | proofs: age and coherence of analytics, periods of usage |
| `ReportsWalkProofs` | proofs: types of `Reports`, walks over the pages of clients |
| `ConnectionPoolsProofs` | proofs: types, leaks, circles and exhaustion of the pools |

`Gateway` and `ClientAdmin` are composed by contract. `ClientRows` says what a
commit may do to what a request reads of a client; `ClientAdmin` implements it
(`CommitsChangeRows`), and each of its steps of a registered client is an
administrator's step of `Gateway` (`AdminCoversCommits`). `Reports` takes of the
others only what they commit: usage rows, registrations, changes of `is_active`.

Operators named `X_Bug` (`Serve_Reread`, `InsertClient_Commits`, ...) belong to no
specification. Each is a mistake one could make in the code of `X`; `PROJECT.json`
pairs it with a property that fails when `X` is replaced by it.

### Gateway

| variable | code |
|---|---|
| `now` | `time.time()` and Redis' clock, on one host (docker-compose) |
| `row` | the committed `is_active` and limit override of a client |
| `counter` | the Redis key of a client and bucket: count and expiry time; `life` numbers its incarnations |
| `pc` | which `await` of `dispatch` a request has reached |
| `call`, `quota` | its locals: client, path, `is_active` as read; limits, window key |
| `ticket` | the result of its pipeline (`count`, the verdict) and when it ran |
| `reply` | status and X-RateLimit headers |
| `tasks`, `usage` | `_log_usage` tasks, and `api_usage` rows counted by client and verdict |

`life` and `at` are history: properties read them, no guard does.

| action | code |
|---|---|
| `ServeExempt`, `RejectUnknownKey` | lines 82-101 of the middleware |
| `SelectClient`, `SelectConfig` | the two SELECTs of `get_by_api_key_with_config` |
| `RejectInactive` | lines 103-106 |
| `BuildKey` | `_get_limits` and `_window_key`; the pipeline leaves for Redis |
| `Admit`, `Block` | Redis executes INCR and EXPIRE, line 95 compares; `Block` also builds the 429 and its task |
| `Serve` | `call_next` returns, lines 141-151; usage endpoints authenticate again first |
| `LogUsage`, `LogUsageFails` | a task commits its row, or swallows its exception |
| `DatabaseFails`, `RedisUnreachable`, `RedisAnswerLost`, `HandlerRaises` | exceptions that are no `AppError` |
| `SetActive`, `UpdateConfig` | commits of `ClientAdmin`, any of them at any time |
| `Tick`, `RedisRestart`, `AppCrash` | the environment |

Abstractions. A tick is Redis' millisecond and windows are multiples of it. Paths
are `exempt`, `usage` (authenticates again) or `plain`. A registered client stands
for its key; any other key, or none, is a key outside `Clients`. A plan is fixed.
`RedisRestart` loses all keys: the compose file gives Redis no named volume;
an older dump coming back is not modelled. `RedisAnswerLost` also stands for a session that
fails to close after the pipeline ran. `SetActive` and `UpdateConfig` ignore that
administrative requests are themselves rate limited: more can happen in the model
than in the system.

### ClientAdmin

A worker is one POST, PATCH or PUT with its transaction at READ COMMITTED.
`clients`, `configs` and `audit` are what is committed; `tx[w]` is what worker
`w` has written and not committed; `seen[w]` is what its ORM objects were loaded
with. `Patch` is the ORM's UPDATE of the columns that differ from `seen`, applied
to the row committed by then; a value equal to the loaded one is not written at
all. `EmailPending`, `ActiveLocked` and `ConfigLocked` are Postgres: an INSERT of
a key an open transaction has inserted waits for it, an UPDATE of a row it has
updated too. `Commit` applies everything at once; `Fail` rolls everything back,
for an exception of any statement as well as a dead process; `CommitUnconfirmed`
is a commit whose answer is lost. Audit entries are rows of the same transaction,
so their INSERTs are folded into the step that writes what they tell. Ids of
rolled back registrations may be used again in the model, which the sequence of
Postgres would skip.

### ClientRows and AdminRows

`ClientRows` has one variable, what `get_by_api_key_with_config` would return for
each client, and three actions: `Register` (the client appears with the limits of
its plan), `SetActive`, `UpdateConfig`. `AdminRows` maps to it the committed
`clients` and `configs` of `ClientAdmin`, so uncommitted writes, loaded objects,
locks and failures are all stutters, and a commit is one of the three.

### Reports

| variable | code |
|---|---|
| `now` | the host's clock |
| `rows` | `api_usage`, in commit order; a row has the start of its transaction as `stamp` |
| `active` | `api_clients.is_active`, or not registered |
| `task` | `_log_usage` tasks between their INSERT and their COMMIT |
| `cache` | `analytics:system_stats` and `analytics:top_clients`: answer and expiry |
| `load`, `job` | what the readers ask for, and what else may happen (see the bounds) |
| `pc`, `asked`, `value` | a reader's statement, its first one's time, what it computed |
| `ended`, `walk` | history: when an answer was given, the pages given so far |

| action | code |
|---|---|
| `InsertRow`, `CommitRow` | the transaction of `_log_usage` |
| `Hit`, `Miss`, `Store` | `redis.get`, and `setex` after the queries, whatever was stored meanwhile |
| `QueryTotals`, `CountClients`, `CountActive` | the three statements of `get_system_stats` |
| `QueryTop` | the ranking of `get_top_clients`; ties fall as Postgres likes |
| `Begin`, `CountUsage` | `datetime.now()`, then the query of a period |
| `SelectPage`, `CountMatching` | the two queries of `ClientRepository.list` |
| `Fail` | a statement raises: 500, nothing stored |
| `RegisterClient`, `SetActive` | commits of `ClientAdmin` |
| `CacheLost`, `Tick` | the environment |

Abstractions. An instant is a microsecond of Postgres or of Python, on one host;
the model's months all have the same number of days. The `top` query's second
statement looks up names, which never change. Filters on what never changes
(search, plan) are left out. `ordering` is a column and a direction; `SortValue` gives
each client's place by a column, and says nothing but which values are equal and which
is smaller: names and creation times may be equal, and since ORDER BY has no second
column, `Heads` lets every statement order equal values anew. A client that registers
later may be listed anywhere, also by `created_at`, which is when its transaction began.
A usage task that fails goes no further. `datetime.now()` is read before
the statement is sent; what is committed in between is seen.

### ConnectionPools

`db[r]` says for what request `r` holds connections of the engine's pool (its
middleware's session, its handler's, its usage task's), `redis[r]` whether it holds
one of Redis' pool. The actions are the statements that take or return one: a
session takes its connection with its first statement and returns it when it is
closed. `DbTimeout` and `LogTimeout` are the engine's timeout (30 s) of a queue
that does not move, `RedisRefuses` is redis-py's pool, which raises at once when
`max_connections` are in use, `StatementFails` is any other exception. `Serve` with
status 200 stands for whatever an endpoint answers. The health check catches its
exceptions and goes on; for everybody else they end in 500, after `async with` and
`get_db` have closed the sessions (FastAPI 0.115 closes them before the response is
sent, so before `call_next` returns).

## Checks

`tlc -config X.cfg M` in this directory; all runs end within two minutes.
Deadlock is not checked: the actors are finitely many requests, and a run of them
ends when all are answered. That they are answered is checked as liveness.

| run | configuration | states | shows |
|---|---|---|---|
| `gateway_fixed` | 2 clients (1 per 2 ticks, 2 per 3), 3 requests, 6 instants, pipelines up to 2 ticks late | 356,743 | types and phases, window quota, stale keys, boundary burst, headers |
| `gateway_faults` | 1 client moved between 1 per 1 tick and 2 per 2 ticks, 3 requests, all faults | 1.6 million | what a counter guarantees whatever happens; usage is never invented |
| `gateway_live` | 1 client, 3 requests, exempt and usage paths, unknown keys, disabling, Redis failing | 115,921 | refinement of `WindowQuota`; every request answered, exactly one row per verdict, and eventually |
| `admin` | 3 requests out of 7 kinds on 4 ids | 230,962 | emails, provisioning, audit log, stored settings; everyone is answered; refinement of `ClientRows` |
| `reports` | up to 3 readers of any kind, 3 usage rows, 3 clients, two of them with one name, 4 instants | 1.5 million | age and coherence of analytics, periods of usage, pages of clients |
| `pools` | 4 requests of all kinds and their tasks, 2 database and 3 Redis connections | 24,639 | nothing leaks, nobody starves, who can exhaust Redis' pool |
| `gateway_rows`, `gateway_snapshot`, `admin_register_race`, `admin_disable_race`, `admin_put_race`, `reports_limit` | small | | the disagreements below |

The properties, with what they say:

- `QuotaPerCounter`: of the requests that one incarnation of a Redis key admits,
  at most L had a limit of L or less. Nothing is assumed: limits may change, keys
  may be shared by two configurations, Redis may restart.
- `QuotaPerWindow`: with fixed limits, a window admits at most its limit, of the
  requests whose pipeline ran no later than one tick after the window. Every
  EXPIRE is a full window, sent at or after the window's start, so no key goes
  before its window ends; that each request sends one, and not only the first as
  the docstring (lines 7-8) has it, only makes keys live longer.
- `StaleKeyQuota`: a pipeline later than that can find the key expired and start it
  again; if none is more than a window late this happens once, so a key admits at
  most twice its limit.
- `TypeOK`: besides the types of `Gateway`, what each phase implies (`PhaseInv`): a
  request that waits for Redis has a client and positive limits and no ticket yet; one
  whose handler runs was admitted; whoever has a ticket keeps the client and the limits
  it was counted under.
- `BoundaryBurst`: the known weakness of fixed windows, and its size. A stretch of time
  as long as a window sees at most twice the limit as long as pipelines run by the first
  tick after their window. One that runs later belongs to a still older window; each
  window they may be late adds the limit once: with `d` the lateness and `w` the window,
  `2 + (d + w - 2) \div w` limits. With `d = MaxLag` this covers every request.
- `RefusedOnlyWhenFull`: a refusal is justified by requests that took every place.
- `RemainingIsHonest`, `NoRefund`: headers under concurrency; counters never fall
  during their window.
- `OneRowPerRequest`, `EveryVerdictLogged`: if no handler and no statement raises and
  the process lives, there are as many usage rows as verdicts when the tasks are over,
  and whenever n requests of a client have been admitted (or
  refused), n rows eventually say so. Redis may do what it likes.
- `UsageNeverOvercounts`: rows are bounded by verdicts whatever fails. This does not say
  that none is lost: a process that dies before the task, and a handler that raises
  (`gateway_rows`), lose rows.
- `EveryRequestAnswered`: every path out of `dispatch` answers. (An exception of a
  statement or a handler answers 500 in the step it is raised in; `gateway_live` leaves
  these out, since rows are lost with them.)
- `KeepsPromise`: `Gateway` implements `WindowQuota`.
- `UniqueEmails`, `ProvisionedTogether`, `AuditMatchesCommits`: as their names say,
  for every interleaving and failure.
- `ColumnsRequested`, `UncontestedSettingsHold`: what concurrent writers may and may
  not do to each other. They may mix columns; they may not make up a value, and a
  request is only ever undone by one that asks for something else.
- `EveryJobAnswered`: no lock is kept, nobody waits in a circle.
- `CommitsChangeRows`: `ClientAdmin` implements `ClientRows`; a commit carries
  along no column it was not asked to change.
- `StatsAreRecent`: every row committed a TTL and a computation before the answer is
  in it. A slow reader can overwrite a newer entry with an older one, which is why the
  computation counts too: 60 seconds alone is not true.
- `TopListIsRecent`: whoever has such rows is in the list with at least as many, or
  the list is as long as a limit that was asked for and all in it have at least as many.
  The limit need not be that of the reader who gets the list: the cached answer for
  another limit is served (analytics_service.py:68), so the list can be too short for
  whom it is given to, as well as too long (`reports_limit`).
- `StatsHangTogether`: three statements at different instants, in an order in which
  allowed and blocked add up and nobody in the total is missing from the clients.
  That `active_clients` is at most `total_clients` does not hold: it is counted later.
- `DaysAddUp`, `PeriodsNest`: a row is counted in one day; a later answer about a
  larger period never shows less, although rows appear after their stamp.
- `WalkMissesNobody`: of the clients that share their sort value with nobody (ordered
  by email, all). New clients push others to later pages, never past the reader, and
  ties between others do not matter, however each page orders them; only a client that
  ceases to match after the first page can hide another one, and only one. Tied clients
  are left out because nothing can be said of them: each page may order them anew, and
  one may be on no page although nothing changes.
- `TotalCoversPage`: the total of an answer is not below what its pages showed, but
  for clients that ceased to match.
- `NothingLeaks`, `OneDbConnectionEach`, `EveryoneServed`: the pools keep their
  size, and a queue always moves, because who holds a connection waits for no other.
- `OnlyReadersExhaustRedis`: pipelines run inside a session, so at most as many as
  there are database connections; a refusal takes `MaxRedis - MaxDb` others, which
  can only be cache reads and pings (35 with the sizes of the code, 50 and 15).

Bounds. `MaxTime`, `MaxLag`, the number of requests and the small limits are bounds
of the instances, not of the system. Three requests against a limit of one or two
fill a window, overflow it and start another; six instants contain two boundaries
of one window and one of the other; a delay of two ticks is the length of the
shorter window, so stale keys, expired keys and restarted keys all occur. Three
administrative requests are two that race and one that observes or interferes.
In `reports` an initial state chooses a workload: what the three readers ask for,
which usage tasks get to their INSERT, which clients may change. A workload holds
what can meet in one property: readers of one cache entry with rows and a client
that is disabled, days and months of one client, a walk over the pages with all
clients changing (`MaxLeft` bounds how often one ceases to match). Days of two
instants, months of four, an hour and a TTL of one and a delay of one make every
boundary fall into the run's four instants, with entries that expire, are overwritten
by slow readers and lost. Pages have one client, so that every insertion moves all
that follow. Walks are ordered by creation time, without ties, and by name, where two of
the three clients are equal. Two readers of the top clients ask for one and for two, so
that each may get the other's answer. In `pools` two database connections for four requests and their tasks
are fewer than want one; three Redis connections keep the difference of the pools
positive, as it is in the code.
The theorems below remove the bounds of all safety properties.
Requests are interchangeable, so the Gateway's safety runs use symmetry; runs with
liveness do not.

Fairness. Weak fairness of each request's own steps and of the usage tasks: the
event loop runs what can run, and Redis, Postgres and the handlers answer (an
answer may be an error). Nothing is assumed of arrivals, administrators, faults
or the clock. For `ClientAdmin` and `ConnectionPools` it is enough that some request
that can go on does; nothing is asked of the engine's timeout, so `EveryoneServed`
does not hold just because waiting is given up.
Redis has no timeout configured, so a Redis that accepts and never answers holds
its request for good: the liveness properties exclude it by this assumption.

## Disagreements between code and documents

| run | what the code does | what is written |
|---|---|---|
| `gateway_rows` | a request whose handler raises is counted but leaves no row | DATABASE.md:55 |
| `gateway_snapshot` | `selectinload` reads the limits in a second SELECT | client_repository.py:42-43 |
| `admin_register_race` | the loser of two registrations of an email gets 500 | API_REFERENCE.md:69 |
| `admin_disable_race` | a disable racing with an enable answers 200, `is_active` true | API_REFERENCE.md:133 |
| `admin_put_race` | two PUTs leave limits neither sent, and answer them | API_REFERENCE.md:188-189 |
| `reports_limit` | the cached top clients of one limit answer requests with a smaller one | test_analytics.py:113-115, API_REFERENCE.md:325 |

Met while reading, without a run of their own: the TTL is refreshed by every
increment, not set by the first (rate_limit_service.py:7-8); the key does not
name the window size although test_rate_limit_service.py:64-67 is about different
windows giving different keys; POST /clients needs a key of an existing client;
`/health` tells 503 of an exhausted pool although both services are reachable
(main.py:68-70); "cached for 60 seconds" is not the age of the answer, which adds
the time of its queries (analytics_service.py:4-7), and a slow reader's older entry
may replace a newer one, so `total_clients` can go back between two answers although
test_analytics.py:137 takes it not to; ORDER BY of the client list has no column to break
ties (client_repository.py:89-96), so of clients with equal names one may be on two pages
and another on none; two first PUTs for a client without limits
can answer 500 (the same property as `admin_register_race`).

## Proofs

`tlapm M.tla` for each of the eight proof modules. Every invariant and action property
that a passing run checks is also a theorem, and so are the two refinements. A theorem
holds for all constants that satisfy the `ASSUME`s of the module: finitely many
requests, positive limits, keys that include the clients; for `ClientAdmin`, initial rows
of the right types with distinct emails, and limits only of clients that exist (the
foreign key of `rate_limit_configs`); for `Reports`, finitely many clients and whole days
in a month; for `ConnectionPools`, pools that are not empty. Where the table has a
premise, the code promises nothing without it. `FixedLimits` (no administrator changes
limits, Redis keeps its keys) is part of the property wherever a property is about windows.

| theorem | statement |
|---|---|
| `TypeCorrect` | `Gateway!Spec => []TypeOK` |
| `CounterQuota`, `RefusalJustified` | `Spec => []QuotaPerCounter`, `[]RefusedOnlyWhenFull` |
| `WindowQuotaHolds`, `StaleKeyBound` | `Spec => []QuotaPerWindow`, `[]StaleKeyQuota` |
| `NothingRefunded`, `BurstBound` | `Spec => NoRefund`, `[]BoundaryBurst` |
| `PromiseKept` | `FixedLimits /\ MaxLag <= 1 => (Spec => KeepsPromise)` |
| `RemainingHonest` | `Spec => []RemainingIsHonest` |
| `UsageNotInvented` | `Spec => []UsageNeverOvercounts` |
| `RowPerRequest` | `Lossless => (Spec => []OneRowPerRequest)` |
| `AdminCoversCommits` | a step of `ClientRows` is an `Admin` step of `Gateway` or a stutter |
| `AdminTypeCorrect`, `EmailsUnique` | `ClientAdmin!Spec => []TypeOK`, `[]UniqueEmails` |
| `AdminImplementsRows` | `ClientAdmin!Spec => CommitsChangeRows` |
| `NobodyWaitsForWaiters` | always, whoever is waited for waits for nobody |
| `RegistrationWhole`, `AuditComplete` | `Spec => []ProvisionedTogether`, `[]AuditMatchesCommits` |
| `NoInventedColumns`, `SettingsHold` | `Spec => []ColumnsRequested`, `[]UncontestedSettingsHold` |
| `StatsRecent`, `StatsConsistent`, `TopListRecent` | `Reports!Spec => []StatsAreRecent`, `[]StatsHangTogether`, `[]TopListIsRecent` |
| `DaysDisjoint`, `PeriodsNested` | `Spec => []DaysAddUp`, `[]PeriodsNest` |
| `ReportsTypes`, `WalkComplete`, `TotalsCoverPages` | `Spec => []TypeOK`, `[]WalkMissesNobody`, `[]TotalCoversPage` |
| `PoolTypeCorrect`, `ConnectionsReturn` | `ConnectionPools!Spec => []TypeOK`, `[]NothingLeaks` |
| `OneConnectionEach`, `ReadersExhaustRedis` | `Spec => []OneDbConnectionEach`, `OnlyReadersExhaustRedis` |

### Gateway

*TypeCorrect*: the types are inductive only together with the phases (`PhaseInv`), which
are part of `TypeOK`. *CounterQuota*: `QuotaPerCounter` is not inductive by itself; the
invariant says that tickets of one incarnation have different positions between 1 and
the counter's value, and an admitted one has a position within its limit, so the requests
admitted under limits up to L inject into `1..L`. *RefusalJustified* adds that every
position up to the counter's value is on some ticket.

*WindowQuotaHolds* adds what expiry does: under fixed limits a counter expires a window
after its last increment, hence all tickets in time of a window are of one incarnation;
*StaleKeyBound* shows there can be a second incarnation but not a third.
*NothingRefunded* is the same fact about one step (`KeyLasts`): a key that counted lives
at least until its window has ended. *BurstBound*: keys begin at multiples of the
window (`BucketInv`), so a stretch as long as a window meets as many of them as
`WindowsTouched` computes from how late pipelines may be. Two incarnations of one key
count more than a window apart (`ApartInv`: a key that is counted in lives for another
window), so in the stretch each key is counted in by one incarnation only, and what all
of them admit injects into that many blocks of L places, one behind the other.

*PromiseKept* maps each step to a step or a stutter of `WindowQuota`; the bound on the
delay is needed because of the stale keys. *RemainingHonest*: the headers were computed
from the request's own ticket (`HeaderInv`), and the tickets up to it are numbered without
gap or repetition, so there are as many as its position. Without Redis failures no
position is of a request that never learns of it, which is why the property asks for that.
*UsageNotInvented* and *RowPerRequest* balance two counts per client and verdict: rows
written and rows still owed (by a task, or by a request on its way to one) are the
verdicts given, or fewer if something failed (`Balanced`). `Lossless` says that no
database statement and no handler raises and that the process lives; the run
`gateway_rows` shows what happens without it.

### ClientAdmin

*AdminTypeCorrect* carries along which rows a request has loaded and that clients are
never deleted. *EmailsUnique* rests on the uncommitted inserts: at most one per email,
and none for an email that is committed. *AdminImplementsRows* needs of the invariant that
a worker's pending writes are of columns it was asked to change, and that what it inserts
is unknown to everybody else; *AdminCoversCommits* then lets `Gateway`'s theorems speak
of the administrators `ClientAdmin` describes. *NobodyWaitsForWaiters* is the safety half
of `EveryJobAnswered`: each transaction takes one lock and waits for nothing after it.

None of the four properties of `AdminHistoryProofs` is inductive either, because what a
commit does was decided before it: by the row that was loaded (`SeenInv`), the writes and
audit entries that are pending (`TxInv`), the locks they hold (`LockInv`). `HistoryInv`
follows a request through these to what is committed; `KnownInv` and `SilentInv` say that
a client that something was committed for exists, and that nothing is recorded of one that
does not. The hard case is the UPDATE that is not sent because the loaded value is the one
asked for: `SeenInv` says that the committed value is still the loaded one, or that
a request which asked for something else has been committed. The log is
counted along its prefixes, as it is a sequence that only grows.

### Reports

A value travels: from a query to the reader, to Redis, to another reader's answer. The
invariant gives each value on its way the instant whose rows it must know (`Fresh`: the
time of the first query in a reader, expiry minus TTL and delay in Redis, `Known` in an
answer), or the rows it was counted from (`Tells`). Rows only grow, by rows committed now
(`Grow`), so what is known stays known. Day and month bounds are then arithmetic: a row's
stamp lies in one day, a month starts with one.

*TopListRecent* adds a pigeonhole: a list with room for everybody who made a request
leaves nobody out, so one that leaves somebody out is as long as its limit.

*WalkComplete* and *TotalsCoverPages* rest on `PageFacts`, which holds however ties fall:
a page is cut off only by the end of the list, an empty one has nobody after it, any
other has full pages before it, and a client with a sort value of its own is on the page
exactly when its position (how many are before it) is in the page's range. Who joins
pushes others back, never past the reader; who leaves pulls up everybody behind, and of
clients with different positions one at most past the reader. `WalkOK` says of a walk on
its way that those it has skipped are no more than those that left.

### ConnectionPools

How far a request is tells what it holds (`Held`, `OnRedis`); the users of Redis that
are not bare inject into the users of the database pool.

### Only model-checked

Liveness: `EveryRequestAnswered`, `EveryVerdictLogged`, `EveryJobAnswered`,
`EveryoneServed` (temporal leads-to under fairness, with its `ENABLED`, is out of the
prover's reach). The statements of the six violated runs are refuted by TLC on an instance,
which is all a refutation needs.

## Not modelled

Of application assembly, the wiring and the exception handler (its statuses are in
`Gateway` and `ClientAdmin`); validation schemas, settings and key generation (data
shapes; an API key is assumed to be unique); migrations, which run once before the
program; the load generator. Clients that disconnect and requests cancelled by the
server are covered only as far as `HandlerRaises` and `AppCrash` go. Months of
different lengths. Connections that die in the pool (`pool_pre_ping` replaces them).

## Plan

1. `RegisterClient` and `SetActive` of `Reports` as steps of `ClientRows`, the way
   `AdminCoversCommits` does it for `Gateway`.
2. The safety halves of the other liveness properties, like `NobodyWaitsForWaiters`:
   that a request in flight always has a step that changes it, and a bound on the
   number of its steps.
3. `LoadedAsOneQuery` for requests whose client is left alone while it is loaded.
