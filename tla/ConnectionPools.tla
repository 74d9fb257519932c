--------------------------- MODULE ConnectionPools ---------------------------
(***************************************************************************)
(* Who holds which pooled connection when: the pool of the SQLAlchemy      *)
(* engine (app/db/session.py), whose users queue, and the pool of the      *)
(* Redis client (app/db/redis.py), which refuses when it is exhausted.     *)
(* Requests pass the middleware, then a handler; their usage tasks come    *)
(* after them; the health check (app/main.py) passes the middleware by.    *)
(*                                                                         *)
(* A session takes its connection with its first statement and gives it    *)
(* back when it is committed or closed.  A Redis connection is taken for   *)
(* one command or pipeline.                                                *)
(*                                                                         *)
(* Operators named X_Bug are variants of X with a mistake one could make.  *)
(***************************************************************************)
EXTENDS Integers, FiniteSets

CONSTANTS
  Requests,
  Handler,    \* request -> what serves it: "data", "analytics" or "health"
  MaxDb,      \* pool_size and max_overflow of the engine
  MaxRedis    \* max_connections of the Redis pool

ASSUME RequestsFinite == IsFiniteSet(Requests)
ASSUME HandlerType == Handler \in [Requests -> {"data", "analytics", "health"}]
ASSUME PoolsType == MaxDb \in Nat \ {0} /\ MaxRedis \in Nat \ {0}

VARIABLES
  pc,      \* request -> how far it is
  db,      \* request -> what it holds a database connection for
  redis,   \* request -> whether it holds a Redis connection
  reply,   \* request -> its status, 0 before it has one
  log      \* request -> how far its usage task is

vars == <<pc, db, redis, reply, log>>

Uses == {"middleware", "handler", "log"}

Init ==
  /\ pc = [r \in Requests |-> "start"]
  /\ db = [r \in Requests |-> {}]
  /\ redis = [r \in Requests |-> FALSE]
  /\ reply = [r \in Requests |-> 0]
  /\ log = [r \in Requests |-> "none"]

-----------------------------------------------------------------------------
(* The pools. *)

DbInUse == {u \in Requests \X Uses : u[2] \in db[u[1]]}

DbFree == Cardinality(DbInUse) < MaxDb

RedisInUse == {r \in Requests : redis[r]}

RedisFree == Cardinality(RedisInUse) < MaxRedis

TakeDb(r, use) == DbFree /\ db' = [db EXCEPT ![r] = @ \union {use}]

GiveDb(r, use) == db' = [db EXCEPT ![r] = @ \ {use}]

TakeRedis(r) == RedisFree /\ redis' = [redis EXCEPT ![r] = TRUE]

GiveRedis(r) == redis' = [redis EXCEPT ![r] = FALSE]

Go(r, from, to) == pc[r] = from /\ pc' = [pc EXCEPT ![r] = to]

Answer(r, status) == reply' = [reply EXCEPT ![r] = status]

StartLog(r) == log' = [log EXCEPT ![r] = "waiting"]
-----------------------------------------------------------------------------
(* The middleware. *)

\* 401 without a key, before any session.
RefuseKeyless(r) ==
  /\ Handler[r] # "health"
  /\ Go(r, "start", "done")
  /\ Answer(r, 401)
  /\ UNCHANGED <<db, redis, log>>

\* The first SELECT of get_by_api_key_with_config.
Authenticate(r) ==
  /\ Handler[r] # "health"
  /\ Go(r, "start", "loaded")
  /\ TakeDb(r, "middleware")
  /\ UNCHANGED <<redis, reply, log>>

\* 401 or 403.
Refuse(r) ==
  /\ Go(r, "loaded", "done")
  /\ GiveDb(r, "middleware")
  /\ \E status \in {401, 403} : Answer(r, status)
  /\ UNCHANGED <<redis, log>>

SendPipeline_SessionClosed(r) ==
  /\ Go(r, "loaded", "counting")
  /\ TakeRedis(r)
  /\ GiveDb(r, "middleware")
  /\ UNCHANGED <<reply, log>>

\* check_and_increment, inside the session's block.
SendPipeline(r) ==
  /\ Go(r, "loaded", "counting")
  /\ TakeRedis(r)
  /\ UNCHANGED <<db, reply, log>>

\* Its answer is over the limit: 429 and a usage task.
Block(r) ==
  /\ Go(r, "counting", "done")
  /\ GiveRedis(r)
  /\ GiveDb(r, "middleware")
  /\ Answer(r, 429)
  /\ StartLog(r)

Admit_InSession(r) ==
  /\ Go(r, "counting", "handler")
  /\ GiveRedis(r)
  /\ UNCHANGED <<db, reply, log>>

\* The session is closed before call_next.
Admit(r) ==
  /\ Go(r, "counting", "handler")
  /\ GiveRedis(r)
  /\ GiveDb(r, "middleware")
  /\ UNCHANGED <<reply, log>>
-----------------------------------------------------------------------------
(* The handlers. *)

\* A handler's first statement, in the session of get_db; for the analytics,
\* when the answer is not in the cache.
Query(r) ==
  /\ \/ Handler[r] = "data" /\ Go(r, "handler", "querying")
     \/ Go(r, "missed", "querying")
  /\ TakeDb(r, "handler")
  /\ UNCHANGED <<redis, reply, log>>

Finish(r, from) ==
  /\ Go(r, from, "done")
  /\ Answer(r, 200)
  /\ StartLog(r)

\* It returns and get_db closes the session.
Serve(r) ==
  /\ Handler[r] = "data"
  /\ Finish(r, "querying")
  /\ GiveDb(r, "handler")
  /\ UNCHANGED redis

\* redis.get of the analytics, before they have queried anything.
GetCached(r) ==
  /\ Handler[r] = "analytics"
  /\ Go(r, "handler", "cache")
  /\ TakeRedis(r)
  /\ UNCHANGED <<db, reply, log>>

Hit(r) ==
  /\ Finish(r, "cache")
  /\ GiveRedis(r)
  /\ UNCHANGED db

Miss(r) ==
  /\ Go(r, "cache", "missed")
  /\ GiveRedis(r)
  /\ UNCHANGED <<db, reply, log>>

\* setex, in the session of the queries.
Store(r) ==
  /\ Handler[r] = "analytics"
  /\ Go(r, "querying", "storing")
  /\ TakeRedis(r)
  /\ UNCHANGED <<db, reply, log>>

Stored(r) ==
  /\ Finish(r, "storing")
  /\ GiveRedis(r)
  /\ GiveDb(r, "handler")
-----------------------------------------------------------------------------
(* The health check: SELECT 1, then PING; each failure is caught. *)

Connect(r) ==
  /\ Handler[r] = "health"
  /\ Go(r, "start", "select")
  /\ TakeDb(r, "handler")
  /\ UNCHANGED <<redis, reply, log>>

Selected(r) ==
  /\ Go(r, "select", "checked")
  /\ GiveDb(r, "handler")
  /\ UNCHANGED <<redis, reply, log>>

Ping(r) ==
  /\ Go(r, "checked", "ping")
  /\ TakeRedis(r)
  /\ UNCHANGED <<db, reply, log>>

Pong(r) ==
  /\ Go(r, "ping", "done")
  /\ GiveRedis(r)
  /\ Answer(r, IF reply[r] = 503 THEN 503 ELSE 200)
  /\ UNCHANGED <<db, log>>
-----------------------------------------------------------------------------
(* The usage task: one session. *)

InsertUsage(r) ==
  /\ log[r] = "waiting"
  /\ log' = [log EXCEPT ![r] = "inserting"]
  /\ TakeDb(r, "log")
  /\ UNCHANGED <<pc, redis, reply>>

\* It commits, or raises and swallows the exception; the session is closed.
EndUsage(r) ==
  /\ log[r] = "inserting"
  /\ log' = [log EXCEPT ![r] = "over"]
  /\ GiveDb(r, "log")
  /\ UNCHANGED <<pc, redis, reply>>
-----------------------------------------------------------------------------
(* What goes wrong. *)

AwaitsDb(r) ==
  \/ pc[r] \in {"start", "missed"}
  \/ pc[r] = "handler" /\ Handler[r] = "data"

AwaitsRedis(r) ==
  \/ pc[r] \in {"loaded", "checked"}
  \/ pc[r] \in {"handler", "querying"} /\ Handler[r] = "analytics"

\* A request that meets an exception: 500 and no usage row, since none is an
\* AppError; the health check goes on, and tells that it is degraded.
Raise_KeepsDb(r) ==
  /\ IF Handler[r] = "health" THEN Answer(r, 503) ELSE Answer(r, 500)
  /\ pc' = [pc EXCEPT ![r] = IF Handler[r] = "health" /\ @ \in {"start", "select"}
                               THEN "checked" ELSE "done"]
  /\ GiveRedis(r)
  /\ UNCHANGED <<db, log>>

Raise_Uncaught(r) ==
  /\ Answer(r, 500)
  /\ pc' = [pc EXCEPT ![r] = "done"]
  /\ GiveRedis(r)
  /\ db' = [db EXCEPT ![r] = @ \ {"middleware", "handler"}]
  /\ UNCHANGED log

Raise(r) ==
  /\ IF Handler[r] = "health" THEN Answer(r, 503) ELSE Answer(r, 500)
  /\ pc' = [pc EXCEPT ![r] = IF Handler[r] = "health" /\ @ \in {"start", "select"}
                               THEN "checked" ELSE "done"]
  /\ GiveRedis(r)
  /\ db' = [db EXCEPT ![r] = @ \ {"middleware", "handler"}]
  /\ UNCHANGED log

\* The engine's pool is exhausted for longer than its timeout.
DbTimeout(r) == AwaitsDb(r) /\ ~DbFree /\ Raise(r)

LogTimeout(r) ==
  /\ log[r] = "waiting" /\ ~DbFree
  /\ log' = [log EXCEPT ![r] = "over"]
  /\ UNCHANGED <<pc, db, redis, reply>>

\* ConnectionError: too many connections.
RedisRefuses(r) == AwaitsRedis(r) /\ ~RedisFree /\ Raise(r)

\* Postgres or Redis fails a request that holds a connection.
StatementFails(r) ==
  /\ pc[r] # "done"
  /\ db[r] # {} \/ redis[r]
  /\ Raise(r)
-----------------------------------------------------------------------------
Step(r) ==
  \/ RefuseKeyless(r) \/ Authenticate(r) \/ Refuse(r) \/ SendPipeline(r)
  \/ Block(r) \/ Admit(r)
  \/ Query(r) \/ Serve(r)
  \/ GetCached(r) \/ Hit(r) \/ Miss(r) \/ Store(r) \/ Stored(r)
  \/ Connect(r) \/ Selected(r) \/ Ping(r) \/ Pong(r)
  \/ InsertUsage(r) \/ EndUsage(r)
  \/ RedisRefuses(r)

Next == \E r \in Requests :
  Step(r) \/ DbTimeout(r) \/ LogTimeout(r) \/ StatementFails(r)

\* The event loop runs some request that can go on, Postgres and Redis answer.
\* Nothing is asked of the engine's timeout.
Spec == Init /\ [][Next]_vars /\ WF_vars(\E r \in Requests : Step(r))
-----------------------------------------------------------------------------
(* Properties. *)

Phases == {"start", "loaded", "counting", "handler", "querying", "cache",
           "missed", "storing", "select", "checked", "ping", "done"}

\* The types; and an answer is one its route can give: the health check tells
\* 503 of a pool that is exhausted, and never raises itself.
TypeOK ==
  /\ pc \in [Requests -> Phases]
  /\ db \in [Requests -> SUBSET Uses]
  /\ redis \in [Requests -> BOOLEAN]
  /\ log \in [Requests -> {"none", "waiting", "inserting", "over"}]
  /\ \A r \in Requests :
       reply[r] \in IF Handler[r] = "health" THEN {0, 200, 503}
                                             ELSE {0, 200, 401, 403, 429, 500}

\* Whatever fails, a request that is answered and a task that is over have given
\* their connections back: a pool never shrinks.
NothingLeaks ==
  \A r \in Requests :
    /\ pc[r] = "done" => db[r] \subseteq {"log"} /\ ~redis[r]
    /\ log[r] # "inserting" => "log" \notin db[r]

\* Nobody waits for a second database connection while it holds one, although
\* middleware and handler both use one for a request: the first is given back
\* before the handler is entered.
OneDbConnectionEach ==
  \A r \in Requests :
    /\ Cardinality(db[r]) <= 1
    /\ AwaitsDb(r) => db[r] = {}

\* Cache reads and pings, the users of Redis that hold no database connection.
Bare == {r \in Requests : pc[r] \in {"cache", "ping"}}

\* The Redis pool refuses a request only if at least the difference of the two
\* pools is taken by cache reads and pings: the limiter alone never exhausts it,
\* because its pipelines run while a database connection is held.
OnlyReadersExhaustRedis ==
  [][\A r \in Requests :
       RedisRefuses(r) => Cardinality(Bare) >= MaxRedis - MaxDb]_vars

\* However many more requests than connections there are, everybody is answered
\* and every usage task runs, without anybody's timeout: those who hold a
\* connection never wait for one who waits.
EveryoneServed ==
  \A r \in Requests : <>(pc[r] = "done" /\ log[r] \in {"none", "over"})
=============================================================================
