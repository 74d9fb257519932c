------------------------------- MODULE Gateway -------------------------------
(***************************************************************************)
(* The request path of the platform: RateLimitMiddleware.dispatch          *)
(* (app/middleware/rate_limiter.py), the counters it keeps in Redis        *)
(* (app/services/rate_limit_service.py) and the usage rows it writes in    *)
(* background tasks.  A request crosses an await between its steps, so     *)
(* every step is an action and the steps of different requests interleave. *)
(*                                                                         *)
(* The other actors appear as what they do to the state this path reads:   *)
(* an administrator commits a client's row, the clock advances, Redis      *)
(* loses its keys, the process dies.                                       *)
(*                                                                         *)
(* Operators named X_Bug are variants of X, as in FixedWindow.             *)
(***************************************************************************)
EXTENDS FixedWindow, FiniteSets

CONSTANTS
  Clients,      \* registered clients; a client stands for its API key too
  Keys,         \* what requests carry in X-API-KEY; None: no such header
  Paths,        \* what requests ask for
  Requests,     \* requests that may arrive
  None,         \* no row: Python's None
  PlanLimits,   \* client -> the limits of its plan (PLAN_RATE_LIMITS)
  InitialRow,   \* client -> its committed row at the start
  AdminLimits,  \* limits an administrator may commit for a client
  AdminActive,  \* values of is_active an administrator may commit
  Faults,       \* which faults may happen
  MaxTime,      \* bound: the last tick of the clock
  MaxLag        \* bound: ticks from reading the clock to Redis executing INCR

Limits == [allowed : Nat \ {0}, window : Nat \ {0}]

Row == [active : BOOLEAN, config : Limits \union {None}]

ASSUME RequestsFinite == IsFiniteSet(Requests)
ASSUME NoneType == None \notin Limits /\ None \notin Clients /\ None \notin Row
ASSUME PlanLimitsType == PlanLimits \in [Clients -> Limits]
ASSUME InitialRowType == InitialRow \in [Clients -> Row]
ASSUME AdminType == AdminLimits \subseteq Limits /\ AdminActive \subseteq BOOLEAN
ASSUME BoundsType == MaxTime \in Nat /\ MaxLag \in Nat
ASSUME KeysType == Clients \subseteq Keys
ASSUME PathsType == Paths \subseteq {"exempt", "plain", "usage"}
ASSUME FaultsType ==
  Faults \subseteq {"redis", "flush", "database", "handler", "crash"}

Times == 0 .. MaxTime

VARIABLES
  now,      \* the clock; the application and Redis run on one host
  row,      \* client -> its committed row: is_active and limit override
  counter,  \* <<client, bucket>> -> the Redis key rate_limit:<key>:<bucket>
  pc,       \* request -> where in dispatch it is
  call,     \* request -> its client, its path and is_active as it read it
  quota,    \* request -> the limits and the window key it works with
  ticket,   \* request -> what the counter said to it
  reply,    \* request -> its response, as far as the limiter shapes it
  tasks,    \* pending _log_usage tasks
  usage     \* client -> how many api_usage rows it has, by was_allowed

vars == <<now, row, counter, pc, call, quota, ticket, reply, tasks, usage>>

Phases == {"idle", "config", "loaded", "counting", "handling", "done"}

Calls == [client : Clients \union {None}, path : Paths \union {"none"},
          active : BOOLEAN]

Quotas == [allowed : Nat, window : Nat, bucket : Times, deadline : Nat]

Verdicts == {"none", "admitted", "blocked", "lost"}

Tickets == [verdict : Verdicts, life : Nat, count : Nat, at : Times]

HeaderSets == [limit : Nat, remaining : Nat, window : Nat]

Replies == [status : {0, 200, 401, 403, 429, 500}, headers : HeaderSets]

NoCall    == [client |-> None, path |-> "none", active |-> FALSE]
NoQuota   == [allowed |-> 0, window |-> 0, bucket |-> 0, deadline |-> 0]
NoTicket  == [verdict |-> "none", life |-> 0, count |-> 0, at |-> 0]
NoHeaders == [limit |-> 0, remaining |-> 0, window |-> 0]
NoReply   == [status |-> 0, headers |-> NoHeaders]

Max0(n) == IF n > 0 THEN n ELSE 0

Init ==
  /\ now = 0
  /\ row = InitialRow
  /\ counter = [k \in Clients \X Times |-> NoCounter]
  /\ pc = [r \in Requests |-> "idle"]
  /\ call = [r \in Requests |-> NoCall]
  /\ quota = [r \in Requests |-> NoQuota]
  /\ ticket = [r \in Requests |-> NoTicket]
  /\ reply = [r \in Requests |-> NoReply]
  /\ tasks = {}
  /\ usage = [c \in Clients |-> [allowed |-> 0, blocked |-> 0]]

-----------------------------------------------------------------------------
(* One request in dispatch. *)

Answer(r, status, headers) ==
  /\ pc' = [pc EXCEPT ![r] = "done"]
  /\ reply' = [reply EXCEPT ![r] = [status |-> status, headers |-> headers]]

\* dispatch ends before the request was counted, and its locals with it.
Leave(r, status) ==
  /\ Answer(r, status, NoHeaders)
  /\ call' = [call EXCEPT ![r] = NoCall]
  /\ quota' = [quota EXCEPT ![r] = NoQuota]

\* An exempt path goes straight to its handler.
ServeExempt(r) ==
  /\ pc[r] = "idle"
  /\ "exempt" \in Paths
  /\ Leave(r, 200)
  /\ UNCHANGED <<now, row, counter, ticket, tasks, usage>>

\* No X-API-KEY header, or one that no client has.
RejectUnknownKey(r) ==
  /\ pc[r] = "idle"
  /\ Keys \ Clients # {}
  /\ Leave(r, 401)
  /\ UNCHANGED <<now, row, counter, ticket, tasks, usage>>

\* get_by_api_key_with_config, its first SELECT: the api_clients row.
SelectClient(r, c, p) ==
  /\ pc[r] = "idle"
  /\ pc' = [pc EXCEPT ![r] = "config"]
  /\ call' = [call EXCEPT ![r] =
                [client |-> c, path |-> p, active |-> row[c].active]]
  /\ UNCHANGED <<now, row, counter, quota, ticket, reply, tasks, usage>>

\* _get_limits: the override when there is one, the plan's limits otherwise.
EffectiveLimits(c) ==
  IF row[c].config # None THEN row[c].config ELSE PlanLimits[c]

\* Its second SELECT, by selectinload: the rate_limit_configs row.
SelectConfig(r) ==
  LET l == EffectiveLimits(call[r].client) IN
  /\ pc[r] = "config"
  /\ pc' = [pc EXCEPT ![r] = "loaded"]
  /\ quota' = [quota EXCEPT ![r] = [allowed |-> l.allowed, window |-> l.window,
                                    bucket |-> 0, deadline |-> 0]]
  /\ UNCHANGED <<now, row, counter, call, ticket, reply, tasks, usage>>

\* The is_active check turns the request away.
RejectInactive(r) ==
  /\ pc[r] = "loaded"
  /\ ~call[r].active
  /\ Leave(r, 403)
  /\ UNCHANGED <<now, row, counter, ticket, tasks, usage>>

\* _window_key reads the clock; the pipeline is on its way to Redis.
BuildKey(r) ==
  LET q == quota[r] IN
  /\ pc[r] = "loaded"
  /\ call[r].active
  /\ pc' = [pc EXCEPT ![r] = "counting"]
  /\ quota' = [quota EXCEPT ![r] =
                 [allowed |-> q.allowed, window |-> q.window,
                  bucket |-> WindowBucket(now, q.window),
                  deadline |-> now + MaxLag]]
  /\ UNCHANGED <<now, row, counter, call, ticket, reply, tasks, usage>>

Key(r) == <<call[r].client, quota[r].bucket>>

\* Redis executes the pipeline of r, whose verdict will be v.
Increment(r, v) ==
  LET ctr == IncrExpire(counter[Key(r)], now, quota[r].window) IN
  /\ counter' = [counter EXCEPT ![Key(r)] = ctr]
  /\ ticket' = [ticket EXCEPT ![r] = [verdict |-> v, life |-> ctr.life,
                                      count |-> ctr.count, at |-> now]]

Position_BeforeIncr(r) == CurrentCount(counter[Key(r)], now)
Position_Strict(r) == CurrentCount(counter[Key(r)], now) + 2

\* The value INCR is going to return to r.
Position(r) == CurrentCount(counter[Key(r)], now) + 1

Headers(q, remaining) ==
  [limit |-> q.allowed, remaining |-> remaining, window |-> q.window]

\* check_and_increment allows the request and call_next is entered.
Admit(r) ==
  /\ pc[r] = "counting"
  /\ Position(r) <= quota[r].allowed
  /\ Increment(r, "admitted")
  /\ pc' = [pc EXCEPT ![r] = "handling"]
  /\ UNCHANGED <<now, row, call, quota, reply, tasks, usage>>

Block_Unlogged(r) ==
  /\ pc[r] = "counting"
  /\ Position(r) > quota[r].allowed
  /\ Increment(r, "blocked")
  /\ Answer(r, 429, Headers(quota[r], 0))
  /\ UNCHANGED <<now, row, call, quota, tasks, usage>>

\* check_and_increment refuses it: 429, and a usage task.
Block(r) ==
  /\ pc[r] = "counting"
  /\ Position(r) > quota[r].allowed
  /\ Increment(r, "blocked")
  /\ Answer(r, 429, Headers(quota[r], 0))
  /\ tasks' = tasks \union {[req |-> r, allowed |-> FALSE]}
  /\ UNCHANGED <<now, row, call, quota, usage>>

ServeWith(r, refused, left) ==
  /\ pc[r] = "handling"
  /\ Answer(r, IF refused THEN 403 ELSE 200, Headers(quota[r], left))
  /\ tasks' = tasks \union {[req |-> r, allowed |-> TRUE]}
  /\ UNCHANGED <<now, row, counter, call, quota, ticket, usage>>

\* The usage endpoints authenticate again (authenticate_api_key) and refuse
\* a client disabled since.
RefusedAgain(r) == call[r].path = "usage" /\ ~row[call[r].client].active

Serve_Reread(r) ==
  ServeWith(r, RefusedAgain(r),
            Max0(quota[r].allowed - CurrentCount(counter[Key(r)], now)))

Serve_Unclamped(r) ==
  ServeWith(r, RefusedAgain(r),
            quota[r].allowed - CurrentCount(counter[Key(r)], now))

Serve_Hangs(r) ==
  /\ ~RefusedAgain(r)
  /\ ServeWith(r, FALSE, Max0(quota[r].allowed - ticket[r].count))

\* The handler returns: the headers are added and the usage task is created.
Serve(r) ==
  ServeWith(r, RefusedAgain(r), Max0(quota[r].allowed - ticket[r].count))
-----------------------------------------------------------------------------
(* Usage rows. *)

CountRow(u, allowed) ==
  IF allowed THEN [allowed |-> u.allowed + 1, blocked |-> u.blocked]
             ELSE [allowed |-> u.allowed, blocked |-> u.blocked + 1]

LogUsage_Retries(t) ==
  LET c == call[t.req].client IN
  /\ t \in tasks
  /\ usage' = [usage EXCEPT ![c] = CountRow(usage[c], t.allowed)]
  /\ UNCHANGED <<now, row, counter, pc, call, quota, ticket, reply, tasks>>

LogUsage_AllowedOnly(t) ==
  LET c == call[t.req].client IN
  /\ t \in tasks /\ t.allowed
  /\ tasks' = tasks \ {t}
  /\ usage' = [usage EXCEPT ![c] = CountRow(usage[c], t.allowed)]
  /\ UNCHANGED <<now, row, counter, pc, call, quota, ticket, reply>>

\* A _log_usage task inserts its row and commits.
LogUsage(t) ==
  LET c == call[t.req].client IN
  /\ t \in tasks
  /\ tasks' = tasks \ {t}
  /\ usage' = [usage EXCEPT ![c] = CountRow(usage[c], t.allowed)]
  /\ UNCHANGED <<now, row, counter, pc, call, quota, ticket, reply>>

\* It raises, and swallows the exception.
LogUsageFails(t) ==
  /\ "database" \in Faults
  /\ t \in tasks
  /\ tasks' = tasks \ {t}
  /\ UNCHANGED <<now, row, counter, pc, call, quota, ticket, reply, usage>>
-----------------------------------------------------------------------------
(* Faults of a request: what raises here is no AppError, so it leaves       *)
(* dispatch and becomes a bare 500.                                         *)

\* One of the two SELECTs raises.
DatabaseFails(r) ==
  /\ "database" \in Faults
  /\ pc[r] \in {"idle", "config"}
  /\ Leave(r, 500)
  /\ UNCHANGED <<now, row, counter, ticket, tasks, usage>>

\* The pipeline raises before Redis executed it.
RedisUnreachable(r) ==
  /\ "redis" \in Faults
  /\ pc[r] = "counting"
  /\ Leave(r, 500)
  /\ UNCHANGED <<now, row, counter, ticket, tasks, usage>>

\* Redis executed it, and its answer is lost.
RedisAnswerLost(r) ==
  /\ "redis" \in Faults
  /\ pc[r] = "counting"
  /\ Increment(r, "lost")
  /\ Answer(r, 500, NoHeaders)
  /\ UNCHANGED <<now, row, call, quota, tasks, usage>>

\* call_next raises: the statements after it do not run.
HandlerRaises(r) ==
  /\ "handler" \in Faults
  /\ pc[r] = "handling"
  /\ Answer(r, 500, NoHeaders)
  /\ UNCHANGED <<now, row, counter, call, quota, ticket, tasks, usage>>
-----------------------------------------------------------------------------
(* The environment. *)

\* set_active, committed (enable and disable).
SetActive(c, a) ==
  /\ row[c].active # a
  /\ row' = [row EXCEPT ![c] = [active |-> a, config |-> row[c].config]]
  /\ UNCHANGED <<now, counter, pc, call, quota, ticket, reply, tasks, usage>>

\* update_config, committed.
UpdateConfig(c, l) ==
  /\ row[c].config # l
  /\ row' = [row EXCEPT ![c] = [active |-> row[c].active, config |-> l]]
  /\ UNCHANGED <<now, counter, pc, call, quota, ticket, reply, tasks, usage>>

Tick ==
  /\ now < MaxTime
  /\ \A r \in Requests : pc[r] = "counting" => now < quota[r].deadline
  /\ now' = now + 1
  /\ UNCHANGED <<row, counter, pc, call, quota, ticket, reply, tasks, usage>>

\* Redis comes back without its keys.
RedisRestart ==
  /\ "flush" \in Faults
  /\ \E k \in Clients \X Times : counter[k].count > 0
  /\ counter' = [k \in Clients \X Times |->
                   [life |-> counter[k].life, count |-> 0, expire |-> 0]]
  /\ UNCHANGED <<now, row, pc, call, quota, ticket, reply, tasks, usage>>

InFlight(r) == pc[r] \notin {"idle", "done"}

Uncounted(r) == pc[r] \in {"config", "loaded", "counting"}

\* The process dies: requests in flight get no answer, tasks are gone.
AppCrash ==
  /\ "crash" \in Faults
  /\ tasks # {} \/ \E r \in Requests : InFlight(r)
  /\ pc' = [r \in Requests |-> IF InFlight(r) THEN "done" ELSE pc[r]]
  /\ call' = [r \in Requests |-> IF Uncounted(r) THEN NoCall ELSE call[r]]
  /\ quota' = [r \in Requests |-> IF Uncounted(r) THEN NoQuota ELSE quota[r]]
  /\ tasks' = {}
  /\ UNCHANGED <<now, row, counter, ticket, reply, usage>>
-----------------------------------------------------------------------------
Dispatch(r) ==
  \/ SelectConfig(r)
  \/ RejectInactive(r)
  \/ BuildKey(r)
  \/ Admit(r)
  \/ Block(r)
  \/ Serve(r)

Arrive(r) ==
  \/ ServeExempt(r)
  \/ RejectUnknownKey(r)
  \/ \E c \in Clients, p \in Paths \ {"exempt"} : SelectClient(r, c, p)

RequestFault(r) ==
  \/ DatabaseFails(r)
  \/ RedisUnreachable(r)
  \/ RedisAnswerLost(r)
  \/ HandlerRaises(r)

Admin ==
  \/ \E c \in Clients, a \in AdminActive : SetActive(c, a)
  \/ \E c \in Clients, l \in AdminLimits : UpdateConfig(c, l)

Next ==
  \/ \E r \in Requests : Arrive(r) \/ Dispatch(r) \/ RequestFault(r)
  \/ \E t \in tasks : LogUsage(t) \/ LogUsageFails(t)
  \/ Admin
  \/ Tick
  \/ RedisRestart
  \/ AppCrash

Spec == Init /\ [][Next]_vars

\* The event loop runs every request and every task that can proceed, and
\* Redis, Postgres and the handlers answer.
Fairness ==
  /\ \A r \in Requests : WF_vars(Dispatch(r))
  /\ WF_vars(\E t \in tasks : LogUsage(t))

FairSpec == Spec /\ Fairness
-----------------------------------------------------------------------------
(* Properties. *)

\* What the variables range over.
Types ==
  /\ now \in Times
  /\ row \in [Clients -> Row]
  /\ counter \in [Clients \X Times -> Counter]
  /\ pc \in [Requests -> Phases]
  /\ call \in [Requests -> Calls]
  /\ quota \in [Requests -> Quotas]
  /\ ticket \in [Requests -> Tickets]
  /\ reply \in [Requests -> Replies]
  /\ tasks \subseteq [req : Requests, allowed : BOOLEAN]
  /\ usage \in [Clients -> [allowed : Nat, blocked : Nat]]

Counted(r)  == ticket[r].verdict # "none"
Admitted(r) == ticket[r].verdict = "admitted"
Blocked(r)  == ticket[r].verdict = "blocked"

Positive(r) == quota[r].allowed >= 1 /\ quota[r].window >= 1

\* Where a request is in dispatch tells what it has: a client once the first
\* SELECT ran, limits once the second did, a ticket once Redis answered.
PhaseInv ==
  \A r \in Requests :
    /\ pc[r] \in {"config", "loaded", "counting", "handling"} \/ Counted(r)
         => call[r].client \in Clients
    /\ pc[r] \in {"loaded", "counting", "handling"} \/ Counted(r) => Positive(r)
    /\ pc[r] \in {"idle", "config", "loaded", "counting"} => ~Counted(r)
    /\ pc[r] = "handling" => Admitted(r)

\* Every variable keeps its type, and a request has what goes with its phase:
\* nobody waits for Redis without a client and positive limits, and whoever is
\* past its verdict keeps the ticket, the client and the limits it was given by.
TypeOK == Types /\ PhaseInv

\* Two requests counted by the same incarnation of the same Redis key.
SameCounter(r, s) ==
  Counted(r) /\ Counted(s) /\ Key(r) = Key(s) /\ ticket[r].life = ticket[s].life

\* However requests interleave, and whatever administrators, the network and
\* Redis do meanwhile: of the requests one incarnation of a key lets through,
\* no more than L did so under a limit of L or less (INCR before the test).
QuotaPerCounter ==
  \A r \in Requests : Admitted(r) =>
    Cardinality({s \in Requests :
      Admitted(s) /\ SameCounter(r, s) /\ quota[s].allowed <= quota[r].allowed})
    <= quota[r].allowed

\* A request is refused only for a counter whose every place within the
\* limit was taken: by an admitted request, by one whose answer was lost, or
\* by one refused under a smaller limit (a refusal increments as well).
RefusedOnlyWhenFull ==
  \A r \in Requests : Blocked(r) =>
    \A i \in 1 .. quota[r].allowed : \E s \in Requests :
      /\ SameCounter(r, s)
      /\ ticket[s].count = i
      /\ Blocked(s) => quota[s].allowed < i

\* The limits of a client no administrator changes.
FixedLimits == AdminLimits = {} /\ "flush" \notin Faults
QuotaOf(c)  == IF InitialRow[c].config # None THEN InitialRow[c].config
                                              ELSE PlanLimits[c]

\* The pipeline of r ran no later than one tick after its window's last.
InTime(r) == ticket[r].at <= quota[r].bucket + quota[r].window

\* With limits left alone and Redis kept running, a window admits at most
\* its limit, however late the pipelines are, among those that run in time:
\* the EXPIRE on each request never lets a key go before its window ends.
QuotaPerWindow ==
  FixedLimits => \A c \in Clients, b \in Times :
    Cardinality({r \in Requests :
      Admitted(r) /\ Key(r) = <<c, b>> /\ InTime(r)}) <= QuotaOf(c).allowed

\* A pipeline later than that may find its key expired and start it again.
\* If none is later than a window, it can do so once: the key admits at
\* most twice the limit.
StaleKeyQuota ==
  FixedLimits => \A c \in Clients, b \in Times : MaxLag <= QuotaOf(c).window =>
    Cardinality({r \in Requests : Admitted(r) /\ Key(r) = <<c, b>>})
      <= 2 * QuotaOf(c).allowed

\* The pipeline of r ran less than d ticks after its window's end.
RanWithin(r, d) == ticket[r].at < quota[r].bucket + quota[r].window + d

\* The known weakness of a fixed window (the class comment of
\* rate_limit_service.py), and its size.  A stretch of time as long as a window
\* sees at most twice the limit if pipelines run by the first tick after their
\* window, and the limit once more for each window they may be later than that:
\* a key is counted in by no more than one incarnation in such a stretch.
BoundaryBurst ==
  FixedLimits => \A c \in Clients, t \in Times, d \in 0 .. MaxLag :
    LET w == QuotaOf(c).window IN
    Cardinality({r \in Requests :
      /\ Admitted(r) /\ call[r].client = c /\ RanWithin(r, d)
      /\ ticket[r].at \in t .. t + w - 1})
    <= (2 + (d + w - 2) \div w) * QuotaOf(c).allowed

\* X-RateLimit-Remaining of an admitted request is the limit less the
\* requests its counter had admitted when it was counted, itself included:
\* later requests that finish earlier do not make it lie.
RemainingIsHonest ==
  FixedLimits /\ "redis" \notin Faults => \A r \in Requests :
    Admitted(r) /\ reply[r].headers # NoHeaders =>
      reply[r].headers.remaining = quota[r].allowed -
        Cardinality({s \in Requests : Admitted(s) /\ SameCounter(r, s)
                                        /\ ticket[s].count <= ticket[r].count})

\* During its window a counter never goes down, so no request makes room for
\* another one (fixed limits, Redis running).
NoRefund ==
  [][FixedLimits => \A c \in Clients, b \in Times :
       now' <= b + QuotaOf(c).window =>
         CurrentCount(counter'[<<c, b>>], now')
           >= CurrentCount(counter[<<c, b>>], now)]_vars

RequestsOf(c) == {r \in Requests : call[r].client = c}
Pending(c, a) == {t \in tasks : call[t.req].client = c /\ t.allowed = a}

\* Rows written and rows still pending never exceed the verdicts given, in
\* spite of lost answers, failing handlers and crashes: usage is not invented.
UsageNeverOvercounts ==
  \A c \in Clients :
    /\ usage[c].allowed + Cardinality(Pending(c, TRUE))
         <= Cardinality({r \in RequestsOf(c) : Admitted(r)})
    /\ usage[c].blocked + Cardinality(Pending(c, FALSE))
         <= Cardinality({r \in RequestsOf(c) : Blocked(r)})

\* docs/database/DATABASE.md:55: "One row per request handled by the
\* middleware (both allowed and blocked)", once a client's requests are over
\* and the background tasks have run.
OneRowPerRequest ==
  \A c \in Clients :
    (tasks = {} /\ \A r \in RequestsOf(c) : pc[r] = "done") =>
      /\ usage[c].allowed = Cardinality({r \in RequestsOf(c) : Admitted(r)})
      /\ usage[c].blocked = Cardinality({r \in RequestsOf(c) : Blocked(r)})

\* Every request that entered dispatch is answered.
EveryRequestAnswered ==
  \A r \in Requests : (pc[r] # "idle") ~> (pc[r] = "done")

\* Every verdict gets its row in api_usage: when no statement and no handler
\* raises and the process lives, a client given n verdicts of a kind will have
\* n rows of it (and no more, by UsageNeverOvercounts), whatever Redis does.
EveryVerdictLogged ==
  \A c \in Clients, n \in 1 .. Cardinality(Requests) :
    /\ (Cardinality({r \in RequestsOf(c) : Admitted(r)}) >= n) ~> (usage[c].allowed >= n)
    /\ (Cardinality({r \in RequestsOf(c) : Blocked(r)}) >= n) ~> (usage[c].blocked >= n)
=============================================================================
