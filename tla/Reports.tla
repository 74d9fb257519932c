------------------------------- MODULE Reports -------------------------------
(***************************************************************************)
(* The requests that read: usage of a client                               *)
(* (app/services/usage_service.py), analytics with their Redis cache       *)
(* (app/services/analytics_service.py) and pages of clients                *)
(* (app/repositories/client_repository.py), while usage rows are inserted, *)
(* clients registered, enabled and disabled.                               *)
(*                                                                         *)
(* A reader is one such request, except that a "walk" asks for one page    *)
(* after the other.  Every statement sees what is committed when it runs   *)
(* (READ COMMITTED), so a report of several statements is several steps.   *)
(***************************************************************************)
EXTENDS UsageQueries

CONSTANTS
  Readers,
  Jobs,        \* what a reader may ask for
  Workloads,   \* which jobs, tasks and changes of clients may meet
  Tasks,       \* _log_usage tasks of requests that were counted
  Logged,      \* task -> the client and the verdict it logs
  Registered,  \* clients registered at the start
  Columns,     \* what pages may be ordered by: created_at, client_name, email
  SortValue,   \* column -> client -> the place of its value among all values
  CacheTTL,    \* CACHE_TTL
  PageSize,
  None,        \* no value: no row, no cached answer, no filter
  MaxTime,     \* bound: the last instant
  MaxLag,      \* bound: from a report's first query to its answer
  MaxLeft      \* bound: clients that cease to match while pages are read

\* Payloads; the fields a report does not have are None.
StatsJob == [kind |-> "stats", client |-> None, limit |-> None,
             status |-> None, ordering |-> None]
Nothing == [StatsJob EXCEPT !.kind = "nothing"]
TopJob(l) == [StatsJob EXCEPT !.kind = "top", !.limit = l]
UsageJob(kind, c) == [StatsJob EXCEPT !.kind = kind, !.client = c]
WalkJob(status, ordering) ==
  [StatsJob EXCEPT !.kind = "walk", !.status = status, !.ordering = ordering]

Orderings == [by : Columns, descending : BOOLEAN]

UsageKinds  == {"current", "daily", "monthly", "summary"}
CachedKinds == {"stats", "top"}

ASSUME JobsType == \A j \in Jobs :
  \/ j \in {StatsJob, Nothing}
  \/ j.limit \in Nat \ {0} /\ j = TopJob(j.limit)
  \/ \E k \in UsageKinds, c \in Clients : j = UsageJob(k, c)
  \/ \E s \in BOOLEAN \union {None}, o \in Orderings : j = WalkJob(s, o)
ASSUME WorkloadsType == \A l \in Workloads :
  /\ l.jobs \in [Readers -> Jobs]
  /\ l.tasks \subseteq Tasks      \* those that get to their INSERT
  /\ l.changes \subseteq Clients \X BOOLEAN  \* those that may be committed
ASSUME LoggedType == Logged \in [Tasks -> [client : Clients, allowed : BOOLEAN]]
ASSUME RegisteredType == Registered \subseteq Clients
ASSUME SortValueType == SortValue \in [Columns -> [Clients -> Nat]]
ASSUME NumbersType ==
  /\ CacheTTL \in Nat \ {0} /\ PageSize \in Nat \ {0}
  /\ MaxTime \in Nat /\ MaxLag \in Nat /\ MaxLeft \in Nat
ASSUME NoneType == None \notin BOOLEAN /\ None \notin Nat /\ None \notin Clients

VARIABLES
  active,  \* client -> its committed is_active, None before it registers
  task,    \* task -> how far it is, and the timestamp of its row
  cache,   \* kind of analytics -> the Redis key: the answer and when it expires
  load,    \* the workload
  pc,      \* reader -> how far it is
  asked,   \* reader -> when it began to compute, and its usage then ends
  value,   \* reader -> what it has computed, and then answered
  ended,   \* reader -> when its analytics were answered (history)
  walk     \* reader -> the pages it has been given

job == load.jobs   \* reader -> its request

readerVars == <<pc, asked, value, ended>>
vars == <<now, rows, active, task, cache, load, readerVars, walk>>

Stats  == [total : Nat, allowed : Nat, blocked : Nat, clients : Nat, active : Nat]

\* seen: how many rows there were (history).
Usages == [total : Nat, allowed : Nat, blocked : Nat, seen : Nat]

NoCache == [k \in CachedKinds |-> None]

\* shown: the clients on the pages so far; count: how many on the last one;
\* total: as the last page said.  stayed and left are history: the clients
\* that match the filter since the first page, and how often one ceased to.
NoPages == [page |-> 1, shown |-> {}, count |-> 0, total |-> 0,
            stayed |-> {}, left |-> 0]

Init ==
  /\ now = 0
  /\ rows = <<>>
  /\ active = [c \in Clients |-> IF c \in Registered THEN TRUE ELSE None]
  /\ task = [k \in Tasks |-> [phase |-> "pending", stamp |-> 0]]
  /\ cache = NoCache
  /\ load \in Workloads
  /\ pc = [r \in Readers |-> "start"]
  /\ asked = [r \in Readers |-> 0]
  /\ value = [r \in Readers |-> None]
  /\ ended = [r \in Readers |-> 0]
  /\ walk = [r \in Readers |-> NoPages]

-----------------------------------------------------------------------------
(* Usage rows. *)

\* The INSERT of _log_usage; the transaction's start is the timestamp. A task
\* that raises swallows the exception: here, it goes no further.
InsertRow(k) ==
  /\ k \in load.tasks
  /\ task[k].phase = "pending"
  /\ active[Logged[k].client] # None
  /\ task' = [task EXCEPT ![k] = [phase |-> "inserted", stamp |-> now]]
  /\ UNCHANGED <<now, rows, active, cache, load, readerVars, walk>>

\* Its COMMIT.
CommitRow(k) ==
  /\ task[k].phase = "inserted"
  /\ rows' = Append(rows, [client |-> Logged[k].client, allowed |-> Logged[k].allowed,
                           stamp |-> task[k].stamp, committed |-> now])
  /\ task' = [task EXCEPT ![k] = [phase |-> "over", stamp |-> 0]]
  /\ UNCHANGED <<now, active, cache, load, readerVars, walk>>

-----------------------------------------------------------------------------
(* Analytics. *)

Go(r, from, to) == pc[r] = from /\ pc' = [pc EXCEPT ![r] = to]

Compute(r, v) == value' = [value EXCEPT ![r] = v]

FirstQuery(r) == asked' = [asked EXCEPT ![r] = now]

Answer(r) == ended' = [ended EXCEPT ![r] = now]

\* Until its last instant, as FixedWindow has it; Redis may also lose it then.
Cached(k) == cache[k] # None /\ now <= cache[k].expires

\* redis.get finds the key.
Hit(r) ==
  LET k == job[r].kind IN
  /\ k \in CachedKinds /\ Cached(k)
  /\ Go(r, "start", "done")
  /\ Compute(r, cache[k].value)
  /\ Answer(r)
  /\ UNCHANGED <<now, rows, active, task, cache, load, asked, walk>>

Miss_AnswersNull(r) ==
  /\ job[r].kind \in CachedKinds /\ ~Cached(job[r].kind)
  /\ Go(r, "start", "done")
  /\ UNCHANGED <<now, rows, active, task, cache, load, asked, value, ended, walk>>

Miss(r) ==
  /\ job[r].kind \in CachedKinds /\ ~Cached(job[r].kind)
  /\ Go(r, "start", "query")
  /\ UNCHANGED <<now, rows, active, task, cache, load, asked, value, ended, walk>>

\* The ranking; the names that are then looked up are of clients that exist,
\* since none is ever deleted.
QueryTop(r) ==
  /\ job[r].kind = "top"
  /\ Go(r, "query", "store")
  /\ FirstQuery(r)
  /\ \E list \in TopClients(job[r].limit) : Compute(r, list)
  /\ UNCHANGED <<now, rows, active, task, cache, load, ended, walk>>

Fits(a, status) == a # None /\ (status = None \/ a = status)

\* The clients a filter leaves; filters on what never changes are left out.
Matching(status) == {c \in Clients : Fits(active[c], status)}

\* get_system_totals
QueryTotals(r) ==
  LET t == Counts(All) IN
  /\ job[r].kind = "stats"
  /\ Go(r, "query", "clients")
  /\ FirstQuery(r)
  /\ Compute(r, [total |-> t.total, allowed |-> t.allowed, blocked |-> t.blocked,
                 clients |-> 0, active |-> 0])
  /\ UNCHANGED <<now, rows, active, task, cache, load, ended, walk>>

CountClients_Active(r) ==
  /\ Go(r, "clients", "active")
  /\ Compute(r, [value[r] EXCEPT !.clients = Cardinality(Matching(TRUE))])
  /\ UNCHANGED <<now, rows, active, task, cache, load, asked, ended, walk>>

CountClients(r) ==
  /\ Go(r, "clients", "active")
  /\ Compute(r, [value[r] EXCEPT !.clients = Cardinality(Matching(None))])
  /\ UNCHANGED <<now, rows, active, task, cache, load, asked, ended, walk>>

CountActive(r) ==
  /\ Go(r, "active", "store")
  /\ Compute(r, [value[r] EXCEPT !.active = Cardinality(Matching(TRUE))])
  /\ UNCHANGED <<now, rows, active, task, cache, load, asked, ended, walk>>

Store_Forever(r) ==
  /\ Go(r, "store", "done")
  /\ cache' = [cache EXCEPT ![job[r].kind] =
                 [value |-> value[r], expires |-> MaxTime + 1]]
  /\ Answer(r)
  /\ UNCHANGED <<now, rows, active, task, load, asked, value, walk>>

\* setex, whatever has been stored since the miss; and the answer.
Store(r) ==
  /\ Go(r, "store", "done")
  /\ cache' = [cache EXCEPT ![job[r].kind] =
                 [value |-> value[r], expires |-> now + CacheTTL]]
  /\ Answer(r)
  /\ asked' = [asked EXCEPT ![r] = 0]
  /\ UNCHANGED <<now, rows, active, task, load, value, walk>>
-----------------------------------------------------------------------------
(* Usage of one client. *)

\* datetime.now(); for a summary, the totals it asks for and does not use.
Begin(r) ==
  /\ job[r].kind \in UsageKinds
  /\ Go(r, "start", "count")
  /\ FirstQuery(r)
  /\ UNCHANGED <<now, rows, active, task, cache, load, value, ended, walk>>

UsageOf(kind, c, t) ==
  CASE kind = "current" -> CurrentUsage(c, t)
    [] kind = "daily"   -> DailyUsage(c, t)
    [] kind = "monthly" -> MonthlyUsage(c, t)
    [] kind = "summary" -> Counts(Of(c))

CountUsage(r) ==
  LET u == UsageOf(job[r].kind, job[r].client, asked[r]) IN
  /\ Go(r, "count", "done")
  /\ Compute(r, [total |-> u.total, allowed |-> u.allowed, blocked |-> u.blocked,
                 seen |-> Len(rows)])
  /\ UNCHANGED <<now, rows, active, task, cache, load, asked, ended, walk>>
-----------------------------------------------------------------------------
(* Pages of clients. *)

Before(c, d, o) ==
  LET v == SortValue[o.by] IN IF o.descending THEN v[c] > v[d] ELSE v[c] < v[d]

\* What the first n of S may be: ORDER BY has no second column, so which of
\* equal sort values comes first is Postgres' choice, anew in every statement.
Heads(S, n, o) ==
  {H \in SUBSET S :
     /\ Cardinality(H) = IF Cardinality(S) < n THEN Cardinality(S) ELSE n
     /\ \A c \in H, d \in S \ H : ~Before(d, c, o)}

Offset_ZeroBased(page) == page * PageSize

Offset(page) == (page - 1) * PageSize

\* OFFSET and LIMIT: what LIMIT leaves of the list less what OFFSET skips of it.
Pages(S, page, o) ==
  UNION {{Q \ P : Q \in {H \in Heads(S, Offset(page) + PageSize, o) : P \subseteq H}} :
           P \in Heads(S, Offset(page), o)}

\* list, its first query: the rows of a page.
SelectPage(r) ==
  LET w == walk[r]
      S == Matching(job[r].status) IN
  /\ job[r].kind = "walk"
  /\ Go(r, "start", "total")
  /\ \E page \in Pages(S, w.page, job[r].ordering) :
       walk' = [walk EXCEPT
         ![r].shown = @ \union page,
         ![r].count = Cardinality(page),
         ![r].stayed = IF w.page = 1 THEN S ELSE @]
  /\ UNCHANGED <<now, rows, active, task, cache, load, asked, value, ended>>

CountMatching_Page(r) ==
  LET w == walk[r] IN
  /\ pc[r] = "total"
  /\ pc' = [pc EXCEPT ![r] = IF w.count = 0 THEN "done" ELSE "start"]
  /\ walk' = [walk EXCEPT ![r].total = w.count,
                          ![r].page = IF w.count = 0 THEN @ ELSE @ + 1]
  /\ UNCHANGED <<now, rows, active, task, cache, load, asked, value, ended>>

\* Its second query, the total.  The next page is asked for until one is empty.
CountMatching(r) ==
  LET w == walk[r] IN
  /\ pc[r] = "total"
  /\ pc' = [pc EXCEPT ![r] = IF w.count = 0 THEN "done" ELSE "start"]
  /\ walk' = [walk EXCEPT ![r].total = Cardinality(Matching(job[r].status)),
                          ![r].page = IF w.count = 0 THEN @ ELSE @ + 1]
  /\ UNCHANGED <<now, rows, active, task, cache, load, asked, value, ended>>
-----------------------------------------------------------------------------
Computing(r) == pc[r] \in {"clients", "active", "store", "count"}

\* The database or Redis raises: 500, and nothing is stored. Before its first
\* query it need not be told from a reader that goes no further.
Fail(r) ==
  /\ Computing(r)
  /\ pc' = [pc EXCEPT ![r] = "failed"]
  /\ asked' = [asked EXCEPT ![r] = 0]
  /\ Compute(r, None)
  /\ UNCHANGED <<now, rows, active, task, cache, load, ended, walk>>

\* register_client commits.
RegisterClient(c) ==
  /\ <<c, TRUE>> \in load.changes
  /\ active[c] = None
  /\ active' = [active EXCEPT ![c] = TRUE]
  /\ UNCHANGED <<now, rows, task, cache, load, readerVars, walk>>

\* Between the first page and the answer of the last.
Walking(r) == pc[r] = "total" \/ (pc[r] = "start" /\ walk[r].page > 1)

\* set_active commits; walks whose filter the client no longer matches.
SetActive(c, a) ==
  /\ <<c, a>> \in load.changes
  /\ active[c] # None /\ active[c] # a
  /\ \A r \in Readers : walk[r].left < MaxLeft
  /\ active' = [active EXCEPT ![c] = a]
  /\ walk' = [r \in Readers |->
       IF Walking(r) /\ c \in Matching(job[r].status) /\ ~Fits(a, job[r].status)
         THEN [walk[r] EXCEPT !.stayed = @ \ {c}, !.left = @ + 1]
         ELSE walk[r]]
  /\ UNCHANGED <<now, rows, task, cache, load, readerVars>>

\* Redis loses the keys.
CacheLost ==
  /\ cache' = NoCache
  /\ UNCHANGED <<now, rows, active, task, load, readerVars, walk>>

Tick ==
  /\ now < MaxTime
  /\ \A r \in Readers : Computing(r) => now < asked[r] + MaxLag
  /\ now' = now + 1
  /\ UNCHANGED <<rows, active, task, cache, load, readerVars, walk>>

Read(r) ==
  \/ Hit(r) \/ Miss(r) \/ QueryTop(r) \/ Store(r)
  \/ QueryTotals(r) \/ CountClients(r) \/ CountActive(r)
  \/ Begin(r) \/ CountUsage(r)
  \/ SelectPage(r) \/ CountMatching(r)
  \/ Fail(r)

Next ==
  \/ \E r \in Readers : Read(r)
  \/ \E k \in Tasks : InsertRow(k) \/ CommitRow(k)
  \/ \E c \in Clients : RegisterClient(c)
  \/ \E c \in Clients, a \in BOOLEAN : SetActive(c, a)
  \/ CacheLost
  \/ Tick

Spec == Init /\ [][Next]_vars
-----------------------------------------------------------------------------
(* Properties. *)

Phases == {"start", "query", "clients", "active", "store", "count", "total",
           "done", "failed"}

Values(kind) == CASE kind = "stats"     -> Stats
                  [] kind = "top"       -> Seq(TopEntry)
                  [] kind \in UsageKinds -> Usages
                  [] OTHER              -> {None}

Done(r, kinds) == pc[r] = "done" /\ job[r].kind \in kinds

\* Every variable has its type; what a reader answers and what Redis keeps is
\* an answer of the kind asked for, never a half computed or absent one.
TypeOK ==
  /\ now \in 0 .. MaxTime
  /\ rows \in Seq(UsageRow)
  /\ active \in [Clients -> BOOLEAN \union {None}]
  /\ task \in [Tasks -> [phase : {"pending", "inserted", "over"}, stamp : Nat]]
  /\ \A k \in CachedKinds : cache[k] # None =>
       cache[k].value \in Values(k) /\ cache[k].expires \in Nat
  /\ job \in [Readers -> Jobs]
  /\ pc \in [Readers -> Phases]
  /\ asked \in [Readers -> Nat] /\ ended \in [Readers -> Nat]
  /\ \A r \in Readers : pc[r] \in {"done", "store"} => value[r] \in Values(job[r].kind)
  /\ walk \in [Readers ->
       [page : Nat \ {0}, shown : SUBSET Clients, count : Nat, total : Nat,
        stayed : SUBSET Clients, left : Nat]]

\* What was committed before this instant, an answer given at t must know.
Known(t) == t - CacheTTL - MaxLag

\* System statistics may be old, by a TTL and the time their queries took, even
\* if a slow reader overwrites a newer entry of a fast one; but not older: every
\* row committed before that is in the totals.
StatsAreRecent ==
  \A r \in Readers : Done(r, {"stats"}) =>
    \A n \in All : rows[n].committed < Known(ended[r]) => n <= value[r].total

\* The three queries of one answer run at different instants. Still a request is
\* either successful or blocked, and whoever made a request of the total is
\* among the clients, since the clients are counted after the requests.
StatsHangTogether ==
  \A r \in Readers : Done(r, {"stats"}) =>
    /\ value[r].allowed + value[r].blocked = value[r].total
    /\ Cardinality({rows[n].client : n \in 1 .. value[r].total}) <= value[r].clients

\* A list of top clients that is as long as some reader asked for.
Full(list) ==
  \E s \in Readers : job[s].kind = "top" /\ Len(list) = job[s].limit

\* Whoever has requests that were logged a TTL and a computation ago is in the
\* list of top clients with at least as many, or the list is full and all in it
\* have at least as many. Full is as long as the limit of this or of another
\* reader: an answer is cached without its limit (analytics_service.py:68), and
\* one for a smaller limit, served to all, does leave clients out.
TopListIsRecent ==
  \A r \in Readers, c \in Clients : Done(r, {"top"}) =>
    LET list == value[r]
        old == {n \in Of(c) : rows[n].committed < Known(ended[r])}
        Enough(i) == list[i].total >= Cardinality(old) IN
    old # {} =>
      \/ \E i \in DOMAIN list : list[i].client = c /\ Enough(i)
      \/ Full(list) /\ \A i \in DOMAIN list : list[i].client # c /\ Enough(i)

\* tests/integration/test_analytics.py:113-115 asks for limit=2 and asserts
\* len(resp.json()) <= 2: nobody is given more clients than asked for.
LimitRespected ==
  \A r \in Readers : Done(r, {"top"}) => Len(value[r]) <= job[r].limit

SameClient(r, s) == job[r].client = job[s].client

\* A row counted in the usage of one day is not counted in that of another, so
\* the days of a client never add up to more requests than it made; rows that
\* are stamped on one day and appear on the next included.
DaysAddUp ==
  \A r, s \in Readers :
    /\ Done(r, {"daily"}) /\ Done(s, {"daily"}) /\ SameClient(r, s)
    /\ asked[r] \div Day # asked[s] \div Day
    => value[r].total + value[s].total <= Cardinality(Of(job[r].client))

\* The period of r covers that of s.
Covers(r, s) ==
  LET kinds == <<job[r].kind, job[s].kind>> IN
  \/ kinds[1] = "summary"
  \/ /\ kinds \in {<<"monthly", "monthly">>, <<"monthly", "daily">>}
     /\ asked[r] \div Month = asked[s] \div Month
  \/ kinds = <<"daily", "daily">> /\ asked[r] \div Day = asked[s] \div Day
  \/ kinds = <<"current", "daily">> /\ asked[r] - Hour <= Day * (asked[s] \div Day)

\* A later answer never shows less than an earlier one about a part of its
\* period: the month not less than a day of it, the last hour not less than a
\* day that is younger, all time not less than anything.
PeriodsNest ==
  \A r, s \in Readers :
    /\ Done(r, UsageKinds) /\ Done(s, UsageKinds) /\ SameClient(r, s)
    /\ asked[s] <= asked[r] /\ value[s].seen <= value[r].seen
    /\ Covers(r, s)
    => /\ value[s].allowed <= value[r].allowed
       /\ value[s].blocked <= value[r].blocked

\* The clients that share their sort value with nobody: in a list by email, all.
Alone(o) == {c \in Clients : \A d \in Clients \ {c} : Before(c, d, o) \/ Before(d, c, o)}

\* Whoever reads all pages sees every client that matches from the first page on
\* and has a sort value of its own, however many register meanwhile and wherever
\* they are inserted, and however equal values are ordered on each page; only
\* clients that cease to match after the first page can hide others, each at
\* most one. (Of clients with equal values, one may be on no page at all.)
WalkMissesNobody ==
  \A r \in Readers : Done(r, {"walk"}) =>
    Cardinality((walk[r].stayed \ walk[r].shown) \intersect Alone(job[r].ordering))
      <= walk[r].left

\* The total of an answer covers the page it comes with, but for clients that
\* ceased to match.
TotalCoversPage ==
  \A r \in Readers : LET w == walk[r] IN
    pc[r] \in {"start", "done"} /\ w.count > 0 =>
      (w.page - 2) * PageSize + w.count <= w.total + w.left
=============================================================================
