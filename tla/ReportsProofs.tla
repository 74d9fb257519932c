---------------------------- MODULE ReportsProofs ----------------------------
(***************************************************************************)
(* What the reports tell, for any number of rows, readers and clients: how *)
(* old an analytics answer may be and how its figures relate, and how the  *)
(* usage of one period relates to that of another.                         *)
(*                                                                         *)
(* The rows are a sequence that only grows, in commit order. A value that  *)
(* was computed when asked[r] was the time therefore goes on covering all  *)
(* that was committed before; the invariant says so of every value on its  *)
(* way: in a reader, in Redis, and in an answer.                           *)
(***************************************************************************)
EXTENDS Reports, FiniteSetTheorems, TLAPS

\* A total that covers every row committed before t, and adds up.
Behind(v, t) ==
  /\ v \in Stats
  /\ v.total <= Len(rows)
  /\ v.allowed + v.blocked = v.total
  /\ \A n \in 1 .. Len(rows) : n > v.total => rows[n].committed >= t

\* The clients were counted after the requests of the total.
HasClients(v) ==
  Cardinality({rows[n].client : n \in 1 .. v.total}) <= v.clients

Old(c, t) == {n \in Of(c) : rows[n].committed < t}

\* The ranking, of which every client's rows committed before t are worth a place.
Placed(v, c, t) ==
  Old(c, t) # {} =>
    \/ \E i \in DOMAIN v : v[i].client = c /\ v[i].total >= Cardinality(Old(c, t))
    \/ /\ Full(v)
       /\ \A i \in DOMAIN v : v[i].client # c /\ v[i].total >= Cardinality(Old(c, t))

TopFresh(v, t) == v \in Seq(TopEntry) /\ \A c \in Clients : Placed(v, c, t)

Fresh(kind, v, t) ==
  IF kind = "stats" THEN Behind(v, t) /\ HasClients(v) ELSE TopFresh(v, t)

InPeriod(kind, t, s) ==
  CASE kind = "current" -> s >= t - Hour
    [] kind = "daily"   -> DayStart(t) <= s /\ s < t
    [] kind = "monthly" -> MonthStart(t) <= s /\ s < t
    [] kind = "summary" -> TRUE

\* The rows that the usage v was counted from.
CountedIn(v, c, kind, t) ==
  {n \in 1 .. v.seen : rows[n].client = c /\ InPeriod(kind, t, rows[n].stamp)}

Tells(v, c, kind, t) ==
  LET S == CountedIn(v, c, kind, t) IN
  /\ v.seen \in Nat /\ v.seen <= Len(rows)
  /\ v.total = Cardinality(S)
  /\ v.allowed = Cardinality({n \in S : rows[n].allowed})
  /\ v.blocked = Cardinality({n \in S : ~rows[n].allowed})

KindsOK(r) ==
  /\ pc[r] \in {"query", "store"} => job[r].kind \in CachedKinds
  /\ pc[r] \in {"clients", "active"} => job[r].kind = "stats"
  /\ pc[r] = "count" => job[r].kind \in UsageKinds
  /\ pc[r] = "total" => job[r].kind = "walk"

TimesOK(r) ==
  /\ asked[r] \in Nat /\ ended[r] \in Nat
  /\ asked[r] <= now /\ ended[r] <= now
  /\ Computing(r) => now <= asked[r] + MaxLag

ValueOK(r) ==
  LET k == job[r].kind IN
  /\ pc[r] = "clients" => Behind(value[r], asked[r])
  /\ pc[r] = "active" => Fresh("stats", value[r], asked[r])
  /\ pc[r] = "store" => Fresh(k, value[r], asked[r])
  /\ pc[r] = "done" /\ k \in CachedKinds => Fresh(k, value[r], Known(ended[r]))
  /\ pc[r] = "done" /\ k \in UsageKinds =>
       Tells(value[r], job[r].client, k, asked[r])

ReaderOK(r) == KindsOK(r) /\ TimesOK(r) /\ ValueOK(r)

CacheOK(k) == cache[k] # None =>
  /\ cache[k].expires \in Nat
  /\ cache[k].expires <= now + CacheTTL
  /\ Fresh(k, cache[k].value, cache[k].expires - CacheTTL - MaxLag)

\* Rows of clients that exist, committed in the past; tasks that will add such.
TablesOK ==
  /\ now \in Nat
  /\ rows \in Seq(UsageRow)
  /\ active \in [Clients -> BOOLEAN \union {None}]
  /\ task \in [Tasks -> [phase : {"pending", "inserted", "over"}, stamp : Nat]]
  /\ \A k \in Tasks : task[k].phase = "inserted" => active[Logged[k].client] # None
  /\ \A n \in 1 .. Len(rows) :
       rows[n].committed <= now /\ active[rows[n].client] # None

Functions ==
  /\ pc = [r \in Readers |-> pc[r]] /\ asked = [r \in Readers |-> asked[r]]
  /\ value = [r \in Readers |-> value[r]] /\ ended = [r \in Readers |-> ended[r]]
  /\ cache = [k \in CachedKinds |-> cache[k]]
  /\ job \in [Readers -> Jobs]

Inv ==
  /\ Functions /\ TablesOK
  /\ \A r \in Readers : ReaderOK(r)
  /\ \A k \in CachedKinds : CacheOK(k)
-----------------------------------------------------------------------------
(* Facts about jobs, rows and counts. *)

LEMMA JobShape ==
  ASSUME NEW j \in Jobs
  PROVE  /\ j.kind \in UsageKinds => j.client \in Clients
         /\ j.kind = "top" => j.limit \in Nat \ {0}
<1>1. CASE j \in {StatsJob, Nothing}
  BY <1>1 DEF StatsJob, Nothing, UsageKinds
<1>2. CASE j.limit \in Nat \ {0} /\ j = TopJob(j.limit)
  BY <1>2 DEF StatsJob, TopJob, UsageKinds
<1>3. ASSUME NEW k \in UsageKinds, NEW c \in Clients, j = UsageJob(k, c)
      PROVE  j.kind = k /\ j.client = c
  BY <1>3 DEF StatsJob, UsageJob
<1>4. CASE \E k \in UsageKinds, c \in Clients : j = UsageJob(k, c)
  BY <1>3, <1>4 DEF UsageKinds
<1>5. CASE \E s \in BOOLEAN \union {None}, o \in Orderings : j = WalkJob(s, o)
  BY <1>5 DEF StatsJob, WalkJob, UsageKinds
<1>6. QED
  BY JobsType, <1>1, <1>2, <1>4, <1>5

LEMMA RowTypes ==
  ASSUME TablesOK, NEW n \in 1 .. Len(rows)
  PROVE  /\ rows[n] \in UsageRow
         /\ rows[n].client \in Clients /\ rows[n].allowed \in BOOLEAN
         /\ rows[n].stamp \in Nat /\ rows[n].committed \in Nat
<1>1. rows[n] \in UsageRow
  BY DEF TablesOK
<1>2. QED
  BY <1>1 DEF UsageRow

\* The allowed and the blocked rows of a set are the set.
LEMMA CountsAddUp ==
  ASSUME NEW S, IsFiniteSet(S)
  PROVE  Cardinality({n \in S : rows[n].allowed})
           + Cardinality({n \in S : ~rows[n].allowed}) = Cardinality(S)
<1> DEFINE A == {n \in S : rows[n].allowed}
           B == {n \in S : ~rows[n].allowed}
<1>1. S = A \union B /\ A \intersect B = {}
  OBVIOUS
<1>2. IsFiniteSet(A) /\ IsFiniteSet(B)
  BY FS_Subset
<1> HIDE DEF A, B
<1>3. Cardinality(A \union B) = Cardinality(A) + Cardinality(B) - Cardinality(A \intersect B)
  BY <1>2, FS_Union
<1>4. Cardinality(A \intersect B) = 0
  BY <1>1, FS_EmptySet
<1>5. Cardinality(A) \in Nat /\ Cardinality(B) \in Nat
  BY <1>2, FS_CardinalityType
<1>6. QED
  BY <1>1, <1>3, <1>4, <1>5 DEF A, B

LEMMA AllRows ==
  ASSUME TablesOK
  PROVE  /\ All = 1 .. Len(rows) /\ Len(rows) \in Nat
         /\ IsFiniteSet(All) /\ Cardinality(All) = Len(rows)
<1>1. All = 1 .. Len(rows) /\ Len(rows) \in Nat
  BY DEF All, TablesOK
<1>2. ASSUME NEW n \in Nat PROVE IsFiniteSet(1 .. n) /\ Cardinality(1 .. n) = n
  BY FS_Interval
<1>3. QED
  BY <1>1, <1>2, Zenon
-----------------------------------------------------------------------------
(* The rows only grow, by rows committed later. *)

Grow ==
  \/ rows' = rows
  \/ \E x \in UsageRow : rows' = Append(rows, x) /\ x.committed = now

LEMMA GrowPrefix ==
  ASSUME TablesOK, Grow
  PROVE  /\ rows' \in Seq(UsageRow)
         /\ Len(rows) \in Nat /\ Len(rows') \in Nat /\ Len(rows) <= Len(rows')
         /\ \A n \in 1 .. Len(rows) : rows'[n] = rows[n]
         /\ \A n \in 1 .. Len(rows') : n > Len(rows) => rows'[n].committed = now
<1>1. CASE rows' = rows
  BY <1>1 DEF TablesOK
<1>2. ASSUME NEW x \in UsageRow, rows' = Append(rows, x), x.committed = now
      PROVE  /\ rows' \in Seq(UsageRow) /\ Len(rows') = Len(rows) + 1
             /\ \A n \in 1 .. Len(rows) : rows'[n] = rows[n]
             /\ rows'[Len(rows) + 1] = x
  BY <1>2 DEF TablesOK
<1>3. Len(rows) \in Nat
  BY DEF TablesOK
<1>4. ASSUME NEW x \in UsageRow, rows' = Append(rows, x), x.committed = now
      PROVE  \A n \in 1 .. Len(rows') : n > Len(rows) => rows'[n].committed = now
  <2>1. Len(rows') = Len(rows) + 1 /\ rows'[Len(rows) + 1] = x
    BY <1>2, <1>4
  <2>2. QED
    BY <1>3, <1>4, <2>1
<1>5. QED
  BY <1>1, <1>2, <1>3, <1>4 DEF Grow

LEMMA BehindKept ==
  ASSUME TablesOK, Grow, NEW v, NEW t \in Int, t <= now, Behind(v, t)
  PROVE  Behind(v, t)'
<1>1. v.total \in Nat
  BY DEF Behind, Stats
<1>2. \A n \in 1 .. Len(rows') : n > v.total => rows'[n].committed >= t
  <2> SUFFICES ASSUME NEW n \in 1 .. Len(rows'), n > v.total
               PROVE  rows'[n].committed >= t
    OBVIOUS
  <2>1. CASE n \in 1 .. Len(rows)
    BY <2>1, GrowPrefix DEF Behind
  <2>2. CASE n > Len(rows)
    BY <2>2, GrowPrefix DEF TablesOK
  <2>3. QED
    BY <2>1, <2>2, GrowPrefix
<1>3. QED
  BY <1>1, <1>2, GrowPrefix DEF Behind

LEMMA HasClientsKept ==
  ASSUME TablesOK, Grow, NEW v, v.total \in Nat, v.total <= Len(rows), HasClients(v)
  PROVE  HasClients(v)'
<1>1. \A n \in 1 .. v.total : rows'[n] = rows[n]
  BY GrowPrefix
<1>2. {rows'[n].client : n \in 1 .. v.total} = {rows[n].client : n \in 1 .. v.total}
  BY <1>1
<1>3. QED
  BY <1>2 DEF HasClients

LEMMA OldKept ==
  ASSUME TablesOK, Grow, NEW c, NEW t \in Int, t <= now
  PROVE  Old(c, t)' = Old(c, t)
<1>1. /\ Old(c, t) = {n \in 1 .. Len(rows) : rows[n].client = c /\ rows[n].committed < t}
      /\ Old(c, t)' = {n \in 1 .. Len(rows') : rows'[n].client = c
                                              /\ rows'[n].committed < t}
  BY GrowPrefix DEF Old, Of, All, TablesOK
<1>2. \A n \in 1 .. Len(rows') : n > Len(rows) => ~(rows'[n].committed < t)
  BY GrowPrefix DEF TablesOK
<1>3. QED
  BY <1>1, <1>2, GrowPrefix

LEMMA TopFreshKept ==
  ASSUME TablesOK, Grow, load' = load, NEW v, NEW t \in Int, t <= now, TopFresh(v, t)
  PROVE  TopFresh(v, t)'
<1>1. \A c \in Clients : Old(c, t)' = Old(c, t)
  BY OldKept
<1>2. QED
  BY <1>1 DEF TopFresh, Placed, Full, job

LEMMA FreshKept ==
  ASSUME TablesOK, Grow, load' = load, NEW k, NEW v, NEW t \in Int, t <= now, Fresh(k, v, t)
  PROVE  Fresh(k, v, t)'
<1>1. CASE k = "stats"
  <2>1. Behind(v, t) /\ HasClients(v)
    BY <1>1 DEF Fresh
  <2>2. v.total \in Nat /\ v.total <= Len(rows)
    BY <2>1 DEF Behind, Stats
  <2>3. Behind(v, t)' /\ HasClients(v)'
    BY <2>1, <2>2, BehindKept, HasClientsKept
  <2>4. QED
    BY <1>1, <2>3 DEF Fresh
<1>2. CASE k # "stats"
  BY <1>2, TopFreshKept DEF Fresh
<1>3. QED
  BY <1>1, <1>2

LEMMA TellsKept ==
  ASSUME TablesOK, Grow, NEW v, NEW c, NEW k, NEW t, Tells(v, c, k, t)
  PROVE  Tells(v, c, k, t)'
<1> DEFINE S == CountedIn(v, c, k, t)
<1>1. v.seen \in Nat /\ v.seen <= Len(rows)
  BY DEF Tells
<1>2. \A n \in 1 .. v.seen : rows'[n] = rows[n]
  BY <1>1, GrowPrefix
<1>3. S' = S
  BY <1>2 DEF CountedIn, InPeriod, DayStart, MonthStart
<1>4. S \subseteq 1 .. v.seen
  BY DEF CountedIn
<1> HIDE DEF S
<1>5. /\ {n \in S : rows'[n].allowed} = {n \in S : rows[n].allowed}
      /\ {n \in S : ~rows'[n].allowed} = {n \in S : ~rows[n].allowed}
  BY <1>2, <1>4
<1>6. v.seen <= Len(rows')
  BY <1>1, GrowPrefix
<1>7. QED
  BY <1>1, <1>3, <1>5, <1>6 DEF Tells, S

\* What covers all rows before t covers all before an earlier time.
LEMMA FreshEarlier ==
  ASSUME TablesOK, NEW k, NEW v, NEW t \in Int, NEW u \in Int, u <= t, Fresh(k, v, t)
  PROVE  Fresh(k, v, u)
<1>1. CASE k = "stats"
  <2>1. \A n \in 1 .. Len(rows) : rows[n].committed \in Nat
    BY RowTypes
  <2>2. Behind(v, u)
    BY <1>1, <2>1 DEF Fresh, Behind
  <2>3. QED
    BY <1>1, <2>2 DEF Fresh
<1>2. CASE k # "stats"
  <2> SUFFICES ASSUME TopFresh(v, t), NEW c \in Clients PROVE Placed(v, c, u)
    BY <1>2 DEF Fresh, TopFresh
  <2>1. \A n \in 1 .. Len(rows) : rows[n].committed \in Nat
    BY RowTypes
  <2>2. Old(c, u) \subseteq Old(c, t) /\ IsFiniteSet(Old(c, t))
    BY <2>1, AllRows, FS_Subset DEF Old, Of
  <2>3. /\ Cardinality(Old(c, u)) <= Cardinality(Old(c, t))
        /\ Cardinality(Old(c, u)) \in Nat /\ Cardinality(Old(c, t)) \in Nat
    BY <2>2, FS_Subset, FS_CardinalityType
  <2>4. \A i \in DOMAIN v : v[i].total \in Nat
    <3>1. v \in Seq(TopEntry)
      BY DEF TopFresh
    <3>2. \A i \in DOMAIN v : v[i] \in TopEntry
      BY <3>1
    <3>3. QED
      BY <3>2 DEF TopEntry
  <2>5. Placed(v, c, t)
    BY DEF TopFresh
  <2>6. QED
    BY <2>2, <2>3, <2>4, <2>5 DEF Placed
<1>3. QED
  BY <1>1, <1>2
-----------------------------------------------------------------------------
(* Who is not the reader of a step keeps the invariant. *)

LEMMA ValueKept ==
  ASSUME Inv, Grow, NEW r \in Readers, pc'[r] = pc[r], asked'[r] = asked[r],
         value'[r] = value[r], ended'[r] = ended[r], load' = load
  PROVE  ValueOK(r)'
<1>1. job' = job
  BY DEF job
<1>2. ReaderOK(r) /\ TablesOK /\ ValueOK(r)
  BY DEF Inv, ReaderOK
<1>3. asked[r] \in Int /\ asked[r] <= now /\ Known(ended[r]) \in Int
      /\ Known(ended[r]) <= now
  BY <1>2, NumbersType DEF ReaderOK, TimesOK, Known, TablesOK
<1>4. Known(ended[r])' = Known(ended[r])
  BY DEF Known
<1> HIDE DEF job
<1>5. (/\ pc[r] = "clients" => Behind(value[r], asked[r])
       /\ pc[r] = "active" => Fresh("stats", value[r], asked[r]))'
  BY <1>2, <1>3, BehindKept, FreshKept DEF ValueOK
<1>6. (/\ pc[r] = "store" => Fresh(job[r].kind, value[r], asked[r])
       /\ pc[r] = "done" /\ job[r].kind \in CachedKinds =>
            Fresh(job[r].kind, value[r], Known(ended[r])))'
  BY <1>1, <1>2, <1>3, <1>4, FreshKept DEF ValueOK
<1>7. (pc[r] = "done" /\ job[r].kind \in UsageKinds =>
         Tells(value[r], job[r].client, job[r].kind, asked[r]))'
  BY <1>1, <1>2, TellsKept DEF ValueOK
<1>8. QED
  BY <1>1, <1>5, <1>6, <1>7 DEF ValueOK

LEMMA ReaderKept ==
  ASSUME Inv, Grow, NEW r \in Readers, pc'[r] = pc[r], asked'[r] = asked[r],
         value'[r] = value[r], ended'[r] = ended[r], load' = load, now' = now
  PROVE  ReaderOK(r)'
<1>1. job' = job /\ ReaderOK(r)
  BY DEF job, Inv
<1>2. KindsOK(r)' /\ TimesOK(r)'
  BY <1>1 DEF ReaderOK, KindsOK, TimesOK, Computing
<1>3. QED
  BY <1>2, ValueKept DEF ReaderOK

LEMMA CacheKept ==
  ASSUME Inv, Grow, NEW k \in CachedKinds, cache'[k] = cache[k], load' = load,
         now' \in Nat, now <= now'
  PROVE  CacheOK(k)'
<1>1. CASE cache[k] = None
  BY <1>1 DEF CacheOK
<1>2. CASE cache[k] # None
  <2>1. /\ cache[k].expires \in Nat /\ cache[k].expires <= now + CacheTTL
        /\ Fresh(k, cache[k].value, cache[k].expires - CacheTTL - MaxLag) /\ TablesOK
    BY <1>2 DEF Inv, CacheOK
  <2>2. /\ cache[k].expires - CacheTTL - MaxLag \in Int
        /\ cache[k].expires - CacheTTL - MaxLag <= now
    BY <2>1, NumbersType DEF TablesOK
  <2>3. ASSUME NEW x, NEW u \in Int, u <= now, Fresh(k, x, u)
        PROVE  Fresh(k, x, u)'
    BY <2>1, <2>3, FreshKept
  <2>4. Fresh(k, cache[k].value, cache[k].expires - CacheTTL - MaxLag)'
    BY <2>1, <2>2, <2>3
  <2>5. cache[k].expires <= now' + CacheTTL
    BY <2>1, NumbersType DEF TablesOK
  <2>6. QED
    BY <2>1, <2>4, <2>5 DEF CacheOK
<1>3. QED
  BY <1>1, <1>2

-----------------------------------------------------------------------------
(* The steps of a reader. *)

Others(r) == \A q \in Readers \ {r} :
  pc'[q] = pc[q] /\ asked'[q] = asked[q] /\ value'[q] = value[q] /\ ended'[q] = ended[q]

Frame(r) ==
  /\ Functions' /\ Others(r)
  /\ UNCHANGED <<now, rows, active, task, load>>

LEMMA ReadFrame ==
  ASSUME Inv, NEW r \in Readers, Read(r)
  PROVE  Frame(r)
<1> USE DEF Inv, Functions, Frame, Others, readerVars, Go, Compute, FirstQuery,
            Answer, job
<1>1. CASE Hit(r)
  BY <1>1 DEF Hit
<1>2. CASE Miss(r)
  BY <1>2 DEF Miss
<1>3. CASE QueryTop(r)
  BY <1>3 DEF QueryTop
<1>4. CASE QueryTotals(r)
  BY <1>4 DEF QueryTotals
<1>5. CASE CountClients(r)
  BY <1>5 DEF CountClients
<1>6. CASE CountActive(r)
  BY <1>6 DEF CountActive
<1>7. CASE Store(r)
  BY <1>7 DEF Store
<1>8. CASE Begin(r)
  BY <1>8 DEF Begin
<1>9. CASE CountUsage(r)
  BY <1>9 DEF CountUsage
<1>10. CASE SelectPage(r)
  BY <1>10 DEF SelectPage
<1>11. CASE CountMatching(r)
  BY <1>11 DEF CountMatching
<1>12. CASE Fail(r)
  BY <1>12 DEF Fail
<1>13. QED
  BY <1>1, <1>2, <1>3, <1>4, <1>5, <1>6, <1>7, <1>8, <1>9, <1>10, <1>11, <1>12
     DEF Read

\* It is enough to look at that reader, and at the cache when it is filled.
LEMMA StepInv ==
  ASSUME Inv, NEW r \in Readers, Frame(r), ReaderOK(r)',
         \A k \in CachedKinds : CacheOK(k)'
  PROVE  Inv'
<1>1. Functions' /\ TablesOK'
  BY DEF Inv, Frame, TablesOK
<1>2. \A q \in Readers : q # r => ReaderOK(q)'
  BY ReaderKept DEF Grow, Frame, Others
<1>3. QED
  BY <1>1, <1>2 DEF Inv

LEMMA CacheUntouched ==
  ASSUME Inv, NEW r \in Readers, Frame(r), cache' = cache
  PROVE  \A k \in CachedKinds : CacheOK(k)'
<1>1. now' = now /\ now \in Nat /\ load' = load /\ Grow
  BY DEF Inv, Frame, TablesOK, Grow
<1>2. QED
  BY <1>1, CacheKept

\* What a value tells does not depend on the step when the rows stay.
LEMMA Steady ==
  ASSUME NEW r \in Readers, Frame(r), NEW k, NEW v, NEW t
  PROVE  /\ Behind(v, t)' <=> Behind(v, t)
         /\ Fresh(k, v, t)' <=> Fresh(k, v, t)
         /\ \A c : Tells(v, c, k, t)' <=> Tells(v, c, k, t)
<1>1. rows' = rows /\ load' = load
  BY DEF Frame
<1>2. Behind(v, t)' <=> Behind(v, t)
  BY <1>1 DEF Behind
<1>3. HasClients(v)' <=> HasClients(v)
  BY <1>1 DEF HasClients
<1>4. TopFresh(v, t)' <=> TopFresh(v, t)
  BY <1>1 DEF TopFresh, Placed, Full, job, Old, Of, All
<1>5. Fresh(k, v, t)' <=> Fresh(k, v, t)
  BY <1>2, <1>3, <1>4 DEF Fresh
<1>6. \A c : Tells(v, c, k, t)' <=> Tells(v, c, k, t)
  BY <1>1 DEF Tells, CountedIn, InPeriod, DayStart, MonthStart
<1>7. QED
  BY <1>2, <1>5, <1>6

\* What a new ReaderOK takes, by what the reader then is.
LEMMA NewReader ==
  ASSUME Inv, NEW r \in Readers, Frame(r),
         NEW p, NEW a \in Nat, NEW v, NEW e \in Nat,
         pc'[r] = p, asked'[r] = a, value'[r] = v, ended'[r] = e,
         a <= now, e <= now,
         p \in {"clients", "active", "store", "count"} => now <= a + MaxLag,
         p \in {"query", "store"} => job[r].kind \in CachedKinds,
         p \in {"clients", "active"} => job[r].kind = "stats",
         p = "count" => job[r].kind \in UsageKinds,
         p = "total" => job[r].kind = "walk",
         p = "clients" => Behind(v, a),
         p = "active" => Fresh("stats", v, a),
         p = "store" => Fresh(job[r].kind, v, a),
         p = "done" /\ job[r].kind \in CachedKinds =>
           Fresh(job[r].kind, v, Known(e)),
         p = "done" /\ job[r].kind \in UsageKinds =>
           Tells(v, job[r].client, job[r].kind, a)
  PROVE  ReaderOK(r)'
<1>1. job' = job /\ now' = now
  BY DEF Frame, job
<1> HIDE DEF job
<1>2. KindsOK(r)'
  BY <1>1 DEF KindsOK
<1>3. TimesOK(r)'
  BY <1>1 DEF TimesOK, Computing
<1>4. /\ Behind(v, a)' <=> Behind(v, a)
      /\ Fresh("stats", v, a)' <=> Fresh("stats", v, a)
      /\ \A k, t : Fresh(k, v, t)' <=> Fresh(k, v, t)
      /\ \A c, k : Tells(v, c, k, a)' <=> Tells(v, c, k, a)
  BY Steady
<1>5. (Known(ended[r]))' = Known(e)
  BY DEF Known
<1>6. (/\ pc[r] = "clients" => Behind(value[r], asked[r])
       /\ pc[r] = "active" => Fresh("stats", value[r], asked[r])
       /\ pc[r] = "store" => Fresh(job[r].kind, value[r], asked[r]))'
  BY <1>1, <1>4
<1>7. (pc[r] = "done" /\ job[r].kind \in CachedKinds =>
         Fresh(job[r].kind, value[r], Known(ended[r])))'
  BY <1>1, <1>4, <1>5
<1>8. (pc[r] = "done" /\ job[r].kind \in UsageKinds =>
         Tells(value[r], job[r].client, job[r].kind, asked[r]))'
  BY <1>1, <1>4
<1>9. ValueOK(r)'
  BY <1>6, <1>7, <1>8 DEF ValueOK
<1>10. QED
  BY <1>2, <1>3, <1>9 DEF ReaderOK

LEMMA ReaderFacts ==
  ASSUME Inv, NEW r \in Readers
  PROVE  /\ now \in Nat /\ asked[r] \in Nat /\ ended[r] \in Nat
         /\ asked[r] <= now /\ ended[r] <= now
         /\ job[r] \in Jobs
         /\ KindsOK(r) /\ TimesOK(r) /\ ValueOK(r)
         /\ CacheTTL \in Nat /\ CacheTTL >= 1 /\ MaxLag \in Nat
         /\ TablesOK
BY NumbersType DEF Inv, Functions, TablesOK, ReaderOK, TimesOK

LEMMA HitInv ==
  ASSUME Inv, NEW r \in Readers, Hit(r)
  PROVE  Inv'
<1>1. Frame(r) /\ cache' = cache
  BY ReadFrame DEF Read, Hit
<1> DEFINE k == job[r].kind
           x == cache[k].value
<1>2. /\ k \in CachedKinds /\ cache[k] # None /\ now <= cache[k].expires
      /\ pc'[r] = "done" /\ value'[r] = x /\ ended'[r] = now /\ asked'[r] = asked[r]
  BY DEF Hit, Cached, Go, Compute, Answer, Inv, Functions, job
<1>3. CacheOK(k)
  BY <1>2 DEF Inv
<1>4. Known(now) \in Int /\ cache[k].expires - CacheTTL - MaxLag \in Int
      /\ Known(now) <= cache[k].expires - CacheTTL - MaxLag
  BY <1>2, <1>3, ReaderFacts DEF CacheOK, Known
<1>5. Fresh(k, x, Known(now))
  BY <1>2, <1>3, <1>4, FreshEarlier, ReaderFacts DEF CacheOK
<1>6. k \notin UsageKinds
  BY <1>2 DEF CachedKinds, UsageKinds
<1> HIDE DEF k, x
<1>7. ReaderOK(r)'
  BY <1>1, <1>2, <1>5, <1>6, NewReader, ReaderFacts DEF k
<1>8. QED
  BY <1>1, <1>7, StepInv, CacheUntouched

LEMMA MissInv ==
  ASSUME Inv, NEW r \in Readers, Miss(r)
  PROVE  Inv'
<1>1. Frame(r) /\ cache' = cache
  BY ReadFrame DEF Read, Miss
<1>2. /\ job[r].kind \in CachedKinds
      /\ pc'[r] = "query" /\ value'[r] = value[r] /\ ended'[r] = ended[r]
      /\ asked'[r] = asked[r]
  BY DEF Miss, Go, Inv, Functions, job
<1>3. ReaderOK(r)'
  BY <1>1, <1>2, NewReader, ReaderFacts
<1>4. QED
  BY <1>1, <1>3, StepInv, CacheUntouched

\* The rows of a client, and the clients that have some, can be counted.
LEMMA RequestersFinite ==
  ASSUME TablesOK
  PROVE  /\ IsFiniteSet(Requesters) /\ Cardinality(Requesters) \in Nat
         /\ \A c : IsFiniteSet(Of(c)) /\ Cardinality(Of(c)) \in Nat
<1>1. IsFiniteSet(Requesters)
  BY ClientsFinite, FS_Subset DEF Requesters
<1>2. \A c : IsFiniteSet(Of(c))
  BY AllRows, FS_Subset DEF Of
<1>3. QED
  BY <1>1, <1>2, FS_CardinalityType

\* A ranking leaves nobody out who has a better claim to a place.
LEMMA RankingFresh ==
  ASSUME TablesOK, NEW r \in Readers, job[r].kind = "top", job[r].limit \in Nat \ {0},
         NEW v \in TopClients(job[r].limit)
  PROVE  TopFresh(v, now)
<1> DEFINE limit == job[r].limit
           size == IF Cardinality(Requesters) < limit THEN Cardinality(Requesters)
                                                      ELSE limit
<1>1. PICK s \in [1 .. size -> Requesters] :
        /\ \A i, j \in 1 .. size : i < j => s[i] # s[j]
        /\ \A c \in Requesters, i \in 1 .. size :
             Outranks(c, s[i]) => \E j \in 1 .. size : s[j] = c
        /\ v = [i \in 1 .. size |-> [client |-> s[i], total |-> Cardinality(Of(s[i]))]]
  BY DEF TopClients
<1>2. size \in Nat /\ (size # limit => size = Cardinality(Requesters))
  BY RequestersFinite
<1> HIDE DEF size
<1>3. \A i \in 1 .. size : s[i] \in Clients /\ Cardinality(Of(s[i])) \in Nat
  BY RequestersFinite DEF Requesters
<1>4. v \in Seq(TopEntry)
  <2>1. \A i \in 1 .. size : [client |-> s[i], total |-> Cardinality(Of(s[i]))] \in TopEntry
    BY <1>3 DEF TopEntry
  <2>2. QED
    BY <1>1, <1>2, <2>1
<1>5. DOMAIN v = 1 .. size
      /\ \A i \in 1 .. size : v[i].client = s[i] /\ v[i].total = Cardinality(Of(s[i]))
  BY <1>1
<1>6. ASSUME NEW c \in Clients, Old(c, now) # {}
      PROVE  \/ \E i \in DOMAIN v : v[i].client = c /\ v[i].total >= Cardinality(Old(c, now))
             \/ /\ Full(v)
                /\ \A i \in DOMAIN v : v[i].client # c
                                       /\ v[i].total >= Cardinality(Old(c, now))
  <2>1. Old(c, now) \subseteq Of(c) /\ IsFiniteSet(Of(c))
    BY RequestersFinite DEF Old
  <2>2. /\ Cardinality(Old(c, now)) \in Nat /\ Cardinality(Of(c)) \in Nat
        /\ Cardinality(Old(c, now)) <= Cardinality(Of(c))
    BY <2>1, FS_Subset, FS_CardinalityType
  <2>3. c \in Requesters
    BY <1>6, <2>1 DEF Requesters
  <2>4. CASE \E i \in 1 .. size : s[i] = c
    BY <1>5, <2>2, <2>4
  <2>5. CASE ~ \E i \in 1 .. size : s[i] = c
    <3>1. \A i \in 1 .. size : ~Outranks(c, s[i])
      BY <1>1, <2>3, <2>5
    <3>2. \A i \in 1 .. size : v[i].client # c /\ v[i].total >= Cardinality(Old(c, now))
      BY <1>3, <1>5, <2>2, <2>5, <3>1 DEF Outranks
    \* A place for everybody would be one for c.
    <3>3. size # Cardinality(Requesters)
      <4> SUFFICES ASSUME size = Cardinality(Requesters) PROVE FALSE
        OBVIOUS
      <4>1. IsFiniteSet(1 .. size) /\ Cardinality(1 .. size) = size
        BY <1>2, FS_Interval
      <4>2. s \in Injection(1 .. size, Requesters)
        BY <1>1, <1>2 DEF Injection, IsInjective
      <4>3. s \in Surjection(1 .. size, Requesters)
        BY <4>1, <4>2, RequestersFinite, FS_Injection
      <4>4. QED
        BY <2>3, <2>5, <4>3 DEF Surjection
    <3>4. Full(v)
      BY <1>2, <1>5, <3>3 DEF Full, limit
    <3>5. QED
      BY <1>5, <3>2, <3>4
  <2>6. QED
    BY <2>4, <2>5
<1>7. QED
  BY <1>4, <1>6 DEF TopFresh, Placed

LEMMA QueryTopInv ==
  ASSUME Inv, NEW r \in Readers, QueryTop(r)
  PROVE  Inv'
<1>1. Frame(r) /\ cache' = cache
  BY ReadFrame DEF Read, QueryTop
<1>2. PICK list \in TopClients(job[r].limit) : Compute(r, list)
  BY DEF QueryTop
<1>3. /\ job[r].kind = "top"
      /\ pc'[r] = "store" /\ value'[r] = list /\ ended'[r] = ended[r] /\ asked'[r] = now
  BY <1>2 DEF QueryTop, Go, FirstQuery, Compute, Inv, Functions, job
<1>4. Fresh(job[r].kind, list, now)
  BY <1>3, RankingFresh, JobShape, ReaderFacts DEF Fresh
<1>5. job[r].kind \in CachedKinds
  BY <1>3 DEF CachedKinds
<1>6. now \in Nat /\ ended[r] \in Nat /\ ended[r] <= now /\ now <= now + MaxLag
  BY ReaderFacts
<1>7. ReaderOK(r)'
  BY <1>1, <1>3, <1>4, <1>5, <1>6, NewReader
<1>8. QED
  BY <1>1, <1>7, StepInv, CacheUntouched

LEMMA QueryTotalsInv ==
  ASSUME Inv, NEW r \in Readers, QueryTotals(r)
  PROVE  Inv'
<1> DEFINE t == Counts(All)
           v == [total |-> t.total, allowed |-> t.allowed, blocked |-> t.blocked,
                 clients |-> 0, active |-> 0]
<1>1. Frame(r) /\ cache' = cache
  BY ReadFrame DEF Read, QueryTotals
<1>2. /\ job[r].kind = "stats"
      /\ pc'[r] = "clients" /\ value'[r] = v /\ ended'[r] = ended[r] /\ asked'[r] = now
  BY DEF QueryTotals, Go, FirstQuery, Compute, Inv, Functions, job
<1>3. Behind(v, now)
  <2>1. IsFiniteSet({n \in All : rows[n].allowed})
        /\ IsFiniteSet({n \in All : ~rows[n].allowed})
    BY AllRows, FS_Subset, ReaderFacts
  <2>2. t.total = Len(rows) /\ t.total \in Nat /\ t.allowed \in Nat /\ t.blocked \in Nat
    BY <2>1, AllRows, FS_CardinalityType, ReaderFacts DEF Counts
  <2>3. t.allowed + t.blocked = t.total
    BY AllRows, CountsAddUp, ReaderFacts DEF Counts
  <2> HIDE DEF t
  <2>4. v \in Stats
    BY <2>2 DEF Stats
  <2>5. QED
    BY <2>2, <2>3, <2>4, AllRows, ReaderFacts DEF Behind
<1> HIDE DEF v
<1>4. ReaderOK(r)'
  BY <1>1, <1>2, <1>3, NewReader, ReaderFacts
<1>5. QED
  BY <1>1, <1>4, StepInv, CacheUntouched

\* Whoever made a request of the total has a client by the time they are counted.
LEMMA CountClientsInv ==
  ASSUME Inv, NEW r \in Readers, CountClients(r)
  PROVE  Inv'
<1> DEFINE n == Cardinality(Matching(None))
           u == value[r]
           v == [u EXCEPT !.clients = n]
           S == {rows[i].client : i \in 1 .. u.total}
<1>1. Frame(r) /\ cache' = cache
  BY ReadFrame DEF Read, CountClients
<1>2. /\ pc[r] = "clients" /\ pc'[r] = "active" /\ value'[r] = v
      /\ ended'[r] = ended[r] /\ asked'[r] = asked[r]
  BY DEF CountClients, Go, Compute, Inv, Functions
<1>3. /\ job[r].kind = "stats" /\ Behind(u, asked[r]) /\ now <= asked[r] + MaxLag
  BY <1>2, ReaderFacts DEF KindsOK, ValueOK, TimesOK, Computing
<1>4. IsFiniteSet(Matching(None)) /\ n \in Nat
  BY ClientsFinite, FS_Subset, FS_CardinalityType DEF Matching
<1>5. S \subseteq Matching(None)
  <2>1. u.total \in Nat /\ u.total <= Len(rows)
    BY <1>3 DEF Behind, Stats
  <2>2. \A i \in 1 .. Len(rows) :
          rows[i].client \in Clients /\ active[rows[i].client] # None
    BY RowTypes, ReaderFacts DEF TablesOK
  <2>3. \A i \in 1 .. u.total : i \in 1 .. Len(rows)
    BY <2>1, AllRows, ReaderFacts
  <2>4. QED
    BY <2>2, <2>3 DEF Matching, Fits
<1>6. Cardinality(S) <= n
  BY <1>4, <1>5, FS_Subset
<1> HIDE DEF n, u
<1>7. /\ v \in Stats /\ v.total = u.total /\ v.allowed = u.allowed
      /\ v.blocked = u.blocked /\ v.clients = n
  BY <1>3, <1>4 DEF Behind, Stats
<1> HIDE DEF v
<1>8. Behind(v, asked[r]) /\ HasClients(v)
  BY <1>3, <1>6, <1>7 DEF Behind, HasClients
<1>9. Fresh("stats", v, asked[r])
  BY <1>8 DEF Fresh
<1>10. ReaderOK(r)'
  BY <1>1, <1>2, <1>3, <1>9, NewReader, ReaderFacts
<1>11. QED
  BY <1>1, <1>10, StepInv, CacheUntouched

LEMMA CountActiveInv ==
  ASSUME Inv, NEW r \in Readers, CountActive(r)
  PROVE  Inv'
<1> DEFINE n == Cardinality(Matching(TRUE))
           u == value[r]
           v == [u EXCEPT !.active = n]
<1>1. Frame(r) /\ cache' = cache
  BY ReadFrame DEF Read, CountActive
<1>2. /\ pc[r] = "active" /\ pc'[r] = "store" /\ value'[r] = v
      /\ ended'[r] = ended[r] /\ asked'[r] = asked[r]
  BY DEF CountActive, Go, Compute, Inv, Functions
<1>3. /\ job[r].kind = "stats" /\ Behind(u, asked[r]) /\ HasClients(u)
      /\ now <= asked[r] + MaxLag
  BY <1>2, ReaderFacts DEF KindsOK, ValueOK, TimesOK, Computing, Fresh
<1>4. n \in Nat
  BY ClientsFinite, FS_Subset, FS_CardinalityType DEF Matching
<1> HIDE DEF n, u
<1>5. /\ v \in Stats /\ v.total = u.total /\ v.allowed = u.allowed
      /\ v.blocked = u.blocked /\ v.clients = u.clients
  BY <1>3, <1>4 DEF Behind, Stats
<1> HIDE DEF v
<1>6. Fresh("stats", v, asked[r])
  BY <1>3, <1>5 DEF Behind, HasClients, Fresh
<1>7. "stats" \in CachedKinds
  BY DEF CachedKinds
<1>8. ReaderOK(r)'
  BY <1>1, <1>2, <1>3, <1>6, <1>7, NewReader, ReaderFacts
<1>9. QED
  BY <1>1, <1>8, StepInv, CacheUntouched

\* What was computed no longer than MaxLag ago may be kept for a CacheTTL.
LEMMA StoreInv ==
  ASSUME Inv, NEW r \in Readers, Store(r)
  PROVE  Inv'
<1> DEFINE k == job[r].kind
           v == value[r]
<1>1. Frame(r)
  BY ReadFrame DEF Read
<1>2. /\ pc[r] = "store" /\ pc'[r] = "done" /\ value'[r] = v
      /\ ended'[r] = now /\ asked'[r] = 0
      /\ cache' = [cache EXCEPT ![k] = [value |-> v, expires |-> now + CacheTTL]]
  BY DEF Store, Go, Answer, Inv, Functions, job
<1>3. /\ k \in CachedKinds /\ Fresh(k, v, asked[r]) /\ now <= asked[r] + MaxLag
  BY <1>2, ReaderFacts DEF KindsOK, ValueOK, TimesOK, Computing
<1>4. k \notin UsageKinds
  BY <1>3 DEF CachedKinds, UsageKinds
<1>5. /\ Known(now) \in Int /\ Known(now) <= asked[r]
      /\ now - MaxLag \in Int /\ now - MaxLag <= asked[r]
      /\ now + CacheTTL - CacheTTL - MaxLag = now - MaxLag
  BY <1>3, ReaderFacts DEF Known
<1>6. Fresh(k, v, Known(now)) /\ Fresh(k, v, now - MaxLag)
  BY <1>3, <1>5, FreshEarlier, ReaderFacts
<1>7. ReaderOK(r)'
  BY <1>1, <1>2, <1>4, <1>6, NewReader, ReaderFacts DEF k
<1> HIDE DEF v
<1>8. ASSUME NEW c \in CachedKinds, c # k PROVE CacheOK(c)'
  <2>1. cache'[c] = cache[c]
    BY <1>2, <1>8 DEF Inv, Functions
  <2>2. QED
    BY <1>1, <2>1, CacheKept, ReaderFacts DEF Frame, Grow
<1>9. ASSUME NEW c \in CachedKinds, c = k PROVE CacheOK(c)'
  <2>1. PICK x, u : x = v /\ u = now - MaxLag
    OBVIOUS
  <2>2. cache'[c] = [value |-> x, expires |-> now + CacheTTL]
    BY <1>2, <1>9, <2>1 DEF Inv, Functions
  <2>3. cache'[c].value = x /\ cache'[c].expires = now + CacheTTL
    BY <2>2
  <2>4. now' = now /\ now + CacheTTL \in Nat
        /\ cache'[c].expires - CacheTTL - MaxLag = u
    BY <1>1, <1>5, <2>1, <2>3, ReaderFacts DEF Frame
  <2>5. Fresh(c, x, u)
    BY <1>6, <1>9, <2>1
  <2>6. Fresh(c, x, u)'
    BY <1>1, <2>5, Steady
  <2>7. Fresh(c, cache[c].value, cache[c].expires - CacheTTL - MaxLag)'
    BY <2>3, <2>4, <2>6
  <2>8. QED
    BY <2>3, <2>4, <2>7 DEF CacheOK
<1>10. QED
  BY <1>1, <1>7, <1>8, <1>9, StepInv

LEMMA BeginInv ==
  ASSUME Inv, NEW r \in Readers, Begin(r)
  PROVE  Inv'
<1>1. Frame(r) /\ cache' = cache
  BY ReadFrame DEF Read, Begin
<1>2. /\ job[r].kind \in UsageKinds
      /\ pc'[r] = "count" /\ value'[r] = value[r] /\ ended'[r] = ended[r]
      /\ asked'[r] = now
  BY DEF Begin, Go, FirstQuery, Inv, Functions, job
<1>3. ReaderOK(r)'
  BY <1>1, <1>2, NewReader, ReaderFacts
<1>4. QED
  BY <1>1, <1>3, StepInv, CacheUntouched

LEMMA CountUsageInv ==
  ASSUME Inv, NEW r \in Readers, CountUsage(r)
  PROVE  Inv'
<1> DEFINE k == job[r].kind
           c == job[r].client
           t == asked[r]
           u == UsageOf(k, c, t)
           v == [total |-> u.total, allowed |-> u.allowed, blocked |-> u.blocked,
                 seen |-> Len(rows)]
           S == CountedIn(v, c, k, t)
<1>1. Frame(r) /\ cache' = cache
  BY ReadFrame DEF Read, CountUsage
<1>2. /\ pc[r] = "count" /\ pc'[r] = "done" /\ value'[r] = v
      /\ ended'[r] = ended[r] /\ asked'[r] = t
  BY DEF CountUsage, Go, Compute, Inv, Functions, job
<1>3. k \in UsageKinds
  BY <1>2, ReaderFacts DEF KindsOK
<1>4. k \notin CachedKinds
  BY <1>3 DEF CachedKinds, UsageKinds
<1>5. S = {n \in Of(c) : InPeriod(k, t, rows[n].stamp)}
  BY AllRows, ReaderFacts DEF CountedIn, Of
<1>6. u = Counts(S)
  <2> HIDE DEF k
  <2>1. CASE k = "current"
    BY <1>5, <2>1 DEF UsageOf, CurrentUsage, InPeriod
  <2>2. CASE k = "daily"
    BY <1>5, <2>2 DEF UsageOf, DailyUsage, UsageByPeriod, InPeriod
  <2>3. CASE k = "monthly"
    BY <1>5, <2>3 DEF UsageOf, MonthlyUsage, UsageByPeriod, InPeriod
  <2>4. CASE k = "summary"
    BY <1>5, <2>4 DEF UsageOf, InPeriod
  <2>5. QED
    BY <1>3, <2>1, <2>2, <2>3, <2>4 DEF UsageKinds
<1> HIDE DEF u
<1>7. Tells(v, c, k, t)
  BY <1>6, AllRows, ReaderFacts DEF Tells, Counts
<1> HIDE DEF v
<1>8. ReaderOK(r)'
  BY <1>1, <1>2, <1>4, <1>7, NewReader, ReaderFacts DEF k, c, t
<1>9. QED
  BY <1>1, <1>8, StepInv, CacheUntouched

\* Pages and failures leave nothing behind.
LEMMA OtherReadInv ==
  ASSUME Inv, NEW r \in Readers, SelectPage(r) \/ CountMatching(r) \/ Fail(r)
  PROVE  Inv'
<1>1. Frame(r) /\ cache' = cache
  BY ReadFrame DEF Read, SelectPage, CountMatching, Fail
<1>2. CASE SelectPage(r)
  <2>1. /\ job[r].kind = "walk"
        /\ pc'[r] = "total" /\ value'[r] = value[r] /\ ended'[r] = ended[r]
        /\ asked'[r] = asked[r]
    BY <1>2 DEF SelectPage, Go, Inv, Functions, job, readerVars
  <2>2. ReaderOK(r)'
    BY <1>1, <2>1, NewReader, ReaderFacts
  <2>3. QED
    BY <1>1, <2>2, StepInv, CacheUntouched
<1>3. CASE CountMatching(r)
  <2>1. /\ pc[r] = "total" /\ pc'[r] \in {"start", "done"} /\ value'[r] = value[r]
        /\ ended'[r] = ended[r] /\ asked'[r] = asked[r]
    BY <1>3 DEF CountMatching, Inv, Functions, readerVars
  <2>2. job[r].kind \notin CachedKinds /\ job[r].kind \notin UsageKinds
    BY <2>1, ReaderFacts DEF KindsOK, CachedKinds, UsageKinds
  <2>3. ReaderOK(r)'
    BY <1>1, <2>1, <2>2, NewReader, ReaderFacts
  <2>4. QED
    BY <1>1, <2>3, StepInv, CacheUntouched
<1>4. CASE Fail(r)
  <2>1. /\ pc'[r] = "failed" /\ value'[r] = None /\ ended'[r] = ended[r]
        /\ asked'[r] = 0
    BY <1>4 DEF Fail, Compute, Inv, Functions
  <2>2. ReaderOK(r)'
    BY <1>1, <2>1, NewReader, ReaderFacts
  <2>3. QED
    BY <1>1, <2>2, StepInv, CacheUntouched
<1>5. QED
  BY <1>2, <1>3, <1>4
-----------------------------------------------------------------------------
(* The steps of everybody else. *)

LEMMA TableStepInv ==
  ASSUME Inv, Grow, TablesOK', UNCHANGED <<now, cache, load, readerVars>>
  PROVE  Inv'
<1>1. Functions'
  BY DEF Inv, Functions, readerVars, job
<1>2. \A r \in Readers : ReaderOK(r)'
  BY ReaderKept DEF readerVars
<1>3. \A k \in CachedKinds : CacheOK(k)'
  BY CacheKept DEF Inv, TablesOK
<1>4. QED
  BY <1>1, <1>2, <1>3 DEF Inv

LEMMA LogInv ==
  ASSUME Inv, NEW k \in Tasks, InsertRow(k) \/ CommitRow(k)
  PROVE  Inv'
<1>1. CASE InsertRow(k)
  <2>1. TablesOK'
    BY <1>1 DEF InsertRow, Inv, TablesOK
  <2>2. QED
    BY <1>1, <2>1, TableStepInv DEF InsertRow, Grow
<1>2. CASE CommitRow(k)
  <2> DEFINE x == [client |-> Logged[k].client, allowed |-> Logged[k].allowed,
                   stamp |-> task[k].stamp, committed |-> now]
  <2>1. x \in UsageRow /\ x.committed = now /\ rows' = Append(rows, x)
    BY <1>2, LoggedType DEF CommitRow, UsageRow, Inv, TablesOK
  <2>2. Grow
    BY <2>1 DEF Grow
  <2>3. active[x.client] # None
    BY <1>2 DEF CommitRow, Inv, TablesOK
  <2>4. task' \in [Tasks -> [phase : {"pending", "inserted", "over"}, stamp : Nat]]
        /\ \A q \in Tasks : task'[q].phase = "inserted" => task[q].phase = "inserted"
    BY <1>2 DEF CommitRow, Inv, TablesOK
  <2> HIDE DEF x
  <2>5. Len(rows') = Len(rows) + 1 /\ Len(rows) \in Nat /\ rows'[Len(rows) + 1] = x
    BY <2>1 DEF Inv, TablesOK
  <2>6. \A n \in 1 .. Len(rows') : rows'[n].committed <= now
                                   /\ active[rows'[n].client] # None
    <3> SUFFICES ASSUME NEW n \in 1 .. Len(rows')
                 PROVE  rows'[n].committed <= now /\ active[rows'[n].client] # None
      OBVIOUS
    <3>1. CASE n \in 1 .. Len(rows)
      BY <2>2, <3>1, GrowPrefix DEF Inv, TablesOK
    <3>2. CASE n = Len(rows) + 1
      BY <2>1, <2>3, <2>5, <3>2 DEF Inv, TablesOK
    <3>3. QED
      BY <2>5, <3>1, <3>2
  <2>7. rows' \in Seq(UsageRow)
    BY <2>2, GrowPrefix DEF Inv
  <2>8. TablesOK'
    BY <1>2, <2>4, <2>6, <2>7 DEF CommitRow, Inv, TablesOK
  <2>9. QED
    BY <1>2, <2>2, <2>8, TableStepInv DEF CommitRow
<1>3. QED
  BY <1>1, <1>2

LEMMA ClientInv ==
  ASSUME Inv, NEW c \in Clients, NEW a \in BOOLEAN, RegisterClient(c) \/ SetActive(c, a)
  PROVE  Inv'
<1>1. /\ UNCHANGED <<now, rows, task, cache, load, readerVars>>
      /\ active' = [active EXCEPT ![c] = TRUE] \/ active' = [active EXCEPT ![c] = a]
  BY DEF RegisterClient, SetActive
<1>2. /\ active' \in [Clients -> BOOLEAN \union {None}]
      /\ \A d \in Clients : active[d] # None => active'[d] # None
  BY <1>1, NoneType DEF Inv, TablesOK
<1>3. \A n \in 1 .. Len(rows) : rows[n].client \in Clients
  BY RowTypes DEF Inv
<1>4. TablesOK'
  BY <1>1, <1>2, <1>3, LoggedType DEF Inv, TablesOK
<1>5. QED
  BY <1>1, <1>4, TableStepInv DEF Grow

LEMMA CacheLostInv ==
  ASSUME Inv, CacheLost
  PROVE  Inv'
<1>1. UNCHANGED <<now, rows, active, task, load, readerVars>> /\ Grow
  BY DEF CacheLost, Grow
<1>2. Functions' /\ TablesOK'
  BY <1>1 DEF CacheLost, NoCache, Inv, Functions, TablesOK, readerVars, job
<1>3. \A r \in Readers : ReaderOK(r)'
  BY <1>1, ReaderKept DEF readerVars
<1>4. \A k \in CachedKinds : CacheOK(k)'
  BY DEF CacheLost, NoCache, CacheOK
<1>5. QED
  BY <1>2, <1>3, <1>4 DEF Inv

\* Time passes only while nobody computes for longer than MaxLag.
LEMMA TickInv ==
  ASSUME Inv, Tick
  PROVE  Inv'
<1>1. /\ now \in Nat /\ now' = now + 1 /\ Grow
      /\ UNCHANGED <<rows, active, task, cache, load, readerVars>>
  BY DEF Tick, Grow, Inv, TablesOK
<1>2. Functions' /\ TablesOK'
  <2>1. \A n \in 1 .. Len(rows) : rows[n].committed \in Nat /\ rows[n].committed <= now
    BY RowTypes DEF Inv, TablesOK
  <2>2. TablesOK'
    BY <1>1, <2>1 DEF Inv, TablesOK
  <2>3. QED
    BY <1>1, <2>2 DEF Inv, Functions, readerVars, job
<1>3. \A k \in CachedKinds : CacheOK(k)'
  BY <1>1, CacheKept
<1>4. ASSUME NEW r \in Readers PROVE ReaderOK(r)'
  <2>1. job' = job /\ KindsOK(r) /\ TimesOK(r) /\ MaxLag \in Nat
    BY <1>1, ReaderFacts DEF job
  <2> HIDE DEF job
  <2>2. KindsOK(r)'
    BY <1>1, <2>1 DEF KindsOK, readerVars
  <2>3. Computing(r) => now < asked[r] + MaxLag
    BY DEF Tick
  <2>4. TimesOK(r)'
    BY <1>1, <2>1, <2>3 DEF TimesOK, Computing, readerVars
  <2>5. ValueOK(r)'
    BY <1>1, ValueKept DEF readerVars
  <2>6. QED
    BY <2>2, <2>4, <2>5 DEF ReaderOK
<1>5. QED
  BY <1>2, <1>3, <1>4 DEF Inv
-----------------------------------------------------------------------------
LEMMA InitInv ==
  ASSUME Init
  PROVE  Inv
<1>1. Functions
  <2>1. job \in [Readers -> Jobs]
    BY WorkloadsType DEF Init, job
  <2>2. QED
    BY <2>1 DEF Init, Functions, NoCache
<1>2. TablesOK
  <2>1. now = 0 /\ rows = <<>> /\ Len(rows) = 0 /\ rows \in Seq(UsageRow)
    BY DEF Init
  <2>2. /\ active \in [Clients -> BOOLEAN \union {None}]
        /\ task \in [Tasks -> [phase : {"pending", "inserted", "over"}, stamp : Nat]]
        /\ \A k \in Tasks : task[k].phase # "inserted"
    BY DEF Init
  <2>3. QED
    BY <2>1, <2>2 DEF TablesOK
<1>3. \A r \in Readers : ReaderOK(r)
  BY NumbersType DEF Init, ReaderOK, KindsOK, TimesOK, ValueOK, Computing
<1>4. \A k \in CachedKinds : CacheOK(k)
  BY DEF Init, NoCache, CacheOK
<1>5. QED
  BY <1>1, <1>2, <1>3, <1>4 DEF Inv

LEMMA NextInv ==
  ASSUME Inv, [Next]_vars
  PROVE  Inv'
<1>1. ASSUME NEW r \in Readers, Read(r) PROVE Inv'
  BY <1>1, HitInv, MissInv, QueryTopInv, StoreInv, QueryTotalsInv, CountClientsInv,
     CountActiveInv, BeginInv, CountUsageInv, OtherReadInv DEF Read
<1>2. ASSUME NEW c \in Clients, RegisterClient(c) PROVE Inv'
  BY <1>2, ClientInv
<1>3. ASSUME NEW c \in Clients, NEW a \in BOOLEAN, SetActive(c, a) PROVE Inv'
  BY <1>3, ClientInv
<1>4. ASSUME UNCHANGED vars PROVE Inv'
  BY <1>4, TableStepInv DEF vars, Grow, Inv, TablesOK
<1>5. QED
  BY <1>1, <1>2, <1>3, <1>4, LogInv, CacheLostInv, TickInv DEF Next

\* Every value on its way covers what it has to.
THEOREM ReportsInvariant == Spec => []Inv
<1>1. Init => Inv
  BY InitInv
<1>2. Inv /\ [Next]_vars => Inv'
  BY NextInv
<1>3. QED
  BY <1>1, <1>2, PTL DEF Spec

\* StatsAreRecent, the doc comment of analytics_service.py:4-9 made precise: an
\* answer knows every row committed more than a CacheTTL and a MaxLag before.
THEOREM StatsRecent == Spec => []StatsAreRecent
<1>1. Inv => StatsAreRecent
  <2> SUFFICES ASSUME Inv, NEW r \in Readers, Done(r, {"stats"}), NEW n \in All,
                      rows[n].committed < Known(ended[r])
               PROVE  n <= value[r].total
    BY DEF StatsAreRecent
  <2>1. Behind(value[r], Known(ended[r]))
    BY ReaderFacts DEF Done, ValueOK, Fresh, CachedKinds
  <2>2. n \in 1 .. Len(rows) /\ rows[n].committed \in Nat
    BY AllRows, RowTypes, ReaderFacts
  <2>3. value[r].total \in Nat
    BY <2>1 DEF Behind, Stats
  <2>4. Known(ended[r]) \in Int
    BY ReaderFacts DEF Known
  <2>5. QED
    BY <2>1, <2>2, <2>3, <2>4 DEF Behind
<1>2. QED
  BY <1>1, ReportsInvariant, PTL

\* StatsHangTogether: get_system_stats runs three queries, in an order in which
\* the figures cannot contradict each other.
THEOREM StatsConsistent == Spec => []StatsHangTogether
<1>1. Inv => StatsHangTogether
  <2> SUFFICES ASSUME Inv, NEW r \in Readers, Done(r, {"stats"})
               PROVE  /\ value[r].allowed + value[r].blocked = value[r].total
                      /\ Cardinality({rows[n].client : n \in 1 .. value[r].total})
                           <= value[r].clients
    BY DEF StatsHangTogether
  <2>1. Fresh("stats", value[r], Known(ended[r]))
    BY ReaderFacts DEF Done, ValueOK, CachedKinds
  <2>2. QED
    BY <2>1 DEF Fresh, Behind, HasClients
<1>2. QED
  BY <1>1, ReportsInvariant, PTL

\* TopListIsRecent: of the ranking that get_top_clients answers, cached or not.
\* Whoever is missing was left out by a limit that some reader asked for.
THEOREM TopListRecent == Spec => []TopListIsRecent
<1>1. Inv => TopListIsRecent
  <2> SUFFICES ASSUME Inv, NEW r \in Readers, NEW c \in Clients, Done(r, {"top"})
               PROVE  LET list == value[r]
                          old == {n \in Of(c) : rows[n].committed < Known(ended[r])}
                          Enough(i) == list[i].total >= Cardinality(old) IN
                      old # {} =>
                        \/ \E i \in DOMAIN list : list[i].client = c /\ Enough(i)
                        \/ Full(list) /\ \A i \in DOMAIN list :
                                            list[i].client # c /\ Enough(i)
    BY DEF TopListIsRecent
  <2>1. Placed(value[r], c, Known(ended[r]))
    BY ReaderFacts DEF Done, ValueOK, Fresh, TopFresh, CachedKinds
  <2>2. Old(c, Known(ended[r])) = {n \in Of(c) : rows[n].committed < Known(ended[r])}
    BY DEF Old
  <2>3. QED
    BY <2>1, <2>2 DEF Placed
<1>2. QED
  BY <1>1, ReportsInvariant, PTL
-----------------------------------------------------------------------------
(* Days and months. *)

LEMMA Division ==
  ASSUME NEW d \in Nat \ {0}, NEW t \in Nat
  PROVE  /\ t \div d \in Nat /\ t % d \in Nat /\ t % d < d
         /\ t - (t % d) = d * (t \div d) /\ d * (t \div d) \in Nat
         /\ d * (t \div d) <= t /\ t < d * (t \div d) + d
<1>1. t % d \in Nat /\ t % d < d
  OBVIOUS
<1>2. t \div d \in Nat
  OBVIOUS
<1>3. t - (t % d) = d * (t \div d)
  OBVIOUS
<1>4. d * (t \div d) \in Nat
  BY <1>2
<1>5. d * (t \div d) <= t /\ t < d * (t \div d) + d
  OBVIOUS
<1>6. QED
  BY <1>1, <1>2, <1>3, <1>4, <1>5

\* Multiples of d that differ do so by d at least.
LEMMA Multiples ==
  ASSUME NEW d \in Nat \ {0}, NEW p \in Int, NEW q \in Int, p < q
  PROVE  d * p + d <= d * q
<1>1. p + 1 <= q
  OBVIOUS
<1>2. d * (p + 1) <= d * q
  BY <1>1
<1>3. d * (p + 1) = d * p + d
  OBVIOUS
<1>4. QED
  BY <1>2, <1>3

LEMMA DayBounds ==
  ASSUME NEW t \in Nat
  PROVE  /\ DayStart(t) = Day * (t \div Day) /\ DayStart(t) \in Nat
         /\ DayStart(t) <= t /\ t < DayStart(t) + Day
BY PeriodsType, Division DEF DayStart

LEMMA OneDay ==
  ASSUME NEW t \in Nat, NEW u \in Nat, NEW x \in Nat,
         DayStart(t) <= x, x < t, DayStart(u) <= x, x < u
  PROVE  t \div Day = u \div Day
<1>1. ASSUME NEW a \in Nat, NEW b \in Nat, DayStart(a) <= x, x < a, DayStart(b) <= x, x < b
      PROVE  ~(a \div Day < b \div Day)
  <2> SUFFICES ASSUME a \div Day < b \div Day PROVE FALSE
    OBVIOUS
  <2>1. a \div Day \in Int /\ b \div Day \in Int
    BY PeriodsType, Division
  <2>2. /\ DayStart(a) \in Nat /\ DayStart(b) \in Nat /\ Day \in Nat
        /\ a < DayStart(a) + Day
    BY DayBounds, PeriodsType
  <2>3. DayStart(a) + Day <= DayStart(b)
    BY <2>1, DayBounds, Multiples, PeriodsType
  <2>4. QED
    BY <1>1, <2>2, <2>3
<1>2. t \div Day \in Nat /\ u \div Day \in Nat
  BY PeriodsType, Division
<1>3. QED
  BY <1>1, <1>2

\* A month starts with a day of its own.
LEMMA MonthBounds ==
  ASSUME NEW t \in Nat, NEW u \in Nat, t \div Month = u \div Month
  PROVE  /\ MonthStart(t) = MonthStart(u) /\ MonthStart(t) <= DayStart(u)
         /\ MonthStart(t) \in Nat
<1> DEFINE q == u \div Month
           m == Month \div Day
           k == u \div Day
<1>1. MonthStart(t) = Month * q /\ MonthStart(u) = Month * q /\ Month * q <= u /\ q \in Nat
      /\ Month * q \in Nat
  BY PeriodsType, Division DEF MonthStart
<1>2. Month = Day * m /\ m \in Nat
  BY PeriodsType, Division
<1>3. k \in Nat /\ DayStart(u) = Day * k /\ u < Day * k + Day
  BY PeriodsType, Division, DayBounds
<1> HIDE DEF q, m, k
<1>4. Month * q = Day * (m * q) /\ m * q \in Nat
  BY <1>1, <1>2, PeriodsType
<1>5. ~(k < m * q)
  <2>1. ASSUME k < m * q PROVE Day * k + Day <= Day * (m * q)
    BY <1>3, <1>4, <2>1, Multiples, PeriodsType
  <2>2. QED
    BY <1>1, <1>3, <1>4, <2>1, PeriodsType
<1>6. m * q = k \/ m * q < k
  BY <1>3, <1>4, <1>5
<1>7. Day * (m * q) <= Day * k
  <2>1. ASSUME m * q < k PROVE Day * (m * q) + Day <= Day * k
    BY <1>3, <1>4, <2>1, Multiples, PeriodsType
  <2>2. QED
    BY <1>3, <1>4, <1>6, <2>1, PeriodsType
<1>8. QED
  BY <1>1, <1>3, <1>4, <1>7

\* The rows an answered usage was counted from, and how many they are.
CountedBy(r) == CountedIn(value[r], job[r].client, job[r].kind, asked[r])

LEMMA UsageTold ==
  ASSUME Inv, NEW r \in Readers, Done(r, UsageKinds)
  PROVE  LET S == CountedBy(r) IN
         /\ value[r].seen \in Nat /\ value[r].seen <= Len(rows)
         /\ IsFiniteSet(S) /\ S \subseteq Of(job[r].client)
         /\ value[r].total = Cardinality(S)
         /\ value[r].allowed = Cardinality({n \in S : rows[n].allowed})
         /\ value[r].blocked = Cardinality({n \in S : ~rows[n].allowed})
<1>1. Tells(value[r], job[r].client, job[r].kind, asked[r])
  BY ReaderFacts DEF Done, ValueOK
<1>2. value[r].seen \in Nat /\ value[r].seen <= Len(rows)
  BY <1>1 DEF Tells
<1>3. CountedBy(r) \subseteq Of(job[r].client)
  BY <1>2, AllRows, ReaderFacts DEF CountedBy, CountedIn, Of
<1>4. IsFiniteSet(CountedBy(r))
  BY <1>3, RequestersFinite, ReaderFacts, FS_Subset
<1>5. QED
  BY <1>1, <1>2, <1>3, <1>4 DEF Tells, CountedBy

\* DaysAddUp: get_daily_usage counts a row for one midnight only.
THEOREM DaysDisjoint == Spec => []DaysAddUp
<1>1. Inv => DaysAddUp
  <2> SUFFICES ASSUME Inv, NEW r \in Readers, NEW s \in Readers,
                      Done(r, {"daily"}), Done(s, {"daily"}), SameClient(r, s),
                      asked[r] \div Day # asked[s] \div Day
               PROVE  value[r].total + value[s].total <= Cardinality(Of(job[r].client))
    BY DEF DaysAddUp
  <2> DEFINE R == CountedBy(r)
             S == CountedBy(s)
             O == Of(job[r].client)
  <2>1. Done(r, UsageKinds) /\ Done(s, UsageKinds)
        /\ job[r].kind = "daily" /\ job[s].kind = "daily"
    BY DEF Done, UsageKinds
  <2>2. /\ IsFiniteSet(R) /\ R \subseteq O /\ value[r].total = Cardinality(R)
        /\ IsFiniteSet(S) /\ S \subseteq O /\ value[s].total = Cardinality(S)
    BY <2>1, UsageTold DEF SameClient
  <2>3. R \intersect S = {}
    <3> SUFFICES ASSUME NEW n \in R, n \in S PROVE FALSE
      OBVIOUS
    <3>1. n \in 1 .. Len(rows)
      BY <2>2, AllRows, ReaderFacts DEF Of
    <3>2. rows[n].stamp \in Nat /\ asked[r] \in Nat /\ asked[s] \in Nat
      BY <3>1, RowTypes, ReaderFacts
    <3>3. /\ DayStart(asked[r]) <= rows[n].stamp /\ rows[n].stamp < asked[r]
          /\ DayStart(asked[s]) <= rows[n].stamp /\ rows[n].stamp < asked[s]
      BY <2>1 DEF CountedBy, CountedIn, InPeriod
    <3>4. QED
      BY <3>2, <3>3, OneDay
  <2>4. IsFiniteSet(O)
    BY RequestersFinite, ReaderFacts
  <2> HIDE DEF R, S, O
  <2>5. Cardinality(R \union S) = Cardinality(R) + Cardinality(S) - Cardinality(R \intersect S)
    BY <2>2, FS_Union
  <2>6. Cardinality(R \intersect S) = 0
    BY <2>3, FS_EmptySet
  <2>7. Cardinality(R \union S) <= Cardinality(O)
    BY <2>2, <2>4, FS_Subset
  <2>8. Cardinality(R) \in Nat /\ Cardinality(S) \in Nat
    BY <2>2, FS_CardinalityType
  <2>9. QED
    BY <2>2, <2>5, <2>6, <2>7, <2>8 DEF O
<1>2. QED
  BY <1>1, ReportsInvariant, PTL

\* What a period counts, one that covers it counts if it is asked for later.
LEMMA CoveredRows ==
  ASSUME Inv, NEW r \in Readers, NEW s \in Readers,
         Done(r, UsageKinds), Done(s, UsageKinds), SameClient(r, s),
         asked[s] <= asked[r], value[s].seen <= value[r].seen, Covers(r, s)
  PROVE  CountedBy(s) \subseteq CountedBy(r)
<1> DEFINE t == asked[r]
           u == asked[s]
<1>1. /\ t \in Nat /\ u \in Nat /\ u <= t
      /\ value[r].seen \in Nat /\ value[s].seen \in Nat /\ value[s].seen <= Len(rows)
    BY ReaderFacts, UsageTold
<1> HIDE DEF t, u
<1> SUFFICES ASSUME NEW n \in CountedBy(s) PROVE n \in CountedBy(r)
  OBVIOUS
<1> DEFINE x == rows[n].stamp
<1>2. n \in 1 .. value[s].seen /\ rows[n].client = job[s].client
      /\ InPeriod(job[s].kind, u, x)
  BY DEF CountedBy, CountedIn, u
<1>3. n \in 1 .. value[r].seen /\ rows[n].client = job[r].client
  BY <1>1, <1>2 DEF SameClient
<1>4. n \in 1 .. Len(rows)
  BY <1>1, <1>2
<1>5. x \in Nat
  BY <1>4, RowTypes, ReaderFacts
<1> HIDE DEF x
<1>6. InPeriod(job[r].kind, t, x)
  <2>1. CASE job[r].kind = "summary"
    BY <2>1 DEF InPeriod
  <2>2. CASE /\ job[r].kind = "monthly" /\ job[s].kind \in {"monthly", "daily"}
             /\ t \div Month = u \div Month
    <3>1. /\ MonthStart(t) = MonthStart(u) /\ MonthStart(t) <= DayStart(u)
          /\ MonthStart(t) \in Nat /\ DayStart(u) \in Nat
      BY <1>1, <2>2, MonthBounds, DayBounds
    <3>2. CASE job[s].kind = "monthly"
      BY <1>1, <1>2, <1>5, <2>2, <3>1, <3>2 DEF InPeriod
    <3>3. CASE job[s].kind = "daily"
      BY <1>1, <1>2, <1>5, <2>2, <3>1, <3>3 DEF InPeriod
    <3>4. QED
      BY <2>2, <3>2, <3>3
  <2>3. CASE /\ job[r].kind = "daily" /\ job[s].kind = "daily"
             /\ t \div Day = u \div Day
    <3>1. DayStart(t) = DayStart(u)
      BY <1>1, <2>3, DayBounds
    <3>2. QED
      BY <1>1, <1>2, <1>5, <2>3, <3>1 DEF InPeriod
  <2>4. CASE /\ job[r].kind = "current" /\ job[s].kind = "daily"
             /\ t - Hour <= Day * (u \div Day)
    <3>1. DayStart(u) = Day * (u \div Day) /\ DayStart(u) \in Nat
      BY <1>1, DayBounds
    <3>2. QED
      BY <1>1, <1>2, <1>5, <2>4, <3>1, PeriodsType DEF InPeriod
  <2>5. QED
    BY <2>1, <2>2, <2>3, <2>4 DEF Covers, t, u
<1>7. QED
  BY <1>3, <1>6 DEF CountedBy, CountedIn, t, x

\* PeriodsNest: the periods of usage_service.py:19-41 are nested as a reader of
\* the answers takes them to be.
THEOREM PeriodsNested == Spec => []PeriodsNest
<1>1. Inv => PeriodsNest
  <2> SUFFICES ASSUME Inv, NEW r \in Readers, NEW s \in Readers,
                      Done(r, UsageKinds), Done(s, UsageKinds), SameClient(r, s),
                      asked[s] <= asked[r], value[s].seen <= value[r].seen,
                      Covers(r, s)
               PROVE  /\ value[s].allowed <= value[r].allowed
                      /\ value[s].blocked <= value[r].blocked
    BY DEF PeriodsNest
  <2> DEFINE R == CountedBy(r)
             S == CountedBy(s)
  <2>1. S \subseteq R /\ IsFiniteSet(R)
    BY CoveredRows, UsageTold
  <2>2. /\ value[r].allowed = Cardinality({n \in R : rows[n].allowed})
        /\ value[r].blocked = Cardinality({n \in R : ~rows[n].allowed})
        /\ value[s].allowed = Cardinality({n \in S : rows[n].allowed})
        /\ value[s].blocked = Cardinality({n \in S : ~rows[n].allowed})
    BY UsageTold
  <2> HIDE DEF R, S
  <2>3. /\ {n \in S : rows[n].allowed} \subseteq {n \in R : rows[n].allowed}
        /\ {n \in S : ~rows[n].allowed} \subseteq {n \in R : ~rows[n].allowed}
    BY <2>1
  <2>4. /\ IsFiniteSet({n \in R : rows[n].allowed})
        /\ IsFiniteSet({n \in R : ~rows[n].allowed})
    BY <2>1, FS_Subset
  <2>5. QED
    BY <2>2, <2>3, <2>4, FS_Subset
<1>2. QED
  BY <1>1, ReportsInvariant, PTL
=============================================================================
