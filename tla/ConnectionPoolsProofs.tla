------------------------ MODULE ConnectionPoolsProofs ------------------------
(***************************************************************************)
(* What a request holds is told by how far it is, for any numbers of       *)
(* requests and connections.  The safety properties of ConnectionPools     *)
(* follow, and so does the bound on the users of the Redis pool: a user    *)
(* that is no cache read or ping holds a database connection.              *)
(***************************************************************************)
EXTENDS ConnectionPools, FiniteSetTheorems, TLAPS

\* What r holds a database connection for.
Held(r) ==
  IF pc[r] \in {"loaded", "counting"} THEN {"middleware"}
  ELSE IF pc[r] \in {"querying", "storing", "select"} THEN {"handler"}
  ELSE IF log[r] = "inserting" THEN {"log"}
  ELSE {}

\* Redis is asked in four places.
OnRedis(r) == pc[r] \in {"counting", "cache", "storing", "ping"}

Route(r) ==
  /\ pc[r] \in {"select", "checked", "ping"} => Handler[r] = "health"
  /\ pc[r] \in {"loaded", "counting", "handler", "cache", "missed", "querying",
                "storing"} => Handler[r] # "health"

Statuses(r) == IF Handler[r] = "health" THEN {0, 200, 503}
                                        ELSE {0, 200, 401, 403, 429, 500}

\* One request.
Consistent(r) ==
  /\ pc[r] \in Phases
  /\ log[r] \in {"none", "waiting", "inserting", "over"}
  /\ reply[r] \in Statuses(r)
  /\ db[r] = Held(r)
  /\ redis[r] \in BOOLEAN /\ (redis[r] <=> OnRedis(r))
  /\ log[r] # "none" => pc[r] = "done"
  /\ Route(r)

\* The variables are functions on the requests.
Functions ==
  /\ pc = [r \in Requests |-> pc[r]]
  /\ db = [r \in Requests |-> db[r]]
  /\ redis = [r \in Requests |-> redis[r]]
  /\ reply = [r \in Requests |-> reply[r]]
  /\ log = [r \in Requests |-> log[r]]

WithinPool == Cardinality(DbInUse) <= MaxDb

Inv == Functions /\ (\A r \in Requests : Consistent(r)) /\ WithinPool

LEMMA ConsistentIsBoolean ==
  ASSUME NEW r \in Requests
  PROVE  OnRedis(r) \in BOOLEAN
  BY DEF OnRedis
-----------------------------------------------------------------------------
(* The database pool. *)

LEMMA DbFinite ==
  ASSUME NEW f
  PROVE  IsFiniteSet({u \in Requests \X Uses : u[2] \in f[u[1]]})
<1>1. IsFiniteSet(Uses)
  <2>1. Uses = (({} \union {"middleware"}) \union {"handler"}) \union {"log"}
    BY DEF Uses
  <2>2. QED
    BY <2>1, FS_EmptySet, FS_AddElement
<1>2. IsFiniteSet(Requests \X Uses)
  BY <1>1, RequestsFinite, FS_Product
<1>3. QED
  BY <1>2, FS_Subset

\* Giving connections back leaves the pool within its size.
LEMMA GiveKeepsPool ==
  ASSUME WithinPool, NEW r \in Requests, Functions, Functions',
         \A q \in Requests : q # r => db'[q] = db[q],
         db'[r] \subseteq db[r]
  PROVE  WithinPool'
<1>1. DbInUse' \subseteq DbInUse
  BY DEF DbInUse
<1>2. IsFiniteSet(DbInUse)
  BY DbFinite DEF DbInUse
<1>3. Cardinality(DbInUse') <= Cardinality(DbInUse)
      /\ Cardinality(DbInUse) \in Nat /\ Cardinality(DbInUse') \in Nat
  BY <1>1, <1>2, FS_Subset, FS_CardinalityType
<1>4. QED
  BY <1>3, PoolsType DEF WithinPool

\* Taking one needs a free one.
LEMMA TakeKeepsPool ==
  ASSUME DbFree, NEW r \in Requests, NEW use \in Uses, Functions, Functions',
         \A q \in Requests : q # r => db'[q] = db[q],
         db'[r] = db[r] \union {use}
  PROVE  WithinPool'
<1>1. DbInUse' = DbInUse \union {<<r, use>>}
  BY DEF DbInUse
<1>2. IsFiniteSet(DbInUse)
  BY DbFinite DEF DbInUse
<1>3. Cardinality(DbInUse') <= Cardinality(DbInUse) + 1
      /\ Cardinality(DbInUse) \in Nat /\ Cardinality(DbInUse') \in Nat
  <2>1. Cardinality(DbInUse) \in Nat
    BY <1>2, FS_CardinalityType
  <2>2. Cardinality(DbInUse \union {<<r, use>>})
          = IF <<r, use>> \in DbInUse THEN Cardinality(DbInUse)
                                      ELSE Cardinality(DbInUse) + 1
    BY <1>2, FS_AddElement
  <2>3. QED
    BY <1>1, <2>1, <2>2
<1>4. QED
  BY <1>3, PoolsType DEF WithinPool, DbFree

LEMMA InitInv == Init => Inv
<1> SUFFICES ASSUME Init PROVE Inv
  OBVIOUS
<1>1. Functions /\ \A r \in Requests : Consistent(r)
  <2>1. Functions
    BY DEF Init, Functions
  <2>2. ASSUME NEW r \in Requests PROVE Consistent(r)
    <3>1. /\ pc[r] = "start" /\ db[r] = {} /\ redis[r] = FALSE
          /\ reply[r] = 0 /\ log[r] = "none"
      BY DEF Init
    <3>2. QED
      BY <3>1 DEF Consistent, Held, OnRedis, Route, Statuses, Phases
  <2>3. QED
    BY <2>1, <2>2
<1>2. DbInUse = {}
  BY DEF Init, DbInUse
<1>3. WithinPool
  BY <1>2, FS_EmptySet, PoolsType DEF WithinPool
<1>4. QED
  BY <1>1, <1>3 DEF Inv
-----------------------------------------------------------------------------
(* One request moves. *)

\* r gets new values, the others keep theirs.
Becomes(r, p, d, b, s, l) ==
  /\ pc' = [pc EXCEPT ![r] = p]
  /\ db' = [db EXCEPT ![r] = d]
  /\ redis' = [redis EXCEPT ![r] = b]
  /\ reply' = [reply EXCEPT ![r] = s]
  /\ log' = [log EXCEPT ![r] = l]

\* It keeps the invariant when the new values agree and a connection that is
\* new to it was free.
LEMMA BecomesInv ==
  ASSUME Inv, NEW r \in Requests, NEW p, NEW d, NEW b, NEW s, NEW l,
         Becomes(r, p, d, b, s, l),
         Consistent(r)',
         \/ d \subseteq db[r]
         \/ DbFree /\ \E use \in Uses : d = db[r] \union {use}
  PROVE  Inv'
<1>1. Functions'
  BY DEF Inv, Functions, Becomes
<1>2. /\ \A q \in Requests : q # r => /\ pc'[q] = pc[q] /\ db'[q] = db[q]
                                      /\ redis'[q] = redis[q]
                                      /\ reply'[q] = reply[q] /\ log'[q] = log[q]
      /\ db'[r] = d
  BY DEF Inv, Functions, Becomes
<1>3. \A q \in Requests : Consistent(q)'
  BY <1>2 DEF Inv, Consistent, Held, OnRedis, Route, Statuses
<1>4. WithinPool'
  <2>1. CASE d \subseteq db[r]
    BY <1>1, <1>2, <2>1, GiveKeepsPool DEF Inv
  <2>2. ASSUME DbFree, NEW use \in Uses, d = db[r] \union {use} PROVE WithinPool'
    BY <1>1, <1>2, <2>2, TakeKeepsPool DEF Inv
  <2>3. QED
    BY <2>1, <2>2
<1>5. QED
  BY <1>1, <1>3, <1>4 DEF Inv

\* The middleware.
LEMMA MiddlewareInv ==
  ASSUME Inv, NEW r \in Requests,
         RefuseKeyless(r) \/ Authenticate(r) \/ SendPipeline(r) \/ Block(r)
          \/ Admit(r) \/ Refuse(r)
  PROVE  Inv'
<1>1. CASE RefuseKeyless(r)
  <2>1. Becomes(r, "done", db[r],
                redis[r], 401, log[r])
    BY <1>1 DEF RefuseKeyless, Go, Answer, Becomes, Inv, Functions
  <2>2. Consistent(r)'
    BY <1>1, <2>1
       DEF RefuseKeyless, Go, Answer, Becomes, Inv, Functions,
           Consistent, Held, OnRedis, Route, Statuses, Phases
  <2>3. QED
    BY <2>1, <2>2, BecomesInv
<1>2. CASE Authenticate(r)
  <2>1. Becomes(r, "loaded", db[r] \union {"middleware"},
                redis[r], reply[r], log[r])
    BY <1>2 DEF Authenticate, Go, TakeDb, Becomes, Inv, Functions
  <2>2. Consistent(r)'
    BY <1>2, <2>1
       DEF Authenticate, Go, TakeDb, Becomes, Inv, Functions,
           Consistent, Held, OnRedis, Route, Statuses, Phases
  <2>3. DbFree /\ "middleware" \in Uses
    BY <1>2 DEF Authenticate, TakeDb, Uses
  <2>4. QED
    BY <2>1, <2>2, <2>3, BecomesInv
<1>3. CASE SendPipeline(r)
  <2>1. Becomes(r, "counting", db[r],
                TRUE, reply[r], log[r])
    BY <1>3 DEF SendPipeline, Go, TakeRedis, Becomes, Inv, Functions
  <2>2. Consistent(r)'
    BY <1>3, <2>1
       DEF SendPipeline, Go, TakeRedis, Becomes, Inv, Functions,
           Consistent, Held, OnRedis, Route, Statuses, Phases
  <2>3. QED
    BY <2>1, <2>2, BecomesInv
<1>4. CASE Block(r)
  <2>1. Becomes(r, "done", db[r] \ {"middleware"},
                FALSE, 429, "waiting")
    BY <1>4 DEF Block, Go, GiveRedis, GiveDb, Answer, StartLog, Becomes, Inv, Functions
  <2>2. Consistent(r)'
    BY <1>4, <2>1
       DEF Block, Go, GiveRedis, GiveDb, Answer, StartLog, Becomes, Inv, Functions,
           Consistent, Held, OnRedis, Route, Statuses, Phases
  <2>3. QED
    BY <2>1, <2>2, BecomesInv
<1>5. CASE Admit(r)
  <2>1. Becomes(r, "handler", db[r] \ {"middleware"},
                FALSE, reply[r], log[r])
    BY <1>5 DEF Admit, Go, GiveRedis, GiveDb, Becomes, Inv, Functions
  <2>2. Consistent(r)'
    BY <1>5, <2>1
       DEF Admit, Go, GiveRedis, GiveDb, Becomes, Inv, Functions,
           Consistent, Held, OnRedis, Route, Statuses, Phases
  <2>3. QED
    BY <2>1, <2>2, BecomesInv
<1>6. CASE Refuse(r)
  <2>1. PICK status \in {401, 403} : Answer(r, status)
    BY <1>6 DEF Refuse
  <2>2. Becomes(r, "done", db[r] \ {"middleware"}, redis[r], status, log[r])
    <3>1. Go(r, "loaded", "done") /\ GiveDb(r, "middleware")
          /\ redis' = redis /\ log' = log
      BY <1>6 DEF Refuse
    <3>2. QED
      BY <2>1, <3>1 DEF Go, GiveDb, Answer, Becomes, Inv, Functions
  <2>3. Consistent(r)'
    BY <1>6, <2>2
       DEF Refuse, Go, Becomes, Inv, Functions,
           Consistent, Held, OnRedis, Route, Statuses, Phases
  <2>4. QED
    BY <2>2, <2>3, BecomesInv
<1>7. QED
  BY <1>1, <1>2, <1>3, <1>4, <1>5, <1>6

\* The handlers.
LEMMA HandlerInv ==
  ASSUME Inv, NEW r \in Requests,
         Query(r) \/ Serve(r) \/ GetCached(r) \/ Hit(r) \/ Miss(r)
          \/ Store(r) \/ Stored(r)
  PROVE  Inv'
<1>1. CASE Query(r)
  <2>1. Becomes(r, "querying", db[r] \union {"handler"},
                redis[r], reply[r], log[r])
    BY <1>1 DEF Query, Go, TakeDb, Becomes, Inv, Functions
  <2>2. Consistent(r)'
    BY <1>1, <2>1
       DEF Query, Go, TakeDb, Becomes, Inv, Functions,
           Consistent, Held, OnRedis, Route, Statuses, Phases
  <2>3. DbFree /\ "handler" \in Uses
    BY <1>1 DEF Query, TakeDb, Uses
  <2>4. QED
    BY <2>1, <2>2, <2>3, BecomesInv
<1>2. CASE Serve(r)
  <2>1. Becomes(r, "done", db[r] \ {"handler"},
                redis[r], 200, "waiting")
    BY <1>2 DEF Serve, Go, Finish, GiveDb, Answer, StartLog, Becomes, Inv, Functions
  <2>2. Consistent(r)'
    BY <1>2, <2>1
       DEF Serve, Go, Finish, GiveDb, Answer, StartLog, Becomes, Inv, Functions,
           Consistent, Held, OnRedis, Route, Statuses, Phases
  <2>3. QED
    BY <2>1, <2>2, BecomesInv
<1>3. CASE GetCached(r)
  <2>1. Becomes(r, "cache", db[r],
                TRUE, reply[r], log[r])
    BY <1>3 DEF GetCached, Go, TakeRedis, Becomes, Inv, Functions
  <2>2. Consistent(r)'
    BY <1>3, <2>1
       DEF GetCached, Go, TakeRedis, Becomes, Inv, Functions,
           Consistent, Held, OnRedis, Route, Statuses, Phases
  <2>3. QED
    BY <2>1, <2>2, BecomesInv
<1>4. CASE Hit(r)
  <2>1. Becomes(r, "done", db[r],
                FALSE, 200, "waiting")
    BY <1>4 DEF Hit, Go, Finish, GiveRedis, Answer, StartLog, Becomes, Inv, Functions
  <2>2. Consistent(r)'
    BY <1>4, <2>1
       DEF Hit, Go, Finish, GiveRedis, Answer, StartLog, Becomes, Inv, Functions,
           Consistent, Held, OnRedis, Route, Statuses, Phases
  <2>3. QED
    BY <2>1, <2>2, BecomesInv
<1>5. CASE Miss(r)
  <2>1. Becomes(r, "missed", db[r],
                FALSE, reply[r], log[r])
    BY <1>5 DEF Miss, Go, GiveRedis, Becomes, Inv, Functions
  <2>2. Consistent(r)'
    BY <1>5, <2>1
       DEF Miss, Go, GiveRedis, Becomes, Inv, Functions,
           Consistent, Held, OnRedis, Route, Statuses, Phases
  <2>3. QED
    BY <2>1, <2>2, BecomesInv
<1>6. CASE Store(r)
  <2>1. Becomes(r, "storing", db[r],
                TRUE, reply[r], log[r])
    BY <1>6 DEF Store, Go, TakeRedis, Becomes, Inv, Functions
  <2>2. Consistent(r)'
    BY <1>6, <2>1
       DEF Store, Go, TakeRedis, Becomes, Inv, Functions,
           Consistent, Held, OnRedis, Route, Statuses, Phases
  <2>3. QED
    BY <2>1, <2>2, BecomesInv
<1>7. CASE Stored(r)
  <2>1. Becomes(r, "done", db[r] \ {"handler"},
                FALSE, 200, "waiting")
    BY <1>7 DEF Stored, Go, Finish, GiveRedis, GiveDb, Answer, StartLog, Becomes, Inv, Functions
  <2>2. Consistent(r)'
    BY <1>7, <2>1
       DEF Stored, Go, Finish, GiveRedis, GiveDb, Answer, StartLog, Becomes, Inv, Functions,
           Consistent, Held, OnRedis, Route, Statuses, Phases
  <2>3. QED
    BY <2>1, <2>2, BecomesInv
<1>8. QED
  BY <1>1, <1>2, <1>3, <1>4, <1>5, <1>6, <1>7

\* The health check and the usage task.
LEMMA HealthInv ==
  ASSUME Inv, NEW r \in Requests,
         Connect(r) \/ Selected(r) \/ Ping(r) \/ Pong(r) \/ InsertUsage(r)
          \/ EndUsage(r) \/ LogTimeout(r)
  PROVE  Inv'
<1>1. CASE Connect(r)
  <2>1. Becomes(r, "select", db[r] \union {"handler"},
                redis[r], reply[r], log[r])
    BY <1>1 DEF Connect, Go, TakeDb, Becomes, Inv, Functions
  <2>2. Consistent(r)'
    BY <1>1, <2>1
       DEF Connect, Go, TakeDb, Becomes, Inv, Functions,
           Consistent, Held, OnRedis, Route, Statuses, Phases
  <2>3. DbFree /\ "handler" \in Uses
    BY <1>1 DEF Connect, TakeDb, Uses
  <2>4. QED
    BY <2>1, <2>2, <2>3, BecomesInv
<1>2. CASE Selected(r)
  <2>1. Becomes(r, "checked", db[r] \ {"handler"},
                redis[r], reply[r], log[r])
    BY <1>2 DEF Selected, Go, GiveDb, Becomes, Inv, Functions
  <2>2. Consistent(r)'
    BY <1>2, <2>1
       DEF Selected, Go, GiveDb, Becomes, Inv, Functions,
           Consistent, Held, OnRedis, Route, Statuses, Phases
  <2>3. QED
    BY <2>1, <2>2, BecomesInv
<1>3. CASE Ping(r)
  <2>1. Becomes(r, "ping", db[r],
                TRUE, reply[r], log[r])
    BY <1>3 DEF Ping, Go, TakeRedis, Becomes, Inv, Functions
  <2>2. Consistent(r)'
    BY <1>3, <2>1
       DEF Ping, Go, TakeRedis, Becomes, Inv, Functions,
           Consistent, Held, OnRedis, Route, Statuses, Phases
  <2>3. QED
    BY <2>1, <2>2, BecomesInv
<1>4. CASE Pong(r)
  <2> DEFINE st == IF reply[r] = 503 THEN 503 ELSE 200
  <2>1. Becomes(r, "done", db[r], FALSE, st, log[r])
    BY <1>4 DEF Pong, Go, GiveRedis, Answer, Becomes, Inv, Functions
  <2>2. Consistent(r)'
    BY <1>4, <2>1
       DEF Pong, Go, GiveRedis, Answer, Becomes, Inv, Functions,
           Consistent, Held, OnRedis, Route, Statuses, Phases
  <2> HIDE DEF st
  <2>3. QED
    BY <2>1, <2>2, BecomesInv
<1>5. CASE InsertUsage(r)
  <2>1. Becomes(r, pc[r], db[r] \union {"log"},
                redis[r], reply[r], "inserting")
    BY <1>5 DEF InsertUsage, TakeDb, Becomes, Inv, Functions
  <2>2. Consistent(r)'
    BY <1>5, <2>1
       DEF InsertUsage, TakeDb, Becomes, Inv, Functions,
           Consistent, Held, OnRedis, Route, Statuses, Phases
  <2>3. DbFree /\ "log" \in Uses
    BY <1>5 DEF InsertUsage, TakeDb, Uses
  <2>4. QED
    BY <2>1, <2>2, <2>3, BecomesInv
<1>6. CASE EndUsage(r)
  <2>1. Becomes(r, pc[r], db[r] \ {"log"},
                redis[r], reply[r], "over")
    BY <1>6 DEF EndUsage, GiveDb, Becomes, Inv, Functions
  <2>2. Consistent(r)'
    BY <1>6, <2>1
       DEF EndUsage, GiveDb, Becomes, Inv, Functions,
           Consistent, Held, OnRedis, Route, Statuses, Phases
  <2>3. QED
    BY <2>1, <2>2, BecomesInv
<1>7. CASE LogTimeout(r)
  <2>1. Becomes(r, pc[r], db[r],
                redis[r], reply[r], "over")
    BY <1>7 DEF LogTimeout, Becomes, Inv, Functions
  <2>2. Consistent(r)'
    BY <1>7, <2>1
       DEF LogTimeout, Becomes, Inv, Functions,
           Consistent, Held, OnRedis, Route, Statuses, Phases
  <2>3. QED
    BY <2>1, <2>2, BecomesInv
<1>8. QED
  BY <1>1, <1>2, <1>3, <1>4, <1>5, <1>6, <1>7

\* An exception, wherever a request waits for a connection or holds one.
LEMMA RaiseInv ==
  ASSUME Inv, NEW r \in Requests, Raise(r), pc[r] # "done"
  PROVE  Inv'
<1> DEFINE p == IF Handler[r] = "health" /\ pc[r] \in {"start", "select"}
                  THEN "checked" ELSE "done"
           st == IF Handler[r] = "health" THEN 503 ELSE 500
<1>1. Becomes(r, p, db[r] \ {"middleware", "handler"}, FALSE, st, log[r])
  BY DEF Raise, GiveRedis, Answer, Becomes, Inv, Functions
<1>2. Consistent(r)'
  <2>1. Consistent(r)
    BY DEF Inv
  <2>2. /\ pc'[r] = p /\ db'[r] = db[r] \ {"middleware", "handler"}
        /\ redis'[r] = FALSE /\ reply'[r] = st /\ log'[r] = log[r]
    BY <1>1 DEF Becomes, Inv, Functions
  <2>3. /\ log[r] # "inserting" /\ db'[r] = {}
        /\ log'[r] = "none"
    BY <2>1, <2>2 DEF Consistent, Held
  <2>4. /\ p \in {"checked", "done"} /\ st \in Statuses(r)
        /\ p = "checked" => Handler[r] = "health"
    BY DEF Statuses
  <2> HIDE DEF p, st
  <2>5. /\ pc'[r] \in Phases /\ db'[r] = Held(r)' /\ Route(r)'
    BY <2>2, <2>3, <2>4 DEF Held, Route, Phases
  <2>6. redis'[r] \in BOOLEAN /\ (redis'[r] <=> OnRedis(r)')
    BY <2>2, <2>4 DEF OnRedis
  <2>7. reply'[r] \in Statuses(r)'
    BY <2>2, <2>4 DEF Statuses
  <2>8. QED
    BY <2>1, <2>2, <2>3, <2>5, <2>6, <2>7 DEF Consistent
<1> HIDE DEF p, st
<1>3. QED
  BY <1>1, <1>2, BecomesInv

LEMMA NextInv == Inv /\ [Next]_vars => Inv'
<1> SUFFICES ASSUME Inv, [Next]_vars PROVE Inv'
  OBVIOUS
<1>1. CASE UNCHANGED vars
  BY <1>1 DEF vars, Inv, Functions, Consistent, Held, OnRedis, Route, Statuses,
              WithinPool, DbInUse
<1>2. ASSUME NEW r \in Requests, Step(r) PROVE Inv'
  <2>1. CASE RedisRefuses(r)
    BY <2>1, RaiseInv DEF RedisRefuses, AwaitsRedis
  <2>2. QED
    BY <1>2, <2>1, MiddlewareInv, HandlerInv, HealthInv DEF Step
<1>3. ASSUME NEW r \in Requests, DbTimeout(r) PROVE Inv'
  BY <1>3, RaiseInv DEF DbTimeout, AwaitsDb
<1>4. ASSUME NEW r \in Requests, LogTimeout(r) PROVE Inv'
  BY <1>4, HealthInv
<1>5. ASSUME NEW r \in Requests, StatementFails(r) PROVE Inv'
  BY <1>5, RaiseInv DEF StatementFails
<1>6. QED
  BY <1>1, <1>2, <1>3, <1>4, <1>5 DEF Next

LEMMA InvInvariant == Spec => []Inv
  BY InitInv, NextInv, PTL DEF Spec
-----------------------------------------------------------------------------
\* Types, and the statuses each route may answer, for any pools and requests.
THEOREM PoolTypeCorrect == Spec => []TypeOK
<1>1. Inv => TypeOK
  <2> SUFFICES ASSUME Inv PROVE TypeOK
    OBVIOUS
  <2>1. \A r \in Requests : /\ pc[r] \in Phases /\ db[r] \in SUBSET Uses
                            /\ redis[r] \in BOOLEAN
                            /\ log[r] \in {"none", "waiting", "inserting", "over"}
                            /\ reply[r] \in Statuses(r)
    BY ConsistentIsBoolean DEF Inv, Consistent, Held, Uses
  <2>2. QED
    BY <2>1 DEF Inv, Functions, TypeOK, Statuses
<1>2. QED
  BY <1>1, InvInvariant, PTL

\* No failure, timeout or refusal makes a pool lose a connection: whoever is
\* over, by whatever path, holds none.
THEOREM ConnectionsReturn == Spec => []NothingLeaks
<1>1. Inv => NothingLeaks
  BY DEF Inv, Consistent, Held, OnRedis, NothingLeaks
<1>2. QED
  BY <1>1, InvInvariant, PTL

\* Nobody waits for a database connection with another one in hand, so the
\* waiting cannot close a circle.
THEOREM OneConnectionEach == Spec => []OneDbConnectionEach
<1>1. ASSUME Inv, NEW r \in Requests
      PROVE  Cardinality(db[r]) <= 1 /\ (AwaitsDb(r) => db[r] = {})
  <2>1. db[r] = Held(r) /\ (log[r] # "none" => pc[r] = "done")
    BY <1>1 DEF Inv, Consistent
  <2>2. db[r] = {} \/ \E x : db[r] = {x}
    BY <2>1 DEF Held
  <2>3. Cardinality(db[r]) <= 1
    <3>1. Cardinality({}) = 0 /\ \A x : Cardinality({x}) = 1
      BY FS_EmptySet, FS_Singleton
    <3>2. CASE db[r] = {}
      BY <3>1, <3>2
    <3>3. ASSUME NEW x, db[r] = {x} PROVE Cardinality(db[r]) <= 1
      BY <3>1, <3>3
    <3>4. QED
      BY <2>2, <3>2, <3>3
  <2>4. AwaitsDb(r) => db[r] = {}
    BY <2>1 DEF AwaitsDb, Held
  <2>5. QED
    BY <2>3, <2>4
<1>2. Inv => OneDbConnectionEach
  BY <1>1 DEF OneDbConnectionEach
<1>3. QED
  BY <1>2, InvInvariant, PTL

\* The users of the Redis pool that hold a database connection inject into the
\* database pool.
LEMMA RedisUsers ==
  ASSUME Inv, ~RedisFree
  PROVE  Cardinality(Bare) >= MaxRedis - MaxDb
<1> DEFINE Sessions == {r \in Requests : pc[r] \in {"counting", "storing"}}
           f == [r \in Sessions |->
                   <<r, IF pc[r] = "counting" THEN "middleware" ELSE "handler">>]
<1>1. IsFiniteSet(Bare) /\ IsFiniteSet(Sessions) /\ IsFiniteSet(DbInUse)
  BY RequestsFinite, FS_Subset, DbFinite DEF Bare, DbInUse
<1>2. RedisInUse = Bare \union Sessions
  BY DEF RedisInUse, Bare, Inv, Consistent, OnRedis
<1>3. f \in Injection(Sessions, DbInUse)
  <2>1. \A r \in Sessions : f[r] \in DbInUse
    BY DEF DbInUse, Inv, Consistent, Held, Uses
  <2>2. \A q, r \in Sessions : f[q] = f[r] => q = r
    OBVIOUS
  <2>3. QED
    BY <2>1, <2>2 DEF Injection, IsInjective
<1>4. Cardinality(Sessions) <= Cardinality(DbInUse)
  BY <1>1, <1>3, FS_Injection
<1>5. Cardinality(RedisInUse) <= Cardinality(Bare) + Cardinality(Sessions)
  <2> HIDE DEF Sessions
  <2>1. Cardinality(RedisInUse) = Cardinality(Bare) + Cardinality(Sessions)
                                    - Cardinality(Bare \intersect Sessions)
    BY <1>1, <1>2, FS_Union
  <2>2. IsFiniteSet(Bare \intersect Sessions)
    BY <1>1, FS_Subset
  <2>3. /\ Cardinality(Bare) \in Nat /\ Cardinality(Sessions) \in Nat
        /\ Cardinality(Bare \intersect Sessions) \in Nat
    BY <1>1, <2>2, FS_CardinalityType
  <2>4. QED
    BY <2>1, <2>3
<1>6. /\ Cardinality(Bare) \in Nat /\ Cardinality(Sessions) \in Nat
      /\ Cardinality(DbInUse) \in Nat /\ Cardinality(RedisInUse) \in Nat
  <2>1. IsFiniteSet(RedisInUse)
    BY RequestsFinite, FS_Subset DEF RedisInUse
  <2>2. QED
    BY <1>1, <2>1, FS_CardinalityType
<1> HIDE DEF Sessions
<1>7. QED
  BY <1>4, <1>5, <1>6, PoolsType DEF Inv, WithinPool, RedisFree

\* With 15 database and 50 Redis connections: a request is refused a Redis
\* connection only while 35 others are reading the cache or pinging.
THEOREM ReadersExhaustRedis == Spec => OnlyReadersExhaustRedis
<1>1. Inv /\ [Next]_vars =>
        [\A r \in Requests :
           RedisRefuses(r) => Cardinality(Bare) >= MaxRedis - MaxDb]_vars
  BY RedisUsers DEF RedisRefuses
<1>2. QED
  BY <1>1, InvInvariant, PTL DEF Spec, OnlyReadersExhaustRedis
=============================================================================
