--------------------------- MODULE GatewayProofs ----------------------------
(***************************************************************************)
(* Type correctness of Gateway, with the phases of a request it rests on,  *)
(* and the quota that a Redis counter enforces, for every number of        *)
(* requests and in spite of administrators, faults and late pipelines.     *)
(*                                                                         *)
(* The invariant of the counters says that the requests of one incarnation *)
(* of a key hold the numbers from one to its count, each exactly one of    *)
(* them.  Distinct numbers bound the admitted requests; the absence of     *)
(* holes shows that a refused request had every place within its limit     *)
(* taken before it.                                                        *)
(***************************************************************************)
EXTENDS Gateway, FiniteSetTheorems, TLAPS

\* _window_key: a clock reading falls in a bucket that starts no later than
\* it and ends after it.
LEMMA BucketSpan ==
  ASSUME NEW t \in Nat, NEW w \in Nat \ {0}
  PROVE  /\ WindowBucket(t, w) \in Nat
         /\ WindowBucket(t, w) <= t
         /\ t < WindowBucket(t, w) + w
  BY SMT DEF WindowBucket

\* The pipeline returns a positive count, and a count of one exactly when it
\* creates the key.
LEMMA IncrExpireResult ==
  ASSUME NEW ctr \in Counter, NEW t \in Nat, NEW w \in Nat
  PROVE  /\ IncrExpire(ctr, t, w) \in Counter
         /\ IncrExpire(ctr, t, w).expire = t + w
         /\ Alive(ctr, t) =>
              /\ IncrExpire(ctr, t, w).life = ctr.life
              /\ IncrExpire(ctr, t, w).count = ctr.count + 1
         /\ ~Alive(ctr, t) =>
              /\ IncrExpire(ctr, t, w).life = ctr.life + 1
              /\ IncrExpire(ctr, t, w).count = 1
         /\ IncrExpire(ctr, t, w).count = CurrentCount(ctr, t) + 1
  BY DEF Counter, IncrExpire, Incr, CurrentCount, Alive
-----------------------------------------------------------------------------

LEMMA TimesNat == \A t : t \in Times <=> t \in Nat /\ t <= MaxTime
  BY BoundsType DEF Times

LEMMA NullTypes ==
  /\ NoCall \in Calls /\ NoQuota \in Quotas /\ NoTicket \in Tickets
  /\ NoReply \in Replies /\ NoHeaders \in HeaderSets /\ NoCounter \in Counter
<1>1. 0 \in Times
  BY TimesNat, BoundsType
<1>2. QED
  BY <1>1 DEF NoCall, NoQuota, NoTicket, NoReply, NoHeaders, NoCounter, Calls,
              Quotas, Tickets, Replies, HeaderSets, Counter, Verdicts

LEMMA LimitsType ==
  ASSUME Types, NEW c \in Clients
  PROVE  EffectiveLimits(c) \in Limits
  BY PlanLimitsType DEF Types, Row, EffectiveLimits

\* The key of a request that knows its client is a key of the store.
LEMMA KeyType ==
  ASSUME TypeOK, NEW r \in Requests, call[r].client \in Clients
  PROVE  /\ Key(r) \in Clients \X Times
         /\ counter[Key(r)] \in Counter
<1>1. quota[r].bucket \in Times
  BY DEF TypeOK, Types, Quotas
<1>2. QED
  BY <1>1 DEF TypeOK, Types, Key

LEMMA InitTypeInv == Init => TypeOK
<1>1. 0 \in Times
  BY TimesNat, BoundsType
<1>2. Init => Types
  BY <1>1, NullTypes, InitialRowType DEF Init, Types, Phases
<1>3. Init => PhaseInv
  BY DEF Init, PhaseInv, Counted, Admitted, NoTicket
<1>4. QED
  BY <1>2, <1>3 DEF TypeOK

\* What an answer does to the types.
LEMMA AnswerType ==
  ASSUME Types, NEW r \in Requests, NEW h \in HeaderSets,
         NEW s \in {0, 200, 401, 403, 429, 500}, Answer(r, s, h)
  PROVE  /\ pc' \in [Requests -> Phases]
         /\ reply' \in [Requests -> Replies]
  BY DEF Answer, Types, Phases, Replies

LEMMA TaskType ==
  ASSUME NEW r \in Requests, NEW a \in BOOLEAN
  PROVE  [req |-> r, allowed |-> a] \in [req : Requests, allowed : BOOLEAN]
  OBVIOUS

\* What Redis executing a pipeline does to the types.
LEMMA IncrementType ==
  ASSUME TypeOK, NEW r \in Requests, NEW v \in Verdicts,
         pc[r] = "counting", Increment(r, v)
  PROVE  /\ counter' \in [Clients \X Times -> Counter]
         /\ ticket' \in [Requests -> Tickets]
         /\ ticket'[r].verdict = v
         /\ \A s \in Requests : s # r => ticket'[s] = ticket[s]
<1> DEFINE ctr == IncrExpire(counter[Key(r)], now, quota[r].window)
           tkt == [verdict |-> v, life |-> ctr.life,
                   count |-> ctr.count, at |-> now]
<1>1. Key(r) \in Clients \X Times /\ counter[Key(r)] \in Counter
  BY KeyType DEF TypeOK, PhaseInv
<1>2. now \in Nat /\ quota[r].window \in Nat
  BY TimesNat DEF TypeOK, Types, Quotas
<1>3. ctr \in Counter
  BY <1>1, <1>2, IncrExpireResult
<1>4. /\ counter' = [counter EXCEPT ![Key(r)] = ctr]
      /\ ticket' = [ticket EXCEPT ![r] = tkt]
  BY DEF Increment
<1> HIDE DEF ctr
<1>5. tkt \in Tickets /\ tkt.verdict = v
  BY <1>3 DEF TypeOK, Types, Counter, Tickets
<1> HIDE DEF tkt
<1>6. QED
  BY <1>1, <1>3, <1>4, <1>5 DEF TypeOK, Types
-----------------------------------------------------------------------------
(* Leaving dispatch before being counted. *)
LEMMA LeaveTypeInv ==
  ASSUME TypeOK, NEW r \in Requests, ~Counted(r),
         NEW s \in {200, 401, 403, 500}, Leave(r, s),
         UNCHANGED <<now, row, counter, ticket, tasks, usage>>
  PROVE  TypeOK'
<1>1. Types'
  BY NullTypes, AnswerType DEF TypeOK, Types, Leave
<1>2. PhaseInv'
  BY DEF TypeOK, Types, PhaseInv, Leave, Answer, Counted, Admitted, Positive
<1>3. QED
  BY <1>1, <1>2 DEF TypeOK

\* The steps of one request that end it before it is counted.
LEMMA EarlyTypeInv ==
  ASSUME TypeOK, NEW r \in Requests,
         \/ ServeExempt(r) \/ RejectUnknownKey(r) \/ RejectInactive(r)
         \/ DatabaseFails(r) \/ RedisUnreachable(r)
  PROVE  TypeOK'
<1>1. ~Counted(r)
  BY DEF TypeOK, PhaseInv, ServeExempt, RejectUnknownKey, RejectInactive,
         DatabaseFails, RedisUnreachable
<1>2. QED
  BY <1>1, LeaveTypeInv DEF ServeExempt, RejectUnknownKey, RejectInactive,
                            DatabaseFails, RedisUnreachable

\* The steps that load the client and build the key.
LEMMA LoadTypeInv ==
  ASSUME TypeOK, NEW r \in Requests,
         \/ \E c \in Clients, p \in Paths : SelectClient(r, c, p)
         \/ SelectConfig(r) \/ BuildKey(r)
  PROVE  TypeOK'
<1>1. CASE \E c \in Clients, p \in Paths : SelectClient(r, c, p)
  <2>1. PICK c \in Clients, p \in Paths : SelectClient(r, c, p)
    BY <1>1
  <2>2. [client |-> c, path |-> p, active |-> row[c].active] \in Calls
    BY DEF TypeOK, Types, Row, Calls
  <2>3. Types'
    BY <2>1, <2>2 DEF TypeOK, Types, SelectClient, Phases
  <2>4. PhaseInv'
    BY <2>1 DEF TypeOK, Types, PhaseInv, SelectClient, Counted, Admitted,
                Positive
  <2>5. QED
    BY <2>3, <2>4 DEF TypeOK
<1>2. CASE SelectConfig(r)
  <2> DEFINE l == EffectiveLimits(call[r].client)
             q == [allowed |-> l.allowed, window |-> l.window,
                   bucket |-> 0, deadline |-> 0]
  <2>1. quota' = [quota EXCEPT ![r] = q]
    BY <1>2 DEF SelectConfig
  <2>2. l \in Limits
    BY <1>2, LimitsType DEF SelectConfig, TypeOK, PhaseInv
  <2> HIDE DEF l
  <2>3. q \in Quotas /\ q.allowed >= 1 /\ q.window >= 1
    BY <2>2, TimesNat, BoundsType DEF Limits, Quotas
  <2> HIDE DEF q
  <2>4. Types'
    BY <1>2, <2>1, <2>3 DEF TypeOK, Types, SelectConfig, Phases
  <2>5. PhaseInv'
    BY <1>2, <2>1, <2>3 DEF TypeOK, Types, PhaseInv, SelectConfig, Counted,
                            Admitted, Positive
  <2>6. QED
    BY <2>4, <2>5 DEF TypeOK
<1>3. CASE BuildKey(r)
  <2> DEFINE b == WindowBucket(now, quota[r].window)
             q == [allowed |-> quota[r].allowed, window |-> quota[r].window,
                   bucket |-> b, deadline |-> now + MaxLag]
  <2>1. quota' = [quota EXCEPT ![r] = q]
    BY <1>3 DEF BuildKey
  <2>2. now \in Times /\ quota[r].allowed \in Nat /\ quota[r].window \in Nat
    BY DEF TypeOK, Types, Quotas
  <2>3. quota[r].allowed >= 1 /\ quota[r].window >= 1
    BY <1>3 DEF TypeOK, PhaseInv, Positive, BuildKey
  <2>4. b \in Times
    <3>1. now \in Nat /\ now <= MaxTime /\ quota[r].window \in Nat \ {0}
      BY <2>2, <2>3, TimesNat
    <3>2. b \in Nat /\ b <= now
      BY <3>1, BucketSpan
    <3> HIDE DEF b
    <3>3. QED
      BY <3>1, <3>2, TimesNat, BoundsType
  <2> HIDE DEF b
  <2>5. q \in Quotas /\ q.allowed >= 1 /\ q.window >= 1
    BY <2>2, <2>3, <2>4, TimesNat, BoundsType DEF Quotas
  <2> HIDE DEF q
  <2>6. Types'
    BY <1>3, <2>1, <2>5 DEF TypeOK, Types, BuildKey, Phases
  <2>7. PhaseInv'
    BY <1>3, <2>1, <2>5 DEF TypeOK, Types, PhaseInv, BuildKey, Counted,
                            Admitted, Positive
  <2>8. QED
    BY <2>6, <2>7 DEF TypeOK
<1>4. QED
  BY <1>1, <1>2, <1>3

\* The steps of a request that has its ticket.
LEMMA FinishTypeInv ==
  ASSUME TypeOK, NEW r \in Requests, Serve(r) \/ HandlerRaises(r)
  PROVE  TypeOK'
<1>1. CASE Serve(r)
  <2> DEFINE left == Max0(quota[r].allowed - ticket[r].count)
             h == Headers(quota[r], left)
  <2>1. h \in HeaderSets
    BY DEF TypeOK, Types, Quotas, Tickets, HeaderSets, Headers, Max0
  <2>2. PICK s \in {200, 403} : Answer(r, s, h)
    BY <1>1 DEF Serve, ServeWith
  <2>3. Types'
    <3>1. pc' \in [Requests -> Phases] /\ reply' \in [Requests -> Replies]
      BY <2>1, <2>2, AnswerType DEF TypeOK
    <3>2. tasks' \subseteq [req : Requests, allowed : BOOLEAN]
      <4>1. tasks' = tasks \union {[req |-> r, allowed |-> TRUE]}
        BY <1>1 DEF Serve, ServeWith
      <4>2. [req |-> r, allowed |-> TRUE] \in [req : Requests, allowed : BOOLEAN]
        BY TaskType, TRUE \in BOOLEAN
      <4>3. tasks \subseteq [req : Requests, allowed : BOOLEAN]
        BY DEF TypeOK, Types
      <4>4. QED
        BY <4>1, <4>2, <4>3
    <3>3. QED
      BY <1>1, <3>1, <3>2 DEF TypeOK, Types, Serve, ServeWith
  <2>4. PhaseInv'
    BY <1>1, <2>2 DEF TypeOK, Types, PhaseInv, Serve, ServeWith, Answer,
                      Counted, Admitted, Positive
  <2>5. QED
    BY <2>3, <2>4 DEF TypeOK
<1>2. CASE HandlerRaises(r)
  <2>1. Types'
    BY <1>2, NullTypes, AnswerType DEF TypeOK, Types, HandlerRaises
  <2>2. PhaseInv'
    BY <1>2 DEF TypeOK, Types, PhaseInv, HandlerRaises, Answer, Counted,
                Admitted, Positive
  <2>3. QED
    BY <2>1, <2>2 DEF TypeOK
<1>3. QED
  BY <1>1, <1>2

\* The three ways a request can be counted.
LEMMA CountTypeInv ==
  ASSUME TypeOK, NEW r \in Requests,
         Admit(r) \/ Block(r) \/ RedisAnswerLost(r)
  PROVE  TypeOK'
<1>1. CASE Admit(r)
  <2>1. Types'
    BY <1>1, IncrementType DEF Admit, TypeOK, Types, Verdicts, Phases
  <2>2. PhaseInv'
    BY <1>1, IncrementType DEF Admit, TypeOK, Types, PhaseInv, Verdicts,
                               Counted, Admitted, Positive
  <2>3. QED
    BY <2>1, <2>2 DEF TypeOK
<1>2. CASE Block(r)
  <2>1. Headers(quota[r], 0) \in HeaderSets
    BY DEF TypeOK, Types, Quotas, HeaderSets, Headers
  <2>2. Types'
    <3>1. pc' \in [Requests -> Phases] /\ reply' \in [Requests -> Replies]
      BY <1>2, <2>1, AnswerType DEF TypeOK, Block
    <3>2. tasks' \subseteq [req : Requests, allowed : BOOLEAN]
      BY <1>2, TaskType DEF TypeOK, Types, Block
    <3>3. QED
      BY <1>2, <3>1, <3>2, IncrementType DEF Block, TypeOK, Types, Verdicts
  <2>3. PhaseInv'
    BY <1>2, IncrementType DEF Block, TypeOK, Types, PhaseInv, Answer,
                               Verdicts, Counted, Admitted, Positive
  <2>4. QED
    BY <2>2, <2>3 DEF TypeOK
<1>3. CASE RedisAnswerLost(r)
  <2>1. Types'
    BY <1>3, IncrementType, AnswerType, NullTypes
       DEF RedisAnswerLost, TypeOK, Types, Verdicts
  <2>2. PhaseInv'
    BY <1>3, IncrementType DEF RedisAnswerLost, TypeOK, Types, PhaseInv,
                          Answer, Verdicts, Counted, Admitted, Positive
  <2>3. QED
    BY <2>1, <2>2 DEF TypeOK
<1>4. QED
  BY <1>1, <1>2, <1>3

\* The background tasks and the environment.
LEMMA OutsideTypeInv ==
  ASSUME TypeOK,
         \/ \E t \in tasks : LogUsage(t) \/ LogUsageFails(t)
         \/ Admin \/ Tick \/ RedisRestart \/ AppCrash \/ UNCHANGED vars
  PROVE  TypeOK'
<1>1. CASE \E t \in tasks : LogUsage(t) \/ LogUsageFails(t)
  <2>1. usage' \in [Clients -> [allowed : Nat, blocked : Nat]]
    <3>1. PICK t \in tasks : LogUsage(t) \/ LogUsageFails(t)
      BY <1>1
    <3>2. \A c \in Clients : CountRow(usage[c], t.allowed)
                               \in [allowed : Nat, blocked : Nat]
      BY DEF TypeOK, Types, CountRow
    <3>3. QED
      BY <3>1, <3>2 DEF TypeOK, Types, LogUsage, LogUsageFails
  <2>2. Types'
    BY <1>1, <2>1 DEF TypeOK, Types, LogUsage, LogUsageFails
  <2>3. PhaseInv'
    BY <1>1 DEF TypeOK, PhaseInv, LogUsage, LogUsageFails, Counted, Admitted,
                Positive
  <2>4. QED
    BY <2>2, <2>3 DEF TypeOK
<1>2. CASE Admin
  <2>1. Types'
    <3>1. PICK c \in Clients, a \in BOOLEAN, l \in Limits \union {None} :
            row' = [row EXCEPT ![c] = [active |-> a, config |-> l]]
      <4>1. \A c \in Clients : row[c].active \in BOOLEAN
                                 /\ row[c].config \in Limits \union {None}
        BY DEF TypeOK, Types, Row
      <4>2. CASE \E c \in Clients, a \in AdminActive : SetActive(c, a)
        BY <4>1, <4>2, AdminType DEF SetActive
      <4>3. CASE \E c \in Clients, l \in AdminLimits : UpdateConfig(c, l)
        BY <4>1, <4>3, AdminType DEF UpdateConfig
      <4>4. QED
        BY <1>2, <4>2, <4>3 DEF Admin
    <3>2. [active |-> a, config |-> l] \in Row
      BY DEF Row
    <3>3. row' \in [Clients -> Row]
      BY <3>1, <3>2 DEF TypeOK, Types
    <3>4. QED
      BY <1>2, <3>3 DEF TypeOK, Types, Admin, SetActive, UpdateConfig
  <2>2. PhaseInv'
    BY <1>2 DEF TypeOK, PhaseInv, Admin, SetActive, UpdateConfig, Counted,
                Admitted, Positive
  <2>3. QED
    BY <2>1, <2>2 DEF TypeOK
<1>3. CASE Tick
  <2>1. now' \in Times
    BY <1>3, BoundsType, TimesNat DEF TypeOK, Types, Tick
  <2>2. UNCHANGED <<row, counter, pc, call, quota, ticket, reply, tasks, usage>>
    BY <1>3 DEF Tick
  <2>3. Types'
    BY <2>1, <2>2 DEF TypeOK, Types
  <2>4. PhaseInv'
    BY <2>2 DEF TypeOK, PhaseInv, Counted, Admitted, Positive
  <2>5. QED
    BY <2>3, <2>4 DEF TypeOK
<1>4. CASE RedisRestart
  BY <1>4 DEF TypeOK, Types, PhaseInv, RedisRestart, Counter, Counted,
              Admitted, Positive
<1>5. CASE AppCrash
  <2>1. Types'
    BY <1>5, NullTypes DEF TypeOK, Types, AppCrash, Phases
  <2>2. PhaseInv'
    BY <1>5 DEF TypeOK, Types, PhaseInv, AppCrash, InFlight, Uncounted,
                Counted, Admitted, Positive, Phases
  <2>3. QED
    BY <2>1, <2>2 DEF TypeOK
<1>6. CASE UNCHANGED vars
  BY <1>6 DEF vars, TypeOK, Types, PhaseInv, Counted, Admitted, Positive
<1>7. QED
  BY <1>1, <1>2, <1>3, <1>4, <1>5, <1>6

LEMMA StepTypeInv == TypeOK /\ [Next]_vars => TypeOK'
  BY EarlyTypeInv, LoadTypeInv, FinishTypeInv, CountTypeInv, OutsideTypeInv
     DEF Next, Arrive, Dispatch, RequestFault

LEMMA TypeInvInvariant == Spec => []TypeOK
  BY InitTypeInv, StepTypeInv, PTL DEF Spec

\* Gateway is type correct for every set of clients, every finite set of
\* requests, all limits, faults and administrators, and any bounds.
THEOREM TypeCorrect == Spec => []TypeOK
  BY TypeInvInvariant, PTL
-----------------------------------------------------------------------------
\* The administrators of ClientAdmin, which implement ClientRows, among the
\* registered clients of Gateway.
Administrators == INSTANCE ClientRows WITH Ids <- Clients, DefaultLimits <- None

\* Nothing an administrator can commit is missing from the environment of the
\* request path, when Admin may choose any limits and any is_active.
THEOREM AdminCoversCommits ==
  ASSUME Types, AdminLimits = Limits, AdminActive = BOOLEAN,
         [Administrators!Next]_row,
         UNCHANGED <<now, counter, pc, call, quota, ticket, reply, tasks, usage>>
  PROVE  Admin \/ UNCHANGED vars
<1>1. \A c \in Clients : row[c] # None /\ row[c] = [active |-> row[c].active,
                                                      config |-> row[c].config]
  BY NoneType DEF Types, Row
<1>2. CASE UNCHANGED row
  BY <1>2 DEF vars
<1>3. ASSUME NEW c \in Clients, NEW a \in BOOLEAN, Administrators!SetActive(c, a)
      PROVE  Admin \/ UNCHANGED vars
  <2>1. CASE row[c].active # a
    BY <1>3, <2>1 DEF Administrators!SetActive, SetActive, Admin
  <2>2. CASE row[c].active = a
    <3>1. row' = [row EXCEPT ![c] = row[c]]
      BY <1>1, <1>3, <2>2 DEF Administrators!SetActive
    <3>2. row' = row
      BY <3>1 DEF Types
    <3>3. QED
      BY <3>2 DEF vars
  <2>3. QED
    BY <2>1, <2>2
<1>4. ASSUME NEW c \in Clients, Administrators!UpdateConfig(c)
      PROVE  Admin \/ UNCHANGED vars
  <2> DEFINE l == row'[c].config
  <2>1. l \in AdminLimits
        /\ row' = [row EXCEPT ![c] = [active |-> row[c].active, config |-> l]]
    BY <1>4 DEF Administrators!UpdateConfig
  <2> HIDE DEF l
  <2>2. CASE row[c].config # l
    BY <2>1, <2>2 DEF UpdateConfig, Admin
  <2>3. CASE row[c].config = l
    <3>1. row' = [row EXCEPT ![c] = row[c]]
      BY <1>1, <2>1, <2>3
    <3>2. row' = row
      BY <3>1 DEF Types
    <3>3. QED
      BY <3>2 DEF vars
  <2>4. QED
    BY <2>2, <2>3
<1>5. QED
  BY <1>1, <1>2, <1>3, <1>4 DEF Administrators!Next, Administrators!Register
-----------------------------------------------------------------------------
(* Numbers. *)

\* No number is given twice by one incarnation of a key.
CountsDistinct ==
  \A r, s \in Requests :
    r # s /\ SameCounter(r, s) => ticket[r].count # ticket[s].count

\* A ticket is no younger than its key, and within its count.
TicketsInCounter ==
  \A r \in Requests : Counted(r) =>
    /\ ticket[r].count >= 1
    /\ ticket[r].life <= counter[Key(r)].life
    /\ ticket[r].life = counter[Key(r)].life /\ counter[Key(r)].count > 0
         => ticket[r].count <= counter[Key(r)].count

\* INCR came before the comparison, and the verdict is that comparison.
VerdictByCount ==
  \A r \in Requests :
    /\ Admitted(r) => ticket[r].count <= quota[r].allowed
    /\ Blocked(r)  => ticket[r].count > quota[r].allowed

\* The numbers a key has given in its present incarnation have no holes.
CounterDense ==
  \A k \in Clients \X Times : \A i \in 1 .. counter[k].count :
    \E s \in Requests :
      Counted(s) /\ Key(s) = k /\ ticket[s].life = counter[k].life
        /\ ticket[s].count = i

\* Nor had they when a request got its own.
TicketDense ==
  \A r \in Requests : Counted(r) => \A i \in 1 .. ticket[r].count :
    \E s \in Requests : SameCounter(r, s) /\ ticket[s].count = i

CounterInv ==
  /\ CountsDistinct
  /\ TicketsInCounter
  /\ VerdictByCount
  /\ CounterDense
  /\ TicketDense

-----------------------------------------------------------------------------
(* Of the steps of Gateway, only three kinds matter to the tickets. *)

CountsAs(r, v) ==
  /\ pc[r] = "counting"
  /\ Increment(r, v)
  /\ UNCHANGED <<now, row, call, quota>>
  /\ v \in {"admitted", "blocked", "lost"}
  /\ v = "admitted" => Position(r) <= quota[r].allowed
  /\ v = "blocked" => Position(r) > quota[r].allowed

KeysKept ==
  \A r \in Requests : Counted(r) => call'[r] = call[r] /\ quota'[r] = quota[r]

Quiet == UNCHANGED <<counter, ticket>> /\ KeysKept

LEMMA StepKinds ==
  ASSUME TypeOK, [Next]_vars
  PROVE  \/ Quiet
         \/ RedisRestart
         \/ \E r \in Requests, v \in Verdicts : CountsAs(r, v)
<1>1. ASSUME NEW r \in Requests, Arrive(r) PROVE Quiet
  <2>1. ~Counted(r)
    BY <1>1 DEF TypeOK, PhaseInv, Arrive, ServeExempt, RejectUnknownKey,
                SelectClient
  <2>2. UNCHANGED <<counter, ticket>>
    BY <1>1 DEF Arrive, ServeExempt, RejectUnknownKey, SelectClient
  <2>3. \A s \in Requests : s # r => call'[s] = call[s] /\ quota'[s] = quota[s]
    BY <1>1 DEF Arrive, ServeExempt, RejectUnknownKey, SelectClient, Leave,
                TypeOK, Types
  <2>4. QED
    BY <2>1, <2>2, <2>3 DEF Quiet, KeysKept
<1>2. ASSUME NEW r \in Requests, SelectConfig(r) \/ BuildKey(r) PROVE Quiet
  <2>1. ~Counted(r)
    BY <1>2 DEF TypeOK, PhaseInv, SelectConfig, BuildKey
  <2>2. UNCHANGED <<counter, ticket, call>>
    BY <1>2 DEF SelectConfig, BuildKey
  <2>3. \A s \in Requests : s # r => quota'[s] = quota[s]
    BY <1>2 DEF SelectConfig, BuildKey, TypeOK, Types
  <2>4. QED
    BY <2>1, <2>2, <2>3 DEF Quiet, KeysKept
<1>3. ASSUME NEW r \in Requests,
             RejectInactive(r) \/ DatabaseFails(r) \/ RedisUnreachable(r)
      PROVE  Quiet
  <2>1. ~Counted(r)
    BY <1>3 DEF TypeOK, PhaseInv, RejectInactive, DatabaseFails,
                RedisUnreachable
  <2>2. UNCHANGED <<counter, ticket>>
    BY <1>3 DEF RejectInactive, DatabaseFails, RedisUnreachable
  <2>3. \A s \in Requests : s # r => call'[s] = call[s] /\ quota'[s] = quota[s]
    BY <1>3 DEF RejectInactive, DatabaseFails, RedisUnreachable, Leave,
                TypeOK, Types
  <2>4. QED
    BY <2>1, <2>2, <2>3 DEF Quiet, KeysKept
<1>4. ASSUME NEW r \in Requests, Serve(r) \/ HandlerRaises(r) PROVE Quiet
  BY <1>4 DEF Serve, ServeWith, HandlerRaises, Quiet, KeysKept
<1>5. ASSUME NEW r \in Requests, Admit(r) \/ Block(r) \/ RedisAnswerLost(r)
      PROVE  \E v \in Verdicts : CountsAs(r, v)
  <2>1. CASE Admit(r)
    BY <2>1 DEF Admit, CountsAs, Verdicts
  <2>2. CASE Block(r)
    BY <2>2 DEF Block, CountsAs, Verdicts
  <2>3. CASE RedisAnswerLost(r)
    BY <2>3 DEF RedisAnswerLost, CountsAs, Verdicts
  <2>4. QED
    BY <1>5, <2>1, <2>2, <2>3
<1>6. CASE \E t \in tasks : LogUsage(t) \/ LogUsageFails(t)
  BY <1>6 DEF LogUsage, LogUsageFails, Quiet, KeysKept
<1>7. CASE Admin \/ Tick \/ UNCHANGED vars
  BY <1>7 DEF Admin, SetActive, UpdateConfig, Tick, vars, Quiet, KeysKept
<1>8. CASE AppCrash
  BY <1>8 DEF AppCrash, Uncounted, Quiet, KeysKept, TypeOK, PhaseInv
<1>9. QED
  BY <1>1, <1>2, <1>3, <1>4, <1>5, <1>6, <1>7, <1>8
     DEF Next, Dispatch, RequestFault

\* A step that counts r gives it the next number of its key, or the first
\* number of a new incarnation, and gives no other request anything.
LEMMA CountStep ==
  ASSUME TypeOK, NEW r \in Requests, NEW v \in Verdicts, CountsAs(r, v)
  PROVE  /\ \A s \in Requests : Key(s)' = Key(s) /\ quota'[s] = quota[s]
         /\ \A s \in Requests : s # r => ticket'[s] = ticket[s]
         /\ ticket'[r] = [verdict |-> v, life |-> counter'[Key(r)].life,
                          count |-> counter'[Key(r)].count, at |-> now]
         /\ Key(r) \in Clients \X Times
         /\ counter'[Key(r)] = IncrExpire(counter[Key(r)], now, quota[r].window)
         /\ \A k \in Clients \X Times : k # Key(r) => counter'[k] = counter[k]
         /\ counter'[Key(r)].count = Position(r)
         /\ IF Alive(counter[Key(r)], now)
              THEN /\ counter'[Key(r)].life = counter[Key(r)].life
                   /\ counter'[Key(r)].count = counter[Key(r)].count + 1
              ELSE /\ counter'[Key(r)].life = counter[Key(r)].life + 1
                   /\ counter'[Key(r)].count = 1
<1>1. Key(r) \in Clients \X Times /\ counter[Key(r)] \in Counter
  BY KeyType DEF TypeOK, PhaseInv, CountsAs
<1>2. now \in Nat /\ quota[r].window \in Nat
  BY TimesNat DEF TypeOK, Types, Quotas
<1> DEFINE ctr == IncrExpire(counter[Key(r)], now, quota[r].window)
<1>3. /\ ctr.count = CurrentCount(counter[Key(r)], now) + 1
      /\ Alive(counter[Key(r)], now) => ctr.life = counter[Key(r)].life
                                  /\ ctr.count = counter[Key(r)].count + 1
      /\ ~Alive(counter[Key(r)], now) => ctr.life = counter[Key(r)].life + 1
                                   /\ ctr.count = 1
  BY <1>1, <1>2, IncrExpireResult
<1>4. /\ counter' = [counter EXCEPT ![Key(r)] = ctr]
      /\ ticket' = [ticket EXCEPT ![r] = [verdict |-> v, life |-> ctr.life,
                                          count |-> ctr.count, at |-> now]]
      /\ call' = call /\ quota' = quota
  BY DEF CountsAs, Increment
<1> HIDE DEF ctr
<1>5. counter'[Key(r)] = ctr
  BY <1>1, <1>4 DEF TypeOK, Types
<1>6. QED
  BY <1>1, <1>3, <1>4, <1>5 DEF TypeOK, Types, Key, Position, ctr
-----------------------------------------------------------------------------
LEMMA InitCounterInv == Init => CounterInv
  BY DEF Init, CounterInv, CountsDistinct, TicketsInCounter, VerdictByCount,
         CounterDense, TicketDense, NoCounter, NoTicket, Counted, Admitted,
         Blocked, SameCounter

\* Without a change of the tickets or the keys.
LEMMA QuietCounterInv ==
  ASSUME TypeOK, CounterInv, Quiet
  PROVE  CounterInv'
<1>1. \A r \in Requests : (Counted(r)' <=> Counted(r)) /\
        (Admitted(r)' <=> Admitted(r)) /\ (Blocked(r)' <=> Blocked(r))
  BY DEF Quiet, Counted, Admitted, Blocked
<1>2. \A r \in Requests : Counted(r) => Key(r)' = Key(r)
                                     /\ quota'[r] = quota[r]
  BY DEF Quiet, KeysKept, Key
<1>3. \A r, s \in Requests : SameCounter(r, s)' <=> SameCounter(r, s)
  BY <1>1, <1>2 DEF Quiet, SameCounter
<1>4. counter' = counter /\ ticket' = ticket
  BY DEF Quiet
<1>5. CountsDistinct'
  BY <1>3, <1>4 DEF CounterInv, CountsDistinct
<1>6. TicketsInCounter'
  BY <1>1, <1>2, <1>4 DEF CounterInv, TicketsInCounter
<1>7. VerdictByCount'
  BY <1>1, <1>2, <1>4 DEF CounterInv, VerdictByCount, Counted, Admitted, Blocked
<1>8. CounterDense'
  BY <1>1, <1>2, <1>4 DEF CounterInv, CounterDense
<1>9. TicketDense'
  BY <1>1, <1>3, <1>4 DEF CounterInv, TicketDense
<1>10. QED
  BY <1>5, <1>6, <1>7, <1>8, <1>9 DEF CounterInv

\* Redis forgetting its keys leaves their incarnations to the past.
LEMMA RestartCounterInv ==
  ASSUME TypeOK, CounterInv, RedisRestart
  PROVE  CounterInv'
<1>1. UNCHANGED <<call, quota, ticket>>
  BY DEF RedisRestart
<1>2. \A r \in Requests : Key(r)' = Key(r) /\ (Counted(r)' <=> Counted(r))
  BY <1>1 DEF Key, Counted
<1>3. \A k \in Clients \X Times :
        counter'[k].life = counter[k].life /\ counter'[k].count = 0
  BY DEF RedisRestart
<1>4. CountsDistinct' /\ VerdictByCount' /\ TicketDense'
  BY <1>1 DEF CounterInv, CountsDistinct, VerdictByCount, TicketDense,
              SameCounter, Counted, Admitted, Blocked, Key
<1>5. TicketsInCounter'
  <2>1. \A r \in Requests : Counted(r) => Key(r) \in Clients \X Times
    BY KeyType DEF TypeOK, PhaseInv
  <2>2. QED
    BY <1>1, <1>2, <1>3, <2>1 DEF CounterInv, TicketsInCounter
<1>6. CounterDense'
  BY <1>3 DEF CounterDense
<1>7. QED
  BY <1>4, <1>5, <1>6 DEF CounterInv

\* Redis executing the pipeline of a request.
LEMMA CountCounterInv ==
  ASSUME TypeOK, CounterInv, NEW r \in Requests, NEW v \in Verdicts,
         CountsAs(r, v)
  PROVE  CounterInv'
<1> DEFINE k == Key(r)
           n == counter'[k].count
           l == counter'[k].life
<1>1. /\ \A s \in Requests : Key(s)' = Key(s) /\ quota'[s] = quota[s]
      /\ \A s \in Requests : s # r => ticket'[s] = ticket[s]
      /\ ticket'[r].verdict = v /\ ticket'[r].life = l /\ ticket'[r].count = n
      /\ k \in Clients \X Times
      /\ \A j \in Clients \X Times : j # k => counter'[j] = counter[j]
      /\ n = Position(r)
  <2>1. ticket'[r] = [verdict |-> v, life |-> l, count |-> n, at |-> now]
    BY CountStep
  <2>2. ticket'[r].verdict = v /\ ticket'[r].life = l /\ ticket'[r].count = n
    <3> HIDE DEF l, n
    <3>1. QED
      BY <2>1
  <2>3. QED
    BY <2>2, CountStep
<1>2. /\ Alive(counter[k], now) => l = counter[k].life
                                   /\ n = counter[k].count + 1
      /\ ~Alive(counter[k], now) => l = counter[k].life + 1 /\ n = 1
  BY CountStep
<1>3. /\ counter[k].life \in Nat /\ counter[k].count \in Nat
      /\ \A s \in Requests : ticket[s].life \in Nat /\ ticket[s].count \in Nat
                             /\ quota[s].allowed \in Nat
  BY <1>1 DEF TypeOK, Types, Counter, Tickets, Quotas
<1>4. /\ ~Counted(r)
      /\ \A s \in Requests : Counted(s)' <=> Counted(s) \/ s = r
  BY <1>1 DEF TypeOK, PhaseInv, CountsAs, Counted
<1>5. l \in Nat /\ n \in Nat /\ n >= 1 /\ counter[k].life <= l
  BY <1>2, <1>3 DEF Alive
<1> DEFINE Other(s) == s \in Requests /\ s # r /\ Counted(s)
\* No earlier ticket of this incarnation has the number given now.
<1>6. \A s : Other(s) /\ Key(s) = k /\ ticket[s].life = l
               => ticket[s].count < n
  BY <1>2, <1>3 DEF CounterInv, TicketsInCounter, Alive
<1>7. \A s : Other(s) => Key(s) \in Clients \X Times
  BY KeyType DEF TypeOK, PhaseInv
<1> HIDE DEF l, n, k
<1>8. CountsDistinct'
  <2> SUFFICES ASSUME NEW s \in Requests, NEW t \in Requests, s # t,
                      SameCounter(s, t)'
               PROVE  ticket'[s].count # ticket'[t].count
    BY DEF CountsDistinct
  <2>1. CASE s = r
    BY <1>1, <1>3, <1>4, <1>5, <1>6, <2>1 DEF SameCounter, k
  <2>2. CASE t = r
    BY <1>1, <1>3, <1>4, <1>5, <1>6, <2>2 DEF SameCounter, k
  <2>3. CASE s # r /\ t # r
    BY <1>1, <1>4, <2>3 DEF SameCounter, CounterInv, CountsDistinct
  <2>4. QED
    BY <2>1, <2>2, <2>3
<1>9. TicketsInCounter'
  <2> SUFFICES ASSUME NEW s \in Requests, Counted(s)'
               PROVE  /\ ticket'[s].count >= 1
                      /\ ticket'[s].life <= counter'[Key(s)].life
                      /\ /\ ticket'[s].life = counter'[Key(s)].life
                         /\ counter'[Key(s)].count > 0
                         => ticket'[s].count <= counter'[Key(s)].count
    BY <1>1 DEF TicketsInCounter
  <2>1. CASE s = r
    BY <1>1, <1>5, <2>1 DEF k, l, n
  <2>2. CASE s # r /\ Key(s) = k
    <3>1. ticket'[s] = ticket[s] /\ Counted(s)
      BY <1>1, <1>4, <2>2
    <3>2. ticket[s].count >= 1 /\ ticket[s].life <= counter[k].life
      BY <2>2, <3>1 DEF CounterInv, TicketsInCounter
    <3>3. ticket[s].life = l => ticket[s].count < n
      BY <1>6, <2>2, <3>1
    <3>4. counter'[Key(s)].life = l /\ counter'[Key(s)].count = n
      BY <2>2 DEF k, l, n
    <3>5. QED
      BY <1>3, <1>5, <3>1, <3>2, <3>3, <3>4
  <2>3. CASE s # r /\ Key(s) # k
    <3>1. counter'[Key(s)] = counter[Key(s)]
      BY <1>1, <1>4, <1>7, <2>3
    <3>2. ticket'[s] = ticket[s] /\ Counted(s)
      BY <1>1, <1>4, <2>3
    <3>3. QED
      BY <3>1, <3>2 DEF CounterInv, TicketsInCounter
  <2>4. QED
    BY <2>1, <2>2, <2>3
<1>10. VerdictByCount'
  <2> SUFFICES ASSUME NEW s \in Requests
               PROVE  /\ Admitted(s)' => ticket'[s].count <= quota[s].allowed
                      /\ Blocked(s)' => ticket'[s].count > quota[s].allowed
    BY <1>1 DEF VerdictByCount
  <2>1. CASE s = r
    BY <1>1, <2>1 DEF CountsAs, Admitted, Blocked
  <2>2. CASE s # r
    BY <1>1, <2>2 DEF CounterInv, VerdictByCount, Admitted, Blocked
  <2>3. QED
    BY <2>1, <2>2
\* The numbers below n were given before, n is given now.
<1>11. \A i \in 1 .. n : \E s \in Requests :
         /\ Counted(s)' /\ Key(s)' = k
         /\ ticket'[s].life = l /\ ticket'[s].count = i
  <2> SUFFICES ASSUME NEW i \in 1 .. n
               PROVE  \E s \in Requests :
                        /\ Counted(s)' /\ Key(s)' = k
                        /\ ticket'[s].life = l /\ ticket'[s].count = i
    OBVIOUS
  <2>1. CASE i = n
    BY <1>1, <1>4, <2>1 DEF k
  <2>2. CASE i # n
    <3>1. /\ Alive(counter[k], now) /\ l = counter[k].life
          /\ i \in 1 .. counter[k].count
      BY <1>2, <1>3, <1>5, <2>2
    <3>2. PICK s \in Requests : Counted(s) /\ Key(s) = k
                 /\ ticket[s].life = counter[k].life /\ ticket[s].count = i
      BY <1>1, <3>1 DEF CounterInv, CounterDense
    <3>3. s # r
      BY <1>4, <3>2
    <3>4. QED
      BY <1>1, <1>4, <3>1, <3>2, <3>3
  <2>3. QED
    BY <2>1, <2>2
<1>12. CounterDense'
  <2> SUFFICES ASSUME NEW j \in Clients \X Times,
                      NEW i \in 1 .. counter'[j].count
               PROVE  \E s \in Requests :
                        /\ Counted(s)' /\ Key(s)' = j
                        /\ ticket'[s].life = counter'[j].life
                        /\ ticket'[s].count = i
    BY DEF CounterDense
  <2>1. CASE j = k
    BY <1>11, <2>1 DEF l, n
  <2>2. CASE j # k
    <3>1. PICK s \in Requests : Counted(s) /\ Key(s) = j
                 /\ ticket[s].life = counter[j].life /\ ticket[s].count = i
      BY <1>1, <2>2 DEF CounterInv, CounterDense
    <3>2. QED
      BY <1>1, <1>4, <2>2, <3>1
  <2>3. QED
    BY <2>1, <2>2
<1>13. TicketDense'
  <2> SUFFICES ASSUME NEW s \in Requests, Counted(s)',
                      NEW i \in 1 .. ticket'[s].count
               PROVE  \E t \in Requests :
                        SameCounter(s, t)' /\ ticket'[t].count = i
    BY DEF TicketDense
  <2>1. CASE s = r
    BY <1>1, <1>4, <1>11, <2>1 DEF SameCounter, k
  <2>2. CASE s # r
    <3>1. PICK t \in Requests : SameCounter(s, t) /\ ticket[t].count = i
      BY <1>1, <1>4, <2>2 DEF CounterInv, TicketDense
    <3>2. t # r /\ s # r
      BY <1>4, <2>2, <3>1 DEF SameCounter
    <3>3. QED
      BY <1>1, <1>4, <3>1, <3>2 DEF SameCounter
  <2>3. QED
    BY <2>1, <2>2
<1>14. QED
  BY <1>8, <1>9, <1>10, <1>12, <1>13 DEF CounterInv

LEMMA StepCounterInv ==
  TypeOK /\ CounterInv /\ [Next]_vars => CounterInv'
  BY StepKinds, QuietCounterInv, RestartCounterInv, CountCounterInv

LEMMA CounterInvInvariant == Spec => []CounterInv
<1>1. Spec => [](TypeOK /\ CounterInv)
  BY InitTypeInv, InitCounterInv, StepTypeInv, StepCounterInv, PTL DEF Spec
<1>2. QED
  BY <1>1, PTL
-----------------------------------------------------------------------------
\* Requests with distinct numbers from 1 to n are at most n.
LEMMA AtMost ==
  ASSUME NEW n \in Nat, NEW S \in SUBSET Requests, Types,
         \A s \in S : ticket[s].count \in 1 .. n,
         \A s, t \in S : s # t => ticket[s].count # ticket[t].count
  PROVE  Cardinality(S) <= n
<1> DEFINE f == [s \in S |-> ticket[s].count]
<1>1. f \in Injection(S, 1 .. n)
  BY DEF Injection, IsInjective
<1>2. IsFiniteSet(1 .. n) /\ Cardinality(1 .. n) = n
  BY FS_Interval
<1>3. QED
  BY <1>1, <1>2, FS_Injection

LEMMA CounterInvQuota == TypeOK /\ CounterInv => QuotaPerCounter
<1> SUFFICES ASSUME TypeOK, CounterInv, NEW r \in Requests, Admitted(r)
             PROVE  Cardinality({s \in Requests :
                       Admitted(s) /\ SameCounter(r, s)
                         /\ quota[s].allowed <= quota[r].allowed})
                    <= quota[r].allowed
  BY DEF QuotaPerCounter
<1> DEFINE S == {s \in Requests : Admitted(s) /\ SameCounter(r, s)
                                    /\ quota[s].allowed <= quota[r].allowed}
<1>1. quota[r].allowed \in Nat
      /\ \A s \in S : quota[s].allowed \in Nat /\ ticket[s].count \in Nat
  BY DEF TypeOK, Types, Quotas, Tickets
<1>2. \A s \in S : ticket[s].count \in 1 .. quota[r].allowed
  BY <1>1 DEF CounterInv, TicketsInCounter, VerdictByCount, SameCounter
<1>3. \A s, t \in S : s # t => ticket[s].count # ticket[t].count
  BY DEF CounterInv, CountsDistinct, SameCounter
<1>4. QED
  BY <1>1, <1>2, <1>3, AtMost DEF TypeOK

LEMMA CounterInvRefusal == TypeOK /\ CounterInv => RefusedOnlyWhenFull
<1> SUFFICES ASSUME TypeOK, CounterInv, NEW r \in Requests, Blocked(r),
                    NEW i \in 1 .. quota[r].allowed
             PROVE  \E s \in Requests :
                      /\ SameCounter(r, s)
                      /\ ticket[s].count = i
                      /\ Blocked(s) => quota[s].allowed < i
  BY DEF RefusedOnlyWhenFull
<1>1. /\ ticket[r].count > quota[r].allowed
      /\ quota[r].allowed \in Nat /\ ticket[r].count \in Nat
      /\ Counted(r)
  BY DEF CounterInv, VerdictByCount, TypeOK, Types, Quotas, Tickets, Counted,
         Blocked
<1>2. PICK s \in Requests : SameCounter(r, s) /\ ticket[s].count = i
  BY <1>1 DEF CounterInv, TicketDense
<1>3. Blocked(s) => quota[s].allowed < i
  BY <1>2 DEF CounterInv, VerdictByCount, TypeOK, Types, Quotas
<1>4. QED
  BY <1>2, <1>3

\* QuotaPerCounter for every number of requests and clients, all limits, and
\* any administrators, faults and delays.
THEOREM CounterQuota == Spec => []QuotaPerCounter
  BY TypeInvInvariant, CounterInvInvariant, CounterInvQuota, PTL

\* RefusedOnlyWhenFull, likewise.
THEOREM RefusalJustified == Spec => []RefusedOnlyWhenFull
  BY TypeInvInvariant, CounterInvInvariant, CounterInvRefusal, PTL
=============================================================================
