------------------------ MODULE GatewayOutcomeProofs ------------------------
(***************************************************************************)
(* What becomes of a request that was counted.                             *)
(*                                                                         *)
(* The request path implements WindowQuota: with limits left alone, Redis  *)
(* kept running and pipelines that run within a tick, a key lives as long  *)
(* as requests count in it, so its count up to the limit is the number of  *)
(* places taken in its window.  Its headers say what is left of the limit  *)
(* after it, and its row in api_usage is written once at most.             *)
(***************************************************************************)
EXTENDS GatewayWindowProofs, GatewayQuota

Prompt == FixedLimits /\ MaxLag <= 1

Outcomes == [r \in Requests |-> ticket[r].verdict]

AllInv == TypeOK /\ CounterInv /\ SetupInv /\ WindowInv

\* A pipeline that runs in its window finds the key alive, or never created:
\* the count always goes up by one.
LEMMA PromptCount ==
  ASSUME AllInv, Prompt, NEW r \in Requests, NEW v \in Verdicts, CountsAs(r, v)
  PROVE  /\ counter'[Key(r)].count = counter[Key(r)].count + 1
         /\ CurrentCount(counter[Key(r)], now) = counter[Key(r)].count
<1> DEFINE k == Key(r)
           old == counter[k]
           w == QuotaOf(k[1]).window
<1>1. k \in Clients \X Times /\ old \in Counter
  BY KeyType DEF AllInv, TypeOK, PhaseInv, CountsAs
<1>2. w \in Nat /\ k[2] \in Nat /\ now \in Nat /\ MaxLag \in Nat
  BY <1>1, QuotaOfType, TimesNat, BoundsType DEF AllInv, TypeOK, Types
<1>3. now <= End(k)
  <2>1. /\ now <= quota[r].deadline
        /\ quota[r].deadline < quota[r].bucket + quota[r].window + MaxLag
    BY DEF CountsAs, AllInv, SetupInv, Prompt
  <2>2. quota[r].deadline \in Nat
    BY DEF AllInv, TypeOK, Types, Quotas
  <2>3. quota[r].bucket = k[2] /\ quota[r].window = w
    BY DEF CountsAs, AllInv, SetupInv, Key, Prompt
  <2>4. End(k) = k[2] + w
    BY DEF End
  <2> HIDE DEF k, w
  <2>5. QED
    BY <1>2, <2>1, <2>2, <2>3, <2>4 DEF Prompt
<1>4. KeyLasts(k)
  BY <1>1 DEF AllInv, WindowInv, Prompt
<1>5. /\ old.life \in Nat /\ old.count \in Nat /\ old.expire \in Nat
  BY <1>1 DEF Counter
<1>6. End(k) \in Nat
  BY <1>2 DEF End
<1>7. /\ IF Alive(old, now) THEN counter'[k].count = old.count + 1
                            ELSE counter'[k].count = 1
  BY CountStep DEF AllInv
<1> HIDE DEF k
<1>8. Alive(old, now) \/ old.count = 0
  BY <1>2, <1>3, <1>4, <1>5, <1>6 DEF KeyLasts, Alive
<1>9. QED
  BY <1>5, <1>7, <1>8 DEF CurrentCount, Alive, k

LEMMA InitPromise == Init => Promise!Init
<1> SUFFICES ASSUME Init PROVE Promise!Init
  OBVIOUS
<1>1. \A k \in Clients \X Times :
        counter[k].count = 0 /\ QuotaOf(k[1]).allowed \in Nat
  BY QuotaOfType DEF Init, NoCounter
<1>2. PlacesTaken = [k \in Clients \X Times |-> 0]
  BY <1>1 DEF PlacesTaken
<1>3. Outcomes = [r \in Requests |-> "none"]
  BY DEF Init, Outcomes, NoTicket
<1>4. QED
  BY <1>2, <1>3 DEF Promise!Init, Outcomes

\* A step that counts a request is the step of the abstract limiter that
\* gives it its verdict.
LEMMA CountPromise ==
  ASSUME AllInv, Prompt, NEW r \in Requests, NEW v \in Verdicts, CountsAs(r, v)
  PROVE  Promise!Next
<1> DEFINE k == Key(r)
           L == QuotaOf(k[1]).allowed
           n == counter[k].count
<1>1. k \in Clients \X Times
  BY KeyType DEF AllInv, TypeOK, PhaseInv, CountsAs
<1>2. L \in Nat /\ n \in Nat
  BY <1>1, QuotaOfType DEF AllInv, TypeOK, Types, Counter
<1>3. counter'[k].count = n + 1 /\ Position(r) = n + 1
  BY PromptCount DEF Position
<1>4. quota[r].allowed = L
  BY DEF AllInv, SetupInv, Prompt, CountsAs, Key
<1>5. \A j \in Clients \X Times : j # k => counter'[j] = counter[j]
  BY CountStep DEF AllInv
<1>6. /\ ticket[r].verdict = "none"
      /\ ticket'[r].verdict = v
      /\ \A s \in Requests : s # r => ticket'[s] = ticket[s]
  <2>1. ticket[r].verdict = "none"
    BY DEF AllInv, TypeOK, PhaseInv, Counted, CountsAs
  <2>2. QED
    BY <2>1, IncrementType DEF AllInv, CountsAs
<1>7. Promise!Decide(r, v)
  BY <1>6 DEF Promise!Decide
<1>8. PlacesTaken[k] = IF n <= L THEN n ELSE L
  BY <1>1 DEF PlacesTaken
<1>9. Promise!Free(k) <=> n < L
  BY <1>1, <1>2, <1>8 DEF Promise!Free
<1> HIDE DEF k
<1>10. n < L => Promise!Take(k)
  <2> SUFFICES ASSUME n < L
               PROVE  PlacesTaken' = [PlacesTaken EXCEPT ![k] = @ + 1]
    BY DEF Promise!Take
  <2> DEFINE After == [j \in Clients \X Times |->
                         IF j = k THEN n + 1 ELSE PlacesTaken[j]]
  <2>1. PlacesTaken[k] = n
    BY <1>2, <1>8
  <2>2. PlacesTaken' = After
    BY <1>1, <1>2, <1>3, <1>5 DEF PlacesTaken
  <2>3. [PlacesTaken EXCEPT ![k] = PlacesTaken[k] + 1] = After
    <3>1. DOMAIN PlacesTaken = Clients \X Times
          /\ PlacesTaken = [j \in Clients \X Times |-> PlacesTaken[j]]
      BY DEF PlacesTaken
    <3> HIDE DEF n
    <3>2. QED
      BY <2>1, <3>1
  <2>4. QED
    BY <2>2, <2>3
<1>11. n >= L => PlacesTaken' = PlacesTaken
  BY <1>1, <1>2, <1>3, <1>5 DEF PlacesTaken
<1>12. CASE v = "admitted"
  <2>1. n < L
    BY <1>2, <1>3, <1>4, <1>12 DEF CountsAs
  <2>2. Promise!Grant(r, k)
    BY <1>7, <1>9, <1>10, <1>12, <2>1 DEF Promise!Grant
  <2>3. QED
    BY <1>1, <2>2 DEF Promise!Next
<1>13. CASE v = "blocked"
  <2>1. n >= L
    BY <1>2, <1>3, <1>4, <1>13 DEF CountsAs
  <2>2. Promise!Refuse(r, k)
    BY <1>2, <1>7, <1>9, <1>11, <1>13, <2>1 DEF Promise!Refuse
  <2>3. QED
    BY <1>1, <2>2 DEF Promise!Next
<1>14. CASE v = "lost"
  <2>1. Promise!Lose(r, k)
    BY <1>2, <1>7, <1>9, <1>10, <1>11, <1>14 DEF Promise!Lose
  <2>2. QED
    BY <1>1, <2>1 DEF Promise!Next
<1>15. QED
  BY <1>12, <1>13, <1>14 DEF CountsAs

LEMMA StepPromise ==
  AllInv /\ Prompt /\ [Next]_vars => [Promise!Next]_<<PlacesTaken, Outcomes>>
<1> SUFFICES ASSUME AllInv, Prompt, [Next]_vars
             PROVE  [Promise!Next]_<<PlacesTaken, Outcomes>>
  OBVIOUS
<1>1. CASE Quiet
  BY <1>1 DEF Quiet, PlacesTaken, Outcomes
<1>2. CASE RedisRestart
  BY <1>2 DEF RedisRestart, Prompt, FixedLimits
<1>3. CASE \E r \in Requests, v \in Verdicts : CountsAs(r, v)
  BY <1>3, CountPromise
<1>4. QED
  BY <1>1, <1>2, <1>3, StepKinds DEF AllInv

\* KeepsPromise for all limits and windows and any number of requests: every
\* step of the request path is a step of WindowQuota or changes nothing there.
THEOREM PromiseKept == FixedLimits /\ MaxLag <= 1 => (Spec => KeepsPromise)
<1> SUFFICES ASSUME Prompt PROVE Spec => KeepsPromise
  BY DEF Prompt
<1>1. AllInv /\ [Next]_vars => [Promise!Next]_<<PlacesTaken, Outcomes>>
  BY StepPromise
<1>2. Spec => []AllInv
  BY WindowInvInvariant, PTL DEF AllInv
<1>3. Spec => Promise!Init /\ [][Promise!Next]_<<PlacesTaken, Outcomes>>
  BY <1>1, <1>2, InitPromise, PTL DEF Spec
<1>4. QED
  BY <1>3, PTL DEF KeepsPromise, Promise!Spec, Outcomes
-----------------------------------------------------------------------------
(* Headers. *)

\* Only an answer carries headers; those of an admitted request say what its
\* own ticket left of the limit.
HeaderInv ==
  \A r \in Requests :
    /\ pc[r] # "done" => reply[r].headers = NoHeaders
    /\ Admitted(r) /\ reply[r].headers # NoHeaders =>
         reply[r].headers.remaining = Max0(quota[r].allowed - ticket[r].count)
    /\ "redis" \notin Faults => ticket[r].verdict # "lost"

LEMMA InitHeaderInv == Init => HeaderInv
  BY DEF Init, HeaderInv, NoReply, NoTicket

LEMMA StepHeaderInv == TypeOK /\ HeaderInv /\ [Next]_vars => HeaderInv'
<1> SUFFICES ASSUME TypeOK, HeaderInv, [Next]_vars PROVE HeaderInv'
  OBVIOUS
<1>1. ASSUME NEW s \in Requests, NEW v \in Verdicts, CountsAs(s, v),
             \/ reply' = reply
             \/ /\ v # "admitted" /\ pc'[s] = "done"
                /\ \A r \in Requests : r # s => reply'[r] = reply[r],
             v = "lost" => "redis" \in Faults,
             \A r \in Requests : r # s => pc'[r] = pc[r]
      PROVE  HeaderInv'
  <2> SUFFICES ASSUME NEW r \in Requests PROVE HeaderInv!(r)'
    BY DEF HeaderInv
  <2>1. quota' = quota /\ (r # s => ticket'[r] = ticket[r]) /\ ticket'[s].verdict = v
    BY <1>1, IncrementType DEF CountsAs
  <2>2. pc[s] = "counting"
    BY <1>1 DEF CountsAs
  <2>3. CASE r # s
    BY <1>1, <2>1, <2>3 DEF HeaderInv, Admitted
  <2>4. CASE r = s
    BY <1>1, <2>1, <2>2, <2>4 DEF HeaderInv, Admitted
  <2>5. QED
    BY <2>3, <2>4
<1>2. ASSUME NEW s \in Requests, Admit(s) \/ Block(s) \/ RedisAnswerLost(s)
      PROVE  HeaderInv'
  <2>1. CASE Admit(s)
    <3>1. CountsAs(s, "admitted") /\ reply' = reply
      BY <2>1 DEF Admit, CountsAs
    <3>2. QED
      BY <1>1, <2>1, <3>1 DEF Admit, Verdicts, TypeOK, Types
  <2>2. CASE Block(s)
    <3>1. CountsAs(s, "blocked")
      BY <2>2 DEF Block, CountsAs
    <3>2. QED
      BY <1>1, <2>2, <3>1 DEF Block, Answer, Verdicts, TypeOK, Types
  <2>3. CASE RedisAnswerLost(s)
    <3>1. CountsAs(s, "lost")
      BY <2>3 DEF RedisAnswerLost, CountsAs
    <3>2. QED
      BY <1>1, <2>3, <3>1 DEF RedisAnswerLost, Answer, Verdicts, TypeOK, Types
  <2>4. QED
    BY <1>2, <2>1, <2>2, <2>3
<1>3. ASSUME NEW s \in Requests, Arrive(s) \/ SelectConfig(s) \/ BuildKey(s)
                 \/ RejectInactive(s) \/ DatabaseFails(s) \/ RedisUnreachable(s)
      PROVE  HeaderInv'
  <2>1. ~Counted(s) /\ pc[s] # "done"
    BY <1>3 DEF TypeOK, PhaseInv, Arrive, ServeExempt, RejectUnknownKey,
                SelectClient, SelectConfig, BuildKey, RejectInactive,
                DatabaseFails, RedisUnreachable
  <2>2. /\ ticket' = ticket
        /\ \A r \in Requests : r # s =>
             /\ quota'[r] = quota[r] /\ pc'[r] = pc[r] /\ reply'[r] = reply[r]
        /\ reply'[s].headers = reply[s].headers \/ reply'[s].headers = NoHeaders
    BY <1>3 DEF Arrive, ServeExempt, RejectUnknownKey, SelectClient, SelectConfig,
                BuildKey, RejectInactive, DatabaseFails, RedisUnreachable, Leave,
                Answer, TypeOK, Types
  <2> SUFFICES ASSUME NEW r \in Requests PROVE HeaderInv!(r)'
    BY DEF HeaderInv
  <2>3. CASE r # s
    BY <2>2, <2>3 DEF HeaderInv, Admitted
  <2>4. CASE r = s
    BY <2>1, <2>2, <2>4 DEF HeaderInv, Admitted, Counted
  <2>5. QED
    BY <2>3, <2>4
<1>4. ASSUME NEW s \in Requests, Serve(s) PROVE HeaderInv'
  <2>1. /\ UNCHANGED <<ticket, quota>> /\ pc[s] = "handling"
        /\ pc'[s] = "done"
        /\ reply'[s].headers.remaining = Max0(quota[s].allowed - ticket[s].count)
        /\ \A r \in Requests : r # s => reply'[r] = reply[r] /\ pc'[r] = pc[r]
    BY <1>4 DEF Serve, ServeWith, Answer, Headers, TypeOK, Types
  <2>2. QED
    BY <2>1 DEF HeaderInv, Admitted
<1>5. ASSUME NEW s \in Requests, HandlerRaises(s) PROVE HeaderInv'
  <2>1. /\ UNCHANGED <<ticket, quota>> /\ reply'[s].headers = NoHeaders
        /\ \A r \in Requests : r # s => reply'[r] = reply[r] /\ pc'[r] = pc[r]
    BY <1>5 DEF HandlerRaises, Answer, TypeOK, Types
  <2>2. QED
    BY <2>1 DEF HeaderInv, Admitted
<1>6. CASE \/ \E t \in tasks : LogUsage(t) \/ LogUsageFails(t)
           \/ Admin \/ Tick \/ RedisRestart \/ UNCHANGED vars
  <2>1. UNCHANGED <<pc, quota, ticket, reply>>
    BY <1>6 DEF LogUsage, LogUsageFails, Admin, SetActive, UpdateConfig, Tick,
                RedisRestart, vars
  <2>2. QED
    BY <2>1 DEF HeaderInv, Admitted
<1>7. CASE AppCrash
  <2>1. /\ UNCHANGED <<ticket, reply>>
        /\ \A r \in Requests : /\ pc'[r] # "done" => pc[r] # "done"
                               /\ Admitted(r) => quota'[r] = quota[r]
    BY <1>7 DEF AppCrash, Uncounted, InFlight, TypeOK, Types, PhaseInv,
                Admitted, Counted
  <2>2. QED
    BY <2>1 DEF HeaderInv, Admitted
<1>8. QED
  BY <1>2, <1>3, <1>4, <1>5, <1>6, <1>7 DEF Next, Dispatch, RequestFault

LEMMA HeaderInvInvariant ==
  Spec => [](TypeOK /\ CounterInv /\ SetupInv /\ HeaderInv)
  BY WindowInvInvariant, InitHeaderInv, StepHeaderInv, PTL DEF Spec

\* The requests a counter admitted before an admitted one, itself included,
\* are as many as its ticket says: they have the numbers up to its own.
LEMMA AdmittedBefore ==
  ASSUME TypeOK, CounterInv, SetupInv, HeaderInv, FixedLimits,
         "redis" \notin Faults, NEW r \in Requests, Admitted(r)
  PROVE  Cardinality({s \in Requests : Admitted(s) /\ SameCounter(r, s)
                                        /\ ticket[s].count <= ticket[r].count})
         = ticket[r].count
<1> DEFINE n == ticket[r].count
           S == {s \in Requests : Admitted(s) /\ SameCounter(r, s)
                                   /\ ticket[s].count <= n}
           f == [s \in S |-> ticket[s].count]
<1>1. \A s \in Requests : ticket[s].count \in Nat /\ quota[s].allowed \in Nat
  BY DEF TypeOK, Types, Tickets, Quotas
<1>2. Counted(r) /\ n <= quota[r].allowed
  BY DEF Admitted, Counted, CounterInv, VerdictByCount
<1>3. \A s \in S : ticket[s].count \in 1 .. n
  BY <1>1 DEF CounterInv, TicketsInCounter, SameCounter
<1>4. \A s, t \in S : s # t => ticket[s].count # ticket[t].count
  BY DEF CounterInv, CountsDistinct, SameCounter
<1>5. ASSUME NEW i \in 1 .. n PROVE \E s \in S : ticket[s].count = i
  <2>1. PICK s \in Requests : SameCounter(r, s) /\ ticket[s].count = i
    BY <1>2 DEF CounterInv, TicketDense
  <2>2. Counted(s) /\ call[s].client = call[r].client
    BY <2>1 DEF SameCounter, Key
  <2>3. quota[s].allowed = quota[r].allowed
    BY <1>2, <2>2 DEF SetupInv
  <2>4. ~Blocked(s)
    BY <1>1, <1>2, <2>1, <2>3 DEF CounterInv, VerdictByCount
  <2>5. Admitted(s)
    BY <2>2, <2>4 DEF HeaderInv, Counted, Admitted, Blocked, TypeOK, Types,
                      Tickets, Verdicts
  <2>6. QED
    BY <1>1, <2>1, <2>5
<1>6. n \in Nat
  BY <1>1
<1> HIDE DEF n, S
<1>7. f \in Injection(S, 1 .. n) /\ f \in Surjection(S, 1 .. n)
  BY <1>3, <1>4, <1>5 DEF Injection, IsInjective, Surjection
<1>8. IsFiniteSet(1 .. n) /\ Cardinality(1 .. n) = n
  BY <1>6, FS_Interval
<1>9. Cardinality(S) = n
  BY <1>7, <1>8, FS_Injection
<1>10. QED
  BY <1>9 DEF S, n

\* RemainingIsHonest for all limits, any requests, and every fault but those
\* of Redis: X-RateLimit-Remaining is right however requests overtake.
THEOREM RemainingHonest == Spec => []RemainingIsHonest
<1>1. TypeOK /\ CounterInv /\ SetupInv /\ HeaderInv => RemainingIsHonest
  <2> SUFFICES ASSUME TypeOK, CounterInv, SetupInv, HeaderInv, FixedLimits,
                      "redis" \notin Faults, NEW r \in Requests, Admitted(r),
                      reply[r].headers # NoHeaders
               PROVE  reply[r].headers.remaining = quota[r].allowed -
                        Cardinality({s \in Requests : Admitted(s) /\ SameCounter(r, s)
                                        /\ ticket[s].count <= ticket[r].count})
    BY DEF RemainingIsHonest
  <2>1. ticket[r].count \in Nat /\ quota[r].allowed \in Nat
        /\ ticket[r].count <= quota[r].allowed
    BY DEF TypeOK, Types, Tickets, Quotas, CounterInv, VerdictByCount
  <2>2. reply[r].headers.remaining = quota[r].allowed - ticket[r].count
    BY <2>1 DEF HeaderInv, Max0
  <2>3. QED
    BY <2>2, AdmittedBefore
<1>2. QED
  BY <1>1, HeaderInvInvariant, PTL
-----------------------------------------------------------------------------
(* Usage rows. *)

\* A task belongs to a request that is answered, and tells its verdict.
TaskInv ==
  \A t \in tasks :
    /\ pc[t.req] = "done"
    /\ ticket[t.req].verdict = IF t.allowed THEN "admitted" ELSE "blocked"

Waiting(r) == pc[r] = "handling" \/ \E t \in tasks : t.req = r

\* The requests of a client with a verdict, those of them whose row is still
\* to be written, and the rows that were.
Ruled(c, v) == {r \in Requests : call[r].client = c /\ ticket[r].verdict = v}
Owed(c, v)  == {r \in Ruled(c, v) : Waiting(r)}
Written(c, v) == IF v = "admitted" THEN usage[c].allowed ELSE usage[c].blocked

Logs == {"admitted", "blocked"}

\* No exception between the verdict and its row, and no crash.
Lossless == Faults \intersect {"database", "handler", "crash"} = {}

Balanced(c, v) ==
  /\ Written(c, v) + Cardinality(Owed(c, v)) <= Cardinality(Ruled(c, v))
  /\ Lossless =>
       Written(c, v) + Cardinality(Owed(c, v)) = Cardinality(Ruled(c, v))

UsageInv == TaskInv /\ \A c \in Clients, v \in Logs : Balanced(c, v)

LEMMA FiniteOwed ==
  ASSUME NEW c, NEW v
  PROVE  /\ IsFiniteSet(Ruled(c, v)) /\ Cardinality(Ruled(c, v)) \in Nat
         /\ IsFiniteSet(Owed(c, v)) /\ Cardinality(Owed(c, v)) \in Nat
<1>1. Ruled(c, v) \in SUBSET Requests /\ Owed(c, v) \in SUBSET Requests
  BY DEF Ruled, Owed
<1>2. QED
  BY <1>1, RequestsFinite, FS_Subset, FS_CardinalityType

LEMMA WrittenType ==
  ASSUME TypeOK, NEW c \in Clients, NEW v PROVE Written(c, v) \in Nat
  BY DEF TypeOK, Types, Written

LEMMA InitUsageInv == Init => UsageInv
<1> SUFFICES ASSUME Init PROVE UsageInv
  OBVIOUS
<1>1. TaskInv
  BY DEF Init, TaskInv
<1>2. ASSUME NEW c \in Clients, NEW v \in Logs PROVE Balanced(c, v)
  <2>1. Ruled(c, v) = {} /\ Owed(c, v) = {}
    BY DEF Init, Ruled, Owed, Logs, NoTicket
  <2>2. Written(c, v) = 0
    BY DEF Init, Written
  <2>3. QED
    BY <2>1, <2>2, FS_EmptySet DEF Balanced
<1>3. QED
  BY <1>1, <1>2 DEF UsageInv

\* A step that gives no verdict and writes no row, and forgets nothing that is
\* to be written unless something fails.
Idle ==
  /\ UNCHANGED <<usage, ticket>>
  /\ \A r \in Requests : Counted(r) =>
       /\ call'[r] = call[r]
       /\ Waiting(r)' => Waiting(r)
       /\ Lossless /\ Waiting(r) => Waiting(r)'

LEMMA IdleBalanced ==
  ASSUME TypeOK, UsageInv, Idle, NEW c \in Clients, NEW v \in Logs
  PROVE  Balanced(c, v)'
<1>1. Ruled(c, v)' \subseteq Ruled(c, v)
  BY DEF Idle, Ruled, Counted, Logs
<1>2. Ruled(c, v) \subseteq Ruled(c, v)'
  BY DEF Idle, Ruled, Counted, Logs
<1>3. Owed(c, v)' \subseteq Owed(c, v)
  BY <1>1 DEF Idle, Owed, Ruled, Counted, Logs
<1>4. Lossless => Owed(c, v) \subseteq Owed(c, v)'
  BY <1>2 DEF Idle, Owed, Ruled, Counted, Logs
<1>5. Written(c, v)' = Written(c, v)
  BY DEF Idle, Written
<1>6. /\ Cardinality(Owed(c, v)') <= Cardinality(Owed(c, v))
      /\ Cardinality(Owed(c, v)') \in Nat
  <2>1. Owed(c, v)' \in SUBSET Owed(c, v)
    BY <1>3
  <2>2. QED
    BY <2>1, FiniteOwed, FS_Subset, FS_CardinalityType
<1>7. Balanced(c, v)
  BY DEF UsageInv
<1> HIDE DEF Lossless
<1>8. Ruled(c, v)' = Ruled(c, v) /\ (Lossless => Owed(c, v)' = Owed(c, v))
  BY <1>1, <1>2, <1>3, <1>4
<1>9. Lossless' <=> Lossless
  BY DEF Lossless
<1>10. QED
  BY <1>5, <1>6, <1>7, <1>8, <1>9, FiniteOwed, WrittenType DEF Balanced

LEMMA IdleUsageInv ==
  ASSUME TypeOK, UsageInv, Idle, TaskInv'
  PROVE  UsageInv'
  BY IdleBalanced DEF UsageInv

\* A request is given its verdict and goes to its handler or gets a task.
Ruling(r, v) ==
  /\ ~Counted(r) /\ v \in Logs
  /\ UNCHANGED <<usage, call>>
  /\ ticket'[r].verdict = v /\ Waiting(r)'
  /\ \A s \in Requests : s # r =>
       ticket'[s] = ticket[s] /\ (Waiting(s)' <=> Waiting(s))

LEMMA RulingUsageInv ==
  ASSUME TypeOK, UsageInv, TaskInv', NEW r \in Requests, NEW u, Ruling(r, u)
  PROVE  UsageInv'
<1> SUFFICES ASSUME NEW c \in Clients, NEW v \in Logs PROVE Balanced(c, v)'
  BY DEF UsageInv
<1>1. Balanced(c, v) /\ Written(c, v)' = Written(c, v)
  BY DEF UsageInv, Ruling, Written
<1>2. Lossless' <=> Lossless
  BY DEF Lossless
<1>3. r \notin Ruled(c, v) /\ r \notin Owed(c, v)
  BY DEF Ruling, Ruled, Owed, Counted, Logs
<1>4. CASE call[r].client = c /\ u = v
  <2>1. /\ Ruled(c, v)' = Ruled(c, v) \union {r}
        /\ Owed(c, v)' = Owed(c, v) \union {r}
    BY <1>4 DEF Ruling, Ruled, Owed
  <2>2. /\ Cardinality(Ruled(c, v)') = Cardinality(Ruled(c, v)) + 1
        /\ Cardinality(Owed(c, v)') = Cardinality(Owed(c, v)) + 1
    BY <1>3, <2>1, FiniteOwed, FS_AddElement
  <2> HIDE DEF Lossless
  <2>3. QED
    BY <1>1, <1>2, <2>2, FiniteOwed, WrittenType DEF Balanced
<1>5. CASE ~(call[r].client = c /\ u = v)
  <2>1. Ruled(c, v)' = Ruled(c, v) /\ Owed(c, v)' = Owed(c, v)
    BY <1>3, <1>5 DEF Ruling, Ruled, Owed
  <2>2. QED
    BY <1>1, <1>2, <2>1 DEF Balanced
<1>6. QED
  BY <1>4, <1>5

\* A task writes its row: one row more, one request less to be written.
LEMMA LogUsageInv ==
  ASSUME TypeOK, UsageInv, NEW t \in tasks, LogUsage(t)
  PROVE  UsageInv'
<1> DEFINE r == t.req
           u == ticket[r].verdict
           d == call[r].client
<1>1. /\ t \in [req : Requests, allowed : BOOLEAN] /\ r \in Requests
      /\ pc[r] = "done" /\ u = (IF t.allowed THEN "admitted" ELSE "blocked")
  BY DEF UsageInv, TaskInv, TypeOK, Types
<1>2. u \in Logs /\ d \in Clients
  BY <1>1 DEF Logs, TypeOK, PhaseInv, Counted
<1>3. /\ tasks' = tasks \ {t} /\ UNCHANGED <<pc, call, ticket>>
      /\ usage' = [usage EXCEPT ![d] = CountRow(usage[d], t.allowed)]
  BY DEF LogUsage
<1>4. TaskInv'
  BY <1>3 DEF UsageInv, TaskInv
\* The tasks of one request are one task.
<1>5. ~Waiting(r)'
  <2>1. ASSUME NEW s \in tasks, s.req = r PROVE s = t
    <3>1. s \in [req : Requests, allowed : BOOLEAN]
      BY DEF TypeOK, Types
    <3>2. ticket[r].verdict = (IF s.allowed THEN "admitted" ELSE "blocked")
      BY <2>1 DEF UsageInv, TaskInv
    <3>3. s.allowed = t.allowed
      BY <1>1, <3>1, <3>2
    <3>4. QED
      BY <1>1, <2>1, <3>1, <3>3
  <2>2. QED
    BY <1>1, <1>3, <2>1 DEF Waiting
<1>6. ASSUME NEW s \in Requests, s # r PROVE Waiting(s)' <=> Waiting(s)
  BY <1>3, <1>6 DEF Waiting
<1>7. Waiting(r)
  BY DEF Waiting
<1>8. ASSUME NEW c \in Clients, NEW v \in Logs PROVE Balanced(c, v)'
  <2>1. Balanced(c, v) /\ Ruled(c, v)' = Ruled(c, v)
    BY <1>3 DEF UsageInv, Ruled
  <2>2. Lossless' <=> Lossless
    BY DEF Lossless
  <2>3. CASE c = d /\ v = u
    <3>1. r \in Owed(c, v) /\ Owed(c, v)' = Owed(c, v) \ {r}
      BY <1>1, <1>3, <1>5, <1>6, <1>7, <2>1, <2>3 DEF Owed, Ruled
    <3>2. Cardinality(Owed(c, v)') = Cardinality(Owed(c, v)) - 1
      BY <3>1, FiniteOwed, FS_RemoveElement
    <3>3. Written(c, v)' = Written(c, v) + 1
      <4>1. usage'[c] = CountRow(usage[c], t.allowed) /\ usage[c] \in [allowed : Nat, blocked : Nat]
        BY <1>3, <2>3 DEF TypeOK, Types
      <4>2. t.allowed <=> v = "admitted"
        BY <1>1, <2>3
      <4>3. QED
        BY <4>1, <4>2 DEF Written, CountRow
    <3> HIDE DEF Lossless
    <3>4. QED
      BY <2>1, <2>2, <3>2, <3>3, FiniteOwed, WrittenType DEF Balanced
  <2>4. CASE ~(c = d /\ v = u)
    <3>1. r \notin Ruled(c, v)
      BY <2>4 DEF Ruled
    <3>2. Owed(c, v)' = Owed(c, v)
      BY <1>6, <2>1, <3>1 DEF Owed, Ruled
    <3>3. Written(c, v)' = Written(c, v)
      <4>1. CASE c # d
        BY <1>3, <4>1 DEF Written, TypeOK, Types
      <4>2. CASE c = d
        <5>1. usage'[c] = CountRow(usage[c], t.allowed) /\ usage[c] \in [allowed : Nat, blocked : Nat]
          BY <1>3, <4>2 DEF TypeOK, Types
        <5>2. t.allowed <=> v # "admitted"
          BY <1>1, <2>4, <4>2 DEF Logs
        <5>3. QED
          BY <5>1, <5>2 DEF Written, CountRow
      <4>3. QED
        BY <4>1, <4>2
    <3>4. QED
      BY <2>1, <2>2, <3>2, <3>3 DEF Balanced
  <2>5. QED
    BY <2>3, <2>4
<1>9. QED
  BY <1>4, <1>8 DEF UsageInv
-----------------------------------------------------------------------------
LEMMA StepUsageInv == TypeOK /\ UsageInv /\ [Next]_vars => UsageInv'
<1> SUFFICES ASSUME TypeOK, UsageInv, [Next]_vars PROVE UsageInv'
  OBVIOUS
<1> USE DEF UsageInv
<1>1. ASSUME NEW r \in Requests,
             \/ Arrive(r) \/ SelectConfig(r) \/ RejectInactive(r) \/ BuildKey(r)
             \/ DatabaseFails(r) \/ RedisUnreachable(r)
      PROVE  UsageInv'
  <2>1. ~Counted(r) /\ pc[r] \notin {"handling", "done"}
    BY <1>1 DEF TypeOK, PhaseInv, Arrive, ServeExempt, RejectUnknownKey,
                SelectClient, SelectConfig, RejectInactive, BuildKey,
                DatabaseFails, RedisUnreachable
  <2>2. /\ UNCHANGED <<usage, ticket, tasks>> /\ pc'[r] # "handling"
        /\ \A s \in Requests : s # r => pc'[s] = pc[s] /\ call'[s] = call[s]
    BY <1>1 DEF Arrive, ServeExempt, RejectUnknownKey, SelectClient, Leave,
                Answer, SelectConfig, RejectInactive, BuildKey, DatabaseFails,
                RedisUnreachable, TypeOK, Types
  <2>3. TaskInv'
    BY <2>1, <2>2 DEF TaskInv, TypeOK, Types
  <2>4. Idle
    BY <2>1, <2>2 DEF Idle, Waiting
  <2>5. QED
    BY <2>3, <2>4, IdleUsageInv
<1>2. ASSUME NEW r \in Requests, Admit(r) PROVE UsageInv'
  <2>1. /\ pc[r] = "counting" /\ ~Counted(r) /\ pc' = [pc EXCEPT ![r] = "handling"]
        /\ UNCHANGED <<usage, call, tasks>>
    BY <1>2 DEF Admit, TypeOK, PhaseInv
  <2>2. /\ ticket'[r].verdict = "admitted"
        /\ \A s \in Requests : s # r => ticket'[s] = ticket[s]
    BY <1>2, IncrementType DEF Admit, Verdicts
  <2>3. TaskInv'
    BY <2>1, <2>2 DEF TaskInv, TypeOK, Types
  <2>4. Ruling(r, "admitted")
    BY <2>1, <2>2 DEF Ruling, Waiting, Logs, TypeOK, Types
  <2>5. QED
    BY <2>3, <2>4, RulingUsageInv
<1>3. ASSUME NEW r \in Requests, Block(r) PROVE UsageInv'
  <2> DEFINE t == [req |-> r, allowed |-> FALSE]
  <2>1. /\ pc[r] = "counting" /\ ~Counted(r) /\ pc' = [pc EXCEPT ![r] = "done"]
        /\ UNCHANGED <<usage, call>> /\ tasks' = tasks \union {t}
    BY <1>3 DEF Block, Answer, TypeOK, PhaseInv
  <2>2. /\ ticket'[r].verdict = "blocked"
        /\ \A s \in Requests : s # r => ticket'[s] = ticket[s]
    BY <1>3, IncrementType DEF Block, Verdicts
  <2>3. TaskInv'
    <3> SUFFICES ASSUME NEW x \in tasks'
                 PROVE  /\ pc'[x.req] = "done"
                        /\ ticket'[x.req].verdict =
                             IF x.allowed THEN "admitted" ELSE "blocked"
      BY DEF TaskInv
    <3>1. CASE x = t
      BY <2>1, <2>2, <3>1 DEF TypeOK, Types
    <3>2. CASE x \in tasks
      BY <2>1, <2>2, <3>2 DEF TaskInv, TypeOK, Types
    <3>3. QED
      BY <2>1, <3>1, <3>2
  <2>4. Ruling(r, "blocked")
    <3>1. t.req = r
      OBVIOUS
    <3> HIDE DEF t
    <3>2. ASSUME NEW s \in Requests
          PROVE  (\E x \in tasks' : x.req = s) <=> s = r \/ \E x \in tasks : x.req = s
      BY <2>1, <3>1
    <3>3. QED
      BY <2>1, <2>2, <3>2 DEF Ruling, Waiting, Logs, TypeOK, Types
  <2>5. QED
    BY <2>3, <2>4, RulingUsageInv
<1>4. ASSUME NEW r \in Requests, RedisAnswerLost(r) PROVE UsageInv'
  <2>1. /\ pc[r] = "counting" /\ ~Counted(r) /\ pc' = [pc EXCEPT ![r] = "done"]
        /\ UNCHANGED <<usage, call, tasks>>
    BY <1>4 DEF RedisAnswerLost, Answer, TypeOK, PhaseInv
  <2>2. /\ ticket'[r].verdict = "lost"
        /\ \A s \in Requests : s # r => ticket'[s] = ticket[s]
    BY <1>4, IncrementType DEF RedisAnswerLost, Verdicts
  <2>3. TaskInv'
    BY <2>1, <2>2 DEF TaskInv, TypeOK, Types
  <2>4. \A s \in Requests : s # r => (Waiting(s)' <=> Waiting(s))
    BY <2>1 DEF Waiting, TypeOK, Types
  <2>5. ASSUME NEW c \in Clients, NEW v \in Logs PROVE Balanced(c, v)'
    <3>1. Ruled(c, v)' = Ruled(c, v)
      BY <2>1, <2>2 DEF Ruled, Logs, Counted
    <3>2. Owed(c, v)' = Owed(c, v)
      BY <2>1, <2>4, <3>1 DEF Owed, Ruled, Logs, Counted
    <3>3. Written(c, v)' = Written(c, v) /\ (Lossless' <=> Lossless)
      BY <2>1 DEF Written, Lossless
    <3>4. QED
      BY <3>1, <3>2, <3>3 DEF Balanced
  <2>6. QED
    BY <2>3, <2>5
<1>5. ASSUME NEW r \in Requests, Serve(r) PROVE UsageInv'
  <2> DEFINE t == [req |-> r, allowed |-> TRUE]
  <2>1. /\ pc[r] = "handling" /\ Admitted(r) /\ pc' = [pc EXCEPT ![r] = "done"]
        /\ UNCHANGED <<usage, call, ticket>> /\ tasks' = tasks \union {t}
    BY <1>5 DEF Serve, ServeWith, Answer, TypeOK, PhaseInv
  <2>2. TaskInv'
    <3> SUFFICES ASSUME NEW x \in tasks'
                 PROVE  /\ pc'[x.req] = "done"
                        /\ ticket'[x.req].verdict =
                             IF x.allowed THEN "admitted" ELSE "blocked"
      BY DEF TaskInv
    <3>1. CASE x = t
      BY <2>1, <3>1 DEF TypeOK, Types, Admitted
    <3>2. CASE x \in tasks
      BY <2>1, <3>2 DEF TaskInv, TypeOK, Types
    <3>3. QED
      BY <2>1, <3>1, <3>2
  <2>3. ASSUME NEW s \in Requests PROVE Waiting(s)' <=> Waiting(s)
    <3>1. t.req = r
      OBVIOUS
    <3> HIDE DEF t
    <3>2. (\E x \in tasks' : x.req = s) <=> s = r \/ \E x \in tasks : x.req = s
      BY <2>1, <3>1
    <3>3. QED
      BY <2>1, <3>2 DEF Waiting, TypeOK, Types
  <2>4. Idle
    BY <2>1, <2>3 DEF Idle
  <2>5. QED
    BY <2>2, <2>4, IdleUsageInv
<1>6. ASSUME NEW r \in Requests, HandlerRaises(r) PROVE UsageInv'
  <2>1. /\ pc' = [pc EXCEPT ![r] = "done"] /\ UNCHANGED <<usage, call, ticket, tasks>>
        /\ ~Lossless
    BY <1>6 DEF HandlerRaises, Answer, Lossless
  <2>2. TaskInv' /\ Idle
    BY <2>1 DEF TaskInv, Idle, Waiting, TypeOK, Types
  <2>3. QED
    BY <2>2, IdleUsageInv
<1>7. ASSUME NEW t \in tasks, LogUsage(t) PROVE UsageInv'
  BY <1>7, LogUsageInv
<1>8. ASSUME NEW t \in tasks, LogUsageFails(t) PROVE UsageInv'
  <2>1. tasks' = tasks \ {t} /\ UNCHANGED <<usage, call, ticket, pc>> /\ ~Lossless
    BY <1>8 DEF LogUsageFails, Lossless
  <2>2. TaskInv' /\ Idle
    BY <2>1 DEF TaskInv, Idle, Waiting
  <2>3. QED
    BY <2>2, IdleUsageInv
<1>9. CASE Admin \/ Tick \/ RedisRestart \/ UNCHANGED vars
  <2>1. UNCHANGED <<usage, call, ticket, pc, tasks>>
    BY <1>9 DEF Admin, SetActive, UpdateConfig, Tick, RedisRestart, vars
  <2>2. TaskInv' /\ Idle
    BY <2>1 DEF TaskInv, Idle, Waiting
  <2>3. QED
    BY <2>2, IdleUsageInv
<1>10. CASE AppCrash
  <2>1. tasks' = {} /\ UNCHANGED <<usage, ticket>> /\ ~Lossless
    BY <1>10 DEF AppCrash, Lossless
  <2>2. \A r \in Requests : pc'[r] # "handling" /\ (Counted(r) => call'[r] = call[r])
    BY <1>10 DEF AppCrash, InFlight, Uncounted, TypeOK, PhaseInv, Counted
  <2>3. TaskInv' /\ Idle
    BY <2>1, <2>2 DEF TaskInv, Idle, Waiting
  <2>4. QED
    BY <2>3, IdleUsageInv
<1>11. QED
  BY <1>1, <1>2, <1>3, <1>4, <1>5, <1>6, <1>7, <1>8, <1>9, <1>10
     DEF Next, Dispatch, RequestFault

LEMMA UsageInvInvariant == Spec => [](TypeOK /\ UsageInv)
  BY InitTypeInv, StepTypeInv, InitUsageInv, StepUsageInv, PTL DEF Spec

LEMMA RuledByVerdict ==
  ASSUME NEW c
  PROVE  /\ Ruled(c, "admitted") = {r \in RequestsOf(c) : Admitted(r)}
         /\ Ruled(c, "blocked") = {r \in RequestsOf(c) : Blocked(r)}
  BY DEF Ruled, RequestsOf, Admitted, Blocked

\* The tasks of a client are no more than the requests that wait for them.
LEMMA PendingOwed ==
  ASSUME TypeOK, TaskInv, NEW c, NEW a \in BOOLEAN
  PROVE  LET v == IF a THEN "admitted" ELSE "blocked" IN
         /\ Cardinality(Pending(c, a)) <= Cardinality(Owed(c, v))
         /\ Cardinality(Pending(c, a)) \in Nat
<1> DEFINE v == IF a THEN "admitted" ELSE "blocked"
           S == Pending(c, a)
           f == [t \in S |-> t.req]
<1>1. \A t \in S : t \in [req : Requests, allowed : BOOLEAN] /\ t.allowed = a
  BY DEF TypeOK, Types, Pending
<1>2. \A t \in S : t.req \in Owed(c, v)
  BY <1>1 DEF TaskInv, Owed, Ruled, Waiting, Pending
<1>3. \A s, t \in S : s.req = t.req => s = t
  BY <1>1
<1> HIDE DEF S, v
<1>4. f \in Injection(S, Owed(c, v))
  BY <1>2, <1>3 DEF Injection, IsInjective
<1>5. IsFiniteSet(S) /\ Cardinality(S) <= Cardinality(Owed(c, v))
  BY <1>4, FiniteOwed, FS_Injection
<1>6. QED
  BY <1>5, FS_CardinalityType DEF S, v

\* UsageNeverOvercounts for any number of requests, all faults and
\* administrators: no row and no task without a verdict of its own.
THEOREM UsageNotInvented == Spec => []UsageNeverOvercounts
<1>1. TypeOK /\ UsageInv => UsageNeverOvercounts
  <2> SUFFICES ASSUME TypeOK, UsageInv, NEW c \in Clients
               PROVE  /\ usage[c].allowed + Cardinality(Pending(c, TRUE))
                           <= Cardinality({r \in RequestsOf(c) : Admitted(r)})
                      /\ usage[c].blocked + Cardinality(Pending(c, FALSE))
                           <= Cardinality({r \in RequestsOf(c) : Blocked(r)})
    BY DEF UsageNeverOvercounts
  <2>1. /\ Written(c, "admitted") = usage[c].allowed
        /\ Written(c, "blocked") = usage[c].blocked
    BY DEF Written
  <2>2. /\ usage[c].allowed + Cardinality(Owed(c, "admitted"))
             <= Cardinality(Ruled(c, "admitted"))
        /\ usage[c].blocked + Cardinality(Owed(c, "blocked"))
             <= Cardinality(Ruled(c, "blocked"))
    BY <2>1 DEF UsageInv, Balanced, Logs
  <2> DEFINE P == Cardinality(Pending(c, TRUE))
             Q == Cardinality(Pending(c, FALSE))
  <2>3. P <= Cardinality(Owed(c, "admitted")) /\ P \in Nat
    BY PendingOwed, TRUE \in BOOLEAN DEF UsageInv
  <2>4. Q <= Cardinality(Owed(c, "blocked")) /\ Q \in Nat
    BY PendingOwed, FALSE \in BOOLEAN DEF UsageInv
  <2>5. usage[c].allowed \in Nat /\ usage[c].blocked \in Nat
    BY DEF TypeOK, Types
  <2>6. /\ Cardinality(Owed(c, "admitted")) \in Nat
        /\ Cardinality(Ruled(c, "admitted")) \in Nat
        /\ Cardinality(Owed(c, "blocked")) \in Nat
        /\ Cardinality(Ruled(c, "blocked")) \in Nat
    BY FiniteOwed
  <2> HIDE DEF P, Q
  <2>7. /\ usage[c].allowed + P <= Cardinality(Ruled(c, "admitted"))
        /\ usage[c].blocked + Q <= Cardinality(Ruled(c, "blocked"))
    BY <2>2, <2>3, <2>4, <2>5, <2>6
  <2>8. QED
    BY <2>7, RuledByVerdict DEF P, Q
<1>2. QED
  BY <1>1, UsageInvInvariant, PTL

\* OneRowPerRequest for any number of requests, provided that no handler and no
\* database statement raises and the process lives; Redis may fail as it likes.
THEOREM RowPerRequest == Lossless => (Spec => []OneRowPerRequest)
<1> SUFFICES ASSUME Lossless PROVE Spec => []OneRowPerRequest
  OBVIOUS
<1>1. TypeOK /\ UsageInv => OneRowPerRequest
  <2> SUFFICES ASSUME TypeOK, UsageInv, NEW c \in Clients, tasks = {},
                      \A r \in RequestsOf(c) : pc[r] = "done"
               PROVE  /\ usage[c].allowed =
                           Cardinality({r \in RequestsOf(c) : Admitted(r)})
                      /\ usage[c].blocked =
                           Cardinality({r \in RequestsOf(c) : Blocked(r)})
    BY DEF OneRowPerRequest
  <2>1. ASSUME NEW v \in Logs PROVE Written(c, v) = Cardinality(Ruled(c, v))
    <3>1. Owed(c, v) = {}
      BY DEF Owed, Ruled, Waiting, RequestsOf
    <3>2. Written(c, v) + Cardinality(Owed(c, v)) = Cardinality(Ruled(c, v))
      BY DEF UsageInv, Balanced
    <3>3. QED
      BY <3>1, <3>2, FS_EmptySet, WrittenType
  <2>2. QED
    BY <2>1, RuledByVerdict DEF Written, Logs
<1>2. QED
  BY <1>1, UsageInvInvariant, PTL
=============================================================================
