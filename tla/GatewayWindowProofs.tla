------------------------- MODULE GatewayWindowProofs -------------------------
(***************************************************************************)
(* What the counters make of a window when no administrator changes limits *)
(* and Redis keeps its keys.  Every INCR moves the expiry a whole window   *)
(* ahead of a clock that has reached the window, so a key lives at least   *)
(* to the tick in which its window has ended: until then it has a single   *)
(* incarnation, and the quota of that incarnation is the window's.         *)
(***************************************************************************)
EXTENDS GatewayProofs

End(k) == k[2] + QuotaOf(k[1]).window

\* Every request works with the limits its client has had all along, and its
\* pipeline runs after its window began, within the bound on delays.
SetupInv ==
  FixedLimits =>
    /\ \A c \in Clients : row[c].config = InitialRow[c].config
    /\ \A r \in Requests :
         pc[r] \in {"loaded", "counting", "handling"} \/ Counted(r) =>
           /\ quota[r].allowed = QuotaOf(call[r].client).allowed
           /\ quota[r].window = QuotaOf(call[r].client).window
    /\ \A r \in Requests : pc[r] = "counting" =>
         /\ quota[r].bucket <= now
         /\ now <= quota[r].deadline
         /\ quota[r].deadline < quota[r].bucket + quota[r].window + MaxLag

\* A key lives to the end of its window at least; a second incarnation begins
\* after that, and lives a window longer.
KeyLasts(k) ==
  /\ counter[k].life = 0 => counter[k].count = 0
  /\ counter[k].life >= 1 =>
       /\ counter[k].count > 0
       /\ counter[k].expire >= End(k)
       /\ counter[k].expire <= now + QuotaOf(k[1]).window
  /\ counter[k].life >= 2 =>
       /\ now > End(k)
       /\ counter[k].expire > End(k) + QuotaOf(k[1]).window
  /\ MaxLag <= QuotaOf(k[1]).window => counter[k].life <= 2

WindowInv ==
  FixedLimits =>
    /\ \A k \in Clients \X Times : KeyLasts(k)
    /\ \A r \in Requests : Counted(r) => ticket[r].life >= 1
    /\ \A r \in Requests : Counted(r) /\ InTime(r) => ticket[r].life = 1

LEMMA QuotaOfType ==
  ASSUME NEW c \in Clients
  PROVE  /\ QuotaOf(c).allowed \in Nat \ {0}
         /\ QuotaOf(c).window \in Nat \ {0}
<1>1. QuotaOf(c) \in Limits
  BY InitialRowType, PlanLimitsType DEF QuotaOf, Row
<1>2. QED
  BY <1>1 DEF Limits

LEMMA InitWindow == Init => SetupInv /\ WindowInv
<1> SUFFICES ASSUME Init PROVE SetupInv /\ WindowInv
  OBVIOUS
<1>1. SetupInv
  BY DEF Init, SetupInv, Counted, NoTicket
<1>2. \A k \in Clients \X Times : counter[k].life = 0 /\ counter[k].count = 0
  BY DEF Init, NoCounter
<1>3. \A k \in Clients \X Times : KeyLasts(k)
  BY <1>2 DEF KeyLasts
<1>4. \A r \in Requests : ~Counted(r)
  BY DEF Init, Counted, NoTicket
<1>5. QED
  BY <1>1, <1>3, <1>4 DEF WindowInv
-----------------------------------------------------------------------------
(* SetupInv: only SelectConfig and BuildKey set what it speaks of.          *)

SetupKept ==
  /\ row' = row
  /\ now' = now
  /\ \A r \in Requests :
       /\ Counted(r)' \/ pc'[r] \in {"loaded", "counting", "handling"}
            => /\ call'[r] = call[r] /\ quota'[r] = quota[r]
               /\ Counted(r) \/ pc[r] \in {"loaded", "counting", "handling"}
       /\ pc'[r] = "counting" => pc[r] = "counting"

LEMMA KeptSetupInv ==
  ASSUME SetupInv, SetupKept
  PROVE  SetupInv'
  BY DEF SetupInv, SetupKept

LEMMA SelectConfigSetupInv ==
  ASSUME TypeOK, SetupInv, FixedLimits, NEW r \in Requests, SelectConfig(r)
  PROVE  SetupInv'
<1>1. call[r].client \in Clients /\ ~Counted(r)
  BY DEF TypeOK, PhaseInv, SelectConfig
<1>2. EffectiveLimits(call[r].client) = QuotaOf(call[r].client)
  BY <1>1 DEF SetupInv, EffectiveLimits, QuotaOf
<1>3. /\ quota'[r].allowed = QuotaOf(call[r].client).allowed
      /\ quota'[r].window = QuotaOf(call[r].client).window
      /\ \A s \in Requests : s # r => quota'[s] = quota[s] /\ pc'[s] = pc[s]
      /\ pc'[r] = "loaded"
      /\ UNCHANGED <<now, row, call, ticket>>
  BY <1>2 DEF SelectConfig, TypeOK, Types
<1>4. QED
  BY <1>3 DEF SetupInv, Counted

LEMMA BuildKeySetupInv ==
  ASSUME TypeOK, SetupInv, FixedLimits, NEW r \in Requests, BuildKey(r)
  PROVE  SetupInv'
<1> DEFINE b == WindowBucket(now, quota[r].window)
<1>1. /\ now \in Nat /\ quota[r].window \in Nat \ {0}
  BY TimesNat DEF TypeOK, Types, PhaseInv, Positive, BuildKey, Quotas
<1>2. b \in Nat /\ b <= now /\ now < b + quota[r].window
  BY <1>1, BucketSpan
<1>3. /\ quota'[r].allowed = quota[r].allowed
      /\ quota'[r].window = quota[r].window
      /\ quota'[r].bucket = b
      /\ quota'[r].deadline = now + MaxLag
      /\ \A s \in Requests : s # r => quota'[s] = quota[s] /\ pc'[s] = pc[s]
      /\ pc[r] = "loaded" /\ pc'[r] = "counting"
      /\ UNCHANGED <<now, row, call, ticket>>
  BY DEF BuildKey, TypeOK, Types
<1> HIDE DEF b
<1>4. \A s \in Requests : pc'[s] = "counting" =>
         /\ quota'[s].bucket <= now
         /\ now <= quota'[s].deadline
         /\ quota'[s].deadline < quota'[s].bucket + quota'[s].window + MaxLag
  BY <1>1, <1>2, <1>3, BoundsType DEF SetupInv
<1>5. QED
  BY <1>3, <1>4 DEF SetupInv, Counted

LEMMA StepSetupInv == TypeOK /\ SetupInv /\ [Next]_vars => SetupInv'
<1> SUFFICES ASSUME TypeOK, SetupInv, [Next]_vars, FixedLimits
             PROVE  SetupInv'
  BY DEF SetupInv
<1>1. ASSUME NEW r \in Requests, Arrive(r) PROVE SetupKept
  BY <1>1 DEF Arrive, ServeExempt, RejectUnknownKey, SelectClient, Leave,
              Answer, SetupKept, TypeOK, Types, PhaseInv, Counted
<1>2. ASSUME NEW r \in Requests,
             RejectInactive(r) \/ DatabaseFails(r) \/ RedisUnreachable(r)
      PROVE  SetupKept
  BY <1>2 DEF RejectInactive, DatabaseFails, RedisUnreachable, Leave, Answer,
              SetupKept, TypeOK, Types, PhaseInv, Counted
<1>3. ASSUME NEW r \in Requests,
             Admit(r) \/ Block(r) \/ RedisAnswerLost(r)
      PROVE  SetupKept
  <2>1. pc[r] = "counting" /\ UNCHANGED <<now, row, call, quota>>
    BY <1>3 DEF Admit, Block, RedisAnswerLost
  <2>2. \A s \in Requests : s # r => ticket'[s] = ticket[s] /\ pc'[s] = pc[s]
    BY <1>3 DEF Admit, Block, RedisAnswerLost, Increment, Answer, TypeOK,
                Types
  <2>3. pc'[r] # "counting"
    BY <1>3 DEF Admit, Block, RedisAnswerLost, Answer, TypeOK, Types
  <2>4. QED
    BY <2>1, <2>2, <2>3 DEF SetupKept, Counted
<1>4. ASSUME NEW r \in Requests, Serve(r) \/ HandlerRaises(r) PROVE SetupKept
  BY <1>4 DEF Serve, ServeWith, HandlerRaises, Answer, SetupKept, TypeOK,
              Types, Counted
<1>5. CASE \E t \in tasks : LogUsage(t) \/ LogUsageFails(t)
  BY <1>5, KeptSetupInv DEF LogUsage, LogUsageFails, SetupKept, Counted
<1>6. CASE Admin
  <2>1. \E c \in Clients, a \in BOOLEAN :
          row' = [row EXCEPT ![c] = [active |-> a, config |-> row[c].config]]
    BY <1>6, AdminType DEF Admin, SetActive, FixedLimits
  <2>2. \A c \in Clients : row'[c].config = row[c].config
    BY <2>1 DEF TypeOK, Types
  <2>3. UNCHANGED <<now, pc, call, quota, ticket>>
    BY <1>6 DEF Admin, SetActive, UpdateConfig
  <2>4. QED
    BY <2>2, <2>3 DEF SetupInv, Counted
<1>7. CASE Tick
  <2>1. /\ now \in Nat /\ now' = now + 1
        /\ \A r \in Requests : quota[r].bucket \in Nat
                                 /\ quota[r].deadline \in Nat
    BY <1>7, TimesNat DEF Tick, TypeOK, Types, Quotas
  <2>2. QED
    BY <1>7, <2>1 DEF Tick, SetupInv, Counted
<1>8. CASE RedisRestart
  BY <1>8 DEF RedisRestart, FixedLimits
<1>9. CASE AppCrash
  BY <1>9, KeptSetupInv DEF AppCrash, InFlight, Uncounted, SetupKept, Counted,
                            TypeOK, PhaseInv
<1>10. CASE UNCHANGED vars
  BY <1>10, KeptSetupInv DEF vars, SetupKept, Counted
<1>11. QED
  BY <1>1, <1>2, <1>3, <1>4, <1>5, <1>6, <1>7, <1>8, <1>9, <1>10,
     KeptSetupInv, SelectConfigSetupInv, BuildKeySetupInv
     DEF Next, Dispatch, RequestFault
-----------------------------------------------------------------------------
(* WindowInv: the clock, and the steps that reach Redis.                    *)

LEMMA ClockStep ==
  ASSUME TypeOK, [Next]_vars
  PROVE  now \in Nat /\ now' \in Nat /\ now <= now'
<1>1. now \in Nat
  BY TimesNat DEF TypeOK, Types
<1>2. now' = now \/ now' = now + 1
  BY DEF Next, Arrive, ServeExempt, RejectUnknownKey, SelectClient, Dispatch,
         SelectConfig, RejectInactive, BuildKey, Admit, Block, Serve,
         ServeWith, RequestFault, DatabaseFails, RedisUnreachable,
         RedisAnswerLost, HandlerRaises, LogUsage, LogUsageFails, Admin,
         SetActive, UpdateConfig, Tick, RedisRestart, AppCrash, vars
<1>3. QED
  BY <1>1, <1>2

LEMMA QuietWindowInv ==
  ASSUME TypeOK, WindowInv, Quiet, now \in Nat, now' \in Nat, now <= now'
  PROVE  WindowInv'
<1> SUFFICES ASSUME FixedLimits PROVE WindowInv'
  BY DEF WindowInv
<1>1. \A k \in Clients \X Times : KeyLasts(k)'
  <2> SUFFICES ASSUME NEW k \in Clients \X Times PROVE KeyLasts(k)'
    OBVIOUS
  <2>1. counter[k] \in Counter /\ counter'[k] = counter[k] /\ KeyLasts(k)
    BY DEF TypeOK, Types, Quiet, WindowInv
  <2>2. QuotaOf(k[1]).window \in Nat /\ k[2] \in Nat
    BY QuotaOfType, TimesNat
  <2>3. QED
    BY <2>1, <2>2 DEF KeyLasts, End, Counter
<1>2. \A r \in Requests : /\ Counted(r)' <=> Counted(r)
                          /\ Counted(r) => (InTime(r)' <=> InTime(r))
                          /\ ticket'[r] = ticket[r]
  BY DEF Quiet, KeysKept, Counted, InTime
<1>3. QED
  BY <1>1, <1>2 DEF WindowInv

LEMMA CountWindowInv ==
  ASSUME TypeOK, SetupInv, WindowInv, NEW r \in Requests, NEW v \in Verdicts,
         CountsAs(r, v)
  PROVE  WindowInv'
<1> SUFFICES ASSUME FixedLimits PROVE WindowInv'
  BY DEF WindowInv
<1> DEFINE k == Key(r)
           w == QuotaOf(k[1]).window
           old == counter[k]
           new == counter'[k]
<1>1. k \in Clients \X Times /\ old \in Counter
  BY KeyType DEF TypeOK, PhaseInv, CountsAs
<1>2. w \in Nat \ {0} /\ k[2] \in Nat /\ now \in Nat /\ MaxLag \in Nat
  BY <1>1, QuotaOfType, TimesNat, BoundsType DEF TypeOK, Types
<1>3. k[2] = quota[r].bucket /\ w = quota[r].window
  BY DEF CountsAs, SetupInv, Key
<1>4. k[2] <= now /\ now < k[2] + w + MaxLag
  <2>1. /\ quota[r].bucket <= now /\ now <= quota[r].deadline
        /\ quota[r].deadline < quota[r].bucket + quota[r].window + MaxLag
    BY DEF CountsAs, SetupInv
  <2>2. quota[r].deadline \in Nat
    BY DEF TypeOK, Types, Quotas
  <2> HIDE DEF w, k
  <2>3. QED
    BY <1>2, <1>3, <2>1, <2>2
<1>5. new = IncrExpire(old, now, quota[r].window)
  BY CountStep
<1>6. /\ new.expire = now + w
      /\ Alive(old, now) => new.life = old.life /\ new.count = old.count + 1
      /\ ~Alive(old, now) => new.life = old.life + 1 /\ new.count = 1
  <2>1. quota[r].window \in Nat
    BY DEF TypeOK, Types, Quotas
  <2>2. new.expire = now + quota[r].window
    <3> HIDE DEF new, old
    <3>1. QED
      BY <1>1, <1>2, <1>5, <2>1, IncrExpireResult
  <2>3. /\ Alive(old, now) => new.life = old.life /\ new.count = old.count + 1
        /\ ~Alive(old, now) => new.life = old.life + 1 /\ new.count = 1
    BY CountStep
  <2>4. QED
    BY <1>3, <2>2, <2>3
<1>7. KeyLasts(k)
  BY <1>1 DEF WindowInv
<1> HIDE DEF w, new, old, k
<1>8. old.life \in Nat /\ old.count \in Nat /\ old.expire \in Nat
  BY <1>1 DEF Counter
<1>9. /\ new.life >= 1 /\ new.count > 0
      /\ new.expire >= k[2] + w
      /\ new.life >= 2 => now > k[2] + w /\ new.expire > k[2] + w + w
      /\ MaxLag <= w => new.life <= 2
  <2>1. /\ old.life = 0 => old.count = 0
        /\ old.life >= 1 => /\ old.count > 0
                            /\ old.expire >= k[2] + w
                            /\ old.expire <= now + w
        /\ old.life >= 2 => now > k[2] + w /\ old.expire > k[2] + w + w
        /\ MaxLag <= w => old.life <= 2
    BY <1>7 DEF KeyLasts, End, old, w
  <2>2. CASE Alive(old, now)
    <3>1. old.count > 0 /\ old.life >= 1
      BY <1>8, <2>1, <2>2 DEF Alive
    <3>2. QED
      BY <1>2, <1>4, <1>6, <1>8, <2>1, <2>2, <3>1
  <2>3. CASE ~Alive(old, now)
    <3>1. old.life >= 1 => now > k[2] + w
      BY <1>2, <1>8, <2>1, <2>3 DEF Alive
    <3>2. old.life >= 2 => now > k[2] + w + w
      BY <1>2, <1>8, <2>1, <2>3 DEF Alive
    <3>3. QED
      BY <1>2, <1>4, <1>6, <1>8, <2>1, <2>3, <3>1, <3>2
  <2>4. QED
    BY <2>2, <2>3
<1>10. \A j \in Clients \X Times : KeyLasts(j)'
  <2> SUFFICES ASSUME NEW j \in Clients \X Times PROVE KeyLasts(j)'
    OBVIOUS
  <2>1. now' = now
    BY DEF CountsAs
  <2>2. CASE j = k
    <3>1. /\ new.life \in Nat
          /\ new.life >= 1 /\ new.count > 0
          /\ new.expire >= End(k) /\ new.expire <= now + w
          /\ new.life >= 2 => now > End(k) /\ new.expire > End(k) + w
          /\ MaxLag <= w => new.life <= 2
      BY <1>2, <1>6, <1>8, <1>9 DEF End, w
    <3>2. QED
      BY <2>1, <2>2, <3>1 DEF KeyLasts, new, w
  <2>3. CASE j # k
    <3>1. counter'[j] = counter[j]
      BY <2>3, CountStep DEF k
    <3>2. KeyLasts(j)
      BY DEF WindowInv
    <3>3. QED
      BY <2>1, <3>1, <3>2 DEF KeyLasts
  <2>4. QED
    BY <2>2, <2>3
<1>11. \A s \in Requests : Counted(s)' =>
         /\ ticket'[s].life >= 1
         /\ InTime(s)' => ticket'[s].life = 1
  <2> SUFFICES ASSUME NEW s \in Requests, Counted(s)'
               PROVE  /\ ticket'[s].life >= 1
                      /\ InTime(s)' => ticket'[s].life = 1
    OBVIOUS
  <2>1. CASE s = r
    <3>1. ticket'[r] = [verdict |-> v, life |-> new.life,
                        count |-> new.count, at |-> now]
      BY CountStep DEF new, k
    <3>2. ticket'[r].life = new.life /\ ticket'[r].at = now
      BY <3>1
    <3>3. quota' = quota
      BY DEF CountsAs
    <3>4. InTime(r)' => now <= k[2] + w
      BY <1>3, <3>2, <3>3 DEF InTime
    <3>5. new.life \in Nat
      BY <1>6, <1>8
    <3>6. QED
      BY <1>2, <1>9, <2>1, <3>2, <3>4, <3>5
  <2>2. CASE s # r
    <3>1. ticket'[s] = ticket[s] /\ quota'[s] = quota[s]
      BY <2>2, CountStep
    <3>2. QED
      BY <3>1 DEF WindowInv, Counted, InTime
  <2>3. QED
    BY <2>1, <2>2
<1>12. QED
  BY <1>10, <1>11 DEF WindowInv

LEMMA StepWindowInv ==
  TypeOK /\ SetupInv /\ WindowInv /\ [Next]_vars => WindowInv'
<1> SUFFICES ASSUME TypeOK, SetupInv, WindowInv, [Next]_vars
             PROVE  WindowInv'
  OBVIOUS
<1>1. CASE Quiet
  BY <1>1, ClockStep, QuietWindowInv
<1>2. CASE RedisRestart
  BY <1>2 DEF RedisRestart, WindowInv, FixedLimits
<1>3. CASE \E r \in Requests, v \in Verdicts : CountsAs(r, v)
  BY <1>3, CountWindowInv
<1>4. QED
  BY <1>1, <1>2, <1>3, StepKinds

LEMMA WindowInvInvariant ==
  Spec => [](TypeOK /\ CounterInv /\ SetupInv /\ WindowInv)
  BY InitTypeInv, InitCounterInv, InitWindow, StepTypeInv, StepCounterInv,
     StepSetupInv, StepWindowInv, PTL DEF Spec
-----------------------------------------------------------------------------
\* An admitted request has a number within its client's quota.
LEMMA AdmittedNumber ==
  ASSUME TypeOK, CounterInv, SetupInv, FixedLimits,
         NEW r \in Requests, Admitted(r)
  PROVE  ticket[r].count \in 1 .. QuotaOf(call[r].client).allowed
<1>1. ticket[r].count \in Nat /\ quota[r].allowed \in Nat
  BY DEF TypeOK, Types, Tickets, Quotas
<1>2. Counted(r)
  BY DEF Admitted, Counted
<1>3. ticket[r].count >= 1 /\ ticket[r].count <= quota[r].allowed
  BY <1>2 DEF CounterInv, TicketsInCounter, VerdictByCount
<1>4. quota[r].allowed = QuotaOf(call[r].client).allowed
  BY <1>2 DEF SetupInv
<1>5. QED
  BY <1>1, <1>3, <1>4

LEMMA WindowInvQuota ==
  TypeOK /\ CounterInv /\ SetupInv /\ WindowInv => QuotaPerWindow
<1> SUFFICES ASSUME TypeOK, CounterInv, SetupInv, WindowInv, FixedLimits,
                    NEW c \in Clients, NEW b \in Times
             PROVE  Cardinality({r \in Requests :
                       Admitted(r) /\ Key(r) = <<c, b>> /\ InTime(r)})
                    <= QuotaOf(c).allowed
  BY DEF QuotaPerWindow
<1> DEFINE S == {r \in Requests :
                   Admitted(r) /\ Key(r) = <<c, b>> /\ InTime(r)}
<1>1. \A s \in S : ticket[s].count \in 1 .. QuotaOf(c).allowed
  BY AdmittedNumber DEF Key
<1>2. \A s \in S : Counted(s) /\ ticket[s].life = 1
  BY DEF WindowInv, Admitted, Counted
<1>3. \A s, t \in S : s # t => ticket[s].count # ticket[t].count
  BY <1>2 DEF CounterInv, CountsDistinct, SameCounter
<1>4. QuotaOf(c).allowed \in Nat
  BY QuotaOfType
<1>5. QED
  BY <1>1, <1>3, <1>4, AtMost DEF TypeOK

LEMMA WindowInvStale ==
  TypeOK /\ CounterInv /\ SetupInv /\ WindowInv => StaleKeyQuota
<1> SUFFICES ASSUME TypeOK, CounterInv, SetupInv, WindowInv, FixedLimits,
                    NEW c \in Clients, NEW b \in Times,
                    MaxLag <= QuotaOf(c).window
             PROVE  Cardinality({r \in Requests :
                       Admitted(r) /\ Key(r) = <<c, b>>})
                    <= 2 * QuotaOf(c).allowed
  BY DEF StaleKeyQuota
<1> DEFINE S == {r \in Requests : Admitted(r) /\ Key(r) = <<c, b>>}
           L == QuotaOf(c).allowed
           f == [s \in S |-> IF ticket[s].life = 1
                               THEN ticket[s].count ELSE L + ticket[s].count]
<1>1. L \in Nat
  BY QuotaOfType
<1>2. \A s \in S : ticket[s].count \in 1 .. L
  BY AdmittedNumber DEF Key
<1>3. \A s \in S : Counted(s) /\ (ticket[s].life = 1 \/ ticket[s].life = 2)
  <2> SUFFICES ASSUME NEW s \in S
               PROVE  Counted(s) /\ (ticket[s].life = 1 \/ ticket[s].life = 2)
    OBVIOUS
  <2>1. Counted(s)
    BY DEF Admitted, Counted
  <2>2. ticket[s].life \in Nat /\ counter[<<c, b>>].life \in Nat
    BY DEF TypeOK, Types, Tickets, Counter
  <2>3. ticket[s].life >= 1 /\ ticket[s].life <= counter[<<c, b>>].life
    BY <2>1 DEF WindowInv, CounterInv, TicketsInCounter
  <2>4. counter[<<c, b>>].life <= 2
    BY DEF WindowInv, KeyLasts
  <2>5. QED
    BY <2>1, <2>2, <2>3, <2>4
<1>4. \A s, t \in S : s # t /\ ticket[s].life = ticket[t].life
                        => ticket[s].count # ticket[t].count
  BY <1>3 DEF CounterInv, CountsDistinct, SameCounter
<1> HIDE DEF L, S
<1>5. \A s \in S : f[s] \in 1 .. 2 * L
  BY <1>1, <1>2
<1>6. \A s, t \in S : s # t => f[s] # f[t]
  <2> SUFFICES ASSUME NEW s \in S, NEW t \in S, s # t PROVE f[s] # f[t]
    OBVIOUS
  <2>1. ticket[s].count \in 1 .. L /\ ticket[t].count \in 1 .. L
    BY <1>2
  <2>2. CASE ticket[s].life = ticket[t].life
    BY <1>1, <1>4, <2>1, <2>2
  <2>3. CASE ticket[s].life # ticket[t].life
    BY <1>1, <1>3, <2>1, <2>3
  <2>4. QED
    BY <2>2, <2>3
<1>7. f \in Injection(S, 1 .. 2 * L)
  BY <1>5, <1>6 DEF Injection, IsInjective
<1>8. IsFiniteSet(1 .. 2 * L) /\ Cardinality(1 .. 2 * L) = 2 * L
  BY <1>1, FS_Interval
<1>9. Cardinality(S) <= 2 * L
  BY <1>7, <1>8, FS_Injection
<1>10. QED
  BY <1>9 DEF S, L

\* QuotaPerWindow for all limits and windows, any number of requests and any
\* delays, and with every fault but Redis losing its keys.
THEOREM WindowQuotaHolds == Spec => []QuotaPerWindow
  BY WindowInvInvariant, WindowInvQuota, PTL

\* StaleKeyQuota, likewise: a pipeline late by up to a window can double what
\* a key admits and do no more.
THEOREM StaleKeyBound == Spec => []StaleKeyQuota
  BY WindowInvInvariant, WindowInvStale, PTL
-----------------------------------------------------------------------------
(* No refunds: until its window ends, a live key stays alive.               *)

LEMMA StepNoRefund ==
  ASSUME TypeOK, WindowInv, [Next]_vars, FixedLimits,
         NEW c \in Clients, NEW b \in Times, now' <= b + QuotaOf(c).window
  PROVE  CurrentCount(counter'[<<c, b>>], now') >= CurrentCount(counter[<<c, b>>], now)
<1> DEFINE k == <<c, b>>
           old == counter[k]
           new == counter'[k]
<1>1. k \in Clients \X Times /\ old \in Counter
  BY DEF TypeOK, Types
<1>2. now \in Nat /\ now' \in Nat /\ now <= now'
  BY ClockStep
<1>3. QuotaOf(c).window \in Nat /\ b \in Nat
  BY QuotaOfType, TimesNat
<1>4. old.life \in Nat /\ old.count \in Nat /\ old.expire \in Nat
  BY <1>1 DEF Counter
<1>5. Alive(old, now) => old.expire >= b + QuotaOf(c).window
  <2>1. KeyLasts(k)
    BY <1>1 DEF WindowInv
  <2>2. old.count > 0 => old.expire >= End(k)
    BY <1>4, <2>1 DEF KeyLasts
  <2>3. End(k) = b + QuotaOf(c).window
    BY DEF End
  <2>4. QED
    BY <2>2, <2>3 DEF Alive
<1>6. CASE new = old
  <2> HIDE DEF old, new
  <2>1. Alive(old, now) => Alive(old, now')
    BY <1>2, <1>3, <1>4, <1>5 DEF Alive
  <2>2. CurrentCount(old, now') >= CurrentCount(old, now)
    BY <1>4, <2>1 DEF CurrentCount
  <2>3. QED
    BY <1>6, <2>2 DEF old, new, k
<1>7. ASSUME NEW r \in Requests, NEW v \in Verdicts, CountsAs(r, v), Key(r) = k
      PROVE  CurrentCount(new, now') >= CurrentCount(old, now)
  <2>1. new = IncrExpire(old, now, quota[r].window)
    BY <1>7, CountStep
  <2>2. quota[r].window \in Nat
    BY DEF TypeOK, Types, Quotas
  <2> HIDE DEF new, old, k
  <2>3. new.expire = now + quota[r].window /\ new.count = CurrentCount(old, now) + 1
    BY <1>1, <1>2, <2>1, <2>2, IncrExpireResult
  <2>4. CurrentCount(old, now) \in Nat
    BY <1>4 DEF CurrentCount
  <2>5. now' = now
    BY <1>7 DEF CountsAs
  <2>6. Alive(new, now')
    BY <1>2, <2>2, <2>3, <2>4, <2>5 DEF Alive
  <2>7. QED
    BY <2>3, <2>4, <2>6 DEF CurrentCount
<1>8. CASE Quiet
  BY <1>6, <1>8 DEF Quiet
<1>9. CASE RedisRestart
  BY <1>9 DEF RedisRestart, FixedLimits
<1>10. ASSUME NEW r \in Requests, NEW v \in Verdicts, CountsAs(r, v), Key(r) # k
       PROVE  CurrentCount(new, now') >= CurrentCount(old, now)
  BY <1>1, <1>6, <1>10, CountStep
<1>11. QED
  BY <1>7, <1>8, <1>9, <1>10, StepKinds

\* NoRefund: nothing check_and_increment counted is given back before its window
\* has ended, not even when the request is refused or fails later; for all
\* limits, any requests and any delays.
THEOREM NothingRefunded == Spec => NoRefund
<1> DEFINE Kept == FixedLimits => \A c \in Clients, b \in Times :
             now' <= b + QuotaOf(c).window =>
               CurrentCount(counter'[<<c, b>>], now') >= CurrentCount(counter[<<c, b>>], now)
<1>1. TypeOK /\ WindowInv /\ [Next]_vars => Kept
  BY StepNoRefund
<1>2. Spec => [][Kept]_vars
  BY <1>1, WindowInvInvariant, PTL DEF Spec
<1>3. QED
  BY <1>2 DEF NoRefund
-----------------------------------------------------------------------------
(* Bursts over a boundary. *)

\* Buckets are whole multiples of the window and begin before the pipeline runs.
BucketInv ==
  \A r \in Requests :
    /\ pc[r] = "counting" \/ Counted(r) =>
         \E m \in Nat : quota[r].bucket = m * quota[r].window
    /\ pc[r] = "counting" => quota[r].bucket <= now
    /\ Counted(r) => quota[r].bucket <= ticket[r].at

\* A request waits for Redis because it has just built its key, or it did
\* before this step.
LEMMA CountingStep ==
  ASSUME TypeOK, [Next]_vars, NEW r \in Requests, pc'[r] = "counting"
  PROVE  BuildKey(r) \/ (pc[r] = "counting" /\ quota'[r] = quota[r])
<1>1. CASE UNCHANGED vars
  BY <1>1 DEF vars
<1>2. ASSUME NEW s \in Requests, Arrive(s) \/ RequestFault(s)
      PROVE  pc[r] = "counting" /\ quota'[r] = quota[r]
  BY <1>2 DEF Arrive, ServeExempt, RejectUnknownKey, SelectClient, Leave,
              RequestFault, DatabaseFails, RedisUnreachable, RedisAnswerLost,
              HandlerRaises, Answer, TypeOK, Types
<1>3. ASSUME NEW s \in Requests, Dispatch(s)
      PROVE  BuildKey(r) \/ (pc[r] = "counting" /\ quota'[r] = quota[r])
  <2>1. CASE BuildKey(s)
    <3>1. s # r => pc'[r] = pc[r] /\ quota'[r] = quota[r]
      BY <2>1 DEF BuildKey, TypeOK, Types
    <3>2. QED
      BY <2>1, <3>1
  <2>2. CASE SelectConfig(s) \/ RejectInactive(s) \/ Admit(s) \/ Block(s) \/ Serve(s)
    BY <2>2 DEF SelectConfig, RejectInactive, Leave, Admit, Block, Serve,
                ServeWith, Answer, TypeOK, Types
  <2>3. QED
    BY <1>3, <2>1, <2>2 DEF Dispatch
<1>4. CASE Admin \/ Tick \/ RedisRestart \/ \E t \in tasks : LogUsage(t) \/ LogUsageFails(t)
  BY <1>4 DEF Admin, SetActive, UpdateConfig, Tick, RedisRestart, LogUsage,
              LogUsageFails
<1>5. CASE AppCrash
  BY <1>5 DEF AppCrash, InFlight, TypeOK, Types
<1>6. QED
  BY <1>1, <1>2, <1>3, <1>4, <1>5 DEF Next

\* A request with a ticket had it, with the same key, or gets it in this step.
LEMMA CountedStep ==
  ASSUME TypeOK, [Next]_vars, NEW r \in Requests, Counted(r)'
  PROVE  \/ /\ Counted(r) /\ ticket'[r] = ticket[r]
            /\ quota'[r] = quota[r] /\ call'[r] = call[r]
         \/ /\ pc[r] = "counting" /\ ticket'[r].at = now
            /\ quota'[r] = quota[r] /\ call'[r] = call[r]
<1>1. CASE Quiet
  BY <1>1 DEF Quiet, KeysKept, Counted
<1>2. CASE RedisRestart
  BY <1>2 DEF RedisRestart, Counted
<1>3. ASSUME NEW s \in Requests, NEW v \in Verdicts, CountsAs(s, v)
      PROVE  \/ /\ Counted(r) /\ ticket'[r] = ticket[r]
                /\ quota'[r] = quota[r] /\ call'[r] = call[r]
             \/ /\ pc[r] = "counting" /\ ticket'[r].at = now
                /\ quota'[r] = quota[r] /\ call'[r] = call[r]
  <2>1. UNCHANGED <<call, quota>>
    BY <1>3 DEF CountsAs
  <2>2. CASE r = s
    <3>1. ticket'[r] = [verdict |-> v, life |-> counter'[Key(r)].life,
                        count |-> counter'[Key(r)].count, at |-> now]
      BY <1>3, <2>2, CountStep
    <3>2. QED
      BY <1>3, <2>1, <2>2, <3>1 DEF CountsAs
  <2>3. CASE r # s
    BY <1>3, <2>1, <2>3, CountStep DEF Counted
  <2>4. QED
    BY <2>2, <2>3
<1>4. QED
  BY <1>1, <1>2, <1>3, StepKinds

LEMMA StepBucketInv == TypeOK /\ BucketInv /\ [Next]_vars => BucketInv'
<1> SUFFICES ASSUME TypeOK, BucketInv, [Next]_vars, NEW r \in Requests
             PROVE  BucketInv!(r)'
  BY DEF BucketInv
<1>1. now \in Nat /\ now' \in Nat /\ now <= now'
  BY ClockStep
<1>2. quota[r].bucket \in Nat
  BY TimesNat DEF TypeOK, Types, Quotas
<1>3. ASSUME pc'[r] = "counting"
      PROVE  /\ \E m \in Nat : quota'[r].bucket = m * quota'[r].window
             /\ quota'[r].bucket <= now'
  <2>1. CASE BuildKey(r)
    <3> DEFINE w == quota[r].window
    <3>1. w \in Nat \ {0}
      BY <2>1 DEF TypeOK, Types, PhaseInv, Positive, BuildKey, Quotas
    <3>2. now' = now /\ quota'[r].window = w /\ quota'[r].bucket = WindowBucket(now, w)
      BY <2>1 DEF BuildKey, TypeOK, Types
    <3> HIDE DEF w
    <3>3. WindowBucket(now, w) <= now
      BY <1>1, <3>1, BucketSpan
    <3>4. now \div w \in Nat /\ WindowBucket(now, w) = (now \div w) * w
      BY <1>1, <3>1 DEF WindowBucket
    <3>5. QED
      BY <3>2, <3>3, <3>4
  <2>2. CASE pc[r] = "counting" /\ quota'[r] = quota[r]
    BY <1>1, <1>2, <2>2 DEF BucketInv
  <2>3. QED
    BY <1>3, <2>1, <2>2, CountingStep
<1>4. ASSUME Counted(r)'
      PROVE  /\ \E m \in Nat : quota'[r].bucket = m * quota'[r].window
             /\ quota'[r].bucket <= ticket'[r].at
  BY <1>4, CountedStep DEF BucketInv
<1>5. QED
  BY <1>3, <1>4

LEMMA InitBucketInv == Init => BucketInv
  BY DEF Init, BucketInv, Counted, NoTicket

LEMMA BucketInvInvariant ==
  Spec => [](TypeOK /\ CounterInv /\ SetupInv /\ WindowInv /\ BucketInv)
  BY WindowInvInvariant, InitBucketInv, StepBucketInv, PTL DEF Spec

LEMMA MultipleBound ==
  ASSUME NEW a \in Int, NEW b \in Int, NEW w \in Nat \ {0}, a * w < b * w + w
  PROVE  a <= b
<1> SUFFICES ASSUME a > b PROVE FALSE
  OBVIOUS
<1> DEFINE d == a - b - 1
<1>1. d \in Nat /\ a = b + 1 + d
  OBVIOUS
<1>2. d * w \in Nat
  BY <1>1
<1>3. a * w = b * w + w + d * w
  BY <1>1
<1>4. QED
  BY <1>2, <1>3

\* A ticket is a window from the expiry of its key, or its key is gone since;
\* so two incarnations of one key count more than a window apart.
TicketExpiry(r) ==
  /\ ticket[r].at <= now
  /\ ticket[r].life = counter[Key(r)].life =>
       ticket[r].at + quota[r].window <= counter[Key(r)].expire
  /\ ticket[r].life < counter[Key(r)].life => ticket[r].at + quota[r].window < now

Apart ==
  \A r, s \in Requests :
    Counted(r) /\ Counted(s) /\ Key(r) = Key(s) /\ ticket[r].life < ticket[s].life
      => ticket[r].at + quota[r].window < ticket[s].at

ApartInv ==
  FixedLimits => Apart /\ \A r \in Requests : Counted(r) => TicketExpiry(r)

LEMMA CountApartInv ==
  ASSUME TypeOK, CounterInv, SetupInv, WindowInv, ApartInv, FixedLimits,
         NEW u \in Requests, NEW v \in Verdicts, CountsAs(u, v)
  PROVE  ApartInv'
<1> DEFINE old == counter[Key(u)]
           new == counter'[Key(u)]
           w == quota[u].window
<1>1. /\ Key(u) \in Clients \X Times /\ old \in Counter
      /\ now \in Nat /\ w \in Nat
      /\ \A r \in Requests : ticket[r].at \in Nat /\ ticket[r].life \in Nat
                               /\ quota[r].window \in Nat
  BY KeyType, TimesNat DEF TypeOK, Types, PhaseInv, CountsAs, Quotas, Tickets
<1>2. /\ now' = now /\ quota' = quota /\ \A r \in Requests : Key(r)' = Key(r)
      /\ \A r \in Requests : r # u => ticket'[r] = ticket[r]
      /\ ticket'[u].at = now /\ ticket'[u].life = new.life
      /\ \A k \in Clients \X Times : k # Key(u) => counter'[k] = counter[k]
  <2>1. now' = now /\ quota' = quota
    BY DEF CountsAs
  <2>2. /\ \A r \in Requests : Key(r)' = Key(r)
        /\ \A r \in Requests : r # u => ticket'[r] = ticket[r]
        /\ \A k \in Clients \X Times : k # Key(u) => counter'[k] = counter[k]
    BY CountStep
  <2>3. ticket'[u] = [verdict |-> v, life |-> new.life, count |-> new.count, at |-> now]
    BY CountStep
  <2>4. ticket'[u].at = now /\ ticket'[u].life = new.life
    BY <2>3
  <2>5. QED
    BY <2>1, <2>2, <2>4
<1>3. /\ new.expire = now + w
      /\ Alive(old, now) => new.life = old.life
      /\ ~Alive(old, now) => new.life = old.life + 1
  <2>1. new = IncrExpire(old, now, w)
    BY CountStep
  <2>2. QED
    <3> HIDE DEF new, old, w
    <3>1. QED
      BY <1>1, <2>1, IncrExpireResult
<1>4. \A r \in Requests : Counted(r) =>
         Key(r) \in Clients \X Times /\ ticket[r].life <= counter[Key(r)].life
  BY KeyType DEF TypeOK, PhaseInv, CounterInv, TicketsInCounter
<1>5. /\ ~Alive(old, now) /\ old.life >= 1 => old.expire < now
      /\ \A r \in Requests : Counted(r) => ticket[r].life >= 1
  <2>1. KeyLasts(Key(u)) /\ \A r \in Requests : Counted(r) => ticket[r].life >= 1
    BY <1>1 DEF WindowInv
  <2>2. old.expire \in Nat /\ old.count \in Nat
    BY <1>1 DEF Counter
  <2>3. QED
    BY <1>1, <2>1, <2>2 DEF KeyLasts, Alive
<1>6. old.life \in Nat /\ old.expire \in Nat
  BY <1>1 DEF Counter
<1> HIDE DEF old, new, w
\* Whoever counted in an earlier incarnation did so more than a window ago.
<1>7. \A r \in Requests : r # u /\ Counted(r) /\ Key(r) = Key(u) =>
         /\ ticket[r].at <= now
         /\ ticket[r].life <= new.life
         /\ ticket[r].life < new.life => ticket[r].at + quota[r].window < now
  <2> SUFFICES ASSUME NEW r \in Requests, r # u, Counted(r), Key(r) = Key(u)
               PROVE  /\ ticket[r].at <= now
                      /\ ticket[r].life <= new.life
                      /\ ticket[r].life < new.life =>
                           ticket[r].at + quota[r].window < now
    OBVIOUS
  <2>1. /\ ticket[r].at <= now /\ ticket[r].life <= old.life
        /\ ticket[r].life = old.life => ticket[r].at + quota[r].window <= old.expire
        /\ ticket[r].life < old.life => ticket[r].at + quota[r].window < now
        /\ ticket[r].life >= 1
    BY <1>4, <1>5 DEF ApartInv, TicketExpiry, old
  <2>2. CASE Alive(old, now)
    BY <1>1, <1>3, <1>6, <2>1, <2>2
  <2>3. CASE ~Alive(old, now)
    BY <1>1, <1>3, <1>5, <1>6, <2>1, <2>3
  <2>4. QED
    BY <2>2, <2>3
<1>8. \A r \in Requests : r # u => (Counted(r)' <=> Counted(r))
  BY <1>2 DEF Counted
<1>9. \A r \in Requests : Counted(r)' => TicketExpiry(r)'
  <2> SUFFICES ASSUME NEW r \in Requests, Counted(r)' PROVE TicketExpiry(r)'
    OBVIOUS
  <2>1. CASE r = u
    <3>1. counter'[Key(u)] = new /\ Key(u)' = Key(u)
      BY <1>2 DEF new
    <3>2. new.life \in Nat
      BY <1>3, <1>6
    <3>3. QED
      BY <1>1, <1>2, <1>3, <2>1, <3>1, <3>2 DEF TicketExpiry, w
  <2>2. CASE r # u /\ Key(r) = Key(u)
    <3>1. counter'[Key(r)'] = new
      BY <1>2, <2>2 DEF new
    <3>2. /\ ticket[r].at <= now
          /\ ticket[r].life < new.life => ticket[r].at + quota[r].window < now
      BY <1>7, <1>8, <2>2
    <3>3. ticket[r].life = new.life => ticket[r].at + quota[r].window <= new.expire
      <4>1. ticket[r].life <= old.life
        BY <1>4, <1>8, <2>2 DEF old
      <4>2. CASE Alive(old, now)
        <5>1. quota[r].window = w
          BY <1>8, <2>2 DEF SetupInv, CountsAs, Key, w
        <5>2. QED
          BY <1>1, <1>3, <3>2, <5>1
      <4>3. CASE ~Alive(old, now)
        BY <1>1, <1>3, <1>6, <4>1, <4>3
      <4>4. QED
        BY <4>2, <4>3
    <3>4. QED
      BY <1>2, <2>2, <3>1, <3>2, <3>3 DEF TicketExpiry
  <2>3. CASE r # u /\ Key(r) # Key(u)
    <3>1. counter'[Key(r)'] = counter[Key(r)]
      BY <1>2, <1>4, <1>8, <2>3
    <3>2. TicketExpiry(r)
      BY <1>8, <2>3 DEF ApartInv
    <3>3. QED
      BY <1>2, <2>3, <3>1, <3>2 DEF TicketExpiry
  <2>4. QED
    BY <2>1, <2>2, <2>3
<1>10. Apart'
  <2> SUFFICES ASSUME NEW r \in Requests, NEW s \in Requests, Counted(r)',
                      Counted(s)', Key(r)' = Key(s)',
                      ticket'[r].life < ticket'[s].life
               PROVE  ticket'[r].at + quota'[r].window < ticket'[s].at
    BY DEF Apart
  <2>1. CASE r # u /\ s # u
    BY <1>2, <1>8, <2>1 DEF ApartInv, Apart
  <2>2. CASE s = u
    <3>1. r # u
      BY <1>1, <1>2, <1>3, <1>6, <2>2
    <3>2. QED
      BY <1>2, <1>7, <1>8, <2>2, <3>1
  <2>3. CASE r = u /\ s # u
    <3>1. ticket[s].life <= new.life /\ ticket[s].life \in Nat /\ new.life \in Nat
      BY <1>1, <1>2, <1>3, <1>6, <1>7, <1>8, <2>3
    <3>2. QED
      BY <1>2, <2>3, <3>1
  <2>4. QED
    BY <2>1, <2>2, <2>3
<1>11. QED
  BY <1>9, <1>10 DEF ApartInv

LEMMA StepApartInv ==
  TypeOK /\ CounterInv /\ SetupInv /\ WindowInv /\ ApartInv /\ [Next]_vars => ApartInv'
<1> SUFFICES ASSUME TypeOK, CounterInv, SetupInv, WindowInv, ApartInv, [Next]_vars,
                    FixedLimits
             PROVE  ApartInv'
  BY DEF ApartInv
<1>1. CASE Quiet
  <2>1. \A r \in Requests : ticket[r].at \in Nat /\ quota[r].window \in Nat
    BY TimesNat DEF TypeOK, Types, Tickets, Quotas
  <2>2. UNCHANGED <<counter, ticket>> /\ \A r \in Requests :
           Counted(r) => Key(r)' = Key(r) /\ quota'[r] = quota[r]
    BY <1>1 DEF Quiet, KeysKept, Key
  <2>3. \A r \in Requests : Counted(r)' <=> Counted(r)
    BY <2>2 DEF Counted
  <2>4. now \in Nat /\ now' \in Nat /\ now <= now'
    BY ClockStep
  <2>5. \A r \in Requests : Counted(r)' => TicketExpiry(r)'
    <3> SUFFICES ASSUME NEW r \in Requests, Counted(r)' PROVE TicketExpiry(r)'
      OBVIOUS
    <3>1. TicketExpiry(r)
      BY <2>3 DEF ApartInv
    <3>2. Key(r)' = Key(r) /\ quota'[r] = quota[r] /\ ticket' = ticket /\ counter' = counter
      BY <2>2, <2>3
    <3>3. ticket[r].at \in Nat /\ quota[r].window \in Nat
      BY <2>1
    <3>4. QED
      BY <2>4, <3>1, <3>2, <3>3 DEF TicketExpiry
  <2>6. Apart'
    BY <2>2, <2>3 DEF ApartInv, Apart
  <2>7. QED
    BY <2>5, <2>6 DEF ApartInv
<1>2. CASE RedisRestart
  BY <1>2 DEF RedisRestart, FixedLimits
<1>3. CASE \E r \in Requests, v \in Verdicts : CountsAs(r, v)
  BY <1>3, CountApartInv
<1>4. QED
  BY <1>1, <1>2, <1>3, StepKinds

LEMMA InitApartInv == Init => ApartInv
  BY DEF Init, ApartInv, Apart, Counted, NoTicket

LEMMA ApartInvInvariant ==
  Spec => [](TypeOK /\ CounterInv /\ SetupInv /\ WindowInv /\ BucketInv /\ ApartInv)
  BY BucketInvInvariant, InitApartInv, StepApartInv, PTL DEF Spec
-----------------------------------------------------------------------------
\* A stretch of w ticks touches the window its last tick is in, the one before,
\* and one more for every w ticks that pipelines may be late.
LEMMA WindowsTouched ==
  ASSUME NEW w \in Nat \ {0}, NEW t \in Nat, NEW at \in Nat, NEW m \in Nat,
         NEW d \in Nat, at >= t, at <= t + w - 1, m * w <= at, at < m * w + w + d
  PROVE  (t + w - 1) \div w - m \in 0 .. (d + w - 2) \div w + 1
<1> DEFINE q == (t + w - 1) \div w
           p == (d + w - 2) \div w
           x == q * w
           y == m * w
           z == p * w
<1>1. q \in Nat /\ x <= t + w - 1 /\ t + w - 1 < x + w
  OBVIOUS
<1>2. p \in Int /\ z <= d + w - 2 /\ d + w - 2 < z + w
  OBVIOUS
<1>3. x \in Nat /\ y \in Nat /\ z \in Int
  BY <1>1, <1>2
<1>4. (m + p + 1) * w = y + z + w
  BY <1>2
<1>5. y < x + w
  BY <1>1, <1>3
<1>6. m <= q
  BY <1>1, <1>5, MultipleBound
<1>7. x < y + z + w + w
  BY <1>1, <1>2, <1>3
<1>8. q <= m + p + 1
  BY <1>1, <1>2, <1>4, <1>7, MultipleBound
<1> HIDE DEF q, p
<1>9. QED
  BY <1>1, <1>2, <1>6, <1>8 DEF q, p

\* Numbers of 1 .. L in different blocks of L differ.
LEMMA BlocksApart ==
  ASSUME NEW a \in Nat, NEW b \in Nat, NEW L \in Nat, a # b,
         NEW i \in 1 .. L, NEW j \in 1 .. L
  PROVE  a * L + i # b * L + j
<1>1. ASSUME NEW e \in Nat, NEW f \in Nat, NEW k \in 1 .. L, NEW l \in 1 .. L, e < f
      PROVE  e * L + k < f * L + l
  <2> DEFINE g == f - e - 1
  <2>1. g \in Nat /\ f = e + 1 + g
    BY <1>1
  <2>2. g * L \in Nat /\ e * L \in Nat
    BY <2>1
  <2>3. f * L = e * L + L + g * L
    BY <2>1
  <2>4. QED
    BY <2>2, <2>3
<1>2. a * L \in Nat /\ b * L \in Nat
  OBVIOUS
<1>3. CASE a < b
  BY <1>1, <1>2, <1>3
<1>4. CASE b < a
  BY <1>1, <1>2, <1>4
<1>5. QED
  BY <1>3, <1>4

\* A number of the first n blocks.
LEMMA BlockRange ==
  ASSUME NEW n \in Nat, NEW a \in 0 .. n - 1, NEW L \in Nat, NEW i \in 1 .. L
  PROVE  a * L + i \in 1 .. n * L
<1> DEFINE g == n - 1 - a
<1>1. g \in Nat /\ n = a + 1 + g
  OBVIOUS
<1>2. g * L \in Nat /\ a * L \in Nat
  BY <1>1
<1>3. n * L = a * L + L + g * L
  BY <1>1
<1>4. QED
  BY <1>2, <1>3

LEMMA BurstBounded ==
  TypeOK /\ CounterInv /\ SetupInv /\ WindowInv /\ BucketInv /\ ApartInv
    => BoundaryBurst
<1> SUFFICES ASSUME TypeOK, CounterInv, SetupInv, WindowInv, BucketInv, ApartInv,
                    FixedLimits, NEW c \in Clients, NEW t \in Times,
                    NEW d \in 0 .. MaxLag
             PROVE  LET w == QuotaOf(c).window IN
                    Cardinality({r \in Requests :
                      /\ Admitted(r) /\ call[r].client = c /\ RanWithin(r, d)
                      /\ ticket[r].at \in t .. t + w - 1})
                    <= (2 + (d + w - 2) \div w) * QuotaOf(c).allowed
  BY DEF BoundaryBurst
<1> DEFINE L == QuotaOf(c).allowed
           w == QuotaOf(c).window
           S == {r \in Requests :
                   /\ Admitted(r) /\ call[r].client = c /\ RanWithin(r, d)
                   /\ ticket[r].at \in t .. t + w - 1}
           q == (t + w - 1) \div w
           n == 2 + (d + w - 2) \div w
           m(s) == CHOOSE b \in Nat : quota[s].bucket = b * w
           f == [s \in S |-> (q - m(s)) * L + ticket[s].count]
<1>1. /\ L \in Nat /\ w \in Nat \ {0} /\ t \in Nat /\ d \in Nat
      /\ q \in Nat /\ n \in Nat
  <2>1. L \in Nat /\ w \in Nat \ {0} /\ t \in Nat /\ d \in Nat
    BY QuotaOfType, TimesNat, BoundsType
  <2> HIDE DEF w
  <2>2. q \in Nat
    BY <2>1
  <2>3. (d + w - 2) \div w >= -1
    <3>1. \A z \in Int : z * w = w * z
      BY <2>1
    <3> DEFINE z == (d + w - 2) \div w
    <3>2. z \in Int /\ d + w - 2 < z * w + w
      BY <2>1
    <3>3. (-1) * w = -w
      BY <2>1
    <3>4. (-1) * w < z * w + w
      <4>1. -w < d + w - 1
        BY <2>1
      <4>2. z * w \in Int
        BY <2>1, <3>2
      <4>3. QED
        BY <2>1, <3>2, <3>3, <4>1, <4>2
    <3> HIDE DEF z
    <3>5. -1 <= z
      BY <2>1, <3>2, <3>4, MultipleBound
    <3>6. QED
      BY <3>5 DEF z
  <2>4. QED
    BY <2>1, <2>2, <2>3
<1>2. \A s \in S : ticket[s].count \in 1 .. L
  BY AdmittedNumber
<1>3. \A s \in S : Counted(s) /\ quota[s].window = w
  BY DEF SetupInv, Admitted, Counted
<1>4. \A s \in S : m(s) \in Nat /\ quota[s].bucket = m(s) * w
  BY <1>3 DEF BucketInv
<1>5. \A s \in S : q - m(s) \in 0 .. n - 1
  <2> SUFFICES ASSUME NEW s \in S PROVE q - m(s) \in 0 .. n - 1
    OBVIOUS
  <2>1. /\ ticket[s].at \in Nat
        /\ ticket[s].at >= t /\ ticket[s].at <= t + w - 1
    BY <1>1, TimesNat DEF TypeOK, Types, Tickets
  <2>2. ticket[s].at < m(s) * w + w + d /\ m(s) * w <= ticket[s].at
    BY <1>3, <1>4 DEF BucketInv, RanWithin
  <2>3. m(s) \in Nat
    BY <1>4
  <2> HIDE DEF w, m
  <2>4. q - m(s) \in 0 .. (d + w - 2) \div w + 1
    BY <1>1, <2>1, <2>2, <2>3, WindowsTouched
  <2>5. n - 1 = (d + w - 2) \div w + 1
    BY <1>1
  <2>6. QED
    BY <2>4, <2>5
<1>6. \A s, u \in S : s # u /\ m(s) = m(u) => ticket[s].count # ticket[u].count
  <2> SUFFICES ASSUME NEW s \in S, NEW u \in S, s # u, m(s) = m(u)
               PROVE  ticket[s].count # ticket[u].count
    OBVIOUS
  <2>1. Key(s) = Key(u) /\ Counted(s) /\ Counted(u)
    BY <1>3, <1>4 DEF Key
  <2>2. /\ ticket[s].at \in Nat /\ ticket[u].at \in Nat
        /\ ticket[s].at >= t /\ ticket[s].at <= t + w - 1
        /\ ticket[u].at >= t /\ ticket[u].at <= t + w - 1
        /\ ticket[s].life \in Nat /\ ticket[u].life \in Nat
    BY <1>1, TimesNat DEF TypeOK, Types, Tickets
  <2>3. /\ ticket[s].life < ticket[u].life => ticket[s].at + w < ticket[u].at
        /\ ticket[u].life < ticket[s].life => ticket[u].at + w < ticket[s].at
    BY <1>3, <2>1 DEF ApartInv, Apart
  <2>4. w \in Nat \ {0} /\ t \in Nat
    BY <1>1
  <2>5. ticket[s].life = ticket[u].life
    <3> HIDE DEF S, w, m, q, n, L
    <3>1. QED
      BY <2>2, <2>3, <2>4
  <2>6. QED
    BY <2>1, <2>5 DEF CounterInv, CountsDistinct, SameCounter
<1> HIDE DEF L, S, q, w, n, m
<1>7. \A s \in S : f[s] \in 1 .. n * L
  BY <1>1, <1>2, <1>5, BlockRange
<1>8. \A s, u \in S : s # u => f[s] # f[u]
  <2> SUFFICES ASSUME NEW s \in S, NEW u \in S, s # u PROVE f[s] # f[u]
    OBVIOUS
  <2>1. /\ ticket[s].count \in 1 .. L /\ ticket[u].count \in 1 .. L
        /\ q - m(s) \in Nat /\ q - m(u) \in Nat
    BY <1>1, <1>2, <1>5
  <2>2. CASE m(s) = m(u)
    BY <1>1, <1>6, <2>1, <2>2
  <2>3. CASE m(s) # m(u)
    <3>1. q - m(s) # q - m(u)
      <4>1. q \in Nat /\ m(s) \in Nat /\ m(u) \in Nat
        BY <1>1, <1>4
      <4>2. QED
        BY <2>3, <4>1
    <3>2. QED
      BY <1>1, <2>1, <3>1, BlocksApart
  <2>4. QED
    BY <2>2, <2>3
<1>9. f \in Injection(S, 1 .. n * L)
  BY <1>7, <1>8 DEF Injection, IsInjective
<1>10. IsFiniteSet(1 .. n * L) /\ Cardinality(1 .. n * L) = n * L
  <2>1. n * L \in Nat
    BY <1>1
  <2>2. QED
    BY <2>1, FS_Interval
<1>11. Cardinality(S) <= n * L
  BY <1>9, <1>10, FS_Injection
<1>12. QED
  BY <1>11 DEF S, L, w, n

\* BoundaryBurst: what check_and_increment admits in any interval as long as a
\* window is at most twice the limit, wherever the boundary of two windows falls
\* in it, if pipelines run by the first tick after their window, and the limit
\* once more for every window they may be later than that; for all limits and
\* windows, any number of requests, and every fault but Redis losing its keys.
THEOREM BurstBound == Spec => []BoundaryBurst
  BY ApartInvInvariant, BurstBounded, PTL
=============================================================================
