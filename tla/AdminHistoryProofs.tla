------------------------- MODULE AdminHistoryProofs -------------------------
(***************************************************************************)
(* What the administrative requests leave behind, for any number of them:  *)
(* clients with their limits and two audit entries, one entry for every    *)
(* committed change, columns that somebody asked for, and settings that    *)
(* hold until somebody commits another one.                                *)
(*                                                                         *)
(* The invariant follows a request from what it has loaded (SeenInv) over  *)
(* what it has written and not committed (TxInv, LockInv) to what is       *)
(* committed (KnownInv and the properties themselves).  Entries of the     *)
(* audit log are counted along its prefixes.                               *)
(***************************************************************************)
EXTENDS ClientAdminProofs, FiniteSetTheorems

(* Counting entries of the audit log. *)

\* Those of the first n entries of a log that tell an action on a client.
Telling(s, n, i, a) == {m \in 1 .. n : s[m].client = i /\ s[m].action = a}

Tells(e, i, a) == IF e.client = i /\ e.action = a THEN 1 ELSE 0

LEMMA TellingFinite ==
  ASSUME NEW s, NEW n \in Nat, NEW i, NEW a
  PROVE  /\ IsFiniteSet(Telling(s, n, i, a))
         /\ Cardinality(Telling(s, n, i, a)) \in Nat
<1>1. IsFiniteSet(1 .. n) /\ Telling(s, n, i, a) \in SUBSET (1 .. n)
  BY FS_Interval DEF Telling
<1>2. QED
  BY <1>1, FS_Subset, FS_CardinalityType

LEMMA TellingNext ==
  ASSUME NEW s, NEW n \in Nat, NEW i, NEW a
  PROVE  Cardinality(Telling(s, n + 1, i, a)) =
           Cardinality(Telling(s, n, i, a)) + Tells(s[n + 1], i, a)
<1>1. n + 1 \notin Telling(s, n, i, a)
  BY DEF Telling
<1>2. CASE s[n + 1].client = i /\ s[n + 1].action = a
  <2>1. Telling(s, n + 1, i, a) = Telling(s, n, i, a) \union {n + 1}
    BY <1>2 DEF Telling
  <2>2. QED
    BY <1>1, <1>2, <2>1, TellingFinite, FS_AddElement DEF Tells
<1>3. CASE ~(s[n + 1].client = i /\ s[n + 1].action = a)
  <2>1. Telling(s, n + 1, i, a) = Telling(s, n, i, a)
    BY <1>3 DEF Telling
  <2>2. QED
    BY <1>3, <2>1, TellingFinite DEF Tells
<1>4. QED
  BY <1>2, <1>3

\* A log that goes on has the same beginning.
LEMMA TellingPrefix ==
  ASSUME NEW S, NEW s \in Seq(S), NEW u \in Seq(S), NEW i, NEW a
  PROVE  /\ Telling(s \o u, Len(s), i, a) = Telling(s, Len(s), i, a)
         /\ Len(s \o u) = Len(s) + Len(u) /\ Len(s) \in Nat
         /\ \A k \in 1 .. Len(u) : (s \o u)[Len(s) + k] = u[k]
<1> DEFINE t == s \o u
<1>1. /\ Len(s) \in Nat /\ Len(u) \in Nat /\ Len(t) = Len(s) + Len(u)
      /\ \A k \in 1 .. Len(s) : t[k] = s[k]
      /\ \A k \in 1 .. Len(u) : t[Len(s) + k] = u[k]
  OBVIOUS
<1> HIDE DEF t
<1>2. Telling(t, Len(s), i, a) = Telling(s, Len(s), i, a)
  BY <1>1 DEF Telling
<1>3. QED
  BY <1>1, <1>2 DEF t

LEMMA AppendOne ==
  ASSUME NEW S, NEW s \in Seq(S), NEW e \in S, NEW i, NEW a
  PROVE  Cardinality(Telling(s \o <<e>>, Len(s \o <<e>>), i, a)) =
           Cardinality(Telling(s, Len(s), i, a)) + Tells(e, i, a)
<1> DEFINE u == <<e>>
           t == s \o u
           n == Len(s)
<1>1. u \in Seq(S) /\ Len(u) = 1 /\ u[1] = e
  BY ShortSeq
<1> HIDE DEF u
<1>2. /\ n \in Nat /\ Len(t) = n + Len(u)
      /\ Telling(t, n, i, a) = Telling(s, n, i, a)
      /\ \A k \in 1 .. Len(u) : t[n + k] = u[k]
  BY <1>1, TellingPrefix
<1> HIDE DEF t, n
<1>3. Cardinality(Telling(t, n + 1, i, a)) =
        Cardinality(Telling(t, n, i, a)) + Tells(t[n + 1], i, a)
  BY <1>2, TellingNext
<1>4. QED
  BY <1>1, <1>2, <1>3 DEF t, u, n

LEMMA AppendTwo ==
  ASSUME NEW S, NEW s \in Seq(S), NEW d \in S, NEW e \in S, NEW i, NEW a
  PROVE  Cardinality(Telling(s \o <<d, e>>, Len(s \o <<d, e>>), i, a)) =
           Cardinality(Telling(s, Len(s), i, a)) + Tells(d, i, a) + Tells(e, i, a)
<1> DEFINE u == <<d, e>>
           t == s \o u
           n == Len(s)
<1>1. u \in Seq(S) /\ Len(u) = 2 /\ u[1] = d /\ u[2] = e
  BY ShortSeq
<1> HIDE DEF u
<1>2. /\ n \in Nat /\ Len(t) = n + Len(u)
      /\ Telling(t, n, i, a) = Telling(s, n, i, a)
      /\ \A k \in 1 .. Len(u) : t[n + k] = u[k]
  <2>1. u \in Seq(S)
    BY <1>1
  <2>2. QED
    BY <2>1, TellingPrefix
<1> HIDE DEF t, n
<1>3. Cardinality(Telling(t, n + 1, i, a)) =
        Cardinality(Telling(t, n, i, a)) + Tells(t[n + 1], i, a)
  BY <1>2, TellingNext
<1>4. Cardinality(Telling(t, n + 1 + 1, i, a)) =
        Cardinality(Telling(t, n + 1, i, a)) + Tells(t[n + 1 + 1], i, a)
  BY <1>2, TellingNext
<1>5. n + 1 + 1 = n + 2
  BY <1>2
<1>6. QED
  BY <1>1, <1>2, <1>3, <1>4, <1>5 DEF t, u, n

LEMMA RecordedTelling ==
  ASSUME TypeOK, NEW i, NEW a
  PROVE  /\ Recorded(i, a) = Cardinality(Telling(audit, Len(audit), i, a))
         /\ Recorded(i, a) \in Nat
         /\ audit' \in Seq(Entries) =>
              Recorded(i, a)' = Cardinality(Telling(audit', Len(audit'), i, a))
<1>1. \A s \in Seq(Entries) : Len(s) \in Nat /\ DOMAIN s = 1 .. Len(s)
  OBVIOUS
<1>2. audit \in Seq(Entries)
  BY DEF TypeOK
<1>3. Recorded(i, a) = Cardinality(Telling(audit, Len(audit), i, a))
  BY <1>1, <1>2 DEF Recorded, Telling
<1>4. ASSUME audit' \in Seq(Entries)
      PROVE  Recorded(i, a)' = Cardinality(Telling(audit', Len(audit'), i, a))
  BY <1>1, <1>4 DEF Recorded, Telling
<1>5. QED
  BY <1>1, <1>2, <1>3, <1>4, TellingFinite
-----------------------------------------------------------------------------
(* What a transaction about to be committed has written. *)

SwitchAction(a) == IF a THEN "CLIENT_ACTIVATED" ELSE "CLIENT_DEACTIVATED"

Registers(w) ==
  /\ tx[w].client # None
  /\ tx[w].audit = <<Entry(tx[w].id, "CLIENT_REGISTERED", None, None),
                     Entry(tx[w].id, "API_KEY_GENERATED", None, None)>>

Switches(w) ==
  /\ tx[w].id = job[w].id /\ tx[w].client = None /\ tx[w].limits = None
  /\ seen[w].active = job[w].active => tx[w].active = None
  /\ seen[w].active # job[w].active => tx[w].active = job[w].active
  /\ tx[w].audit = <<Entry(job[w].id, SwitchAction(job[w].active), None, None)>>

Puts(w) ==
  /\ tx[w].id = job[w].id /\ tx[w].client = None /\ tx[w].active = None
  /\ tx[w].limits = None => seen[w].limits = job[w].limits
  /\ tx[w].limits # None /\ seen[w].limits = None => tx[w].limits = job[w].limits
  /\ tx[w].audit = <<Entry(job[w].id, "RATE_LIMIT_UPDATED",
                           seen[w].limits, job[w].limits)>>

TxInv ==
  \A w \in Workers : pc[w] = "commit" =>
    /\ job[w].op = "register" => Registers(w)
    /\ job[w].op = "set_active" => Switches(w)
    /\ job[w].op = "put" => Puts(w)

\* Two open transactions do not both hold the new limits of one client.
LockInv ==
  \A v, w \in Workers :
    v # w /\ tx[v].limits # None /\ tx[w].limits # None => tx[v].id # tx[w].id

\* Between loading is_active and the commit: it is as loaded, or somebody has
\* set it to something else.
ActiveSeen(w) ==
  LET i == job[w].id IN
  pc[w] \in {"flush", "commit"} /\ job[w].op = "set_active" =>
    \/ clients[i].active = seen[w].active
    \/ \E v \in Took(i, "set_active") : job[v].active # seen[w].active

\* Likewise for the limits; and what the transaction holds is still what it
\* would make of the committed row.
LimitsSeen(w) ==
  LET i == job[w].id IN
  /\ pc[w] \in {"write", "commit"} /\ job[w].op = "put" =>
       (Took(i, "put") = {} => seen[w].limits = configs[i])
  /\ pc[w] = "commit" /\ job[w].op = "put"
       /\ tx[w].limits # None /\ seen[w].limits # None =>
       /\ configs[i] # None
       /\ tx[w].limits = Patch(configs[i], seen[w].limits, job[w].limits)

SeenInv == \A w \in Workers : ActiveSeen(w) /\ LimitsSeen(w)

\* A client that something was committed for is there, and stays.
KnownInv ==
  \A i \in Ids :
    /\ InitialClients[i] # None => clients[i] # None
    /\ Took(i, "set_active") # {} \/ Took(i, "put") # {} => clients[i] # None

\* Nothing is recorded of a client that is not there.
SilentInv ==
  \A i \in Ids : clients[i] = None =>
    Recorded(i, "CLIENT_REGISTERED") = 0 /\ Recorded(i, "API_KEY_GENERATED") = 0

HistoryInv ==
  /\ TxInv /\ LockInv /\ SeenInv /\ KnownInv /\ SilentInv
  /\ ProvisionedTogether /\ AuditMatchesCommits
  /\ ColumnsRequested /\ UncontestedSettingsHold

LEMMA NoneBoolean == None \notin BOOLEAN /\ None \notin Ids /\ None \notin Limits
  BY InitialType

LEMMA InitHistoryInv == Init => HistoryInv
<1> SUFFICES ASSUME Init PROVE HistoryInv
  OBVIOUS
<1>1. TxInv /\ LockInv /\ SeenInv
  BY DEF Init, TxInv, LockInv, SeenInv, ActiveSeen, LimitsSeen, NoWrites
<1>2. \A i, o : Took(i, o) = {}
  BY DEF Init, Took
<1>3. \A i, a : Recorded(i, a) = 0
  <2> SUFFICES ASSUME NEW i, NEW a PROVE Recorded(i, a) = 0
    OBVIOUS
  <2>1. {n \in DOMAIN audit : audit[n].client = i /\ audit[n].action = a} = {}
    BY DEF Init
  <2>2. QED
    BY <2>1, FS_EmptySet DEF Recorded
<1>4. KnownInv /\ SilentInv /\ ProvisionedTogether
  BY <1>2, <1>3 DEF Init, KnownInv, SilentInv, ProvisionedTogether
<1>5. AuditMatchesCommits
  <2> SUFFICES ASSUME NEW i \in Ids
               PROVE  /\ Cardinality(Took(i, "put")) = 0
                      /\ Cardinality({w \in Took(i, "set_active") : job[w].active}) = 0
                      /\ Cardinality({w \in Took(i, "set_active") : ~job[w].active}) = 0
    BY <1>3 DEF AuditMatchesCommits
  <2>1. /\ {w \in Took(i, "set_active") : job[w].active} = {}
        /\ {w \in Took(i, "set_active") : ~job[w].active} = {}
    BY <1>2
  <2>2. QED
    BY <1>2, <2>1, FS_EmptySet
<1>6. UncontestedSettingsHold
  BY <1>2 DEF UncontestedSettingsHold
<1>7. ColumnsRequested
  <2> SUFFICES ASSUME NEW i \in Ids, configs[i] # None
               PROVE  configs[i] \in {job[w].limits : w \in Took(i, "put")}
                                       \union ({Before(i)} \ {None})
    BY DEF ColumnsRequested
  <2>1. configs[i] = Before(i)
    BY InitialReferences DEF Init, Before
  <2>2. QED
    BY <2>1
<1>8. QED
  BY <1>1, <1>4, <1>5, <1>6, <1>7 DEF HistoryInv
-----------------------------------------------------------------------------
(* The steps of Next: some only touch the transaction of their request. *)

Moves(w) ==
  /\ job' = job
  /\ \A v \in Workers : v # w =>
       pc'[v] = pc[v] /\ tx'[v] = tx[v] /\ seen'[v] = seen[v]

\* A step before the commit.
Local(w) ==
  /\ Moves(w) /\ UNCHANGED Tables
  /\ pc[w] # "committed" /\ pc'[w] # "committed"

LEMMA AbortLocal ==
  ASSUME TypeOK, NEW w \in Workers, NEW n, Abort(w, n), pc[w] # "committed"
  PROVE  Local(w) /\ pc'[w] = "aborted" /\ tx'[w] = NoWrites
  BY DEF Abort, Write, Local, Moves, Tables, TypeOK

LEMMA StepLocal ==
  ASSUME TypeInv, NEW w \in Workers, Step(w), ~Commit(w)
  PROVE  Local(w)
<1> USE DEF TypeInv
<1>1. CASE RefuseEmail(w) \/ InsertClientFails(w) \/ NotFound(w)
           \/ CreateConfigFails(w)
  BY <1>1, AbortLocal DEF RefuseEmail, InsertClientFails, NotFound, CreateConfigFails
<1>2. CASE CheckEmail(w) \/ LoadClient(w) \/ LoadConfig(w)
  BY <1>2 DEF CheckEmail, LoadClient, LoadConfig, Go, Local, Moves, Tables, TypeOK
<1>3. ASSUME NEW t, NEW f, f # "committed",
             pc[w] # "committed", pc' = [pc EXCEPT ![w] = f], Write(w, t),
             UNCHANGED <<Tables, job, seen>>
      PROVE  Local(w)
  BY <1>3 DEF Write, Local, Moves, Tables, TypeOK
<1>4. CASE InsertClient(w)
  BY <1>3, <1>4 DEF InsertClient, Go
<1>5. CASE Provision(w)
  BY <1>3, <1>5 DEF Provision, Go
<1>6. CASE FlushActive(w)
  BY <1>3, <1>6 DEF FlushActive, Go
<1>7. CASE UpdateConfig(w) \/ CreateConfig(w)
  BY <1>3, <1>7 DEF UpdateConfig, CreateConfig, WriteLimits, Go
<1>8. QED
  BY <1>1, <1>2, <1>4, <1>5, <1>6, <1>7 DEF Step

\* What it leaves as it was.
LEMMA LocalKeeps ==
  ASSUME TypeInv, HistoryInv, NEW w \in Workers, Local(w)
  PROVE  /\ \A i, o : Took(i, o)' = Took(i, o)
         /\ KnownInv' /\ SilentInv' /\ ProvisionedTogether'
         /\ AuditMatchesCommits' /\ ColumnsRequested' /\ UncontestedSettingsHold'
         /\ \A v \in Workers : v # w => ActiveSeen(v)' /\ LimitsSeen(v)'
<1>1. job' = job /\ clients' = clients /\ configs' = configs /\ audit' = audit
  BY DEF Local, Moves, Tables
<1>2. \A i, o : Took(i, o)' = Took(i, o)
  BY <1>1 DEF Local, Moves, Took
<1>3. \A i, a : Recorded(i, a)' = Recorded(i, a)
  BY <1>1 DEF Recorded
<1>4. KnownInv'
  BY <1>1, <1>2 DEF HistoryInv, KnownInv
<1>5. SilentInv' /\ ProvisionedTogether'
  BY <1>1, <1>3 DEF HistoryInv, SilentInv, ProvisionedTogether
<1>6. AuditMatchesCommits'
  BY <1>1, <1>2, <1>3 DEF HistoryInv, AuditMatchesCommits
<1>7. ColumnsRequested'
  BY <1>1, <1>2 DEF HistoryInv, ColumnsRequested, Before
<1>8. UncontestedSettingsHold'
  BY <1>1, <1>2 DEF HistoryInv, UncontestedSettingsHold
<1>9. ASSUME NEW v \in Workers, v # w PROVE ActiveSeen(v)' /\ LimitsSeen(v)'
  <2>1. pc'[v] = pc[v] /\ tx'[v] = tx[v] /\ seen'[v] = seen[v]
    BY <1>9 DEF Local, Moves
  <2>2. ActiveSeen(v) /\ LimitsSeen(v)
    BY DEF HistoryInv, SeenInv
  <2>3. QED
    BY <1>1, <1>2, <2>1, <2>2 DEF ActiveSeen, LimitsSeen
<1>10. QED
  BY <1>2, <1>4, <1>5, <1>6, <1>7, <1>8, <1>9

\* What such a step must see to for the request itself.
Own(w) ==
  /\ pc[w] = "commit" =>
       /\ job[w].op = "register" => Registers(w)
       /\ job[w].op = "set_active" => Switches(w)
       /\ job[w].op = "put" => Puts(w)
  /\ ActiveSeen(w) /\ LimitsSeen(w)

LEMMA LocalHistoryInv ==
  ASSUME TypeInv, HistoryInv, NEW w \in Workers, Local(w), Own(w)',
         tx'[w].limits # None =>
           \A v \in Workers : v # w /\ tx[v].limits # None => tx[v].id # tx'[w].id
  PROVE  HistoryInv'
<1>1. \A v \in Workers : v # w =>
        pc'[v] = pc[v] /\ tx'[v] = tx[v] /\ seen'[v] = seen[v] /\ job'[v] = job[v]
  BY DEF Local, Moves
<1>2. TxInv'
  <2> SUFFICES ASSUME NEW v \in Workers, v # w, pc'[v] = "commit"
               PROVE  /\ job'[v].op = "register" => Registers(v)'
                      /\ job'[v].op = "set_active" => Switches(v)'
                      /\ job'[v].op = "put" => Puts(v)'
    BY DEF TxInv, Own
  <2>1. /\ job[v].op = "register" => Registers(v)
        /\ job[v].op = "set_active" => Switches(v)
        /\ job[v].op = "put" => Puts(v)
    BY <1>1 DEF HistoryInv, TxInv
  <2>2. QED
    BY <1>1, <2>1 DEF Registers, Switches, Puts
<1>3. LockInv'
  BY <1>1 DEF HistoryInv, LockInv
<1>4. SeenInv'
  BY LocalKeeps DEF SeenInv, Own
<1>5. QED
  BY <1>2, <1>3, <1>4, LocalKeeps DEF HistoryInv

\* A rollback holds nothing.
LEMMA AbortHistoryInv ==
  ASSUME TypeInv, HistoryInv, NEW w \in Workers, NEW n, Abort(w, n),
         pc[w] # "committed"
  PROVE  HistoryInv'
<1>1. Local(w) /\ pc'[w] = "aborted" /\ tx'[w].limits = None
  BY AbortLocal DEF TypeInv, NoWrites
<1>2. Own(w)'
  BY <1>1 DEF Own, ActiveSeen, LimitsSeen
<1>3. QED
  BY <1>1, <1>2, LocalHistoryInv

LEMMA ReadHistoryInv ==
  ASSUME Inv, HistoryInv, NEW w \in Workers,
         CheckEmail(w) \/ LoadClient(w) \/ LoadConfig(w)
  PROVE  HistoryInv'
<1>1. Local(w) /\ tx' = tx /\ job' = job /\ clients' = clients /\ configs' = configs
  <2>1. ~Commit(w)
    BY DEF CheckEmail, LoadClient, LoadConfig, Commit, CommitAs, Go
  <2>2. Step(w)
    BY DEF Step
  <2>3. QED
    BY <2>1, <2>2, StepLocal
       DEF Inv, CheckEmail, LoadClient, LoadConfig, Tables
<1>2. tx[w].limits = None
  BY DEF CheckEmail, LoadClient, LoadConfig, Go, Inv, ShapeInv, NoWrites
<1>3. CASE CheckEmail(w)
  <2>1. pc'[w] = "insert"
    BY <1>3 DEF CheckEmail, Go, Inv, TypeInv, TypeOK
  <2>2. Own(w)'
    BY <2>1 DEF Own, ActiveSeen, LimitsSeen
  <2>3. QED
    BY <1>1, <1>2, <2>2, LocalHistoryInv DEF Inv
<1>4. CASE LoadClient(w)
  <2>1. /\ pc'[w] \in {"config", "flush"}
        /\ seen'[w].active = clients[job[w].id].active
    BY <1>4 DEF LoadClient, Go, Inv, TypeInv, TypeOK
  <2>2. Own(w)'
    BY <1>1, <2>1 DEF Own, ActiveSeen, LimitsSeen
  <2>3. QED
    BY <1>1, <1>2, <2>2, LocalHistoryInv DEF Inv
<1>5. CASE LoadConfig(w)
  <2>1. pc'[w] = "write" /\ seen'[w].limits = configs[job[w].id]
    BY <1>5 DEF LoadConfig, Go, Inv, TypeInv, TypeOK
  <2>2. Own(w)'
    BY <1>1, <2>1 DEF Own, ActiveSeen, LimitsSeen
  <2>3. QED
    BY <1>1, <1>2, <2>2, LocalHistoryInv DEF Inv
<1>6. QED
  BY <1>3, <1>4, <1>5

LEMMA InsertHistoryInv ==
  ASSUME Inv, HistoryInv, NEW w \in Workers, InsertClient(w)
  PROVE  HistoryInv'
<1>1. Local(w)
  <2>1. ~Commit(w)
    BY DEF InsertClient, Commit, CommitAs, Go
  <2>2. QED
    BY <2>1, StepLocal DEF Step, Inv
<1>2. PICK i \in Ids :
        /\ Go(w, "insert", "provision")
        /\ Write(w, [tx[w] EXCEPT !.id = i,
                     !.client = [email |-> job[w].email, active |-> TRUE]])
  BY DEF InsertClient
<1> DEFINE row == [email |-> job[w].email, active |-> TRUE]
           t == [tx[w] EXCEPT !.id = i, !.client = row]
<1>3. t.limits = tx[w].limits /\ tx[w].limits = None
  <2>1. t.limits = tx[w].limits
    BY DEF Inv, TypeInv, TypeOK, Transactions
  <2>2. tx[w].limits = None
    BY <1>2 DEF Inv, ShapeInv, Go, NoWrites
  <2>3. QED
    BY <2>1, <2>2
<1>4. tx' = [tx EXCEPT ![w] = t] /\ pc'[w] = "provision"
  BY <1>2 DEF Write, Go, Inv, TypeInv, TypeOK
<1> HIDE DEF t
<1>5. tx'[w].limits = None
  BY <1>3, <1>4 DEF Inv, TypeInv, TypeOK
<1>6. Own(w)'
  BY <1>4 DEF Own, ActiveSeen, LimitsSeen
<1>7. QED
  BY <1>1, <1>5, <1>6, LocalHistoryInv DEF Inv

LEMMA ProvisionHistoryInv ==
  ASSUME Inv, HistoryInv, NEW w \in Workers, Provision(w)
  PROVE  HistoryInv'
<1>1. Local(w)
  <2>1. ~Commit(w)
    BY DEF Provision, Commit, CommitAs, Go
  <2>2. QED
    BY <2>1, StepLocal DEF Step, Inv
<1> DEFINE es == <<Entry(tx[w].id, "CLIENT_REGISTERED", None, None),
                   Entry(tx[w].id, "API_KEY_GENERATED", None, None)>>
           t == [tx[w] EXCEPT !.limits = DefaultLimits, !.audit = es]
<1>2. t.client = tx[w].client /\ t.id = tx[w].id /\ t.audit = es
  BY DEF Inv, TypeInv, TypeOK, Transactions
<1>3. /\ tx' = [tx EXCEPT ![w] = t] /\ pc[w] = "provision"
      /\ pc'[w] = "commit" /\ job' = job
  BY DEF Provision, Write, Go, Inv, TypeInv, TypeOK
<1> HIDE DEF t, es
<1>4. tx'[w] = t
  BY <1>3 DEF Inv, TypeInv, TypeOK
<1>5. job[w].op = "register" /\ Pending(w)
  BY <1>3 DEF Inv, TypeInv, ProgressInv, ShapeInv
<1>6. Own(w)'
  BY <1>2, <1>3, <1>4, <1>5 DEF Own, Registers, ActiveSeen, LimitsSeen, Pending, es
<1>7. ASSUME NEW v \in Workers, v # w, tx[v].limits # None
      PROVE  tx[v].id # tx[w].id
  <2>1. CASE Pending(v)
    BY <1>5, <1>7, <2>1 DEF Inv, EmailInv
  <2>2. CASE ~Pending(v)
    <3>1. tx[v].id # None => clients[tx[v].id] # None
      BY <2>2 DEF Pending, Inv, TypeInv, ProgressInv
    <3>2. clients[tx[w].id] = None /\ tx[w].id \in Ids
      BY <1>5 DEF Inv, EmailInv
    <3>3. QED
      BY <3>1, <3>2, NoneBoolean
  <2>3. QED
    BY <2>1, <2>2
<1>8. QED
  BY <1>1, <1>2, <1>4, <1>6, <1>7, LocalHistoryInv DEF Inv

LEMMA FlushActiveHistoryInv ==
  ASSUME Inv, HistoryInv, NEW w \in Workers, FlushActive(w)
  PROVE  HistoryInv'
<1>1. Local(w)
  <2>1. ~Commit(w)
    BY DEF FlushActive, Commit, CommitAs, Go
  <2>2. QED
    BY <2>1, StepLocal DEF Step, Inv
<1> DEFINE x == IF seen[w].active # job[w].active THEN job[w].active ELSE None
           e == Entry(job[w].id, SwitchAction(job[w].active), None, None)
           t == [tx[w] EXCEPT !.id = job[w].id, !.active = x, !.audit = <<e>>]
<1>2. /\ tx' = [tx EXCEPT ![w] = t] /\ pc[w] = "flush" /\ pc'[w] = "commit"
      /\ job' = job /\ seen' = seen /\ clients' = clients
  BY DEF FlushActive, Write, Go, SwitchAction, Tables, Inv, TypeInv, TypeOK
<1>3. /\ seen[w].active = job[w].active => x = None
      /\ seen[w].active # job[w].active => x = job[w].active
  BY Zenon
<1> HIDE DEF x, e
<1>4. /\ t.id = job[w].id /\ t.client = tx[w].client /\ t.limits = tx[w].limits
      /\ t.active = x /\ t.audit = <<e>>
  BY DEF Inv, TypeInv, TypeOK, Transactions
<1> HIDE DEF t
<1>5. tx'[w] = t
  BY <1>2 DEF Inv, TypeInv, TypeOK
<1>6. job[w].op = "set_active" /\ tx[w].client = None /\ tx[w].limits = None
  BY <1>2 DEF Inv, TypeInv, ProgressInv, ShapeInv, NoWrites
<1>7. Switches(w)'
  BY <1>2, <1>3, <1>4, <1>5, <1>6 DEF Switches, e
<1>8. ActiveSeen(w)'
  <2>1. ActiveSeen(w)
    BY DEF HistoryInv, SeenInv
  <2>2. \A i, o : Took(i, o)' = Took(i, o)
    BY <1>1, LocalKeeps DEF Inv
  <2>3. QED
    BY <1>2, <2>1, <2>2 DEF ActiveSeen
<1>9. Own(w)'
  BY <1>2, <1>6, <1>7, <1>8 DEF Own, LimitsSeen
<1>10. QED
  BY <1>1, <1>4, <1>5, <1>6, <1>9, LocalHistoryInv DEF Inv

LEMMA WriteLimitsHistoryInv ==
  ASSUME Inv, HistoryInv, NEW w \in Workers, Local(w), NEW x, NEW y,
         WriteLimits(w, job[w].id, x, y),
         x = None => seen[w].limits = job[w].limits,
         x # None => ~ConfigLocked(w, job[w].id),
         x # None /\ seen[w].limits = None => x = job[w].limits,
         x # None /\ seen[w].limits # None =>
           /\ configs[job[w].id] # None
           /\ x = Patch(configs[job[w].id], seen[w].limits, job[w].limits)
  PROVE  HistoryInv'
<1> DEFINE e == Entry(job[w].id, "RATE_LIMIT_UPDATED", seen[w].limits, job[w].limits)
           t == [tx[w] EXCEPT !.id = job[w].id, !.limits = x, !.audit = <<e>>]
<1>1. /\ tx' = [tx EXCEPT ![w] = t] /\ pc[w] = "write" /\ pc'[w] = "commit"
      /\ job' = job /\ seen' = seen /\ configs' = configs
  BY DEF WriteLimits, Write, Go, Tables, Inv, TypeInv, TypeOK
<1> HIDE DEF e
<1>2. /\ t.id = job[w].id /\ t.client = tx[w].client /\ t.active = tx[w].active
      /\ t.limits = x /\ t.audit = <<e>>
  BY DEF Inv, TypeInv, TypeOK, Transactions
<1> HIDE DEF t
<1>3. tx'[w] = t
  BY <1>1 DEF Inv, TypeInv, TypeOK
<1>4. job[w].op = "put" /\ tx[w].client = None /\ tx[w].active = None
  BY <1>1 DEF Inv, TypeInv, ProgressInv, ShapeInv, NoWrites
<1>5. Puts(w)'
  BY <1>1, <1>2, <1>3, <1>4 DEF Puts, e
<1>6. LimitsSeen(w)'
  <2>1. LimitsSeen(w)
    BY DEF HistoryInv, SeenInv
  <2>2. \A i, o : Took(i, o)' = Took(i, o)
    BY LocalKeeps DEF Inv
  <2>3. QED
    BY <1>1, <1>2, <1>3, <1>4, <2>1, <2>2 DEF LimitsSeen
<1>7. Own(w)'
  BY <1>1, <1>4, <1>5, <1>6 DEF Own, ActiveSeen
<1>8. ASSUME x # None, NEW v \in Workers, v # w, tx[v].limits # None
      PROVE  tx[v].id # job[w].id
  BY <1>8 DEF ConfigLocked
<1>9. QED
  BY <1>2, <1>3, <1>7, <1>8, LocalHistoryInv DEF Inv

LEMMA PutHistoryInv ==
  ASSUME Inv, HistoryInv, NEW w \in Workers, UpdateConfig(w) \/ CreateConfig(w)
  PROVE  HistoryInv'
<1>1. Local(w)
  <2>1. ~Commit(w)
    BY DEF UpdateConfig, CreateConfig, WriteLimits, Commit, CommitAs, Go
  <2>2. QED
    BY <2>1, StepLocal DEF Step, Inv
<1>2. pc[w] = "write"
  BY DEF UpdateConfig, CreateConfig, WriteLimits, Go
<1> DEFINE i == job[w].id
           old == seen[w].limits
           new == Patch(configs[i], old, job[w].limits)
<1>3. CASE UpdateConfig(w) /\ old = job[w].limits
  BY <1>1, <1>3, WriteLimitsHistoryInv DEF UpdateConfig
<1>4. CASE UpdateConfig(w) /\ old # job[w].limits
  <2>1. old # None /\ ~ConfigLocked(w, i) /\ WriteLimits(w, i, new, new)
    BY <1>4 DEF UpdateConfig
  <2>2. configs[i] # None
    BY <1>2, <2>1 DEF Inv, TypeInv, ProgressInv
  <2>3. i \in Ids /\ job[w].limits \in Limits
    BY <1>2, JobShape DEF Inv, TypeInv, TypeOK, ProgressInv
  <2>4. configs[i] \in Limits /\ old \in Limits
    BY <2>1, <2>2, <2>3 DEF Inv, TypeInv, TypeOK, OrNone
  <2>5. new # None
    BY <2>3, <2>4, PatchType, NoneBoolean
  <2> HIDE DEF new, old, i
  <2>6. QED
    BY <1>1, <2>1, <2>2, <2>5, WriteLimitsHistoryInv DEF new, old, i
<1>5. CASE CreateConfig(w)
  <2>1. /\ old = None /\ ~ConfigLocked(w, i)
        /\ WriteLimits(w, i, job[w].limits, job[w].limits)
    BY <1>5 DEF CreateConfig
  <2>2. job[w].limits # None
    BY <1>2, JobShape, NoneBoolean DEF Inv, TypeInv, TypeOK, ProgressInv
  <2>3. QED
    BY <1>1, <2>1, <2>2, WriteLimitsHistoryInv
<1>6. QED
  BY <1>3, <1>4, <1>5 DEF UpdateConfig
-----------------------------------------------------------------------------
(* A commit. *)

\* What the commit of w does to the rows and to who has committed.
Commits(w) ==
  LET i == tx[w].id IN
  /\ pc[w] = "commit" /\ pc'[w] = "committed" /\ Moves(w) /\ i \in Ids
  /\ tx'[w] = NoWrites
  /\ \A j \in Ids :
       /\ j # i => clients'[j] = clients[j] /\ configs'[j] = configs[j]
       /\ clients[j] # None => clients'[j] # None
       /\ configs[j] # None => configs'[j] # None
  /\ tx[w].limits = None => configs'[i] = configs[i]
  /\ tx[w].limits # None => configs'[i] = tx[w].limits
  /\ job[w].op = "register" =>
       clients[i] = None /\ configs'[i] = DefaultLimits /\ job[w].id \notin Ids
  /\ job[w].op # "register" => clients[i] # None /\ i = job[w].id
  /\ job[w].op = "set_active" =>
       /\ tx[w].active = None => clients'[i].active = clients[i].active
       /\ tx[w].active # None => clients'[i].active = tx[w].active
  /\ job[w].op = "put" => clients'[i] = clients[i]
  /\ \A j, o : Took(j, o)' = IF job[w].op = o /\ job[w].id = j
                               THEN Took(j, o) \union {w} ELSE Took(j, o)

LEMMA CommitEffect ==
  ASSUME Inv, HistoryInv, NEW w \in Workers, NEW s \in {200, 201, 500},
         CommitAs(w, s)
  PROVE  Commits(w)
<1> DEFINE i == tx[w].id
           t == tx[w]
<1> USE DEF Inv
<1>1. /\ pc[w] = "commit" /\ pc'[w] = "committed" /\ Moves(w)
      /\ tx'[w] = NoWrites /\ i \in Ids /\ job' = job
  <2>1. i \in Ids
    BY CommitRows
  <2>2. QED
    BY <2>1 DEF CommitAs, Go, Write, Moves, TypeInv, TypeOK
<1>2. \A j \in Ids :
        /\ clients[j] # None => clients'[j] # None
        /\ configs[j] # None => configs'[j] # None
  BY CommitRows
<1> DEFINE new == IF t.client # None THEN t.client
                  ELSE IF t.active # None THEN [clients[i] EXCEPT !.active = t.active]
                  ELSE clients[i]
           lim == IF t.limits # None THEN t.limits ELSE configs[i]
<1>3. clients' = [clients EXCEPT ![i] = new] /\ configs' = [configs EXCEPT ![i] = lim]
  BY DEF CommitAs
<1>4. lim = IF t.limits # None THEN t.limits ELSE configs[i]
  OBVIOUS
<1>5. new = IF t.client # None THEN t.client
                  ELSE IF t.active # None THEN [clients[i] EXCEPT !.active = t.active]
                  ELSE clients[i]
  OBVIOUS
<1> HIDE DEF new, lim
<1>6. /\ clients'[i] = new /\ configs'[i] = lim
      /\ \A j \in Ids : j # i => clients'[j] = clients[j] /\ configs'[j] = configs[j]
  BY <1>1, <1>3 DEF TypeInv, TypeOK
<1>7. ASSUME job[w].op = "register"
      PROVE  clients[i] = None /\ configs'[i] = DefaultLimits /\ job[w].id \notin Ids
  <2>1. Pending(w)
    BY <1>1, <1>7 DEF HistoryInv, TxInv, Registers, Pending
  <2>2. clients[i] = None /\ t.limits = DefaultLimits
    BY <1>1, <2>1 DEF EmailInv, ShapeInv
  <2>3. DefaultLimits # None
    BY InitialType
  <2>4. job[w].id = None
    <3>1. job[w] \in Jobs
      BY DEF TypeInv, TypeOK
    <3>2. QED
      BY <1>7, <3>1, JobsType DEF Register, SetTo, PutLimits
  <2>5. QED
    BY <1>4, <1>6, <2>2, <2>3, <2>4, NoneBoolean
<1>8. ASSUME job[w].op # "register"
      PROVE  clients[i] # None /\ i = job[w].id /\ t.client = None
  <2>1. job[w].op = "set_active" \/ job[w].op = "put"
    BY <1>8, JobShape DEF TypeInv, TypeOK
  <2>2. i = job[w].id /\ t.client = None
    BY <1>1, <2>1 DEF HistoryInv, TxInv, Switches, Puts
  <2>3. clients[i] # None
    BY <1>1, <2>2, NoneBoolean DEF TypeInv, ProgressInv
  <2>4. QED
    BY <2>2, <2>3
<1>9. ASSUME job[w].op = "set_active"
      PROVE  /\ t.active = None => clients'[i].active = clients[i].active
             /\ t.active # None => clients'[i].active = t.active
  <2>1. clients[i] \in Clients /\ t.client = None
    BY <1>1, <1>8, <1>9 DEF TypeInv, TypeOK, OrNone
  <2>2. [clients[i] EXCEPT !.active = t.active].active = t.active
    BY <2>1 DEF Clients
  <2>3. QED
    BY <1>5, <1>6, <2>1, <2>2
<1>10. ASSUME job[w].op = "put" PROVE clients'[i] = clients[i]
  BY <1>1, <1>5, <1>6, <1>10 DEF HistoryInv, TxInv, Puts
<1>11. ASSUME NEW j, NEW o
       PROVE  Took(j, o)' = IF job[w].op = o /\ job[w].id = j
                              THEN Took(j, o) \union {w} ELSE Took(j, o)
  BY <1>1 DEF Took, Moves
<1>12. QED
  BY <1>1, <1>2, <1>4, <1>6, <1>7, <1>8, <1>9, <1>10, <1>11 DEF Commits

LEMMA CommitTx ==
  ASSUME Inv, HistoryInv, NEW w \in Workers, Commits(w)
  PROVE  TxInv' /\ LockInv'
<1>1. /\ job' = job /\ pc'[w] = "committed" /\ tx'[w].limits = None
      /\ \A v \in Workers : v # w =>
           pc'[v] = pc[v] /\ tx'[v] = tx[v] /\ seen'[v] = seen[v]
  BY DEF Commits, Moves, NoWrites
<1>2. TxInv'
  <2> SUFFICES ASSUME NEW v \in Workers, v # w, pc'[v] = "commit"
               PROVE  /\ job'[v].op = "register" => Registers(v)'
                      /\ job'[v].op = "set_active" => Switches(v)'
                      /\ job'[v].op = "put" => Puts(v)'
    BY <1>1 DEF TxInv
  <2>1. /\ job[v].op = "register" => Registers(v)
        /\ job[v].op = "set_active" => Switches(v)
        /\ job[v].op = "put" => Puts(v)
    BY <1>1 DEF HistoryInv, TxInv
  <2>2. QED
    BY <1>1, <2>1 DEF Registers, Switches, Puts
<1>3. LockInv'
  BY <1>1 DEF HistoryInv, LockInv
<1>4. QED
  BY <1>2, <1>3

\* The client a request has loaded is there.
LEMMA LoadedClient ==
  ASSUME Inv, HistoryInv, NEW v \in Workers, job[v].op \in {"set_active", "put"},
         pc[v] \in {"flush", "write", "commit"}
  PROVE  job[v].id \in Ids /\ clients[job[v].id] # None
<1>1. job[v].id \in Ids
  BY JobShape DEF Inv, TypeInv, TypeOK
<1>2. CASE pc[v] \in {"flush", "write"}
  BY <1>1, <1>2 DEF Inv, TypeInv, ProgressInv
<1>3. CASE pc[v] = "commit"
  <2>1. tx[v].id = job[v].id /\ tx[v].client = None
    BY <1>3 DEF HistoryInv, TxInv, Switches, Puts
  <2>2. QED
    BY <1>1, <2>1, NoneBoolean DEF Inv, TypeInv, ProgressInv
<1>4. QED
  BY <1>2, <1>3

LEMMA CommitSeen ==
  ASSUME Inv, HistoryInv, NEW w \in Workers, Commits(w)
  PROVE  SeenInv'
<1> DEFINE i == tx[w].id
<1>1. /\ job' = job /\ pc'[w] = "committed" /\ pc[w] = "commit" /\ i \in Ids
      /\ \A v \in Workers : v # w =>
           pc'[v] = pc[v] /\ tx'[v] = tx[v] /\ seen'[v] = seen[v]
  BY DEF Commits, Moves
<1>2. \A j, o : Took(j, o) \subseteq Took(j, o)'
  BY DEF Commits
<1>3. job[w].op \in {"register", "set_active", "put"}
  BY JobShape DEF Inv, TypeInv, TypeOK
<1> SUFFICES ASSUME NEW v \in Workers PROVE ActiveSeen(v)' /\ LimitsSeen(v)'
  BY DEF SeenInv
<1>0. PICK k : k = job[v].id
  OBVIOUS
<1>4. CASE v = w
  BY <1>1, <1>4 DEF ActiveSeen, LimitsSeen
<1>5. CASE v # w
  <2>1. ActiveSeen(v) /\ LimitsSeen(v)
    BY DEF HistoryInv, SeenInv
  <2>2. ASSUME pc[v] \in {"flush", "commit"}, job[v].op = "set_active"
        PROVE  \/ clients'[k].active = seen[v].active
               \/ \E u \in Took(k, "set_active")' : job[u].active # seen[v].active
    <3>1. k \in Ids /\ clients[k] # None
      BY <1>0, <2>2, LoadedClient
    <3>2. \/ clients[k].active = seen[v].active
          \/ \E u \in Took(k, "set_active")' : job[u].active # seen[v].active
      BY <1>0, <1>2, <2>1, <2>2 DEF ActiveSeen
    <3>3. CASE clients'[k].active = clients[k].active
      BY <3>2, <3>3
    <3>4. CASE clients'[k].active # clients[k].active
      <4>1. i = k
        BY <3>1, <3>4 DEF Commits
      <4>2. job[w].op = "set_active" /\ tx[w].active # None /\ job[w].id = k
            /\ clients'[k].active = tx[w].active
        BY <1>3, <3>1, <3>4, <4>1 DEF Commits
      <4>3. tx[w].active = job[w].active
        BY <1>1, <4>2 DEF HistoryInv, TxInv, Switches
      <4>4. w \in Took(k, "set_active")'
        BY <4>2 DEF Commits
      <4>5. QED
        BY <4>2, <4>3, <4>4
    <3>5. QED
      BY <3>3, <3>4
  <2>3. ActiveSeen(v)'
    BY <1>0, <1>1, <1>5, <2>2 DEF ActiveSeen
  <2>4. ASSUME pc[v] \in {"write", "commit"}, job[v].op = "put", Took(k, "put")' = {}
        PROVE  seen[v].limits = configs'[k]
    <3>1. k \in Ids /\ clients[k] # None
      BY <1>0, <2>4, LoadedClient
    <3>2. seen[v].limits = configs[k]
      BY <1>0, <1>2, <2>1, <2>4 DEF LimitsSeen
    <3>3. CASE i # k
      BY <3>1, <3>2, <3>3 DEF Commits
    <3>4. CASE i = k
      <4>1. job[w].op # "register" /\ job[w].id = k
        BY <3>1, <3>4 DEF Commits
      <4>2. job[w].op = "set_active"
        <5>1. CASE job[w].op = "put"
          BY <2>4, <4>1, <5>1 DEF Commits
        <5>2. QED
          BY <1>3, <4>1, <5>1
      <4>3. tx[w].limits = None
        BY <1>1, <4>2 DEF HistoryInv, TxInv, Switches
      <4>4. QED
        BY <3>2, <3>4, <4>3 DEF Commits
    <3>5. QED
      BY <3>3, <3>4
  <2>5. ASSUME pc[v] = "commit", job[v].op = "put", tx[v].limits # None,
               seen[v].limits # None
        PROVE  /\ configs'[k] # None
               /\ tx[v].limits = Patch(configs'[k], seen[v].limits, job[v].limits)
    <3>1. k \in Ids /\ tx[v].id = k
      BY <1>0, <2>5, LoadedClient DEF HistoryInv, TxInv, Puts
    <3>2. /\ configs[k] # None
          /\ tx[v].limits = Patch(configs[k], seen[v].limits, job[v].limits)
      BY <1>0, <2>1, <2>5 DEF LimitsSeen
    <3>3. configs'[k] = configs[k]
      <4>1. CASE i # k
        BY <3>1, <4>1 DEF Commits
      <4>2. CASE i = k
        <5>1. tx[w].limits = None
          BY <1>5, <2>5, <3>1, <4>2 DEF HistoryInv, LockInv
        <5>2. QED
          BY <4>2, <5>1 DEF Commits
      <4>3. QED
        BY <4>1, <4>2
    <3>4. QED
      BY <3>2, <3>3
  <2>6. LimitsSeen(v)'
    BY <1>0, <1>1, <1>5, <2>4, <2>5 DEF LimitsSeen
  <2>7. QED
    BY <2>3, <2>6
<1>6. QED
  BY <1>4, <1>5

LEMMA CommitKnown ==
  ASSUME Inv, HistoryInv, NEW w \in Workers, Commits(w)
  PROVE  KnownInv'
<1> SUFFICES ASSUME NEW i \in Ids
             PROVE  /\ InitialClients[i] # None => clients'[i] # None
                    /\ \A o \in {"set_active", "put"} :
                         Took(i, o)' # {} => clients'[i] # None
  BY DEF KnownInv
<1>1. InitialClients[i] # None => clients'[i] # None
  BY DEF HistoryInv, KnownInv, Commits
<1>2. ASSUME NEW o \in {"set_active", "put"}, Took(i, o)' # {}
      PROVE  clients'[i] # None
  <2>1. CASE Took(i, o) # {}
    BY <2>1 DEF HistoryInv, KnownInv, Commits
  <2>2. CASE Took(i, o) = {}
    <3>1. job[w].op = o /\ job[w].id = i
      BY <1>2, <2>2 DEF Commits
    <3>2. QED
      BY <3>1 DEF Commits
  <2>3. QED
    BY <2>1, <2>2
<1>3. QED
  BY <1>1, <1>2

\* The audit log after a commit.
LEMMA CommitRecords ==
  ASSUME Inv, HistoryInv, NEW w \in Workers, NEW s \in {200, 201, 500},
         CommitAs(w, s), NEW i, NEW a
  PROVE  /\ job[w].op = "register" =>
              Recorded(i, a)' = Recorded(i, a)
                + Tells(Entry(tx[w].id, "CLIENT_REGISTERED", None, None), i, a)
                + Tells(Entry(tx[w].id, "API_KEY_GENERATED", None, None), i, a)
         /\ job[w].op = "set_active" =>
              Recorded(i, a)' = Recorded(i, a)
                + Tells(Entry(job[w].id, SwitchAction(job[w].active), None, None), i, a)
         /\ job[w].op = "put" =>
              Recorded(i, a)' = Recorded(i, a)
                + Tells(Entry(job[w].id, "RATE_LIMIT_UPDATED",
                              seen[w].limits, job[w].limits), i, a)
<1>1. pc[w] = "commit" /\ audit' = audit \o tx[w].audit
  BY DEF CommitAs, Go
<1>2. audit \in Seq(Entries) /\ tx[w].audit \in Seq(Entries)
  BY DEF Inv, TypeInv, TypeOK, Transactions
<1>3. audit' \in Seq(Entries)
  BY <1>1, <1>2
<1>4. /\ Recorded(i, a) = Cardinality(Telling(audit, Len(audit), i, a))
      /\ Recorded(i, a)' = Cardinality(Telling(audit', Len(audit'), i, a))
  BY <1>3, RecordedTelling DEF Inv, TypeInv
<1>5. \A d, e : /\ <<d>> \in Seq(Entries) => d \in Entries
                /\ <<d, e>> \in Seq(Entries) => d \in Entries /\ e \in Entries
  <2> SUFFICES ASSUME NEW d, NEW e
               PROVE  /\ <<d>> \in Seq(Entries) => d \in Entries
                      /\ <<d, e>> \in Seq(Entries) => d \in Entries /\ e \in Entries
    OBVIOUS
  <2>1. ASSUME <<d>> \in Seq(Entries) PROVE d \in Entries
    <3>1. \A t \in Seq(Entries) : \A n \in 1 .. Len(t) : t[n] \in Entries
      OBVIOUS
    <3>2. Len(<<d>>) = 1 /\ <<d>>[1] = d
      OBVIOUS
    <3>3. QED
      BY <2>1, <3>1, <3>2
  <2>2. ASSUME <<d, e>> \in Seq(Entries) PROVE d \in Entries /\ e \in Entries
    <3>1. \A t \in Seq(Entries) : \A n \in 1 .. Len(t) : t[n] \in Entries
      OBVIOUS
    <3>2. Len(<<d, e>>) = 2 /\ <<d, e>>[1] = d /\ <<d, e>>[2] = e
      OBVIOUS
    <3>3. QED
      BY <2>2, <3>1, <3>2
  <2>3. QED
    BY <2>1, <2>2
<1>6. CASE job[w].op = "register"
  <2> DEFINE d == Entry(tx[w].id, "CLIENT_REGISTERED", None, None)
             e == Entry(tx[w].id, "API_KEY_GENERATED", None, None)
  <2>1. tx[w].audit = <<d, e>>
    BY <1>1, <1>6 DEF HistoryInv, TxInv, Registers
  <2> HIDE DEF d, e
  <2>2. d \in Entries /\ e \in Entries
    BY <1>2, <1>5, <2>1
  <2>3. Recorded(i, a)' = Recorded(i, a) + Tells(d, i, a) + Tells(e, i, a)
    BY <1>1, <1>2, <1>4, <2>1, <2>2, AppendTwo
  <2>4. QED
    BY <1>6, <2>3 DEF d, e
<1>7. CASE job[w].op = "set_active"
  <2> DEFINE e == Entry(job[w].id, SwitchAction(job[w].active), None, None)
  <2>1. tx[w].audit = <<e>>
    BY <1>1, <1>7 DEF HistoryInv, TxInv, Switches
  <2> HIDE DEF e
  <2>2. e \in Entries
    BY <1>2, <1>5, <2>1
  <2>3. Recorded(i, a)' = Recorded(i, a) + Tells(e, i, a)
    BY <1>1, <1>2, <1>4, <2>1, <2>2, AppendOne
  <2>4. QED
    BY <1>7, <2>3 DEF e
<1>8. CASE job[w].op = "put"
  <2> DEFINE e == Entry(job[w].id, "RATE_LIMIT_UPDATED", seen[w].limits, job[w].limits)
  <2>1. tx[w].audit = <<e>>
    BY <1>1, <1>8 DEF HistoryInv, TxInv, Puts
  <2> HIDE DEF e
  <2>2. e \in Entries
    BY <1>2, <1>5, <2>1
  <2>3. Recorded(i, a)' = Recorded(i, a) + Tells(e, i, a)
    BY <1>1, <1>2, <1>4, <2>1, <2>2, AppendOne
  <2>4. QED
    BY <1>8, <2>3 DEF e
<1>9. QED
  BY <1>6, <1>7, <1>8

LEMMA RecordedNat ==
  ASSUME Inv, NEW i, NEW a PROVE Recorded(i, a) \in Nat
  BY RecordedTelling DEF Inv, TypeInv

\* A registration brings its client, its limits and both its entries; no other
\* commit tells of a registration.
LEMMA CommitProvision ==
  ASSUME Inv, HistoryInv, NEW w \in Workers, NEW s \in {200, 201, 500},
         CommitAs(w, s), Commits(w)
  PROVE  SilentInv' /\ ProvisionedTogether'
<1> DEFINE k == tx[w].id
           Events == {"CLIENT_REGISTERED", "API_KEY_GENERATED"}
<1>1. job[w].op \in {"register", "set_active", "put"}
  BY JobShape DEF Inv, TypeInv, TypeOK
<1>2. ASSUME NEW i \in Ids, NEW a \in Events
      PROVE  Recorded(i, a)' = Recorded(i, a)
               + IF job[w].op = "register" /\ i = k THEN 1 ELSE 0
  <2>1. Recorded(i, a) \in Nat
    BY RecordedNat
  <2>2. CASE job[w].op = "register"
    <3>1. Recorded(i, a)' = Recorded(i, a)
            + Tells(Entry(k, "CLIENT_REGISTERED", None, None), i, a)
            + Tells(Entry(k, "API_KEY_GENERATED", None, None), i, a)
      BY <2>2, CommitRecords
    <3>2. QED
      BY <2>1, <2>2, <3>1 DEF Tells, Entry
  <2>3. CASE job[w].op = "set_active"
    <3>1. Recorded(i, a)' = Recorded(i, a)
            + Tells(Entry(job[w].id, SwitchAction(job[w].active), None, None), i, a)
      BY <2>3, CommitRecords
    <3>2. QED
      BY <2>1, <2>3, <3>1 DEF Tells, Entry, SwitchAction
  <2>4. CASE job[w].op = "put"
    <3>1. Recorded(i, a)' = Recorded(i, a)
            + Tells(Entry(job[w].id, "RATE_LIMIT_UPDATED",
                          seen[w].limits, job[w].limits), i, a)
      BY <2>4, CommitRecords
    <3>2. QED
      BY <2>1, <2>4, <3>1 DEF Tells, Entry
  <2>5. QED
    BY <1>1, <2>2, <2>3, <2>4
<1>3. SilentInv'
  <2> SUFFICES ASSUME NEW i \in Ids, clients'[i] = None, NEW a \in Events
               PROVE  Recorded(i, a)' = 0
    BY DEF SilentInv
  <2>1. clients[i] = None /\ Recorded(i, a) = 0
    BY DEF Commits, HistoryInv, SilentInv
  <2>2. ~(job[w].op = "register" /\ i = k)
    <3>1. ASSUME job[w].op = "register" PROVE clients'[k] # None
      <4>1. tx[w].client # None /\ clients'[k] = tx[w].client
        BY <3>1 DEF Commits, HistoryInv, TxInv, Registers, CommitAs, Inv, TypeInv, TypeOK
      <4>2. QED
        BY <4>1
    <3>2. QED
      BY <3>1
  <2>3. QED
    BY <1>2, <2>1, <2>2
<1>4. ProvisionedTogether'
  <2> SUFFICES ASSUME NEW i \in Ids, clients'[i] # None, InitialClients[i] = None
               PROVE  configs'[i] # None /\ \A a \in Events : Recorded(i, a)' = 1
    BY DEF ProvisionedTogether
  <2>1. CASE job[w].op = "register" /\ i = k
    <3>1. clients[i] = None /\ configs'[i] = DefaultLimits
      BY <2>1 DEF Commits
    <3>2. \A a \in Events : Recorded(i, a) = 0
      BY <3>1 DEF HistoryInv, SilentInv
    <3>3. QED
      BY <1>2, <2>1, <3>1, <3>2, InitialType
  <2>2. CASE ~(job[w].op = "register" /\ i = k)
    <3>1. clients[i] # None
      BY <2>2 DEF Commits
    <3>2. configs[i] # None /\ \A a \in Events : Recorded(i, a) = 1
      BY <3>1 DEF HistoryInv, ProvisionedTogether
    <3>3. QED
      BY <1>2, <2>2, <3>2 DEF Commits
  <2>3. QED
    BY <2>1, <2>2
<1>5. QED
  BY <1>3, <1>4

LEMMA TookFinite ==
  ASSUME NEW S \in SUBSET Workers
  PROVE  IsFiniteSet(S) /\ Cardinality(S) \in Nat
  BY WorkersFinite, FS_Subset, FS_CardinalityType

\* One commit of a change, one entry about it.
LEMMA CommitAudit ==
  ASSUME Inv, HistoryInv, NEW w \in Workers, NEW s \in {200, 201, 500},
         CommitAs(w, s), Commits(w)
  PROVE  AuditMatchesCommits'
<1>1. job[w].op \in {"register", "set_active", "put"} /\ job' = job
  BY JobShape DEF Inv, TypeInv, TypeOK, Commits, Moves
<1>2. \A i, o : w \notin Took(i, o)
  BY DEF Commits, Took
<1> SUFFICES ASSUME NEW i \in Ids
             PROVE  /\ Recorded(i, "RATE_LIMIT_UPDATED")' = Cardinality(Took(i, "put")')
                    /\ Recorded(i, "CLIENT_ACTIVATED")' =
                         Cardinality({v \in Took(i, "set_active")' : job[v].active})
                    /\ Recorded(i, "CLIENT_DEACTIVATED")' =
                         Cardinality({v \in Took(i, "set_active")' : ~job[v].active})
  BY <1>1 DEF AuditMatchesCommits
<1> DEFINE P == Took(i, "put")
           On == {v \in Took(i, "set_active") : job[v].active}
           Off == {v \in Took(i, "set_active") : ~job[v].active}
           PNext == Took(i, "put")'
           OnNext == {v \in Took(i, "set_active")' : job[v].active}
           OffNext == {v \in Took(i, "set_active")' : ~job[v].active}
           r(a) == Recorded(i, a)
           rNext(a) == Recorded(i, a)'
<1> SUFFICES /\ rNext("RATE_LIMIT_UPDATED") = Cardinality(PNext)
             /\ rNext("CLIENT_ACTIVATED") = Cardinality(OnNext)
             /\ rNext("CLIENT_DEACTIVATED") = Cardinality(OffNext)
  OBVIOUS
<1>3. /\ r("RATE_LIMIT_UPDATED") = Cardinality(P)
      /\ r("CLIENT_ACTIVATED") = Cardinality(On)
      /\ r("CLIENT_DEACTIVATED") = Cardinality(Off)
  BY DEF HistoryInv, AuditMatchesCommits
<1>4. /\ IsFiniteSet(P) /\ IsFiniteSet(On) /\ IsFiniteSet(Off)
      /\ Cardinality(P) \in Nat /\ Cardinality(On) \in Nat /\ Cardinality(Off) \in Nat
      /\ w \notin P /\ w \notin On /\ w \notin Off
  <2>1. P \in SUBSET Workers /\ On \in SUBSET Workers /\ Off \in SUBSET Workers
    BY DEF Took
  <2>2. QED
    BY <1>2, <2>1, TookFinite
<1>5. CASE job[w].op = "register"
  <2>1. \A a \in {"RATE_LIMIT_UPDATED", "CLIENT_ACTIVATED", "CLIENT_DEACTIVATED"} :
          rNext(a) = r(a)
    <3> SUFFICES ASSUME NEW a \in {"RATE_LIMIT_UPDATED", "CLIENT_ACTIVATED",
                                   "CLIENT_DEACTIVATED"}
                 PROVE  rNext(a) = r(a)
      OBVIOUS
    <3>1. Recorded(i, a)' = Recorded(i, a)
            + Tells(Entry(tx[w].id, "CLIENT_REGISTERED", None, None), i, a)
            + Tells(Entry(tx[w].id, "API_KEY_GENERATED", None, None), i, a)
      BY <1>5, CommitRecords
    <3>2. Recorded(i, a) \in Nat
      BY RecordedTelling DEF Inv, TypeInv
    <3>3. /\ Tells(Entry(tx[w].id, "CLIENT_REGISTERED", None, None), i, a) = 0
          /\ Tells(Entry(tx[w].id, "API_KEY_GENERATED", None, None), i, a) = 0
      BY DEF Tells, Entry
    <3>4. QED
      BY <3>1, <3>2, <3>3
  <2>2. PNext = P /\ OnNext = On /\ OffNext = Off
    BY <1>5 DEF Commits
  <2> HIDE DEF On, Off, P, PNext, OnNext, OffNext, r, rNext
  <2>3. QED
    BY <1>3, <2>1, <2>2
<1>6. CASE job[w].op = "set_active"
  <2> DEFINE on == job[w].active
             t(a) == Tells(Entry(job[w].id, SwitchAction(on), None, None), i, a)
  <2>1. on \in BOOLEAN
    BY <1>6, JobShape DEF Inv, TypeInv, TypeOK
  <2>2. \A a : rNext(a) = r(a) + t(a)
    BY <1>6, CommitRecords
  <2>3. PNext = P
    BY <1>6 DEF Commits
  <2>4. CASE job[w].id # i
    <3>1. OnNext = On /\ OffNext = Off
      BY <1>6, <2>4 DEF Commits
    <3>2. \A a : t(a) = 0
      BY <2>4 DEF Tells, Entry
    <3> HIDE DEF On, Off, P, PNext, OnNext, OffNext, r, rNext, t
    <3>3. QED
      BY <1>3, <1>4, <2>2, <2>3, <3>1, <3>2
  <2>5. CASE job[w].id = i /\ on
    <3>1. OnNext = On \union {w} /\ OffNext = Off
      BY <1>6, <2>5 DEF Commits
    <3>3. \A a : t(a) = IF a = "CLIENT_ACTIVATED" THEN 1 ELSE 0
      BY <2>5 DEF Tells, Entry, SwitchAction
    <3> HIDE DEF On, Off, P, PNext, OnNext, OffNext, r, rNext, t
    <3>2. Cardinality(OnNext) = Cardinality(On) + 1
      BY <1>4, <3>1, FS_AddElement
    <3>4. QED
      BY <1>3, <1>4, <2>2, <2>3, <3>1, <3>2, <3>3
  <2>6. CASE job[w].id = i /\ ~on
    <3>1. OnNext = On /\ OffNext = Off \union {w}
      BY <1>6, <2>6 DEF Commits
    <3>3. \A a : t(a) = IF a = "CLIENT_DEACTIVATED" THEN 1 ELSE 0
      BY <2>6 DEF Tells, Entry, SwitchAction
    <3> HIDE DEF On, Off, P, PNext, OnNext, OffNext, r, rNext, t
    <3>2. Cardinality(OffNext) = Cardinality(Off) + 1
      BY <1>4, <3>1, FS_AddElement
    <3>4. QED
      BY <1>3, <1>4, <2>2, <2>3, <3>1, <3>2, <3>3
  <2>7. QED
    BY <2>1, <2>4, <2>5, <2>6
<1>7. CASE job[w].op = "put"
  <2> DEFINE t(a) == Tells(Entry(job[w].id, "RATE_LIMIT_UPDATED",
                                 seen[w].limits, job[w].limits), i, a)
  <2>1. \A a : rNext(a) = r(a) + t(a)
    BY <1>7, CommitRecords
  <2>2. \A a : t(a) = IF a = "RATE_LIMIT_UPDATED" /\ job[w].id = i THEN 1 ELSE 0
    BY DEF Tells, Entry
  <2>3. OnNext = On /\ OffNext = Off
    BY <1>7 DEF Commits
  <2>4. PNext = IF job[w].id = i THEN P \union {w} ELSE P
    BY <1>7 DEF Commits
  <2> HIDE DEF On, Off, P, PNext, OnNext, OffNext, r, rNext, t
  <2>5. Cardinality(PNext) = Cardinality(P) + IF job[w].id = i THEN 1 ELSE 0
    <3>1. CASE job[w].id = i
      BY <1>4, <2>4, <3>1, FS_AddElement
    <3>2. CASE job[w].id # i
      BY <1>4, <2>4, <3>2
    <3>3. QED
      BY <3>1, <3>2
  <2>6. QED
    BY <1>3, <1>4, <2>1, <2>2, <2>3, <2>5
<1>8. QED
  BY <1>1, <1>5, <1>6, <1>7
-----------------------------------------------------------------------------
\* A commit stores the columns of its own payload or leaves what was there.
LEMMA CommitColumns ==
  ASSUME Inv, HistoryInv, NEW w \in Workers, Commits(w)
  PROVE  ColumnsRequested'
<1>1. job[w].op \in {"register", "set_active", "put"} /\ job' = job /\ tx[w].id \in Ids
  BY JobShape DEF Inv, TypeInv, TypeOK, Commits, Moves
<1>2. pc[w] = "commit"
  BY DEF Commits
<1> DEFINE Sources(i) == {job[v].limits : v \in Took(i, "put")}
                           \union ({Before(i)} \ {None})
           SourcesNext(i) == {job[v].limits : v \in Took(i, "put")'}
                               \union ({Before(i)} \ {None})
           From(x, S) == /\ x.allowed \in {l.allowed : l \in S}
                         /\ x.window \in {l.window : l \in S}
<1> SUFFICES ASSUME NEW i \in Ids, configs'[i] # None
             PROVE  From(configs'[i], SourcesNext(i))
  BY <1>1 DEF ColumnsRequested, Before
<1>3. Sources(i) \subseteq SourcesNext(i)
  BY DEF Commits
<1>4. configs[i] # None => From(configs[i], Sources(i))
  BY DEF HistoryInv, ColumnsRequested
<1>5. ASSUME configs[i] # None PROVE From(configs[i], SourcesNext(i))
  BY <1>3, <1>4, <1>5
<1>6. CASE configs'[i] = configs[i]
  BY <1>5, <1>6
<1>7. CASE configs'[i] # configs[i]
  <2>1. i = tx[w].id /\ tx[w].limits # None /\ configs'[i] = tx[w].limits
    BY <1>1, <1>7 DEF Commits
  <2>2. CASE job[w].op = "register"
    <3>1. configs'[i] = DefaultLimits /\ clients[i] = None
      BY <2>1, <2>2 DEF Commits
    <3>2. InitialClients[i] = None
      BY <3>1 DEF HistoryInv, KnownInv
    <3>3. DefaultLimits \in SourcesNext(i)
      BY <3>2, InitialType DEF Before
    <3> HIDE DEF SourcesNext
    <3>4. QED
      BY <3>1, <3>3
  <2>3. CASE job[w].op = "set_active"
    BY <1>2, <2>1, <2>3 DEF HistoryInv, TxInv, Switches
  <2>4. CASE job[w].op = "put"
    <3>1. job[w].id = i
      BY <2>1, <2>4 DEF Commits
    <3>2. job[w].limits \in SourcesNext(i)
      BY <2>4, <3>1 DEF Commits
    <3>3. CASE seen[w].limits = None
      <4>1. tx[w].limits = job[w].limits
        BY <1>2, <2>1, <2>4, <3>3 DEF HistoryInv, TxInv, Puts
      <4> HIDE DEF SourcesNext
      <4>2. QED
        BY <2>1, <3>2, <4>1
    <3>4. CASE seen[w].limits # None
      <4>1. configs[i] # None
            /\ tx[w].limits = Patch(configs[i], seen[w].limits, job[w].limits)
        BY <1>2, <2>1, <2>4, <3>1, <3>4 DEF HistoryInv, SeenInv, LimitsSeen
      <4>2. From(configs[i], SourcesNext(i))
        BY <1>5, <4>1
      <4>3. /\ tx[w].limits.allowed \in {configs[i].allowed, job[w].limits.allowed}
            /\ tx[w].limits.window \in {configs[i].window, job[w].limits.window}
        BY <4>1 DEF Patch
      <4> HIDE DEF SourcesNext
      <4>4. QED
        BY <2>1, <3>2, <4>2, <4>3
    <3>5. QED
      BY <3>3, <3>4
  <2>5. QED
    BY <1>1, <2>2, <2>3, <2>4
<1>8. QED
  BY <1>6, <1>7

\* When all who set is_active agree, a commit of theirs leaves it at that.
LEMMA CommitActive ==
  ASSUME Inv, HistoryInv, NEW w \in Workers, Commits(w), NEW i \in Ids,
         NEW a \in BOOLEAN, Took(i, "set_active")' # {},
         \A v \in Took(i, "set_active")' : job[v].active = a
  PROVE  clients'[i].active = a
<1>1. /\ job[w].op \in {"register", "set_active", "put"}
      /\ tx[w].id \in Ids /\ pc[w] = "commit"
  BY JobShape DEF Inv, TypeInv, TypeOK, Commits
<1>2. Took(i, "set_active") \subseteq Took(i, "set_active")'
  BY DEF Commits
<1>3. Took(i, "set_active") # {} => clients[i].active = a /\ clients[i] # None
  BY <1>2 DEF HistoryInv, UncontestedSettingsHold, KnownInv
<1>4. CASE job[w].op = "set_active" /\ job[w].id = i
  <2>1. tx[w].id = i /\ w \in Took(i, "set_active")'
    BY <1>4 DEF Commits
  <2>2. job[w].active = a
    BY <2>1
  <2>3. CASE tx[w].active # None
    <3>1. tx[w].active = job[w].active
      BY <1>1, <1>4, <2>3 DEF HistoryInv, TxInv, Switches
    <3>2. clients'[i].active = tx[w].active
      BY <1>4, <2>1, <2>3 DEF Commits
    <3>3. QED
      BY <2>2, <3>1, <3>2
  <2>4. CASE tx[w].active = None
    <3>1. clients'[i].active = clients[i].active
      BY <1>4, <2>1, <2>4 DEF Commits
    <3>2. seen[w].active = job[w].active
      <4>1. job[w].active # None
        BY <1>4, JobShape, NoneBoolean DEF Inv, TypeInv, TypeOK
      <4>2. QED
        BY <1>1, <1>4, <2>4, <4>1 DEF HistoryInv, TxInv, Switches
    <3>3. \/ clients[i].active = seen[w].active
          \/ \E u \in Took(i, "set_active") : job[u].active # seen[w].active
      BY <1>1, <1>4 DEF HistoryInv, SeenInv, ActiveSeen
    <3>4. QED
      BY <1>2, <2>2, <3>1, <3>2, <3>3
  <2>5. QED
    BY <2>3, <2>4
<1>5. CASE ~(job[w].op = "set_active" /\ job[w].id = i)
  <2>1. Took(i, "set_active") = Took(i, "set_active")'
    BY <1>5 DEF Commits
  <2>2. clients[i].active = a /\ clients[i] # None
    BY <1>3, <2>1
  <2>3. clients'[i] = clients[i]
    <3>1. CASE tx[w].id # i
      BY <3>1 DEF Commits
    <3>2. CASE tx[w].id = i
      BY <1>1, <1>5, <2>2, <3>2 DEF Commits
    <3>3. QED
      BY <3>1, <3>2
  <2>4. QED
    BY <2>2, <2>3
<1>6. QED
  BY <1>4, <1>5

\* When all who put limits agree, a commit of theirs leaves them at that.
LEMMA CommitLimits ==
  ASSUME Inv, HistoryInv, NEW w \in Workers, Commits(w), NEW i \in Ids, NEW l,
         Took(i, "put")' # {}, \A v \in Took(i, "put")' : job[v].limits = l
  PROVE  configs'[i] = l
<1>1. /\ job[w].op \in {"register", "set_active", "put"}
      /\ tx[w].id \in Ids /\ pc[w] = "commit"
  BY JobShape DEF Inv, TypeInv, TypeOK, Commits
<1>2. Took(i, "put") \subseteq Took(i, "put")'
  BY DEF Commits
<1>3. Took(i, "put") # {} => configs[i] = l /\ clients[i] # None
  <2> SUFFICES ASSUME NEW v \in Took(i, "put") PROVE configs[i] = l /\ clients[i] # None
    OBVIOUS
  <2>1. \A u \in Took(i, "put") : job[u].limits = job[v].limits
    BY <1>2
  <2>2. configs[i] = job[v].limits /\ clients[i] # None
    BY <2>1 DEF HistoryInv, UncontestedSettingsHold, KnownInv
  <2>3. QED
    BY <1>2, <2>2
<1>4. CASE job[w].op = "put" /\ job[w].id = i
  <2>1. tx[w].id = i /\ w \in Took(i, "put")'
    BY <1>4 DEF Commits
  <2>2. job[w].limits = l
    BY <2>1
  \* What the request loaded is what is stored, or others have put l already.
  <2>3. configs[i] = l \/ seen[w].limits = configs[i]
    BY <1>1, <1>3, <1>4 DEF HistoryInv, SeenInv, LimitsSeen
  <2>4. CASE tx[w].limits = None
    <3>1. seen[w].limits = l
      BY <1>1, <1>4, <2>2, <2>4 DEF HistoryInv, TxInv, Puts
    <3>2. configs'[i] = configs[i]
      BY <2>1, <2>4 DEF Commits
    <3>3. QED
      BY <2>3, <3>1, <3>2
  <2>5. CASE tx[w].limits # None
    <3>1. configs'[i] = tx[w].limits
      BY <2>1, <2>5 DEF Commits
    <3>2. CASE seen[w].limits = None
      BY <1>1, <1>4, <2>2, <2>5, <3>1, <3>2 DEF HistoryInv, TxInv, Puts
    <3>3. CASE seen[w].limits # None
      <4>1. /\ configs[i] # None
            /\ tx[w].limits = Patch(configs[i], seen[w].limits, l)
        BY <1>1, <1>4, <2>2, <2>5, <3>3 DEF HistoryInv, SeenInv, LimitsSeen
      <4>2. l \in Limits
        BY <1>4, <2>2, JobShape DEF Inv, TypeInv, TypeOK
      <4>3. l = [allowed |-> l.allowed, window |-> l.window]
        BY <4>2 DEF Limits
      <4>4. Patch(configs[i], seen[w].limits, l) = [allowed |-> l.allowed, window |-> l.window]
        BY <2>3 DEF Patch
      <4>5. QED
        BY <3>1, <4>1, <4>3, <4>4
    <3>4. QED
      BY <3>2, <3>3
  <2>6. QED
    BY <2>4, <2>5
<1>5. CASE ~(job[w].op = "put" /\ job[w].id = i)
  <2>1. Took(i, "put") = Took(i, "put")'
    BY <1>5 DEF Commits
  <2>2. configs[i] = l /\ clients[i] # None
    BY <1>3, <2>1
  <2>3. configs'[i] = configs[i]
    <3>1. CASE tx[w].id # i
      BY <3>1 DEF Commits
    <3>2. CASE tx[w].id = i
      <4>1. job[w].op = "set_active"
        BY <1>1, <1>5, <2>2, <3>2 DEF Commits
      <4>2. tx[w].limits = None
        BY <1>1, <4>1 DEF HistoryInv, TxInv, Switches
      <4>3. QED
        BY <3>2, <4>2 DEF Commits
    <3>3. QED
      BY <3>1, <3>2
  <2>4. QED
    BY <2>2, <2>3
<1>6. QED
  BY <1>4, <1>5

LEMMA CommitHistoryInv ==
  ASSUME Inv, HistoryInv, NEW w \in Workers, NEW s \in {200, 201, 500},
         CommitAs(w, s)
  PROVE  HistoryInv'
<1>1. Commits(w)
  BY CommitEffect
<1>2. job' = job
  BY <1>1 DEF Commits, Moves
<1>3. UncontestedSettingsHold'
  <2> SUFFICES ASSUME NEW i \in Ids
               PROVE  /\ \A a \in BOOLEAN :
                           Took(i, "set_active")' # {}
                             /\ (\A v \in Took(i, "set_active")' : job[v].active = a)
                           => clients'[i].active = a
                      /\ \A v \in Took(i, "put")' :
                           (\A u \in Took(i, "put")' : job[u].limits = job[v].limits)
                           => configs'[i] = job[v].limits
    BY <1>2 DEF UncontestedSettingsHold
  <2>1. ASSUME NEW a \in BOOLEAN, Took(i, "set_active")' # {},
               \A v \in Took(i, "set_active")' : job[v].active = a
        PROVE  clients'[i].active = a
    BY <1>1, <2>1, CommitActive
  <2>2. ASSUME NEW v \in Took(i, "put")',
               \A u \in Took(i, "put")' : job[u].limits = job[v].limits
        PROVE  configs'[i] = job[v].limits
    <3>1. PICK l : l = job[v].limits
      OBVIOUS
    <3>2. QED
      BY <1>1, <2>2, <3>1, CommitLimits
  <2>3. QED
    BY <2>1, <2>2
<1>4. QED
  BY <1>1, <1>3, CommitTx, CommitSeen, CommitKnown, CommitProvision, CommitAudit,
     CommitColumns DEF HistoryInv

LEMMA NextHistoryInv == Inv /\ HistoryInv /\ [Next]_vars => HistoryInv'
<1> SUFFICES ASSUME Inv, HistoryInv, [Next]_vars PROVE HistoryInv'
  OBVIOUS
<1>1. CASE UNCHANGED vars
  <2>1. /\ TxInv' /\ LockInv'
        /\ \A i, o : Took(i, o)' = Took(i, o)
        /\ \A i, a : Recorded(i, a)' = Recorded(i, a)
    BY <1>1 DEF vars, HistoryInv, TxInv, Registers, Switches, Puts, LockInv, Recorded,
                Took
  <2>2. SeenInv'
    BY <1>1, <2>1 DEF vars, HistoryInv, SeenInv, ActiveSeen, LimitsSeen
  <2>3. KnownInv' /\ SilentInv'
    BY <1>1, <2>1 DEF vars, HistoryInv, KnownInv, SilentInv
  <2>4. ProvisionedTogether' /\ AuditMatchesCommits'
    BY <1>1, <2>1 DEF vars, HistoryInv, ProvisionedTogether, AuditMatchesCommits
  <2>5. ColumnsRequested' /\ UncontestedSettingsHold'
    BY <1>1, <2>1 DEF vars, HistoryInv, ColumnsRequested, UncontestedSettingsHold,
                      Before
  <2>6. QED
    BY <2>1, <2>2, <2>3, <2>4, <2>5 DEF HistoryInv
<1>2. ASSUME NEW w \in Workers, Step(w) PROVE HistoryInv'
  <2>1. CASE RefuseEmail(w) \/ InsertClientFails(w) \/ NotFound(w)
             \/ CreateConfigFails(w)
    BY <2>1, AbortHistoryInv
       DEF RefuseEmail, InsertClientFails, NotFound, CreateConfigFails, Inv
  <2>2. CASE CheckEmail(w) \/ LoadClient(w) \/ LoadConfig(w)
    BY <2>2, ReadHistoryInv
  <2>3. CASE InsertClient(w)
    BY <2>3, InsertHistoryInv
  <2>4. CASE Provision(w)
    BY <2>4, ProvisionHistoryInv
  <2>5. CASE FlushActive(w)
    BY <2>5, FlushActiveHistoryInv
  <2>6. CASE UpdateConfig(w) \/ CreateConfig(w)
    BY <2>6, PutHistoryInv
  <2>7. CASE Commit(w)
    BY <2>7, CommitHistoryInv DEF Commit
  <2>8. QED
    BY <1>2, <2>1, <2>2, <2>3, <2>4, <2>5, <2>6, <2>7 DEF Step
<1>3. ASSUME NEW w \in Workers, CommitUnconfirmed(w) PROVE HistoryInv'
  BY <1>3, CommitHistoryInv DEF CommitUnconfirmed
<1>4. ASSUME NEW w \in Workers, Fail(w) PROVE HistoryInv'
  BY <1>4, AbortHistoryInv DEF Fail, Ended, Inv
<1>5. QED
  BY <1>1, <1>2, <1>3, <1>4 DEF Next

LEMMA HistoryInvInvariant == Spec => [](Inv /\ HistoryInv)
  BY InitInv, NextInv, InitHistoryInv, NextHistoryInv, PTL DEF Spec

\* ProvisionedTogether: register_client inserts a client, its limits and two
\* audit entries in one transaction, so whatever fails between its statements
\* and whoever else commits, all of them are there or none.
THEOREM RegistrationWhole == Spec => []ProvisionedTogether
<1>1. HistoryInv => ProvisionedTogether
  BY DEF HistoryInv
<1>2. QED
  BY <1>1, HistoryInvInvariant, PTL

\* AuditMatchesCommits: each service calls AuditRepository.create in the
\* transaction of the change, so the log has one entry for every committed
\* change and none for others, a lost answer of the COMMIT included.
THEOREM AuditComplete == Spec => []AuditMatchesCommits
<1>1. HistoryInv => AuditMatchesCommits
  BY DEF HistoryInv
<1>2. QED
  BY <1>1, HistoryInvInvariant, PTL

\* ColumnsRequested: PUTs that loaded the same row may mix their columns in
\* RateLimitRepository.upsert, but no column ever holds a value that neither a
\* PUT nor the client's registration asked for.
THEOREM NoInventedColumns == Spec => []ColumnsRequested
<1>1. HistoryInv => ColumnsRequested
  BY DEF HistoryInv
<1>2. QED
  BY <1>1, HistoryInvInvariant, PTL

\* UncontestedSettingsHold: after a disable, an enable or a PUT has committed,
\* what it asked for stays until a request that asks for something else commits,
\* although the ORM writes nothing when the loaded value is the one asked for.
THEOREM SettingsHold == Spec => []UncontestedSettingsHold
<1>1. HistoryInv => UncontestedSettingsHold
  BY DEF HistoryInv
<1>2. QED
  BY <1>1, HistoryInvInvariant, PTL
=============================================================================
