------------------------- MODULE ClientAdminProofs --------------------------
(***************************************************************************)
(* Type correctness of ClientAdmin, the uniqueness of emails, and that the *)
(* administrative requests implement ClientRows, for any number of them,   *)
(* whatever they ask for.  At the end, that nobody who is waited for       *)
(* waits: no locks of Postgres can close a circle.                         *)
(***************************************************************************)
EXTENDS AdminRows, TLAPS

\* Where a request is tells what it asks for, which rows it holds and that the
\* client it loaded still exists (clients are never deleted).
ProgressInv ==
  \A w \in Workers :
    /\ pc[w] \in {"insert", "provision"} => job[w].op = "register"
    /\ pc[w] = "flush" => job[w].op = "set_active"
    /\ pc[w] \in {"config", "write"} => job[w].op = "put"
    /\ pc[w] \in {"provision", "commit"} => tx[w].id # None
    /\ pc[w] \in {"flush", "config", "write"} => clients[job[w].id] # None
    /\ pc[w] = "write" /\ seen[w].limits # None => configs[job[w].id] # None
    /\ tx[w].client = None /\ tx[w].id # None => clients[tx[w].id] # None

TypeInv == TypeOK /\ ProgressInv

LEMMA JobShape ==
  ASSUME NEW j \in Jobs
  PROVE  /\ j.op \in {"register", "set_active", "put"}
         /\ j.op = "register" => j.email \in Emails
         /\ j.op = "set_active" => j.id \in Ids /\ j.active \in BOOLEAN
         /\ j.op = "put" => j.id \in Ids /\ j.limits \in Limits
  BY JobsType DEF Register, SetTo, PutLimits

LEMMA NullTypes ==
  /\ NoWrites \in Transactions
  /\ NothingSeen \in [active : OrNone(BOOLEAN), limits : OrNone(Limits)]
  /\ \A s \in {0, 200, 201, 404, 409, 500} : Answer(s) \in Replies
  BY DEF NoWrites, NothingSeen, Answer, Transactions, Replies, OrNone

LEMMA InitTypeInv == Init => TypeInv
<1>1. Init => TypeOK
  BY NullTypes, InitialType DEF Init, TypeOK, OrNone
<1>2. Init => ProgressInv
  BY DEF Init, ProgressInv, NoWrites
<1>3. QED
  BY <1>1, <1>2 DEF TypeInv

\* One field of a record replaced, for any sets of values of the fields.
LEMMA TransactionFields ==
  ASSUME NEW A, NEW B, NEW C, NEW D, NEW E,
         NEW t \in [id : A, client : B, active : C, limits : D, audit : E]
  PROVE  /\ \A i \in A, c \in C, e \in E :
              [t EXCEPT !.id = i, !.active = c, !.audit = e]
                \in [id : A, client : B, active : C, limits : D, audit : E]
         /\ \A i \in A, d \in D, e \in E :
              [t EXCEPT !.id = i, !.limits = d, !.audit = e]
                \in [id : A, client : B, active : C, limits : D, audit : E]
  OBVIOUS

LEMMA ReplyFields ==
  ASSUME NEW S, NEW B, NEW L, NEW a \in [status : S, active : B, limits : L]
  PROVE  /\ \A s \in S : [a EXCEPT !.status = s]
                          \in [status : S, active : B, limits : L]
         /\ \A b \in B : [a EXCEPT !.active = b]
                          \in [status : S, active : B, limits : L]
         /\ \A l \in L : [a EXCEPT !.limits = l]
                          \in [status : S, active : B, limits : L]
  OBVIOUS

LEMMA ShortSeq ==
  ASSUME NEW S, NEW a \in S, NEW b \in S
  PROVE  <<a>> \in Seq(S) /\ <<a, b>> \in Seq(S)
  OBVIOUS

LEMMA PatchType ==
  ASSUME NEW row \in Limits, NEW old \in Limits, NEW new \in Limits
  PROVE  Patch(row, old, new) \in Limits
  BY DEF Patch, Limits
-----------------------------------------------------------------------------
(* One lemma for each kind of step. *)
LEMMA AbortTypeInv ==
  ASSUME TypeInv, NEW w \in Workers, NEW s \in {404, 409, 500}, Abort(w, s)
  PROVE  TypeInv'
<1>1. TypeOK'
  BY NullTypes DEF TypeInv, TypeOK, Abort, Write
<1>2. ProgressInv'
  BY DEF TypeInv, TypeOK, ProgressInv, Abort, Write, NoWrites
<1>3. QED
  BY <1>1, <1>2 DEF TypeInv

LEMMA ReadTypeInv ==
  ASSUME TypeInv, NEW w \in Workers,
         CheckEmail(w) \/ LoadClient(w) \/ LoadConfig(w)
  PROVE  TypeInv'
<1>1. /\ job[w].op \in {"register", "set_active", "put"}
      /\ job[w].op # "register" => job[w].id \in Ids
  BY JobShape DEF TypeInv, TypeOK
<1>2. CASE CheckEmail(w)
  BY <1>2 DEF TypeInv, TypeOK, ProgressInv, CheckEmail, Go, Tables
<1>3. CASE LoadClient(w)
  <2>1. clients[job[w].id].active \in BOOLEAN
    BY <1>1, <1>3 DEF LoadClient, TypeInv, TypeOK, OrNone, Clients
  <2>2. TypeOK'
    BY <1>3, <2>1 DEF TypeInv, TypeOK, LoadClient, Go, Tables, OrNone
  <2>3. ProgressInv'
    BY <1>1, <1>3 DEF TypeInv, TypeOK, ProgressInv, LoadClient, Go, Tables
  <2>4. QED
    BY <2>2, <2>3 DEF TypeInv
<1>4. CASE LoadConfig(w)
  <2>1. job[w].op = "put" /\ configs[job[w].id] \in OrNone(Limits)
    BY <1>1, <1>4 DEF LoadConfig, Go, TypeInv, TypeOK, ProgressInv
  <2>2. TypeOK'
    BY <1>4, <2>1 DEF TypeInv, TypeOK, LoadConfig, Go, Tables
  <2>3. ProgressInv'
    BY <1>4, <2>1 DEF TypeInv, TypeOK, ProgressInv, LoadConfig, Go, Tables
  <2>4. QED
    BY <2>2, <2>3 DEF TypeInv
<1>5. QED
  BY <1>2, <1>3, <1>4

LEMMA InsertTypeInv ==
  ASSUME TypeInv, NEW w \in Workers, InsertClient(w)
  PROVE  TypeInv'
<1>1. PICK i \in Ids :
        /\ Go(w, "insert", "provision")
        /\ Write(w, [tx[w] EXCEPT !.id = i,
                     !.client = [email |-> job[w].email, active |-> TRUE]])
        /\ UNCHANGED <<Tables, job, seen, reply>>
  BY DEF InsertClient
<1> DEFINE row == [email |-> job[w].email, active |-> TRUE]
           t == [tx[w] EXCEPT !.id = i, !.client = row]
<1>2. row \in Clients
  BY <1>1, JobShape DEF TypeInv, TypeOK, ProgressInv, Go, Clients
<1>3. t \in Transactions /\ t.id = i /\ t.client = row
  BY <1>2 DEF TypeInv, TypeOK, Transactions, OrNone
<1>4. i # None /\ row # None
  BY <1>2, InitialType
<1>5. tx' = [tx EXCEPT ![w] = t]
  BY <1>1 DEF Write
<1> HIDE DEF t, row
<1>6. TypeOK'
  BY <1>1, <1>3, <1>5 DEF TypeInv, TypeOK, Go, Tables
<1>7. ProgressInv'
  BY <1>1, <1>3, <1>4, <1>5 DEF TypeInv, TypeOK, ProgressInv, Go, Tables
<1>8. QED
  BY <1>6, <1>7 DEF TypeInv

LEMMA ProvisionTypeInv ==
  ASSUME TypeInv, NEW w \in Workers, Provision(w)
  PROVE  TypeInv'
<1> DEFINE i == tx[w].id
           es == <<Entry(i, "CLIENT_REGISTERED", None, None),
                   Entry(i, "API_KEY_GENERATED", None, None)>>
           t == [tx[w] EXCEPT !.limits = DefaultLimits, !.audit = es]
<1>1. tx[w] \in Transactions /\ i \in Ids /\ pc[w] = "provision"
  BY DEF Provision, Go, TypeInv, TypeOK, ProgressInv, Transactions, OrNone
<1>2. es \in Seq(Entries)
  <2>1. None \in OrNone(Limits)
    BY DEF OrNone
  <2>2. /\ Entry(i, "CLIENT_REGISTERED", None, None) \in Entries
        /\ Entry(i, "API_KEY_GENERATED", None, None) \in Entries
    BY <1>1, <2>1 DEF Entry, Entries, Actions
  <2>3. QED
    BY <2>2, ShortSeq
<1>3. t \in Transactions /\ t.id = tx[w].id /\ t.client = tx[w].client
  BY <1>1, <1>2, InitialType DEF Transactions, OrNone
<1>4. tx' = [tx EXCEPT ![w] = t]
  BY DEF Provision, Write
<1> HIDE DEF t
<1>5. TypeOK'
  BY <1>3, <1>4 DEF TypeInv, TypeOK, Provision, Go, Tables
<1>6. ProgressInv'
  BY <1>1, <1>3, <1>4 DEF TypeInv, TypeOK, ProgressInv, Provision, Go, Tables
<1>7. QED
  BY <1>5, <1>6 DEF TypeInv

\* What a flush that only rewrites its own transaction and reply keeps.
LEMMA FlushTypeInv ==
  ASSUME TypeInv, NEW w \in Workers, NEW t \in Transactions, NEW a \in Replies,
         t.id \in Ids, clients[t.id] # None, Write(w, t),
         pc' = [pc EXCEPT ![w] = "commit"], reply' = [reply EXCEPT ![w] = a],
         UNCHANGED <<Tables, job, seen>>
  PROVE  TypeInv'
<1>1. TypeOK'
  BY DEF TypeInv, TypeOK, Write, Tables
<1>2. t.id # None
  BY InitialType
<1>3. ProgressInv'
  BY <1>2 DEF TypeInv, TypeOK, ProgressInv, Write, Tables
<1>4. QED
  BY <1>1, <1>3 DEF TypeInv

LEMMA FlushActiveTypeInv ==
  ASSUME TypeInv, NEW w \in Workers, FlushActive(w)
  PROVE  TypeInv'
<1> DEFINE i == job[w].id
           changed == seen[w].active # job[w].active
           entry == Entry(i, IF job[w].active THEN "CLIENT_ACTIVATED"
                                              ELSE "CLIENT_DEACTIVATED", None, None)
           t == [tx[w] EXCEPT !.id = i,
                   !.active = IF changed THEN job[w].active ELSE None,
                   !.audit = <<entry>>]
           a == [reply[w] EXCEPT !.active =
                   IF changed THEN job[w].active ELSE clients[i].active]
<1>1. pc[w] = "flush" /\ job[w].op = "set_active"
  BY DEF FlushActive, Go, TypeInv, ProgressInv
<1>2. i \in Ids /\ job[w].active \in BOOLEAN /\ clients[i] \in Clients
  BY <1>1, JobShape DEF TypeInv, TypeOK, ProgressInv, OrNone
<1>3. <<entry>> \in Seq(Entries)
  <2>1. None \in OrNone(Limits)
    BY DEF OrNone
  <2>2. entry \in Entries
    BY <1>2, <2>1 DEF Entry, Entries, Actions
  <2>3. QED
    BY <2>2, ShortSeq
<1>4. t \in Transactions /\ t.id = i
  <2>1. (IF changed THEN job[w].active ELSE None) \in OrNone(BOOLEAN)
    BY <1>2, Zenon DEF OrNone
  <2>2. i \in OrNone(Ids)
    BY <1>2 DEF OrNone
  <2>3. tx[w] \in Transactions
    BY DEF TypeInv, TypeOK
  <2>4. t \in Transactions
    BY <1>3, <2>1, <2>2, <2>3, TransactionFields, Zenon DEF Transactions
  <2>5. t.id = i
    BY <2>3 DEF Transactions
  <2>6. QED
    BY <2>4, <2>5
<1>5. a \in Replies
  <2>1. clients[i].active \in BOOLEAN
    BY <1>2 DEF Clients
  <2> DEFINE x == IF changed THEN job[w].active ELSE clients[i].active
             S == {0, 200, 201, 404, 409, 500}
  <2>2. x \in OrNone(BOOLEAN)
    BY <1>2, <2>1, Zenon DEF OrNone
  <2>3. reply[w] \in [status : S, active : OrNone(BOOLEAN), limits : OrNone(Limits)]
    BY DEF TypeInv, TypeOK, Replies
  <2> HIDE DEF x, S
  <2>4. [reply[w] EXCEPT !.active = x]
          \in [status : S, active : OrNone(BOOLEAN), limits : OrNone(Limits)]
    BY <2>2, <2>3, ReplyFields, Zenon
  <2>5. QED
    BY <2>4, Zenon DEF x, S, Replies
<1>6. clients[i] # None
  BY <1>1 DEF TypeInv, ProgressInv
<1>7. /\ Write(w, t) /\ reply' = [reply EXCEPT ![w] = a]
      /\ pc' = [pc EXCEPT ![w] = "commit"] /\ UNCHANGED <<Tables, job, seen>>
  BY DEF FlushActive, Go
<1> HIDE DEF t, a, i
<1>8. QED
  BY <1>2, <1>4, <1>5, <1>6, <1>7, FlushTypeInv

LEMMA WriteLimitsTypeInv ==
  ASSUME TypeInv, NEW w \in Workers, NEW stored \in OrNone(Limits),
         NEW answered \in OrNone(Limits), WriteLimits(w, job[w].id, stored, answered)
  PROVE  TypeInv'
<1> DEFINE i == job[w].id
           entry == Entry(i, "RATE_LIMIT_UPDATED", seen[w].limits, job[w].limits)
           t == [tx[w] EXCEPT !.id = i, !.limits = stored, !.audit = <<entry>>]
           a == [reply[w] EXCEPT !.limits = answered]
<1>1. pc[w] = "write" /\ job[w].op = "put"
  BY DEF WriteLimits, Go, TypeInv, ProgressInv
<1>2. i \in Ids /\ job[w].limits \in Limits /\ clients[i] # None
  BY <1>1, JobShape DEF TypeInv, TypeOK, ProgressInv
<1>3. <<entry>> \in Seq(Entries)
  <2>1. seen[w].limits \in OrNone(Limits) /\ job[w].limits \in OrNone(Limits)
    BY <1>2 DEF TypeInv, TypeOK, OrNone
  <2>2. entry \in Entries
    BY <1>2, <2>1 DEF Entry, Entries, Actions
  <2>3. QED
    BY <2>2, ShortSeq
<1>4. t \in Transactions /\ t.id = i
  <2>1. i \in OrNone(Ids)
    BY <1>2 DEF OrNone
  <2>2. tx[w] \in Transactions
    BY DEF TypeInv, TypeOK
  <2>3. t \in Transactions
    BY <1>3, <2>1, <2>2, TransactionFields, Zenon DEF Transactions
  <2>4. t.id = i
    BY <2>2 DEF Transactions
  <2>5. QED
    BY <2>3, <2>4
<1>5. a \in Replies
  <2>1. reply[w] \in Replies
    BY DEF TypeInv, TypeOK
  <2>2. QED
    BY <2>1, ReplyFields DEF Replies
<1>6. /\ Write(w, t) /\ reply' = [reply EXCEPT ![w] = a]
      /\ pc' = [pc EXCEPT ![w] = "commit"] /\ UNCHANGED <<Tables, job, seen>>
  BY DEF WriteLimits, Go
<1> HIDE DEF t, a, i
<1>7. QED
  BY <1>2, <1>4, <1>5, <1>6, FlushTypeInv

LEMMA PutTypeInv ==
  ASSUME TypeInv, NEW w \in Workers, UpdateConfig(w) \/ CreateConfig(w)
  PROVE  TypeInv'
<1>1. pc[w] = "write"
  BY DEF UpdateConfig, CreateConfig, WriteLimits, Go
<1>2. job[w].id \in Ids /\ job[w].limits \in Limits
  BY <1>1, JobShape DEF TypeInv, TypeOK, ProgressInv
<1>3. CASE UpdateConfig(w)
  <2>1. configs[job[w].id] \in Limits /\ seen[w].limits \in Limits
    BY <1>1, <1>2, <1>3 DEF UpdateConfig, TypeInv, TypeOK, ProgressInv, OrNone
  <2>2. Patch(configs[job[w].id], seen[w].limits, job[w].limits) \in Limits
    BY <1>2, <2>1, PatchType
  <2>3. QED
    BY <1>3, <2>1, <2>2, WriteLimitsTypeInv DEF UpdateConfig, OrNone
<1>4. CASE CreateConfig(w)
  BY <1>2, <1>4, WriteLimitsTypeInv DEF CreateConfig, OrNone
<1>5. QED
  BY <1>3, <1>4

\* A commit only replaces rows by rows.
LEMMA CommitRows ==
  ASSUME TypeInv, NEW w \in Workers, NEW s \in {200, 201, 500}, CommitAs(w, s)
  PROVE  /\ clients' \in [Ids -> OrNone(Clients)]
         /\ configs' \in [Ids -> OrNone(Limits)]
         /\ tx[w].id \in Ids
         /\ \A i \in Ids : clients[i] # None => clients'[i] # None
         /\ \A i \in Ids : configs[i] # None => configs'[i] # None
<1> DEFINE t == tx[w]
           new == IF t.client # None THEN t.client
                  ELSE IF t.active # None THEN [clients[t.id] EXCEPT !.active = t.active]
                  ELSE clients[t.id]
           lim == IF t.limits # None THEN t.limits ELSE configs[t.id]
<1>1. pc[w] = "commit" /\ t \in Transactions /\ t.id \in Ids
  BY DEF CommitAs, Go, TypeInv, TypeOK, ProgressInv, Transactions, OrNone
<1>2. t.client = None => clients[t.id] \in Clients
  BY <1>1 DEF TypeInv, TypeOK, ProgressInv, OrNone, Transactions
<1>3. new \in Clients
  BY <1>1, <1>2 DEF Transactions, OrNone, Clients
<1>4. lim \in OrNone(Limits) /\ (configs[t.id] # None => lim # None)
  BY <1>1 DEF Transactions, OrNone, TypeInv, TypeOK
<1>5. clients' = [clients EXCEPT ![t.id] = new] /\ configs' = [configs EXCEPT ![t.id] = lim]
  BY DEF CommitAs
<1>6. new # None
  BY <1>3, InitialType
<1> HIDE DEF new, lim
<1>7. QED
  BY <1>1, <1>3, <1>4, <1>5, <1>6 DEF TypeInv, TypeOK, OrNone

LEMMA CommitTypeInv ==
  ASSUME TypeInv, NEW w \in Workers, NEW s \in {200, 201, 500}, CommitAs(w, s)
  PROVE  TypeInv'
<1>1. audit' \in Seq(Entries)
  <2>1. audit \in Seq(Entries) /\ tx[w].audit \in Seq(Entries)
    BY DEF TypeInv, TypeOK, Transactions
  <2>2. audit' = audit \o tx[w].audit
    BY DEF CommitAs
  <2>3. QED
    BY <2>1, <2>2
<1>2. reply' \in [Workers -> Replies]
  <2> DEFINE S == {0, 200, 201, 404, 409, 500}
  <2>1. reply[w] \in [status : S, active : OrNone(BOOLEAN), limits : OrNone(Limits)]
        /\ s \in S
    BY DEF TypeInv, TypeOK, Replies
  <2> HIDE DEF S
  <2>2. [reply[w] EXCEPT !.status = s]
          \in [status : S, active : OrNone(BOOLEAN), limits : OrNone(Limits)]
    BY <2>1, ReplyFields, Zenon
  <2>3. reply' = [reply EXCEPT ![w] = [reply[w] EXCEPT !.status = s]]
    BY DEF CommitAs
  <2> DEFINE new == [reply[w] EXCEPT !.status = s]
  <2> HIDE DEF new
  <2>4. QED
    BY <2>2, <2>3 DEF new, S, TypeInv, TypeOK, Replies
<1>3. /\ tx' = [tx EXCEPT ![w] = NoWrites] /\ pc' = [pc EXCEPT ![w] = "committed"]
      /\ job' = job /\ seen' = seen
  BY DEF CommitAs, Write, Go
<1>4. TypeOK'
  BY <1>1, <1>2, <1>3, CommitRows, NullTypes DEF TypeInv, TypeOK
<1>5. ProgressInv'
  <2> SUFFICES ASSUME NEW v \in Workers PROVE ProgressInv!(v)'
    BY DEF ProgressInv
  <2>1. CASE v = w
    BY <1>3, <2>1 DEF TypeInv, TypeOK, ProgressInv, NoWrites
  <2>2. CASE v # w
    <3>1. pc'[v] = pc[v] /\ tx'[v] = tx[v]
      BY <1>3, <2>2 DEF TypeInv, TypeOK
    <3>2. /\ job[v].op \in {"set_active", "put"} => job[v].id \in Ids
          /\ tx[v].id # None => tx[v].id \in Ids
      BY JobShape DEF TypeInv, TypeOK, Transactions, OrNone
    <3>3. QED
      BY <1>3, <3>1, <3>2, CommitRows DEF TypeInv, ProgressInv
  <2>3. QED
    BY <2>1, <2>2
<1>6. QED
  BY <1>4, <1>5 DEF TypeInv
-----------------------------------------------------------------------------
LEMMA NextTypeInv == TypeInv /\ [Next]_vars => TypeInv'
<1> SUFFICES ASSUME TypeInv, [Next]_vars PROVE TypeInv'
  OBVIOUS
<1>1. CASE UNCHANGED vars
  BY <1>1 DEF vars, TypeInv, TypeOK, ProgressInv
<1>2. ASSUME NEW w \in Workers, Step(w) PROVE TypeInv'
  <2>1. CASE RefuseEmail(w) \/ InsertClientFails(w) \/ NotFound(w)
             \/ CreateConfigFails(w)
    BY <2>1, AbortTypeInv
       DEF RefuseEmail, InsertClientFails, NotFound, CreateConfigFails
  <2>2. CASE CheckEmail(w) \/ LoadClient(w) \/ LoadConfig(w)
    BY <2>2, ReadTypeInv
  <2>3. CASE InsertClient(w)
    BY <2>3, InsertTypeInv
  <2>4. CASE Provision(w)
    BY <2>4, ProvisionTypeInv
  <2>5. CASE FlushActive(w)
    BY <2>5, FlushActiveTypeInv
  <2>6. CASE UpdateConfig(w) \/ CreateConfig(w)
    BY <2>6, PutTypeInv
  <2>7. CASE Commit(w)
    BY <2>7, CommitTypeInv DEF Commit
  <2>8. QED
    BY <1>2, <2>1, <2>2, <2>3, <2>4, <2>5, <2>6, <2>7 DEF Step
<1>3. ASSUME NEW w \in Workers, CommitUnconfirmed(w) PROVE TypeInv'
  BY <1>3, CommitTypeInv DEF CommitUnconfirmed
<1>4. ASSUME NEW w \in Workers, Fail(w) PROVE TypeInv'
  BY <1>4, AbortTypeInv DEF Fail
<1>5. QED
  BY <1>1, <1>2, <1>3, <1>4 DEF Next

\* Rows stay whole and in range, through every interleaving and failure of any
\* number of administrative requests.
THEOREM AdminTypeCorrect == Spec => []TypeOK
<1>1. TypeInv => TypeOK
  BY DEF TypeInv
<1>2. QED
  BY <1>1, InitTypeInv, NextTypeInv, PTL DEF Spec
-----------------------------------------------------------------------------
(* Uniqueness of emails rests on the inserts that have not been committed. *)

Pending(w) == tx[w].client # None

EmailInv ==
  /\ UniqueEmails
  /\ \A w \in Workers : Pending(w) =>
       /\ job[w].op = "register"
       /\ tx[w].id \in Ids /\ clients[tx[w].id] = None
       /\ \A i \in Ids :
            clients[i] # None => clients[i].email # tx[w].client.email
  /\ \A v, w \in Workers : v # w /\ Pending(v) /\ Pending(w) =>
       tx[v].id # tx[w].id /\ tx[v].client.email # tx[w].client.email

LEMMA InitEmailInv == Init => EmailInv
<1>1. \A i \in Ids : InitialClients[i] # None => InitialClients[i] \in Clients
  BY InitialType
<1>2. Init => UniqueEmails
  BY <1>1, InitialType DEF Init, UniqueEmails
<1>3. QED
  BY <1>2 DEF Init, EmailInv, Pending, NoWrites

\* Steps that touch no client row and start no insert.
LEMMA KeepEmailInv ==
  ASSUME TypeInv, EmailInv, NEW w \in Workers, NEW t, Write(w, t),
         UNCHANGED <<clients, job>>,
         t.client # None => t.client = tx[w].client /\ t.id = tx[w].id
  PROVE  EmailInv'
<1>1. \A v \in Workers : tx'[v] = IF v = w THEN t ELSE tx[v]
  BY DEF Write, TypeInv, TypeOK
<1>2. \A v \in Workers : Pending(v)' =>
        Pending(v) /\ tx'[v].client = tx[v].client /\ tx'[v].id = tx[v].id
  BY <1>1 DEF Pending
<1>3. UniqueEmails'
  BY DEF EmailInv, UniqueEmails
<1>4. QED
  BY <1>2, <1>3 DEF EmailInv

LEMMA InsertEmailInv ==
  ASSUME TypeInv, EmailInv, NEW w \in Workers, InsertClient(w)
  PROVE  EmailInv'
<1>1. PICK i \in Ids :
        /\ Unused(i) /\ ~EmailPending(w, job[w].email) /\ ~Registered(job[w].email)
        /\ Go(w, "insert", "provision")
        /\ Write(w, [tx[w] EXCEPT !.id = i,
                     !.client = [email |-> job[w].email, active |-> TRUE]])
        /\ UNCHANGED <<Tables, job, seen, reply>>
  BY DEF InsertClient
<1> DEFINE row == [email |-> job[w].email, active |-> TRUE]
           t == [tx[w] EXCEPT !.id = i, !.client = row]
<1>2. job[w].op = "register"
  BY <1>1 DEF TypeInv, ProgressInv, Go
<1>3. t.id = i /\ t.client = row /\ row.email = job[w].email
  BY DEF TypeInv, TypeOK, Transactions
<1>4. tx' = [tx EXCEPT ![w] = t] /\ clients' = clients /\ job' = job
  BY <1>1 DEF Write, Tables
<1> HIDE DEF t, row
<1>5. /\ tx'[w] = t
      /\ \A v \in Workers : v # w => tx'[v] = tx[v]
  BY <1>4 DEF TypeInv, TypeOK
<1>6. \A v \in Workers : v # w /\ Pending(v) =>
        tx[v].id # i /\ tx[v].client.email # job[w].email
  BY <1>1 DEF EmailPending, Unused, Pending
<1>7. \A j \in Ids : clients[j] # None => clients[j].email # job[w].email
  BY <1>1 DEF Registered
<1>8. UniqueEmails'
  BY <1>4 DEF EmailInv, UniqueEmails
<1>9. clients[i] = None
  BY <1>1 DEF Unused
<1>10. \A v \in Workers : v # w => (Pending(v)' <=> Pending(v))
  BY <1>5 DEF Pending
<1>11. QED
  BY <1>2, <1>3, <1>4, <1>5, <1>6, <1>7, <1>8, <1>9, <1>10 DEF EmailInv

LEMMA CommitEmailInv ==
  ASSUME TypeInv, EmailInv, NEW w \in Workers, NEW s \in {200, 201, 500},
         CommitAs(w, s)
  PROVE  EmailInv'
<1> DEFINE k == tx[w].id
<1>1. /\ tx'[w].client = None /\ job' = job
      /\ \A v \in Workers : v # w => tx'[v] = tx[v]
  BY DEF CommitAs, Write, NoWrites, TypeInv, TypeOK
<1>2. /\ k \in Ids
      /\ \A i \in Ids : i # k => clients'[i] = clients[i]
  <2>1. k \in Ids
    BY CommitRows
  <2> DEFINE t == tx[w]
             new == IF t.client # None THEN t.client
                    ELSE IF t.active # None THEN [clients[k] EXCEPT !.active = t.active]
                    ELSE clients[k]
  <2>2. clients' = [clients EXCEPT ![k] = new]
    BY DEF CommitAs
  <2> HIDE DEF new
  <2>3. QED
    BY <2>1, <2>2 DEF TypeInv, TypeOK
<1>3. \A v \in Workers : Pending(v)' => v # w /\ Pending(v)
  BY <1>1 DEF Pending
<1>4. CASE Pending(w)
  <2>1. clients'[k] = tx[w].client
    BY <1>2, <1>4 DEF CommitAs, Pending, TypeInv, TypeOK
  <2>2. UniqueEmails'
    BY <1>2, <1>4, <2>1 DEF EmailInv, UniqueEmails, Pending
  <2>3. \A v \in Workers : v # w /\ Pending(v) =>
          tx[v].id # k /\ tx[v].client.email # tx[w].client.email
    BY <1>4 DEF EmailInv
  <2>4. QED
    BY <1>1, <1>2, <1>3, <2>1, <2>2, <2>3 DEF EmailInv, Pending
<1>5. CASE ~Pending(w)
  <2>1. clients[k] # None /\ clients[k] \in Clients
    BY <1>2, <1>5 DEF CommitAs, Go, Pending, TypeInv, TypeOK, ProgressInv, OrNone
  <2>2. clients'[k].email = clients[k].email
    BY <1>2, <1>5, <2>1 DEF CommitAs, Pending, TypeInv, TypeOK, Clients
  <2>3. clients'[k] # None
    BY <1>2, <2>1, CommitRows
  <2>4. \A i \in Ids : /\ clients'[i] # None <=> clients[i] # None
                       /\ clients[i] # None => clients'[i].email = clients[i].email
    BY <1>2, <2>1, <2>2, <2>3
  <2>5. UniqueEmails'
    BY <2>4 DEF EmailInv, UniqueEmails
  <2>6. QED
    BY <1>1, <1>3, <2>4, <2>5 DEF EmailInv, Pending
<1>6. QED
  BY <1>4, <1>5

LEMMA NextEmailInv == TypeInv /\ EmailInv /\ [Next]_vars => EmailInv'
<1> SUFFICES ASSUME TypeInv, EmailInv, [Next]_vars PROVE EmailInv'
  OBVIOUS
<1>1. CASE UNCHANGED vars
  BY <1>1 DEF vars, EmailInv, UniqueEmails, Pending
<1>2. ASSUME NEW w \in Workers, NEW n, Abort(w, n) PROVE EmailInv'
  BY <1>2, KeepEmailInv DEF Abort, NoWrites
<1>3. ASSUME NEW w \in Workers, Step(w) PROVE EmailInv'
  <2>1. CASE RefuseEmail(w) \/ InsertClientFails(w) \/ NotFound(w)
             \/ CreateConfigFails(w)
    BY <1>2, <2>1 DEF RefuseEmail, InsertClientFails, NotFound, CreateConfigFails
  <2>2. CASE CheckEmail(w) \/ LoadClient(w) \/ LoadConfig(w)
    <3>1. tx' = tx /\ clients' = clients /\ job' = job
      BY <2>2 DEF CheckEmail, LoadClient, LoadConfig, Tables
    <3>2. QED
      BY <3>1 DEF EmailInv, UniqueEmails, Pending
  <2>3. CASE InsertClient(w)
    BY <2>3, InsertEmailInv
  <2>4. CASE Provision(w)
    <3> DEFINE es == <<Entry(tx[w].id, "CLIENT_REGISTERED", None, None),
                       Entry(tx[w].id, "API_KEY_GENERATED", None, None)>>
               t == [tx[w] EXCEPT !.limits = DefaultLimits, !.audit = es]
    <3>1. Write(w, t) /\ clients' = clients /\ job' = job
      BY <2>4 DEF Provision, Tables
    <3>2. t.client = tx[w].client /\ t.id = tx[w].id
      BY DEF TypeInv, TypeOK, Transactions
    <3> HIDE DEF t
    <3>3. QED
      BY <3>1, <3>2, KeepEmailInv
  <2>5. CASE FlushActive(w) \/ UpdateConfig(w) \/ CreateConfig(w)
    <3>1. ~Pending(w)
      BY <2>5 DEF FlushActive, UpdateConfig, CreateConfig, WriteLimits, Go,
                  EmailInv, TypeInv, ProgressInv
    <3>2. \E t : Write(w, t) /\ t.client = tx[w].client
      <4>1. CASE FlushActive(w)
        <5> DEFINE x == IF seen[w].active # job[w].active THEN job[w].active ELSE None
                   e == Entry(job[w].id, IF job[w].active THEN "CLIENT_ACTIVATED"
                                ELSE "CLIENT_DEACTIVATED", None, None)
                   t == [tx[w] EXCEPT !.id = job[w].id, !.active = x, !.audit = <<e>>]
        <5>1. Write(w, t)
          BY <4>1 DEF FlushActive
        <5> HIDE DEF x, e
        <5>2. t.client = tx[w].client
          BY DEF TypeInv, TypeOK, Transactions
        <5> HIDE DEF t
        <5>3. QED
          BY <5>1, <5>2
      <4>2. ASSUME NEW x, NEW y, WriteLimits(w, job[w].id, x, y)
            PROVE  \E t : Write(w, t) /\ t.client = tx[w].client
        <5> DEFINE e == Entry(job[w].id, "RATE_LIMIT_UPDATED",
                              seen[w].limits, job[w].limits)
                   t == [tx[w] EXCEPT !.id = job[w].id, !.limits = x, !.audit = <<e>>]
        <5>1. Write(w, t)
          BY <4>2 DEF WriteLimits
        <5> HIDE DEF e
        <5>2. t.client = tx[w].client
          BY DEF TypeInv, TypeOK, Transactions
        <5> HIDE DEF t
        <5>3. QED
          BY <5>1, <5>2
      <4>3. QED
        BY <2>5, <4>1, <4>2 DEF UpdateConfig, CreateConfig
    <3>3. clients' = clients /\ job' = job
      BY <2>5 DEF FlushActive, UpdateConfig, CreateConfig, WriteLimits, Tables
    <3>4. QED
      BY <3>1, <3>2, <3>3, KeepEmailInv DEF Pending
  <2>6. CASE Commit(w)
    BY <2>6, CommitEmailInv DEF Commit
  <2>7. QED
    BY <1>3, <2>1, <2>2, <2>3, <2>4, <2>5, <2>6 DEF Step
<1>4. ASSUME NEW w \in Workers, CommitUnconfirmed(w) PROVE EmailInv'
  BY <1>4, CommitEmailInv DEF CommitUnconfirmed
<1>5. ASSUME NEW w \in Workers, Fail(w) PROVE EmailInv'
  BY <1>2, <1>5 DEF Fail
<1>6. QED
  BY <1>1, <1>3, <1>4, <1>5 DEF Next

\* No number of racing registrations makes two clients with one email, although
\* register_client checks and inserts in separate statements.
THEOREM EmailsUnique == Spec => []UniqueEmails
<1>1. EmailInv => UniqueEmails
  BY DEF EmailInv
<1>2. QED
  BY <1>1, InitTypeInv, NextTypeInv, InitEmailInv, NextEmailInv, PTL DEF Spec
-----------------------------------------------------------------------------
(* The rows that other requests read. *)

\* What a transaction holds: nothing before its first write; a new client is
\* enabled and gets its limits before it is committed; and a change of a client
\* is of is_active or of the limits.
ShapeInv ==
  \A w \in Workers :
    /\ pc[w] \notin {"provision", "commit"} => tx[w] = NoWrites
    /\ pc[w] = "provision" => Pending(w)
    /\ Pending(w) => tx[w].client.active = TRUE
    /\ Pending(w) /\ pc[w] = "commit" => tx[w].limits = DefaultLimits
    /\ ~Pending(w) => tx[w].active = None \/ tx[w].limits = None

Inv == TypeInv /\ EmailInv /\ ShapeInv

LEMMA InitInv == Init => Inv
<1>1. Init => ShapeInv
  BY DEF Init, ShapeInv, Pending, NoWrites
<1>2. QED
  BY <1>1, InitTypeInv, InitEmailInv DEF Inv

\* A step of one request that leaves its transaction in shape.
LEMMA KeepShape ==
  ASSUME TypeInv, ShapeInv, NEW w \in Workers, NEW t, Write(w, t),
         NEW p, pc' = [pc EXCEPT ![w] = p],
         p \notin {"provision", "commit"} => t = NoWrites,
         p = "provision" => t.client # None,
         t.client # None => t.client.active = TRUE,
         t.client # None /\ p = "commit" => t.limits = DefaultLimits,
         t.client = None => t.active = None \/ t.limits = None
  PROVE  ShapeInv'
<1>1. \A v \in Workers : tx'[v] = IF v = w THEN t ELSE tx[v]
  BY DEF Write, TypeInv, TypeOK
<1>2. \A v \in Workers : pc'[v] = IF v = w THEN p ELSE pc[v]
  BY DEF TypeInv, TypeOK
<1>3. QED
  BY <1>1, <1>2 DEF ShapeInv, Pending

LEMMA EmptyShape ==
  ASSUME TypeInv, ShapeInv, NEW w \in Workers, Write(w, NoWrites),
         NEW p, pc' = [pc EXCEPT ![w] = p], p \notin {"provision", "commit"}
  PROVE  ShapeInv'
<1>1. NoWrites.client = None /\ NoWrites.active = None
  BY DEF NoWrites
<1>2. QED
  BY <1>1, KeepShape

LEMMA ReadShape ==
  ASSUME TypeInv, ShapeInv, NEW w \in Workers, UNCHANGED tx,
         pc[w] \notin {"provision", "commit"},
         NEW p, pc' = [pc EXCEPT ![w] = p], p \notin {"provision", "commit"}
  PROVE  ShapeInv'
<1>1. \A v \in Workers : pc'[v] = IF v = w THEN p ELSE pc[v]
  BY DEF TypeInv, TypeOK
<1>2. QED
  BY <1>1 DEF ShapeInv, Pending

LEMMA InsertShape ==
  ASSUME TypeInv, ShapeInv, NEW w \in Workers, InsertClient(w)
  PROVE  ShapeInv'
<1>1. PICK i \in Ids :
        /\ Go(w, "insert", "provision")
        /\ Write(w, [tx[w] EXCEPT !.id = i,
                     !.client = [email |-> job[w].email, active |-> TRUE]])
  BY DEF InsertClient
<1> DEFINE row == [email |-> job[w].email, active |-> TRUE]
           t == [tx[w] EXCEPT !.id = i, !.client = row]
<1>2. row \in Clients
  BY <1>1, JobShape DEF TypeInv, TypeOK, ProgressInv, Go, Clients
<1>3. t.client = row /\ row.active = TRUE /\ row # None
  <2>1. t.client = row
    BY DEF TypeInv, TypeOK, Transactions
  <2>2. row # None
    BY <1>2, InitialType
  <2>3. QED
    BY <2>1, <2>2
<1>4. Write(w, t) /\ pc' = [pc EXCEPT ![w] = "provision"]
  BY <1>1 DEF Go
<1> HIDE DEF t, row
<1>5. QED
  BY <1>3, <1>4, KeepShape

LEMMA ProvisionShape ==
  ASSUME TypeInv, ShapeInv, NEW w \in Workers, Provision(w)
  PROVE  ShapeInv'
<1> DEFINE es == <<Entry(tx[w].id, "CLIENT_REGISTERED", None, None),
                   Entry(tx[w].id, "API_KEY_GENERATED", None, None)>>
           t == [tx[w] EXCEPT !.limits = DefaultLimits, !.audit = es]
<1>1. t.client = tx[w].client /\ t.limits = DefaultLimits
  BY DEF TypeInv, TypeOK, Transactions
<1>2. /\ Write(w, t) /\ pc[w] = "provision"
      /\ pc' = [pc EXCEPT ![w] = "commit"]
  BY DEF Provision, Go
<1> HIDE DEF t
<1>3. t.client # None /\ t.client.active = TRUE
  BY <1>1, <1>2 DEF ShapeInv, Pending
<1>4. QED
  BY <1>1, <1>2, <1>3, KeepShape

LEMMA FlushActiveShape ==
  ASSUME TypeInv, ShapeInv, NEW w \in Workers, FlushActive(w)
  PROVE  ShapeInv'
<1> DEFINE x == IF seen[w].active # job[w].active THEN job[w].active ELSE None
           e == Entry(job[w].id, IF job[w].active THEN "CLIENT_ACTIVATED"
                        ELSE "CLIENT_DEACTIVATED", None, None)
           t == [tx[w] EXCEPT !.id = job[w].id, !.active = x, !.audit = <<e>>]
<1>1. /\ Write(w, t) /\ pc[w] = "flush"
      /\ pc' = [pc EXCEPT ![w] = "commit"]
  BY DEF FlushActive, Go
<1> HIDE DEF x, e
<1>2. t.client = tx[w].client /\ t.limits = tx[w].limits
  BY DEF TypeInv, TypeOK, Transactions
<1> HIDE DEF t
<1>3. tx[w].client = None /\ tx[w].active = None /\ tx[w].limits = None
  BY <1>1 DEF ShapeInv, NoWrites
<1>4. QED
  BY <1>1, <1>2, <1>3, KeepShape

LEMMA WriteLimitsShape ==
  ASSUME TypeInv, ShapeInv, NEW w \in Workers, NEW x, NEW y,
         WriteLimits(w, job[w].id, x, y)
  PROVE  ShapeInv'
<1> DEFINE e == Entry(job[w].id, "RATE_LIMIT_UPDATED", seen[w].limits, job[w].limits)
           t == [tx[w] EXCEPT !.id = job[w].id, !.limits = x, !.audit = <<e>>]
<1>1. /\ Write(w, t) /\ pc[w] = "write"
      /\ pc' = [pc EXCEPT ![w] = "commit"]
  BY DEF WriteLimits, Go
<1> HIDE DEF e
<1>2. t.client = tx[w].client /\ t.active = tx[w].active
  BY DEF TypeInv, TypeOK, Transactions
<1> HIDE DEF t
<1>3. tx[w].client = None /\ tx[w].active = None /\ tx[w].limits = None
  BY <1>1 DEF ShapeInv, NoWrites
<1>4. QED
  BY <1>1, <1>2, <1>3, KeepShape

LEMMA CommitShape ==
  ASSUME TypeInv, ShapeInv, NEW w \in Workers, NEW s, CommitAs(w, s)
  PROVE  ShapeInv'
<1>1. Write(w, NoWrites) /\ pc' = [pc EXCEPT ![w] = "committed"]
  BY DEF CommitAs, Go
<1>2. QED
  BY <1>1, EmptyShape

LEMMA AbortShape ==
  ASSUME TypeInv, ShapeInv, NEW w \in Workers, NEW s, Abort(w, s)
  PROVE  ShapeInv'
<1>1. Write(w, NoWrites) /\ pc' = [pc EXCEPT ![w] = "aborted"]
  BY DEF Abort
<1>2. QED
  BY <1>1, EmptyShape

LEMMA NextInv == Inv /\ [Next]_vars => Inv'
<1> SUFFICES ASSUME Inv, [Next]_vars PROVE Inv'
  OBVIOUS
<1>1. TypeInv' /\ EmailInv'
  BY NextTypeInv, NextEmailInv DEF Inv
<1>2. CASE UNCHANGED vars
  BY <1>1, <1>2 DEF vars, Inv, ShapeInv, Pending
<1>3. ASSUME NEW w \in Workers, Step(w) PROVE ShapeInv'
  <2> USE DEF Inv
  <2>1. CASE RefuseEmail(w) \/ InsertClientFails(w) \/ NotFound(w)
             \/ CreateConfigFails(w)
    BY <2>1, AbortShape
       DEF RefuseEmail, InsertClientFails, NotFound, CreateConfigFails
  <2>2. CASE CheckEmail(w)
    BY <2>2, ReadShape DEF CheckEmail, Go
  <2>3. CASE LoadClient(w)
    <3> DEFINE p == IF job[w].op = "put" THEN "config" ELSE "flush"
    <3>1. pc[w] = "start" /\ pc' = [pc EXCEPT ![w] = p] /\ UNCHANGED tx
      BY <2>3 DEF LoadClient, Go
    <3>2. p \notin {"provision", "commit"}
      OBVIOUS
    <3> HIDE DEF p
    <3>3. QED
      BY <3>1, <3>2, ReadShape
  <2>4. CASE LoadConfig(w)
    BY <2>4, ReadShape DEF LoadConfig, Go
  <2>5. CASE InsertClient(w)
    BY <2>5, InsertShape
  <2>6. CASE Provision(w)
    BY <2>6, ProvisionShape
  <2>7. CASE FlushActive(w)
    BY <2>7, FlushActiveShape
  <2>8. CASE UpdateConfig(w) \/ CreateConfig(w)
    BY <2>8, WriteLimitsShape DEF UpdateConfig, CreateConfig
  <2>9. CASE Commit(w)
    BY <2>9, CommitShape DEF Commit
  <2>10. QED
    BY <1>3, <2>1, <2>2, <2>3, <2>4, <2>5, <2>6, <2>7, <2>8, <2>9 DEF Step
<1>4. ASSUME NEW w \in Workers, CommitUnconfirmed(w) PROVE ShapeInv'
  BY <1>4, CommitShape DEF CommitUnconfirmed, Inv
<1>5. ASSUME NEW w \in Workers, Fail(w) PROVE ShapeInv'
  BY <1>5, AbortShape DEF Fail, Inv
<1>6. QED
  BY <1>1, <1>2, <1>3, <1>4, <1>5 DEF Next, Inv
-----------------------------------------------------------------------------
\* The rows a request reads, before and after a commit.
LEMMA CommitMaps ==
  ASSUME Inv, NEW w \in Workers, NEW s \in {200, 201, 500}, CommitAs(w, s)
  PROVE  [Rows!Next]_(RowOf(clients, configs))
<1> DEFINE i == tx[w].id
           R == RowOf(clients, configs)
           S == RowOf(clients', configs')
<1>1. i \in Ids /\ pc[w] = "commit" /\ tx[w] \in Transactions
  <2>1. i \in Ids
    BY CommitRows DEF Inv
  <2>2. pc[w] = "commit"
    BY DEF CommitAs, Go
  <2>3. QED
    BY <2>1, <2>2 DEF Inv, TypeInv, TypeOK
<1>2. /\ clients' = [clients EXCEPT ![i] =
           IF tx[w].client # None THEN tx[w].client
           ELSE IF tx[w].active # None THEN [clients[i] EXCEPT !.active = tx[w].active]
           ELSE clients[i]]
      /\ configs' = [configs EXCEPT ![i] =
           IF tx[w].limits # None THEN tx[w].limits ELSE configs[i]]
  BY DEF CommitAs
<1>3. \A j \in Ids : j # i => clients'[j] = clients[j] /\ configs'[j] = configs[j]
  BY <1>1, <1>2 DEF Inv, TypeInv, TypeOK
<1>4. /\ R = [j \in Ids |-> R[j]] /\ S = [j \in Ids |-> S[j]]
      /\ \A j \in Ids : j # i => S[j] = R[j]
  BY <1>3 DEF RowOf
<1>5. S = [R EXCEPT ![i] = S[i]]
  <2> HIDE DEF R, S
  <2>1. QED
    BY <1>1, <1>4
<1>6. CASE Pending(w)
  <2>1. clients[i] = None
    BY <1>6 DEF Inv, EmailInv
  <2>2. /\ tx[w].client # None /\ tx[w].client.active = TRUE
        /\ tx[w].limits = DefaultLimits /\ DefaultLimits # None
    BY <1>1, <1>6, InitialType DEF Inv, ShapeInv, Pending
  <2>3. clients'[i] = tx[w].client /\ configs'[i] = DefaultLimits
    BY <1>1, <1>2, <2>2 DEF Inv, TypeInv, TypeOK
  <2>4. R[i] = None /\ S[i] = [active |-> TRUE, config |-> DefaultLimits]
    BY <1>1, <2>1, <2>2, <2>3 DEF RowOf
  <2>5. Rows!Register(i)
    BY <1>5, <2>4 DEF Rows!Register
  <2>6. QED
    BY <1>1, <2>5 DEF Rows!Next
<1>7. CASE ~Pending(w)
  <2>1. clients[i] # None /\ clients[i] \in Clients
    BY <1>1, <1>7 DEF Inv, TypeInv, TypeOK, ProgressInv, Pending, OrNone, Transactions
  <2>2. tx[w].client = None
    BY <1>7 DEF Pending
  <2>3. clients'[i] # None
    BY <1>1, <2>1, CommitRows DEF Inv
  <2>4. /\ R[i] = [active |-> clients[i].active, config |-> configs[i]]
        /\ S[i] = [active |-> clients'[i].active, config |-> configs'[i]]
    BY <1>1, <2>1, <2>3 DEF RowOf
  <2>5. /\ configs[i] \in Limits \union {None}
        /\ R[i] # None
    BY <1>1, <2>1, <2>4, NoRowType DEF Inv, TypeInv, TypeOK, OrNone, Clients
  <2>6. CASE tx[w].active # None
    <3>1. tx[w].active \in BOOLEAN /\ tx[w].limits = None
      BY <1>1, <1>7, <2>6 DEF Inv, ShapeInv, Transactions, OrNone
    <3>2. /\ clients'[i].active = tx[w].active
          /\ configs'[i] = configs[i]
      BY <1>1, <1>2, <2>1, <2>2, <2>6, <3>1 DEF Inv, TypeInv, TypeOK, Clients
    <3>3. Rows!SetActive(i, tx[w].active)
      BY <1>5, <2>4, <2>5, <3>2 DEF Rows!SetActive
    <3>4. QED
      BY <1>1, <3>1, <3>3 DEF Rows!Next
  <2>7. CASE tx[w].active = None
    <3>1. clients'[i] = clients[i]
      BY <1>1, <1>2, <2>2, <2>7 DEF Inv, TypeInv, TypeOK
    <3>2. CASE tx[w].limits # None
      <4>1. tx[w].limits \in Limits /\ configs'[i] = tx[w].limits
        BY <1>1, <1>2, <3>2 DEF Inv, TypeInv, TypeOK, Transactions, OrNone
      <4>2. S[i].config \in Limits /\ S[i] # None
        BY <2>1, <2>4, <3>1, <4>1, NoRowType DEF Clients
      <4>3. S[i] = [active |-> R[i].active, config |-> S[i].config]
        BY <2>4, <3>1
      <4>4. Rows!UpdateConfig(i)
        BY <1>5, <2>5, <4>2, <4>3 DEF Rows!UpdateConfig
      <4>5. QED
        BY <1>1, <4>4 DEF Rows!Next
    <3>3. CASE tx[w].limits = None
      <4>1. configs'[i] = configs[i]
        BY <1>1, <1>2, <3>3 DEF Inv, TypeInv, TypeOK
      <4>2. S = R
        BY <1>3, <3>1, <4>1 DEF RowOf
      <4>3. QED
        BY <4>2
    <3>4. QED
      BY <3>2, <3>3
  <2>8. QED
    BY <2>6, <2>7
<1>8. QED
  BY <1>6, <1>7

LEMMA InitMaps == Init => Rows!Init
  BY DEF Init, Rows!Init

LEMMA NextMaps == Inv /\ [Next]_vars => [Rows!Next]_(RowOf(clients, configs))
<1> SUFFICES ASSUME Inv, [Next]_vars
             PROVE  [Rows!Next]_(RowOf(clients, configs))
  OBVIOUS
<1>1. CASE clients' = clients /\ configs' = configs
  BY <1>1 DEF RowOf
<1>2. CASE UNCHANGED vars
  BY <1>1, <1>2 DEF vars
<1>3. ASSUME NEW w \in Workers, NEW n, Abort(w, n)
      PROVE  clients' = clients /\ configs' = configs
  BY <1>3 DEF Abort
<1>4. ASSUME NEW w \in Workers, Step(w)
      PROVE  [Rows!Next]_(RowOf(clients, configs))
  <2>1. CASE RefuseEmail(w) \/ InsertClientFails(w) \/ NotFound(w)
             \/ CreateConfigFails(w)
    BY <1>1, <1>3, <2>1
       DEF RefuseEmail, InsertClientFails, NotFound, CreateConfigFails
  <2>2. CASE CheckEmail(w) \/ LoadClient(w) \/ LoadConfig(w)
             \/ InsertClient(w) \/ Provision(w) \/ FlushActive(w)
             \/ UpdateConfig(w) \/ CreateConfig(w)
    BY <1>1, <2>2
       DEF CheckEmail, LoadClient, LoadConfig, InsertClient, Provision,
           FlushActive, UpdateConfig, CreateConfig, WriteLimits, Tables
  <2>3. CASE Commit(w)
    BY <2>3, CommitMaps DEF Commit
  <2>4. QED
    BY <1>4, <2>1, <2>2, <2>3 DEF Step
<1>5. ASSUME NEW w \in Workers, CommitUnconfirmed(w)
      PROVE  [Rows!Next]_(RowOf(clients, configs))
  BY <1>5, CommitMaps DEF CommitUnconfirmed
<1>6. ASSUME NEW w \in Workers, Fail(w) PROVE clients' = clients /\ configs' = configs
  BY <1>3, <1>6 DEF Fail
<1>7. QED
  BY <1>1, <1>2, <1>4, <1>5, <1>6 DEF Next

\* What Gateway assumes of administrators is all that the administrative code
\* ever does: every commit registers a client with its limits, or changes
\* is_active or the limits of one, and every other step changes nothing that a
\* request can read.
THEOREM AdminImplementsRows == Spec => CommitsChangeRows
<1>1. Spec => Init /\ []Inv /\ [][Next]_vars
  BY InitInv, NextInv, PTL DEF Spec
<1>2. QED
  BY <1>1, InitMaps, NextMaps, PTL DEF CommitsChangeRows, Rows!Spec
-----------------------------------------------------------------------------
(* Locks. *)

\* v holds what the next statement of w waits for: an email it has inserted, or
\* the row of a client or of its limits that it has updated.
WaitsFor(w, v) ==
  /\ v # w
  /\ \/ /\ pc[w] = "insert"
        /\ tx[v].client # None /\ tx[v].client.email = job[w].email
     \/ /\ pc[w] = "flush" /\ seen[w].active # job[w].active
        /\ tx[v].id = job[w].id /\ tx[v].active # None
     \/ /\ pc[w] = "write"
        /\ tx[v].id = job[w].id /\ tx[v].limits # None

\* The safety part of EveryJobAnswered: whoever is waited for waits for nobody,
\* so a lock of Postgres is only ever as far from its release as one request
\* that goes on by itself.  Every transaction of client_service.py and
\* rate_limit_admin_service.py takes one lock, and waits for nothing after it.
THEOREM NobodyWaitsForWaiters ==
  Spec => [](\A w, v \in Workers : WaitsFor(w, v) =>
               \A u \in Workers : ~WaitsFor(v, u))
<1>1. Inv => \A w, v \in Workers : WaitsFor(w, v) => \A u \in Workers : ~WaitsFor(v, u)
  <2> SUFFICES ASSUME Inv, NEW w \in Workers, NEW v \in Workers, WaitsFor(w, v)
               PROVE  pc[v] \notin {"insert", "flush", "write"}
    BY DEF WaitsFor
  <2>1. tx[v] # NoWrites
    BY DEF WaitsFor, NoWrites
  <2>2. QED
    BY <2>1 DEF Inv, ShapeInv
<1>2. QED
  BY <1>1, InitInv, NextInv, PTL DEF Spec
=============================================================================
