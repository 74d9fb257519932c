----------------------------- MODULE ClientAdmin -----------------------------
(***************************************************************************)
(* The administrative requests: registering a client, enabling and         *)
(* disabling it, and setting its limits (app/services/client_service.py,   *)
(* app/services/rate_limit_admin_service.py and their endpoints).          *)
(*                                                                         *)
(* A worker is one such request, in a database transaction of its own at   *)
(* Postgres' READ COMMITTED: a statement reads what is committed when it   *)
(* runs, and writes wait in the transaction until the endpoint commits.    *)
(* The ORM loads a row first and updates only the columns whose new value  *)
(* differs from the one it loaded, whatever has been committed since.      *)
(*                                                                         *)
(* Operators named X_Bug are variants of X with a mistake one could make.  *)
(***************************************************************************)
EXTENDS Integers, Sequences, FiniteSets

CONSTANTS
  Workers,         \* administrative requests
  Jobs,            \* what they may ask for
  Emails,
  None,            \* SQL NULL, Python's None: no row, no value
  DefaultLimits,   \* PLAN_RATE_LIMITS of the plan registered for
  InitialClients,  \* id -> committed api_clients row at the start, or None
  InitialConfigs   \* id -> committed rate_limit_configs row, or None

Ids == DOMAIN InitialClients

Limits  == [allowed : Nat \ {0}, window : Nat \ {0}]
Clients == [email : Emails, active : BOOLEAN]

\* Payloads; the fields an operation does not have are None.
Register(e)     == [op |-> "register", email |-> e, id |-> None,
                    active |-> None, limits |-> None]
SetTo(i, a)     == [op |-> "set_active", email |-> None, id |-> i,
                    active |-> a, limits |-> None]
PutLimits(i, l) == [op |-> "put", email |-> None, id |-> i,
                    active |-> None, limits |-> l]

ASSUME WorkersFinite == IsFiniteSet(Workers)
ASSUME JobsType == \A j \in Jobs :
  \/ \E e \in Emails : j = Register(e)
  \/ \E i \in Ids, a \in BOOLEAN : j = SetTo(i, a)
  \/ \E i \in Ids : j = PutLimits(i, j.limits) /\ j.limits \in Limits
ASSUME InitialType ==
  /\ InitialClients \in [Ids -> Clients \union {None}]
  /\ InitialConfigs \in [Ids -> Limits \union {None}]
  /\ DefaultLimits \in Limits
  /\ None \notin Clients \union Limits \union Ids \union BOOLEAN
  /\ \A i, j \in Ids :
       /\ InitialClients[i] \in Clients
       /\ InitialClients[j] \in Clients
       /\ InitialClients[i].email = InitialClients[j].email
       => i = j
\* rate_limit_configs.client_id is a foreign key to api_clients.
ASSUME InitialReferences ==
  \A i \in Ids : InitialConfigs[i] # None => InitialClients[i] # None

VARIABLES
  clients,   \* id -> committed api_clients row
  configs,   \* id -> committed rate_limit_configs row of the client
  audit,     \* committed audit_logs rows, in commit order
  job,       \* worker -> its request
  pc,        \* worker -> how far it is
  seen,      \* worker -> the rows it loaded, as the ORM remembers them
  tx,        \* worker -> what its open transaction has written
  reply      \* worker -> its response; status 500 is also a lost connection

vars == <<clients, configs, audit, job, pc, seen, tx, reply>>

NothingSeen == [active |-> None, limits |-> None]

\* Written: the id of the rows, a new client, a client's new is_active, its
\* new config, audit entries.
NoWrites == [id |-> None, client |-> None, active |-> None,
             limits |-> None, audit |-> <<>>]

Answer(status) == [status |-> status, active |-> None, limits |-> None]

Entry(i, action, old, new) ==
  [client |-> i, action |-> action, old |-> old, new |-> new]

Init ==
  /\ clients = InitialClients
  /\ configs = InitialConfigs
  /\ audit = <<>>
  /\ job \in [Workers -> Jobs]
  /\ pc = [w \in Workers |-> "start"]
  /\ seen = [w \in Workers |-> NothingSeen]
  /\ tx = [w \in Workers |-> NoWrites]
  /\ reply = [w \in Workers |-> Answer(0)]

-----------------------------------------------------------------------------
Go(w, from, to) == pc[w] = from /\ pc' = [pc EXCEPT ![w] = to]

Ended(w) == pc[w] \in {"committed", "aborted"}

Write(w, t) == tx' = [tx EXCEPT ![w] = t]

Abort_KeepsLocks(w, status) ==
  /\ pc' = [pc EXCEPT ![w] = "aborted"]
  /\ reply' = [reply EXCEPT ![w] = Answer(status)]
  /\ UNCHANGED <<clients, configs, audit, job, seen, tx>>

\* The transaction is rolled back and the request answered.
Abort(w, status) ==
  /\ pc' = [pc EXCEPT ![w] = "aborted"]
  /\ Write(w, NoWrites)
  /\ reply' = [reply EXCEPT ![w] = Answer(status)]
  /\ UNCHANGED <<clients, configs, audit, job, seen>>

Tables == <<clients, configs, audit>>

Registered(e) == \E i \in Ids : clients[i] # None /\ clients[i].email = e

\* Some other open transaction has inserted the same email; the unique index
\* makes a second insert wait for its outcome.
EmailPending(w, e) ==
  \E v \in Workers \ {w} : tx[v].client # None /\ tx[v].client.email = e

\* The sequence gives out an id that no row and no transaction has.
Unused(i) == clients[i] = None /\ \A v \in Workers : tx[v].id # i
-----------------------------------------------------------------------------
(* POST /clients *)

\* get_by_email
CheckEmail(w) ==
  /\ job[w].op = "register"
  /\ ~Registered(job[w].email)
  /\ Go(w, "start", "insert")
  /\ UNCHANGED <<Tables, job, seen, tx, reply>>

RefuseEmail(w) ==
  /\ job[w].op = "register"
  /\ pc[w] = "start"
  /\ Registered(job[w].email)
  /\ Abort(w, 409)

InsertClient_NoConstraint(w) ==
  \E i \in Ids :
    /\ Unused(i)
    /\ Go(w, "insert", "provision")
    /\ Write(w, [tx[w] EXCEPT !.id = i,
                 !.client = [email |-> job[w].email, active |-> TRUE]])
    /\ UNCHANGED <<Tables, job, seen, reply>>

InsertClient_Commits(w) ==
  \E i \in Ids :
    /\ Unused(i)
    /\ ~EmailPending(w, job[w].email)
    /\ ~Registered(job[w].email)
    /\ Go(w, "insert", "provision")
    /\ clients' = [clients EXCEPT ![i] =
                     [email |-> job[w].email, active |-> TRUE]]
    /\ Write(w, [tx[w] EXCEPT !.id = i])
    /\ UNCHANGED <<configs, audit, job, seen, reply>>

\* create: the INSERT of the client, once no open transaction has its email.
InsertClient(w) ==
  \E i \in Ids :
    /\ Unused(i)
    /\ ~EmailPending(w, job[w].email)
    /\ ~Registered(job[w].email)
    /\ Go(w, "insert", "provision")
    /\ Write(w, [tx[w] EXCEPT !.id = i,
                 !.client = [email |-> job[w].email, active |-> TRUE]])
    /\ UNCHANGED <<Tables, job, seen, reply>>

\* The email was committed after CheckEmail: IntegrityError, no AppError.
InsertClientFails(w) ==
  /\ pc[w] = "insert"
  /\ Registered(job[w].email)
  /\ Abort(w, 500)

\* The default config and the two audit entries.
Provision(w) ==
  LET i == tx[w].id IN
  /\ Go(w, "provision", "commit")
  /\ Write(w, [tx[w] EXCEPT !.limits = DefaultLimits,
               !.audit = <<Entry(i, "CLIENT_REGISTERED", None, None),
                           Entry(i, "API_KEY_GENERATED", None, None)>>])
  /\ UNCHANGED <<Tables, job, seen, reply>>
-----------------------------------------------------------------------------
(* PATCH /clients/{id}/enable and /disable, PUT /rate-limits/{id} *)

\* get_by_id
LoadClient(w) ==
  /\ job[w].op # "register"
  /\ clients[job[w].id] # None
  /\ Go(w, "start", IF job[w].op = "put" THEN "config" ELSE "flush")
  /\ seen' = [seen EXCEPT ![w].active = clients[job[w].id].active]
  /\ UNCHANGED <<Tables, job, tx, reply>>

NotFound(w) ==
  /\ job[w].op # "register"
  /\ pc[w] = "start"
  /\ clients[job[w].id] = None
  /\ Abort(w, 404)

\* A row another open transaction has updated is locked until that one ends.
ActiveLocked(w, i) ==
  \E v \in Workers \ {w} : tx[v].id = i /\ tx[v].active # None
ConfigLocked(w, i) ==
  \E v \in Workers \ {w} : tx[v].id = i /\ tx[v].limits # None

\* set_active, its flush: an UPDATE when the value differs from the loaded
\* one, nothing otherwise; then refresh, and the audit entry.
FlushActive(w) ==
  LET i == job[w].id
      changed == seen[w].active # job[w].active
      entry == Entry(i, IF job[w].active THEN "CLIENT_ACTIVATED"
                                         ELSE "CLIENT_DEACTIVATED", None, None)
  IN
  /\ changed => ~ActiveLocked(w, i)
  /\ Go(w, "flush", "commit")
  /\ Write(w, [tx[w] EXCEPT !.id = i,
               !.active = IF changed THEN job[w].active ELSE None,
               !.audit = <<entry>>])
  /\ reply' = [reply EXCEPT ![w].active =
                 IF changed THEN job[w].active ELSE clients[i].active]
  /\ UNCHANGED <<Tables, job, seen>>

\* get_by_client_id
LoadConfig(w) ==
  /\ Go(w, "config", "write")
  /\ seen' = [seen EXCEPT ![w].limits = configs[job[w].id]]
  /\ UNCHANGED <<Tables, job, tx, reply>>

Patch_Swapped(row, old, new) ==
  [allowed |-> IF new.allowed # old.allowed THEN new.window ELSE row.allowed,
   window |-> IF new.window # old.window THEN new.allowed ELSE row.window]

Patch_Blank(row, old, new) ==
  [allowed |-> IF new.allowed # old.allowed THEN new.allowed ELSE None,
   window |-> IF new.window # old.window THEN new.window ELSE None]

Patch_AllowedOnly(row, old, new) ==
  [row EXCEPT !.allowed = IF new.allowed # old.allowed THEN new.allowed
                                                       ELSE row.allowed]

\* What an UPDATE of the columns that differ from the loaded row makes of the
\* row that is committed by then.
Patch(row, old, new) ==
  [allowed |-> IF new.allowed # old.allowed THEN new.allowed ELSE row.allowed,
   window |-> IF new.window # old.window THEN new.window ELSE row.window]

WriteLimits(w, i, stored, answered) ==
  /\ Go(w, "write", "commit")
  /\ Write(w, [tx[w] EXCEPT !.id = i, !.limits = stored,
               !.audit = <<Entry(i, "RATE_LIMIT_UPDATED",
                                 seen[w].limits, job[w].limits)>>])
  /\ reply' = [reply EXCEPT ![w].limits = answered]
  /\ UNCHANGED <<Tables, job, seen>>

\* update: the flush of a loaded config, refresh, and the audit entry.
UpdateConfig(w) ==
  LET i == job[w].id
      old == seen[w].limits
      new == Patch(configs[i], old, job[w].limits) IN
  /\ old # None
  /\ IF old = job[w].limits
       THEN WriteLimits(w, i, None, configs[i])
       ELSE ~ConfigLocked(w, i) /\ WriteLimits(w, i, new, new)

\* create: the client had no config when it was loaded.
CreateConfig(w) ==
  LET i == job[w].id IN
  /\ pc[w] = "write"
  /\ seen[w].limits = None
  /\ ~ConfigLocked(w, i)
  /\ configs[i] = None
  /\ WriteLimits(w, i, job[w].limits, job[w].limits)

\* Another request created it meanwhile: IntegrityError.
CreateConfigFails(w) ==
  /\ pc[w] = "write"
  /\ seen[w].limits = None
  /\ configs[job[w].id] # None
  /\ Abort(w, 500)
-----------------------------------------------------------------------------
\* As CommitAs, a PUT saving the client it loaded along with the limits.
CommitAs_WholeRow(w, status) ==
  LET t == tx[w]
      i == t.id IN
  /\ Go(w, "commit", "committed")
  /\ clients' = [clients EXCEPT ![i] =
       IF t.client # None THEN t.client
       ELSE [clients[i] EXCEPT !.active =
               IF t.active # None THEN t.active ELSE seen[w].active]]
  /\ configs' = [configs EXCEPT ![i] =
                   IF t.limits # None THEN t.limits ELSE configs[i]]
  /\ audit' = audit \o t.audit
  /\ Write(w, NoWrites)
  /\ reply' = [reply EXCEPT ![w].status = status]
  /\ UNCHANGED <<job, seen>>

\* The endpoint commits; the writes of the transaction appear together.
CommitAs(w, status) ==
  LET t == tx[w]
      i == t.id IN
  /\ Go(w, "commit", "committed")
  /\ clients' = [clients EXCEPT ![i] =
       IF t.client # None THEN t.client
       ELSE IF t.active # None THEN [clients[i] EXCEPT !.active = t.active]
       ELSE clients[i]]
  /\ configs' = [configs EXCEPT ![i] =
                   IF t.limits # None THEN t.limits ELSE configs[i]]
  /\ audit' = audit \o t.audit
  /\ Write(w, NoWrites)
  /\ reply' = [reply EXCEPT ![w].status = status]
  /\ UNCHANGED <<job, seen>>

Commit(w) == CommitAs(w, IF job[w].op = "register" THEN 201 ELSE 200)

\* Postgres commits and the connection is lost before it says so.
CommitUnconfirmed(w) == CommitAs(w, 500)

Fail_KeepsAudit(w) ==
  /\ ~Ended(w)
  /\ pc' = [pc EXCEPT ![w] = "aborted"]
  /\ audit' = audit \o tx[w].audit
  /\ Write(w, NoWrites)
  /\ reply' = [reply EXCEPT ![w] = Answer(500)]
  /\ UNCHANGED <<clients, configs, job, seen>>

\* A statement raises or the process dies: get_db rolls back, or Postgres does.
Fail(w) ==
  /\ ~Ended(w)
  /\ Abort(w, 500)

Step(w) ==
  \/ CheckEmail(w) \/ RefuseEmail(w)
  \/ InsertClient(w) \/ InsertClientFails(w) \/ Provision(w)
  \/ LoadClient(w) \/ NotFound(w)
  \/ FlushActive(w)
  \/ LoadConfig(w) \/ UpdateConfig(w) \/ CreateConfig(w) \/ CreateConfigFails(w)
  \/ Commit(w)

Next == \E w \in Workers : Step(w) \/ CommitUnconfirmed(w) \/ Fail(w)

Spec == Init /\ [][Next]_vars

\* The event loop runs some request that can go on, and Postgres answers.
FairSpec == Spec /\ WF_vars(\E w \in Workers : Step(w))

\* Nothing raises but what the requests do to each other.
QuietSpec == Init /\ [][\E w \in Workers : Step(w)]_vars
-----------------------------------------------------------------------------
OrNone(S) == S \union {None}

Actions == {"CLIENT_REGISTERED", "API_KEY_GENERATED", "CLIENT_ACTIVATED",
            "CLIENT_DEACTIVATED", "RATE_LIMIT_UPDATED"}

Entries == [client : Ids, action : Actions,
            old : OrNone(Limits), new : OrNone(Limits)]

Transactions ==
  [id : OrNone(Ids), client : OrNone(Clients), active : OrNone(BOOLEAN),
   limits : OrNone(Limits), audit : Seq(Entries)]

Replies == [status : {0, 200, 201, 404, 409, 500},
            active : OrNone(BOOLEAN), limits : OrNone(Limits)]

\* Every row is whole: a client's and a config's columns are NOT NULL and in
\* range, whatever mixture of requests wrote them; and the other types.
TypeOK ==
  /\ clients \in [Ids -> OrNone(Clients)]
  /\ configs \in [Ids -> OrNone(Limits)]
  /\ audit \in Seq(Entries)
  /\ job \in [Workers -> Jobs]
  /\ pc \in [Workers -> {"start", "insert", "provision", "flush", "config",
                         "write", "commit", "committed", "aborted"}]
  /\ seen \in [Workers -> [active : OrNone(BOOLEAN), limits : OrNone(Limits)]]
  /\ tx \in [Workers -> Transactions]
  /\ reply \in [Workers -> Replies]

\* However registrations of one email interleave between get_by_email and the
\* INSERT, at most one client has it.
UniqueEmails ==
  \A i, j \in Ids :
    clients[i] # None /\ clients[j] # None /\ clients[i].email = clients[j].email
      => i = j

Recorded(i, action) ==
  Cardinality({n \in DOMAIN audit : audit[n].client = i /\ audit[n].action = action})

\* register_client is all or nothing: nobody ever sees a registered client
\* without its limits, or without exactly one entry for each of its two events,
\* whatever fails between the four INSERTs.
ProvisionedTogether ==
  \A i \in Ids : clients[i] # None /\ InitialClients[i] = None =>
    /\ configs[i] # None
    /\ Recorded(i, "CLIENT_REGISTERED") = 1
    /\ Recorded(i, "API_KEY_GENERATED") = 1

Took(i, op) ==
  {w \in Workers : pc[w] = "committed" /\ job[w].op = op /\ job[w].id = i}

\* The audit log has one entry for every committed change request and none for
\* one that failed: it neither loses what took effect nor tells what did not.
AuditMatchesCommits ==
  \A i \in Ids :
    /\ Recorded(i, "RATE_LIMIT_UPDATED") = Cardinality(Took(i, "put"))
    /\ Recorded(i, "CLIENT_ACTIVATED") =
         Cardinality({w \in Took(i, "set_active") : job[w].active})
    /\ Recorded(i, "CLIENT_DEACTIVATED") =
         Cardinality({w \in Took(i, "set_active") : ~job[w].active})

Before(i) == IF InitialClients[i] = None THEN DefaultLimits ELSE InitialConfigs[i]

\* Concurrent PUTs may mix, but only columns: every number of a stored config is
\* the one it had at first or one that a committed PUT asked for in that column.
ColumnsRequested ==
  \A i \in Ids : configs[i] # None =>
    LET sources == {job[w].limits : w \in Took(i, "put")}
                     \union ({Before(i)} \ {None}) IN
    /\ configs[i].allowed \in {l.allowed : l \in sources}
    /\ configs[i].window \in {l.window : l \in sources}

\* A committed request is only ever undone by one that asks for something else:
\* when all that were committed for a client agree, the tables say what they say.
UncontestedSettingsHold ==
  \A i \in Ids :
    /\ \A a \in BOOLEAN :
         Took(i, "set_active") # {}
           /\ (\A w \in Took(i, "set_active") : job[w].active = a)
         => clients[i].active = a
    /\ \A v \in Took(i, "put") :
         (\A w \in Took(i, "put") : job[w].limits = job[v].limits)
         => configs[i] = job[v].limits

\* Requests that wait for each other's rows and emails all end: locks are
\* released by commits and rollbacks, and nobody waits in a circle.
EveryJobAnswered == \A w \in Workers : <>Ended(w)

\* The responses the API reference lists for each operation, when nothing fails.
DocumentedErrors ==
  \A w \in Workers : Ended(w) =>
    reply[w].status \in IF job[w].op = "register" THEN {201, 409} ELSE {200, 404}

\* A 200 shows the resource as the request set it.
AnswerAsAsked ==
  \A w \in Workers : reply[w].status = 200 =>
    /\ job[w].op = "set_active" => reply[w].active = job[w].active
    /\ job[w].op = "put" => reply[w].limits = job[w].limits
=============================================================================
