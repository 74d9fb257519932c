---------------------------- MODULE UsageQueries ----------------------------
(***************************************************************************)
(* The api_usage table and the queries over it                             *)
(* (app/repositories/usage_repository.py, app/services/usage_service.py).  *)
(*                                                                         *)
(* A time is an instant of the host's clock.  Sets of rows are sets of     *)
(* indices of the table, which nobody deletes from: it is a sequence in    *)
(* commit order.                                                           *)
(*                                                                         *)
(* Operators named X_Bug are variants of X with a mistake one could make.  *)
(***************************************************************************)
EXTENDS Integers, Sequences, FiniteSets

CONSTANTS
  Clients,   \* ids of clients, registered or yet to be
  Hour,      \* the length of the rolling "current" period
  Day,
  Month      \* here every month has the same number of days

ASSUME ClientsFinite == IsFiniteSet(Clients)
ASSUME PeriodsType ==
  /\ Hour \in Nat \ {0} /\ Day \in Nat \ {0}
  /\ Month \in Nat \ {0} /\ Month % Day = 0

VARIABLES
  now,   \* the clock
  rows   \* committed api_usage rows

\* stamp: the timestamp column, the start of the inserting transaction;
\* committed: when it became visible (history, no query reads it).
UsageRow == [client : Clients, allowed : BOOLEAN, stamp : Nat, committed : Nat]

All == DOMAIN rows
Of(c) == {n \in All : rows[n].client = c}

\* The three counts every usage query selects.
Counts(S) == [total   |-> Cardinality(S),
              allowed |-> Cardinality({n \in S : rows[n].allowed}),
              blocked |-> Cardinality({n \in S : ~rows[n].allowed})]

DayStart_Rolling(t) == t - Day
MonthStart_Today(t) == t - (t % Day)

\* Midnight, and the first of the month.
DayStart(t) == t - (t % Day)
MonthStart(t) == t - (t % Month)

\* get_current_window_usage has no upper bound, get_usage_by_period excludes
\* its own; t is what datetime.now() gave before the query was sent.
CurrentUsage(c, t) == Counts({n \in Of(c) : rows[n].stamp >= t - Hour})

UsageByPeriod(c, start, end) ==
  Counts({n \in Of(c) : start <= rows[n].stamp /\ rows[n].stamp < end})

DailyUsage(c, t)   == UsageByPeriod(c, DayStart(t), t)
MonthlyUsage(c, t) == UsageByPeriod(c, MonthStart(t), t)

Requesters == {c \in Clients : Of(c) # {}}

Outranks_Ascending(c, d) == Cardinality(Of(c)) < Cardinality(Of(d))

\* ORDER BY count DESC; which of equal counts comes first is Postgres' choice.
Outranks(c, d) == Cardinality(Of(c)) > Cardinality(Of(d))

\* get_top_clients: GROUP BY client, ordered, LIMIT.
TopClients(limit) ==
  LET size == IF Cardinality(Requesters) < limit THEN Cardinality(Requesters)
                                                 ELSE limit
      Rankings == {s \in [1 .. size -> Requesters] :
        /\ \A i, j \in 1 .. size : i < j => s[i] # s[j] /\ ~Outranks(s[j], s[i])
        /\ \A c \in Requesters, i \in 1 .. size :
             Outranks(c, s[i]) => \E j \in 1 .. size : s[j] = c}
  IN {[i \in 1 .. size |-> [client |-> s[i], total |-> Cardinality(Of(s[i]))]] :
        s \in Rankings}

TopEntry == [client : Clients, total : Nat]
=============================================================================
