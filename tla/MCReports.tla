------------------------------ MODULE MCReports ------------------------------
(* Small instances of Reports for TLC. *)
EXTENDS Reports, TLC

CONSTANTS r1, r2, r3, k1, k2, k3

\* Readers differ in nothing but their names.
ReaderSymmetry == Permutations({r1, r2, r3})

Asking(a, b, c) ==
  LET jobs == (r1 :> a) @@ (r2 :> b) @@ (r3 :> c)
  IN {[r \in {r1, r2, r3} |-> jobs[p[r]]] : p \in ReaderSymmetry}

\* Client 3 registers later and is listed between the others, or with one of
\* them: 2 and 3 have the same name.
SortValues == [created_at |-> <<1, 3, 2>>, client_name |-> <<2, 1, 1>>]

Listings == {WalkJob(status, o) : status \in {None, TRUE, FALSE}, o \in Orderings}

ThreeRows == (k1 :> [client |-> 1, allowed |-> TRUE])
          @@ (k2 :> [client |-> 1, allowed |-> FALSE])
          @@ (k3 :> [client |-> 2, allowed |-> TRUE])

MixedJobs ==
  {StatsJob, TopJob(1), TopJob(2), Nothing}
    \union Listings
    \union {UsageJob(k, 1) : k \in UsageKinds}

Load(jobs, tasks, changes) ==
  {[jobs |-> j, tasks |-> tasks, changes |-> changes] : j \in jobs}

\* Three of a kind meet in the cache, of top clients with different limits; usages of one client are compared; pages
\* are read while all clients change.
Mixed ==
  Load(Asking(StatsJob, StatsJob, Nothing), {k1, k3}, {<<1, FALSE>>})
    \union Load(Asking(StatsJob, StatsJob, StatsJob), {k1}, {})
    \union Load(Asking(TopJob(1), TopJob(2), Nothing), {k1, k3}, {})
    \union Load(Asking(TopJob(1), Nothing, Nothing), {k1, k2, k3}, {})
    \union Load(Asking(UsageJob("daily", 1), UsageJob("daily", 1),
                       UsageJob("monthly", 1)), {k1, k2}, {})
    \union Load(Asking(UsageJob("daily", 1), UsageJob("current", 1),
                       UsageJob("summary", 1)), {k1, k2}, {})
    \union UNION {Load(Asking(l, Nothing, Nothing), {}, {1, 2, 3} \X BOOLEAN) :
                    l \in Listings}

\* Two readers of the top clients ask for one, a third for two.
TopJobs == {TopJob(1), TopJob(2)}
Ranked  == Load(Asking(TopJob(1), TopJob(1), TopJob(2)), {k1, k3}, {})
=============================================================================
