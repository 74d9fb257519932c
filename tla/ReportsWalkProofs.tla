------------------------- MODULE ReportsWalkProofs --------------------------
(***************************************************************************)
(* What the reports answer is of the kind asked for, and what a walk over  *)
(* the pages of clients sees while others register, come and go, for any   *)
(* number of clients, any page size and any order, ties included.          *)
(*                                                                         *)
(* However ties are resolved, a client with a sort value of its own is on  *)
(* a page exactly when its position, the number of clients before it, is   *)
(* in the page's range.  Whoever joins pushes others back and never past   *)
(* the reader; whoever leaves pulls each of them up by one place, and only *)
(* one of them past it, since their positions differ.  WalkOK says so of a *)
(* walk on its way: those it has skipped are no more than those that left. *)
(***************************************************************************)
EXTENDS ReportsProofs

(* The order of clients in a listing, and their positions. *)

Earlier(c, S, o) == {d \in S : Before(d, c, o)}

\* How many clients of S are listed before c in any case.
Position(c, S, o) == Cardinality(Earlier(c, S, o))

LEMMA Order ==
  ASSUME NEW o \in Orderings, NEW c \in Clients, NEW d \in Clients, NEW e \in Clients
  PROVE  /\ ~Before(c, c, o)
         /\ Before(c, d, o) => ~Before(d, c, o)
         /\ Before(c, d, o) /\ Before(d, e, o) => Before(c, e, o)
<1> DEFINE v == SortValue[o.by]
<1>1. v \in [Clients -> Nat] /\ o.descending \in BOOLEAN
  BY SortValueType DEF Orderings
<1>2. v[c] \in Nat /\ v[d] \in Nat /\ v[e] \in Nat
  BY <1>1
<1>3. \A a, b : Before(a, b, o) <=> IF o.descending THEN v[a] > v[b] ELSE v[a] < v[b]
  BY DEF Before
<1> HIDE DEF v
<1>4. QED
  BY <1>2, <1>3

LEMMA PositionType ==
  ASSUME NEW S \in SUBSET Clients, NEW c, NEW o
  PROVE  /\ IsFiniteSet(S) /\ Cardinality(S) \in Nat
         /\ IsFiniteSet(Earlier(c, S, o))
         /\ Position(c, S, o) = Cardinality(Earlier(c, S, o))
         /\ Position(c, S, o) \in Nat
<1>1. IsFiniteSet(S) /\ Cardinality(S) \in Nat
  BY ClientsFinite, FS_Subset, FS_CardinalityType
<1>2. IsFiniteSet(Earlier(c, S, o)) /\ Cardinality(Earlier(c, S, o)) \in Nat
  BY <1>1, FS_Subset, FS_CardinalityType DEF Earlier
<1>3. QED
  BY <1>1, <1>2 DEF Position

\* Whoever is listed earlier has the smaller position.
LEMMA PositionOrder ==
  ASSUME NEW S \in SUBSET Clients, NEW o \in Orderings, NEW c \in S, NEW d \in S,
         Before(d, c, o)
  PROVE  Position(d, S, o) < Position(c, S, o)
<1>1. Earlier(d, S, o) \subseteq Earlier(c, S, o)
  BY Order DEF Earlier
<1>2. d \in Earlier(c, S, o) /\ d \notin Earlier(d, S, o)
  BY Order DEF Earlier
<1>3. /\ Cardinality(Earlier(d, S, o)) <= Cardinality(Earlier(c, S, o))
      /\ Cardinality(Earlier(d, S, o)) # Cardinality(Earlier(c, S, o))
  BY <1>1, <1>2, PositionType, FS_Subset
<1>4. QED
  BY <1>3, PositionType

LEMMA PositionsDiffer ==
  ASSUME NEW S \in SUBSET Clients, NEW o \in Orderings, NEW c \in S, NEW d \in S, c # d,
         c \in Alone(o)
  PROVE  Position(c, S, o) # Position(d, S, o)
<1>1. Before(c, d, o) \/ Before(d, c, o)
  BY DEF Alone
<1>2. QED
  BY <1>1, PositionOrder, PositionType

\* More clients can only push a client back; one less pulls it up by one.
LEMMA PositionGrows ==
  ASSUME NEW S \in SUBSET Clients, NEW T \in SUBSET Clients, S \subseteq T,
         NEW c, NEW o
  PROVE  Position(c, S, o) <= Position(c, T, o)
<1>1. Earlier(c, S, o) \subseteq Earlier(c, T, o)
  BY DEF Earlier
<1>2. QED
  BY <1>1, PositionType, FS_Subset

LEMMA PositionShrinks ==
  ASSUME NEW S \in SUBSET Clients, NEW d, NEW c, NEW o
  PROVE  Position(c, S, o) <= Position(c, S \ {d}, o) + 1
<1>1. Earlier(c, S \ {d}, o) = Earlier(c, S, o) \ {d}
  BY DEF Earlier
<1>2. S \ {d} \in SUBSET Clients
  OBVIOUS
<1> DEFINE E == Earlier(c, S, o)
<1>3. IsFiniteSet(E) /\ Cardinality(E) \in Nat /\ Position(c, S, o) = Cardinality(E)
  BY PositionType
<1>4. Position(c, S \ {d}, o) = Cardinality(E \ {d})
  BY <1>1, <1>2, PositionType
<1> HIDE DEF E
<1>5. Cardinality(E \ {d}) = IF d \in E THEN Cardinality(E) - 1 ELSE Cardinality(E)
  BY <1>3, FS_RemoveElement
<1>6. QED
  BY <1>3, <1>4, <1>5
-----------------------------------------------------------------------------
(* Pages. *)

LEMMA OffsetFacts ==
  ASSUME NEW p \in Nat \ {0}
  PROVE  /\ Offset(p) \in Nat /\ Offset(p + 1) = Offset(p) + PageSize
         /\ Offset(1) = 0 /\ PageSize \in Nat /\ PageSize > 0
<1>1. PageSize \in Nat \ {0} /\ p - 1 \in Nat
  BY NumbersType
<1>2. (p - 1) * PageSize \in Nat
  BY <1>1
<1>3. (p + 1 - 1) * PageSize = (p - 1) * PageSize + PageSize
  BY <1>1
<1>4. (1 - 1) * PageSize = 0
  BY <1>1
<1>5. QED
  BY <1>1, <1>2, <1>3, <1>4 DEF Offset

\* The head of a list has a client with a sort value of its own if, and only if,
\* it has room for all who are listed before.
LEMMA HeadHas ==
  ASSUME NEW S \in SUBSET Clients, NEW o \in Orderings, NEW n \in Nat,
         NEW H \in Heads(S, n, o), NEW c \in S, c \in Alone(o)
  PROVE  c \in H <=> Position(c, S, o) < Cardinality(H)
<1> DEFINE E == Earlier(c, S, o)
<1>1. /\ H \in SUBSET S /\ IsFiniteSet(H) /\ Cardinality(H) \in Nat
      /\ \A a \in H, b \in S \ H : ~Before(b, a, o)
  BY PositionType, FS_Subset, FS_CardinalityType DEF Heads
<1>2. /\ IsFiniteSet(E) /\ Cardinality(E) \in Nat /\ Position(c, S, o) = Cardinality(E)
      /\ E \subseteq S /\ c \notin E
  <2>1. E \subseteq S /\ c \notin E
    BY Order DEF Earlier
  <2>2. QED
    BY <2>1, PositionType
<1>3. ASSUME c \in H PROVE Cardinality(E) < Cardinality(H)
  <2>1. E \subseteq H
    BY <1>1, <1>3 DEF Earlier
  <2> HIDE DEF E
  <2>2. Cardinality(E) <= Cardinality(H) /\ Cardinality(E) # Cardinality(H)
    BY <1>1, <1>2, <1>3, <2>1, FS_Subset
  <2>3. QED
    BY <1>1, <1>2, <2>2
<1>4. ASSUME c \notin H PROVE Cardinality(H) <= Cardinality(E)
  <2>1. \A a \in H : a # c /\ ~Before(c, a, o) /\ a \in Clients
    BY <1>1, <1>4
  <2>2. H \subseteq E
    BY <1>1, <2>1 DEF Earlier, Alone
  <2> HIDE DEF E
  <2>3. QED
    BY <1>2, <2>2, FS_Subset
<1> HIDE DEF E
<1>5. QED
  BY <1>1, <1>2, <1>3, <1>4

\* What a page is: those of its range, which is cut off at the end of the list.
LEMMA PageFacts ==
  ASSUME NEW S \in SUBSET Clients, NEW p \in Nat \ {0}, NEW o \in Orderings,
         NEW page \in Pages(S, p, o)
  PROVE  /\ page \subseteq S /\ IsFiniteSet(page) /\ Cardinality(page) \in Nat
         /\ page = {} => Cardinality(S) <= Offset(p)
         /\ page # {} => Offset(p) + Cardinality(page) <= Cardinality(S)
         /\ \A c \in S : c \in Alone(o) =>
              (c \in page <=> Position(c, S, o) \in Offset(p) .. Offset(p) + PageSize - 1)
<1> DEFINE n == Offset(p)
           k == Cardinality(S)
<1>1. /\ n \in Nat /\ PageSize \in Nat /\ PageSize > 0 /\ k \in Nat /\ n + PageSize \in Nat
      /\ IsFiniteSet(S)
  <2>1. n \in Nat /\ PageSize \in Nat /\ PageSize > 0
    BY OffsetFacts
  <2>2. k \in Nat /\ IsFiniteSet(S)
    BY PositionType
  <2> HIDE DEF n, k
  <2>3. QED
    BY <2>1, <2>2
<1>2. PICK P \in Heads(S, n, o), Q \in Heads(S, n + PageSize, o) :
        P \subseteq Q /\ page = Q \ P
  BY DEF Pages
<1>3. /\ P \subseteq S /\ Cardinality(P) = IF k < n THEN k ELSE n
      /\ Q \subseteq S /\ Cardinality(Q) = IF k < n + PageSize THEN k ELSE n + PageSize
  BY DEF Heads
<1>4. page \subseteq S /\ IsFiniteSet(page) /\ Cardinality(page) \in Nat
  BY <1>1, <1>2, <1>3, FS_Subset, FS_CardinalityType
<1>5. Cardinality(page) = Cardinality(Q) - Cardinality(P)
  <2>1. IsFiniteSet(P) /\ IsFiniteSet(Q) /\ Q \intersect P = P
    BY <1>1, <1>2, <1>3, FS_Subset
  <2>2. Cardinality(Q \ P) = Cardinality(Q) - Cardinality(Q \intersect P)
    BY <2>1, FS_Difference
  <2>3. QED
    BY <1>2, <2>1, <2>2
<1>6. ASSUME NEW c \in S, c \in Alone(o)
      PROVE  c \in page <=> Position(c, S, o) \in n .. n + PageSize - 1
  <2>1. /\ c \in P <=> Position(c, S, o) < Cardinality(P)
        /\ c \in Q <=> Position(c, S, o) < Cardinality(Q)
    BY <1>1, <1>2, <1>6, HeadHas
  <2>2. Position(c, S, o) < k /\ Position(c, S, o) \in Nat
    <3>1. /\ Earlier(c, S, o) \subseteq S /\ c \notin Earlier(c, S, o)
      BY Order DEF Earlier
    <3>2. /\ Cardinality(Earlier(c, S, o)) <= k /\ Cardinality(Earlier(c, S, o)) # k
      BY <1>1, <1>6, <3>1, FS_Subset
    <3>3. QED
      BY <1>1, <3>2, PositionType
  <2> HIDE DEF n, k
  <2>3. QED
    BY <1>1, <1>2, <1>3, <2>1, <2>2
<1> HIDE DEF n, k
<1>7. page = {} => k <= n
  <2>1. page = {} => Cardinality(page) = 0
    BY FS_EmptySet
  <2>2. QED
    BY <1>1, <1>3, <1>5, <2>1
<1>8. page # {} => n + Cardinality(page) <= k
  <2>1. page # {} => Cardinality(page) # 0
    BY <1>4, FS_EmptySet
  <2>2. QED
    BY <1>1, <1>3, <1>5, <2>1
<1>9. QED
  BY <1>4, <1>6, <1>7, <1>8 DEF n, k
-----------------------------------------------------------------------------
(* What holds of a walk on its way. *)

WalkType == [page : Nat \ {0}, shown : SUBSET Clients, count : Nat, total : Nat,
             stayed : SUBSET Clients, left : Nat]

\* Those who stayed, have not been shown and have a sort value of their own.
Missing(w, o) == (w.stayed \ w.shown) \intersect Alone(o)

\* The missing who are no longer ahead of the reader.
Skipped(w, S, o, n) == {c \in Missing(w, o) : Position(c, S, o) < n}

\* The position the next page starts at.
Reached(p, w) == IF p = "total" THEN Offset(w.page + 1) ELSE Offset(w.page)

\* A walk w in phase p over the clients S, listed in the order o.
WalkOK(S, p, w, o) ==
  /\ p \in {"start", "total", "done"}
  /\ p # "done" =>
       /\ w.stayed \subseteq S
       /\ Cardinality(Skipped(w, S, o, Reached(p, w))) <= w.left
  /\ p = "start" /\ w.page = 1 => w.stayed = {}
  /\ p = "done" \/ (p = "total" /\ w.count = 0) =>
       Cardinality(Missing(w, o)) <= w.left
  /\ p = "total" /\ w.count > 0 =>
       Offset(w.page) + w.count <= Cardinality(S) + w.left
  /\ p # "total" /\ w.count > 0 =>
       (w.page - 2) * PageSize + w.count <= w.total + w.left

PagesOK(r) ==
  IF job[r].kind = "walk"
    THEN WalkOK(Matching(job[r].status), pc[r], walk[r], job[r].ordering)
    ELSE walk[r].count = 0

AnswerOK(r) ==
  /\ pc[r] = "done" /\ job[r].kind \in UsageKinds => value[r] \in Usages
  /\ job[r].kind \notin UsageKinds \union CachedKinds => value[r] = None

WalkInv ==
  /\ now <= MaxTime /\ pc \in [Readers -> Phases] /\ walk \in [Readers -> WalkType]
  /\ \A r \in Readers : PagesOK(r) /\ AnswerOK(r)

LEMMA WalkJobShape ==
  ASSUME NEW j \in Jobs, j.kind = "walk"
  PROVE  j.ordering \in Orderings /\ j.status \in BOOLEAN \union {None}
<1>1. CASE j \in {StatsJob, Nothing}
  BY <1>1 DEF StatsJob, Nothing
<1>2. CASE j = TopJob(j.limit)
  <2>1. j.kind = "top"
    BY <1>2 DEF StatsJob, TopJob
  <2>2. QED
    BY <2>1
<1>3. ASSUME NEW k \in UsageKinds, NEW c \in Clients, j = UsageJob(k, c)
      PROVE  FALSE
  <2>1. j.kind = k
    BY <1>3 DEF StatsJob, UsageJob
  <2>2. QED
    BY <2>1 DEF UsageKinds
<1>4. ASSUME NEW s \in BOOLEAN \union {None}, NEW o \in Orderings, j = WalkJob(s, o)
      PROVE  j.ordering = o /\ j.status = s
  BY <1>4 DEF StatsJob, WalkJob
<1>5. QED
  BY JobsType, <1>1, <1>2, <1>3, <1>4

LEMMA WalkUpdate ==
  ASSUME NEW w \in WalkType
  PROVE  /\ \A s \in SUBSET Clients : /\ [w EXCEPT !.shown = s] \in WalkType
                                      /\ [w EXCEPT !.stayed = s] \in WalkType
         /\ \A l \in Nat : /\ [w EXCEPT !.count = l] \in WalkType
                           /\ [w EXCEPT !.total = l] \in WalkType
                           /\ [w EXCEPT !.left = l] \in WalkType
         /\ \A p \in Nat \ {0} : [w EXCEPT !.page = p] \in WalkType
BY DEF WalkType

LEMMA SkippedFinite ==
  ASSUME NEW w \in WalkType, NEW S, NEW o, NEW n
  PROVE  /\ IsFiniteSet(Missing(w, o)) /\ Cardinality(Missing(w, o)) \in Nat
         /\ IsFiniteSet(Skipped(w, S, o, n)) /\ Cardinality(Skipped(w, S, o, n)) \in Nat
         /\ Cardinality(Skipped(w, S, o, n)) <= Cardinality(Missing(w, o))
<1>1. IsFiniteSet(Missing(w, o))
  BY ClientsFinite, FS_Subset DEF WalkType, Missing
<1>2. Skipped(w, S, o, n) \in SUBSET Missing(w, o)
  BY DEF Skipped
<1>3. QED
  BY <1>1, <1>2, FS_Subset, FS_CardinalityType

LEMMA ReachedType ==
  ASSUME NEW w \in WalkType, NEW p
  PROVE  Reached(p, w) \in Nat
<1>1. w.page \in Nat \ {0} /\ w.page + 1 \in Nat \ {0}
  BY DEF WalkType
<1>2. QED
  BY <1>1, OffsetFacts DEF Reached

\* A client that registers, or matches again, takes nothing from a walk.
LEMMA WalkJoined ==
  ASSUME NEW S \in SUBSET Clients, NEW T \in SUBSET Clients, S \subseteq T,
         NEW p, NEW w \in WalkType, NEW o \in Orderings, WalkOK(S, p, w, o)
  PROVE  WalkOK(T, p, w, o)
<1> DEFINE n == Reached(p, w)
<1>1. Skipped(w, T, o, n) \subseteq Skipped(w, S, o, n)
  BY PositionGrows, PositionType, ReachedType DEF Skipped, Missing
<1>2. /\ Cardinality(Skipped(w, T, o, n)) <= Cardinality(Skipped(w, S, o, n))
      /\ Cardinality(Skipped(w, T, o, n)) \in Nat
      /\ Cardinality(Skipped(w, S, o, n)) \in Nat
  BY <1>1, SkippedFinite, FS_Subset
<1>3. Cardinality(S) <= Cardinality(T) /\ Cardinality(S) \in Nat /\ Cardinality(T) \in Nat
  BY PositionType, FS_Subset
<1>4. w.left \in Nat /\ w.count \in Nat /\ w.page \in Nat \ {0} /\ Offset(w.page) \in Nat
  BY OffsetFacts DEF WalkType
<1> HIDE DEF n
<1>5. p # "done" => w.stayed \subseteq T /\ Cardinality(Skipped(w, T, o, n)) <= w.left
  BY <1>2, <1>4 DEF WalkOK, n
<1>6. p = "total" /\ w.count > 0 => Offset(w.page) + w.count <= Cardinality(T) + w.left
  BY <1>3, <1>4 DEF WalkOK
<1>7. QED
  BY <1>5, <1>6 DEF WalkOK, n

\* One that ceases to match is paid for by left: at most one client falls back
\* behind the reader in its place.
LEMMA WalkLeft ==
  ASSUME NEW S \in SUBSET Clients, NEW c \in S, NEW p, p # "done",
         NEW w \in WalkType, NEW o \in Orderings, WalkOK(S, p, w, o),
         p = "total" \/ w.page > 1,
         NEW x \in WalkType, x.stayed = w.stayed \ {c}, x.left = w.left + 1,
         x.page = w.page, x.shown = w.shown, x.count = w.count, x.total = w.total
  PROVE  WalkOK(S \ {c}, p, x, o)
<1> DEFINE T == S \ {c}
           n == Reached(p, w)
           A == Skipped(w, S, o, n)
           B == Skipped(x, T, o, n)
<1>1. /\ w.left \in Nat /\ w.count \in Nat /\ w.total \in Nat
      /\ w.page \in Nat \ {0} /\ w.stayed \subseteq S /\ n \in Nat
  BY ReachedType DEF WalkType, WalkOK
<1>2. Reached(p, x) = n
  BY <1>1 DEF Reached
<1>3. T \in SUBSET Clients /\ x.stayed \subseteq T
  BY <1>1
<1>4. Cardinality(B) <= Cardinality(A) + 1
  <2>1. \A d \in B : /\ d \in Missing(w, o) /\ d \in Alone(o) /\ d \in S
                     /\ Position(d, S, o) <= n /\ Position(d, S, o) \in Nat
    <3> SUFFICES ASSUME NEW d \in B
                 PROVE  /\ d \in Missing(w, o) /\ d \in Alone(o) /\ d \in S
                        /\ Position(d, S, o) <= n /\ Position(d, S, o) \in Nat
      OBVIOUS
    <3>1. /\ d \in x.stayed \ x.shown /\ d \in Alone(o)
          /\ Position(d, T, o) < n
      BY DEF Skipped, Missing
    <3>2. /\ Position(d, S, o) <= Position(d, T, o) + 1
          /\ Position(d, S, o) \in Nat /\ Position(d, T, o) \in Nat
      BY <1>3, PositionShrinks, PositionType
    <3> HIDE DEF n, T
    <3>3. QED
      BY <1>1, <3>1, <3>2 DEF Missing
  <2>2. \A d \in B : d \notin A => Position(d, S, o) = n
    BY <1>1, <2>1 DEF Skipped
  <2>3. IsFiniteSet(A) /\ Cardinality(A) \in Nat /\ IsFiniteSet(B) /\ Cardinality(B) \in Nat
    BY <1>1, SkippedFinite
  <2> HIDE DEF A, B, n, T
  <2>4. CASE B \subseteq A
    BY <2>3, <2>4, FS_Subset
  <2>5. CASE \E e \in B : e \notin A
    <3>1. PICK e \in B : e \notin A
      BY <2>5
    <3>2. B \subseteq A \union {e}
      BY <2>1, <2>2, <3>1, PositionsDiffer
    <3>3. IsFiniteSet(A \union {e}) /\ Cardinality(A \union {e}) = Cardinality(A) + 1
      BY <2>3, <3>1, FS_AddElement
    <3>4. QED
      BY <3>2, <3>3, FS_Subset
  <2>6. QED
    BY <2>4, <2>5
<1>5. /\ Cardinality(A) \in Nat /\ Cardinality(B) \in Nat /\ Cardinality(A) <= w.left
  BY <1>1, SkippedFinite DEF WalkOK
<1>6. p = "total" /\ w.count = 0 => Cardinality(Missing(x, o)) <= x.left
  <2>1. Missing(x, o) \subseteq Missing(w, o)
    BY <1>1 DEF Missing
  <2>2. /\ Cardinality(Missing(x, o)) <= Cardinality(Missing(w, o))
        /\ Cardinality(Missing(x, o)) \in Nat
        /\ Cardinality(Missing(w, o)) \in Nat
    BY <1>1, <2>1, SkippedFinite, FS_Subset
  <2>3. QED
    BY <1>1, <2>2 DEF WalkOK
<1>7. Cardinality(T) = Cardinality(S) - 1 /\ Cardinality(S) \in Nat
  BY PositionType, FS_RemoveElement
<1>8. Offset(w.page) \in Nat
  BY <1>1, OffsetFacts
<1> HIDE DEF A, B, n, T
<1>9. p = "total" /\ x.count > 0 => Offset(x.page) + x.count <= Cardinality(T) + x.left
  BY <1>1, <1>7, <1>8 DEF WalkOK
<1>10. p # "total" /\ x.count > 0 =>
         (x.page - 2) * PageSize + x.count <= x.total + x.left
  <2> DEFINE k == (w.page - 2) * PageSize
  <2>1. k \in Int /\ k = (x.page - 2) * PageSize
    BY <1>1, NumbersType
  <2>2. p # "total" /\ w.count > 0 => k + w.count <= w.total + w.left
    BY DEF WalkOK
  <2> HIDE DEF k
  <2>3. QED
    BY <1>1, <2>1, <2>2
<1>11. p # "done" => x.stayed \subseteq T
                     /\ Cardinality(Skipped(x, T, o, Reached(p, x))) <= x.left
  BY <1>1, <1>2, <1>3, <1>4, <1>5 DEF B
<1>12. WalkOK(T, p, x, o)
  BY <1>1, <1>6, <1>9, <1>10, <1>11 DEF WalkOK
<1>13. QED
  BY <1>12 DEF T

\* A page shows all who are now passed, and an empty one has nobody after it.
LEMMA WalkSelects ==
  ASSUME NEW S \in SUBSET Clients, NEW w \in WalkType, NEW o \in Orderings,
         WalkOK(S, "start", w, o), NEW page \in Pages(S, w.page, o)
  PROVE  LET x == [w EXCEPT !.shown = @ \union page, !.count = Cardinality(page),
                            !.stayed = IF w.page = 1 THEN S ELSE @]
         IN  x \in WalkType /\ WalkOK(S, "total", x, o)
<1> DEFINE m == Cardinality(page)
           s == IF w.page = 1 THEN S ELSE w.stayed
           x == [w EXCEPT !.shown = @ \union page, !.count = Cardinality(page),
                          !.stayed = IF w.page = 1 THEN S ELSE @]
           n == Offset(w.page)
           A == Skipped(w, S, o, n)
           B == Skipped(x, S, o, n + PageSize)
<1>1. /\ page \subseteq S /\ m \in Nat /\ IsFiniteSet(page)
  <2>1. w.page \in Nat \ {0}
    BY DEF WalkType
  <2>2. QED
    BY <2>1, PageFacts
<1>2. /\ w.left \in Nat /\ w.shown \in SUBSET Clients /\ w.stayed \in SUBSET Clients
      /\ w.page \in Nat \ {0} /\ w.stayed \subseteq S
  BY DEF WalkType, WalkOK
<1>3. s \subseteq S
  BY <1>2
<1>4. /\ x.stayed = s /\ x.shown = w.shown \union page /\ x.count = m
      /\ x.page = w.page /\ x.left = w.left
  BY DEF WalkType
<1>5. x \in WalkType
  <2>1. w.shown \union page \in SUBSET Clients
    BY <1>1, <1>2
  <2>2. s \in SUBSET Clients
    BY <1>3
  <2>3. PICK y \in WalkType : y = [w EXCEPT !.shown = w.shown \union page]
    BY <2>1, WalkUpdate
  <2>4. PICK z \in WalkType : z = [y EXCEPT !.count = m]
    BY <1>1, WalkUpdate
  <2>5. [z EXCEPT !.stayed = s] \in WalkType
    BY <2>2, WalkUpdate
  <2>6. x = [z EXCEPT !.stayed = s]
    BY <2>3, <2>4
  <2>7. QED
    BY <2>5, <2>6
<1>6. /\ n \in Nat /\ Reached("total", x) = n + PageSize /\ PageSize \in Nat
      /\ Reached("start", w) = n
  BY <1>2, <1>4, OffsetFacts DEF Reached
<1>7. B \subseteq A
  <2> SUFFICES ASSUME NEW d \in B PROVE d \in A
    OBVIOUS
  <2>1. /\ d \in s /\ d \notin w.shown /\ d \notin page /\ d \in S /\ d \in Alone(o)
        /\ Position(d, S, o) < n + PageSize /\ Position(d, S, o) \in Nat
    BY <1>3, <1>4, PositionType DEF Skipped, Missing
  <2>2. d \in page <=> Position(d, S, o) \in n .. n + PageSize - 1
    <3>1. w.page \in Nat \ {0} /\ d \in S /\ d \in Alone(o)
      BY <1>2, <2>1
    <3>2. QED
      BY <3>1, PageFacts
  <2>3. Position(d, S, o) < n
    BY <1>6, <2>1, <2>2
  <2>4. w.page # 1
    BY <2>1, <2>3, OffsetFacts, <1>2
  <2>5. QED
    BY <2>1, <2>3, <2>4 DEF Skipped, Missing
<1>8. Cardinality(B) <= w.left
  <2>1. /\ IsFiniteSet(A) /\ Cardinality(A) \in Nat /\ Cardinality(B) \in Nat
        /\ Cardinality(A) <= w.left
    BY <1>5, <1>6, SkippedFinite DEF WalkOK
  <2> HIDE DEF A, B
  <2>2. QED
    BY <1>2, <1>7, <2>1, FS_Subset
<1>9. x.count = 0 => Cardinality(Missing(x, o)) <= x.left
  <2> SUFFICES ASSUME m = 0 PROVE Cardinality(Missing(x, o)) <= x.left
    BY <1>4
  <2>1. page = {}
    BY <1>1, FS_EmptySet
  <2>2. Cardinality(S) <= n /\ Cardinality(S) \in Nat /\ IsFiniteSet(S)
    BY <1>2, <2>1, PageFacts, PositionType
  <2>3. \A d \in S : Position(d, S, o) \in Nat /\ Position(d, S, o) <= Cardinality(S)
    <3> SUFFICES ASSUME NEW d \in S
                 PROVE  Position(d, S, o) \in Nat /\ Position(d, S, o) <= Cardinality(S)
      OBVIOUS
    <3>1. Earlier(d, S, o) \subseteq S
      BY DEF Earlier
    <3>2. QED
      BY <2>2, <3>1, PositionType, FS_Subset
  <2>4. \A d \in S : Position(d, S, o) < n + PageSize
    BY <1>2, <1>6, <2>2, <2>3, OffsetFacts
  <2>5. Missing(x, o) = B
    BY <1>3, <1>4, <2>4 DEF Skipped, Missing
  <2> HIDE DEF x, B
  <2>6. QED
    BY <1>4, <1>8, <2>5
<1>10. x.count > 0 => Offset(x.page) + x.count <= Cardinality(S) + x.left
  <2> SUFFICES ASSUME m > 0 PROVE n + m <= Cardinality(S) + w.left
    BY <1>4
  <2>1. page # {}
    BY FS_EmptySet
  <2>2. n + m <= Cardinality(S)
    BY <1>2, <2>1, PageFacts
  <2>3. Cardinality(S) \in Nat
    BY PositionType
  <2> HIDE DEF n, m
  <2>4. QED
    BY <1>1, <1>2, <1>6, <2>2, <2>3
<1> HIDE DEF m, s, x, n, A, B
<1>11. WalkOK(S, "total", x, o)
  BY <1>3, <1>4, <1>6, <1>8, <1>9, <1>10 DEF WalkOK, B
<1>12. QED
  BY <1>5, <1>11 DEF x

\* The total that goes with the page is counted over at least those before it.
LEMMA WalkCounts ==
  ASSUME NEW S \in SUBSET Clients, NEW w \in WalkType, NEW o \in Orderings,
         WalkOK(S, "total", w, o)
  PROVE  LET x == [w EXCEPT !.total = Cardinality(S),
                            !.page = IF w.count = 0 THEN @ ELSE @ + 1]
         IN  /\ x \in WalkType
             /\ WalkOK(S, IF w.count = 0 THEN "done" ELSE "start", x, o)
<1> DEFINE q == IF w.count = 0 THEN w.page ELSE w.page + 1
           t == Cardinality(S)
           x == [w EXCEPT !.total = Cardinality(S),
                          !.page = IF w.count = 0 THEN @ ELSE @ + 1]
<1>1. /\ w.left \in Nat /\ w.count \in Nat /\ w.page \in Nat \ {0} /\ q \in Nat \ {0}
      /\ t \in Nat
  BY PositionType DEF WalkType
<1>2. /\ x.page = q /\ x.total = t /\ x.count = w.count /\ x.left = w.left
      /\ x.stayed = w.stayed /\ x.shown = w.shown
  BY DEF WalkType
<1>3. x \in WalkType
  <2> HIDE DEF q
  <2>1. PICK y \in WalkType : y = [w EXCEPT !.total = t]
    BY <1>1, WalkUpdate
  <2>2. [y EXCEPT !.page = q] \in WalkType
    BY <1>1, WalkUpdate
  <2>3. x = [y EXCEPT !.page = q]
    BY <2>1 DEF q
  <2>4. QED
    BY <2>2, <2>3
<1> HIDE DEF x, t
<1>4. CASE w.count = 0
  BY <1>1, <1>2, <1>3, <1>4 DEF WalkOK, Missing, x
<1>5. CASE w.count # 0
  <2>1. w.count > 0 /\ q = w.page + 1
    BY <1>1, <1>5
  <2>2. Reached("start", x) = Reached("total", w)
    BY <1>2, <2>1 DEF Reached
  <2>3. Skipped(x, S, o, Reached("start", x)) = Skipped(w, S, o, Reached("total", w))
    BY <1>2, <2>2 DEF Skipped, Missing
  <2>4. (x.page - 2) * PageSize = Offset(w.page)
    BY <1>1, <1>2, <2>1, NumbersType DEF Offset
  <2>5. WalkOK(S, "start", x, o)
    BY <1>1, <1>2, <2>1, <2>3, <2>4 DEF WalkOK, t
  <2>6. QED
    BY <1>3, <1>5, <2>5 DEF x
<1>6. QED
  BY <1>4, <1>5
-----------------------------------------------------------------------------
(* Every step keeps it. *)

LEMMA InitWalk == Init => WalkInv
<1> SUFFICES ASSUME Init PROVE WalkInv
  OBVIOUS
<1>1. /\ now = 0 /\ MaxTime \in Nat
      /\ pc = [r \in Readers |-> "start"] /\ value = [r \in Readers |-> None]
      /\ walk = [r \in Readers |-> NoPages]
  BY NumbersType DEF Init
<1>2. NoPages \in WalkType
  BY DEF NoPages, WalkType
<1>3. \A o : \A S \in SUBSET Clients : WalkOK(S, "start", NoPages, o)
  <2> SUFFICES ASSUME NEW S \in SUBSET Clients, NEW o
               PROVE  WalkOK(S, "start", NoPages, o)
    OBVIOUS
  <2>1. Skipped(NoPages, S, o, Reached("start", NoPages)) = {}
    BY DEF Skipped, Missing, NoPages
  <2>2. Cardinality({}) = 0
    BY FS_EmptySet
  <2>3. QED
    BY <2>1, <2>2 DEF WalkOK, NoPages
<1>4. ASSUME NEW r \in Readers PROVE PagesOK(r) /\ AnswerOK(r)
  <2>1. Matching(job[r].status) \in SUBSET Clients
    BY DEF Matching
  <2>2. walk[r].count = 0 /\ pc[r] = "start" /\ value[r] = None /\ walk[r] = NoPages
    BY <1>1 DEF NoPages
  <2>3. QED
    BY <1>3, <2>1, <2>2 DEF PagesOK, AnswerOK
<1>5. pc \in [Readers -> Phases] /\ walk \in [Readers -> WalkType] /\ now <= MaxTime
  BY <1>1, <1>2 DEF Phases
<1>6. QED
  BY <1>4, <1>5 DEF WalkInv

\* What everybody else does to a reader that does not walk, and to its answer.
LEMMA AnswerKept ==
  ASSUME WalkInv, NEW r \in Readers, pc'[r] = pc[r], value'[r] = value[r], load' = load
  PROVE  AnswerOK(r)'
BY DEF WalkInv, AnswerOK, job

LEMMA TablesWalk ==
  ASSUME Inv, WalkInv, now' <= MaxTime, UNCHANGED <<active, load, pc, value, walk>>
  PROVE  WalkInv'
<1>1. \A r \in Readers : AnswerOK(r)'
  BY AnswerKept
<1>2. \A r \in Readers : PagesOK(r)'
  BY DEF WalkInv, PagesOK, job, Matching
<1>3. QED
  BY <1>1, <1>2 DEF WalkInv

LEMMA RegisterWalk ==
  ASSUME Inv, WalkInv, NEW c \in Clients, RegisterClient(c)
  PROVE  WalkInv'
<1>1. /\ active' = [active EXCEPT ![c] = TRUE] /\ active[c] = None
      /\ active \in [Clients -> BOOLEAN \union {None}]
      /\ UNCHANGED <<now, load, pc, value, walk>>
  BY DEF RegisterClient, readerVars, Inv, TablesOK
<1>2. ASSUME NEW r \in Readers PROVE PagesOK(r)'
  <2>1. job' = job /\ walk'[r] = walk[r] /\ pc'[r] = pc[r]
    BY <1>1 DEF job
  <2>2. walk[r] \in WalkType /\ PagesOK(r)
    BY DEF WalkInv
  <2>3. CASE job[r].kind = "walk"
    <3> DEFINE S == Matching(job[r].status)
               T == Matching(job[r].status)'
               o == job[r].ordering
    <3>1. o \in Orderings
      BY <2>3, ReaderFacts, WalkJobShape
    <3>2. WalkOK(S, pc[r], walk[r], o)
      BY <2>2, <2>3 DEF PagesOK
    <3>3. S \subseteq T /\ S \in SUBSET Clients /\ T \in SUBSET Clients
      BY <1>1, <2>1 DEF Matching, Fits
    <3> HIDE DEF S, T, o
    <3>4. WalkOK(T, pc[r], walk[r], o)
      BY <2>2, <3>1, <3>2, <3>3, WalkJoined
    <3>5. QED
      BY <2>1, <2>3, <3>4
         DEF PagesOK, WalkOK, Missing, Skipped, Reached, Position, Earlier, Alone,
               Offset, Before, T, o
  <2>4. CASE job[r].kind # "walk"
    BY <2>1, <2>2, <2>4 DEF PagesOK
  <2>5. QED
    BY <2>3, <2>4
<1>3. \A r \in Readers : AnswerOK(r)'
  BY <1>1, AnswerKept
<1>4. QED
  BY <1>1, <1>2, <1>3 DEF WalkInv

LEMMA SetActiveWalk ==
  ASSUME Inv, WalkInv, NEW c \in Clients, NEW a \in BOOLEAN, SetActive(c, a)
  PROVE  WalkInv'
<1> DEFINE Leaves(r) ==
             Walking(r) /\ c \in Matching(job[r].status) /\ ~Fits(a, job[r].status)
           new(r) == [walk[r] EXCEPT !.stayed = @ \ {c}, !.left = @ + 1]
<1>1. /\ active' = [active EXCEPT ![c] = a] /\ active[c] # None
      /\ active \in [Clients -> BOOLEAN \union {None}]
      /\ UNCHANGED <<now, load, pc, value>>
      /\ walk' = [r \in Readers |-> IF Leaves(r) THEN new(r) ELSE walk[r]]
  BY DEF SetActive, readerVars, Inv, TablesOK
<1>2. ASSUME NEW r \in Readers
      PROVE  LET w == walk[r]
                 x == new(r) IN
             /\ x \in WalkType /\ x.stayed = w.stayed \ {c} /\ x.left = w.left + 1
             /\ x.page = w.page /\ x.shown = w.shown
             /\ x.count = w.count /\ x.total = w.total
  <2> DEFINE w == walk[r]
  <2>1. w \in WalkType
    BY DEF WalkInv
  <2> HIDE DEF w
  <2>2. w.stayed \ {c} \in SUBSET Clients /\ w.left + 1 \in Nat
    BY <2>1 DEF WalkType
  <2>3. PICK y \in WalkType : y = [w EXCEPT !.stayed = w.stayed \ {c}]
    BY <2>1, <2>2, WalkUpdate
  <2>4. [y EXCEPT !.left = w.left + 1] \in WalkType
    BY <2>2, WalkUpdate
  <2>5. [y EXCEPT !.left = w.left + 1] = [w EXCEPT !.stayed = @ \ {c}, !.left = @ + 1]
    BY <2>3
  <2> DEFINE x == [w EXCEPT !.stayed = @ \ {c}, !.left = @ + 1]
  <2>6. /\ x.stayed = w.stayed \ {c} /\ x.left = w.left + 1
        /\ x.page = w.page /\ x.shown = w.shown
        /\ x.count = w.count /\ x.total = w.total
    BY <2>1 DEF WalkType
  <2>7. QED
    BY <2>4, <2>5, <2>6 DEF w
<1> HIDE DEF Leaves, new
<1>3. walk' \in [Readers -> WalkType]
  BY <1>1, <1>2 DEF WalkInv
<1>4. ASSUME NEW r \in Readers PROVE PagesOK(r)'
  <2> DEFINE S == Matching(job[r].status)
             T == Matching(job[r].status)'
             o == job[r].ordering
             w == walk[r]
             p == pc[r]
  <2>1. job' = job /\ pc'[r] = p /\ walk'[r] = IF Leaves(r) THEN new(r) ELSE w
    BY <1>1 DEF job
  <2>2. w \in WalkType /\ PagesOK(r)
    BY DEF WalkInv
  <2>3. CASE job[r].kind = "walk"
    <3>1. o \in Orderings
      BY <2>3, ReaderFacts, WalkJobShape
    <3>2. WalkOK(S, p, w, o)
      BY <2>2, <2>3 DEF PagesOK
    <3>3. S \in SUBSET Clients /\ T \in SUBSET Clients
      BY DEF Matching
    <3>4. CASE Leaves(r)
      <4>1. c \in S /\ p # "done" /\ (p = "total" \/ w.page > 1)
        BY <3>4 DEF Leaves, Walking
      <4>2. T = S \ {c}
        BY <1>1, <2>1, <3>4 DEF Matching, Leaves, Fits
      <4> DEFINE x == walk'[r]
      <4>3. /\ x \in WalkType /\ x.stayed = w.stayed \ {c} /\ x.left = w.left + 1
            /\ x.page = w.page /\ x.shown = w.shown
            /\ x.count = w.count /\ x.total = w.total
        BY <1>2, <2>1, <3>4
      <4> HIDE DEF S, T, o, w, p, x
      <4>4. WalkOK(T, p, x, o)
        BY <2>2, <3>1, <3>2, <3>3, <4>1, <4>2, <4>3, WalkLeft
      <4>5. QED
        BY <2>1, <2>3, <4>4
           DEF x, PagesOK, WalkOK, Missing, Skipped, Reached, Position, Earlier, Alone,
               Offset, Before, T, o
    <3>5. CASE ~Walking(r)
      <4>1. p = "done" \/ (p = "start" /\ w.page = 1)
        BY <2>2, <3>2, <3>5 DEF Walking, WalkOK, WalkType
      <4>2. Skipped(w, T, o, Reached(p, w)) = {} \/ p = "done"
        BY <3>2, <4>1 DEF WalkOK, Skipped, Missing
      <4>3. Cardinality({}) = 0 /\ w.left \in Nat
        BY <2>2, FS_EmptySet DEF WalkType
      <4>4. WalkOK(T, p, w, o)
        <5> HIDE DEF S, T, o, w, p
        <5>1. CASE p = "done"
          BY <3>2, <5>1 DEF WalkOK
        <5>2. CASE p = "start" /\ w.page = 1
          <6>1. w.stayed = {}
            BY <3>2, <5>2 DEF WalkOK
          <6>2. w.stayed \subseteq T
            BY <6>1
          <6>3. Cardinality(Skipped(w, T, o, Reached(p, w))) <= w.left
            BY <4>2, <4>3, <5>2
          <6>4. QED
            BY <3>2, <5>2, <6>1, <6>2, <6>3 DEF WalkOK
        <5>3. QED
          BY <4>1, <5>1, <5>2
      <4>5. walk'[r] = w
        BY <2>1, <3>5 DEF Leaves
      <4> HIDE DEF S, T, o, w, p
      <4>6. QED
        BY <2>1, <2>3, <4>4, <4>5
           DEF PagesOK, WalkOK, Missing, Skipped, Reached, Position, Earlier, Alone,
               Offset, Before, T, o
    <3>6. CASE ~Leaves(r) /\ Walking(r)
      <4>1. S \subseteq T
        BY <1>1, <2>1, <3>6 DEF Matching, Leaves, Fits
      <4>2. walk'[r] = w
        BY <2>1, <3>6
      <4> HIDE DEF S, T, o, w, p
      <4>3. WalkOK(T, p, w, o)
        BY <2>2, <3>1, <3>2, <3>3, <4>1, WalkJoined
      <4>4. QED
        BY <2>1, <2>3, <4>2, <4>3
           DEF PagesOK, WalkOK, Missing, Skipped, Reached, Position, Earlier, Alone,
               Offset, Before, T, o
    <3>7. QED
      BY <3>4, <3>5, <3>6
  <2>4. CASE job[r].kind # "walk"
    <3>1. walk'[r].count = w.count
      BY <1>2, <2>1
    <3>2. QED
      BY <2>1, <2>2, <2>4, <3>1 DEF PagesOK
  <2>5. QED
    BY <2>3, <2>4
<1>5. \A r \in Readers : AnswerOK(r)'
  BY <1>1, AnswerKept
<1>6. QED
  BY <1>1, <1>3, <1>4, <1>5 DEF WalkInv

\* A step of a reader leaves the walks of the others as they are.
LEMMA ReadWalkFrame ==
  ASSUME Inv, WalkInv, NEW r \in Readers, Frame(r),
         \A q \in Readers \ {r} : walk'[q] = walk[q],
         PagesOK(r)', AnswerOK(r)', pc' \in [Readers -> Phases],
         walk' \in [Readers -> WalkType]
  PROVE  WalkInv'
<1>1. \A q \in Readers \ {r} : PagesOK(q)'
  <2> SUFFICES ASSUME NEW q \in Readers, q # r PROVE PagesOK(q)'
    OBVIOUS
  <2>1. /\ walk'[q] = walk[q] /\ pc'[q] = pc[q] /\ job' = job /\ active' = active
        /\ PagesOK(q)
    BY DEF Frame, Others, job, WalkInv
  <2>2. QED
    BY <2>1 DEF PagesOK, Matching, Fits, WalkOK, Missing, Skipped, Reached, Position,
                Earlier, Alone, Offset, Before
<1>2. \A q \in Readers \ {r} : AnswerOK(q)'
  BY AnswerKept DEF Frame, Others
<1>3. now' <= MaxTime
  BY DEF WalkInv, Frame
<1>4. QED
  BY <1>1, <1>2, <1>3 DEF WalkInv

LEMMA ComputeWalk ==
  ASSUME Inv, WalkInv, NEW r \in Readers,
         \/ Hit(r) \/ Miss(r) \/ QueryTop(r) \/ Store(r)
         \/ QueryTotals(r) \/ CountClients(r) \/ CountActive(r)
         \/ Begin(r) \/ CountUsage(r) \/ Fail(r)
  PROVE  WalkInv'
<1> DEFINE k == job[r].kind
<1>1. Frame(r)
  BY ReadFrame DEF Read
<1>2. walk' = walk
  BY DEF Hit, Miss, QueryTop, Store, QueryTotals, CountClients, CountActive, Begin,
         CountUsage, Fail
<1>3. k \in UsageKinds \union CachedKinds
  BY ReaderFacts
     DEF KindsOK, CachedKinds, Go, Computing, Hit, Miss, QueryTop, Store, QueryTotals,
         CountClients, CountActive, Begin, CountUsage, Fail
<1>4. pc' \in [Readers -> Phases]
  BY DEF WalkInv, Phases, Go, Hit, Miss, QueryTop, Store, QueryTotals, CountClients,
         CountActive, Begin, CountUsage, Fail
<1>5. pc'[r] = "done" /\ k \in UsageKinds => value'[r] \in Usages
  <2>1. CASE CountUsage(r)
    <3> DEFINE u == UsageOf(job[r].kind, job[r].client, asked[r])
    <3>1. /\ value'[r] = [total |-> u.total, allowed |-> u.allowed,
                          blocked |-> u.blocked, seen |-> Len(rows)]
      BY <2>1 DEF CountUsage, Compute, Inv, Functions
    <3>2. Len(rows) \in Nat
      BY DEF Inv, TablesOK
    <3>3. u.total \in Nat /\ u.allowed \in Nat /\ u.blocked \in Nat
      <4>1. pc[r] = "count" /\ k \in UsageKinds
        BY <2>1, ReaderFacts DEF CountUsage, Go, KindsOK
      <4>2. \A S \in SUBSET Of(job[r].client) :
              /\ Counts(S).total \in Nat /\ Counts(S).allowed \in Nat
              /\ Counts(S).blocked \in Nat
        <5> SUFFICES ASSUME NEW S \in SUBSET Of(job[r].client)
                     PROVE  /\ Cardinality(S) \in Nat
                            /\ Cardinality({n \in S : rows[n].allowed}) \in Nat
                            /\ Cardinality({n \in S : ~rows[n].allowed}) \in Nat
          BY DEF Counts
        <5>1. IsFiniteSet(S)
          BY RequestersFinite, FS_Subset DEF Inv
        <5>2. /\ IsFiniteSet({n \in S : rows[n].allowed})
              /\ IsFiniteSet({n \in S : ~rows[n].allowed})
          BY <5>1, FS_Subset
        <5>3. QED
          BY <5>1, <5>2, FS_CardinalityType
      <4>3. \E S \in SUBSET Of(job[r].client) : u = Counts(S)
        BY <4>1 DEF UsageKinds, UsageOf, CurrentUsage, DailyUsage, MonthlyUsage,
                    UsageByPeriod
      <4>4. QED
        BY <4>2, <4>3
    <3> HIDE DEF u
    <3>4. QED
      BY <3>1, <3>2, <3>3 DEF Usages
  <2>2. CASE ~CountUsage(r)
    BY <2>2, ReaderFacts
       DEF KindsOK, CachedKinds, UsageKinds, Go, Hit, Miss, QueryTop, Store, QueryTotals,
           CountClients, CountActive, Begin, Fail, Inv, Functions
  <2>3. QED
    BY <2>1, <2>2
<1>6. job' = job
  BY <1>1 DEF Frame, job
<1>7. PagesOK(r)'
  <2>1. k # "walk" /\ walk[r].count = 0
    BY <1>3 DEF WalkInv, PagesOK, UsageKinds, CachedKinds
  <2>2. QED
    BY <1>2, <1>6, <2>1 DEF PagesOK
<1>8. AnswerOK(r)'
  BY <1>3, <1>5, <1>6 DEF AnswerOK
<1>9. QED
  BY <1>1, <1>2, <1>4, <1>7, <1>8, ReadWalkFrame DEF WalkInv

LEMMA PageWalk ==
  ASSUME Inv, WalkInv, NEW r \in Readers, SelectPage(r) \/ CountMatching(r)
  PROVE  WalkInv'
<1> DEFINE S == Matching(job[r].status)
           o == job[r].ordering
           w == walk[r]
           x == walk'[r]
           p == pc'[r]
<1>1. Frame(r)
  BY ReadFrame DEF Read
<1>2. job[r].kind = "walk"
  BY ReaderFacts DEF SelectPage, CountMatching, KindsOK
<1>3. o \in Orderings /\ S \in SUBSET Clients /\ w \in WalkType /\ WalkOK(S, pc[r], w, o)
  BY <1>2, ReaderFacts, WalkJobShape DEF Matching, WalkInv, PagesOK
<1>4. x \in WalkType /\ WalkOK(S, p, x, o)
  <2>1. CASE SelectPage(r)
    <3>1. PICK page \in Pages(S, w.page, o) :
          /\ pc[r] = "start" /\ p = "total"
          /\ x = [w EXCEPT !.shown = @ \union page, !.count = Cardinality(page),
                           !.stayed = IF w.page = 1 THEN S ELSE @]
      BY <2>1 DEF SelectPage, Go, WalkInv
    <3> HIDE DEF S, w, o, x, p
    <3>2. QED
      BY <1>3, <3>1, WalkSelects
  <2>2. CASE CountMatching(r)
    <3>1. /\ pc[r] = "total" /\ p = IF w.count = 0 THEN "done" ELSE "start"
          /\ x = [w EXCEPT !.total = Cardinality(S),
                           !.page = IF w.count = 0 THEN @ ELSE @ + 1]
      BY <2>2 DEF CountMatching, WalkInv
    <3> HIDE DEF S, w, o, x, p
    <3>2. QED
      BY <1>3, <3>1, WalkCounts
  <2>3. QED
    BY <2>1, <2>2
<1>5. /\ \A q \in Readers \ {r} : walk'[q] = walk[q]
      /\ walk' \in [Readers -> WalkType] /\ pc' \in [Readers -> Phases]
  <2>1. /\ DOMAIN walk' = Readers /\ DOMAIN pc' = Readers
        /\ walk' = [q \in Readers |-> walk'[q]] /\ pc' = [q \in Readers |-> pc'[q]]
        /\ \A q \in Readers \ {r} : walk'[q] = walk[q] /\ pc'[q] = pc[q]
    BY DEF SelectPage, CountMatching, Go, WalkInv
  <2>2. p \in Phases
    BY <1>4 DEF WalkOK, Phases
  <2>3. \A q \in Readers : walk'[q] \in WalkType /\ pc'[q] \in Phases
    BY <1>4, <2>1, <2>2 DEF WalkInv
  <2>4. QED
    BY <2>1, <2>3
<1>6. job' = job /\ active' = active /\ value'[r] = value[r] /\ load' = load
  BY <1>1 DEF Frame, job, SelectPage, CountMatching
<1>7. PagesOK(r)'
  <2>1. Matching(job[r].status)' = S /\ job'[r].ordering = o
    BY <1>6 DEF Matching
  <2>2. job'[r].kind = "walk"
    BY <1>2, <1>6
  <2> HIDE DEF S, o, w, x, p
  <2>3. QED
    BY <1>4, <2>1, <2>2
       DEF PagesOK, WalkOK, Missing, Skipped, Reached, Position, Earlier, Alone,
           Offset, Before, x, p
<1>8. AnswerOK(r)'
  BY <1>2, <1>6 DEF AnswerOK, UsageKinds, WalkInv
<1>9. QED
  BY <1>1, <1>5, <1>7, <1>8, ReadWalkFrame

LEMMA NextWalk == Inv /\ WalkInv /\ [Next]_vars => WalkInv'
<1> SUFFICES ASSUME Inv, WalkInv, [Next]_vars PROVE WalkInv'
  OBVIOUS
<1>1. ASSUME NEW r \in Readers, Read(r) PROVE WalkInv'
  BY <1>1, ComputeWalk, PageWalk DEF Read
<1>2. ASSUME NEW k \in Tasks, InsertRow(k) \/ CommitRow(k) PROVE WalkInv'
  BY <1>2, TablesWalk DEF InsertRow, CommitRow, readerVars, WalkInv
<1>3. ASSUME NEW c \in Clients, RegisterClient(c) PROVE WalkInv'
  BY <1>3, RegisterWalk
<1>4. ASSUME NEW c \in Clients, NEW a \in BOOLEAN, SetActive(c, a) PROVE WalkInv'
  BY <1>4, SetActiveWalk
<1>5. CASE CacheLost
  BY <1>5, TablesWalk DEF CacheLost, readerVars, WalkInv
<1>6. CASE Tick
  <2>1. now' <= MaxTime
    BY <1>6, NumbersType DEF Tick, Inv, TablesOK
  <2>2. QED
    BY <1>6, <2>1, TablesWalk DEF Tick, readerVars
<1>7. CASE UNCHANGED vars
  BY <1>7, TablesWalk DEF vars, readerVars, WalkInv
<1>8. QED
  BY <1>1, <1>2, <1>3, <1>4, <1>5, <1>6, <1>7 DEF Next

LEMMA WalkInvariant == Spec => [](Inv /\ WalkInv)
<1>1. Init => Inv /\ WalkInv
  BY InitInv, InitWalk
<1>2. Inv /\ WalkInv /\ [Next]_vars => (Inv /\ WalkInv)'
  BY NextInv, NextWalk
<1>3. QED
  BY <1>1, <1>2, PTL DEF Spec

\* TypeOK: every endpoint of analytics.py, usage.py and clients.py answers what
\* it was asked for, and no half computed answer gets into Redis.
THEOREM ReportsTypes == Spec => []TypeOK
<1>1. Inv /\ WalkInv => TypeOK
  <2> SUFFICES ASSUME Inv, WalkInv PROVE TypeOK
    OBVIOUS
  <2>1. /\ now \in 0 .. MaxTime /\ rows \in Seq(UsageRow)
        /\ active \in [Clients -> BOOLEAN \union {None}]
        /\ task \in [Tasks -> [phase : {"pending", "inserted", "over"}, stamp : Nat]]
        /\ job \in [Readers -> Jobs] /\ pc \in [Readers -> Phases]
    BY NumbersType DEF Inv, TablesOK, Functions, WalkInv
  <2>2. asked \in [Readers -> Nat] /\ ended \in [Readers -> Nat]
    BY ReaderFacts DEF Inv, Functions
  <2>3. \A v, t : \A k \in CachedKinds : Fresh(k, v, t) => v \in Values(k)
    <3>1. Values("stats") = Stats /\ Values("top") = Seq(TopEntry)
      BY DEF Values, UsageKinds
    <3>2. QED
      BY <3>1 DEF Fresh, Behind, TopFresh, CachedKinds
  <2>4. \A k \in CachedKinds : cache[k] # None =>
          cache[k].value \in Values(k) /\ cache[k].expires \in Nat
    BY <2>3 DEF Inv, CacheOK
  <2>5. ASSUME NEW r \in Readers, pc[r] \in {"done", "store"}
        PROVE  value[r] \in Values(job[r].kind)
    <3>1. ValueOK(r) /\ KindsOK(r) /\ AnswerOK(r)
      BY ReaderFacts DEF WalkInv
    <3>2. CASE job[r].kind \in CachedKinds
      BY <2>3, <2>5, <3>1, <3>2 DEF ValueOK
    <3>3. CASE job[r].kind \in UsageKinds
      <4>1. value[r] \in Usages
        BY <2>5, <3>1, <3>3 DEF KindsOK, AnswerOK, CachedKinds, UsageKinds
      <4>2. Values(job[r].kind) = Usages
        BY <3>3 DEF Values, UsageKinds
      <4>3. QED
        BY <4>1, <4>2
    <3>4. CASE job[r].kind \notin UsageKinds \union CachedKinds
      BY <3>1, <3>4 DEF AnswerOK, Values, CachedKinds
    <3>5. QED
      BY <3>2, <3>3, <3>4
  <2>6. QED
    BY <2>1, <2>2, <2>4, <2>5 DEF TypeOK, WalkInv, WalkType
<1>2. QED
  BY <1>1, WalkInvariant, PTL

\* WalkMissesNobody: whoever reads page after page of list (client_repository.py)
\* until one is empty, in any order and with any equal values among the others.
THEOREM WalkComplete == Spec => []WalkMissesNobody
<1>1. WalkInv => WalkMissesNobody
  BY DEF WalkInv, PagesOK, WalkOK, WalkMissesNobody, Missing, Done
<1>2. QED
  BY <1>1, WalkInvariant, PTL

\* TotalCoversPage: ClientRepository.list counts in a statement after the one of
\* the page, so the total is below what the pages showed by no more than the
\* clients that ceased to match meanwhile.
THEOREM TotalsCoverPages == Spec => []TotalCoversPage
<1>1. WalkInv => TotalCoversPage
  <2> SUFFICES ASSUME WalkInv, NEW r \in Readers,
                      pc[r] \in {"start", "done"}, walk[r].count > 0
               PROVE  (walk[r].page - 2) * PageSize + walk[r].count
                        <= walk[r].total + walk[r].left
    BY DEF TotalCoversPage
  <2>1. job[r].kind = "walk"
    BY DEF WalkInv, PagesOK
  <2>2. WalkOK(Matching(job[r].status), pc[r], walk[r], job[r].ordering)
    BY <2>1 DEF WalkInv, PagesOK
  <2>3. QED
    BY <2>2 DEF WalkOK
<1>2. QED
  BY <1>1, WalkInvariant, PTL
=============================================================================
