--------------------------- MODULE PlanningProofs ---------------------------
(***************************************************************************)
(* A graph of tasks, declared in whatever way and with any number of       *)
(* tasks, is refused for its cycles or planned along its dependencies.     *)
(*                                                                         *)
(* Three facts about walks carry the proof: a walk is the least set closed *)
(* under the edges, a set in which every task has an upstream task has a   *)
(* cycle in it, and an edge that closes no cycle leaves none.  They hold   *)
(* of links between objects and of dependencies between keys, and a cycle  *)
(* of keys made of links alone is one of objects.  The worklist knows      *)
(* which tasks are visited with everything they depend on                  *)
(* (WorklistStands), and the planner which layer each of them waited for   *)
(* (LayersStand).                                                          *)
(***************************************************************************)
EXTENDS WorkflowPlanning, FiniteSetTheorems, SequenceTheorems, WellFoundedInduction,
        TLAPS

-----------------------------------------------------------------------------
(* Natural numbers and finite sets of them.                                *)

\* The natural numbers are well founded: the library's fact, as a relation.
LEMMA LessIsWellFounded == IsWellFoundedOn({p \in Nat \X Nat : p[1] < p[2]}, Nat)
BY NatLessThanWellFounded, Zenon DEF OpToRel

LEMMA LeastNatural ==
    ASSUME NEW S \in SUBSET Nat, S # {}
    PROVE  \E n \in S : \A m \in S : n <= m
<1> DEFINE R == {p \in Nat \X Nat : p[1] < p[2]}
<1>1. IsWellFoundedOn(R, Nat)
  BY LessIsWellFounded
<1>2. S \subseteq Nat
  OBVIOUS
<1> HIDE DEF R
<1>3. PICK n \in S : \A m \in S : ~ (<<m, n>> \in R)
  BY <1>1, <1>2, WFMin
<1>4. n \in Nat /\ \A m \in S : m \in Nat /\ ~ (m < n)
  BY <1>2, <1>3 DEF R
<1> QED
  BY <1>4

\* The task that heappop takes is one that is ready.
LEMMA LeastIsIn ==
    ASSUME NEW S \in SUBSET Nat, S # {}
    PROVE  Least(S) \in S
BY LeastNatural DEF Least

LEMMA TasksAreFinite ==
    ASSUME NEW S \in SUBSET Tasks
    PROVE  IsFiniteSet(S) /\ Cardinality(S) \in Nat
<1>1. IsFiniteSet(Tasks)
  BY PlanningConstants, FS_Interval DEF Tasks
<1> QED
  BY <1>1, FS_Subset, FS_CardinalityType

\* sorted(): every task of a set has its place in it, by the number of those
\* that come before.
LEMMA SortedExists ==
    ASSUME NEW S \in SUBSET Tasks
    PROVE  \E q \in [1..Cardinality(S) -> S] :
              \A i, j \in 1..Cardinality(S) : i < j => q[i] < q[j]
<1> DEFINE n == Cardinality(S)
           upTo(t) == {s \in S : s <= t}
           rank == [t \in S |-> Cardinality(upTo(t))]
<1>1. IsFiniteSet(S) /\ n \in Nat /\ S \subseteq Nat
  BY TasksAreFinite, PlanningConstants DEF Tasks
<1>2. \A t \in S : /\ IsFiniteSet(upTo(t)) /\ upTo(t) \subseteq S /\ t \in upTo(t)
                   /\ rank[t] \in 1..n
  <2> SUFFICES ASSUME NEW t \in S
               PROVE  /\ IsFiniteSet(upTo(t)) /\ upTo(t) \subseteq S /\ t \in upTo(t)
                      /\ rank[t] \in 1..n
    OBVIOUS
  <2>1. upTo(t) \subseteq S /\ t \in upTo(t)
    BY <1>1
  <2>2. IsFiniteSet(upTo(t)) /\ Cardinality(upTo(t)) <= n /\ Cardinality(upTo(t)) \in Nat
    BY <1>1, <2>1, FS_Subset, FS_CardinalityType
  <2>3. Cardinality(upTo(t)) # 0
    BY <2>1, <2>2, FS_EmptySet
  <2> QED
    BY <1>1, <2>1, <2>2, <2>3
<1>3. \A s, t \in S : s < t => rank[s] < rank[t]
  <2> SUFFICES ASSUME NEW s \in S, NEW t \in S, s < t PROVE rank[s] < rank[t]
    OBVIOUS
  <2>1. upTo(s) \subseteq upTo(t) /\ t \in upTo(t) /\ t \notin upTo(s)
    <3>1. s \in Nat /\ t \in Nat /\ \A r \in S : r \in Nat /\ (r <= s => r <= t) /\ ~ (t <= s)
      BY <1>1
    <3> QED
      BY <1>2, <3>1
  <2>2. Cardinality(upTo(s)) <= Cardinality(upTo(t)) /\ Cardinality(upTo(s)) # Cardinality(upTo(t))
    BY <1>2, <2>1, FS_Subset
  <2> QED
    BY <1>2, <2>2
<1>4. rank \in Injection(S, 1..n)
  <2>1. rank \in [S -> 1..n]
    BY <1>2
  <2>2. \A s, t \in S : rank[s] = rank[t] => s = t
    <3>1. \A s, t \in S : s < t \/ t < s \/ s = t
      BY <1>1
    <3>2. \A s \in S : rank[s] \in Nat
      BY <1>2
    <3> HIDE DEF rank
    <3> QED
      BY <1>3, <3>1, <3>2
  <2> QED
    BY <2>1, <2>2 DEF Injection, IsInjective
<1> HIDE DEF rank
<1>5. IsFiniteSet(1..n) /\ Cardinality(1..n) = n
  BY <1>1, FS_Interval
<1>6. rank \in Surjection(S, 1..n)
  BY <1>4, <1>5, FS_Injection
<1>7. \A i \in 1..n : \E t \in S : rank[t] = i
  BY <1>6 DEF Surjection
<1> DEFINE q == [i \in 1..n |-> CHOOSE t \in S : rank[t] = i]
<1>8. \A i \in 1..n : q[i] \in S /\ rank[q[i]] = i
  BY <1>7
<1> HIDE DEF q
<1>9. \A i, j \in 1..n : i < j => q[i] < q[j]
  <2> SUFFICES ASSUME NEW i \in 1..n, NEW j \in 1..n, i < j PROVE q[i] < q[j]
    OBVIOUS
  <2>0. i \in Nat /\ j \in Nat /\ q[i] \in S /\ q[j] \in S
    BY <1>1, <1>8
  <2>1. q[i] \in Nat /\ q[j] \in Nat
    BY <1>1, <2>0
  <2>2. ~ (q[j] < q[i])
    <3>1. q[j] \in S /\ q[i] \in S /\ rank[q[i]] = i /\ rank[q[j]] = j /\ ~ (j < i)
      BY <1>8, <2>0
    <3> QED
      BY <1>3, <3>1
  <2>3. q[i] # q[j]
    BY <1>8, <2>1
  <2> QED
    BY <2>1, <2>2, <2>3
<1>10. q \in [1..n -> S]
  BY <1>8 DEF q
<1> QED
  BY <1>9, <1>10

\* A layer lists the ready tasks, each of them once (topological_layers).
LEMMA SortedLists ==
    ASSUME NEW S \in SUBSET Tasks
    PROVE  /\ Sorted(S) \in Seq(Tasks) /\ Len(Sorted(S)) = Cardinality(S)
           /\ ToSet(Sorted(S)) = S /\ IsInjective(Sorted(S))
<1> DEFINE n == Cardinality(S)
           q == Sorted(S)
<1>1. n \in Nat /\ IsFiniteSet(S) /\ S \subseteq Nat
  BY TasksAreFinite, PlanningConstants DEF Tasks
<1>2. q \in [1..n -> S] /\ \A i, j \in 1..n : i < j => q[i] < q[j]
  BY SortedExists DEF Sorted
<1> HIDE DEF q
<1>3. \A i, j \in 1..n : q[i] = q[j] => i = j
  <2> SUFFICES ASSUME NEW i \in 1..n, NEW j \in 1..n, i # j PROVE q[i] # q[j]
    OBVIOUS
  <2>1. i < j \/ j < i
    OBVIOUS
  <2>2. q[i] \in Nat /\ q[j] \in Nat
    BY <1>1, <1>2
  <2> QED
    BY <1>2, <2>1, <2>2
<1>4. q \in Seq(Tasks) /\ Len(q) = n /\ DOMAIN q = 1..n
  <2>1. q \in [1..n -> Tasks] /\ DOMAIN q = 1..n
    BY <1>2
  <2>2. q \in Seq(Tasks)
    BY <1>1, <2>1, SeqDef
  <2> QED
    BY <1>1, <2>1, <2>2, LenProperties
<1>5. q \in Injection(1..n, S)
  BY <1>2, <1>3 DEF Injection, IsInjective
<1>6. IsFiniteSet(1..n) /\ Cardinality(1..n) = n
  BY <1>1, FS_Interval
<1>7. q \in Surjection(1..n, S)
  BY <1>1, <1>5, <1>6, FS_Injection
<1>8. ToSet(q) = S
  BY <1>2, <1>4, <1>7 DEF ToSet, Surjection
<1> QED
  BY <1>3, <1>4, <1>8 DEF IsInjective, q

-----------------------------------------------------------------------------
(* Walks.                                                                  *)

\* What a walk from x finds.
Walk(map, x) == {y \in DOMAIN map : Reaches(map, x, y)}

LEMMA WalkIsClosed ==
    ASSUME NEW N, NEW map \in [N -> SUBSET N], NEW x \in N
    PROVE  /\ map[x] \subseteq Walk(map, x)
           /\ \A y \in Walk(map, x) : map[y] \subseteq Walk(map, x)
BY DEF Walk, Reaches

LEMMA WalkIsLeast ==
    ASSUME NEW N, NEW map \in [N -> SUBSET N], NEW x \in N,
           NEW S \in SUBSET N, map[x] \subseteq S, \A y \in S : map[y] \subseteq S
    PROVE  Walk(map, x) \subseteq S
BY DEF Walk, Reaches

LEMMA WalksCompose ==
    ASSUME NEW N, NEW map \in [N -> SUBSET N], NEW x \in N, NEW y \in Walk(map, x)
    PROVE  y \in N /\ Walk(map, y) \subseteq Walk(map, x)
<1>1. y \in N /\ map[y] \subseteq Walk(map, x) /\ Walk(map, x) \subseteq N
  BY WalkIsClosed DEF Walk
<1> QED
  BY <1>1, WalkIsClosed, WalkIsLeast

\* Fewer edges, fewer walks.
LEMMA WalksShrink ==
    ASSUME NEW N, NEW map \in [N -> SUBSET N], NEW less \in [N -> SUBSET N],
           \A x \in N : less[x] \subseteq map[x], NEW x \in N
    PROVE  Walk(less, x) \subseteq Walk(map, x)
<1>1. Walk(map, x) \subseteq N /\ less[x] \subseteq Walk(map, x)
  BY WalkIsClosed DEF Walk
<1>2. \A y \in Walk(map, x) : less[y] \subseteq Walk(map, x)
  BY <1>1, WalkIsClosed
<1> QED
  BY <1>1, <1>2, WalkIsLeast

\* An edge between two tasks with no walk back closes no cycle
\* (add_authoring_dependency).
LEMMA EdgeClosesNoCycle ==
    ASSUME NEW N, NEW map \in [N -> SUBSET N], NEW up \in N, NEW down \in N,
           up # down, ~ Reaches(map, up, down), \A x \in N : ~ Reaches(map, x, x),
           NEW t \in N
    PROVE  ~ Reaches([map EXCEPT ![down] = @ \cup {up}], t, t)
<1> DEFINE more == [map EXCEPT ![down] = @ \cup {up}]
           found == Walk(map, t)
           S == found \cup (IF down \in found \cup {t} THEN {up} \cup Walk(map, up) ELSE {})
<1>1. more \in [N -> SUBSET N]
  OBVIOUS
<1>2. \A x \in N : more[x] = IF x = down THEN map[x] \cup {up} ELSE map[x]
  OBVIOUS
<1>3. S \in SUBSET N
  BY DEF Walk
<1>4. more[t] \subseteq S
  BY <1>2, WalkIsClosed
<1>5. \A y \in S : more[y] \subseteq S
  <2> SUFFICES ASSUME NEW y \in S PROVE more[y] \subseteq S
    OBVIOUS
  <2>1. map[y] \subseteq S
    BY WalkIsClosed
  <2>2. y = down => up \in S
    <3>1. down \notin Walk(map, up)
      BY DEF Walk
    <3> QED
      BY <3>1
  <2> QED
    BY <1>2, <1>3, <2>1, <2>2
<1>6. t \notin S
  <2>1. t \notin found
    BY DEF Walk
  <2>2. ASSUME down \in found \cup {t} PROVE t # up /\ t \notin Walk(map, up)
    <3>1. down \notin Walk(map, up)
      BY DEF Walk
    <3>2. t \in Walk(map, up) => found \subseteq Walk(map, up)
      BY WalksCompose
    <3> QED
      BY <2>2, <3>1, <3>2
  <2> QED
    BY <2>1, <2>2
<1> HIDE DEF more, S
<1>7. t \notin Walk(more, t)
  BY <1>1, <1>3, <1>4, <1>5, <1>6, WalkIsLeast
<1> QED
  BY <1>7 DEF Walk, more

\* A set of tasks each of which has an upstream task in it has a cycle in it:
\* what the worklist has left over (_validate_acyclic).
LEMMA LeftOverHasCycle ==
    ASSUME NEW map \in [Tasks -> SUBSET Tasks], NEW U \in SUBSET Tasks, U # {},
           \A t \in U : \E d \in U : d \in map[t]
    PROVE  \E t \in U : Reaches(map, t, t)
<1> SUFFICES ASSUME \A t \in U : ~ Reaches(map, t, t) PROVE FALSE
  OBVIOUS
<1> DEFINE size(t) == Cardinality(Walk(map, t))
           sizes == {size(t) : t \in U}
<1>1. \A t \in U : IsFiniteSet(Walk(map, t)) /\ size(t) \in Nat
  BY TasksAreFinite DEF Walk
<1>2. PICK n \in sizes : \A m \in sizes : n <= m
  <2>1. sizes \in SUBSET Nat /\ sizes # {}
    BY <1>1
  <2> HIDE DEF sizes
  <2> QED
    BY <2>1, LeastNatural
<1>3. PICK t \in U : size(t) = n
  BY <1>2
<1>4. PICK d \in U : d \in map[t]
  OBVIOUS
<1>5. d \in Walk(map, t) /\ d \notin Walk(map, d)
  BY <1>4, WalkIsClosed DEF Walk
<1>6. Walk(map, d) \subseteq Walk(map, t)
  BY <1>5, WalksCompose
<1>7. size(d) <= size(t) /\ size(d) # size(t)
  BY <1>1, <1>5, <1>6, FS_Subset
<1>8. n <= size(d)
  BY <1>2
<1> HIDE DEF size, sizes
<1> QED
  BY <1>1, <1>3, <1>7, <1>8

\* Upstream and downstream are the two readings of one graph: what a failure
\* skips is what depends on it (descendants_of).
LEMMA WalksTurnAround ==
    ASSUME NEW N, NEW map \in [N -> SUBSET N], NEW back \in [N -> SUBSET N],
           \A x, y \in N : y \in map[x] <=> x \in back[y],
           NEW s \in N, NEW t \in N, Reaches(map, s, t)
    PROVE  Reaches(back, t, s)
<1> DEFINE S == {d \in N : s \in Walk(back, d)}
<1>1. map[s] \subseteq S
  <2> SUFFICES ASSUME NEW d \in map[s] PROVE d \in S
    OBVIOUS
  <2>1. d \in N /\ s \in back[d]
    OBVIOUS
  <2> QED
    BY <2>1, WalkIsClosed
<1>2. \A d \in S : map[d] \subseteq S
  <2> SUFFICES ASSUME NEW d \in S, NEW e \in map[d] PROVE e \in S
    OBVIOUS
  <2>1. d \in N /\ e \in N /\ d \in back[e] /\ s \in Walk(back, d)
    OBVIOUS
  <2>2. d \in Walk(back, e)
    BY <2>1, WalkIsClosed
  <2> QED
    BY <2>1, <2>2, WalksCompose
<1>3. t \in S
  BY <1>1, <1>2 DEF Reaches
<1> QED
  BY <1>3 DEF Walk

-----------------------------------------------------------------------------
(* The invariant.                                                          *)

Visited == ToSet(visited)

\* The tasks of a plan so far, up to some layer.
Layered(g) == UNION {ToSet(groups[h]) : h \in 1..g}

PlanningTypes ==
    /\ Defined \subseteq Tasks
    /\ Declared \in [Tasks -> SUBSET (Tasks \cup {Unknown})]
    /\ phase \in Phases

\* The objects of a definition are alive, each with a key of its own.
ObjectsStand ==
    /\ key \in [Objects -> Tasks \cup {Unknown}]
    /\ dependencies \in [Objects -> SUBSET (Tasks \cup {Unknown})]
    /\ tracked \in [Objects -> SUBSET Objects]
    /\ chosen \subseteq Alive
    /\ \A o, p \in chosen : key[o] = key[p] => o = p
    /\ phase = "authoring" => chosen = {}

\* The links tracked join objects alive, are dependencies of theirs and have no
\* cycle.
LinksStand ==
    /\ \A o \in Objects : \A p \in tracked[o] :
          {o, p} \subseteq Alive /\ key[p] \in dependencies[o]
    /\ \A o \in Objects : ~ Reaches(tracked, o, o)

EdgesAreKnown == \A t \in Defined : Declared[t] \subseteq Defined

\* What the validator or the planner has visited, it has visited after
\* everything it depends on; ready is what may come next.
WorklistStands ==
    /\ visited \in Seq(Tasks) /\ Visited \subseteq Defined /\ IsInjective(visited)
    /\ left = [t \in Tasks |-> IF t \in Defined THEN Declared[t] \ Visited ELSE {}]
    /\ ready = {t \in Defined \ Visited : Declared[t] \subseteq Visited}
    /\ \A i \in 1..Len(visited) :
          Declared[visited[i]] \subseteq {visited[j] : j \in 1..(i - 1)}

\* F follows the definition of FlattenSeq over gs.
Flattens(F, gs) ==
    F = [i \in 1..Len(gs) |-> IF i = 1 THEN gs[i] ELSE F[i - 1] \o gs[i]]

GroupsFlatten ==
    IF groups = << >> THEN visited = << >>
    ELSE \E F : Flattens(F, groups) /\ F[Len(groups)] = visited

\* A task is in the layer after the last one it depends on.
LayersStand ==
    /\ groups \in Seq(Seq(Tasks))
    /\ Visited = Layered(Len(groups))
    /\ \A g, h \in 1..Len(groups) : g # h => ToSet(groups[g]) \cap ToSet(groups[h]) = {}
    /\ \A g \in 1..Len(groups) : \A t \in ToSet(groups[g]) :
          /\ Declared[t] \subseteq Layered(g - 1)
          /\ g > 1 => Declared[t] \cap ToSet(groups[g - 1]) # {}
    /\ groups # << >> => \A t \in ready : Declared[t] \cap ToSet(groups[Len(groups)]) # {}

PlanningInv ==
    /\ PlanningTypes /\ ObjectsStand /\ LinksStand
    /\ phase \notin {"authoring", "defined", "unknown_dependency"} => EdgesAreKnown
    /\ phase \in {"validating", "planning", "planned"} => WorklistStands
    /\ phase \in {"planning", "planned"} =>
          LayersStand /\ GroupsFlatten /\ \A t \in Defined : ~ Before(t, t)
    /\ phase = "planned" => Visited = Defined
    /\ phase = "cycle" => \E t \in Defined : Before(t, t)

-----------------------------------------------------------------------------
(* What the worklist has visited.                                          *)

LEMMA UpstreamType ==
    ASSUME PlanningTypes
    PROVE  Upstream \in [Tasks -> SUBSET Tasks]
BY DEF PlanningTypes, Upstream

\* Whatever a visited task depends on, directly or not, was visited before.
LEMMA VisitedInOrder ==
    ASSUME PlanningTypes, WorklistStands, NEW i \in 1..Len(visited),
           NEW d \in Tasks, Before(d, visited[i])
    PROVE  \E j \in 1..(i - 1) : visited[j] = d
<1> DEFINE S == {visited[j] : j \in 1..(i - 1)}
<1>1. /\ Len(visited) \in Nat /\ i \in Nat
      /\ \A j \in 1..Len(visited) : visited[j] \in Tasks
  BY LenProperties, ElementOfSeq DEF WorklistStands
<1>2. S \in SUBSET Tasks
  BY <1>1
<1>3. \A t \in Tasks : Upstream[t] \subseteq Declared[t]
  <2> SUFFICES ASSUME NEW t \in Tasks PROVE Upstream[t] \subseteq Declared[t]
    OBVIOUS
  <2>1. Upstream[t] = IF t \in Defined THEN Declared[t] \cap Defined ELSE {}
    BY DEF Upstream
  <2> QED
    BY <2>1
<1>4. \A j \in 1..i : Declared[visited[j]] \subseteq {visited[k] : k \in 1..(j - 1)}
  <2>1. \A j \in 1..i : j \in 1..Len(visited)
    BY <1>1
  <2> QED
    BY <2>1 DEF WorklistStands
<1>5. Upstream[visited[i]] \subseteq S
  <2>1. i \in 1..i /\ visited[i] \in Tasks
    BY <1>1
  <2> QED
    BY <1>3, <1>4, <2>1
<1>6. \A y \in S : Upstream[y] \subseteq S
  <2> SUFFICES ASSUME NEW j \in 1..(i - 1) PROVE Upstream[visited[j]] \subseteq S
    OBVIOUS
  <2>1. j \in 1..i /\ j \in 1..Len(visited) /\ 1..(j - 1) \subseteq 1..(i - 1)
    BY <1>1
  <2>2. visited[j] \in Tasks
    BY <1>1, <2>1
  <2>3. Declared[visited[j]] \subseteq {visited[k] : k \in 1..(j - 1)}
    BY <1>4, <2>1
  <2>4. {visited[k] : k \in 1..(j - 1)} \subseteq S
    BY <2>1
  <2> QED
    BY <1>3, <2>2, <2>3, <2>4
<1>7. d \in S
  <2>1. DOMAIN Upstream = Tasks
    BY DEF Upstream
  <2> HIDE DEF S
  <2> QED
    BY <1>2, <1>5, <1>6, <2>1 DEF Before, Reaches
<1> QED
  BY <1>7

\* A graph all of which was visited has no cycle.
LEMMA VisitedHasNoCycle ==
    ASSUME PlanningTypes, WorklistStands, NEW t \in Visited
    PROVE  ~ Before(t, t)
<1>1. Len(visited) \in Nat /\ DOMAIN visited = 1..Len(visited)
  BY LenProperties DEF WorklistStands
<1>2. PICK i \in 1..Len(visited) : visited[i] = t
  BY <1>1 DEF Visited, ToSet
<1>3. t \in Tasks
  BY DEF PlanningTypes, WorklistStands
<1>4. \A j \in 1..(i - 1) : j \in 1..Len(visited) /\ j # i
  BY <1>1
<1> QED
  BY <1>1, <1>2, <1>3, <1>4, VisitedInOrder DEF WorklistStands, IsInjective

\* What is left when nothing is ready has a cycle.
LEMMA StuckHasCycle ==
    ASSUME PlanningTypes, EdgesAreKnown, WorklistStands, ready = {}, Visited # Defined
    PROVE  \E t \in Defined : Before(t, t)
<1> DEFINE U == Defined \ Visited
<1>1. U \in SUBSET Tasks /\ U # {}
  BY DEF PlanningTypes, WorklistStands
<1>2. \A t \in U : \E d \in U : d \in Upstream[t]
  <2> SUFFICES ASSUME NEW t \in U PROVE \E d \in U : d \in Upstream[t]
    OBVIOUS
  <2>1. ~ (Declared[t] \subseteq Visited)
    BY DEF WorklistStands
  <2>2. PICK d \in Declared[t] : d \notin Visited
    BY <2>1
  <2>3. d \in Defined
    BY DEF EdgesAreKnown
  <2>4. d \in Upstream[t]
    BY <1>1, <2>3 DEF Upstream
  <2> QED
    BY <2>2, <2>3, <2>4
<1> HIDE DEF U
<1>3. PICK t \in U : Reaches(Upstream, t, t)
  BY <1>1, <1>2, UpstreamType, LeftOverHasCycle
<1> QED
  BY <1>3 DEF U, Before

\* visited lists each visited task once.
LEMMA VisitedIsCounted ==
    ASSUME PlanningTypes, WorklistStands
    PROVE  Visited = Defined <=> Len(visited) = Cardinality(Defined)
<1>1. Len(visited) \in Nat /\ visited \in [1..Len(visited) -> Visited]
  BY LenProperties, SeqDef DEF WorklistStands, Visited, ToSet
<1>2. visited \in Injection(1..Len(visited), Visited)
  BY <1>1 DEF WorklistStands, Injection
<1>3. visited \in Surjection(1..Len(visited), Visited)
  BY <1>1 DEF Visited, ToSet, Surjection
<1>4. IsFiniteSet(1..Len(visited)) /\ Cardinality(1..Len(visited)) = Len(visited)
  BY <1>1, FS_Interval
<1>5. visited \in Bijection(1..Len(visited), Visited)
  BY <1>2, <1>3 DEF Bijection
<1>6. Cardinality(Visited) = Len(visited)
  BY <1>4, <1>5, FS_Bijection DEF ExistsBijection
<1>7. IsFiniteSet(Defined) /\ Visited \subseteq Defined
  BY TasksAreFinite DEF PlanningTypes, WorklistStands
<1> QED
  BY <1>6, <1>7, FS_Subset

\* The steps of the validator and the planner leave the definition alone.
LEMMA DefinitionStays ==
    ASSUME UNCHANGED graphVars
    PROVE  Defined' = Defined /\ Declared' = Declared
BY DEF graphVars, Defined, Declared

\* A visit of ready tasks, in whatever order, leaves the worklist as it should
\* be (_validate_acyclic, topological_layers).
LEMMA VisitKeepsWorklist ==
    ASSUME PlanningTypes, EdgesAreKnown, WorklistStands, UNCHANGED graphVars,
           NEW q \in Seq(Tasks), IsInjective(q), ToSet(q) \subseteq ready,
           visited' = visited \o q, left' = Without(ToSet(q)),
           ready' = (ready \ ToSet(q)) \cup Freed(ToSet(q))
    PROVE  /\ WorklistStands' /\ Visited' = Visited \cup ToSet(q)
<1> DEFINE n == Len(visited)
           m == Len(q)
           D == ToSet(q)
<1>1. /\ n \in Nat /\ m \in Nat /\ DOMAIN visited = 1..n /\ DOMAIN q = 1..m
      /\ \A i \in 1..n : visited[i] \in Tasks
      /\ \A i \in 1..m : q[i] \in Tasks /\ q[i] \in D
  BY LenProperties, ElementOfSeq DEF WorklistStands, ToSet
<1>2. /\ visited' \in Seq(Tasks) /\ Len(visited') = n + m /\ DOMAIN visited' = 1..(n + m)
      /\ \A i \in 1..(n + m) :
            visited'[i] = IF i <= n THEN visited[i] ELSE q[i - n]
  BY ConcatProperties, LenProperties DEF WorklistStands
<1>3. Visited' = Visited \cup D
  <2>1. \A i \in 1..n : i \in 1..(n + m) /\ visited'[i] = visited[i]
    BY <1>1, <1>2
  <2>2. \A i \in 1..m : n + i \in 1..(n + m) /\ visited'[n + i] = q[i]
    BY <1>1, <1>2
  <2>3. \A i \in 1..(n + m) : i \in 1..n \/ \E k \in 1..m : i = n + k
    <3> TAKE i \in 1..(n + m)
    <3>1. i <= n \/ (i - n \in 1..m /\ i = n + (i - n))
      BY <1>1
    <3> QED
      BY <1>1, <3>1
  <2>4. Visited = {visited[i] : i \in 1..n} /\ D = {q[i] : i \in 1..m}
    BY <1>1 DEF Visited, ToSet
  <2>5. Visited' = {visited'[i] : i \in 1..(n + m)}
    BY <1>2 DEF Visited, ToSet
  <2>6. Visited \cup D \subseteq Visited'
    BY <2>1, <2>2, <2>4, <2>5
  <2>7. Visited' \subseteq Visited \cup D
    <3> SUFFICES ASSUME NEW i \in 1..(n + m) PROVE visited'[i] \in Visited \cup D
      BY <2>5
    <3> QED
      BY <2>1, <2>2, <2>3, <2>4
  <2> QED
    BY <2>6, <2>7
<1>4. /\ D \subseteq Defined /\ D \cap Visited = {}
      /\ \A t \in D : Declared[t] \subseteq Visited
  BY DEF WorklistStands
<1>5. IsInjective(visited')
  <2> SUFFICES ASSUME NEW i \in 1..(n + m), NEW j \in 1..(n + m), visited'[i] = visited'[j]
               PROVE  i = j
    BY <1>2 DEF IsInjective
  <2>1. CASE i <= n /\ j <= n
    <3>1. i \in 1..n /\ j \in 1..n /\ visited[i] = visited[j]
      BY <1>1, <1>2, <2>1
    <3> QED
      BY <1>1, <3>1 DEF WorklistStands, IsInjective
  <2>2. CASE i > n /\ j > n
    <3>1. i - n \in 1..m /\ j - n \in 1..m /\ q[i - n] = q[j - n]
      BY <1>1, <1>2, <2>2
    <3>2. i - n = j - n
      BY <1>1, <3>1 DEF IsInjective
    <3> QED
      BY <1>1, <3>2
  <2>3. ASSUME NEW k \in 1..(n + m), NEW l \in 1..(n + m), k <= n, l > n
        PROVE  visited'[k] # visited'[l]
    <3>1. k \in 1..n /\ l - n \in 1..m
      BY <1>1, <2>3
    <3>2. visited'[k] = visited[k] /\ visited'[l] = q[l - n]
      BY <1>1, <1>2, <2>3
    <3>3. visited'[k] \in Visited /\ visited'[l] \in D
      BY <1>1, <3>1, <3>2 DEF Visited, ToSet
    <3> QED
      BY <1>4, <3>3
  <2>4. (i <= n \/ i > n) /\ (j <= n \/ j > n)
    BY <1>1
  <2> QED
    BY <2>1, <2>2, <2>3, <2>4
<1>6. \A t \in Visited : Declared[t] \subseteq Visited
  <2> SUFFICES ASSUME NEW i \in 1..n PROVE Declared[visited[i]] \subseteq Visited
    BY <1>1 DEF Visited, ToSet
  <2>1. \A j \in 1..(i - 1) : j \in 1..n
    BY <1>1
  <2>2. {visited[j] : j \in 1..(i - 1)} \subseteq Visited
    BY <1>1, <2>1 DEF Visited, ToSet
  <2>3. Declared[visited[i]] \subseteq {visited[j] : j \in 1..(i - 1)}
    BY DEF WorklistStands
  <2> QED
    BY <2>2, <2>3
<1>7. left' = [t \in Tasks |-> IF t \in Defined THEN Declared[t] \ Visited' ELSE {}]
  BY <1>3 DEF WorklistStands, Without
<1>8. ready' = {t \in Defined \ Visited' : Declared[t] \subseteq Visited'}
  <2> SUFFICES ASSUME NEW t
               PROVE  t \in ready' <=> t \in Defined \ Visited' /\ Declared[t] \subseteq Visited'
    OBVIOUS
  <2>1. t \in ready <=> t \in Defined \ Visited /\ Declared[t] \subseteq Visited
    BY DEF WorklistStands
  <2>2. t \in Freed(D) <=> /\ t \in Defined /\ ~ (Declared[t] \subseteq Visited)
                           /\ Declared[t] \subseteq Visited \cup D
    BY DEF Freed, Without, WorklistStands, PlanningTypes
  <2> QED
    BY <1>3, <1>4, <1>6, <2>1, <2>2
<1>9. \A i \in 1..(n + m) : Declared[visited'[i]] \subseteq {visited'[j] : j \in 1..(i - 1)}
  <2> SUFFICES ASSUME NEW i \in 1..(n + m)
               PROVE  Declared[visited'[i]] \subseteq {visited'[j] : j \in 1..(i - 1)}
    OBVIOUS
  <2>1. CASE i <= n
    <3>1. i \in 1..n /\ visited'[i] = visited[i]
      BY <1>1, <1>2, <2>1
    <3>2. \A j \in 1..(i - 1) : visited'[j] = visited[j]
      BY <1>1, <1>2, <2>1
    <3>3. Declared[visited[i]] \subseteq {visited[j] : j \in 1..(i - 1)}
      BY <3>1 DEF WorklistStands
    <3> QED
      BY <3>1, <3>2, <3>3
  <2>2. CASE i > n
    <3>1. i - n \in 1..m /\ visited'[i] = q[i - n]
      BY <1>1, <1>2, <2>2
    <3>2. Declared[visited'[i]] \subseteq Visited
      BY <1>1, <1>4, <3>1
    <3>3. \A j \in 1..n : j \in 1..(i - 1) /\ visited'[j] = visited[j]
      BY <1>1, <1>2, <2>2
    <3>4. Visited \subseteq {visited'[j] : j \in 1..(i - 1)}
      BY <1>1, <3>3 DEF Visited, ToSet
    <3> QED
      BY <3>2, <3>4
  <2>3. i <= n \/ i > n
    BY <1>1
  <2> QED
    BY <2>1, <2>2, <2>3
<1>10. Visited' \subseteq Defined
  BY <1>3, <1>4 DEF WorklistStands
<1> QED
  BY <1>2, <1>3, <1>5, <1>7, <1>8, <1>9, <1>10, DefinitionStays DEF WorklistStands

-----------------------------------------------------------------------------
(* The steps.                                                              *)

\* What the definition takes from its objects.
LEMMA DefinitionTypes ==
    ASSUME ObjectsStand
    PROVE  Defined \subseteq Tasks /\ Declared \in [Tasks -> SUBSET (Tasks \cup {Unknown})]
<1>1. \A o \in chosen : o \in Objects /\ key[o] \in Tasks
  BY DEF ObjectsStand, Alive
<1>2. Defined \subseteq Tasks
  BY <1>1 DEF Defined
<1>3. \A o \in chosen : dependencies[o] \subseteq Tasks \cup {Unknown}
  BY <1>1 DEF ObjectsStand
<1>4. \A t \in Tasks :
         UNION {dependencies[o] : o \in {c \in chosen : key[c] = t}} \subseteq Tasks \cup {Unknown}
  BY <1>3
<1> QED
  BY <1>2, <1>4 DEF Declared

\* Before a workflow is defined, nothing is asked but that its objects and
\* their links are in order.
LEMMA AuthoringStands ==
    ASSUME ObjectsStand', LinksStand', phase' \in {"authoring", "defined"}
    PROVE  PlanningInv'
<1>1. PlanningTypes'
  <2>1. (Defined \subseteq Tasks /\ Declared \in [Tasks -> SUBSET (Tasks \cup {Unknown})])'
    BY DefinitionTypes, PTL
  <2> QED
    BY <2>1 DEF PlanningTypes, Phases
<1> QED
  BY <1>1 DEF PlanningInv

LEMMA PlanningInvInit == Init => PlanningInv
<1> SUFFICES ASSUME Init PROVE PlanningInv
  OBVIOUS
<1>1. ObjectsStand
  BY DEF Init, ObjectsStand
<1>2. PlanningTypes
  BY <1>1, DefinitionTypes DEF Init, PlanningTypes, Phases
<1>3. \A o \in Objects : ~ Reaches(tracked, o, o)
  <2> SUFFICES ASSUME NEW o \in Objects PROVE ~ Reaches(tracked, o, o)
    OBVIOUS
  <2>1. tracked = [p \in Objects |-> {}] /\ DOMAIN tracked = Objects /\ {} \in SUBSET Objects
    BY DEF Init
  <2>2. tracked[o] \subseteq {} /\ o \notin {}
    BY <2>1
  <2> QED
    BY <2>1, <2>2 DEF Reaches
<1>4. LinksStand
  BY <1>1, <1>3 DEF Init, LinksStand
<1> QED
  BY <1>1, <1>2, <1>4 DEF Init, PlanningInv

\* A new object has an identity in no link.
LEMMA BuildTaskStep ==
    ASSUME PlanningInv, NEW x \in Objects, NEW k \in Tasks, NEW given \in GivenChoices,
           BuildTask(x, k, given)
    PROVE  PlanningInv'
<1>1. /\ ObjectsStand /\ LinksStand /\ phase = "authoring" /\ phase' = "authoring"
      /\ chosen = {} /\ chosen' = {} /\ tracked' = tracked
      /\ key' = [key EXCEPT ![x] = k]
      /\ dependencies' = [dependencies EXCEPT ![x] = given] /\ x \notin Alive
  BY DEF BuildTask, PlanningInv, ObjectsStand
<1>2. given \subseteq Tasks \cup {Unknown}
  BY PlanningConstants
<1>3. /\ \A o \in Objects : o # x => key'[o] = key[o] /\ dependencies'[o] = dependencies[o]
      /\ key' \in [Objects -> Tasks \cup {Unknown}]
      /\ dependencies' \in [Objects -> SUBSET (Tasks \cup {Unknown})]
  BY <1>1, <1>2 DEF ObjectsStand
<1>4. ObjectsStand'
  BY <1>1, <1>3 DEF ObjectsStand
<1>5. \A o \in Objects : \A p \in tracked[o] :
         {o, p} \subseteq Alive' /\ key'[p] \in dependencies'[o]
  <2> SUFFICES ASSUME NEW o \in Objects, NEW p \in tracked[o]
               PROVE  {o, p} \subseteq Alive' /\ key'[p] \in dependencies'[o]
    OBVIOUS
  <2>1. {o, p} \subseteq Alive /\ key[p] \in dependencies[o]
    BY <1>1 DEF LinksStand
  <2>2. o # x /\ p # x /\ p \in Objects
    BY <1>1, <2>1 DEF Alive
  <2> QED
    BY <1>3, <2>1, <2>2 DEF Alive
<1>6. \A o \in Objects : ~ Reaches(tracked, o, o)'
  BY <1>1 DEF LinksStand, Reaches
<1>7. LinksStand'
  BY <1>1, <1>5, <1>6 DEF LinksStand
<1> QED
  BY <1>1, <1>4, <1>7, AuthoringStands

\* Links are made and tasks collected without leaving a cycle behind.
LEMMA AddDependencyStep ==
    ASSUME PlanningInv, NEW up \in Objects, NEW down \in Objects, AddDependency(up, down)
    PROVE  PlanningInv'
<1>1. /\ ObjectsStand /\ LinksStand /\ phase = "authoring" /\ phase' = "authoring"
      /\ chosen = {} /\ chosen' = {} /\ key' = key
      /\ tracked \in [Objects -> SUBSET Objects]
      /\ tracked' = [tracked EXCEPT ![down] = @ \cup {up}]
      /\ dependencies' = [dependencies EXCEPT ![down] = @ \cup {key[up]}]
      /\ {up, down} \subseteq Alive /\ key[up] # key[down]
      /\ ~ Reaches(tracked, up, down) /\ \A o \in Objects : ~ Reaches(tracked, o, o)
  BY DEF AddDependency, PlanningInv, ObjectsStand, LinksStand
<1>2. /\ tracked' \in [Objects -> SUBSET Objects]
      /\ dependencies' \in [Objects -> SUBSET (Tasks \cup {Unknown})]
  BY <1>1 DEF ObjectsStand
<1>3. ObjectsStand'
  BY <1>1, <1>2 DEF ObjectsStand
<1>4. \A o \in Objects : ~ Reaches(tracked', o, o)
  BY <1>1, EdgeClosesNoCycle
<1>5. \A o \in Objects : ~ Reaches(tracked, o, o)'
  BY <1>4 DEF Reaches
<1>6. Alive' = Alive
  BY <1>1 DEF Alive
<1>7. \A o \in Objects : \A p \in tracked'[o] :
         {o, p} \subseteq Alive /\ key[p] \in dependencies'[o]
  BY <1>1 DEF ObjectsStand, LinksStand
<1>8. LinksStand'
  BY <1>1, <1>5, <1>6, <1>7 DEF LinksStand
<1> QED
  BY <1>1, <1>3, <1>8, AuthoringStands

LEMMA CollectTaskStep ==
    ASSUME PlanningInv, NEW x \in Objects, CollectTask(x)
    PROVE  PlanningInv'
<1>1. /\ ObjectsStand /\ LinksStand /\ phase = "authoring" /\ phase' = "authoring"
      /\ chosen = {} /\ chosen' = {}
      /\ key' = [key EXCEPT ![x] = Unknown]
      /\ dependencies' = [dependencies EXCEPT ![x] = {}]
      /\ tracked \in [Objects -> SUBSET Objects]
      /\ tracked' = [d \in Objects |-> IF d = x THEN {} ELSE tracked[d] \ {x}]
  BY DEF CollectTask, Forgotten, PlanningInv, ObjectsStand
<1>2. /\ \A o \in Objects : o # x => key'[o] = key[o] /\ dependencies'[o] = dependencies[o]
      /\ key' \in [Objects -> Tasks \cup {Unknown}]
      /\ dependencies' \in [Objects -> SUBSET (Tasks \cup {Unknown})]
      /\ tracked' \in [Objects -> SUBSET Objects]
      /\ \A o \in Objects : tracked'[o] \subseteq tracked[o] /\ x \notin tracked'[o]
      /\ tracked'[x] = {}
  BY <1>1 DEF ObjectsStand
<1>3. ObjectsStand'
  BY <1>1, <1>2 DEF ObjectsStand
<1>4. \A o \in Objects : ~ Reaches(tracked, o, o)'
  <2> SUFFICES ASSUME NEW o \in Objects PROVE ~ Reaches(tracked', o, o)
    BY DEF Reaches
  <2>1. o \notin Walk(tracked, o)
    BY <1>1 DEF Walk, LinksStand
  <2>2. Walk(tracked', o) \subseteq Walk(tracked, o)
    BY <1>1, <1>2, WalksShrink
  <2> QED
    BY <1>2, <2>1, <2>2 DEF Walk
<1>5. \A o \in Objects : \A p \in tracked'[o] :
         {o, p} \subseteq Alive' /\ key'[p] \in dependencies'[o]
  <2> SUFFICES ASSUME NEW o \in Objects, NEW p \in tracked'[o]
               PROVE  {o, p} \subseteq Alive' /\ key'[p] \in dependencies'[o]
    OBVIOUS
  <2>1. o # x /\ p # x /\ p \in tracked[o] /\ p \in Objects
    BY <1>2
  <2>2. {o, p} \subseteq Alive /\ key[p] \in dependencies[o]
    BY <1>1, <2>1 DEF LinksStand
  <2> QED
    BY <1>2, <2>1, <2>2 DEF Alive
<1>6. LinksStand'
  BY <1>4, <1>5 DEF LinksStand
<1> QED
  BY <1>1, <1>3, <1>6, AuthoringStands

\* The definition takes objects that are alive, one for each key.
LEMMA DefineWorkflowStep ==
    ASSUME PlanningInv, NEW objects \in SUBSET Objects, DefineWorkflow(objects)
    PROVE  PlanningInv'
<1>1. /\ ObjectsStand /\ LinksStand /\ phase' = "defined" /\ chosen' = objects
      /\ key' = key /\ dependencies' = dependencies /\ tracked' = tracked
      /\ objects \subseteq Alive /\ \A o, p \in objects : key[o] = key[p] => o = p
  BY DEF DefineWorkflow, PlanningInv
<1>2. ObjectsStand'
  BY <1>1 DEF ObjectsStand, Alive
<1>3. LinksStand'
  BY <1>1 DEF LinksStand, Alive, Reaches
<1> QED
  BY <1>1, <1>2, <1>3, AuthoringStands

\* The graph is only looked at once it is declared.
LEMMA GraphStays ==
    ASSUME UNCHANGED graphVars, PlanningInv, phase' \in Phases, phase' # "authoring"
    PROVE  /\ PlanningTypes' /\ ObjectsStand' /\ LinksStand'
           /\ EdgesAreKnown => EdgesAreKnown'
           /\ \A t \in Defined : Before(t, t)' <=> Before(t, t)
<1>1. Defined' = Defined /\ Declared' = Declared
  BY DefinitionStays
<1>2. PlanningTypes'
  BY <1>1 DEF PlanningInv, PlanningTypes
<1>3. ObjectsStand'
  BY DEF graphVars, PlanningInv, ObjectsStand, Alive
<1>4. LinksStand'
  BY DEF graphVars, PlanningInv, LinksStand, Alive, Reaches
<1>5. Upstream' = Upstream
  BY <1>1 DEF Upstream
<1>6. \A t \in Defined : Before(t, t)' <=> Before(t, t)
  BY <1>5 DEF Before, Reaches
<1>7. EdgesAreKnown => EdgesAreKnown'
  BY <1>1 DEF EdgesAreKnown
<1> QED
  BY <1>2, <1>3, <1>4, <1>6, <1>7

\* A worklist begins with what depends on nothing.
LEMMA WorklistBegins ==
    ASSUME PlanningTypes, EdgesAreKnown, Worklist, UNCHANGED graphVars
    PROVE  WorklistStands'
<1>1. visited' = << >> /\ Visited' = {} /\ visited' \in Seq(Tasks) /\ Len(visited') = 0
  BY EmptySeq DEF Worklist, Visited, ToSet
<1>2. IsInjective(visited')
  BY <1>1 DEF IsInjective
<1>3. Defined' = Defined /\ Declared' = Declared
  BY DefinitionStays
<1>4. left' = [t \in Tasks |-> IF t \in Defined THEN Declared[t] \ Visited' ELSE {}]
  BY <1>1 DEF Worklist
<1>5. ready' = {t \in Defined \ Visited' : Declared[t] \subseteq Visited'}
  BY <1>1 DEF Worklist
<1> QED
  BY <1>1, <1>2, <1>3, <1>4, <1>5 DEF WorklistStands

LEMMA BeginValidationStep ==
    ASSUME PlanningInv, BeginValidation
    PROVE  PlanningInv'
<1>1. UNCHANGED graphVars /\ phase = "defined" /\ phase' # "authoring"
      /\ phase' \in {"unknown_dependency", "validating"} /\ phase' \in Phases
  BY DEF BeginValidation, Phases
<1>2. PlanningTypes' /\ ObjectsStand' /\ LinksStand'
  BY <1>1, GraphStays
<1>3. CASE phase' = "unknown_dependency"
  BY <1>2, <1>3 DEF PlanningInv
<1>4. CASE phase' = "validating"
  <2>1. EdgesAreKnown /\ Worklist
    BY <1>4 DEF BeginValidation, EdgesAreKnown
  <2>2. PlanningTypes
    BY DEF PlanningInv
  <2> QED
    BY <1>1, <1>2, <1>4, <2>1, <2>2, WorklistBegins, GraphStays DEF PlanningInv
<1> QED
  BY <1>1, <1>3, <1>4

LEMMA VisitTaskStep ==
    ASSUME PlanningInv, VisitTask
    PROVE  PlanningInv'
<1>1. /\ UNCHANGED graphVars /\ phase = "validating" /\ phase' = "validating" /\ phase' \in Phases
      /\ PlanningTypes /\ EdgesAreKnown /\ WorklistStands
  BY DEF VisitTask, PlanningInv, Phases
<1> DEFINE t == Least(ready)
           q == << t >>
<1>2. t \in ready /\ t \in Tasks
  <2>1. ready \subseteq Tasks /\ Tasks \subseteq Nat
    <3>1. ready \subseteq Defined /\ Defined \subseteq Tasks
      BY <1>1 DEF WorklistStands, PlanningTypes
    <3>2. Tasks \subseteq Nat
      BY PlanningConstants DEF Tasks
    <3> QED
      BY <3>1, <3>2
  <2>2. ready \in SUBSET Nat /\ ready # {}
    BY <2>1 DEF VisitTask
  <2> QED
    BY <2>1, <2>2, LeastIsIn
<1>3. /\ visited' = Append(visited, t) /\ left' = Without({t})
      /\ ready' = (ready \ {t}) \cup Freed({t})
  BY DEF VisitTask
<1> HIDE DEF t
<1>4. q \in Seq(Tasks) /\ ToSet(q) = {t} /\ IsInjective(q)
  <2>1. q \in Seq(Tasks) /\ DOMAIN q = {1} /\ q[1] = t
    BY <1>2
  <2> HIDE DEF q
  <2> QED
    BY <2>1 DEF ToSet, IsInjective
<1>5. visited' = visited \o q
  <2>1. visited \in Seq(Tasks) /\ t \in Tasks
    BY <1>1, <1>2 DEF WorklistStands
  <2> QED
    BY <1>3, <2>1, AppendIsConcat
<1> HIDE DEF q
<1>6. WorklistStands'
  BY <1>1, <1>2, <1>3, <1>4, <1>5, VisitKeepsWorklist
<1> QED
  BY <1>1, <1>6, GraphStays DEF PlanningInv

LEMMA EndValidationStep ==
    ASSUME PlanningInv, EndValidation
    PROVE  PlanningInv'
<1>1. /\ UNCHANGED graphVars /\ phase = "validating" /\ phase' \in {"planning", "cycle"}
      /\ phase' \in Phases /\ PlanningTypes /\ EdgesAreKnown /\ WorklistStands
  BY DEF EndValidation, PlanningInv, Phases
<1>2. PlanningTypes' /\ ObjectsStand' /\ LinksStand' /\ EdgesAreKnown'
  BY <1>1, GraphStays
<1>3. CASE phase' = "planning"
  <2>1. Worklist /\ Visited = Defined
    BY <1>1, <1>3, VisitedIsCounted DEF EndValidation
  <2>2. WorklistStands'
    BY <1>1, <2>1, WorklistBegins
  <2>3. visited' = << >> /\ groups' = << >>
    BY <2>1 DEF Worklist
  <2>4. \A t \in Defined : ~ Before(t, t)
    BY <1>1, <2>1, VisitedHasNoCycle
  <2>5. \A t \in Defined' : ~ Before(t, t)'
    BY <1>1, <2>4, GraphStays, DefinitionStays
  <2>6. GroupsFlatten'
    BY <2>3 DEF GroupsFlatten
  <2>7. LayersStand'
    <3>1. groups' \in Seq(Seq(Tasks)) /\ Len(groups') = 0
      BY <2>3, EmptySeq
    <3>2. Visited' = {} /\ Layered(Len(groups))' = {}
      BY <2>3, <3>1 DEF Visited, ToSet, Layered
    <3> QED
      BY <2>3, <3>1, <3>2 DEF LayersStand
  <2> QED
    BY <1>2, <1>3, <2>2, <2>5, <2>6, <2>7 DEF PlanningInv
<1>4. CASE phase' = "cycle"
  <2>1. Visited # Defined /\ ready = {}
    BY <1>1, <1>4, VisitedIsCounted DEF EndValidation
  <2>2. \E t \in Defined : Before(t, t)
    BY <1>1, <2>1, StuckHasCycle
  <2>3. \E t \in Defined' : Before(t, t)'
    BY <1>1, <2>2, GraphStays, DefinitionStays
  <2> QED
    BY <1>2, <1>4, <2>3 DEF PlanningInv
<1> QED
  BY <1>1, <1>3, <1>4

-----------------------------------------------------------------------------
(* Layers.                                                                 *)

\* The groups, one after the other, are the plan.
LEMMA GroupsGrow ==
    ASSUME GroupsFlatten, groups \in Seq(Seq(Tasks)), visited \in Seq(Tasks),
           NEW layer \in Seq(Tasks), groups' = Append(groups, layer),
           visited' = visited \o layer
    PROVE  GroupsFlatten'
<1> DEFINE n == Len(groups)
<1>1. /\ n \in Nat /\ Len(groups') = n + 1 /\ groups'[n + 1] = layer
      /\ \A i \in 1..n : groups'[i] = groups[i]
      /\ groups' # << >> /\ (n = 0 <=> groups = << >>)
  <2>1. n \in Nat /\ (n = 0 <=> groups = << >>)
    BY LenProperties, EmptySeq
  <2>2. /\ Append(groups, layer) \in Seq(Seq(Tasks)) /\ Len(Append(groups, layer)) = n + 1
        /\ Append(groups, layer)[n + 1] = layer
        /\ \A i \in 1..n : Append(groups, layer)[i] = groups[i]
    BY AppendProperties
  <2>3. groups' # << >>
    BY <2>1, <2>2, EmptySeq
  <2> QED
    BY <2>1, <2>2, <2>3
<1>2. CASE n = 0
  <2>1. visited' = layer
    BY <1>1, <1>2 DEF GroupsFlatten
  <2> DEFINE F == [i \in 1..1 |-> layer]
  <2>2. Flattens(F, groups')
    <3>1. Len(groups') = 1 /\ groups'[1] = layer /\ \A i \in 1..1 : i = 1
      BY <1>1, <1>2
    <3> QED
      BY <3>1 DEF Flattens
  <2>3. F[Len(groups')] = visited'
    BY <1>1, <1>2, <2>1
  <2> QED
    BY <1>1, <2>2, <2>3 DEF GroupsFlatten, Flattens
<1>3. CASE n # 0
  <2>1. PICK G : Flattens(G, groups) /\ G[n] = visited
    BY <1>1, <1>3 DEF GroupsFlatten
  <2> DEFINE F == [i \in 1..(n + 1) |-> IF i = n + 1 THEN visited' ELSE G[i]]
  <2>2. \A i \in 1..(n + 1) :
           F[i] = IF i = 1 THEN groups'[i] ELSE F[i - 1] \o groups'[i]
    <3> SUFFICES ASSUME NEW i \in 1..(n + 1)
                 PROVE  F[i] = IF i = 1 THEN groups'[i] ELSE F[i - 1] \o groups'[i]
      OBVIOUS
    <3>1. CASE i = n + 1
      <4>1. i # 1 /\ i - 1 = n /\ i - 1 \in 1..(n + 1) /\ i - 1 # n + 1
        BY <1>1, <1>3, <3>1
      <4>2. F[i] = visited' /\ F[i - 1] = visited /\ groups'[i] = layer
        BY <1>1, <2>1, <3>1, <4>1
      <4> QED
        BY <4>1, <4>2
    <3>2. CASE i # n + 1
      <4>1. i \in 1..n /\ (i # 1 => i - 1 \in 1..n)
        BY <1>1, <3>2
      <4>2. G[i] = IF i = 1 THEN groups[i] ELSE G[i - 1] \o groups[i]
        BY <2>1, <4>1 DEF Flattens
      <4>3. F[i] = G[i] /\ (i # 1 => F[i - 1] = G[i - 1]) /\ groups'[i] = groups[i]
        BY <1>1, <3>2, <4>1
      <4> QED
        BY <4>2, <4>3
    <3> QED
      BY <3>1, <3>2
  <2>3. F[n + 1] = visited'
    BY <1>1
  <2>4. Flattens(F, groups')
    <3>1. DOMAIN F = 1..Len(groups')
      BY <1>1
    <3>2. F = [i \in 1..Len(groups') |-> F[i]]
      BY <3>1
    <3> HIDE DEF F
    <3>3. [i \in 1..Len(groups') |-> F[i]] =
             [i \in 1..Len(groups') |-> IF i = 1 THEN groups'[i] ELSE F[i - 1] \o groups'[i]]
      BY <1>1, <2>2
    <3> QED
      BY <3>2, <3>3 DEF Flattens
  <2> HIDE DEF F
  <2> QED
    BY <1>1, <2>3, <2>4 DEF GroupsFlatten, Flattens
<1> QED
  BY <1>2, <1>3

LEMMA PlanLayerStep ==
    ASSUME PlanningInv, PlanLayer
    PROVE  PlanningInv'
<1>0. PICK n : n = Len(groups)
  OBVIOUS
<1> DEFINE layer == Sorted(ready)
<1>1. /\ UNCHANGED graphVars /\ phase = "planning" /\ phase' = "planning" /\ phase' \in Phases
      /\ PlanningTypes /\ EdgesAreKnown /\ WorklistStands /\ LayersStand /\ GroupsFlatten
      /\ ready # {} /\ \A t \in Defined : ~ Before(t, t)
  BY DEF PlanLayer, PlanningInv, Phases
<1>2. ready \in SUBSET Tasks /\ ready \cap Visited = {}
      /\ \A t \in ready : t \in Defined /\ Declared[t] \subseteq Visited
  BY <1>1 DEF WorklistStands, PlanningTypes
<1>3. layer \in Seq(Tasks) /\ ToSet(layer) = ready /\ IsInjective(layer)
  BY <1>2, SortedLists
<1>4. /\ groups' = Append(groups, layer) /\ visited' = visited \o layer
      /\ left' = Without(ToSet(layer)) /\ ready' = Freed(ToSet(layer))
  BY DEF PlanLayer, NextLayer
<1> HIDE DEF layer
<1>5. ready' = (ready \ ToSet(layer)) \cup Freed(ToSet(layer))
  BY <1>3, <1>4
<1>6. WorklistStands' /\ Visited' = Visited \cup ready
  BY <1>1, <1>3, <1>4, <1>5, VisitKeepsWorklist
<1>7. GroupsFlatten'
  BY <1>1, <1>3, <1>4, GroupsGrow DEF LayersStand, WorklistStands
<1>8. /\ n \in Nat /\ groups' \in Seq(Seq(Tasks)) /\ Len(groups') = n + 1
      /\ groups'[n + 1] = layer /\ groups' # << >>
      /\ \A g \in 1..n : groups'[g] = groups[g]
  BY <1>0, <1>1, <1>3, <1>4, AppendProperties, LenProperties, EmptySeq DEF LayersStand
<1>9. \A g \in 0..n : Layered(g)' = Layered(g)
  <2> SUFFICES ASSUME NEW g \in 0..n PROVE Layered(g)' = Layered(g)
    OBVIOUS
  <2>1. \A h \in 1..g : groups'[h] = groups[h]
    BY <1>8
  <2> QED
    BY <2>1 DEF Layered, ToSet
<1>10. Layered(n + 1)' = Layered(n) \cup ready
  <2>1. \A h \in 1..(n + 1) : h \in 1..n \/ h = n + 1
    BY <1>8
  <2>2. \A h \in 1..n : h \in 1..(n + 1) /\ groups'[h] = groups[h]
    BY <1>8
  <2>3. n + 1 \in 1..(n + 1) /\ ToSet(groups'[n + 1]) = ready
    BY <1>3, <1>8
  <2>4. Layered(n + 1)' = UNION {ToSet(groups'[h]) : h \in 1..(n + 1)}
    BY DEF Layered, ToSet
  <2> QED
    BY <2>1, <2>2, <2>3, <2>4 DEF Layered
<1>11. Visited = Layered(n)
  BY <1>0, <1>1 DEF LayersStand
<1>12. Visited' = Layered(Len(groups))'
  <2>1. Layered(Len(groups))' = Layered(n + 1)'
    BY <1>8 DEF Layered, ToSet
  <2> QED
    BY <1>6, <1>10, <1>11, <2>1
<1>13. \A g \in 1..n : ToSet(groups[g]) \subseteq Visited
  BY <1>11 DEF Layered
<1>14. \A g, h \in 1..(n + 1) : g # h => ToSet(groups'[g]) \cap ToSet(groups'[h]) = {}
  <2> SUFFICES ASSUME NEW g \in 1..(n + 1), NEW h \in 1..(n + 1), g # h
               PROVE  ToSet(groups'[g]) \cap ToSet(groups'[h]) = {}
    OBVIOUS
  <2>1. (g \in 1..n \/ g = n + 1) /\ (h \in 1..n \/ h = n + 1)
    BY <1>8
  <2>2. \A k \in 1..n : ToSet(groups'[k]) \cap ready = {}
    BY <1>2, <1>8, <1>13
  <2>3. CASE g \in 1..n /\ h \in 1..n
    BY <1>0, <1>1, <1>8, <2>3 DEF LayersStand
  <2>4. CASE g = n + 1 \/ h = n + 1
    BY <1>3, <1>8, <2>1, <2>2, <2>4
  <2> QED
    BY <2>1, <2>3, <2>4
<1>15. \A g \in 1..(n + 1) : \A t \in ToSet(groups'[g]) :
          /\ Declared[t] \subseteq Layered(g - 1)'
          /\ g > 1 => Declared[t] \cap ToSet(groups'[g - 1]) # {}
  <2> SUFFICES ASSUME NEW g \in 1..(n + 1), NEW t \in ToSet(groups'[g])
               PROVE  /\ Declared[t] \subseteq Layered(g - 1)'
                      /\ g > 1 => Declared[t] \cap ToSet(groups'[g - 1]) # {}
    OBVIOUS
  <2>1. CASE g \in 1..n
    <3>1. g - 1 \in 0..n /\ (g > 1 => g - 1 \in 1..n) /\ groups'[g] = groups[g]
      BY <1>8, <2>1
    <3>2. t \in ToSet(groups[g]) /\ Layered(g - 1)' = Layered(g - 1)
      BY <1>9, <3>1
    <3>3. g > 1 => groups'[g - 1] = groups[g - 1]
      BY <1>8, <3>1
    <3>4. /\ Declared[t] \subseteq Layered(g - 1)
          /\ g > 1 => Declared[t] \cap ToSet(groups[g - 1]) # {}
      BY <1>0, <1>1, <2>1, <3>2 DEF LayersStand
    <3> QED
      BY <3>2, <3>3, <3>4
  <2>2. CASE g = n + 1
    <3>1. g - 1 = n /\ n \in 0..n /\ (g > 1 => n \in 1..n /\ groups # << >>) /\ t \in ready
      BY <1>0, <1>3, <1>8, <2>2, EmptySeq
    <3>2. Declared[t] \subseteq Layered(g - 1)'
      BY <1>2, <1>9, <1>11, <3>1
    <3>3. g > 1 => Declared[t] \cap ToSet(groups'[g - 1]) # {}
      BY <1>0, <1>1, <1>8, <3>1 DEF LayersStand
    <3> QED
      BY <3>2, <3>3
  <2>3. g \in 1..n \/ g = n + 1
    BY <1>8
  <2> QED
    BY <2>1, <2>2, <2>3
<1>16. \A t \in ready' : Declared[t] \cap ToSet(groups'[n + 1]) # {}
  <2> SUFFICES ASSUME NEW t \in ready' PROVE Declared[t] \cap ready # {}
    BY <1>3, <1>8
  <2>1. t \in Defined /\ left[t] # {} /\ left[t] \ ready = {}
    BY <1>1, <1>3, <1>4 DEF Freed, Without, PlanningTypes
  <2>2. left[t] \subseteq Declared[t]
    BY <1>1, <2>1 DEF WorklistStands, PlanningTypes
  <2> QED
    BY <2>1, <2>2
<1>17. Declared' = Declared
  BY <1>1, DefinitionStays
<1>18. LayersStand'
  BY <1>8, <1>12, <1>14, <1>15, <1>16, <1>17 DEF LayersStand
<1>19. \A t \in Defined' : ~ Before(t, t)'
  BY <1>1, GraphStays, DefinitionStays
<1> QED
  BY <1>1, <1>6, <1>7, <1>18, <1>19, GraphStays DEF PlanningInv

\* Where neither the graph nor a list changes, what is said of them stays.
LEMMA ListsStay ==
    ASSUME UNCHANGED <<left, ready, visited, groups, Defined, Declared>>
    PROVE  /\ WorklistStands => WorklistStands'
           /\ LayersStand => LayersStand'
           /\ GroupsFlatten => GroupsFlatten'
           /\ Visited' = Visited /\ Defined' = Defined
<1>1. /\ left' = left /\ ready' = ready /\ visited' = visited /\ groups' = groups
      /\ Defined' = Defined /\ Declared' = Declared
  OBVIOUS
<1>2. Visited' = Visited
  BY <1>1 DEF Visited, ToSet
<1>3. \A g : Layered(g)' = Layered(g)
  BY <1>1 DEF Layered, ToSet
<1>4. WorklistStands => WorklistStands'
  <2> SUFFICES ASSUME WorklistStands PROVE WorklistStands'
    OBVIOUS
  <2>1. visited' \in Seq(Tasks) /\ Visited' \subseteq Defined' /\ IsInjective(visited')
    BY <1>1, <1>2 DEF WorklistStands
  <2>2. left' = [t \in Tasks |-> IF t \in Defined' THEN Declared'[t] \ Visited' ELSE {}]
    BY <1>1, <1>2 DEF WorklistStands
  <2>3. ready' = {t \in Defined' \ Visited' : Declared'[t] \subseteq Visited'}
    BY <1>1, <1>2 DEF WorklistStands
  <2>4. \A i \in 1..Len(visited') :
           Declared'[visited'[i]] \subseteq {visited'[j] : j \in 1..(i - 1)}
    BY <1>1 DEF WorklistStands
  <2> QED
    BY <2>1, <2>2, <2>3, <2>4 DEF WorklistStands
<1>5. LayersStand => LayersStand'
  <2>1. Layered(Len(groups))' = Layered(Len(groups))
    BY <1>1 DEF Layered, ToSet
  <2> SUFFICES ASSUME LayersStand PROVE LayersStand'
    OBVIOUS
  <2>2. groups' \in Seq(Seq(Tasks)) /\ Visited' = Layered(Len(groups))'
    BY <1>1, <1>2, <2>1 DEF LayersStand
  <2>3. \A g, h \in 1..Len(groups') :
           g # h => ToSet(groups'[g]) \cap ToSet(groups'[h]) = {}
    BY <1>1 DEF LayersStand
  <2>4. \A g \in 1..Len(groups') : \A t \in ToSet(groups'[g]) :
           /\ Declared'[t] \subseteq Layered(g - 1)'
           /\ g > 1 => Declared'[t] \cap ToSet(groups'[g - 1]) # {}
    BY <1>1, <1>3 DEF LayersStand
  <2>5. groups' # << >> =>
           \A t \in ready' : Declared'[t] \cap ToSet(groups'[Len(groups')]) # {}
    BY <1>1 DEF LayersStand
  <2> QED
    BY <2>2, <2>3, <2>4, <2>5 DEF LayersStand
<1>6. GroupsFlatten => GroupsFlatten'
  BY <1>1, Zenon DEF GroupsFlatten, Flattens
<1> QED
  BY <1>1, <1>2, <1>4, <1>5, <1>6

\* PlanningInvariantError is never raised: nothing is left over.
LEMMA EndPlanningStep ==
    ASSUME PlanningInv, EndPlanning
    PROVE  PlanningInv'
<1>1. /\ UNCHANGED <<graphVars, listVars>>
      /\ phase = "planning" /\ phase' = "planned" /\ phase' \in Phases
      /\ PlanningTypes /\ EdgesAreKnown /\ WorklistStands /\ LayersStand /\ GroupsFlatten
      /\ ready = {} /\ \A t \in Defined : ~ Before(t, t)
  BY DEF EndPlanning, PlanningInv, Phases
<1>2. Visited = Defined
  BY <1>1, StuckHasCycle
<1>3. /\ WorklistStands' /\ LayersStand' /\ GroupsFlatten' /\ Visited' = Defined'
  <2>1. UNCHANGED <<left, ready, visited, groups, Defined, Declared>>
    BY <1>1, DefinitionStays DEF listVars
  <2> QED
    BY <1>1, <1>2, <2>1, ListsStay
<1>4. \A t \in Defined' : ~ Before(t, t)'
  BY <1>1, GraphStays, DefinitionStays
<1> QED
  BY <1>1, <1>3, <1>4, GraphStays DEF PlanningInv

LEMMA PlanningInvStep == PlanningInv /\ [Next]_planningVars => PlanningInv'
<1> SUFFICES ASSUME PlanningInv, [Next]_planningVars PROVE PlanningInv'
  OBVIOUS
<1>1. CASE Link
  BY <1>1, AddDependencyStep DEF Link
<1>2. ASSUME NEW o \in Objects, CollectTask(o) PROVE PlanningInv'
  BY <1>2, CollectTaskStep
<1>9. ASSUME NEW o \in Objects, NEW k \in Tasks, NEW given \in GivenChoices,
             BuildTask(o, k, given)
      PROVE  PlanningInv'
  BY <1>9, BuildTaskStep
<1>10. ASSUME NEW objects \in SUBSET Objects, DefineWorkflow(objects) PROVE PlanningInv'
  BY <1>10, DefineWorkflowStep
<1>3. CASE BeginValidation
  BY <1>3, BeginValidationStep
<1>4. CASE VisitTask
  BY <1>4, VisitTaskStep
<1>5. CASE EndValidation
  BY <1>5, EndValidationStep
<1>6. CASE PlanLayer
  BY <1>6, PlanLayerStep
<1>7. CASE EndPlanning
  BY <1>7, EndPlanningStep
<1>8. CASE UNCHANGED planningVars
  <2>1. UNCHANGED graphVars /\ phase' = phase /\ phase' \in Phases
    BY <1>8 DEF planningVars, PlanningInv, PlanningTypes
  <2>2. CASE phase = "authoring"
    <3>1. ObjectsStand' /\ LinksStand'
      BY <2>1 DEF graphVars, PlanningInv, ObjectsStand, LinksStand, Alive, Reaches
    <3> QED
      BY <2>1, <2>2, <3>1, AuthoringStands
  <2>3. CASE phase # "authoring"
    <3>1. UNCHANGED <<left, ready, visited, groups, Defined, Declared>>
      BY <1>8, <2>1, DefinitionStays DEF planningVars, listVars
    <3>2. /\ WorklistStands => WorklistStands'
          /\ LayersStand => LayersStand'
          /\ GroupsFlatten => GroupsFlatten'
          /\ Visited' = Visited /\ Defined' = Defined
      BY <3>1, ListsStay
    <3> QED
      BY <2>1, <2>3, <3>2, GraphStays DEF PlanningInv
  <2> QED
    BY <2>2, <2>3
<1> QED
  BY <1>1, <1>2, <1>3, <1>4, <1>5, <1>6, <1>7, <1>8, <1>9, <1>10 DEF Next

-----------------------------------------------------------------------------
(* What follows.                                                           *)

\* The plan is its layers one after the other: no two functions follow the
\* definition of FlattenSeq (ExecutionPlan.topological_layers).
LEMMA GroupsAreThePlan ==
    ASSUME GroupsFlatten, groups \in Seq(Seq(Tasks))
    PROVE  FlattenSeq(groups) = visited
<1>1. Len(groups) \in Nat /\ (Len(groups) = 0 <=> groups = << >>)
  BY LenProperties, EmptySeq
<1>2. CASE groups = << >>
  BY <1>1, <1>2 DEF GroupsFlatten, FlattenSeq
<1>3. CASE groups # << >>
  <2> DEFINE G == CHOOSE F : Flattens(F, groups)
  <2>1. FlattenSeq(groups) = G[Len(groups)]
    BY <1>1, <1>3 DEF FlattenSeq, Flattens
  <2>2. PICK F : Flattens(F, groups) /\ F[Len(groups)] = visited
    BY <1>3 DEF GroupsFlatten
  <2>3. Flattens(G, groups)
    BY <2>2
  <2> HIDE DEF G
  <2> DEFINE differ == {i \in 1..Len(groups) : G[i] # F[i]}
  <2>4. differ = {}
    <3> SUFFICES ASSUME differ # {} PROVE FALSE
      OBVIOUS
    <3>1. differ \in SUBSET Nat
      BY <1>1
    <3>2. PICK i \in differ : \A j \in differ : i <= j
      BY <3>1, LeastNatural
    <3>3. /\ i \in 1..Len(groups) /\ (i # 1 => i - 1 \in 1..Len(groups))
          /\ (i # 1 => i - 1 \notin differ)
      BY <1>1, <3>2
    <3>4. /\ G[i] = IF i = 1 THEN groups[i] ELSE G[i - 1] \o groups[i]
          /\ F[i] = IF i = 1 THEN groups[i] ELSE F[i - 1] \o groups[i]
      BY <2>2, <2>3, <3>3 DEF Flattens
    <3>5. i # 1 => G[i - 1] = F[i - 1]
      BY <3>3
    <3>6. G[i] = F[i]
      BY <3>4, <3>5
    <3> QED
      BY <3>2, <3>6
  <2>5. Len(groups) \in 1..Len(groups)
    BY <1>1, <1>3
  <2> QED
    BY <2>1, <2>2, <2>4, <2>5
<1> QED
  BY <1>2, <1>3

\* A cycle of keys whose edges are links between the objects chosen is a cycle
\* of links, of which there is none (authoring/validation.py).
LEMMA LinksAreTracked ==
    ASSUME PlanningInv
    PROVE  LinkedTasksHaveNoCycle
<1>1. PlanningTypes /\ ObjectsStand /\ LinksStand /\ Upstream \in [Tasks -> SUBSET Tasks]
  BY UpstreamType DEF PlanningInv
<1>2. ASSUME phase = "cycle",
             \A o, p \in chosen : key[p] \in dependencies[o] => p \in tracked[o]
      PROVE  FALSE
  <2>1. PICK t \in Defined : Before(t, t)
    BY <1>2 DEF PlanningInv
  <2>2. PICK o \in chosen : key[o] = t
    BY DEF Defined
  <2>3. /\ chosen \subseteq Objects /\ tracked \in [Objects -> SUBSET Objects]
        /\ \A c, p \in chosen : key[c] = key[p] => c = p
        /\ \A c \in chosen : key[c] \in Tasks
    BY <1>1 DEF ObjectsStand, Alive
  <2> DEFINE S == {key[p] : p \in chosen \cap Walk(tracked, o)}
  <2>4. S \in SUBSET Tasks
    BY <2>3
  <2>5. \A c \in chosen : \A d \in Upstream[key[c]] :
           \E p \in chosen : key[p] = d /\ p \in tracked[c]
    <3> SUFFICES ASSUME NEW c \in chosen, NEW d \in Upstream[key[c]]
                 PROVE  \E p \in chosen : key[p] = d /\ p \in tracked[c]
      OBVIOUS
    <3>1. key[c] \in Tasks /\ d \in Declared[key[c]] /\ d \in Defined
      BY <2>3 DEF Upstream
    <3>2. PICK b \in {b \in chosen : key[b] = key[c]} : d \in dependencies[b]
      BY <3>1 DEF Declared
    <3>3. b = c
      BY <2>3, <3>2
    <3>4. PICK p \in chosen : key[p] = d
      BY <3>1 DEF Defined
    <3> QED
      BY <1>2, <3>2, <3>3, <3>4
  <2>6. Upstream[t] \subseteq S
    <3>1. tracked[o] \subseteq Walk(tracked, o)
      BY <2>3, WalkIsClosed
    <3> QED
      BY <2>2, <2>5, <3>1
  <2>7. \A y \in S : Upstream[y] \subseteq S
    <3> SUFFICES ASSUME NEW p \in chosen \cap Walk(tracked, o)
                 PROVE  Upstream[key[p]] \subseteq S
      OBVIOUS
    <3>1. tracked[p] \subseteq Walk(tracked, o)
      BY <2>3, WalkIsClosed
    <3> QED
      BY <2>5, <3>1
  <2>8. t \in S
    <3> HIDE DEF S
    <3>1. DOMAIN Upstream = Tasks
      BY <1>1
    <3> QED
      BY <2>1, <2>4, <2>6, <2>7, <3>1 DEF Before, Reaches
  <2>9. o \in Walk(tracked, o)
    BY <2>2, <2>3, <2>8
  <2> QED
    BY <1>1, <2>3, <2>9 DEF Walk, LinksStand
<1> QED
  BY <1>1, <1>2 DEF LinksStand, LinkedTasksHaveNoCycle

\* The worklist tells a graph with a cycle from one without (_validate_acyclic).
LEMMA WorklistDecides ==
    ASSUME PlanningInv
    PROVE  CyclesAreFound
BY DEF PlanningInv, CyclesAreFound, Visited

\* What the runtime takes for the descendants of a failed task depends on it
\* (descendants_of).
LEMMA DescendantsDepend ==
    ASSUME PlanningTypes, EdgesAreKnown, NEW t \in Defined
    PROVE  Descendants(t) = {s \in Defined : Before(t, s)}
<1>1. /\ Upstream \in [Tasks -> SUBSET Tasks] /\ Downstream \in [Tasks -> SUBSET Tasks]
      /\ Defined \subseteq Tasks
  BY UpstreamType DEF PlanningTypes, Downstream
<1>2. \A x, y \in Tasks : y \in Upstream[x] <=> x \in Downstream[y]
  BY <1>1 DEF Upstream, Downstream, EdgesAreKnown
<1>3. \A s \in Defined : Reaches(Downstream, t, s) <=> Reaches(Upstream, s, t)
  <2> SUFFICES ASSUME NEW s \in Defined
               PROVE  Reaches(Downstream, t, s) <=> Reaches(Upstream, s, t)
    OBVIOUS
  <2>1. s \in Tasks /\ t \in Tasks
    BY <1>1
  <2>2. Reaches(Downstream, t, s) => Reaches(Upstream, s, t)
    BY <1>1, <1>2, <2>1, WalksTurnAround
  <2>3. Reaches(Upstream, s, t) => Reaches(Downstream, t, s)
    BY <1>1, <1>2, <2>1, WalksTurnAround
  <2> QED
    BY <2>2, <2>3
<1> QED
  BY <1>3 DEF Descendants, Before

\* A plan has its tasks after what they depend on, one by one and in layers
\* (planning/planner.py, application/planning.py).
LEMMA PlanInOrder ==
    ASSUME PlanningInv
    PROVE  PlanFollowsDependencies
<1> SUFFICES ASSUME phase = "planned" PROVE PlanFollowsDependencies
  BY DEF PlanFollowsDependencies
<1>1. /\ PlanningTypes /\ EdgesAreKnown /\ WorklistStands /\ LayersStand /\ GroupsFlatten
      /\ Visited = Defined
  BY DEF PlanningInv
<1> DEFINE position == [t \in Defined |-> CHOOSE i \in DOMAIN visited : visited[i] = t]
           layer == [t \in Defined |-> CHOOSE i \in DOMAIN groups : t \in ToSet(groups[i])]
           N == Len(visited)
           K == Len(groups)
<1>2. /\ N \in Nat /\ K \in Nat /\ DOMAIN visited = 1..N /\ DOMAIN groups = 1..K
      /\ Defined \subseteq Tasks
  BY <1>1, LenProperties DEF WorklistStands, LayersStand, PlanningTypes
<1>3. \A t \in Defined : position[t] \in 1..N /\ visited[position[t]] = t
  <2> SUFFICES ASSUME NEW t \in Defined
               PROVE  position[t] \in 1..N /\ visited[position[t]] = t
    OBVIOUS
  <2>1. \E i \in DOMAIN visited : visited[i] = t
    BY <1>1 DEF Visited, ToSet
  <2> QED
    BY <1>2, <2>1
<1>4. \A t \in Defined : layer[t] \in 1..K /\ t \in ToSet(groups[layer[t]])
  <2> SUFFICES ASSUME NEW t \in Defined
               PROVE  layer[t] \in 1..K /\ t \in ToSet(groups[layer[t]])
    OBVIOUS
  <2>1. \E i \in DOMAIN groups : t \in ToSet(groups[i])
    BY <1>1, <1>2 DEF LayersStand, Layered
  <2> QED
    BY <1>2, <2>1
<1> HIDE DEF position, layer
<1>5. \A i \in 1..N : visited[i] \in Defined => position[visited[i]] = i
  BY <1>1, <1>2, <1>3 DEF WorklistStands, IsInjective
<1>6. \A g \in 1..K : \A t \in Defined : t \in ToSet(groups[g]) => layer[t] = g
  BY <1>1, <1>4 DEF LayersStand
<1>7. FlattenSeq(groups) = visited
  BY <1>1, GroupsAreThePlan DEF LayersStand
<1>8. ASSUME NEW t \in Defined, NEW d \in Declared[t]
      PROVE  position[d] < position[t] /\ layer[d] < layer[t]
  <2>1. d \in Defined
    BY <1>1, <1>8 DEF EdgesAreKnown
  <2>2. Declared[visited[position[t]]] \subseteq {visited[j] : j \in 1..(position[t] - 1)}
    BY <1>1, <1>3 DEF WorklistStands
  <2>3. PICK j \in 1..(position[t] - 1) : visited[j] = d
    BY <1>3, <1>8, <2>2
  <2>4. position[d] < position[t]
    <3>1. j \in 1..N /\ j < position[t]
      BY <1>2, <1>3, <2>3
    <3> QED
      BY <1>5, <2>1, <2>3, <3>1
  <2>5. Declared[t] \subseteq Layered(layer[t] - 1)
    BY <1>1, <1>4 DEF LayersStand
  <2>6. PICK h \in 1..(layer[t] - 1) : d \in ToSet(groups[h])
    BY <1>8, <2>5 DEF Layered
  <2>7. layer[d] < layer[t]
    <3>1. h \in 1..K /\ h < layer[t]
      BY <1>2, <1>4, <2>6
    <3> QED
      BY <1>6, <2>1, <2>6, <3>1
  <2> QED
    BY <2>4, <2>7
<1>9. ASSUME NEW t \in Defined, layer[t] > 1
      PROVE  \E d \in Declared[t] : layer[d] = layer[t] - 1
  <2>1. layer[t] \in 1..K /\ layer[t] - 1 \in 1..K /\ t \in ToSet(groups[layer[t]])
    BY <1>2, <1>4, <1>9
  <2>2. PICK d \in Declared[t] : d \in ToSet(groups[layer[t] - 1])
    BY <1>1, <1>9, <2>1 DEF LayersStand
  <2>3. d \in Defined
    BY <1>1 DEF EdgesAreKnown
  <2> QED
    BY <1>6, <2>1, <2>2, <2>3
<1>10. ASSUME NEW t \in Defined, NEW s \in Descendants(t)
       PROVE  position[s] > position[t]
  <2>1. s \in Defined /\ t \in Tasks /\ Before(t, s)
    BY <1>1, <1>2, <1>10, DescendantsDepend
  <2>2. position[s] \in 1..N /\ Before(t, visited[position[s]])
    BY <1>3, <2>1
  <2>3. PICK j \in 1..(position[s] - 1) : visited[j] = t
    BY <1>1, <2>1, <2>2, VisitedInOrder
  <2>4. j \in 1..N /\ j < position[s]
    BY <1>2, <2>2
  <2> QED
    BY <1>2, <1>3, <1>5, <2>2, <2>3, <2>4
<1>11. \A t \in Defined :
          /\ \A d \in Declared[t] : position[d] < position[t] /\ layer[d] < layer[t]
          /\ layer[t] > 1 => \E d \in Declared[t] : layer[d] = layer[t] - 1
          /\ Descendants(t) = {s \in Defined : Before(t, s)}
          /\ \A s \in Descendants(t) : position[s] > position[t]
  BY <1>1, <1>8, <1>9, <1>10, DescendantsDepend
<1> QED
  BY <1>7, <1>11 DEF PlanFollowsDependencies, position, layer

\* Whatever task objects are constructed, linked, collected and built again,
\* under whatever keys: a link that closes a cycle of objects is refused at
\* once, validation refuses exactly the graphs of keys with a cycle, and those
\* only for an edge that is no link between the objects of the definition, and
\* a plan has every task once, after all it depends on and in the layer of its
\* longest chain, its descendants behind it (authoring/validation.py to
\* planning/planner.py, and application/planning.py).
THEOREM PlansAreSound == PlanningSpec => []PlanningIsSound
<1>1. PlanningInv => PlanningIsSound
  BY LinksAreTracked, WorklistDecides, PlanInOrder DEF PlanningIsSound
<1> QED
  BY <1>1, PlanningInvInit, PlanningInvStep, PTL DEF PlanningSpec

=============================================================================
