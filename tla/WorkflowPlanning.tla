-------------------------- MODULE WorkflowPlanning --------------------------
(***************************************************************************)
(* From declared tasks to an execution plan, for both runtimes.            *)
(*                                                                         *)
(* V2: an author constructs task objects and links them with `>>`, which   *)
(* looks for a cycle among the objects alive, by their identity            *)
(* (authoring/validation.py).  A dependency is written down by its key, so *)
(* another object of that key may take the place of the one linked: a task *)
(* built again after its object was collected, or a second object.  The    *)
(* definition takes one object per key and is validated as a whole         *)
(* (authoring/definitions.py), then compiled in layers                     *)
(* (planning/_graph.py, planning/planner.py).  V1: the edges are given,    *)
(* validated and planned by application/planning.py.                       *)
(*                                                                         *)
(* Tasks are numbered in the lexical order of their keys.  left[t] has the *)
(* upstream tasks of t not visited yet: in_degree[t] is its size.          *)
(***************************************************************************)
EXTENDS Naturals, FiniteSets, Sequences, SequencesExt

CONSTANTS
    TaskCount,
    Objects,         \* identities (id()) that task objects may have
    Versions,        \* the runtimes to look at: "v1", "v2"
    GivenChoices     \* the dependencies a task may be constructed with

Tasks == 1..TaskCount
Unknown == 0         \* no key of a task

ASSUME PlanningConstants ==
    /\ TaskCount \in Nat \ {0}
    /\ Versions \in SUBSET {"v1", "v2"}
    /\ GivenChoices \in SUBSET SUBSET (Tasks \cup {Unknown})

VARIABLES
    version,
    key,             \* key[o]: the key of the object o, Unknown where none is
    dependencies,    \* dependencies[o]: the keys that the object o depends on
    tracked,         \* tracked[o]: _UPSTREAM_MAP
    chosen,          \* the objects of the workflow definition
    phase,
    left, ready,     \* the worklist of the validator, then of the planner
    visited,         \* the tasks it took from it
    groups           \* the layers planned so far

graphVars == <<version, key, dependencies, tracked, chosen>>
listVars == <<left, ready, visited, groups>>
planningVars == <<graphVars, phase, listVars>>

Phases == {"authoring", "defined", "validating", "planning", "planned",
           "unknown_dependency", "cycle"}

\* The objects not collected.
Alive == {o \in Objects : key[o] \in Tasks}

\* The tasks of the definition, and the keys that each of them depends on.
Defined == {key[o] : o \in chosen}
Declared ==
    [t \in Tasks |-> UNION {dependencies[o] : o \in {c \in chosen : key[c] = t}}]

Init ==
    /\ version \in Versions
    /\ key = [o \in Objects |-> Unknown]
    /\ dependencies = [o \in Objects |-> {}]
    /\ tracked = [o \in Objects |-> {}]
    /\ chosen = {}
    /\ phase = "authoring"
    /\ left = [t \in Tasks |-> {}] /\ ready = {}
    /\ visited = << >> /\ groups = << >>

-----------------------------------------------------------------------------
(* Authoring, and `upstream >> downstream`.                                *)

\* A task that depends on itself cannot be constructed, in V1 or V2; that a
\* dependency exists is left to the validation of the workflow.
Constructible(k, given) == k \notin given

\* A new object takes an identity that no other has, and has no links yet.
BuildTask(o, k, given) ==
    /\ phase = "authoring"
    /\ o \notin Alive
    /\ Constructible(k, given)
    /\ key' = [key EXCEPT ![o] = k]
    /\ dependencies' = [dependencies EXCEPT ![o] = given]
    /\ UNCHANGED <<version, tracked, chosen, phase, listVars>>

\* What a walk with a set of visited nodes finds (_find_path, descendants_of):
\* to is in every set closed under map that the walk may fill.
Reaches(map, from, to) ==
    \A S \in SUBSET DOMAIN map :
        map[from] \subseteq S /\ (\A n \in S : map[n] \subseteq S) => to \in S

\* add_authoring_dependency: an edge that would close a cycle raises.
AddDependency(upstream, downstream) ==
    /\ phase = "authoring" /\ version = "v2"
    /\ {upstream, downstream} \subseteq Alive
    /\ key[upstream] # key[downstream]
    /\ ~ Reaches(tracked, upstream, downstream)
    /\ tracked' = [tracked EXCEPT ![downstream] = @ \cup {upstream}]
    /\ dependencies' = [dependencies EXCEPT ![downstream] = @ \cup {key[upstream]}]
    /\ UNCHANGED <<version, key, chosen, phase, listVars>>

\* The operators >> and << of tasks and lists of tasks: one edge after the
\* other, and those made before one that raises stay.
Link == \E upstream, downstream \in Objects : AddDependency(upstream, downstream)

\* The links that are left when the object o is forgotten (_cleanup_task).
Forgotten(o) == [d \in Objects |-> IF d = o THEN {} ELSE tracked[d] \ {o}]

\* The author lets go of a task object; its identity is free for another.
CollectTask(o) ==
    /\ phase = "authoring" /\ version = "v2"
    /\ o \in Alive
    /\ key' = [key EXCEPT ![o] = Unknown]
    /\ dependencies' = [dependencies EXCEPT ![o] = {}]
    /\ tracked' = Forgotten(o)
    /\ UNCHANGED <<version, chosen, phase, listVars>>

\* The definition takes a tuple of objects: at least one, and no two of a key.
DefineWorkflow(objects) ==
    /\ phase = "authoring"
    /\ objects \subseteq Alive /\ objects # {}
    /\ \A o, p \in objects : key[o] = key[p] => o = p
    /\ chosen' = objects
    /\ phase' = "defined"
    /\ UNCHANGED <<version, key, dependencies, tracked, listVars>>

-----------------------------------------------------------------------------
(* Validation.                                                             *)

Worklist ==
    /\ left' = [t \in Tasks |-> IF t \in Defined THEN Declared[t] ELSE {}]
    /\ ready' = {t \in Defined : Declared[t] = {}}
    /\ visited' = << >> /\ groups' = << >>

\* WorkflowDefinition.validate and DAGValidator.validate: the edges first.
BeginValidation ==
    /\ phase = "defined"
    /\ \/ /\ \E t \in Defined : ~ Declared[t] \subseteq Defined
          /\ phase' = "unknown_dependency"
          /\ UNCHANGED listVars
       \/ /\ \A t \in Defined : Declared[t] \subseteq Defined
          /\ phase' = "validating"
          /\ Worklist
    /\ UNCHANGED graphVars

Least(S) == CHOOSE t \in S : \A s \in S : t <= s

Without(done) == [t \in Tasks |-> left[t] \ done]

\* The tasks that the visit of done makes ready.
Freed(done) ==
    {t \in Defined : left[t] # {} /\ Without(done)[t] = {}}

\* _validate_acyclic of V2 and of V1: the least ready task is taken.
VisitTask ==
    /\ phase = "validating"
    /\ ready # {}
    /\ LET t == Least(ready)
       IN  /\ visited' = Append(visited, t)
           /\ left' = Without({t})
           /\ ready' = (ready \ {t}) \cup Freed({t})
    /\ UNCHANGED <<graphVars, phase, groups>>

EndValidation ==
    /\ phase = "validating"
    /\ ready = {}
    /\ \/ /\ Len(visited) = Cardinality(Defined)
          /\ phase' = "planning"
          /\ Worklist
       \/ /\ Len(visited) # Cardinality(Defined)
          /\ phase' = "cycle"
          /\ UNCHANGED listVars
    /\ UNCHANGED graphVars

-----------------------------------------------------------------------------
(* Planning.                                                               *)

\* Mutant: a task becomes ready with the first of its upstream tasks.
NextLayerEarly(layer) == {t \in Defined : left[t] \cap ToSet(layer) # {}}

NextLayer(layer) == Freed(ToSet(layer))

\* tuple(sorted(ready)).
Sorted(S) ==
    CHOOSE q \in [1..Cardinality(S) -> S] :
        \A i, j \in 1..Cardinality(S) : i < j => q[i] < q[j]

\* One layer: all that is ready, in lexical order.
PlanLayer ==
    /\ phase = "planning"
    /\ ready # {}
    /\ LET layer == Sorted(ready)
       IN  /\ groups' = Append(groups, layer)
           /\ visited' = visited \o layer
           /\ left' = Without(ToSet(layer))
           /\ ready' = NextLayer(layer)
    /\ UNCHANGED <<graphVars, phase>>

\* A task left over here would raise PlanningInvariantError or ValueError.
EndPlanning ==
    /\ phase = "planning"
    /\ ready = {}
    /\ phase' = "planned"
    /\ UNCHANGED <<graphVars, listVars>>

Next ==
    \/ \E o \in Objects, k \in Tasks, given \in GivenChoices : BuildTask(o, k, given)
    \/ Link \/ \E o \in Objects : CollectTask(o)
    \/ \E objects \in SUBSET Objects : DefineWorkflow(objects)
    \/ BeginValidation \/ VisitTask \/ EndValidation \/ PlanLayer \/ EndPlanning

PlanningSpec == Init /\ [][Next]_planningVars
PlanningFairSpec == PlanningSpec /\ WF_planningVars(Next)

-----------------------------------------------------------------------------
(* What the runtime reads off a plan.                                      *)

\* descendants_of: the tasks a failure skips as DEPENDENCY_FAILED.
Downstream == [t \in Tasks |-> {s \in Defined : t \in Declared[s]}]

Descendants(failed) == {s \in Defined : Reaches(Downstream, failed, s)}

-----------------------------------------------------------------------------
(* Properties.                                                             *)

Upstream == [t \in Tasks |-> IF t \in Defined THEN Declared[t] \cap Defined ELSE {}]

\* Before(d, t): t depends on d, directly or not.
Before(d, t) == Reaches(Upstream, t, d)

PlanningTypeOK ==
    /\ version \in {"v1", "v2"}
    /\ key \in [Objects -> Tasks \cup {Unknown}]
    /\ dependencies \in [Objects -> SUBSET (Tasks \cup {Unknown})]
    /\ tracked \in [Objects -> SUBSET Objects]
    /\ chosen \subseteq Alive
    /\ phase \in Phases
    /\ left \in [Tasks -> SUBSET Tasks] /\ ready \subseteq Tasks
    /\ ToSet(visited) \subseteq Tasks /\ IsInjective(visited)
    /\ \A i \in DOMAIN groups : groups[i] # << >>

\* No link outlives an object it joins, whose identity another may take, and
\* `>>` finds a cycle of objects when it is made (authoring/validation.py,
\* "Raised immediately").  A cycle that only the definition finds has an edge
\* that is no link between the definition's own objects: one given to a
\* constructor, or made with another object of the key.
LinkedTasksHaveNoCycle ==
    /\ \A o \in Objects : \A p \in tracked[o] :
          {o, p} \subseteq Alive /\ key[p] \in dependencies[o]
    /\ \A o \in Objects : ~ Reaches(tracked, o, o)
    /\ phase = "cycle" =>
          \E o, p \in chosen : key[p] \in dependencies[o] /\ p \notin tracked[o]

\* The worklist finds exactly the graphs with a cycle, and a validated graph is
\* always planned entirely: PlanningInvariantError is never raised.
CyclesAreFound ==
    /\ phase \in {"planning", "planned"} => \A t \in Defined : ~ Before(t, t)
    /\ phase = "cycle" => \E t \in Defined : Before(t, t)
    /\ phase = "planned" => ToSet(visited) = Defined

\* The plan lists each task once, after all its dependencies and in the layer
\* that the longest chain of them leads to; what fail-fast takes for the
\* descendants of a failed entry are the tasks that depend on it, all later
\* in the plan, where _apply_fail_fast looks (runtime/workflow.py:1138).
PlanFollowsDependencies ==
    phase = "planned" =>
        LET position == [t \in Defined |-> CHOOSE i \in DOMAIN visited : visited[i] = t]
            layer == [t \in Defined |-> CHOOSE i \in DOMAIN groups : t \in ToSet(groups[i])]
        IN  /\ FlattenSeq(groups) = visited
            /\ \A t \in Defined :
                  /\ \A d \in Declared[t] : position[d] < position[t] /\ layer[d] < layer[t]
                  /\ layer[t] > 1 => \E d \in Declared[t] : layer[d] = layer[t] - 1
                  /\ Descendants(t) = {s \in Defined : Before(t, s)}
                  /\ \A s \in Descendants(t) : position[s] > position[t]

\* Declared in whatever way, a graph is refused for its cycles or planned along
\* its dependencies (authoring/validation.py to planning/planner.py).
PlanningIsSound == LinkedTasksHaveNoCycle /\ CyclesAreFound /\ PlanFollowsDependencies

-----------------------------------------------------------------------------

\* Any tasks, or one that does not exist: what the run takes for GivenChoices.
AnyTasks == (SUBSET Tasks) \cup {{Unknown}}

=============================================================================
