----------------------------- MODULE StoreProofs -----------------------------
(***************************************************************************)
(* Proofs about the stores: the relational store of V2 keeps its rows and  *)
(* its evidence together and implements the contract of MetadataStore, the *)
(* units of work of the V1 stores follow each other, and a plugin catalog  *)
(* holds what its host was told.                                           *)
(***************************************************************************)
EXTENDS RelationalStore, UnitsOfWork, PluginCatalogs, FiniteSetTheorems,
        SequenceTheorems, WellFoundedInduction, TLAPS

-----------------------------------------------------------------------------
(* Natural numbers.                                                        *)

\* The natural numbers are well founded: the library's fact, as a relation.
LEMMA LessIsWellFounded == IsWellFoundedOn({p \in Nat \X Nat : p[1] < p[2]}, Nat)
BY NatLessThanWellFounded, Zenon DEF OpToRel

LEMMA LeastNatural ==
    ASSUME NEW S \in SUBSET Nat, S # {}
    PROVE  \E n \in S : \A m \in S : n <= m
<1> DEFINE R == {p \in Nat \X Nat : p[1] < p[2]}
<1>1. IsWellFoundedOn(R, Nat)
  BY LessIsWellFounded
<1>2. S \subseteq Nat
  OBVIOUS
<1> HIDE DEF R
<1>3. PICK n \in S : \A m \in S : ~ (<<m, n>> \in R)
  BY <1>1, <1>2, WFMin
<1>4. n \in Nat /\ \A m \in S : m \in Nat /\ ~ (m < n)
  BY <1>2, <1>3 DEF R
<1> QED
  BY <1>4

-----------------------------------------------------------------------------
(* The invariant of the relational store.                                  *)

TaskRows == [status: TaskRunStatus \ {"REUSED"}, reused: BOOLEAN]
AttemptRows == [task: Tasks, number: Nat, status: TaskAttemptStatus]
Names == {Absent} \cup WorkflowRunStatus \cup TaskRunStatus \cup TaskAttemptStatus
Changes == [from: Names, to: Names]

TablesTypeOK ==
    /\ workflowRow \in WorkflowRunStatus \cup {Absent}
    /\ taskRows \in [Tasks -> TaskRows \cup {NoRow}]
    /\ attemptRows \in [AttemptIds -> AttemptRows \cup {NoRow}]
    /\ refRows \in Seq(AttemptIds)
    /\ outputRows \in [Tasks -> Contents \cup {Absent}]
    /\ transitions \in [Entities -> Seq(Changes)]

TransactionType ==
    /\ dialect \in {"memory", "sqlite", "postgresql"}
    /\ transaction \in
          [Writers -> [at: {"idle"}] \cup [at: {"open", "written"}, op: Operations]]
    /\ commits \in Nat

\* A row marked as reused says SUCCEEDED, and what belongs to a row is not
\* there without it.
RowsFit ==
    /\ \A t \in Tasks : taskRows[t] # NoRow /\ taskRows[t].reused => taskRows[t].status = "SUCCEEDED"
    /\ \A t \in Tasks : taskRows[t] # NoRow => workflowRow # Absent
    /\ \A a \in AttemptIds : attemptRows[a] # NoRow => taskRows[attemptRows[a].task] # NoRow
    /\ \A i \in DOMAIN refRows : attemptRows[refRows[i]] # NoRow

\* No two attempts of a task have the same number.
NumbersAreTheirOwn ==
    \A a, b \in AttemptIds :
        /\ attemptRows[a] # NoRow /\ attemptRows[b] # NoRow
        /\ attemptRows[a].task = attemptRows[b].task
        /\ attemptRows[a].number = attemptRows[b].number
        => a = b

\* The evidence of an entity is a walk along its transition table, from its
\* creation to the status it has.
LogIsWalk(e) ==
    LET log == transitions[e] IN
        /\ log = << >> <=> StatusOf(e) = Absent
        /\ log # << >> => /\ log[1] = [from |-> Absent, to |-> "PENDING"]
                          /\ log[Len(log)].to = StatusOf(e)
        /\ \A i \in 2 .. Len(log) :
              /\ log[i].from = log[i - 1].to
              /\ log[i].from \in DOMAIN Transitions(e)
              /\ log[i].to \in Transitions(e)[log[i].from]

\* What an operation found before it wrote and nobody can take away.
StaysTrue(op) ==
    CASE op.kind = "create" -> op.entity # RunEntity => workflowRow # Absent
      [] op.kind = "append" ->
            taskRows[op.task] # NoRow /\ op.number <= 1 + Cardinality(AttemptsOf(op.task))
      [] op.kind = "update" -> StatusOf(op.entity) # Absent
      [] op.kind = "append_ref" -> attemptRows[op.attempt] # NoRow
      [] op.kind = "set_output" -> taskRows[op.task] # NoRow /\ taskRows[op.task].status = "SUCCEEDED"
      [] op.kind = "set_manifest" -> workflowRow # Absent

\* A written statement would still be accepted, thanks to its locks, which no
\* two of them share.
TransactionsHold ==
    /\ \A w \in Writers : \A op \in Operations :
          /\ transaction[w] = [at |-> "open", op |-> op] => StaysTrue(op)
          /\ transaction[w] = [at |-> "written", op |-> op] => Accepted(op)
    /\ \A w \in Writers : transaction[w].at # "idle" => dialect # "memory"
    /\ \A v, w \in Writers : \A p, q \in Operations :
          /\ v # w
          /\ transaction[v] = [at |-> "written", op |-> p]
          /\ transaction[w] = [at |-> "written", op |-> q]
          => dialect # "sqlite" /\ Locks(p) \cap Locks(q) = {}

TablesFit ==
    /\ TablesTypeOK
    /\ RowsFit
    /\ NumbersAreTheirOwn
    /\ NumbersHaveNoGaps
    /\ \A e \in Entities : LogIsWalk(e)

RelationalInv == TablesFit /\ TransactionType /\ TransactionsHold

-----------------------------------------------------------------------------
(* Entities, rows and operations.                                          *)

LEMMA EntitiesDiffer ==
    /\ RunEntity[1] = "workflow_run"
    /\ \A t : TaskEntity(t)[1] = "task_run" /\ TaskEntity(t)[2] = t
    /\ \A a : AttemptEntity(a)[1] = "task_attempt" /\ AttemptEntity(a)[2] = a
BY DEF RunEntity, TaskEntity, AttemptEntity

LEMMA EntityKinds ==
    ASSUME NEW e \in Entities
    PROVE  \/ e = RunEntity
           \/ \E t \in Tasks : e = TaskEntity(t)
           \/ \E a \in AttemptIds : e = AttemptEntity(a)
BY DEF Entities

LEMMA EntitiesExist ==
    /\ RunEntity \in Entities
    /\ \A t \in Tasks : TaskEntity(t) \in Entities
    /\ \A a \in AttemptIds : AttemptEntity(a) \in Entities
BY DEF Entities

\* The tables are read at an entity of their own.
LEMMA StatusesOf ==
    /\ StatusOf(RunEntity) = workflowRow
    /\ \A t : StatusOf(TaskEntity(t)) = TaskStatusOf(taskRows[t])
    /\ \A a : StatusOf(AttemptEntity(a)) = attemptRows[a].status
BY EntitiesDiffer DEF StatusOf

LEMMA TransitionsOf ==
    /\ Transitions(RunEntity) = WorkflowTransitions
    /\ \A t : Transitions(TaskEntity(t)) = TaskRunTransitions
    /\ \A a : Transitions(AttemptEntity(a)) = TaskAttemptTransitions
BY EntitiesDiffer DEF Transitions

\* Nothing is called absent, no status is without its table, and what ended
\* as a success or by reuse moves no more.
LEMMA Tables ==
    /\ DOMAIN WorkflowTransitions = WorkflowRunStatus
    /\ \A s \in WorkflowRunStatus : WorkflowTransitions[s] \subseteq WorkflowRunStatus
    /\ DOMAIN TaskRunTransitions = TaskRunStatus
    /\ \A s \in TaskRunStatus : TaskRunTransitions[s] \subseteq TaskRunStatus
    /\ TaskRunTransitions["SUCCEEDED"] = {} /\ TaskRunTransitions["REUSED"] = {}
    /\ DOMAIN TaskAttemptTransitions = TaskAttemptStatus
    /\ \A s \in TaskAttemptStatus : TaskAttemptTransitions[s] \subseteq TaskAttemptStatus
    /\ Absent \notin WorkflowRunStatus /\ Absent \notin TaskRunStatus
    /\ Absent \notin TaskAttemptStatus
BY DEF WorkflowTransitions, WorkflowRunStatus, WorkflowTerminal, TaskRunTransitions,
       TaskRunStatus, TaskAttemptTransitions, TaskAttemptStatus, Absent

LEMMA RowTypes ==
    /\ \A row \in TaskRows \cup {NoRow} :
          /\ row = NoRow <=> row.status = Absent
          /\ row = NoRow <=> TaskStatusOf(row) = Absent
          /\ row # NoRow => row \in TaskRows /\ TaskStatusOf(row) \in TaskRunStatus
    /\ \A row \in AttemptRows \cup {NoRow} :
          /\ row = NoRow <=> row.status = Absent
          /\ row # NoRow => row \in AttemptRows
    /\ \A s \in TaskRunStatus : TaskRow(s) \in TaskRows /\ TaskStatusOf(TaskRow(s)) = s
BY Tables DEF TaskRows, AttemptRows, NoRow, TaskStatusOf, TaskRow, TaskRunStatus

\* What the fields of an operation may hold.
OperationType(op) ==
    \/ /\ op.kind = "create"
       /\ op.entity = RunEntity \/ \E t \in Tasks : op.entity = TaskEntity(t)
    \/ /\ op.kind = "append"
       /\ \E a \in AttemptIds : op.entity = AttemptEntity(a)
       /\ op.task \in Tasks /\ op.number \in Nat \ {0}
       /\ op.number <= Cardinality(AttemptIds)
    \/ /\ op.kind = "update" /\ op.entity \in Entities
       /\ op.expected \in DOMAIN Transitions(op.entity)
       /\ op.target \in Transitions(op.entity)[op.expected]
    \/ op.kind = "append_ref" /\ op.attempt \in AttemptIds
    \/ op.kind = "set_output" /\ op.task \in Tasks /\ op.content \in Contents
    \/ op.kind = "set_manifest" /\ op.content \in Contents

LEMMA AttemptsAreCounted == IsFiniteSet(AttemptIds) /\ Cardinality(AttemptIds) \in Nat
BY RelationalBounds, FS_CardinalityType

LEMMA OperationTypes ==
    ASSUME NEW op \in Operations
    PROVE  OperationType(op)
<1>1. CASE op \in Creations
  BY <1>1 DEF Creations, OperationType
<1>2. CASE op \in Appends
  BY <1>2, AttemptsAreCounted DEF Appends, OperationType
<1>3. CASE op \in Updates
  <2>1. PICK e \in Entities, s \in Statuses :
           /\ s \in DOMAIN Transitions(e)
           /\ op \in [kind: {"update"}, entity: {e}, expected: {s},
                      target: Transitions(e)[s] \cap Statuses]
    BY <1>3 DEF Updates
  <2> QED
    BY <2>1 DEF OperationType
<1>4. CASE op \in References
  BY <1>4 DEF References, OperationType
<1>5. CASE op \in Outputs
  BY <1>5 DEF Outputs, OperationType
<1>6. CASE op \in Manifests
  BY <1>6 DEF Manifests, OperationType
<1> QED
  BY <1>1, <1>2, <1>3, <1>4, <1>5, <1>6 DEF Operations

-----------------------------------------------------------------------------
(* The effects on the rows and on the evidence.                            *)

\* A status is written to the row of its entity and to no other (the UPDATE of
\* update_workflow_run, update_task_run and update_task_attempt).
LEMMA StatusIsWritten ==
    ASSUME TablesTypeOK, NEW e \in Entities, NEW s \in DOMAIN Transitions(e),
           \A a \in AttemptIds : e = AttemptEntity(a) => attemptRows[a] # NoRow,
           SetStatus(e, s)
    PROVE  /\ workflowRow' \in WorkflowRunStatus \cup {Absent}
           /\ taskRows' \in [Tasks -> TaskRows \cup {NoRow}]
           /\ attemptRows' \in [AttemptIds -> AttemptRows \cup {NoRow}]
           /\ StatusOf(e)' = s
           /\ \A f \in Entities : f # e => StatusOf(f)' = StatusOf(f)
           /\ \A a \in AttemptIds :
                 /\ attemptRows'[a] = NoRow <=> attemptRows[a] = NoRow
                 /\ attemptRows[a] # NoRow => /\ attemptRows'[a].task = attemptRows[a].task
                                              /\ attemptRows'[a].number = attemptRows[a].number
           /\ \A t \in Tasks : e # TaskEntity(t) => taskRows'[t] = taskRows[t]
           /\ \A t \in Tasks : e = TaskEntity(t) => taskRows'[t] = TaskRow(s)
           /\ e # RunEntity => workflowRow' = workflowRow
<1> USE EntitiesDiffer
<1>1. CASE e = RunEntity
  <2>1. workflowRow' = s /\ taskRows' = taskRows /\ attemptRows' = attemptRows
    BY <1>1 DEF SetStatus
  <2>2. s \in WorkflowRunStatus
    BY <1>1, TransitionsOf, Tables
  <2>3. \A f \in Entities : f # e => StatusOf(f)' = StatusOf(f)
    <3> TAKE f \in Entities
    <3> QED
      BY <1>1, <2>1, EntityKinds DEF StatusOf
  <2> QED
    BY <1>1, <2>1, <2>2, <2>3 DEF StatusOf, TablesTypeOK
<1>2. ASSUME NEW t \in Tasks, e = TaskEntity(t)
      PROVE  /\ workflowRow' \in WorkflowRunStatus \cup {Absent}
             /\ taskRows' \in [Tasks -> TaskRows \cup {NoRow}]
             /\ attemptRows' = attemptRows
             /\ StatusOf(e)' = s
             /\ \A f \in Entities : f # e => StatusOf(f)' = StatusOf(f)
             /\ \A u \in Tasks : u # t => taskRows'[u] = taskRows[u]
             /\ taskRows'[t] = TaskRow(s)
             /\ workflowRow' = workflowRow
  <2>1. /\ taskRows' = [taskRows EXCEPT ![t] = TaskRow(s)]
        /\ workflowRow' = workflowRow /\ attemptRows' = attemptRows
    BY <1>2 DEF SetStatus
  <2>2. TaskRow(s) \in TaskRows /\ TaskStatusOf(TaskRow(s)) = s
    BY <1>2, TransitionsOf, Tables, RowTypes
  <2>3. taskRows \in [Tasks -> TaskRows \cup {NoRow}]
    BY DEF TablesTypeOK
  <2>4. /\ taskRows' \in [Tasks -> TaskRows \cup {NoRow}] /\ taskRows'[t] = TaskRow(s)
        /\ \A u \in Tasks : u # t => taskRows'[u] = taskRows[u]
    BY <2>1, <2>2, <2>3
  <2>5. \A f \in Entities : f # e => StatusOf(f)' = StatusOf(f)
    <3> TAKE f \in Entities
    <3> HAVE f # e
    <3>1. CASE f = RunEntity
      BY <2>1, <3>1 DEF StatusOf
    <3>2. CASE \E u \in Tasks : f = TaskEntity(u)
      <4>1. PICK u \in Tasks : f = TaskEntity(u)
        BY <3>2
      <4>2. taskRows'[u] = taskRows[u]
        BY <1>2, <2>4, <4>1
      <4> QED
        BY <4>1, <4>2 DEF StatusOf, TaskStatusOf
    <3>3. CASE \E a \in AttemptIds : f = AttemptEntity(a)
      BY <2>1, <3>3 DEF StatusOf
    <3> QED
      BY <3>1, <3>2, <3>3, EntityKinds
  <2>6. StatusOf(e)' = TaskStatusOf(taskRows'[t])
    BY <1>2 DEF StatusOf, TaskStatusOf
  <2> QED
    BY <1>2, <2>1, <2>2, <2>4, <2>5, <2>6 DEF TablesTypeOK
<1>3. ASSUME NEW a \in AttemptIds, e = AttemptEntity(a)
      PROVE  /\ workflowRow' \in WorkflowRunStatus \cup {Absent}
             /\ taskRows' \in [Tasks -> TaskRows \cup {NoRow}]
             /\ attemptRows' \in [AttemptIds -> AttemptRows \cup {NoRow}]
             /\ StatusOf(e)' = s
             /\ \A f \in Entities : f # e => StatusOf(f)' = StatusOf(f)
             /\ \A b \in AttemptIds :
                   /\ attemptRows'[b] = NoRow <=> attemptRows[b] = NoRow
                   /\ attemptRows[b] # NoRow => /\ attemptRows'[b].task = attemptRows[b].task
                                                /\ attemptRows'[b].number = attemptRows[b].number
             /\ taskRows' = taskRows /\ workflowRow' = workflowRow
  <2>1. /\ attemptRows' = [attemptRows EXCEPT ![a].status = s]
        /\ workflowRow' = workflowRow /\ taskRows' = taskRows
    BY <1>3 DEF SetStatus
  <2>2. s \in TaskAttemptStatus
    BY <1>3, TransitionsOf, Tables
  <2>3. attemptRows \in [AttemptIds -> AttemptRows \cup {NoRow}] /\ attemptRows[a] \in AttemptRows
    BY <1>3, RowTypes DEF TablesTypeOK
  <2>4. /\ attemptRows' = [attemptRows EXCEPT ![a] = [attemptRows[a] EXCEPT !.status = s]]
        /\ [attemptRows[a] EXCEPT !.status = s] \in AttemptRows
    BY <2>1, <2>2, <2>3 DEF AttemptRows
  <2>5. /\ attemptRows' \in [AttemptIds -> AttemptRows \cup {NoRow}]
        /\ attemptRows'[a] \in AttemptRows /\ attemptRows'[a].status = s
        /\ attemptRows'[a].task = attemptRows[a].task
        /\ attemptRows'[a].number = attemptRows[a].number
        /\ \A b \in AttemptIds : b # a => attemptRows'[b] = attemptRows[b]
    BY <2>3, <2>4 DEF AttemptRows
  <2>6. \A row \in AttemptRows : row # NoRow
    BY DEF AttemptRows, NoRow
  <2>7. \A f \in Entities : f # e => StatusOf(f)' = StatusOf(f)
    <3> TAKE f \in Entities
    <3> HAVE f # e
    <3>1. CASE f = RunEntity
      BY <2>1, <3>1 DEF StatusOf
    <3>2. CASE \E u \in Tasks : f = TaskEntity(u)
      BY <2>1, <3>2 DEF StatusOf, TaskStatusOf
    <3>3. CASE \E b \in AttemptIds : f = AttemptEntity(b)
      <4>1. PICK b \in AttemptIds : f = AttemptEntity(b)
        BY <3>3
      <4>2. attemptRows'[b] = attemptRows[b]
        BY <1>3, <2>5, <4>1
      <4> QED
        BY <4>1, <4>2 DEF StatusOf
    <3> QED
      BY <3>1, <3>2, <3>3, EntityKinds
  <2>8. StatusOf(e)' = attemptRows'[a].status
    BY <1>3 DEF StatusOf
  <2> QED
    BY <1>3, <2>1, <2>3, <2>5, <2>6, <2>7, <2>8 DEF TablesTypeOK
<1>4. CASE \E t \in Tasks : e = TaskEntity(t)
  <2>1. PICK t \in Tasks : e = TaskEntity(t)
    BY <1>4
  <2>2. /\ \A u \in Tasks : e = TaskEntity(u) => u = t
        /\ e # RunEntity
    BY <2>1
  <2>3. /\ workflowRow' \in WorkflowRunStatus \cup {Absent}
        /\ taskRows' \in [Tasks -> TaskRows \cup {NoRow}]
        /\ attemptRows' = attemptRows
        /\ StatusOf(e)' = s
        /\ \A f \in Entities : f # e => StatusOf(f)' = StatusOf(f)
        /\ \A u \in Tasks : u # t => taskRows'[u] = taskRows[u]
        /\ taskRows'[t] = TaskRow(s)
        /\ workflowRow' = workflowRow
    BY <1>2, <2>1
  <2>4. attemptRows' \in [AttemptIds -> AttemptRows \cup {NoRow}]
    BY <2>3 DEF TablesTypeOK
  <2>5. \A u \in Tasks : /\ e # TaskEntity(u) => taskRows'[u] = taskRows[u]
                         /\ e = TaskEntity(u) => taskRows'[u] = TaskRow(s)
    BY <2>1, <2>2, <2>3
  <2>6. \A a \in AttemptIds : attemptRows'[a] = attemptRows[a]
    BY <2>3
  <2> QED
    BY <2>2, <2>3, <2>4, <2>5, <2>6
<1>5. CASE \E a \in AttemptIds : e = AttemptEntity(a)
  <2>1. PICK a \in AttemptIds : e = AttemptEntity(a)
    BY <1>5
  <2>2. \A t \in Tasks : e # TaskEntity(t)
    BY <2>1
  <2> QED
    BY <1>3, <2>1, <2>2
<1> QED
  BY <1>1, <1>4, <1>5, EntityKinds

\* A change that follows the last one of its entity extends its walk, and the
\* others stay as they are (the row in v2_state_transitions).
LEMMA WalkGoesOn ==
    ASSUME TablesFit, NEW e \in Entities, NEW to \in Names,
           LET from == StatusOf(e) IN
              /\ from \in Names
              /\ \/ from = Absent /\ to = "PENDING"
                 \/ from \in DOMAIN Transitions(e) /\ to \in Transitions(e)[from]
              /\ Logged(e, from, to),
           to # Absent, StatusOf(e)' = to,
           \A f \in Entities : f # e => StatusOf(f)' = StatusOf(f)
    PROVE  /\ transitions' \in [Entities -> Seq(Changes)]
           /\ \A f \in Entities : LogIsWalk(f)'
<1> DEFINE log == transitions[e]
           change == [from |-> StatusOf(e), to |-> to]
<1>1. transitions \in [Entities -> Seq(Changes)] /\ log \in Seq(Changes) /\ change \in Changes
  BY DEF TablesFit, TablesTypeOK, Changes
<1>2. /\ transitions' = [transitions EXCEPT ![e] = Append(log, change)]
      /\ transitions'[e] = Append(log, change)
      /\ \A f \in Entities : f # e => transitions'[f] = transitions[f]
  BY <1>1 DEF Logged
<1>3. /\ Append(log, change) \in Seq(Changes) /\ Len(Append(log, change)) = Len(log) + 1
      /\ \A i \in 1 .. Len(log) : Append(log, change)[i] = log[i]
      /\ Append(log, change)[Len(log) + 1] = change
      /\ Append(log, change) # << >> /\ Len(log) \in Nat
      /\ log = << >> <=> Len(log) = 0
  <2> HIDE DEF change
  <2> QED
    BY <1>1
<1>4. transitions' \in [Entities -> Seq(Changes)]
  BY <1>1, <1>2, <1>3
<1>5. ASSUME NEW f \in Entities, f # e
      PROVE  LogIsWalk(f)'
  <2>1. LogIsWalk(f) /\ transitions'[f] = transitions[f] /\ StatusOf(f)' = StatusOf(f)
    BY <1>2, <1>5 DEF TablesFit
  <2>2. Transitions(f)' = Transitions(f)
    BY DEF Transitions
  <2> QED
    BY <2>1, <2>2 DEF LogIsWalk
<1>6. LogIsWalk(e)'
  <2>1. /\ log = << >> <=> StatusOf(e) = Absent
        /\ log # << >> => /\ log[1] = [from |-> Absent, to |-> "PENDING"]
                          /\ log[Len(log)].to = StatusOf(e)
        /\ \A i \in 2 .. Len(log) :
              /\ log[i].from = log[i - 1].to
              /\ log[i].from \in DOMAIN Transitions(e)
              /\ log[i].to \in Transitions(e)[log[i].from]
    BY DEF TablesFit, LogIsWalk
  <2>2. change.from = StatusOf(e) /\ change.to = to
    OBVIOUS
  <2>3. \/ StatusOf(e) = Absent /\ to = "PENDING"
        \/ /\ StatusOf(e) # Absent /\ StatusOf(e) \in DOMAIN Transitions(e)
           /\ to \in Transitions(e)[StatusOf(e)]
    <3>1. Absent \notin DOMAIN Transitions(e)
      BY EntityKinds, TransitionsOf, Tables
    <3> QED
      BY <3>1
  <2> DEFINE longer == Append(log, change)
  <2>4. longer[1] = [from |-> Absent, to |-> "PENDING"] /\ longer[Len(longer)].to = to
    <3>1. CASE log = << >>
      BY <1>3, <2>1, <2>2, <2>3, <3>1
    <3>2. CASE log # << >>
      BY <1>3, <2>1, <2>2, <3>2
    <3> QED
      BY <3>1, <3>2
  <2>5. ASSUME NEW i \in 2 .. Len(longer)
        PROVE  /\ longer[i].from = longer[i - 1].to
               /\ longer[i].from \in DOMAIN Transitions(e)
               /\ longer[i].to \in Transitions(e)[longer[i].from]
    <3>1. CASE i \in 2 .. Len(log)
      BY <1>3, <2>1, <3>1
    <3>2. CASE i = Len(log) + 1
      <4>1. Len(log) \in 1 .. Len(log) /\ log # << >> /\ i - 1 = Len(log)
        BY <1>3, <3>2
      <4>2. StatusOf(e) # Absent /\ longer[i] = change /\ longer[i - 1] = log[Len(log)]
        BY <1>3, <2>1, <3>2, <4>1
      <4> QED
        BY <2>1, <2>2, <2>3, <4>1, <4>2
    <3> QED
      BY <1>3, <3>1, <3>2
  <2>6. Transitions(e)' = Transitions(e)
    BY DEF Transitions
  <2>7. transitions'[e] = longer /\ longer # << >> /\ StatusOf(e)' # Absent
    BY <1>2, <1>3
  <2> HIDE DEF longer
  <2> QED
    BY <2>4, <2>5, <2>6, <2>7 DEF LogIsWalk
<1> QED
  BY <1>4, <1>5, <1>6

\* What was there stays there, and a success is final.
Grown ==
    /\ workflowRow # Absent => workflowRow' # Absent
    /\ \A t \in Tasks :
          /\ taskRows[t] # NoRow => taskRows'[t] # NoRow
          /\ taskRows[t] # NoRow /\ taskRows[t].status = "SUCCEEDED" =>
                taskRows'[t] = taskRows[t]
          /\ Cardinality(AttemptsOf(t)) \in Nat
          /\ Cardinality(AttemptsOf(t))' \in Nat
          /\ Cardinality(AttemptsOf(t)) <= Cardinality(AttemptsOf(t))'
    /\ \A a \in AttemptIds : attemptRows[a] # NoRow => attemptRows'[a] # NoRow

\* An operation leaves alone what it holds no lock on.
Footprint(op) ==
    /\ \A f \in Entities : f \notin Locks(op) => StatusOf(f)' = StatusOf(f)
    /\ \A t \in Tasks : (op.kind = "append" /\ op.task = t) \/ AttemptsOf(t)' = AttemptsOf(t)
    /\ ToSet(refRows)' = IF op.kind = "append_ref" THEN ToSet(refRows) \cup {op.attempt}
                                                   ELSE ToSet(refRows)
    /\ \A t \in Tasks : <<"output", t>> \notin Locks(op) => outputRows'[t] = outputRows[t]
    /\ op.kind # "set_manifest" => manifestRow' = manifestRow

LEMMA AttemptsAreFinite ==
    ASSUME NEW t
    PROVE  /\ AttemptsOf(t) \subseteq AttemptIds /\ IsFiniteSet(AttemptsOf(t))
           /\ Cardinality(AttemptsOf(t)) \in Nat
           /\ Cardinality(AttemptsOf(t)) <= Cardinality(AttemptIds)
BY AttemptsAreCounted, FS_Subset, FS_CardinalityType DEF AttemptsOf

\* What keeps the task and the number of each attempt keeps their numbering.
LEMMA AttemptsAreKept ==
    ASSUME NumbersAreTheirOwn,
           \A a \in AttemptIds :
              /\ attemptRows'[a] = NoRow <=> attemptRows[a] = NoRow
              /\ attemptRows[a] # NoRow => /\ attemptRows'[a].task = attemptRows[a].task
                                           /\ attemptRows'[a].number = attemptRows[a].number
    PROVE  /\ \A t : AttemptsOf(t)' = AttemptsOf(t) /\ Numbers(t)' = Numbers(t)
           /\ NumbersAreTheirOwn'
<1>1. ASSUME NEW t
      PROVE  AttemptsOf(t)' = AttemptsOf(t) /\ Numbers(t)' = Numbers(t)
  <2>1. AttemptsOf(t)' = AttemptsOf(t)
    BY DEF AttemptsOf
  <2>2. \A a \in AttemptsOf(t) : attemptRows'[a].number = attemptRows[a].number
    BY DEF AttemptsOf
  <2> QED
    BY <2>1, <2>2 DEF Numbers
<1>2. NumbersAreTheirOwn'
  BY DEF NumbersAreTheirOwn
<1> QED
  BY <1>1, <1>2

\* A new status, with its row of evidence (create_workflow_run, create_task_run
\* and the three updates).
LEMMA StatusChangeKeeps ==
    ASSUME TablesFit, NEW e \in Entities, NEW s,
           \A a \in AttemptIds : e = AttemptEntity(a) => attemptRows[a] # NoRow,
           e # RunEntity => workflowRow # Absent,
           \/ StatusOf(e) = Absent /\ s = "PENDING"
           \/ StatusOf(e) \in DOMAIN Transitions(e) /\ s \in Transitions(e)[StatusOf(e)],
           SetStatus(e, s), Logged(e, StatusOf(e), s),
           UNCHANGED <<refRows, outputRows, manifestRow>>
    PROVE  /\ TablesFit' /\ Grown
           /\ \A f \in Entities : f # e => StatusOf(f)' = StatusOf(f)
           /\ StatusOf(e)' = s
           /\ \A t \in Tasks : AttemptsOf(t)' = AttemptsOf(t)
           /\ \A a \in AttemptIds :
                 /\ attemptRows'[a] = NoRow <=> attemptRows[a] = NoRow
                 /\ attemptRows[a] # NoRow => /\ attemptRows'[a].task = attemptRows[a].task
                                              /\ attemptRows'[a].number = attemptRows[a].number
<1> USE EntitiesDiffer
<1>1. /\ s \in DOMAIN Transitions(e) /\ s \in Names /\ s # Absent
      /\ StatusOf(e) \in Names
  <2>1. CASE e = RunEntity
    BY <2>1, TransitionsOf, Tables DEF Names, WorkflowRunStatus
  <2>2. CASE \E t \in Tasks : e = TaskEntity(t)
    BY <2>2, TransitionsOf, Tables DEF Names, TaskRunStatus
  <2>3. CASE \E a \in AttemptIds : e = AttemptEntity(a)
    BY <2>3, TransitionsOf, Tables DEF Names, TaskAttemptStatus
  <2> QED
    BY <2>1, <2>2, <2>3, EntityKinds
<1>2. /\ TablesTypeOK /\ RowsFit /\ NumbersAreTheirOwn /\ NumbersHaveNoGaps
  BY DEF TablesFit
<1>3. /\ workflowRow' \in WorkflowRunStatus \cup {Absent}
      /\ taskRows' \in [Tasks -> TaskRows \cup {NoRow}]
      /\ attemptRows' \in [AttemptIds -> AttemptRows \cup {NoRow}]
      /\ StatusOf(e)' = s
      /\ \A f \in Entities : f # e => StatusOf(f)' = StatusOf(f)
      /\ \A a \in AttemptIds :
            /\ attemptRows'[a] = NoRow <=> attemptRows[a] = NoRow
            /\ attemptRows[a] # NoRow => /\ attemptRows'[a].task = attemptRows[a].task
                                         /\ attemptRows'[a].number = attemptRows[a].number
      /\ \A t \in Tasks : e # TaskEntity(t) => taskRows'[t] = taskRows[t]
      /\ \A t \in Tasks : e = TaskEntity(t) => taskRows'[t] = TaskRow(s)
      /\ e # RunEntity => workflowRow' = workflowRow
  BY <1>1, <1>2, StatusIsWritten
<1>4. /\ transitions' \in [Entities -> Seq(Changes)]
      /\ \A f \in Entities : LogIsWalk(f)'
  BY <1>1, <1>3, WalkGoesOn
<1>5. /\ \A t : AttemptsOf(t)' = AttemptsOf(t) /\ Numbers(t)' = Numbers(t)
      /\ NumbersAreTheirOwn'
  BY <1>2, <1>3, AttemptsAreKept
<1>6. TablesTypeOK'
  BY <1>2, <1>3, <1>4 DEF TablesTypeOK
<1>7. workflowRow # Absent => workflowRow' # Absent
  <2>1. CASE e = RunEntity
    BY <1>1, <1>3, <2>1, StatusesOf DEF StatusOf
  <2> QED
    BY <1>3, <2>1
<1>8. ASSUME NEW t \in Tasks
      PROVE  /\ taskRows[t] # NoRow => taskRows'[t] # NoRow
             /\ taskRows'[t] # NoRow /\ taskRows'[t].reused => taskRows'[t].status = "SUCCEEDED"
             /\ taskRows'[t] # NoRow => workflowRow' # Absent
  <2>1. CASE e = TaskEntity(t)
    <3>1. s \in TaskRunStatus
      BY <1>1, <2>1, TransitionsOf, Tables
    <3>2. taskRows'[t] = TaskRow(s) /\ TaskRow(s) \in TaskRows
      BY <1>3, <2>1, <3>1, RowTypes
    <3>3. TaskRow(s) # NoRow /\ (TaskRow(s).reused => TaskRow(s).status = "SUCCEEDED")
      BY <3>2 DEF TaskRow, TaskRows, NoRow
    <3>4. workflowRow # Absent
      BY <2>1
    <3> QED
      BY <1>7, <3>2, <3>3, <3>4
  <2>2. CASE e # TaskEntity(t)
    BY <1>2, <1>3, <1>7, <2>2 DEF RowsFit
  <2> QED
    BY <2>1, <2>2
<1>9. RowsFit'
  <2>1. \A a \in AttemptIds : attemptRows'[a] # NoRow => taskRows'[attemptRows'[a].task] # NoRow
    <3> TAKE a \in AttemptIds
    <3> HAVE attemptRows'[a] # NoRow
    <3>1. attemptRows[a] # NoRow /\ attemptRows'[a].task = attemptRows[a].task
      BY <1>3
    <3>2. attemptRows[a].task \in Tasks
      BY <1>2, <3>1, RowTypes DEF TablesTypeOK, AttemptRows
    <3> QED
      BY <1>2, <1>8, <3>1, <3>2 DEF RowsFit
  <2>2. \A i \in DOMAIN refRows' : attemptRows'[refRows'[i]] # NoRow
    <3>1. \A i \in DOMAIN refRows : refRows[i] \in AttemptIds /\ attemptRows[refRows[i]] # NoRow
      BY <1>2 DEF TablesTypeOK, RowsFit
    <3> QED
      BY <1>3, <3>1
  <2> QED
    BY <1>8, <2>1, <2>2 DEF RowsFit
<1>10. NumbersHaveNoGaps'
  BY <1>2, <1>5 DEF NumbersHaveNoGaps, IsInjective
<1>11. \A t \in Tasks : taskRows[t] # NoRow /\ taskRows[t].status = "SUCCEEDED" =>
                           taskRows'[t] = taskRows[t]
  <2> TAKE t \in Tasks
  <2> HAVE taskRows[t] # NoRow /\ taskRows[t].status = "SUCCEEDED"
  <2>1. CASE e = TaskEntity(t)
    <3>1. StatusOf(e) \in {"SUCCEEDED", "REUSED"}
      BY <2>1, StatusesOf DEF TaskStatusOf
    <3> QED
      BY <2>1, <3>1, TransitionsOf, Tables DEF Absent
  <2> QED
    BY <1>3, <2>1
<1>12. Grown
  <2>1. \A t \in Tasks : /\ Cardinality(AttemptsOf(t)) \in Nat
                         /\ Cardinality(AttemptsOf(t))' = Cardinality(AttemptsOf(t))
    BY <1>5, AttemptsAreFinite
  <2> QED
    BY <1>3, <1>7, <1>8, <1>11, <2>1 DEF Grown
<1> QED
  BY <1>3, <1>4, <1>5, <1>6, <1>9, <1>10, <1>12 DEF TablesFit

\* A new attempt has the next number of its task (append_task_attempt).
LEMMA AppendKeeps ==
    ASSUME TablesFit, NEW op, OperationType(op), AppendAccepted(op), AppendsAttempt(op)
    PROVE  TablesFit' /\ Grown /\ Footprint(op)
<1> USE EntitiesDiffer
<1> DEFINE t == op.task
           a == op.entity[2]
           row == [task |-> t, number |-> op.number, status |-> "PENDING"]
<1>1. /\ op.kind = "append" /\ a \in AttemptIds /\ op.entity = AttemptEntity(a)
      /\ t \in Tasks /\ op.number \in Nat \ {0}
  BY DEF OperationType, AppendsAttempt
<1>2. /\ attemptRows[a] = NoRow /\ taskRows[t] # NoRow
      /\ op.number = 1 + Cardinality(AttemptsOf(t))
  BY DEF AppendAccepted
<1>3. /\ TablesTypeOK /\ RowsFit /\ NumbersAreTheirOwn /\ NumbersHaveNoGaps
  BY DEF TablesFit
<1>4. /\ attemptRows' = [attemptRows EXCEPT ![a] = row]
      /\ Logged(op.entity, Absent, "PENDING")
      /\ UNCHANGED <<workflowRow, taskRows, refRows, outputRows, manifestRow>>
  BY DEF AppendsAttempt
<1>5. /\ row \in AttemptRows /\ row # NoRow
      /\ row.task = t /\ row.number = op.number /\ row.status = "PENDING"
  BY <1>1 DEF AttemptRows, TaskAttemptStatus, NoRow
<1> HIDE DEF row
<1>6. /\ attemptRows' \in [AttemptIds -> AttemptRows \cup {NoRow}]
      /\ attemptRows'[a] = row
      /\ \A b \in AttemptIds : b # a => attemptRows'[b] = attemptRows[b]
  BY <1>1, <1>3, <1>4, <1>5 DEF TablesTypeOK
<1>7. /\ StatusOf(op.entity)' = "PENDING" /\ StatusOf(op.entity) = Absent
      /\ \A f \in Entities : f # op.entity => StatusOf(f)' = StatusOf(f)
  <2>1. StatusOf(op.entity)' = attemptRows'[a].status
    BY <1>1 DEF StatusOf
  <2>2. StatusOf(op.entity) = Absent
    BY <1>1, <1>2, StatusesOf DEF NoRow
  <2>3. ASSUME NEW f \in Entities, f # op.entity
        PROVE  StatusOf(f)' = StatusOf(f)
    <3>1. CASE f = RunEntity
      BY <1>4, <3>1 DEF StatusOf
    <3>2. CASE \E u \in Tasks : f = TaskEntity(u)
      BY <1>4, <3>2 DEF StatusOf, TaskStatusOf
    <3>3. CASE \E b \in AttemptIds : f = AttemptEntity(b)
      <4>1. PICK b \in AttemptIds : f = AttemptEntity(b)
        BY <3>3
      <4>2. attemptRows'[b] = attemptRows[b]
        BY <1>1, <1>6, <2>3, <4>1
      <4> QED
        BY <4>1, <4>2 DEF StatusOf
    <3> QED
      BY <3>1, <3>2, <3>3, EntityKinds
  <2> QED
    BY <1>5, <1>6, <2>1, <2>2, <2>3
<1>8. /\ transitions' \in [Entities -> Seq(Changes)]
      /\ \A f \in Entities : LogIsWalk(f)'
  <2>1. op.entity \in Entities
    BY <1>1, EntitiesExist
  <2>2. "PENDING" \in Names /\ Absent \in Names /\ "PENDING" # Absent
    BY DEF Names, WorkflowRunStatus, Absent
  <2> QED
    BY <1>4, <1>7, <2>1, <2>2, WalkGoesOn
<1>9. /\ AttemptsOf(t)' = AttemptsOf(t) \cup {a} /\ a \notin AttemptsOf(t)
      /\ \A u : u # t => AttemptsOf(u)' = AttemptsOf(u)
  BY <1>1, <1>2, <1>5, <1>6 DEF AttemptsOf
<1>10. /\ Cardinality(AttemptsOf(t)) \in Nat
       /\ Cardinality(AttemptsOf(t))' = Cardinality(AttemptsOf(t)) + 1
  <2>1. IsFiniteSet(AttemptsOf(t)) /\ Cardinality(AttemptsOf(t)) \in Nat
    BY AttemptsAreFinite
  <2> QED
    BY <1>9, <2>1, FS_AddElement
<1>11. /\ Numbers(t)' = Numbers(t) \cup {op.number}
       /\ \A u : u # t => Numbers(u)' = Numbers(u)
  <2>1. \A u : \A b \in AttemptsOf(u) : attemptRows'[b] = attemptRows[b]
    BY <1>2, <1>6 DEF AttemptsOf
  <2>2. attemptRows'[a].number = op.number
    BY <1>5, <1>6
  <2>3. \A u : Numbers(u)' = {attemptRows'[b].number : b \in AttemptsOf(u)'}
    BY DEF Numbers
  <2> QED
    BY <1>9, <2>1, <2>2, <2>3 DEF Numbers
<1>12. \A u \in Tasks : Numbers(u) = 1 .. Cardinality(AttemptsOf(u))
  BY <1>3 DEF NumbersHaveNoGaps
<1>13. NumbersHaveNoGaps'
  <2>1. ASSUME NEW u \in Tasks
        PROVE  Numbers(u)' = 1 .. Cardinality(AttemptsOf(u))'
    <3>1. CASE u = t
      <4>1. \A n \in Nat : 1 .. (n + 1) = (1 .. n) \cup {1 + n}
        OBVIOUS
      <4>2. Numbers(t)' = (1 .. Cardinality(AttemptsOf(t)))
                             \cup {1 + Cardinality(AttemptsOf(t))}
        BY <1>1, <1>2, <1>11, <1>12
      <4> QED
        BY <1>10, <3>1, <4>1, <4>2
    <3>2. CASE u # t
      BY <1>9, <1>11, <1>12, <3>2
    <3> QED
      BY <3>1, <3>2
  <2> QED
    BY <1>3, <1>4, <2>1 DEF NumbersHaveNoGaps, IsInjective
<1>14. NumbersAreTheirOwn'
  <2> SUFFICES ASSUME NEW b \in AttemptIds, NEW c \in AttemptIds,
                      attemptRows'[b] # NoRow, attemptRows'[c] # NoRow,
                      attemptRows'[b].task = attemptRows'[c].task,
                      attemptRows'[b].number = attemptRows'[c].number
               PROVE  b = c
    BY DEF NumbersAreTheirOwn
  <2>1. op.number \notin Numbers(t)
    BY <1>1, <1>2, <1>10, <1>12
  <2>2. \A d \in AttemptIds : attemptRows[d] # NoRow /\ attemptRows[d].task = t
                                 => attemptRows[d].number # op.number
    BY <2>1 DEF Numbers, AttemptsOf
  <2>3. CASE b = a /\ c # a
    BY <1>5, <1>6, <2>2, <2>3
  <2>4. CASE b # a /\ c = a
    BY <1>5, <1>6, <2>2, <2>4
  <2>5. CASE b # a /\ c # a
    BY <1>3, <1>6, <2>5 DEF NumbersAreTheirOwn
  <2> QED
    BY <2>3, <2>4, <2>5
<1>15. TablesTypeOK'
  BY <1>3, <1>4, <1>6, <1>8 DEF TablesTypeOK
<1>16. RowsFit'
  <2>1. \A b \in AttemptIds : attemptRows'[b] # NoRow => taskRows'[attemptRows'[b].task] # NoRow
    BY <1>2, <1>3, <1>4, <1>5, <1>6 DEF RowsFit
  <2>2. \A i \in DOMAIN refRows : refRows[i] \in AttemptIds /\ attemptRows[refRows[i]] # NoRow
    BY <1>3 DEF TablesTypeOK, RowsFit
  <2>3. \A i \in DOMAIN refRows' : attemptRows'[refRows'[i]] # NoRow
    BY <1>2, <1>4, <1>6, <2>2
  <2> QED
    BY <1>3, <1>4, <2>1, <2>3 DEF RowsFit
<1>17. Grown
  <2>1. \A u \in Tasks : /\ Cardinality(AttemptsOf(u)) \in Nat
                         /\ Cardinality(AttemptsOf(u))' \in Nat
                         /\ Cardinality(AttemptsOf(u)) <= Cardinality(AttemptsOf(u))'
    <3> TAKE u \in Tasks
    <3>1. CASE u = t
      BY <1>10, <3>1
    <3>2. CASE u # t
      BY <1>9, <3>2, AttemptsAreFinite
    <3> QED
      BY <3>1, <3>2
  <2> QED
    BY <1>2, <1>4, <1>6, <2>1 DEF Grown
<1>18. Footprint(op)
  <2>1. op.entity \in Locks(op)
    BY <1>1 DEF Locks
  <2>2. ToSet(refRows)' = ToSet(refRows)
    BY <1>4 DEF ToSet
  <2> QED
    BY <1>1, <1>4, <1>7, <1>9, <2>1, <2>2 DEF Footprint
<1> QED
  BY <1>8, <1>13, <1>14, <1>15, <1>16, <1>17, <1>18 DEF TablesFit

\* What adds to a row without changing a status (append_external_run_ref,
\* set_task_output_checkpoint, set_manifest_reference).
LEMMA AdditionKeeps ==
    ASSUME TablesFit, NEW op, OperationType(op), Accepted(op),
           AppendsReference(op) \/ StoresOutput(op) \/ StoresManifest(op)
    PROVE  TablesFit' /\ Grown /\ Footprint(op)
<1>1. UNCHANGED <<workflowRow, taskRows, attemptRows, transitions>>
  BY DEF AppendsReference, StoresOutput, StoresManifest
<1>2. \A f : StatusOf(f)' = StatusOf(f)
  BY <1>1 DEF StatusOf, TaskStatusOf
<1>3. \A t : AttemptsOf(t)' = AttemptsOf(t) /\ Numbers(t)' = Numbers(t)
  BY <1>1 DEF AttemptsOf, Numbers
<1>4. \A f \in Entities : LogIsWalk(f)'
  <2> TAKE f \in Entities
  <2>1. LogIsWalk(f) /\ Transitions(f)' = Transitions(f)
    BY DEF TablesFit, Transitions
  <2> QED
    BY <1>1, <1>2, <2>1 DEF LogIsWalk
<1>5. Grown
  BY <1>1, <1>3, AttemptsAreFinite DEF Grown
<1>6. TablesTypeOK /\ RowsFit /\ NumbersAreTheirOwn /\ NumbersHaveNoGaps
  BY DEF TablesFit
<1>7. NumbersAreTheirOwn'
  BY <1>1, <1>6 DEF NumbersAreTheirOwn
<1>8. CASE AppendsReference(op)
  <2>1. op.kind = "append_ref" /\ op.attempt \in AttemptIds
    BY <1>8 DEF AppendsReference, OperationType
  <2>2. attemptRows[op.attempt] # NoRow /\ op.attempt \notin ToSet(refRows)
    BY <2>1 DEF Accepted, ReferenceAccepted
  <2>3. /\ refRows' = Append(refRows, op.attempt) /\ refRows \in Seq(AttemptIds)
        /\ UNCHANGED <<outputRows, manifestRow>>
    BY <1>6, <1>8 DEF AppendsReference, TablesTypeOK
  <2>4. /\ refRows' \in Seq(AttemptIds) /\ Len(refRows') = Len(refRows) + 1
        /\ Len(refRows) \in Nat
        /\ DOMAIN refRows = 1 .. Len(refRows) /\ DOMAIN refRows' = 1 .. Len(refRows')
        /\ \A i \in 1 .. Len(refRows) : refRows'[i] = refRows[i]
        /\ refRows'[Len(refRows) + 1] = op.attempt
    BY <2>1, <2>3
  <2>5. ToSet(refRows)' = ToSet(refRows) \cup {op.attempt}
    <3>1. ToSet(refRows)' = {refRows'[i] : i \in 1 .. Len(refRows) + 1}
      BY <2>4 DEF ToSet
    <3>2. ToSet(refRows) = {refRows[i] : i \in 1 .. Len(refRows)}
      BY <2>4 DEF ToSet
    <3>3. 1 .. Len(refRows) + 1 = (1 .. Len(refRows)) \cup {Len(refRows) + 1}
      BY <2>4
    <3> QED
      BY <2>4, <3>1, <3>2, <3>3
  <2>6. \A i \in 1 .. Len(refRows) : refRows[i] # op.attempt
    BY <2>2, <2>4 DEF ToSet
  <2>7. IsInjective(refRows)'
    <3>1. \A i, j \in 1 .. Len(refRows) : refRows[i] = refRows[j] => i = j
      BY <1>6, <2>4 DEF NumbersHaveNoGaps, IsInjective
    <3>2. \A i \in 1 .. Len(refRows') : i \in 1 .. Len(refRows) \/ i = Len(refRows) + 1
      BY <2>4
    <3> QED
      BY <2>4, <2>6, <3>1, <3>2 DEF IsInjective
  <2>8. NumbersHaveNoGaps'
    BY <1>3, <1>6, <2>7 DEF NumbersHaveNoGaps
  <2>9. TablesTypeOK'
    BY <1>1, <1>6, <2>3, <2>4 DEF TablesTypeOK
  <2>10. RowsFit'
    <3>1. \A i \in DOMAIN refRows' : attemptRows'[refRows'[i]] # NoRow
      BY <1>1, <1>6, <2>2, <2>4 DEF RowsFit
    <3> QED
      BY <1>1, <1>6, <3>1 DEF RowsFit
  <2>11. Footprint(op)
    BY <1>2, <1>3, <2>1, <2>3, <2>5 DEF Footprint
  <2> QED
    BY <1>4, <1>5, <1>7, <2>8, <2>9, <2>10, <2>11 DEF TablesFit
<1>9. CASE StoresOutput(op)
  <2>1. op.kind = "set_output" /\ op.task \in Tasks /\ op.content \in Contents
    BY <1>9 DEF StoresOutput, OperationType
  <2>2. /\ outputRows' = [outputRows EXCEPT ![op.task] = op.content]
        /\ outputRows \in [Tasks -> Contents \cup {Absent}]
        /\ UNCHANGED <<refRows, manifestRow>>
    BY <1>6, <1>9 DEF StoresOutput, TablesTypeOK
  <2>3. /\ outputRows' \in [Tasks -> Contents \cup {Absent}]
        /\ \A t \in Tasks : t # op.task => outputRows'[t] = outputRows[t]
    BY <2>1, <2>2
  <2>4. <<"output", op.task>> \in Locks(op)
    BY <2>1 DEF Locks
  <2>5. ToSet(refRows)' = ToSet(refRows)
    BY <2>2 DEF ToSet
  <2>6. TablesTypeOK' /\ RowsFit'
    BY <1>1, <1>6, <2>2, <2>3 DEF TablesTypeOK, RowsFit
  <2>7. NumbersHaveNoGaps'
    BY <1>3, <1>6, <2>2 DEF NumbersHaveNoGaps, IsInjective
  <2>8. Footprint(op)
    BY <1>2, <1>3, <2>1, <2>2, <2>3, <2>4, <2>5 DEF Footprint
  <2> QED
    BY <1>4, <1>5, <1>7, <2>6, <2>7, <2>8 DEF TablesFit
<1>10. CASE StoresManifest(op)
  <2>1. /\ op.kind = "set_manifest" /\ UNCHANGED <<refRows, outputRows>>
    BY <1>10 DEF StoresManifest
  <2>2. ToSet(refRows)' = ToSet(refRows)
    BY <2>1 DEF ToSet
  <2>3. TablesTypeOK' /\ RowsFit'
    BY <1>1, <1>6, <2>1 DEF TablesTypeOK, RowsFit
  <2>4. NumbersHaveNoGaps'
    BY <1>3, <1>6, <2>1 DEF NumbersHaveNoGaps, IsInjective
  <2>5. Footprint(op)
    BY <1>2, <1>3, <2>1, <2>2 DEF Footprint
  <2> QED
    BY <1>4, <1>5, <1>7, <2>3, <2>4, <2>5 DEF TablesFit
<1> QED
  BY <1>8, <1>9, <1>10

\* An accepted operation, once it is done, leaves tables that fit.
LEMMA EffectKeeps ==
    ASSUME TablesFit, NEW op, OperationType(op), Accepted(op), EffectOf(op)
    PROVE  TablesFit' /\ Grown /\ Footprint(op)
<1>1. TablesTypeOK /\ RowsFit
  BY DEF TablesFit
<1>2. ASSUME op.kind \in {"create", "update"}, NEW s,
             \A a \in AttemptIds : op.entity = AttemptEntity(a) => attemptRows[a] # NoRow,
             op.entity \in Entities,
             op.entity # RunEntity => workflowRow # Absent,
             \/ StatusOf(op.entity) = Absent /\ s = "PENDING"
             \/ /\ StatusOf(op.entity) \in DOMAIN Transitions(op.entity)
                /\ s \in Transitions(op.entity)[StatusOf(op.entity)],
             SetStatus(op.entity, s), Logged(op.entity, StatusOf(op.entity), s),
             UNCHANGED <<refRows, outputRows, manifestRow>>
      PROVE  TablesFit' /\ Grown /\ Footprint(op)
  <2>1. /\ TablesFit' /\ Grown
        /\ \A f \in Entities : f # op.entity => StatusOf(f)' = StatusOf(f)
        /\ \A t \in Tasks : AttemptsOf(t)' = AttemptsOf(t)
    BY <1>2, StatusChangeKeeps
  <2>2. op.entity \in Locks(op)
    BY <1>2 DEF Locks
  <2>3. ToSet(refRows)' = ToSet(refRows)
    BY <1>2 DEF ToSet
  <2> QED
    BY <1>2, <2>1, <2>2, <2>3 DEF Footprint
<1>3. CASE Creates(op)
  <2>1. /\ op.kind = "create"
        /\ op.entity = RunEntity \/ \E t \in Tasks : op.entity = TaskEntity(t)
        /\ StatusOf(op.entity) = Absent
        /\ op.entity # RunEntity => workflowRow # Absent
        /\ SetStatus(op.entity, "PENDING") /\ Logged(op.entity, Absent, "PENDING")
        /\ UNCHANGED <<refRows, outputRows, manifestRow>>
    BY <1>3 DEF Creates, OperationType, Accepted, CreateAccepted
  <2>2. /\ op.entity \in Entities
        /\ \A a \in AttemptIds : op.entity # AttemptEntity(a)
    BY <2>1, EntitiesExist, EntitiesDiffer
  <2> QED
    BY <1>2, <2>1, <2>2
<1>4. CASE Moves(op)
  <2>1. /\ op.kind = "update" /\ op.entity \in Entities
        /\ op.expected \in DOMAIN Transitions(op.entity)
        /\ op.target \in Transitions(op.entity)[op.expected]
        /\ StatusOf(op.entity) = op.expected
        /\ SetStatus(op.entity, op.target) /\ Logged(op.entity, op.expected, op.target)
        /\ UNCHANGED <<refRows, outputRows, manifestRow>>
    BY <1>4 DEF Moves, OperationType, Accepted, UpdateAccepted
  <2>2. StatusOf(op.entity) # Absent
    BY <2>1, EntityKinds, TransitionsOf, Tables
  <2>3. \A a \in AttemptIds : op.entity = AttemptEntity(a) => attemptRows[a] # NoRow
    BY <2>2, StatusesOf DEF NoRow
  <2>4. op.entity # RunEntity => workflowRow # Absent
    <3>1. CASE \E t \in Tasks : op.entity = TaskEntity(t)
      BY <1>1, <2>2, <3>1, StatusesOf DEF TaskStatusOf, RowsFit
    <3>2. ASSUME NEW a \in AttemptIds, op.entity = AttemptEntity(a)
          PROVE  workflowRow # Absent
      <4>1. attemptRows[a] # NoRow /\ attemptRows[a].task \in Tasks
        BY <1>1, <2>3, <3>2, RowTypes DEF TablesTypeOK, AttemptRows
      <4> QED
        BY <1>1, <4>1 DEF RowsFit
    <3> QED
      BY <2>1, <3>1, <3>2, EntityKinds
  <2> QED
    BY <1>2, <2>1, <2>3, <2>4
<1>5. CASE AppendsAttempt(op)
  <2>1. AppendAccepted(op)
    BY <1>5 DEF AppendsAttempt, Accepted
  <2> QED
    BY <1>5, <2>1, AppendKeeps
<1>6. CASE AppendsReference(op) \/ StoresOutput(op) \/ StoresManifest(op)
  BY <1>6, AdditionKeeps
<1> QED
  BY <1>3, <1>4, <1>5, <1>6 DEF EffectOf

-----------------------------------------------------------------------------
(* Transactions: what is known of an open one, and of a written one.       *)

LEMMA EntitiesAreRows ==
    ASSUME TablesFit, NEW e \in Entities, StatusOf(e) # Absent
    PROVE  \/ e = RunEntity /\ workflowRow # Absent
           \/ \E t \in Tasks : e = TaskEntity(t) /\ taskRows[t] # NoRow
           \/ \E a \in AttemptIds : e = AttemptEntity(a) /\ attemptRows[a] # NoRow
BY EntityKinds, StatusesOf DEF TaskStatusOf, NoRow

LEMMA AcceptedStaysTrue ==
    ASSUME TablesFit, NEW op, OperationType(op), Accepted(op)
    PROVE  StaysTrue(op)
<1>1. CASE op.kind = "update"
  <2>1. /\ op.entity \in Entities /\ op.expected \in DOMAIN Transitions(op.entity)
        /\ StatusOf(op.entity) = op.expected
    BY <1>1 DEF OperationType, Accepted, UpdateAccepted
  <2>2. StatusOf(op.entity) # Absent
    BY <2>1, EntityKinds, TransitionsOf, Tables
  <2> QED
    BY <1>1, <2>2 DEF StaysTrue
<1>2. CASE op.kind = "append"
  <2>1. /\ taskRows[op.task] # NoRow
        /\ op.number = 1 + Cardinality(AttemptsOf(op.task))
    BY <1>2 DEF Accepted, AppendAccepted
  <2>2. op.number <= 1 + Cardinality(AttemptsOf(op.task))
    BY <2>1, AttemptsAreFinite
  <2> QED
    BY <1>2, <2>1, <2>2 DEF StaysTrue
<1>3. CASE op.kind = "create"
  BY <1>3 DEF Accepted, CreateAccepted, StaysTrue
<1>4. CASE op.kind \in {"append_ref", "set_output", "set_manifest"}
  BY <1>4 DEF Accepted, ReferenceAccepted, OutputAccepted, ManifestAccepted, StaysTrue
<1> QED
  BY <1>1, <1>2, <1>3, <1>4 DEF OperationType

\* No commit of another writer takes it away.
LEMMA StaysTrueKeeps ==
    ASSUME TablesFit, TablesFit', Grown, NEW op, OperationType(op), StaysTrue(op)
    PROVE  StaysTrue(op)'
<1>1. CASE op.kind = "create"
  BY <1>1 DEF StaysTrue, Grown
<1>2. CASE op.kind = "append"
  <2>1. op.task \in Tasks /\ op.number \in Nat
    BY <1>2 DEF OperationType
  <2>2. /\ taskRows[op.task] # NoRow /\ op.number <= 1 + Cardinality(AttemptsOf(op.task))
    BY <1>2 DEF StaysTrue
  <2>3. taskRows'[op.task] # NoRow /\ op.number <= 1 + Cardinality(AttemptsOf(op.task))'
    BY <2>1, <2>2 DEF Grown
  <2> QED
    BY <1>2, <2>3 DEF StaysTrue
<1>3. CASE op.kind = "update"
  <2>1. op.entity \in Entities /\ StatusOf(op.entity) # Absent
    BY <1>3 DEF OperationType, StaysTrue
  <2>2. TablesTypeOK'
    BY DEF TablesFit
  <2>3. StatusOf(op.entity)' # Absent
    <3>1. CASE op.entity = RunEntity /\ workflowRow # Absent
      BY <3>1, EntitiesDiffer DEF StatusOf, Grown
    <3>2. ASSUME NEW t \in Tasks, op.entity = TaskEntity(t), taskRows[t] # NoRow
          PROVE  StatusOf(op.entity)' # Absent
      <4>1. StatusOf(op.entity)' = TaskStatusOf(taskRows'[t])
        BY <3>2, EntitiesDiffer DEF StatusOf, TaskStatusOf
      <4>2. taskRows'[t] # NoRow /\ taskRows'[t] \in TaskRows \cup {NoRow}
        BY <2>2, <3>2 DEF Grown, TablesTypeOK
      <4> QED
        BY <4>1, <4>2, RowTypes
    <3>3. ASSUME NEW a \in AttemptIds, op.entity = AttemptEntity(a), attemptRows[a] # NoRow
          PROVE  StatusOf(op.entity)' # Absent
      <4>1. StatusOf(op.entity)' = attemptRows'[a].status
        BY <3>3, EntitiesDiffer DEF StatusOf
      <4>2. attemptRows'[a] # NoRow /\ attemptRows'[a] \in AttemptRows \cup {NoRow}
        BY <2>2, <3>3 DEF Grown, TablesTypeOK
      <4> QED
        BY <4>1, <4>2, RowTypes
    <3> QED
      BY <2>1, <3>1, <3>2, <3>3, EntitiesAreRows
  <2> QED
    BY <1>3, <2>3 DEF StaysTrue
<1>4. CASE op.kind = "append_ref"
  BY <1>4 DEF OperationType, StaysTrue, Grown
<1>5. CASE op.kind = "set_output"
  BY <1>5 DEF OperationType, StaysTrue, Grown
<1>6. CASE op.kind = "set_manifest"
  BY <1>6 DEF StaysTrue, Grown
<1> QED
  BY <1>1, <1>2, <1>3, <1>4, <1>5, <1>6 DEF OperationType

\* Two accepted operations that lock different things do not get in each
\* other's way.
LEMMA AcceptedKeeps ==
    ASSUME TablesFit, TablesFit', NEW op, OperationType(op), Accepted(op),
           NEW other, OperationType(other), Accepted(other),
           Locks(op) \cap Locks(other) = {}, Grown, Footprint(op)
    PROVE  Accepted(other)'
<1>1. CASE other.kind = "create"
  <2>1. other.entity \in Entities /\ other.entity \in Locks(other)
    BY <1>1, EntitiesExist DEF OperationType, Locks
  <2>2. StatusOf(other.entity)' = StatusOf(other.entity)
    BY <2>1 DEF Footprint
  <2> QED
    BY <1>1, <2>2 DEF Accepted, CreateAccepted, Grown
<1>2. CASE other.kind = "append"
  <2>1. /\ other.task \in Tasks /\ other.entity \in Locks(other)
        /\ <<"number", other.task, other.number>> \in Locks(other)
    BY <1>2 DEF OperationType, Locks
  <2>2. PICK a \in AttemptIds : other.entity = AttemptEntity(a)
    BY <1>2 DEF OperationType
  <2>3. /\ attemptRows[a] = NoRow /\ taskRows[other.task] # NoRow
        /\ other.number = 1 + Cardinality(AttemptsOf(other.task))
    BY <1>2, <2>2, EntitiesDiffer DEF Accepted, AppendAccepted
  <2>4. AttemptsOf(other.task)' = AttemptsOf(other.task)
    <3> SUFFICES ASSUME op.kind = "append", op.task = other.task
                 PROVE  FALSE
      BY <2>1 DEF Footprint
    <3>1. op.number = other.number
      BY <2>3 DEF Accepted, AppendAccepted
    <3> QED
      BY <2>1, <3>1 DEF Locks
  <2>5. StatusOf(AttemptEntity(a))' = attemptRows'[a].status
    BY EntitiesDiffer DEF StatusOf
  <2>6. StatusOf(AttemptEntity(a))' = StatusOf(AttemptEntity(a))
    BY <2>1, <2>2, EntitiesExist DEF Footprint
  <2>7. StatusOf(AttemptEntity(a)) = Absent
    BY <2>3, StatusesOf DEF NoRow
  <2>8. attemptRows'[a] = NoRow
    <3>1. attemptRows'[a] \in AttemptRows \cup {NoRow}
      BY DEF TablesFit, TablesTypeOK
    <3> QED
      BY <2>5, <2>6, <2>7, <3>1, RowTypes
  <2>9. taskRows'[other.task] # NoRow
    BY <2>1, <2>3 DEF Grown
  <2>10. AppendAccepted(other)'
    BY <2>2, <2>3, <2>4, <2>8, <2>9, EntitiesDiffer DEF AppendAccepted
  <2> QED
    BY <1>2, <2>10 DEF Accepted
<1>3. CASE other.kind = "update"
  <2>1. other.entity \in Entities /\ other.entity \in Locks(other)
    BY <1>3 DEF OperationType, Locks
  <2>2. StatusOf(other.entity)' = StatusOf(other.entity)
    BY <2>1 DEF Footprint
  <2> QED
    BY <1>3, <2>2 DEF Accepted, UpdateAccepted
<1>4. CASE other.kind = "append_ref"
  <2>1. op.kind = "append_ref" => op.attempt # other.attempt
    BY <1>4 DEF Locks
  <2> QED
    BY <1>4, <2>1 DEF Accepted, ReferenceAccepted, OperationType, Grown, Footprint
<1>5. CASE other.kind = "set_output"
  <2>1. other.task \in Tasks /\ <<"output", other.task>> \in Locks(other)
    BY <1>5 DEF OperationType, Locks
  <2> QED
    BY <1>5, <2>1 DEF Accepted, OutputAccepted, Grown, Footprint
<1>6. CASE other.kind = "set_manifest"
  <2>1. op.kind # "set_manifest"
    BY <1>6 DEF Locks
  <2> QED
    BY <1>6, <2>1 DEF Accepted, ManifestAccepted, Grown, Footprint
<1> QED
  BY <1>1, <1>2, <1>3, <1>4, <1>5, <1>6 DEF OperationType

\* What a statement finds in the committed rows, with its constraints, is what
\* the operation had found before: the WHERE clause, the unique keys.
LEMMA WriteChecks ==
    ASSUME TablesFit, NEW op, OperationType(op), StaysTrue(op), StatementSucceeds(op)
    PROVE  Accepted(op)
<1>1. TablesTypeOK /\ RowsFit /\ NumbersHaveNoGaps
  BY DEF TablesFit
<1>2. CASE op.kind = "create"
  BY <1>2 DEF StaysTrue, StatementSucceeds, Accepted, CreateAccepted
<1>3. CASE op.kind = "append"
  <2>1. /\ op.task \in Tasks /\ op.number \in Nat \ {0}
        /\ taskRows[op.task] # NoRow
        /\ op.number <= 1 + Cardinality(AttemptsOf(op.task))
        /\ op.number \notin Numbers(op.task) /\ attemptRows[op.entity[2]] = NoRow
    BY <1>3 DEF OperationType, StaysTrue, StatementSucceeds, NumberIsFree, IdentifierIsFree
  <2>2. Numbers(op.task) = 1 .. Cardinality(AttemptsOf(op.task))
    BY <1>1, <2>1 DEF NumbersHaveNoGaps
  <2>3. Cardinality(AttemptsOf(op.task)) \in Nat
    BY AttemptsAreFinite
  <2>4. op.number = 1 + Cardinality(AttemptsOf(op.task))
    BY <2>1, <2>2, <2>3
  <2> QED
    BY <1>3, <2>1, <2>4 DEF Accepted, AppendAccepted
<1>4. CASE op.kind = "update"
  <2>1. /\ op.entity \in Entities /\ op.expected \in DOMAIN Transitions(op.entity)
        /\ op.target \in Transitions(op.entity)[op.expected]
        /\ StatusOf(op.entity) # Absent /\ RowMatches(op)
    BY <1>4 DEF OperationType, StaysTrue, StatementSucceeds
  <2>2. ASSUME NEW t \in Tasks, op.entity = TaskEntity(t)
        PROVE  StatusOf(op.entity) = op.expected
    <3>1. /\ op.expected \in TaskRunStatus /\ op.expected \notin {"SUCCEEDED", "REUSED"}
      BY <2>1, <2>2, TransitionsOf, Tables
    <3>2. taskRows[t].status = op.expected
      BY <2>1, <2>2, <3>1, EntitiesDiffer DEF RowMatches, TaskRow
    <3>3. taskRows[t] # NoRow
      BY <2>1, <2>2, StatusesOf DEF TaskStatusOf
    <3> QED
      BY <1>1, <2>2, <3>1, <3>2, <3>3, StatusesOf DEF TaskStatusOf, RowsFit
  <2>3. ASSUME \A t \in Tasks : op.entity # TaskEntity(t)
        PROVE  StatusOf(op.entity) = op.expected
    <3>1. op.entity[1] # "task_run"
      BY <2>1, <2>3, EntityKinds, EntitiesDiffer
    <3> QED
      BY <2>1, <3>1 DEF RowMatches
  <2>4. StatusOf(op.entity) = op.expected
    <3>1. CASE \E t \in Tasks : op.entity = TaskEntity(t)
      BY <2>2, <3>1
    <3>2. CASE \A t \in Tasks : op.entity # TaskEntity(t)
      BY <2>3, <3>2
    <3> QED
      BY <3>1, <3>2
  <2> QED
    BY <1>4, <2>4 DEF Accepted, UpdateAccepted
<1>5. CASE op.kind \in {"append_ref", "set_output", "set_manifest"}
  BY <1>5 DEF StaysTrue, StatementSucceeds, Accepted, ReferenceAccepted, OutputAccepted,
              ManifestAccepted
<1> QED
  BY <1>2, <1>3, <1>4, <1>5 DEF OperationType

LEMMA OperationsAreConstant == Operations' = Operations
BY DEF Operations, Creations, Appends, Updates, References, Outputs, Manifests, Transitions

LEMMA InitRelationalInv ==
    ASSUME InitRelational
    PROVE  RelationalInv
<1> USE DEF InitRelational
<1>1. \A e \in Entities : StatusOf(e) = Absent
  <2> TAKE e \in Entities
  <2>1. CASE e = RunEntity
    BY <2>1, StatusesOf
  <2>2. CASE \E t \in Tasks : e = TaskEntity(t)
    BY <2>2, StatusesOf DEF TaskStatusOf
  <2>3. CASE \E a \in AttemptIds : e = AttemptEntity(a)
    BY <2>3, StatusesOf DEF NoRow
  <2> QED
    BY <2>1, <2>2, <2>3, EntityKinds
<1>2. \A e \in Entities : LogIsWalk(e)
  BY <1>1 DEF LogIsWalk
<1>3. TablesTypeOK
  BY DEF TablesTypeOK
<1>4. RowsFit /\ NumbersAreTheirOwn
  BY DEF RowsFit, NumbersAreTheirOwn
<1>5. NumbersHaveNoGaps
  <2>1. \A t \in Tasks : AttemptsOf(t) = {} /\ Numbers(t) = {}
    BY DEF AttemptsOf, Numbers
  <2>2. Cardinality({}) = 0 /\ 1 .. 0 = {}
    BY FS_EmptySet
  <2>3. IsInjective(refRows)
    BY DEF IsInjective
  <2> QED
    BY <2>1, <2>2, <2>3 DEF NumbersHaveNoGaps
<1>6. TransactionType
  BY DialectsType DEF TransactionType
<1>7. TransactionsHold
  BY DEF TransactionsHold
<1> QED
  BY <1>2, <1>3, <1>4, <1>5, <1>6, <1>7 DEF RelationalInv, TablesFit

\* What changes no table keeps the tables.
LEMMA TablesFitUnchanged ==
    ASSUME TablesFit, UNCHANGED tables
    PROVE  /\ TablesFit'
           /\ \A op : StaysTrue(op)' <=> StaysTrue(op)
           /\ \A op : OperationType(op) => (Accepted(op)' <=> Accepted(op))
<1>1. UNCHANGED <<workflowRow, taskRows, attemptRows, refRows, outputRows, manifestRow,
                  transitions>>
  BY DEF tables
<1>2. \A f : StatusOf(f)' = StatusOf(f)
  BY <1>1 DEF StatusOf, TaskStatusOf
<1>3. \A t : AttemptsOf(t)' = AttemptsOf(t) /\ Numbers(t)' = Numbers(t)
  BY <1>1 DEF AttemptsOf, Numbers
<1>4. \A f \in Entities : LogIsWalk(f)'
  <2> TAKE f \in Entities
  <2>1. LogIsWalk(f) /\ Transitions(f)' = Transitions(f)
    BY DEF TablesFit, Transitions
  <2> QED
    BY <1>1, <1>2, <2>1 DEF LogIsWalk
<1>5. TablesFit'
  BY <1>1, <1>3, <1>4
     DEF TablesFit, TablesTypeOK, RowsFit, NumbersAreTheirOwn, NumbersHaveNoGaps, IsInjective
<1>6. ToSet(refRows)' = ToSet(refRows)
  BY <1>1 DEF ToSet
<1>7. \A op : StaysTrue(op)' <=> StaysTrue(op)
  BY <1>1, <1>2, <1>3 DEF StaysTrue
<1>8. \A op : OperationType(op) => (Accepted(op)' <=> Accepted(op))
  <2> TAKE op
  <2> HAVE OperationType(op)
  <2>1. CASE op.kind = "create"
    BY <1>1, <1>2, <2>1 DEF Accepted, CreateAccepted
  <2>2. CASE op.kind = "append"
    BY <1>1, <1>3, <2>2 DEF Accepted, AppendAccepted
  <2>3. CASE op.kind = "update"
    BY <1>2, <2>3 DEF Accepted, UpdateAccepted
  <2>4. CASE op.kind = "append_ref"
    BY <1>1, <1>6, <2>4 DEF Accepted, ReferenceAccepted
  <2>5. CASE op.kind = "set_output"
    BY <1>1, <2>5 DEF Accepted, OutputAccepted
  <2>6. CASE op.kind = "set_manifest"
    BY <1>1, <2>6 DEF Accepted, ManifestAccepted
  <2> QED
    BY <2>1, <2>2, <2>3, <2>4, <2>5, <2>6 DEF OperationType
<1> QED
  BY <1>5, <1>7, <1>8

LEMMA TransactionShapes ==
    ASSUME TransactionType, NEW w \in Writers
    PROVE  /\ transaction[w].at \in {"idle", "open", "written"}
           /\ transaction[w].at # "idle" =>
                \E op \in Operations : /\ transaction[w] = [at |-> transaction[w].at, op |-> op]
                                       /\ transaction[w].op = op
<1>1. CASE transaction[w] \in [at: {"idle"}]
  BY <1>1
<1>2. CASE transaction[w] \in [at: {"open", "written"}, op: Operations]
  <2> DEFINE op == transaction[w].op
  <2>1. /\ op \in Operations /\ transaction[w] = [at |-> transaction[w].at, op |-> op]
        /\ transaction[w].at \in {"open", "written"}
    BY <1>2
  <2> QED
    BY <2>1
<1> QED
  BY <1>1, <1>2 DEF TransactionType

\* What a writer's transaction may become without a commit.
TransactionStep(w) ==
    \/ Ends(w)
    \/ \E op \in Operations :
          /\ dialect # "memory" /\ Accepted(op)
          /\ transaction' = [transaction EXCEPT ![w] = [at |-> "open", op |-> op]]
    \/ \E op \in Operations :
          /\ transaction[w] = [at |-> "open", op |-> op]
          /\ ~ Locked(w) /\ StatementSucceeds(op)
          /\ transaction' = [transaction EXCEPT ![w] = [at |-> "written", op |-> op]]

\* One writer's transaction changes, and no table: what opens or is written has
\* been checked, and only the locks that are free are taken (Open, Write,
\* LockTimesOut and Crash).
LEMMA TransactionStepKeeps ==
    ASSUME RelationalInv, NEW w \in Writers, UNCHANGED <<dialect, tables, commits>>,
           TransactionStep(w)
    PROVE  RelationalInv'
<1>1. TablesFit /\ TransactionType /\ TransactionsHold
  BY DEF RelationalInv
<1>2. /\ TablesFit'
      /\ \A op : StaysTrue(op)' <=> StaysTrue(op)
      /\ \A op : OperationType(op) => (Accepted(op)' <=> Accepted(op))
  BY <1>1, TablesFitUnchanged
<1>3. \A op \in Operations : OperationType(op)
  BY OperationTypes
<1>4. ASSUME NEW new \in [at: {"idle"}] \cup [at: {"open", "written"}, op: Operations],
             transaction' = [transaction EXCEPT ![w] = new],
             \A op \in Operations :
                /\ new = [at |-> "open", op |-> op] => StaysTrue(op)
                /\ new = [at |-> "written", op |-> op] => Accepted(op) /\ ~ Locked(w)
                                          /\ transaction[w] = [at |-> "open", op |-> op],
             new.at # "idle" => dialect # "memory"
      PROVE  RelationalInv'
  <2>1. /\ transaction'[w] = new
        /\ \A v \in Writers : v # w => transaction'[v] = transaction[v]
        /\ transaction' \in [Writers -> [at: {"idle"}] \cup [at: {"open", "written"}, op: Operations]]
    BY <1>1, <1>4 DEF TransactionType
  <2>2. TransactionType'
    BY <1>1, <2>1, OperationsAreConstant DEF TransactionType
  <2>3. ASSUME NEW v \in Writers, NEW op \in Operations
        PROVE  /\ transaction'[v] = [at |-> "open", op |-> op] => StaysTrue(op)'
               /\ transaction'[v] = [at |-> "written", op |-> op] => Accepted(op)'
    BY <1>1, <1>2, <1>3, <1>4, <2>1 DEF TransactionsHold
  <2>4. ASSUME NEW v \in Writers, transaction'[v].at # "idle"
        PROVE  dialect' # "memory"
    BY <1>1, <1>4, <2>1, <2>4 DEF TransactionsHold
  <2>5. ASSUME NEW op \in Operations, new = [at |-> "written", op |-> op],
               NEW v \in Writers, v # w,
               NEW p \in Operations, transaction[v] = [at |-> "written", op |-> p]
        PROVE  dialect # "sqlite" /\ Locks(p) \cap Locks(op) = {}
    <3>1. transaction[v].at = "written" /\ transaction[v].op = p
      BY <2>5
    <3>2. ~ Locked(w) /\ transaction[w] = [at |-> "open", op |-> op]
      BY <1>4, <2>5
    <3>3. transaction[w].op = op
      BY <3>2
    <3> QED
      BY <3>1, <3>2, <3>3 DEF Locked, Written
  <2>6. ASSUME NEW u \in Writers, NEW v \in Writers, u # v,
               NEW p \in Operations, NEW q \in Operations,
               transaction'[u] = [at |-> "written", op |-> p],
               transaction'[v] = [at |-> "written", op |-> q]
        PROVE  dialect' # "sqlite" /\ Locks(p) \cap Locks(q) = {}
    <3>1. CASE u = w
      BY <2>1, <2>5, <2>6, <3>1
    <3>2. CASE v = w
      BY <2>1, <2>5, <2>6, <3>2
    <3>3. CASE u # w /\ v # w
      BY <1>1, <2>1, <2>6, <3>3 DEF TransactionsHold
    <3> QED
      BY <3>1, <3>2, <3>3
  <2>7. \A op : Locks(op)' = Locks(op)
    BY DEF Locks
  <2>8. TransactionsHold'
    BY <2>3, <2>4, <2>6, <2>7, OperationsAreConstant DEF TransactionsHold
  <2> QED
    BY <1>2, <2>2, <2>8 DEF RelationalInv
<1>5. CASE Ends(w)
  <2> DEFINE new == [at |-> "idle"]
  <2>1. /\ new \in [at: {"idle"}] \cup [at: {"open", "written"}, op: Operations]
        /\ new.at = "idle" /\ transaction' = [transaction EXCEPT ![w] = new]
    BY <1>5 DEF Ends
  <2>2. \A op \in Operations : /\ new # [at |-> "open", op |-> op]
                               /\ new # [at |-> "written", op |-> op]
    OBVIOUS
  <2> HIDE DEF new
  <2> QED
    BY <1>4, <2>1, <2>2
<1>6. ASSUME NEW op \in Operations, dialect # "memory", Accepted(op),
             transaction' = [transaction EXCEPT ![w] = [at |-> "open", op |-> op]]
      PROVE  RelationalInv'
  <2> DEFINE new == [at |-> "open", op |-> op]
  <2>1. /\ new \in [at: {"idle"}] \cup [at: {"open", "written"}, op: Operations]
        /\ transaction' = [transaction EXCEPT ![w] = new]
    BY <1>6
  <2>2. \A o \in Operations : /\ new = [at |-> "open", op |-> o] => o = op
                              /\ new # [at |-> "written", op |-> o]
    OBVIOUS
  <2>3. StaysTrue(op)
    BY <1>1, <1>3, <1>6, AcceptedStaysTrue
  <2> HIDE DEF new
  <2> QED
    BY <1>4, <1>6, <2>1, <2>2, <2>3
<1>7. ASSUME NEW op \in Operations, transaction[w] = [at |-> "open", op |-> op],
             ~ Locked(w), StatementSucceeds(op),
             transaction' = [transaction EXCEPT ![w] = [at |-> "written", op |-> op]]
      PROVE  RelationalInv'
  <2> DEFINE new == [at |-> "written", op |-> op]
  <2>1. /\ new \in [at: {"idle"}] \cup [at: {"open", "written"}, op: Operations]
        /\ transaction' = [transaction EXCEPT ![w] = new]
    BY <1>7
  <2>2. \A o \in Operations : /\ new = [at |-> "written", op |-> o] => o = op
                              /\ new # [at |-> "open", op |-> o]
    OBVIOUS
  <2>3. StaysTrue(op) /\ dialect # "memory"
    <3>1. transaction[w].at = "open"
      BY <1>7
    <3>2. StaysTrue(op)
      BY <1>1, <1>7 DEF TransactionsHold
    <3> QED
      BY <1>1, <3>1, <3>2 DEF TransactionsHold
  <2>4. Accepted(op)
    BY <1>1, <1>3, <1>7, <2>3, WriteChecks
  <2> HIDE DEF new
  <2> QED
    BY <1>4, <1>7, <2>1, <2>2, <2>3, <2>4
<1> QED
  BY <1>5, <1>6, <1>7 DEF TransactionStep

\* A commit: what the others have checked is still so, because they hold other
\* locks or none.
LEMMA CommitKeeps ==
    ASSUME RelationalInv, NEW w \in Writers, Commit(w)
    PROVE  RelationalInv' /\ \E op \in Operations : Accepted(op) /\ EffectOf(op)
<1>1. TablesFit /\ TransactionType /\ TransactionsHold
  BY DEF RelationalInv
<1>2. PICK op \in Operations : transaction[w] = [at |-> "written", op |-> op]
  <2>1. transaction[w].at = "written"
    BY DEF Commit
  <2> QED
    BY <1>1, <2>1, TransactionShapes
<1>3. OperationType(op) /\ Accepted(op) /\ EffectOf(op)
  <2>1. transaction[w].op = op
    BY <1>2
  <2> QED
    BY <1>1, <1>2, <2>1, OperationTypes DEF TransactionsHold, Commit
<1>4. TablesFit' /\ Grown /\ Footprint(op)
  BY <1>1, <1>3, EffectKeeps
<1>5. /\ transaction' = [transaction EXCEPT ![w] = [at |-> "idle"]]
      /\ commits' = commits + 1 /\ dialect' = dialect
  BY DEF Commit, Ends
<1>6. /\ transaction'[w] = [at |-> "idle"]
      /\ \A v \in Writers : v # w => transaction'[v] = transaction[v]
      /\ transaction' \in [Writers -> [at: {"idle"}] \cup [at: {"open", "written"}, op: Operations]]
  BY <1>1, <1>5 DEF TransactionType
<1>7. TransactionType'
  BY <1>1, <1>5, <1>6, OperationsAreConstant DEF TransactionType
<1>8. \A o : transaction'[w] # [at |-> "open", op |-> o]
             /\ transaction'[w] # [at |-> "written", op |-> o]
  <2>1. transaction'[w].at = "idle"
    BY <1>6
  <2> QED
    BY <2>1
<1>9. ASSUME NEW v \in Writers, NEW o \in Operations
      PROVE  /\ transaction'[v] = [at |-> "open", op |-> o] => StaysTrue(o)'
             /\ transaction'[v] = [at |-> "written", op |-> o] => Accepted(o)'
  <2>1. OperationType(o)
    BY OperationTypes
  <2>2. ASSUME transaction'[v] = [at |-> "open", op |-> o]
        PROVE  StaysTrue(o)'
    <3>1. StaysTrue(o)
      BY <1>1, <1>6, <1>8, <2>2 DEF TransactionsHold
    <3> QED
      BY <1>1, <1>4, <2>1, <3>1, StaysTrueKeeps
  <2>3. ASSUME transaction'[v] = [at |-> "written", op |-> o]
        PROVE  Accepted(o)'
    <3>1. v # w /\ transaction[v] = [at |-> "written", op |-> o]
      BY <1>6, <1>8, <2>3
    <3>2. Accepted(o) /\ Locks(op) \cap Locks(o) = {}
      BY <1>1, <1>2, <3>1 DEF TransactionsHold
    <3> QED
      BY <1>1, <1>3, <1>4, <2>1, <3>2, AcceptedKeeps
  <2> QED
    BY <2>2, <2>3
<1>10. \A v \in Writers : transaction'[v].at # "idle" => dialect' # "memory"
  BY <1>1, <1>5, <1>6 DEF TransactionsHold
<1>11. ASSUME NEW u \in Writers, NEW v \in Writers, u # v,
              NEW p \in Operations, NEW q \in Operations,
              transaction'[u] = [at |-> "written", op |-> p],
              transaction'[v] = [at |-> "written", op |-> q]
       PROVE  dialect' # "sqlite" /\ Locks(p) \cap Locks(q) = {}
  BY <1>1, <1>5, <1>6, <1>8, <1>11 DEF TransactionsHold
<1>12. \A o : Locks(o)' = Locks(o)
  BY DEF Locks
<1>13. TransactionsHold'
  BY <1>9, <1>10, <1>11, <1>12, OperationsAreConstant DEF TransactionsHold
<1> QED
  BY <1>3, <1>4, <1>7, <1>13 DEF RelationalInv

LEMMA MemoryOperationKeeps ==
    ASSUME RelationalInv, MemoryOperation
    PROVE  RelationalInv' /\ \E op \in Operations : Accepted(op) /\ EffectOf(op)
<1>1. TablesFit /\ TransactionType /\ TransactionsHold
  BY DEF RelationalInv
<1>2. PICK op \in Operations : Accepted(op) /\ EffectOf(op)
  BY DEF MemoryOperation
<1>3. TablesFit'
  BY <1>1, <1>2, OperationTypes, EffectKeeps
<1>4. dialect = "memory" /\ dialect' = dialect /\ transaction' = transaction /\ commits' = commits + 1
  BY DEF MemoryOperation
<1>5. TransactionType'
  BY <1>1, <1>4, OperationsAreConstant DEF TransactionType
<1>6. \A w \in Writers : transaction[w].at = "idle"
  BY <1>1, <1>4 DEF TransactionsHold
<1>7. \A w \in Writers : \A o : /\ transaction'[w] # [at |-> "open", op |-> o]
                                /\ transaction'[w] # [at |-> "written", op |-> o]
  BY <1>4, <1>6
<1>8. TransactionsHold'
  BY <1>4, <1>6, <1>7 DEF TransactionsHold
<1> QED
  BY <1>2, <1>3, <1>5, <1>8 DEF RelationalInv

\* Every step is one operation, accepted by the tables it changes, or changes
\* no table.
LEMMA RelationalStep ==
    ASSUME RelationalInv, [RelationalNext]_storeVars
    PROVE  /\ RelationalInv'
           /\ UNCHANGED tables \/ \E op \in Operations : Accepted(op) /\ EffectOf(op)
<1>1. TablesFit /\ TransactionType /\ TransactionsHold
  BY DEF RelationalInv
<1>2. CASE MemoryOperation
  BY <1>2, MemoryOperationKeeps
<1>3. ASSUME NEW w \in Writers, Open(w)
      PROVE  RelationalInv' /\ UNCHANGED tables
  <2>1. UNCHANGED <<dialect, tables, commits>> /\ TransactionStep(w)
    BY <1>3 DEF Open, TransactionStep
  <2> QED
    BY <2>1, TransactionStepKeeps
<1>4. ASSUME NEW w \in Writers, Write(w)
      PROVE  RelationalInv' /\ UNCHANGED tables
  <2>1. PICK op \in Operations : transaction[w] = [at |-> "open", op |-> op]
    <3>1. transaction[w].at = "open"
      BY <1>4 DEF Write
    <3> QED
      BY <1>1, <3>1, TransactionShapes
  <2>2. /\ transaction[w].op = op
        /\ [transaction[w] EXCEPT !.at = "written"] = [at |-> "written", op |-> op]
    BY <2>1
  <2>3. UNCHANGED <<dialect, tables, commits>> /\ TransactionStep(w)
    BY <1>4, <2>1, <2>2 DEF Write, RollBack, TransactionStep
  <2> QED
    BY <2>3, TransactionStepKeeps
<1>5. ASSUME NEW w \in Writers, LockTimesOut(w) \/ Crash(w)
      PROVE  RelationalInv' /\ UNCHANGED tables
  <2>1. UNCHANGED <<dialect, tables, commits>> /\ TransactionStep(w)
    BY <1>5 DEF LockTimesOut, Crash, RollBack, TransactionStep
  <2> QED
    BY <2>1, TransactionStepKeeps
<1>6. ASSUME NEW w \in Writers, Commit(w)
      PROVE  RelationalInv' /\ \E op \in Operations : Accepted(op) /\ EffectOf(op)
  BY <1>6, CommitKeeps
<1>7. CASE UNCHANGED storeVars
  <2>1. UNCHANGED <<dialect, transaction, commits>> /\ UNCHANGED tables
    BY <1>7 DEF storeVars
  <2>2. /\ TablesFit'
        /\ \A op : StaysTrue(op)' <=> StaysTrue(op)
        /\ \A op : OperationType(op) => (Accepted(op)' <=> Accepted(op))
    BY <1>1, <2>1, TablesFitUnchanged
  <2>3. TransactionType' /\ \A op : Locks(op)' = Locks(op)
    BY <1>1, <2>1, OperationsAreConstant DEF TransactionType, Locks
  <2>4. \A op \in Operations : OperationType(op)
    BY OperationTypes
  <2>5. TransactionsHold'
    BY <1>1, <2>1, <2>2, <2>3, <2>4, OperationsAreConstant DEF TransactionsHold
  <2> QED
    BY <2>1, <2>2, <2>3, <2>5 DEF RelationalInv
<1> QED
  BY <1>2, <1>3, <1>4, <1>5, <1>6, <1>7 DEF RelationalNext

-----------------------------------------------------------------------------
(* One history: the rows, the transitions and the events.                  *)

LEMMA LogMatches ==
    ASSUME TablesFit
    PROVE  LogMatchesRecords
<1> SUFFICES ASSUME NEW e \in Entities
             PROVE  /\ transitions[e] = << >> <=> StatusOf(e) = Absent
                    /\ transitions[e] # << >> => /\ transitions[e][1].from = Absent
                                                 /\ Last(transitions[e]).to = StatusOf(e)
                    /\ \A i \in 1 .. (Len(transitions[e]) - 1) :
                          transitions[e][i].to = transitions[e][i + 1].from
  BY DEF LogMatchesRecords
<1>1. LogIsWalk(e) /\ transitions[e] \in Seq(Changes)
  BY DEF TablesFit, TablesTypeOK
<1>2. ASSUME NEW i \in 1 .. (Len(transitions[e]) - 1)
      PROVE  transitions[e][i].to = transitions[e][i + 1].from
  <2>1. i + 1 \in 2 .. Len(transitions[e]) /\ (i + 1) - 1 = i
    BY <1>1
  <2> QED
    BY <1>1, <2>1 DEF LogIsWalk
<1>3. transitions[e] # << >> => transitions[e][1].from = Absent
  BY <1>1 DEF LogIsWalk
<1> QED
  BY <1>1, <1>2, <1>3 DEF LogIsWalk, Last

\* A run and its tasks say by an event what they become, and no status is
\* called like an event that stands for another (to_runtime_event).
LEMMA EventIsTold ==
    ASSUME NEW e, e = RunEntity \/ \E t \in Tasks : e = TaskEntity(t),
           NEW from \in DOMAIN Transitions(e), NEW to \in Transitions(e)[from], NEW n
    PROVE  Tells(e, from, EventOf(e, n, from, to)) = to
<1>1. /\ e[1] \in {"workflow_run", "task_run"}
      /\ to \in WorkflowRunStatus \cup TaskRunStatus /\ from # Absent
      /\ to = "REUSED" => e[1] = "task_run" /\ from = "PENDING"
  <2>1. CASE e = RunEntity
    <3>1. from \in WorkflowRunStatus /\ to \in WorkflowRunStatus
      BY <2>1, TransitionsOf, Tables
    <3>2. "REUSED" \notin WorkflowRunStatus
      BY DEF WorkflowRunStatus
    <3> QED
      BY <2>1, <3>1, <3>2, EntitiesDiffer, Tables
  <2>2. ASSUME NEW t \in Tasks, e = TaskEntity(t)
        PROVE  /\ e[1] = "task_run" /\ to \in TaskRunStatus /\ from # Absent
               /\ to = "REUSED" => from = "PENDING"
    <3>1. from \in TaskRunStatus /\ to \in TaskRunStatus /\ to \in TaskRunTransitions[from]
      BY <2>2, TransitionsOf, Tables
    <3>2. \A s \in TaskRunStatus : "REUSED" \in TaskRunTransitions[s] => s = "PENDING"
      BY DEF TaskRunStatus, TaskRunTransitions
    <3> QED
      BY <2>2, <3>1, <3>2, EntitiesDiffer, Tables
  <2> QED
    BY <2>1, <2>2
<1>2. to \notin {NoEvent, "STARTED", "RESUMED"}
  BY <1>1 DEF WorkflowRunStatus, TaskRunStatus, NoEvent
<1>3. NoEvent \notin {"STARTED", "RESUMED"}
  BY DEF NoEvent
<1>4. CASE to = "RUNNING" /\ from \in {"PENDING", "READY"}
  BY <1>1, <1>3, <1>4 DEF EventOf, Tells
<1>5. CASE to = "RUNNING" /\ from \notin {"PENDING", "READY"}
  BY <1>1, <1>3, <1>5 DEF EventOf, Tells
<1>6. CASE to = "REUSED"
  BY <1>1, <1>3, <1>6 DEF EventOf, Tells
<1>7. CASE to \notin {"RUNNING", "REUSED"}
  BY <1>1, <1>2, <1>7 DEF EventOf, Tells
<1> QED
  BY <1>4, <1>5, <1>6, <1>7

\* Whoever follows the events of the run, or of a task, has its status after
\* every transition.
LEMMA StatusIsTold ==
    ASSUME TablesFit, NEW e \in Entities, e = RunEntity \/ \E t \in Tasks : e = TaskEntity(t),
           StatusOf(e) # Absent
    PROVE  StatusTold(e) = StatusOf(e)
<1> DEFINE log == transitions[e]
           n == Len(log)
           Says(i, status) == Tells(e, status, EventsOf(e)[i])
           F == [i \in 0 .. n |-> IF i = 0 THEN "PENDING" ELSE log[i].to]
           Follows(f) == f = [i \in 0 .. n |-> IF i = 0 THEN "PENDING" ELSE Says(i, f[i - 1])]
           told == CHOOSE f : Follows(f)
<1>1. /\ log \in Seq(Changes) /\ n \in Nat \ {0} /\ DOMAIN log = 1 .. n
      /\ log[1] = [from |-> Absent, to |-> "PENDING"] /\ log[n].to = StatusOf(e)
      /\ \A i \in 2 .. n : /\ log[i].from = log[i - 1].to
                           /\ log[i].from \in DOMAIN Transitions(e)
                           /\ log[i].to \in Transitions(e)[log[i].from]
  BY DEF TablesFit, TablesTypeOK, LogIsWalk
<1>2. \A i \in 1 .. n : EventsOf(e)[i] = EventOf(e, NumberOf(e), log[i].from, log[i].to)
  BY <1>1 DEF EventsOf
<1>3. Says(1, "PENDING") = "PENDING"
  <2>1. e[1] # "task_attempt"
    BY EntitiesDiffer
  <2>2. EventsOf(e)[1] = EventOf(e, 0, Absent, "PENDING")
    <3>1. NumberOf(e) = 0
      BY <2>1 DEF NumberOf
    <3>2. 1 \in 1 .. n /\ log[1].from = Absent /\ log[1].to = "PENDING"
      BY <1>1
    <3> QED
      BY <1>2, <3>1, <3>2
  <2>3. EventOf(e, 0, Absent, "PENDING") = NoEvent
    BY DEF EventOf
  <2> QED
    BY <2>2, <2>3 DEF Tells, NoEvent
<1>4. \A i \in 2 .. n : Says(i, log[i - 1].to) = log[i].to
  <2> TAKE i \in 2 .. n
  <2>1. EventsOf(e)[i] = EventOf(e, NumberOf(e), log[i].from, log[i].to)
    BY <1>1, <1>2
  <2>2. Tells(e, log[i].from, EventOf(e, NumberOf(e), log[i].from, log[i].to)) = log[i].to
    BY <1>1, EventIsTold
  <2> QED
    BY <1>1, <2>1, <2>2
<1> HIDE DEF Says
<1>5. Follows(F)
  <2>1. \A i \in 0 .. n : F[i] = IF i = 0 THEN "PENDING" ELSE Says(i, F[i - 1])
    <3> TAKE i \in 0 .. n
    <3>1. CASE i = 0
      BY <3>1
    <3>2. CASE i = 1
      BY <1>1, <1>3, <3>2
    <3>3. CASE i \in 2 .. n
      BY <1>1, <1>4, <3>3
    <3> QED
      BY <1>1, <3>1, <3>2, <3>3
  <2> QED
    BY <2>1
<1>6. Follows(told)
  BY <1>5
<1> HIDE DEF told
<1>7. /\ told[0] = "PENDING"
      /\ \A i \in 1 .. n : told[i] = Says(i, told[i - 1])
  BY <1>1, <1>6
<1>8. \A i \in 0 .. n : told[i] = F[i]
  <2> SUFFICES ASSUME {i \in 0 .. n : told[i] # F[i]} # {}
               PROVE  FALSE
    OBVIOUS
  <2>1. PICK i \in {j \in 0 .. n : told[j] # F[j]} :
             \A m \in {j \in 0 .. n : told[j] # F[j]} : i <= m
    <3>1. {j \in 0 .. n : told[j] # F[j]} \in SUBSET Nat
      BY <1>1
    <3> QED
      BY <3>1, LeastNatural
  <2>2. i # 0
    BY <1>1, <1>7, <2>1
  <2>3. i - 1 \in 0 .. n /\ told[i - 1] = F[i - 1] /\ i \in 1 .. n
    <3>1. i \in 0 .. n
      BY <2>1
    <3>2. i - 1 \in 0 .. n /\ i \in 1 .. n /\ ~ (i <= i - 1)
      BY <1>1, <2>2, <3>1
    <3>3. i - 1 \notin {j \in 0 .. n : told[j] # F[j]}
      BY <2>1, <3>2
    <3> HIDE DEF F
    <3> QED
      BY <3>2, <3>3
  <2>4. F[i] = Says(i, F[i - 1])
    BY <1>5, <2>2, <2>3
  <2> QED
    BY <1>7, <2>1, <2>3, <2>4
<1>9. StatusTold(e) = told[n]
  BY DEF StatusTold, told, Says
<1>10. n \in 0 .. n /\ n # 0
  BY <1>1
<1>11. F[n] = log[n].to
  BY <1>10
<1>12. told[n] = F[n]
  BY <1>8, <1>10
<1> QED
  BY <1>1, <1>9, <1>11, <1>12

\* The retries of a task are told: all its attempts but the first.
LEMMA RetriesAreTold ==
    ASSUME TablesFit, NEW t \in Tasks
    PROVE  Cardinality(RetriesTold(t))
             = IF AttemptsOf(t) = {} THEN 0 ELSE Cardinality(AttemptsOf(t)) - 1
<1>1. TablesTypeOK /\ NumbersAreTheirOwn /\ Numbers(t) = 1 .. Cardinality(AttemptsOf(t))
  BY DEF TablesFit, NumbersHaveNoGaps
<1>2. ASSUME NEW a \in AttemptsOf(t)
      PROVE  a \in RetriesTold(t) <=> attemptRows[a].number > 1
  <2> DEFINE e == AttemptEntity(a)
             log == transitions[e]
  <2>1. /\ a \in AttemptIds /\ attemptRows[a] # NoRow /\ attemptRows[a] \in AttemptRows
        /\ attemptRows[a].task = t
    BY <1>1 DEF AttemptsOf, TablesTypeOK
  <2>2. StatusOf(e) # Absent /\ e \in Entities /\ e[1] = "task_attempt" /\ e[2] = a
    BY <2>1, StatusesOf, EntitiesExist, EntitiesDiffer, RowTypes
  <2>3. /\ log \in Seq(Changes) /\ Len(log) \in Nat \ {0} /\ DOMAIN log = 1 .. Len(log)
        /\ log[1] = [from |-> Absent, to |-> "PENDING"]
        /\ \A i \in 2 .. Len(log) : log[i].from \in DOMAIN Transitions(e)
    BY <2>2 DEF TablesFit, TablesTypeOK, LogIsWalk
  <2>4. NumberOf(e) = attemptRows[a].number
    BY <2>1, <2>2 DEF NumberOf
  <2>5. \A i \in 1 .. Len(log) :
           EventsOf(e)[i] = EventOf(e, attemptRows[a].number, log[i].from, log[i].to)
    BY <2>3, <2>4 DEF EventsOf
  <2>6. EventsOf(e)[1] = IF attemptRows[a].number > 1 THEN "TASK_RETRYING" ELSE NoEvent
    BY <2>3, <2>5 DEF EventOf
  <2>7. \A i \in 2 .. Len(log) : EventsOf(e)[i] = NoEvent
    <3>1. Absent \notin DOMAIN Transitions(e)
      BY TransitionsOf, Tables
    <3> QED
      BY <2>2, <2>3, <2>5, <3>1 DEF EventOf
  <2>8. \A i \in 1 .. Len(log) : i = 1 \/ i \in 2 .. Len(log)
    BY <2>3
  <2>9. 1 \in 1 .. Len(log) /\ NoEvent # "TASK_RETRYING"
    BY <2>3 DEF NoEvent
  <2>10. (\E i \in 1 .. Len(log) : EventsOf(e)[i] # NoEvent) <=> attemptRows[a].number > 1
    BY <2>6, <2>7, <2>8, <2>9
  <2> QED
    BY <2>3, <2>10 DEF RetriesTold
<1>3. RetriesTold(t) \subseteq AttemptsOf(t)
  BY DEF RetriesTold
<1>4. CASE AttemptsOf(t) = {}
  <2>1. RetriesTold(t) = {}
    BY <1>3, <1>4
  <2> QED
    BY <1>4, <2>1, FS_EmptySet
<1>5. CASE AttemptsOf(t) # {}
  <2>1. /\ IsFiniteSet(AttemptsOf(t)) /\ Cardinality(AttemptsOf(t)) \in Nat
        /\ Cardinality(AttemptsOf(t)) # 0
    BY <1>5, AttemptsAreFinite, FS_EmptySet
  <2>2. 1 \in Numbers(t)
    BY <1>1, <2>1
  <2>3. PICK first \in AttemptsOf(t) : attemptRows[first].number = 1
    BY <2>2 DEF Numbers
  <2>4. \A a \in AttemptsOf(t) : attemptRows[a].number \in 1 .. Cardinality(AttemptsOf(t))
    BY <1>1 DEF Numbers
  <2>5. \A a \in AttemptsOf(t) : attemptRows[a].number = 1 => a = first
    BY <1>1, <2>3 DEF NumbersAreTheirOwn, AttemptsOf
  <2>6. \A a \in AttemptsOf(t) : a \in RetriesTold(t) <=> a # first
    BY <1>2, <2>1, <2>3, <2>4, <2>5
  <2>7. RetriesTold(t) = AttemptsOf(t) \ {first}
    BY <1>3, <2>6
  <2> QED
    BY <1>5, <2>1, <2>3, <2>7, FS_RemoveElement
<1> QED
  BY <1>4, <1>5

\* The rows, the transitions and the events of a V2 store tell one history at
\* every moment, whatever its writers do at the same time and whenever one of
\* them dies (persistence/sqlite.py, persistence/memory.py).
THEOREM RecordsAgree == RelationalSpec => []RecordsAndLogAgree
<1>1. InitRelational => RelationalInv
  BY InitRelationalInv
<1>2. RelationalInv /\ [RelationalNext]_storeVars => RelationalInv'
  BY RelationalStep
<1>3. RelationalInv => RecordsAndLogAgree
  <2> SUFFICES ASSUME RelationalInv
               PROVE  RecordsAndLogAgree
    OBVIOUS
  <2>1. TablesFit /\ NumbersHaveNoGaps
    BY DEF RelationalInv, TablesFit
  <2>2. \A e \in {RunEntity} \cup {TaskEntity(t) : t \in Tasks} :
           StatusOf(e) # Absent => StatusTold(e) = StatusOf(e)
    BY <2>1, StatusIsTold, EntitiesExist
  <2>3. EventsTellTheRun
    BY <2>1, <2>2, RetriesAreTold DEF EventsTellTheRun
  <2> QED
    BY <2>1, <2>3, LogMatches DEF RecordsAndLogAgree
<1> QED
  BY <1>1, <1>2, <1>3, PTL DEF RelationalSpec

-----------------------------------------------------------------------------
(* The refinement of MetadataStore: its records, read off the tables.      *)

TaskRuns == [t \in Tasks |-> TaskStatusOf(taskRows[t])]
TaskAttempts ==
    [t \in Tasks |->
        [n \in 1..Cardinality(AttemptsOf(t)) |-> attemptRows[AttemptNumbered(t, n)].status]]
ExternalRefs == {<<attemptRows[a].task, attemptRows[a].number>> : a \in ToSet(refRows)}
Checkpoints == {t \in Tasks : outputRows[t] # Absent}

LEMMA StoreIsReadOffTheTables ==
    /\ Store!store = <<workflowRow, TaskRuns, TaskAttempts, ExternalRefs, Checkpoints>>
    /\ Store!Absent = Absent /\ Store!Tasks = Tasks
BY DEF Store!store, Store!Absent, Store!Tasks, Tasks, Absent, TaskRuns, TaskAttempts,
       ExternalRefs, Checkpoints

\* A number finds its attempt.
LEMMA AttemptHasItsNumber ==
    ASSUME TablesFit, NEW t \in Tasks, NEW a \in AttemptsOf(t)
    PROVE  /\ attemptRows[a].number \in 1 .. Cardinality(AttemptsOf(t))
           /\ attemptRows[a].number \in 1 .. Cardinality(AttemptIds)
           /\ \A n : attemptRows[a].number = n => AttemptNumbered(t, n) = a
<1>1. attemptRows[a].number \in Numbers(t)
  BY DEF Numbers
<1>2. attemptRows[a].number \in 1 .. Cardinality(AttemptsOf(t))
  BY <1>1 DEF TablesFit, NumbersHaveNoGaps
<1>3. attemptRows[a].number \in 1 .. Cardinality(AttemptIds)
  BY <1>2, AttemptsAreFinite, AttemptsAreCounted
<1>4. \A b \in AttemptsOf(t) : attemptRows[b].number = attemptRows[a].number => b = a
  BY DEF TablesFit, NumbersAreTheirOwn, AttemptsOf
<1>5. AttemptNumbered(t, attemptRows[a].number) = a
  BY <1>4 DEF AttemptNumbered
<1> QED
  BY <1>2, <1>3, <1>5

LEMMA NumberHasItsAttempt ==
    ASSUME TablesFit, NEW t \in Tasks, NEW n \in 1 .. Cardinality(AttemptsOf(t))
    PROVE  /\ AttemptNumbered(t, n) \in AttemptsOf(t)
           /\ attemptRows[AttemptNumbered(t, n)].number = n
<1>1. n \in Numbers(t)
  BY DEF TablesFit, NumbersHaveNoGaps
<1>2. \E a \in AttemptsOf(t) : attemptRows[a].number = n
  BY <1>1 DEF Numbers
<1> QED
  BY <1>2 DEF AttemptNumbered

\* An attempt that keeps its task and its number is found by it.
LEMMA AttemptKeepsItsNumber ==
    ASSUME TablesFit', NEW t \in Tasks, NEW a, a \in AttemptsOf(t)',
           NEW n, attemptRows'[a].number = n
    PROVE  AttemptNumbered(t, n)' = a
<1>1. \A b \in AttemptsOf(t)' : attemptRows'[b].number = n => b = a
  BY DEF TablesFit, NumbersAreTheirOwn, AttemptsOf
<1> QED
  BY <1>1 DEF AttemptNumbered

LEMMA AppendIsLonger ==
    ASSUME NEW S, NEW C \in Nat, NEW f \in [1 .. C -> S], NEW x \in S,
           NEW g \in [1 .. C + 1 -> S],
           \A n \in 1 .. C : g[n] = f[n], g[C + 1] = x
    PROVE  Append(f, x) = g
<1>1. f \in Seq(S) /\ Len(f) = C
  <2>1. f \in Seq(S)
    BY SeqDef
  <2>2. DOMAIN f = 1 .. C /\ DOMAIN f = 1 .. Len(f) /\ Len(f) \in Nat
    BY <2>1, LenProperties
  <2> QED
    BY <2>1, <2>2
<1>2. /\ Append(f, x) \in Seq(S) /\ Len(Append(f, x)) = C + 1
      /\ \A n \in 1 .. C : Append(f, x)[n] = f[n]
      /\ Append(f, x)[C + 1] = x
  BY <1>1
<1>3. Append(f, x) \in [1 .. C + 1 -> S]
  BY <1>2, LenProperties
<1>4. \A n \in 1 .. C + 1 : Append(f, x)[n] = g[n]
  <2>1. \A n \in 1 .. C + 1 : n \in 1 .. C \/ n = C + 1
    OBVIOUS
  <2> QED
    BY <1>2, <2>1
<1> QED
  BY <1>3, <1>4

LEMMA AttemptsHaveStatuses ==
    ASSUME TablesFit, NEW t \in Tasks
    PROVE  TaskAttempts[t] \in [1 .. Cardinality(AttemptsOf(t)) -> TaskAttemptStatus]
<1>1. ASSUME NEW n \in 1 .. Cardinality(AttemptsOf(t))
      PROVE  attemptRows[AttemptNumbered(t, n)].status \in TaskAttemptStatus
  <2>1. AttemptNumbered(t, n) \in AttemptsOf(t)
    BY NumberHasItsAttempt
  <2>2. \A a \in AttemptsOf(t) : attemptRows[a] \in AttemptRows
    BY DEF AttemptsOf, TablesFit, TablesTypeOK
  <2> QED
    BY <2>1, <2>2 DEF AttemptRows
<1> QED
  BY <1>1 DEF TaskAttempts

\* A task whose attempts keep their rows has the same attempts.
LEMMA SameAttempts ==
    ASSUME TablesFit, TablesFit', NEW t \in Tasks, AttemptsOf(t)' = AttemptsOf(t),
           \A a \in AttemptsOf(t) : attemptRows'[a] = attemptRows[a]
    PROVE  TaskAttempts'[t] = TaskAttempts[t]
<1>1. ASSUME NEW n \in 1 .. Cardinality(AttemptsOf(t))
      PROVE  attemptRows'[AttemptNumbered(t, n)'].status = attemptRows[AttemptNumbered(t, n)].status
  <2> DEFINE a == AttemptNumbered(t, n)
  <2>1. a \in AttemptsOf(t) /\ attemptRows[a].number = n
    BY NumberHasItsAttempt
  <2>2. \A b : b \in AttemptsOf(t)' /\ attemptRows'[b].number = n => AttemptNumbered(t, n)' = b
    BY AttemptKeepsItsNumber
  <2>3. AttemptNumbered(t, n)' = a
    BY <2>1, <2>2
  <2> QED
    BY <2>1, <2>3
<1>2. TaskAttempts'[t] = [n \in 1..Cardinality(AttemptsOf(t))' |->
                            attemptRows'[AttemptNumbered(t, n)'].status]
  BY DEF TaskAttempts, Tasks
<1>3. TaskAttempts[t] = [n \in 1..Cardinality(AttemptsOf(t)) |->
                            attemptRows[AttemptNumbered(t, n)].status]
  BY DEF TaskAttempts
<1> QED
  BY <1>1, <1>2, <1>3

LEMMA SameReferences ==
    ASSUME TablesFit, refRows' = refRows,
           \A a \in AttemptIds : attemptRows[a] # NoRow =>
              /\ attemptRows'[a].task = attemptRows[a].task
              /\ attemptRows'[a].number = attemptRows[a].number
    PROVE  ExternalRefs' = ExternalRefs
<1>1. \A a \in ToSet(refRows) : a \in AttemptIds /\ attemptRows[a] # NoRow
  BY DEF TablesFit, TablesTypeOK, RowsFit, ToSet
<1>2. ToSet(refRows)' = ToSet(refRows)
  BY DEF ToSet
<1>3. ExternalRefs' = {<<attemptRows'[a].task, attemptRows'[a].number>> : a \in ToSet(refRows)'}
  BY DEF ExternalRefs
<1> QED
  BY <1>1, <1>2, <1>3 DEF ExternalRefs

\* A new status of the run or of a task (create_workflow_run, create_task_run,
\* update_workflow_run, update_task_run).
LEMMA RecordStep ==
    ASSUME TablesFit, NEW op, OperationType(op), Accepted(op),
           Creates(op) \/ Moves(op),
           op.entity = RunEntity \/ \E t \in Tasks : op.entity = TaskEntity(t)
    PROVE  StoreStepOf
<1> USE EntitiesDiffer
<1>1. /\ TaskAttempts' = TaskAttempts /\ ExternalRefs' = ExternalRefs
      /\ Checkpoints' = Checkpoints
  <2>1. UNCHANGED <<attemptRows, refRows, outputRows>>
    BY DEF Creates, Moves, SetStatus
  <2>2. \A t : AttemptsOf(t)' = AttemptsOf(t)
    BY <2>1 DEF AttemptsOf
  <2>3. \A t, n : AttemptNumbered(t, n)' = AttemptNumbered(t, n)
    BY <2>1, <2>2 DEF AttemptNumbered
  <2>4. ToSet(refRows)' = ToSet(refRows)
    BY <2>1 DEF ToSet
  <2> QED
    BY <2>1, <2>2, <2>3, <2>4 DEF TaskAttempts, ExternalRefs, Checkpoints
<1>2. TaskRuns \in [Tasks -> TaskRunStatus \cup {Absent}]
  BY RowTypes DEF TaskRuns, TablesFit, TablesTypeOK
<1>3. ASSUME NEW s, op.entity = RunEntity, SetStatus(op.entity, s)
      PROVE  workflowRow' = s /\ TaskRuns' = TaskRuns
  BY <1>3 DEF SetStatus, TaskRuns, TaskStatusOf
<1>4. ASSUME NEW t \in Tasks, op.entity = TaskEntity(t),
             NEW s \in TaskRunStatus, SetStatus(op.entity, s)
      PROVE  workflowRow' = workflowRow /\ TaskRuns' = [TaskRuns EXCEPT ![t] = s]
  <2>1. /\ taskRows' = [taskRows EXCEPT ![t] = TaskRow(s)] /\ workflowRow' = workflowRow
    <3>1. op.entity[1] = "task_run" /\ op.entity[2] = t
      BY <1>4
    <3> HIDE DEF TaskRow
    <3> QED
      BY <1>4, <3>1 DEF SetStatus
  <2>2. taskRows \in [Tasks -> TaskRows \cup {NoRow}] /\ TaskStatusOf(TaskRow(s)) = s
    BY RowTypes DEF TablesFit, TablesTypeOK
  <2>3. TaskRuns' = [u \in Tasks |-> TaskStatusOf(taskRows'[u])]
    BY DEF TaskRuns, Tasks, TaskStatusOf
  <2>4. \A u \in Tasks : taskRows'[u] = IF u = t THEN TaskRow(s) ELSE taskRows[u]
    BY <2>1, <2>2
  <2> HIDE DEF TaskRow
  <2>5. \A u \in Tasks : TaskStatusOf(taskRows'[u]) = IF u = t THEN s ELSE TaskRuns[u]
    BY <2>2, <2>4 DEF TaskRuns
  <2>6. TaskRuns' = [u \in Tasks |-> IF u = t THEN s ELSE TaskRuns[u]]
    BY <2>3, <2>5
  <2> QED
    BY <1>2, <2>1, <2>6
<1>5. CASE Creates(op) /\ op.entity = RunEntity
  <2>1. workflowRow = Absent /\ workflowRow' = "PENDING" /\ TaskRuns' = TaskRuns
    BY <1>3, <1>5, StatusesOf DEF Creates, Accepted, CreateAccepted
  <2>2. Store!CreateWorkflowRun
    BY <1>1, <2>1
       DEF Store!CreateWorkflowRun, Store!Absent, Absent, TaskRuns, TaskAttempts, ExternalRefs,
           Checkpoints
  <2> QED
    BY <2>2 DEF StoreStepOf
<1>6. ASSUME NEW t \in Tasks, op.entity = TaskEntity(t), Creates(op)
      PROVE  StoreStepOf
  <2>1. /\ TaskRuns[t] = Absent /\ workflowRow # Absent
    BY <1>6, StatusesOf DEF Creates, Accepted, CreateAccepted, TaskRuns
  <2>2. workflowRow' = workflowRow /\ TaskRuns' = [TaskRuns EXCEPT ![t] = "PENDING"]
    BY <1>4, <1>6 DEF Creates, TaskRunStatus
  <2>3. Store!CreateTaskRun(t)
    BY <1>1, <2>1, <2>2
       DEF Store!CreateTaskRun, Store!Absent, Absent, TaskRuns, TaskAttempts, ExternalRefs,
           Checkpoints
  <2> QED
    BY <2>3 DEF StoreStepOf
<1>7. CASE Moves(op) /\ op.entity = RunEntity
  <2>1. /\ op.expected \in WorkflowRunStatus /\ op.target \in WorkflowTransitions[op.expected]
        /\ op.target \in WorkflowRunStatus /\ workflowRow = op.expected
    BY <1>7, StatusesOf, TransitionsOf, Tables DEF Moves, OperationType, Accepted, UpdateAccepted
  <2>2. workflowRow' = op.target /\ TaskRuns' = TaskRuns
    BY <1>3, <1>7 DEF Moves
  <2>3. op.expected # Absent
    BY <2>1, Tables
  <2>4. Store!UpdateWorkflowRun(op.expected, op.target)
    BY <1>1, <2>1, <2>2, <2>3
       DEF Store!UpdateWorkflowRun, Store!WorkflowUpdateAccepted, Store!Absent, Absent,
           Store!WorkflowTransitions, WorkflowTransitions, Store!WorkflowRunStatus,
           WorkflowRunStatus, Store!WorkflowTerminal, WorkflowTerminal, TaskRuns, TaskAttempts,
           ExternalRefs, Checkpoints
  <2> QED
    BY <2>1, <2>4 DEF StoreStepOf
<1>8. ASSUME NEW t \in Tasks, op.entity = TaskEntity(t), Moves(op)
      PROVE  StoreStepOf
  <2>1. /\ op.expected \in TaskRunStatus /\ op.target \in TaskRunTransitions[op.expected]
        /\ op.target \in TaskRunStatus /\ TaskRuns[t] = op.expected
    BY <1>8, StatusesOf, TransitionsOf, Tables
       DEF Moves, OperationType, Accepted, UpdateAccepted, TaskRuns
  <2>2. workflowRow' = workflowRow /\ TaskRuns' = [TaskRuns EXCEPT ![t] = op.target]
    BY <1>4, <1>8, <2>1 DEF Moves
  <2>3. op.expected # Absent
    BY <2>1, Tables
  <2>4. Store!UpdateTaskRun(t, op.expected, op.target)
    BY <1>1, <2>1, <2>2, <2>3
       DEF Store!UpdateTaskRun, Store!TaskUpdateAccepted, Store!Absent, Absent,
           Store!TaskRunTransitions, TaskRunTransitions, Store!TaskRunStatus, TaskRunStatus,
           TaskRuns, TaskAttempts, ExternalRefs, Checkpoints
  <2> QED
    BY <2>1, <2>4 DEF StoreStepOf
<1> QED
  BY <1>5, <1>6, <1>7, <1>8

\* A new status of an attempt (update_task_attempt).
LEMMA AttemptStep ==
    ASSUME TablesFit, TablesFit', NEW op, OperationType(op), Accepted(op), Moves(op),
           NEW a \in AttemptIds, op.entity = AttemptEntity(a)
    PROVE  StoreStepOf
<1> USE EntitiesDiffer
<1>1. /\ op.expected \in TaskAttemptStatus /\ op.target \in TaskAttemptTransitions[op.expected]
      /\ op.target \in TaskAttemptStatus /\ attemptRows[a].status = op.expected
  BY StatusesOf, TransitionsOf, Tables DEF Moves, OperationType, Accepted, UpdateAccepted
<1>2. attemptRows[a] # NoRow
  BY <1>1, Tables DEF NoRow
<1>3. /\ attemptRows' = [attemptRows EXCEPT ![a].status = op.target]
      /\ UNCHANGED <<workflowRow, taskRows, refRows, outputRows>>
  <2>1. op.entity[1] = "task_attempt" /\ op.entity[2] = a
    OBVIOUS
  <2> QED
    BY <2>1 DEF Moves, SetStatus
<1>4. /\ attemptRows \in [AttemptIds -> AttemptRows \cup {NoRow}] /\ attemptRows[a] \in AttemptRows
  BY <1>2 DEF TablesFit, TablesTypeOK
<1>5. PICK t \in Tasks, n \in Nat : attemptRows[a].task = t /\ attemptRows[a].number = n
  BY <1>4 DEF AttemptRows
<1>6. /\ attemptRows'[a].status = op.target
      /\ attemptRows'[a].task = t /\ attemptRows'[a].number = n
      /\ attemptRows'[a] # NoRow
      /\ \A b \in AttemptIds : b # a => attemptRows'[b] = attemptRows[b]
  BY <1>1, <1>3, <1>4, <1>5 DEF AttemptRows, NoRow
<1>7. \A u : AttemptsOf(u)' = AttemptsOf(u)
  BY <1>2, <1>5, <1>6 DEF AttemptsOf
<1>8. a \in AttemptsOf(t) /\ \A u : u # t => a \notin AttemptsOf(u)
  BY <1>2, <1>5 DEF AttemptsOf
<1>9. /\ n \in 1 .. Cardinality(AttemptsOf(t)) /\ n \in 1 .. Cardinality(AttemptIds)
      /\ AttemptNumbered(t, n) = a
  BY <1>5, <1>8, AttemptHasItsNumber
<1>10. TaskAttempts[t][n] = op.expected /\ n \in DOMAIN TaskAttempts[t]
  BY <1>1, <1>9 DEF TaskAttempts
<1>11. \A u \in Tasks : u # t => TaskAttempts'[u] = TaskAttempts[u]
  <2> TAKE u \in Tasks
  <2> HAVE u # t
  <2>1. \A b \in AttemptsOf(u) : attemptRows'[b] = attemptRows[b]
    BY <1>6, <1>8 DEF AttemptsOf
  <2> QED
    BY <1>7, <2>1, SameAttempts
<1>12. TaskAttempts'[t] = [TaskAttempts[t] EXCEPT ![n] = op.target]
  <2>1. ASSUME NEW m \in 1 .. Cardinality(AttemptsOf(t))
        PROVE  attemptRows'[AttemptNumbered(t, m)'].status
                  = IF m = n THEN op.target ELSE attemptRows[AttemptNumbered(t, m)].status
    <3>1. PICK b \in AttemptsOf(t) : b = AttemptNumbered(t, m) /\ attemptRows[b].number = m
      BY NumberHasItsAttempt
    <3>2. b \in AttemptIds /\ (b = a <=> m = n)
      BY <1>5, <1>9, <3>1 DEF AttemptsOf
    <3>3. attemptRows'[b].number = m
      BY <1>6, <3>1, <3>2
    <3>4. AttemptNumbered(t, m)' = b
      BY <1>7, <3>1, <3>3, AttemptKeepsItsNumber
    <3> QED
      BY <1>6, <3>1, <3>2, <3>4
  <2>2. /\ TaskAttempts'[t] = [m \in 1..Cardinality(AttemptsOf(t))' |->
                                  attemptRows'[AttemptNumbered(t, m)'].status]
        /\ TaskAttempts[t] = [m \in 1..Cardinality(AttemptsOf(t)) |->
                                  attemptRows[AttemptNumbered(t, m)].status]
        /\ Cardinality(AttemptsOf(t))' = Cardinality(AttemptsOf(t))
    BY <1>7 DEF TaskAttempts, Tasks
  <2>3. \A m \in 1..Cardinality(AttemptsOf(t)) :
           TaskAttempts[t][m] = attemptRows[AttemptNumbered(t, m)].status
    BY <2>2
  <2>4. [TaskAttempts[t] EXCEPT ![n] = op.target]
           = [m \in 1..Cardinality(AttemptsOf(t)) |->
                IF m = n THEN op.target ELSE attemptRows[AttemptNumbered(t, m)].status]
    BY <2>2
  <2>5. TaskAttempts'[t] = [m \in 1..Cardinality(AttemptsOf(t)) |->
                               attemptRows'[AttemptNumbered(t, m)'].status]
    BY <2>2
  <2>6. \A m \in 1..Cardinality(AttemptsOf(t)) :
           TaskAttempts'[t][m] = IF m = n THEN op.target
                                 ELSE attemptRows[AttemptNumbered(t, m)].status
    BY <2>1, <2>5
  <2>7. TaskAttempts'[t] = [m \in 1..Cardinality(AttemptsOf(t)) |-> TaskAttempts'[t][m]]
    BY <2>5
  <2> QED
    BY <2>4, <2>6, <2>7
<1>13. TaskAttempts' = [TaskAttempts EXCEPT ![t] = [TaskAttempts[t] EXCEPT ![n] = op.target]]
  <2>1. /\ TaskAttempts = [u \in Tasks |-> TaskAttempts[u]]
        /\ TaskAttempts' = [u \in Tasks |-> TaskAttempts'[u]]
    BY DEF TaskAttempts, Tasks
  <2> QED
    BY <1>11, <1>12, <2>1
<1>14. TaskRuns' = TaskRuns /\ Checkpoints' = Checkpoints
  BY <1>3 DEF TaskRuns, TaskStatusOf, Checkpoints
<1>15. ExternalRefs' = ExternalRefs
  BY <1>3, <1>5, <1>6, SameReferences
<1>16. Store!UpdateTaskAttempt(t, n, op.expected, op.target)
  BY <1>1, <1>3, <1>10, <1>13, <1>14, <1>15
     DEF Store!UpdateTaskAttempt, Store!AttemptUpdateAccepted,
         Store!TaskAttemptTransitions, TaskAttemptTransitions, Store!TaskAttemptStatus,
         TaskAttemptStatus, TaskRuns, TaskAttempts, ExternalRefs, Checkpoints
<1> QED
  BY <1>1, <1>9, <1>16 DEF StoreStepOf

\* A new attempt is the last of its task (append_task_attempt).
LEMMA AppendStep ==
    ASSUME TablesFit, TablesFit', NEW op, OperationType(op), Accepted(op), AppendsAttempt(op)
    PROVE  StoreStepOf
<1> USE EntitiesDiffer
<1>1. /\ op.task \in Tasks /\ taskRows[op.task] # NoRow
      /\ op.number = 1 + Cardinality(AttemptsOf(op.task))
  BY DEF AppendsAttempt, OperationType, Accepted, AppendAccepted
<1>2. PICK a \in AttemptIds : op.entity = AttemptEntity(a)
  BY DEF AppendsAttempt, OperationType
<1>3. attemptRows[a] = NoRow
  BY <1>2 DEF AppendsAttempt, Accepted, AppendAccepted
<1>4. PICK t \in Tasks, C \in Nat : op.task = t /\ Cardinality(AttemptsOf(t)) = C
  BY <1>1, AttemptsAreFinite
<1>5. /\ attemptRows' = [attemptRows EXCEPT ![a] =
                            [task |-> t, number |-> C + 1, status |-> "PENDING"]]
      /\ UNCHANGED <<workflowRow, taskRows, refRows, outputRows>>
  <2>1. op.entity[2] = a /\ op.number = C + 1
    BY <1>1, <1>2, <1>4
  <2> QED
    BY <1>4, <2>1 DEF AppendsAttempt
<1>6. /\ attemptRows'[a] = [task |-> t, number |-> C + 1, status |-> "PENDING"]
      /\ attemptRows'[a] # NoRow
      /\ attemptRows'[a].number = C + 1 /\ attemptRows'[a].status = "PENDING"
      /\ \A b \in AttemptIds : b # a => attemptRows'[b] = attemptRows[b]
  <2>1. attemptRows \in [AttemptIds -> AttemptRows \cup {NoRow}]
    BY DEF TablesFit, TablesTypeOK
  <2>2. attemptRows'[a] = [task |-> t, number |-> C + 1, status |-> "PENDING"]
    BY <1>5, <2>1
  <2>3. \A b \in AttemptIds : b # a => attemptRows'[b] = attemptRows[b]
    BY <1>5, <2>1
  <2>4. attemptRows'[a].status = "PENDING" /\ attemptRows'[a].number = C + 1
    BY <2>2
  <2> QED
    BY <2>2, <2>3, <2>4 DEF NoRow, Absent
<1>7. /\ AttemptsOf(t)' = AttemptsOf(t) \cup {a} /\ a \notin AttemptsOf(t)
      /\ \A u : u # t => AttemptsOf(u)' = AttemptsOf(u)
  <2>1. attemptRows'[a].task = t
    BY <1>6
  <2> QED
    BY <1>3, <1>6, <2>1 DEF AttemptsOf
<1>8. Cardinality(AttemptsOf(t))' = C + 1
  <2>1. IsFiniteSet(AttemptsOf(t))
    BY AttemptsAreFinite
  <2>2. Cardinality(AttemptsOf(t) \cup {a}) = C + 1
    BY <1>4, <1>7, <2>1, FS_AddElement
  <2> QED
    BY <1>7, <2>2
<1>9. \A u \in Tasks : u # t => TaskAttempts'[u] = TaskAttempts[u]
  <2> TAKE u \in Tasks
  <2> HAVE u # t
  <2>1. \A b \in AttemptsOf(u) : attemptRows'[b] = attemptRows[b]
    BY <1>3, <1>6 DEF AttemptsOf
  <2> QED
    BY <1>7, <2>1, SameAttempts
<1>10. TaskAttempts'[t] = Append(TaskAttempts[t], "PENDING")
  <2>1. TaskAttempts[t] \in [1 .. C -> TaskAttemptStatus]
    BY <1>4, AttemptsHaveStatuses
  <2>2. TaskAttempts'[t] = [m \in 1 .. C + 1 |-> attemptRows'[AttemptNumbered(t, m)'].status]
    BY <1>8 DEF TaskAttempts, Tasks
  <2>3. ASSUME NEW m \in 1 .. C
        PROVE  attemptRows'[AttemptNumbered(t, m)'].status = TaskAttempts[t][m]
    <3>1. PICK b \in AttemptsOf(t) : b = AttemptNumbered(t, m) /\ attemptRows[b].number = m
      BY <1>4, NumberHasItsAttempt
    <3>2. b \in AttemptIds /\ b # a /\ b \in AttemptsOf(t)'
      BY <1>7 DEF AttemptsOf
    <3>3. attemptRows'[b] = attemptRows[b] /\ attemptRows'[b].number = m
      BY <1>6, <3>1, <3>2
    <3>4. AttemptNumbered(t, m)' = b
      BY <3>2, <3>3, AttemptKeepsItsNumber
    <3>5. TaskAttempts[t][m] = attemptRows[b].status
      BY <1>4, <3>1 DEF TaskAttempts
    <3> QED
      BY <3>3, <3>4, <3>5
  <2>4. attemptRows'[AttemptNumbered(t, C + 1)'].status = "PENDING"
    <3>1. a \in AttemptsOf(t)' /\ attemptRows'[a].number = C + 1
      BY <1>6, <1>7
    <3>2. AttemptNumbered(t, C + 1)' = a
      BY <3>1, AttemptKeepsItsNumber
    <3> QED
      BY <1>6, <3>2
  <2> DEFINE g == [m \in 1 .. C + 1 |-> attemptRows'[AttemptNumbered(t, m)'].status]
  <2>5. /\ \A m \in 1 .. C : g[m] = TaskAttempts[t][m]
        /\ g[C + 1] = "PENDING" /\ DOMAIN g = 1 .. C + 1 /\ "PENDING" \in TaskAttemptStatus
    <3>1. \A m \in 1 .. C : m \in 1 .. C + 1
      OBVIOUS
    <3>2. C + 1 \in 1 .. C + 1
      OBVIOUS
    <3> QED
      BY <2>3, <2>4, <3>1, <3>2 DEF TaskAttemptStatus
  <2>6. g \in [1 .. C + 1 -> TaskAttemptStatus]
    <3>1. \A m \in 1 .. C + 1 : m \in 1 .. C \/ m = C + 1
      OBVIOUS
    <3>2. \A m \in 1 .. C + 1 : g[m] \in TaskAttemptStatus
      BY <2>1, <2>5, <3>1
    <3>3. g = [m \in 1 .. C + 1 |-> g[m]]
      OBVIOUS
    <3> HIDE DEF g
    <3> QED
      BY <3>2, <3>3
  <2>7. TaskAttempts'[t] = g
    BY <2>2
  <2> HIDE DEF g
  <2> QED
    BY <2>1, <2>5, <2>6, <2>7, AppendIsLonger
<1>11. TaskAttempts' = [TaskAttempts EXCEPT ![t] = Append(TaskAttempts[t], "PENDING")]
  <2>1. /\ TaskAttempts = [u \in Tasks |-> TaskAttempts[u]]
        /\ TaskAttempts' = [u \in Tasks |-> TaskAttempts'[u]]
    BY DEF TaskAttempts, Tasks
  <2> QED
    BY <1>9, <1>10, <2>1
<1>12. TaskRuns' = TaskRuns /\ Checkpoints' = Checkpoints
  BY <1>5 DEF TaskRuns, TaskStatusOf, Checkpoints
<1>13. ExternalRefs' = ExternalRefs
  BY <1>3, <1>5, <1>6, SameReferences
<1>14. TaskRuns[t] # Absent
  BY <1>1, <1>4, RowTypes DEF TaskRuns, TablesFit, TablesTypeOK
<1>15. Store!AppendTaskAttempt(t)
  BY <1>5, <1>11, <1>12, <1>13, <1>14
     DEF Store!AppendTaskAttempt, Store!Absent, Absent, TaskRuns, TaskAttempts, ExternalRefs,
         Checkpoints
<1> QED
  BY <1>15 DEF StoreStepOf

\* What adds to a row (append_external_run_ref, set_task_output_checkpoint); a
\* manifest reference is not part of the contract.
LEMMA AdditionStep ==
    ASSUME TablesFit, NEW op, OperationType(op), Accepted(op),
           AppendsReference(op) \/ StoresOutput(op) \/ StoresManifest(op)
    PROVE  StoreStepOf \/ UNCHANGED Store!store
<1>1. UNCHANGED <<workflowRow, taskRows, attemptRows>>
  BY DEF AppendsReference, StoresOutput, StoresManifest
<1>2. \A t : AttemptsOf(t)' = AttemptsOf(t)
  BY <1>1 DEF AttemptsOf
<1>3. \A t, n : AttemptNumbered(t, n)' = AttemptNumbered(t, n)
  BY <1>1, <1>2 DEF AttemptNumbered
<1>4. TaskRuns' = TaskRuns /\ TaskAttempts' = TaskAttempts
  BY <1>1, <1>2, <1>3 DEF TaskRuns, TaskStatusOf, TaskAttempts
<1>5. CASE AppendsReference(op)
  <2>1. /\ op.kind = "append_ref" /\ op.attempt \in AttemptIds
        /\ attemptRows[op.attempt] # NoRow
    BY <1>5 DEF AppendsReference, OperationType, Accepted, ReferenceAccepted
  <2>2. PICK t \in Tasks, n \in Nat :
             attemptRows[op.attempt].task = t /\ attemptRows[op.attempt].number = n
    BY <2>1, RowTypes DEF TablesFit, TablesTypeOK, AttemptRows
  <2>3. n \in 1 .. Cardinality(AttemptIds)
    <3>1. op.attempt \in AttemptsOf(t)
      BY <2>1, <2>2 DEF AttemptsOf
    <3> QED
      BY <2>2, <3>1, AttemptHasItsNumber
  <2>4. ToSet(refRows)' = ToSet(refRows) \cup {op.attempt}
    <3>1. TablesFit' /\ Footprint(op)
      BY <1>5, AdditionKeeps
    <3> QED
      BY <2>1, <3>1 DEF Footprint
  <2>5. ExternalRefs' = ExternalRefs \cup {<<t, n>>}
    <3>1. ExternalRefs' = {<<attemptRows[b].task, attemptRows[b].number>> : b \in ToSet(refRows)'}
      BY <1>1 DEF ExternalRefs
    <3> QED
      BY <2>2, <2>4, <3>1 DEF ExternalRefs
  <2>6. Checkpoints' = Checkpoints
    BY <1>5 DEF AppendsReference, Checkpoints
  <2>7. CASE <<t, n>> \notin ExternalRefs
    <3>1. Store!AppendExternalRunRef(t, n)
      BY <1>1, <1>4, <2>5, <2>6, <2>7
         DEF Store!AppendExternalRunRef, Store!ExternalRunRefAccepted, TaskRuns,
             TaskAttempts, ExternalRefs, Checkpoints
    <3> QED
      BY <2>3, <3>1 DEF StoreStepOf
  <2>8. CASE <<t, n>> \in ExternalRefs
    <3>1. ExternalRefs' = ExternalRefs
      BY <2>5, <2>8
    <3> QED
      BY <1>1, <1>4, <2>6, <3>1
         DEF Store!store, TaskRuns, TaskAttempts, ExternalRefs, Checkpoints
  <2> QED
    BY <2>7, <2>8
<1>6. CASE StoresOutput(op)
  <2>1. /\ op.kind = "set_output" /\ op.task \in Tasks /\ op.content \in Contents
        /\ taskRows[op.task] # NoRow /\ taskRows[op.task].status = "SUCCEEDED"
    BY <1>6 DEF StoresOutput, OperationType, Accepted, OutputAccepted
  <2>2. op.content # Absent
    BY <2>1, RelationalBounds
  <2>3. /\ outputRows' = [outputRows EXCEPT ![op.task] = op.content]
        /\ outputRows \in [Tasks -> Contents \cup {Absent}] /\ refRows' = refRows
    BY <1>6 DEF StoresOutput, TablesFit, TablesTypeOK
  <2>4. Checkpoints' = Checkpoints \cup {op.task}
    <3>1. \A u \in Tasks : outputRows'[u] = IF u = op.task THEN op.content ELSE outputRows[u]
      BY <2>3
    <3> QED
      BY <2>1, <2>2, <3>1 DEF Checkpoints, Tasks
  <2>5. ExternalRefs' = ExternalRefs
    BY <1>1, <2>3, SameReferences
  <2>6. TaskRuns[op.task] \in {"SUCCEEDED", "REUSED"}
    BY <2>1 DEF TaskRuns, TaskStatusOf
  <2>7. Store!SetTaskOutputCheckpoint(op.task)
    BY <1>1, <1>4, <2>4, <2>5, <2>6
       DEF Store!SetTaskOutputCheckpoint, TaskRuns, TaskAttempts, ExternalRefs, Checkpoints
  <2> QED
    BY <2>1, <2>7 DEF StoreStepOf
<1>7. CASE StoresManifest(op)
  <2>1. UNCHANGED <<refRows, outputRows>>
    BY <1>7 DEF StoresManifest
  <2>2. ExternalRefs' = ExternalRefs /\ Checkpoints' = Checkpoints
    BY <1>1, <2>1, SameReferences DEF Checkpoints
  <2> QED
    BY <1>1, <1>4, <2>2 DEF Store!store, TaskRuns, TaskAttempts, ExternalRefs, Checkpoints
<1> QED
  BY <1>5, <1>6, <1>7

\* What changes no table changes no record.
LEMMA NoStep ==
    ASSUME UNCHANGED tables
    PROVE  UNCHANGED Store!store
<1>1. UNCHANGED <<workflowRow, taskRows, attemptRows, refRows, outputRows>>
  BY DEF tables
<1>2. \A t : AttemptsOf(t)' = AttemptsOf(t)
  BY <1>1 DEF AttemptsOf
<1>3. \A t, n : AttemptNumbered(t, n)' = AttemptNumbered(t, n)
  BY <1>1, <1>2 DEF AttemptNumbered
<1>4. ToSet(refRows)' = ToSet(refRows)
  BY <1>1 DEF ToSet
<1>5. /\ TaskRuns' = TaskRuns /\ TaskAttempts' = TaskAttempts
      /\ ExternalRefs' = ExternalRefs /\ Checkpoints' = Checkpoints
  BY <1>1, <1>2, <1>3, <1>4 DEF TaskRuns, TaskStatusOf, TaskAttempts, ExternalRefs, Checkpoints
<1> QED
  BY <1>1, <1>5 DEF Store!store, TaskRuns, TaskAttempts, ExternalRefs, Checkpoints

\* The relational stores and the memory store implement the contract that the
\* runtime is written against: every commit is one operation of MetadataStore
\* on the records its readers see, and nothing else changes them.
THEOREM StoreIsImplemented == RelationalSpec => ImplementsStore
<1>1. InitRelational => RelationalInv
  BY InitRelationalInv
<1>2. RelationalInv /\ [RelationalNext]_storeVars => RelationalInv'
  BY RelationalStep
<1>3. InitRelational => Store!InitStore
  <2> SUFFICES ASSUME InitRelational
               PROVE  Store!InitStore
    OBVIOUS
  <2>1. \A t \in Tasks : AttemptsOf(t) = {}
    BY DEF InitRelational, AttemptsOf
  <2>2. Cardinality({}) = 0
    BY FS_EmptySet
  <2>3. TaskRuns = [t \in Tasks |-> Absent]
    BY DEF InitRelational, TaskRuns, TaskStatusOf
  <2>4. TaskAttempts = [t \in Tasks |-> << >>]
    <3>1. \A t \in Tasks : TaskAttempts[t] = << >>
      <4> TAKE t \in Tasks
      <4>1. /\ TaskAttempts[t] = [n \in 1 .. 0 |-> attemptRows[AttemptNumbered(t, n)].status]
            /\ 1 .. 0 = {}
        BY <2>1, <2>2 DEF TaskAttempts
      <4> QED
        BY <4>1
    <3> QED
      BY <3>1 DEF TaskAttempts
  <2>5. ExternalRefs = {} /\ Checkpoints = {}
    BY DEF InitRelational, ExternalRefs, Checkpoints, ToSet
  <2> QED
    BY <2>3, <2>4, <2>5
       DEF InitRelational, Store!InitStore, Store!Absent, Store!Tasks, Tasks, Absent, TaskRuns,
           TaskAttempts, ExternalRefs, Checkpoints
<1>4. RelationalInv /\ RelationalInv' /\ [RelationalNext]_storeVars
         => [StoreStepOf]_(Store!store)
  <2> SUFFICES ASSUME RelationalInv, RelationalInv', [RelationalNext]_storeVars
               PROVE  StoreStepOf \/ UNCHANGED Store!store
    OBVIOUS
  <2>1. TablesFit /\ TablesFit'
    BY DEF RelationalInv
  <2>2. CASE UNCHANGED tables
    BY <2>2, NoStep
  <2>3. ASSUME NEW op \in Operations, Accepted(op), EffectOf(op)
        PROVE  StoreStepOf \/ UNCHANGED Store!store
    <3>1. OperationType(op)
      BY OperationTypes
    <3>2. CASE Creates(op)
      BY <2>1, <2>3, <3>1, <3>2, RecordStep DEF Creates, OperationType
    <3>3. CASE Moves(op)
      <4>1. op.entity \in Entities
        BY <3>1, <3>3 DEF Moves, OperationType
      <4>2. CASE op.entity = RunEntity \/ \E t \in Tasks : op.entity = TaskEntity(t)
        BY <2>1, <2>3, <3>1, <3>3, <4>2, RecordStep
      <4>3. CASE \E a \in AttemptIds : op.entity = AttemptEntity(a)
        BY <2>1, <2>3, <3>1, <3>3, <4>3, AttemptStep
      <4> QED
        BY <4>1, <4>2, <4>3, EntityKinds
    <3>4. CASE AppendsAttempt(op)
      BY <2>1, <2>3, <3>1, <3>4, AppendStep
    <3>5. CASE AppendsReference(op) \/ StoresOutput(op) \/ StoresManifest(op)
      BY <2>1, <2>3, <3>1, <3>5, AdditionStep
    <3> QED
      BY <2>3, <3>2, <3>3, <3>4, <3>5 DEF EffectOf
  <2> QED
    BY <2>2, <2>3, RelationalStep
<1> QED
  BY <1>1, <1>2, <1>3, <1>4, PTL DEF RelationalSpec, ImplementsStore

-----------------------------------------------------------------------------
(* The units of work of the V1 stores.                                     *)

Rows == [Keys -> Nat]
Writes == UNION {[S -> Nat \ {0}] : S \in SUBSET Keys}
UnitOperations == [verb: {"add", "save"}, key: Keys]
OpenUnits == [at: {"open"}, id: Nat \ {0}, todo: Seq(UnitOperations), keys: SUBSET Keys,
              copy: Rows \cup {NoWrites}, writes: Writes]

UnitsTypeOK ==
    /\ database \in Rows
    /\ unit \in [UnitWriters -> {Idle} \cup OpenUnits]
    /\ known \in [UnitWriters -> [sequence: Nat, attempts: Nat]]
    /\ opened \in Nat
    /\ committed \in Seq(Writes)

\* The keys that a unit has still to write.
ToWrite(w) == {unit[w].todo[i].key : i \in DOMAIN unit[w].todo}

\* What a unit has written carries its name, and the rest is still to come: a
\* refused operation ends the whole unit.
UnitsAreWhole ==
    \A w \in UnitWriters : unit[w].at = "open" =>
        /\ DOMAIN unit[w].writes \cup ToWrite(w) = unit[w].keys
        /\ \A k \in DOMAIN unit[w].writes : unit[w].writes[k] = unit[w].id

\* A unit of the memory store is alone; the databases lock what is written.
UnitsAreApart ==
    \A w \in UnitWriters : unit[w].at = "open" =>
        /\ unitBackend = "v1-memory" =>
              unit[w].copy = database /\ \A v \in UnitWriters \ {w} : unit[v].at = "idle"
        /\ \A v \in UnitWriters \ {w} : unit[v].at = "open" =>
              DOMAIN unit[v].writes \cap DOMAIN unit[w].writes = {}
        /\ unitBackend = "v1-sqlite" => \A v \in UnitWriters \ {w} : unit[v].at = "open" =>
              DOMAIN unit[v].writes = {} \/ DOMAIN unit[w].writes = {}

\* Nobody knows an event before it is stored, and the event that a unit has
\* written is the next one.
EventsAreNext ==
    /\ \A w \in UnitWriters : known[w].sequence <= LastSequence(database)
    /\ \A w \in UnitWriters : unit[w].at = "open" => \A s \in 1 .. UnitBound :
          /\ Event(s) \in unit[w].keys => s <= LastSequence(database) + 1
          /\ Event(s) \in DOMAIN unit[w].writes => s > LastSequence(database)

UnitsInv ==
    /\ UnitsTypeOK
    /\ unitBackend \in {"v1-memory", "v1-sqlite", "v1-postgres"}
    /\ UnitsAreWhole /\ UnitsAreApart /\ EventsAreNext
    /\ UnitsAreSerial /\ EventsInOrder

LEMMA KeysDiffer ==
    /\ \A s, r : Event(s) = Event(r) => s = r
    /\ \A s : Event(s)[1] = "event" /\ Event(s)[2] = s
    /\ \A s : Event(s) # Run /\ Event(s) # Task /\ Event(s) # Output
    /\ \A s, n : Event(s) # Attempt(n)
    /\ Output[1] # "event" /\ Run[1] # "event" /\ Task[1] # "event"
    /\ \A n : Attempt(n)[1] # "event"
BY DEF Event, Run, Task, Output, Attempt

LEMMA EventKeys ==
    /\ \A s : Event(s) \in Keys => s \in 1 .. UnitBound
    /\ \A s \in 1 .. UnitBound : Event(s) \in Keys
    /\ \A k \in Keys : k[1] = "event" => \E s \in 1 .. UnitBound : k = Event(s)
BY KeysDiffer DEF Keys

\* The largest of a bounded set of numbers.
LEMMA MaxIsLargest ==
    ASSUME NEW B \in Nat, NEW S \in SUBSET (0 .. B), S # {}
    PROVE  Max(S) \in S /\ \A n \in S : n <= Max(S)
<1>1. PICK d \in {B - n : n \in S} : \A m \in {B - n : n \in S} : d <= m
  <2>1. \A n \in S : B - n \in Nat
    OBVIOUS
  <2>2. {B - n : n \in S} \in SUBSET Nat /\ {B - n : n \in S} # {}
    BY <2>1
  <2> QED
    BY <2>2, LeastNatural
<1>2. PICK x \in S : d = B - x
  BY <1>1
<1>3. x \in S /\ \A n \in S : x >= n
  <2>1. \A n \in S : B - x <= B - n
    BY <1>1, <1>2
  <2> QED
    BY <2>1
<1>4. Max(S) \in S /\ \A n \in S : Max(S) >= n
  BY <1>3 DEF Max
<1> QED
  BY <1>4

LEMMA LastSequenceIsLargest ==
    ASSUME NEW view
    PROVE  /\ LastSequence(view) \in 0 .. UnitBound
           /\ \A s \in 1 .. UnitBound : view[Event(s)] # NoUnit => s <= LastSequence(view)
           /\ \/ LastSequence(view) = 0
              \/ /\ LastSequence(view) \in 1 .. UnitBound
                 /\ view[Event(LastSequence(view))] # NoUnit
<1> DEFINE S == {0} \cup {s \in 1 .. UnitBound : view[Event(s)] # NoUnit}
<1>1. S \in SUBSET (0 .. UnitBound) /\ S # {} /\ UnitBound \in Nat
  BY UnitBounds
<1>2. Max(S) \in S /\ \A n \in S : n <= Max(S)
  BY <1>1, MaxIsLargest
<1>3. LastSequence(view) = Max(S)
  BY DEF LastSequence
<1> QED
  BY <1>1, <1>2, <1>3

\* More rows, more events.
LEMMA LastSequenceGrows ==
    ASSUME NEW view, NEW more,
           \A s \in 1 .. UnitBound : view[Event(s)] # NoUnit => more[Event(s)] # NoUnit
    PROVE  LastSequence(view) <= LastSequence(more)
<1>1. CASE LastSequence(view) = 0
  BY <1>1, LastSequenceIsLargest
<1>2. CASE LastSequence(view) # 0
  <2>1. LastSequence(view) \in 1 .. UnitBound /\ view[Event(LastSequence(view))] # NoUnit
    BY <1>2, LastSequenceIsLargest
  <2> QED
    BY <2>1, LastSequenceIsLargest
<1> QED
  BY <1>1, <1>2

\* Of a unit's operations at most one event is new (the seven units of the
\* runner).
LEMMA UnitsOfTheRunner ==
    ASSUME NEW n, NEW s, NEW operations \in UnitsFor(n, s), OnKeys(operations)
    PROVE  /\ operations \in Seq(UnitOperations)
           /\ \A i \in DOMAIN operations : \A r : operations[i].key = Event(r) => r = s
<1> DEFINE T == {Add(Run), Add(Task), Save(Run), Save(Task), Save(Attempt(n)),
                 Add(Attempt(n + 1)), Add(Event(s)), Add(Output)}
<1>1. operations \in Seq(T)
  <2>1. /\ Add(Run) \in T /\ Add(Task) \in T /\ Save(Run) \in T /\ Save(Task) \in T
        /\ Save(Attempt(n)) \in T /\ Add(Attempt(n + 1)) \in T /\ Add(Event(s)) \in T
        /\ Add(Output) \in T
    OBVIOUS
  <2> HIDE DEF T
  <2>2. /\ \A a \in T : <<a>> \in Seq(T)
        /\ \A a, b \in T : <<a, b>> \in Seq(T)
        /\ \A a, b, c \in T : <<a, b, c>> \in Seq(T)
        /\ \A a, b, c, d \in T : <<a, b, c, d>> \in Seq(T)
    OBVIOUS
  <2>3. /\ <<Add(Run), Add(Task)>> \in Seq(T)
        /\ <<Save(Run), Add(Event(s))>> \in Seq(T)
        /\ <<Save(Task), Add(Attempt(n + 1)), Add(Event(s))>> \in Seq(T)
        /\ <<Save(Attempt(n)), Add(Event(s))>> \in Seq(T)
        /\ <<Add(Attempt(n + 1))>> \in Seq(T)
        /\ <<Save(Attempt(n)), Save(Task), Add(Event(s)), Add(Output)>> \in Seq(T)
        /\ <<Save(Attempt(n)), Save(Task), Save(Run), Add(Event(s))>> \in Seq(T)
    BY <2>1, <2>2
  <2> QED
    BY <2>3, Zenon DEF UnitsFor
<1>2. \A o \in T : /\ o = [verb |-> o.verb, key |-> o.key] /\ o.verb \in {"add", "save"}
                   /\ \A r : o.key = Event(r) => r = s
  BY KeysDiffer DEF Add, Save
<1> HIDE DEF T
<1>3. /\ DOMAIN operations = 1 .. Len(operations) /\ Len(operations) \in Nat
      /\ operations \in [1 .. Len(operations) -> T]
  BY <1>1, LenProperties
<1>4. \A i \in DOMAIN operations : operations[i] \in T /\ operations[i].key \in Keys
  BY <1>3 DEF OnKeys
<1>5. \A i \in DOMAIN operations : operations[i] \in UnitOperations
  BY <1>2, <1>4 DEF UnitOperations
<1>6. operations \in [1 .. Len(operations) -> UnitOperations]
  BY <1>3, <1>5
<1>7. operations \in Seq(UnitOperations)
  BY <1>3, <1>6, SeqDef
<1> QED
  BY <1>2, <1>4, <1>7

LEMMA InitUnitsInv ==
    ASSUME InitUnits
    PROVE  UnitsInv
<1> USE DEF InitUnits
<1>1. database \in Rows /\ \A k \in Keys : database[k] = NoUnit
  BY DEF Rows, NoUnit
<1>2. UnitsTypeOK
  BY <1>1 DEF UnitsTypeOK
<1>3. \A w \in UnitWriters : unit[w].at = "idle" /\ known[w].sequence = 0
  BY DEF Idle
<1>4. EventsAreNext
  BY <1>3, LastSequenceIsLargest DEF EventsAreNext
<1>5. UnitsAreWhole /\ UnitsAreApart
  BY <1>3 DEF UnitsAreWhole, UnitsAreApart
<1>6. UnitsAreSerial /\ EventsInOrder
  BY <1>1 DEF UnitsAreSerial, EventsInOrder
<1> QED
  BY <1>2, <1>4, <1>5, <1>6, UnitBackendsType DEF UnitsInv

LEMMA OpenUnitsHaveType ==
    ASSUME UnitsTypeOK, NEW w \in UnitWriters
    PROVE  /\ unit[w].at \in {"idle", "open"}
           /\ unit[w].at = "open" => unit[w] \in OpenUnits
BY DEF UnitsTypeOK, Idle, OpenUnits

\* A unit sees the committed rows under its own writes, on each backend.
LEMMA ViewIsCurrent ==
    ASSUME UnitsInv, NEW w \in UnitWriters, unit[w].at = "open"
    PROVE  /\ View(w) = [k \in Keys |-> IF k \in DOMAIN unit[w].writes THEN unit[w].writes[k]
                                                                      ELSE database[k]]
           /\ View(w) \in Rows
           /\ DOMAIN unit[w].writes \subseteq Keys
           /\ \A k \in DOMAIN unit[w].writes : unit[w].writes[k] = unit[w].id
           /\ unit[w].id \in Nat \ {0}
           /\ \A k \in Keys : database[k] # NoUnit => View(w)[k] # NoUnit
<1>1. unit[w] \in OpenUnits /\ database \in Rows
  BY OpenUnitsHaveType DEF UnitsInv, UnitsTypeOK
<1>2. unit[w].writes \in Writes /\ unit[w].id \in Nat \ {0}
  BY <1>1 DEF OpenUnits
<1>3. /\ DOMAIN unit[w].writes \subseteq Keys
      /\ \A k \in DOMAIN unit[w].writes : unit[w].writes[k] \in Nat \ {0}
  BY <1>2 DEF Writes
<1>4. \A k \in DOMAIN unit[w].writes : unit[w].writes[k] = unit[w].id
  BY DEF UnitsInv, UnitsAreWhole
<1>5. unitBackend = "v1-memory" => unit[w].copy = database
  BY DEF UnitsInv, UnitsAreApart
<1>6. View(w) = [k \in Keys |-> IF k \in DOMAIN unit[w].writes THEN unit[w].writes[k]
                                                             ELSE database[k]]
  BY <1>5 DEF View
<1> QED
  BY <1>1, <1>2, <1>3, <1>4, <1>6 DEF Rows, NoUnit

\* What a writer reads back does not change the stored rows.
LEMMA LoadKeeps ==
    ASSUME UnitsInv, NEW w \in UnitWriters, Load(w)
    PROVE  UnitsInv'
<1>1. /\ known' = [known EXCEPT ![w] = Committed]
      /\ UNCHANGED <<unitBackend, database, unit, opened, committed>>
  BY DEF Load
<1>2. Committed.sequence = LastSequence(database) /\ Committed \in [sequence: Nat, attempts: Nat]
  <2>1. LastAttempt(database) \in Nat
    <3> DEFINE S == {0} \cup {n \in 1 .. AttemptBound : database[Attempt(n)] # NoUnit}
    <3>1. S \in SUBSET (0 .. AttemptBound) /\ S # {} /\ AttemptBound \in Nat
      BY UnitBounds
    <3>2. Max(S) \in S
      BY <3>1, MaxIsLargest
    <3>3. LastAttempt(database) = Max(S)
      BY DEF LastAttempt
    <3> QED
      BY <3>1, <3>2, <3>3
  <2> QED
    BY <2>1, LastSequenceIsLargest DEF Committed
<1>3. UnitsTypeOK'
  BY <1>1, <1>2 DEF UnitsInv, UnitsTypeOK
<1>4. LastSequence(database)' = LastSequence(database) /\ LastSequence(database) \in Nat
  BY <1>1, LastSequenceIsLargest DEF LastSequence
<1>5. EventsAreNext'
  <2>1. \A v \in UnitWriters : known'[v].sequence <= LastSequence(database)
    BY <1>1, <1>2, <1>4 DEF UnitsInv, UnitsTypeOK, EventsAreNext
  <2> QED
    BY <1>1, <1>4, <2>1 DEF UnitsInv, EventsAreNext
<1>6. UnitsAreWhole' /\ UnitsAreApart' /\ UnitsAreSerial' /\ EventsInOrder'
  BY <1>1 DEF UnitsInv, UnitsAreWhole, ToWrite, UnitsAreApart, UnitsAreSerial, EventsInOrder
<1> QED
  BY <1>1, <1>3, <1>5, <1>6 DEF UnitsInv

\* A unit that ends without a commit leaves nothing behind (rollback).
LEMMA DiscardKeeps ==
    ASSUME UnitsInv, NEW w \in UnitWriters, unit' = Discarded(w),
           \/ known' = known
           \/ known' = [known EXCEPT ![w] = [sequence |-> 0, attempts |-> 0]],
           UNCHANGED <<unitBackend, database, opened, committed>>
    PROVE  UnitsInv'
<1>1. /\ unit'[w] = Idle /\ \A v \in UnitWriters : v # w => unit'[v] = unit[v]
      /\ unit' \in [UnitWriters -> {Idle} \cup OpenUnits]
  BY DEF UnitsInv, UnitsTypeOK, Discarded
<1>2. unit'[w].at = "idle"
  BY <1>1 DEF Idle
<1>3. /\ known' \in [UnitWriters -> [sequence: Nat, attempts: Nat]]
      /\ \A v \in UnitWriters : known'[v].sequence <= known[v].sequence
  <2>1. known \in [UnitWriters -> [sequence: Nat, attempts: Nat]]
    BY DEF UnitsInv, UnitsTypeOK
  <2>2. \A v \in UnitWriters : known[v].sequence \in Nat
    BY <2>1
  <2>3. CASE known' = known
    BY <2>1, <2>2, <2>3
  <2>4. CASE known' = [known EXCEPT ![w] = [sequence |-> 0, attempts |-> 0]]
    <3>1. /\ known'[w] = [sequence |-> 0, attempts |-> 0]
          /\ \A v \in UnitWriters : v # w => known'[v] = known[v]
          /\ known' \in [UnitWriters -> [sequence: Nat, attempts: Nat]]
      BY <2>1, <2>4
    <3>2. known'[w].sequence = 0
      BY <3>1
    <3> QED
      BY <2>2, <3>1, <3>2
  <2> QED
    BY <2>3, <2>4
<1>4. UnitsTypeOK'
  BY <1>1, <1>3 DEF UnitsInv, UnitsTypeOK
<1>5. LastSequence(database)' = LastSequence(database) /\ LastSequence(database) \in Nat
  BY LastSequenceIsLargest DEF LastSequence
<1>6. EventsAreNext'
  <2>1. \A v \in UnitWriters : known'[v].sequence <= LastSequence(database)
    BY <1>3, <1>5 DEF UnitsInv, UnitsTypeOK, EventsAreNext
  <2> QED
    BY <1>1, <1>2, <1>5, <2>1 DEF UnitsInv, EventsAreNext
<1>7. UnitsAreWhole'
  BY <1>1, <1>2 DEF UnitsInv, UnitsAreWhole, ToWrite
<1>8. UnitsAreApart'
  BY <1>1, <1>2 DEF UnitsInv, UnitsAreApart
<1>9. UnitsAreSerial' /\ EventsInOrder'
  BY DEF UnitsInv, UnitsAreSerial, EventsInOrder
<1> QED
  BY <1>4, <1>6, <1>7, <1>8, <1>9 DEF UnitsInv

\* A unit is opened by what its writer knows, on the committed rows.
LEMMA OpenUnitKeeps ==
    ASSUME UnitsInv, NEW w \in UnitWriters, OpenUnit(w), "v1-memory" \notin Overlapping
    PROVE  UnitsInv'
<1>1. PICK operations \in UnitsFor(known[w].attempts, known[w].sequence + 1) :
         /\ OnKeys(operations)
         /\ unit' = [unit EXCEPT ![w] =
                        [at |-> "open", id |-> opened + 1, todo |-> operations,
                         keys |-> {operations[i].key : i \in DOMAIN operations},
                         copy |-> IF unitBackend = "v1-memory" THEN database ELSE NoWrites,
                         writes |-> NoWrites]]
  BY DEF OpenUnit
<1>2. /\ operations \in Seq(UnitOperations)
      /\ \A i \in DOMAIN operations : \A r : operations[i].key = Event(r)
                                               => r = known[w].sequence + 1
  BY <1>1, UnitsOfTheRunner
<1>3. /\ unit[w].at = "idle" /\ opened' = opened + 1
      /\ unitBackend \in Overlapping \/ \A v \in UnitWriters : unit[v].at = "idle"
      /\ UNCHANGED <<unitBackend, database, known, committed>>
  BY DEF OpenUnit
<1> DEFINE new == [at |-> "open", id |-> opened + 1, todo |-> operations,
                   keys |-> {operations[i].key : i \in DOMAIN operations},
                   copy |-> IF unitBackend = "v1-memory" THEN database ELSE NoWrites,
                   writes |-> NoWrites]
<1>4. /\ new.at = "open" /\ new.todo = operations
      /\ new.keys = {operations[i].key : i \in DOMAIN operations}
      /\ unitBackend = "v1-memory" => new.copy = database
      /\ DOMAIN new.writes = {}
      /\ new \in OpenUnits
  <2>1. NoWrites \in Writes /\ DOMAIN NoWrites = {}
    <3>1. NoWrites \in [{} -> Nat \ {0}] /\ DOMAIN NoWrites = {}
      BY DEF NoWrites
    <3>2. {} \in SUBSET Keys
      OBVIOUS
    <3> QED
      BY <3>1, <3>2 DEF Writes
  <2>2. \A i \in DOMAIN operations : operations[i].key \in Keys
    BY <1>1 DEF OnKeys
  <2>3. opened + 1 \in Nat \ {0} /\ database \in Rows
    BY DEF UnitsInv, UnitsTypeOK
  <2> QED
    BY <1>2, <2>1, <2>2, <2>3 DEF OpenUnits
<1> HIDE DEF new
<1>5. /\ unit'[w] = new /\ \A v \in UnitWriters : v # w => unit'[v] = unit[v]
      /\ unit' \in [UnitWriters -> {Idle} \cup OpenUnits]
  BY <1>1, <1>4 DEF UnitsInv, UnitsTypeOK, new
<1>6. UnitsTypeOK'
  BY <1>3, <1>5 DEF UnitsInv, UnitsTypeOK
<1>7. UnitsAreWhole'
  <2>1. \A v \in UnitWriters : ToWrite(v)' = {unit'[v].todo[i].key : i \in DOMAIN unit'[v].todo}
    BY DEF ToWrite
  <2>2. ToWrite(w)' = new.keys
    BY <1>4, <1>5, <2>1
  <2>3. \A v \in UnitWriters : v # w => ToWrite(v)' = ToWrite(v)
    BY <1>5, <2>1 DEF ToWrite
  <2> QED
    BY <1>4, <1>5, <2>2, <2>3 DEF UnitsInv, UnitsAreWhole
<1>8. UnitsAreApart'
  <2>1. unitBackend = "v1-memory" => \A v \in UnitWriters : unit[v].at = "idle"
    BY <1>3
  <2> QED
    BY <1>3, <1>4, <1>5, <2>1 DEF UnitsInv, UnitsAreApart
<1>9. LastSequence(database)' = LastSequence(database) /\ LastSequence(database) \in Nat
  BY <1>3, LastSequenceIsLargest DEF LastSequence
<1>10. EventsAreNext'
  <2>1. known[w].sequence \in Nat /\ known[w].sequence <= LastSequence(database)
    BY DEF UnitsInv, UnitsTypeOK, EventsAreNext
  <2>2. \A s \in 1 .. UnitBound : Event(s) \in new.keys => s <= LastSequence(database) + 1
    BY <1>2, <1>4, <1>9, <2>1
  <2> QED
    BY <1>3, <1>4, <1>5, <1>9, <2>2 DEF UnitsInv, EventsAreNext
<1>11. UnitsAreSerial' /\ EventsInOrder'
  BY <1>3 DEF UnitsInv, UnitsAreSerial, EventsInOrder
<1> QED
  BY <1>3, <1>6, <1>7, <1>8, <1>10, <1>11 DEF UnitsInv

\* An operation that the store takes adds its key to what the unit has locked;
\* one that it refuses ends the unit (add_*, save_*, _flush and __exit__).
LEMMA OperateKeeps ==
    ASSUME UnitsInv, NEW w \in UnitWriters, Operate(w)
    PROVE  UnitsInv'
<1>1. /\ unit[w].at = "open" /\ unit[w].todo # << >>
      /\ UNCHANGED <<unitBackend, database, known, opened, committed>>
  BY DEF Operate
<1>2. PICK operation : operation = Head(unit[w].todo)
  OBVIOUS
<1>3. PICK k : k = operation.key
  OBVIOUS
<1>4. ~ LockedOut(w, k)
  BY <1>2, <1>3 DEF Operate
<1>5. CASE Refused(w)
  BY <1>1, <1>5, DiscardKeeps DEF Refused
<1>6. ASSUME OperationAccepted(w, operation),
             unit' = [unit EXCEPT
                      ![w].todo = Tail(@),
                      ![w].writes = [i \in DOMAIN @ \cup {k} |->
                                        IF i = k THEN unit[w].id ELSE @[i]]]
      PROVE  UnitsInv'
  <2> DEFINE more == [i \in DOMAIN unit[w].writes \cup {k} |->
                         IF i = k THEN unit[w].id ELSE unit[w].writes[i]]
             new == [unit[w] EXCEPT !.todo = Tail(unit[w].todo), !.writes = more]
  <2>1. unit[w] \in OpenUnits /\ unit \in [UnitWriters -> {Idle} \cup OpenUnits]
    BY <1>1, OpenUnitsHaveType DEF UnitsInv, UnitsTypeOK
  <2>2. /\ unit[w].todo \in Seq(UnitOperations) /\ unit[w].writes \in Writes
        /\ unit[w].id \in Nat \ {0}
    BY <2>1 DEF OpenUnits
  <2>3. operation \in UnitOperations /\ k \in Keys /\ Tail(unit[w].todo) \in Seq(UnitOperations)
    <3>1. Head(unit[w].todo) \in UnitOperations /\ Tail(unit[w].todo) \in Seq(UnitOperations)
      BY <1>1, <2>2, HeadTailProperties
    <3> QED
      BY <1>2, <1>3, <3>1 DEF UnitOperations
  <2>4. {unit[w].todo[i].key : i \in DOMAIN unit[w].todo}
           = {k} \cup {Tail(unit[w].todo)[i].key : i \in DOMAIN Tail(unit[w].todo)}
    <3> DEFINE q == unit[w].todo
    <3>1. /\ q \in Seq(UnitOperations) /\ q # << >> /\ DOMAIN q = 1 .. Len(q) /\ Len(q) \in Nat \ {0}
          /\ DOMAIN Tail(q) = 1 .. (Len(q) - 1)
          /\ \A i \in 1 .. (Len(q) - 1) : Tail(q)[i] = q[i + 1]
          /\ q[1].key = k
      BY <1>1, <1>2, <1>3, <2>2
    <3> HIDE DEF q
    <3>2. ASSUME NEW i \in DOMAIN q
          PROVE  q[i].key = k \/ \E j \in DOMAIN Tail(q) : q[i].key = Tail(q)[j].key
      <4>1. CASE i = 1
        BY <3>1, <4>1
      <4>2. CASE i # 1
        <5>1. i - 1 \in DOMAIN Tail(q) /\ Tail(q)[i - 1] = q[i]
          BY <3>1, <4>2
        <5> QED
          BY <5>1
      <4> QED
        BY <4>1, <4>2
    <3>3. \A j \in DOMAIN Tail(q) : \E i \in DOMAIN q : q[i].key = Tail(q)[j].key
      <4> TAKE j \in DOMAIN Tail(q)
      <4>1. j + 1 \in DOMAIN q /\ Tail(q)[j] = q[j + 1]
        BY <3>1
      <4> QED
        BY <4>1
    <3>4. \E i \in DOMAIN q : q[i].key = k
      BY <3>1
    <3>5. {q[i].key : i \in DOMAIN q} = {k} \cup {Tail(q)[i].key : i \in DOMAIN Tail(q)}
      BY <3>2, <3>3, <3>4
    <3> QED
      BY <3>5 DEF q
  <2>5. /\ DOMAIN more = DOMAIN unit[w].writes \cup {k} /\ more \in Writes
        /\ \A i \in DOMAIN more : more[i] = unit[w].id
    <3>1. /\ DOMAIN unit[w].writes \subseteq Keys
          /\ \A i \in DOMAIN unit[w].writes : unit[w].writes[i] = unit[w].id
      BY <1>1, ViewIsCurrent
    <3>2. /\ DOMAIN more = DOMAIN unit[w].writes \cup {k}
          /\ \A i \in DOMAIN more : more[i] = unit[w].id
      BY <3>1
    <3>3. more \in [DOMAIN unit[w].writes \cup {k} -> Nat \ {0}]
      BY <2>2, <3>1
    <3>4. DOMAIN unit[w].writes \cup {k} \in SUBSET Keys
      BY <2>3, <3>1
    <3> QED
      BY <3>2, <3>3, <3>4 DEF Writes
  <2> HIDE DEF more
  <2>6. /\ new.at = "open" /\ new.id = unit[w].id /\ new.keys = unit[w].keys
        /\ new.copy = unit[w].copy /\ new.todo = Tail(unit[w].todo) /\ new.writes = more
        /\ new \in OpenUnits
    BY <1>1, <2>1, <2>3, <2>5 DEF OpenUnits
  <2>7. unit' = [unit EXCEPT ![w] = new]
    BY <1>6, <2>1 DEF more, OpenUnits
  <2> HIDE DEF new
  <2>8. /\ unit'[w] = new /\ \A v \in UnitWriters : v # w => unit'[v] = unit[v]
        /\ unit' \in [UnitWriters -> {Idle} \cup OpenUnits]
    BY <2>1, <2>6, <2>7
  <2>9. UnitsTypeOK'
    BY <1>1, <2>8 DEF UnitsInv, UnitsTypeOK
  <2>10. UnitsAreWhole'
    <3>1. \A v \in UnitWriters : ToWrite(v)' = {unit'[v].todo[i].key : i \in DOMAIN unit'[v].todo}
      BY DEF ToWrite
    <3>2. ToWrite(w)' = {Tail(unit[w].todo)[i].key : i \in DOMAIN Tail(unit[w].todo)}
      BY <2>6, <2>8, <3>1
    <3>3. DOMAIN more \cup ToWrite(w)' = unit[w].keys
      <4>1. DOMAIN unit[w].writes \cup ToWrite(w) = unit[w].keys
        BY <1>1 DEF UnitsInv, UnitsAreWhole
      <4> QED
        BY <2>4, <2>5, <3>2, <4>1 DEF ToWrite
    <3>4. \A v \in UnitWriters : v # w => ToWrite(v)' = ToWrite(v)
      BY <2>8, <3>1 DEF ToWrite
    <3> QED
      BY <2>5, <2>6, <2>8, <3>3, <3>4 DEF UnitsInv, UnitsAreWhole
  <2>11. ASSUME NEW v \in UnitWriters, v # w, unit[v].at = "open"
         PROVE  /\ DOMAIN unit[v].writes \cap DOMAIN more = {}
                /\ unitBackend # "v1-memory"
                /\ unitBackend = "v1-sqlite" => DOMAIN unit[v].writes = {}
    <3>1. unitBackend # "v1-memory"
      BY <1>1, <2>11 DEF UnitsInv, UnitsAreApart
    <3>2. DOMAIN unit[v].writes \cap DOMAIN unit[w].writes = {}
      BY <1>1, <2>11 DEF UnitsInv, UnitsAreApart
    <3>3. /\ unitBackend = "v1-sqlite" => DOMAIN unit[v].writes = {}
          /\ unitBackend = "v1-postgres" => k \notin DOMAIN unit[v].writes
      BY <1>4, <2>11 DEF LockedOut
    <3>4. unitBackend \in {"v1-memory", "v1-sqlite", "v1-postgres"}
      BY DEF UnitsInv
    <3> QED
      BY <2>5, <3>1, <3>2, <3>3, <3>4
  <2>12. UnitsAreApart'
    <3>1. ASSUME NEW u \in UnitWriters, unit'[u].at = "open"
          PROVE  /\ unitBackend = "v1-memory" =>
                      unit'[u].copy = database /\ \A v \in UnitWriters \ {u} : unit'[v].at = "idle"
                 /\ \A v \in UnitWriters \ {u} : unit'[v].at = "open" =>
                      DOMAIN unit'[v].writes \cap DOMAIN unit'[u].writes = {}
                 /\ unitBackend = "v1-sqlite" => \A v \in UnitWriters \ {u} : unit'[v].at = "open" =>
                      DOMAIN unit'[v].writes = {} \/ DOMAIN unit'[u].writes = {}
      <4>1. CASE u = w
        BY <1>1, <2>6, <2>8, <2>11, <4>1 DEF UnitsInv, UnitsAreApart
      <4>2. CASE u # w
        <5>1. unit'[u] = unit[u] /\ unit[u].at = "open"
          BY <2>8, <3>1, <4>2
        <5>2. /\ DOMAIN unit[u].writes \cap DOMAIN more = {} /\ unitBackend # "v1-memory"
              /\ unitBackend = "v1-sqlite" => DOMAIN unit[u].writes = {}
          BY <2>11, <4>2, <5>1
        <5>3. \A v \in UnitWriters \ {u} : v # w => unit'[v] = unit[v]
          BY <2>8
        <5>4. \A v \in UnitWriters \ {u} : unit'[v].at = "open" =>
                 DOMAIN unit'[v].writes \cap DOMAIN unit'[u].writes = {}
          <6> TAKE v \in UnitWriters \ {u}
          <6>1. CASE v = w
            BY <2>6, <2>8, <5>1, <5>2, <6>1
          <6>2. CASE v # w
            BY <5>1, <5>3, <6>2 DEF UnitsInv, UnitsAreApart
          <6> QED
            BY <6>1, <6>2
        <5> QED
          BY <5>1, <5>2, <5>4
      <4> QED
        BY <4>1, <4>2
    <3> QED
      BY <1>1, <3>1 DEF UnitsAreApart
  <2>13. LastSequence(database)' = LastSequence(database) /\ LastSequence(database) \in Nat
    BY <1>1, LastSequenceIsLargest DEF LastSequence
  <2>14. ASSUME NEW s \in 1 .. UnitBound, k = Event(s)
         PROVE  s > LastSequence(database)
    <3>1. k[1] = "event" /\ k[2] = s
      BY <2>14, KeysDiffer
    <3>2. s > LastSequence(View(w))
      <4>1. k # Output
        BY <2>14, KeysDiffer
      <4>2. EventTaken(w, k)
        BY <1>3, <1>6, <3>1, <4>1 DEF OperationAccepted
      <4> QED
        BY <3>1, <4>2 DEF EventTaken, SequenceAccepted
    <3>3. LastSequence(database) <= LastSequence(View(w))
      <4>1. \A r \in 1 .. UnitBound : database[Event(r)] # NoUnit => View(w)[Event(r)] # NoUnit
        BY <1>1, ViewIsCurrent, EventKeys
      <4> QED
        BY <4>1, LastSequenceGrows
    <3> QED
      BY <2>13, <3>2, <3>3, LastSequenceIsLargest
  <2>15. EventsAreNext'
    <3>1. \A s \in 1 .. UnitBound :
             /\ Event(s) \in new.keys => s <= LastSequence(database) + 1
             /\ Event(s) \in DOMAIN more => s > LastSequence(database)
      BY <1>1, <2>5, <2>6, <2>14 DEF UnitsInv, EventsAreNext
    <3> QED
      BY <1>1, <2>6, <2>8, <2>13, <3>1 DEF UnitsInv, EventsAreNext
  <2>16. UnitsAreSerial' /\ EventsInOrder'
    BY <1>1 DEF UnitsInv, UnitsAreSerial, EventsInOrder
  <2> QED
    BY <1>1, <2>9, <2>10, <2>12, <2>15, <2>16 DEF UnitsInv
<1> QED
  BY <1>2, <1>3, <1>5, <1>6 DEF Operate

\* A unit that commits puts its writes over the rows of those before it.
LEMMA CommitUnitKeeps ==
    ASSUME UnitsInv, NEW w \in UnitWriters, CommitUnit(w)
    PROVE  UnitsInv'
<1>1. /\ unit[w].at = "open" /\ unit[w].todo = << >>
      /\ database' = View(w)
      /\ unit' = Discarded(w)
      /\ UNCHANGED <<unitBackend, opened>>
  BY DEF CommitUnit, Install
<1>2. PICK id : id = unit[w].id
  OBVIOUS
<1>3. PICK keys : keys = DOMAIN unit[w].writes
  OBVIOUS
<1>4. PICK row : row = [k \in keys |-> id]
  OBVIOUS
<1>5. unit[w].keys = keys
  <2>1. ToWrite(w) = {}
    BY <1>1 DEF ToWrite
  <2> QED
    BY <1>1, <1>3, <2>1 DEF UnitsInv, UnitsAreWhole
<1>6. /\ id \in Nat \ {0} /\ keys \subseteq Keys
      /\ database' \in Rows /\ database \in Rows
      /\ \A k \in Keys : database'[k] = IF k \in keys THEN id ELSE database[k]
  <2>1. \A k \in keys : unit[w].writes[k] = id
    BY <1>1, <1>2, <1>3, ViewIsCurrent
  <2> QED
    BY <1>1, <1>2, <1>3, <2>1, ViewIsCurrent DEF UnitsInv, UnitsTypeOK
<1>7. row \in Writes /\ DOMAIN row = keys /\ \A k \in keys : row[k] = id
  BY <1>4, <1>6 DEF Writes
<1>8. PICK n : n = Len(committed)
  OBVIOUS
<1>9. /\ committed \in Seq(Writes) /\ n \in Nat /\ DOMAIN committed = 1 .. n
      /\ committed' = Append(committed, row) /\ committed' \in Seq(Writes)
      /\ DOMAIN committed' = 1 .. (n + 1) /\ committed'[n + 1] = row
      /\ \A i \in 1 .. n : committed'[i] = committed[i]
  <2>1. committed' = Append(committed, row)
    BY <1>2, <1>4, <1>5 DEF CommitUnit
  <2>2. committed \in Seq(Writes)
    BY DEF UnitsInv, UnitsTypeOK
  <2> QED
    BY <1>7, <1>8, <2>1, <2>2, LenProperties, AppendProperties
<1>10. /\ unit'[w] = Idle /\ \A v \in UnitWriters : v # w => unit'[v] = unit[v]
       /\ unit' \in [UnitWriters -> {Idle} \cup OpenUnits]
       /\ unit'[w].at = "idle"
  BY <1>1 DEF UnitsInv, UnitsTypeOK, Discarded, Idle
\* What the database holds is what was committed, one event after the other.
<1>11. PICK last : last = LastSequence(database)
  OBVIOUS
<1>12. PICK next : next = LastSequence(database')
  OBVIOUS
<1>13. /\ last \in 0 .. UnitBound /\ next \in 0 .. UnitBound /\ last <= next
       /\ \A s \in 1 .. UnitBound : database[Event(s)] # NoUnit => s <= last
       /\ \A s \in 1 .. UnitBound : database'[Event(s)] # NoUnit => s <= next
       /\ next = 0 \/ (next \in 1 .. UnitBound /\ database'[Event(next)] # NoUnit)
  <2>1. \A s \in 1 .. UnitBound : database[Event(s)] # NoUnit => database'[Event(s)] # NoUnit
    BY <1>6, EventKeys DEF NoUnit
  <2> QED
    BY <1>11, <1>12, <2>1, LastSequenceIsLargest, LastSequenceGrows
<1>14. \A s \in 1 .. UnitBound : Event(s) \in keys => s > last /\ s <= last + 1
  BY <1>1, <1>3, <1>5, <1>11 DEF UnitsInv, EventsAreNext
<1>15. next = last \/ (next = last + 1 /\ next \in 1 .. UnitBound /\ Event(next) \in keys)
  <2>1. CASE next = 0
    BY <1>13, <2>1
  <2>2. CASE next # 0
    <3>1. next \in 1 .. UnitBound /\ database'[Event(next)] # NoUnit /\ Event(next) \in Keys
      BY <1>13, <2>2, EventKeys
    <3>2. CASE Event(next) \in keys
      BY <1>13, <1>14, <3>1, <3>2
    <3>3. CASE Event(next) \notin keys
      BY <1>6, <1>13, <3>1, <3>3
    <3> QED
      BY <3>2, <3>3
  <2> QED
    BY <2>1, <2>2
<1>16. PICK seqs : seqs = {known[w].sequence} \cup
                            {s \in 1 .. UnitBound : Event(s) \in DOMAIN unit[w].writes}
  OBVIOUS
<1>17. PICK numbers : numbers = {known[w].attempts} \cup
                            {a \in 1 .. AttemptBound : Attempt(a) \in DOMAIN unit[w].writes}
  OBVIOUS
<1>18. /\ known \in [UnitWriters -> [sequence: Nat, attempts: Nat]]
       /\ known[w].sequence \in Nat /\ known[w].attempts \in Nat
       /\ \A v \in UnitWriters : known[v].sequence \in Nat /\ known[v].sequence <= last
  BY <1>11 DEF UnitsInv, UnitsTypeOK, EventsAreNext
<1>19. /\ Max(seqs) \in Nat /\ Max(seqs) <= next
       /\ Max(numbers) \in Nat
  <2>1. Max(seqs) \in seqs
    <3>1. seqs \in SUBSET (0 .. UnitBound) /\ seqs # {} /\ UnitBound \in Nat
      BY <1>13, <1>16, <1>18, UnitBounds
    <3> QED
      BY <3>1, MaxIsLargest
  <2>2. \A s \in seqs : s \in Nat /\ s <= next
    <3>1. ASSUME NEW s \in 1 .. UnitBound, Event(s) \in keys
          PROVE  s <= next
      <4>1. Event(s) \in Keys /\ database'[Event(s)] # NoUnit
        BY <1>6, <3>1 DEF NoUnit
      <4> QED
        BY <1>13, <4>1
    <3> QED
      BY <1>3, <1>13, <1>16, <1>18, <3>1
  <2>3. Max(numbers) \in numbers
    <3>1. known[w].attempts + AttemptBound \in Nat
      BY <1>18, UnitBounds
    <3>2. numbers \in SUBSET (0 .. (known[w].attempts + AttemptBound)) /\ numbers # {}
      BY <1>17, <1>18, UnitBounds
    <3> QED
      BY <3>1, <3>2, MaxIsLargest
  <2>4. \A a \in numbers : a \in Nat
    BY <1>17, <1>18
  <2> QED
    BY <2>1, <2>2, <2>3, <2>4
<1>20. /\ known' \in [UnitWriters -> [sequence: Nat, attempts: Nat]]
       /\ \A v \in UnitWriters : known'[v].sequence <= next
  <2>1. known' = [known EXCEPT ![w] = [sequence |-> Max(seqs), attempts |-> Max(numbers)]]
    BY <1>16, <1>17 DEF CommitUnit
  <2>2. \A v \in UnitWriters : v # w => known'[v] = known[v]
    BY <1>18, <2>1
  <2>3. known'[w].sequence = Max(seqs)
    BY <1>18, <2>1
  <2>4. \A v \in UnitWriters : v # w => known'[v].sequence <= next
    BY <1>13, <1>18, <2>2
  <2> QED
    BY <1>18, <1>19, <2>1, <2>3, <2>4
<1>21. UnitsTypeOK'
  BY <1>1, <1>6, <1>9, <1>10, <1>20 DEF UnitsInv, UnitsTypeOK
<1>22. UnitsAreWhole'
  BY <1>10 DEF UnitsInv, UnitsAreWhole, ToWrite
\* Nobody had a copy of the state while a unit of the memory store was open.
<1>23. unitBackend = "v1-memory" => \A v \in UnitWriters \ {w} : unit[v].at = "idle"
  BY <1>1 DEF UnitsInv, UnitsAreApart
<1>24. UnitsAreApart'
  BY <1>1, <1>10, <1>23 DEF UnitsInv, UnitsAreApart
<1>25. LastSequence(database)' = next
  BY <1>12 DEF LastSequence
<1>26. EventsAreNext'
  <2>1. ASSUME NEW v \in UnitWriters, unit'[v].at = "open", NEW s \in 1 .. UnitBound
        PROVE  /\ Event(s) \in unit'[v].keys => s <= next + 1
               /\ Event(s) \in DOMAIN unit'[v].writes => s > next
    <3>1. v # w /\ unit'[v] = unit[v] /\ unit[v].at = "open"
      BY <1>10, <2>1
    <3>2. Event(s) \in unit[v].keys => s <= next + 1
      <4>1. Event(s) \in unit[v].keys => s <= last + 1
        BY <1>11, <3>1 DEF UnitsInv, EventsAreNext
      <4> QED
        BY <1>13, <4>1
    <3>3. ASSUME Event(s) \in DOMAIN unit[v].writes
          PROVE  s > next
      <4>1. s > last
        BY <1>11, <3>1, <3>3 DEF UnitsInv, EventsAreNext
      <4>2. s <= last + 1
        <5>1. DOMAIN unit[v].writes \cup ToWrite(v) = unit[v].keys
          BY <3>1 DEF UnitsInv, UnitsAreWhole
        <5> QED
          BY <1>11, <3>1, <3>3, <5>1 DEF UnitsInv, EventsAreNext
      <4>3. Event(s) \notin keys
        BY <1>1, <1>3, <3>1, <3>3 DEF UnitsInv, UnitsAreApart
      <4>4. CASE next = last
        BY <4>1, <4>4
      <4>5. CASE next = last + 1 /\ Event(next) \in keys
        <5>1. s = next
          BY <1>13, <4>1, <4>2, <4>5
        <5> QED
          BY <4>3, <4>5, <5>1
      <4> QED
        BY <1>15, <4>4, <4>5
    <3> QED
      BY <3>1, <3>2, <3>3
  <2> QED
    BY <1>20, <1>25, <2>1 DEF EventsAreNext
<1>27. UnitsAreSerial'
  <2>1. ASSUME NEW k \in Keys
        PROVE  \/ /\ database'[k] = NoUnit
                  /\ \A i \in DOMAIN committed' : k \notin DOMAIN committed'[i]
               \/ \E i \in DOMAIN committed' :
                     /\ k \in DOMAIN committed'[i] /\ database'[k] = committed'[i][k]
                     /\ \A j \in DOMAIN committed' : j > i => k \notin DOMAIN committed'[j]
    <3>1. CASE k \in keys
      <4>1. /\ n + 1 \in DOMAIN committed' /\ k \in DOMAIN committed'[n + 1]
            /\ database'[k] = committed'[n + 1][k]
            /\ \A j \in DOMAIN committed' : ~ (j > n + 1)
        BY <1>6, <1>7, <1>9, <3>1
      <4> QED
        BY <4>1
    <3>2. CASE k \notin keys
      <4>1. database'[k] = database[k] /\ k \notin DOMAIN committed'[n + 1]
        BY <1>6, <1>7, <1>9, <3>2
      <4>2. CASE database[k] = NoUnit /\ \A i \in DOMAIN committed : k \notin DOMAIN committed[i]
        <5>1. \A i \in DOMAIN committed' : i \in 1 .. n \/ i = n + 1
          BY <1>9
        <5> QED
          BY <1>9, <4>1, <4>2, <5>1
      <4>3. ASSUME NEW i \in DOMAIN committed,
                   k \in DOMAIN committed[i], database[k] = committed[i][k],
                   \A j \in DOMAIN committed : j > i => k \notin DOMAIN committed[j]
            PROVE  /\ i \in DOMAIN committed' /\ k \in DOMAIN committed'[i]
                   /\ database'[k] = committed'[i][k]
                   /\ \A j \in DOMAIN committed' : j > i => k \notin DOMAIN committed'[j]
        <5>1. \A j \in DOMAIN committed' : j \in 1 .. n \/ j = n + 1
          BY <1>9
        <5> QED
          BY <1>9, <4>1, <4>3, <5>1
      <4> QED
        BY <4>2, <4>3 DEF UnitsInv, UnitsAreSerial
    <3> QED
      BY <3>1, <3>2
  <2> QED
    BY <2>1 DEF UnitsAreSerial
\* The event of a committed unit is stored, so the next one is larger.
<1>28. EventsInOrder'
  <2>1. ASSUME NEW i \in 1 .. n, NEW s \in 1 .. UnitBound, Event(s) \in DOMAIN committed[i]
        PROVE  s <= last
    <3>1. Event(s) \in Keys
      BY EventKeys
    <3>2. PICK j \in DOMAIN committed :
             Event(s) \in DOMAIN committed[j] /\ database[Event(s)] = committed[j][Event(s)]
      BY <1>9, <2>1, <3>1 DEF UnitsInv, UnitsAreSerial
    <3>3. committed[j] \in Writes
      BY <1>9, <3>2
    <3>4. committed[j][Event(s)] \in Nat \ {0}
      BY <3>2, <3>3 DEF Writes
    <3> QED
      BY <1>13, <3>2, <3>4 DEF NoUnit
  <2>2. ASSUME NEW i \in DOMAIN committed', NEW j \in DOMAIN committed', i < j,
               NEW s \in 1 .. UnitBound, NEW r \in 1 .. UnitBound,
               Event(s) \in DOMAIN committed'[i], Event(r) \in DOMAIN committed'[j]
        PROVE  s < r
    <3>1. i \in 1 .. n /\ Event(s) \in DOMAIN committed[i]
      BY <1>9, <2>2
    <3>2. CASE j = n + 1
      <4>1. Event(r) \in keys
        BY <1>7, <1>9, <2>2, <3>2
      <4> QED
        BY <1>13, <1>14, <2>1, <3>1, <4>1
    <3>3. CASE j # n + 1
      <4>1. j \in 1 .. n /\ Event(r) \in DOMAIN committed[j]
        BY <1>9, <2>2, <3>3
      <4> QED
        BY <1>9, <2>2, <3>1, <4>1 DEF UnitsInv, EventsInOrder
    <3> QED
      BY <3>2, <3>3
  <2> QED
    BY <2>2 DEF EventsInOrder
<1> QED
  BY <1>1, <1>21, <1>22, <1>24, <1>26, <1>27, <1>28 DEF UnitsInv

\* On the databases, and on the memory store as long as its units do not overlap
\* (MemoryUnitOfWork.commit replaces the whole state), the units of work that
\* write one run follow one another: the rows are those of the committed units in
\* the order of their commits, and the events follow it.
THEOREM UnitsFollow ==
    "v1-memory" \notin Overlapping => (UnitSpec => []UnitsFollowEachOther)
<1> SUFFICES ASSUME "v1-memory" \notin Overlapping
             PROVE  UnitSpec => []UnitsFollowEachOther
  OBVIOUS
<1>1. InitUnits => UnitsInv
  BY InitUnitsInv
<1>2. UnitsInv /\ [UnitNext]_unitVars => UnitsInv'
  <2> SUFFICES ASSUME UnitsInv, [UnitNext]_unitVars
               PROVE  UnitsInv'
    OBVIOUS
  <2>1. ASSUME NEW w \in UnitWriters, Load(w)
        PROVE  UnitsInv'
    BY <2>1, LoadKeeps
  <2>2. ASSUME NEW w \in UnitWriters, OpenUnit(w)
        PROVE  UnitsInv'
    BY <2>2, OpenUnitKeeps
  <2>3. ASSUME NEW w \in UnitWriters, Operate(w)
        PROVE  UnitsInv'
    BY <2>3, OperateKeeps
  <2>4. ASSUME NEW w \in UnitWriters, FlushTimesOut(w)
        PROVE  UnitsInv'
    BY <2>4, DiscardKeeps DEF FlushTimesOut, Refused
  <2>5. ASSUME NEW w \in UnitWriters, CommitUnit(w)
        PROVE  UnitsInv'
    BY <2>5, CommitUnitKeeps
  <2>6. ASSUME NEW w \in UnitWriters, Dies(w)
        PROVE  UnitsInv'
    BY <2>6, DiscardKeeps DEF Dies
  <2>7. ASSUME UNCHANGED unitVars
        PROVE  UnitsInv'
    <3>1. LastSequence(database)' = LastSequence(database)
      BY <2>7 DEF unitVars, LastSequence
    <3> QED
      BY <2>7, <3>1 DEF unitVars, UnitsInv, UnitsTypeOK, UnitsAreWhole, ToWrite, UnitsAreApart,
                        EventsAreNext, UnitsAreSerial, EventsInOrder
  <2> QED
    BY <2>1, <2>2, <2>3, <2>4, <2>5, <2>6, <2>7 DEF UnitNext
<1>3. UnitsInv => UnitsFollowEachOther
  BY DEF UnitsInv, UnitsFollowEachOther
<1> QED
  BY <1>1, <1>2, <1>3, PTL DEF UnitSpec

-----------------------------------------------------------------------------
(* The plugin catalogs.                                                    *)

Offers == [type : PluginTypes, name : PluginNames, yields : Yields]
Catalogs == [Identities -> Registrations \cup {Nothing}]

PluginsTypeOK ==
    /\ offered \in Seq(Offers) /\ candidates \in Seq(Offers)
    /\ report \in Seq(DiscoveryStatus) /\ Len(report) <= Len(candidates)
    /\ catalog \in Catalogs /\ catalogBefore \in Catalogs

\* Of the results so far: who was not asked for was not loaded, and who
\* registered made a registration.
ResultsAreEarned ==
    \A i \in DOMAIN report :
        /\ report[i] = "DISCOVERED" <=> ~ Enabled(candidates[i])
        /\ report[i] = "REGISTERED" => candidates[i].yields \in Registrations

\* What the call has changed so far, for one name of one type.
ChangeIsTold(id) ==
    IF Holders(id) = {} THEN catalog[id] = catalogBefore[id]
    ELSE /\ catalogBefore[id] = Nothing
         /\ \E i \in Holders(id) :
               /\ Holders(id) = {i}
               /\ catalog[id] = candidates[i].yields
               /\ \A j \in 1..(i - 1) : Identity(candidates[j]) = id =>
                     report[j] \in {"INCOMPATIBLE", "FAILED"}

\* A V2 registry holds what was made for its type and this API version.
RegistriesAreCurrent ==
    pluginVersion = "v2" => \A id \in Identities : catalog[id] # Nothing =>
        catalog[id].type = id[1] /\ catalog[id].api = "current"

PluginsInv ==
    /\ PluginsTypeOK
    /\ candidates # << >> => candidates = Discovered(DOMAIN enabled)
    /\ ResultsAreEarned
    /\ \A id \in Identities : ChangeIsTold(id)
    /\ RegistriesAreCurrent
    /\ InstancesFit

\* discover answers some of the entry points installed.
LEMMA DiscoveredAreOffered ==
    ASSUME offered \in Seq(Offers), NEW types
    PROVE  Discovered(types) \in Seq(Offers)
<1> DEFINE wanted == IF types = {} THEN PluginTypes ELSE types
           Step(i, before) ==
               IF offered[i].type \in wanted THEN Append(before, offered[i]) ELSE before
           Finds(f, n) == f = [i \in 0 .. n |-> IF i = 0 THEN << >> ELSE Step(i, f[i - 1])]
           n == Len(offered)
           Lacking == {m \in 0 .. n : ~ \E f \in [0 .. m -> Seq(Offers)] : Finds(f, m)}
           found == CHOOSE f : Finds(f, n)
<1>1. n \in Nat /\ DOMAIN offered = 1 .. n /\ \A i \in 1 .. n : offered[i] \in Offers
  BY LenProperties
<1>2. \A i \in 1 .. n : \A q \in Seq(Offers) : Step(i, q) \in Seq(Offers)
  BY <1>1, AppendProperties
<1>3. << >> \in Seq(Offers)
  OBVIOUS
<1> HIDE DEF Step
<1>4. Lacking = {}
  <2> SUFFICES ASSUME Lacking # {}
               PROVE  FALSE
    OBVIOUS
  <2>1. Lacking \in SUBSET Nat
    BY <1>1
  <2>2. PICK m \in Lacking : \A l \in Lacking : m <= l
    <3> HIDE DEF Lacking
    <3> QED
      BY <2>1, LeastNatural
  <2>3. m \in 0 .. n /\ ~ \E f \in [0 .. m -> Seq(Offers)] : Finds(f, m)
    BY <2>2
  <2>4. CASE m = 0
    <3> DEFINE f == [i \in 0 .. m |-> << >>]
    <3>1. f \in [0 .. m -> Seq(Offers)]
      BY <1>3
    <3>2. \A i \in 0 .. m : f[i] = IF i = 0 THEN << >> ELSE Step(i, f[i - 1])
      BY <2>4
    <3>3. Finds(f, m)
      BY <3>2
    <3> QED
      BY <2>3, <3>1, <3>3
  <2>5. CASE m # 0
    <3>1. m - 1 \in 0 .. n /\ ~ (m <= m - 1) /\ m \in 1 .. n
      BY <1>1, <2>3, <2>5
    <3>2. m - 1 \notin Lacking
      BY <2>2, <3>1
    <3>3. PICK g \in [0 .. (m - 1) -> Seq(Offers)] : Finds(g, m - 1)
      BY <3>1, <3>2
    <3> DEFINE f == [i \in 0 .. m |-> IF i = m THEN Step(m, g[m - 1]) ELSE g[i]]
    <3>4. \A i \in 0 .. (m - 1) : g[i] = IF i = 0 THEN << >> ELSE Step(i, g[i - 1])
      BY <3>3
    <3>5. \A i \in 0 .. m : f[i] = IF i = 0 THEN << >> ELSE Step(i, f[i - 1])
      <4> TAKE i \in 0 .. m
      <4>1. CASE i = m
        BY <1>1, <3>1, <4>1
      <4>2. CASE i # m
        <5>1. i \in 0 .. (m - 1) /\ f[i] = g[i]
          BY <3>1, <4>2
        <5>2. i # 0 => i - 1 \in 0 .. m /\ i - 1 # m
          BY <3>1, <5>1
        <5>3. i # 0 => f[i - 1] = g[i - 1]
          BY <5>2
        <5> HIDE DEF f
        <5> QED
          BY <3>4, <5>1, <5>3
      <4> QED
        BY <4>1, <4>2
    <3>6. f \in [0 .. m -> Seq(Offers)]
      <4>1. \A i \in 0 .. (m - 1) : g[i] \in Seq(Offers)
        OBVIOUS
      <4>2. \A i \in 0 .. m : i = m \/ i \in 0 .. (m - 1)
        BY <3>1
      <4>3. m - 1 \in 0 .. (m - 1)
        BY <3>1
      <4> QED
        BY <1>2, <3>1, <4>1, <4>2, <4>3
    <3>7. Finds(f, m)
      <4>1. f = [i \in 0 .. m |-> f[i]]
        OBVIOUS
      <4> HIDE DEF f
      <4> QED
        BY <3>5, <4>1
    <3> HIDE DEF f
    <3> QED
      BY <2>3, <3>6, <3>7
  <2> QED
    BY <2>4, <2>5
<1>5. \E f \in [0 .. n -> Seq(Offers)] : Finds(f, n)
  BY <1>1, <1>4, SMTT(20)
<1>6. Finds(found, n)
  BY <1>5
<1> HIDE DEF found
\* Whichever function the recursion names, its values are the same.
<1>7. PICK g \in [0 .. n -> Seq(Offers)] : Finds(g, n)
  BY <1>5
<1>8. /\ \A i \in 0 .. n : g[i] = IF i = 0 THEN << >> ELSE Step(i, g[i - 1])
      /\ \A i \in 0 .. n : found[i] = IF i = 0 THEN << >> ELSE Step(i, found[i - 1])
  BY <1>6, <1>7
<1>9. {i \in 0 .. n : found[i] # g[i]} = {}
  <2> SUFFICES ASSUME {i \in 0 .. n : found[i] # g[i]} # {}
               PROVE  FALSE
    OBVIOUS
  <2>1. PICK i \in {j \in 0 .. n : found[j] # g[j]} :
           \A m \in {j \in 0 .. n : found[j] # g[j]} : i <= m
    <3>1. {j \in 0 .. n : found[j] # g[j]} \in SUBSET Nat
      BY <1>1
    <3> QED
      BY <3>1, LeastNatural
  <2>2. i # 0
    BY <1>1, <1>8, <2>1
  <2>3. i - 1 \in 0 .. n /\ ~ (i <= i - 1)
    BY <1>1, <2>1, <2>2
  <2>4. found[i - 1] = g[i - 1]
    BY <2>1, <2>3
  <2> QED
    BY <1>8, <2>1, <2>2, <2>4
<1>10. found[n] \in Seq(Offers)
  <2>1. n \in 0 .. n
    BY <1>1
  <2> QED
    BY <1>7, <1>9, <2>1
<1>11. Discovered(types) = found[n]
  BY DEF Discovered, found, Step
<1> QED
  BY <1>10, <1>11

LEMMA InitPluginsInv ==
    ASSUME InitPlugins
    PROVE  PluginsInv
<1> USE DEF InitPlugins
<1>1. offered \in Seq(Offers)
  <2>1. offered \in SeqOf(Offers, OfferBound)
    BY DEF Offers
  <2>2. PICK m \in 0 .. OfferBound : offered \in [1 .. m -> Offers]
    BY <2>1 DEF SeqOf
  <2>3. m \in Nat
    BY PluginConstants
  <2> QED
    BY <2>2, <2>3, SeqDef
<1>2. /\ candidates = << >> /\ report = << >> /\ catalogBefore = catalog
      /\ Len(report) = 0 /\ Len(candidates) = 0 /\ DOMAIN report = {}
      /\ candidates \in Seq(Offers) /\ report \in Seq(DiscoveryStatus)
  OBVIOUS
<1>3. catalog \in Catalogs /\ \A id \in Identities : catalog[id] = Nothing
  BY DEF Catalogs
<1>4. PluginsTypeOK
  BY <1>1, <1>2, <1>3 DEF PluginsTypeOK
<1>5. \A id \in Identities : Holders(id) = {}
  BY <1>2 DEF Holders
<1>6. RegistriesAreCurrent /\ InstancesFit
  BY <1>3 DEF RegistriesAreCurrent, InstancesFit
<1> QED
  BY <1>2, <1>4, <1>5, <1>6 DEF PluginsInv, ResultsAreEarned, ChangeIsTold

LEMMA RegistrationFields ==
    /\ Nothing \notin Registrations
    /\ \A reg \in Registrations : Identity(reg) \in Identities /\ reg.is = "registration"
    /\ Yields \ Failures \subseteq Registrations
    /\ \A failure \in Failures : failure.is \in {"raises", "refuses", "other"}
<1>1. \A reg \in Registrations : reg.is = "registration"
  BY DEF Registrations
<1>2. Nothing.is = "nothing"
  BY DEF Nothing
<1>3. \A reg \in Registrations : Identity(reg) \in Identities
  BY DEF Registrations, Identity, Identities
<1>4. \A failure \in Failures : failure.is \in {"raises", "refuses", "other"}
  BY DEF Failures
<1> QED
  BY <1>1, <1>2, <1>3, <1>4, PluginConstants

\* A registry takes a registration of its type under a name it does not have.
LEMMA RegisteredKeeps ==
    ASSUME PluginsInv, NEW reg \in Registrations, NEW type, RegistrationAccepted(reg, type),
           Registered(reg), pluginVersion' = pluginVersion
    PROVE  /\ catalog' \in Catalogs /\ RegistriesAreCurrent'
           /\ Identity(reg) \in Identities /\ catalog[Identity(reg)] = Nothing
           /\ catalog'[Identity(reg)] = reg
           /\ \A id \in Identities : id # Identity(reg) => catalog'[id] = catalog[id]
<1>1. /\ reg.type = type /\ catalog[Identity(reg)] = Nothing
      /\ pluginVersion = "v2" => reg.api = "current"
  BY DEF RegistrationAccepted, Takes, LegacyTakes, Identity
<1>2. Identity(reg) \in Identities /\ Identity(reg)[1] = reg.type
  BY RegistrationFields DEF Identity
<1>3. catalog \in Catalogs /\ catalog' = [catalog EXCEPT ![Identity(reg)] = reg]
  BY DEF Registered, PluginsInv, PluginsTypeOK
<1>4. /\ catalog' \in Catalogs /\ catalog'[Identity(reg)] = reg
      /\ \A id \in Identities : id # Identity(reg) => catalog'[id] = catalog[id]
  BY <1>2, <1>3 DEF Catalogs
<1>5. RegistriesAreCurrent'
  BY <1>1, <1>2, <1>4 DEF RegistriesAreCurrent, PluginsInv
<1> QED
  BY <1>1, <1>2, <1>4, <1>5

\* Between calls nothing is left to tell.
LEMMA RegisterManuallyKeeps ==
    ASSUME PluginsInv, NEW reg \in Yields \ Failures, NEW type, RegisterManually(reg, type)
    PROVE  PluginsInv'
<1>1. /\ catalogBefore' = catalog' /\ candidates' = << >> /\ report' = << >>
      /\ UNCHANGED <<pluginVersion, offered, enabled, created>>
  BY DEF RegisterManually
<1>2. reg \in Registrations
  BY RegistrationFields
<1>3. catalog' \in Catalogs /\ RegistriesAreCurrent'
  <2>1. CASE RegistrationAccepted(reg, type) /\ Registered(reg)
    BY <1>1, <1>2, <2>1, RegisteredKeeps
  <2>2. CASE UNCHANGED catalog
    BY <1>1, <2>2 DEF PluginsInv, PluginsTypeOK, RegistriesAreCurrent
  <2> QED
    BY <2>1, <2>2 DEF RegisterManually
<1>4. /\ Len(report') = 0 /\ Len(candidates') = 0 /\ DOMAIN report' = {}
      /\ candidates' \in Seq(Offers) /\ report' \in Seq(DiscoveryStatus)
  BY <1>1
<1>5. PluginsTypeOK'
  BY <1>1, <1>3, <1>4 DEF PluginsInv, PluginsTypeOK
<1>6. \A id \in Identities : Holders(id)' = {}
  BY <1>4 DEF Holders
<1>7. InstancesFit'
  BY <1>1 DEF PluginsInv, InstancesFit
<1> QED
  BY <1>1, <1>3, <1>4, <1>5, <1>6, <1>7 DEF PluginsInv, ResultsAreEarned, ChangeIsTold

\* A call begins with nothing told.
LEMMA EnableSelectedKeeps ==
    ASSUME PluginsInv, NEW names, EnableSelected(names)
    PROVE  PluginsInv'
<1>1. /\ enabled' = names /\ candidates' = Discovered(DOMAIN names) /\ report' = << >>
      /\ catalogBefore' = catalog
      /\ UNCHANGED <<pluginVersion, offered, catalog, created>>
  BY DEF EnableSelected
<1>2. PICK types : types = DOMAIN names
  OBVIOUS
<1>3. candidates' = Discovered(types) /\ candidates' \in Seq(Offers)
  BY <1>1, <1>2, DiscoveredAreOffered DEF PluginsInv, PluginsTypeOK
<1>4. Discovered(DOMAIN enabled)' = Discovered(types)
  BY <1>1, <1>2 DEF Discovered
<1>5. /\ Len(report') = 0 /\ DOMAIN report' = {} /\ report' \in Seq(DiscoveryStatus)
      /\ Len(candidates') \in Nat
  BY <1>1, <1>3, LenProperties
<1>6. PluginsTypeOK'
  BY <1>1, <1>3, <1>5 DEF PluginsInv, PluginsTypeOK
<1>7. \A id \in Identities : Holders(id)' = {}
  BY <1>5 DEF Holders
<1>8. RegistriesAreCurrent' /\ InstancesFit'
  BY <1>1 DEF PluginsInv, RegistriesAreCurrent, InstancesFit
<1> QED
  BY <1>1, <1>3, <1>4, <1>5, <1>6, <1>7, <1>8 DEF PluginsInv, ResultsAreEarned, ChangeIsTold

\* What an outcome says of the entry point.
LEMMA OutcomeSays ==
    ASSUME NEW offer \in Offers
    PROVE  /\ Outcome(offer) \in DiscoveryStatus
           /\ Outcome(offer) = "DISCOVERED" <=> ~ Enabled(offer)
           /\ Outcome(offer) = "REGISTERED" =>
                 /\ offer.yields \in Registrations
                 /\ Identity(offer.yields) = Identity(offer)
                 /\ RegistrationAccepted(offer.yields, offer.type)
<1>1. offer.yields \in Yields
  BY DEF Offers
<1>2. CASE ~ Enabled(offer)
  BY <1>2 DEF Outcome, DiscoveryStatus
<1>3. ASSUME Enabled(offer), pluginVersion = "v2"
      PROVE  /\ Outcome(offer) \in DiscoveryStatus \ {"DISCOVERED"}
             /\ Outcome(offer) = "REGISTERED" =>
                   /\ offer.yields \in Registrations
                   /\ Identity(offer.yields) = Identity(offer)
                   /\ RegistrationAccepted(offer.yields, offer.type)
  <2>1. Outcome(offer) = CurrentOutcome(offer)
    BY <1>3 DEF Outcome
  <2>2. CurrentOutcome(offer) \in DiscoveryStatus \ {"DISCOVERED"}
    BY DEF CurrentOutcome, DiscoveryStatus
  <2>3. CurrentOutcome(offer) = "REGISTERED" =>
           Contract(offer.yields, offer) /\ Takes(offer.yields, offer.type)
    BY DEF CurrentOutcome
  <2>4. Contract(offer.yields, offer) => offer.yields \in Registrations
    BY <1>1, RegistrationFields DEF Contract
  <2> QED
    BY <1>3, <2>1, <2>2, <2>3, <2>4 DEF Contract, Identity, RegistrationAccepted
<1>4. ASSUME Enabled(offer), pluginVersion # "v2"
      PROVE  /\ Outcome(offer) \in DiscoveryStatus \ {"DISCOVERED"}
             /\ Outcome(offer) = "REGISTERED" =>
                   /\ offer.yields \in Registrations
                   /\ Identity(offer.yields) = Identity(offer)
                   /\ RegistrationAccepted(offer.yields, offer.type)
  <2>1. Outcome(offer) = LegacyOutcome(offer)
    BY <1>4 DEF Outcome
  <2>2. LegacyOutcome(offer) \in DiscoveryStatus \ {"DISCOVERED"}
    BY DEF LegacyOutcome, DiscoveryStatus
  <2>3. LegacyOutcome(offer) = "REGISTERED" =>
           /\ offer.yields.is \notin {"raises", "refuses", "other"}
           /\ LegacyContract(offer.yields, offer) /\ LegacyTakes(offer.yields, offer.type)
    BY DEF LegacyOutcome
  <2>4. offer.yields.is \notin {"raises", "refuses", "other"} => offer.yields \in Registrations
    BY <1>1, RegistrationFields
  <2> QED
    BY <1>4, <2>1, <2>2, <2>3, <2>4 DEF LegacyContract, Identity, RegistrationAccepted
<1> QED
  BY <1>2, <1>3, <1>4

\* One more result: what registered is the only one of its name, and no other
\* result touches the catalog.
LEMMA EnableNextKeeps ==
    ASSUME PluginsInv, EnableNext
    PROVE  PluginsInv'
<1>1. PICK n : n = Len(report)
  OBVIOUS
<1>2. PICK offer : offer = candidates[n + 1]
  OBVIOUS
<1>3. PICK outcome : outcome = Outcome(offer)
  OBVIOUS
<1>4. /\ candidates \in Seq(Offers) /\ report \in Seq(DiscoveryStatus)
      /\ n \in Nat /\ Len(candidates) \in Nat /\ n + 1 <= Len(candidates)
      /\ DOMAIN report = 1 .. n /\ DOMAIN candidates = 1 .. Len(candidates)
      /\ offer \in Offers
  <2>1. candidates \in Seq(Offers) /\ report \in Seq(DiscoveryStatus)
    BY DEF PluginsInv, PluginsTypeOK
  <2>2. Len(report) < Len(candidates)
    BY DEF EnableNext, Enabling
  <2> QED
    BY <1>1, <1>2, <2>1, <2>2, LenProperties
<1>5. /\ report' = Append(report, outcome)
      /\ IF outcome = "REGISTERED" THEN Registered(offer.yields) ELSE UNCHANGED catalog
      /\ UNCHANGED <<pluginVersion, offered, enabled, candidates, catalogBefore, created>>
  BY <1>1, <1>2, <1>3 DEF EnableNext
<1>6. /\ outcome \in DiscoveryStatus
      /\ outcome = "DISCOVERED" <=> ~ Enabled(offer)
      /\ outcome = "REGISTERED" =>
            /\ offer.yields \in Registrations
            /\ Identity(offer.yields) = Identity(offer)
            /\ RegistrationAccepted(offer.yields, offer.type)
  BY <1>3, <1>4, OutcomeSays
<1>7. /\ report' \in Seq(DiscoveryStatus) /\ Len(report') = n + 1
      /\ DOMAIN report' = 1 .. (n + 1) /\ report'[n + 1] = outcome
      /\ \A i \in 1 .. n : report'[i] = report[i]
  <2> HIDE DEF DiscoveryStatus
  <2> QED
    BY <1>1, <1>4, <1>5, <1>6, AppendProperties, LenProperties
<1>8. Identity(offer) \in Identities
  BY <1>4 DEF Offers, Identity, Identities
<1>9. /\ catalog' \in Catalogs /\ RegistriesAreCurrent'
      /\ outcome = "REGISTERED" =>
            /\ catalog[Identity(offer)] = Nothing
            /\ catalog'[Identity(offer)] = offer.yields
            /\ \A id \in Identities : id # Identity(offer) => catalog'[id] = catalog[id]
      /\ outcome # "REGISTERED" => catalog' = catalog
  <2>1. CASE outcome = "REGISTERED"
    <3>1. Registered(offer.yields)
      BY <1>5, <2>1
    <3> QED
      BY <1>5, <1>6, <2>1, <3>1, RegisteredKeeps
  <2>2. CASE outcome # "REGISTERED"
    BY <1>5, <2>2 DEF PluginsInv, PluginsTypeOK, RegistriesAreCurrent
  <2> QED
    BY <2>1, <2>2
<1>10. PluginsTypeOK'
  BY <1>4, <1>5, <1>7, <1>9 DEF PluginsInv, PluginsTypeOK
<1>11. \A o : Enabled(o)' = Enabled(o)
  BY <1>5 DEF Enabled
<1>12. ResultsAreEarned'
  <2>1. ASSUME NEW i \in 1 .. (n + 1)
        PROVE  /\ report'[i] = "DISCOVERED" <=> ~ Enabled(candidates[i])
               /\ report'[i] = "REGISTERED" => candidates[i].yields \in Registrations
    <3>1. CASE i = n + 1
      BY <1>2, <1>6, <1>7, <3>1
    <3>2. CASE i # n + 1
      <4>1. i \in DOMAIN report /\ report'[i] = report[i]
        BY <1>4, <1>7, <3>2
      <4> QED
        BY <4>1 DEF PluginsInv, ResultsAreEarned
    <3> QED
      BY <3>1, <3>2
  <2> QED
    BY <1>5, <1>7, <1>11, <2>1 DEF ResultsAreEarned, Enabled
<1>13. ASSUME NEW id \in Identities
       PROVE  Holders(id)' = IF outcome = "REGISTERED" /\ Identity(offer) = id
                             THEN Holders(id) \cup {n + 1} ELSE Holders(id)
  <2>1. Holders(id)' = {i \in 1 .. (n + 1) : report'[i] = "REGISTERED" /\ Identity(candidates[i]) = id}
    BY <1>5, <1>7 DEF Holders, Identity
  <2>2. Holders(id) = {i \in 1 .. n : report'[i] = "REGISTERED" /\ Identity(candidates[i]) = id}
    BY <1>4, <1>7 DEF Holders
  <2>3. \A i \in 1 .. (n + 1) : i \in 1 .. n \/ i = n + 1
    BY <1>4
  <2>4. \A i \in 1 .. n : i \in 1 .. (n + 1)
    BY <1>4
  <2>5. n + 1 \in 1 .. (n + 1)
    BY <1>4
  <2>6. report'[n + 1] = outcome /\ candidates[n + 1] = offer
    BY <1>2, <1>7
  <2> QED
    BY <2>1, <2>2, <2>3, <2>4, <2>5, <2>6
<1>14. ASSUME NEW id \in Identities
       PROVE  ChangeIsTold(id)'
  <2>1. ChangeIsTold(id)
    BY DEF PluginsInv
  <2>2. Holders(id) \subseteq 1 .. n
    BY <1>4 DEF Holders
  <2>3. CASE outcome = "REGISTERED" /\ Identity(offer) = id
    <3>1. Holders(id) = {}
      <4> SUFFICES ASSUME Holders(id) # {}
                   PROVE  FALSE
        OBVIOUS
      <4>1. PICK i \in Holders(id) : catalog[id] = candidates[i].yields
        BY <2>1 DEF ChangeIsTold
      <4>2. candidates[i].yields \in Registrations
        BY <4>1 DEF Holders, PluginsInv, ResultsAreEarned
      <4> QED
        BY <1>9, <2>3, <4>1, <4>2, RegistrationFields
    <3>2. catalogBefore[id] = Nothing
      BY <1>9, <2>1, <2>3, <3>1 DEF ChangeIsTold
    <3>3. Holders(id)' = {n + 1}
      BY <1>13, <2>3, <3>1
    <3>4. ASSUME NEW j \in 1 .. n, Identity(candidates[j]) = id
          PROVE  report'[j] \in {"INCOMPATIBLE", "FAILED"}
      <4>1. report[j] # "REGISTERED"
        BY <1>4, <3>1, <3>4 DEF Holders
      <4>2. Enabled(offer)
        BY <1>6, <2>3
      <4>3. Enabled(candidates[j])
        BY <2>3, <3>4, <4>2 DEF Enabled, Identity
      <4>4. report[j] # "DISCOVERED"
        BY <1>4, <4>3 DEF PluginsInv, ResultsAreEarned
      <4>5. report[j] \in DiscoveryStatus
        BY <1>4
      <4> QED
        BY <1>7, <4>1, <4>4, <4>5 DEF DiscoveryStatus
    <3>5. \A j \in 1 .. ((n + 1) - 1) : j \in 1 .. n
      BY <1>4
    <3>6. catalog'[id] = candidates[n + 1].yields
      BY <1>2, <1>9, <2>3
    <3> QED
      BY <1>5, <3>2, <3>3, <3>4, <3>5, <3>6 DEF ChangeIsTold, Identity
  <2>4. CASE ~ (outcome = "REGISTERED" /\ Identity(offer) = id)
    <3>1. Holders(id)' = Holders(id) /\ catalog'[id] = catalog[id]
      BY <1>9, <1>13, <2>4
    <3>2. \A i \in Holders(id) : \A j \in 1 .. (i - 1) : report'[j] = report[j]
      <4>1. \A i \in 1 .. n : \A j \in 1 .. (i - 1) : j \in 1 .. n
        BY <1>4
      <4> QED
        BY <1>7, <2>2, <4>1
    <3>3. CASE Holders(id) = {}
      BY <1>5, <2>1, <3>1, <3>3 DEF ChangeIsTold
    <3>4. CASE Holders(id) # {}
      <4>1. catalogBefore[id] = Nothing
        BY <2>1, <3>4 DEF ChangeIsTold
      <4>2. PICK i \in Holders(id) :
               /\ Holders(id) = {i}
               /\ catalog[id] = candidates[i].yields
               /\ \A j \in 1..(i - 1) : Identity(candidates[j]) = id =>
                     report[j] \in {"INCOMPATIBLE", "FAILED"}
        BY <2>1, <3>4 DEF ChangeIsTold
      <4> QED
        BY <1>5, <3>1, <3>2, <4>1, <4>2 DEF ChangeIsTold, Identity
    <3> QED
      BY <3>3, <3>4
  <2> QED
    BY <2>3, <2>4
<1>15. InstancesFit'
  BY <1>5 DEF PluginsInv, InstancesFit
<1>16. Discovered(DOMAIN enabled)' = Discovered(DOMAIN enabled)
  BY <1>5 DEF Discovered
<1> QED
  BY <1>5, <1>9, <1>10, <1>12, <1>14, <1>15, <1>16 DEF PluginsInv

\* A V2 registry looks at the instance before it hands it out.
LEMMA CreateKeeps ==
    ASSUME PluginsInv, NEW type \in PluginTypes, NEW name \in PluginNames, Create(type, name)
    PROVE  PluginsInv'
<1>1. /\ catalog[<<type, name>>] # Nothing
      /\ pluginVersion = "v2" => FittingInstance(catalog[<<type, name>>])
      /\ created' = [type |-> type, from |-> catalog[<<type, name>>]]
      /\ UNCHANGED <<pluginVersion, offered, catalog, enabled, candidates, report, catalogBefore>>
  BY DEF Create
<1>2. <<type, name>> \in Identities /\ <<type, name>>[1] = type
  BY DEF Identities
<1>3. pluginVersion = "v2" =>
         catalog[<<type, name>>].type = type /\ catalog[<<type, name>>].api = "current"
  BY <1>1, <1>2 DEF PluginsInv, RegistriesAreCurrent
<1>4. InstancesFit'
  BY <1>1, <1>3 DEF InstancesFit, FittingInstance
<1>5. Discovered(DOMAIN enabled)' = Discovered(DOMAIN enabled)
  BY <1>1 DEF Discovered
<1>6. ResultsAreEarned' /\ \A id \in Identities : ChangeIsTold(id)'
  BY <1>1 DEF PluginsInv, ResultsAreEarned, Enabled, ChangeIsTold, Holders, Identity
<1>7. PluginsTypeOK' /\ RegistriesAreCurrent'
  BY <1>1 DEF PluginsInv, PluginsTypeOK, RegistriesAreCurrent
<1> QED
  BY <1>1, <1>4, <1>5, <1>6, <1>7 DEF PluginsInv

\* What the host is told of its plugins is what the catalog holds, and what a
\* V2 registry hands out was made for it (plugins/discovery.py, plugins/v2.py).
THEOREM CatalogsAreTruthful == PluginsSpec => []CatalogIsTruthful
<1>1. InitPlugins => PluginsInv
  BY InitPluginsInv
<1>2. PluginsInv /\ [PluginsNext]_pluginVars => PluginsInv'
  <2> SUFFICES ASSUME PluginsInv, [PluginsNext]_pluginVars
               PROVE  PluginsInv'
    OBVIOUS
  <2>1. ASSUME NEW reg \in Yields \ Failures, NEW type \in PluginTypes,
               RegisterManually(reg, type)
        PROVE  PluginsInv'
    BY <2>1, RegisterManuallyKeeps
  <2>2. ASSUME NEW names \in Selections, EnableSelected(names)
        PROVE  PluginsInv'
    BY <2>2, EnableSelectedKeeps
  <2>3. CASE EnableNext
    BY <2>3, EnableNextKeeps
  <2>4. ASSUME NEW type \in PluginTypes, NEW name \in PluginNames, Create(type, name)
        PROVE  PluginsInv'
    BY <2>4, CreateKeeps
  <2>5. CASE UNCHANGED pluginVars
    <3>1. Discovered(DOMAIN enabled)' = Discovered(DOMAIN enabled)
      BY <2>5 DEF pluginVars, Discovered
    <3>2. /\ pluginVersion' = pluginVersion /\ offered' = offered /\ catalog' = catalog
          /\ enabled' = enabled /\ candidates' = candidates /\ report' = report
          /\ catalogBefore' = catalogBefore /\ created' = created
      BY <2>5 DEF pluginVars
    <3>3. PluginsTypeOK'
      BY <3>2 DEF PluginsInv, PluginsTypeOK
    <3>4. candidates' # << >> => candidates' = Discovered(DOMAIN enabled)'
      BY <3>1, <3>2 DEF PluginsInv
    <3>5. ResultsAreEarned'
      BY <3>2 DEF PluginsInv, ResultsAreEarned, Enabled
    <3>6. \A id \in Identities : ChangeIsTold(id)'
      BY <3>2 DEF PluginsInv, ChangeIsTold, Holders, Identity
    <3>7. RegistriesAreCurrent' /\ InstancesFit'
      BY <3>2 DEF PluginsInv, RegistriesAreCurrent, InstancesFit
    <3> QED
      BY <3>3, <3>4, <3>5, <3>6, <3>7 DEF PluginsInv
  <2> QED
    BY <2>1, <2>2, <2>3, <2>4, <2>5 DEF PluginsNext
<1>3. PluginsInv => CatalogIsTruthful
  <2> SUFFICES ASSUME PluginsInv
               PROVE  CatalogIsTruthful
    OBVIOUS
  <2>1. ReportTellsCatalog
    BY DEF PluginsInv, ReportTellsCatalog, ChangeIsTold
  <2> QED
    BY <2>1 DEF PluginsInv, CatalogIsTruthful
<1> QED
  BY <1>1, <1>2, <1>3, PTL DEF PluginsSpec

=============================================================================
