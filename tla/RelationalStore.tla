--------------------------- MODULE RelationalStore ---------------------------
(***************************************************************************)
(* The V2 metadata store, used by several writers at once: one set of      *)
(* SQLAlchemy operations over the v2_* tables (persistence/sqlite.py,      *)
(* reused for PostgreSQL by persistence/postgresql.py), and the memory     *)
(* store (persistence/memory.py), which does an operation under its lock.  *)
(*                                                                         *)
(* On a database an operation is one transaction in three steps.  Open     *)
(* reads rows and checks them, with no lock on what it read.  Write sends  *)
(* the INSERT or the UPDATE ... WHERE status = expected, which waits for   *)
(* the lock, looks at the rows committed by then and raises when a         *)
(* constraint or the row count says so.  Commit makes the row and its      *)
(* state transition durable together.  A writer may die at any moment: its *)
(* transaction rolls back.                                                 *)
(* Deleting runs is the subject of RunHistory and is left out here.        *)
(***************************************************************************)
EXTENDS RunStates, Naturals, FiniteSets, Sequences, SequencesExt

CONSTANTS
    Writers,         \* the processes and threads that use the store
    TaskCount,       \* tasks of the one workflow run that is stored
    AttemptIds,      \* identifiers of attempts; fresh ones, one per append
    Contents,        \* contents of outputs and of manifest references
    Statuses,        \* bound: the statuses writers move records to
    Dialects,        \* the stores to look at
    CommitBound      \* bound: the transactions that commit

Tasks == 1..TaskCount
Absent == "absent"
NoRow == [status |-> Absent]

ASSUME RelationalBounds ==
    /\ TaskCount \in Nat \ {0} /\ CommitBound \in Nat
    /\ IsFiniteSet(AttemptIds)
    /\ Absent \notin Contents
ASSUME DialectsType == Dialects \in SUBSET {"memory", "sqlite", "postgresql"}

VARIABLES
    dialect,         \* the store in use
    workflowRow,     \* v2_workflow_runs: the status of the run
    taskRows,        \* v2_task_runs: status and the __reused__ mark
    attemptRows,     \* v2_task_attempts: task, attempt_number and status
    refRows,         \* v2_external_run_refs: attempts whose external run is named
    outputRows,      \* v2_task_output_checkpoints
    manifestRow,     \* v2_manifest_references
    transitions,     \* v2_state_transitions of each entity, in sequence
    transaction,     \* transaction[w]: the open transaction of writer w
    commits          \* the transactions committed so far

tables == <<workflowRow, taskRows, attemptRows, refRows, outputRows,
            manifestRow, transitions>>
storeVars == <<dialect, tables, transaction, commits>>

RunEntity == <<"workflow_run">>
TaskEntity(t) == <<"task_run", t>>
AttemptEntity(a) == <<"task_attempt", a>>
Entities == {RunEntity} \cup {TaskEntity(t) : t \in Tasks}
                        \cup {AttemptEntity(a) : a \in AttemptIds}

-----------------------------------------------------------------------------
(* Rows.  The table of task runs has no REUSED: the row says SUCCEEDED and *)
(* the failure column carries the mark __reused__.                         *)

\* Mutant: the mark is not written.
TaskRowUnmarked(status) ==
    [status |-> IF status = "REUSED" THEN "SUCCEEDED" ELSE status, reused |-> FALSE]

TaskRow(status) ==
    IF status = "REUSED" THEN [status |-> "SUCCEEDED", reused |-> TRUE]
                         ELSE [status |-> status, reused |-> FALSE]

TaskStatusOf(row) ==
    IF row = NoRow THEN Absent
    ELSE IF row.reused THEN "REUSED" ELSE row.status

AttemptsOf(t) == {a \in AttemptIds : attemptRows[a] # NoRow /\ attemptRows[a].task = t}

Numbers(t) == {attemptRows[a].number : a \in AttemptsOf(t)}

StatusOf(e) ==
    CASE e[1] = "workflow_run" -> workflowRow
      [] e[1] = "task_run" -> TaskStatusOf(taskRows[e[2]])
      [] e[1] = "task_attempt" -> attemptRows[e[2]].status

-----------------------------------------------------------------------------
(* The operations.  The state machine has accepted target for expected     *)
(* before the store is asked.                                              *)

Transitions(e) ==
    CASE e[1] = "workflow_run" -> WorkflowTransitions
      [] e[1] = "task_run" -> TaskRunTransitions
      [] e[1] = "task_attempt" -> TaskAttemptTransitions

Creations == [kind: {"create"}, entity: {RunEntity} \cup {TaskEntity(t) : t \in Tasks}]
Appends == [kind: {"append"}, entity: {AttemptEntity(a) : a \in AttemptIds},
            task: Tasks, number: 1..Cardinality(AttemptIds)]
Updates == UNION {UNION {[kind: {"update"}, entity: {e}, expected: {s},
                          target: Transitions(e)[s] \cap Statuses] :
                            s \in Statuses \cap DOMAIN Transitions(e)} :
                    e \in Entities}
References == [kind: {"append_ref"}, attempt: AttemptIds]
Outputs == [kind: {"set_output"}, task: Tasks, content: Contents]
Manifests == [kind: {"set_manifest"}, content: Contents]

Operations == Creations \cup Appends \cup Updates \cup References
                \cup Outputs \cup Manifests

InitRelational ==
    /\ dialect \in Dialects
    /\ workflowRow = Absent
    /\ taskRows = [t \in Tasks |-> NoRow]
    /\ attemptRows = [a \in AttemptIds |-> NoRow]
    /\ refRows = << >>
    /\ outputRows = [t \in Tasks |-> Absent]
    /\ manifestRow = Absent
    /\ transitions = [e \in Entities |-> << >>]
    /\ transaction = [w \in Writers |-> [at |-> "idle"]]
    /\ commits = 0

-----------------------------------------------------------------------------
(* Open: the reads and checks.  Accepted(op) is what the operation finds   *)
(* before it writes; when it does not hold the caller gets an exception.   *)

CreateAccepted(op) ==
    /\ StatusOf(op.entity) = Absent
    /\ op.entity # RunEntity => workflowRow # Absent

AppendAccepted(op) ==
    /\ attemptRows[op.entity[2]] = NoRow
    /\ taskRows[op.task] # NoRow
    /\ op.number = 1 + Cardinality(AttemptsOf(op.task))

UpdateAccepted(op) == StatusOf(op.entity) = op.expected

ReferenceAccepted(op) ==
    attemptRows[op.attempt] # NoRow /\ op.attempt \notin ToSet(refRows)

OutputAccepted(op) ==
    /\ taskRows[op.task] # NoRow
    /\ taskRows[op.task].status = "SUCCEEDED"
    /\ outputRows[op.task] = Absent

ManifestAccepted(op) == workflowRow # Absent /\ manifestRow = Absent

Accepted(op) ==
    CASE op.kind = "create" -> CreateAccepted(op)
      [] op.kind = "append" -> AppendAccepted(op)
      [] op.kind = "update" -> UpdateAccepted(op)
      [] op.kind = "append_ref" -> ReferenceAccepted(op)
      [] op.kind = "set_output" -> OutputAccepted(op)
      [] op.kind = "set_manifest" -> ManifestAccepted(op)

\* An operation that is refused, or that finds its content already stored,
\* changes nothing: only the accepted ones open a transaction.
Open(w) ==
    /\ dialect # "memory"
    /\ transaction[w].at = "idle"
    /\ commits < CommitBound
    /\ \E op \in Operations :
          /\ Accepted(op)
          /\ transaction' = [transaction EXCEPT ![w] = [at |-> "open", op |-> op]]
    /\ UNCHANGED <<dialect, tables, commits>>

-----------------------------------------------------------------------------
(* Write: locks, the WHERE clause and the constraints.                     *)

\* The rows and unique keys a statement locks until its transaction ends.
Locks(op) ==
    CASE op.kind \in {"create", "update"} -> {op.entity}
      [] op.kind = "append" -> {op.entity, <<"number", op.task, op.number>>}
      [] op.kind = "append_ref" -> {<<"ref", op.attempt>>}
      [] op.kind = "set_output" -> {<<"output", op.task>>}
      [] op.kind = "set_manifest" -> {<<"manifest">>}

Written == {w \in Writers : transaction[w].at = "written"}

\* SQLite has one lock for all writers, PostgreSQL one for each row.
Locked(w) ==
    \E v \in Written :
        \/ dialect = "sqlite"
        \/ Locks(transaction[v].op) \cap Locks(transaction[w].op) # {}

\* UPDATE ... WHERE status = expected on the column, which holds SUCCEEDED for
\* a reused task.
RowMatches(op) ==
    CASE op.entity[1] = "task_run" ->
            taskRows[op.entity[2]].status = TaskRow(op.expected).status
      [] OTHER -> StatusOf(op.entity) = op.expected

\* Mutant: the constraint is missing.
NumberIsNotConstrained(op) == TRUE

\* UNIQUE (task_run_id, attempt_number).
NumberIsFree(op) == op.number \notin Numbers(op.task)

\* PRIMARY KEY (attempt_id).
IdentifierIsFree(op) == attemptRows[op.entity[2]] = NoRow

\* No constraint refuses the statement, no row count contradicts it.
StatementSucceeds(op) ==
    CASE op.kind = "update" -> RowMatches(op)
      [] op.kind = "create" -> StatusOf(op.entity) = Absent
      [] op.kind = "append" -> NumberIsFree(op) /\ IdentifierIsFree(op)
      [] op.kind = "append_ref" -> op.attempt \notin ToSet(refRows)
      [] op.kind = "set_output" -> outputRows[op.task] = Absent
      [] op.kind = "set_manifest" -> manifestRow = Absent

Ends(w) == transaction' = [transaction EXCEPT ![w] = [at |-> "idle"]]

\* The exception of the statement leaves the `with` block, which rolls back.
RollBack(w) == Ends(w)

Write(w) ==
    /\ transaction[w].at = "open"
    /\ ~ Locked(w)
    /\ \/ /\ StatementSucceeds(transaction[w].op)
          /\ transaction' = [transaction EXCEPT ![w].at = "written"]
       \/ /\ ~ StatementSucceeds(transaction[w].op)
          /\ RollBack(w)
    /\ UNCHANGED <<dialect, tables, commits>>

\* busy_timeout has passed: "database is locked".
LockTimesOut(w) ==
    /\ dialect = "sqlite"
    /\ transaction[w].at = "open" /\ Locked(w)
    /\ RollBack(w)
    /\ UNCHANGED <<dialect, tables, commits>>

\* The process dies, or the connection is lost: the database rolls back.
Crash(w) ==
    /\ transaction[w].at # "idle"
    /\ Ends(w)
    /\ UNCHANGED <<dialect, tables, commits>>

-----------------------------------------------------------------------------
(* Commit: the statement and the transition it records become visible.     *)

Logged(e, from, to) ==
    transitions' = [transitions EXCEPT ![e] = Append(@, [from |-> from, to |-> to])]

SetStatus(e, status) ==
    CASE e[1] = "workflow_run" ->
            /\ workflowRow' = status
            /\ UNCHANGED <<taskRows, attemptRows>>
      [] e[1] = "task_run" ->
            /\ taskRows' = [taskRows EXCEPT ![e[2]] = TaskRow(status)]
            /\ UNCHANGED <<workflowRow, attemptRows>>
      [] e[1] = "task_attempt" ->
            /\ attemptRows' = [attemptRows EXCEPT ![e[2]].status = status]
            /\ UNCHANGED <<workflowRow, taskRows>>

\* A new row is PENDING.
Creates(op) ==
    /\ op.kind = "create"
    /\ SetStatus(op.entity, "PENDING")
    /\ Logged(op.entity, Absent, "PENDING")
    /\ UNCHANGED <<refRows, outputRows, manifestRow>>

Moves(op) ==
    /\ op.kind = "update"
    /\ SetStatus(op.entity, op.target)
    /\ Logged(op.entity, op.expected, op.target)
    /\ UNCHANGED <<refRows, outputRows, manifestRow>>

AppendsAttempt(op) ==
    /\ op.kind = "append"
    /\ attemptRows' = [attemptRows EXCEPT ![op.entity[2]] =
                         [task |-> op.task, number |-> op.number, status |-> "PENDING"]]
    /\ Logged(op.entity, Absent, "PENDING")
    /\ UNCHANGED <<workflowRow, taskRows, refRows, outputRows, manifestRow>>

\* What is added to a row without a change of its status is not logged.
AppendsReference(op) ==
    /\ op.kind = "append_ref"
    /\ refRows' = Append(refRows, op.attempt)
    /\ UNCHANGED <<workflowRow, taskRows, attemptRows, outputRows, manifestRow,
                   transitions>>

StoresOutput(op) ==
    /\ op.kind = "set_output"
    /\ outputRows' = [outputRows EXCEPT ![op.task] = op.content]
    /\ UNCHANGED <<workflowRow, taskRows, attemptRows, refRows, manifestRow, transitions>>

StoresManifest(op) ==
    /\ op.kind = "set_manifest"
    /\ manifestRow' = op.content
    /\ UNCHANGED <<workflowRow, taskRows, attemptRows, refRows, outputRows, transitions>>

EffectOf(op) ==
    \/ Creates(op) \/ Moves(op) \/ AppendsAttempt(op)
    \/ AppendsReference(op) \/ StoresOutput(op) \/ StoresManifest(op)

Commit(w) ==
    /\ transaction[w].at = "written"
    /\ EffectOf(transaction[w].op)
    /\ Ends(w)
    /\ commits' = commits + 1
    /\ UNCHANGED dialect

\* The memory store checks and writes under its lock.
MemoryOperation ==
    /\ dialect = "memory" /\ commits < CommitBound
    /\ \E op \in Operations : Accepted(op) /\ EffectOf(op)
    /\ commits' = commits + 1
    /\ UNCHANGED <<dialect, transaction>>

RelationalNext ==
    \/ MemoryOperation
    \/ \E w \in Writers :
          Open(w) \/ Write(w) \/ LockTimesOut(w) \/ Crash(w) \/ Commit(w)

RelationalSpec == InitRelational /\ [][RelationalNext]_storeVars

-----------------------------------------------------------------------------
(* Reading the evidence: list_state_transitions and list_runtime_events.   *)

NoEvent == "none"

\* The event that a transition means, if any (the run does not resume
\* another one).
EventOf(e, n, from, to) ==
    IF from = Absent THEN IF n > 1 THEN "TASK_RETRYING" ELSE NoEvent
    ELSE IF e[1] = "task_attempt" THEN NoEvent
    ELSE CASE to = "RUNNING" -> IF from \in {"PENDING", "READY"} THEN "STARTED" ELSE "RESUMED"
           [] to = "REUSED" -> "RESUMED"
           [] OTHER -> to

NumberOf(e) == IF e[1] = "task_attempt" /\ attemptRows[e[2]] # NoRow
               THEN attemptRows[e[2]].number ELSE 0

\* The events of an entity in the order of its transitions, with gaps.
EventsOf(e) ==
    LET log == transitions[e] IN
        [i \in DOMAIN log |-> EventOf(e, NumberOf(e), log[i].from, log[i].to)]

-----------------------------------------------------------------------------
(* Properties.                                                             *)

\* What an event makes of an entity, for a reader of the events alone.
Tells(e, status, event) ==
    CASE event = NoEvent -> status
      [] event = "STARTED" -> "RUNNING"
      [] event = "RESUMED" -> IF e[1] = "task_run" /\ status = "PENDING"
                              THEN "REUSED" ELSE "RUNNING"
      [] OTHER -> event

\* What that reader takes an entity for after its first i transitions.
StatusTold(e) ==
    LET events == EventsOf(e)
        told[i \in 0 .. Len(transitions[e])] ==
            IF i = 0 THEN "PENDING" ELSE Tells(e, told[i - 1], events[i])
    IN  told[Len(transitions[e])]

\* The attempts of a task that an event was told of.
RetriesTold(t) ==
    {a \in AttemptsOf(t) : \E i \in DOMAIN transitions[AttemptEntity(a)] :
                               EventsOf(AttemptEntity(a))[i] # NoEvent}

\* The runtime events tell where the run and its tasks are, and how often
\* each task was tried: nothing a consumer of list_runtime_events needs is in
\* the records only.
EventsTellTheRun ==
    /\ \A e \in {RunEntity} \cup {TaskEntity(t) : t \in Tasks} :
          StatusOf(e) # Absent => StatusTold(e) = StatusOf(e)
    /\ \A t \in Tasks :
          Cardinality(RetriesTold(t))
            = IF AttemptsOf(t) = {} THEN 0 ELSE Cardinality(AttemptsOf(t)) - 1

\* The transitions of an entity form a chain from its creation to the status
\* its row has: the row and the evidence are written together, and of two
\* writers that read the same status one is refused (list_state_transitions
\* and list_runtime_events report the chain).
LogMatchesRecords ==
    \A e \in Entities : LET log == transitions[e] IN
        /\ log = << >> <=> StatusOf(e) = Absent
        /\ log # << >> => log[1].from = Absent /\ Last(log).to = StatusOf(e)
        /\ \A i \in 1..(Len(log) - 1) : log[i].to = log[i + 1].from

\* Attempts are numbered 1, 2, ... without a gap or a repetition, and a row is
\* inserted once, although max(attempt_number) is read before the insert
\* (append_task_attempt, append_external_run_ref).
NumbersHaveNoGaps ==
    /\ \A t \in Tasks : Numbers(t) = 1..Cardinality(AttemptsOf(t))
    /\ IsInjective(refRows)

\* Whoever reads the rows, the transitions or the events reads one history
\* (persistence/sqlite.py: a row and its evidence are one transaction).
RecordsAndLogAgree == EventsTellTheRun /\ LogMatchesRecords /\ NumbersHaveNoGaps

\* The attempt of a task with a number.
AttemptNumbered(t, n) == CHOOSE a \in AttemptsOf(t) : attemptRows[a].number = n

\* The store implements the contract the runtime is written against: every
\* commit is one operation of MetadataStore on the records that readers see.
Store == INSTANCE MetadataStore WITH
    workflowRun <- workflowRow,
    taskRun <- [t \in Tasks |-> TaskStatusOf(taskRows[t])],
    taskAttempts <- [t \in Tasks |->
        [n \in 1..Cardinality(AttemptsOf(t)) |-> attemptRows[AttemptNumbered(t, n)].status]],
    externalRefs <- {<<attemptRows[a].task, attemptRows[a].number>> : a \in ToSet(refRows)},
    checkpoints <- {t \in Tasks : outputRows[t] # Absent}

StoreStepOf ==
    \/ Store!CreateWorkflowRun
    \/ \E t \in Tasks :
          \/ Store!CreateTaskRun(t)
          \/ Store!AppendTaskAttempt(t)
          \/ Store!SetTaskOutputCheckpoint(t)
          \/ \E s \in TaskRunStatus, u \in TaskRunStatus : Store!UpdateTaskRun(t, s, u)
          \/ \E n \in 1..Cardinality(AttemptIds) :
                \/ Store!AppendExternalRunRef(t, n)
                \/ \E s \in TaskAttemptStatus, u \in TaskAttemptStatus :
                      Store!UpdateTaskAttempt(t, n, s, u)
    \/ \E s \in WorkflowRunStatus, u \in WorkflowRunStatus : Store!UpdateWorkflowRun(s, u)

ImplementsStore == Store!InitStore /\ [][StoreStepOf]_(Store!store)

=============================================================================
