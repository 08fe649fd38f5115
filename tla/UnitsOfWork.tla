----------------------------- MODULE UnitsOfWork -----------------------------
(***************************************************************************)
(* The V1 metadata stores and their units of work: the memory store        *)
(* (adapters/metadata/memory.py), whose unit works on a copy of the whole  *)
(* state that its commit puts in place, and the SQLAlchemy store on SQLite *)
(* and PostgreSQL (adapters/metadata/sqlalchemy/store.py), whose unit is   *)
(* one database transaction that flushes after every operation.            *)
(*                                                                         *)
(* The database is a function from keys to the unit that wrote the row     *)
(* last; attempts are keyed by their number and events by their sequence   *)
(* number, which are the unique constraints.  Writers run the units that   *)
(* the V1 runner is made of (application/runner.py), for one run with one  *)
(* task, from what they knew of the run when they last read it.            *)
(***************************************************************************)
EXTENDS Naturals, Sequences, SequencesExt, FiniteSetsExt

CONSTANTS
    UnitWriters,     \* processes and threads that open units of work
    UnitBackends,    \* "v1-memory", "v1-sqlite", "v1-postgres"
    Overlapping,     \* the backends on which units of two writers overlap
    AttemptBound,    \* bound: the attempts of the task
    UnitBound        \* bound: the units of work opened

ASSUME UnitBackendsType ==
    /\ UnitBackends \in SUBSET {"v1-memory", "v1-sqlite", "v1-postgres"}
    /\ Overlapping \in SUBSET {"v1-memory", "v1-sqlite", "v1-postgres"}
ASSUME UnitBounds == AttemptBound \in Nat \ {0} /\ UnitBound \in Nat

Attempt(n) == <<"attempt", n>>
Event(s) == <<"event", s>>
Run == <<"run">>
Task == <<"task">>
Output == <<"output">>
Keys == {Run, Task, Output} \cup {Attempt(n) : n \in 1..AttemptBound}
                            \cup {Event(s) : s \in 1..UnitBound}
NoUnit == 0

VARIABLES
    unitBackend,     \* the store in use
    database,        \* database[k]: the unit that wrote row k last, or NoUnit
    unit,            \* unit[w]: the unit of work of writer w
    known,           \* known[w]: what w knows of the run
    opened,          \* the number of units opened so far
    committed        \* the units that committed, in order: all they were to write

unitVars == <<unitBackend, database, unit, known, opened, committed>>

NoWrites == [k \in {} |-> NoUnit]
Idle == [at |-> "idle"]

InitUnits ==
    /\ unitBackend \in UnitBackends
    /\ database = [k \in Keys |-> NoUnit]
    /\ unit = [w \in UnitWriters |-> Idle]
    /\ known = [w \in UnitWriters |-> [sequence |-> 0, attempts |-> 0]]
    /\ opened = 0
    /\ committed = << >>

-----------------------------------------------------------------------------
(* The units of work of the runner: what each adds, saves, and in which    *)
(* order.                                                                  *)

Add(k) == [verb |-> "add", key |-> k]
Save(k) == [verb |-> "save", key |-> k]

\* _persist_initial_state, _persist_workflow_transition, _persist_task_start,
\* _persist_retry_failure, _persist_retry_attempt, _persist_execution_success
\* and _persist_terminal_failure, for attempt n and the next event s.
UnitsFor(n, s) ==
    {<<Add(Run), Add(Task)>>,
     <<Save(Run), Add(Event(s))>>,
     <<Save(Task), Add(Attempt(n + 1)), Add(Event(s))>>,
     <<Save(Attempt(n)), Add(Event(s))>>,
     <<Add(Attempt(n + 1))>>,
     <<Save(Attempt(n)), Save(Task), Add(Event(s)), Add(Output)>>,
     <<Save(Attempt(n)), Save(Task), Save(Run), Add(Event(s))>>}

OnKeys(operations) == \A i \in DOMAIN operations : operations[i].key \in Keys

-----------------------------------------------------------------------------
(* Reading and opening.                                                    *)

LastSequence(view) ==
    Max({0} \cup {s \in 1..UnitBound : view[Event(s)] # NoUnit})

LastAttempt(view) ==
    Max({0} \cup {n \in 1..AttemptBound : view[Attempt(n)] # NoUnit})

\* list_events and list_task_attempts, of what has been committed.
Committed == [sequence |-> LastSequence(database), attempts |-> LastAttempt(database)]

Load(w) ==
    /\ unit[w].at = "idle"
    /\ known' = [known EXCEPT ![w] = Committed]
    /\ UNCHANGED <<unitBackend, database, unit, opened, committed>>

\* __enter__: the memory store copies its state, a session begins nothing yet.
OpenUnit(w) ==
    /\ unit[w].at = "idle" /\ opened < UnitBound
    /\ unitBackend \in Overlapping \/ \A v \in UnitWriters : unit[v].at = "idle"
    /\ \E operations \in UnitsFor(known[w].attempts, known[w].sequence + 1) :
          /\ OnKeys(operations)
          /\ unit' = [unit EXCEPT ![w] =
                        [at |-> "open", id |-> opened + 1, todo |-> operations,
                         keys |-> {operations[i].key : i \in DOMAIN operations},
                         copy |-> IF unitBackend = "v1-memory" THEN database ELSE NoWrites,
                         writes |-> NoWrites]]
    /\ opened' = opened + 1
    /\ UNCHANGED <<unitBackend, database, known, committed>>

-----------------------------------------------------------------------------
(* One operation of a unit.                                                *)

\* What the unit sees: its copy, or the committed rows under its own writes.
View(w) ==
    LET seen == IF unitBackend = "v1-memory" THEN unit[w].copy ELSE database
    IN  [k \in Keys |-> IF k \in DOMAIN unit[w].writes THEN unit[w].writes[k]
                                                      ELSE seen[k]]

Parent(k) ==
    CASE k = Run -> {}
      [] k \in {Task} \cup {Event(s) : s \in 1..UnitBound} -> {Run}
      [] OTHER -> {Task}

\* add_event: larger than every sequence number of the run.
SequenceAccepted(w, k) ==
    /\ k[2] > LastSequence(View(w))
    /\ View(w)[k] = NoUnit

Stored(w, k) == View(w)[k] # NoUnit

ParentsStored(w, k) == \A p \in Parent(k) : Stored(w, p)

\* add_workflow_run, add_task_run, add_task_attempt: no such row (or number)
\* yet, and the parent exists; save_*: the row exists.
RowAccepted(w, operation) ==
    IF operation.verb = "save" THEN Stored(w, operation.key)
    ELSE ~ Stored(w, operation.key) /\ ParentsStored(w, operation.key)

EventTaken(w, k) == ParentsStored(w, k) /\ SequenceAccepted(w, k)

\* What a task leaves behind is added once and never saved again.
OutputTaken(w, k) == ParentsStored(w, k) /\ ~ Stored(w, k)

OperationAccepted(w, operation) ==
    LET k == operation.key IN
    CASE k[1] = "event" -> EventTaken(w, k)
      [] k = Output     -> OutputTaken(w, k)
      [] OTHER          -> RowAccepted(w, operation)

\* A flushed row stays locked until its transaction ends: the whole database
\* in SQLite, the row or unique key in PostgreSQL.
LockedOut(w, k) ==
    \E v \in UnitWriters \ {w} :
        /\ unit[v].at = "open"
        /\ \/ unitBackend = "v1-sqlite" /\ DOMAIN unit[v].writes # {}
           \/ unitBackend = "v1-postgres" /\ k \in DOMAIN unit[v].writes

Discarded(w) == [unit EXCEPT ![w] = Idle]

\* Mutant: the unit goes on after a flush that was rolled back.
RefusalIsSwallowed(w) ==
    unit' = [unit EXCEPT ![w].writes = NoWrites, ![w].todo = Tail(@)]

\* The exception leaves the `with` block: __exit__ rolls back.
Refused(w) == unit' = Discarded(w)

Operate(w) ==
    /\ unit[w].at = "open" /\ unit[w].todo # << >>
    /\ LET operation == Head(unit[w].todo)
           k == operation.key
       IN  /\ ~ LockedOut(w, k)
           /\ \/ /\ OperationAccepted(w, operation)
                 /\ unit' = [unit EXCEPT
                      ![w].todo = Tail(@),
                      ![w].writes = [i \in DOMAIN @ \cup {k} |->
                                        IF i = k THEN unit[w].id ELSE @[i]]]
              \/ /\ ~ OperationAccepted(w, operation)
                 /\ Refused(w)
    /\ UNCHANGED <<unitBackend, database, known, opened, committed>>

\* SQLite gives up after busy_timeout: MetadataStoreError.
FlushTimesOut(w) ==
    /\ unitBackend = "v1-sqlite"
    /\ unit[w].at = "open" /\ unit[w].todo # << >>
    /\ LockedOut(w, Head(unit[w].todo).key)
    /\ Refused(w)
    /\ UNCHANGED <<unitBackend, database, known, opened, committed>>

\* The memory store installs the copy; the database adds the writes to what
\* others have committed.
Install(w) == database' = View(w)

CommitUnit(w) ==
    /\ unit[w].at = "open" /\ unit[w].todo = << >>
    /\ Install(w)
    /\ committed' = Append(committed, [k \in unit[w].keys |-> unit[w].id])
    /\ known' = [known EXCEPT ![w] = [sequence |-> Max({@.sequence} \cup
                        {s \in 1..UnitBound : Event(s) \in DOMAIN unit[w].writes}),
                                      attempts |-> Max({@.attempts} \cup
                        {n \in 1..AttemptBound : Attempt(n) \in DOMAIN unit[w].writes})]]
    /\ unit' = Discarded(w)
    /\ UNCHANGED <<unitBackend, opened>>

\* The process dies with its unit, and a new one knows nothing.
Dies(w) ==
    /\ unit[w].at = "open"
    /\ unit' = Discarded(w)
    /\ known' = [known EXCEPT ![w] = [sequence |-> 0, attempts |-> 0]]
    /\ UNCHANGED <<unitBackend, database, opened, committed>>

UnitNext ==
    \E w \in UnitWriters :
        Load(w) \/ OpenUnit(w) \/ Operate(w) \/ FlushTimesOut(w) \/ CommitUnit(w) \/ Dies(w)

UnitSpec == InitUnits /\ [][UnitNext]_unitVars

-----------------------------------------------------------------------------
(* Properties.                                                             *)

\* The stored rows are those of the committed units, applied whole and one
\* after the other: no unit is half done or lost, whoever commits between its
\* operations, and wherever a process dies.
UnitsAreSerial ==
    \A k \in Keys :
        \/ /\ database[k] = NoUnit
           /\ \A i \in DOMAIN committed : k \notin DOMAIN committed[i]
        \/ \E i \in DOMAIN committed :
              /\ k \in DOMAIN committed[i] /\ database[k] = committed[i][k]
              /\ \A j \in DOMAIN committed : j > i => k \notin DOMAIN committed[j]

\* The sequence numbers of the events of a run follow the order in which their
\* units committed: of two processes that took the run for theirs, the one that
\* writes second is refused (the manifest replays the events in this order).
EventsInOrder ==
    \A i, j \in DOMAIN committed : i < j =>
        \A s, r \in 1..UnitBound :
            Event(s) \in DOMAIN committed[i] /\ Event(r) \in DOMAIN committed[j] => s < r

\* Two processes that write one run write it one after the other
\* (the units of work of the V1 stores).
UnitsFollowEachOther == UnitsAreSerial /\ EventsInOrder

=============================================================================
