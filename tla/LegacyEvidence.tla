--------------------------- MODULE LegacyEvidence ---------------------------
(***************************************************************************)
(* What is read out of the durable state of a V1 run, whatever its         *)
(* processes are doing: the manifest (application/manifest.py), the V1     *)
(* recovery assessment and inspection (application/recovery.py,            *)
(* inspection.py), and the way of the run to V2: semantic export, import   *)
(* and migration (_compat/v1_to_v2.py) and the V2 assessment of the        *)
(* migrated run (diagnostics/recovery.py).  Nothing here writes.           *)
(***************************************************************************)
EXTENDS SequentialRunner

V2 == INSTANCE RunStates

SkipReason ==
    {"CONDITION_FALSE", "DEPENDENCY_FAILED", "FAIL_FAST_ABORT", "BRANCH_NOT_SELECTED"}

-----------------------------------------------------------------------------
(* Records: a status and which of the optional fields are there.           *)

Stamps == [created: BOOLEAN, started: BOOLEAN, finished: BOOLEAN]

\* WorkflowRun.__post_init__: only a run that is over has finished.
RunRecords == [status: WorkflowRunStatus, stamps: Stamps]

RunRecordAllowed(r) ==
    /\ r.status = "PENDING" => ~ r.stamps.started
    /\ r.stamps.finished <=> r.status \in WorkflowTerminal

\* TaskRun.__post_init__.
TaskRecords == [status: TaskRunStatus, reason: SkipReason \cup {"none"}, stamps: Stamps]

TaskRecordAllowed(r) ==
    /\ r.reason # "none" <=> r.status = "SKIPPED"
    /\ r.stamps.finished <=> r.status \in TaskTerminal

\* TaskAttempt.__post_init__; an attempt keeps no creation time, and the
\* message of the error of its handler may be the empty string.
AttemptRecords ==
    [status: TaskAttemptStatus, eligible: BOOLEAN, message: {"none", "blank", "text"},
     stamps: {m \in Stamps : ~ m.created}]

AttemptRecordAllowed(r) ==
    /\ r.stamps.finished <=> r.status \in AttemptTerminal
    /\ r.eligible => r.status = "FAILED"

LegacyRuns == {r \in RunRecords : RunRecordAllowed(r)}
LegacyTasks == {r \in TaskRecords : TaskRecordAllowed(r)}
LegacyAttempts == {r \in AttemptRecords : AttemptRecordAllowed(r)}

\* The records that the store may hold for the run, for a task and for one
\* of its attempts; the semantic export writes each of their fields.
ExportedRuns == {r \in LegacyRuns : r.status = run}

ExportedTasks(t) == {r \in LegacyTasks : r.status = task[t]}

ExportedAttempts(t, n) ==
    {r \in LegacyAttempts :
        IF attempts[t][n] = "RETRY" THEN r.status = "FAILED" /\ r.eligible
        ELSE r.status = attempts[t][n] /\ ~ r.eligible}

-----------------------------------------------------------------------------
(* V1: manifest, recovery assessment and inspection.                       *)

ManifestAttemptsAllowed(t) ==
    \A n \in 1 .. Len(attempts[t]) : \A r \in ExportedAttempts(t, n) : r.status \in AttemptTerminal

\* The event that RunManifestBuilder expects last is the one that was stored
\* with the status of the run.
ManifestEventsAllowed == sequence > 0 /\ closed

\* RunManifestBuilder.build raises unless all of this holds.
ManifestBuilds ==
    /\ run \in WorkflowTerminal
    /\ \A t \in Tasks : task[t] \in TaskTerminal /\ ManifestAttemptsAllowed(t)
    /\ ManifestEventsAllowed

RetryWaiting == {t \in Tasks : task[t] = "RUNNING" /\ WaitsForRetry(t)}

Unresolved == {t \in Tasks : external[t] # "none" /\ task[t] \notin TaskTerminal}

\* RecoveryInspector.assess of a run whose evidence is old enough says
\* "eligible": nothing ambiguous runs.
Eligible ==
    /\ run \notin WorkflowTerminal
    /\ \A t \in Tasks : (task[t] = "RUNNING" => t \in RetryWaiting) /\ RunningAttempts(t) = {}
    /\ Unresolved = {}

Unfinished == {t \in Tasks : task[t] \notin TaskTerminal}

\* RuntimeInspector.inspect: no unfinished task can ever be ready.
Deadlocked ==
    /\ Unfinished # {}
    /\ \A t \in Unfinished : \E u \in Upstream[t] : task[u] # "SUCCEEDED"

-----------------------------------------------------------------------------
(* From V1 to V2.  A step that raises yields the empty set.                *)

\* V1RuntimeMetadataSnapshot: of each field, the records it may hold.  An
\* external job that is exported has no owner.
Exported ==
    [workflow_run |-> ExportedRuns,
     task_runs |-> [t \in Tasks |-> ExportedTasks(t)],
     task_attempts |->
        [t \in Tasks |-> [n \in 1 .. Len(attempts[t]) |-> ExportedAttempts(t, n)]],
     external_runs |-> {t \in Tasks : external[t] # "none"},
     ownership |-> "none"]

\* Each record passes the constructor of its entity again, and a text that
\* is there must not be blank.
ImportRuns(records) == {r \in records : RunRecordAllowed(r)}
ImportTasks(records) == {r \in records : TaskRecordAllowed(r)}
ImportAttempts(records) ==
    {r \in records : AttemptRecordAllowed(r) /\ r.message # "blank"}

Import(payload) ==
    [workflow_run |-> ImportRuns(payload.workflow_run),
     task_runs |-> [t \in Tasks |-> ImportTasks(payload.task_runs[t])],
     task_attempts |->
        [t \in Tasks |-> [n \in DOMAIN payload.task_attempts[t] |->
                            ImportAttempts(payload.task_attempts[t][n])]],
     external_runs |-> payload.external_runs,
     ownership |-> payload.ownership]

\* V2 records; an attempt and a task have no failure evidence, and the
\* external references of the run belong to no attempt.
V2RunAllowed(r) ==
    /\ r.status = "PENDING" => ~ r.stamps.started
    /\ r.stamps.finished <=> r.status \in V2!WorkflowTerminal

V2TaskAllowed(r) ==
    /\ r.reason # "none" <=> r.status = "SKIPPED"
    /\ r.status # "BLOCKED"
    /\ r.stamps.finished <=> r.status \in V2!TaskRunTerminal

V2AttemptAllowed(r) == r.stamps.finished <=> r.status \in V2!TaskAttemptTerminal

MigrateRun(r) == {v \in {r} : r.stamps.created /\ V2RunAllowed(v)}

MigrateTask(r) == {v \in {r} : r.stamps.created /\ V2TaskAllowed(v)}

\* The caller knows when each attempt was created.  When it becomes eligible
\* for a retry is kept as legacy evidence only.
MigrateAttempt(r) ==
    {v \in {[status |-> r.status, stamps |-> [r.stamps EXCEPT !.created = TRUE]]} :
        V2AttemptAllowed(v)}

\* The numbers of the attempts are 1, 2, ... without a gap.
MigrateAttempts(snapshot, t) ==
    [n \in DOMAIN snapshot.task_attempts[t] |->
        UNION {MigrateAttempt(r) : r \in snapshot.task_attempts[t][n]}]

LatestMigrated(snapshot, t) ==
    LET migrated == MigrateAttempts(snapshot, t) IN
        IF migrated = << >> THEN {"none"}
        ELSE {v.status : v \in migrated[Len(migrated)]}

\* An external job is migrated, but to no attempt.
MigratedRefs(snapshot, t) == IF snapshot.ownership = "none" THEN {} ELSE {t}

\* Mutant: only an attempt that is over is evidence of a start.
MigratedTaskAssessmentLenient(status, latest, refs) ==
    IF status \in V2!TaskRunTerminal THEN "NO_ACTION"
    ELSE IF latest \in V2!TaskAttemptTerminal THEN "REQUIRES_RECONCILIATION"
    ELSE "READY"

\* RecoveryInspector._assess_task of V2.
MigratedTaskAssessment(status, latest, refs) ==
    IF status \in V2!TaskRunTerminal THEN "NO_ACTION"
    ELSE IF latest = "none" THEN "READY"
    ELSE IF latest \in V2!TaskAttemptTerminal \/ refs # {} THEN "REQUIRES_RECONCILIATION"
    ELSE "MANUAL_REQUIRED"

MigratedAssessments(snapshot, t) ==
    {MigratedTaskAssessment(v.status, latest, MigratedRefs(snapshot, t)) :
        v \in UNION {MigrateTask(r) : r \in snapshot.task_runs[t]},
        latest \in LatestMigrated(snapshot, t)}

\* RecoveryInspector.assess of V2, on the run as it is migrated at any time.
MigratedRunAssessment ==
    LET snapshot == Import(Exported)
        found == UNION {MigratedAssessments(snapshot, t) : t \in Tasks}
        runs == UNION {MigrateRun(r) : r \in snapshot.workflow_run}
    IN  IF \E v \in runs : v.status \in V2!WorkflowTerminal THEN "NO_ACTION"
        ELSE IF "MANUAL_REQUIRED" \in found THEN "MANUAL_REQUIRED"
        ELSE IF "REQUIRES_RECONCILIATION" \in found THEN "REQUIRES_RECONCILIATION"
        ELSE "READY"

-----------------------------------------------------------------------------

\* However many processes resumed the run and wherever they died, a manifest
\* can be built of a run that is over, and it tells one story: all succeeded,
\* or a task failed.  A run that is not over is never reported as deadlocked.
ManifestCanBeBuilt ==
    /\ run \in WorkflowTerminal =>
          /\ ManifestBuilds
          /\ run = "SUCCEEDED" => \A t \in Tasks : task[t] = "SUCCEEDED"
          /\ run = "FAILED" => \E t \in Tasks : task[t] = "FAILED"
    /\ ~ Deadlocked

\* A handler that is executing, or whose outcome is not yet stored.
LiveTasks ==
    {Current(p) : p \in {q \in Processes : process[q].at \in {"execute", "succeed", "retry", "fail"}}}

\* Neither recovery assessment, of the V1 run or of the run moved to V2 at
\* any moment, lets a run go on while the outcome of a handler is open, and
\* a task that waits for its retry is not taken for one that never started.
LiveWorkIsSeen ==
    LET open == LiveTasks \cap Unfinished IN
        /\ Eligible => open = {}
        /\ MigratedRunAssessment = "READY" => open = {} /\ RetryWaiting = {}

=============================================================================
