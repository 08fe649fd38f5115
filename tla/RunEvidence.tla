---------------------------- MODULE RunEvidence ----------------------------
(***************************************************************************)
(* What an observer reads off the records of a run while its threads go    *)
(* on: the recovery assessment (diagnostics/recovery.py), the manifest     *)
(* (lineage/manifest.py) and the lineage (lineage/projector.py).  None of  *)
(* them writes.  An assessment reads the run, its tasks, their attempts    *)
(* and their references in calls of their own: each member of Inspectors   *)
(* is a thread that makes one assess call, one read at a time.             *)
(***************************************************************************)
EXTENDS WorkflowRuntime

CONSTANT Inspectors    \* threads that assess the run, at any moment of it

VARIABLE inspection    \* local variables of each assess call

ReferencesOf(refs, t) == {r \in refs : r[1] = t}

-----------------------------------------------------------------------------
(* RecoveryInspector.assess.                                               *)

RecoveryDisposition ==
    {"no_action", "ready", "requires_reconciliation", "manual_required"}

InspectionSteps ==
    {"idle", "list", "each", "read_attempts", "read_refs", "answered"}

\* begun is no variable of the code: the tasks that had an attempt when the
\* call began.
NoInspection ==
    [at |-> "idle", run |-> Absent, todo |-> {}, task |-> 1,
     latest |-> "PENDING", num |-> 0, found |-> {}, begun |-> {}, answer |-> "ready"]

Inspections ==
    [at: InspectionSteps, run: WorkflowRunStatus \cup {Absent}, todo: SUBSET Tasks,
     task: Tasks, latest: TaskAttemptStatus, num: Nat,
     found: SUBSET RecoveryDisposition, begun: SUBSET Tasks,
     answer: RecoveryDisposition]

Inspects(i, step) == inspection[i].at = step

Continues(i, locals) == inspection' = [inspection EXCEPT ![i] = locals]

InspectsNext(i, step) == [inspection[i] EXCEPT !.at = step]

\* The disposition of one task is known and the next one is taken up; what
\* was read of the task is not needed any more.
Finds(i, t, disposition) ==
    [InspectsNext(i, "each") EXCEPT
       !.found = @ \cup {disposition}, !.todo = @ \ {t},
       !.task = 1, !.latest = "PENDING", !.num = 0]

BeginInspection(i) ==
    /\ Inspects(i, "idle")
    /\ workflowRun # Absent
    /\ Continues(i, [InspectsNext(i, "list") EXCEPT
                   !.run = workflowRun,
                   !.begun = {t \in Tasks : taskAttempts[t] # << >>}])

ListInspected(i) ==
    /\ Inspects(i, "list")
    /\ Continues(i, [InspectsNext(i, "each") EXCEPT
                   !.todo = {t \in Tasks : taskRun[t] # Absent}])

\* The listed tasks are assessed in plan order, each with reads of its own.
NextInspected(i, t) ==
    t \in inspection[i].todo /\ \A u \in inspection[i].todo : t <= u

InspectTask(i) ==
    /\ Inspects(i, "each")
    /\ \E t \in Tasks :
          /\ NextInspected(i, t)
          /\ Continues(i, IF taskRun[t] \in TaskRunTerminal THEN Finds(i, t, "no_action")
                      ELSE [InspectsNext(i, "read_attempts") EXCEPT !.task = t])

InspectAttempts(i) ==
    /\ Inspects(i, "read_attempts")
    /\ LET attempts == taskAttempts[inspection[i].task]
       IN Continues(i, IF attempts = << >>
                   THEN Finds(i, inspection[i].task, "ready")
                   ELSE [InspectsNext(i, "read_refs") EXCEPT
                           !.latest = attempts[Len(attempts)],
                           !.num = Len(attempts)])

\* Mutant: an attempt without external reference is taken for one not begun.
TaskDispositionByReference(latest, named) ==
    IF named THEN "requires_reconciliation" ELSE "ready"

\* The disposition of an open task with an attempt: latest is the status of
\* the last one, named whether a reference to an external run is stored.
TaskDisposition(latest, named) ==
    IF latest \in TaskAttemptTerminal \/ named
    THEN "requires_reconciliation" ELSE "manual_required"

InspectReferences(i) ==
    /\ Inspects(i, "read_refs")
    /\ Continues(i, Finds(i, inspection[i].task, TaskDisposition(inspection[i].latest,
                   <<inspection[i].task, inspection[i].num>> \in externalRefs)))

\* The disposition of the run, as it was read first, with those of its tasks.
Disposition(run, found) ==
    IF run \in WorkflowTerminal THEN "no_action"
    ELSE IF "manual_required" \in found THEN "manual_required"
    ELSE IF "requires_reconciliation" \in found THEN "requires_reconciliation"
    ELSE "ready"

AnswerInspection(i) ==
    /\ Inspects(i, "each")
    /\ inspection[i].todo = {}
    /\ Continues(i, [NoInspection EXCEPT
                   !.at = "answered", !.run = inspection[i].run,
                   !.begun = inspection[i].begun,
                   !.answer = Disposition(inspection[i].run, inspection[i].found)])

InspectionStep(i) ==
    \/ BeginInspection(i) \/ ListInspected(i) \/ InspectTask(i)
    \/ InspectAttempts(i) \/ InspectReferences(i) \/ AnswerInspection(i)

InitInspection == inspection = [i \in Inspectors |-> NoInspection]
InspectedInit == Init /\ InitInspection

InspectionTypeOK == inspection \in [Inspectors -> Inspections]

InspectedNext ==
    \/ Next /\ UNCHANGED inspection
    \/ \E i \in Inspectors : InspectionStep(i) /\ UNCHANGED vars

inspectedVars == <<vars, inspection>>

InspectedSpec == InspectedInit /\ [][InspectedNext]_inspectedVars
InspectedFairSpec == InspectedSpec /\ Fairness

-----------------------------------------------------------------------------
(* Manifest and lineage.                                                   *)

\* Both are built of one listing of the references to external runs, refs.

\* RunManifestBuilder.build.
Manifest(refs) ==
    [status |-> workflowRun,
     tasks |-> [t \in {u \in Tasks : taskRun[u] # Absent} |->
        [status |-> taskRun[t], attempts |-> taskAttempts[t],
         external_runs |-> ReferencesOf(refs, t), output |-> t \in checkpoints]]]

\* ExecutionLineageProjector.project.
Projectable == workflowRun # Absent /\ \A t \in Tasks : taskRun[t] # Absent

Lineage(refs) ==
    [attempts |-> [t \in Tasks |-> Len(taskAttempts[t])],
     external_runs |-> [t \in Tasks |-> ReferencesOf(refs, t)],
     outputs |-> checkpoints,
     dependencies |-> {edge \in Tasks \X Tasks : edge[1] \in Dependencies[edge[2]]}]

-----------------------------------------------------------------------------

\* An assessment is true of the moment it began, whatever its reads met: while
\* a handler is at work, a run is called ready only if the handler's task had
\* no attempt when the assessment began, and over only if it was cancelled.
\* Who recovers a run on the word ready does not work beside a thread that was
\* at work on it already.
InspectionSeesWork ==
    \A i \in Inspectors :
        Inspects(i, "answered") /\ execution = "executing" =>
            CASE inspection[i].answer = "ready" -> task \notin inspection[i].begun
              [] inspection[i].answer = "no_action" -> inspection[i].run = "CANCELLED"
              [] OTHER -> TRUE

\* The reference that a cancelling thread is about to store.
LateReferences ==
    {<<call[c].task, call[c].num>> : c \in {d \in Callers : At(d, "append_ref")}}

\* The manifest and the lineage of a run that succeeded or failed are complete
\* and keep every status, attempt and output.  Of references to external runs
\* they lose none, and gain only one that the reply to a cancellation named.
TerminalManifestIsKept ==
    [][(workflowRun \in {"SUCCEEDED", "FAILED", "TIMED_OUT"}) =>
          /\ Projectable
          /\ \A refs \in SUBSET externalRefs :
                Manifest(refs)' = Manifest(refs) /\ Lineage(refs)' = Lineage(refs)
          /\ externalRefs \subseteq externalRefs'
          /\ externalRefs' \subseteq externalRefs \cup LateReferences]_vars

=============================================================================
