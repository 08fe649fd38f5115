---------------------------- MODULE LegacyStates ----------------------------
(***************************************************************************)
(* The statuses of the V1 runtime (domain/enums.py) and the transitions    *)
(* that RunStateMachine performs on its three kinds of entity              *)
(* (application/state_machine.py): a transition from a status outside its  *)
(* allowed_from set raises.                                                *)
(***************************************************************************)

WorkflowRunStatus == {"PENDING", "RUNNING", "SUCCEEDED", "FAILED", "CANCELLED"}

TaskRunStatus ==
    {"PENDING", "READY", "RUNNING", "SUCCEEDED", "FAILED", "SKIPPED", "CANCELLED"}

TaskAttemptStatus == {"RUNNING", "SUCCEEDED", "FAILED", "CANCELLED"}

WorkflowTerminal == {"SUCCEEDED", "FAILED", "CANCELLED"}

TaskTerminal == {"SUCCEEDED", "FAILED", "SKIPPED", "CANCELLED"}

AttemptTerminal == {"SUCCEEDED", "FAILED", "CANCELLED"}

-----------------------------------------------------------------------------

\* start_workflow and _finish_workflow.
WorkflowAllowedFrom(target) ==
    IF target = "RUNNING" THEN {"PENDING"} ELSE {"RUNNING"}

\* mark_task_ready, start_task, skip_task, cancel_task and _finish_task.
TaskAllowedFrom(target) ==
    CASE target = "READY" -> {"PENDING"}
      [] target = "RUNNING" -> {"READY"}
      [] target = "SKIPPED" -> {"PENDING", "READY"}
      [] target = "CANCELLED" -> {"PENDING", "READY", "RUNNING"}
      [] target \in {"SUCCEEDED", "FAILED"} -> {"RUNNING"}

\* succeed_attempt, fail_attempt and cancel_attempt.
AttemptAllowedFrom(target) == {"RUNNING"}

=============================================================================
