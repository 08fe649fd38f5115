----------------------------- MODULE RunStates -----------------------------
(***************************************************************************)
(* The status vocabulary of the V2 runtime (states/enums.py) and the       *)
(* transition tables that its three state machines consult                 *)
(* (states/machine.py).  A table is a function from a status to the set of *)
(* statuses a legal transition may reach; a terminal status maps to {}.    *)
(***************************************************************************)

WorkflowRunStatus ==
    {"PENDING", "RUNNING", "SUCCEEDED", "FAILED", "CANCELLATION_REQUESTED",
     "CANCELLED", "TIMED_OUT", "UNKNOWN_OUTCOME"}

TaskRunStatus ==
    {"PENDING", "READY", "RUNNING", "SUCCEEDED", "FAILED", "SKIPPED",
     "CANCELLED", "TIMED_OUT", "BLOCKED", "UNKNOWN_OUTCOME", "REUSED"}

TaskAttemptStatus ==
    {"PENDING", "STARTING", "RUNNING", "SUCCEEDED", "FAILED", "TIMED_OUT",
     "CANCELLATION_REQUESTED", "CANCELLED", "CANCELLATION_UNCONFIRMED",
     "UNKNOWN_OUTCOME", "REQUIRES_RECONCILIATION"}

WorkflowTerminal == {"SUCCEEDED", "FAILED", "CANCELLED", "TIMED_OUT"}

TaskRunTerminal ==
    {"SUCCEEDED", "FAILED", "SKIPPED", "CANCELLED", "TIMED_OUT", "REUSED"}

TaskAttemptTerminal == {"SUCCEEDED", "FAILED", "TIMED_OUT", "CANCELLED"}

-----------------------------------------------------------------------------

WorkflowTransitions ==
    [s \in WorkflowRunStatus |->
        CASE s = "PENDING" -> {"RUNNING", "CANCELLATION_REQUESTED"}
          [] s = "RUNNING" -> {"SUCCEEDED", "FAILED", "CANCELLATION_REQUESTED",
                               "TIMED_OUT", "UNKNOWN_OUTCOME"}
          [] s = "CANCELLATION_REQUESTED" ->
                {"RUNNING", "CANCELLED", "UNKNOWN_OUTCOME"}
          [] s = "UNKNOWN_OUTCOME" -> {"RUNNING"} \cup WorkflowTerminal
          [] OTHER -> {}]

TaskRunTransitions ==
    [s \in TaskRunStatus |->
        CASE s = "PENDING" -> {"READY", "SKIPPED", "BLOCKED", "CANCELLED", "REUSED"}
          [] s = "READY" -> {"RUNNING", "SKIPPED", "BLOCKED", "CANCELLED"}
          [] s = "BLOCKED" -> {"READY", "SKIPPED", "CANCELLED"}
          [] s = "RUNNING" -> {"SUCCEEDED", "FAILED", "CANCELLED", "TIMED_OUT",
                               "UNKNOWN_OUTCOME"}
          [] s = "UNKNOWN_OUTCOME" -> {"RUNNING", "SUCCEEDED", "FAILED",
                                       "CANCELLED", "TIMED_OUT"}
          [] OTHER -> {}]

TaskAttemptTransitions ==
    [s \in TaskAttemptStatus |->
        CASE s = "PENDING" -> {"STARTING", "CANCELLATION_REQUESTED", "CANCELLED"}
          [] s = "STARTING" -> {"RUNNING", "FAILED", "CANCELLATION_REQUESTED",
                                "UNKNOWN_OUTCOME"}
          [] s = "RUNNING" -> {"SUCCEEDED", "FAILED", "TIMED_OUT",
                               "CANCELLATION_REQUESTED", "UNKNOWN_OUTCOME",
                               "REQUIRES_RECONCILIATION"}
          [] s = "CANCELLATION_REQUESTED" ->
                {"RUNNING", "CANCELLED", "CANCELLATION_UNCONFIRMED",
                 "SUCCEEDED", "FAILED", "UNKNOWN_OUTCOME"}
          [] s = "CANCELLATION_UNCONFIRMED" ->
                {"REQUIRES_RECONCILIATION", "CANCELLED", "SUCCEEDED", "FAILED",
                 "UNKNOWN_OUTCOME"}
          [] s = "UNKNOWN_OUTCOME" ->
                {"REQUIRES_RECONCILIATION", "SUCCEEDED", "FAILED", "CANCELLED"}
          [] s = "REQUIRES_RECONCILIATION" ->
                {"RUNNING", "SUCCEEDED", "FAILED", "CANCELLED", "UNKNOWN_OUTCOME"}
          [] OTHER -> {}]

=============================================================================
