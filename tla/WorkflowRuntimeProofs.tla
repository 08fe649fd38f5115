----------------------- MODULE WorkflowRuntimeProofs ------------------------
(***************************************************************************)
(* Theorems about WorkflowRuntime for every plan, policy, executor and set *)
(* of cancelling threads.  The first part is about the store alone: what   *)
(* every one of its steps preserves, whoever takes it.  StoreStep is any   *)
(* one critical section of the store, with the arguments its callers may   *)
(* pass, StoreUpdate any one but an append.  Each step of each thread is   *)
(* then shown to be a StoreStep that keeps IInv: the types, and what the   *)
(* program counters say of the records they will read. Then comes what     *)
(* cancelling threads are told.                                            *)
(*                                                                         *)
(* The second half, Verdicts, shows that it implements RunLedger.          *)
(***************************************************************************)
EXTENDS WorkflowRuntime, SequenceTheorems, TLAPS

\* The rule of next_task_attempt that concerns the stored attempts.
FreshAttemptAllowed(t) ==
    taskAttempts[t] # << >> => LastAttempt(t) \in {"FAILED", "TIMED_OUT"}

StoreUpdate ==
    \/ UNCHANGED store
    \/ CreateWorkflowRun
    \/ \E t \in Tasks : CreateTaskRun(t)
    \/ \E e, g \in WorkflowRunStatus \cup {Absent} :
          g # Absent /\ UpdateWorkflowRun(e, g)
    \/ \E t \in Tasks : \E e, g \in TaskRunStatus \cup {Absent} :
          g # Absent /\ UpdateTaskRun(t, e, g)
    \/ \E t \in Tasks, n \in Nat : \E e, g \in TaskAttemptStatus :
          UpdateTaskAttempt(t, n, e, g)
    \/ \E t \in Tasks, n \in Nat : AppendExternalRunRef(t, n)
    \/ \E t \in Tasks : SetTaskOutputCheckpoint(t)

StoreStep ==
    \/ StoreUpdate
    \/ \E t \in Tasks : FreshAttemptAllowed(t) /\ AppendTaskAttempt(t)

-----------------------------------------------------------------------------

\* A terminal status has no successor in the transition tables.
LEMMA TerminalTaskStays ==
    \A s \in TaskRunTerminal : TaskRunTransitions[s] = {}
BY DEF TaskRunTerminal, TaskRunTransitions, TaskRunStatus

\* So has no terminal status of an attempt.
LEMMA TerminalAttemptStays ==
    \A s \in TaskAttemptTerminal : TaskAttemptTransitions[s] = {}
BY DEF TaskAttemptTerminal, TaskAttemptTransitions, TaskAttemptStatus

\* An accepted update of attempt n replaces its status and nothing else.
LEMMA AttemptReplaced ==
    ASSUME StoreTypeOK, NEW t \in Tasks, NEW n \in Nat,
           NEW e \in TaskAttemptStatus, NEW g \in TaskAttemptStatus,
           UpdateTaskAttempt(t, n, e, g)
    PROVE  /\ taskAttempts' \in [Tasks -> Seq(TaskAttemptStatus)]
           /\ \A u \in Tasks : u # t => taskAttempts'[u] = taskAttempts[u]
           /\ Len(taskAttempts'[t]) = Len(taskAttempts[t])
           /\ \A m \in 1 .. Len(taskAttempts[t]) :
                 taskAttempts'[t][m] = IF m = n THEN g ELSE taskAttempts[t][m]
           /\ n \in 1 .. Len(taskAttempts[t])
           /\ taskAttempts[t][n] = e
           /\ g \in TaskAttemptTransitions[e]
<1> DEFINE seq == taskAttempts[t]
<1>1. seq \in Seq(TaskAttemptStatus)
  BY DEF StoreTypeOK
<1>2. /\ n \in 1 .. Len(seq)
      /\ seq[n] = e
      /\ g \in TaskAttemptTransitions[e]
  BY <1>1, LenProperties DEF UpdateTaskAttempt, AttemptUpdateAccepted
<1>3. taskAttempts' = [taskAttempts EXCEPT ![t] = [seq EXCEPT ![n] = g]]
  BY DEF UpdateTaskAttempt
<1>4. /\ [seq EXCEPT ![n] = g] \in Seq(TaskAttemptStatus)
      /\ Len([seq EXCEPT ![n] = g]) = Len(seq)
      /\ \A m \in 1 .. Len(seq) :
            [seq EXCEPT ![n] = g][m] = IF m = n THEN g ELSE seq[m]
  BY <1>1, <1>2, ExceptSeq
<1>5. taskAttempts \in [Tasks -> Seq(TaskAttemptStatus)]
  BY DEF StoreTypeOK
<1> HIDE DEF seq
<1>6. taskAttempts'[t] = [seq EXCEPT ![n] = g]
  BY <1>3, <1>5
<1> QED
  BY <1>2, <1>3, <1>4, <1>5, <1>6 DEF seq

\* A new attempt comes after the others and changes none of them.
LEMMA AttemptAppended ==
    ASSUME StoreTypeOK, NEW t \in Tasks, AppendTaskAttempt(t)
    PROVE  /\ taskAttempts' \in [Tasks -> Seq(TaskAttemptStatus)]
           /\ \A u \in Tasks : u # t => taskAttempts'[u] = taskAttempts[u]
           /\ Len(taskAttempts'[t]) = Len(taskAttempts[t]) + 1
           /\ \A m \in 1 .. Len(taskAttempts[t]) :
                 taskAttempts'[t][m] = taskAttempts[t][m]
<1> DEFINE seq == taskAttempts[t]
<1>1. seq \in Seq(TaskAttemptStatus)
  BY DEF StoreTypeOK
<1>2. "PENDING" \in TaskAttemptStatus
  BY DEF TaskAttemptStatus
<1>3. /\ Append(seq, "PENDING") \in Seq(TaskAttemptStatus)
      /\ Len(Append(seq, "PENDING")) = Len(seq) + 1
      /\ \A m \in 1 .. Len(seq) : Append(seq, "PENDING")[m] = seq[m]
  BY <1>1, <1>2, AppendProperties
<1>4. taskAttempts' = [taskAttempts EXCEPT ![t] = Append(seq, "PENDING")]
  BY DEF AppendTaskAttempt
<1>5. taskAttempts \in [Tasks -> Seq(TaskAttemptStatus)]
  BY DEF StoreTypeOK
<1> HIDE DEF seq
<1> QED
  BY <1>3, <1>4, <1>5 DEF seq

\* A store step keeps the records well typed.
LEMMA StoreTypeInductive ==
    ASSUME StoreTypeOK, StoreStep
    PROVE  StoreTypeOK'
<1>1. CASE UNCHANGED store
  BY <1>1 DEF StoreTypeOK, store
<1>2. CASE CreateWorkflowRun
  BY <1>2 DEF StoreTypeOK, CreateWorkflowRun, WorkflowRunStatus
<1>3. ASSUME NEW t \in Tasks, CreateTaskRun(t)
      PROVE  StoreTypeOK'
  BY <1>3 DEF StoreTypeOK, CreateTaskRun, TaskRunStatus
<1>4. ASSUME NEW t \in Tasks, AppendTaskAttempt(t)
      PROVE  StoreTypeOK'
  BY <1>4, AttemptAppended DEF StoreTypeOK, AppendTaskAttempt
<1>5. ASSUME NEW e, NEW g \in WorkflowRunStatus \cup {Absent},
             UpdateWorkflowRun(e, g)
      PROVE  StoreTypeOK'
  BY <1>5 DEF StoreTypeOK, UpdateWorkflowRun
<1>6. ASSUME NEW t \in Tasks, NEW e, NEW g \in TaskRunStatus \cup {Absent},
             UpdateTaskRun(t, e, g)
      PROVE  StoreTypeOK'
  BY <1>6 DEF StoreTypeOK, UpdateTaskRun
<1>7. ASSUME NEW t \in Tasks, NEW n \in Nat, NEW e \in TaskAttemptStatus,
             NEW g \in TaskAttemptStatus, UpdateTaskAttempt(t, n, e, g)
      PROVE  StoreTypeOK'
  BY <1>7, AttemptReplaced DEF StoreTypeOK, UpdateTaskAttempt
<1>8. ASSUME NEW t \in Tasks, NEW n \in Nat, AppendExternalRunRef(t, n)
      PROVE  StoreTypeOK'
  BY <1>8 DEF StoreTypeOK, AppendExternalRunRef
<1>9. ASSUME NEW t \in Tasks, SetTaskOutputCheckpoint(t)
      PROVE  StoreTypeOK'
  BY <1>9 DEF StoreTypeOK, SetTaskOutputCheckpoint
<1> QED
  BY <1>1, <1>2, <1>3, <1>4, <1>5, <1>6, <1>7, <1>8, <1>9 DEF StoreStep, StoreUpdate

\* A store step moves every status along its transition table.
LEMMA StoreMovesLegally ==
    ASSUME StoreTypeOK, StoreStep
    PROVE  /\ WorkflowMovesLegally
           /\ \A t \in Tasks : TaskMovesLegally(t) /\ AttemptsMoveLegally(t)
<1> DEFINE Moves ==
       /\ WorkflowMovesLegally
       /\ \A t \in Tasks : TaskMovesLegally(t) /\ AttemptsMoveLegally(t)
<1> USE DEF WorkflowMovesLegally, TaskMovesLegally, AttemptsMoveLegally
<1>1. CASE UNCHANGED store
  BY <1>1 DEF store
<1>2. CASE CreateWorkflowRun
  BY <1>2 DEF CreateWorkflowRun
<1>3. ASSUME NEW t \in Tasks, CreateTaskRun(t)
      PROVE  Moves
  BY <1>3 DEF StoreTypeOK, CreateTaskRun
<1>4. ASSUME NEW t \in Tasks, AppendTaskAttempt(t)
      PROVE  Moves
  <2>1. \A u \in Tasks : AttemptsMoveLegally(u)
    BY <1>4, AttemptAppended
  <2> QED
    BY <1>4, <2>1 DEF AppendTaskAttempt
<1>5. ASSUME NEW e, NEW g, UpdateWorkflowRun(e, g)
      PROVE  Moves
  BY <1>5 DEF UpdateWorkflowRun, WorkflowUpdateAccepted
<1>6. ASSUME NEW t \in Tasks, NEW e, NEW g, UpdateTaskRun(t, e, g)
      PROVE  Moves
  BY <1>6 DEF StoreTypeOK, UpdateTaskRun, TaskUpdateAccepted
<1>7. ASSUME NEW t \in Tasks, NEW n \in Nat, NEW e \in TaskAttemptStatus,
             NEW g \in TaskAttemptStatus, UpdateTaskAttempt(t, n, e, g)
      PROVE  Moves
  <2>1. /\ \A u \in Tasks : u # t => taskAttempts'[u] = taskAttempts[u]
        /\ Len(taskAttempts'[t]) = Len(taskAttempts[t])
        /\ \A m \in 1 .. Len(taskAttempts[t]) :
              taskAttempts'[t][m] = IF m = n THEN g ELSE taskAttempts[t][m]
        /\ n \in 1 .. Len(taskAttempts[t]) /\ taskAttempts[t][n] = e
        /\ g \in TaskAttemptTransitions[e]
    BY <1>7, AttemptReplaced
  <2>2. AttemptsMoveLegally(t)
    BY <2>1
  <2>3. \A u \in Tasks : AttemptsMoveLegally(u)
    BY <2>1, <2>2
  <2> QED
    BY <1>7, <2>3 DEF UpdateTaskAttempt
<1>8. ASSUME NEW t \in Tasks, NEW n \in Nat, AppendExternalRunRef(t, n)
      PROVE  Moves
  BY <1>8 DEF AppendExternalRunRef
<1>9. ASSUME NEW t \in Tasks, SetTaskOutputCheckpoint(t)
      PROVE  Moves
  BY <1>9 DEF SetTaskOutputCheckpoint
<1> QED
  BY <1>1, <1>2, <1>3, <1>4, <1>5, <1>6, <1>7, <1>8, <1>9 DEF StoreStep, StoreUpdate

\* A settled task run stays as it is, and no attempt is ever taken back.
LEMMA SettledStays ==
    ASSUME StoreTypeOK, StoreStep, NEW t \in Tasks
    PROVE  /\ taskRun[t] \in TaskRunTerminal => taskRun'[t] = taskRun[t]
           /\ Len(taskAttempts'[t]) \in Nat
           /\ Len(taskAttempts'[t]) >= Len(taskAttempts[t])
           /\ taskAttempts[t] # << >> => taskAttempts'[t] # << >>
<1>1. TaskMovesLegally(t) /\ AttemptsMoveLegally(t)
  BY StoreMovesLegally
<1>2. taskRun[t] \in TaskRunTerminal => taskRun'[t] = taskRun[t]
  BY <1>1, TerminalTaskStays DEF TaskMovesLegally, TaskRunTerminal, Absent
<1>3. taskAttempts[t] \in Seq(TaskAttemptStatus)
  BY DEF StoreTypeOK
<1>4. Len(taskAttempts[t]) \in Nat
  BY <1>3, LenProperties
<1>5. taskAttempts[t] # << >> => Len(taskAttempts[t]) \in Nat \ {0}
  BY <1>3, EmptySeq
<1>6. Len(<< >>) = 0
  BY EmptySeq
<1> QED
  BY <1>1, <1>2, <1>4, <1>5, <1>6 DEF AttemptsMoveLegally

\* Only an append makes an attempt.
LEMMA UpdateAppendsNothing ==
    ASSUME StoreTypeOK, StoreUpdate, NEW t \in Tasks
    PROVE  Len(taskAttempts'[t]) = Len(taskAttempts[t])
<1>1. ASSUME NEW u \in Tasks, NEW n \in Nat, NEW e \in TaskAttemptStatus,
             NEW g \in TaskAttemptStatus, UpdateTaskAttempt(u, n, e, g)
      PROVE  Len(taskAttempts'[t]) = Len(taskAttempts[t])
  BY <1>1, AttemptReplaced
<1>2. CASE UNCHANGED taskAttempts
  BY <1>2
<1> QED
  BY <1>1, <1>2
  DEF StoreUpdate, store, CreateWorkflowRun, CreateTaskRun, UpdateWorkflowRun,
      UpdateTaskRun, AppendExternalRunRef, SetTaskOutputCheckpoint

\* No store step lets an attempt follow anything but a known failure.
LEMMA AttemptSequenceInductive ==
    ASSUME StoreTypeOK, StoreStep, AttemptSequence
    PROVE  AttemptSequence'
<1> USE DEF AttemptSequence
<1>1. CASE \E t \in Tasks : FreshAttemptAllowed(t) /\ AppendTaskAttempt(t)
  <2>1. PICK t \in Tasks : FreshAttemptAllowed(t) /\ AppendTaskAttempt(t)
    BY <1>1
  <2>2. taskAttempts[t] \in Seq(TaskAttemptStatus) /\ Len(taskAttempts[t]) \in Nat
    BY LenProperties DEF StoreTypeOK
  <2>3. taskAttempts[t] = << >> => Len(taskAttempts[t]) = 0
    BY EmptySeq
  <2>4. \A n \in 1 .. Len(taskAttempts[t]) :
           taskAttempts[t][n] \in {"FAILED", "TIMED_OUT"}
    BY <2>1, <2>2, <2>3 DEF FreshAttemptAllowed, LastAttempt
  <2> QED
    BY <2>1, <2>2, <2>4, AttemptAppended
<1>2. ASSUME NEW t \in Tasks, NEW n \in Nat, NEW e \in TaskAttemptStatus,
             NEW g \in TaskAttemptStatus, UpdateTaskAttempt(t, n, e, g)
      PROVE  AttemptSequence'
  <2>1. e \notin {"FAILED", "TIMED_OUT"}
    BY <1>2, AttemptReplaced, TerminalAttemptStays DEF TaskAttemptTerminal
  <2>2. /\ Len(taskAttempts'[t]) = Len(taskAttempts[t])
        /\ n \in 1 .. Len(taskAttempts[t])
        /\ taskAttempts[t][n] = e
        /\ \A m \in 1 .. Len(taskAttempts[t]) :
              taskAttempts'[t][m] = IF m = n THEN g ELSE taskAttempts[t][m]
        /\ \A u \in Tasks : u # t => taskAttempts'[u] = taskAttempts[u]
    BY <1>2, AttemptReplaced
  <2>3. ~ (n < Len(taskAttempts[t]))
    BY <2>1, <2>2
  <2> QED
    BY <2>2, <2>3
<1>3. CASE UNCHANGED taskAttempts
  BY <1>3
<1> QED
  BY <1>1, <1>2, <1>3
  DEF StoreStep, StoreUpdate, store, CreateWorkflowRun, CreateTaskRun,
      UpdateWorkflowRun, UpdateTaskRun, AppendExternalRunRef, SetTaskOutputCheckpoint

\* No store step checkpoints the output of a task that did not succeed, nor
\* takes the success of a checkpointed task back.
LEMMA CheckpointInductive ==
    ASSUME StoreTypeOK, StoreStep, CheckpointOnlySucceeded
    PROVE  CheckpointOnlySucceeded'
<1>1. \A t \in Tasks : taskRun[t] \in TaskRunTerminal => taskRun'[t] = taskRun[t]
  BY SettledStays
<1>2. checkpoints \subseteq Tasks
  BY DEF StoreTypeOK
<1>3. CASE UNCHANGED checkpoints
  BY <1>1, <1>2, <1>3 DEF CheckpointOnlySucceeded, TaskRunTerminal
<1>4. ASSUME NEW t \in Tasks, SetTaskOutputCheckpoint(t)
      PROVE  CheckpointOnlySucceeded'
  BY <1>4 DEF SetTaskOutputCheckpoint, CheckpointOnlySucceeded
<1> QED
  BY <1>3, <1>4
  DEF StoreStep, StoreUpdate, store, CreateWorkflowRun, CreateTaskRun,
      AppendTaskAttempt, UpdateWorkflowRun, UpdateTaskRun, UpdateTaskAttempt,
      AppendExternalRunRef

-----------------------------------------------------------------------------
(* The threads.                                                            *)

\* The steps of the run thread that work on the last attempt of the task.
InFlight ==
    {"starting", "running", "remember", "execute", "executing", "forget",
     "reload_attempt"}

\* The steps that may still lead to an attempt of the task.
Dispatching ==
    InFlight \cup {"ready", "run", "append", "reload_task", "reload_run",
                   "persist_refs", "append_ref", "evaluate"}

Dispatchable(t) ==
    /\ Upstream(t) \subseteq TaskRunTerminal
    /\ TriggerAllows(TriggerRule[t], Upstream(t))

\* The steps of cancel_task that read the attempt they refer to, and those
\* that act on the executor's answer.
OnTheAttempt == {"request_attempt", "handle", "ask_executor", "after_attempt"}
Answered == {"after_task", "reply_refs", "append_ref", "settle_attempt", "settle_task"}

IsReady(local) ==
    /\ local.at \in OnTheAttempt =>
          local.num \in 1 .. Len(taskAttempts[local.task])
    /\ local.at \in Answered => local.answer # Unanswered

InFlightHasAttempt == pc \in InFlight => taskAttempts[task] # << >>
DispatchingIsDispatchable == pc \in Dispatching => Dispatchable(task)
CallsAreReady == \A c \in Callers : IsReady(call[c])

IInv ==
    /\ TypeOK
    /\ InFlightHasAttempt
    /\ CallsAreReady
    /\ DispatchingIsDispatchable
    /\ DispatchAfterDependencies

\* What a step of the run thread does to the store, and how its program
\* counter moves.
AppendStep ==
    pc = "append" /\ FreshAttemptAllowed(task) /\ AppendTaskAttempt(task)

ControlMoves ==
    /\ pc' \in InFlight =>
          task' = task /\ (pc \in InFlight \/ AppendStep)
    /\ pc' \in Dispatching =>
          task' = task /\ (pc \in Dispatching \/ Dispatchable(task))

RunThreadMoves ==
    /\ StoreUpdate \/ AppendStep
    /\ RunLoopTypeOK'
    /\ ControlMoves

-----------------------------------------------------------------------------
(* The operators the actions of the run thread are built from.             *)

\* A failure always ends in one of three terminal statuses.
LEMMA TerminalForType ==
    \A f : TerminalFor(f) \in {"TIMED_OUT", "CANCELLED", "FAILED"}
BY DEF TerminalFor

\* Every retry decision maps to a status of attempts.
LEMMA AttemptStatusForType == \A d, f : AttemptStatusFor(d, f) \in TaskAttemptStatus
BY TerminalForType DEF AttemptStatusFor, TaskAttemptStatus

\* Where the failure path may go on.
LEMMA AfterDecisionType ==
    \A d : AfterDecision(d) \in {"unknown_task", "append", "fail_task"}
BY DEF AfterDecision

\* Where the run thread may go once it reloaded its records.
LEMMA AfterReloadType ==
    AfterReload \in {"cancel_scan", "cancel_task", "succeed_attempt", "evaluate"}
BY DEF AfterReload

\* The number of attempts of a task is a natural number.
LEMMA AttemptNumberType ==
    ASSUME StoreTypeOK, NEW t \in Tasks
    PROVE  Len(taskAttempts[t]) \in Nat
BY LenProperties DEF StoreTypeOK

\* An update of the run thread's own copy of the workflow run.
LEMMA TransitionWorkflowMoves ==
    ASSUME TypeOK, NEW g \in WorkflowRunStatus, NEW next \in Steps,
           TransitionWorkflow(g, next)
    PROVE  /\ StoreUpdate
           /\ pc' \in {next, "raised"}
           /\ runView' \in WorkflowRunStatus \cup {Absent}
           /\ UNCHANGED <<taskView, attemptView>>
BY DEF TypeOK, RunLoopTypeOK, TransitionWorkflow, Raise, StoreUpdate, views,
       WorkflowRunStatus, Absent

\* An update of the run thread's own copy of a task run.
LEMMA TransitionTaskMoves ==
    ASSUME TypeOK, NEW t \in Tasks, NEW g \in TaskRunStatus, NEW next \in Steps,
           TransitionTask(t, g, next)
    PROVE  /\ StoreUpdate
           /\ pc' \in {next, "raised"}
           /\ taskView' \in TaskRunStatus \cup {Absent}
           /\ UNCHANGED <<runView, attemptView>>
BY DEF TypeOK, RunLoopTypeOK, TransitionTask, Raise, StoreUpdate, views,
       TaskRunStatus, Absent

\* An update of the run thread's own copy of the last attempt.
LEMMA TransitionAttemptMoves ==
    ASSUME TypeOK, NEW g \in TaskAttemptStatus, NEW next \in Steps,
           TransitionAttempt(g, next)
    PROVE  /\ StoreUpdate
           /\ pc' \in {next, "raised"}
           /\ attemptView' \in TaskAttemptStatus
           /\ UNCHANGED <<runView, taskView>>
<1>1. AttemptNumber \in Nat /\ task \in Tasks /\ attemptView \in TaskAttemptStatus
  BY AttemptNumberType DEF TypeOK, RunLoopTypeOK, AttemptNumber
<1> QED
  BY <1>1 DEF TransitionAttempt, Raise, StoreUpdate, views

\* A step that changes nothing but one of the statuses and the pc.
LEMMA OnWorkflowMoves ==
    ASSUME TypeOK, NEW g \in WorkflowRunStatus, NEW step \in Steps \ Dispatching,
           NEW next \in Steps \ Dispatching, OnWorkflow(step, g, next)
    PROVE  RunThreadMoves
<1>1. TransitionWorkflow(g, next) /\ UNCHANGED <<cursor, scan, result, executor>>
  BY DEF OnWorkflow
<1> QED
  BY <1>1, TransitionWorkflowMoves
  DEF TypeOK, RunLoopTypeOK, RunThreadMoves, ControlMoves, Steps, Dispatching,
      InFlight, cursor, scan, executor

\* A step that updates the run thread's task and moves on.
LEMMA OnTaskMoves ==
    ASSUME TypeOK, NEW g \in TaskRunStatus, NEW step \in Steps \ InFlight,
           NEW next \in Steps \ InFlight, OnTask(step, g, next),
           next \in Dispatching => step \in Dispatching
    PROVE  RunThreadMoves
<1>1. /\ pc = step
      /\ task \in Tasks
      /\ TransitionTask(task, g, next)
      /\ UNCHANGED <<cursor, scan, result, executor>>
  BY DEF OnTask, TypeOK, RunLoopTypeOK
<1> QED
  BY <1>1, TransitionTaskMoves
  DEF TypeOK, RunLoopTypeOK, RunThreadMoves, ControlMoves, Steps, Dispatching,
      InFlight, cursor, scan, executor

\* A step that updates the run thread's attempt and moves on.
LEMMA OnAttemptMoves ==
    ASSUME TypeOK, NEW g \in TaskAttemptStatus, NEW step \in Steps,
           NEW next \in Steps, OnAttempt(step, g, next),
           next \in InFlight => step \in InFlight,
           next \in Dispatching => step \in Dispatching
    PROVE  RunThreadMoves
<1>1. /\ pc = step
      /\ TransitionAttempt(g, next)
      /\ UNCHANGED <<cursor, scan, result, executor>>
  BY DEF OnAttempt
<1> QED
  BY <1>1, TransitionAttemptMoves
  DEF TypeOK, RunLoopTypeOK, RunThreadMoves, ControlMoves, Steps, Dispatching,
      InFlight, cursor, scan, executor

-----------------------------------------------------------------------------
(* The actions of the run thread, in the order of RunLoop.                 *)

\* The last attempt of a task that has one.
LEMMA LastAttemptType ==
    ASSUME StoreTypeOK, NEW t \in Tasks, taskAttempts[t] # << >>
    PROVE  LastAttempt(t) \in TaskAttemptStatus
<1>1. taskAttempts[t] \in Seq(TaskAttemptStatus)
  BY DEF StoreTypeOK
<1> QED
  BY <1>1, EmptySeq, LenProperties, ElementOfSeq DEF LastAttempt

\* The records of the run and the readiness of a plan entry.
LEMMA PlanMoves ==
    ASSUME TypeOK,
           \/ CreateRun \/ CreateTask \/ ReuseCheckpoint \/ SkipReusedTask
           \/ EvaluateReadiness \/ SkipTask
    PROVE  RunThreadMoves
<1> USE DEF TypeOK, RunLoopTypeOK, RunThreadMoves, ControlMoves, Steps,
            Dispatching, InFlight, cursor, views, scan, executor
<1>1. CASE CreateRun
  BY <1>1 DEF CreateRun, StoreUpdate
<1>2. CASE CreateTask
  BY <1>2, TaskCountIsPositive
  DEF CreateTask, NextToCreate, StoreUpdate, Tasks, TaskRunStatus
<1>3. CASE ReuseCheckpoint
  BY <1>3, TaskCountIsPositive
  DEF ReuseCheckpoint, NextToCreate, StoreUpdate, Tasks
<1>4. CASE SkipReusedTask
  BY <1>4, TaskCountIsPositive DEF SkipReusedTask, NextEntry, StoreUpdate, Tasks
<1>5. CASE EvaluateReadiness
  <2>1. /\ pc = "next_task"
        /\ UNCHANGED <<store, cursor, runView, attemptView, scan, result, executor>>
        /\ taskView' = taskRun[task]
        /\ \/ pc' = "raised"
           \/ Upstream(task) \subseteq TaskRunTerminal /\ pc' = AfterReadiness(task)
    BY <1>5 DEF EvaluateReadiness
  <2>2. taskView' \in TaskRunStatus \cup {Absent}
    BY <2>1 DEF StoreTypeOK
  <2>3. \/ pc' \in {"raised", "skip"}
        \/ pc' = "ready" /\ Dispatchable(task)
    BY <2>1 DEF AfterReadiness, Dispatchable
  <2> QED
    BY <2>1, <2>2, <2>3 DEF StoreUpdate
<1>6. CASE SkipTask
  BY <1>6, TaskCountIsPositive
  DEF SkipTask, NextEntry, Raise, StoreUpdate, Tasks, TaskRunStatus, Absent
<1> QED
  BY <1>1, <1>2, <1>3, <1>4, <1>5, <1>6

\* One attempt, from its append to the reloads that follow it.
LEMMA AttemptMoves ==
    ASSUME TypeOK, InFlightHasAttempt,
           \/ AppendAttempt \/ RememberActiveRequest \/ BeginExecute \/ EndExecute
           \/ ForgetActiveRequest \/ ReloadAttempt \/ ReloadTask \/ ReloadRun
           \/ PersistExternalRunRefs \/ AppendExternalRef
    PROVE  RunThreadMoves
<1> USE DEF TypeOK, RunLoopTypeOK, RunThreadMoves, ControlMoves, Steps,
            Dispatching, InFlight, cursor, views, scan, executor
<1>1. CASE AppendAttempt
  BY <1>1
  DEF AppendAttempt, Raise, StoreUpdate, AppendStep, NextAttemptAllowed,
      FreshAttemptAllowed, TaskAttemptStatus
<1>2. AttemptNumber \in Nat
  BY AttemptNumberType DEF AttemptNumber
<1>3. CASE RememberActiveRequest
  BY <1>2, <1>3 DEF RememberActiveRequest, StoreUpdate
<1>4. CASE BeginExecute
  BY <1>4 DEF BeginExecute, StoreUpdate
<1>5. CASE EndExecute
  BY <1>5, OutcomesType DEF EndExecute, StoreUpdate
<1>6. CASE ForgetActiveRequest
  BY <1>6 DEF ForgetActiveRequest, StoreUpdate
<1>7. CASE ReloadAttempt
  <2>1. attemptView' \in TaskAttemptStatus
    BY <1>7, LastAttemptType DEF ReloadAttempt, InFlightHasAttempt
  <2> QED
    BY <1>7, <2>1 DEF ReloadAttempt, StoreUpdate
<1>8. CASE ReloadTask
  BY <1>8 DEF ReloadTask, StoreUpdate, StoreTypeOK
<1>9. CASE ReloadRun
  BY <1>9 DEF ReloadRun, StoreUpdate, StoreTypeOK
<1>10. CASE PersistExternalRunRefs
  BY <1>10, AfterReloadType DEF PersistExternalRunRefs, StoreUpdate
<1>11. CASE AppendExternalRef
  BY <1>2, <1>11, AfterReloadType DEF AppendExternalRef, Raise, StoreUpdate
<1> QED
  BY <1>1, <1>3, <1>4, <1>5, <1>6, <1>7, <1>8, <1>9, <1>10, <1>11

\* What follows an attempt: cancellation, success, failure, the end.
LEMMA OutcomeMoves ==
    ASSUME TypeOK,
           \/ ListNotStarted \/ CancelNotStarted \/ NotStartedCancelled
           \/ PersistOutputCheckpoint \/ RecheckRun \/ EvaluateFailure
           \/ FailFast \/ AssertTerminalTaskRuns
    PROVE  RunThreadMoves
<1> USE DEF TypeOK, RunLoopTypeOK, RunThreadMoves, ControlMoves, Steps,
            Dispatching, InFlight, cursor, views, scan, executor
<1>1. CASE ListNotStarted
  BY <1>1 DEF ListNotStarted, StoreUpdate, StoreTypeOK
<1>2. CASE CancelNotStarted
  BY <1>2
  DEF CancelNotStarted, Raise, StoreUpdate, TaskRunStatus, Absent
<1>3. CASE NotStartedCancelled
  BY <1>3 DEF NotStartedCancelled, StoreUpdate
<1>4. CASE PersistOutputCheckpoint
  BY <1>4 DEF PersistOutputCheckpoint, StoreUpdate
<1>5. CASE RecheckRun
  <2>1. UNCHANGED <<store, reused, taskView, attemptView, scan, result, executor>>
    BY <1>5 DEF RecheckRun
  <2>2. task' \in Tasks /\ pc' \in {"cancel_scan", "assert_terminal", "next_task"}
    BY <1>5, TaskCountIsPositive DEF RecheckRun, NextEntry, Tasks
  <2>3. runView' \in WorkflowRunStatus \cup {Absent}
    BY <1>5 DEF RecheckRun, StoreTypeOK
  <2> QED
    BY <2>1, <2>2, <2>3 DEF StoreUpdate
<1>6. CASE EvaluateFailure
  <2>1. /\ pc = "evaluate"
        /\ UNCHANGED <<cursor, scan, result, executor>>
        /\ \/ Raise
           \/ \E d \in {evaluation.decision : evaluation \in UNION
                  {Evaluations(Policy, result.failure, AttemptNumber, elapsed)
                     : elapsed \in ElapsedChoices}} :
                 TransitionAttempt(AttemptStatusFor(d, result.failure),
                                   AfterDecision(d))
    BY <1>6 DEF EvaluateFailure
  <2>2. CASE Raise
    BY <2>1, <2>2 DEF Raise, StoreUpdate
  <2>3. ASSUME NEW d,
               TransitionAttempt(AttemptStatusFor(d, result.failure),
                                 AfterDecision(d))
        PROVE  /\ StoreUpdate
               /\ pc' \in {"unknown_task", "append", "fail_task", "raised"}
               /\ attemptView' \in TaskAttemptStatus
               /\ UNCHANGED <<runView, taskView>>
    <3>1. AfterDecision(d) \in {"unknown_task", "append", "fail_task"}
      BY AfterDecisionType
    <3>2. AttemptStatusFor(d, result.failure) \in TaskAttemptStatus
      BY AttemptStatusForType
    <3> QED
      BY <2>3, <3>1, <3>2, TransitionAttemptMoves
  <2> QED
    BY <2>1, <2>2, <2>3
<1>7. CASE FailFast
  BY <1>7, TaskCountIsPositive, SMTT(20) DEF FailFast, StoreUpdate, StoreTypeOK, Tasks
<1>8. CASE AssertTerminalTaskRuns
  BY <1>8 DEF AssertTerminalTaskRuns, StoreUpdate
<1> QED
  BY <1>1, <1>2, <1>3, <1>4, <1>5, <1>6, <1>7, <1>8

\* Every step of the run thread.
LEMMA RunThreadSteps ==
    ASSUME TypeOK, InFlightHasAttempt, RunThread
    PROVE  RunThreadMoves
<1> USE DEF Steps, Dispatching, InFlight
<1>1. CASE ReuseTask
  BY <1>1, OnTaskMoves DEF ReuseTask, TaskRunStatus
<1>2. CASE StartRun
  BY <1>2, OnWorkflowMoves DEF StartRun, WorkflowRunStatus
<1>3. CASE ReadyTask
  BY <1>3, OnTaskMoves DEF ReadyTask, TaskRunStatus
<1>4. CASE RunTask
  BY <1>4, OnTaskMoves DEF RunTask, TaskRunStatus
<1>5. CASE StartAttempt
  BY <1>5, OnAttemptMoves DEF StartAttempt, TaskAttemptStatus
<1>6. CASE RunAttempt
  BY <1>6, OnAttemptMoves DEF RunAttempt, TaskAttemptStatus
<1>7. CASE CancelTaskRun
  BY <1>7, OnTaskMoves DEF CancelTaskRun, TaskRunStatus
<1>8. CASE CancelRun
  BY <1>8, OnWorkflowMoves DEF CancelRun, WorkflowRunStatus
<1>9. CASE SucceedAttempt
  BY <1>9, OnAttemptMoves DEF SucceedAttempt, TaskAttemptStatus
<1>10. CASE SucceedTask
  BY <1>10, OnTaskMoves DEF SucceedTask, TaskRunStatus
<1>11. CASE UnknownTask
  BY <1>11, OnTaskMoves DEF UnknownTask, TaskRunStatus
<1>12. CASE UnknownRun
  BY <1>12, OnWorkflowMoves DEF UnknownRun, WorkflowRunStatus
<1>13. TerminalFor(result.failure) \in TaskRunStatus \cap WorkflowRunStatus
  BY TerminalForType DEF TaskRunStatus, WorkflowRunStatus
<1>14. CASE FailTask
  BY <1>13, <1>14, OnTaskMoves DEF FailTask
<1>15. CASE FailFastSkip
  BY <1>15, OnTaskMoves DEF FailFastSkip, TaskRunStatus
<1>16. CASE FailRun
  BY <1>13, <1>16, OnWorkflowMoves DEF FailRun
<1>17. CASE SucceedRun
  BY <1>17, OnWorkflowMoves DEF SucceedRun, WorkflowRunStatus
<1> QED
  BY <1>1, <1>2, <1>3, <1>4, <1>5, <1>6, <1>7, <1>8, <1>9, <1>10, <1>11, <1>12,
     <1>14, <1>15, <1>16, <1>17, PlanMoves, AttemptMoves, OutcomeMoves
  DEF RunThread

-----------------------------------------------------------------------------
(* The steps of a cancelling thread.                                       *)

GoodCall(local) == local \in Calls /\ IsReady(local)

CallMoves(c) ==
    /\ StoreUpdate
    /\ RunLoopTypeOK'
    /\ UNCHANGED <<pc, task>>
    /\ \E local \in Calls : IsReady(local) /\ call' = [call EXCEPT ![c] = local]

\* The local variables a call has, starts with and goes on with.
LEMMA CallType ==
    ASSUME TypeOK, CallsAreReady, NEW c \in Callers
    PROVE  call[c] \in Calls /\ IsReady(call[c])
BY DEF TypeOK, CancellationTypeOK, CallsAreReady

\* A call that has not begun is well typed.
LEMMA NoCallType == NoCall \in Calls
<1>1. [t \in Tasks |-> Absent] \in [Tasks -> TaskRunStatus \cup {Absent}]
  OBVIOUS
<1>2. 1 \in Tasks /\ "idle" \in CallSteps
  BY TaskCountIsPositive DEF Tasks, CallSteps
<1>3. /\ "PENDING" \in WorkflowRunStatus
      /\ "PENDING" \in TaskRunStatus
      /\ "PENDING" \in TaskAttemptStatus
  BY DEF WorkflowRunStatus, TaskRunStatus, TaskAttemptStatus
<1> QED
  BY <1>1, <1>2, <1>3 DEF NoCall, Calls

\* Moving a call to another step keeps its other variables.
LEMMA GotoCall ==
    ASSUME TypeOK, CallsAreReady, NEW c \in Callers, NEW step \in CallSteps
    PROVE  Goto(c, step) \in Calls /\ Goto(c, step).at = step
BY CallType DEF Goto, Calls

\* A call may move to a step whose needs its variables already meet.
LEMMA GotoType ==
    ASSUME TypeOK, CallsAreReady, NEW c \in Callers, NEW step \in CallSteps,
           step \in OnTheAttempt => call[c].at \in OnTheAttempt,
           step \in Answered => call[c].at \in Answered
    PROVE  GoodCall(Goto(c, step))
BY CallType DEF GoodCall, IsReady, Goto, Calls

\* A reply is a well-formed end of a call.
LEMMA ReplyType ==
    ASSUME TypeOK, CallsAreReady, NEW c \in Callers,
           NEW status \in CancellationStatus \cup {Unanswered}
    PROVE  GoodCall(Reply(c, status))
<1>1. call[c].whole \in BOOLEAN /\ call[c].task \in Tasks
  BY CallType DEF Calls
<1>2. \A local \in Calls, w \in BOOLEAN, t \in Tasks, step \in CallSteps :
         [local EXCEPT !.at = step, !.whole = w, !.task = t, !.reply = status]
            \in Calls
  BY DEF Calls
<1>3. Reply(c, status) \in Calls
  BY <1>1, <1>2, NoCallType DEF Reply, CallSteps
<1>4. Reply(c, status).at = "replied"
  BY DEF Reply, NoCall
<1> QED
  BY <1>3, <1>4 DEF GoodCall, IsReady, OnTheAttempt, Answered

\* So is the end of cancel_task within cancel.
LEMMA TaskReplyType ==
    ASSUME TypeOK, CallsAreReady, NEW c \in Callers,
           NEW status \in CancellationStatus
    PROVE  GoodCall(TaskReply(c, status))
<1>1. CASE call[c].whole
  <2> DEFINE next == [call[c] EXCEPT !.at = "each",
                                     !.statuses = call[c].statuses \cup {status}]
  <2>1. call[c] \in Calls /\ "each" \in CallSteps
    BY CallType DEF CallSteps
  <2>2. next \in Calls /\ next.at = "each"
    BY <2>1 DEF Calls
  <2>3. TaskReply(c, status) = next
    BY <1>1 DEF TaskReply
  <2> HIDE DEF next
  <2> QED
    BY <2>2, <2>3 DEF GoodCall, IsReady, OnTheAttempt, Answered
<1>2. CASE ~ call[c].whole
  BY <1>2, ReplyType DEF TaskReply
<1> QED
  BY <1>1, <1>2

\* The four forms of a step of a call.
LEMMA LocalMoves ==
    ASSUME TypeOK, NEW c \in Callers, NEW local, GoodCall(local), Local(c, local)
    PROVE  CallMoves(c)
BY DEF TypeOK, RunLoopTypeOK, GoodCall, Local, CallMoves, StoreUpdate, runThread,
       executor

\* A refused update ends the call and changes nothing else.
LEMMA CallRaisesMoves ==
    ASSUME TypeOK, NEW c \in Callers, CallRaises(c)
    PROVE  CallMoves(c)
<1>1. \A step \in CallSteps :
         /\ [NoCall EXCEPT !.at = step] \in Calls
         /\ [NoCall EXCEPT !.at = step].at = step
  BY NoCallType DEF Calls
<1>2. GoodCall([NoCall EXCEPT !.at = "raised"])
  BY <1>1 DEF GoodCall, IsReady, CallSteps, OnTheAttempt, Answered
<1> QED
  BY <1>2, LocalMoves DEF CallRaises

\* An update of the workflow run by a call.
LEMMA CallTransitionsRunMoves ==
    ASSUME TypeOK, CallsAreReady, NEW c \in Callers, NEW g \in WorkflowRunStatus,
           NEW local, GoodCall(local), CallTransitionsRun(c, g, local)
    PROVE  CallMoves(c)
<1>1. CASE CallRaises(c)
  BY <1>1, CallRaisesMoves
<1>2. CASE /\ UpdateWorkflowRun(call[c].run, g)
           /\ call' = [call EXCEPT ![c] = local]
           /\ UNCHANGED <<runThread, executor>>
  <2>1. call[c].run \in WorkflowRunStatus \cup {Absent}
    BY CallType DEF Calls
  <2>2. StoreUpdate
    BY <1>2, <2>1 DEF StoreUpdate, WorkflowRunStatus, Absent
  <2> QED
    BY <1>2, <2>2
    DEF TypeOK, RunLoopTypeOK, GoodCall, CallMoves, runThread, executor
<1> QED
  BY <1>1, <1>2 DEF CallTransitionsRun

\* An update of a task run by a call.
LEMMA CallTransitionsTaskMoves ==
    ASSUME TypeOK, CallsAreReady, NEW c \in Callers, NEW g \in TaskRunStatus,
           NEW local, GoodCall(local), CallTransitionsTask(c, g, local)
    PROVE  CallMoves(c)
<1>1. CASE CallRaises(c)
  BY <1>1, CallRaisesMoves
<1>2. CASE /\ UpdateTaskRun(call[c].task, call[c].taskRun, g)
           /\ call' = [call EXCEPT ![c] = local]
           /\ UNCHANGED <<runThread, executor>>
  <2>1. call[c].task \in Tasks /\ call[c].taskRun \in TaskRunStatus \cup {Absent}
    BY CallType DEF Calls
  <2>2. StoreUpdate
    BY <1>2, <2>1 DEF StoreUpdate, TaskRunStatus, Absent
  <2> QED
    BY <1>2, <2>2
    DEF TypeOK, RunLoopTypeOK, GoodCall, CallMoves, runThread, executor
<1> QED
  BY <1>1, <1>2 DEF CallTransitionsTask

\* An update of an attempt by a call.
LEMMA CallTransitionsAttemptMoves ==
    ASSUME TypeOK, CallsAreReady, NEW c \in Callers, NEW g \in TaskAttemptStatus,
           NEW local, GoodCall(local), CallTransitionsAttempt(c, g, local)
    PROVE  CallMoves(c)
<1>1. CASE CallRaises(c)
  BY <1>1, CallRaisesMoves
<1>2. CASE /\ UpdateTaskAttempt(call[c].task, call[c].num, call[c].attempt, g)
           /\ call' = [call EXCEPT ![c] = local]
           /\ UNCHANGED <<runThread, executor>>
  <2>1. /\ call[c].task \in Tasks
        /\ call[c].num \in Nat
        /\ call[c].attempt \in TaskAttemptStatus
    BY CallType DEF Calls
  <2>2. StoreUpdate
    BY <1>2, <2>1 DEF StoreUpdate
  <2> QED
    BY <1>2, <2>2
    DEF TypeOK, RunLoopTypeOK, GoodCall, CallMoves, runThread, executor
<1> QED
  BY <1>1, <1>2 DEF CallTransitionsAttempt

-----------------------------------------------------------------------------
(* The actions of a cancelling thread, in the order of Cancellation.       *)

\* cancel, up to its listing of the tasks.
LEMMA CancelOpensMoves ==
    ASSUME TypeOK, CallsAreReady, NEW c \in Callers,
           BeginCancel(c) \/ ReadRun(c) \/ RequestRun(c) \/ ListTasks(c)
    PROVE  CallMoves(c)
<1> USE DEF CallSteps, OnTheAttempt, Answered
<1>1. CASE BeginCancel(c)
  BY <1>1, GotoType, LocalMoves DEF BeginCancel
<1>2. CASE ReadRun(c)
  <2> DEFINE next == [Goto(c, "request_run") EXCEPT !.run = workflowRun]
  <2>1. Goto(c, "request_run") \in Calls /\ Goto(c, "request_run").at = "request_run"
    BY GotoCall
  <2>2. workflowRun \in WorkflowRunStatus \cup {Absent}
    BY DEF TypeOK, StoreTypeOK
  <2>3. next \in Calls /\ next.at = "request_run"
    BY <2>1, <2>2 DEF Calls
  <2>4. GoodCall(next)
    BY <2>3 DEF GoodCall, IsReady
  <2>5. \A status \in {"already_terminal", "unconfirmed"} : GoodCall(Reply(c, status))
    BY ReplyType DEF CancellationStatus
  <2> QED
    BY <1>2, <2>4, <2>5, GotoType, LocalMoves DEF ReadRun
<1>3. CASE RequestRun(c)
  BY <1>3, GotoType, CallTransitionsRunMoves DEF RequestRun, WorkflowRunStatus
<1>4. CASE ListTasks(c)
  <2> DEFINE open == {t \in Tasks : taskRun[t] \in NotStarted \cup {"RUNNING"}}
             doubts == IF \E t \in Tasks : taskRun[t] = "UNKNOWN_OUTCOME"
                       THEN {"unconfirmed"} ELSE {}
             next == [Goto(c, "each") EXCEPT
                        !.listed = taskRun, !.todo = open, !.statuses = doubts]
  <2>1. Goto(c, "each") \in Calls /\ Goto(c, "each").at = "each"
    BY GotoCall
  <2>2. taskRun \in [Tasks -> TaskRunStatus \cup {Absent}]
    BY DEF TypeOK, StoreTypeOK
  <2>3. open \in SUBSET Tasks /\ doubts \in SUBSET CancellationStatus
    BY DEF CancellationStatus
  <2>4. Local(c, next)
    BY <1>4 DEF ListTasks
  <2> HIDE DEF open, doubts
  <2>5. next \in Calls /\ next.at = "each"
    BY <2>1, <2>2, <2>3 DEF Calls
  <2>6. GoodCall(next)
    BY <2>5 DEF GoodCall, IsReady
  <2> QED
    BY <2>4, <2>6, LocalMoves
<1> QED
  BY <1>1, <1>2, <1>3, <1>4

\* cancel, from the listed tasks to its reply.
LEMMA CancelClosesMoves ==
    ASSUME TypeOK, CallsAreReady, NEW c \in Callers,
           \/ NextListed(c) \/ CancelListed(c) \/ AllListed(c) \/ RereadRun(c)
           \/ SettleRun(c)
    PROVE  CallMoves(c)
<1> USE DEF CallSteps, OnTheAttempt, Answered
<1>1. CASE NextListed(c)
  <2>1. PICK t \in call[c].todo :
           Local(c, [Goto(c, IF call[c].listed[t] = "RUNNING"
                             THEN "read_task" ELSE "cancel_listed") EXCEPT
                       !.task = t, !.taskRun = call[c].listed[t],
                       !.todo = @ \ {t}])
    BY <1>1 DEF NextListed
  <2> DEFINE step == IF call[c].listed[t] = "RUNNING"
                     THEN "read_task" ELSE "cancel_listed"
             rest == call[c].todo \ {t}
             next == [call[c] EXCEPT !.at = step, !.task = t,
                                     !.taskRun = call[c].listed[t], !.todo = rest]
  <2>2. call[c] \in Calls
    BY CallType
  <2>3. /\ t \in Tasks
        /\ call[c].listed[t] \in TaskRunStatus \cup {Absent}
        /\ rest \in SUBSET Tasks
    BY <2>2 DEF Calls
  <2>4. step \in {"read_task", "cancel_listed"}
    OBVIOUS
  <2>5. Local(c, next)
    BY <2>1, <2>2 DEF Goto, Calls
  <2> HIDE DEF step, rest
  <2>6. next \in Calls /\ next.at = step
    BY <2>2, <2>3, <2>4 DEF Calls
  <2>7. GoodCall(next)
    BY <2>4, <2>6 DEF GoodCall, IsReady
  <2> QED
    BY <2>5, <2>7, LocalMoves
<1>2. CASE CancelListed(c)
  BY <1>2, TaskReplyType, CallTransitionsTaskMoves
  DEF CancelListed, TaskRunStatus, CancellationStatus
<1>3. CASE AllListed(c)
  BY <1>3, GotoType, LocalMoves DEF AllListed
<1>4. CASE RereadRun(c)
  <2> DEFINE reply == WholeReply(call[c].statuses)
             next == [Goto(c, "settle_run") EXCEPT !.run = workflowRun,
                                                   !.answer = reply]
  <2>1. reply \in CancellationStatus
    BY DEF WholeReply, CancellationStatus
  <2>2. workflowRun \in WorkflowRunStatus \cup {Absent}
    BY DEF TypeOK, StoreTypeOK
  <2>3. Goto(c, "settle_run") \in Calls /\ Goto(c, "settle_run").at = "settle_run"
    BY GotoCall
  <2>4. Local(c, next) \/ Local(c, Reply(c, reply))
    BY <1>4 DEF RereadRun
  <2> HIDE DEF reply
  <2>5. next \in Calls /\ next.at = "settle_run"
    BY <2>1, <2>2, <2>3 DEF Calls
  <2>6. GoodCall(next)
    BY <2>5 DEF GoodCall, IsReady
  <2> QED
    BY <2>1, <2>4, <2>6, ReplyType, LocalMoves
<1>5. CASE SettleRun(c)
  <2>1. call[c].answer \in CancellationStatus \cup {Unanswered}
    BY CallType DEF Calls
  <2> QED
    BY <1>5, <2>1, ReplyType, CallTransitionsRunMoves
    DEF SettleRun, WorkflowRunStatus
<1> QED
  BY <1>1, <1>2, <1>3, <1>4, <1>5

\* cancel_task, up to the request for the attempt.
LEMMA CancelTaskOpensMoves ==
    ASSUME TypeOK, CallsAreReady, NEW c \in Callers,
           \/ BeginCancelTask(c) \/ ReadTask(c) \/ CancelPending(c)
           \/ ReadAttempts(c) \/ RequestAttempt(c)
    PROVE  CallMoves(c)
<1> USE DEF CallSteps, OnTheAttempt, Answered
<1>1. CASE BeginCancelTask(c)
  <2>1. PICK t \in Tasks :
           Local(c, [Goto(c, "read_task") EXCEPT !.whole = FALSE, !.task = t])
    BY <1>1 DEF BeginCancelTask
  <2> DEFINE next == [Goto(c, "read_task") EXCEPT !.whole = FALSE, !.task = t]
  <2>2. Goto(c, "read_task") \in Calls /\ Goto(c, "read_task").at = "read_task"
    BY GotoCall
  <2>3. next \in Calls /\ next.at = "read_task"
    BY <2>2 DEF Calls
  <2>4. GoodCall(next)
    BY <2>3 DEF GoodCall, IsReady
  <2> QED
    BY <2>1, <2>4, LocalMoves
<1>2. CASE ReadTask(c)
  <2> DEFINE status == taskRun[call[c].task]
             AtStep(step) == [Goto(c, step) EXCEPT !.taskRun = status]
  <2>1. status \in TaskRunStatus \cup {Absent}
    BY CallType DEF TypeOK, StoreTypeOK, Calls
  <2>2. \/ \E reply \in {"already_terminal", "unconfirmed"} :
              Local(c, TaskReply(c, reply))
        \/ \E step \in {"cancel_pending", "read_attempts"} : Local(c, AtStep(step))
    BY <1>2 DEF ReadTask
  <2>3. ASSUME NEW step \in {"cancel_pending", "read_attempts"}
        PROVE  GoodCall(AtStep(step))
    <3>1. Goto(c, step) \in Calls /\ Goto(c, step).at = step
      BY GotoCall
    <3> HIDE DEF status
    <3>2. AtStep(step) \in Calls /\ AtStep(step).at = step
      BY <2>1, <3>1 DEF Calls
    <3> QED
      BY <3>2 DEF GoodCall, IsReady
  <2> HIDE DEF AtStep
  <2> QED
    BY <2>2, <2>3, TaskReplyType, LocalMoves DEF CancellationStatus
<1>3. CASE CancelPending(c)
  BY <1>3, TaskReplyType, CallTransitionsTaskMoves
  DEF CancelPending, TaskRunStatus, CancellationStatus
<1>4. CASE ReadAttempts(c)
  <2> DEFINE attempts == taskAttempts[call[c].task]
             latest == attempts[Len(attempts)]
             AtStep(step) == [call[c] EXCEPT !.num = Len(attempts),
                                           !.attempt = latest, !.at = step]
  <2>1. \/ \E reply \in {"already_terminal", "unconfirmed"} :
              Local(c, TaskReply(c, reply))
        \/ /\ attempts # << >>
           /\ \E step \in {"handle", "request_attempt"} : Local(c, AtStep(step))
    BY <1>4, CallType DEF ReadAttempts, Calls
  <2>2. ASSUME attempts # << >>, NEW step \in {"handle", "request_attempt"}
        PROVE  GoodCall(AtStep(step))
    <3>1. call[c] \in Calls /\ call[c].task \in Tasks
      BY CallType DEF Calls
    <3>2. attempts \in Seq(TaskAttemptStatus)
      BY <3>1 DEF TypeOK, StoreTypeOK
    <3>3. Len(attempts) \in Nat \ {0} /\ latest \in TaskAttemptStatus
      BY <2>2, <3>2, EmptySeq, LenProperties, ElementOfSeq
    <3> HIDE DEF attempts, latest
    <3>4. /\ AtStep(step) \in Calls
          /\ AtStep(step).num = Len(attempts)
          /\ AtStep(step).task = call[c].task
      BY <3>1, <3>3 DEF Calls
    <3> QED
      BY <3>3, <3>4 DEF GoodCall, IsReady, attempts
  <2> HIDE DEF AtStep
  <2> QED
    BY <2>1, <2>2, TaskReplyType, LocalMoves DEF CancellationStatus
<1>5. CASE RequestAttempt(c)
  BY <1>5, GotoType, CallTransitionsAttemptMoves
  DEF RequestAttempt, TaskAttemptStatus, At
<1> QED
  BY <1>1, <1>2, <1>3, <1>4, <1>5

\* cancel_task and the executor.
LEMMA AskMoves ==
    ASSUME TypeOK, CallsAreReady, NEW c \in Callers,
           LookUpHandle(c) \/ AskExecutor(c) \/ ReadAttemptAfter(c)
    PROVE  CallMoves(c)
<1> USE DEF CallSteps
<1>1. call[c] \in Calls /\ IsReady(call[c])
  BY CallType
<1>2. ASSUME NEW answer \in CancellationStatus \cup {Unanswered},
             call[c].at \in OnTheAttempt
      PROVE  GoodCall([call[c] EXCEPT !.at = "after_attempt", !.answer = answer])
  <2> DEFINE next == [call[c] EXCEPT !.at = "after_attempt", !.answer = answer]
  <2>1. /\ next \in Calls
        /\ next.at = "after_attempt"
        /\ next.num = call[c].num
        /\ next.task = call[c].task
    BY <1>1 DEF Calls
  <2> QED
    BY <1>1, <1>2, <2>1 DEF GoodCall, IsReady, Answered
<1>3. CASE LookUpHandle(c)
  <2>1. call[c].at \in OnTheAttempt
    BY <1>3 DEF LookUpHandle, At, OnTheAttempt
  <2>2. \/ Local(c, Goto(c, "ask_executor"))
        \/ \E answer \in {Unanswered, "unsupported"} :
              Local(c, [call[c] EXCEPT !.at = "after_attempt", !.answer = answer])
    BY <1>1, <1>3 DEF LookUpHandle, Goto, Calls
  <2>3. GoodCall(Goto(c, "ask_executor"))
    BY <2>1, GotoType DEF Answered
  <2>4. \A answer \in {Unanswered, "unsupported"} :
           GoodCall([call[c] EXCEPT !.at = "after_attempt", !.answer = answer])
    BY <1>2, <2>1 DEF CancellationStatus
  <2> QED
    BY <2>2, <2>3, <2>4, LocalMoves
<1>4. CASE AskExecutor(c)
  <2>1. PICK reply \in CancelReplies[call[c].task] \cup LateReplies(call[c].task) :
           /\ call' = [call EXCEPT ![c].at = "after_attempt", ![c].answer = reply]
           /\ execution' \in {execution, "interrupted"}
           /\ UNCHANGED <<store, runThread, active>>
    BY <1>4 DEF AskExecutor
  <2> DEFINE next == [call[c] EXCEPT !.at = "after_attempt", !.answer = reply]
  <2>2. call[c].at \in OnTheAttempt
    BY <1>4 DEF AskExecutor, At, OnTheAttempt
  <2>3. reply \in CancellationStatus
    BY <1>1, CancelRepliesType DEF LateReplies, CancellationStatus, Calls
  <2>4. GoodCall(next)
    BY <1>2, <2>2, <2>3
  <2>5. call' = [call EXCEPT ![c] = next]
    BY <1>1, <2>1 DEF TypeOK, CancellationTypeOK, Calls
  <2>6. StoreUpdate /\ RunLoopTypeOK' /\ UNCHANGED <<pc, task>>
    BY <2>1 DEF TypeOK, RunLoopTypeOK, StoreUpdate, runThread
  <2> HIDE DEF next
  <2> QED
    BY <2>4, <2>5, <2>6 DEF CallMoves, GoodCall
<1>5. CASE ReadAttemptAfter(c)
  <2> DEFINE read == taskAttempts[call[c].task][call[c].num]
             AtStep(step) == [Goto(c, step) EXCEPT !.attempt = read]
  <2>1. call[c].num \in 1 .. Len(taskAttempts[call[c].task])
    BY <1>1, <1>5 DEF ReadAttemptAfter, At, IsReady, OnTheAttempt
  <2>2. read \in TaskAttemptStatus
    BY <1>1, <2>1, ElementOfSeq DEF TypeOK, StoreTypeOK, Calls
  <2>3. \E step \in {"lost_attempt", "settle_attempt", "after_task"} :
           /\ step # "lost_attempt" => call[c].answer # Unanswered
           /\ Local(c, AtStep(step))
    BY <1>5 DEF ReadAttemptAfter, Unanswered
  <2>4. ASSUME NEW step \in {"lost_attempt", "settle_attempt", "after_task"},
               step # "lost_attempt" => call[c].answer # Unanswered
        PROVE  GoodCall(AtStep(step))
    <3>1. Goto(c, step) \in Calls /\ Goto(c, step).at = step
      BY GotoCall
    <3>2. Goto(c, step).answer = call[c].answer
      BY <1>1 DEF Goto, Calls
    <3> HIDE DEF read
    <3>3. /\ AtStep(step) \in Calls
          /\ AtStep(step).at = step
          /\ AtStep(step).answer = call[c].answer
      BY <2>2, <3>1, <3>2 DEF Calls
    <3> QED
      BY <2>4, <3>3 DEF GoodCall, IsReady, OnTheAttempt, Answered
  <2> HIDE DEF AtStep
  <2> QED
    BY <2>3, <2>4, LocalMoves
<1> QED
  BY <1>3, <1>4, <1>5

\* cancel_task, from the executor's answer to its reply.
LEMMA CancelTaskClosesMoves ==
    ASSUME TypeOK, CallsAreReady, NEW c \in Callers,
           \/ LoseAttempt(c) \/ LostReadTask(c) \/ LoseTask(c) \/ ReadTaskAfter(c)
           \/ ListReplyRefs(c) \/ AppendReplyRef(c) \/ SettleAttempt(c) \/ SettleTask(c)
    PROVE  CallMoves(c)
<1> USE DEF CallSteps, OnTheAttempt, Answered
<1>1. call[c] \in Calls /\ IsReady(call[c])
  BY CallType
<1>2. taskRun[call[c].task] \in TaskRunStatus \cup {Absent}
  BY <1>1 DEF TypeOK, StoreTypeOK, Calls
<1>3. CASE LoseAttempt(c)
  BY <1>3, GotoType, CallTransitionsAttemptMoves DEF LoseAttempt, TaskAttemptStatus
<1>4. ASSUME NEW step \in {"lost_task", "reply_refs"},
             step \in Answered => call[c].at \in Answered
      PROVE  GoodCall([call[c] EXCEPT !.at = step,
                                      !.taskRun = taskRun[call[c].task]])
  <2> DEFINE next == [call[c] EXCEPT !.at = step, !.taskRun = taskRun[call[c].task]]
  <2>1. next \in Calls /\ next.at = step /\ next.answer = call[c].answer
    BY <1>1, <1>2 DEF Calls
  <2> QED
    BY <1>1, <1>4, <2>1 DEF GoodCall, IsReady
<1>5. CASE LostReadTask(c)
  <2>1. Local(c, [call[c] EXCEPT !.at = "lost_task",
                                 !.taskRun = taskRun[call[c].task]])
    BY <1>1, <1>5 DEF LostReadTask, Goto, Calls
  <2> QED
    BY <1>4, <2>1, LocalMoves
<1>6. CASE LoseTask(c)
  BY <1>6, TaskReplyType, CallTransitionsTaskMoves
  DEF LoseTask, TaskRunStatus, CancellationStatus
<1>7. CASE ReadTaskAfter(c)
  <2>1. Local(c, [call[c] EXCEPT !.at = "reply_refs",
                                 !.taskRun = taskRun[call[c].task]])
    BY <1>1, <1>7 DEF ReadTaskAfter, Goto, Calls
  <2>2. call[c].at \in Answered
    BY <1>7 DEF ReadTaskAfter, At
  <2> QED
    BY <1>4, <2>1, <2>2, LocalMoves
<1>a. ASSUME call[c].at \in Answered
      PROVE  GoodCall(AfterReplyRefs(c)) /\ GoodCall(Goto(c, "append_ref"))
  BY <1>a, GotoType, TaskReplyType DEF AfterReplyRefs, CancellationStatus
<1>b. CASE ListReplyRefs(c)
  <2>1. call[c].at \in Answered
    BY <1>b DEF ListReplyRefs, At
  <2>2. Local(c, AfterReplyRefs(c)) \/ Local(c, Goto(c, "append_ref"))
    BY <1>b DEF ListReplyRefs
  <2> QED
    BY <1>a, <2>1, <2>2, LocalMoves
<1>c. CASE AppendReplyRef(c)
  <2>1. call[c].at \in Answered
    BY <1>c DEF AppendReplyRef, At
  <2>2. call[c].task \in Tasks /\ call[c].num \in Nat
    BY <1>1 DEF Calls
  <2>3. \/ /\ AppendExternalRunRef(call[c].task, call[c].num)
           /\ call' = [call EXCEPT ![c] = AfterReplyRefs(c)]
           /\ UNCHANGED <<runThread, executor>>
        \/ CallRaises(c)
    BY <1>c DEF AppendReplyRef
  <2>4. CASE CallRaises(c)
    BY <2>4, CallRaisesMoves
  <2>5. CASE ~ CallRaises(c)
    <3>1. StoreUpdate
      BY <2>2, <2>3, <2>5 DEF StoreUpdate
    <3>2. RunLoopTypeOK' /\ UNCHANGED <<pc, task>>
      BY <2>3, <2>5 DEF TypeOK, RunLoopTypeOK, runThread, executor
    <3> QED
      BY <1>a, <2>1, <2>3, <2>5, <3>1, <3>2 DEF CallMoves, GoodCall
  <2> QED
    BY <2>4, <2>5
<1>8. CASE SettleAttempt(c)
  <2>1. SettledAs(call[c].answer) \in TaskAttemptStatus
    BY DEF SettledAs, TaskAttemptStatus
  <2>2. call[c].at \in Answered /\ call[c].answer \in CancellationStatus
    BY <1>1, <1>8 DEF SettleAttempt, At, IsReady, Calls
  <2>3. GoodCall(Goto(c, "settle_task")) /\ GoodCall(TaskReply(c, call[c].answer))
    BY <2>2, GotoType, TaskReplyType
  <2> QED
    BY <1>8, <2>1, <2>3, CallTransitionsAttemptMoves DEF SettleAttempt
<1>9. CASE SettleTask(c)
  <2>1. call[c].answer \in CancellationStatus
    BY <1>1, <1>9 DEF SettleTask, At, IsReady, Calls
  <2>2. GoodCall(TaskReply(c, call[c].answer))
    BY <2>1, TaskReplyType
  <2> QED
    BY <1>9, <2>2, CallTransitionsTaskMoves DEF SettleTask, TaskRunStatus
<1> QED
  BY <1>3, <1>5, <1>6, <1>7, <1>b, <1>c, <1>8, <1>9

\* Every step of a cancelling thread.
LEMMA CallerSteps ==
    ASSUME TypeOK, CallsAreReady, NEW c \in Callers,
           CallBegins(c) \/ CallStep(c)
    PROVE  CallMoves(c)
BY CancelOpensMoves, CancelClosesMoves, CancelTaskOpensMoves, AskMoves,
   CancelTaskClosesMoves
DEF CallBegins, CallStep

-----------------------------------------------------------------------------
(* The inductive invariant.                                                *)

\* No step of the program gives a task an attempt before its upstream tasks
\* are settled, and settled they stay.
LEMMA DispatchableStays ==
    ASSUME StoreTypeOK, StoreStep, NEW t \in Tasks, Dispatchable(t)
    PROVE  Dispatchable(t)'
<1>1. Dependencies[t] \subseteq Tasks
  BY DependenciesPrecede
<1>2. \A d \in Dependencies[t] : taskRun'[d] = taskRun[d]
  BY <1>1, SettledStays DEF Dispatchable, Upstream
<1>3. Upstream(t)' = Upstream(t)
  BY <1>2 DEF Upstream
<1> QED
  BY <1>3 DEF Dispatchable

\* The run thread's append obeys the rule for fresh attempts.
LEMMA AppendIsStoreStep ==
    ASSUME TypeOK, AppendStep
    PROVE  StoreStep
BY DEF TypeOK, RunLoopTypeOK, AppendStep, StoreStep

\* Whatever a step is, it is a step of the store, and only the run thread
\* makes attempts.
NextMoves ==
    /\ StoreUpdate \/ AppendStep
    /\ RunLoopTypeOK'
    /\ CancellationTypeOK'
    /\ ControlMoves

\* Every step of the program moves so, and leaves every call well formed.
LEMMA NextStep ==
    ASSUME IInv, [Next]_vars
    PROVE  /\ NextMoves
           /\ \A c \in Callers : call'[c] = call[c] \/ IsReady(call'[c])
<1> USE DEF IInv
<1>1. CASE RunStep
  BY <1>1, RunThreadSteps
  DEF RunStep, RunThreadMoves, NextMoves, TypeOK, CancellationTypeOK
<1>2. ASSUME NEW c \in Callers, CallBegins(c) \/ CallStep(c)
      PROVE  /\ NextMoves
             /\ \A d \in Callers : call'[d] = call[d] \/ IsReady(call'[d])
  <2>1. CallMoves(c)
    BY <1>2, CallerSteps
  <2>2. PICK local \in Calls : IsReady(local) /\ call' = [call EXCEPT ![c] = local]
    BY <2>1 DEF CallMoves
  <2> QED
    BY <2>1, <2>2
    DEF CallMoves, NextMoves, TypeOK, CancellationTypeOK, ControlMoves
<1>3. CASE UNCHANGED vars
  BY <1>3
  DEF vars, runLoopVars, NextMoves, StoreUpdate, TypeOK, RunLoopTypeOK,
      CancellationTypeOK, ControlMoves
<1> QED
  BY <1>1, <1>2, <1>3 DEF Next, Stopped

\* The program starts in the invariant.
LEMMA InitInvariant == Init => IInv
<1> SUFFICES ASSUME Init PROVE IInv
  OBVIOUS
<1> USE DEF Init, InitStore, InitRunLoop, InitCancellation
<1>1. StoreTypeOK
  BY EmptySeq DEF StoreTypeOK
<1>2. 1 \in Tasks
  BY TaskCountIsPositive DEF Tasks
<1>3. RunLoopTypeOK
  BY <1>2, ReusedChoicesType
  DEF RunLoopTypeOK, Steps, WorkflowRunStatus, TaskRunStatus, TaskAttemptStatus,
      Results
<1>4. CancellationTypeOK /\ CallsAreReady
  <2>1. IsReady(NoCall)
    BY DEF NoCall, IsReady, OnTheAttempt, Answered
  <2> QED
    BY <2>1, NoCallType DEF CancellationTypeOK, CallsAreReady
<1>5. InFlightHasAttempt /\ DispatchingIsDispatchable
  BY DEF InFlightHasAttempt, DispatchingIsDispatchable, InFlight, Dispatching
<1>6. DispatchAfterDependencies
  BY DEF DispatchAfterDependencies
<1> QED
  BY <1>1, <1>3, <1>4, <1>5, <1>6 DEF IInv, TypeOK

\* Every step of every thread keeps the invariant.
LEMMA InvariantInductive == IInv /\ [Next]_vars => IInv'
<1> SUFFICES ASSUME IInv, [Next]_vars PROVE IInv'
  OBVIOUS
<1>1. NextMoves
  BY NextStep
<1>2. StoreTypeOK /\ RunLoopTypeOK /\ CancellationTypeOK
  BY DEF IInv, TypeOK
<1>3. StoreStep
  BY <1>1, AppendIsStoreStep DEF NextMoves, StoreStep, IInv
<1>4. TypeOK'
  BY <1>1, <1>2, <1>3, StoreTypeInductive DEF NextMoves, TypeOK
<1>5. task \in Tasks /\ task' \in Tasks
  BY <1>2, <1>4 DEF TypeOK, RunLoopTypeOK
<1>6. InFlightHasAttempt'
  <2>1. ASSUME pc' \in InFlight
        PROVE  taskAttempts'[task'] # << >>
    <3>1. task' = task /\ (pc \in InFlight \/ AppendStep)
      BY <1>1, <2>1 DEF NextMoves, ControlMoves
    <3>2. CASE pc \in InFlight
      BY <1>2, <1>3, <1>5, <3>1, <3>2, SettledStays DEF IInv, InFlightHasAttempt
    <3>3. CASE AppendStep
      <4>1. Len(taskAttempts'[task]) = Len(taskAttempts[task]) + 1
        BY <1>2, <1>5, <3>3, AttemptAppended DEF AppendStep
      <4>2. Len(taskAttempts'[task]) # 0
        BY <1>2, <1>5, <4>1, AttemptNumberType
      <4> QED
        BY <3>1, <4>2, EmptySeq
    <3> QED
      BY <3>1, <3>2, <3>3
  <2> QED
    BY <2>1 DEF InFlightHasAttempt
<1>7. CallsAreReady'
  <2> SUFFICES ASSUME NEW c \in Callers PROVE IsReady(call[c])'
    BY DEF CallsAreReady
  <2>1. IsReady(call[c]) /\ call[c] \in Calls /\ call'[c] \in Calls
    BY <1>2, <1>4 DEF IInv, TypeOK, CancellationTypeOK, CallsAreReady
  <2>2. call'[c] = call[c] \/ IsReady(call'[c])
    BY NextStep
  <2>3. IsReady(call'[c])
    BY <2>1, <2>2
  <2>4. call'[c].task \in Tasks /\ call'[c].num \in Nat
    BY <2>1 DEF Calls
  <2>5. /\ Len(taskAttempts'[call'[c].task]) \in Nat
        /\ Len(taskAttempts'[call'[c].task]) >= Len(taskAttempts[call'[c].task])
        /\ Len(taskAttempts[call'[c].task]) \in Nat
    BY <1>2, <1>3, <2>4, SettledStays, AttemptNumberType
  <2> QED
    BY <2>3, <2>4, <2>5 DEF IsReady
<1>8. DispatchingIsDispatchable'
  <2>1. ASSUME pc' \in Dispatching
        PROVE  Dispatchable(task)' /\ task' = task
    BY <1>1, <1>2, <1>3, <1>5, <2>1, DispatchableStays
    DEF IInv, DispatchingIsDispatchable, NextMoves, ControlMoves
  <2> QED
    BY <2>1 DEF DispatchingIsDispatchable, Dispatchable, Upstream
<1>9. DispatchAfterDependencies'
  <2> SUFFICES ASSUME NEW t \in Tasks, taskAttempts'[t] # << >>
               PROVE  Dispatchable(t)'
    BY DEF DispatchAfterDependencies, Dispatchable
  <2>1. CASE taskAttempts[t] # << >>
    BY <1>2, <1>3, <2>1, DispatchableStays
    DEF IInv, DispatchAfterDependencies, Dispatchable
  <2>2. CASE taskAttempts[t] = << >>
    <3>1. taskAttempts'[t] \in Seq(TaskAttemptStatus)
      BY <1>4 DEF TypeOK, StoreTypeOK
    <3>2. Len(taskAttempts'[t]) # 0 /\ Len(taskAttempts[t]) = 0
      BY <2>2, <3>1, EmptySeq
    <3>3. AppendStep
      BY <1>1, <1>2, <3>2, UpdateAppendsNothing DEF NextMoves
    <3>4. t = task
      BY <1>2, <1>5, <3>2, <3>3, AttemptAppended DEF AppendStep
    <3>5. Dispatchable(task)
      BY <3>3 DEF AppendStep, IInv, DispatchingIsDispatchable, Dispatching
    <3> QED
      BY <1>2, <1>3, <3>4, <3>5, DispatchableStays
  <2> QED
    BY <2>1, <2>2
<1> QED
  BY <1>4, <1>6, <1>7, <1>8, <1>9 DEF IInv

-----------------------------------------------------------------------------

\* The invariant that the theorems below follow from.
THEOREM Invariant == Spec => []IInv
BY InitInvariant, InvariantInductive, PTL DEF Spec

\* Every record and every local variable keeps to the types of
\* runtime/entities.py, whatever the plan, the policy, the executors and the
\* cancelling threads are.
THEOREM TypeCorrect == Spec => []TypeOK
<1>1. IInv => TypeOK
  BY DEF IInv
<1> QED
  BY <1>1, Invariant, PTL

\* Every step, of every thread, moves the stored statuses along the
\* transition tables: however stale the copies that run(), cancel() and
\* cancel_task() act on, no terminal status is rewritten and no attempt lost.
THEOREM StatusesMoveLegally == Spec => DurableStepsLegal
<1> DEFINE Legal ==
       /\ WorkflowMovesLegally
       /\ \A t \in Tasks : TaskMovesLegally(t) /\ AttemptsMoveLegally(t)
<1>1. ASSUME IInv, [Next]_vars PROVE [Legal]_vars
  <2>1. StoreStep /\ StoreTypeOK
    BY <1>1, NextStep, AppendIsStoreStep DEF NextMoves, StoreStep, IInv, TypeOK
  <2> QED
    BY <2>1, StoreMovesLegally
<1> QED
  BY <1>1, Invariant, PTL DEF Spec, DurableStepsLegal

\* No task is attempted before its upstream tasks are settled and its trigger
\* rule holds, and neither a cancellation nor a retry ever undoes that.
THEOREM DispatchIsSafe == Spec => []DispatchAfterDependencies
<1>1. IInv => DispatchAfterDependencies
  BY DEF IInv
<1> QED
  BY <1>1, Invariant, PTL

\* An attempt that another one follows ended in a known failure: no success,
\* cancellation or unknown outcome is ever attempted again.
THEOREM AttemptsFollowFailures == Spec => []AttemptSequence
<1>1. Init => AttemptSequence
  BY EmptySeq DEF Init, InitStore, AttemptSequence
<1>2. ASSUME IInv, AttemptSequence, [Next]_vars PROVE AttemptSequence'
  BY <1>2, NextStep, AppendIsStoreStep, AttemptSequenceInductive
  DEF NextMoves, StoreStep, IInv, TypeOK
<1> QED
  BY <1>1, <1>2, Invariant, PTL DEF Spec

\* Only the output of a task that succeeded, here or in the parent run, is
\* ever checkpointed.
THEOREM CheckpointsAreResults == Spec => []CheckpointOnlySucceeded
<1>1. Init => CheckpointOnlySucceeded
  BY DEF Init, InitStore, CheckpointOnlySucceeded
<1>2. ASSUME IInv, CheckpointOnlySucceeded, [Next]_vars
      PROVE  CheckpointOnlySucceeded'
  BY <1>2, NextStep, AppendIsStoreStep, CheckpointInductive
  DEF NextMoves, StoreStep, IInv, TypeOK
<1> QED
  BY <1>1, <1>2, Invariant, PTL DEF Spec

-----------------------------------------------------------------------------
(* What a cancelling thread is told, and what it records, is what the      *)
(* executor did.  A cancelled attempt can be traced back to an executor    *)
(* that cancels, through the answer a call is carrying (CallIsHonest), or  *)
(* to the result that its executor gave last: the run thread that takes    *)
(* such a result goes on to settle the run or raises, and executes nothing *)
(* more (CancelledIsTraced).                                               *)

\* The steps of cancel outside the part it shares with cancel_task.
WholeSteps ==
    {"idle", "read_run", "request_run", "list", "each", "cancel_listed",
     "reread_run", "settle_run"}

Carrying ==
    {"after_attempt", "after_task", "reply_refs", "append_ref", "settle_attempt",
     "settle_task"}

CallIsHonest(local) ==
    /\ local.at \in WholeSteps => local.whole
    /\ local.at = "replied" /\ ~ local.whole /\ local.reply = "confirmed" =>
          taskRun[local.task] = "CANCELLED"
    /\ local.at \in Carrying /\ local.answer = "confirmed" =>
          CancelReplies[local.task] # {}
CallsAreHonest == \A c \in Callers : CallIsHonest(call[c])

ExecutionIsHonest ==
    /\ execution # "idle" => pc = "executing"
    /\ execution = "interrupted" => CancelReplies[task] # {}

\* The steps that may follow a failure that is not tried again.
Conceding ==
    {"append", "fail_task", "fail_fast", "fail_fast_skip", "fail_run", "returned",
     "raised"}

CancelledIsTraced ==
    \A t \in Tasks : CancelReplies[t] = {} =>
        \A n \in 1 .. Len(taskAttempts[t]) : taskAttempts[t][n] = "CANCELLED" =>
            /\ result.failure.category = "cancelled"
            /\ pc \in Conceding
            /\ pc = "append" => t = task /\ n = Len(taskAttempts[t])

NoneCancelled ==
    \A t \in Tasks : CancelReplies[t] = {} =>
        \A n \in 1 .. Len(taskAttempts[t]) : taskAttempts[t][n] # "CANCELLED"

HonestInv == CancelledIsTraced /\ ExecutionIsHonest /\ CallsAreHonest

\* No attempt becomes cancelled but those of an executor that can cancel.
NoFalseCancellation ==
    \/ UNCHANGED taskAttempts
    \/ \E t \in Tasks : AppendTaskAttempt(t)
    \/ \E t \in Tasks, n \in Nat : \E e, g \in TaskAttemptStatus :
          UpdateTaskAttempt(t, n, e, g) /\ (g = "CANCELLED" => CancelReplies[t] # {})

HonestCall(c) ==
    /\ NoFalseCancellation
    /\ UNCHANGED <<pc, task, result>>
    /\ \/ UNCHANGED execution
       \/ execution = "executing" /\ CancelReplies[task] # {}
    /\ \E local \in Calls :
          CallIsHonest(local)' /\ call' = [call EXCEPT ![c] = local]

-----------------------------------------------------------------------------
(* What a call may move to.                                                *)

\* A step at which a call answers for nothing.
LEMMA PlainStepIsHonest ==
    ASSUME NEW local \in Calls, local.at \notin Carrying \cup {"replied"},
           local.at \in WholeSteps => local.whole
    PROVE  CallIsHonest(local) /\ CallIsHonest(local)'
BY DEF CallIsHonest

\* The end of a task of a call that claims nothing.
LEMMA ReplyIsHonest ==
    ASSUME TypeOK, CallsAreReady, NEW c \in Callers,
           NEW status \in CancellationStatus \ {"confirmed"}, NEW local,
           local = Reply(c, status) \/ local = TaskReply(c, status)
    PROVE  local \in Calls /\ CallIsHonest(local) /\ CallIsHonest(local)'
<1>1. call[c] \in Calls /\ call[c].whole \in BOOLEAN
  BY CallType DEF Calls
<1>2. Reply(c, status) \in Calls /\ TaskReply(c, status) \in Calls
  BY ReplyType, TaskReplyType DEF GoodCall
<1>3. CASE local = Reply(c, status)
  <2>1. local.at = "replied" /\ local.reply = status
    BY <1>3 DEF Reply, NoCall
  <2> QED
    BY <1>2, <1>3, <2>1 DEF CallIsHonest, WholeSteps, Carrying
<1>4. CASE call[c].whole /\ local = TaskReply(c, status)
  <2>1. local.at = "each" /\ local.whole
    BY <1>1, <1>4 DEF TaskReply, Calls
  <2> QED
    BY <1>2, <1>4, <2>1 DEF CallIsHonest, Carrying
<1> QED
  BY <1>1, <1>2, <1>3, <1>4 DEF TaskReply

\* The end of a task that the call has cancelled.
LEMMA ConfirmedIsHonest ==
    ASSUME TypeOK, CallsAreReady, NEW c \in Callers, NEW local,
           local = TaskReply(c, "confirmed"), taskRun'[call[c].task] = "CANCELLED"
    PROVE  local \in Calls /\ CallIsHonest(local)'
<1>1. call[c] \in Calls /\ call[c].whole \in BOOLEAN
  BY CallType DEF Calls
<1>2. local \in Calls
  BY TaskReplyType DEF GoodCall, CancellationStatus
<1>3. CASE call[c].whole
  <2>1. local.at = "each" /\ local.whole
    BY <1>1, <1>3 DEF TaskReply, Calls
  <2> QED
    BY <1>2, <2>1 DEF CallIsHonest, Carrying
<1>4. CASE ~ call[c].whole
  <2>1. local.at = "replied" /\ local.task = call[c].task
    BY <1>1, <1>4 DEF TaskReply, Reply, NoCall
  <2> QED
    BY <1>2, <2>1 DEF CallIsHonest, WholeSteps, Carrying
<1> QED
  BY <1>1, <1>3, <1>4

\* A call that only changes its own variables.
LEMMA LocalIsHonest ==
    ASSUME NEW c \in Callers, NEW local \in Calls, CallIsHonest(local), Local(c, local)
    PROVE  HonestCall(c)
<1>1. /\ UNCHANGED <<taskRun, taskAttempts, pc, task, result, execution>>
      /\ call' = [call EXCEPT ![c] = local]
  BY DEF Local, store, runThread, executor
<1>2. CallIsHonest(local)'
  BY <1>1 DEF CallIsHonest
<1> QED
  BY <1>1, <1>2 DEF HonestCall, NoFalseCancellation

\* A call that raises.
LEMMA RaiseIsHonest ==
    ASSUME NEW c \in Callers, CallRaises(c)
    PROVE  HonestCall(c)
<1> DEFINE local == [NoCall EXCEPT !.at = "raised"]
<1>1. local \in Calls /\ local.at = "raised"
  BY NoCallType DEF Calls, CallSteps
<1>2. Local(c, local)
  BY DEF CallRaises
<1> HIDE DEF local
<1>3. CallIsHonest(local)
  BY <1>1, PlainStepIsHonest DEF Carrying, WholeSteps
<1> QED
  BY <1>1, <1>2, <1>3, LocalIsHonest

\* A call that updates a status and moves on.
LEMMA UpdateIsHonest ==
    ASSUME TypeOK, CallsAreReady, NEW c \in Callers, NEW g, NEW local \in Calls,
           \/ /\ CallTransitionsRun(c, g, local)
              /\ CallIsHonest(local)
           \/ /\ CallTransitionsTask(c, g, local)
              /\ taskRun'[call[c].task] = g => CallIsHonest(local)'
           \/ /\ CallTransitionsAttempt(c, g, local) /\ g \in TaskAttemptStatus
              /\ CallIsHonest(local)
              /\ g = "CANCELLED" => CancelReplies[call[c].task] # {}
    PROVE  HonestCall(c)
<1>1. CASE CallRaises(c)
  BY <1>1, RaiseIsHonest
<1>2. /\ call[c].task \in Tasks /\ call[c].num \in Nat
      /\ call[c].attempt \in TaskAttemptStatus
      /\ taskRun \in [Tasks -> TaskRunStatus \cup {Absent}]
  BY CallType DEF Calls, TypeOK, StoreTypeOK
<1>3. CASE /\ UpdateWorkflowRun(call[c].run, g) /\ UNCHANGED <<runThread, executor>>
           /\ call' = [call EXCEPT ![c] = local] /\ CallIsHonest(local)
  <2>1. CallIsHonest(local)' /\ UNCHANGED taskAttempts
    BY <1>3 DEF CallIsHonest, UpdateWorkflowRun
  <2> QED
    BY <1>3, <2>1 DEF HonestCall, NoFalseCancellation, runThread, executor
<1>4. CASE /\ UpdateTaskRun(call[c].task, call[c].taskRun, g)
           /\ UNCHANGED <<runThread, executor>>
           /\ call' = [call EXCEPT ![c] = local]
           /\ taskRun'[call[c].task] = g => CallIsHonest(local)'
  <2>1. CallIsHonest(local)' /\ UNCHANGED taskAttempts
    BY <1>2, <1>4 DEF UpdateTaskRun
  <2> QED
    BY <1>4, <2>1 DEF HonestCall, NoFalseCancellation, runThread, executor
<1>5. CASE /\ UpdateTaskAttempt(call[c].task, call[c].num, call[c].attempt, g)
           /\ UNCHANGED <<runThread, executor>>
           /\ call' = [call EXCEPT ![c] = local] /\ CallIsHonest(local)
           /\ g \in TaskAttemptStatus
           /\ g = "CANCELLED" => CancelReplies[call[c].task] # {}
  <2>1. CallIsHonest(local)'
    BY <1>5 DEF CallIsHonest, UpdateTaskAttempt
  <2>2. NoFalseCancellation
    BY <1>2, <1>5 DEF NoFalseCancellation
  <2> QED
    BY <1>5, <2>1, <2>2 DEF HonestCall, runThread, executor
<1> QED
  BY <1>1, <1>3, <1>4, <1>5
  DEF CallTransitionsRun, CallTransitionsTask, CallTransitionsAttempt

-----------------------------------------------------------------------------
(* The cancelling threads, action by action.                               *)

\* The steps of cancel.
LEMMA CancelIsHonest ==
    ASSUME TypeOK, CallsAreReady, CallsAreHonest, NEW c \in Callers,
           \/ BeginCancel(c) \/ ReadRun(c) \/ RequestRun(c) \/ ListTasks(c)
           \/ NextListed(c) \/ CancelListed(c) \/ AllListed(c) \/ RereadRun(c)
           \/ SettleRun(c)
    PROVE  HonestCall(c)
<1>0. /\ call[c] \in Calls /\ CallIsHonest(call[c])
      /\ call[c].task \in Tasks /\ call[c].whole \in BOOLEAN
  BY CallType DEF CallsAreHonest, Calls
<1>w. call[c].whole
  BY <1>0
  DEF BeginCancel, ReadRun, RequestRun, ListTasks, NextListed, CancelListed, AllListed,
      RereadRun, SettleRun, At, CallIsHonest, WholeSteps
<1>g. ASSUME NEW step \in CallSteps \ (Carrying \cup {"replied"})
      PROVE  /\ Goto(c, step) \in Calls /\ CallIsHonest(Goto(c, step))
             /\ Goto(c, step).at = step /\ Goto(c, step).whole
  <2>1. /\ Goto(c, step) \in Calls /\ Goto(c, step).at = step
        /\ Goto(c, step).whole
    BY <1>0, <1>w DEF Goto, Calls
  <2> QED
    BY <2>1, PlainStepIsHonest
<1>r. ASSUME NEW status \in CancellationStatus \cup {Unanswered}
      PROVE  Reply(c, status) \in Calls /\ CallIsHonest(Reply(c, status))
  <2>1. Reply(c, status) \in Calls
    BY ReplyType DEF GoodCall
  <2>2. Reply(c, status).at = "replied" /\ Reply(c, status).whole
    BY <1>w DEF Reply, NoCall
  <2> QED
    BY <2>1, <2>2 DEF CallIsHonest, WholeSteps, Carrying
<1>1. CASE BeginCancel(c) \/ AllListed(c)
  <2>1. \E step \in {"read_run", "reread_run"} : Local(c, Goto(c, step))
    BY <1>1 DEF BeginCancel, AllListed
  <2> QED
    BY <2>1, <1>g, LocalIsHonest DEF CallSteps, Carrying
<1>2. CASE ReadRun(c)
  <2>1. CASE \E status \in CancellationStatus : Local(c, Reply(c, status))
    BY <2>1, <1>r, LocalIsHonest
  <2>2. CASE Local(c, Goto(c, "list"))
    BY <2>2, <1>g, LocalIsHonest DEF CallSteps, Carrying
  <2>3. CASE /\ workflowRun \in {"PENDING", "RUNNING"}
             /\ Local(c, [Goto(c, "request_run") EXCEPT !.run = workflowRun])
    <3> DEFINE local == [Goto(c, "request_run") EXCEPT !.run = workflowRun]
    <3>1. local \in Calls /\ local.at = "request_run" /\ local.whole
      BY <1>0, <1>w, <2>3 DEF Goto, Calls, CallSteps, WorkflowRunStatus
    <3>2. Local(c, local)
      BY <2>3
    <3> HIDE DEF local
    <3> QED
      BY <3>1, <3>2, PlainStepIsHonest, LocalIsHonest DEF Carrying
  <2> QED
    BY <1>2, <2>1, <2>2, <2>3 DEF ReadRun, CancellationStatus
<1>3. CASE RequestRun(c)
  <2>1. Goto(c, "list") \in Calls /\ CallIsHonest(Goto(c, "list"))
    BY <1>g DEF CallSteps, Carrying
  <2> QED
    BY <1>3, <2>1, UpdateIsHonest DEF RequestRun
<1>4. CASE ListTasks(c)
  <2> DEFINE local == [Goto(c, "each") EXCEPT
                   !.listed = taskRun,
                   !.todo = {t \in Tasks : taskRun[t] \in NotStarted \cup {"RUNNING"}},
                   !.statuses = IF \E t \in Tasks : taskRun[t] = "UNKNOWN_OUTCOME"
                                THEN {"unconfirmed"} ELSE {}]
  <2>1. taskRun \in [Tasks -> TaskRunStatus \cup {Absent}]
    BY DEF TypeOK, StoreTypeOK
  <2>2. local \in Calls /\ local.at = "each" /\ local.whole
    BY <1>0, <1>w, <2>1, ZenonT(30) DEF Goto, Calls, CallSteps, CancellationStatus
  <2>3. Local(c, local)
    BY <1>4 DEF ListTasks
  <2> HIDE DEF local
  <2> QED
    BY <2>2, <2>3, PlainStepIsHonest, LocalIsHonest DEF Carrying
<1>5. CASE NextListed(c)
  <2>1. PICK t \in call[c].todo, step \in {"read_task", "cancel_listed"} :
           Local(c, [Goto(c, step) EXCEPT
                       !.task = t, !.taskRun = call[c].listed[t], !.todo = @ \ {t}])
    BY <1>5 DEF NextListed
  <2> DEFINE from == Goto(c, step)
             local == [from EXCEPT
                         !.task = t, !.taskRun = call[c].listed[t], !.todo = @ \ {t}]
  <2>2. t \in Tasks /\ call[c].listed[t] \in TaskRunStatus \cup {Absent}
    BY <1>0 DEF Calls
  <2>3. from \in Calls /\ from.at = step /\ from.whole
    BY <1>g DEF CallSteps, Carrying
  <2>4. Local(c, local)
    BY <2>1
  <2> HIDE DEF from
  <2>5. local \in Calls /\ local.at = step /\ local.whole
    BY <2>2, <2>3 DEF Calls
  <2> HIDE DEF local
  <2> QED
    BY <2>4, <2>5, PlainStepIsHonest, LocalIsHonest DEF Carrying
<1>6. CASE CancelListed(c)
  <2>1. PICK local : local = TaskReply(c, "confirmed")
    OBVIOUS
  <2>2. /\ local \in Calls
        /\ taskRun'[call[c].task] = "CANCELLED" => CallIsHonest(local)'
    BY <2>1, ConfirmedIsHonest, TaskReplyType DEF GoodCall, CancellationStatus
  <2> QED
    BY <1>6, <2>1, <2>2, UpdateIsHonest DEF CancelListed
<1>7. CASE RereadRun(c)
  <2> DEFINE reply == WholeReply(call[c].statuses)
             local == [Goto(c, "settle_run") EXCEPT
                            !.run = workflowRun, !.answer = reply]
  <2>1. reply \in CancellationStatus
    BY DEF WholeReply, CancellationStatus
  <2>2. workflowRun \in WorkflowRunStatus \cup {Absent}
    BY DEF TypeOK, StoreTypeOK
  <2>3. Local(c, local) \/ Local(c, Reply(c, reply))
    BY <1>7 DEF RereadRun
  <2>4. local \in Calls /\ local.at = "settle_run" /\ local.whole
    BY <1>0, <1>w, <2>1, <2>2 DEF Goto, Calls, CallSteps
  <2> HIDE DEF local, reply
  <2> QED
    BY <1>r, <2>1, <2>3, <2>4, PlainStepIsHonest, LocalIsHonest DEF Carrying
<1>8. CASE SettleRun(c)
  <2> DEFINE local == Reply(c, call[c].answer)
  <2>1. local \in Calls /\ CallIsHonest(local)
    BY <1>0, <1>r DEF Calls
  <2>2. \E g : CallTransitionsRun(c, g, local)
    BY <1>8 DEF SettleRun
  <2> HIDE DEF local
  <2> QED
    BY <2>1, <2>2, UpdateIsHonest
<1> QED
  BY <1>1, <1>2, <1>3, <1>4, <1>5, <1>6, <1>7, <1>8

\* The steps of cancel_task up to the executor's answer.
LEMMA CancelTaskIsHonest ==
    ASSUME TypeOK, CallsAreReady, CallsAreHonest, ExecutionIsHonest, NEW c \in Callers,
           \/ BeginCancelTask(c) \/ ReadTask(c) \/ CancelPending(c) \/ ReadAttempts(c)
           \/ RequestAttempt(c) \/ LookUpHandle(c) \/ AskExecutor(c)
           \/ ReadAttemptAfter(c)
    PROVE  HonestCall(c)
<1>0. /\ call[c] \in Calls /\ IsReady(call[c]) /\ CallIsHonest(call[c])
      /\ call[c].task \in Tasks
  BY CallType DEF CallsAreHonest, Calls
<1>s. ASSUME NEW status \in CancellationStatus \ {"confirmed"}
      PROVE  Local(c, TaskReply(c, status)) => HonestCall(c)
  BY <1>s, ReplyIsHonest, LocalIsHonest
<1>1. CASE BeginCancelTask(c)
  <2>1. PICK t \in Tasks :
           Local(c, [Goto(c, "read_task") EXCEPT !.whole = FALSE, !.task = t])
    BY <1>1 DEF BeginCancelTask
  <2> DEFINE local == [Goto(c, "read_task") EXCEPT !.whole = FALSE, !.task = t]
  <2>2. local \in Calls /\ local.at = "read_task"
    BY <1>0 DEF Goto, Calls, CallSteps
  <2>3. Local(c, local)
    BY <2>1
  <2> HIDE DEF local
  <2> QED
    BY <2>2, <2>3, PlainStepIsHonest, LocalIsHonest DEF WholeSteps, Carrying
<1>2. CASE ReadTask(c)
  <2> DEFINE status == taskRun[call[c].task]
  <2>1. CASE \E reply \in {"already_terminal", "unconfirmed"} :
                Local(c, TaskReply(c, reply))
    BY <1>s, <2>1 DEF CancellationStatus
  <2>2. ASSUME NEW step \in {"cancel_pending", "read_attempts"},
               Local(c, [Goto(c, step) EXCEPT !.taskRun = status])
        PROVE  HonestCall(c)
    <3> DEFINE local == [Goto(c, step) EXCEPT !.taskRun = status]
    <3>1. status \in TaskRunStatus \cup {Absent}
      BY <1>0 DEF TypeOK, StoreTypeOK
    <3>2. local \in Calls /\ local.at = step
      BY <1>0, <3>1 DEF Goto, Calls, CallSteps
    <3>3. Local(c, local)
      BY <2>2
    <3> HIDE DEF local
    <3> QED
      BY <3>2, <3>3, PlainStepIsHonest, LocalIsHonest DEF WholeSteps, Carrying
  <2> QED
    BY <1>2, <2>1, <2>2 DEF ReadTask
<1>3. CASE CancelPending(c)
  <2>1. PICK local : local = TaskReply(c, "confirmed")
    OBVIOUS
  <2>2. /\ local \in Calls
        /\ taskRun'[call[c].task] = "CANCELLED" => CallIsHonest(local)'
    BY <2>1, ConfirmedIsHonest, TaskReplyType DEF GoodCall, CancellationStatus
  <2> QED
    BY <1>3, <2>1, <2>2, UpdateIsHonest DEF CancelPending
<1>4. CASE ReadAttempts(c)
  <2> DEFINE attempts == taskAttempts[call[c].task]
             latest == attempts[Len(attempts)]
             read == [call[c] EXCEPT !.num = Len(attempts), !.attempt = latest]
  <2>1. CASE \E reply \in {"unconfirmed", "already_terminal"} :
                Local(c, TaskReply(c, reply))
    BY <1>s, <2>1 DEF CancellationStatus
  <2>2. ASSUME NEW step \in {"handle", "request_attempt"}, attempts # << >>,
               Local(c, [read EXCEPT !.at = step])
        PROVE  HonestCall(c)
    <3> DEFINE local == [read EXCEPT !.at = step]
    <3>1. Len(attempts) \in Nat /\ latest \in TaskAttemptStatus
      BY <1>0, <2>2, LastAttemptType, AttemptNumberType DEF TypeOK, LastAttempt
    <3>2. local \in Calls /\ local.at = step
      BY <1>0, <3>1 DEF Calls, CallSteps
    <3>3. Local(c, local)
      BY <2>2
    <3> HIDE DEF local
    <3> QED
      BY <3>2, <3>3, PlainStepIsHonest, LocalIsHonest DEF WholeSteps, Carrying
  <2>3. \/ \E reply \in {"unconfirmed", "already_terminal"} :
              Local(c, TaskReply(c, reply))
        \/ \E step \in {"handle", "request_attempt"} :
              attempts # << >> /\ Local(c, [read EXCEPT !.at = step])
    BY <1>4 DEF ReadAttempts
  <2> HIDE DEF read
  <2> QED
    BY <2>1, <2>2, <2>3
<1>5. CASE RequestAttempt(c)
  <2>1. Goto(c, "handle") \in Calls /\ Goto(c, "handle").at = "handle"
    BY GotoCall DEF CallSteps
  <2>2. CallIsHonest(Goto(c, "handle"))
    BY <2>1, PlainStepIsHonest DEF WholeSteps, Carrying
  <2> QED
    BY <1>5, <2>1, <2>2, UpdateIsHonest DEF RequestAttempt, TaskAttemptStatus
<1>6. CASE LookUpHandle(c)
  <2>1. CASE Local(c, Goto(c, "ask_executor"))
    BY <2>1, GotoCall, PlainStepIsHonest, LocalIsHonest
    DEF CallSteps, WholeSteps, Carrying
  <2>2. ASSUME NEW answer \in {Unanswered, "unsupported"},
               Local(c, [Goto(c, "after_attempt") EXCEPT !.answer = answer])
        PROVE  HonestCall(c)
    <3> DEFINE local == [Goto(c, "after_attempt") EXCEPT !.answer = answer]
    <3>1. local \in Calls /\ local.at = "after_attempt" /\ local.answer = answer
      BY <1>0 DEF Goto, Calls, CallSteps, CancellationStatus
    <3>2. Local(c, local)
      BY <2>2
    <3> HIDE DEF local
    <3>3. CallIsHonest(local)
      BY <3>1 DEF CallIsHonest, WholeSteps, Unanswered
    <3> QED
      BY <3>1, <3>2, <3>3, LocalIsHonest
  <2> QED
    BY <1>6, <2>1, <2>2 DEF LookUpHandle
<1>7. CASE AskExecutor(c)
  <2> DEFINE t == call[c].task
  <2>1. PICK reply \in CancelReplies[t] \cup LateReplies(t) :
           /\ call' = [call EXCEPT ![c].at = "after_attempt", ![c].answer = reply]
           /\ \/ /\ execution = "executing" /\ task = t
                 /\ execution' = IF reply \in {"confirmed", "requested"}
                                 THEN "interrupted" ELSE execution
              \/ UNCHANGED execution
    BY <1>7 DEF AskExecutor
  <2>2. /\ reply \in CancellationStatus
        /\ reply \in {"confirmed", "requested"} => CancelReplies[t] # {}
    BY <1>0, <2>1, CancelRepliesType DEF LateReplies, CancellationStatus
  <2>3. UNCHANGED execution \/ (execution = "executing" /\ CancelReplies[task] # {})
    BY <2>1, <2>2
  <2>4. PICK local : local = [call[c] EXCEPT !.at = "after_attempt", !.answer = reply]
    OBVIOUS
  <2>5. /\ local \in Calls /\ local.at = "after_attempt"
        /\ local.answer = reply /\ local.task = t
    BY <1>0, <2>2, <2>4 DEF Calls, CallSteps
  <2>6. call' = [call EXCEPT ![c] = local]
    BY <2>1, <2>4 DEF TypeOK, CancellationTypeOK
  <2>7. CallIsHonest(local)'
    BY <2>2, <2>5 DEF CallIsHonest, WholeSteps
  <2>8. UNCHANGED <<taskAttempts, pc, task, result>>
    BY <1>7 DEF AskExecutor, store, runThread
  <2> QED
    BY <2>3, <2>5, <2>6, <2>7, <2>8 DEF HonestCall, NoFalseCancellation
<1>8. CASE ReadAttemptAfter(c)
  <2> DEFINE attempt == taskAttempts[call[c].task][call[c].num]
  <2>1. PICK step \in {"lost_attempt", "settle_attempt", "after_task"} :
           Local(c, [Goto(c, step) EXCEPT !.attempt = attempt])
    <3>1. CASE call[c].answer = Unanswered
      BY <1>8, <3>1 DEF ReadAttemptAfter
    <3>2. CASE call[c].answer = "unsupported"
      BY <1>8, <3>2 DEF ReadAttemptAfter, Unanswered
    <3>3. CASE call[c].answer \notin {Unanswered, "unsupported"}
      BY <1>8, <3>3 DEF ReadAttemptAfter
    <3> QED
      BY <3>1, <3>2, <3>3
  <2> DEFINE local == [Goto(c, step) EXCEPT !.attempt = attempt]
  <2>2. attempt \in TaskAttemptStatus /\ call[c].at \in Carrying
    <3>1. call[c].num \in 1 .. Len(taskAttempts[call[c].task])
      BY <1>0, <1>8 DEF ReadAttemptAfter, At, IsReady, OnTheAttempt
    <3>2. taskAttempts[call[c].task] \in Seq(TaskAttemptStatus)
      BY <1>0 DEF TypeOK, StoreTypeOK
    <3> QED
      BY <1>8, <3>1, <3>2, ElementOfSeq DEF ReadAttemptAfter, At, Carrying
  <2>3. /\ local \in Calls /\ local.at = step
        /\ local.answer = call[c].answer /\ local.task = call[c].task
    BY <1>0, <2>2 DEF Goto, Calls, CallSteps
  <2>4. Local(c, local)
    BY <2>1
  <2> HIDE DEF local
  <2>5. CallIsHonest(local)
    BY <1>0, <2>2, <2>3 DEF CallIsHonest, WholeSteps
  <2> QED
    BY <2>3, <2>4, <2>5, LocalIsHonest
<1> QED
  BY <1>1, <1>2, <1>3, <1>4, <1>5, <1>6, <1>7, <1>8

\* The steps of cancel_task after the executor's answer.
LEMMA AnswerIsHonest ==
    ASSUME TypeOK, CallsAreReady, CallsAreHonest, NEW c \in Callers,
           \/ LoseAttempt(c) \/ LostReadTask(c) \/ LoseTask(c) \/ ReadTaskAfter(c)
           \/ ListReplyRefs(c) \/ AppendReplyRef(c) \/ SettleAttempt(c) \/ SettleTask(c)
    PROVE  HonestCall(c)
<1>0. /\ call[c] \in Calls /\ IsReady(call[c]) /\ CallIsHonest(call[c])
      /\ call[c].task \in Tasks
  BY CallType DEF CallsAreHonest, Calls
<1>1. CASE LoseAttempt(c)
  <2> DEFINE local == Goto(c, "lost_read_task")
  <2>1. local \in Calls /\ local.at = "lost_read_task"
    BY GotoCall DEF CallSteps
  <2>2. CallTransitionsAttempt(c, "CANCELLATION_UNCONFIRMED", local)
    BY <1>1 DEF LoseAttempt
  <2> HIDE DEF local
  <2>3. CallIsHonest(local)
    BY <2>1, PlainStepIsHonest DEF WholeSteps, Carrying
  <2> QED
    BY <2>1, <2>2, <2>3, UpdateIsHonest DEF TaskAttemptStatus
<1>2. CASE LostReadTask(c)
  <2> DEFINE local == [Goto(c, "lost_task") EXCEPT !.taskRun = taskRun[call[c].task]]
  <2>1. taskRun[call[c].task] \in TaskRunStatus \cup {Absent}
    BY <1>0 DEF TypeOK, StoreTypeOK
  <2>2. local \in Calls /\ local.at = "lost_task"
    BY <1>0, <2>1 DEF Goto, Calls, CallSteps
  <2>3. Local(c, local)
    BY <1>2 DEF LostReadTask
  <2> HIDE DEF local
  <2> QED
    BY <2>2, <2>3, PlainStepIsHonest, LocalIsHonest DEF WholeSteps, Carrying
<1>3. CASE LoseTask(c)
  <2>1. PICK local : local = TaskReply(c, "unconfirmed")
    OBVIOUS
  <2>2. local \in Calls /\ CallIsHonest(local)'
    BY <2>1, ReplyIsHonest DEF CancellationStatus
  <2> QED
    BY <1>3, <2>1, <2>2, UpdateIsHonest DEF LoseTask
<1>4. CASE ReadTaskAfter(c)
  <2> DEFINE local == [Goto(c, "reply_refs") EXCEPT !.taskRun = taskRun[call[c].task]]
  <2>1. taskRun[call[c].task] \in TaskRunStatus \cup {Absent}
    BY <1>0 DEF TypeOK, StoreTypeOK
  <2>2. /\ local \in Calls /\ local.at = "reply_refs"
        /\ local.answer = call[c].answer /\ local.task = call[c].task
    BY <1>0, <2>1 DEF Goto, Calls, CallSteps
  <2>3. Local(c, local)
    BY <1>4 DEF ReadTaskAfter
  <2> HIDE DEF local
  <2>4. CallIsHonest(local)
    BY <1>0, <1>4, <2>2 DEF ReadTaskAfter, At, CallIsHonest, WholeSteps, Carrying
  <2> QED
    BY <2>2, <2>3, <2>4, LocalIsHonest
<1>a. ASSUME NEW step \in {"append_ref", "settle_attempt"}, call[c].at \in Carrying
      PROVE  Goto(c, step) \in Calls /\ CallIsHonest(Goto(c, step))
  <2>1. /\ Goto(c, step) \in Calls /\ Goto(c, step).at = step
        /\ Goto(c, step).answer = call[c].answer
        /\ Goto(c, step).task = call[c].task
    BY <1>0 DEF Goto, Calls, CallSteps
  <2> QED
    BY <1>0, <1>a, <2>1 DEF CallIsHonest, WholeSteps, Carrying
<1>b. ASSUME call[c].at \in Carrying
      PROVE  AfterReplyRefs(c) \in Calls /\ CallIsHonest(AfterReplyRefs(c))
  <2>1. CASE call[c].answer = "requested"
    BY <2>1, ReplyIsHonest DEF AfterReplyRefs, CancellationStatus
  <2>2. CASE call[c].answer # "requested"
    BY <1>a, <1>b, <2>2 DEF AfterReplyRefs
  <2> QED
    BY <2>1, <2>2
<1>c. CASE ListReplyRefs(c)
  <2>1. call[c].at \in Carrying
    BY <1>c DEF ListReplyRefs, At, Carrying
  <2>2. Local(c, AfterReplyRefs(c)) \/ Local(c, Goto(c, "append_ref"))
    BY <1>c DEF ListReplyRefs
  <2> QED
    BY <1>a, <1>b, <2>1, <2>2, LocalIsHonest
<1>d. CASE AppendReplyRef(c)
  <2>1. call[c].at \in Carrying
    BY <1>d DEF AppendReplyRef, At, Carrying
  <2>2. CASE CallRaises(c)
    BY <2>2, RaiseIsHonest
  <2>3. CASE ~ CallRaises(c)
    <3>1. /\ UNCHANGED <<taskRun, taskAttempts, pc, task, result, execution>>
          /\ call' = [call EXCEPT ![c] = AfterReplyRefs(c)]
      BY <1>d, <2>3 DEF AppendReplyRef, AppendExternalRunRef, runThread, executor
    <3>2. PICK local : local = AfterReplyRefs(c)
      OBVIOUS
    <3>3. local \in Calls /\ CallIsHonest(local)
      BY <1>b, <2>1, <3>2
    <3>4. CallIsHonest(local)'
      BY <3>1, <3>3 DEF CallIsHonest
    <3> QED
      BY <3>1, <3>2, <3>3, <3>4 DEF HonestCall, NoFalseCancellation
  <2> QED
    BY <2>2, <2>3
<1>5. CASE SettleAttempt(c)
  <2> DEFINE answer == call[c].answer
             g == SettledAs(answer)
  <2>1. /\ answer \in CancellationStatus
        /\ answer = "confirmed" => CancelReplies[call[c].task] # {}
    BY <1>0, <1>5
    DEF SettleAttempt, At, IsReady, Answered, Calls, CallIsHonest, Carrying
  <2>2. g \in TaskAttemptStatus /\ (g = "CANCELLED" => answer = "confirmed")
    BY DEF SettledAs, TaskAttemptStatus
  <2>3. CASE /\ answer \notin {"confirmed", "unconfirmed"}
             /\ CallTransitionsAttempt(c, g, TaskReply(c, answer))
    <3>1. TaskReply(c, answer) \in Calls /\ CallIsHonest(TaskReply(c, answer))
      BY <2>1, <2>3, ReplyIsHonest
    <3> HIDE DEF g
    <3> QED
      BY <2>1, <2>2, <2>3, <3>1, UpdateIsHonest
  <2>4. CASE CallTransitionsAttempt(c, g, Goto(c, "settle_task"))
    <3> DEFINE local == Goto(c, "settle_task")
    <3>1. /\ local \in Calls /\ local.at = "settle_task"
          /\ local.answer = answer /\ local.task = call[c].task
      BY <1>0 DEF Goto, Calls, CallSteps
    <3>2. CallTransitionsAttempt(c, g, local)
      BY <2>4
    <3> HIDE DEF local, g
    <3>3. CallIsHonest(local)
      BY <2>1, <3>1 DEF CallIsHonest, WholeSteps
    <3> QED
      BY <2>1, <2>2, <3>1, <3>2, <3>3, UpdateIsHonest
  <2> QED
    BY <1>5, <2>3, <2>4 DEF SettleAttempt
<1>6. CASE SettleTask(c)
  <2> DEFINE answer == call[c].answer
  <2>1. answer \in CancellationStatus
    BY <1>0, <1>6 DEF SettleTask, At, IsReady, Answered, Calls
  <2>2. PICK local : local = TaskReply(c, answer)
    OBVIOUS
  <2>3. CASE answer = "confirmed"
    <3>1. /\ local \in Calls
          /\ taskRun'[call[c].task] = "CANCELLED" => CallIsHonest(local)'
      BY <2>2, <2>3, ConfirmedIsHonest, TaskReplyType DEF GoodCall, CancellationStatus
    <3> QED
      BY <1>6, <2>2, <2>3, <3>1, UpdateIsHonest DEF SettleTask
  <2>4. CASE answer # "confirmed"
    <3>1. local \in Calls /\ CallIsHonest(local)'
      BY <2>1, <2>2, <2>4, ReplyIsHonest
    <3> QED
      BY <1>6, <2>2, <2>4, <3>1, UpdateIsHonest DEF SettleTask
  <2> QED
    BY <2>3, <2>4
<1> QED
  BY <1>1, <1>2, <1>3, <1>4, <1>c, <1>d, <1>5, <1>6

-----------------------------------------------------------------------------
(* The run thread.                                                         *)

\* The run thread updates attempts in five actions only.
LEMMA RunThreadOnAttempts ==
    ASSUME RunThread
    PROVE  \/ UNCHANGED taskAttempts
           \/ AppendAttempt \/ StartAttempt \/ RunAttempt \/ SucceedAttempt
           \/ EvaluateFailure
BY DEF RunThread, CreateRun, CreateTask, ReuseTask, ReuseCheckpoint, StartRun,
    SkipReusedTask, EvaluateReadiness, SkipTask, ReadyTask, RunTask,
    RememberActiveRequest, BeginExecute, EndExecute, ForgetActiveRequest,
    ReloadAttempt, ReloadTask, ReloadRun, PersistExternalRunRefs, AppendExternalRef,
    ExternalRunRefAccepted, CancelTaskRun,
    ListNotStarted, CancelNotStarted, NotStartedCancelled, CancelRun, SucceedTask,
    PersistOutputCheckpoint, RecheckRun, UnknownTask, UnknownRun, FailTask, FailFast,
    FailFastSkip, FailRun, AssertTerminalTaskRuns, SucceedRun, OnTask, OnWorkflow,
    TransitionTask, TransitionWorkflow, Raise, CreateWorkflowRun, CreateTaskRun,
    UpdateWorkflowRun, UpdateTaskRun, AppendExternalRunRef, SetTaskOutputCheckpoint,
    store

\* The executor is busy only while the run thread waits for it, and a thread that
\* concludes takes no other result.
LEMMA RunThreadOnExecution ==
    ASSUME RunThread, execution # "idle" => pc = "executing"
    PROVE  /\ execution' # "idle" => pc' = "executing" /\ execution' = "executing"
           /\ pc \in Conceding =>
                 /\ UNCHANGED result
                 /\ \/ pc' \in Conceding \ {"append"} /\ UNCHANGED taskAttempts
                    \/ pc = "append" /\ AppendAttempt /\ ~ Raise
BY AfterReloadType
DEF RunThread, CreateRun, CreateTask, ReuseTask, ReuseCheckpoint, StartRun,
    SkipReusedTask, EvaluateReadiness, SkipTask, ReadyTask, RunTask, AppendAttempt,
    StartAttempt, RunAttempt, RememberActiveRequest, BeginExecute, EndExecute,
    ForgetActiveRequest, ReloadAttempt, ReloadTask, ReloadRun,
    PersistExternalRunRefs, AppendExternalRef, ExternalRunRefAccepted, CancelTaskRun,
    ListNotStarted, CancelNotStarted,
    NotStartedCancelled, CancelRun, SucceedAttempt, SucceedTask,
    PersistOutputCheckpoint, RecheckRun, EvaluateFailure, UnknownTask, UnknownRun,
    FailTask, FailFast, FailFastSkip, FailRun, AssertTerminalTaskRuns, SucceedRun,
    OnTask, OnAttempt, OnWorkflow, TransitionTask, TransitionAttempt,
    TransitionWorkflow, Raise, NextEntry, NextToCreate, AfterReadiness, AfterDecision,
    UpdateTaskRun, UpdateWorkflowRun, Conceding, store, executor, cursor, scan,
    runLoopVars

-----------------------------------------------------------------------------

\* No step but an executor's word cancels an attempt of an executor that cannot.
LEMMA NeverCancelledStays ==
    ASSUME StoreTypeOK, NoneCancelled, NoFalseCancellation
    PROVE  NoneCancelled'
<1> USE DEF NoneCancelled
<1>1. CASE UNCHANGED taskAttempts
  BY <1>1
<1>2. ASSUME NEW t \in Tasks, AppendTaskAttempt(t)
      PROVE  NoneCancelled'
  <2>1. /\ \A u \in Tasks : u # t => taskAttempts'[u] = taskAttempts[u]
        /\ Len(taskAttempts'[t]) = Len(taskAttempts[t]) + 1
        /\ Len(taskAttempts[t]) \in Nat
        /\ \A m \in 1 .. Len(taskAttempts[t]) : taskAttempts'[t][m] = taskAttempts[t][m]
    BY <1>2, AttemptAppended, AttemptNumberType
  <2>2. taskAttempts'[t][Len(taskAttempts[t]) + 1] = "PENDING"
    <3>1. taskAttempts[t] \in Seq(TaskAttemptStatus) /\ "PENDING" \in TaskAttemptStatus
      BY DEF StoreTypeOK, TaskAttemptStatus
    <3>2. taskAttempts'[t] = Append(taskAttempts[t], "PENDING")
      BY <1>2 DEF AppendTaskAttempt, StoreTypeOK
    <3> QED
      BY <3>1, <3>2, AppendProperties
  <2> QED
    BY <2>1, <2>2
<1>3. ASSUME NEW t \in Tasks, NEW n \in Nat, NEW e \in TaskAttemptStatus,
             NEW g \in TaskAttemptStatus, UpdateTaskAttempt(t, n, e, g),
             g = "CANCELLED" => CancelReplies[t] # {}
      PROVE  NoneCancelled'
  <2>1. /\ \A u \in Tasks : u # t => taskAttempts'[u] = taskAttempts[u]
        /\ Len(taskAttempts'[t]) = Len(taskAttempts[t])
        /\ \A m \in 1 .. Len(taskAttempts[t]) :
              taskAttempts'[t][m] = IF m = n THEN g ELSE taskAttempts[t][m]
    BY <1>3, AttemptReplaced
  <2> QED
    BY <1>3, <2>1
<1> QED
  BY <1>1, <1>2, <1>3 DEF NoFalseCancellation

\* What a cancelling thread does leaves the trace of a cancelled attempt.
LEMMA TraceStays ==
    ASSUME StoreTypeOK, StoreUpdate, CancelledIsTraced, NoFalseCancellation,
           UNCHANGED <<pc, task, result>>
    PROVE  CancelledIsTraced'
<1>1. \A t \in Tasks : Len(taskAttempts'[t]) = Len(taskAttempts[t])
  BY UpdateAppendsNothing
<1>2. ASSUME NEW t \in Tasks, CancelReplies[t] = {}, NEW n \in 1 .. Len(taskAttempts[t]),
             taskAttempts'[t][n] = "CANCELLED"
      PROVE  taskAttempts[t][n] = "CANCELLED"
  <2>1. CASE UNCHANGED taskAttempts
    BY <1>2, <2>1
  <2>2. ASSUME NEW u \in Tasks, AppendTaskAttempt(u)
        PROVE  taskAttempts[t][n] = "CANCELLED"
    BY <1>2, <2>2, AttemptAppended
  <2>3. ASSUME NEW u \in Tasks, NEW m \in Nat, NEW e \in TaskAttemptStatus,
               NEW g \in TaskAttemptStatus, UpdateTaskAttempt(u, m, e, g),
               g = "CANCELLED" => CancelReplies[u] # {}
        PROVE  taskAttempts[t][n] = "CANCELLED"
    BY <1>2, <2>3, AttemptReplaced
  <2> QED
    BY <2>1, <2>2, <2>3 DEF NoFalseCancellation
<1> QED
  BY <1>1, <1>2 DEF CancelledIsTraced

\* A failure that EvaluateFailure takes for a cancellation is its executor's word,
\* and ends what the run thread executes.
LEMMA RunThreadIsHonest ==
    ASSUME TypeOK, ExecutionIsHonest, CancelledIsTraced, RunThread
    PROVE  CancelledIsTraced' /\ ExecutionIsHonest'
<1>0. StoreTypeOK /\ task \in Tasks /\ attemptView \in TaskAttemptStatus
  BY DEF TypeOK, RunLoopTypeOK
<1>n. AttemptNumber \in Nat /\ AttemptNumber = Len(taskAttempts[task])
  BY <1>0, AttemptNumberType DEF AttemptNumber
<1>1. /\ execution' # "idle" => pc' = "executing" /\ execution' = "executing"
      /\ pc \in Conceding =>
            /\ UNCHANGED result
            /\ \/ pc' \in Conceding \ {"append"} /\ UNCHANGED taskAttempts
               \/ pc = "append" /\ AppendAttempt /\ ~ Raise
  BY RunThreadOnExecution DEF ExecutionIsHonest
<1>2. ExecutionIsHonest'
  BY <1>1 DEF ExecutionIsHonest
<1>3. NoneCancelled' => CancelledIsTraced'
  BY DEF NoneCancelled, CancelledIsTraced
<1>4. CASE pc \in Conceding /\ pc' \in Conceding \ {"append"} /\ UNCHANGED taskAttempts
  BY <1>1, <1>2, <1>4 DEF CancelledIsTraced, Conceding
<1>5. CASE pc = "append" /\ AppendAttempt /\ ~ Raise
  <2>1. NextAttemptAllowed(task) /\ AppendTaskAttempt(task)
    BY <1>5 DEF AppendAttempt
  <2>2. NoneCancelled
    BY <1>5, <2>1, EmptySeq
    DEF CancelledIsTraced, NoneCancelled, NextAttemptAllowed, LastAttempt
  <2> QED
    BY <1>0, <1>2, <1>3, <2>1, <2>2, NeverCancelledStays DEF NoFalseCancellation
<1>6. CASE pc \notin Conceding
  <2>1. NoneCancelled
    BY <1>6 DEF CancelledIsTraced, NoneCancelled
  <2>2. CASE NoFalseCancellation
    BY <1>0, <1>2, <1>3, <2>1, <2>2, NeverCancelledStays
  <2>3. ASSUME NEW g \in TaskAttemptStatus, NEW next, TransitionAttempt(g, next),
               g # "CANCELLED"
        PROVE  NoFalseCancellation
    BY <1>0, <1>n, <2>3 DEF TransitionAttempt, Raise, store, NoFalseCancellation
  <2>4. CASE StartAttempt \/ RunAttempt \/ SucceedAttempt
    BY <2>2, <2>3, <2>4
    DEF StartAttempt, RunAttempt, SucceedAttempt, OnAttempt, TaskAttemptStatus
  <2>5. CASE EvaluateFailure
    <3>1. CASE Raise
      BY <2>2, <3>1 DEF Raise, store, NoFalseCancellation
    <3>2. ASSUME NEW decision,
                 TransitionAttempt(AttemptStatusFor(decision, result.failure),
                                   AfterDecision(decision))
          PROVE  CancelledIsTraced'
      <4>1. PICK g \in TaskAttemptStatus : g = AttemptStatusFor(decision, result.failure)
        BY AttemptStatusForType
      <4>2. CASE Raise \/ g # "CANCELLED"
        BY <2>2, <2>3, <3>1, <3>2, <4>1, <4>2 DEF Raise, store, NoFalseCancellation
      <4>3. CASE ~ Raise /\ g = "CANCELLED"
        <5>1. /\ UpdateTaskAttempt(task, AttemptNumber, attemptView, g)
              /\ pc' = AfterDecision(decision)
          BY <3>2, <4>1, <4>3 DEF TransitionAttempt
        <5>2. /\ result.failure.category = "cancelled"
              /\ pc' \in {"append", "fail_task"}
          BY <4>1, <4>3, <5>1 DEF AttemptStatusFor, TerminalFor, AfterDecision
        <5>3. UNCHANGED <<task, result>>
          BY <2>5 DEF EvaluateFailure, cursor
        <5>4. /\ \A u \in Tasks : u # task => taskAttempts'[u] = taskAttempts[u]
              /\ Len(taskAttempts'[task]) = Len(taskAttempts[task])
              /\ \A m \in 1 .. Len(taskAttempts[task]) :
                    taskAttempts'[task][m] =
                       IF m = AttemptNumber THEN g ELSE taskAttempts[task][m]
          BY <1>0, <1>n, <5>1, AttemptReplaced
        <5>5. \A t \in Tasks : CancelReplies[t] = {} =>
                 \A n \in 1 .. Len(taskAttempts'[t]) :
                    taskAttempts'[t][n] = "CANCELLED" =>
                       t = task /\ n = Len(taskAttempts'[t])
          BY <1>n, <2>1, <5>4 DEF NoneCancelled
        <5> QED
          BY <5>2, <5>3, <5>5 DEF CancelledIsTraced, Conceding
      <4> QED
        BY <4>2, <4>3
    <3> QED
      BY <1>2, <2>2, <2>5, <3>1, <3>2 DEF EvaluateFailure
  <2>6. CASE AppendAttempt
    BY <1>6, <2>6 DEF AppendAttempt, Conceding
  <2> QED
    BY <2>2, <2>4, <2>5, <2>6, RunThreadOnAttempts DEF NoFalseCancellation
<1> QED
  BY <1>1, <1>2, <1>4, <1>5, <1>6

\* The program starts honest.
LEMMA HonestInit == Init => HonestInv
<1> SUFFICES ASSUME Init PROVE HonestInv
  OBVIOUS
<1> USE DEF Init, InitStore, InitRunLoop, InitCancellation
<1>1. CancelledIsTraced
  BY EmptySeq DEF CancelledIsTraced
<1>2. ExecutionIsHonest
  BY DEF ExecutionIsHonest
<1>3. CallIsHonest(NoCall)
  BY DEF CallIsHonest, NoCall, WholeSteps, Carrying
<1>4. CallsAreHonest
  BY <1>3 DEF CallsAreHonest, CallIsHonest
<1> QED
  BY <1>1, <1>2, <1>4 DEF HonestInv

\* What a call that does not move answers for stays true.
LEMMA HonestyStays ==
    ASSUME StoreTypeOK, StoreStep, NEW local \in Calls, CallIsHonest(local)
    PROVE  CallIsHonest(local)'
<1>1. local.task \in Tasks
  BY DEF Calls
<1>2. taskRun[local.task] = "CANCELLED" => taskRun'[local.task] = "CANCELLED"
  BY <1>1, SettledStays DEF TaskRunTerminal
<1> QED
  BY <1>2 DEF CallIsHonest

\* Every step of every thread is honest.
LEMMA HonestInductive == IInv /\ HonestInv /\ [Next]_vars => HonestInv'
<1> SUFFICES ASSUME IInv, HonestInv, [Next]_vars PROVE HonestInv'
  OBVIOUS
<1>0. /\ TypeOK /\ StoreTypeOK /\ CallsAreReady /\ call \in [Callers -> Calls]
      /\ CancelledIsTraced /\ ExecutionIsHonest /\ CallsAreHonest
  BY DEF IInv, HonestInv, TypeOK, CancellationTypeOK
<1>1. StoreStep /\ TypeOK'
  <2>1. NextMoves /\ IInv'
    BY NextStep, InvariantInductive
  <2> QED
    BY <1>0, <2>1, AppendIsStoreStep DEF NextMoves, StoreStep, IInv
<1>2. ASSUME NEW c \in Callers, call'[c] = call[c]
      PROVE  CallIsHonest(call[c])'
  <2>1. PICK local \in Calls : local = call[c] /\ CallIsHonest(local)
    BY <1>0 DEF CallsAreHonest
  <2>2. CallIsHonest(local)'
    BY <1>0, <1>1, <2>1, HonestyStays
  <2> QED
    BY <1>2, <2>1, <2>2 DEF CallIsHonest
<1>3. CASE RunStep
  <2>1. CancelledIsTraced' /\ ExecutionIsHonest' /\ call' = call
    BY <1>0, <1>3, RunThreadIsHonest DEF RunStep
  <2> QED
    BY <1>0, <1>2, <2>1 DEF HonestInv, CallsAreHonest
<1>4. ASSUME NEW c \in Callers, CallBegins(c) \/ CallStep(c)
      PROVE  HonestInv'
  <2>1. HonestCall(c)
    BY <1>0, <1>4, CancelIsHonest, CancelTaskIsHonest, AnswerIsHonest
    DEF CallBegins, CallStep
  <2>2. PICK local \in Calls :
           CallIsHonest(local)' /\ call' = [call EXCEPT ![c] = local]
    BY <2>1 DEF HonestCall
  <2>3. call'[c] = local /\ \A d \in Callers : d # c => call'[d] = call[d]
    BY <1>0, <2>2
  <2>4. CallIsHonest(call[c])'
    BY <2>2, <2>3 DEF CallIsHonest
  <2>5. CallsAreHonest'
    BY <1>2, <2>3, <2>4 DEF CallsAreHonest
  <2>6. ExecutionIsHonest'
    <3>1. UNCHANGED <<pc, task, result>>
      BY <2>1 DEF HonestCall
    <3>2. CASE UNCHANGED execution
      BY <1>0, <3>1, <3>2 DEF ExecutionIsHonest
    <3>3. CASE execution = "executing" /\ CancelReplies[task] # {}
      BY <1>0, <3>1, <3>3 DEF ExecutionIsHonest
    <3> QED
      BY <2>1, <3>2, <3>3 DEF HonestCall
  <2>7. StoreUpdate
    BY <1>0, <1>4, CallerSteps DEF CallMoves
  <2> QED
    BY <1>0, <2>1, <2>5, <2>6, <2>7, TraceStays DEF HonestInv, HonestCall
<1>5. CASE UNCHANGED vars
  <2>1. /\ UNCHANGED <<taskAttempts, pc, task, result, execution, call>>
    BY <1>5 DEF vars, store, runLoopVars
  <2>2. ExecutionIsHonest'
    BY <1>0, <2>1 DEF ExecutionIsHonest
  <2>3. CancelledIsTraced'
    BY <1>0, <2>1 DEF CancelledIsTraced
  <2> QED
    BY <1>0, <1>2, <2>1, <2>2, <2>3 DEF HonestInv, CallsAreHonest
<1> QED
  BY <1>3, <1>4, <1>5 DEF Next, Stopped

\* A confirmed cancellation is real: the task is recorded as cancelled, for
\* good.  An attempt on an executor that cannot cancel is recorded as cancelled
\* only on the word of that executor's own result, after which nothing is
\* executed, whoever else cancels the same task (cancel_task, _active_request).
THEOREM CancellationIsHonest == Spec => []CancellationsAreHonest
<1>1. Spec => []IInv
  BY Invariant
<1>2. ASSUME IInv, HonestInv
      PROVE  CancellationsAreHonest
  <2>1. ConfirmedTaskIsCancelled
    BY <1>2 DEF HonestInv, CallsAreHonest, CallIsHonest, ConfirmedTaskIsCancelled, At
  <2>2. execution # "idle" => pc \notin Conceding
    BY <1>2 DEF HonestInv, ExecutionIsHonest, Conceding
  <2>3. CancelledOnExecutorsWord
    BY <1>2, <2>2 DEF HonestInv, CancelledIsTraced, CancelledOnExecutorsWord
  <2> QED
    BY <2>1, <2>3 DEF CancellationsAreHonest
<1> QED
  BY <1>1, <1>2, HonestInit, HonestInductive, PTL DEF Spec

-----------------------------------------------------------------------------
(* Verdicts.                                                               *)

(***************************************************************************)
(* WorkflowRuntime implements RunLedger, for every plan, policy, executor  *)
(* and set of cancelling threads: whoever settles a task or the run does   *)
(* so for a reason that the stored records bear out.                       *)
(*                                                                         *)
(* IInv says that what a thread reads is there.                            *)
(* VInv adds what each thread may conclude from where it stands: no other  *)
(* thread has taken away, since it looked, the reason for what it is about *)
(* to write.  Reasons last because a terminal status never changes.        *)
(*                                                                         *)
(* The proof has four parts: what a due step does to the records and to    *)
(* the ledger; that a cancelling thread only takes due steps (CallEffect); *)
(* that these take nothing away from the run thread; and that the run      *)
(* thread, action by action, takes due steps too (RunEffect).              *)
(***************************************************************************)

QueuedTasksAreUntried ==
    \A t \in Tasks : taskRun[t] \in NotStarted \cup {Absent} => taskAttempts[t] = << >>

Unvisited(t) ==
    /\ taskRun[t] \in {"PENDING", "CANCELLED", "REUSED"}
    /\ t \in reused => taskRun[t] = "REUSED"
Passed(t) == taskRun[t] \in {"SUCCEEDED", "SKIPPED", "REUSED"}
Settled(t) == taskRun[t] \in TaskRunTerminal

AttemptEnded(t, status) == taskAttempts[t] # << >> /\ LastAttempt(t) = status

\* The steps that create records, that work on an attempt, that visit a plan
\* entry, and that spread a failure over the entries after it.
Creating == {"create_task", "reuse", "reuse_checkpoint"}
Working ==
    {"append", "starting", "running", "remember", "execute", "executing",
     "forget", "reload_attempt", "reload_task", "reload_run", "persist_refs", "append_ref",
     "cancel_task", "succeed_attempt", "succeed_task", "evaluate",
     "unknown_task", "fail_task"}
Visiting == {"skip", "ready", "run", "checkpoint", "recheck_run"} \cup Working
Failing == {"fail_fast", "fail_fast_skip", "fail_run"}

TaskUnderWay ==
    pc \in Working =>
        /\ taskRun[task] \in {"RUNNING", "CANCELLED", "UNKNOWN_OUTCOME"}
        /\ taskRun[task] = "CANCELLED" => taskAttempts[task] # << >>

AttemptTellsTheTask ==
    /\ \/ pc = "cancel_task"
       \/ pc \in {"reload_task", "reload_run", "persist_refs", "append_ref"} /\ attemptView = "CANCELLED"
       => AttemptEnded(task, "CANCELLED")
    /\ pc = "succeed_task" => AttemptEnded(task, "SUCCEEDED")
    /\ pc = "fail_task" => AttemptEnded(task, TerminalFor(result.failure))

ListedNotStarted == pc = "cancel_each" => \A t \in todo : listed[t] \in NotStarted

PlanIsCreated ==
    /\ pc \in Creating => \A t \in 1 .. task - 1 : Unvisited(t)
    /\ pc \in {"reuse", "reuse_checkpoint"} => task \in reused
    /\ pc = "reuse_checkpoint" => taskRun[task] = "REUSED"
    /\ pc \in {"create_run", "start"} => task = 1

PlanIsVisited ==
    /\ pc \in {"start", "next_task"} => Unvisited(task)
    /\ pc \in {"start", "next_task"} \cup Visiting =>
          /\ \A t \in 1 .. task - 1 : Passed(t)
          /\ \A t \in task + 1 .. TaskCount : Unvisited(t)
    /\ pc \in {"checkpoint", "recheck_run"} => Passed(task)
    /\ pc \in {"assert_terminal", "succeed_run"} => \A t \in Tasks : Passed(t)

FailureIsSpread ==
    pc \in Failing =>
        /\ \E t \in Tasks : taskRun[t] = TerminalFor(result.failure)
        /\ \A t \in 1 .. task - 1 : Settled(t)
        /\ pc # "fail_fast_skip" => Settled(task)
        /\ pc # "fail_run" => \A t \in task + 1 .. TaskCount : Unvisited(t)
        /\ pc = "fail_run" => task = TaskCount

\* A cancelling thread takes a task for not started, or its attempt for
\* cancelled, because it read or wrote that.
CallKnows(local) ==
    /\ \A t \in local.todo : local.listed[t] \in NotStarted \cup {"RUNNING"}
    /\ local.at \in {"cancel_listed", "cancel_pending"} => local.taskRun \in NotStarted
    /\ local.at = "settle_task" /\ local.answer = "confirmed" =>
          /\ local.num \in 1 .. Len(taskAttempts[local.task])
          /\ taskAttempts[local.task][local.num] = "CANCELLED"
CallsKnow == \A c \in Callers : CallKnows(call[c])

RunThreadKnows ==
    /\ TaskUnderWay /\ AttemptTellsTheTask /\ ListedNotStarted
    /\ PlanIsCreated /\ PlanIsVisited /\ FailureIsSpread

RecordsAgree == AttemptSequence /\ QueuedTasksAreUntried /\ TaskMatchesLastAttempt

VInv == RecordsAgree /\ RunThreadKnows /\ CallsKnow

\* The reasons for a verdict.
RunVerdictIsDue(g) ==
    /\ g = "SUCCEEDED" => \A t \in Tasks : Passed(t)
    /\ g \in {"FAILED", "TIMED_OUT"} =>
          (\A t \in Tasks : Settled(t)) /\ (\E t \in Tasks : taskRun[t] = g)

TaskVerdictIsDue(t, g) ==
    /\ g \in {"SUCCEEDED", "FAILED", "TIMED_OUT"} => AttemptEnded(t, g)
    /\ g = "CANCELLED" => taskAttempts[t] = << >> \/ AttemptEnded(t, "CANCELLED")
    /\ g \in NotStarted \cup {"SKIPPED", "REUSED"} => taskAttempts[t] = << >>

\* A step of the store that a thread has a reason for.
SettlesRun ==
    \E e, g \in WorkflowRunStatus \cup {Absent} :
        g # Absent /\ UpdateWorkflowRun(e, g) /\ RunVerdictIsDue(g)
SettlesTask ==
    \E t \in Tasks : \E e, g \in TaskRunStatus \cup {Absent} :
        g # Absent /\ UpdateTaskRun(t, e, g) /\ TaskVerdictIsDue(t, g)
SettlesAttempt ==
    \E t \in Tasks, n \in Nat : \E e, g \in TaskAttemptStatus :
        UpdateTaskAttempt(t, n, e, g)
Tries ==
    \E t \in Tasks :
        /\ FreshAttemptAllowed(t) /\ Dispatchable(t)
        /\ taskRun[t] \in {"RUNNING", "UNKNOWN_OUTCOME"}
        /\ AppendTaskAttempt(t)
Notes ==
    \/ UNCHANGED store
    \/ CreateWorkflowRun
    \/ \E t \in Tasks : CreateTaskRun(t)
    \/ \E t \in Tasks, n \in Nat : AppendExternalRunRef(t, n)
    \/ \E t \in Tasks : SetTaskOutputCheckpoint(t)

\* Every step is due; only the run thread tries, and where it does not, an
\* attempt that ended stays the last.
DueUpdate == Notes \/ SettlesRun \/ SettlesTask \/ SettlesAttempt
DueStep == DueUpdate \/ Tries

-----------------------------------------------------------------------------
(* Due steps of the store keep the records in agreement and are steps of   *)
(* the ledger.                                                             *)

\* A due step is a step of the store.
LEMMA DueStepIsStoreStep == DueStep => StoreStep
BY DEF DueStep, DueUpdate, Notes, SettlesRun, SettlesTask, SettlesAttempt, Tries,
       StoreStep, StoreUpdate

\* The last attempt is the one with the largest number.
LEMMA LastIsLast ==
    ASSUME StoreTypeOK, NEW t \in Tasks, taskAttempts[t] # << >>
    PROVE  /\ Len(taskAttempts[t]) \in Nat \ {0}
           /\ LastAttempt(t) = taskAttempts[t][Len(taskAttempts[t])]
           /\ LastAttempt(t) \in TaskAttemptStatus
<1>1. taskAttempts[t] \in Seq(TaskAttemptStatus)
  BY DEF StoreTypeOK
<1> QED
  BY <1>1, EmptySeq, LastAttemptType DEF LastAttempt

\* Only the last attempt of a task is ever updated, and only while it has not
\* ended.
LEMMA OnlyLastIsUpdated ==
    ASSUME StoreTypeOK, AttemptSequence, NEW t \in Tasks, NEW n \in Nat,
           NEW e \in TaskAttemptStatus, NEW g \in TaskAttemptStatus,
           UpdateTaskAttempt(t, n, e, g)
    PROVE  /\ n = Len(taskAttempts[t])
           /\ taskAttempts[t] # << >> /\ taskAttempts'[t] # << >>
           /\ LastAttempt(t) = e /\ LastAttempt(t)' = g
           /\ e \notin TaskAttemptTerminal
           /\ \A u \in Tasks : u # t => taskAttempts'[u] = taskAttempts[u]
<1>1. /\ n \in 1 .. Len(taskAttempts[t])
      /\ Len(taskAttempts'[t]) = Len(taskAttempts[t])
      /\ taskAttempts[t][n] = e /\ taskAttempts'[t][n] = g
      /\ g \in TaskAttemptTransitions[e]
      /\ \A u \in Tasks : u # t => taskAttempts'[u] = taskAttempts[u]
  BY AttemptReplaced
<1>2. e \notin TaskAttemptTerminal
  BY <1>1, TerminalAttemptStays
<1>3. n = Len(taskAttempts[t])
  <2>1. ~ (n < Len(taskAttempts[t]))
    BY <1>1, <1>2 DEF AttemptSequence, TaskAttemptTerminal
  <2> QED
    BY <1>1, <2>1, AttemptNumberType
<1>4. Len(taskAttempts[t]) # 0
  BY <1>1, <1>3
<1>5. taskAttempts[t] # << >> /\ taskAttempts'[t] # << >>
  BY <1>1, <1>4, EmptySeq
<1> QED
  BY <1>1, <1>2, <1>3, <1>5 DEF LastAttempt

\* A new attempt is the last one.
LEMMA TriedIsLast ==
    ASSUME StoreTypeOK, NEW t \in Tasks, AppendTaskAttempt(t)
    PROVE  /\ taskAttempts'[t] # << >> /\ LastAttempt(t)' = "PENDING"
           /\ \A u \in Tasks : u # t => taskAttempts'[u] = taskAttempts[u]
<1> DEFINE seq == taskAttempts[t]
<1>1. seq \in Seq(TaskAttemptStatus) /\ "PENDING" \in TaskAttemptStatus
  BY DEF StoreTypeOK, TaskAttemptStatus
<1>2. /\ Len(Append(seq, "PENDING")) = Len(seq) + 1
      /\ Append(seq, "PENDING")[Len(seq) + 1] = "PENDING"
      /\ Len(seq) \in Nat
  BY <1>1, AppendProperties, LenProperties
<1>3. Append(seq, "PENDING") # << >>
  BY <1>2, EmptySeq, SMTT(20)
<1>4. taskAttempts' = [taskAttempts EXCEPT ![t] = Append(seq, "PENDING")]
  BY DEF AppendTaskAttempt
<1>5. taskAttempts \in [Tasks -> Seq(TaskAttemptStatus)]
  BY DEF StoreTypeOK
<1> HIDE DEF seq
<1>6. taskAttempts'[t] = Append(seq, "PENDING")
  BY <1>4, <1>5
<1>7. \A u \in Tasks : u # t => taskAttempts'[u] = taskAttempts[u]
  BY <1>4, <1>5
<1> QED
  BY <1>2, <1>3, <1>6, <1>7 DEF LastAttempt

\* An attempt that has ended stays the last one, but for a new try.
LEMMA EndStays ==
    ASSUME StoreTypeOK, AttemptSequence, DueUpdate, NEW t \in Tasks,
           NEW status \in TaskAttemptTerminal, AttemptEnded(t, status)
    PROVE  AttemptEnded(t, status)'
<1>1. CASE UNCHANGED taskAttempts
  BY <1>1 DEF AttemptEnded, LastAttempt
<1>2. CASE SettlesAttempt
  BY <1>2, OnlyLastIsUpdated DEF SettlesAttempt, AttemptEnded, LastAttempt
<1> QED
  BY <1>1, <1>2
  DEF DueUpdate, Notes, SettlesRun, SettlesTask, store, CreateWorkflowRun,
      CreateTaskRun, UpdateWorkflowRun, UpdateTaskRun, AppendExternalRunRef,
      SetTaskOutputCheckpoint

\* A due step keeps the records in agreement.
LEMMA RecordsAgreeInductive ==
    ASSUME StoreTypeOK, RecordsAgree, DueStep
    PROVE  RecordsAgree'
<1> USE DEF RecordsAgree, QueuedTasksAreUntried, TaskMatchesLastAttempt
<1>1. AttemptSequence'
  BY DueStepIsStoreStep, AttemptSequenceInductive
<1>2. CASE UNCHANGED <<taskRun, taskAttempts>>
  BY <1>1, <1>2 DEF LastAttempt
<1>3. ASSUME NEW t \in Tasks, CreateTaskRun(t)
      PROVE  RecordsAgree'
  <2>1. /\ taskRun'[t] = "PENDING" /\ taskRun[t] = Absent
        /\ \A u \in Tasks : u # t => taskRun'[u] = taskRun[u]
        /\ taskAttempts' = taskAttempts
    BY <1>3 DEF CreateTaskRun, StoreTypeOK
  <2> QED
    BY <1>1, <2>1 DEF LastAttempt, NotStarted
<1>4. ASSUME NEW t \in Tasks, NEW e, NEW g, g # Absent, UpdateTaskRun(t, e, g),
             TaskVerdictIsDue(t, g)
      PROVE  RecordsAgree'
  <2>1. /\ taskRun'[t] = g
        /\ \A u \in Tasks : u # t => taskRun'[u] = taskRun[u]
        /\ taskAttempts' = taskAttempts
    BY <1>4 DEF UpdateTaskRun, StoreTypeOK
  <2> QED
    BY <1>1, <1>4, <2>1 DEF LastAttempt, TaskVerdictIsDue, AttemptEnded
<1>5. CASE SettlesAttempt
  <2>1. PICK t \in Tasks, n \in Nat, e \in TaskAttemptStatus, g \in TaskAttemptStatus :
           UpdateTaskAttempt(t, n, e, g)
    BY <1>5 DEF SettlesAttempt
  <2>2. /\ taskAttempts[t] # << >> /\ taskAttempts'[t] # << >>
        /\ LastAttempt(t) \notin TaskAttemptTerminal
        /\ \A u \in Tasks : u # t => taskAttempts'[u] = taskAttempts[u]
        /\ taskRun' = taskRun
    BY <2>1, OnlyLastIsUpdated DEF UpdateTaskAttempt
  <2>3. \A u \in Tasks : u # t => LastAttempt(u)' = LastAttempt(u)
    BY <2>2 DEF LastAttempt
  <2>4. QueuedTasksAreUntried'
    BY <2>2
  <2>5. TaskMatchesLastAttempt'
    BY <2>2, <2>3 DEF TaskAttemptTerminal
  <2> QED
    BY <1>1, <2>4, <2>5
<1>6. CASE Tries
  <2>1. PICK t \in Tasks : /\ taskRun[t] \in {"RUNNING", "UNKNOWN_OUTCOME"}
                           /\ AppendTaskAttempt(t)
    BY <1>6 DEF Tries
  <2>2. /\ taskAttempts'[t] # << >>
        /\ \A u \in Tasks : u # t => taskAttempts'[u] = taskAttempts[u]
        /\ taskRun' = taskRun
    BY <2>1, TriedIsLast DEF AppendTaskAttempt
  <2>3. \A u \in Tasks : u # t => LastAttempt(u)' = LastAttempt(u)
    BY <2>2 DEF LastAttempt
  <2> QED
    BY <1>1, <2>1, <2>2, <2>3 DEF NotStarted, Absent
<1> QED
  BY <1>2, <1>3, <1>4, <1>5, <1>6
  DEF DueStep, DueUpdate, Notes, SettlesRun, SettlesTask, store, CreateWorkflowRun,
      UpdateWorkflowRun, AppendExternalRunRef, SetTaskOutputCheckpoint

\* A due step of the store is a step of the ledger, or none.
LEMMA DueStepIsLedgerStep ==
    ASSUME StoreTypeOK, RecordsAgree, DueStep
    PROVE  [Ledger!Next]_(Ledger!ledger)
<1> DEFINE AsTask(status) == Verdict(status, TaskRunTerminal)
           tasks == [t \in Tasks |-> AsTask(taskRun[t])]
           lasts == [t \in Tasks |-> LastEnd(t)]
           run == Verdict(workflowRun, WorkflowTerminal)
<1> USE DEF Ledger!Next, Ledger!ledger, Ledger!Open, Ledger!Nothing, Ledger!Live,
            Ledger!Failures, Ledger!Passes
<1>1. ASSUME UNCHANGED taskAttempts
      PROVE  lasts' = lasts
  BY <1>1 DEF LastEnd, LastAttempt
<1>2. CASE UNCHANGED store
  BY <1>1, <1>2 DEF store
<1>3. CASE CreateWorkflowRun
  BY <1>1, <1>3 DEF CreateWorkflowRun, Verdict, WorkflowTerminal, Absent
<1>4. ASSUME NEW t \in Tasks, CreateTaskRun(t)
      PROVE  UNCHANGED Ledger!ledger
  <2>1. tasks' = tasks
    BY <1>4 DEF CreateTaskRun, StoreTypeOK, Verdict, TaskRunTerminal, Absent
  <2> QED
    BY <1>1, <1>4, <2>1 DEF CreateTaskRun
<1>5. ASSUME NEW t \in Tasks, NEW n \in Nat, AppendExternalRunRef(t, n)
      PROVE  UNCHANGED Ledger!ledger
  BY <1>1, <1>5 DEF AppendExternalRunRef
<1>6. ASSUME NEW t \in Tasks, SetTaskOutputCheckpoint(t)
      PROVE  Ledger!Record(t)
  BY <1>1, <1>6 DEF SetTaskOutputCheckpoint, Ledger!Record, Verdict, TaskRunTerminal
<1>7. CASE SettlesRun
  <2>1. PICK e, g : /\ g \in WorkflowRunStatus
                    /\ UpdateWorkflowRun(e, g) /\ RunVerdictIsDue(g)
    BY <1>7 DEF SettlesRun
  <2>2. UNCHANGED <<tasks, lasts, checkpoints>>
    BY <1>1, <2>1 DEF UpdateWorkflowRun
  <2>3. run = "open"
    <3>1. workflowRun = e /\ g \in WorkflowTransitions[e]
      BY <2>1 DEF UpdateWorkflowRun, WorkflowUpdateAccepted
    <3>2. workflowRun \notin WorkflowTerminal
      BY <3>1 DEF WorkflowTransitions, WorkflowRunStatus, WorkflowTerminal
    <3> QED
      BY <3>2 DEF Verdict
  <2>4. CASE g \in WorkflowTerminal
    <3>1. run' = g /\ g \in Ledger!RunVerdicts
      BY <2>1, <2>4
      DEF UpdateWorkflowRun, Verdict, WorkflowTerminal, Ledger!RunVerdicts
    <3>2. g = "SUCCEEDED" => \A t \in Tasks : tasks[t] \in {"SUCCEEDED", "SKIPPED", "REUSED"}
      BY <2>1 DEF RunVerdictIsDue, Passed, Verdict, TaskRunTerminal
    <3>3. ASSUME g \in {"FAILED", "TIMED_OUT"}
          PROVE  /\ \A t \in Tasks : tasks[t] # "open"
                 /\ \E t \in Tasks : tasks[t] = g
      <4>1. /\ \A t \in Tasks : taskRun[t] \in TaskRunTerminal
            /\ \E t \in Tasks : taskRun[t] = g
        BY <2>1, <3>3 DEF RunVerdictIsDue, Settled
      <4> QED
        BY <3>3, <4>1 DEF Verdict, TaskRunTerminal
    <3> QED
      BY <2>2, <2>3, <3>1, <3>2, <3>3 DEF Ledger!Close
  <2>5. CASE g \notin WorkflowTerminal
    BY <2>1, <2>2, <2>3, <2>5 DEF UpdateWorkflowRun, Verdict
  <2> QED
    BY <2>4, <2>5
<1>8. CASE SettlesTask
  <2>1. PICK t \in Tasks, e, g \in TaskRunStatus \cup {Absent} :
           g # Absent /\ UpdateTaskRun(t, e, g) /\ TaskVerdictIsDue(t, g)
    BY <1>8 DEF SettlesTask
  <2>2. UNCHANGED <<run, lasts, checkpoints>>
    BY <1>1, <2>1 DEF UpdateTaskRun
  <2>3. taskRun' = [taskRun EXCEPT ![t] = g]
    BY <2>1 DEF UpdateTaskRun
  <2>4. taskRun \in [Tasks -> TaskRunStatus \cup {Absent}]
    BY DEF StoreTypeOK
  <2>5. tasks[t] = "open"
    <3>1. taskRun[t] = e /\ g \in TaskRunTransitions[e]
      BY <2>1 DEF UpdateTaskRun, TaskUpdateAccepted
    <3>2. taskRun[t] \notin TaskRunTerminal
      BY <3>1, TerminalTaskStays
    <3> QED
      BY <3>2 DEF Verdict
  <2>6. CASE g \in TaskRunTerminal
    <3>1. tasks' = [tasks EXCEPT ![t] = g]
      BY <2>3, <2>4, <2>6 DEF Verdict
    <3>2. g \in Ledger!TaskVerdicts
      BY <2>6 DEF TaskRunTerminal, Ledger!TaskVerdicts
    <3>3. Ledger!Justified(t, g)
      BY <2>1, <2>6
      DEF Ledger!Justified, TaskVerdictIsDue, AttemptEnded, LastEnd, TaskRunTerminal,
          TaskAttemptTerminal
    <3> QED
      BY <2>2, <2>5, <3>1, <3>2, <3>3 DEF Ledger!Settle
  <2>7. CASE g \notin TaskRunTerminal
    <3>1. tasks' = tasks
      BY <2>3, <2>4, <2>5, <2>7 DEF Verdict
    <3> QED
      BY <2>2, <3>1
  <2> QED
    BY <2>6, <2>7
<1>9. CASE SettlesAttempt
  <2>1. PICK t \in Tasks, n \in Nat, e \in TaskAttemptStatus, g \in TaskAttemptStatus :
           UpdateTaskAttempt(t, n, e, g)
    BY <1>9 DEF SettlesAttempt
  <2>2. /\ taskAttempts[t] # << >> /\ taskAttempts'[t] # << >>
        /\ LastAttempt(t) \notin TaskAttemptTerminal /\ LastAttempt(t)' = g
        /\ \A u \in Tasks : u # t => taskAttempts'[u] = taskAttempts[u]
    BY <2>1, OnlyLastIsUpdated DEF RecordsAgree
  <2>3. UNCHANGED <<run, tasks, checkpoints>>
    BY <2>1 DEF UpdateTaskAttempt
  <2>4. lasts[t] = "live"
    BY <2>2 DEF LastEnd
  <2>5. lasts' = [lasts EXCEPT ![t] = IF g \in TaskAttemptTerminal THEN g ELSE "live"]
    BY <2>2 DEF LastEnd, LastAttempt
  <2>6. CASE g \in TaskAttemptTerminal
    <3>1. g \in Ledger!Ends
      BY <2>6 DEF TaskAttemptTerminal, Ledger!Ends
    <3> QED
      BY <2>3, <2>4, <2>5, <2>6, <3>1 DEF Ledger!EndTry
  <2>7. CASE g \notin TaskAttemptTerminal
    <3>1. lasts' = lasts
      BY <2>4, <2>5, <2>7
    <3> QED
      BY <2>3, <3>1
  <2> QED
    BY <2>6, <2>7
<1>10. CASE Tries
  <2>1. PICK t \in Tasks :
           /\ FreshAttemptAllowed(t) /\ Dispatchable(t)
           /\ taskRun[t] \in {"RUNNING", "UNKNOWN_OUTCOME"}
           /\ AppendTaskAttempt(t)
    BY <1>10 DEF Tries
  <2>2. /\ taskAttempts'[t] # << >> /\ LastAttempt(t)' = "PENDING"
        /\ \A u \in Tasks : u # t => taskAttempts'[u] = taskAttempts[u]
    BY <2>1, TriedIsLast
  <2>3. UNCHANGED <<run, tasks, checkpoints>>
    BY <2>1 DEF AppendTaskAttempt
  <2>4. lasts' = [lasts EXCEPT ![t] = "live"]
    BY <2>2 DEF LastEnd, LastAttempt, TaskAttemptTerminal
  <2>5. lasts[t] \in {"FAILED", "TIMED_OUT", "nothing"}
    BY <2>1 DEF FreshAttemptAllowed, LastEnd, TaskAttemptTerminal
  <2>6. tasks[t] = "open"
    BY <2>1 DEF Verdict, TaskRunTerminal
  <2>7. \A d \in Dependencies[t] : tasks[d] # "open"
    <3>1. \A d \in Dependencies[t] : d \in Tasks /\ taskRun[d] \in TaskRunTerminal
      BY <2>1, DependenciesPrecede DEF Dispatchable, Upstream
    <3> QED
      BY <3>1 DEF Verdict, TaskRunTerminal
  <2> QED
    BY <2>3, <2>4, <2>5, <2>6, <2>7 DEF Ledger!Try
<1> QED
  BY <1>2, <1>3, <1>4, <1>5, <1>6, <1>7, <1>8, <1>9, <1>10
  DEF DueStep, DueUpdate, Notes

-----------------------------------------------------------------------------
(* The cancelling threads.                                                 *)

\* All that a cancelling thread does to the store.
CallerUpdate ==
    \/ UNCHANGED store
    \/ \E t \in Tasks, n \in Nat : AppendExternalRunRef(t, n)
    \/ SettlesRun
    \/ SettlesAttempt
    \/ \E t \in Tasks : \E e \in TaskRunStatus \cup {Absent} :
          \/ UpdateTaskRun(t, e, "UNKNOWN_OUTCOME")
          \/ /\ UpdateTaskRun(t, e, "CANCELLED")
             /\ \/ AttemptEnded(t, "CANCELLED")
                \/ e \in NotStarted /\ taskAttempts[t] = << >>

CallEffect(c) ==
    /\ CallerUpdate
    /\ UNCHANGED runThread
    /\ \E local \in Calls :
          CallKnows(local)' /\ call' = [call EXCEPT ![c] = local]

\* Cancelling threads give every verdict for a reason.
LEMMA CallerUpdateIsDue == CallerUpdate => DueUpdate
BY DEF CallerUpdate, DueUpdate, Notes, SettlesTask, TaskVerdictIsDue, TaskRunStatus,
       Absent, NotStarted

\* What a call knows of its attempt remains true.
LEMMA CallKnowledgeStays ==
    ASSUME StoreTypeOK, StoreStep, NEW local \in Calls, CallKnows(local)
    PROVE  CallKnows(local)'
<1>1. CASE ~ (local.at = "settle_task" /\ local.answer = "confirmed")
  BY <1>1 DEF CallKnows
<1>2. CASE local.at = "settle_task" /\ local.answer = "confirmed"
  <2> DEFINE t == local.task
             n == local.num
  <2>1. t \in Tasks /\ n \in 1 .. Len(taskAttempts[t]) /\ taskAttempts[t][n] = "CANCELLED"
    BY <1>2 DEF CallKnows, Calls
  <2>2. /\ AttemptsMoveLegally(t)
        /\ Len(taskAttempts'[t]) \in Nat /\ Len(taskAttempts'[t]) >= Len(taskAttempts[t])
        /\ Len(taskAttempts[t]) \in Nat
    BY <2>1, StoreMovesLegally, SettledStays, AttemptNumberType
  <2>3. TaskAttemptTransitions["CANCELLED"] = {}
    BY TerminalAttemptStays DEF TaskAttemptTerminal
  <2>4. taskAttempts'[t][n] = "CANCELLED"
    BY <2>1, <2>2, <2>3 DEF AttemptsMoveLegally
  <2>5. n \in 1 .. Len(taskAttempts'[t])
    BY <2>1, <2>2
  <2> QED
    BY <1>2, <2>4, <2>5 DEF CallKnows
<1> QED
  BY <1>1, <1>2

\* A call that only changes its own variables.
LEMMA LocalEffect ==
    ASSUME NEW c \in Callers, NEW local \in Calls, CallKnows(local), Local(c, local)
    PROVE  CallEffect(c)
<1>1. UNCHANGED store /\ UNCHANGED runThread /\ call' = [call EXCEPT ![c] = local]
  BY DEF Local
<1>2. CallKnows(local)'
  BY <1>1 DEF CallKnows, store
<1> QED
  BY <1>1, <1>2 DEF CallEffect, CallerUpdate

\* A call that raises.
LEMMA RaiseEffect ==
    ASSUME TypeOK, CallsAreReady, NEW c \in Callers, CallRaises(c)
    PROVE  CallEffect(c)
<1> DEFINE local == [NoCall EXCEPT !.at = "raised"]
<1>1. local \in Calls
  BY NoCallType DEF Calls, CallSteps
<1>2. CallKnows(local)
  BY DEF CallKnows, NoCall
<1>3. Local(c, local)
  BY DEF CallRaises
<1> HIDE DEF local
<1> QED
  BY <1>1, <1>2, <1>3, LocalEffect

\* A call that updates the store for a reason.
LEMMA UpdateEffect ==
    ASSUME StoreTypeOK, NEW c \in Callers, NEW local \in Calls, CallKnows(local),
           CallerUpdate, UNCHANGED runThread, call' = [call EXCEPT ![c] = local]
    PROVE  CallEffect(c)
<1>1. StoreStep
  BY CallerUpdateIsDue, DueStepIsStoreStep DEF DueStep
<1> QED
  BY <1>1, CallKnowledgeStays DEF CallEffect

\* A call moves on and keeps its listing.
LEMMA GotoKnows ==
    ASSUME TypeOK, CallsAreReady, CallsKnow, NEW c \in Callers,
           NEW step \in CallSteps \ {"cancel_listed", "cancel_pending", "settle_task"}
    PROVE  Goto(c, step) \in Calls /\ CallKnows(Goto(c, step))
<1>1. call[c] \in Calls /\ CallKnows(call[c])
  BY CallType DEF CallsKnow
<1>2. /\ Goto(c, step) \in Calls /\ Goto(c, step).at = step
      /\ Goto(c, step).todo = call[c].todo /\ Goto(c, step).listed = call[c].listed
  BY <1>1 DEF Goto, Calls
<1> QED
  BY <1>1, <1>2 DEF CallKnows

\* A call that is over, or a task of it.
LEMMA ReplyKnows ==
    ASSUME TypeOK, CallsAreReady, CallsKnow, NEW c \in Callers,
           NEW status \in CancellationStatus
    PROVE  /\ Reply(c, status) \in Calls /\ CallKnows(Reply(c, status))
           /\ TaskReply(c, status) \in Calls /\ CallKnows(TaskReply(c, status))
<1>1. call[c] \in Calls /\ CallKnows(call[c])
  BY CallType DEF CallsKnow
<1>2. Reply(c, status) \in Calls /\ TaskReply(c, status) \in Calls
  BY ReplyType, TaskReplyType DEF GoodCall
<1>3. CallKnows(Reply(c, status))
  BY DEF CallKnows, Reply, NoCall
<1>4. CASE call[c].whole
  <2> DEFINE next == [call[c] EXCEPT !.at = "each", !.statuses = @ \cup {status}]
  <2>1. next.at = "each" /\ next.todo = call[c].todo /\ next.listed = call[c].listed
    BY <1>1 DEF Calls
  <2>2. TaskReply(c, status) = next
    BY <1>4 DEF TaskReply
  <2> HIDE DEF next
  <2> QED
    BY <1>1, <1>2, <1>3, <2>1, <2>2 DEF CallKnows
<1>5. CASE ~ call[c].whole
  BY <1>2, <1>3, <1>5 DEF TaskReply
<1> QED
  BY <1>4, <1>5

\* A call that updates the status of the run.
LEMMA CallTransitionsRunEffect ==
    ASSUME TypeOK, CallsAreReady, NEW c \in Callers,
           NEW g \in {"CANCELLATION_REQUESTED", "CANCELLED", "UNKNOWN_OUTCOME"},
           NEW local \in Calls, CallKnows(local), CallTransitionsRun(c, g, local)
    PROVE  CallEffect(c)
<1>1. CASE CallRaises(c)
  BY <1>1, RaiseEffect
<1>2. CASE ~ CallRaises(c)
  <2>1. /\ UpdateWorkflowRun(call[c].run, g) /\ UNCHANGED runThread
        /\ call' = [call EXCEPT ![c] = local]
    BY <1>2 DEF CallTransitionsRun
  <2>2. call[c].run \in WorkflowRunStatus \cup {Absent}
    BY CallType DEF Calls
  <2>3. CallerUpdate
    BY <2>1, <2>2
    DEF CallerUpdate, SettlesRun, RunVerdictIsDue, WorkflowRunStatus, Absent
  <2> QED
    BY <2>1, <2>3, UpdateEffect DEF TypeOK
<1> QED
  BY <1>1, <1>2

\* A call that updates the status of its task.
LEMMA CallTransitionsTaskEffect ==
    ASSUME TypeOK, CallsAreReady, NEW c \in Callers,
           NEW g \in {"CANCELLED", "UNKNOWN_OUTCOME"},
           NEW local \in Calls, CallKnows(local), CallTransitionsTask(c, g, local),
           RecordsAgree,
           g = "CANCELLED" => \/ AttemptEnded(call[c].task, "CANCELLED")
                              \/ call[c].taskRun \in NotStarted
    PROVE  CallEffect(c)
<1>1. CASE CallRaises(c)
  BY <1>1, RaiseEffect
<1>2. CASE ~ CallRaises(c)
  <2> DEFINE t == call[c].task
             e == call[c].taskRun
  <2>1. /\ UpdateTaskRun(t, e, g) /\ UNCHANGED runThread
        /\ call' = [call EXCEPT ![c] = local]
    BY <1>2 DEF CallTransitionsTask
  <2>2. t \in Tasks /\ e \in TaskRunStatus \cup {Absent}
    BY CallType DEF Calls
  <2>3. e \in NotStarted => taskAttempts[t] = << >>
    BY <2>1, <2>2
    DEF UpdateTaskRun, TaskUpdateAccepted, RecordsAgree, QueuedTasksAreUntried
  <2>4. CallerUpdate
    BY <2>1, <2>2, <2>3 DEF CallerUpdate
  <2> QED
    BY <2>1, <2>4, UpdateEffect DEF TypeOK
<1> QED
  BY <1>1, <1>2

\* A call that updates the status of its attempt.
LEMMA CallTransitionsAttemptEffect ==
    ASSUME TypeOK, CallsAreReady, NEW c \in Callers, NEW g \in TaskAttemptStatus,
           NEW local \in Calls, CallTransitionsAttempt(c, g, local),
           \/ CallKnows(local)
           \/ UpdateTaskAttempt(call[c].task, call[c].num, call[c].attempt, g)
              => CallKnows(local)'
    PROVE  CallEffect(c)
<1>1. CASE CallRaises(c)
  BY <1>1, RaiseEffect
<1>2. CASE ~ CallRaises(c)
  <2>1. /\ UpdateTaskAttempt(call[c].task, call[c].num, call[c].attempt, g)
        /\ UNCHANGED runThread /\ call' = [call EXCEPT ![c] = local]
    BY <1>2 DEF CallTransitionsAttempt
  <2>2. /\ call[c].task \in Tasks /\ call[c].num \in Nat
        /\ call[c].attempt \in TaskAttemptStatus
    BY CallType DEF Calls
  <2>3. CallerUpdate
    BY <2>1, <2>2 DEF CallerUpdate, SettlesAttempt
  <2>4. CASE CallKnows(local)
    BY <2>1, <2>3, <2>4, UpdateEffect DEF TypeOK
  <2>5. CASE CallKnows(local)'
    BY <2>1, <2>3, <2>5 DEF CallEffect
  <2> QED
    BY <2>1, <2>4, <2>5
<1> QED
  BY <1>1, <1>2

\* The steps of cancel up to the turns of its loop.
LEMMA CancelLoopEffect ==
    ASSUME TypeOK, CallsAreReady, CallsKnow, RecordsAgree, NEW c \in Callers,
           \/ BeginCancel(c) \/ ReadRun(c) \/ RequestRun(c) \/ ListTasks(c)
           \/ NextListed(c) \/ CancelListed(c) \/ AllListed(c) \/ RereadRun(c)
           \/ SettleRun(c)
    PROVE  CallEffect(c)
<1>0. call[c] \in Calls /\ CallKnows(call[c])
  BY CallType DEF CallsKnow
<1>1. CASE BeginCancel(c)
  BY <1>1, GotoKnows, LocalEffect DEF BeginCancel, CallSteps
<1>2. CASE ReadRun(c)
  <2>1. CASE \E status \in CancellationStatus : Local(c, Reply(c, status))
    BY <2>1, ReplyKnows, LocalEffect
  <2>2. CASE Local(c, Goto(c, "list"))
    BY <2>2, GotoKnows, LocalEffect DEF CallSteps
  <2>3. CASE /\ workflowRun \in {"PENDING", "RUNNING"}
             /\ Local(c, [Goto(c, "request_run") EXCEPT !.run = workflowRun])
    <3> DEFINE local == [Goto(c, "request_run") EXCEPT !.run = workflowRun]
    <3>1. Goto(c, "request_run") \in Calls /\ CallKnows(Goto(c, "request_run"))
      BY GotoKnows DEF CallSteps
    <3>2. /\ local \in Calls /\ local.at = "request_run"
          /\ local.todo = call[c].todo /\ local.listed = call[c].listed
      BY <1>0, <2>3 DEF Goto, Calls, CallSteps, WorkflowRunStatus
    <3>3. Local(c, local)
      BY <2>3
    <3> HIDE DEF local
    <3>4. CallKnows(local)
      BY <1>0, <3>2 DEF CallKnows
    <3> QED
      BY <3>2, <3>3, <3>4, LocalEffect
  <2> QED
    BY <1>2, <2>1, <2>2, <2>3 DEF ReadRun, CancellationStatus
<1>3. CASE RequestRun(c)
  BY <1>3, GotoKnows, CallTransitionsRunEffect DEF RequestRun, CallSteps
<1>4. CASE ListTasks(c)
  <2> DEFINE local == [Goto(c, "each") EXCEPT
                   !.listed = taskRun,
                   !.todo = {t \in Tasks : taskRun[t] \in NotStarted \cup {"RUNNING"}},
                   !.statuses = IF \E t \in Tasks : taskRun[t] = "UNKNOWN_OUTCOME"
                                THEN {"unconfirmed"} ELSE {}]
  <2>1. taskRun \in [Tasks -> TaskRunStatus \cup {Absent}]
    BY DEF TypeOK, StoreTypeOK
  <2>2. /\ local \in Calls /\ local.at = "each" /\ local.listed = taskRun
        /\ local.todo = {t \in Tasks : taskRun[t] \in NotStarted \cup {"RUNNING"}}
    BY <1>0, <2>1, ZenonT(30) DEF Goto, Calls, CallSteps, CancellationStatus
  <2>3. Local(c, local)
    BY <1>4 DEF ListTasks
  <2> HIDE DEF local
  <2>4. CallKnows(local)
    BY <2>2 DEF CallKnows
  <2> QED
    BY <2>2, <2>3, <2>4, LocalEffect
<1>5. CASE NextListed(c)
  <2>1. PICK t \in call[c].todo :
           LET next == IF call[c].listed[t] = "RUNNING"
                       THEN "read_task" ELSE "cancel_listed"
           IN Local(c, [Goto(c, next) EXCEPT
                          !.task = t, !.taskRun = call[c].listed[t],
                          !.todo = @ \ {t}])
    BY <1>5 DEF NextListed
  <2>2. /\ t \in Tasks
        /\ call[c].listed[t] \in NotStarted \cup {"RUNNING"}
        /\ call[c].listed[t] \in TaskRunStatus \cup {Absent}
    BY <1>0 DEF Calls, CallKnows
  <2>3. ASSUME NEW step \in {"read_task", "cancel_listed"},
               step = "read_task" \/ call[c].listed[t] \in NotStarted,
               Local(c, [Goto(c, step) EXCEPT
                           !.task = t, !.taskRun = call[c].listed[t], !.todo = @ \ {t}])
        PROVE  CallEffect(c)
    <3> DEFINE from == Goto(c, step)
               local == [from EXCEPT
                           !.task = t, !.taskRun = call[c].listed[t], !.todo = @ \ {t}]
    <3>1. /\ from \in Calls /\ from.at = step
          /\ from.todo = call[c].todo /\ from.listed = call[c].listed
      BY <1>0 DEF Goto, Calls, CallSteps
    <3>2. Local(c, local)
      BY <2>3
    <3> HIDE DEF from
    <3>3. /\ local \in Calls /\ local.at = step /\ local.listed = call[c].listed
          /\ local.todo \subseteq call[c].todo /\ local.taskRun = call[c].listed[t]
      BY <2>2, <3>1 DEF Calls
    <3> HIDE DEF local
    <3>4. CallKnows(local)
      BY <1>0, <2>3, <3>3 DEF CallKnows
    <3> QED
      BY <3>2, <3>3, <3>4, LocalEffect
  <2> QED
    BY <2>1, <2>2, <2>3
<1>6. CASE CancelListed(c)
  <2>1. CallTransitionsTask(c, "CANCELLED", TaskReply(c, "confirmed"))
    BY <1>6 DEF CancelListed
  <2>2. TaskReply(c, "confirmed") \in Calls /\ CallKnows(TaskReply(c, "confirmed"))
    BY ReplyKnows DEF CancellationStatus
  <2>3. call[c].taskRun \in NotStarted
    BY <1>0, <1>6 DEF CancelListed, CallKnows, At
  <2> QED
    BY <2>1, <2>2, <2>3, CallTransitionsTaskEffect
<1>7. CASE AllListed(c)
  BY <1>7, GotoKnows, LocalEffect DEF AllListed, CallSteps
<1>8. CASE RereadRun(c)
  <2> DEFINE reply == WholeReply(call[c].statuses)
             local == [Goto(c, "settle_run") EXCEPT
                            !.run = workflowRun, !.answer = reply]
  <2>1. reply \in CancellationStatus
    BY DEF WholeReply, CancellationStatus
  <2>2. workflowRun \in WorkflowRunStatus \cup {Absent}
    BY DEF TypeOK, StoreTypeOK
  <2>3. Local(c, local) \/ Local(c, Reply(c, reply))
    BY <1>8 DEF RereadRun
  <2>4. /\ local \in Calls /\ local.at = "settle_run"
        /\ local.todo = call[c].todo /\ local.listed = call[c].listed
    BY <1>0, <2>1, <2>2 DEF Goto, Calls, CallSteps
  <2> HIDE DEF local, reply
  <2>5. CallKnows(local)
    BY <1>0, <2>4 DEF CallKnows
  <2> QED
    BY <2>1, <2>3, <2>4, <2>5, ReplyKnows, LocalEffect
<1>9. CASE SettleRun(c)
  <2> DEFINE local == Reply(c, call[c].answer)
  <2>1. local \in Calls
    BY <1>0, ReplyType DEF Calls, GoodCall
  <2>2. CallKnows(local)
    BY DEF CallKnows, Reply, NoCall
  <2>3. \E g \in {"UNKNOWN_OUTCOME", "CANCELLED"} : CallTransitionsRun(c, g, local)
    BY <1>9 DEF SettleRun
  <2> HIDE DEF local
  <2> QED
    BY <2>1, <2>2, <2>3, CallTransitionsRunEffect
<1> QED
  BY <1>1, <1>2, <1>3, <1>4, <1>5, <1>6, <1>7, <1>8, <1>9

\* The steps of cancel_task up to the executor's answer.
LEMMA CancelTaskEffect ==
    ASSUME TypeOK, CallsAreReady, CallsKnow, RecordsAgree, NEW c \in Callers,
           \/ BeginCancelTask(c) \/ ReadTask(c) \/ CancelPending(c) \/ ReadAttempts(c)
           \/ RequestAttempt(c) \/ LookUpHandle(c) \/ AskExecutor(c)
           \/ ReadAttemptAfter(c)
    PROVE  CallEffect(c)
<1>0. call[c] \in Calls /\ IsReady(call[c]) /\ CallKnows(call[c])
  BY CallType DEF CallsKnow
<1>1. CASE BeginCancelTask(c)
  <2>1. PICK t \in Tasks :
           Local(c, [Goto(c, "read_task") EXCEPT !.whole = FALSE, !.task = t])
    BY <1>1 DEF BeginCancelTask
  <2> DEFINE local == [Goto(c, "read_task") EXCEPT !.whole = FALSE, !.task = t]
  <2>2. /\ local \in Calls /\ local.at = "read_task"
        /\ local.todo = call[c].todo /\ local.listed = call[c].listed
    BY <1>0 DEF Goto, Calls, CallSteps
  <2>3. Local(c, local)
    BY <2>1
  <2> HIDE DEF local
  <2>4. CallKnows(local)
    BY <1>0, <2>2 DEF CallKnows
  <2> QED
    BY <2>2, <2>3, <2>4, LocalEffect
<1>2. CASE ReadTask(c)
  <2> DEFINE status == taskRun[call[c].task]
  <2>1. CASE \E reply \in CancellationStatus : Local(c, TaskReply(c, reply))
    BY <2>1, ReplyKnows, LocalEffect
  <2>2. ASSUME NEW step \in {"cancel_pending", "read_attempts"},
               step = "read_attempts" \/ status \in NotStarted,
               Local(c, [Goto(c, step) EXCEPT !.taskRun = status])
        PROVE  CallEffect(c)
    <3> DEFINE local == [Goto(c, step) EXCEPT !.taskRun = status]
    <3>1. status \in TaskRunStatus \cup {Absent}
      BY <1>0 DEF Calls, TypeOK, StoreTypeOK
    <3>2. /\ local \in Calls /\ local.at = step /\ local.taskRun = status
          /\ local.todo = call[c].todo /\ local.listed = call[c].listed
      BY <1>0, <3>1 DEF Goto, Calls, CallSteps
    <3>3. Local(c, local)
      BY <2>2
    <3> HIDE DEF local
    <3>4. CallKnows(local)
      BY <1>0, <2>2, <3>2 DEF CallKnows
    <3> QED
      BY <3>2, <3>3, <3>4, LocalEffect
  <2> QED
    BY <1>2, <2>1, <2>2 DEF ReadTask, CancellationStatus
<1>3. CASE CancelPending(c)
  <2>1. CallTransitionsTask(c, "CANCELLED", TaskReply(c, "confirmed"))
    BY <1>3 DEF CancelPending
  <2>2. TaskReply(c, "confirmed") \in Calls /\ CallKnows(TaskReply(c, "confirmed"))
    BY ReplyKnows DEF CancellationStatus
  <2>3. call[c].taskRun \in NotStarted
    BY <1>0, <1>3 DEF CancelPending, CallKnows, At
  <2> QED
    BY <2>1, <2>2, <2>3, CallTransitionsTaskEffect
<1>4. CASE ReadAttempts(c)
  <2> DEFINE attempts == taskAttempts[call[c].task]
             latest == attempts[Len(attempts)]
             read == [call[c] EXCEPT !.num = Len(attempts), !.attempt = latest]
  <2>1. CASE \E reply \in CancellationStatus : Local(c, TaskReply(c, reply))
    BY <2>1, ReplyKnows, LocalEffect
  <2>2. ASSUME NEW step \in {"handle", "request_attempt"}, attempts # << >>,
               Local(c, [read EXCEPT !.at = step])
        PROVE  CallEffect(c)
    <3> DEFINE local == [read EXCEPT !.at = step]
    <3>1. Len(attempts) \in Nat /\ latest \in TaskAttemptStatus
      BY <1>0, <2>2, LastIsLast DEF Calls, TypeOK, LastAttempt
    <3>2. /\ local \in Calls /\ local.at = step
          /\ local.todo = call[c].todo /\ local.listed = call[c].listed
      BY <1>0, <3>1 DEF Calls, CallSteps
    <3>3. Local(c, local)
      BY <2>2
    <3> HIDE DEF local
    <3>4. CallKnows(local)
      BY <1>0, <3>2 DEF CallKnows
    <3> QED
      BY <3>2, <3>3, <3>4, LocalEffect
  <2>3. \/ \E reply \in {"unconfirmed", "already_terminal"} : Local(c, TaskReply(c, reply))
        \/ \E step \in {"handle", "request_attempt"} :
              attempts # << >> /\ Local(c, [read EXCEPT !.at = step])
    BY <1>4 DEF ReadAttempts
  <2> HIDE DEF read
  <2> QED
    BY <2>1, <2>2, <2>3 DEF CancellationStatus
<1>5. CASE RequestAttempt(c)
  <2>1. Goto(c, "handle") \in Calls /\ CallKnows(Goto(c, "handle"))
    BY GotoKnows DEF CallSteps
  <2> QED
    BY <1>5, <2>1, CallTransitionsAttemptEffect DEF RequestAttempt, TaskAttemptStatus
<1>6. CASE LookUpHandle(c)
  <2>1. CASE Local(c, Goto(c, "ask_executor"))
    BY <2>1, GotoKnows, LocalEffect DEF CallSteps
  <2>2. ASSUME NEW answer \in CancellationStatus \cup {Unanswered},
               Local(c, [Goto(c, "after_attempt") EXCEPT !.answer = answer])
        PROVE  CallEffect(c)
    <3> DEFINE local == [Goto(c, "after_attempt") EXCEPT !.answer = answer]
    <3>1. /\ local \in Calls /\ local.at = "after_attempt"
          /\ local.todo = call[c].todo /\ local.listed = call[c].listed
      BY <1>0 DEF Goto, Calls, CallSteps
    <3>2. Local(c, local)
      BY <2>2
    <3> HIDE DEF local
    <3>3. CallKnows(local)
      BY <1>0, <3>1 DEF CallKnows
    <3> QED
      BY <3>1, <3>2, <3>3, LocalEffect
  <2> QED
    BY <1>6, <2>1, <2>2 DEF LookUpHandle, CancellationStatus
<1>7. CASE AskExecutor(c)
  <2>1. call[c].task \in Tasks
    BY <1>0 DEF Calls
  <2>2. PICK reply \in CancelReplies[call[c].task] \cup LateReplies(call[c].task) :
           call' = [call EXCEPT ![c].at = "after_attempt", ![c].answer = reply]
    BY <1>7 DEF AskExecutor
  <2>3. reply \in CancellationStatus
    BY <2>1, CancelRepliesType DEF LateReplies, CancellationStatus
  <2> DEFINE local == [call[c] EXCEPT !.at = "after_attempt", !.answer = reply]
  <2>4. /\ local \in Calls /\ local.at = "after_attempt"
        /\ local.todo = call[c].todo /\ local.listed = call[c].listed
    BY <1>0, <2>3 DEF Calls, CallSteps
  <2>5. call' = [call EXCEPT ![c] = local]
    BY <2>2 DEF TypeOK, CancellationTypeOK
  <2> HIDE DEF local
  <2>6. CallKnows(local)
    BY <1>0, <2>4 DEF CallKnows
  <2>7. UNCHANGED store /\ UNCHANGED runThread
    BY <1>7 DEF AskExecutor
  <2> QED
    BY <2>4, <2>5, <2>6, <2>7, UpdateEffect DEF CallerUpdate, TypeOK
<1>8. CASE ReadAttemptAfter(c)
  <2> DEFINE attempt == taskAttempts[call[c].task][call[c].num]
  <2>1. PICK step \in {"lost_attempt", "settle_attempt", "after_task"} :
           Local(c, [Goto(c, step) EXCEPT !.attempt = attempt])
    <3>1. CASE call[c].answer = Unanswered
      BY <1>8, <3>1 DEF ReadAttemptAfter
    <3>2. CASE call[c].answer = "unsupported"
      BY <1>8, <3>2 DEF ReadAttemptAfter, Unanswered
    <3>3. CASE call[c].answer \notin {Unanswered, "unsupported"}
      BY <1>8, <3>3 DEF ReadAttemptAfter
    <3> QED
      BY <3>1, <3>2, <3>3
  <2> DEFINE local == [Goto(c, step) EXCEPT !.attempt = attempt]
  <2>2. attempt \in TaskAttemptStatus
    <3>1. /\ call[c].task \in Tasks
          /\ call[c].num \in 1 .. Len(taskAttempts[call[c].task])
      BY <1>0, <1>8 DEF ReadAttemptAfter, At, IsReady, OnTheAttempt, Calls
    <3>2. taskAttempts[call[c].task] \in Seq(TaskAttemptStatus)
      BY <3>1 DEF TypeOK, StoreTypeOK
    <3> QED
      BY <3>1, <3>2, ElementOfSeq
  <2>3. /\ local \in Calls /\ local.at = step
        /\ local.todo = call[c].todo /\ local.listed = call[c].listed
    BY <1>0, <2>2 DEF Goto, Calls, CallSteps
  <2>4. Local(c, local)
    BY <2>1
  <2> HIDE DEF local
  <2>5. CallKnows(local)
    BY <1>0, <2>3 DEF CallKnows
  <2> QED
    BY <2>3, <2>4, <2>5, LocalEffect
<1> QED
  BY <1>1, <1>2, <1>3, <1>4, <1>5, <1>6, <1>7, <1>8

\* The steps of cancel_task after the executor's answer.
LEMMA AnswerEffect ==
    ASSUME TypeOK, CallsAreReady, CallsKnow, RecordsAgree, NEW c \in Callers,
           \/ LoseAttempt(c) \/ LostReadTask(c) \/ LoseTask(c) \/ ReadTaskAfter(c)
           \/ ListReplyRefs(c) \/ AppendReplyRef(c) \/ SettleAttempt(c) \/ SettleTask(c)
    PROVE  CallEffect(c)
<1>0. call[c] \in Calls /\ IsReady(call[c]) /\ CallKnows(call[c])
  BY CallType DEF CallsKnow
<1>1. CASE LoseAttempt(c)
  <2>1. Goto(c, "lost_read_task") \in Calls /\ CallKnows(Goto(c, "lost_read_task"))
    BY GotoKnows DEF CallSteps
  <2> QED
    BY <1>1, <2>1, CallTransitionsAttemptEffect DEF LoseAttempt, TaskAttemptStatus
<1>2. CASE LostReadTask(c)
  <2> DEFINE local == [Goto(c, "lost_task") EXCEPT !.taskRun = taskRun[call[c].task]]
  <2>1. taskRun[call[c].task] \in TaskRunStatus \cup {Absent}
    BY <1>0 DEF Calls, TypeOK, StoreTypeOK
  <2>2. /\ local \in Calls /\ local.at = "lost_task"
        /\ local.todo = call[c].todo /\ local.listed = call[c].listed
    BY <1>0, <2>1 DEF Goto, Calls, CallSteps
  <2>3. Local(c, local)
    BY <1>2 DEF LostReadTask
  <2> HIDE DEF local
  <2>4. CallKnows(local)
    BY <1>0, <2>2 DEF CallKnows
  <2> QED
    BY <2>2, <2>3, <2>4, LocalEffect
<1>3. CASE LoseTask(c)
  <2>1. /\ TaskReply(c, "unconfirmed") \in Calls
        /\ CallKnows(TaskReply(c, "unconfirmed"))
    BY ReplyKnows DEF CancellationStatus
  <2> QED
    BY <1>3, <2>1, CallTransitionsTaskEffect DEF LoseTask
<1>4. CASE ReadTaskAfter(c)
  <2> DEFINE local == [Goto(c, "reply_refs") EXCEPT !.taskRun = taskRun[call[c].task]]
  <2>1. taskRun[call[c].task] \in TaskRunStatus \cup {Absent}
    BY <1>0 DEF Calls, TypeOK, StoreTypeOK
  <2>2. /\ local \in Calls /\ local.at = "reply_refs"
        /\ local.todo = call[c].todo /\ local.listed = call[c].listed
    BY <1>0, <2>1 DEF Goto, Calls, CallSteps
  <2>3. Local(c, local)
    BY <1>4 DEF ReadTaskAfter
  <2> HIDE DEF local
  <2>4. CallKnows(local)
    BY <1>0, <2>2 DEF CallKnows
  <2> QED
    BY <2>2, <2>3, <2>4, LocalEffect
<1>a. /\ AfterReplyRefs(c) \in Calls /\ CallKnows(AfterReplyRefs(c))
      /\ Goto(c, "append_ref") \in Calls /\ CallKnows(Goto(c, "append_ref"))
  BY GotoKnows, ReplyKnows DEF AfterReplyRefs, CallSteps, CancellationStatus
<1>b. CASE ListReplyRefs(c)
  BY <1>a, <1>b, LocalEffect DEF ListReplyRefs
<1>c. CASE AppendReplyRef(c)
  <2>1. CASE CallRaises(c)
    BY <2>1, RaiseEffect
  <2>2. CASE ~ CallRaises(c)
    <3>1. /\ AppendExternalRunRef(call[c].task, call[c].num) /\ UNCHANGED runThread
          /\ call' = [call EXCEPT ![c] = AfterReplyRefs(c)]
      BY <1>c, <2>2 DEF AppendReplyRef
    <3>2. CallerUpdate
      BY <1>0, <3>1 DEF CallerUpdate, Calls
    <3> QED
      BY <1>a, <3>1, <3>2, UpdateEffect DEF TypeOK
  <2> QED
    BY <2>1, <2>2
<1>5. CASE SettleAttempt(c)
  <2> DEFINE answer == call[c].answer
             g == SettledAs(answer)
  <2>1. answer \in CancellationStatus
    BY <1>0, <1>5 DEF SettleAttempt, At, IsReady, Answered, Calls
  <2>2. g \in TaskAttemptStatus /\ (answer = "confirmed" => g = "CANCELLED")
    BY DEF SettledAs, TaskAttemptStatus
  <2>3. CASE CallTransitionsAttempt(c, g, TaskReply(c, answer))
    BY <2>1, <2>2, <2>3, ReplyKnows, CallTransitionsAttemptEffect
  <2>4. CASE CallTransitionsAttempt(c, g, Goto(c, "settle_task"))
    <3>0. PICK local : local = Goto(c, "settle_task")
      OBVIOUS
    <3>1. /\ local \in Calls /\ local.task = call[c].task /\ local.num = call[c].num
          /\ local.answer = answer /\ local.at = "settle_task"
          /\ local.todo = call[c].todo /\ local.listed = call[c].listed
      BY <1>0, <3>0 DEF Goto, Calls, CallSteps
    <3>2. /\ call[c].task \in Tasks /\ call[c].num \in Nat
          /\ call[c].attempt \in TaskAttemptStatus
      BY <1>0 DEF Calls
    <3>3. ASSUME UpdateTaskAttempt(call[c].task, call[c].num, call[c].attempt, g)
          PROVE  CallKnows(local)'
      <4>0. call[c].num \in 1 .. Len(taskAttempts[call[c].task])
        BY <2>2, <3>2, <3>3, AttemptReplaced DEF TypeOK
      <4>1. /\ call[c].num \in 1 .. Len(taskAttempts[call[c].task])
            /\ taskAttempts'[call[c].task][call[c].num] = g
            /\ Len(taskAttempts'[call[c].task]) = Len(taskAttempts[call[c].task])
        BY <2>2, <3>2, <3>3, <4>0, AttemptReplaced DEF TypeOK
      <4> QED
        BY <1>0, <2>2, <3>1, <4>1 DEF CallKnows
    <3> HIDE DEF g
    <3> QED
      BY <2>2, <2>4, <3>0, <3>1, <3>3, CallTransitionsAttemptEffect
  <2> QED
    BY <1>5, <2>3, <2>4 DEF SettleAttempt
<1>6. CASE SettleTask(c)
  <2> DEFINE answer == call[c].answer
             t == call[c].task
             n == call[c].num
  <2>1. answer \in CancellationStatus
    BY <1>0, <1>6 DEF SettleTask, At, IsReady, Answered, Calls
  <2>2. TaskReply(c, answer) \in Calls /\ CallKnows(TaskReply(c, answer))
    BY <2>1, ReplyKnows
  <2>3. CASE answer = "confirmed"
    <3>1. t \in Tasks /\ n \in 1 .. Len(taskAttempts[t]) /\ taskAttempts[t][n] = "CANCELLED"
      BY <1>0, <1>6, <2>3 DEF SettleTask, At, CallKnows, Calls
    <3>2. ~ (n < Len(taskAttempts[t]))
      BY <3>1 DEF RecordsAgree, AttemptSequence
    <3>3. n = Len(taskAttempts[t]) /\ taskAttempts[t] # << >>
      BY <3>1, <3>2, AttemptNumberType, EmptySeq DEF TypeOK
    <3>4. AttemptEnded(t, "CANCELLED")
      BY <3>1, <3>3 DEF AttemptEnded, LastAttempt
    <3>5. CallTransitionsTask(c, "CANCELLED", TaskReply(c, answer))
      BY <1>6, <2>3 DEF SettleTask
    <3> QED
      BY <2>2, <3>4, <3>5, CallTransitionsTaskEffect
  <2>4. CASE answer # "confirmed"
    BY <1>6, <2>2, <2>4, CallTransitionsTaskEffect DEF SettleTask
  <2> QED
    BY <2>3, <2>4
<1> QED
  BY <1>1, <1>2, <1>3, <1>4, <1>b, <1>c, <1>5, <1>6

\* Every step of every call gives its verdicts for a reason.
LEMMA CallerEffects ==
    ASSUME TypeOK, CallsAreReady, CallsKnow, RecordsAgree, NEW c \in Callers,
           CallBegins(c) \/ CallStep(c)
    PROVE  CallEffect(c)
BY CancelLoopEffect, CancelTaskEffect, AnswerEffect DEF CallBegins, CallStep

-----------------------------------------------------------------------------
(* What the run thread knows survives whatever the other threads do.       *)

\* What a cancelling thread can do to a task run that the run thread created.
LEMMA OthersOnTask ==
    ASSUME StoreTypeOK, CallerUpdate, NEW t \in Tasks
    PROVE  /\ Settled(t) => taskRun'[t] = taskRun[t]
           /\ taskRun[t] = "PENDING" => taskRun'[t] \in {"PENDING", "CANCELLED"}
           /\ taskRun[t] \in {"RUNNING", "UNKNOWN_OUTCOME"} =>
                 /\ taskRun'[t] \in {"RUNNING", "UNKNOWN_OUTCOME", "CANCELLED"}
                 /\ taskRun'[t] = "CANCELLED" => taskAttempts'[t] # << >>
<1>1. StoreStep
  BY CallerUpdateIsDue, DueStepIsStoreStep DEF DueStep
<1>2. Settled(t) => taskRun'[t] = taskRun[t]
  BY <1>1, SettledStays DEF Settled
<1>3. CASE UNCHANGED taskRun
  BY <1>2, <1>3
<1>4. CASE \E u \in Tasks : \E e \in TaskRunStatus \cup {Absent} :
              UpdateTaskRun(u, e, "UNKNOWN_OUTCOME")
  <2>1. PICK u \in Tasks, e \in TaskRunStatus \cup {Absent} :
           UpdateTaskRun(u, e, "UNKNOWN_OUTCOME")
    BY <1>4
  <2>2. /\ "UNKNOWN_OUTCOME" \in TaskRunTransitions[e] /\ taskRun[u] = e
        /\ taskRun' = [taskRun EXCEPT ![u] = "UNKNOWN_OUTCOME"]
        /\ taskRun \in [Tasks -> TaskRunStatus \cup {Absent}]
    BY <2>1 DEF UpdateTaskRun, TaskUpdateAccepted, StoreTypeOK
  <2>3. e # "PENDING"
    BY <2>2 DEF TaskRunTransitions, TaskRunStatus
  <2> QED
    BY <1>2, <2>2, <2>3
<1>5. CASE \E u \in Tasks : \E e \in TaskRunStatus \cup {Absent} :
              /\ UpdateTaskRun(u, e, "CANCELLED")
              /\ \/ AttemptEnded(u, "CANCELLED")
                 \/ e \in NotStarted /\ taskAttempts[u] = << >>
  <2>1. PICK u \in Tasks, e \in TaskRunStatus \cup {Absent} :
           /\ UpdateTaskRun(u, e, "CANCELLED")
           /\ \/ AttemptEnded(u, "CANCELLED")
              \/ e \in NotStarted /\ taskAttempts[u] = << >>
    BY <1>5
  <2>2. /\ taskRun[u] = e /\ taskRun' = [taskRun EXCEPT ![u] = "CANCELLED"]
        /\ taskRun \in [Tasks -> TaskRunStatus \cup {Absent}]
        /\ taskAttempts' = taskAttempts
    BY <2>1 DEF UpdateTaskRun, TaskUpdateAccepted, StoreTypeOK
  <2>3. u = t /\ taskRun[t] \in {"RUNNING", "UNKNOWN_OUTCOME"} => taskAttempts'[t] # << >>
    BY <2>1, <2>2 DEF AttemptEnded, NotStarted
  <2> QED
    BY <1>2, <2>2, <2>3
<1> QED
  BY <1>3, <1>4, <1>5
  DEF CallerUpdate, SettlesRun, SettlesAttempt, UpdateWorkflowRun, UpdateTaskAttempt,
      AppendExternalRunRef, store

\* Nothing that the run thread relies on is taken away.
LEMMA RunThreadIsUndisturbed ==
    ASSUME TypeOK, RecordsAgree, RunThreadKnows, CallerUpdate, UNCHANGED runThread
    PROVE  RunThreadKnows'
<1>0. StoreTypeOK /\ task \in Tasks
  BY DEF TypeOK, RunLoopTypeOK
<1>u. UNCHANGED <<pc, task, reused, attemptView, listed, todo, result>>
  BY DEF runThread
<1>1. \A t \in Tasks : Settled(t) => Settled(t)' /\ taskRun'[t] = taskRun[t]
  BY <1>0, OthersOnTask DEF Settled
<1>2. \A t \in Tasks : Passed(t) => Passed(t)'
  BY <1>1 DEF Passed, Settled, TaskRunTerminal
<1>3. \A t \in Tasks : Unvisited(t) => Unvisited(t)'
  BY <1>0, <1>1, <1>u, OthersOnTask DEF Unvisited, Settled, TaskRunTerminal
<1>4. \A t \in Tasks : \A status \in TaskAttemptTerminal :
         AttemptEnded(t, status) => AttemptEnded(t, status)'
  BY <1>0, EndStays, CallerUpdateIsDue DEF RecordsAgree
<1>6. 1 .. task - 1 \subseteq Tasks /\ task + 1 .. TaskCount \subseteq Tasks
  BY <1>0, TaskCountIsPositive DEF Tasks
<1>7. TaskUnderWay'
  <2>1. taskRun[task] = "CANCELLED" /\ taskAttempts[task] # << >> =>
           taskAttempts'[task] # << >>
    BY <1>0, CallerUpdateIsDue, DueStepIsStoreStep, SettledStays DEF DueStep
  <2> QED
    BY <1>0, <1>1, <1>u, <2>1, OthersOnTask
    DEF RunThreadKnows, TaskUnderWay, Settled, TaskRunTerminal
<1>8. AttemptTellsTheTask'
  BY <1>0, <1>4, <1>u, TerminalForType
  DEF RunThreadKnows, AttemptTellsTheTask, TaskAttemptTerminal
<1>9. ListedNotStarted'
  BY <1>u DEF RunThreadKnows, ListedNotStarted
<1>10. PlanIsCreated'
  BY <1>0, <1>1, <1>3, <1>6, <1>u
  DEF RunThreadKnows, PlanIsCreated, Settled, TaskRunTerminal
<1>11. PlanIsVisited'
  BY <1>0, <1>2, <1>3, <1>6, <1>u DEF RunThreadKnows, PlanIsVisited
<1>12. FailureIsSpread'
  BY <1>0, <1>1, <1>3, <1>6, <1>u, TerminalForType
  DEF RunThreadKnows, FailureIsSpread, Settled, TaskRunTerminal
<1> QED
  BY <1>7, <1>8, <1>9, <1>10, <1>11, <1>12 DEF RunThreadKnows

-----------------------------------------------------------------------------
(* The run thread.                                                         *)

RunEffect == DueStep /\ RunThreadKnows'

\* A run thread that gives up, or that winds up a cancelled run, relies on
\* nothing any more.
LEMMA LeavingKnows ==
    pc' \in {"cancel_scan", "cancel_run", "unknown_run", "returned", "raised"} =>
        RunThreadKnows'
BY DEF RunThreadKnows, TaskUnderWay, AttemptTellsTheTask, ListedNotStarted,
       PlanIsCreated, PlanIsVisited, FailureIsSpread, Creating, Working, Visiting,
       Failing

\* What the run thread does not touch when it updates a record.
others == <<task, reused, listed, todo, result>>

\* An update of the task it works on.
LEMMA OnTaskEffect ==
    ASSUME TypeOK, NEW g \in TaskRunStatus, NEW step, NEW next, OnTask(step, g, next),
           TaskUpdateAccepted(task, taskView, g) => TaskVerdictIsDue(task, g)
    PROVE  /\ DueStep
           /\ \/ pc' = "raised"
              \/ /\ pc = step /\ pc' = next
                 /\ TaskUpdateAccepted(task, taskView, g)
                 /\ taskRun' = [taskRun EXCEPT ![task] = g]
                 /\ UNCHANGED <<others, attemptView, taskAttempts>>
<1>1. pc = step /\ TransitionTask(task, g, next) /\ UNCHANGED others
  BY DEF OnTask, cursor, scan, others
<1>2. CASE UNCHANGED store /\ pc' = "raised"
  BY <1>2 DEF DueStep, DueUpdate, Notes
<1>3. CASE UpdateTaskRun(task, taskView, g) /\ pc' = next /\ UNCHANGED attemptView
  <2>1. task \in Tasks /\ taskView \in TaskRunStatus \cup {Absent} /\ g # Absent
    BY DEF TypeOK, RunLoopTypeOK, TaskRunStatus, Absent
  <2>2. SettlesTask
    BY <1>3, <2>1 DEF SettlesTask, UpdateTaskRun
  <2> QED
    BY <1>1, <1>3, <2>2 DEF DueStep, DueUpdate, UpdateTaskRun
<1> QED
  BY <1>1, <1>2, <1>3 DEF TransitionTask, Raise

\* An update of its last attempt.
LEMMA OnAttemptEffect ==
    ASSUME TypeOK, RecordsAgree, NEW g \in TaskAttemptStatus, NEW next,
           TransitionAttempt(g, next), UNCHANGED others
    PROVE  /\ DueStep
           /\ \/ pc' = "raised"
              \/ pc' = next /\ AttemptEnded(task, g)' /\ UNCHANGED <<others, taskRun>>
<1>1. CASE UNCHANGED store /\ pc' = "raised"
  BY <1>1 DEF DueStep, DueUpdate, Notes
<1>2. CASE UpdateTaskAttempt(task, AttemptNumber, attemptView, g) /\ pc' = next
  <2>1. /\ task \in Tasks /\ attemptView \in TaskAttemptStatus /\ StoreTypeOK
        /\ task' = task
    BY DEF TypeOK, RunLoopTypeOK, others
  <2>2. AttemptNumber \in Nat
    BY <2>1, AttemptNumberType DEF AttemptNumber
  <2>3. SettlesAttempt
    BY <1>2, <2>1, <2>2 DEF SettlesAttempt
  <2>4. taskAttempts'[task] # << >> /\ LastAttempt(task)' = g
    BY <1>2, <2>1, <2>2, OnlyLastIsUpdated DEF RecordsAgree
  <2> QED
    BY <1>2, <2>1, <2>3, <2>4
    DEF DueStep, DueUpdate, UpdateTaskAttempt, AttemptEnded, LastAttempt
<1> QED
  BY <1>1, <1>2 DEF TransitionAttempt, Raise

\* An update of the run.
LEMMA OnWorkflowEffect ==
    ASSUME TypeOK, NEW g \in WorkflowRunStatus, NEW step, NEW next,
           OnWorkflow(step, g, next), RunVerdictIsDue(g)
    PROVE  /\ DueStep
           /\ \/ pc' = "raised"
              \/ pc = step /\ pc' = next /\ UNCHANGED <<others, taskRun, taskAttempts>>
<1>1. pc = step /\ TransitionWorkflow(g, next) /\ UNCHANGED others
  BY DEF OnWorkflow, cursor, scan, others
<1>2. CASE UNCHANGED store /\ pc' = "raised"
  BY <1>2 DEF DueStep, DueUpdate, Notes
<1>3. CASE UpdateWorkflowRun(runView, g) /\ pc' = next
  <2>1. runView \in WorkflowRunStatus \cup {Absent} /\ g # Absent
    BY DEF TypeOK, RunLoopTypeOK, WorkflowRunStatus, Absent
  <2>2. SettlesRun
    BY <1>3, <2>1 DEF SettlesRun
  <2> QED
    BY <1>1, <1>3, <2>2 DEF DueStep, DueUpdate, UpdateWorkflowRun
<1> QED
  BY <1>1, <1>2, <1>3 DEF TransitionWorkflow, Raise

\* A task that is skipped, reused or taken up was waiting, untried.
LEMMA WaitingIsUntried ==
    ASSUME RecordsAgree, NEW t \in Tasks, NEW e \in TaskRunStatus \cup {Absent},
           NEW g \in {"SKIPPED", "REUSED", "READY"}, TaskUpdateAccepted(t, e, g)
    PROVE  TaskVerdictIsDue(t, g)
<1>1. e \in NotStarted \cup {Absent}
  <2>1. CASE e \in TaskRunStatus
    BY <2>1 DEF TaskUpdateAccepted, TaskRunTransitions, TaskRunStatus, NotStarted
  <2> QED
    BY <2>1
<1>2. taskAttempts[t] = << >>
  BY <1>1 DEF TaskUpdateAccepted, RecordsAgree, QueuedTasksAreUntried
<1> QED
  BY <1>2 DEF TaskVerdictIsDue

\* A record that nobody updates tells what it told.
LEMMA OtherTasksStay ==
    ASSUME StoreTypeOK, NEW u \in Tasks, NEW g, taskRun' = [taskRun EXCEPT ![u] = g],
           reused' = reused
    PROVE  /\ taskRun'[u] = g
           /\ \A t \in Tasks : t # u =>
                 /\ taskRun'[t] = taskRun[t]
                 /\ Unvisited(t)' = Unvisited(t)
                 /\ Passed(t)' = Passed(t)
                 /\ Settled(t)' = Settled(t)
BY DEF StoreTypeOK, Unvisited, Passed, Settled

\* The plan entries are visited up to the one that is done with.
LEMMA NextEntryKnows ==
    ASSUME NEW u \in Tasks, task = u, NextEntry, UNCHANGED result,
           \A t \in 1 .. u : Passed(t)',
           \A t \in u + 1 .. TaskCount : Unvisited(t)'
    PROVE  RunThreadKnows'
<1> USE DEF RunThreadKnows, TaskUnderWay, AttemptTellsTheTask, ListedNotStarted,
            PlanIsCreated, PlanIsVisited, FailureIsSpread, Creating, Working,
            Visiting, Failing
<1>1. CASE pc' = "assert_terminal" /\ u = TaskCount
  BY <1>1 DEF Tasks
<1>2. CASE pc' = "next_task" /\ task' = u + 1 /\ u < TaskCount
  <2>1. /\ u + 1 \in u + 1 .. TaskCount /\ 1 .. (u + 1) - 1 = 1 .. u
        /\ (u + 1) + 1 .. TaskCount \subseteq u + 1 .. TaskCount
    BY <1>2, TaskCountIsPositive DEF Tasks
  <2> QED
    BY <1>2, <2>1
<1> QED
  BY <1>1, <1>2 DEF NextEntry

\* The records are created up to the one that is done with.
LEMMA NextToCreateKnows ==
    ASSUME NEW u \in Tasks, task = u, NextToCreate(u), \A t \in 1 .. u : Unvisited(t)'
    PROVE  RunThreadKnows'
<1> USE DEF RunThreadKnows, TaskUnderWay, AttemptTellsTheTask, ListedNotStarted,
            PlanIsCreated, PlanIsVisited, FailureIsSpread, Creating, Working,
            Visiting, Failing
<1>1. CASE pc' = "start" /\ task' = 1 /\ u = TaskCount
  <2>1. /\ 1 \in 1 .. u /\ 1 .. 1 - 1 = {} /\ 1 + 1 .. TaskCount \subseteq 1 .. u
    BY <1>1, TaskCountIsPositive DEF Tasks
  <2> QED
    BY <1>1, <2>1
<1>2. CASE pc' = "create_task" /\ task' = u + 1
  <2>1. 1 .. (u + 1) - 1 = 1 .. u
    BY DEF Tasks
  <2> QED
    BY <1>2, <2>1
<1> QED
  BY <1>1, <1>2 DEF NextToCreate

\* The steps that create the records of the run.
LEMMA CreatingEffect ==
    ASSUME TypeOK, RecordsAgree, RunThreadKnows,
           CreateRun \/ CreateTask \/ ReuseTask \/ ReuseCheckpoint \/ StartRun
    PROVE  RunEffect
<1> USE DEF RunEffect
<1>0. StoreTypeOK /\ task \in Tasks
  BY DEF TypeOK, RunLoopTypeOK
<1>k. TaskUnderWay /\ AttemptTellsTheTask /\ PlanIsCreated /\ PlanIsVisited
  BY DEF RunThreadKnows
<1>b. 1 .. task - 1 \subseteq Tasks /\ task \notin 1 .. task - 1
      /\ \A t \in 1 .. task : t = task \/ t \in 1 .. task - 1
  BY <1>0, TaskCountIsPositive DEF Tasks
<1>1. CASE CreateRun
  <2>1. DueStep
    BY <1>1 DEF CreateRun, DueStep, DueUpdate, Notes
  <2>2. pc' = "create_task" /\ task' = 1
    BY <1>1, <1>k DEF CreateRun, PlanIsCreated, cursor
  <2> QED
    BY <2>1, <2>2
    DEF RunThreadKnows, TaskUnderWay, AttemptTellsTheTask, ListedNotStarted,
        PlanIsCreated, PlanIsVisited, FailureIsSpread, Creating, Working, Visiting,
        Failing
<1>2. CASE CreateTask
  <2>1. DueStep
    BY <1>0, <1>2 DEF CreateTask, DueStep, DueUpdate, Notes
  <2>2. /\ taskRun' = [taskRun EXCEPT ![task] = "PENDING"] /\ reused' = reused
        /\ \A t \in 1 .. task - 1 : Unvisited(t)
    BY <1>2, <1>k DEF CreateTask, CreateTaskRun, PlanIsCreated, Creating
  <2>3. /\ taskRun'[task] = "PENDING"
        /\ \A t \in 1 .. task - 1 : Unvisited(t)'
    BY <1>0, <1>b, <2>2, OtherTasksStay
  <2>4. CASE task \in reused /\ pc' = "reuse" /\ task' = task
    BY <2>1, <2>2, <2>3, <2>4
    DEF RunThreadKnows, TaskUnderWay, AttemptTellsTheTask, ListedNotStarted,
        PlanIsCreated, PlanIsVisited, FailureIsSpread, Creating, Working, Visiting,
        Failing
  <2>5. CASE task \notin reused /\ NextToCreate(task)
    <3>1. \A t \in 1 .. task : Unvisited(t)'
      BY <1>b, <2>2, <2>3, <2>5 DEF Unvisited
    <3> QED
      BY <1>0, <2>1, <2>5, <3>1, NextToCreateKnows
  <2> QED
    BY <1>2, <2>4, <2>5 DEF CreateTask
<1>3. CASE ReuseTask
  <2>1. TaskUpdateAccepted(task, taskView, "REUSED") => TaskVerdictIsDue(task, "REUSED")
    BY <1>0, WaitingIsUntried DEF TypeOK, RunLoopTypeOK
  <2>2. OnTask("reuse", "REUSED", "reuse_checkpoint") /\ "REUSED" \in TaskRunStatus
    BY <1>3 DEF ReuseTask, TaskRunStatus
  <2>3. /\ DueStep
        /\ \/ pc' = "raised"
           \/ /\ pc = "reuse" /\ pc' = "reuse_checkpoint"
              /\ taskRun' = [taskRun EXCEPT ![task] = "REUSED"]
              /\ UNCHANGED <<others, attemptView, taskAttempts>>
    BY <2>1, <2>2, OnTaskEffect
  <2>4. CASE pc' = "raised"
    BY <2>3, <2>4, LeavingKnows
  <2>5. CASE pc' = "reuse_checkpoint"
    <3>1. /\ taskRun'[task] = "REUSED" /\ task \in reused
          /\ \A t \in 1 .. task - 1 : Unvisited(t)'
      BY <1>0, <1>b, <1>k, <2>3, <2>5, OtherTasksStay DEF others, PlanIsCreated, Creating
    <3> QED
      BY <2>3, <2>5, <3>1
      DEF RunThreadKnows, TaskUnderWay, AttemptTellsTheTask, ListedNotStarted,
          PlanIsCreated, PlanIsVisited, FailureIsSpread, Creating, Working, Visiting,
          Failing, others
  <2> QED
    BY <2>3, <2>4, <2>5
<1>4. CASE ReuseCheckpoint
  <2>1. DueStep
    BY <1>0, <1>4 DEF ReuseCheckpoint, DueStep, DueUpdate, Notes
  <2>2. /\ taskRun' = taskRun /\ reused' = reused
        /\ taskRun[task] = "REUSED"
        /\ \A t \in 1 .. task - 1 : Unvisited(t)
    BY <1>4, <1>k
    DEF ReuseCheckpoint, SetTaskOutputCheckpoint, PlanIsCreated, Creating
  <2>3. \A t \in 1 .. task : Unvisited(t)'
    BY <1>b, <2>2 DEF Unvisited
  <2> QED
    BY <1>0, <1>4, <2>1, <2>3, NextToCreateKnows DEF ReuseCheckpoint
<1>5. CASE StartRun
  <2>1. RunVerdictIsDue("RUNNING")
    BY DEF RunVerdictIsDue
  <2>2. OnWorkflow("start", "RUNNING", "next_task") /\ "RUNNING" \in WorkflowRunStatus
    BY <1>5 DEF StartRun, WorkflowRunStatus
  <2>3. /\ DueStep
        /\ \/ pc' = "raised"
           \/ /\ pc = "start" /\ pc' = "next_task"
              /\ UNCHANGED <<others, taskRun, taskAttempts>>
    BY <2>1, <2>2, OnWorkflowEffect
  <2>4. CASE pc' = "raised"
    BY <2>3, <2>4, LeavingKnows
  <2>5. CASE pc' = "next_task"
    <3>1. /\ task = 1 /\ task' = task /\ Unvisited(task)'
          /\ \A t \in task + 1 .. TaskCount : Unvisited(t)'
      BY <1>k, <2>3, <2>5 DEF PlanIsCreated, PlanIsVisited, others, Unvisited
    <3> QED
      BY <2>3, <2>5, <3>1
      DEF RunThreadKnows, TaskUnderWay, AttemptTellsTheTask, ListedNotStarted,
          PlanIsCreated, PlanIsVisited, FailureIsSpread, Creating, Working, Visiting,
          Failing
  <2> QED
    BY <2>3, <2>4, <2>5
<1> QED
  BY <1>1, <1>2, <1>3, <1>4, <1>5

\* The steps that look at a plan entry.
LEMMA VisitingEffect ==
    ASSUME TypeOK, RecordsAgree, RunThreadKnows,
           SkipReusedTask \/ EvaluateReadiness \/ SkipTask \/ ReadyTask \/ RunTask
    PROVE  RunEffect
<1> USE DEF RunEffect
<1>0. StoreTypeOK /\ task \in Tasks
  BY DEF TypeOK, RunLoopTypeOK
<1>k. PlanIsVisited
  BY DEF RunThreadKnows
<1>b. /\ 1 .. task - 1 \subseteq Tasks \ {task}
      /\ task + 1 .. TaskCount \subseteq Tasks \ {task}
      /\ \A t \in 1 .. task : t = task \/ t \in 1 .. task - 1
  BY <1>0, TaskCountIsPositive DEF Tasks
<1>v. pc \in {"next_task", "skip", "ready", "run"} =>
         /\ \A t \in 1 .. task - 1 : Passed(t)
         /\ \A t \in task + 1 .. TaskCount : Unvisited(t)
  BY <1>k DEF PlanIsVisited, Visiting
<1>1. CASE SkipReusedTask
  <2>1. UNCHANGED <<store, reused, result>> /\ NextEntry /\ pc = "next_task"
    BY <1>1 DEF SkipReusedTask
  <2>2. Passed(task)
    BY <1>1, <1>k, <2>1 DEF SkipReusedTask, PlanIsVisited, Unvisited, Passed
  <2>3. \A t \in 1 .. task : Passed(t)'
    BY <1>b, <1>v, <2>1, <2>2 DEF Passed, store
  <2>4. \A t \in task + 1 .. TaskCount : Unvisited(t)'
    BY <1>v, <2>1 DEF Unvisited, store
  <2> QED
    BY <1>0, <2>1, <2>3, <2>4, NextEntryKnows DEF DueStep, DueUpdate, Notes
<1>2. CASE EvaluateReadiness
  <2>1. UNCHANGED <<store, task, reused>> /\ pc = "next_task"
    BY <1>2 DEF EvaluateReadiness, cursor
  <2>2. pc' \in {"raised", "ready", "skip"}
    BY <1>2 DEF EvaluateReadiness, AfterReadiness
  <2>3. CASE pc' = "raised"
    BY <2>1, <2>3, LeavingKnows DEF DueStep, DueUpdate, Notes
  <2>4. CASE pc' \in {"ready", "skip"}
    <3>1. /\ \A t \in 1 .. task - 1 : Passed(t)'
          /\ \A t \in task + 1 .. TaskCount : Unvisited(t)'
      BY <1>v, <2>1 DEF Passed, Unvisited, store
    <3> QED
      BY <2>1, <2>4, <3>1
      DEF RunThreadKnows, TaskUnderWay, AttemptTellsTheTask, ListedNotStarted,
          PlanIsCreated, PlanIsVisited, FailureIsSpread, Creating, Working, Visiting,
          Failing, DueStep, DueUpdate, Notes
  <2> QED
    BY <2>2, <2>3, <2>4
<1>3. CASE SkipTask
  <2>1. CASE UNCHANGED store /\ pc' = "raised"
    BY <2>1, LeavingKnows DEF DueStep, DueUpdate, Notes
  <2>2. CASE UpdateTaskRun(task, taskView, "SKIPPED") /\ NextEntry
    <3>1. /\ taskView \in TaskRunStatus \cup {Absent}
          /\ "SKIPPED" \in TaskRunStatus /\ "SKIPPED" # Absent
      BY DEF TypeOK, RunLoopTypeOK, TaskRunStatus, Absent
    <3>2. DueStep
      BY <1>0, <2>2, <3>1, WaitingIsUntried
      DEF DueStep, DueUpdate, SettlesTask, UpdateTaskRun
    <3>3. /\ taskRun' = [taskRun EXCEPT ![task] = "SKIPPED"] /\ pc = "skip"
          /\ UNCHANGED <<reused, result>>
      BY <1>3, <2>2 DEF SkipTask, UpdateTaskRun
    <3>4. /\ taskRun'[task] = "SKIPPED"
          /\ \A t \in 1 .. task - 1 : Passed(t)'
          /\ \A t \in task + 1 .. TaskCount : Unvisited(t)'
      BY <1>0, <1>b, <1>v, <3>3, OtherTasksStay
    <3>5. \A t \in 1 .. task : Passed(t)'
      BY <1>b, <3>4 DEF Passed
    <3> QED
      BY <1>0, <2>2, <3>2, <3>3, <3>4, <3>5, NextEntryKnows
  <2> QED
    BY <1>3, <2>1, <2>2 DEF SkipTask, Raise
<1>4. CASE ReadyTask
  <2>1. TaskUpdateAccepted(task, taskView, "READY") => TaskVerdictIsDue(task, "READY")
    BY <1>0, WaitingIsUntried DEF TypeOK, RunLoopTypeOK
  <2>2. OnTask("ready", "READY", "run") /\ "READY" \in TaskRunStatus
    BY <1>4 DEF ReadyTask, TaskRunStatus
  <2>3. /\ DueStep
        /\ \/ pc' = "raised"
           \/ /\ pc = "ready" /\ pc' = "run"
              /\ taskRun' = [taskRun EXCEPT ![task] = "READY"]
              /\ UNCHANGED <<others, attemptView, taskAttempts>>
    BY <2>1, <2>2, OnTaskEffect
  <2>4. CASE pc' = "raised"
    BY <2>3, <2>4, LeavingKnows
  <2>5. CASE pc' = "run"
    <3>1. /\ \A t \in 1 .. task - 1 : Passed(t)'
          /\ \A t \in task + 1 .. TaskCount : Unvisited(t)'
      BY <1>0, <1>b, <1>v, <2>3, <2>5, OtherTasksStay DEF others
    <3> QED
      BY <2>3, <2>5, <3>1
      DEF RunThreadKnows, TaskUnderWay, AttemptTellsTheTask, ListedNotStarted,
          PlanIsCreated, PlanIsVisited, FailureIsSpread, Creating, Working, Visiting,
          Failing, others
  <2> QED
    BY <2>3, <2>4, <2>5
<1>5. CASE RunTask
  <2>1. TaskVerdictIsDue(task, "RUNNING")
    BY DEF TaskVerdictIsDue, NotStarted
  <2>2. OnTask("run", "RUNNING", "append") /\ "RUNNING" \in TaskRunStatus
    BY <1>5 DEF RunTask, TaskRunStatus
  <2>3. /\ DueStep
        /\ \/ pc' = "raised"
           \/ /\ pc = "run" /\ pc' = "append"
              /\ taskRun' = [taskRun EXCEPT ![task] = "RUNNING"]
              /\ UNCHANGED <<others, attemptView, taskAttempts>>
    BY <2>1, <2>2, OnTaskEffect
  <2>4. CASE pc' = "raised"
    BY <2>3, <2>4, LeavingKnows
  <2>5. CASE pc' = "append"
    <3>1. /\ taskRun'[task] = "RUNNING" /\ task' = task
          /\ \A t \in 1 .. task - 1 : Passed(t)'
          /\ \A t \in task + 1 .. TaskCount : Unvisited(t)'
      BY <1>0, <1>b, <1>v, <2>3, <2>5, OtherTasksStay DEF others
    <3> QED
      BY <2>3, <2>5, <3>1
      DEF RunThreadKnows, TaskUnderWay, AttemptTellsTheTask, ListedNotStarted,
          PlanIsCreated, PlanIsVisited, FailureIsSpread, Creating, Working, Visiting,
          Failing, others
  <2> QED
    BY <2>3, <2>4, <2>5
<1> QED
  BY <1>1, <1>2, <1>3, <1>4, <1>5

\* While it works on an attempt, the run thread keeps to one entry.
LEMMA WorkingKnows ==
    ASSUME TypeOK, RunThreadKnows, pc \in Working, pc' \in Working,
           UNCHANGED <<task, reused, taskRun>>,
           taskAttempts[task] # << >> => taskAttempts'[task] # << >>,
           AttemptTellsTheTask'
    PROVE  RunThreadKnows'
<1>1. TaskUnderWay'
  BY DEF RunThreadKnows, TaskUnderWay
<1>2. PlanIsVisited'
  BY DEF RunThreadKnows, PlanIsVisited, Visiting, Working, Passed, Unvisited
<1>3. ListedNotStarted' /\ PlanIsCreated' /\ FailureIsSpread'
  BY DEF ListedNotStarted, PlanIsCreated, FailureIsSpread, Working, Creating, Failing
<1> QED
  BY <1>1, <1>2, <1>3 DEF RunThreadKnows

\* An attempt begins only where a failure, or nothing, came before, and its
\* task was not settled meanwhile.
LEMMA AppendEffect ==
    ASSUME IInv, RecordsAgree, RunThreadKnows, AppendAttempt
    PROVE  RunEffect
<1> USE DEF RunEffect
<1>0. TypeOK /\ StoreTypeOK /\ task \in Tasks /\ task' = task /\ pc = "append"
  BY DEF IInv, TypeOK, RunLoopTypeOK, AppendAttempt, cursor
<1>1. CASE UNCHANGED store /\ pc' = "raised"
  BY <1>1, LeavingKnows DEF DueStep, DueUpdate, Notes
<1>2. CASE NextAttemptAllowed(task) /\ AppendTaskAttempt(task) /\ pc' = "starting"
  <2>1. FreshAttemptAllowed(task)
    BY <1>2 DEF NextAttemptAllowed, FreshAttemptAllowed
  <2>2. Dispatchable(task)
    BY <1>0 DEF IInv, DispatchingIsDispatchable, Dispatching
  <2>3. taskRun[task] \in {"RUNNING", "UNKNOWN_OUTCOME"}
    BY <1>0, <2>1
    DEF RunThreadKnows, TaskUnderWay, Working, FreshAttemptAllowed, RecordsAgree,
        TaskMatchesLastAttempt
  <2>4. DueStep
    BY <1>0, <1>2, <2>1, <2>2, <2>3 DEF DueStep, Tries
  <2>5. taskAttempts'[task] # << >> /\ taskRun' = taskRun /\ reused' = reused
    BY <1>0, <1>2, TriedIsLast DEF AppendTaskAttempt, AppendAttempt, cursor
  <2>6. AttemptTellsTheTask'
    BY <1>2 DEF AttemptTellsTheTask
  <2> QED
    BY <1>0, <1>2, <2>4, <2>5, <2>6, WorkingKnows DEF Working
<1> QED
  BY <1>1, <1>2 DEF AppendAttempt, Raise

\* The steps that update the attempt.
LEMMA AttemptEffect ==
    ASSUME TypeOK, RecordsAgree, RunThreadKnows,
           StartAttempt \/ RunAttempt \/ SucceedAttempt \/ EvaluateFailure
    PROVE  RunEffect
<1> USE DEF RunEffect
<1>1. ASSUME NEW g \in TaskAttemptStatus, NEW next \in Working,
             TransitionAttempt(g, next), UNCHANGED others, pc \in Working,
             next \notin {"cancel_task", "reload_task", "reload_run", "persist_refs", "append_ref"},
             next = "succeed_task" => g = "SUCCEEDED",
             next = "fail_task" => g = TerminalFor(result.failure)
      PROVE  DueStep /\ RunThreadKnows'
  <2>1. /\ DueStep
        /\ \/ pc' = "raised"
           \/ pc' = next /\ AttemptEnded(task, g)' /\ UNCHANGED <<others, taskRun>>
    BY <1>1, OnAttemptEffect
  <2>2. CASE pc' = "raised"
    BY <2>1, <2>2, LeavingKnows
  <2>3. CASE pc' = next /\ AttemptEnded(task, g)' /\ UNCHANGED <<others, taskRun>>
    <3>1. UNCHANGED <<task, reused, result>> /\ taskAttempts'[task] # << >>
      BY <2>3 DEF others, AttemptEnded
    <3>2. AttemptTellsTheTask'
      BY <1>1, <2>3, <3>1 DEF AttemptTellsTheTask, AttemptEnded, LastAttempt
    <3> QED
      BY <1>1, <2>1, <2>3, <3>1, <3>2, WorkingKnows
  <2> QED
    BY <2>1, <2>2, <2>3
<1>2. CASE StartAttempt
  BY <1>1, <1>2
  DEF StartAttempt, OnAttempt, Working, TaskAttemptStatus, others, cursor, scan
<1>3. CASE RunAttempt
  BY <1>1, <1>3
  DEF RunAttempt, OnAttempt, Working, TaskAttemptStatus, others, cursor, scan
<1>4. CASE SucceedAttempt
  BY <1>1, <1>4
  DEF SucceedAttempt, OnAttempt, Working, TaskAttemptStatus, others, cursor, scan
<1>5. CASE EvaluateFailure
  <2>1. pc = "evaluate" /\ UNCHANGED others
    BY <1>5 DEF EvaluateFailure, others, cursor, scan
  <2>2. CASE Raise
    BY <2>2, LeavingKnows DEF Raise, DueStep, DueUpdate, Notes
  <2>3. ASSUME NEW decision,
               TransitionAttempt(AttemptStatusFor(decision, result.failure),
                                 AfterDecision(decision))
        PROVE  DueStep /\ RunThreadKnows'
    <3>1. /\ AttemptStatusFor(decision, result.failure) \in TaskAttemptStatus
          /\ AfterDecision(decision) \in {"unknown_task", "append", "fail_task"}
      BY AttemptStatusForType, AfterDecisionType
    <3>2. AfterDecision(decision) = "fail_task" =>
             AttemptStatusFor(decision, result.failure) = TerminalFor(result.failure)
      BY DEF AfterDecision, AttemptStatusFor
    <3> QED
      BY <1>1, <2>1, <2>3, <3>1, <3>2 DEF Working
  <2> QED
    BY <1>5, <2>2, <2>3 DEF EvaluateFailure
<1> QED
  BY <1>2, <1>3, <1>4, <1>5

\* The steps around an execution, up to the reloaded records.
LEMMA ExecutionEffect ==
    ASSUME TypeOK, InFlightHasAttempt, RunThreadKnows,
           \/ RememberActiveRequest \/ BeginExecute \/ EndExecute
           \/ ForgetActiveRequest \/ ReloadAttempt \/ ReloadTask \/ ReloadRun
           \/ PersistExternalRunRefs \/ AppendExternalRef
    PROVE  RunEffect
<1> USE DEF RunEffect
<1>0. StoreTypeOK /\ task \in Tasks
  BY DEF TypeOK, RunLoopTypeOK
<1>1. CASE RememberActiveRequest \/ BeginExecute \/ EndExecute \/ ForgetActiveRequest
  <2>1. /\ pc \in Working /\ UNCHANGED <<store, task, reused>>
        /\ pc' \in {"execute", "executing", "forget", "reload_attempt"}
    BY <1>1
    DEF RememberActiveRequest, BeginExecute, EndExecute, ForgetActiveRequest, Working,
        cursor
  <2>2. UNCHANGED taskRun /\ UNCHANGED taskAttempts /\ AttemptTellsTheTask'
    BY <2>1 DEF store, AttemptTellsTheTask
  <2> QED
    BY <2>1, <2>2, WorkingKnows DEF Working, DueStep, DueUpdate, Notes
<1>2. CASE ReloadAttempt
  <2>1. /\ pc = "reload_attempt" /\ UNCHANGED <<store, task, reused>>
        /\ pc' = "reload_task" /\ attemptView' = LastAttempt(task)
    BY <1>2 DEF ReloadAttempt, cursor
  <2>2. taskAttempts[task] # << >>
    BY <2>1 DEF InFlightHasAttempt, InFlight
  <2>3. UNCHANGED taskRun /\ UNCHANGED taskAttempts /\ AttemptTellsTheTask'
    BY <2>1, <2>2 DEF store, AttemptTellsTheTask, AttemptEnded, LastAttempt
  <2> QED
    BY <2>1, <2>3, WorkingKnows DEF Working, DueStep, DueUpdate, Notes
<1>3. CASE ReloadTask \/ ReloadRun
  <2>1. /\ pc \in {"reload_task", "reload_run"}
        /\ UNCHANGED <<store, task, reused, attemptView>>
        /\ pc' \in {"reload_run", "persist_refs"}
    BY <1>3 DEF ReloadTask, ReloadRun, cursor
  <2>2. attemptView = "CANCELLED" => AttemptEnded(task, "CANCELLED")
    BY <2>1 DEF RunThreadKnows, AttemptTellsTheTask
  <2>3. UNCHANGED taskRun /\ UNCHANGED taskAttempts /\ AttemptTellsTheTask'
    BY <2>1, <2>2 DEF store, AttemptTellsTheTask, AttemptEnded, LastAttempt
  <2> QED
    BY <2>1, <2>3, WorkingKnows DEF Working, DueStep, DueUpdate, Notes
<1>4. ASSUME pc \in {"persist_refs", "append_ref"}, pc' = AfterReload,
             UNCHANGED <<task, reused, attemptView, result>>,
             UNCHANGED store \/ AppendExternalRunRef(task, AttemptNumber)
      PROVE  DueStep /\ RunThreadKnows'
  <2>2. DueStep
    BY <1>0, <1>4, AttemptNumberType DEF DueStep, DueUpdate, Notes, AttemptNumber
  <2>3. UNCHANGED <<taskRun, taskAttempts>>
    BY <1>4 DEF store, AppendExternalRunRef
  <2>4. CASE pc' = "cancel_scan"
    BY <2>2, <2>4, LeavingKnows
  <2>5. CASE pc' \in {"succeed_attempt", "evaluate"}
    BY <1>4, <2>2, <2>3, <2>5, WorkingKnows DEF AttemptTellsTheTask, Working
  <2>6. CASE pc' = "cancel_task"
    <3>1. attemptView = "CANCELLED"
      BY <1>4, <2>6 DEF AfterReload
    <3>2. AttemptEnded(task, "CANCELLED")
      BY <1>4, <3>1 DEF RunThreadKnows, AttemptTellsTheTask
    <3>3. AttemptTellsTheTask'
      BY <1>4, <2>3, <2>6, <3>2 DEF AttemptTellsTheTask, AttemptEnded, LastAttempt
    <3> QED
      BY <1>4, <2>2, <2>3, <2>6, <3>3, WorkingKnows DEF Working
  <2> QED
    BY <1>4, <2>4, <2>5, <2>6, AfterReloadType
<1>5. CASE PersistExternalRunRefs
  <2>1. /\ pc = "persist_refs" /\ UNCHANGED <<task, reused, attemptView, result>>
        /\ UNCHANGED store /\ pc' \in {"append_ref", AfterReload}
    BY <1>5 DEF PersistExternalRunRefs, cursor, views
  <2>2. CASE pc' = AfterReload
    BY <1>4, <2>1, <2>2
  <2>3. CASE pc' = "append_ref"
    <3>1. attemptView = "CANCELLED" => AttemptEnded(task, "CANCELLED")
      BY <2>1 DEF RunThreadKnows, AttemptTellsTheTask
    <3>2. UNCHANGED taskRun /\ UNCHANGED taskAttempts /\ AttemptTellsTheTask'
      BY <2>1, <2>3, <3>1 DEF store, AttemptTellsTheTask, AttemptEnded, LastAttempt
    <3> QED
      BY <2>1, <2>3, <3>2, WorkingKnows DEF Working, DueStep, DueUpdate, Notes
  <2> QED
    BY <2>1, <2>2, <2>3
<1>6. CASE AppendExternalRef
  <2>1. CASE Raise
    BY <2>1, LeavingKnows DEF Raise, DueStep, DueUpdate, Notes
  <2>2. CASE ~ Raise
    BY <1>4, <1>6, <2>2 DEF AppendExternalRef, cursor, views
  <2> QED
    BY <2>1, <2>2
<1> QED
  BY <1>1, <1>2, <1>3, <1>5, <1>6

\* The steps that wind up a cancelled run, or one whose outcome is unknown.
LEMMA WindingUpEffect ==
    ASSUME TypeOK, RecordsAgree, RunThreadKnows,
           \/ CancelTaskRun \/ ListNotStarted \/ CancelNotStarted
           \/ NotStartedCancelled \/ CancelRun \/ UnknownTask \/ UnknownRun
    PROVE  RunEffect
<1> USE DEF RunEffect
<1>1. CASE CancelTaskRun
  <2>1. /\ OnTask("cancel_task", "CANCELLED", "cancel_scan")
        /\ "CANCELLED" \in TaskRunStatus /\ pc = "cancel_task"
    BY <1>1 DEF CancelTaskRun, OnTask, TaskRunStatus
  <2>2. TaskVerdictIsDue(task, "CANCELLED")
    BY <2>1 DEF RunThreadKnows, AttemptTellsTheTask, TaskVerdictIsDue, NotStarted
  <2>3. DueStep /\ pc' \in {"raised", "cancel_scan"}
    BY <2>1, <2>2, OnTaskEffect
  <2> QED
    BY <2>3, LeavingKnows
<1>2. CASE ListNotStarted
  <2>1. ListedNotStarted'
    BY <1>2 DEF ListNotStarted, ListedNotStarted
  <2> QED
    BY <1>2, <2>1
    DEF ListNotStarted, RunThreadKnows, TaskUnderWay, AttemptTellsTheTask,
        PlanIsCreated, PlanIsVisited, FailureIsSpread, Creating, Working, Visiting,
        Failing, DueStep, DueUpdate, Notes
<1>3. CASE CancelNotStarted
  <2>1. PICK t \in todo :
           \/ UpdateTaskRun(t, listed[t], "CANCELLED") /\ UNCHANGED <<pc, views, listed>>
              /\ todo' = todo \ {t}
           \/ Raise
    BY <1>3 DEF CancelNotStarted
  <2>2. CASE Raise
    BY <2>2, LeavingKnows DEF Raise, DueStep, DueUpdate, Notes
  <2>3. CASE /\ UpdateTaskRun(t, listed[t], "CANCELLED")
             /\ UNCHANGED <<pc, listed>> /\ todo' = todo \ {t}
    <3>1. /\ t \in Tasks /\ pc = "cancel_each"
          /\ listed[t] \in NotStarted /\ listed[t] \in TaskRunStatus \cup {Absent}
      BY <1>3
      DEF CancelNotStarted, TypeOK, RunLoopTypeOK, RunThreadKnows, ListedNotStarted
    <3>2. taskAttempts[t] = << >>
      BY <2>3, <3>1
      DEF UpdateTaskRun, TaskUpdateAccepted, RecordsAgree, QueuedTasksAreUntried
    <3>3. TaskVerdictIsDue(t, "CANCELLED")
      BY <3>2 DEF TaskVerdictIsDue, NotStarted
    <3>4. DueStep
      BY <2>3, <3>1, <3>3
      DEF DueStep, DueUpdate, SettlesTask, TaskRunStatus, Absent
    <3>5. pc' = "cancel_each" /\ ListedNotStarted'
      BY <2>3, <3>1 DEF RunThreadKnows, ListedNotStarted
    <3> QED
      BY <3>4, <3>5
      DEF RunThreadKnows, TaskUnderWay, AttemptTellsTheTask,
          PlanIsCreated, PlanIsVisited, FailureIsSpread, Creating, Working, Visiting,
          Failing
  <2> QED
    BY <2>1, <2>2, <2>3
<1>4. CASE NotStartedCancelled
  <2>1. pc' \in {"cancel_run", "returned"} /\ UNCHANGED store
    BY <1>4 DEF NotStartedCancelled
  <2> QED
    BY <2>1, LeavingKnows DEF DueStep, DueUpdate, Notes
<1>5. ASSUME NEW g \in {"CANCELLED", "UNKNOWN_OUTCOME"}, NEW step,
             OnWorkflow(step, g, "returned")
      PROVE  DueStep /\ RunThreadKnows'
  <2>1. RunVerdictIsDue(g) /\ g \in WorkflowRunStatus
    BY DEF RunVerdictIsDue, WorkflowRunStatus
  <2>2. DueStep /\ pc' \in {"raised", "returned"}
    BY <1>5, <2>1, OnWorkflowEffect
  <2> QED
    BY <2>2, LeavingKnows
<1>6. CASE CancelRun \/ UnknownRun
  BY <1>5, <1>6 DEF CancelRun, UnknownRun
<1>7. CASE UnknownTask
  <2>1. /\ OnTask("unknown_task", "UNKNOWN_OUTCOME", "unknown_run")
        /\ "UNKNOWN_OUTCOME" \in TaskRunStatus
    BY <1>7 DEF UnknownTask, TaskRunStatus
  <2>2. TaskVerdictIsDue(task, "UNKNOWN_OUTCOME")
    BY DEF TaskVerdictIsDue, NotStarted
  <2>3. DueStep /\ pc' \in {"raised", "unknown_run"}
    BY <2>1, <2>2, OnTaskEffect
  <2> QED
    BY <2>3, LeavingKnows
<1> QED
  BY <1>1, <1>2, <1>3, <1>4, <1>6, <1>7

\* The steps that settle a task that succeeded, and the run after them.
LEMMA SuccessEffect ==
    ASSUME TypeOK, RecordsAgree, RunThreadKnows,
           \/ SucceedTask \/ PersistOutputCheckpoint \/ RecheckRun
           \/ AssertTerminalTaskRuns \/ SucceedRun
    PROVE  RunEffect
<1> USE DEF RunEffect
<1>0. StoreTypeOK /\ task \in Tasks
  BY DEF TypeOK, RunLoopTypeOK
<1>k. AttemptTellsTheTask /\ PlanIsVisited
  BY DEF RunThreadKnows
<1>b. /\ 1 .. task - 1 \subseteq Tasks \ {task}
      /\ task + 1 .. TaskCount \subseteq Tasks \ {task}
      /\ \A t \in 1 .. task : t = task \/ t \in 1 .. task - 1
  BY <1>0, TaskCountIsPositive DEF Tasks
<1>v. pc \in {"succeed_task", "checkpoint", "recheck_run"} =>
         /\ \A t \in 1 .. task - 1 : Passed(t)
         /\ \A t \in task + 1 .. TaskCount : Unvisited(t)
  BY <1>k DEF PlanIsVisited, Visiting, Working
<1>1. CASE SucceedTask
  <2>1. /\ OnTask("succeed_task", "SUCCEEDED", "checkpoint")
        /\ "SUCCEEDED" \in TaskRunStatus /\ pc = "succeed_task"
    BY <1>1 DEF SucceedTask, OnTask, TaskRunStatus
  <2>2. TaskVerdictIsDue(task, "SUCCEEDED")
    BY <1>k, <2>1 DEF AttemptTellsTheTask, TaskVerdictIsDue, NotStarted
  <2>3. /\ DueStep
        /\ \/ pc' = "raised"
           \/ /\ pc' = "checkpoint"
              /\ taskRun' = [taskRun EXCEPT ![task] = "SUCCEEDED"]
              /\ UNCHANGED <<others, attemptView, taskAttempts>>
    BY <2>1, <2>2, OnTaskEffect
  <2>4. CASE pc' = "raised"
    BY <2>3, <2>4, LeavingKnows
  <2>5. CASE pc' = "checkpoint"
    <3>1. /\ taskRun'[task] = "SUCCEEDED" /\ task' = task
          /\ \A t \in 1 .. task - 1 : Passed(t)'
          /\ \A t \in task + 1 .. TaskCount : Unvisited(t)'
      BY <1>0, <1>b, <1>v, <2>1, <2>3, <2>5, OtherTasksStay DEF others
    <3> QED
      BY <2>3, <2>5, <3>1
      DEF RunThreadKnows, TaskUnderWay, AttemptTellsTheTask, ListedNotStarted,
          PlanIsCreated, PlanIsVisited, FailureIsSpread, Creating, Working, Visiting,
          Failing, Passed
  <2> QED
    BY <2>3, <2>4, <2>5
<1>2. CASE PersistOutputCheckpoint
  <2>1. /\ pc = "checkpoint" /\ pc' = "recheck_run"
        /\ UNCHANGED store \/ SetTaskOutputCheckpoint(task)
        /\ UNCHANGED <<task, reused>>
    BY <1>2 DEF PersistOutputCheckpoint, cursor
  <2>2. DueStep /\ UNCHANGED taskRun
    BY <1>0, <2>1 DEF DueStep, DueUpdate, Notes, SetTaskOutputCheckpoint, store
  <2>3. PlanIsVisited'
    BY <1>k, <2>1, <2>2 DEF PlanIsVisited, Visiting, Passed, Unvisited
  <2> QED
    BY <2>1, <2>2, <2>3
    DEF RunThreadKnows, TaskUnderWay, AttemptTellsTheTask, ListedNotStarted,
        PlanIsCreated, FailureIsSpread, Creating, Working, Failing
<1>3. CASE RecheckRun
  <2>1. UNCHANGED <<store, reused, result>> /\ pc = "recheck_run"
    BY <1>3 DEF RecheckRun
  <2>2. DueStep
    BY <2>1 DEF DueStep, DueUpdate, Notes
  <2>3. CASE pc' = "cancel_scan"
    BY <2>2, <2>3, LeavingKnows
  <2>4. CASE NextEntry
    <3>1. Passed(task)
      BY <1>k, <2>1 DEF PlanIsVisited
    <3>2. \A t \in 1 .. task : Passed(t)'
      BY <1>b, <1>v, <2>1, <3>1 DEF Passed, store
    <3>3. \A t \in task + 1 .. TaskCount : Unvisited(t)'
      BY <1>v, <2>1 DEF Unvisited, store
    <3> QED
      BY <1>0, <2>1, <2>2, <2>4, <3>2, <3>3, NextEntryKnows
  <2> QED
    BY <1>3, <2>3, <2>4 DEF RecheckRun
<1>4. CASE AssertTerminalTaskRuns
  <2>1. /\ pc = "assert_terminal" /\ pc' \in {"succeed_run", "raised"}
        /\ UNCHANGED <<store, task, reused>>
    BY <1>4 DEF AssertTerminalTaskRuns, cursor
  <2>2. CASE pc' = "raised"
    BY <2>1, <2>2, LeavingKnows DEF DueStep, DueUpdate, Notes
  <2>3. CASE pc' = "succeed_run"
    <3>1. PlanIsVisited'
      BY <1>k, <2>1, <2>3 DEF PlanIsVisited, Visiting, Working, Passed, store
    <3> QED
      BY <2>1, <2>3, <3>1
      DEF RunThreadKnows, TaskUnderWay, AttemptTellsTheTask, ListedNotStarted,
          PlanIsCreated, FailureIsSpread, Creating, Working, Failing,
          DueStep, DueUpdate, Notes
  <2> QED
    BY <2>1, <2>2, <2>3
<1>5. CASE SucceedRun
  <2>1. /\ OnWorkflow("succeed_run", "SUCCEEDED", "returned")
        /\ "SUCCEEDED" \in WorkflowRunStatus /\ pc = "succeed_run"
    BY <1>5 DEF SucceedRun, OnWorkflow, WorkflowRunStatus
  <2>2. RunVerdictIsDue("SUCCEEDED")
    BY <1>k, <2>1 DEF PlanIsVisited, RunVerdictIsDue
  <2>3. DueStep /\ pc' \in {"raised", "returned"}
    BY <2>1, <2>2, OnWorkflowEffect
  <2> QED
    BY <2>3, LeavingKnows
<1> QED
  BY <1>1, <1>2, <1>3, <1>4, <1>5

\* The steps that settle a task that failed, the entries after it, and the run.
LEMMA FailureEffect ==
    ASSUME TypeOK, RecordsAgree, RunThreadKnows,
           FailTask \/ FailFast \/ FailFastSkip \/ FailRun
    PROVE  RunEffect
<1> USE DEF RunEffect
<1>0. StoreTypeOK /\ task \in Tasks
  BY DEF TypeOK, RunLoopTypeOK
<1>k. AttemptTellsTheTask /\ PlanIsVisited /\ FailureIsSpread
  BY DEF RunThreadKnows
<1>b. /\ 1 .. task - 1 \subseteq Tasks \ {task}
      /\ task + 1 .. TaskCount \subseteq Tasks \ {task}
      /\ \A t \in 1 .. task : t = task \/ t \in 1 .. task - 1
  BY <1>0, TaskCountIsPositive DEF Tasks
<1> DEFINE bad == TerminalFor(result.failure)
<1>t. bad \in {"TIMED_OUT", "CANCELLED", "FAILED"}
  BY TerminalForType
<1>1. CASE FailTask
  <2>1. /\ OnTask("fail_task", bad, "fail_fast") /\ pc = "fail_task"
        /\ bad \in TaskRunStatus
    BY <1>1, <1>t DEF FailTask, OnTask, TaskRunStatus
  <2>2. TaskVerdictIsDue(task, bad)
    BY <1>k, <1>t, <2>1 DEF AttemptTellsTheTask, TaskVerdictIsDue, NotStarted
  <2>3. /\ DueStep
        /\ \/ pc' = "raised"
           \/ /\ pc' = "fail_fast"
              /\ taskRun' = [taskRun EXCEPT ![task] = bad]
              /\ UNCHANGED <<others, attemptView, taskAttempts>>
    BY <2>1, <2>2, OnTaskEffect
  <2>4. CASE pc' = "raised"
    BY <2>3, <2>4, LeavingKnows
  <2>5. CASE pc' = "fail_fast"
    <3>1. /\ \A t \in 1 .. task - 1 : Passed(t)
          /\ \A t \in task + 1 .. TaskCount : Unvisited(t)
      BY <1>k, <2>1 DEF PlanIsVisited, Visiting, Working
    <3>2. /\ taskRun'[task] = bad /\ task' = task /\ result' = result
          /\ \A t \in 1 .. task - 1 : Passed(t)'
          /\ \A t \in task + 1 .. TaskCount : Unvisited(t)'
      BY <1>0, <1>b, <2>3, <2>5, <3>1, OtherTasksStay DEF others
    <3>3. (\A t \in 1 .. task - 1 : Settled(t)') /\ Settled(task)'
      BY <1>t, <3>2 DEF Passed, Settled, TaskRunTerminal
    <3> QED
      BY <1>0, <2>3, <2>5, <3>2, <3>3
      DEF RunThreadKnows, TaskUnderWay, AttemptTellsTheTask, ListedNotStarted,
          PlanIsCreated, PlanIsVisited, FailureIsSpread, Creating, Working, Visiting,
          Failing
  <2> QED
    BY <2>3, <2>4, <2>5
<1>2. CASE FailFast
  <2>1. /\ pc = "fail_fast" /\ UNCHANGED <<store, reused, result>>
        /\ \/ task = TaskCount /\ pc' = "fail_run" /\ task' = task
           \/ /\ task < TaskCount /\ task' = task + 1
              /\ \/ taskRun[task + 1] \in {"PENDING", "READY"} /\ pc' = "fail_fast_skip"
                 \/ taskRun[task + 1] \notin {"PENDING", "READY"} /\ pc' = "fail_fast"
    BY <1>2 DEF FailFast, FailFastSkips
  <2>2. DueStep /\ taskRun' = taskRun
    BY <2>1 DEF DueStep, DueUpdate, Notes, store
  <2>3. /\ \E t \in Tasks : taskRun[t] = bad
        /\ \A t \in 1 .. task : Settled(t)
        /\ \A t \in task + 1 .. TaskCount : Unvisited(t)
    BY <1>b, <1>k, <2>1 DEF FailureIsSpread, Failing
  <2>4. CASE task = TaskCount /\ pc' = "fail_run" /\ task' = task
    <3>1. FailureIsSpread'
      BY <1>0, <2>1, <2>2, <2>3, <2>4 DEF FailureIsSpread, Settled, Tasks
    <3> QED
      BY <2>2, <2>4, <3>1
      DEF RunThreadKnows, TaskUnderWay, AttemptTellsTheTask, ListedNotStarted,
          PlanIsCreated, PlanIsVisited, Creating, Working, Visiting
  <2>5. CASE task < TaskCount /\ task' = task + 1
    <3>1. /\ pc' \in {"fail_fast", "fail_fast_skip"}
          /\ pc' = "fail_fast" => taskRun[task + 1] \notin {"PENDING", "READY"}
      BY <2>1, <2>5
    <3>2. /\ task + 1 \in task + 1 .. TaskCount /\ 1 .. (task + 1) - 1 = 1 .. task
          /\ (task + 1) + 1 .. TaskCount \subseteq task + 1 .. TaskCount
      BY <1>0, <2>5, TaskCountIsPositive DEF Tasks
    <3>3. pc' = "fail_fast" => taskRun[task + 1] \in TaskRunTerminal
      BY <2>3, <3>1, <3>2 DEF Unvisited, TaskRunTerminal
    <3>4. FailureIsSpread'
      BY <2>1, <2>2, <2>3, <2>5, <3>1, <3>2, <3>3
      DEF FailureIsSpread, Settled, Unvisited
    <3> QED
      BY <2>2, <3>1, <3>4
      DEF RunThreadKnows, TaskUnderWay, AttemptTellsTheTask, ListedNotStarted,
          PlanIsCreated, PlanIsVisited, Creating, Working, Visiting
  <2> QED
    BY <2>1, <2>4, <2>5
<1>3. CASE FailFastSkip
  <2>1. /\ OnTask("fail_fast_skip", "SKIPPED", "fail_fast") /\ pc = "fail_fast_skip"
        /\ "SKIPPED" \in TaskRunStatus
    BY <1>3 DEF FailFastSkip, OnTask, TaskRunStatus
  <2>2. TaskUpdateAccepted(task, taskView, "SKIPPED") => TaskVerdictIsDue(task, "SKIPPED")
    BY <1>0, WaitingIsUntried DEF TypeOK, RunLoopTypeOK
  <2>3. /\ DueStep
        /\ \/ pc' = "raised"
           \/ /\ pc' = "fail_fast" /\ TaskUpdateAccepted(task, taskView, "SKIPPED")
              /\ taskRun' = [taskRun EXCEPT ![task] = "SKIPPED"]
              /\ UNCHANGED <<others, attemptView, taskAttempts>>
    BY <2>1, <2>2, OnTaskEffect
  <2>4. CASE pc' = "raised"
    BY <2>3, <2>4, LeavingKnows
  <2>5. CASE /\ pc' = "fail_fast" /\ TaskUpdateAccepted(task, taskView, "SKIPPED")
             /\ taskRun' = [taskRun EXCEPT ![task] = "SKIPPED"]
             /\ UNCHANGED others
    <3>1. PICK f \in Tasks : taskRun[f] = bad
      BY <1>k, <2>1 DEF FailureIsSpread, Failing
    <3>2. /\ \A t \in 1 .. task - 1 : Settled(t)
          /\ \A t \in task + 1 .. TaskCount : Unvisited(t)
      BY <1>k, <2>1 DEF FailureIsSpread, Failing
    <3>3. taskRun'[f] = bad
      <4>1. StoreStep
        BY <2>3, DueStepIsStoreStep
      <4> QED
        BY <1>0, <1>t, <3>1, <4>1, SettledStays DEF TaskRunTerminal
    <3>4. /\ taskRun'[task] = "SKIPPED" /\ task' = task /\ result' = result
          /\ \A t \in 1 .. task - 1 : Settled(t)'
          /\ \A t \in task + 1 .. TaskCount : Unvisited(t)'
      BY <1>0, <1>b, <2>5, <3>2, OtherTasksStay DEF others
    <3>5. FailureIsSpread'
      BY <2>5, <3>3, <3>4 DEF FailureIsSpread, Settled, TaskRunTerminal
    <3> QED
      BY <2>3, <2>5, <3>5
      DEF RunThreadKnows, TaskUnderWay, AttemptTellsTheTask, ListedNotStarted,
          PlanIsCreated, PlanIsVisited, Creating, Working, Visiting
  <2> QED
    BY <2>3, <2>4, <2>5
<1>4. CASE FailRun
  <2>1. /\ OnWorkflow("fail_run", bad, "returned") /\ pc = "fail_run"
        /\ bad \in WorkflowRunStatus
    BY <1>4, <1>t DEF FailRun, OnWorkflow, WorkflowRunStatus
  <2>2. /\ \E t \in Tasks : taskRun[t] = bad
        /\ \A t \in Tasks : Settled(t)
    BY <1>0, <1>b, <1>k, <2>1 DEF FailureIsSpread, Failing, Tasks
  <2>3. RunVerdictIsDue(bad)
    BY <1>t, <2>2 DEF RunVerdictIsDue
  <2> HIDE DEF bad
  <2>4. DueStep /\ pc' \in {"raised", "returned"}
    BY <2>1, <2>3, OnWorkflowEffect
  <2> QED
    BY <2>4, LeavingKnows
<1> QED
  BY <1>1, <1>2, <1>3, <1>4

-----------------------------------------------------------------------------

\* Every step of the run thread has its reason, and leaves it with what its
\* next step needs.
LEMMA RunThreadEffects ==
    ASSUME IInv, RecordsAgree, RunThreadKnows, RunThread
    PROVE  RunEffect
<1>1. TypeOK /\ InFlightHasAttempt
  BY DEF IInv
<1> QED
  BY <1>1, CreatingEffect, VisitingEffect, AppendEffect, AttemptEffect,
     ExecutionEffect, WindingUpEffect, SuccessEffect, FailureEffect DEF RunThread

\* Every step of every thread has its reason.
LEMMA VerdictStep ==
    ASSUME IInv, VInv, [Next]_vars
    PROVE  DueStep /\ RunThreadKnows'
<1>0. TypeOK /\ CallsAreReady /\ RecordsAgree /\ CallsKnow /\ RunThreadKnows
  BY DEF IInv, VInv
<1>1. CASE RunStep
  BY <1>0, <1>1, RunThreadEffects DEF RunStep, RunEffect
<1>2. CASE \E c \in Callers : CallBegins(c) \/ CallStep(c)
  <2>1. CallerUpdate /\ UNCHANGED runThread
    BY <1>0, <1>2, CallerEffects DEF CallEffect
  <2> QED
    BY <1>0, <2>1, CallerUpdateIsDue, RunThreadIsUndisturbed DEF DueStep
<1>3. CASE UNCHANGED vars
  <2>1. UNCHANGED store /\ UNCHANGED runThread
    BY <1>3 DEF vars, runLoopVars, runThread
  <2> QED
    BY <1>0, <2>1, CallerUpdateIsDue, RunThreadIsUndisturbed DEF CallerUpdate, DueStep
<1> QED
  BY <1>1, <1>2, <1>3 DEF Next, Stopped

\* The program starts with nothing to know.
LEMMA VerdictInit == Init => VInv
<1> SUFFICES ASSUME Init PROVE VInv
  OBVIOUS
<1> USE DEF Init, InitStore, InitRunLoop, InitCancellation
<1>1. RecordsAgree
  BY EmptySeq
  DEF RecordsAgree, AttemptSequence, QueuedTasksAreUntried, TaskMatchesLastAttempt,
      Absent
<1>2. RunThreadKnows
  BY DEF RunThreadKnows, TaskUnderWay, AttemptTellsTheTask, ListedNotStarted,
         PlanIsCreated, PlanIsVisited, FailureIsSpread, Creating, Working, Visiting,
         Failing
<1>3. CallKnows(NoCall)
  BY DEF CallKnows, NoCall
<1>4. CallsKnow
  BY <1>3 DEF CallsKnow, CallKnows
<1> QED
  BY <1>1, <1>2, <1>4 DEF VInv

\* Every step of every thread keeps VInv.
LEMMA VerdictInductive == IInv /\ VInv /\ [Next]_vars => VInv'
<1> SUFFICES ASSUME IInv, VInv, [Next]_vars PROVE VInv'
  OBVIOUS
<1>0. /\ TypeOK /\ StoreTypeOK /\ CallsAreReady
      /\ RecordsAgree /\ CallsKnow /\ RunThreadKnows
      /\ call \in [Callers -> Calls]
  BY DEF IInv, VInv, TypeOK, CancellationTypeOK
<1>1. DueStep /\ RunThreadKnows'
  BY VerdictStep
<1>2. RecordsAgree'
  BY <1>0, <1>1, RecordsAgreeInductive
<1>3. CallsKnow'
  <2> SUFFICES ASSUME NEW c \in Callers PROVE CallKnows(call[c])'
    BY DEF CallsKnow
  <2>1. CASE call'[c] = call[c]
    <3>1. PICK local \in Calls : local = call[c] /\ CallKnows(local)
      BY <1>0 DEF CallsKnow
    <3>2. CallKnows(local)'
      BY <1>0, <1>1, <3>1, DueStepIsStoreStep, CallKnowledgeStays
    <3> QED
      BY <2>1, <3>1, <3>2 DEF CallKnows
  <2>2. CASE CallBegins(c) \/ CallStep(c)
    <3>1. PICK local \in Calls : CallKnows(local)' /\ call' = [call EXCEPT ![c] = local]
      BY <1>0, <2>2, CallerEffects DEF CallEffect
    <3>2. call'[c] = local
      BY <1>0, <3>1
    <3> QED
      BY <3>1, <3>2 DEF CallKnows
  <2>3. ASSUME NEW d \in Callers, d # c, CallBegins(d) \/ CallStep(d)
        PROVE  call'[c] = call[c]
    <3>1. PICK local \in Calls : call' = [call EXCEPT ![d] = local]
      BY <1>0, <2>3, CallerEffects DEF CallEffect
    <3> QED
      BY <1>0, <2>3, <3>1
  <2> QED
    BY <2>1, <2>2, <2>3 DEF Next, RunStep, Stopped, vars
<1> QED
  BY <1>1, <1>2, <1>3 DEF VInv

-----------------------------------------------------------------------------

\* Whoever is about to give a verdict still has its reason, for every plan,
\* policy, executor and set of cancelling threads (runtime/workflow.py).
THEOREM VerdictInvariant == Spec => []VInv
<1>1. Spec => []IInv
  BY Invariant
<1> QED
  BY <1>1, VerdictInit, VerdictInductive, PTL DEF Spec

\* The status of a settled task run is that of its last attempt, although two
\* racing threads write them by separate updates.
THEOREM TaskFollowsItsAttempt == Spec => []TaskMatchesLastAttempt
<1>1. VInv => TaskMatchesLastAttempt
  BY DEF VInv, RecordsAgree
<1> QED
  BY <1>1, VerdictInvariant, PTL

\* No verdict on a task or on the run is given twice, too early or against the
\* records: every step of every thread is a step of the ledger or none.
THEOREM RuntimeImplementsLedger == Spec => ImplementsLedger
<1>1. Init => Ledger!Init
  BY DEF Init, InitStore, Ledger!Init, Ledger!Open, Ledger!Nothing, Verdict, LastEnd,
         Absent, WorkflowTerminal, TaskRunTerminal
<1>2. IInv /\ VInv /\ [Next]_vars => [Ledger!Next]_(Ledger!ledger)
  BY VerdictStep, DueStepIsLedgerStep DEF IInv, VInv, TypeOK
<1> QED
  BY <1>1, <1>2, Invariant, VerdictInvariant, PTL DEF Spec, Ledger!Spec, ImplementsLedger

-----------------------------------------------------------------------------

\* Once the run has its verdict, its tasks go on justifying it.
LEMMA SettledRunInductive ==
    ASSUME IInv, VInv, SettledRunHasSettledTasks, [Next]_vars
    PROVE  SettledRunHasSettledTasks'
<1>1. DueStep /\ StoreTypeOK
  BY VerdictStep DEF IInv, TypeOK
<1>2. \A t \in Tasks : Settled(t) => taskRun'[t] = taskRun[t]
  BY <1>1, DueStepIsStoreStep, SettledStays DEF Settled
<1>3. CASE SettlesRun
  <2>1. PICK e, g \in WorkflowRunStatus \cup {Absent} :
           UpdateWorkflowRun(e, g) /\ RunVerdictIsDue(g)
    BY <1>3 DEF SettlesRun
  <2>2. workflowRun' = g /\ taskRun' = taskRun
    BY <2>1 DEF UpdateWorkflowRun
  <2> QED
    BY <2>1, <2>2
    DEF RunVerdictIsDue, SettledRunHasSettledTasks, Passed, Settled, TaskRunTerminal
<1>4. CASE CreateWorkflowRun
  BY <1>4 DEF CreateWorkflowRun, SettledRunHasSettledTasks
<1>5. CASE UNCHANGED workflowRun
  <2>1. workflowRun \in {"SUCCEEDED", "FAILED", "TIMED_OUT"} =>
           \A t \in Tasks : taskRun'[t] = taskRun[t]
    BY <1>2 DEF SettledRunHasSettledTasks, Settled
  <2> QED
    BY <1>5, <2>1 DEF SettledRunHasSettledTasks
<1> QED
  BY <1>1, <1>3, <1>4, <1>5
  DEF DueStep, DueUpdate, Notes, SettlesTask, SettlesAttempt, Tries, CreateTaskRun,
      AppendExternalRunRef, SetTaskOutputCheckpoint, UpdateTaskRun,
      UpdateTaskAttempt, AppendTaskAttempt, store

\* A run that ended otherwise than by cancellation leaves no task open, and its
\* tasks justify its status, whoever cancels tasks of it meanwhile
\* (_assert_terminal_task_runs, _apply_fail_fast).
THEOREM SettledRunIsJustified == Spec => []SettledRunHasSettledTasks
<1>1. Init => SettledRunHasSettledTasks
  BY DEF Init, InitStore, SettledRunHasSettledTasks, Absent
<1> QED
  BY <1>1, SettledRunInductive, Invariant, VerdictInvariant, PTL DEF Spec

-----------------------------------------------------------------------------
(* The number of attempts.                                                 *)

\* The steps before an attempt: the task was waiting, or the policy allows more.
AttemptIsAllowed ==
    /\ pc = "run" => taskView = "READY"
    /\ pc = "append" => Len(taskAttempts[task]) < Policy.max_attempts

\* A task is taken up as it was made ready, and only that, or a failure to
\* retry, leads to an attempt.
LEMMA AppendIsDecided ==
    ASSUME RunThread
    PROVE  /\ pc' = "run" => taskView' = "READY"
           /\ pc' = "append" =>
                 \/ pc = "run" /\ TransitionTask(task, "RUNNING", "append")
                 \/ EvaluateFailure
BY AfterReloadType
DEF RunThread, CreateRun, CreateTask, ReuseTask, ReuseCheckpoint, StartRun,
    SkipReusedTask, EvaluateReadiness, SkipTask, ReadyTask, RunTask, AppendAttempt,
    StartAttempt, RunAttempt, RememberActiveRequest, BeginExecute, EndExecute,
    ForgetActiveRequest, ReloadAttempt, ReloadTask, ReloadRun,
    PersistExternalRunRefs, AppendExternalRef, ExternalRunRefAccepted, CancelTaskRun,
    ListNotStarted, CancelNotStarted,
    NotStartedCancelled, CancelRun, SucceedAttempt, SucceedTask,
    PersistOutputCheckpoint, RecheckRun, EvaluateFailure, UnknownTask, UnknownRun,
    FailTask, FailFast, FailFastSkip, FailRun, AssertTerminalTaskRuns, SucceedRun,
    OnTask, OnAttempt, OnWorkflow, TransitionTask, TransitionAttempt,
    TransitionWorkflow, Raise, NextEntry, NextToCreate, AfterReadiness, AfterDecision,
    views

\* The run thread goes for another attempt only while the policy allows one.
LEMMA AppendIsWithinPolicy ==
    ASSUME IInv, RecordsAgree, AttemptIsAllowed, RunThread, pc' = "append"
    PROVE  task' = task /\ Len(taskAttempts'[task]) < Policy.max_attempts
<1>0. /\ TypeOK /\ InFlightHasAttempt /\ StoreTypeOK /\ task \in Tasks
      /\ Policy.max_attempts \in Nat \ {0} /\ AttemptNumber \in Nat
  BY PolicyType, AttemptNumberType
  DEF IInv, TypeOK, RunLoopTypeOK, RetryPolicies, AttemptNumber
<1>1. \/ pc = "run" /\ TransitionTask(task, "RUNNING", "append")
      \/ EvaluateFailure
  BY AppendIsDecided
<1>2. RunThreadMoves /\ ~ AppendStep
  BY <1>0, <1>1, RunThreadSteps DEF AppendStep, EvaluateFailure
<1>3. task' = task
  BY <1>2 DEF RunThreadMoves, ControlMoves, Dispatching
<1>4. Len(taskAttempts'[task]) = AttemptNumber
  BY <1>0, <1>2, UpdateAppendsNothing DEF RunThreadMoves, AttemptNumber
<1>5. CASE pc = "run" /\ TransitionTask(task, "RUNNING", "append")
  <2>1. TaskUpdateAccepted(task, taskView, "RUNNING") /\ taskView = "READY"
    BY <1>5 DEF TransitionTask, Raise, UpdateTaskRun, AttemptIsAllowed
  <2>2. taskAttempts[task] = << >>
    BY <1>0, <2>1
    DEF TaskUpdateAccepted, RecordsAgree, QueuedTasksAreUntried, NotStarted
  <2>3. AttemptNumber = 0
    BY <1>0, <2>2, EmptySeq DEF AttemptNumber
  <2> QED
    BY <1>0, <1>3, <1>4, <2>3
<1>6. CASE EvaluateFailure
  <2>0. PICK elapsed \in ElapsedChoices :
           \E evaluation \in Evaluations(Policy, result.failure, AttemptNumber, elapsed) :
              \/ Raise
              \/ TransitionAttempt(AttemptStatusFor(evaluation.decision, result.failure),
                                   AfterDecision(evaluation.decision))
    BY <1>6 DEF EvaluateFailure
  <2>1. PICK evaluation \in
                Evaluations(Policy, result.failure, AttemptNumber, elapsed) :
           \/ Raise
           \/ TransitionAttempt(AttemptStatusFor(evaluation.decision, result.failure),
                                AfterDecision(evaluation.decision))
    BY <2>0
  <2>2. AfterDecision(evaluation.decision) = "append"
    BY <2>1 DEF Raise, TransitionAttempt
  <2>3. evaluation.decision = "retry"
    BY <2>2 DEF AfterDecision
  <2>4. ~ RetryRefused(Policy, result.failure, AttemptNumber)
    BY <2>1, <2>3 DEF Evaluations, Decided
  <2>5. ~ (AttemptNumber >= Policy.max_attempts)
    BY <2>4 DEF RetryRefused
  <2> QED
    BY <1>0, <1>3, <1>4, <2>5
<1> QED
  BY <1>1, <1>5, <1>6

\* No task ever gets more attempts than its policy allows, however often the run
\* and its cancellations race (RetryEvaluator.evaluate).
THEOREM AttemptsStayWithinPolicy == Spec => []AttemptsWithinPolicy
<1> DEFINE Budget == AttemptsWithinPolicy /\ AttemptIsAllowed
<1>1. Init => Budget
  <2>1. Policy.max_attempts \in Nat \ {0}
    BY PolicyType DEF RetryPolicies
  <2> QED
    BY <2>1, EmptySeq
    DEF Init, InitStore, InitRunLoop, AttemptsWithinPolicy, AttemptIsAllowed
<1>2. ASSUME IInv, VInv, Budget, [Next]_vars
      PROVE  Budget'
  <2>0. /\ TypeOK /\ StoreTypeOK /\ CallsAreReady /\ RecordsAgree /\ CallsKnow
        /\ task \in Tasks /\ Policy.max_attempts \in Nat
    BY <1>2, PolicyType DEF IInv, VInv, TypeOK, RunLoopTypeOK, RetryPolicies
  <2>1. (StoreUpdate \/ AppendStep) /\ StoreTypeOK'
    <3>1. NextMoves /\ IInv'
      BY <1>2, NextStep, InvariantInductive
    <3> QED
      BY <3>1 DEF NextMoves, IInv, TypeOK
  <2>2. AttemptsWithinPolicy'
    <3>1. CASE StoreUpdate
      BY <1>2, <2>0, <3>1, UpdateAppendsNothing DEF AttemptsWithinPolicy
    <3>2. CASE AppendStep
      <4>1. /\ Len(taskAttempts[task]) < Policy.max_attempts
            /\ AppendTaskAttempt(task)
        BY <1>2, <3>2 DEF AppendStep, AttemptIsAllowed
      <4>2. /\ Len(taskAttempts'[task]) = Len(taskAttempts[task]) + 1
            /\ Len(taskAttempts[task]) \in Nat
            /\ \A u \in Tasks : u # task => taskAttempts'[u] = taskAttempts[u]
        BY <2>0, <4>1, AttemptAppended, AttemptNumberType
      <4>3. Len(taskAttempts'[task]) <= Policy.max_attempts
        BY <2>0, <4>1, <4>2
      <4> QED
        BY <1>2, <4>2, <4>3 DEF AttemptsWithinPolicy
    <3> QED
      BY <2>1, <3>1, <3>2
  <2>3. CASE RunThread
    <3>1. pc' = "append" => task' = task /\ Len(taskAttempts'[task]) < Policy.max_attempts
      BY <1>2, <2>0, <2>3, AppendIsWithinPolicy
    <3>2. AttemptIsAllowed'
      BY <2>3, <3>1, AppendIsDecided DEF AttemptIsAllowed
    <3> QED
      BY <2>2, <3>2
  <2>4. CASE UNCHANGED runThread /\ (UNCHANGED store \/ CallerUpdate)
    <3>1. UNCHANGED <<pc, task, taskView>>
      BY <2>4 DEF runThread
    <3>2. pc = "append" => Len(taskAttempts'[task]) < Policy.max_attempts
      <4>1. StoreUpdate
        BY <2>4 DEF CallerUpdate, SettlesRun, SettlesAttempt, StoreUpdate, TaskRunStatus,
                    Absent
      <4> QED
        BY <1>2, <2>0, <4>1, UpdateAppendsNothing DEF AttemptIsAllowed
    <3>3. AttemptIsAllowed'
      BY <1>2, <3>1, <3>2 DEF AttemptIsAllowed
    <3> QED
      BY <2>2, <3>3
  <2>5. ASSUME NEW c \in Callers, CallBegins(c) \/ CallStep(c)
        PROVE  UNCHANGED runThread /\ CallerUpdate
    BY <2>0, <2>5, CallerEffects DEF CallEffect
  <2> QED
    BY <1>2, <2>3, <2>4, <2>5 DEF Next, RunStep, Stopped, vars, runLoopVars, runThread
<1> QED
  BY <1>1, <1>2, Invariant, VerdictInvariant, PTL DEF Spec

=============================================================================
