--------------------------- MODULE RunEndProofs -----------------------------
(***************************************************************************)
(* What an observer may rely on once run() has ended, or takes the run for *)
(* ended, whoever cancels it meanwhile.                                    *)
(*                                                                         *)
(* No attempt is left live (RestInv).  An attempt comes back to life by    *)
(* one transition only, from REQUIRES_RECONCILIATION to RUNNING, and only  *)
(* cancel_task takes it, for an answer that cancels nothing.  The thread   *)
(* that takes it must have asked for the cancellation of that attempt      *)
(* before the run thread gave it up, which takes two cancelling threads    *)
(* and a policy that asks for reconciliation.  ClaimStands follows a       *)
(* thread from its request to the executor's answer.                       *)
(*                                                                         *)
(* The manifest of a run that ended by itself keeps its statuses           *)
(* (ManifestInv): the run thread returns on such a verdict, and its tasks, *)
(* all terminal, leave the cancelling threads nothing to update but the    *)
(* reference that the reply to a late cancellation names.                  *)
(*                                                                         *)
(* An assessment sees a handler at work although it reads one record after *)
(* the other (InspectedInv): a confirmed cancellation comes from an        *)
(* executor that has stopped (StopInv), so that a task whose execution     *)
(* goes on is open from its first attempt on, whenever it is read.         *)
(*                                                                         *)
(* A run that nobody cancels settles (UndisturbedInv): the statuses that   *)
(* the thread has read are still those of the store, so that no update is  *)
(* refused but that of an executor which reports a cancellation.           *)
(*                                                                         *)
(* The second half, Recovery, is about run() that ended before it could    *)
(* end, by a crash, and about those who repair what it left.               *)
(***************************************************************************)
EXTENDS WorkflowRuntimeProofs, RunEvidence, RunRecovery

\* The statuses of an attempt that nobody works on.
RestStatus == TaskAttemptTerminal \cup {"UNKNOWN_OUTCOME", "REQUIRES_RECONCILIATION"}
AtRest(t) == taskAttempts[t] # << >> => LastAttempt(t) \in RestStatus

\* The steps of the run thread at which the last attempt may be live.
Trying ==
    {"starting", "running", "remember", "execute", "executing", "forget",
     "reload_attempt", "reload_task", "reload_run", "persist_refs", "append_ref",
     "succeed_attempt", "evaluate"}

OthersAtRest ==
    pc # "raised" => \A t \in Tasks : (pc \in Trying /\ t = task) \/ AtRest(t)

TryIsKnown ==
    /\ pc = "running" => attemptView = "STARTING"
    /\ pc \in Trying =>
          taskAttempts[task] # << >> /\ LastAttempt(task) # "UNKNOWN_OUTCOME"

Alone == \A c, d \in Callers : c = d

\* No policy asks for reconciliation unless one thread at most cancels.
Unrivalled == Policy.reconciliation_required => Alone

\* A thread of cancel_task that waits for the executor, and one that acts on
\* its answer.
Claiming == {"handle", "ask_executor", "after_attempt"}
Settling == {"after_task", "reply_refs", "append_ref", "settle_attempt"}
AttemptOf(local) == taskAttempts[local.task][local.num]

ClaimStands(local) ==
    /\ local.at \in Claiming =>
          /\ AttemptOf(local) # "REQUIRES_RECONCILIATION"
          /\ Alone => AttemptOf(local) \in
                TaskAttemptTerminal \cup {"CANCELLATION_REQUESTED", "UNKNOWN_OUTCOME"}
    /\ local.at \in Settling => local.attempt # "REQUIRES_RECONCILIATION"

RestInv ==
    /\ OthersAtRest /\ TryIsKnown
    /\ \A c \in Callers : ClaimStands(call[c])

-----------------------------------------------------------------------------
(* The cancelling threads.                                                 *)

\* What a step of a call does to attempts, and how it gets to wait for an
\* answer or to act on it.
AskedFor(c) ==
    \/ call[c].at = "request_attempt"
       /\ UpdateTaskAttempt(call[c].task, call[c].num, call[c].attempt,
                            "CANCELLATION_REQUESTED")
    \/ UpdateTaskAttempt(call[c].task, call[c].num, call[c].attempt,
                         "CANCELLATION_UNCONFIRMED")
    \/ /\ call[c].at = "settle_attempt"
       /\ \E g \in {"CANCELLED", "RUNNING"} :
             /\ UpdateTaskAttempt(call[c].task, call[c].num, call[c].attempt, g)
             /\ g = "CANCELLED" => call[c].answer = "confirmed"

KeepsAttempt(c) ==
    /\ UNCHANGED taskAttempts
    /\ call'[c].task = call[c].task /\ call'[c].num = call[c].num

CallOnAttempt(c) ==
    /\ UNCHANGED runThread
    /\ \A d \in Callers : d # c => call'[d] = call[d]
    /\ UNCHANGED taskAttempts \/ AskedFor(c)
    /\ call'[c].at \in Claiming =>
          \/ call[c].at \in Claiming /\ KeepsAttempt(c)
          \/ /\ call'[c].at # "after_attempt"
             /\ taskAttempts'[call'[c].task][call'[c].num] = "CANCELLATION_REQUESTED"
    /\ call'[c].at = "after_attempt" /\ call'[c].answer = "confirmed" =>
          At(c, "ask_executor")
    /\ call'[c].at \in Settling =>
          /\ KeepsAttempt(c) /\ call'[c].answer = call[c].answer
          /\ \/ call[c].at \in Settling /\ call'[c].attempt = call[c].attempt
             \/ call[c].at = "after_attempt" /\ call'[c].attempt = AttemptOf(call[c])

\* A call that is over, or that ends one turn of cancel's loop.
LEMMA RepliesClaimNothing ==
    ASSUME NEW c \in Callers, call[c] \in Calls, NEW status
    PROVE  /\ Reply(c, status).at = "replied"
           /\ [NoCall EXCEPT !.at = "raised"].at = "raised"
           /\ TaskReply(c, status).at \in {"each", "replied"}
<1>1. /\ Reply(c, status).at = "replied"
      /\ [NoCall EXCEPT !.at = "raised"].at = "raised"
  BY DEF Reply, NoCall
<1>2. CASE call[c].whole
  BY <1>1, <1>2 DEF TaskReply, Calls
<1>3. CASE ~ call[c].whole
  BY <1>1, <1>3 DEF TaskReply
<1> QED
  BY <1>1, <1>2, <1>3

\* What changes when a call only moves on.
LEMMA GotoKeeps ==
    ASSUME NEW c \in Callers, call[c] \in Calls, NEW step \in CallSteps
    PROVE  /\ Goto(c, step) \in Calls /\ Goto(c, step).at = step
           /\ Goto(c, step).task = call[c].task
           /\ Goto(c, step).num = call[c].num
           /\ Goto(c, step).attempt = call[c].attempt
           /\ Goto(c, step).answer = call[c].answer
BY DEF Goto, Calls

\* A step to a place where a call waits for no answer and acts on none.
Elsewhere(c, local) ==
    /\ call' = [call EXCEPT ![c] = local]
    /\ local.at \notin Claiming \cup Settling
    /\ UNCHANGED <<runThread, taskAttempts>>
AsksNothing(c) == \E local : Elsewhere(c, local)

\* cancel asks for no attempt itself.
LEMMA CancelAsksNothing ==
    ASSUME TypeOK, CallsAreReady, NEW c \in Callers,
           \/ BeginCancel(c) \/ ReadRun(c) \/ RequestRun(c) \/ ListTasks(c)
           \/ NextListed(c) \/ CancelListed(c) \/ AllListed(c) \/ RereadRun(c)
           \/ SettleRun(c)
    PROVE  CallOnAttempt(c)
<1>0. call[c] \in Calls /\ call \in [Callers -> Calls]
  BY CallType DEF TypeOK, CancellationTypeOK
<1>1. AsksNothing(c)
  <2> USE DEF AsksNothing, Elsewhere, Local, store, Claiming, Settling, CallSteps
  <2>1. CASE BeginCancel(c)
    <3>1. Goto(c, "read_run").at = "read_run"
      BY <1>0, GotoKeeps
    <3> QED
      BY <2>1, <3>1 DEF BeginCancel
  <2>2. CASE ReadRun(c)
    <3> DEFINE next == [Goto(c, "request_run") EXCEPT !.run = workflowRun]
    <3>1. next.at = "request_run"
      BY <1>0, GotoKeeps DEF Calls, WorkflowRunStatus
    <3>2. \/ \E status : Local(c, Reply(c, status))
          \/ Local(c, Goto(c, "list")) \/ Local(c, next)
      BY <2>2 DEF ReadRun
    <3> HIDE DEF next
    <3> QED
      BY <1>0, <3>1, <3>2, GotoKeeps, RepliesClaimNothing
  <2>3. CASE RequestRun(c)
    <3>1. Goto(c, "list").at = "list"
      BY <1>0, GotoKeeps
    <3>2. CASE CallRaises(c)
      BY <1>0, <3>2, RepliesClaimNothing DEF CallRaises
    <3>3. CASE /\ UpdateWorkflowRun(call[c].run, "CANCELLATION_REQUESTED")
               /\ call' = [call EXCEPT ![c] = Goto(c, "list")]
               /\ UNCHANGED <<runThread, executor>>
      BY <3>1, <3>3 DEF UpdateWorkflowRun
    <3> QED
      BY <2>3, <3>2, <3>3 DEF RequestRun, CallTransitionsRun
  <2>4. CASE ListTasks(c)
    <3>1. PICK open, doubts :
             Local(c, [Goto(c, "each") EXCEPT !.listed = taskRun, !.todo = open,
                                              !.statuses = doubts])
      BY <2>4 DEF ListTasks
    <3>2. [Goto(c, "each") EXCEPT !.listed = taskRun, !.todo = open,
                                  !.statuses = doubts].at = "each"
      BY <1>0, GotoKeeps DEF Calls
    <3> QED
      BY <3>1, <3>2
  <2>5. CASE NextListed(c)
    <3>1. PICK t \in call[c].todo, step \in {"read_task", "cancel_listed"} :
             Local(c, [Goto(c, step) EXCEPT !.task = t,
                         !.taskRun = call[c].listed[t], !.todo = @ \ {t}])
      BY <2>5 DEF NextListed
    <3>2. [Goto(c, step) EXCEPT !.task = t, !.taskRun = call[c].listed[t],
                                !.todo = @ \ {t}].at = step
      BY <1>0, GotoKeeps DEF Calls
    <3> QED
      BY <3>1, <3>2
  <2>6. CASE CancelListed(c)
    BY <1>0, <2>6, RepliesClaimNothing
    DEF CancelListed, CallTransitionsTask, CallRaises, UpdateTaskRun
  <2>7. CASE AllListed(c)
    BY <1>0, <2>7, GotoKeeps DEF AllListed
  <2>8. CASE RereadRun(c)
    <3>1. PICK reply :
             \/ Local(c, [Goto(c, "settle_run") EXCEPT !.run = workflowRun,
                                                       !.answer = reply])
             \/ Local(c, Reply(c, reply))
      BY <2>8 DEF RereadRun
    <3>2. [Goto(c, "settle_run") EXCEPT !.run = workflowRun,
                                        !.answer = reply].at = "settle_run"
      BY <1>0, GotoKeeps DEF Calls
    <3> QED
      BY <1>0, <3>1, <3>2, RepliesClaimNothing
  <2>9. CASE SettleRun(c)
    BY <1>0, <2>9, RepliesClaimNothing
    DEF SettleRun, CallTransitionsRun, CallRaises, UpdateWorkflowRun
  <2> QED
    BY <2>1, <2>2, <2>3, <2>4, <2>5, <2>6, <2>7, <2>8, <2>9
<1>2. PICK local : Elsewhere(c, local)
  BY <1>1 DEF AsksNothing
<1>3. call'[c] = local /\ \A d \in Callers : d # c => call'[d] = call[d]
  BY <1>0, <1>2 DEF Elsewhere
<1> QED
  BY <1>2, <1>3 DEF Elsewhere, CallOnAttempt, Claiming

\* cancel_task up to its request for the attempt.
LEMMA RequestsAttempt ==
    ASSUME TypeOK, CallsAreReady, NEW c \in Callers,
           \/ BeginCancelTask(c) \/ ReadTask(c) \/ CancelPending(c) \/ ReadAttempts(c)
           \/ RequestAttempt(c)
    PROVE  CallOnAttempt(c)
<1>0. call[c] \in Calls /\ call \in [Callers -> Calls] /\ IsReady(call[c])
  BY CallType DEF TypeOK, CancellationTypeOK
<1>u. ASSUME NEW local, call' = [call EXCEPT ![c] = local]
      PROVE  call'[c] = local /\ \A d \in Callers : d # c => call'[d] = call[d]
  BY <1>0, <1>u
<1>e. AsksNothing(c) => CallOnAttempt(c)
  BY <1>u DEF AsksNothing, Elsewhere, CallOnAttempt, Claiming
<1> USE DEF Local, store, Claiming, Settling, CallSteps
<1>1. CASE BeginCancelTask(c)
  <2>1. PICK t \in Tasks :
           Local(c, [Goto(c, "read_task") EXCEPT !.whole = FALSE, !.task = t])
    BY <1>1 DEF BeginCancelTask
  <2>2. [Goto(c, "read_task") EXCEPT !.whole = FALSE, !.task = t].at = "read_task"
    BY <1>0, GotoKeeps DEF Calls
  <2> QED
    BY <1>e, <2>1, <2>2 DEF AsksNothing, Elsewhere
<1>2. CASE ReadTask(c)
  <2> DEFINE status == taskRun[call[c].task]
  <2>1. ASSUME NEW step \in {"cancel_pending", "read_attempts"},
               Local(c, [Goto(c, step) EXCEPT !.taskRun = status])
        PROVE  AsksNothing(c)
    <3>0. PICK old \in Calls : old = Goto(c, step) /\ old.at = step
      BY <1>0, GotoKeeps
    <3>1. [old EXCEPT !.taskRun = status].at = step
      BY <3>0 DEF Calls
    <3> QED
      BY <2>1, <3>0, <3>1 DEF AsksNothing, Elsewhere
  <2>2. ASSUME NEW answer, Local(c, TaskReply(c, answer))
        PROVE  AsksNothing(c)
    BY <1>0, <2>2, RepliesClaimNothing DEF AsksNothing, Elsewhere
  <2> HIDE DEF status
  <2>3. \/ \E answer : Local(c, TaskReply(c, answer))
        \/ \E step \in {"cancel_pending", "read_attempts"} :
              Local(c, [Goto(c, step) EXCEPT !.taskRun = status])
    BY <1>2 DEF ReadTask, status
  <2> QED
    BY <1>e, <2>1, <2>2, <2>3
<1>3. CASE CancelPending(c)
  <2>1. CASE CallRaises(c)
    BY <1>0, <1>e, <2>1, RepliesClaimNothing DEF CallRaises, AsksNothing, Elsewhere
  <2>2. CASE /\ UpdateTaskRun(call[c].task, call[c].taskRun, "CANCELLED")
             /\ call' = [call EXCEPT ![c] = TaskReply(c, "confirmed")]
             /\ UNCHANGED <<runThread, executor>>
    BY <1>0, <1>e, <2>2, RepliesClaimNothing DEF UpdateTaskRun, AsksNothing, Elsewhere
  <2> QED
    BY <1>3, <2>1, <2>2 DEF CancelPending, CallTransitionsTask
<1>4. CASE ReadAttempts(c)
  <2> DEFINE attempts == taskAttempts[call[c].task]
             latest == attempts[Len(attempts)]
             read(step) == [[call[c] EXCEPT !.num = Len(attempts), !.attempt = latest]
                              EXCEPT !.at = step]
  <2>1. \A step : /\ read(step).at = step /\ read(step).task = call[c].task
                  /\ read(step).num = Len(attempts)
    BY <1>0 DEF Calls
  <2>2. ASSUME NEW answer, Local(c, TaskReply(c, answer))
        PROVE  AsksNothing(c)
    BY <1>0, <2>2, RepliesClaimNothing DEF AsksNothing, Elsewhere
  <2>3. CASE Local(c, read("request_attempt"))
    <3> HIDE DEF read
    <3> QED
      BY <1>e, <2>1, <2>3 DEF AsksNothing, Elsewhere
  <2>4. CASE latest = "CANCELLATION_REQUESTED" /\ Local(c, read("handle"))
    <3> HIDE DEF read
    <3>1. /\ call'[c] = read("handle") /\ taskAttempts' = taskAttempts
          /\ UNCHANGED runThread /\ \A d \in Callers : d # c => call'[d] = call[d]
      BY <1>u, <2>4
    <3>2. taskAttempts'[call'[c].task][call'[c].num] = "CANCELLATION_REQUESTED"
      BY <2>1, <2>4, <3>1
    <3>3. call'[c].at = "handle"
      BY <2>1, <3>1
    <3> QED
      BY <3>1, <3>2, <3>3 DEF CallOnAttempt
  <2>5. \/ \E answer : Local(c, TaskReply(c, answer))
        \/ Local(c, read("request_attempt"))
        \/ latest = "CANCELLATION_REQUESTED" /\ Local(c, read("handle"))
    BY <1>4 DEF ReadAttempts
  <2> HIDE DEF read, latest
  <2> QED
    BY <1>e, <2>2, <2>3, <2>4, <2>5
<1>5. CASE RequestAttempt(c)
  <2>1. CASE CallRaises(c)
    BY <1>0, <1>e, <2>1, RepliesClaimNothing DEF CallRaises, AsksNothing, Elsewhere
  <2>2. CASE /\ UpdateTaskAttempt(call[c].task, call[c].num, call[c].attempt,
                                  "CANCELLATION_REQUESTED")
             /\ call' = [call EXCEPT ![c] = Goto(c, "handle")]
             /\ UNCHANGED <<runThread, executor>>
    <3>1. /\ call'[c].at = "handle" /\ call'[c].task = call[c].task
          /\ call'[c].num = call[c].num
          /\ \A d \in Callers : d # c => call'[d] = call[d]
      BY <1>0, <1>u, <2>2, GotoKeeps
    <3>2. /\ call[c].task \in Tasks /\ call[c].num \in Nat
          /\ call[c].attempt \in TaskAttemptStatus
          /\ "CANCELLATION_REQUESTED" \in TaskAttemptStatus
      BY <1>0 DEF Calls, TaskAttemptStatus
    <3>3. taskAttempts'[call[c].task][call[c].num] = "CANCELLATION_REQUESTED"
      BY <2>2, <3>2, AttemptReplaced DEF TypeOK
    <3>4. AskedFor(c)
      BY <1>5, <2>2 DEF AskedFor, RequestAttempt, At
    <3> QED
      BY <2>2, <3>1, <3>3, <3>4 DEF CallOnAttempt
  <2> QED
    BY <1>5, <2>1, <2>2 DEF RequestAttempt, CallTransitionsAttempt
<1> QED
  BY <1>1, <1>2, <1>3, <1>4, <1>5

\* The executor's answer, from the lookup of the handle to the statuses that
\* cancel_task records.
LEMMA ActsOnAnswer ==
    ASSUME TypeOK, CallsAreReady, NEW c \in Callers,
           \/ LookUpHandle(c) \/ AskExecutor(c) \/ ReadAttemptAfter(c)
           \/ LoseAttempt(c) \/ LostReadTask(c) \/ LoseTask(c) \/ ReadTaskAfter(c)
           \/ ListReplyRefs(c) \/ AppendReplyRef(c) \/ SettleAttempt(c) \/ SettleTask(c)
    PROVE  CallOnAttempt(c)
<1>0. call[c] \in Calls /\ call \in [Callers -> Calls] /\ IsReady(call[c])
  BY CallType DEF TypeOK, CancellationTypeOK
<1>u. ASSUME NEW local, call' = [call EXCEPT ![c] = local]
      PROVE  call'[c] = local /\ \A d \in Callers : d # c => call'[d] = call[d]
  BY <1>0, <1>u
<1>e. AsksNothing(c) => CallOnAttempt(c)
  BY <1>u DEF AsksNothing, Elsewhere, CallOnAttempt, Claiming
<1>t. ASSUME NEW answer, Local(c, TaskReply(c, answer)) PROVE AsksNothing(c)
  BY <1>0, <1>t, RepliesClaimNothing
  DEF AsksNothing, Elsewhere, Local, store, Claiming, Settling
<1>r. ASSUME CallRaises(c) PROVE AsksNothing(c)
  BY <1>0, <1>r, RepliesClaimNothing
  DEF AsksNothing, Elsewhere, CallRaises, Local, store, Claiming, Settling
\* A call that waits on, for the same attempt.
<1>w. ASSUME call[c].at \in Claiming, UNCHANGED <<taskAttempts, runThread>>,
             NEW local, call' = [call EXCEPT ![c] = local], local.at \notin Settling,
             local.task = call[c].task, local.num = call[c].num,
             local.at = "after_attempt" /\ local.answer = "confirmed" =>
                At(c, "ask_executor")
      PROVE  CallOnAttempt(c)
  BY <1>u, <1>w DEF CallOnAttempt, KeepsAttempt
<1> USE DEF At, CallSteps
<1>1. CASE LookUpHandle(c)
  <2>1. ASSUME NEW answer, answer # "confirmed",
               Local(c, [Goto(c, "after_attempt") EXCEPT !.answer = answer])
        PROVE  CallOnAttempt(c)
    <3> DEFINE local == [Goto(c, "after_attempt") EXCEPT !.answer = answer]
    <3>0. PICK old \in Calls :
             /\ old = Goto(c, "after_attempt") /\ old.at = "after_attempt"
             /\ old.task = call[c].task /\ old.num = call[c].num
      BY <1>0, GotoKeeps
    <3>1. /\ local.at = "after_attempt" /\ local.task = call[c].task
          /\ local.num = call[c].num /\ local.answer # "confirmed"
      BY <2>1, <3>0 DEF Calls
    <3>2. Local(c, local)
      BY <2>1
    <3> HIDE DEF local
    <3> QED
      BY <1>1, <1>w, <3>1, <3>2 DEF LookUpHandle, Local, store, Claiming, Settling
  <2>u. Unanswered # "confirmed"
    BY DEF Unanswered
  <2>2. CASE Local(c, Goto(c, "ask_executor"))
    BY <1>0, <1>1, <1>w, <2>2, GotoKeeps, ZenonT(30)
    DEF LookUpHandle, Local, store, Claiming, Settling
  <2> QED
    BY <1>1, <2>1, <2>2, <2>u DEF LookUpHandle
<1>2. CASE AskExecutor(c)
  <2>1. PICK reply : call' = [call EXCEPT ![c].at = "after_attempt", ![c].answer = reply]
    BY <1>2 DEF AskExecutor
  <2> DEFINE local == [call[c] EXCEPT !.at = "after_attempt", !.answer = reply]
  <2>2. call' = [call EXCEPT ![c] = local]
    BY <1>0, <2>1
  <2>3. local.at = "after_attempt" /\ local.task = call[c].task /\ local.num = call[c].num
    BY <1>0 DEF Calls
  <2> HIDE DEF local
  <2> QED
    BY <1>2, <1>w, <2>2, <2>3 DEF AskExecutor, store, Claiming, Settling
<1>3. CASE ReadAttemptAfter(c)
  <2>1. PICK next \in {"lost_attempt", "settle_attempt", "after_task"} :
           Local(c, [Goto(c, next) EXCEPT !.attempt = AttemptOf(call[c])])
    BY <1>3 DEF ReadAttemptAfter, AttemptOf
  <2> DEFINE local == [Goto(c, next) EXCEPT !.attempt = AttemptOf(call[c])]
  <2>0. PICK old \in Calls : old = Goto(c, next) /\ old.at = next
    BY <1>0, GotoKeeps
  <2>a. /\ old.task = call[c].task /\ old.num = call[c].num
        /\ old.answer = call[c].answer
    BY <1>0, <2>0, GotoKeeps
  <2>2. /\ local.at = next /\ local.attempt = AttemptOf(call[c])
        /\ local.task = call[c].task /\ local.num = call[c].num
        /\ local.answer = call[c].answer
    BY <2>0, <2>a DEF Calls
  <2>3. Local(c, local)
    BY <2>1
  <2> HIDE DEF local
  <2> QED
    BY <1>3, <1>u, <2>2, <2>3
    DEF ReadAttemptAfter, Local, store, CallOnAttempt, KeepsAttempt, Claiming, Settling
<1>4. CASE LoseAttempt(c)
  <2>1. CASE /\ UpdateTaskAttempt(call[c].task, call[c].num, call[c].attempt,
                                  "CANCELLATION_UNCONFIRMED")
             /\ call' = [call EXCEPT ![c] = Goto(c, "lost_read_task")]
             /\ UNCHANGED <<runThread, executor>>
    BY <1>0, <1>u, <2>1, GotoKeeps DEF CallOnAttempt, AskedFor, Claiming, Settling
  <2> QED
    BY <1>4, <1>e, <1>r, <2>1 DEF LoseAttempt, CallTransitionsAttempt
<1>5. CASE LostReadTask(c)
  <2>1. Local(c, [Goto(c, "lost_task") EXCEPT !.taskRun = taskRun[call[c].task]])
    BY <1>5 DEF LostReadTask
  <2>0. PICK old \in Calls : old = Goto(c, "lost_task") /\ old.at = "lost_task"
    BY <1>0, GotoKeeps
  <2>2. [old EXCEPT !.taskRun = taskRun[call[c].task]].at = "lost_task"
    BY <2>0 DEF Calls
  <2> QED
    BY <1>e, <2>0, <2>1, <2>2
    DEF AsksNothing, Elsewhere, Local, store, Claiming, Settling
<1>6. CASE LoseTask(c) \/ SettleTask(c)
  <2>1. PICK answer, g :
           \/ CallRaises(c)
           \/ /\ UpdateTaskRun(call[c].task, call[c].taskRun, g)
              /\ call' = [call EXCEPT ![c] = TaskReply(c, answer)]
              /\ UNCHANGED <<runThread, executor>>
    BY <1>6 DEF LoseTask, SettleTask, CallTransitionsTask
  <2> QED
    BY <1>0, <1>e, <1>r, <2>1, RepliesClaimNothing
    DEF UpdateTaskRun, AsksNothing, Elsewhere, Claiming, Settling
<1>7. CASE ReadTaskAfter(c) \/ ListReplyRefs(c) \/ AppendReplyRef(c)
  <2>0. /\ call[c].at \in {"after_task", "reply_refs", "append_ref"}
        /\ UNCHANGED <<taskAttempts, runThread>>
    BY <1>7 DEF ReadTaskAfter, ListReplyRefs, AppendReplyRef, Local, CallRaises,
                AppendExternalRunRef, store
  <2>1. ASSUME NEW local, call' = [call EXCEPT ![c] = local], local.at \in Settling,
               local.attempt = call[c].attempt, local.task = call[c].task,
               local.num = call[c].num, local.answer = call[c].answer
        PROVE  CallOnAttempt(c)
    BY <1>u, <2>0, <2>1 DEF CallOnAttempt, KeepsAttempt, Claiming, Settling
  <2>2. ASSUME NEW step \in Settling, call' = [call EXCEPT ![c] = Goto(c, step)]
        PROVE  CallOnAttempt(c)
    <3>1. step \in CallSteps
      BY DEF Settling
    <3>2. PICK local :
             /\ local = Goto(c, step) /\ local.at = step /\ local.task = call[c].task
             /\ local.num = call[c].num /\ local.attempt = call[c].attempt
             /\ local.answer = call[c].answer
      BY <1>0, <3>1, GotoKeeps
    <3> QED
      BY <2>1, <2>2, <3>2
  <2>3. ASSUME call' = [call EXCEPT ![c] = AfterReplyRefs(c)]
        PROVE  CallOnAttempt(c)
    <3>1. CASE AfterReplyRefs(c) = TaskReply(c, "requested")
      BY <1>0, <1>e, <2>0, <2>3, <3>1, RepliesClaimNothing
      DEF AsksNothing, Elsewhere, Claiming, Settling
    <3>2. CASE AfterReplyRefs(c) = Goto(c, "settle_attempt")
      BY <2>2, <2>3, <3>2 DEF Settling
    <3> QED
      BY <3>1, <3>2 DEF AfterReplyRefs
  <2>4. CASE ReadTaskAfter(c)
    <3> DEFINE local == [Goto(c, "reply_refs") EXCEPT !.taskRun = taskRun[call[c].task]]
    <3>1. /\ local.at = "reply_refs" /\ local.attempt = call[c].attempt
          /\ local.task = call[c].task /\ local.num = call[c].num
          /\ local.answer = call[c].answer
      BY <1>0 DEF Goto, Calls
    <3>2. call' = [call EXCEPT ![c] = local]
      BY <2>4 DEF ReadTaskAfter, Local
    <3> HIDE DEF local
    <3> QED
      BY <2>1, <3>1, <3>2 DEF Settling
  <2>5. CASE ListReplyRefs(c)
    BY <2>2, <2>3, <2>5 DEF ListReplyRefs, Local, Settling
  <2>6. CASE AppendReplyRef(c)
    BY <1>e, <1>r, <2>3, <2>6 DEF AppendReplyRef
  <2> QED
    BY <1>7, <2>4, <2>5, <2>6
<1>8. CASE SettleAttempt(c)
  <2> DEFINE g == SettledAs(call[c].answer)
  <2>1. /\ g \in {"CANCELLED", "CANCELLATION_UNCONFIRMED", "RUNNING"}
        /\ g = "CANCELLED" => call[c].answer = "confirmed"
    BY DEF SettledAs
  <2>2. \A answer : /\ TaskReply(c, answer).at \notin Claiming \cup Settling
                    /\ Goto(c, "settle_task").at \notin Claiming \cup Settling
    BY <1>0, RepliesClaimNothing, GotoKeeps DEF Claiming, Settling
  <2>3. ASSUME NEW local, local.at \notin Claiming \cup Settling,
               UpdateTaskAttempt(call[c].task, call[c].num, call[c].attempt, g),
               call' = [call EXCEPT ![c] = local], UNCHANGED <<runThread, executor>>
        PROVE  CallOnAttempt(c)
    <3>1. AskedFor(c)
      BY <1>8, <2>1, <2>3 DEF AskedFor, SettleAttempt
    <3> QED
      BY <1>u, <2>3, <3>1 DEF CallOnAttempt, Claiming
  <2>4. PICK local :
           /\ local.at \notin Claiming \cup Settling
           /\ CallTransitionsAttempt(c, g, local)
    BY <1>8, <2>2 DEF SettleAttempt
  <2> HIDE DEF g
  <2> QED
    BY <1>e, <1>r, <2>3, <2>4 DEF CallTransitionsAttempt
<1> QED
  BY <1>1, <1>2, <1>3, <1>4, <1>5, <1>6, <1>7, <1>8

\* Every step of a cancelling thread.
LEMMA CallersOnAttempts ==
    ASSUME TypeOK, CallsAreReady, NEW c \in Callers, CallBegins(c) \/ CallStep(c)
    PROVE  CallOnAttempt(c)
BY CancelAsksNothing, RequestsAttempt, ActsOnAnswer DEF CallBegins, CallStep

-----------------------------------------------------------------------------
(* The run thread.                                                         *)

\* The actions of a try that leave the attempt alone.
TryGoesOn ==
    /\ UNCHANGED <<taskAttempts, task>>
    /\ pc \in Trying /\ pc' \in Trying \ {"running"}

\* Where the run thread works on attempts.
LEMMA TriesOfRunThread ==
    ASSUME RunThread
    PROVE  \/ pc' = "raised" /\ UNCHANGED taskAttempts
           \/ pc \notin Trying /\ pc' \notin Trying /\ UNCHANGED taskAttempts
           \/ TryGoesOn
           \/ AppendAttempt \/ StartAttempt \/ RunAttempt
           \/ PersistExternalRunRefs \/ AppendExternalRef
           \/ SucceedAttempt \/ EvaluateFailure
BY AfterReloadType
DEF RunThread, CreateRun, CreateTask, ReuseTask, ReuseCheckpoint, StartRun,
    SkipReusedTask, EvaluateReadiness, SkipTask, ReadyTask, RunTask,
    RememberActiveRequest, BeginExecute, EndExecute,
    ForgetActiveRequest, ReloadAttempt, ReloadTask, ReloadRun,
    CancelTaskRun, ListNotStarted, CancelNotStarted,
    NotStartedCancelled, CancelRun, SucceedTask,
    PersistOutputCheckpoint, RecheckRun, UnknownTask, UnknownRun,
    FailTask, FailFast, FailFastSkip, FailRun, AssertTerminalTaskRuns, SucceedRun,
    OnTask, OnWorkflow, TransitionTask, TransitionWorkflow, Raise, NextEntry,
    NextToCreate, AfterReadiness, CreateWorkflowRun, CreateTaskRun,
    UpdateWorkflowRun, UpdateTaskRun, AppendExternalRunRef, SetTaskOutputCheckpoint,
    store, cursor, Trying, TryGoesOn

\* An update of the last attempt by the run thread.
RunThreadUpdates(g) ==
    /\ task' = task
    /\ UpdateTaskAttempt(task, AttemptNumber, attemptView, g)
    /\ attemptView' = g

\* A failure is judged: only a policy that asks for it has the attempt wait for
\* reconciliation.
LEMMA JudgingUpdates ==
    ASSUME EvaluateFailure, pc' # "raised"
    PROVE  \E g \in RestStatus :
              /\ RunThreadUpdates(g)
              /\ pc' \notin Trying
              /\ g = "REQUIRES_RECONCILIATION" => Policy.reconciliation_required
<1>1. PICK elapsed \in ElapsedChoices :
         \E evaluation \in Evaluations(Policy, result.failure, AttemptNumber, elapsed) :
            \/ evaluation.decision = "raises" /\ Raise
            \/ /\ evaluation.decision # "raises"
               /\ TransitionAttempt(AttemptStatusFor(evaluation.decision, result.failure),
                                    AfterDecision(evaluation.decision))
  BY DEF EvaluateFailure
<1>2. PICK evaluation \in Evaluations(Policy, result.failure, AttemptNumber, elapsed) :
         TransitionAttempt(AttemptStatusFor(evaluation.decision, result.failure),
                           AfterDecision(evaluation.decision))
  BY <1>1 DEF Raise
<1> DEFINE g == AttemptStatusFor(evaluation.decision, result.failure)
<1>3. evaluation.decision = "reconcile" => Policy.reconciliation_required
  BY DEF Evaluations, Decided
<1>4. g \in RestStatus /\ (g = "REQUIRES_RECONCILIATION" => evaluation.decision = "reconcile")
  BY TerminalForType DEF AttemptStatusFor, RestStatus, TaskAttemptTerminal
<1>5. AfterDecision(evaluation.decision) \notin Trying
  BY AfterDecisionType DEF Trying
<1>6. task' = task
  BY DEF EvaluateFailure, cursor
<1> HIDE DEF g
<1>7. RunThreadUpdates(g) /\ pc' = AfterDecision(evaluation.decision)
  BY <1>2, <1>6 DEF TransitionAttempt, Raise, RunThreadUpdates, g
<1> QED
  BY <1>3, <1>4, <1>5, <1>7

\* All that a step of the run thread may be to the attempts of its task.
TryEffect ==
    \/ pc \notin Trying /\ pc' \notin Trying /\ UNCHANGED taskAttempts
    \/ TryGoesOn
    \/ UNCHANGED <<taskAttempts, task>> /\ pc' \notin Trying /\ AtRest(task)
    \/ pc' = "starting" /\ pc \notin Trying /\ task' = task /\ AppendTaskAttempt(task)
    \/ \E g \in {"STARTING", "RUNNING"} :
          /\ RunThreadUpdates(g) /\ pc \in Trying /\ pc' \in Trying
          /\ g = "RUNNING" => pc = "running" /\ pc' # "running"
    \/ \E g \in RestStatus :
          /\ RunThreadUpdates(g) /\ pc' \notin Trying /\ pc \in Trying
          /\ g = "REQUIRES_RECONCILIATION" => Policy.reconciliation_required

\* A try begins with an attempt, and ends with an attempt at rest.
LEMMA TriesEndAtRest ==
    ASSUME RunThread, RunThreadKnows
    PROVE  (pc' = "raised" /\ UNCHANGED taskAttempts) \/ TryEffect
<1>0. CASE pc' = "raised"
  <2>1. EvaluateFailure => UNCHANGED taskAttempts
    <3> SUFFICES ASSUME EvaluateFailure PROVE UNCHANGED taskAttempts
      OBVIOUS
    <3>1. PICK decision :
             Raise \/ TransitionAttempt(AttemptStatusFor(decision, result.failure),
                                        AfterDecision(decision))
      BY DEF EvaluateFailure
    <3> QED
      BY <1>0, <3>1, AfterDecisionType DEF TransitionAttempt, Raise, store
  <2> QED
    BY <1>0, <2>1, TriesOfRunThread, AfterReloadType
    DEF AppendAttempt, StartAttempt, RunAttempt, PersistExternalRunRefs,
        AppendExternalRef, AppendExternalRunRef, SucceedAttempt, OnAttempt,
        TransitionAttempt, Raise, store, TryGoesOn, Trying
<1> SUFFICES ASSUME pc' # "raised" PROVE TryEffect
  BY <1>0
<1>1. CASE AppendAttempt
  BY <1>1 DEF AppendAttempt, Raise, TryEffect, Trying, cursor
<1>2. CASE StartAttempt
  BY <1>2
  DEF StartAttempt, OnAttempt, TransitionAttempt, Raise, RunThreadUpdates, TryEffect,
      Trying, cursor
<1>3. CASE RunAttempt
  BY <1>3
  DEF RunAttempt, OnAttempt, TransitionAttempt, Raise, RunThreadUpdates, TryEffect,
      Trying, cursor
<1>4. CASE SucceedAttempt
  BY <1>4
  DEF SucceedAttempt, OnAttempt, TransitionAttempt, Raise, RunThreadUpdates, TryEffect,
      Trying, cursor, RestStatus, TaskAttemptTerminal
<1>5. CASE EvaluateFailure
  <2>1. pc \in Trying
    BY <1>5 DEF EvaluateFailure, Trying
  <2> QED
    BY <1>5, <2>1, JudgingUpdates DEF TryEffect
<1>6. CASE PersistExternalRunRefs \/ AppendExternalRef
  <2>0. /\ UNCHANGED <<taskAttempts, task>> /\ pc \in {"persist_refs", "append_ref"}
        /\ pc' \in {"append_ref", AfterReload}
    BY <1>6 DEF PersistExternalRunRefs, AppendExternalRef, Raise,
                AppendExternalRunRef, store, cursor
  <2>a. CASE pc' = "append_ref"
    BY <2>0, <2>a DEF TryEffect, TryGoesOn, Trying
  <2> SUFFICES ASSUME pc' = AfterReload PROVE TryEffect
    BY <2>0, <2>a
  <2>1. UNCHANGED <<taskAttempts, task>> /\ pc \in {"persist_refs", "append_ref"}
    BY <2>0
  <2>2. CASE attemptView = "CANCELLED"
    <3>1. AttemptEnded(task, "CANCELLED")
      BY <2>1, <2>2 DEF RunThreadKnows, AttemptTellsTheTask
    <3>2. pc' \notin Trying
      BY <2>1, <2>2 DEF AfterReload, Trying
    <3> QED
      BY <2>1, <3>1, <3>2
      DEF TryEffect, AtRest, AttemptEnded, RestStatus, TaskAttemptTerminal
  <2>3. CASE attemptView # "CANCELLED"
    <3>1. pc' \in {"succeed_attempt", "evaluate"}
      BY <2>1, <2>3 DEF AfterReload
    <3> QED
      BY <2>1, <3>1 DEF TryEffect, TryGoesOn, Trying
  <2> QED
    BY <2>2, <2>3
<1> QED
  BY <1>1, <1>2, <1>3, <1>4, <1>5, <1>6, TriesOfRunThread DEF TryEffect

-----------------------------------------------------------------------------
(* The inductive invariant.                                                *)

\* The status that an update of the run thread replaces.
LEMMA UpdateReplacesLast ==
    ASSUME TypeOK, AttemptSequence, NEW g \in TaskAttemptStatus, RunThreadUpdates(g)
    PROVE  /\ taskAttempts[task] # << >> /\ taskAttempts'[task] # << >>
           /\ LastAttempt(task) = attemptView /\ LastAttempt(task)' = g
           /\ g \in TaskAttemptTransitions[attemptView]
           /\ attemptView \notin TaskAttemptTerminal
           /\ \A t \in Tasks : t # task => taskAttempts'[t] = taskAttempts[t]
           /\ \A t \in Tasks : \A n \in 1 .. Len(taskAttempts[t]) :
                 \/ taskAttempts'[t][n] = taskAttempts[t][n]
                 \/ taskAttempts[t][n] = attemptView /\ taskAttempts'[t][n] = g
<1>1. /\ StoreTypeOK /\ task \in Tasks /\ task' = task
      /\ attemptView \in TaskAttemptStatus /\ AttemptNumber \in Nat
      /\ UpdateTaskAttempt(task, AttemptNumber, attemptView, g)
  BY AttemptNumberType DEF TypeOK, RunLoopTypeOK, AttemptNumber, RunThreadUpdates
<1>2. /\ taskAttempts[task] # << >> /\ taskAttempts'[task] # << >>
      /\ LastAttempt(task) = attemptView /\ attemptView \notin TaskAttemptTerminal
      /\ \A u \in Tasks : u # task => taskAttempts'[u] = taskAttempts[u]
      /\ AttemptNumber = Len(taskAttempts[task])
  BY <1>1, OnlyLastIsUpdated
<1>3. /\ Len(taskAttempts'[task]) = Len(taskAttempts[task])
      /\ \A m \in 1 .. Len(taskAttempts[task]) :
            taskAttempts'[task][m] = IF m = AttemptNumber THEN g ELSE taskAttempts[task][m]
      /\ AttemptNumber \in 1 .. Len(taskAttempts[task])
      /\ taskAttempts[task][AttemptNumber] = attemptView
      /\ g \in TaskAttemptTransitions[attemptView]
  BY <1>1, AttemptReplaced
<1>4. LastAttempt(task)' = g
  BY <1>1, <1>2, <1>3 DEF LastAttempt
<1> QED
  BY <1>2, <1>3, <1>4

\* What the run thread does to an attempt whose cancellation was asked for.
LEMMA RunThreadHonoursClaims ==
    ASSUME TypeOK, AttemptSequence, TryIsKnown, Unrivalled, TryEffect,
           NEW local \in Calls, IsReady(local), ClaimStands(local)
    PROVE  ClaimStands(local)'
<1> DEFINE t == local.task
           n == local.num
<1>1. t \in Tasks /\ n \in Nat /\ StoreTypeOK /\ task \in Tasks
  BY DEF Calls, TypeOK, RunLoopTypeOK
<1>2. SUFFICES ASSUME local.at \in Claiming,
                      AttemptOf(local)' # AttemptOf(local)
               PROVE  /\ AttemptOf(local)' # "REQUIRES_RECONCILIATION"
                      /\ Alone => AttemptOf(local)' \in
                            TaskAttemptTerminal
                               \cup {"CANCELLATION_REQUESTED", "UNKNOWN_OUTCOME"}
  BY DEF ClaimStands
<1>3. n \in 1 .. Len(taskAttempts[t])
  BY <1>2 DEF IsReady, Claiming, OnTheAttempt
<1>4. ~ UNCHANGED taskAttempts
  BY <1>2 DEF AttemptOf
<1>5. ~ AppendTaskAttempt(task)
  <2> SUFFICES ASSUME AppendTaskAttempt(task) PROVE FALSE
    OBVIOUS
  <2>1. taskAttempts'[t][n] = taskAttempts[t][n]
    BY <1>1, <1>3, AttemptAppended
  <2> QED
    BY <1>2, <2>1 DEF AttemptOf
<1>6. PICK g \in TaskAttemptStatus :
         /\ RunThreadUpdates(g)
         /\ \/ g = "STARTING"
            \/ g = "RUNNING" /\ pc = "running"
            \/ g \in RestStatus
         /\ pc \in Trying
         /\ g = "REQUIRES_RECONCILIATION" => Policy.reconciliation_required
  BY <1>4, <1>5
  DEF TryEffect, TryGoesOn, RestStatus, TaskAttemptTerminal, TaskAttemptStatus
<1>7. /\ AttemptOf(local) = attemptView /\ AttemptOf(local)' = g
      /\ g \in TaskAttemptTransitions[attemptView]
      /\ attemptView \notin TaskAttemptTerminal
      /\ attemptView # "UNKNOWN_OUTCOME"
  BY <1>1, <1>2, <1>3, <1>6, UpdateReplacesLast DEF AttemptOf, TryIsKnown
<1>8. CASE ~ Alone
  BY <1>6, <1>7, <1>8 DEF Unrivalled
<1>9. CASE Alone
  <2>1. attemptView = "CANCELLATION_REQUESTED"
    BY <1>2, <1>7, <1>9 DEF ClaimStands
  <2>2. g \notin {"STARTING", "REQUIRES_RECONCILIATION"} /\ pc # "running"
    BY <1>7, <2>1 DEF TaskAttemptTransitions, TaskAttemptStatus, TryIsKnown
  <2> QED
    BY <1>6, <1>7, <2>2 DEF RestStatus
<1> QED
  BY <1>8, <1>9

\* A try that ends leaves its attempt at rest.
LEMMA RunThreadRests ==
    ASSUME TypeOK, AttemptSequence, OthersAtRest, TryIsKnown, TryEffect,
           pc # "raised",
           task' # task => pc \notin Trying
    PROVE  OthersAtRest' /\ TryIsKnown'
<1>0. StoreTypeOK /\ task \in Tasks
  BY DEF TypeOK, RunLoopTypeOK
<1>1. CASE pc \notin Trying /\ pc' \notin Trying /\ UNCHANGED taskAttempts
  BY <1>1 DEF OthersAtRest, AtRest, LastAttempt, TryIsKnown, Trying
<1>2. CASE TryGoesOn
  BY <1>2 DEF TryGoesOn, OthersAtRest, AtRest, LastAttempt, TryIsKnown
<1>3. CASE UNCHANGED <<taskAttempts, task>> /\ pc' \notin Trying /\ AtRest(task)
  BY <1>3 DEF OthersAtRest, AtRest, LastAttempt, TryIsKnown, Trying
<1>4. CASE pc' = "starting" /\ pc \notin Trying /\ task' = task /\ AppendTaskAttempt(task)
  <2>1. /\ taskAttempts'[task] # << >> /\ LastAttempt(task)' = "PENDING"
        /\ \A u \in Tasks : u # task => taskAttempts'[u] = taskAttempts[u]
    BY <1>0, <1>4, TriedIsLast
  <2> QED
    BY <1>4, <2>1 DEF OthersAtRest, AtRest, LastAttempt, TryIsKnown, Trying
<1>5. ASSUME NEW g \in {"STARTING", "RUNNING"},
             RunThreadUpdates(g), pc \in Trying, pc' \in Trying,
             g = "RUNNING" => pc = "running" /\ pc' # "running"
      PROVE  OthersAtRest' /\ TryIsKnown'
  <2>1. /\ taskAttempts'[task] # << >> /\ LastAttempt(task)' = g
        /\ \A u \in Tasks : u # task => taskAttempts'[u] = taskAttempts[u]
        /\ task' = task /\ attemptView' = g
    BY <1>5, UpdateReplacesLast DEF RunThreadUpdates, TaskAttemptStatus
  <2> QED
    BY <1>5, <2>1 DEF OthersAtRest, AtRest, LastAttempt, TryIsKnown
<1>6. ASSUME NEW g \in RestStatus, RunThreadUpdates(g), pc' \notin Trying
      PROVE  OthersAtRest' /\ TryIsKnown'
  <2>1. /\ taskAttempts'[task] # << >> /\ LastAttempt(task)' = g
        /\ \A u \in Tasks : u # task => taskAttempts'[u] = taskAttempts[u]
        /\ task' = task
    BY <1>6, UpdateReplacesLast
    DEF RunThreadUpdates, RestStatus, TaskAttemptStatus, TaskAttemptTerminal
  <2>2. \A t \in Tasks : AtRest(t)'
    BY <1>6, <2>1 DEF OthersAtRest, AtRest, LastAttempt
  <2> QED
    BY <1>6, <2>2 DEF OthersAtRest, TryIsKnown, Trying
<1> QED
  BY <1>1, <1>2, <1>3, <1>4, <1>5, <1>6 DEF TryEffect

\* The run thread takes up another plan entry only between tries.
LEMMA EntriesChangeBetweenTries ==
    ASSUME RunThread
    PROVE  pc # "raised" /\ (task' # task => pc \notin Trying)
<1>1. pc # "raised"
  BY DEF RunThread, CreateRun, CreateTask, ReuseTask, ReuseCheckpoint, StartRun,
    SkipReusedTask, EvaluateReadiness, SkipTask, ReadyTask, RunTask, AppendAttempt,
    StartAttempt, RunAttempt, RememberActiveRequest, BeginExecute, EndExecute,
    ForgetActiveRequest, ReloadAttempt, ReloadTask, ReloadRun,
    PersistExternalRunRefs, AppendExternalRef, ExternalRunRefAccepted, CancelTaskRun,
    ListNotStarted, CancelNotStarted,
    NotStartedCancelled, CancelRun, SucceedAttempt, SucceedTask,
    PersistOutputCheckpoint, RecheckRun, EvaluateFailure, UnknownTask, UnknownRun,
    FailTask, FailFast, FailFastSkip, FailRun, AssertTerminalTaskRuns, SucceedRun,
    OnTask, OnAttempt, OnWorkflow
<1>2. task' # task => pc \notin Trying
  <2>1. CASE /\ pc' = "raised" /\ UNCHANGED taskAttempts
    BY <2>1
    DEF RunThread, CreateRun, CreateTask, ReuseTask, ReuseCheckpoint, StartRun,
    SkipReusedTask, EvaluateReadiness, SkipTask, ReadyTask, RunTask, AppendAttempt,
    StartAttempt, RunAttempt, RememberActiveRequest, BeginExecute, EndExecute,
    ForgetActiveRequest, ReloadAttempt, ReloadTask, ReloadRun,
    PersistExternalRunRefs, AppendExternalRef, ExternalRunRefAccepted, CancelTaskRun,
    ListNotStarted, CancelNotStarted,
    NotStartedCancelled, CancelRun, SucceedAttempt, SucceedTask,
    PersistOutputCheckpoint, RecheckRun, EvaluateFailure, UnknownTask, UnknownRun,
    FailTask, FailFast, FailFastSkip, FailRun, AssertTerminalTaskRuns, SucceedRun,
    OnTask, OnAttempt, OnWorkflow, cursor, Trying
  <2> QED
    BY <2>1, TriesOfRunThread
    DEF TryGoesOn, AppendAttempt, StartAttempt, RunAttempt, PersistExternalRunRefs,
        AppendExternalRef, ExternalRunRefAccepted,
        SucceedAttempt, EvaluateFailure, OnAttempt, cursor, Trying
<1> QED
  BY <1>1, <1>2

\* What a cancelling thread does to attempts leaves those at rest at rest.
LEMMA CallersKeepRest ==
    ASSUME TypeOK, AttemptSequence, OthersAtRest, TryIsKnown, NEW c \in Callers,
           ClaimStands(call[c]), CallOnAttempt(c)
    PROVE  OthersAtRest' /\ TryIsKnown'
<1>0. /\ StoreTypeOK /\ task \in Tasks /\ call[c] \in Calls
      /\ UNCHANGED <<pc, task, attemptView>>
  BY CallType DEF TypeOK, RunLoopTypeOK, CancellationTypeOK, CallOnAttempt, runThread
<1>1. CASE UNCHANGED taskAttempts
  BY <1>0, <1>1 DEF OthersAtRest, AtRest, LastAttempt, TryIsKnown
<1>2. CASE AskedFor(c)
  <2>1. PICK t \in Tasks, n \in Nat, e \in TaskAttemptStatus :
           \E g \in {"CANCELLATION_REQUESTED", "CANCELLATION_UNCONFIRMED", "CANCELLED",
                    "RUNNING"} :
              /\ UpdateTaskAttempt(t, n, e, g)
              /\ g = "RUNNING" => e # "REQUIRES_RECONCILIATION"
    BY <1>0, <1>2 DEF AskedFor, Calls, ClaimStands, Settling
  <2>2. PICK g \in TaskAttemptStatus :
           /\ UpdateTaskAttempt(t, n, e, g)
           /\ g \in {"CANCELLATION_REQUESTED", "CANCELLATION_UNCONFIRMED", "CANCELLED",
                     "RUNNING"}
           /\ g = "RUNNING" => e # "REQUIRES_RECONCILIATION"
    BY <2>1 DEF TaskAttemptStatus
  <2>3. /\ taskAttempts[t] # << >> /\ taskAttempts'[t] # << >>
        /\ LastAttempt(t) = e /\ LastAttempt(t)' = g
        /\ e \notin TaskAttemptTerminal
        /\ \A u \in Tasks : u # t => taskAttempts'[u] = taskAttempts[u]
    BY <1>0, <2>2, OnlyLastIsUpdated
  <2>4. g \in TaskAttemptTransitions[e]
    BY <2>2 DEF UpdateTaskAttempt, AttemptUpdateAccepted
  <2>5. e \in RestStatus => g \in RestStatus
    BY <2>2, <2>3, <2>4
    DEF RestStatus, TaskAttemptTransitions, TaskAttemptStatus, TaskAttemptTerminal
  <2>6. \A u \in Tasks : AtRest(u) => AtRest(u)'
    BY <2>3, <2>5 DEF AtRest, LastAttempt
  <2>7. OthersAtRest'
    BY <1>0, <2>6 DEF OthersAtRest
  <2>8. /\ taskAttempts[task] # << >> => taskAttempts'[task] # << >>
        /\ LastAttempt(task)' = LastAttempt(task)
           \/ LastAttempt(task)' # "UNKNOWN_OUTCOME"
    BY <1>0, <2>2, <2>3 DEF LastAttempt
  <2>9. TryIsKnown'
    BY <1>0, <2>8 DEF TryIsKnown
  <2> QED
    BY <2>7, <2>9
<1> QED
  BY <1>1, <1>2 DEF CallOnAttempt

\* A thread that asked keeps its claim; it reads the attempt for one that does
\* not wait for reconciliation, or for one it has just asked to be cancelled.
LEMMA OwnClaimStands ==
    ASSUME TypeOK, NEW c \in Callers, ClaimStands(call[c]), CallOnAttempt(c)
    PROVE  ClaimStands(call[c])'
<1>1. ASSUME call'[c].at \in Claiming
      PROVE  /\ AttemptOf(call[c])' # "REQUIRES_RECONCILIATION"
             /\ Alone => AttemptOf(call[c])' \in
                   TaskAttemptTerminal \cup {"CANCELLATION_REQUESTED", "UNKNOWN_OUTCOME"}
  BY <1>1 DEF CallOnAttempt, KeepsAttempt, ClaimStands, AttemptOf
<1>2. ASSUME call'[c].at \in Settling
      PROVE  call'[c].attempt # "REQUIRES_RECONCILIATION"
  BY <1>2 DEF CallOnAttempt, ClaimStands, Claiming
<1> QED
  BY <1>1, <1>2 DEF ClaimStands, Alone

\* Nor does it take the claim of another thread away.
LEMMA OtherClaimsStand ==
    ASSUME TypeOK, CallsAreReady, NEW c \in Callers, NEW d \in Callers, d # c,
           ClaimStands(call[d]), CallOnAttempt(c)
    PROVE  ClaimStands(call[d])'
<1>0. PICK local \in Calls :
         /\ local = call[d] /\ call'[d] = local
         /\ IsReady(local) /\ ClaimStands(local)
  BY CallType DEF TypeOK, CancellationTypeOK, CallsAreReady, CallOnAttempt
<1>1. ~ Alone
  BY DEF Alone
<1>2. ASSUME local.at \in Claiming
      PROVE  AttemptOf(local)' # "REQUIRES_RECONCILIATION"
  <2>1. /\ local.num \in 1 .. Len(taskAttempts[local.task])
        /\ local.task \in Tasks /\ StoreTypeOK
        /\ AttemptOf(local) # "REQUIRES_RECONCILIATION"
    BY <1>0, <1>2 DEF IsReady, Claiming, OnTheAttempt, ClaimStands, Calls, TypeOK
  <2>2. CASE AskedFor(c)
    <3>1. PICK t \in Tasks, n \in Nat, e \in TaskAttemptStatus :
             \E g \in {"CANCELLATION_REQUESTED", "CANCELLATION_UNCONFIRMED", "CANCELLED",
                       "RUNNING"} : UpdateTaskAttempt(t, n, e, g)
      BY <2>2, CallType DEF AskedFor, Calls, TypeOK, CancellationTypeOK
    <3>2. PICK g \in TaskAttemptStatus :
             UpdateTaskAttempt(t, n, e, g) /\ g # "REQUIRES_RECONCILIATION"
      BY <3>1 DEF TaskAttemptStatus
    <3>3. \/ taskAttempts'[local.task][local.num] = taskAttempts[local.task][local.num]
          \/ taskAttempts'[local.task][local.num] = g
      <4>1. /\ \A u \in Tasks : u # t => taskAttempts'[u] = taskAttempts[u]
            /\ \A m \in 1 .. Len(taskAttempts[t]) :
                  taskAttempts'[t][m] = IF m = n THEN g ELSE taskAttempts[t][m]
        <5>1. StoreTypeOK /\ UpdateTaskAttempt(t, n, e, g)
          BY <2>1, <3>2
        <5> QED
          BY <5>1, AttemptReplaced
      <4>2. CASE local.task = t
        <5>1. local.num \in 1 .. Len(taskAttempts[t])
          BY <2>1, <4>2
        <5>2. taskAttempts'[t][local.num] \in {g, taskAttempts[t][local.num]}
          BY <4>1, <5>1
        <5> QED
          BY <4>2, <5>2
      <4> QED
        BY <2>1, <4>1, <4>2
    <3> QED
      BY <2>1, <3>2, <3>3 DEF AttemptOf
  <2>3. CASE UNCHANGED taskAttempts
    BY <2>1, <2>3 DEF AttemptOf
  <2> QED
    BY <2>2, <2>3 DEF CallOnAttempt
<1> QED
  BY <1>0, <1>1, <1>2 DEF ClaimStands, Alone

\* The program starts with nothing tried and nothing asked for.
LEMMA RestInit == Init => RestInv
<1> SUFFICES ASSUME Init PROVE RestInv
  OBVIOUS
<1> USE DEF Init, InitStore, InitRunLoop, InitCancellation
<1>1. OthersAtRest /\ TryIsKnown
  BY DEF OthersAtRest, AtRest, TryIsKnown, Trying
<1>2. \A c \in Callers : call[c].at = "idle"
  BY DEF NoCall
<1> QED
  BY <1>1, <1>2 DEF RestInv, ClaimStands, Claiming, Settling

\* Every step of every thread keeps RestInv.
LEMMA RestInductive ==
    ASSUME IInv, VInv, Unrivalled, RestInv, [Next]_vars
    PROVE  RestInv'
<1>0. /\ TypeOK /\ AttemptSequence /\ CallsAreReady /\ RunThreadKnows
      /\ OthersAtRest /\ TryIsKnown
  BY DEF IInv, VInv, RecordsAgree, RestInv
<1>1. CASE RunStep
  <2>1. RunThread /\ call' = call
    BY <1>1 DEF RunStep
  <2>2. ASSUME pc' = "raised", UNCHANGED taskAttempts
        PROVE  RestInv'
    BY <2>1, <2>2
    DEF RestInv, OthersAtRest, TryIsKnown, Trying, ClaimStands, AttemptOf, Alone
  <2>3. ASSUME TryEffect
        PROVE  RestInv'
    <3>1. OthersAtRest' /\ TryIsKnown'
      BY <1>0, <2>1, <2>3, EntriesChangeBetweenTries, RunThreadRests
    <3>2. ASSUME NEW c \in Callers
          PROVE  ClaimStands(call[c])'
      <4>1. PICK local \in Calls :
               local = call[c] /\ IsReady(local) /\ ClaimStands(local)
        BY <1>0, CallType DEF TypeOK, CancellationTypeOK, CallsAreReady, RestInv
      <4>2. ClaimStands(local)'
        BY <1>0, <2>3, <4>1, RunThreadHonoursClaims
      <4> QED
        BY <2>1, <4>1, <4>2 DEF ClaimStands, AttemptOf
    <3> QED
      BY <3>1, <3>2 DEF RestInv
  <2> QED
    BY <1>0, <2>1, <2>2, <2>3, TriesEndAtRest
<1>2. ASSUME NEW c \in Callers, CallBegins(c) \/ CallStep(c)
      PROVE  RestInv'
  <2>1. CallOnAttempt(c)
    BY <1>0, <1>2, CallersOnAttempts
  <2>2. ClaimStands(call[c])
    BY DEF RestInv
  <2>3. OthersAtRest' /\ TryIsKnown'
    BY <1>0, <2>1, <2>2, CallersKeepRest
  <2>4. \A d \in Callers : ClaimStands(call[d])'
    BY <1>0, <2>1, OwnClaimStands, OtherClaimsStand DEF RestInv
  <2> QED
    BY <2>3, <2>4 DEF RestInv
<1>3. CASE UNCHANGED vars
  BY <1>3
  DEF vars, store, runLoopVars, RestInv, OthersAtRest, AtRest, LastAttempt, TryIsKnown,
      ClaimStands, AttemptOf, Alone
<1> QED
  BY <1>1, <1>2, <1>3 DEF Next, Stopped

\* A run that returned leaves no attempt live, whatever the plan, the executors
\* and the cancelling threads do, unless two threads cancel under a policy that
\* leaves outcomes to reconciliation: the late answer that one of them gets
\* then makes an attempt RUNNING that nobody runs (cancel_task).
THEOREM ReturnedRunsLeaveNothingLive ==
    ASSUME Unrivalled
    PROVE  Spec => []ReturnedRunHasNoLiveAttempt
<1>1. RestInv => ReturnedRunHasNoLiveAttempt
  BY DEF RestInv, OthersAtRest, AtRest, RestStatus, Trying, ReturnedRunHasNoLiveAttempt
<1>2. IInv /\ VInv /\ RestInv /\ [Next]_vars => RestInv'
  BY RestInductive
<1> QED
  BY <1>1, <1>2, RestInit, Invariant, VerdictInvariant, PTL DEF Spec

-----------------------------------------------------------------------------
(* The record of a run that ended by itself.                               *)

SelfEnded == {"SUCCEEDED", "FAILED", "TIMED_OUT"}

\* The run thread gives such a verdict with its last update, and no attempt was
\* made of a task that was skipped or reused.
EndedRunHasReturned == workflowRun \in SelfEnded => pc = "returned"
SkippedIsUntried ==
    \A t \in Tasks : taskRun[t] \in {"SKIPPED", "REUSED"} => taskAttempts[t] = << >>

ManifestInv == EndedRunHasReturned /\ SkippedIsUntried

\* The run thread returns on its verdict, and no thread gives one besides.
LEMMA OnlyRunEndsItself ==
    ASSUME RunThread
    PROVE  /\ pc # "returned"
           /\ workflowRun' = workflowRun \/ workflowRun' \notin SelfEnded \/ pc' = "returned"
BY DEF RunThread, CreateRun, CreateTask, ReuseTask, ReuseCheckpoint, StartRun,
    SkipReusedTask, EvaluateReadiness, SkipTask, ReadyTask, RunTask, AppendAttempt,
    StartAttempt, RunAttempt, RememberActiveRequest, BeginExecute, EndExecute,
    ForgetActiveRequest, ReloadAttempt, ReloadTask, ReloadRun,
    PersistExternalRunRefs, AppendExternalRef, ExternalRunRefAccepted, CancelTaskRun,
    ListNotStarted, CancelNotStarted,
    NotStartedCancelled, CancelRun, SucceedAttempt, SucceedTask,
    PersistOutputCheckpoint, RecheckRun, EvaluateFailure, UnknownTask, UnknownRun,
    FailTask, FailFast, FailFastSkip, FailRun, AssertTerminalTaskRuns, SucceedRun,
    OnTask, OnAttempt, OnWorkflow, TransitionTask, TransitionAttempt,
    TransitionWorkflow, Raise, CreateWorkflowRun, CreateTaskRun,
    UpdateWorkflowRun, UpdateTaskRun, UpdateTaskAttempt, AppendTaskAttempt,
    AppendExternalRunRef, SetTaskOutputCheckpoint, store, SelfEnded

\* A cancelling thread only cancels the run or gives it up.
LEMMA CallersEndNoRun ==
    ASSUME NEW c \in Callers, CallBegins(c) \/ CallStep(c)
    PROVE  workflowRun' = workflowRun \/ workflowRun' \notin SelfEnded
BY DEF CallBegins, CallStep, BeginCancel, BeginCancelTask, ReadRun, RequestRun,
    ListTasks, NextListed, CancelListed, AllListed, RereadRun, SettleRun, ReadTask,
    CancelPending, ReadAttempts, RequestAttempt, LookUpHandle, AskExecutor,
    ReadAttemptAfter, LoseAttempt, LostReadTask, LoseTask, ReadTaskAfter,
    ListReplyRefs, AppendReplyRef, AfterReplyRefs,
    SettleAttempt, SettleTask, Local, CallRaises, CallTransitionsRun,
    CallTransitionsTask, CallTransitionsAttempt, UpdateWorkflowRun, UpdateTaskRun,
    UpdateTaskAttempt, AppendExternalRunRef, store, SelfEnded

\* The program starts with nothing ended and nothing skipped.
LEMMA ManifestInit == Init => ManifestInv
BY DEF Init, InitStore, ManifestInv, EndedRunHasReturned, SelfEnded, SkippedIsUntried,
       Absent

\* Every step of every thread keeps ManifestInv.
LEMMA ManifestInductive ==
    ASSUME IInv, VInv, ManifestInv, [Next]_vars
    PROVE  ManifestInv'
<1>1. EndedRunHasReturned'
  <2>1. CASE RunStep
    BY <2>1, OnlyRunEndsItself DEF RunStep, ManifestInv, EndedRunHasReturned
  <2>2. ASSUME NEW c \in Callers, CallBegins(c) \/ CallStep(c)
        PROVE  EndedRunHasReturned'
    <3>1. UNCHANGED pc
      BY <2>2, CallersOnAttempts DEF IInv, CallOnAttempt, runThread
    <3> QED
      BY <2>2, <3>1, CallersEndNoRun DEF ManifestInv, EndedRunHasReturned
  <2>3. CASE UNCHANGED vars
    BY <2>3 DEF vars, store, runLoopVars, ManifestInv, EndedRunHasReturned
  <2> QED
    BY <2>1, <2>2, <2>3 DEF Next, Stopped
<1>2. SkippedIsUntried'
  <2>0. DueStep /\ StoreTypeOK /\ AttemptSequence /\ SkippedIsUntried
    BY VerdictStep DEF IInv, TypeOK, VInv, RecordsAgree, ManifestInv
  <2>1. CASE SettlesTask
    <3>1. PICK t \in Tasks, e, g \in TaskRunStatus \cup {Absent} :
             UpdateTaskRun(t, e, g) /\ TaskVerdictIsDue(t, g)
      BY <2>1 DEF SettlesTask
    <3> QED
      BY <2>0, <3>1
      DEF UpdateTaskRun, TaskVerdictIsDue, SkippedIsUntried, StoreTypeOK
  <2>2. CASE SettlesAttempt
    BY <2>0, <2>2, OnlyLastIsUpdated
    DEF SettlesAttempt, UpdateTaskAttempt, SkippedIsUntried
  <2>3. CASE Tries
    BY <2>0, <2>3, TriedIsLast DEF Tries, AppendTaskAttempt, SkippedIsUntried
  <2>4. ASSUME NEW t \in Tasks, CreateTaskRun(t)
        PROVE  SkippedIsUntried'
    BY <2>0, <2>4 DEF CreateTaskRun, SkippedIsUntried, StoreTypeOK
  <2>5. CASE UNCHANGED <<taskRun, taskAttempts>>
    BY <2>0, <2>5 DEF SkippedIsUntried
  <2> QED
    BY <2>0, <2>1, <2>2, <2>3, <2>4, <2>5
    DEF DueStep, DueUpdate, Notes, SettlesRun, CreateWorkflowRun, AppendExternalRunRef,
        SetTaskOutputCheckpoint, UpdateWorkflowRun, store
<1> QED
  BY <1>1, <1>2 DEF ManifestInv

\* A cancelling thread stores references to external runs in one action only.
LEMMA CallersAppendReferences ==
    ASSUME NEW c \in Callers, CallBegins(c) \/ CallStep(c)
    PROVE  externalRefs' = externalRefs \/ AppendReplyRef(c)
BY DEF CallBegins, CallStep, BeginCancel, BeginCancelTask, ReadRun, RequestRun,
    ListTasks, NextListed, CancelListed, AllListed, RereadRun, SettleRun, ReadTask,
    CancelPending, ReadAttempts, RequestAttempt, LookUpHandle, AskExecutor,
    ReadAttemptAfter, LoseAttempt, LostReadTask, LoseTask, ReadTaskAfter,
    ListReplyRefs, SettleAttempt, SettleTask, Local, CallRaises, CallTransitionsRun,
    CallTransitionsTask, CallTransitionsAttempt, UpdateWorkflowRun, UpdateTaskRun,
    UpdateTaskAttempt, store

\* What a straggling thread may still add to a run that ended by itself.
LateReferencesOnly ==
    /\ UNCHANGED <<workflowRun, taskRun, taskAttempts, checkpoints>>
    /\ externalRefs \subseteq externalRefs'
    /\ externalRefs' \subseteq externalRefs \cup LateReferences

\* No straggling thread changes a status, an attempt or an output of a run that
\* ended by itself, and it adds the reference of its reply only.
LEMMA EndedRunStays ==
    ASSUME IInv, VInv, ManifestInv, SettledRunHasSettledTasks, [Next]_vars,
           workflowRun \in SelfEnded
    PROVE  LateReferencesOnly
<1>0. /\ TypeOK /\ StoreTypeOK /\ CallsAreReady /\ CallsKnow
      /\ AttemptSequence /\ TaskMatchesLastAttempt /\ RecordsAgree
      /\ SkippedIsUntried /\ pc = "returned"
  BY DEF IInv, TypeOK, VInv, RecordsAgree, ManifestInv, EndedRunHasReturned
<1>1. \A t \in Tasks : taskRun[t] \in TaskRunTerminal
  BY DEF SettledRunHasSettledTasks, SelfEnded
<1>2. ~ RunStep
  BY <1>0, OnlyRunEndsItself DEF RunStep
<1>3. ASSUME NEW c \in Callers, CallBegins(c) \/ CallStep(c)
      PROVE  LateReferencesOnly
  <2>1. CallerUpdate
    BY <1>0, <1>3, CallerEffects DEF CallEffect
  <2>2. ~ SettlesRun
    BY DEF SettlesRun, UpdateWorkflowRun, WorkflowUpdateAccepted, WorkflowTransitions,
           WorkflowRunStatus, SelfEnded
  <2>3. ASSUME SettlesAttempt PROVE FALSE
    <3>1. PICK t \in Tasks, n \in Nat, e \in TaskAttemptStatus, g \in TaskAttemptStatus :
             UpdateTaskAttempt(t, n, e, g)
      BY <2>3 DEF SettlesAttempt
    <3>2. taskAttempts[t] # << >> /\ LastAttempt(t) \notin TaskAttemptTerminal
      BY <1>0, <3>1, OnlyLastIsUpdated
    <3> QED
      BY <1>0, <1>1, <3>2
      DEF TaskMatchesLastAttempt, SkippedIsUntried, TaskRunTerminal, TaskAttemptTerminal
  <2>4. ASSUME NEW t \in Tasks, NEW e \in TaskRunStatus \cup {Absent}, NEW g,
               UpdateTaskRun(t, e, g)
        PROVE  FALSE
    BY <1>1, <2>4
    DEF UpdateTaskRun, TaskUpdateAccepted, TaskRunTransitions, TaskRunStatus,
        TaskRunTerminal
  <2>5. UNCHANGED <<workflowRun, taskRun, taskAttempts, checkpoints>>
    BY <2>1, <2>2, <2>3, <2>4 DEF CallerUpdate, AppendExternalRunRef, store
  <2>6. CASE AppendReplyRef(c)
    <3>1. <<call[c].task, call[c].num>> \in LateReferences
      BY <2>6 DEF AppendReplyRef, LateReferences
    <3>2. externalRefs' \in
             {externalRefs, externalRefs \cup {<<call[c].task, call[c].num>>}}
      BY <2>6 DEF AppendReplyRef, AppendExternalRunRef, CallRaises, Local, store
    <3> QED
      BY <2>5, <3>1, <3>2 DEF LateReferencesOnly
  <2>7. CASE externalRefs' = externalRefs
    BY <2>5, <2>7 DEF LateReferencesOnly
  <2> QED
    BY <1>3, <2>6, <2>7, CallersAppendReferences
<1>4. CASE UNCHANGED vars
  BY <1>4 DEF vars, store, LateReferencesOnly
<1> QED
  BY <1>2, <1>3, <1>4 DEF Next, Stopped

\* Manifest and lineage built of the same references.
LEMMA SettledManifest ==
    ASSUME UNCHANGED <<workflowRun, taskRun, taskAttempts, checkpoints>>, NEW refs
    PROVE  Manifest(refs)' = Manifest(refs) /\ Lineage(refs)' = Lineage(refs)
BY DEF Manifest, Lineage, ReferencesOf

\* The manifest and the lineage of a run that succeeded, failed or timed out are
\* complete and keep what they say, whatever the cancelling threads still do,
\* but for the reference to an external run that a late reply to a cancellation
\* adds (RunManifestBuilder.build, ExecutionLineageProjector.project,
\* cancel_task).
THEOREM ManifestsAreKept == Spec => TerminalManifestIsKept
<1> DEFINE Kept == (workflowRun \in SelfEnded) =>
              /\ Projectable
              /\ \A refs \in SUBSET externalRefs :
                    Manifest(refs)' = Manifest(refs) /\ Lineage(refs)' = Lineage(refs)
              /\ externalRefs \subseteq externalRefs'
              /\ externalRefs' \subseteq externalRefs \cup LateReferences
<1>1. ASSUME IInv, VInv, ManifestInv, SettledRunHasSettledTasks, [Next]_vars
      PROVE  [Kept]_vars
  <2> SUFFICES ASSUME workflowRun \in SelfEnded
               PROVE  Kept
    OBVIOUS
  <2>1. LateReferencesOnly
    BY <1>1, EndedRunStays
  <2>2. \A t \in Tasks : taskRun[t] \in TaskRunTerminal
    BY <1>1 DEF SettledRunHasSettledTasks, SelfEnded
  <2>3. Projectable
    BY <2>2 DEF Projectable, SelfEnded, Absent, TaskRunTerminal
  <2> QED
    BY <2>1, <2>3, SettledManifest DEF LateReferencesOnly
<1>2. Spec => []ManifestInv
  BY ManifestInit, ManifestInductive, Invariant, VerdictInvariant, PTL DEF Spec
<1> QED
  BY <1>1, <1>2, Invariant, VerdictInvariant, SettledRunIsJustified, PTL
  DEF Spec, TerminalManifestIsKept, SelfEnded

-----------------------------------------------------------------------------
(* An execution goes on only for a task that is still open.                *)

\* The steps of the run thread up to the end of the execution, and the attempt
\* that they are for.
Startable == {"starting", "running", "remember", "execute", "executing"}
Undertaken(t, n) == pc \in Startable /\ t = task /\ n = AttemptNumber

\* Who carries a confirmation has it from the executor, which has stopped.
Confirming ==
    {"after_attempt", "after_task", "reply_refs", "append_ref", "settle_attempt"}
ConfirmationHolds(local) ==
    local.at \in Confirming /\ local.answer = "confirmed" =>
        /\ local.num \in 1 .. Len(taskAttempts[local.task])
        /\ Undertaken(local.task, local.num) => execution = "interrupted"

CancelledIsStopped ==
    pc \in Startable /\ LastAttempt(task) = "CANCELLED" => execution = "interrupted"

StopInv ==
    /\ CancelledIsStopped
    /\ \A c \in Callers : ConfirmationHolds(call[c])

\* Only a thread that asks the executor stops it, and it does so for a
\* confirmation.
LEMMA ExecutorHears ==
    ASSUME TypeOK, NEW c \in Callers, CallBegins(c) \/ CallStep(c)
    PROVE  /\ execution' = execution \/ execution' = "interrupted"
           /\ At(c, "ask_executor") /\ call'[c].answer = "confirmed" =>
                 execution' = "interrupted"
<1>0. call[c] \in Calls /\ call \in [Callers -> Calls]
  BY CallType DEF TypeOK, CancellationTypeOK
<1>1. CASE AskExecutor(c)
  <2>1. PICK reply :
           /\ call' = [call EXCEPT ![c].at = "after_attempt", ![c].answer = reply]
           /\ \/ execution' = IF reply \in {"confirmed", "requested"}
                              THEN "interrupted" ELSE execution
              \/ reply \in LateReplies(call[c].task) /\ UNCHANGED execution
    BY <1>1 DEF AskExecutor
  <2>2. call'[c].answer = reply
    BY <1>0, <2>1 DEF Calls
  <2> QED
    BY <2>1, <2>2 DEF LateReplies
<1>2. CASE ~ AskExecutor(c)
  <2>1. ~ At(c, "ask_executor")
    BY <1>2
    DEF CallBegins, CallStep, BeginCancel, BeginCancelTask, ReadRun, RequestRun,
        ListTasks, NextListed, CancelListed, AllListed, RereadRun, SettleRun, ReadTask,
        CancelPending, ReadAttempts, RequestAttempt, LookUpHandle, ReadAttemptAfter,
        LoseAttempt, LostReadTask, LoseTask, ReadTaskAfter, ListReplyRefs,
        AppendReplyRef, AfterReplyRefs, SettleAttempt, SettleTask,
        At
  <2>2. UNCHANGED execution
    BY <1>2
    DEF CallBegins, CallStep, BeginCancel, BeginCancelTask, ReadRun, RequestRun,
        ListTasks, NextListed, CancelListed, AllListed, RereadRun, SettleRun, ReadTask,
        CancelPending, ReadAttempts, RequestAttempt, LookUpHandle, ReadAttemptAfter,
        LoseAttempt, LostReadTask, LoseTask, ReadTaskAfter, ListReplyRefs,
        AppendReplyRef, AfterReplyRefs, SettleAttempt, SettleTask,
        Local, CallRaises, CallTransitionsRun, CallTransitionsTask,
        CallTransitionsAttempt, executor
  <2> QED
    BY <2>1, <2>2
<1> QED
  BY <1>1, <1>2

\* How the run thread gets to an execution.
LEMMA ExecutionIsStarted ==
    ASSUME RunThread, pc' \in Startable
    PROVE  \/ AppendAttempt \/ StartAttempt \/ RunAttempt
           \/ pc \in {"remember", "execute"} /\ UNCHANGED <<task, taskAttempts>>
BY AfterReloadType
DEF RunThread, CreateRun, CreateTask, ReuseTask, ReuseCheckpoint, StartRun,
    SkipReusedTask, EvaluateReadiness, SkipTask, ReadyTask, RunTask,
    RememberActiveRequest, BeginExecute, EndExecute, ForgetActiveRequest,
    ReloadAttempt, ReloadTask, ReloadRun,
    PersistExternalRunRefs, AppendExternalRef, ExternalRunRefAccepted, CancelTaskRun,
    ListNotStarted, CancelNotStarted,
    NotStartedCancelled, CancelRun, SucceedAttempt, SucceedTask,
    PersistOutputCheckpoint, RecheckRun, EvaluateFailure, UnknownTask, UnknownRun,
    FailTask, FailFast, FailFastSkip, FailRun, AssertTerminalTaskRuns, SucceedRun,
    OnTask, OnAttempt, OnWorkflow, TransitionTask, TransitionAttempt,
    TransitionWorkflow, Raise, NextEntry, NextToCreate, AfterReadiness, AfterDecision,
    Startable, cursor, store

\* The step before an execution leaves the attempt to it, or makes a new one.
LEMMA StartKeepsAttempt ==
    ASSUME TypeOK, AttemptSequence, RunThread, pc' \in Startable, UNCHANGED call
    PROVE  /\ pc # "executing" /\ task' = task
           /\ \/ AppendTaskAttempt(task)
              \/ /\ pc \in Startable
                 /\ Len(taskAttempts'[task]) = Len(taskAttempts[task])
                 /\ \/ taskAttempts' = taskAttempts
                    \/ LastAttempt(task)' \in {"STARTING", "RUNNING"}
<1>0. StoreTypeOK /\ task \in Tasks /\ attemptView \in TaskAttemptStatus /\ AttemptNumber \in Nat
  BY AttemptNumberType DEF TypeOK, RunLoopTypeOK, AttemptNumber
<1>1. CASE AppendAttempt
  BY <1>1 DEF AppendAttempt, Raise, cursor, Startable
<1>2. CASE StartAttempt \/ RunAttempt
  <2>1. PICK g \in {"STARTING", "RUNNING"} :
           /\ task' = task /\ pc \in {"starting", "running"}
           /\ UpdateTaskAttempt(task, AttemptNumber, attemptView, g)
    BY <1>2
    DEF StartAttempt, RunAttempt, OnAttempt, TransitionAttempt, Raise, cursor, Startable
  <2>2. g \in TaskAttemptStatus
    BY DEF TaskAttemptStatus
  <2>3. LastAttempt(task)' = g
    BY <1>0, <2>1, <2>2, OnlyLastIsUpdated DEF LastAttempt
  <2>4. Len(taskAttempts'[task]) = Len(taskAttempts[task])
    BY <1>0, <2>1, <2>2, AttemptReplaced
  <2> QED
    BY <2>1, <2>3, <2>4 DEF Startable
<1>3. CASE pc \in {"remember", "execute"} /\ UNCHANGED <<task, taskAttempts>>
  BY <1>3 DEF Startable
<1> QED
  BY <1>1, <1>2, <1>3, ExecutionIsStarted

\* The run thread starts nothing that is already cancelled.
LEMMA RunThreadKeepsStops ==
    ASSUME IInv, AttemptSequence, ExecutionIsHonest, StopInv, RunThread, UNCHANGED call
    PROVE  StopInv'
<1>0. /\ TypeOK /\ StoreTypeOK /\ task \in Tasks /\ AttemptNumber \in Nat
      /\ \A u \in Tasks : Len(taskAttempts[u]) \in Nat
  BY AttemptNumberType DEF IInv, TypeOK, RunLoopTypeOK, AttemptNumber
<1>s. pc' \in Startable => execution # "interrupted"
  BY <1>0, StartKeepsAttempt DEF ExecutionIsHonest
<1>1. CancelledIsStopped'
  <2> SUFFICES ASSUME pc' \in Startable, LastAttempt(task)' = "CANCELLED" PROVE FALSE
    BY DEF CancelledIsStopped
  <2>1. /\ task' = task
        /\ \/ AppendTaskAttempt(task)
           \/ pc \in Startable /\ taskAttempts' = taskAttempts
    BY <1>0, StartKeepsAttempt
  <2>2. CASE AppendTaskAttempt(task)
    BY <1>0, <2>1, <2>2, TriedIsLast DEF LastAttempt
  <2>3. CASE pc \in Startable /\ taskAttempts' = taskAttempts
    BY <1>s, <2>1, <2>3 DEF StopInv, CancelledIsStopped, LastAttempt
  <2> QED
    BY <2>1, <2>2, <2>3
<1>2. ASSUME NEW c \in Callers
      PROVE  ConfirmationHolds(call[c])'
  <2>1. PICK local \in Calls : local = call[c] /\ call'[c] = local /\ ConfirmationHolds(local)
    BY <1>0, CallType DEF TypeOK, CancellationTypeOK, StopInv
  <2> SUFFICES ASSUME local.at \in Confirming, local.answer = "confirmed"
               PROVE  /\ local.num \in 1 .. Len(taskAttempts'[local.task])
                      /\ Undertaken(local.task, local.num)' => FALSE
    BY <2>1 DEF ConfirmationHolds, Undertaken
  <2>2. local.num \in 1 .. Len(taskAttempts[local.task]) /\ local.task \in Tasks
    BY <2>1 DEF ConfirmationHolds, Calls
  <2>3. StoreStep
    BY <1>0, RunThreadSteps, AppendIsStoreStep DEF IInv, RunThreadMoves, StoreStep
  <2>4. local.num \in 1 .. Len(taskAttempts'[local.task])
    BY <1>0, <2>2, <2>3, SettledStays
  <2>5. ASSUME Undertaken(local.task, local.num)'
        PROVE  FALSE
    <3>1. /\ pc' \in Startable /\ local.task = task /\ task' = task
          /\ local.num = Len(taskAttempts'[task])
      BY <1>0, <2>5, StartKeepsAttempt DEF Undertaken, AttemptNumber
    <3>2. CASE AppendTaskAttempt(task)
      BY <1>0, <2>2, <3>1, <3>2, AttemptAppended
    <3>3. CASE pc \in Startable /\ Len(taskAttempts'[task]) = Len(taskAttempts[task])
      BY <1>s, <2>1, <3>1, <3>3 DEF ConfirmationHolds, Undertaken, AttemptNumber
    <3> QED
      BY <1>0, <3>1, <3>2, <3>3, StartKeepsAttempt
  <2> QED
    BY <2>4, <2>5
<1> QED
  BY <1>1, <1>2 DEF StopInv

\* Nor does a cancelling thread take an attempt for cancelled that goes on.
LEMMA CallersKeepStops ==
    ASSUME TypeOK, CallsAreReady, AttemptSequence, StopInv, NEW c \in Callers,
           CallBegins(c) \/ CallStep(c)
    PROVE  StopInv'
<1>0. /\ StoreTypeOK /\ task \in Tasks /\ call[c] \in Calls /\ IsReady(call[c])
      /\ CallOnAttempt(c) /\ UNCHANGED <<pc, task>> /\ ConfirmationHolds(call[c])
      /\ execution' = execution \/ execution' = "interrupted"
  BY CallType, CallersOnAttempts, ExecutorHears
  DEF TypeOK, RunLoopTypeOK, CancellationTypeOK, CallsAreReady, CallOnAttempt, runThread,
      StopInv
<1>1. UNCHANGED taskAttempts \/ AskedFor(c)
  BY <1>0 DEF CallOnAttempt
<1>2. ASSUME AskedFor(c)
      PROVE  \E t \in Tasks, n \in Nat, e, g \in TaskAttemptStatus :
                /\ UpdateTaskAttempt(t, n, e, g)
                /\ g = "CANCELLED" /\ Undertaken(t, n) => execution = "interrupted"
  <2>1. PICK t \in Tasks, n \in Nat, e \in TaskAttemptStatus :
           t = call[c].task /\ n = call[c].num /\ e = call[c].attempt
    BY <1>0 DEF Calls
  <2>2. PICK g \in TaskAttemptStatus :
           /\ UpdateTaskAttempt(t, n, e, g)
           /\ g = "CANCELLED" =>
                 call[c].at = "settle_attempt" /\ call[c].answer = "confirmed"
    BY <1>2, <2>1 DEF AskedFor, TaskAttemptStatus
  <2> QED
    BY <1>0, <2>1, <2>2 DEF ConfirmationHolds, Confirming
<1>3. \A u \in Tasks : Len(taskAttempts'[u]) = Len(taskAttempts[u])
  <2>1. CASE AskedFor(c)
    <3>1. PICK t \in Tasks, n \in Nat, e \in TaskAttemptStatus, g \in TaskAttemptStatus :
             UpdateTaskAttempt(t, n, e, g)
      BY <1>2, <2>1
    <3>2. /\ Len(taskAttempts'[t]) = Len(taskAttempts[t])
          /\ \A u \in Tasks : u # t => taskAttempts'[u] = taskAttempts[u]
      BY <1>0, <3>1, AttemptReplaced
    <3> QED
      BY <3>2
  <2> QED
    BY <1>1, <2>1
<1>4. CancelledIsStopped'
  <2>1. CASE AskedFor(c)
    <3>1. PICK t \in Tasks, n \in Nat, e \in TaskAttemptStatus, g \in TaskAttemptStatus :
             /\ UpdateTaskAttempt(t, n, e, g)
             /\ g = "CANCELLED" /\ Undertaken(t, n) => execution = "interrupted"
      BY <1>2, <2>1
    <3>2. /\ n = Len(taskAttempts[t]) /\ LastAttempt(t)' = g
          /\ \A u \in Tasks : u # t => taskAttempts'[u] = taskAttempts[u]
      BY <1>0, <3>1, OnlyLastIsUpdated
    <3>3. CASE t = task
      BY <1>0, <3>1, <3>2, <3>3
      DEF StopInv, CancelledIsStopped, LastAttempt, Undertaken, AttemptNumber
    <3>4. CASE t # task
      BY <1>0, <3>2, <3>4 DEF StopInv, CancelledIsStopped, LastAttempt
    <3> QED
      BY <3>3, <3>4
  <2> QED
    BY <1>0, <1>1, <2>1 DEF StopInv, CancelledIsStopped, LastAttempt
<1>5. ConfirmationHolds(call[c])'
  <2> SUFFICES ASSUME call'[c].at \in Confirming, call'[c].answer = "confirmed"
               PROVE  /\ call'[c].num \in 1 .. Len(taskAttempts'[call'[c].task])
                      /\ Undertaken(call[c].task, call[c].num)' => execution' = "interrupted"
    BY DEF ConfirmationHolds, Undertaken
  <2>1. CASE call'[c].at = "after_attempt"
    <3>1. KeepsAttempt(c) /\ At(c, "ask_executor") /\ execution' = "interrupted"
      BY <1>0, <2>1, ExecutorHears DEF CallOnAttempt, Claiming
    <3>2. call[c].num \in 1 .. Len(taskAttempts[call[c].task])
      BY <1>0, <3>1 DEF IsReady, At, OnTheAttempt
    <3> QED
      BY <3>1, <3>2 DEF KeepsAttempt
  <2>2. CASE call'[c].at \in Settling
    <3>1. /\ KeepsAttempt(c) /\ call[c].answer = "confirmed"
          /\ call[c].at \in Confirming
      BY <1>0, <2>2 DEF CallOnAttempt, Settling, Confirming
    <3> QED
      BY <1>0, <3>1 DEF KeepsAttempt, ConfirmationHolds, Undertaken, AttemptNumber
  <2> QED
    BY <2>1, <2>2 DEF Confirming, Settling
<1>6. ASSUME NEW d \in Callers, d # c
      PROVE  ConfirmationHolds(call[d])'
  <2>1. PICK local \in Calls :
           local = call[d] /\ call'[d] = local /\ ConfirmationHolds(local)
    BY <1>0, <1>6, CallType
    DEF TypeOK, CancellationTypeOK, StopInv, CallOnAttempt
  <2>2. local.task \in Tasks
    BY DEF Calls
  <2>3. Undertaken(local.task, local.num)' => Undertaken(local.task, local.num)
    BY <1>0, <1>3 DEF Undertaken, AttemptNumber
  <2> QED
    BY <1>0, <1>3, <2>1, <2>2, <2>3 DEF ConfirmationHolds, Undertaken
<1> QED
  BY <1>4, <1>5, <1>6 DEF StopInv

\* The program starts with nothing executed and nothing confirmed.
LEMMA StopInit == Init => StopInv
<1> SUFFICES ASSUME Init PROVE StopInv
  OBVIOUS
<1>1. CancelledIsStopped
  BY DEF Init, InitRunLoop, CancelledIsStopped, Startable
<1>2. \A c \in Callers : call[c].at = "idle"
  BY DEF Init, InitCancellation, NoCall
<1> QED
  BY <1>1, <1>2 DEF StopInv, ConfirmationHolds, Confirming

\* Every step of every thread keeps StopInv.
LEMMA StopInductive ==
    ASSUME IInv, VInv, HonestInv, StopInv, [Next]_vars
    PROVE  StopInv'
<1>0. TypeOK /\ CallsAreReady /\ AttemptSequence /\ ExecutionIsHonest
  BY DEF IInv, VInv, RecordsAgree, HonestInv
<1>1. CASE RunStep
  BY <1>0, <1>1, RunThreadKeepsStops DEF RunStep
<1>2. CASE \E c \in Callers : CallBegins(c) \/ CallStep(c)
  BY <1>0, <1>2, CallersKeepStops
<1>3. CASE UNCHANGED vars
  BY <1>3
  DEF vars, store, runLoopVars, StopInv, CancelledIsStopped, ConfirmationHolds,
      Undertaken, AttemptNumber, LastAttempt
<1> QED
  BY <1>1, <1>2, <1>3 DEF Next, Stopped

\* An attempt whose handler is at work is not cancelled, and its task is open.
LEMMA WorkIsOpen ==
    ASSUME IInv, VInv, HonestInv, StopInv, execution = "executing"
    PROVE  pc = "executing" /\ taskRun[task] \notin TaskRunTerminal
<1>1. pc = "executing" /\ task \in Tasks
  BY DEF HonestInv, ExecutionIsHonest, IInv, TypeOK, RunLoopTypeOK
<1>2. taskAttempts[task] # << >> /\ LastAttempt(task) # "CANCELLED"
  BY <1>1
  DEF IInv, InFlightHasAttempt, InFlight, StopInv, CancelledIsStopped, Startable
<1>3. taskRun[task] \in {"RUNNING", "UNKNOWN_OUTCOME"}
  BY <1>1, <1>2
  DEF VInv, RunThreadKnows, TaskUnderWay, Working, RecordsAgree, TaskMatchesLastAttempt
<1> QED
  BY <1>1, <1>3 DEF TaskRunTerminal

-----------------------------------------------------------------------------
(* What an assessment knows while it reads on.  Every task that had an     *)
(* attempt when it began was listed; of those that it has passed, one sort *)
(* made it ask for recovery, and the others were over, and stay so.        *)

WorkFound == {"requires_reconciliation", "manual_required"}
Assessing == {"each", "read_attempts", "read_refs"}

InspectionKnows(local) ==
    /\ local.at # "idle" => \A t \in local.begun : taskAttempts[t] # << >>
    /\ local.at # "idle" /\ local.run \in SelfEnded => pc = "returned"
    /\ local.at \in Assessing =>
          \/ local.found \cap WorkFound # {}
          \/ \A t \in local.begun \ local.todo : taskRun[t] \in TaskRunTerminal
    /\ local.at = "answered" =>
          /\ local.answer = "ready" =>
                \A t \in local.begun : taskRun[t] \in TaskRunTerminal
          /\ local.answer = "no_action" => local.run \in WorkflowTerminal

InspectedInv ==
    InspectionTypeOK /\ \A i \in Inspectors : InspectionKnows(inspection[i])

\* What it knows survives whatever the threads do.
LEMMA InspectionKnowledgeStays ==
    ASSUME IInv, VInv, ManifestInv, [Next]_vars, NEW local \in Inspections,
           InspectionKnows(local)
    PROVE  InspectionKnows(local)'
<1>0. StoreTypeOK /\ StoreStep
  BY VerdictStep, DueStepIsStoreStep DEF IInv, TypeOK
<1>1. \A t \in Tasks :
         /\ taskRun[t] \in TaskRunTerminal => taskRun'[t] = taskRun[t]
         /\ taskAttempts[t] # << >> => taskAttempts'[t] # << >>
  BY <1>0, SettledStays
<1>2. pc = "returned" => pc' = "returned"
  <2>1. CASE RunStep
    BY <2>1, OnlyRunEndsItself DEF RunStep
  <2>2. ASSUME NEW c \in Callers, CallBegins(c) \/ CallStep(c)
        PROVE  UNCHANGED pc
    BY <2>2, CallersOnAttempts DEF IInv, CallOnAttempt, runThread
  <2>3. CASE UNCHANGED vars
    BY <2>3 DEF vars, runLoopVars
  <2> QED
    BY <2>1, <2>2, <2>3 DEF Next, Stopped
<1>3. local.begun \subseteq Tasks
  BY DEF Inspections
<1> QED
  BY <1>1, <1>2, <1>3 DEF InspectionKnows

\* The steps of an assessment.
LEMMA InspectionStepKnows ==
    ASSUME IInv, VInv, ManifestInv, InspectedInv, NEW i \in Inspectors,
           InspectionStep(i), UNCHANGED vars
    PROVE  \E local \in Inspections :
              InspectionKnows(local)' /\ inspection' = [inspection EXCEPT ![i] = local]
<1> DEFINE old == inspection[i]
<1>0. /\ old \in Inspections /\ InspectionKnows(old) /\ old.begun \subseteq Tasks
      /\ StoreTypeOK /\ QueuedTasksAreUntried
  BY DEF InspectedInv, InspectionTypeOK, Inspections, IInv, TypeOK, VInv, RecordsAgree
<1>u. UNCHANGED <<taskRun, taskAttempts, pc>>
  BY DEF vars, store, runLoopVars
<1>s. ASSUME NEW local \in Inspections, InspectionKnows(local), Continues(i, local)
      PROVE  \E known \in Inspections :
                InspectionKnows(known)' /\ inspection' = [inspection EXCEPT ![i] = known]
  <2>1. InspectionKnows(local)'
    BY <1>s, <1>u DEF InspectionKnows
  <2> QED
    BY <1>s, <2>1 DEF Continues
<1>f. ASSUME NEW t \in Tasks, NEW d \in RecoveryDisposition, old.at \in Assessing,
             \/ d \in WorkFound
             \/ t \in old.begun => taskRun[t] \in TaskRunTerminal,
             Continues(i, Finds(i, t, d))
      PROVE  \E known \in Inspections :
                InspectionKnows(known)' /\ inspection' = [inspection EXCEPT ![i] = known]
  <2> DEFINE local == Finds(i, t, d)
  <2>1. 1 \in Tasks /\ "PENDING" \in TaskAttemptStatus
    BY TaskCountIsPositive DEF Tasks, TaskAttemptStatus
  <2>2. /\ local \in Inspections /\ local.at = "each"
        /\ local.run = old.run /\ local.begun = old.begun
        /\ local.found = old.found \cup {d} /\ local.todo = old.todo \ {t}
    BY <1>0, <2>1 DEF Finds, InspectsNext, Inspections, InspectionSteps
  <2> HIDE DEF local
  <2>3. InspectionKnows(local)
    BY <1>0, <1>f, <2>2 DEF InspectionKnows, Assessing
  <2> QED
    BY <1>f, <1>s, <2>2, <2>3 DEF local
<1>1. CASE BeginInspection(i)
  <2> DEFINE begun == {t \in Tasks : taskAttempts[t] # << >>}
             local == [InspectsNext(i, "list") EXCEPT
                         !.run = workflowRun, !.begun = begun]
  <2>1. /\ local \in Inspections /\ local.at = "list"
        /\ local.run = workflowRun /\ local.begun = begun
    BY <1>0 DEF InspectsNext, Inspections, InspectionSteps, StoreTypeOK
  <2>2. Continues(i, local)
    BY <1>1 DEF BeginInspection
  <2> HIDE DEF local
  <2>3. InspectionKnows(local)
    BY <2>1 DEF InspectionKnows, Assessing, ManifestInv, EndedRunHasReturned
  <2> QED
    BY <1>s, <2>1, <2>2, <2>3
<1>2. CASE ListInspected(i)
  <2> DEFINE created == {t \in Tasks : taskRun[t] # Absent}
             local == [InspectsNext(i, "each") EXCEPT !.todo = created]
  <2>1. /\ local \in Inspections /\ local.at = "each" /\ local.todo = created
        /\ local.run = old.run /\ local.begun = old.begun
    BY <1>0 DEF InspectsNext, Inspections, InspectionSteps
  <2>2. Continues(i, local)
    BY <1>2 DEF ListInspected
  <2>3. old.at = "list" /\ old.begun \subseteq created
    BY <1>0, <1>2 DEF ListInspected, Inspects, InspectionKnows, QueuedTasksAreUntried
  <2> HIDE DEF local, created
  <2>4. InspectionKnows(local)
    BY <1>0, <2>1, <2>3 DEF InspectionKnows, Assessing
  <2> QED
    BY <1>s, <2>1, <2>2, <2>4
<1>3. CASE InspectTask(i)
  <2>1. PICK t \in Tasks :
           Continues(i, IF taskRun[t] \in TaskRunTerminal THEN Finds(i, t, "no_action")
                        ELSE [InspectsNext(i, "read_attempts") EXCEPT !.task = t])
    BY <1>3 DEF InspectTask
  <2>2. old.at = "each"
    BY <1>3 DEF InspectTask, Inspects
  <2>3. CASE taskRun[t] \in TaskRunTerminal
    BY <1>f, <2>1, <2>2, <2>3 DEF RecoveryDisposition, Assessing
  <2>4. CASE taskRun[t] \notin TaskRunTerminal
    <3> DEFINE local == [InspectsNext(i, "read_attempts") EXCEPT !.task = t]
    <3>1. /\ local \in Inspections /\ local.at = "read_attempts"
          /\ local.todo = old.todo /\ local.found = old.found
          /\ local.run = old.run /\ local.begun = old.begun
      BY <1>0 DEF InspectsNext, Inspections, InspectionSteps
    <3>2. Continues(i, local)
      BY <2>1, <2>4
    <3> HIDE DEF local
    <3>3. InspectionKnows(local)
      BY <1>0, <2>2, <3>1 DEF InspectionKnows, Assessing
    <3> QED
      BY <1>s, <3>1, <3>2, <3>3
  <2> QED
    BY <2>3, <2>4
<1>4. CASE InspectAttempts(i)
  <2> DEFINE t == old.task
  <2>1. t \in Tasks /\ old.at = "read_attempts"
    BY <1>0, <1>4 DEF InspectAttempts, Inspects, Inspections
  <2>2. CASE taskAttempts[t] = << >>
    <3>1. t \notin old.begun /\ Continues(i, Finds(i, t, "ready"))
      BY <1>0, <1>4, <2>1, <2>2 DEF InspectAttempts, InspectionKnows
    <3> QED
      BY <1>f, <2>1, <3>1 DEF RecoveryDisposition, Assessing
  <2>3. CASE taskAttempts[t] # << >>
    <3> DEFINE n == Len(taskAttempts[t])
               local == [InspectsNext(i, "read_refs") EXCEPT
                           !.latest = taskAttempts[t][n], !.num = n]
    <3>1. n \in Nat /\ taskAttempts[t][n] \in TaskAttemptStatus
      BY <1>0, <2>1, <2>3, AttemptNumberType, LastAttemptType DEF LastAttempt
    <3>2. /\ local \in Inspections /\ local.at = "read_refs"
          /\ local.todo = old.todo /\ local.found = old.found
          /\ local.run = old.run /\ local.begun = old.begun
      BY <1>0, <3>1 DEF InspectsNext, Inspections, InspectionSteps
    <3>3. Continues(i, local)
      BY <1>4, <2>3 DEF InspectAttempts
    <3> HIDE DEF local
    <3>4. InspectionKnows(local)
      BY <1>0, <2>1, <3>2 DEF InspectionKnows, Assessing
    <3> QED
      BY <1>s, <3>2, <3>3, <3>4
  <2> QED
    BY <2>2, <2>3
<1>5. CASE InspectReferences(i)
  <2>1. PICK d \in WorkFound : Continues(i, Finds(i, old.task, d))
    BY <1>5 DEF InspectReferences, TaskDisposition, WorkFound
  <2>2. old.task \in Tasks /\ old.at = "read_refs" /\ d \in RecoveryDisposition
    BY <1>0, <1>5
    DEF InspectReferences, Inspects, Inspections, WorkFound, RecoveryDisposition
  <2> QED
    BY <1>f, <2>1, <2>2 DEF Assessing
<1>6. CASE AnswerInspection(i)
  <2> DEFINE answer == Disposition(old.run, old.found)
             local == [NoInspection EXCEPT !.at = "answered", !.run = old.run,
                                           !.begun = old.begun, !.answer = answer]
  <2>1. 1 \in Tasks /\ "PENDING" \in TaskAttemptStatus
    BY TaskCountIsPositive DEF Tasks, TaskAttemptStatus
  <2>2. answer \in RecoveryDisposition
    BY DEF Disposition, RecoveryDisposition
  <2>3. /\ local \in Inspections /\ local.at = "answered" /\ local.answer = answer
        /\ local.run = old.run /\ local.begun = old.begun
    BY <1>0, <2>1, <2>2 DEF NoInspection, Inspections, InspectionSteps
  <2>4. Continues(i, local) /\ old.at = "each" /\ old.todo = {}
    BY <1>6 DEF AnswerInspection, Inspects
  <2>5. /\ answer = "ready" => old.found \cap WorkFound = {}
        /\ answer = "no_action" => old.run \in WorkflowTerminal
    BY DEF Disposition, WorkFound
  <2> HIDE DEF local, answer
  <2>6. InspectionKnows(local)
    BY <1>0, <2>3, <2>4, <2>5 DEF InspectionKnows, Assessing
  <2> QED
    BY <1>s, <2>3, <2>4, <2>6
<1> QED
  BY <1>1, <1>2, <1>3, <1>4, <1>5, <1>6 DEF InspectionStep

\* Every step, of an assessment or of those that it watches.
LEMMA InspectionInductive ==
    ASSUME IInv, VInv, ManifestInv, InspectedInv, [InspectedNext]_inspectedVars
    PROVE  InspectedInv'
<1>1. CASE [Next]_vars /\ UNCHANGED inspection
  <2>1. InspectionTypeOK'
    BY <1>1 DEF InspectedInv, InspectionTypeOK
  <2>2. ASSUME NEW i \in Inspectors
        PROVE  InspectionKnows(inspection[i])'
    <3>1. PICK local \in Inspections : local = inspection[i] /\ InspectionKnows(local)
      BY DEF InspectedInv, InspectionTypeOK
    <3>2. InspectionKnows(local)'
      BY <1>1, <3>1, InspectionKnowledgeStays
    <3> QED
      BY <1>1, <3>1, <3>2
  <2> QED
    BY <2>1, <2>2 DEF InspectedInv
<1>2. ASSUME NEW i \in Inspectors, InspectionStep(i), UNCHANGED vars
      PROVE  InspectedInv'
  <2>1. PICK local \in Inspections :
           InspectionKnows(local)' /\ inspection' = [inspection EXCEPT ![i] = local]
    BY <1>2, InspectionStepKnows
  <2>2. InspectionTypeOK'
    BY <2>1 DEF InspectedInv, InspectionTypeOK
  <2>3. ASSUME NEW j \in Inspectors
        PROVE  InspectionKnows(inspection[j])'
    <3>1. CASE j = i
      BY <2>1, <3>1 DEF InspectedInv, InspectionTypeOK
    <3>2. CASE j # i
      <4>1. PICK other \in Inspections :
               /\ other = inspection[j] /\ inspection'[j] = other
               /\ InspectionKnows(other)
        BY <2>1, <3>2 DEF InspectedInv, InspectionTypeOK
      <4>2. InspectionKnows(other)'
        BY <1>2, <4>1, InspectionKnowledgeStays
      <4> QED
        BY <4>1, <4>2
    <3> QED
      BY <3>1, <3>2
  <2> QED
    BY <2>2, <2>3 DEF InspectedInv
<1> QED
  BY <1>1, <1>2 DEF InspectedNext, inspectedVars

\* No assessment has begun.
LEMMA InspectionInit == InitInspection => InspectedInv
<1> SUFFICES ASSUME InitInspection PROVE InspectedInv
  OBVIOUS
<1>1. 1 \in Tasks /\ "PENDING" \in TaskAttemptStatus
  BY TaskCountIsPositive DEF Tasks, TaskAttemptStatus
<1>2. NoInspection \in Inspections /\ NoInspection.at = "idle"
  BY <1>1 DEF NoInspection, Inspections, InspectionSteps, RecoveryDisposition
<1>3. InspectionKnows(NoInspection)
  BY <1>2 DEF InspectionKnows, Assessing
<1> QED
  BY <1>2, <1>3 DEF InitInspection, InspectedInv, InspectionTypeOK

\* An assessment does not call a run ready whose handler was at work when it
\* began, nor over unless it was cancelled, whatever its reads, spread over many
\* steps of the threads, have met meanwhile (RecoveryInspector.assess).
THEOREM InspectionsSeeWork == InspectedSpec => []InspectionSeesWork
<1>1. InspectedSpec => Spec
  <2>1. [InspectedNext]_inspectedVars => [Next]_vars
    BY DEF InspectedNext, inspectedVars
  <2> QED
    BY <2>1, PTL DEF InspectedSpec, InspectedInit, Spec
<1>2. InspectedSpec => []InspectedInv
  <2>1. Spec => []ManifestInv
    BY ManifestInit, ManifestInductive, Invariant, VerdictInvariant, PTL DEF Spec
  <2>2. IInv /\ VInv /\ ManifestInv /\ InspectedInv
        /\ [InspectedNext]_inspectedVars => InspectedInv'
    BY InspectionInductive
  <2> QED
    BY <1>1, <2>1, <2>2, InspectionInit, Invariant, VerdictInvariant, PTL
    DEF InspectedSpec, InspectedInit
<1>3. Spec => [](HonestInv /\ StopInv)
  <2>1. Spec => []HonestInv
    BY HonestInit, HonestInductive, Invariant, PTL DEF Spec
  <2>2. IInv /\ VInv /\ HonestInv /\ StopInv /\ [Next]_vars => StopInv'
    BY StopInductive
  <2> QED
    BY <2>1, <2>2, StopInit, Invariant, VerdictInvariant, PTL DEF Spec
<1>4. ASSUME IInv, VInv, HonestInv, StopInv, InspectedInv
      PROVE  InspectionSeesWork
  <2> SUFFICES ASSUME NEW i \in Inspectors, inspection[i].at = "answered",
                      execution = "executing"
               PROVE  CASE inspection[i].answer = "ready" -> task \notin inspection[i].begun
                        [] inspection[i].answer = "no_action" ->
                              inspection[i].run = "CANCELLED"
                        [] OTHER -> TRUE
    BY DEF InspectionSeesWork, Inspects
  <2>1. pc = "executing" /\ taskRun[task] \notin TaskRunTerminal
    BY <1>4, WorkIsOpen
  <2>2. InspectionKnows(inspection[i])
    BY <1>4 DEF InspectedInv
  <2>3. inspection[i].answer = "ready" => task \notin inspection[i].begun
    BY <2>1, <2>2 DEF InspectionKnows
  <2>4. inspection[i].answer = "no_action" => inspection[i].run = "CANCELLED"
    BY <2>1, <2>2 DEF InspectionKnows, WorkflowTerminal, SelfEnded
  <2> QED
    BY <2>3, <2>4
<1> QED
  BY <1>1, <1>2, <1>3, <1>4, Invariant, VerdictInvariant, PTL

-----------------------------------------------------------------------------
(* A run that nobody cancels.                                              *)

\* The backoff of the last retry that the policy allows still fits a float.
NothingOverflows ==
    Policy.backoff_strategy = "exponential" => Policy.max_attempts <= FloatExponentLimit + 1

\* What the thread has seen of its records is how they still are, and no step
\* leads where only a cancellation leads.
Waiting(t) == taskRun[t] = IF t \in reused THEN "REUSED" ELSE "PENDING"

Cancelling == {"cancel_task", "cancel_scan", "cancel_each", "cancel_run"}
OnTheTask == {"reuse", "skip", "ready", "fail_fast_skip", "run"} \cup (Working \ Cancelling)

TaskStatusAt(step) ==
    CASE step \in {"reuse", "skip", "ready", "fail_fast_skip"} -> "PENDING"
      [] step = "run" -> "READY"
      [] OTHER -> "RUNNING"
AttemptStatusAt(step) ==
    CASE step = "starting" -> "PENDING"
      [] step = "running" -> "STARTING"
      [] OTHER -> "RUNNING"

\* A cancellation that an executor reports of its own is a failure that the
\* policy may pass on or that strands the run.
ReferenceIsNew == pc = "append_ref" => ExternalRunRefAccepted(task, AttemptNumber)

NobodyCancels ==
    /\ pc \notin Cancelling
    /\ pc \in {"fail_task"} \cup Failing => result.failure.category # "cancelled"
    /\ ReferenceIsNew /\ RaisesOnlyStranded
RunIsAsSeen ==
    /\ pc = "create_run" => workflowRun = Absent /\ runView = "PENDING"
    /\ pc \in Creating \cup {"start"} => workflowRun = "PENDING" /\ runView = "PENDING"
    /\ pc \notin Creating \cup {"create_run", "start", "returned"} =>
          workflowRun = "RUNNING" /\ runView = "RUNNING"
    /\ ReturnedRunIsSettled
PlanWaits ==
    /\ pc \in {"create_run", "create_task"} => taskRun[task] = Absent
    /\ pc \in {"create_run"} \cup Creating =>
          \A t \in task + 1 .. TaskCount : taskRun[t] = Absent
    /\ pc \in Creating => \A t \in 1 .. task - 1 : Waiting(t)
    /\ pc \in {"start", "next_task"} => Waiting(task)
    /\ pc \in {"start", "next_task", "fail_fast", "fail_fast_skip"} \cup Visiting =>
          \A t \in task + 1 .. TaskCount : Waiting(t)
TaskIsAsSeen ==
    pc \in OnTheTask => taskRun[task] = TaskStatusAt(pc) /\ taskView = TaskStatusAt(pc)
AttemptIsAsSeen ==
    /\ pc = "append" /\ taskAttempts[task] # << >> =>
          LastAttempt(task) \in {"FAILED", "TIMED_OUT"}
    /\ pc \in Trying =>
          /\ taskAttempts[task] # << >>
          /\ LastAttempt(task) = AttemptStatusAt(pc) /\ attemptView = AttemptStatusAt(pc)

UndisturbedInv ==
    /\ NobodyCancels /\ RunIsAsSeen /\ PlanWaits /\ TaskIsAsSeen /\ AttemptIsAsSeen

\* An update of the task run as the thread has seen it is accepted.
LEMMA TaskGoesOn ==
    ASSUME TypeOK, NEW step \in OnTheTask, NEW target, NEW next,
           OnTask(step, target, next), TaskIsAsSeen,
           target \in TaskRunTransitions[TaskStatusAt(step)]
    PROVE  /\ pc' = next /\ taskView' = target
           /\ taskRun' = [taskRun EXCEPT ![task] = target]
           /\ UNCHANGED <<workflowRun, runView, taskAttempts, attemptView, task, reused,
                          result, execution>>
<1>1. /\ pc = step /\ taskRun[task] = TaskStatusAt(step) /\ taskView = TaskStatusAt(step)
      /\ taskView # Absent
  BY DEF OnTask, TaskIsAsSeen, TaskStatusAt, Absent
<1>2. TaskUpdateAccepted(task, taskView, target)
  BY <1>1 DEF TaskUpdateAccepted
<1>3. TransitionTask(task, target, next) /\ UNCHANGED <<cursor, result, executor>>
  BY DEF OnTask
<1> QED
  BY <1>2, <1>3 DEF TransitionTask, UpdateTaskRun, cursor, executor

\* So is an update of the attempt.
LEMMA AttemptGoesOn ==
    ASSUME TypeOK, NEW step \in Trying, NEW target \in TaskAttemptStatus, NEW next,
           AttemptIsAsSeen, pc = step, TransitionAttempt(target, next),
           UNCHANGED <<cursor, result, executor>>,
           target \in TaskAttemptTransitions[AttemptStatusAt(step)]
    PROVE  /\ pc' = next /\ attemptView' = target
           /\ taskAttempts'[task] # << >> /\ LastAttempt(task)' = target
           /\ UNCHANGED <<workflowRun, runView, taskRun, taskView, task, reused, result,
                          execution>>
<1>0. /\ StoreTypeOK /\ task \in Tasks /\ attemptView \in TaskAttemptStatus
      /\ AttemptNumber \in Nat
  BY AttemptNumberType DEF TypeOK, RunLoopTypeOK, AttemptNumber
<1>1. /\ taskAttempts[task] # << >> /\ LastAttempt(task) = attemptView
      /\ attemptView = AttemptStatusAt(step)
  BY DEF AttemptIsAsSeen
<1>2. AttemptNumber \in DOMAIN taskAttempts[task]
  <2>1. Len(taskAttempts[task]) \in Nat \ {0}
    BY <1>0, <1>1, LastIsLast
  <2>2. taskAttempts[task] \in Seq(TaskAttemptStatus)
    BY <1>0 DEF StoreTypeOK
  <2> QED
    BY <2>1, <2>2, LenProperties DEF AttemptNumber
<1>3. AttemptUpdateAccepted(task, AttemptNumber, attemptView, target)
  BY <1>1, <1>2 DEF AttemptUpdateAccepted, LastAttempt, AttemptNumber
<1>4. /\ UpdateTaskAttempt(task, AttemptNumber, attemptView, target)
      /\ attemptView' = target /\ pc' = next /\ UNCHANGED <<runView, taskView>>
  BY <1>3 DEF TransitionAttempt
<1>5. Len(taskAttempts'[task]) = AttemptNumber /\ taskAttempts'[task][AttemptNumber] = target
  <2>1. /\ Len(taskAttempts'[task]) = Len(taskAttempts[task])
        /\ AttemptNumber \in 1 .. Len(taskAttempts[task])
        /\ taskAttempts'[task][AttemptNumber] = target
    BY <1>0, <1>4, AttemptReplaced
  <2> QED
    BY <2>1 DEF AttemptNumber
<1>6. Len(taskAttempts'[task]) # 0
  BY <1>0, <1>1, <1>5, LastIsLast DEF AttemptNumber
<1> QED
  BY <1>4, <1>5, <1>6, EmptySeq
  DEF UpdateTaskAttempt, cursor, executor, LastAttempt

\* And one of the run.
LEMMA RunGoesOn ==
    ASSUME RunIsAsSeen, NEW step, NEW target, NEW next, OnWorkflow(step, target, next),
           \/ step = "start" /\ target = "RUNNING"
           \/ step \in {"unknown_run", "fail_run", "succeed_run"}
              /\ target \in WorkflowTransitions["RUNNING"]
    PROVE  /\ pc' = next /\ runView' = target /\ workflowRun' = target
           /\ UNCHANGED <<taskRun, taskView, taskAttempts, attemptView, task, reused,
                          result, execution>>
<1>1. WorkflowUpdateAccepted(runView, target)
  BY DEF OnWorkflow, RunIsAsSeen, WorkflowUpdateAccepted, Creating, Absent,
         WorkflowTransitions, WorkflowRunStatus
<1>2. TransitionWorkflow(target, next) /\ UNCHANGED <<cursor, result, executor>>
  BY DEF OnWorkflow
<1> QED
  BY <1>1, <1>2 DEF TransitionWorkflow, UpdateWorkflowRun, cursor, executor

\* The records of the run are created as planned.
LEMMA CreationIsUndisturbed ==
    ASSUME TypeOK, RunThreadKnows, UndisturbedInv,
           \/ CreateRun \/ CreateTask \/ ReuseTask \/ ReuseCheckpoint \/ StartRun
    PROVE  UndisturbedInv'
<1>0. /\ StoreTypeOK /\ task \in Tasks /\ TaskCount \in Nat \ {0}
      /\ taskRun \in [Tasks -> TaskRunStatus \cup {Absent}]
      /\ \A t \in Tasks : t \in Nat
  BY TaskCountIsPositive DEF TypeOK, RunLoopTypeOK, StoreTypeOK, Tasks
<1> USE DEF UndisturbedInv, NobodyCancels, Cancelling, ReferenceIsNew, RaisesOnlyStranded,
            RunIsAsSeen, ReturnedRunIsSettled, Creating, Visiting, Working, Failing,
            OnTheTask, Trying
<1>1. CASE CreateRun
  <2>1. PlanWaits'
    BY <1>0, <1>1 DEF CreateRun, CreateWorkflowRun, PlanWaits, RunThreadKnows,
                      PlanIsCreated, cursor
  <2>2. NobodyCancels' /\ RunIsAsSeen' /\ TaskIsAsSeen' /\ AttemptIsAsSeen'
    BY <1>1 DEF CreateRun, CreateWorkflowRun, TaskIsAsSeen, AttemptIsAsSeen, views, cursor,
                executor
  <2> QED
    BY <2>1, <2>2
<1>2. CASE CreateTask
  <2>1. /\ taskRun' = [taskRun EXCEPT ![task] = "PENDING"]
        /\ UNCHANGED <<workflowRun, runView, taskAttempts, attemptView, reused, result,
                       execution>>
        /\ pc = "create_task" /\ taskView' = "PENDING"
        /\ \/ task \in reused /\ pc' = "reuse" /\ UNCHANGED task
           \/ task \notin reused /\ NextToCreate(task)
    BY <1>2 DEF CreateTask, CreateTaskRun, executor
  <2>2. PlanWaits'
    BY <1>0, <2>1 DEF NextToCreate, PlanWaits, Waiting, Tasks
  <2>3. NobodyCancels' /\ RunIsAsSeen' /\ TaskIsAsSeen' /\ AttemptIsAsSeen'
    BY <1>0, <2>1 DEF NextToCreate, TaskIsAsSeen, TaskStatusAt, AttemptIsAsSeen
  <2> QED
    BY <2>2, <2>3
<1>3. CASE ReuseTask
  <2>1. /\ pc = "reuse" /\ pc' = "reuse_checkpoint"
        /\ taskRun' = [taskRun EXCEPT ![task] = "REUSED"]
        /\ UNCHANGED <<workflowRun, runView, taskAttempts, attemptView, task, reused,
                       result, execution>>
    BY <1>3, TaskGoesOn
    DEF ReuseTask, OnTask, TaskStatusAt, TaskRunTransitions, TaskRunStatus
  <2>2. PlanWaits'
    BY <1>0, <2>1 DEF PlanWaits, Waiting, Tasks
  <2>3. NobodyCancels' /\ RunIsAsSeen' /\ TaskIsAsSeen' /\ AttemptIsAsSeen'
    BY <2>1 DEF TaskIsAsSeen, AttemptIsAsSeen
  <2> QED
    BY <2>2, <2>3
<1>4. CASE ReuseCheckpoint
  <2>1. /\ pc = "reuse_checkpoint" /\ taskRun[task] = "REUSED" /\ task \in reused
        /\ NextToCreate(task)
        /\ UNCHANGED <<workflowRun, taskRun, runView, taskAttempts, attemptView, taskView,
                       reused, result, execution>>
    BY <1>4 DEF ReuseCheckpoint, SetTaskOutputCheckpoint, views, executor, RunThreadKnows,
                PlanIsCreated
  <2>2. PlanWaits'
    BY <1>0, <2>1 DEF NextToCreate, PlanWaits, Waiting, Tasks
  <2>3. NobodyCancels' /\ RunIsAsSeen' /\ TaskIsAsSeen' /\ AttemptIsAsSeen'
    BY <2>1 DEF NextToCreate, TaskIsAsSeen, AttemptIsAsSeen
  <2> QED
    BY <2>2, <2>3
<1>5. CASE StartRun
  <2>1. /\ pc = "start" /\ pc' = "next_task" /\ runView' = "RUNNING"
        /\ workflowRun' = "RUNNING"
        /\ UNCHANGED <<taskRun, taskView, taskAttempts, attemptView, task, reused, result,
                       execution>>
    BY <1>5, RunGoesOn DEF StartRun, OnWorkflow
  <2>2. PlanWaits'
    BY <1>0, <2>1 DEF PlanWaits, Waiting
  <2>3. NobodyCancels' /\ RunIsAsSeen' /\ TaskIsAsSeen' /\ AttemptIsAsSeen'
    BY <2>1 DEF TaskIsAsSeen, AttemptIsAsSeen
  <2> QED
    BY <2>2, <2>3
<1> QED
  BY <1>1, <1>2, <1>3, <1>4, <1>5

\* The plan is visited entry by entry.
LEMMA VisitIsUndisturbed ==
    ASSUME TypeOK, RunThreadKnows, UndisturbedInv, RecordsAgree,
           \/ SkipReusedTask \/ EvaluateReadiness \/ SkipTask \/ ReadyTask \/ RunTask
           \/ PersistOutputCheckpoint \/ RecheckRun
    PROVE  UndisturbedInv'
<1>0. /\ StoreTypeOK /\ task \in Tasks /\ TaskCount \in Nat \ {0}
      /\ taskRun \in [Tasks -> TaskRunStatus \cup {Absent}]
      /\ \A t \in Tasks : t \in Nat
      /\ task < TaskCount \/ task = TaskCount
  BY TaskCountIsPositive DEF TypeOK, RunLoopTypeOK, StoreTypeOK, Tasks
<1> USE DEF UndisturbedInv, NobodyCancels, Cancelling, ReferenceIsNew, RaisesOnlyStranded,
            RunIsAsSeen, ReturnedRunIsSettled, Creating, Visiting, Working, Failing,
            OnTheTask, Trying
\* The next plan entry is still waiting.
<1>n. ASSUME pc \in {"next_task", "skip", "recheck_run"}, NextEntry,
             UNCHANGED <<workflowRun, runView, reused, result, execution>>,
             \A t \in Tasks : t # task => taskRun'[t] = taskRun[t]
      PROVE  UndisturbedInv'
  <2>1. \A t \in task + 1 .. TaskCount : Waiting(t)
    BY <1>n DEF PlanWaits
  <2>2. PlanWaits'
    BY <1>0, <1>n, <2>1 DEF NextEntry, PlanWaits, Waiting, Tasks
  <2>3. NobodyCancels' /\ RunIsAsSeen' /\ TaskIsAsSeen' /\ AttemptIsAsSeen'
    BY <1>n DEF NextEntry, TaskIsAsSeen, AttemptIsAsSeen
  <2> QED
    BY <2>2, <2>3
\* An entry is looked at once more.
<1>s. ASSUME pc \in {"next_task", "ready", "run", "checkpoint"},
             pc' \in {"skip", "ready", "run", "append", "recheck_run"},
             \A t \in Tasks : t # task => taskRun'[t] = taskRun[t],
             UNCHANGED <<workflowRun, runView, task, reused, result, execution>>
      PROVE  NobodyCancels' /\ RunIsAsSeen' /\ PlanWaits'
  <2>1. PlanWaits'
    BY <1>0, <1>s DEF PlanWaits, Waiting, Tasks
  <2> QED
    BY <1>s, <2>1
<1>1. CASE SkipReusedTask
  BY <1>1, <1>n DEF SkipReusedTask, store, views, executor
<1>2. CASE EvaluateReadiness
  <2>1. Upstream(task) \subseteq TaskRunTerminal
    <3>1. \A t \in 1 .. task - 1 : taskRun[t] \in TaskRunTerminal
      BY <1>2 DEF EvaluateReadiness, RunThreadKnows, PlanIsVisited, Passed, TaskRunTerminal
    <3>2. \A d \in Dependencies[task] : d \in 1 .. task - 1
      BY <1>0, DependenciesPrecede DEF Tasks
    <3> QED
      BY <3>1, <3>2 DEF Upstream
  <2>2. /\ pc = "next_task" /\ task \notin reused /\ pc' \in {"skip", "ready"}
        /\ taskView' = taskRun[task]
        /\ UNCHANGED <<workflowRun, runView, taskRun, taskAttempts, attemptView, task,
                       reused, result, execution>>
    BY <1>2, <2>1 DEF EvaluateReadiness, AfterReadiness, store, cursor, executor
  <2>3. taskRun[task] = "PENDING"
    BY <2>2 DEF PlanWaits, Waiting
  <2>4. TaskIsAsSeen' /\ AttemptIsAsSeen'
    BY <2>2, <2>3 DEF TaskIsAsSeen, TaskStatusAt, AttemptIsAsSeen
  <2> QED
    BY <1>s, <2>2, <2>4
<1>3. CASE SkipTask
  <2>1. TaskUpdateAccepted(task, taskView, "SKIPPED")
    BY <1>3 DEF SkipTask, TaskIsAsSeen, TaskStatusAt, TaskUpdateAccepted,
                TaskRunTransitions, TaskRunStatus, Absent
  <2>2. /\ UpdateTaskRun(task, taskView, "SKIPPED") /\ NextEntry /\ pc = "skip"
        /\ UNCHANGED <<runView, reused, result, execution>>
    BY <1>3, <2>1 DEF SkipTask, executor
  <2> QED
    BY <1>0, <1>n, <2>2 DEF UpdateTaskRun
<1>4. CASE ReadyTask
  <2>1. /\ pc = "ready" /\ pc' = "run" /\ taskView' = "READY"
        /\ taskRun' = [taskRun EXCEPT ![task] = "READY"]
        /\ UNCHANGED <<workflowRun, runView, taskAttempts, attemptView, task, reused,
                       result, execution>>
    BY <1>4, TaskGoesOn
    DEF ReadyTask, OnTask, TaskStatusAt, TaskRunTransitions, TaskRunStatus
  <2>2. TaskIsAsSeen' /\ AttemptIsAsSeen'
    BY <1>0, <2>1 DEF TaskIsAsSeen, TaskStatusAt, AttemptIsAsSeen
  <2> QED
    BY <1>0, <1>s, <2>1, <2>2
<1>5. CASE RunTask
  <2>1. /\ pc = "run" /\ pc' = "append" /\ taskView' = "RUNNING"
        /\ taskRun' = [taskRun EXCEPT ![task] = "RUNNING"]
        /\ UNCHANGED <<workflowRun, runView, taskAttempts, attemptView, task, reused,
                       result, execution>>
    BY <1>5, TaskGoesOn
    DEF RunTask, OnTask, TaskStatusAt, TaskRunTransitions, TaskRunStatus
  <2>2. taskAttempts[task] = << >>
    BY <1>0, <2>1 DEF TaskIsAsSeen, TaskStatusAt, RecordsAgree, QueuedTasksAreUntried,
                      NotStarted
  <2>3. TaskIsAsSeen' /\ AttemptIsAsSeen'
    BY <1>0, <2>1, <2>2 DEF TaskIsAsSeen, TaskStatusAt, AttemptIsAsSeen
  <2> QED
    BY <1>0, <1>s, <2>1, <2>3
<1>6. CASE PersistOutputCheckpoint
  <2>1. /\ pc = "checkpoint" /\ pc' = "recheck_run"
        /\ UNCHANGED <<workflowRun, runView, taskRun, taskAttempts, attemptView, task,
                       reused, result, execution>>
    BY <1>6 DEF PersistOutputCheckpoint, SetTaskOutputCheckpoint, store, cursor, views,
                executor
  <2>2. TaskIsAsSeen' /\ AttemptIsAsSeen'
    BY <2>1 DEF TaskIsAsSeen, AttemptIsAsSeen
  <2> QED
    BY <1>s, <2>1, <2>2
<1>7. CASE RecheckRun
  <2>1. workflowRun = "RUNNING" /\ runView = "RUNNING"
    BY <1>7 DEF RecheckRun
  <2>2. /\ pc = "recheck_run" /\ NextEntry
        /\ UNCHANGED <<workflowRun, runView, taskRun, reused, result, execution>>
    BY <1>7, <2>1 DEF RecheckRun, store, executor
  <2> QED
    BY <1>n, <2>2
<1> QED
  BY <1>1, <1>2, <1>3, <1>4, <1>5, <1>6, <1>7

\* An attempt takes its course.
LEMMA TryIsUndisturbed ==
    ASSUME TypeOK, RunThreadKnows, UndisturbedInv,
           \/ AppendAttempt \/ StartAttempt \/ RunAttempt \/ RememberActiveRequest
           \/ BeginExecute \/ EndExecute \/ ForgetActiveRequest \/ ReloadAttempt
           \/ ReloadTask \/ ReloadRun \/ PersistExternalRunRefs \/ AppendExternalRef
    PROVE  UndisturbedInv'
<1>0. StoreTypeOK /\ task \in Tasks
  BY DEF TypeOK, RunLoopTypeOK
<1> USE DEF UndisturbedInv, NobodyCancels, Cancelling, ReferenceIsNew, RaisesOnlyStranded,
            RunIsAsSeen, ReturnedRunIsSettled, Creating, Visiting, Working, Failing,
            OnTheTask, Trying
\* What a step of a try leaves alone.
<1>k. ASSUME pc \in Trying \cup {"append"}, pc' \in Trying,
             UNCHANGED <<workflowRun, runView, taskRun, taskView, task, reused>>,
             ReferenceIsNew'
      PROVE  NobodyCancels' /\ RunIsAsSeen' /\ PlanWaits' /\ TaskIsAsSeen'
  <2>1. PlanWaits'
    BY <1>k DEF PlanWaits, Waiting
  <2>2. TaskIsAsSeen'
    BY <1>k DEF TaskIsAsSeen, TaskStatusAt
  <2> QED
    BY <1>k, <2>1, <2>2
<1>1. CASE AppendAttempt
  <2>1. NextAttemptAllowed(task)
    BY <1>1 DEF AppendAttempt, NextAttemptAllowed, TaskIsAsSeen, TaskStatusAt,
                AttemptIsAsSeen
  <2>2. /\ AppendTaskAttempt(task) /\ attemptView' = "PENDING"
        /\ pc = "append" /\ pc' = "starting"
        /\ UNCHANGED <<workflowRun, runView, taskRun, taskView, task, reused, result,
                       execution>>
    BY <1>1, <2>1 DEF AppendAttempt, AppendTaskAttempt, Raise, cursor, executor
  <2>3. taskAttempts'[task] # << >> /\ LastAttempt(task)' = "PENDING"
    BY <1>0, <2>2, TriedIsLast
  <2>4. AttemptIsAsSeen'
    BY <2>2, <2>3 DEF AttemptIsAsSeen, AttemptStatusAt, LastAttempt
  <2> QED
    BY <1>k, <2>2, <2>4
<1>2. ASSUME NEW step, NEW target, NEW next, OnAttempt(step, target, next),
             \/ step = "starting" /\ target = "STARTING" /\ next = "running"
             \/ step = "running" /\ target = "RUNNING" /\ next = "remember"
      PROVE  UndisturbedInv'
  <2>1. /\ pc = step /\ pc' = next /\ attemptView' = target
        /\ taskAttempts'[task] # << >> /\ LastAttempt(task)' = target
        /\ UNCHANGED <<workflowRun, runView, taskRun, taskView, task, reused, result,
                       execution>>
    BY <1>2, AttemptGoesOn
    DEF OnAttempt, AttemptStatusAt, TaskAttemptTransitions, TaskAttemptStatus
  <2>2. AttemptIsAsSeen'
    BY <1>2, <2>1 DEF AttemptIsAsSeen, AttemptStatusAt, LastAttempt
  <2> QED
    BY <1>2, <1>k, <2>1, <2>2
\* A step of the running attempt.
<1>r. ASSUME pc \in Trying \ {"starting", "running"},
             pc' \in Trying \ {"starting", "running"},
             UNCHANGED <<workflowRun, runView, taskRun, taskAttempts, taskView,
                         attemptView, task, reused>>,
             ReferenceIsNew'
      PROVE  UndisturbedInv'
  <2>1. AttemptIsAsSeen'
    BY <1>r DEF AttemptIsAsSeen, AttemptStatusAt, LastAttempt
  <2> QED
    BY <1>k, <1>r, <2>1
<1>3. CASE RememberActiveRequest \/ BeginExecute \/ ForgetActiveRequest
  BY <1>3, <1>r
  DEF RememberActiveRequest, BeginExecute, ForgetActiveRequest, store, cursor, views
<1>4. CASE EndExecute
  BY <1>4, <1>r DEF EndExecute, store, cursor, views
<1>5. CASE ReloadAttempt
  <2>1. LastAttempt(task) = attemptView
    BY <1>5 DEF ReloadAttempt, AttemptIsAsSeen
  <2> QED
    BY <1>5, <1>r, <2>1 DEF ReloadAttempt, store, cursor, executor
<1>6. CASE ReloadTask
  <2>1. taskRun[task] = taskView
    BY <1>6 DEF ReloadTask, TaskIsAsSeen
  <2> QED
    BY <1>6, <1>r, <2>1 DEF ReloadTask, store, cursor, executor
<1>7. CASE ReloadRun
  <2>1. workflowRun = runView
    BY <1>7 DEF ReloadRun
  <2> QED
    BY <1>7, <1>r, <2>1 DEF ReloadRun, store, cursor, executor
<1>8. ASSUME pc \in {"persist_refs", "append_ref"} PROVE AfterReload \notin Cancelling
  BY <1>8 DEF AfterReload, AttemptIsAsSeen, AttemptStatusAt
<1>9. CASE PersistExternalRunRefs
  <2>1. /\ AfterReload \in {"succeed_attempt", "evaluate"}
        /\ pc = "persist_refs"
    BY <1>9, <1>8 DEF PersistExternalRunRefs, AfterReload
  <2>2. /\ UNCHANGED <<store, cursor, views, result>>
        /\ \/ pc' = "append_ref" /\ ExternalRunRefAccepted(task, AttemptNumber)
           \/ pc' = AfterReload
    BY <1>9 DEF PersistExternalRunRefs
  <2>3. ReferenceIsNew'
    BY <2>1, <2>2 DEF ExternalRunRefAccepted, AttemptNumber, store, cursor
  <2> QED
    BY <1>r, <2>1, <2>2, <2>3 DEF store, cursor, views
<1>10. CASE AppendExternalRef
  <2>1. AfterReload \in {"succeed_attempt", "evaluate"} /\ pc = "append_ref"
    BY <1>10, <1>8 DEF AppendExternalRef, AfterReload
  <2>2. /\ AppendExternalRunRef(task, AttemptNumber) /\ pc' = AfterReload
        /\ UNCHANGED <<cursor, views>>
    BY <1>10, <2>1 DEF AppendExternalRef
  <2> QED
    BY <1>r, <2>1, <2>2 DEF AppendExternalRunRef, cursor, views
<1> QED
  BY <1>1, <1>2, <1>3, <1>4, <1>5, <1>6, <1>7, <1>9, <1>10 DEF StartAttempt, RunAttempt

\* The policy lets every failure be judged.
LEMMA JudgingRaisesNot ==
    ASSUME NothingOverflows, AttemptNumber \in Nat \ {0}, NEW elapsed,
           NEW evaluation \in Evaluations(Policy, result.failure, AttemptNumber, elapsed)
    PROVE  evaluation.decision \in {"retry", "do_not_retry", "reconcile", "escalate"}
<1>1. /\ Policy.max_attempts \in Nat \ {0}
      /\ FloatExponentLimit \in Nat \ {0}
  BY PolicyType, FloatExponentLimitIsPositive DEF RetryPolicies
<1>2. \/ RetryRefused(Policy, result.failure, AttemptNumber)
      \/ ~ BackoffOverflows(Policy, AttemptNumber)
  BY <1>1 DEF RetryRefused, BackoffOverflows, NothingOverflows
<1> QED
  BY <1>2 DEF Evaluations, Decided

\* It ends, and so does its task, or it is tried again.
LEMMA OutcomeIsUndisturbed ==
    ASSUME TypeOK, RunThreadKnows, UndisturbedInv, NothingOverflows,
           \/ SucceedAttempt \/ SucceedTask \/ EvaluateFailure \/ UnknownTask
           \/ UnknownRun \/ FailTask \/ FailFast \/ FailFastSkip \/ FailRun
           \/ AssertTerminalTaskRuns \/ SucceedRun
    PROVE  UndisturbedInv'
<1>0. /\ StoreTypeOK /\ task \in Tasks /\ TaskCount \in Nat \ {0}
      /\ taskRun \in [Tasks -> TaskRunStatus \cup {Absent}]
      /\ \A t \in Tasks : t \in Nat
      /\ task < TaskCount \/ task = TaskCount
  BY TaskCountIsPositive DEF TypeOK, RunLoopTypeOK, StoreTypeOK, Tasks
<1> USE DEF UndisturbedInv, NobodyCancels, Cancelling, ReferenceIsNew, RaisesOnlyStranded,
            RunIsAsSeen, ReturnedRunIsSettled, Creating, Visiting, Working, Failing,
            OnTheTask, Trying
<1>f. result.failure.category # "cancelled" =>
         TerminalFor(result.failure) \in {"FAILED", "TIMED_OUT"}
  BY DEF TerminalFor
\* The attempt ends.
<1>a. ASSUME NEW target \in RestStatus, NEW next, TransitionAttempt(target, next),
             UNCHANGED <<cursor, result, executor>>,
             \/ pc = "succeed_attempt" /\ target = "SUCCEEDED" /\ next = "succeed_task"
             \/ /\ pc = "evaluate" /\ next \in {"unknown_task", "append", "fail_task"}
                /\ target \in {"REQUIRES_RECONCILIATION", "UNKNOWN_OUTCOME", "FAILED",
                               "TIMED_OUT"}
                /\ next = "append" => target \in {"FAILED", "TIMED_OUT"}
                /\ next = "fail_task" => result.failure.category # "cancelled"
      PROVE  UndisturbedInv'
  <2>1. /\ pc' = next /\ attemptView' = target
        /\ taskAttempts'[task] # << >> /\ LastAttempt(task)' = target
        /\ UNCHANGED <<workflowRun, runView, taskRun, taskView, task, reused, result,
                       execution>>
    BY <1>a, AttemptGoesOn
    DEF AttemptStatusAt, TaskAttemptTransitions, TaskAttemptStatus
  <2>2. AttemptIsAsSeen' /\ TaskIsAsSeen'
    BY <1>a, <2>1 DEF AttemptIsAsSeen, TaskIsAsSeen, TaskStatusAt, LastAttempt
  <2>3. PlanWaits'
    BY <1>a, <2>1 DEF PlanWaits, Waiting
  <2> QED
    BY <1>a, <2>1, <2>2, <2>3
\* The task ends.
<1>t. ASSUME NEW step \in OnTheTask, NEW target, NEW next, OnTask(step, target, next),
             \/ step = "succeed_task" /\ target = "SUCCEEDED" /\ next = "checkpoint"
             \/ step = "unknown_task" /\ target = "UNKNOWN_OUTCOME" /\ next = "unknown_run"
             \/ step = "fail_task" /\ target \in {"FAILED", "TIMED_OUT"}
                /\ next = "fail_fast"
             \/ step = "fail_fast_skip" /\ target = "SKIPPED" /\ next = "fail_fast"
      PROVE  UndisturbedInv'
  <2>1. /\ pc = step /\ pc' = next /\ taskView' = target
        /\ taskRun' = [taskRun EXCEPT ![task] = target]
        /\ UNCHANGED <<workflowRun, runView, taskAttempts, attemptView, task, reused,
                       result, execution>>
    BY <1>t, TaskGoesOn DEF OnTask, TaskStatusAt, TaskRunTransitions, TaskRunStatus
  <2>2. TaskIsAsSeen' /\ AttemptIsAsSeen'
    BY <1>t, <2>1 DEF TaskIsAsSeen, AttemptIsAsSeen
  <2>3. PlanWaits'
    BY <1>0, <1>t, <2>1 DEF PlanWaits, Waiting, Tasks
  <2> QED
    BY <1>t, <2>1, <2>2, <2>3
\* The run ends.
<1>w. ASSUME NEW step \in {"unknown_run", "fail_run", "succeed_run"},
             NEW target \in {"SUCCEEDED", "FAILED", "TIMED_OUT", "UNKNOWN_OUTCOME"},
             OnWorkflow(step, target, "returned")
      PROVE  UndisturbedInv'
  <2>1. /\ pc' = "returned" /\ runView' = target /\ workflowRun' = target
        /\ UNCHANGED <<result, execution>>
    BY <1>w, RunGoesOn DEF WorkflowTransitions, WorkflowRunStatus
  <2> QED
    BY <2>1 DEF PlanWaits, TaskIsAsSeen, AttemptIsAsSeen, WorkflowTerminal
<1>1. CASE SucceedAttempt
  BY <1>1, <1>a DEF SucceedAttempt, OnAttempt, RestStatus, TaskAttemptTerminal
<1>2. CASE EvaluateFailure
  <2>1. AttemptNumber \in Nat \ {0}
    BY <1>0, <1>2, LastIsLast DEF EvaluateFailure, AttemptIsAsSeen, AttemptNumber
  <2>2. PICK elapsed \in ElapsedChoices :
           \E evaluation \in Evaluations(Policy, result.failure, AttemptNumber, elapsed) :
              \/ evaluation.decision = "raises" /\ Raise
              \/ TransitionAttempt(AttemptStatusFor(evaluation.decision, result.failure),
                                   AfterDecision(evaluation.decision))
    BY <1>2 DEF EvaluateFailure
  <2>3. PICK evaluation \in Evaluations(Policy, result.failure, AttemptNumber, elapsed) :
           \/ evaluation.decision = "raises" /\ Raise
           \/ TransitionAttempt(AttemptStatusFor(evaluation.decision, result.failure),
                                AfterDecision(evaluation.decision))
    BY <2>2
  <2> DEFINE target == AttemptStatusFor(evaluation.decision, result.failure)
             next == AfterDecision(evaluation.decision)
  <2>4. evaluation.decision \in {"retry", "do_not_retry", "reconcile", "escalate"}
    BY <2>1, JudgingRaisesNot
  <2>5. TransitionAttempt(target, next)
    BY <2>3, <2>4
  <2>6. pc = "evaluate" /\ UNCHANGED <<cursor, result, executor>>
    BY <1>2 DEF EvaluateFailure
  \* No attempt is cancelled that nobody asked to cancel: run() raises.
  <2>7. CASE /\ evaluation.decision \in {"retry", "do_not_retry"}
             /\ result.failure.category = "cancelled"
    <3>1. target = "CANCELLED"
      BY <2>7 DEF AttemptStatusFor, TerminalFor
    <3>2. /\ taskAttempts[task] # << >> /\ LastAttempt(task) = "RUNNING"
          /\ attemptView = "RUNNING" /\ taskRun[task] = "RUNNING"
          /\ workflowRun = "RUNNING" /\ runView = "RUNNING"
      BY <2>6 DEF AttemptIsAsSeen, AttemptStatusAt, TaskIsAsSeen, TaskStatusAt
    <3> HIDE DEF target, next
    <3>3. ~ AttemptUpdateAccepted(task, AttemptNumber, attemptView, target)
      BY <3>1, <3>2 DEF AttemptUpdateAccepted, TaskAttemptTransitions, TaskAttemptStatus
    <3>4. Raise
      BY <2>5, <3>3 DEF TransitionAttempt, UpdateTaskAttempt
    <3>5. /\ pc' = "raised"
          /\ UNCHANGED <<workflowRun, taskRun, taskAttempts, runView, task, reused, result>>
      BY <2>6, <3>4 DEF Raise, store, views, cursor
    <3>6. StrandedByItsExecutor'
      BY <2>7, <3>2, <3>5 DEF StrandedByItsExecutor, LastAttempt
    <3> QED
      BY <3>2, <3>5, <3>6 DEF PlanWaits, TaskIsAsSeen, AttemptIsAsSeen
  <2>8. CASE \/ evaluation.decision \in {"reconcile", "escalate"}
             \/ result.failure.category # "cancelled"
    <3>1. /\ target \in {"REQUIRES_RECONCILIATION", "UNKNOWN_OUTCOME", "FAILED", "TIMED_OUT"}
          /\ next \in {"unknown_task", "append", "fail_task"}
          /\ next = "append" => target \in {"FAILED", "TIMED_OUT"}
          /\ next = "fail_task" => result.failure.category # "cancelled"
      BY <1>f, <2>4, <2>8 DEF AttemptStatusFor, AfterDecision
    <3> HIDE DEF target, next
    <3>2. target \in RestStatus
      BY <3>1 DEF RestStatus, TaskAttemptTerminal
    <3> QED
      BY <1>a, <2>5, <2>6, <3>1, <3>2
  <2> QED
    BY <2>4, <2>7, <2>8
<1>g. FailTask \/ FailRun => TerminalFor(result.failure) \in {"FAILED", "TIMED_OUT"}
  BY <1>f DEF FailTask, FailRun, OnTask, OnWorkflow
<1>3. CASE SucceedTask \/ UnknownTask \/ FailTask \/ FailFastSkip
  BY <1>3, <1>g, <1>t DEF SucceedTask, UnknownTask, FailTask, FailFastSkip
<1>4. CASE UnknownRun \/ FailRun \/ SucceedRun
  BY <1>4, <1>g, <1>w DEF UnknownRun, FailRun, SucceedRun
<1>5. CASE FailFast
  <2>1. /\ pc = "fail_fast"
        /\ UNCHANGED <<workflowRun, taskRun, taskAttempts, runView, reused, result,
                       execution>>
        /\ \/ pc' = "fail_run" /\ UNCHANGED task
           \/ /\ task < TaskCount /\ task' = task + 1 /\ taskView' = taskRun[task + 1]
              /\ pc' = IF taskRun[task + 1] \in FailFastSkips
                       THEN "fail_fast_skip" ELSE "fail_fast"
    BY <1>5 DEF FailFast, store, executor
  <2>2. task < TaskCount => Waiting(task + 1)
    BY <1>0, <2>1 DEF PlanWaits
  <2>3. TaskIsAsSeen' /\ AttemptIsAsSeen'
    BY <2>1, <2>2 DEF TaskIsAsSeen, TaskStatusAt, AttemptIsAsSeen, Waiting, FailFastSkips
  <2>4. PlanWaits'
    BY <1>0, <2>1 DEF PlanWaits, Waiting, Tasks
  <2> QED
    BY <2>1, <2>3, <2>4
<1>6. CASE AssertTerminalTaskRuns
  <2>1. \A t \in Tasks : taskRun[t] \in TaskRunTerminal \ {"FAILED", "TIMED_OUT"}
    BY <1>6 DEF AssertTerminalTaskRuns, RunThreadKnows, PlanIsVisited, Passed,
                TaskRunTerminal
  <2>2. /\ pc = "assert_terminal" /\ pc' = "succeed_run"
        /\ UNCHANGED <<workflowRun, runView, taskRun, result, execution>>
    BY <1>6, <2>1 DEF AssertTerminalTaskRuns, store, views, executor
  <2> QED
    BY <2>2 DEF PlanWaits, TaskIsAsSeen, AttemptIsAsSeen
<1> QED
  BY <1>1, <1>2, <1>3, <1>4, <1>5, <1>6

\* The program starts undisturbed.
LEMMA UndisturbedInit == Init => UndisturbedInv
<1> SUFFICES ASSUME Init PROVE UndisturbedInv
  OBVIOUS
<1>1. pc = "create_run" /\ task = 1 /\ taskRun = [t \in Tasks |-> Absent]
  BY DEF Init, InitStore, InitRunLoop
<1>2. PlanWaits
  BY <1>1, TaskCountIsPositive DEF PlanWaits, Creating, Visiting, Working, Tasks
<1>3. NobodyCancels /\ RunIsAsSeen
  BY DEF Init, InitStore, InitRunLoop, NobodyCancels, Cancelling, Failing, ReferenceIsNew,
         RaisesOnlyStranded, RunIsAsSeen, ReturnedRunIsSettled, Creating
<1>4. TaskIsAsSeen /\ AttemptIsAsSeen
  BY <1>1 DEF TaskIsAsSeen, AttemptIsAsSeen, OnTheTask, Working, Trying
<1> QED
  BY <1>2, <1>3, <1>4 DEF UndisturbedInv

\* Every step of the run thread keeps UndisturbedInv where nobody cancels.
LEMMA UndisturbedInductive ==
    ASSUME Callers = {}, NothingOverflows, IInv, VInv, UndisturbedInv, [Next]_vars
    PROVE  UndisturbedInv'
<1>0. TypeOK /\ RunThreadKnows /\ RecordsAgree
  BY DEF IInv, VInv
<1>1. CASE RunThread
  <2>1. \/ CancelTaskRun \/ ListNotStarted \/ CancelNotStarted \/ NotStartedCancelled
        \/ CancelRun
        => FALSE
    BY DEF UndisturbedInv, NobodyCancels, Cancelling, CancelTaskRun, ListNotStarted,
           CancelNotStarted, NotStartedCancelled, CancelRun, OnTask, OnWorkflow
  <2> QED
    BY <1>0, <1>1, <2>1, CreationIsUndisturbed, VisitIsUndisturbed, TryIsUndisturbed,
       OutcomeIsUndisturbed DEF RunThread
<1>2. CASE UNCHANGED vars
  BY <1>2
  DEF vars, store, runLoopVars, UndisturbedInv, NobodyCancels, ReferenceIsNew,
      ExternalRunRefAccepted, AttemptNumber, RaisesOnlyStranded, StrandedByItsExecutor,
      RunIsAsSeen, ReturnedRunIsSettled, PlanWaits, Waiting, TaskIsAsSeen,
      AttemptIsAsSeen, LastAttempt
<1> QED
  BY <1>1, <1>2 DEF Next, RunStep, Stopped

\* Left alone, run() returns a run that has a verdict, justified by its tasks, or
\* whose outcome is unknown, whatever the plan and the policy, as long as the
\* backoff fits a float.  One answer of an executor alone makes it raise: that
\* the attempt was cancelled.  The records of the attempt, its task and the run
\* then stay RUNNING (WorkflowRuntime.run).
THEOREM UndisturbedRunsSettle ==
    ASSUME Callers = {}, NothingOverflows
    PROVE  Spec => []UndisturbedRunSettles
<1>1. UndisturbedInv => RaisesOnlyStranded /\ ReturnedRunIsSettled
  BY DEF UndisturbedInv, NobodyCancels, RunIsAsSeen
<1>2. IInv /\ VInv /\ UndisturbedInv /\ [Next]_vars => UndisturbedInv'
  BY UndisturbedInductive
<1>3. Spec => []UndisturbedInv
  BY <1>2, UndisturbedInit, Invariant, VerdictInvariant, PTL DEF Spec
<1>4. UndisturbedInv /\ SettledRunHasSettledTasks => UndisturbedRunSettles
  BY <1>1 DEF UndisturbedRunSettles
<1> QED
  BY <1>3, <1>4, SettledRunIsJustified, PTL

-----------------------------------------------------------------------------
(* Recovery.                                                               *)

(***************************************************************************)
(* Theorems about RunRecovery: what run(), cancel() and cancel_task() left *)
(* behind, in whatever order and at whatever step the process died, and    *)
(* however many reconcilers then work on it side by side.                  *)
(*                                                                         *)
(* A reconciler begins only when the run thread is gone, so that from then *)
(* on no attempt is added and none that ended is taken back: what it read  *)
(* and concluded stays true (RepairKnows), although other reconcilers and  *)
(* cancelling threads go on writing.                                       *)
(***************************************************************************)

\* The run thread may still act.
Running == process = "alive" /\ ~ Ended

\* The tasks that reconcile has no more to do with.
Closed(t) == Settled(t) \/ taskAttempts[t] = << >>

AllCreated == \A t \in Tasks : taskRun[t] # Absent

Resolutions == {"SUCCEEDED", "FAILED", "CANCELLED"}
LeftOpen == {"STILL_RUNNING", "MANUAL_REQUIRED"}

\* The steps of reconcile that work on one task, and those that come after
\* every task.
OnOneTask ==
    {"read_task", "read_attempts", "observe", "repair_task", "resolve_attempt",
     "reread_task", "resolve_task"}
Visits == OnOneTask \cup {"next_task"}
Concluding == {"reread_run", "list_again", "settle_run"}

\* The attempt that the reconciler works on is the last one, and is or will be
\* as the task is about to be recorded.
AttemptIsKnown(local) ==
    /\ local.at \in {"repair_task", "observe", "resolve_attempt"} =>
          /\ taskAttempts[local.task] # << >>
          /\ local.num = Len(taskAttempts[local.task])
    /\ local.at = "repair_task" =>
          /\ local.attempt \in TaskAttemptTerminal
          /\ AttemptEnded(local.task, local.attempt)
    /\ local.at \in {"resolve_attempt", "reread_task", "resolve_task"} =>
          local.target \in Resolutions
    /\ local.at \in {"reread_task", "resolve_task"} =>
          AttemptEnded(local.task, local.target)

\* What the report says of a task is so.
ReportHolds(local) ==
    /\ \A t \in Tasks, status \in TaskAttemptTerminal :
          <<t, ResolvedAs(status)>> \in local.report => taskRun[t] = status
    /\ \A t \in Tasks : <<t, "NO_ACTION">> \in local.report => taskAttempts[t] = << >>

ReportedOpen(local, t) == \E d \in LeftOpen : <<t, d>> \in local.report

\* A task with an attempt is settled, still to be visited, or reported open.
EveryTaskIsSeen(local) ==
    /\ local.at \in Visits =>
          \A t \in Tasks :
              \/ Closed(t) \/ t \in local.todo \/ ReportedOpen(local, t)
              \/ local.at \in OnOneTask /\ local.task = t
    /\ local.at \in Concluding =>
          \A t \in Tasks : Closed(t) /\ ~ ReportedOpen(local, t)

VerdictIsKnown(local) ==
    local.at = "settle_run" =>
        /\ local.target \in WorkflowTerminal \cup {"RUNNING"}
        /\ local.target = "RUNNING" => local.run = "UNKNOWN_OUTCOME"
        /\ local.target = "SUCCEEDED" =>
              \A t \in Tasks : Passed(t) \/ taskRun[t] = Absent
        /\ local.target \in {"FAILED", "TIMED_OUT"} =>
              \E t \in Tasks : taskRun[t] = local.target

RepairKnows(local) ==
    /\ AttemptIsKnown(local)
    /\ ReportHolds(local)
    /\ EveryTaskIsSeen(local)
    /\ VerdictIsKnown(local)

RepairsKnow == \A r \in Reconcilers : RepairKnows(recon[r])

\* Tasks that were passed over have no attempts.
PassedOverIsUntried ==
    \A t \in Tasks : taskRun[t] \in {"SKIPPED", "REUSED"} => taskAttempts[t] = << >>

\* The records of the plan are all there before a task is taken up; whoever
\* saw work under way may conclude that.
Created == {"create_run"} \cup Creating
InCancelTask ==
    {"read_task", "cancel_pending", "read_attempts", "request_attempt", "handle",
     "lost_attempt", "lost_read_task", "lost_task", "ask_executor",
     "after_attempt", "after_task", "reply_refs", "append_ref",
     "settle_attempt", "settle_task"}

SawWork(local) ==
    \/ local.whole /\ local.at \in InCancelTask
    \/ "unconfirmed" \in local.statuses
    \/ local.at = "settle_run" /\ local.answer = "unconfirmed"
    \/ \E t \in local.todo : local.listed[t] = "RUNNING"

WorkIsUnderWay == \E t \in Tasks : taskRun[t] \in {"READY", "RUNNING", "UNKNOWN_OUTCOME"}

CreationComesFirst ==
    /\ pc \notin Created \cup {"returned", "raised"} => AllCreated
    /\ WorkIsUnderWay => AllCreated
    /\ workflowRun \in {"RUNNING", "UNKNOWN_OUTCOME"} => AllCreated
    /\ \A c \in Callers : SawWork(call[c]) => AllCreated

RInv ==
    /\ RecoveryTypeOK /\ IInv /\ RecordsAgree /\ CallsKnow
    /\ PassedOverIsUntried /\ CreationComesFirst
    /\ process = "alive" => RunThreadKnows
    /\ Running =>
          SettledRunHasSettledTasks /\ \A r \in Reconcilers : recon[r] = NoRecon
    /\ RepairsKnow
    /\ RecoveredRunIsJustified

-----------------------------------------------------------------------------
(* The records of the plan are created before any work begins.             *)

\* A record that is there stays there.
LEMMA CreatedStays ==
    ASSUME StoreTypeOK, StoreStep, AllCreated
    PROVE  AllCreated'
<1> SUFFICES ASSUME NEW t \in Tasks PROVE taskRun'[t] # Absent
  BY DEF AllCreated
<1>1. TaskMovesLegally(t)
  BY StoreMovesLegally
<1>2. taskRun[t] \in TaskRunStatus
  BY DEF AllCreated, StoreTypeOK
<1> QED
  BY <1>1, <1>2
  DEF TaskMovesLegally, AllCreated, TaskRunTransitions, TaskRunStatus, Absent

\* What the run thread knows when it comes to its first task.
LEMMA StartIsCreated == RunThreadKnows /\ pc = "start" => AllCreated
<1> SUFFICES ASSUME RunThreadKnows, pc = "start", NEW t \in Tasks PROVE taskRun[t] # Absent
  BY DEF AllCreated
<1>1. task = 1 /\ Unvisited(task) /\ \A u \in task + 1 .. TaskCount : Unvisited(u)
  BY DEF RunThreadKnows, PlanIsCreated, PlanIsVisited
<1>2. t = 1 \/ t \in 2 .. TaskCount
  BY DEF Tasks
<1> QED
  BY <1>1, <1>2 DEF Unvisited, Absent

\* The run thread creates its records one after the other.
LEMMA CreatingSteps ==
    ASSUME TypeOK, RunThread, pc \in Created
    PROVE  /\ pc' \in Created \cup {"start", "raised"}
           /\ workflowRun' \in {workflowRun, "PENDING"}
           /\ \A t \in Tasks : taskRun'[t] \in {taskRun[t], "PENDING", "REUSED"}
<1>0. taskRun \in [Tasks -> TaskRunStatus \cup {Absent}] /\ task \in Tasks
  BY DEF TypeOK, StoreTypeOK, RunLoopTypeOK
<1>1. CreateRun \/ CreateTask \/ ReuseTask \/ ReuseCheckpoint
  BY DEF RunThread, Created, Creating, StartRun, SkipReusedTask, EvaluateReadiness,
         SkipTask, ReadyTask, RunTask, AppendAttempt, StartAttempt, RunAttempt,
         RememberActiveRequest, BeginExecute, EndExecute, ForgetActiveRequest,
         ReloadAttempt, ReloadTask, ReloadRun, PersistExternalRunRefs,
         AppendExternalRef, ExternalRunRefAccepted,
         CancelTaskRun, ListNotStarted, CancelNotStarted, NotStartedCancelled,
         CancelRun, SucceedAttempt, SucceedTask, PersistOutputCheckpoint,
         RecheckRun, EvaluateFailure, UnknownTask, UnknownRun, FailTask, FailFast,
         FailFastSkip, FailRun, AssertTerminalTaskRuns, SucceedRun, OnTask,
         OnAttempt, OnWorkflow
<1>2. CASE CreateRun
  BY <1>2 DEF CreateRun, CreateWorkflowRun, Created, Creating
<1>3. CASE CreateTask
  BY <1>0, <1>3 DEF CreateTask, CreateTaskRun, NextToCreate, Created, Creating
<1>4. CASE ReuseTask
  BY <1>0, <1>4
  DEF ReuseTask, OnTask, TransitionTask, UpdateTaskRun, Raise, store, Created, Creating
<1>5. CASE ReuseCheckpoint
  BY <1>5
  DEF ReuseCheckpoint, SetTaskOutputCheckpoint, NextToCreate, Created, Creating
<1> QED
  BY <1>1, <1>2, <1>3, <1>4, <1>5

\* The run thread takes up no task before the records of all are there.
LEMMA RunThreadCreates ==
    ASSUME IInv, VInv, CreationComesFirst, RunStep
    PROVE  CreationComesFirst'
<1>0. /\ TypeOK /\ StoreTypeOK /\ RunThread /\ StoreStep /\ RunThreadKnows'
      /\ call' = call
  BY VerdictStep, DueStepIsStoreStep DEF IInv, TypeOK, Next, RunStep
<1>1. CASE AllCreated
  BY <1>0, <1>1, CreatedStays DEF CreationComesFirst
<1>2. CASE ~ AllCreated
  <2>1. pc \in Created
    BY <1>0, <1>2
    DEF CreationComesFirst, RunThread, CreateRun, CreateTask, ReuseTask,
        ReuseCheckpoint, StartRun, SkipReusedTask, EvaluateReadiness,
        SkipTask, ReadyTask, RunTask, AppendAttempt, StartAttempt, RunAttempt,
        RememberActiveRequest, BeginExecute, EndExecute, ForgetActiveRequest,
        ReloadAttempt, ReloadTask, ReloadRun, PersistExternalRunRefs,
        AppendExternalRef, ExternalRunRefAccepted,
        CancelTaskRun, ListNotStarted, CancelNotStarted, NotStartedCancelled,
        CancelRun, SucceedAttempt, SucceedTask, PersistOutputCheckpoint,
        RecheckRun, EvaluateFailure, UnknownTask, UnknownRun, FailTask, FailFast,
        FailFastSkip, FailRun, AssertTerminalTaskRuns, SucceedRun, OnTask,
        OnAttempt, OnWorkflow
  <2>2. /\ pc' \in Created \cup {"start", "raised"}
        /\ workflowRun' \in {workflowRun, "PENDING"}
        /\ \A t \in Tasks : taskRun'[t] \in {taskRun[t], "PENDING", "REUSED"}
    BY <1>0, <2>1, CreatingSteps
  <2>3. pc' = "start" => AllCreated'
    <3>1. (RunThreadKnows /\ pc = "start" => AllCreated)'
      BY StartIsCreated, PTL
    <3> QED
      BY <1>0, <3>1
  <2>4. ~ WorkIsUnderWay'
    BY <1>2, <2>2 DEF CreationComesFirst, WorkIsUnderWay
  <2>5. /\ workflowRun' \notin {"RUNNING", "UNKNOWN_OUTCOME"}
        /\ \A c \in Callers : ~ SawWork(call[c])'
    BY <1>0, <1>2, <2>2 DEF CreationComesFirst, SawWork
  <2> QED
    BY <2>2, <2>3, <2>4, <2>5 DEF CreationComesFirst
<1> QED
  BY <1>1, <1>2

\* A call that is over, or that ends one turn of cancel's loop, saw no work
\* that it had not seen before.
LEMMA RepliesSeeNothing ==
    ASSUME NEW c \in Callers, call[c] \in Calls, NEW status
    PROVE  /\ ~ SawWork(Reply(c, status))
           /\ ~ SawWork([NoCall EXCEPT !.at = "raised"])
           /\ SawWork(TaskReply(c, status)) =>
                 SawWork(call[c]) \/ (call[c].whole /\ status = "unconfirmed")
<1>1. ~ SawWork(Reply(c, status)) /\ ~ SawWork([NoCall EXCEPT !.at = "raised"])
  BY DEF SawWork, Reply, NoCall, InCancelTask
<1>2. CASE call[c].whole
  <2> DEFINE next == [call[c] EXCEPT !.at = "each", !.statuses = @ \cup {status}]
  <2>1. /\ next.at = "each" /\ next.todo = call[c].todo
        /\ next.listed = call[c].listed
        /\ next.statuses = call[c].statuses \cup {status}
    BY DEF Calls
  <2>2. TaskReply(c, status) = next
    BY <1>2 DEF TaskReply
  <2> HIDE DEF next
  <2> QED
    BY <1>1, <1>2, <2>1, <2>2 DEF SawWork, InCancelTask
<1>3. CASE ~ call[c].whole
  BY <1>1, <1>3 DEF TaskReply
<1> QED
  BY <1>1, <1>2, <1>3

\* A call that moves on, whatever it read of its task and its attempt.
LEMMA GoingOnSeesNothing ==
    ASSUME NEW old \in Calls, NEW local \in Calls,
           local.whole = old.whole, local.todo = old.todo,
           local.listed = old.listed, local.statuses = old.statuses,
           local.at # "settle_run", local.at \in InCancelTask => old.at \in InCancelTask,
           SawWork(local)
    PROVE  SawWork(old)
BY DEF SawWork

\* What changes when a call only moves on.
LEMMA GotoFields ==
    ASSUME NEW c \in Callers, call[c] \in Calls, NEW step \in CallSteps
    PROVE  /\ Goto(c, step) \in Calls /\ Goto(c, step).at = step
           /\ Goto(c, step).whole = call[c].whole
           /\ Goto(c, step).todo = call[c].todo
           /\ Goto(c, step).listed = call[c].listed
           /\ Goto(c, step).statuses = call[c].statuses
           /\ Goto(c, step).answer = call[c].answer
BY DEF Goto, Calls

\* What a call may see, and do to the run, in one step.
SeesNoMore(c) ==
    /\ SawWork(call'[c]) => SawWork(call[c]) \/ WorkIsUnderWay
    /\ \/ workflowRun' \in {workflowRun, "CANCELLATION_REQUESTED", "CANCELLED"}
       \/ SawWork(call[c])

\* cancel, which takes the listing for the plan.
LEMMA CancelSeesNoMore ==
    ASSUME TypeOK, CallsAreReady, NEW c \in Callers,
           \/ BeginCancel(c) \/ ReadRun(c) \/ RequestRun(c) \/ ListTasks(c)
           \/ NextListed(c) \/ CancelListed(c) \/ AllListed(c) \/ RereadRun(c)
           \/ SettleRun(c)
    PROVE  SeesNoMore(c)
<1> USE DEF SeesNoMore
<1>0. call[c] \in Calls /\ call \in [Callers -> Calls]
  BY CallType DEF TypeOK, CancellationTypeOK
<1>u. \A local : call' = [call EXCEPT ![c] = local] => call'[c] = local
  BY <1>0
<1>g. ASSUME NEW step \in CallSteps \ (InCancelTask \cup {"settle_run"}), SawWork(Goto(c, step))
      PROVE  SawWork(call[c])
  BY <1>0, <1>g, GotoFields, GoingOnSeesNothing
<1>1. CASE BeginCancel(c)
  BY <1>1, <1>g, <1>u DEF BeginCancel, Local, store, CallSteps, InCancelTask
<1>2. CASE ReadRun(c)
  <2> DEFINE next == [Goto(c, "request_run") EXCEPT !.run = workflowRun]
  <2>1. SawWork(next) => SawWork(Goto(c, "request_run"))
    BY <1>0, GotoFields DEF SawWork, Calls, CallSteps
  <2> HIDE DEF next
  <2>2. /\ workflowRun' = workflowRun
        /\ \/ \E status : call'[c] = Reply(c, status)
           \/ call'[c] = Goto(c, "list") \/ call'[c] = next
    BY <1>2, <1>u DEF ReadRun, Local, store, next
  <2> QED
    BY <1>0, <1>g, <2>1, <2>2, RepliesSeeNothing DEF CallSteps, InCancelTask
<1>3. CASE RequestRun(c)
  <2>1. /\ workflowRun' \in {workflowRun, "CANCELLATION_REQUESTED"}
        /\ \/ call'[c] = [NoCall EXCEPT !.at = "raised"] \/ call'[c] = Goto(c, "list")
    BY <1>3, <1>u
    DEF RequestRun, CallTransitionsRun, CallRaises, Local, UpdateWorkflowRun, store
  <2> QED
    BY <1>0, <1>g, <2>1, RepliesSeeNothing DEF CallSteps, InCancelTask
<1>4. CASE ListTasks(c)
  <2> DEFINE open == {t \in Tasks : taskRun[t] \in NotStarted \cup {"RUNNING"}}
             doubts == IF \E t \in Tasks : taskRun[t] = "UNKNOWN_OUTCOME"
                       THEN {"unconfirmed"} ELSE {}
             next == [Goto(c, "each") EXCEPT
                        !.listed = taskRun, !.todo = open, !.statuses = doubts]
  <2>1. call'[c] = next /\ workflowRun' = workflowRun
    BY <1>4, <1>u DEF ListTasks, Local, store
  <2>2. Goto(c, "each") \in Calls /\ Goto(c, "each").at = "each"
    BY <1>0, GotoFields DEF CallSteps
  <2>3. open \subseteq Tasks
    OBVIOUS
  <2>4. "unconfirmed" \in doubts => WorkIsUnderWay
    BY DEF WorkIsUnderWay
  <2> HIDE DEF open, doubts
  <2>5. next.at = "each" /\ next.listed = taskRun /\ next.todo = open /\ next.statuses = doubts
    BY <2>2 DEF Calls
  <2> HIDE DEF next
  <2> QED
    BY <2>1, <2>3, <2>4, <2>5 DEF SawWork, WorkIsUnderWay, InCancelTask
<1>5. CASE NextListed(c)
  <2>1. PICK t \in call[c].todo :
           Local(c, [Goto(c, IF call[c].listed[t] = "RUNNING"
                             THEN "read_task" ELSE "cancel_listed") EXCEPT
                       !.task = t, !.taskRun = call[c].listed[t],
                       !.todo = @ \ {t}])
    BY <1>5 DEF NextListed
  <2>2. CASE call[c].listed[t] = "RUNNING"
    BY <2>1, <2>2 DEF SawWork, Local, store
  <2>3. CASE call[c].listed[t] # "RUNNING"
    <3> DEFINE rest == call[c].todo \ {t}
               next == [call[c] EXCEPT !.at = "cancel_listed", !.task = t,
                                       !.taskRun = call[c].listed[t], !.todo = rest]
    <3>1. call'[c] = next /\ workflowRun' = workflowRun
      BY <1>0, <1>u, <2>1, <2>3 DEF Goto, Local, store, Calls
    <3>2. rest \subseteq call[c].todo
      OBVIOUS
    <3> HIDE DEF rest
    <3>3. /\ next.at = "cancel_listed" /\ next.listed = call[c].listed
          /\ next.todo = rest /\ next.statuses = call[c].statuses
      BY <1>0 DEF Calls
    <3> HIDE DEF next
    <3> QED
      BY <3>1, <3>2, <3>3 DEF SawWork, InCancelTask
  <2> QED
    BY <2>2, <2>3
<1>6. CASE CancelListed(c)
  <2>1. /\ workflowRun' = workflowRun
        /\ \/ call'[c] = [NoCall EXCEPT !.at = "raised"]
           \/ call'[c] = TaskReply(c, "confirmed")
    BY <1>6, <1>u
    DEF CancelListed, CallTransitionsTask, CallRaises, Local, UpdateTaskRun, store
  <2> QED
    BY <1>0, <2>1, RepliesSeeNothing
<1>7. CASE AllListed(c)
  BY <1>7, <1>g, <1>u DEF AllListed, Local, store, CallSteps, InCancelTask
<1>8. CASE RereadRun(c)
  <2> DEFINE reply == WholeReply(call[c].statuses)
             next == [Goto(c, "settle_run") EXCEPT !.run = workflowRun,
                                                   !.answer = reply]
  <2>1. reply = "unconfirmed" => "unconfirmed" \in call[c].statuses
    BY DEF WholeReply
  <2>2. /\ workflowRun' = workflowRun
        /\ call'[c] = next \/ call'[c] = Reply(c, reply)
    BY <1>8, <1>u DEF RereadRun, Local, store
  <2> HIDE DEF reply
  <2>3. /\ next.at = "settle_run" /\ next.answer = reply
        /\ next.listed = call[c].listed /\ next.todo = call[c].todo
        /\ next.statuses = call[c].statuses
    BY <1>0, GotoFields DEF Calls, CallSteps
  <2> HIDE DEF next
  <2> QED
    BY <1>0, <2>1, <2>2, <2>3, RepliesSeeNothing DEF SawWork, InCancelTask
<1>9. CASE SettleRun(c)
  <2>1. /\ \/ call'[c] = [NoCall EXCEPT !.at = "raised"]
           \/ call'[c] = Reply(c, call[c].answer)
        /\ \/ workflowRun' = workflowRun
           \/ workflowRun' = IF call[c].answer = "unconfirmed"
                             THEN "UNKNOWN_OUTCOME" ELSE "CANCELLED"
        /\ call[c].at = "settle_run"
    BY <1>9, <1>u
    DEF SettleRun, CallTransitionsRun, CallRaises, Local, UpdateWorkflowRun, store, At
  <2> QED
    BY <1>0, <2>1, RepliesSeeNothing, ZenonT(30) DEF SawWork
<1> QED
  BY <1>1, <1>2, <1>3, <1>4, <1>5, <1>6, <1>7, <1>8, <1>9

\* cancel_task, which sees the one task it is about.
LEMMA CancelTaskSeesNoMore ==
    ASSUME TypeOK, CallsAreReady, NEW c \in Callers,
           \/ BeginCancelTask(c) \/ ReadTask(c) \/ CancelPending(c) \/ ReadAttempts(c)
           \/ RequestAttempt(c) \/ LookUpHandle(c) \/ AskExecutor(c)
           \/ ReadAttemptAfter(c) \/ LoseAttempt(c) \/ LostReadTask(c) \/ LoseTask(c)
           \/ ReadTaskAfter(c) \/ ListReplyRefs(c) \/ AppendReplyRef(c)
           \/ SettleAttempt(c) \/ SettleTask(c)
    PROVE  SeesNoMore(c)
<1>0. call[c] \in Calls /\ call \in [Callers -> Calls]
  BY CallType DEF TypeOK, CancellationTypeOK
<1>u. \A local : call' = [call EXCEPT ![c] = local] => call'[c] = local
  BY <1>0
<1>1. CASE BeginCancelTask(c)
  <2>1. PICK t \in Tasks :
           Local(c, [Goto(c, "read_task") EXCEPT !.whole = FALSE, !.task = t])
    BY <1>1 DEF BeginCancelTask
  <2> DEFINE next == [call[c] EXCEPT !.at = "read_task", !.whole = FALSE, !.task = t]
  <2>2. call'[c] = next /\ workflowRun' = workflowRun
    BY <1>0, <1>u, <2>1 DEF Goto, Local, store, Calls
  <2>3. /\ next.at = "read_task" /\ ~ next.whole /\ next.listed = call[c].listed
        /\ next.todo = call[c].todo /\ next.statuses = call[c].statuses
    BY <1>0 DEF Calls
  <2> HIDE DEF next
  <2> QED
    BY <2>2, <2>3 DEF SeesNoMore, SawWork
\* The others act within cancel_task: all they may do is end it.
<1>2. ASSUME call[c].at \in InCancelTask, workflowRun' = workflowRun,
             \/ call'[c] = [NoCall EXCEPT !.at = "raised"]
             \/ \E status : call'[c] = TaskReply(c, status)
             \/ /\ call'[c].todo = call[c].todo /\ call'[c].listed = call[c].listed
                /\ call'[c].statuses = call[c].statuses
                /\ call'[c].whole = call[c].whole /\ call'[c].at # "settle_run"
      PROVE  SeesNoMore(c)
  <2>1. CASE \E status : call'[c] = TaskReply(c, status)
    <3>1. PICK status : call'[c] = TaskReply(c, status)
      BY <2>1
    <3>2. call[c].whole => SawWork(call[c])
      BY <1>2 DEF SawWork
    <3>3. SawWork(TaskReply(c, status)) =>
             SawWork(call[c]) \/ (call[c].whole /\ status = "unconfirmed")
      BY <1>0, RepliesSeeNothing
    <3> QED
      BY <1>2, <3>1, <3>2, <3>3 DEF SeesNoMore
  <2>2. CASE call'[c] = [NoCall EXCEPT !.at = "raised"]
    BY <1>0, <1>2, <2>2, RepliesSeeNothing DEF SeesNoMore
  <2>3. CASE /\ call'[c].todo = call[c].todo /\ call'[c].listed = call[c].listed
             /\ call'[c].statuses = call[c].statuses
             /\ call'[c].whole = call[c].whole /\ call'[c].at # "settle_run"
    BY <1>2, <2>3 DEF SeesNoMore, SawWork
  <2> QED
    BY <1>2, <2>1, <2>2, <2>3
<1> DEFINE Keeps(local) ==
       /\ local.todo = call[c].todo /\ local.listed = call[c].listed
       /\ local.statuses = call[c].statuses
       /\ local.whole = call[c].whole /\ local.at # "settle_run"
<1>3. \A step \in CallSteps \ {"settle_run"} : Keeps(Goto(c, step))
  BY <1>0, GotoFields
<1>4. \A step \in CallSteps \ {"settle_run"} : \A answer, attempt, status, num :
         /\ Keeps([Goto(c, step) EXCEPT !.taskRun = status])
         /\ Keeps([Goto(c, step) EXCEPT !.answer = answer])
         /\ Keeps([Goto(c, step) EXCEPT !.attempt = attempt])
         /\ Keeps([call[c] EXCEPT !.at = step, !.answer = answer])
         /\ Keeps([call[c] EXCEPT !.num = num, !.attempt = attempt, !.at = step])
         /\ Keeps([call[c] EXCEPT !.taskRun = status, !.at = step])
  BY <1>0 DEF Goto, Calls
<1> HIDE DEF Keeps
<1>5. ASSUME call[c].at \in InCancelTask, NEW local, Local(c, local),
             Keeps(local) \/ \E status : local = TaskReply(c, status)
      PROVE  SeesNoMore(c)
  <2>1. workflowRun' = workflowRun /\ call'[c] = local
    BY <1>5, <1>u DEF Local, store
  <2> QED
    BY <1>2, <1>5, <2>1 DEF Keeps
<1>6. CASE ReadTask(c)
  <2> DEFINE status == taskRun[call[c].task]
             AtStep(step) == [Goto(c, step) EXCEPT !.taskRun = status]
  <2>1. Keeps(AtStep("cancel_pending")) /\ Keeps(AtStep("read_attempts"))
    BY <1>4 DEF CallSteps
  <2>2. /\ call[c].at \in InCancelTask
        /\ \/ \E reply : Local(c, TaskReply(c, reply))
           \/ \E step \in {"cancel_pending", "read_attempts"} : Local(c, AtStep(step))
    BY <1>6 DEF ReadTask, At, InCancelTask
  <2> HIDE DEF AtStep
  <2> QED
    BY <1>5, <2>1, <2>2
<1>7. CASE LostReadTask(c)
  <2> DEFINE next == [Goto(c, "lost_task") EXCEPT !.taskRun = taskRun[call[c].task]]
  <2>1. Keeps(next)
    BY <1>4 DEF CallSteps
  <2>2. call[c].at \in InCancelTask /\ Local(c, next)
    BY <1>7 DEF LostReadTask, At, InCancelTask
  <2> HIDE DEF next
  <2> QED
    BY <1>5, <2>1, <2>2
<1>8. CASE ReadAttemptAfter(c)
  <2> DEFINE step == CASE call[c].answer = Unanswered -> "lost_attempt"
                       [] call[c].answer = "unsupported" -> "settle_attempt"
                       [] OTHER -> "after_task"
             next == [Goto(c, step) EXCEPT
                        !.attempt = taskAttempts[call[c].task][call[c].num]]
  <2>1. step \in CallSteps \ {"settle_run"}
    BY DEF CallSteps
  <2>2. call[c].at \in InCancelTask /\ Local(c, next)
    BY <1>8 DEF ReadAttemptAfter, At, InCancelTask
  <2> HIDE DEF step
  <2>3. Keeps(next)
    BY <1>4, <2>1
  <2> HIDE DEF next
  <2> QED
    BY <1>5, <2>2, <2>3
<1>9. CASE LookUpHandle(c)
  <2> DEFINE next(answer) == [Goto(c, "after_attempt") EXCEPT !.answer = answer]
  <2>1. \A answer : Keeps(next(answer))
    BY <1>4 DEF CallSteps
  <2>2. Keeps(Goto(c, "ask_executor"))
    BY <1>3 DEF CallSteps
  <2>3. /\ call[c].at \in InCancelTask
        /\ \/ Local(c, next(Unanswered)) \/ Local(c, next("unsupported"))
           \/ Local(c, Goto(c, "ask_executor"))
    BY <1>9 DEF LookUpHandle, At, InCancelTask
  <2> HIDE DEF next
  <2> QED
    BY <1>5, <2>1, <2>2, <2>3
<1>10. CASE ReadAttempts(c)
  <2> DEFINE n == Len(taskAttempts[call[c].task])
             latest == taskAttempts[call[c].task][n]
             AtStep(step) == [call[c] EXCEPT !.num = n, !.attempt = latest, !.at = step]
  <2>1. /\ call[c].at \in InCancelTask
        /\ \/ \E reply : Local(c, TaskReply(c, reply))
           \/ \E step \in {"handle", "request_attempt"} : Local(c, AtStep(step))
    BY <1>0, <1>10 DEF ReadAttempts, At, InCancelTask, Calls
  <2> HIDE DEF n, latest
  <2>2. Keeps(AtStep("handle")) /\ Keeps(AtStep("request_attempt"))
    BY <1>4 DEF CallSteps
  <2> HIDE DEF AtStep
  <2> QED
    BY <1>5, <2>1, <2>2
<1>11. CASE ReadTaskAfter(c)
  <2> DEFINE next == [Goto(c, "reply_refs") EXCEPT !.taskRun = taskRun[call[c].task]]
  <2>1. Keeps(next)
    BY <1>4 DEF CallSteps
  <2>2. call[c].at \in InCancelTask /\ Local(c, next)
    BY <1>11 DEF ReadTaskAfter, At, InCancelTask
  <2> HIDE DEF next
  <2> QED
    BY <1>5, <2>1, <2>2
<1>r. Keeps(AfterReplyRefs(c)) \/ \E status : AfterReplyRefs(c) = TaskReply(c, status)
  BY <1>3 DEF AfterReplyRefs, CallSteps
<1>14. CASE ListReplyRefs(c)
  <2>1. Keeps(Goto(c, "append_ref"))
    BY <1>3 DEF CallSteps
  <2>2. /\ call[c].at \in InCancelTask
        /\ Local(c, AfterReplyRefs(c)) \/ Local(c, Goto(c, "append_ref"))
    BY <1>14 DEF ListReplyRefs, At, InCancelTask
  <2> QED
    BY <1>5, <1>r, <2>1, <2>2
<1>15. CASE AppendReplyRef(c)
  <2>1. /\ call[c].at \in InCancelTask /\ workflowRun' = workflowRun
        /\ call'[c] = [NoCall EXCEPT !.at = "raised"] \/ call'[c] = AfterReplyRefs(c)
    BY <1>15, <1>u
    DEF AppendReplyRef, AppendExternalRunRef, CallRaises, Local, At, store, InCancelTask
  <2> QED
    BY <1>2, <1>r, <2>1 DEF Keeps
<1>12. CASE AskExecutor(c)
  <2>1. PICK answer :
           call' = [call EXCEPT ![c].at = "after_attempt", ![c].answer = answer]
    BY <1>12 DEF AskExecutor
  <2> DEFINE next == [call[c] EXCEPT !.at = "after_attempt", !.answer = answer]
  <2>2. call'[c] = next
    BY <1>0, <2>1 DEF Calls
  <2>3. Keeps(next)
    BY <1>4 DEF CallSteps
  <2>4. call[c].at \in InCancelTask /\ workflowRun' = workflowRun
    BY <1>12 DEF AskExecutor, At, store, InCancelTask
  <2> HIDE DEF next
  <2> QED
    BY <1>2, <2>2, <2>3, <2>4 DEF Keeps
<1>13. CASE \/ CancelPending(c) \/ RequestAttempt(c) \/ LoseAttempt(c) \/ LoseTask(c)
           \/ SettleAttempt(c) \/ SettleTask(c)
  <2>1. /\ call[c].at \in InCancelTask /\ workflowRun' = workflowRun
        /\ \/ call'[c] = [NoCall EXCEPT !.at = "raised"]
           \/ \E status : call'[c] = TaskReply(c, status)
           \/ \E step \in CallSteps \ {"settle_run"} : call'[c] = Goto(c, step)
    <3> USE DEF CallTransitionsTask, CallTransitionsAttempt, CallRaises, Local, At,
                UpdateTaskRun, UpdateTaskAttempt, store, InCancelTask, CallSteps
    <3>1. CASE CancelPending(c)
      BY <1>u, <3>1 DEF CancelPending
    <3>2. CASE RequestAttempt(c)
      BY <1>u, <3>2 DEF RequestAttempt
    <3>3. CASE LoseAttempt(c)
      BY <1>u, <3>3 DEF LoseAttempt
    <3>4. CASE LoseTask(c)
      BY <1>u, <3>4 DEF LoseTask
    <3>5. CASE SettleAttempt(c)
      BY <1>u, <3>5 DEF SettleAttempt
    <3>6. CASE SettleTask(c)
      BY <1>u, <3>6 DEF SettleTask
    <3> QED
      BY <1>13, <3>1, <3>2, <3>3, <3>4, <3>5, <3>6
  <2>2. \/ call'[c] = [NoCall EXCEPT !.at = "raised"]
        \/ \E status : call'[c] = TaskReply(c, status)
        \/ Keeps(call'[c])
    BY <1>3, <2>1
  <2> QED
    BY <1>2, <2>1, <2>2 DEF Keeps
<1> QED
  BY <1>1, <1>6, <1>7, <1>8, <1>9, <1>10, <1>11, <1>12, <1>13, <1>14, <1>15

\* Nobody but the run thread takes up a task.
LEMMA OthersTakeUpNothing ==
    ASSUME StoreTypeOK, RecordsAgree,
           \/ CallerUpdate
           \/ UNCHANGED taskRun
           \/ \E t \in Tasks : \E e \in TaskRunStatus \cup {Absent},
                               g \in TaskRunTerminal : UpdateTaskRun(t, e, g)
    PROVE  WorkIsUnderWay' => WorkIsUnderWay
<1>0. taskRun \in [Tasks -> TaskRunStatus \cup {Absent}]
  BY DEF StoreTypeOK
<1>1. CASE UNCHANGED taskRun
  BY <1>1 DEF WorkIsUnderWay
<1>2. ASSUME NEW t \in Tasks, NEW e \in TaskRunStatus \cup {Absent},
             NEW g \in TaskRunTerminal \cup {"UNKNOWN_OUTCOME"}, UpdateTaskRun(t, e, g)
      PROVE  WorkIsUnderWay' => WorkIsUnderWay
  <2>1. /\ taskRun[t] = e /\ e \in TaskRunStatus /\ g \in TaskRunTransitions[e]
        /\ taskRun'[t] = g
        /\ \A u \in Tasks : u # t => taskRun'[u] = taskRun[u]
    BY <1>0, <1>2 DEF UpdateTaskRun, TaskUpdateAccepted
  <2>2. g = "UNKNOWN_OUTCOME" => e = "RUNNING"
    BY <2>1 DEF TaskRunTransitions, TaskRunStatus
  <2>3. g # "UNKNOWN_OUTCOME" => g \notin {"READY", "RUNNING", "UNKNOWN_OUTCOME"}
    BY DEF TaskRunTerminal
  <2> QED
    BY <2>1, <2>2, <2>3 DEF WorkIsUnderWay
<1> QED
  BY <1>1, <1>2
  DEF CallerUpdate, SettlesRun, SettlesAttempt, UpdateWorkflowRun, UpdateTaskAttempt,
      AppendExternalRunRef, TaskRunTerminal, store

\* Nor does a cancelling thread see work before there is any.
LEMMA CallersCreate ==
    ASSUME IInv, VInv, CreationComesFirst, NEW c \in Callers,
           CallBegins(c) \/ CallStep(c)
    PROVE  CreationComesFirst'
<1>0. /\ TypeOK /\ StoreTypeOK /\ CallsAreReady /\ CallsKnow /\ RecordsAgree
      /\ call \in [Callers -> Calls]
  BY DEF IInv, VInv, TypeOK, CancellationTypeOK
<1>1. CallEffect(c) /\ SeesNoMore(c)
  BY <1>0, CallerEffects, CancelSeesNoMore, CancelTaskSeesNoMore
  DEF CallBegins, CallStep
<1>2. StoreStep /\ pc' = pc /\ CallerUpdate
  BY <1>1, CallerUpdateIsDue, DueStepIsStoreStep DEF CallEffect, DueStep, runThread
<1>3. AllCreated => AllCreated'
  BY <1>0, <1>2, CreatedStays
<1>4. WorkIsUnderWay' => WorkIsUnderWay
  BY <1>0, <1>2, OthersTakeUpNothing
<1>5. ASSUME NEW d \in Callers, SawWork(call'[d]) PROVE AllCreated'
  <2>1. d # c => call'[d] = call[d]
    BY <1>0, <1>1 DEF CallEffect
  <2> QED
    BY <1>1, <1>3, <1>5, <2>1 DEF SeesNoMore, CreationComesFirst
<1>6. workflowRun' \in {"RUNNING", "UNKNOWN_OUTCOME"} => AllCreated'
  BY <1>1, <1>3 DEF SeesNoMore, CreationComesFirst
<1>7. \A d \in Callers : SawWork(call[d])' => AllCreated'
  BY <1>5 DEF SawWork
<1> QED
  BY <1>2, <1>3, <1>4, <1>6, <1>7 DEF CreationComesFirst

\* The same of every step of the program.
LEMMA CreationInductive ==
    ASSUME IInv, VInv, CreationComesFirst, [Next]_vars
    PROVE  CreationComesFirst'
<1>1. CASE UNCHANGED vars
  BY <1>1
  DEF CreationComesFirst, AllCreated, WorkIsUnderWay, SawWork, vars, store, runLoopVars
<1> QED
  BY <1>1, RunThreadCreates, CallersCreate DEF Next, Stopped

\* Tasks that were passed over are never attempted.
LEMMA PassedOverInductive ==
    ASSUME StoreTypeOK, RecordsAgree, DueStep, PassedOverIsUntried
    PROVE  PassedOverIsUntried'
<1> SUFFICES ASSUME NEW t \in Tasks, taskRun'[t] \in {"SKIPPED", "REUSED"}
             PROVE  taskAttempts'[t] = << >>
  BY DEF PassedOverIsUntried
<1>0. /\ taskRun \in [Tasks -> TaskRunStatus \cup {Absent}]
      /\ taskAttempts \in [Tasks -> Seq(TaskAttemptStatus)]
  BY DEF StoreTypeOK
<1>1. CASE UNCHANGED <<taskRun, taskAttempts>>
  BY <1>1 DEF PassedOverIsUntried
<1>2. CASE \E u \in Tasks : CreateTaskRun(u)
  BY <1>0, <1>2 DEF CreateTaskRun, PassedOverIsUntried
<1>3. CASE SettlesTask
  BY <1>0, <1>3
  DEF SettlesTask, UpdateTaskRun, TaskVerdictIsDue, PassedOverIsUntried
<1>4. CASE SettlesAttempt
  <2>1. PICK u \in Tasks, n \in Nat, e \in TaskAttemptStatus, g \in TaskAttemptStatus :
           UpdateTaskAttempt(u, n, e, g)
    BY <1>4 DEF SettlesAttempt
  <2>2. /\ taskAttempts[u] # << >> /\ taskRun' = taskRun
        /\ \A v \in Tasks : v # u => taskAttempts'[v] = taskAttempts[v]
    BY <2>1, OnlyLastIsUpdated DEF UpdateTaskAttempt, RecordsAgree
  <2> QED
    BY <2>2 DEF PassedOverIsUntried
<1>5. CASE Tries
  <2>1. PICK u \in Tasks : /\ taskRun[u] \in {"RUNNING", "UNKNOWN_OUTCOME"}
                           /\ AppendTaskAttempt(u)
    BY <1>5 DEF Tries
  <2>2. taskRun' = taskRun /\ \A v \in Tasks : v # u => taskAttempts'[v] = taskAttempts[v]
    BY <2>1, TriedIsLast DEF AppendTaskAttempt
  <2> QED
    BY <2>1, <2>2 DEF PassedOverIsUntried
<1> QED
  BY <1>1, <1>2, <1>3, <1>4, <1>5
  DEF DueStep, DueUpdate, Notes, SettlesRun, store, CreateWorkflowRun,
      UpdateWorkflowRun, AppendExternalRunRef, SetTaskOutputCheckpoint

-----------------------------------------------------------------------------
(* What a reconciler knows survives whatever the others do meanwhile.      *)

\* All that is done to the store once the run thread is gone: nothing is
\* created and nothing is tried.
LateUpdate ==
    \/ UNCHANGED store
    \/ \E t \in Tasks, n \in Nat : AppendExternalRunRef(t, n)
    \/ \E e, g \in WorkflowRunStatus \cup {Absent} :
          g # Absent /\ UpdateWorkflowRun(e, g)
    \/ SettlesTask
    \/ SettlesAttempt

\* A reconciler's reason to settle the run.
RepairVerdictIsDue(g) ==
    /\ g \in {"SUCCEEDED", "FAILED", "TIMED_OUT"} => \A t \in Tasks : Closed(t)
    /\ g = "SUCCEEDED" => \A t \in Tasks : Passed(t)
    /\ g \in {"FAILED", "TIMED_OUT"} => \E t \in Tasks : taskRun[t] = g
    /\ g \in {"RUNNING", "UNKNOWN_OUTCOME"} => AllCreated

\* All that a reconciler does to it.
RepairUpdate ==
    \/ UNCHANGED store
    \/ \E e, g \in WorkflowRunStatus \cup {Absent} :
          g # Absent /\ UpdateWorkflowRun(e, g) /\ RepairVerdictIsDue(g)
    \/ \E t \in Tasks, e \in TaskRunStatus \cup {Absent}, g \in TaskAttemptTerminal :
          UpdateTaskRun(t, e, g) /\ AttemptEnded(t, g)
    \/ SettlesAttempt

\* Cancelling threads and reconcilers keep to that.
LEMMA LateUpdates ==
    /\ CallerUpdate => LateUpdate
    /\ RepairUpdate => LateUpdate
    /\ LateUpdate => StoreUpdate
<1>1. CallerUpdate => LateUpdate
  BY DEF CallerUpdate, LateUpdate, SettlesRun, SettlesTask, TaskVerdictIsDue,
         TaskRunStatus, Absent, NotStarted
<1>2. RepairUpdate => LateUpdate
  <2>1. ASSUME NEW t \in Tasks, NEW e \in TaskRunStatus \cup {Absent},
               NEW g \in TaskAttemptTerminal, UpdateTaskRun(t, e, g), AttemptEnded(t, g)
        PROVE  SettlesTask
    <3>1. g \in TaskRunStatus \cup {Absent} /\ g # Absent /\ TaskVerdictIsDue(t, g)
      BY <2>1
      DEF TaskAttemptTerminal, TaskRunStatus, Absent, TaskVerdictIsDue, NotStarted
    <3> QED
      BY <2>1, <3>1 DEF SettlesTask
  <2> QED
    BY <2>1 DEF RepairUpdate, LateUpdate
<1>3. LateUpdate => StoreUpdate
  BY DEF LateUpdate, StoreUpdate, SettlesTask, SettlesAttempt
<1> QED
  BY <1>1, <1>2, <1>3

\* What ended has ended, and what never began never will.
LEMMA LateStays ==
    ASSUME StoreTypeOK, RecordsAgree, LateUpdate, NEW t \in Tasks
    PROVE  /\ Settled(t) => taskRun'[t] = taskRun[t]
           /\ taskRun[t] = Absent => taskRun'[t] = Absent
           /\ taskRun[t] # Absent => taskRun'[t] # Absent
           /\ Len(taskAttempts'[t]) = Len(taskAttempts[t])
           /\ taskAttempts'[t] = << >> <=> taskAttempts[t] = << >>
           /\ \A status \in TaskAttemptTerminal :
                 AttemptEnded(t, status) => AttemptEnded(t, status)'
           /\ Closed(t) => Closed(t)'
<1>0. /\ StoreStep /\ StoreUpdate /\ StoreTypeOK'
      /\ taskRun \in [Tasks -> TaskRunStatus \cup {Absent}]
  BY LateUpdates, StoreTypeInductive DEF StoreStep, StoreTypeOK
<1>1. Settled(t) => taskRun'[t] = taskRun[t]
  BY <1>0, SettledStays DEF Settled
<1>2. /\ taskRun[t] = Absent => taskRun'[t] = Absent
      /\ taskRun[t] # Absent => taskRun'[t] # Absent
  BY <1>0
  DEF LateUpdate, SettlesTask, SettlesAttempt, UpdateTaskRun, UpdateTaskAttempt,
      UpdateWorkflowRun, TaskUpdateAccepted, AppendExternalRunRef, store
<1>3. Len(taskAttempts'[t]) = Len(taskAttempts[t])
  BY <1>0, UpdateAppendsNothing
<1>4. taskAttempts'[t] = << >> <=> taskAttempts[t] = << >>
  <2>1. taskAttempts[t] \in Seq(TaskAttemptStatus) /\ taskAttempts'[t] \in Seq(TaskAttemptStatus)
    BY <1>0 DEF StoreTypeOK
  <2> QED
    BY <1>3, <2>1, EmptySeq
<1>5. ASSUME NEW status \in TaskAttemptTerminal, AttemptEnded(t, status)
      PROVE  AttemptEnded(t, status)'
  <2>1. CASE UNCHANGED taskAttempts
    BY <1>5, <2>1 DEF AttemptEnded, LastAttempt
  <2>2. CASE SettlesAttempt
    BY <1>5, <2>2, EndStays DEF RecordsAgree, DueUpdate
  <2> QED
    BY <2>1, <2>2
    DEF LateUpdate, SettlesTask, UpdateTaskRun, UpdateWorkflowRun, AppendExternalRunRef,
        store
<1> QED
  BY <1>1, <1>2, <1>3, <1>4, <1>5 DEF Closed, Settled

\* The four ways a report says that a task was resolved.
LEMMA ResolvedAsType ==
    \A status \in TaskAttemptTerminal :
        /\ ResolvedAs(status) \in ReconciliationDisposition
        /\ ResolvedAs(status) \notin LeftOpen \cup {"NO_ACTION"}
        /\ \A other \in TaskAttemptTerminal :
              ResolvedAs(status) = ResolvedAs(other) => status = other
BY DEF TaskAttemptTerminal, ResolvedAs, ReconciliationDisposition, LeftOpen

\* A reconciler's knowledge is of that kind.
LEMMA RepairKnowledgeStays ==
    ASSUME StoreTypeOK, RecordsAgree, LateUpdate, NEW local \in Recons, RepairKnows(local)
    PROVE  RepairKnows(local)'
<1>0. /\ local.task \in Tasks /\ local.num \in Nat
      /\ local.report \subseteq Tasks \X ReconciliationDisposition
  BY DEF Recons
<1>s. /\ TaskAttemptTerminal \subseteq TaskRunTerminal
      /\ Resolutions \subseteq TaskAttemptTerminal
      /\ Absent \notin TaskRunTerminal
  BY DEF TaskAttemptTerminal, TaskRunTerminal, Resolutions, Absent
<1>1. AttemptIsKnown(local)'
  BY <1>0, <1>s, LateStays DEF RepairKnows, AttemptIsKnown
<1>2. ReportHolds(local)'
  BY <1>s, LateStays DEF RepairKnows, ReportHolds, Settled
<1>3. EveryTaskIsSeen(local)'
  BY LateStays DEF RepairKnows, EveryTaskIsSeen, ReportedOpen
<1>4. VerdictIsKnown(local)'
  <2> SUFFICES ASSUME local.at = "settle_run" PROVE VerdictIsKnown(local)'
    BY DEF VerdictIsKnown
  <2>1. \A t \in Tasks : Passed(t) => Passed(t)'
    BY LateStays DEF Passed, Settled, TaskRunTerminal
  <2>2. \A t \in Tasks : taskRun[t] \in {"FAILED", "TIMED_OUT"} => taskRun'[t] = taskRun[t]
    BY LateStays DEF Settled, TaskRunTerminal
  <2> QED
    BY <2>1, <2>2, LateStays DEF RepairKnows, VerdictIsKnown
<1> QED
  BY <1>1, <1>2, <1>3, <1>4 DEF RepairKnows

-----------------------------------------------------------------------------
(* Each step of a reconciler.                                              *)

RepairEffect(r) ==
    /\ RepairUpdate
    /\ UNCHANGED <<runLoopVars, call, process>>
    /\ \E local \in Recons :
          RepairKnows(local)' /\ recon' = [recon EXCEPT ![r] = local]

\* The local variables after the report of a task is filled in.
AsReported(local, d) ==
    [[local EXCEPT !.at = "next_task"] EXCEPT !.report = @ \cup {<<local.task, d>>}]

\* A disposition that the records bear out.
DispositionHolds(t, d) ==
    \/ d \in LeftOpen
    \/ d = "NO_ACTION" /\ taskAttempts[t] = << >>
    \/ \E status \in TaskAttemptTerminal : d = ResolvedAs(status) /\ taskRun[t] = status

ReportsStayTrue ==
    \A local \in Recons, d \in ReconciliationDisposition :
        RepairKnows(local) /\ local.at \in OnOneTask /\ DispositionHolds(local.task, d)
            => AsReported(local, d) \in Recons /\ RepairKnows(AsReported(local, d))

\* A report grows by a line that is so.
LEMMA ReportGrows == ReportsStayTrue
<1> SUFFICES ASSUME NEW local \in Recons, NEW d \in ReconciliationDisposition,
                    RepairKnows(local), local.at \in OnOneTask,
                    DispositionHolds(local.task, d)
             PROVE  AsReported(local, d) \in Recons /\ RepairKnows(AsReported(local, d))
  BY DEF ReportsStayTrue
<1> DEFINE next == AsReported(local, d)
<1> DEFINE line == {<<local.task, d>>}
<1>0. line \subseteq Tasks \X ReconciliationDisposition
  BY DEF Recons
<1> HIDE DEF line
<1>1. /\ next \in Recons /\ next.at = "next_task" /\ next.todo = local.todo
      /\ next.report = local.report \cup line
  <2> DEFINE moved == [local EXCEPT !.at = "next_task"]
             report == local.report \cup line
  <2>1. moved \in Recons /\ moved.at = "next_task" /\ moved.todo = local.todo
        /\ moved.report = local.report
    BY DEF Recons, ReconSteps
  <2>2. next = [moved EXCEPT !.report = report]
    BY DEF AsReported, line
  <2>3. report \subseteq Tasks \X ReconciliationDisposition
    BY <1>0 DEF Recons
  <2> HIDE DEF moved, report, next
  <2>4. next \in Recons /\ next.at = moved.at /\ next.todo = moved.todo
        /\ next.report = report
    BY <2>1, <2>2, <2>3 DEF Recons
  <2> QED
    BY <2>1, <2>4 DEF report
<1> USE DEF line
<1> HIDE DEF next
<1>2. AttemptIsKnown(next) /\ VerdictIsKnown(next)
  BY <1>1 DEF AttemptIsKnown, VerdictIsKnown
<1>3. ReportHolds(next)
  <2>1. ASSUME NEW t \in Tasks, NEW status \in TaskAttemptTerminal,
               <<t, ResolvedAs(status)>> \in next.report
        PROVE  taskRun[t] = status
    <3>1. CASE <<t, ResolvedAs(status)>> \in local.report
      BY <3>1 DEF RepairKnows, ReportHolds
    <3>2. CASE t = local.task /\ ResolvedAs(status) = d
      BY <3>2, ResolvedAsType DEF DispositionHolds
    <3> QED
      BY <1>1, <2>1, <3>1, <3>2
  <2>2. ASSUME NEW t \in Tasks, <<t, "NO_ACTION">> \in next.report
        PROVE  taskAttempts[t] = << >>
    <3>1. CASE <<t, "NO_ACTION">> \in local.report
      BY <3>1 DEF RepairKnows, ReportHolds
    <3>2. CASE t = local.task /\ "NO_ACTION" = d
      BY <3>2, ResolvedAsType DEF DispositionHolds, LeftOpen
    <3> QED
      BY <1>1, <2>2, <3>1, <3>2
  <2> QED
    BY <2>1, <2>2 DEF ReportHolds
<1>4. EveryTaskIsSeen(next)
  <2>1. \A t \in Tasks : ReportedOpen(local, t) => ReportedOpen(next, t)
    BY <1>1 DEF ReportedOpen
  <2>2. Closed(local.task) \/ ReportedOpen(next, local.task)
    BY <1>1
    DEF DispositionHolds, ReportedOpen, Closed, Settled, TaskAttemptTerminal,
        TaskRunTerminal
  <2> QED
    BY <1>1, <2>1, <2>2 DEF RepairKnows, EveryTaskIsSeen, Visits, OnOneTask, Concluding
<1> QED
  BY <1>1, <1>2, <1>3, <1>4 DEF RepairKnows, next

\* A reconciler that only reads.
LEMMA ReadsEffect ==
    ASSUME NEW r \in Reconcilers, NEW local \in Recons, RepairKnows(local), Reads(r, local)
    PROVE  RepairEffect(r)
<1>1. UNCHANGED store /\ UNCHANGED <<runLoopVars, call, process>>
      /\ recon' = [recon EXCEPT ![r] = local]
  BY DEF Reads, Records
<1>2. RepairKnows(local)'
  BY <1>1
  DEF RepairKnows, AttemptIsKnown, AttemptEnded, LastAttempt, ReportHolds,
      EveryTaskIsSeen, Closed, Settled, ReportedOpen, VerdictIsKnown, Passed, store
<1> QED
  BY <1>1, <1>2 DEF RepairEffect, RepairUpdate

\* What is known when a call is over.
OverIsKnown ==
    \A local \in Recons, step \in {"done", "raised", "dead"} :
        /\ [NoRecon EXCEPT !.at = step] \in Recons
        /\ RepairKnows([NoRecon EXCEPT !.at = step])
        /\ [NoRecon EXCEPT !.at = step, !.report = local.report] \in Recons
        /\ ReportHolds(local) =>
              RepairKnows([NoRecon EXCEPT !.at = step, !.report = local.report])

\* The report of a call that is over remains.
LEMMA OverKnows == OverIsKnown
<1> SUFFICES ASSUME NEW local \in Recons, NEW step \in {"done", "raised", "dead"}
             PROVE  /\ [NoRecon EXCEPT !.at = step] \in Recons
                    /\ RepairKnows([NoRecon EXCEPT !.at = step])
                    /\ [NoRecon EXCEPT !.at = step, !.report = local.report] \in Recons
                    /\ ReportHolds(local) =>
                          RepairKnows([NoRecon EXCEPT !.at = step, !.report = local.report])
  BY DEF OverIsKnown
<1> DEFINE over == [NoRecon EXCEPT !.at = step]
           done == [NoRecon EXCEPT !.at = step, !.report = local.report]
<1>0. NoRecon \in Recons /\ 1 \in Tasks
  BY TaskCountIsPositive
  DEF Tasks, NoRecon, Recons, ReconSteps, WorkflowRunStatus, TaskRunStatus,
      TaskAttemptStatus
<1>1. over \in Recons /\ over.at = step /\ over.report = {}
  BY <1>0 DEF Recons, ReconSteps, NoRecon
<1>2. done \in Recons /\ done.at = step /\ done.report = local.report
  BY <1>0 DEF Recons, ReconSteps, NoRecon
<1> HIDE DEF over, done
<1>3. RepairKnows(over)
  BY <1>1
  DEF RepairKnows, AttemptIsKnown, ReportHolds, EveryTaskIsSeen, Visits, OnOneTask,
      Concluding, VerdictIsKnown
<1>4. ReportHolds(local) => RepairKnows(done)
  BY <1>2
  DEF RepairKnows, AttemptIsKnown, ReportHolds, EveryTaskIsSeen, Visits, OnOneTask,
      Concluding, VerdictIsKnown
<1> QED
  BY <1>1, <1>2, <1>3, <1>4 DEF over, done

\* A call that raises, returns or dies.
LEMMA OverEffect ==
    ASSUME NEW r \in Reconcilers, recon[r] \in Recons, RepairKnows(recon[r]),
           ReconRaises(r) \/ ReconDone(r) \/ ReconcilerDies(r)
    PROVE  RepairEffect(r)
<1> DEFINE over(step) == [NoRecon EXCEPT !.at = step]
           done == [NoRecon EXCEPT !.at = "done", !.report = recon[r].report]
<1>1. /\ \A step \in {"raised", "dead"} : over(step) \in Recons /\ RepairKnows(over(step))
      /\ done \in Recons /\ RepairKnows(done)
  BY OverKnows DEF OverIsKnown, RepairKnows
<1>2. Reads(r, over("raised")) \/ Reads(r, over("dead")) \/ Reads(r, done)
  BY DEF ReconRaises, ReconDone, Finished, ReconcilerDies, Reads, Records, vars
<1> HIDE DEF over, done
<1> QED
  BY <1>1, <1>2, ReadsEffect

\* What a reconciler is known to know when it takes a step.
Informed(r) ==
    /\ StoreTypeOK /\ RecordsAgree /\ CreationComesFirst
    /\ recon[r] \in Recons /\ RepairKnows(recon[r])

\* A disposition is reported.
LEMMA ReportEffect ==
    ASSUME NEW r \in Reconcilers, Informed(r), recon[r].at \in OnOneTask,
           NEW d \in ReconciliationDisposition, Reads(r, Reported(r, d)),
           DispositionHolds(recon[r].task, d)
    PROVE  RepairEffect(r)
<1> DEFINE next == AsReported(recon[r], d)
<1>1. next \in Recons /\ RepairKnows(next)
  BY ReportGrows DEF ReportsStayTrue, Informed
<1>2. Reads(r, next)
  BY DEF AsReported, Reported, Then
<1> HIDE DEF next
<1> QED
  BY <1>1, <1>2, ReadsEffect

\* The reconciler sets out, and looks for open tasks.
LEMMA SetOutEffect ==
    ASSUME NEW r \in Reconcilers, Informed(r),
           BeginReconcile(r) \/ ReadRunBefore(r) \/ ListOpenTasks(r)
    PROVE  RepairEffect(r)
<1>0. recon[r] \in Recons /\ RepairKnows(recon[r])
  BY DEF Informed
<1>1. ASSUME NEW step \in {"read_run", "list"}, Reads(r, Then(r, step))
      PROVE  RepairEffect(r)
  <2> DEFINE next == Then(r, step)
  <2>1. next \in Recons /\ next.at = step /\ next.report = recon[r].report
    BY <1>0 DEF Then, Recons, ReconSteps
  <2> HIDE DEF next
  <2>2. RepairKnows(next)
    BY <1>0, <2>1
    DEF RepairKnows, AttemptIsKnown, ReportHolds, EveryTaskIsSeen, VerdictIsKnown,
        Visits, OnOneTask, Concluding
  <2> QED
    BY <1>1, <2>1, <2>2, ReadsEffect DEF next
<1>2. CASE ListOpenTasks(r)
  <2> DEFINE open == {t \in Tasks : taskRun[t] \notin TaskRunTerminal \cup {Absent}}
             next == [Then(r, "next_task") EXCEPT !.todo = open]
  <2>1. open \subseteq Tasks
    OBVIOUS
  <2>2. \A t \in Tasks : Closed(t) \/ t \in open
    BY DEF Closed, Settled, Informed, RecordsAgree, QueuedTasksAreUntried
  <2> HIDE DEF open
  <2>3. /\ next \in Recons /\ next.at = "next_task" /\ next.todo = open
        /\ next.report = recon[r].report
    BY <1>0, <2>1 DEF Then, Recons, ReconSteps
  <2>4. Reads(r, next)
    BY <1>2 DEF ListOpenTasks, open
  <2> HIDE DEF next
  <2>5. RepairKnows(next)
    BY <1>0, <2>2, <2>3
    DEF RepairKnows, AttemptIsKnown, ReportHolds, EveryTaskIsSeen, VerdictIsKnown,
        Visits, OnOneTask, Concluding
  <2> QED
    BY <2>3, <2>4, <2>5, ReadsEffect
<1> QED
  BY <1>0, <1>1, <1>2, OverEffect DEF BeginReconcile, ReadRunBefore

\* It takes up a task and reads its records.
LEMMA TakeUpEffect ==
    ASSUME NEW r \in Reconcilers, Informed(r),
           NextOpenTask(r) \/ ReadOpenTask(r) \/ ReadLatestAttempt(r)
    PROVE  RepairEffect(r)
<1>0. /\ recon[r] \in Recons /\ RepairKnows(recon[r]) /\ recon[r].task \in Tasks
      /\ taskRun \in [Tasks -> TaskRunStatus \cup {Absent}] /\ StoreTypeOK
  BY DEF Informed, Recons, StoreTypeOK
<1> USE DEF RepairKnows, AttemptIsKnown, ReportHolds, EveryTaskIsSeen, VerdictIsKnown,
            ReportedOpen, Visits, OnOneTask, Concluding
<1>1. CASE NextOpenTask(r)
  <2>1. PICK t \in recon[r].todo :
           Reads(r, [Then(r, "read_task") EXCEPT !.task = t, !.todo = @ \ {t}])
    BY <1>1 DEF NextOpenTask
  <2> DEFINE rest == recon[r].todo \ {t}
             next == [recon[r] EXCEPT !.at = "read_task", !.task = t, !.todo = rest]
  <2>2. t \in Tasks /\ rest \subseteq Tasks
    BY <1>0 DEF Recons
  <2>3. Reads(r, next)
    BY <1>0, <2>1 DEF Then, Recons
  <2> HIDE DEF rest
  <2>4. /\ next \in Recons /\ next.at = "read_task" /\ next.todo = rest
        /\ next.task = t /\ next.report = recon[r].report
    BY <1>0, <2>2 DEF Recons, ReconSteps
  <2> HIDE DEF next
  <2>5. RepairKnows(next)
    BY <1>0, <1>1, <2>4 DEF NextOpenTask, Doing, rest
  <2> QED
    BY <2>3, <2>4, <2>5, ReadsEffect
<1>2. CASE ReadOpenTask(r)
  <2> DEFINE status == taskRun[recon[r].task]
             next == [Then(r, "read_attempts") EXCEPT !.taskRun = status]
  <2>1. status \in TaskRunStatus \cup {Absent}
    BY <1>0
  <2>2. Reads(r, next) /\ recon[r].at = "read_task"
    BY <1>2 DEF ReadOpenTask, Doing
  <2> HIDE DEF status
  <2>3. /\ next \in Recons /\ next.at = "read_attempts" /\ next.todo = recon[r].todo
        /\ next.task = recon[r].task /\ next.report = recon[r].report
    BY <1>0, <2>1 DEF Then, Recons, ReconSteps
  <2> HIDE DEF next
  <2>4. RepairKnows(next)
    BY <1>0, <2>2, <2>3
  <2> QED
    BY <2>2, <2>3, <2>4, ReadsEffect
<1>3. CASE ReadLatestAttempt(r)
  <2> DEFINE attempts == taskAttempts[recon[r].task]
             n == Len(attempts)
             latest == attempts[n]
             next(step) == [[recon[r] EXCEPT !.num = n, !.attempt = latest] EXCEPT !.at = step]
  <2>1. recon[r].at = "read_attempts"
    BY <1>3 DEF ReadLatestAttempt, Doing
  <2>2. \/ attempts = << >> /\ Reads(r, Reported(r, "NO_ACTION"))
        \/ attempts # << >> /\ latest \in TaskAttemptTerminal /\ Reads(r, next("repair_task"))
        \/ attempts # << >> /\ Reads(r, next("observe"))
    BY <1>3 DEF ReadLatestAttempt
  <2>3. CASE attempts = << >> /\ Reads(r, Reported(r, "NO_ACTION"))
    BY <2>1, <2>3, ReportEffect DEF DispositionHolds, ReconciliationDisposition
  <2>4. ASSUME NEW step \in {"repair_task", "observe"}, attempts # << >>, Reads(r, next(step)),
               step = "repair_task" => latest \in TaskAttemptTerminal
        PROVE  RepairEffect(r)
    <3>1. n \in Nat /\ latest \in TaskAttemptStatus
      BY <1>0, <2>4, LastIsLast DEF LastAttempt
    <3> DEFINE local == next(step)
    <3> HIDE DEF n, latest
    <3>2. /\ local \in Recons /\ local.at = step /\ local.todo = recon[r].todo
          /\ local.task = recon[r].task /\ local.report = recon[r].report
          /\ local.num = n /\ local.attempt = latest
      <4> DEFINE read == [recon[r] EXCEPT !.num = n, !.attempt = latest]
      <4>1. /\ read \in Recons /\ read.todo = recon[r].todo
            /\ read.task = recon[r].task /\ read.report = recon[r].report
            /\ read.num = n /\ read.attempt = latest
        BY <1>0, <3>1 DEF Recons, ReconSteps
      <4>2. local = [read EXCEPT !.at = step]
        OBVIOUS
      <4> HIDE DEF read, local
      <4> QED
        BY <4>1, <4>2 DEF Recons, ReconSteps
    <3>3. Reads(r, local)
      BY <2>4
    <3> HIDE DEF local, next
    <3>4. RepairKnows(local)
      BY <1>0, <2>1, <2>4, <3>2 DEF n, latest, AttemptEnded, LastAttempt
    <3> QED
      BY <3>2, <3>3, <3>4, ReadsEffect
  <2> QED
    BY <2>2, <2>3, <2>4
<1> QED
  BY <1>1, <1>2, <1>3

\* The task is moved as its attempt ended.
LEMMA TaskRepairEffect ==
    ASSUME NEW r \in Reconcilers, Informed(r), recon[r].at \in OnOneTask,
           NEW status \in TaskAttemptTerminal, AttemptEnded(recon[r].task, status),
           ReconTransitionsTask(r, status, Reported(r, ResolvedAs(status)))
    PROVE  RepairEffect(r)
<1>0. /\ StoreTypeOK /\ RecordsAgree /\ recon[r] \in Recons /\ RepairKnows(recon[r])
  BY DEF Informed
<1>1. CASE ReconRaises(r)
  BY <1>0, <1>1, OverEffect
<1>2. CASE /\ UpdateTaskRun(recon[r].task, recon[r].taskRun, status)
           /\ Records(r, Reported(r, ResolvedAs(status)))
  <2>1. PICK old \in Recons : old = recon[r]
    BY <1>0
  <2>2. /\ old.task \in Tasks /\ old.taskRun \in TaskRunStatus \cup {Absent}
        /\ old.at \in OnOneTask /\ RepairKnows(old)
    BY <1>0, <2>1 DEF Recons
  <2>3. UpdateTaskRun(old.task, old.taskRun, status) /\ AttemptEnded(old.task, status)
    BY <1>2, <2>1
  <2>4. RepairUpdate
    BY <2>2, <2>3 DEF RepairUpdate
  <2>5. RepairKnows(old)'
    BY <1>0, <2>2, <2>4, LateUpdates, RepairKnowledgeStays
  <2>6. taskRun'[old.task] = status
    BY <1>0, <2>2, <2>3 DEF UpdateTaskRun, StoreTypeOK
  <2>7. ResolvedAs(status) \in ReconciliationDisposition
        /\ DispositionHolds(old.task, ResolvedAs(status))'
    BY <2>6, ResolvedAsType DEF DispositionHolds
  <2> DEFINE next == AsReported(old, ResolvedAs(status))
  <2>8. next \in Recons /\ RepairKnows(next)'
    <3>1. ReportsStayTrue'
      BY ReportGrows, PTL
    <3> QED
      BY <2>2, <2>5, <2>7, <3>1 DEF ReportsStayTrue
  <2>9. recon' = [recon EXCEPT ![r] = next] /\ UNCHANGED <<runLoopVars, call, process>>
    BY <1>2, <2>1 DEF Records, Reported, Then, AsReported
  <2> HIDE DEF next
  <2> QED
    BY <2>4, <2>8, <2>9 DEF RepairEffect
<1> QED
  BY <1>1, <1>2 DEF ReconTransitionsTask

\* It asks the provider about an attempt that has not ended.
LEMMA ObserveEffect ==
    ASSUME NEW r \in Reconcilers, Informed(r), Observe(r)
    PROVE  RepairEffect(r)
<1>0. /\ recon[r] \in Recons /\ RepairKnows(recon[r]) /\ recon[r].at = "observe"
      /\ recon[r].at \in OnOneTask
  BY DEF Informed, Observe, Doing, OnOneTask
<1>1. ASSUME NEW d \in LeftOpen, Reads(r, Reported(r, d))
      PROVE  RepairEffect(r)
  BY <1>0, <1>1, ReportEffect DEF DispositionHolds, LeftOpen, ReconciliationDisposition
<1>2. ASSUME NEW target \in Resolutions,
             Reads(r, [Then(r, "resolve_attempt") EXCEPT !.target = target])
      PROVE  RepairEffect(r)
  <2> DEFINE next == [Then(r, "resolve_attempt") EXCEPT !.target = target]
  <2>1. target \in WorkflowRunStatus
    BY DEF Resolutions, WorkflowRunStatus
  <2>2. /\ next \in Recons /\ next.at = "resolve_attempt" /\ next.target = target
        /\ next.task = recon[r].task /\ next.num = recon[r].num
        /\ next.todo = recon[r].todo /\ next.report = recon[r].report
    BY <1>0, <2>1 DEF Then, Recons, ReconSteps
  <2> HIDE DEF next
  <2>3. RepairKnows(next)
    BY <1>0, <2>2
    DEF RepairKnows, AttemptIsKnown, ReportHolds, EveryTaskIsSeen, ReportedOpen,
        VerdictIsKnown, Visits, OnOneTask, Concluding
  <2> QED
    BY <1>2, <2>2, <2>3, ReadsEffect DEF next
<1>3. \/ \E d \in LeftOpen : Reads(r, Reported(r, d))
      \/ \E target \in Resolutions :
            Reads(r, [Then(r, "resolve_attempt") EXCEPT !.target = target])
  BY DEF Observe, Unresolved, LeftOpen, Resolution, Resolutions
<1> QED
  BY <1>1, <1>2, <1>3

\* It resolves the attempt, and then the task with it.
LEMMA ResolveEffect ==
    ASSUME NEW r \in Reconcilers, Informed(r),
           \/ RepairTask(r) \/ ResolveAttempt(r) \/ RereadTask(r) \/ ResolveTask(r)
    PROVE  RepairEffect(r)
<1>0. /\ StoreTypeOK /\ RecordsAgree /\ recon[r] \in Recons /\ RepairKnows(recon[r])
      /\ recon[r].task \in Tasks /\ recon[r].num \in Nat
      /\ recon[r].attempt \in TaskAttemptStatus
      /\ Resolutions \subseteq TaskAttemptTerminal
      /\ TaskAttemptTerminal \subseteq TaskAttemptStatus
  BY DEF Informed, Recons, Resolutions, TaskAttemptTerminal, TaskAttemptStatus
<1>1. CASE RepairTask(r)
  <2>1. /\ recon[r].at = "repair_task" /\ recon[r].attempt \in TaskAttemptTerminal
        /\ AttemptEnded(recon[r].task, recon[r].attempt)
    BY <1>0, <1>1 DEF RepairTask, Doing, RepairKnows, AttemptIsKnown
  <2> QED
    BY <1>1, <2>1, TaskRepairEffect DEF RepairTask, RepairedStatus, OnOneTask
<1>2. CASE ResolveTask(r)
  <2>1. /\ recon[r].at = "resolve_task" /\ recon[r].target \in TaskAttemptTerminal
        /\ AttemptEnded(recon[r].task, recon[r].target)
    BY <1>0, <1>2 DEF ResolveTask, Doing, RepairKnows, AttemptIsKnown
  <2> QED
    BY <1>2, <2>1, TaskRepairEffect DEF ResolveTask, OnOneTask
<1>3. CASE RereadTask(r)
  <2> DEFINE status == taskRun[recon[r].task]
             next == [Then(r, "resolve_task") EXCEPT !.taskRun = status]
  <2>1. /\ recon[r].at = "reread_task" /\ recon[r].target \in TaskAttemptTerminal
        /\ recon[r].target \in Resolutions
        /\ AttemptEnded(recon[r].task, recon[r].target)
        /\ status \in TaskRunStatus \cup {Absent}
    BY <1>0, <1>3 DEF RereadTask, Doing, RepairKnows, AttemptIsKnown, StoreTypeOK
  <2>2. CASE status = recon[r].target /\ Reads(r, Reported(r, ResolvedAs(recon[r].target)))
    BY <2>1, <2>2, ReportEffect, ResolvedAsType DEF DispositionHolds, OnOneTask
  <2>3. CASE Reads(r, next)
    <3> HIDE DEF status
    <3>1. /\ next \in Recons /\ next.at = "resolve_task" /\ next.target = recon[r].target
          /\ next.task = recon[r].task /\ next.todo = recon[r].todo
          /\ next.report = recon[r].report
      BY <1>0, <2>1 DEF Then, Recons, ReconSteps
    <3> HIDE DEF next
    <3>2. RepairKnows(next)
      BY <1>0, <2>1, <3>1
      DEF RepairKnows, AttemptIsKnown, ReportHolds, EveryTaskIsSeen, ReportedOpen,
          VerdictIsKnown, Visits, OnOneTask, Concluding
    <3> QED
      BY <2>3, <3>1, <3>2, ReadsEffect
  <2> QED
    BY <1>3, <2>2, <2>3 DEF RereadTask
<1>4. CASE ResolveAttempt(r)
  <2>1. CASE ReconRaises(r)
    BY <1>0, <2>1, OverEffect
  <2>2. CASE /\ UpdateTaskAttempt(recon[r].task, recon[r].num, recon[r].attempt, recon[r].target)
             /\ Records(r, Then(r, "reread_task"))
    <3>1. PICK old \in Recons : old = recon[r]
      BY <1>0
    <3>2. /\ old.task \in Tasks /\ old.num \in Nat /\ old.attempt \in TaskAttemptStatus
          /\ old.at = "resolve_attempt" /\ RepairKnows(old)
          /\ old.target \in Resolutions /\ old.target \in TaskAttemptStatus
          /\ UpdateTaskAttempt(old.task, old.num, old.attempt, old.target)
      BY <1>0, <1>4, <2>2, <3>1 DEF ResolveAttempt, Doing, RepairKnows, AttemptIsKnown
    <3>3. RepairUpdate
      BY <3>2 DEF RepairUpdate, SettlesAttempt
    <3>4. RepairKnows(old)'
      BY <1>0, <3>2, <3>3, LateUpdates, RepairKnowledgeStays
    <3>5. AttemptEnded(old.task, old.target)'
      BY <1>0, <3>2, OnlyLastIsUpdated DEF RecordsAgree, AttemptEnded
    <3> DEFINE next == [old EXCEPT !.at = "reread_task"]
    <3>6. /\ next \in Recons /\ next.at = "reread_task" /\ next.target = old.target
          /\ next.task = old.task /\ next.todo = old.todo /\ next.report = old.report
      BY DEF Recons, ReconSteps
    <3>7. recon' = [recon EXCEPT ![r] = next] /\ UNCHANGED <<runLoopVars, call, process>>
      BY <2>2, <3>1 DEF Records, Then
    <3> HIDE DEF next
    <3>8. RepairKnows(next)'
      BY <3>2, <3>4, <3>5, <3>6
      DEF RepairKnows, AttemptIsKnown, ReportHolds, EveryTaskIsSeen, ReportedOpen,
          VerdictIsKnown, Visits, OnOneTask, Concluding
    <3> QED
      BY <3>3, <3>6, <3>7, <3>8 DEF RepairEffect
  <2> QED
    BY <1>4, <2>1, <2>2 DEF ResolveAttempt
<1> QED
  BY <1>1, <1>2, <1>3, <1>4

\* What _reconcile_workflow concludes from the statuses it lists.
LEMMA RunTargetIsKnown ==
    ASSUME StoreTypeOK, NEW run,
           NEW target, target # run,
           target = RunTarget({taskRun[t] : t \in Tasks} \ {Absent}, run)
    PROVE  /\ target \in WorkflowTerminal \cup {"RUNNING"}
           /\ target \in WorkflowRunStatus
           /\ target = "RUNNING" => run = "UNKNOWN_OUTCOME"
           /\ target = "SUCCEEDED" => \A t \in Tasks : Passed(t) \/ taskRun[t] = Absent
           /\ target \in {"FAILED", "TIMED_OUT"} => \E t \in Tasks : taskRun[t] = target
<1> DEFINE statuses == {taskRun[t] : t \in Tasks} \ {Absent}
<1>1. /\ \A t \in Tasks : taskRun[t] # Absent => taskRun[t] \in statuses
      /\ \A s \in statuses : \E t \in Tasks : taskRun[t] = s
  OBVIOUS
<1> HIDE DEF statuses
<1>2. \/ target = "FAILED" /\ "FAILED" \in statuses
      \/ target = "TIMED_OUT" /\ "TIMED_OUT" \in statuses
      \/ target = "CANCELLED"
      \/ /\ target = "SUCCEEDED"
         /\ statuses \subseteq TaskRunTerminal \ {"FAILED", "TIMED_OUT", "CANCELLED"}
      \/ target = "RUNNING" /\ run = "UNKNOWN_OUTCOME"
  <2>1. target = RunTarget(statuses, run)
    BY DEF statuses
  <2> QED
    BY <2>1 DEF RunTarget
<1>3. target = "SUCCEEDED" => \A t \in Tasks : Passed(t) \/ taskRun[t] = Absent
  BY <1>1, <1>2 DEF Passed, TaskRunTerminal
<1>4. target \in {"FAILED", "TIMED_OUT"} => \E t \in Tasks : taskRun[t] = target
  BY <1>1, <1>2
<1> QED
  BY <1>2, <1>3, <1>4 DEF WorkflowTerminal, WorkflowRunStatus

\* Every task has been visited, and the run is looked at once more.
LEMMA LookBackEffect ==
    ASSUME NEW r \in Reconcilers, Informed(r),
           TasksVisited(r) \/ RereadOpenRun(r) \/ ListTasksAgain(r)
    PROVE  RepairEffect(r)
<1>0. /\ StoreTypeOK /\ recon[r] \in Recons /\ RepairKnows(recon[r])
  BY DEF Informed
<1> USE DEF RepairKnows, AttemptIsKnown, ReportHolds, EveryTaskIsSeen, ReportedOpen,
            VerdictIsKnown, Visits, OnOneTask, Concluding
<1>1. CASE ReconDone(r)
  BY <1>0, <1>1, OverEffect
<1>2. CASE TasksVisited(r) /\ FullyResolved(r) /\ Reads(r, Then(r, "reread_run"))
  <2> DEFINE next == Then(r, "reread_run")
  <2>1. next \in Recons /\ next.at = "reread_run" /\ next.report = recon[r].report
    BY <1>0 DEF Then, Recons, ReconSteps
  <2>2. \A t \in Tasks : Closed(t) /\ ~ ReportedOpen(recon[r], t)
    <3>1. recon[r].at = "next_task" /\ recon[r].todo = {}
      BY <1>2 DEF TasksVisited, Doing
    <3>2. \A t \in Tasks : ~ ReportedOpen(recon[r], t)
      BY <1>2 DEF FullyResolved, LeftOpen
    <3> QED
      BY <1>0, <3>1, <3>2
  <2> HIDE DEF next
  <2>3. RepairKnows(next)
    BY <1>0, <2>1, <2>2
  <2> QED
    BY <1>2, <2>1, <2>3, ReadsEffect DEF next
<1>3. CASE RereadOpenRun(r) /\ Reads(r, [Then(r, "list_again") EXCEPT !.run = workflowRun])
  <2> DEFINE next == [Then(r, "list_again") EXCEPT !.run = workflowRun]
  <2>1. recon[r].at = "reread_run" /\ workflowRun \in WorkflowRunStatus \cup {Absent}
    BY <1>0, <1>3 DEF RereadOpenRun, Doing, StoreTypeOK
  <2>2. next \in Recons /\ next.at = "list_again" /\ next.report = recon[r].report
    BY <1>0, <2>1 DEF Then, Recons, ReconSteps
  <2> HIDE DEF next
  <2>3. RepairKnows(next)
    BY <1>0, <2>1, <2>2
  <2> QED
    BY <1>3, <2>2, <2>3, ReadsEffect DEF next
<1>4. CASE ListTasksAgain(r) /\ ~ ReconDone(r)
  <2> DEFINE target == RunTarget({taskRun[t] : t \in Tasks} \ {Absent}, recon[r].run)
             next == [Then(r, "settle_run") EXCEPT !.target = target]
  <2>1. recon[r].at = "list_again" /\ target # recon[r].run /\ Reads(r, next)
    BY <1>4 DEF ListTasksAgain, Doing
  <2>2. /\ target \in WorkflowTerminal \cup {"RUNNING"}
        /\ target \in WorkflowRunStatus
        /\ target = "RUNNING" => recon[r].run = "UNKNOWN_OUTCOME"
        /\ target = "SUCCEEDED" => \A t \in Tasks : Passed(t) \/ taskRun[t] = Absent
        /\ target \in {"FAILED", "TIMED_OUT"} => \E t \in Tasks : taskRun[t] = target
    BY <1>0, <2>1, RunTargetIsKnown
  <2> HIDE DEF target
  <2>3. /\ next \in Recons /\ next.at = "settle_run" /\ next.report = recon[r].report
        /\ next.target = target /\ next.run = recon[r].run
    BY <1>0, <2>2 DEF Then, Recons, ReconSteps
  <2> HIDE DEF next
  <2>4. RepairKnows(next)
    BY <1>0, <2>1, <2>2, <2>3
  <2> QED
    BY <2>1, <2>3, <2>4, ReadsEffect
<1> QED
  BY <1>1, <1>2, <1>3, <1>4 DEF TasksVisited, RereadOpenRun

\* A run may only succeed, or be waiting, when all its records are there.
LEMMA RunMovesOnWhenCreated ==
    ASSUME CreationComesFirst, NEW e \in WorkflowRunStatus \cup {Absent},
           NEW g \in {"SUCCEEDED", "RUNNING"},
           WorkflowUpdateAccepted(e, g), g = "RUNNING" => e = "UNKNOWN_OUTCOME"
    PROVE  AllCreated
BY DEF CreationComesFirst, WorkflowUpdateAccepted, WorkflowTransitions,
       WorkflowRunStatus

\* The run is settled.
LEMMA SettleEffect ==
    ASSUME NEW r \in Reconcilers, Informed(r), SettleRecoveredRun(r)
    PROVE  RepairEffect(r)
<1>0. /\ StoreTypeOK /\ RecordsAgree /\ CreationComesFirst
      /\ recon[r] \in Recons /\ RepairKnows(recon[r])
  BY DEF Informed
<1>1. CASE ReconRaises(r)
  BY <1>0, <1>1, OverEffect
<1>2. CASE UpdateWorkflowRun(recon[r].run, recon[r].target) /\ Records(r, Finished(r))
  <2>1. PICK old \in Recons : old = recon[r]
    BY <1>0
  <2>2. /\ old.run \in WorkflowRunStatus \cup {Absent}
        /\ old.target \in WorkflowRunStatus \cup {Absent} /\ old.target # Absent
        /\ old.at = "settle_run" /\ RepairKnows(old)
        /\ UpdateWorkflowRun(old.run, old.target)
    BY <1>0, <1>2, <2>1
    DEF Recons, SettleRecoveredRun, Doing, WorkflowRunStatus, Absent
  <2>3. RepairVerdictIsDue(old.target)
    <3>1. \A t \in Tasks : Closed(t)
      BY <2>2 DEF RepairKnows, EveryTaskIsSeen, Concluding
    <3>2. /\ old.target \in WorkflowTerminal \cup {"RUNNING"}
          /\ old.target = "RUNNING" => old.run = "UNKNOWN_OUTCOME"
          /\ old.target = "SUCCEEDED" =>
                \A t \in Tasks : Passed(t) \/ taskRun[t] = Absent
          /\ old.target \in {"FAILED", "TIMED_OUT"} =>
                \E t \in Tasks : taskRun[t] = old.target
      BY <2>2 DEF RepairKnows, VerdictIsKnown
    <3>3. old.target \in {"SUCCEEDED", "RUNNING"} => AllCreated
      BY <1>0, <2>2, <3>2, RunMovesOnWhenCreated DEF UpdateWorkflowRun
    <3>4. old.target # "UNKNOWN_OUTCOME"
      BY <3>2 DEF WorkflowTerminal
    <3> QED
      BY <3>1, <3>2, <3>3, <3>4 DEF RepairVerdictIsDue, AllCreated
  <2>4. RepairUpdate
    BY <2>2, <2>3 DEF RepairUpdate
  <2>5. RepairKnows(old)'
    BY <1>0, <2>2, <2>4, LateUpdates, RepairKnowledgeStays
  <2> DEFINE next == [NoRecon EXCEPT !.at = "done", !.report = old.report]
  <2>6. next \in Recons /\ RepairKnows(next)'
    <3>1. OverIsKnown'
      BY OverKnows, PTL
    <3> QED
      BY <2>5, <3>1 DEF OverIsKnown, RepairKnows
  <2>7. recon' = [recon EXCEPT ![r] = next] /\ UNCHANGED <<runLoopVars, call, process>>
    BY <1>2, <2>1 DEF Records, Finished
  <2> HIDE DEF next
  <2> QED
    BY <2>4, <2>6, <2>7 DEF RepairEffect
<1> QED
  BY <1>1, <1>2 DEF SettleRecoveredRun

\* Every step of a reconciler, then, does no more than that.
LEMMA ReconcilerEffects ==
    ASSUME NEW r \in Reconcilers, Informed(r),
           BeginReconcile(r) \/ ReconcileStep(r) \/ ReconcilerDies(r)
    PROVE  RepairEffect(r)
BY SetOutEffect, TakeUpEffect, ObserveEffect, ResolveEffect, LookBackEffect,
   SettleEffect, OverEffect
DEF ReconcileStep, Informed

-----------------------------------------------------------------------------
(* After the run thread is gone.                                           *)

\* What the records and the calls keep, whatever is repaired or cancelled late.
LEMMA LateRecords ==
    ASSUME IInv, RecordsAgree, PassedOverIsUntried, LateUpdate
    PROVE  RecordsAgree' /\ PassedOverIsUntried' /\ StoreStep /\ StoreTypeOK'
<1>0. StoreTypeOK /\ StoreUpdate /\ StoreStep /\ StoreTypeOK'
  BY LateUpdates, StoreTypeInductive DEF IInv, TypeOK, StoreStep
<1>1. CASE \E e, g \in WorkflowRunStatus \cup {Absent} : UpdateWorkflowRun(e, g)
  <2>1. taskRun' = taskRun /\ taskAttempts' = taskAttempts
    BY <1>1 DEF UpdateWorkflowRun
  <2>2. RecordsAgree' /\ PassedOverIsUntried'
    BY <2>1
    DEF RecordsAgree, AttemptSequence, QueuedTasksAreUntried,
        TaskMatchesLastAttempt, LastAttempt, PassedOverIsUntried
  <2> QED
    BY <1>0, <2>2
<1>2. CASE \/ UNCHANGED store \/ SettlesTask \/ SettlesAttempt
           \/ \E t \in Tasks, n \in Nat : AppendExternalRunRef(t, n)
  <2>1. DueStep
    BY <1>2 DEF DueStep, DueUpdate, Notes
  <2> QED
    BY <1>0, <2>1, RecordsAgreeInductive, PassedOverInductive
<1> QED
  BY <1>1, <1>2 DEF LateUpdate

\* A reconciler disturbs no other thread.
LEMMA RepairDisturbsNobody ==
    ASSUME IInv, RecordsAgree, CallsKnow, LateUpdate, UNCHANGED <<runLoopVars, call>>
    PROVE  IInv' /\ CallsKnow'
<1>0. /\ StoreTypeOK /\ RunLoopTypeOK /\ CancellationTypeOK
      /\ StoreUpdate /\ StoreStep /\ StoreTypeOK'
  BY LateUpdates, StoreTypeInductive DEF IInv, TypeOK, StoreStep
<1>u. /\ pc' = pc /\ task' = task /\ call' = call
      /\ task \in Tasks /\ call \in [Callers -> Calls]
  BY <1>0 DEF runLoopVars, RunLoopTypeOK, CancellationTypeOK
<1>1. TypeOK'
  BY <1>0 DEF TypeOK, RunLoopTypeOK, CancellationTypeOK, runLoopVars
<1>2. InFlightHasAttempt'
  BY <1>0, <1>u, SettledStays DEF IInv, InFlightHasAttempt
<1>3. CallsAreReady'
  <2> SUFFICES ASSUME NEW c \in Callers PROVE IsReady(call[c])'
    BY DEF CallsAreReady
  <2>1. PICK local \in Calls : local = call[c] /\ IsReady(local)
    BY <1>u DEF IInv, CallsAreReady
  <2>2. local.task \in Tasks
    BY DEF Calls
  <2>3. Len(taskAttempts'[local.task]) = Len(taskAttempts[local.task])
    BY <1>0, <2>2, UpdateAppendsNothing
  <2>4. IsReady(local)'
    BY <2>1, <2>3 DEF IsReady
  <2> QED
    BY <1>u, <2>1, <2>4 DEF IsReady
<1>4. DispatchingIsDispatchable'
  <2>1. Dispatchable(task) => Dispatchable(task)'
    <3>1. PICK t \in Tasks : t = task
      BY <1>u
    <3>2. Dispatchable(t) => Dispatchable(t)'
      BY <1>0, DispatchableStays
    <3> QED
      BY <1>u, <3>1, <3>2 DEF Dispatchable, Upstream
  <2> QED
    BY <1>u, <2>1 DEF IInv, DispatchingIsDispatchable
<1>5. DispatchAfterDependencies'
  <2> SUFFICES ASSUME NEW t \in Tasks, taskAttempts'[t] # << >> PROVE Dispatchable(t)'
    BY DEF DispatchAfterDependencies, Dispatchable
  <2>1. taskAttempts[t] # << >>
    BY <1>0, LateStays
  <2> QED
    BY <1>0, <2>1, DispatchableStays DEF IInv, DispatchAfterDependencies, Dispatchable
<1>6. CallsKnow'
  <2> SUFFICES ASSUME NEW c \in Callers PROVE CallKnows(call[c])'
    BY DEF CallsKnow
  <2>1. PICK local \in Calls : local = call[c] /\ CallKnows(local)
    BY <1>u DEF CallsKnow
  <2>2. CallKnows(local)'
    BY <1>0, <2>1, CallKnowledgeStays
  <2> QED
    BY <1>u, <2>1, <2>2 DEF CallKnows
<1> QED
  BY <1>1, <1>2, <1>3, <1>4, <1>5, <1>6 DEF IInv

\* Reconcilers take up no task and create none.
LEMMA RepairsCreate ==
    ASSUME IInv, RecordsAgree, CreationComesFirst, RepairUpdate,
           UNCHANGED <<runLoopVars, call>>
    PROVE  CreationComesFirst'
<1>0. /\ StoreTypeOK /\ StoreStep /\ pc' = pc /\ call' = call
  BY LateUpdates DEF IInv, TypeOK, StoreStep, runLoopVars
<1>1. AllCreated => AllCreated'
  BY <1>0, CreatedStays
<1>2. WorkIsUnderWay' => WorkIsUnderWay
  <2>1. \/ UNCHANGED taskRun
        \/ \E t \in Tasks : \E e \in TaskRunStatus \cup {Absent},
                            g \in TaskRunTerminal : UpdateTaskRun(t, e, g)
    BY DEF RepairUpdate, store, UpdateWorkflowRun, SettlesAttempt, UpdateTaskAttempt,
           TaskRunTerminal, TaskAttemptTerminal
  <2> QED
    BY <1>0, <2>1, OthersTakeUpNothing
<1>3. workflowRun' \in {"RUNNING", "UNKNOWN_OUTCOME"} => AllCreated
  BY DEF CreationComesFirst, RepairUpdate, store, UpdateWorkflowRun, UpdateTaskRun,
         SettlesAttempt, UpdateTaskAttempt, RepairVerdictIsDue
<1>4. \A c \in Callers : SawWork(call[c])' => AllCreated
  BY <1>0 DEF CreationComesFirst, SawWork
<1> QED
  BY <1>0, <1>1, <1>2, <1>3, <1>4 DEF CreationComesFirst

-----------------------------------------------------------------------------
(* A run that has its verdict.                                             *)

RunIsJustified(g) ==
    /\ g \in {"SUCCEEDED", "FAILED", "TIMED_OUT"} => \A t \in Tasks : Closed(t)
    /\ g = "SUCCEEDED" => \A t \in Tasks : Passed(t)
    /\ g \in {"FAILED", "TIMED_OUT"} => \E t \in Tasks : taskRun[t] = g

JustifiedMeans ==
    RecordsAgree /\ PassedOverIsUntried =>
        /\ RunIsJustified(workflowRun) => RecoveredRunIsJustified
        /\ SettledRunHasSettledTasks => RecoveredRunIsJustified

\* A task that is closed has no attempt with an open outcome.
LEMMA ClosedIsJustified == JustifiedMeans
<1> SUFFICES ASSUME RecordsAgree, PassedOverIsUntried PROVE JustifiedMeans
  BY DEF JustifiedMeans
<1>1. ASSUME NEW t \in Tasks, Closed(t), taskAttempts[t] # << >>
      PROVE  LastAttempt(t) \in TaskAttemptTerminal
  BY <1>1
  DEF Closed, Settled, TaskRunTerminal, TaskAttemptTerminal, RecordsAgree,
      TaskMatchesLastAttempt, PassedOverIsUntried
<1>2. RunIsJustified(workflowRun) => RecoveredRunIsJustified
  BY <1>1 DEF RunIsJustified, RecoveredRunIsJustified, Passed
<1>3. SettledRunHasSettledTasks => RunIsJustified(workflowRun)
  BY DEF SettledRunHasSettledTasks, RunIsJustified, Closed, Settled, Passed
<1> QED
  BY <1>2, <1>3 DEF JustifiedMeans

\* What justified the verdict goes on doing so after the run thread is gone.
LEMMA JustificationStays ==
    ASSUME StoreTypeOK, RecordsAgree, LateUpdate, UNCHANGED workflowRun,
           RecoveredRunIsJustified
    PROVE  RecoveredRunIsJustified'
<1>1. ASSUME NEW t \in Tasks, taskAttempts[t] # << >>, LastAttempt(t) \in TaskAttemptTerminal
      PROVE  LastAttempt(t)' \in TaskAttemptTerminal
  BY <1>1, LateStays DEF AttemptEnded
<1>2. \A t \in Tasks : taskAttempts'[t] = << >> <=> taskAttempts[t] = << >>
  BY LateStays
<1>3. \A t \in Tasks : taskRun[t] \in TaskRunTerminal => taskRun'[t] = taskRun[t]
  BY LateStays DEF Settled
<1> QED
  BY <1>1, <1>2, <1>3 DEF RecoveredRunIsJustified, TaskRunTerminal

\* Whether a late step writes the verdict or not, it is justified.
LEMMA LateVerdictIsJustified ==
    ASSUME StoreTypeOK, RecordsAgree, PassedOverIsUntried, RecordsAgree',
           PassedOverIsUntried', CallerUpdate \/ RepairUpdate, RecoveredRunIsJustified
    PROVE  RecoveredRunIsJustified'
<1>1. CASE UNCHANGED workflowRun
  BY <1>1, LateUpdates, JustificationStays
<1>2. ASSUME NEW e \in WorkflowRunStatus \cup {Absent},
             NEW g \in WorkflowRunStatus \cup {Absent}, UpdateWorkflowRun(e, g),
             RunIsJustified(g)
      PROVE  RecoveredRunIsJustified'
  <2>1. RunIsJustified(workflowRun)'
    BY <1>2 DEF UpdateWorkflowRun, RunIsJustified, Closed, Settled, Passed
  <2>2. JustifiedMeans'
    BY ClosedIsJustified, PTL
  <2> QED
    BY <2>1, <2>2 DEF JustifiedMeans
<1>3. ASSUME NEW g, RunVerdictIsDue(g) \/ RepairVerdictIsDue(g)
      PROVE  RunIsJustified(g)
  BY <1>3
  DEF RunVerdictIsDue, RepairVerdictIsDue, RunIsJustified, Closed, Settled, Passed,
      TaskRunTerminal
<1> QED
  BY <1>1, <1>2, <1>3
  DEF CallerUpdate, RepairUpdate, SettlesRun, SettlesAttempt, UpdateTaskRun,
      UpdateTaskAttempt, AppendExternalRunRef, store

-----------------------------------------------------------------------------
(* The inductive invariant.                                                *)

IdleIsKnown == NoRecon \in Recons /\ RepairKnows(NoRecon)

\* A reconciler that has not begun.
LEMMA IdleKnows == IdleIsKnown
<1>1. NoRecon \in Recons
  BY TaskCountIsPositive
  DEF Tasks, NoRecon, Recons, ReconSteps, WorkflowRunStatus, TaskRunStatus,
      TaskAttemptStatus
<1> QED
  BY <1>1
  DEF IdleIsKnown, NoRecon, RepairKnows, AttemptIsKnown, ReportHolds,
      EveryTaskIsSeen, VerdictIsKnown, Visits, OnOneTask, Concluding

\* Nothing has happened yet.
LEMMA RecoveryStarts == RecoveryInit => RInv
<1> SUFFICES ASSUME RecoveryInit PROVE RInv
  OBVIOUS
<1>0. Init /\ IInv /\ VInv /\ TypeOK /\ process = "alive"
  BY InitInvariant, VerdictInit DEF RecoveryInit, IInv
<1>1. recon = [r \in Reconcilers |-> NoRecon]
  BY DEF RecoveryInit
<1>2. /\ workflowRun = Absent /\ pc = "create_run" /\ call = [c \in Callers |-> NoCall]
      /\ \A t \in Tasks : taskRun[t] = Absent /\ taskAttempts[t] = << >>
  BY <1>0 DEF Init, InitStore, InitRunLoop, InitCancellation
<1>3. PassedOverIsUntried /\ SettledRunHasSettledTasks /\ RecoveredRunIsJustified
  BY <1>2
  DEF PassedOverIsUntried, SettledRunHasSettledTasks, RecoveredRunIsJustified, Absent
<1>4. CreationComesFirst
  <2>1. ~ WorkIsUnderWay
    BY <1>2 DEF WorkIsUnderWay, Absent
  <2>2. ~ SawWork(NoCall)
    BY DEF SawWork, NoCall, InCancelTask
  <2>3. \A c \in Callers : ~ SawWork(call[c])
    BY <1>2, <2>2
  <2> QED
    BY <1>2, <2>1, <2>3 DEF CreationComesFirst, Created, Absent
<1>5. RepairsKnow /\ recon \in [Reconcilers -> Recons]
  BY <1>1, IdleKnows DEF RepairsKnow, IdleIsKnown
<1> QED
  BY <1>0, <1>1, <1>3, <1>4, <1>5
  DEF RInv, RecoveryTypeOK, VInv

\* A step of the program itself.
LEMMA AliveKeeps ==
    ASSUME RInv, AliveStep
    PROVE  RInv'
<1>0. /\ IInv /\ VInv /\ RecordsAgree /\ CreationComesFirst /\ PassedOverIsUntried
      /\ process = "alive" /\ process' = "alive" /\ recon' = recon /\ [Next]_vars
      /\ recon \in [Reconcilers -> Recons] /\ RepairsKnow
  BY DEF RInv, VInv, AliveStep, RecoveryTypeOK
<1>1. IInv' /\ VInv' /\ CreationComesFirst' /\ DueStep /\ StoreTypeOK
  BY <1>0, InvariantInductive, VerdictInductive, CreationInductive, VerdictStep
  DEF IInv, TypeOK
<1>2. PassedOverIsUntried' /\ RecordsAgree'
  BY <1>0, <1>1, PassedOverInductive DEF VInv
<1>3. CASE Running
  <2>1. SettledRunHasSettledTasks /\ \A r \in Reconcilers : recon[r] = NoRecon
    BY <1>3 DEF RInv
  <2>2. SettledRunHasSettledTasks'
    BY <1>0, <2>1, SettledRunInductive
  <2>3. RecoveredRunIsJustified'
    <3>1. JustifiedMeans'
      BY ClosedIsJustified, PTL
    <3> QED
      BY <1>2, <2>2, <3>1 DEF JustifiedMeans
  <2>4. RepairsKnow'
    <3>1. IdleIsKnown'
      BY IdleKnows, PTL
    <3> QED
      BY <1>0, <2>1, <3>1 DEF RepairsKnow, IdleIsKnown
  <2> QED
    BY <1>0, <1>1, <1>2, <2>1, <2>2, <2>3, <2>4
    DEF RInv, RecoveryTypeOK, VInv, IInv, Running
<1>4. CASE ~ Running
  <2>1. Ended
    BY <1>0, <1>4 DEF Running
  <2>2. CallerUpdate /\ UNCHANGED pc
    <3>1. CASE \E c \in Callers : CallBegins(c) \/ CallStep(c)
      BY <1>0, <3>1, CallerEffects DEF CallEffect, IInv, VInv, TypeOK, runThread
    <3>2. CASE Stopped
      BY <3>2 DEF Stopped, vars, runLoopVars, CallerUpdate
    <3>3. ~ RunStep
      BY <2>1
      DEF Ended, RunStep, RunThread, CreateRun, CreateTask, ReuseTask,
          ReuseCheckpoint, StartRun, SkipReusedTask, EvaluateReadiness,
          SkipTask, ReadyTask, RunTask, AppendAttempt, StartAttempt, RunAttempt,
          RememberActiveRequest, BeginExecute, EndExecute, ForgetActiveRequest,
          ReloadAttempt, ReloadTask, ReloadRun, PersistExternalRunRefs,
          AppendExternalRef, ExternalRunRefAccepted,
          CancelTaskRun, ListNotStarted, CancelNotStarted, NotStartedCancelled,
          CancelRun, SucceedAttempt, SucceedTask, PersistOutputCheckpoint,
          RecheckRun, EvaluateFailure, UnknownTask, UnknownRun, FailTask, FailFast,
          FailFastSkip, FailRun, AssertTerminalTaskRuns, SucceedRun, OnTask,
          OnAttempt, OnWorkflow
    <3> QED
      BY <3>1, <3>2, <3>3 DEF AliveStep, Next
  <2>3. LateUpdate /\ ~ Running'
    BY <2>1, <2>2, LateUpdates DEF Running, Ended
  <2>4. RecoveredRunIsJustified'
    BY <1>0, <1>1, <1>2, <2>2, LateVerdictIsJustified DEF RInv
  <2>5. RepairsKnow'
    <3> SUFFICES ASSUME NEW r \in Reconcilers PROVE RepairKnows(recon[r])'
      BY DEF RepairsKnow
    <3>1. PICK local \in Recons : local = recon[r] /\ RepairKnows(local)
      BY <1>0 DEF RepairsKnow
    <3>2. RepairKnows(local)'
      BY <1>0, <1>1, <2>3, <3>1, RepairKnowledgeStays
    <3> QED
      BY <1>0, <3>1, <3>2
      DEF RepairKnows, AttemptIsKnown, ReportHolds, EveryTaskIsSeen, VerdictIsKnown
  <2> QED
    BY <1>0, <1>1, <1>2, <2>3, <2>4, <2>5 DEF RInv, RecoveryTypeOK, VInv, IInv
<1> QED
  BY <1>3, <1>4

\* What holds of everything but the reconcilers, whatever they do.
LEMMA RepairKeeps ==
    ASSUME RInv, ~ Running \/ UNCHANGED store, RepairUpdate,
           UNCHANGED <<runLoopVars, call>>, process' \in {process, "dead"}
    PROVE  /\ IInv' /\ RecordsAgree' /\ CallsKnow' /\ PassedOverIsUntried'
           /\ CreationComesFirst' /\ RecoveredRunIsJustified'
           /\ process' = "alive" => RunThreadKnows'
           /\ Running' => Running /\ SettledRunHasSettledTasks'
<1>0. /\ IInv /\ TypeOK /\ StoreTypeOK /\ RecordsAgree /\ CallsKnow /\ LateUpdate
      /\ PassedOverIsUntried /\ CreationComesFirst /\ RecoveredRunIsJustified
      /\ pc' = pc
  BY LateUpdates DEF RInv, IInv, TypeOK, runLoopVars
<1>1. RecordsAgree' /\ PassedOverIsUntried'
  BY <1>0, LateRecords
<1>2. IInv' /\ CallsKnow' /\ CreationComesFirst'
  BY <1>0, RepairDisturbsNobody, RepairsCreate
<1>3. RecoveredRunIsJustified'
  BY <1>0, <1>1, LateVerdictIsJustified
<1>4. ASSUME process' = "alive" PROVE RunThreadKnows'
  <2>1. process = "alive" /\ RunThreadKnows
    BY <1>4 DEF RInv
  <2>2. CASE UNCHANGED store
    BY <1>0, <2>1, <2>2, RunThreadIsUndisturbed DEF CallerUpdate, runThread, runLoopVars
  <2>3. CASE ~ Running
    BY <1>0, <2>1, <2>3, LeavingKnows DEF Running, Ended
  <2> QED
    BY <2>2, <2>3
<1>5. ASSUME Running' PROVE Running /\ SettledRunHasSettledTasks'
  <2>1. Running /\ SettledRunHasSettledTasks
    BY <1>0, <1>5 DEF Running, Ended, RInv
  <2>2. UNCHANGED store
    BY <2>1
  <2> QED
    BY <2>1, <2>2 DEF SettledRunHasSettledTasks, store
<1> QED
  BY <1>1, <1>2, <1>3, <1>4, <1>5

\* The process dies, or nothing happens.
LEMMA StandingStillKeeps ==
    ASSUME RInv, Crash \/ UNCHANGED recoveryVars
    PROVE  RInv'
<1>0. /\ UNCHANGED store /\ UNCHANGED <<runLoopVars, call>> /\ recon' = recon
      /\ process' \in {process, "dead"} /\ process' \in {"alive", "dead"}
      /\ recon \in [Reconcilers -> Recons] /\ StoreTypeOK /\ RecordsAgree /\ RepairsKnow
  BY DEF Crash, recoveryVars, vars, RInv, RecoveryTypeOK, IInv, TypeOK
<1>1. RepairUpdate /\ LateUpdate
  BY <1>0 DEF RepairUpdate, LateUpdate
<1>2. RepairsKnow'
  <2> SUFFICES ASSUME NEW r \in Reconcilers PROVE RepairKnows(recon[r])'
    BY DEF RepairsKnow
  <2>1. PICK local \in Recons : local = recon[r] /\ RepairKnows(local)
    BY <1>0 DEF RepairsKnow
  <2>2. RepairKnows(local)'
    BY <1>0, <1>1, <2>1, RepairKnowledgeStays
  <2> QED
    BY <1>0, <2>1, <2>2
    DEF RepairKnows, AttemptIsKnown, ReportHolds, EveryTaskIsSeen, VerdictIsKnown
<1> QED
  BY <1>0, <1>1, <1>2, RepairKeeps DEF RInv, RecoveryTypeOK, IInv

\* A step of a reconciler.
LEMMA ReconcilerKeeps ==
    ASSUME RInv, NEW r \in Reconcilers,
           BeginReconcile(r) \/ ReconcileStep(r) \/ ReconcilerDies(r)
    PROVE  RInv' /\ ~ Running /\ RepairEffect(r)
<1>0. /\ recon \in [Reconcilers -> Recons] /\ StoreTypeOK /\ RecordsAgree /\ RepairsKnow
      /\ CreationComesFirst /\ process \in {"alive", "dead"}
  BY DEF RInv, RecoveryTypeOK, IInv, TypeOK
<1>1. RepairEffect(r)
  BY <1>0, ReconcilerEffects DEF Informed, RepairsKnow
<1>2. ~ Running
  <2>0. NoRecon.at = "idle"
    BY DEF NoRecon
  <2>1. recon[r].at # "idle" \/ BeginReconcile(r)
    BY DEF ReconcileStep, ReadRunBefore, ListOpenTasks, NextOpenTask,
           ReadOpenTask, ReadLatestAttempt, RepairTask, Observe, ResolveAttempt,
           RereadTask, ResolveTask, TasksVisited, RereadOpenRun, ListTasksAgain,
           SettleRecoveredRun, ReconcilerDies, Doing
  <2> QED
    BY <2>0, <2>1 DEF RInv, BeginReconcile, Running
<1>3. PICK local \in Recons :
         RepairKnows(local)' /\ recon' = [recon EXCEPT ![r] = local]
  BY <1>1 DEF RepairEffect
<1>4. RepairUpdate /\ LateUpdate /\ UNCHANGED <<runLoopVars, call, process>>
  BY <1>1, LateUpdates DEF RepairEffect
<1>5. RepairsKnow'
  <2> SUFFICES ASSUME NEW q \in Reconcilers PROVE RepairKnows(recon[q])'
    BY DEF RepairsKnow
  <2>1. CASE q = r
    <3>1. recon'[q] = local
      BY <1>0, <1>3, <2>1
    <3> QED
      BY <1>3, <3>1
      DEF RepairKnows, AttemptIsKnown, ReportHolds, EveryTaskIsSeen, VerdictIsKnown
  <2>2. CASE q # r
    <3>1. PICK old \in Recons : old = recon[q] /\ RepairKnows(old)
      BY <1>0 DEF RepairsKnow
    <3>2. RepairKnows(old)' /\ recon'[q] = old
      BY <1>0, <1>3, <1>4, <2>2, <3>1, RepairKnowledgeStays
    <3> QED
      BY <3>2
      DEF RepairKnows, AttemptIsKnown, ReportHolds, EveryTaskIsSeen, VerdictIsKnown
  <2> QED
    BY <2>1, <2>2
<1>6. recon' \in [Reconcilers -> Recons]
  BY <1>0, <1>3
<1>7. ~ Running'
  BY <1>2, <1>4 DEF Running, Ended, runLoopVars
<1>8. RInv'
  BY <1>0, <1>2, <1>4, <1>5, <1>6, <1>7, RepairKeeps DEF RInv, RecoveryTypeOK, IInv
<1> QED
  BY <1>1, <1>2, <1>8

\* Every step keeps the invariant.
LEMMA RecoveryInductive == RInv /\ [RecoveryNext]_recoveryVars => RInv'
BY AliveKeeps, StandingStillKeeps, ReconcilerKeeps DEF RecoveryNext, AllStopped

-----------------------------------------------------------------------------

\* What run(), the cancelling threads and the reconcilers rely on holds of a
\* run that is interrupted and repaired (runtime/reconciliation.py).
THEOREM RecoveryInvariant == RecoverySpec => []RInv
BY RecoveryStarts, RecoveryInductive, PTL DEF RecoverySpec

\* However a run came to its verdict, through the process that ran it or
\* through reconciliation after a crash at any step, it has no attempt whose
\* outcome is open, and its tasks bear the verdict out (_reconcile_workflow).
THEOREM RecoveredRunsAreJustified == RecoverySpec => []RecoveredRunIsJustified
<1>1. RInv => RecoveredRunIsJustified
  BY DEF RInv
<1> QED
  BY <1>1, RecoveryInvariant, PTL

\* What a report calls resolved is so, and remains so, though other reconcilers
\* and cancelling threads write to the same tasks
\* (_reconcile_task, _repair_task_from_terminal_attempt).
THEOREM ReportsAreTrue == RecoverySpec => []ReportedVerdictsLast
<1>1. RInv => ReportedVerdictsLast
  BY DEF RInv, RepairsKnow, RepairKnows, ReportHolds, ReportedVerdictsLast
<1> QED
  BY <1>1, RecoveryInvariant, PTL

\* Crash and reconciliation keep the status of a settled task run that of its
\* last attempt (_repair_task_from_terminal_attempt).
THEOREM RecoveryKeepsRecordsInAgreement ==
    RecoverySpec => [](TaskMatchesLastAttempt /\ DispatchAfterDependencies)
<1>1. RInv => TaskMatchesLastAttempt /\ DispatchAfterDependencies
  BY DEF RInv, RecordsAgree, IInv
<1> QED
  BY <1>1, RecoveryInvariant, PTL

\* No status is taken back, by whatever thread and on whichever side of the
\* crash: cancellation, reconciliation and the run thread all update by
\* compare-and-set (update_* under _require_status).
THEOREM RecoveryMovesLegally == RecoverySpec => DurableStepsLegal
<1>1. ASSUME RInv, [RecoveryNext]_recoveryVars
      PROVE  [/\ WorkflowMovesLegally
              /\ \A t \in Tasks : TaskMovesLegally(t) /\ AttemptsMoveLegally(t)]_vars
  <2>0. StoreTypeOK
    BY <1>1 DEF RInv, IInv, TypeOK
  <2>1. CASE AliveStep
    <3>1. IInv /\ VInv /\ [Next]_vars
      BY <1>1, <2>1 DEF AliveStep, RInv, VInv
    <3> QED
      BY <2>0, <3>1, VerdictStep, DueStepIsStoreStep, StoreMovesLegally
  <2>2. ASSUME NEW r \in Reconcilers, BeginReconcile(r) \/ ReconcileStep(r) \/ ReconcilerDies(r)
        PROVE  WorkflowMovesLegally /\ \A t \in Tasks : TaskMovesLegally(t) /\ AttemptsMoveLegally(t)
    <3>1. StoreStep
      BY <1>1, <2>2, ReconcilerKeeps, LateUpdates DEF RepairEffect, StoreStep
    <3> QED
      BY <2>0, <3>1, StoreMovesLegally
  <2>3. CASE Crash \/ UNCHANGED recoveryVars
    BY <2>3 DEF Crash, recoveryVars
  <2> QED
    BY <1>1, <2>1, <2>2, <2>3 DEF RecoveryNext, AllStopped
<1> QED
  BY <1>1, RecoveryInvariant, PTL DEF RecoverySpec, DurableStepsLegal

-----------------------------------------------------------------------------
(* What a fully resolved report says of the run.                           *)

NeverBegan(t) == taskRun[t] \notin TaskRunTerminal /\ taskAttempts[t] = << >>

WorkIsOver == workflowRun \in WorkflowTerminal \/ \E t \in Tasks : NeverBegan(t)

\* The run was open when the reconciler looked; it leaves it open only for the
\* sake of a task that never began.
EndIsKnown(local) ==
    /\ local.at = "list_again" => local.run \notin WorkflowTerminal
    /\ local.at = "settle_run" /\ local.target = "RUNNING" => \E t \in Tasks : NeverBegan(t)
    /\ local.at = "done" =>
          \/ \E item \in local.report : item[2] \in LeftOpen
          \/ WorkIsOver

EndsKnown == \A r \in Reconcilers : EndIsKnown(recon[r])

\* A reconciler neither reopens a run nor settles a task that never began.
LEMMA OverStaysOver ==
    ASSUME StoreTypeOK, RecordsAgree, RepairUpdate
    PROVE  /\ \A t \in Tasks : NeverBegan(t) => NeverBegan(t)'
           /\ workflowRun \in WorkflowTerminal => workflowRun' \in WorkflowTerminal
<1>0. taskRun \in [Tasks -> TaskRunStatus \cup {Absent}] /\ LateUpdate
  BY LateUpdates DEF StoreTypeOK
<1>1. ASSUME NEW t \in Tasks, NeverBegan(t) PROVE NeverBegan(t)'
  <2>1. taskAttempts'[t] = << >>
    BY <1>0, <1>1, LateStays DEF NeverBegan
  <2>2. taskRun'[t] = taskRun[t]
    BY <1>0, <1>1
    DEF NeverBegan, RepairUpdate, store, UpdateWorkflowRun, SettlesAttempt,
        UpdateTaskAttempt, UpdateTaskRun, AttemptEnded
  <2> QED
    BY <1>1, <2>1, <2>2 DEF NeverBegan
<1>2. ASSUME workflowRun \in WorkflowTerminal PROVE workflowRun' \in WorkflowTerminal
  <2>1. \A e, g : ~ UpdateWorkflowRun(e, g)
    BY <1>2
    DEF UpdateWorkflowRun, WorkflowUpdateAccepted, WorkflowTransitions,
        WorkflowTerminal, WorkflowRunStatus
  <2> QED
    BY <1>2, <2>1
    DEF RepairUpdate, store, SettlesAttempt, UpdateTaskAttempt, UpdateTaskRun
<1> QED
  BY <1>1, <1>2

\* What is known of the end of the run stays so.
LEMMA EndKnowledgeStays ==
    ASSUME StoreTypeOK, RecordsAgree, RepairUpdate, NEW local \in Recons, EndIsKnown(local)
    PROVE  EndIsKnown(local)'
BY OverStaysOver DEF EndIsKnown, WorkIsOver

\* A task of which nothing more is to be done, and that is not settled, never
\* began.
LEMMA OpenNeverBegan ==
    ASSUME NEW t \in Tasks, Closed(t), ~ Settled(t)
    PROVE  NeverBegan(t)
BY DEF Closed, Settled, NeverBegan

\* A run that _reconcile_workflow leaves open, or takes up again, has a task
\* that never began.
LEMMA OpenRunHasOpenTask ==
    ASSUME NEW run, run \notin WorkflowTerminal, \A t \in Tasks : Closed(t),
           NEW target, target \in {run, "RUNNING"},
           target = RunTarget({taskRun[t] : t \in Tasks} \ {Absent}, run)
    PROVE  \E t \in Tasks : NeverBegan(t)
<1> DEFINE statuses == {taskRun[t] : t \in Tasks} \ {Absent}
<1>1. /\ \A s \in statuses : \E t \in Tasks : taskRun[t] = s
      /\ \A t \in Tasks : taskRun[t] \in statuses \/ taskRun[t] = Absent
  OBVIOUS
<1>2. 1 \in Tasks
  BY TaskCountIsPositive DEF Tasks
<1> HIDE DEF statuses
<1>3. target \notin WorkflowTerminal /\ target = RunTarget(statuses, run)
  BY DEF statuses, WorkflowTerminal
<1>4. \/ "UNKNOWN_OUTCOME" \in statuses
      \/ statuses = {}
      \/ ~ (statuses \subseteq TaskRunTerminal)
  BY <1>3 DEF RunTarget, WorkflowTerminal
<1>5. \E t \in Tasks : taskRun[t] \notin TaskRunTerminal
  BY <1>1, <1>2, <1>4 DEF TaskRunTerminal, Absent
<1> QED
  BY <1>5, OpenNeverBegan DEF Settled

\* The steps after which nothing is claimed of the end of the run.
LEMMA ElsewhereIsKnown ==
    ASSUME NEW r \in Reconcilers, recon \in [Reconcilers -> Recons],
           \/ BeginReconcile(r) \/ ListOpenTasks(r) \/ NextOpenTask(r)
           \/ ReadOpenTask(r) \/ ReadLatestAttempt(r) \/ RepairTask(r) \/ Observe(r)
           \/ ResolveAttempt(r) \/ RereadTask(r) \/ ResolveTask(r) \/ ReconcilerDies(r)
    PROVE  recon'[r].at \notin {"list_again", "settle_run", "done"}
<1> DEFINE StillGoing(local) == local.at \notin {"list_again", "settle_run", "done"}
           Steps0 == ReconSteps \ {"list_again", "settle_run", "done"}
<1> SUFFICES StillGoing(recon'[r])
  OBVIOUS
<1>0. recon[r] \in Recons
  OBVIOUS
<1>1. \A local : recon' = [recon EXCEPT ![r] = local] => recon'[r] = local
  OBVIOUS
<1>2. ASSUME NEW local, Reads(r, local) \/ Records(r, local), StillGoing(local)
      PROVE  StillGoing(recon'[r])
  BY <1>1, <1>2 DEF Reads, Records
<1>3. \A d : StillGoing(Reported(r, d))
  <2> SUFFICES ASSUME NEW d PROVE StillGoing(Reported(r, d))
    OBVIOUS
  <2> DEFINE moved == Then(r, "next_task")
             report == moved.report \cup {<<recon[r].task, d>>}
  <2>1. moved \in Recons /\ moved.at = "next_task"
    BY <1>0 DEF Then, Recons, ReconSteps
  <2>2. Reported(r, d) = [moved EXCEPT !.report = report]
    BY <2>1 DEF Reported, Then
  <2> HIDE DEF report, moved
  <2>3. Reported(r, d).at = moved.at
    BY <2>1, <2>2 DEF Recons
  <2> QED
    BY <2>1, <2>3
<1>4. \A step \in Steps0 : \A x :
         /\ StillGoing(Then(r, step))
         /\ StillGoing([Then(r, step) EXCEPT !.taskRun = x])
         /\ StillGoing([Then(r, step) EXCEPT !.todo = x])
         /\ StillGoing([Then(r, step) EXCEPT !.target = x])
  BY <1>0 DEF Then, Recons
<1>5. StillGoing([NoRecon EXCEPT !.at = "raised"]) /\ StillGoing([NoRecon EXCEPT !.at = "dead"])
  BY DEF NoRecon
<1>6. {"read_run", "next_task", "read_attempts", "resolve_attempt", "reread_task",
       "resolve_task"} \subseteq Steps0
  BY DEF ReconSteps
<1>7. ASSUME ReconRaises(r) PROVE StillGoing(recon'[r])
  BY <1>2, <1>5, <1>7 DEF ReconRaises
<1>8. ASSUME NEW d, Reads(r, Reported(r, d)) \/ Records(r, Reported(r, d))
      PROVE  StillGoing(recon'[r])
  BY <1>2, <1>3, <1>8
<1>9. CASE NextOpenTask(r)
  <2>1. PICK t \in recon[r].todo :
           Reads(r, [Then(r, "read_task") EXCEPT !.task = t, !.todo = @ \ {t}])
    BY <1>9 DEF NextOpenTask
  <2>2. StillGoing([Then(r, "read_task") EXCEPT !.task = t, !.todo = @ \ {t}])
    BY <1>0 DEF Then, Recons
  <2> HIDE DEF StillGoing
  <2> QED
    BY <1>2, <2>1, <2>2
<1>10. CASE ReadLatestAttempt(r)
  <2>1. \A n, latest :
           /\ StillGoing([[recon[r] EXCEPT !.num = n, !.attempt = latest] EXCEPT !.at = "repair_task"])
           /\ StillGoing([[recon[r] EXCEPT !.num = n, !.attempt = latest] EXCEPT !.at = "observe"])
    BY <1>0 DEF Recons
  <2> HIDE DEF StillGoing
  <2> QED
    BY <1>2, <1>8, <1>10, <2>1 DEF ReadLatestAttempt
<1>11. CASE ReconcilerDies(r)
  BY <1>1, <1>5, <1>11 DEF ReconcilerDies
<1> HIDE DEF StillGoing, Steps0
<1>12. CASE BeginReconcile(r) \/ ListOpenTasks(r) \/ ReadOpenTask(r) \/ RereadTask(r)
  BY <1>2, <1>4, <1>6, <1>8, <1>12
  DEF BeginReconcile, ListOpenTasks, ReadOpenTask, RereadTask
<1>13. CASE Observe(r)
  BY <1>2, <1>4, <1>6, <1>8, <1>13 DEF Observe, Unresolved
<1>14. CASE RepairTask(r) \/ ResolveTask(r)
  BY <1>7, <1>8, <1>14 DEF RepairTask, ResolveTask, ReconTransitionsTask
<1>15. CASE ResolveAttempt(r)
  BY <1>2, <1>4, <1>6, <1>7, <1>15 DEF ResolveAttempt
<1> QED
  BY <1>9, <1>10, <1>11, <1>12, <1>13, <1>14, <1>15

\* The steps that do say something of the end of the run.
LEMMA EndingIsKnown ==
    ASSUME RInv, EndsKnown, NEW r \in Reconcilers,
           \/ ReadRunBefore(r) \/ TasksVisited(r) \/ RereadOpenRun(r)
           \/ ListTasksAgain(r) \/ SettleRecoveredRun(r)
    PROVE  EndIsKnown(recon[r])'
<1>0. /\ recon \in [Reconcilers -> Recons] /\ recon[r] \in Recons
      /\ RepairKnows(recon[r]) /\ EndIsKnown(recon[r])
      /\ StoreTypeOK /\ RecordsAgree
  BY DEF RInv, RecoveryTypeOK, IInv, TypeOK, RepairsKnow, EndsKnown
<1>1. \A local : Records(r, local) => recon'[r] = local
  BY <1>0 DEF Records
<1>2. /\ Finished(r).at = "done" /\ Finished(r).report = recon[r].report
      /\ [NoRecon EXCEPT !.at = "raised"].at = "raised"
  BY DEF Finished, NoRecon
<1>3. CASE ReconRaises(r)
  <2>1. recon'[r] = [NoRecon EXCEPT !.at = "raised"]
    BY <1>1, <1>3 DEF ReconRaises, Reads
  <2> QED
    BY <1>2, <2>1 DEF EndIsKnown
<1>4. ASSUME ReconDone(r), WorkIsOver \/ ~ FullyResolved(r)
      PROVE  EndIsKnown(recon[r])'
  <2>1. recon'[r] = Finished(r) /\ UNCHANGED store
    BY <1>1, <1>4 DEF ReconDone, Reads
  <2>2. WorkIsOver => WorkIsOver'
    BY <2>1 DEF WorkIsOver, NeverBegan, store
  <2> QED
    BY <1>2, <1>4, <2>1, <2>2 DEF EndIsKnown, FullyResolved, LeftOpen
<1>5. ASSUME NEW step \in {"list", "reread_run"}, Reads(r, Then(r, step))
      PROVE  EndIsKnown(recon[r])'
  <2>1. recon'[r] = Then(r, step) /\ Then(r, step).at = step
    BY <1>0, <1>1, <1>5 DEF Reads, Then, Recons
  <2> QED
    BY <2>1 DEF EndIsKnown
<1>6. CASE ReadRunBefore(r) \/ TasksVisited(r)
  BY <1>4, <1>5, <1>6 DEF ReadRunBefore, TasksVisited, WorkIsOver
<1>7. CASE RereadOpenRun(r) /\ ~ ReconDone(r)
  <2> DEFINE next == [Then(r, "list_again") EXCEPT !.run = workflowRun]
  <2>1. workflowRun \notin WorkflowTerminal /\ recon'[r] = next
    BY <1>1, <1>7 DEF RereadOpenRun, Reads
  <2>2. next.at = "list_again" /\ next.run = workflowRun
    BY <1>0 DEF Then, Recons, ReconSteps
  <2> HIDE DEF next
  <2> QED
    BY <2>1, <2>2 DEF EndIsKnown
<1>8. CASE RereadOpenRun(r) /\ ReconDone(r)
  <2>1. WorkIsOver
    <3>1. \/ workflowRun \in WorkflowTerminal
          \/ Reads(r, [Then(r, "list_again") EXCEPT !.run = workflowRun])
      BY <1>8 DEF RereadOpenRun
    <3>2. [Then(r, "list_again") EXCEPT !.run = workflowRun].at = "list_again"
      BY <1>0 DEF Then, Recons, ReconSteps
    <3>3. recon'[r] = Finished(r)
      BY <1>1, <1>8 DEF ReconDone, Reads
    <3>4. ~ Reads(r, [Then(r, "list_again") EXCEPT !.run = workflowRun])
      BY <1>1, <1>2, <3>2, <3>3 DEF Reads
    <3> QED
      BY <3>1, <3>4 DEF WorkIsOver
  <2> QED
    BY <1>4, <1>8, <2>1
<1>9. CASE ListTasksAgain(r)
  <2> DEFINE target == RunTarget({taskRun[t] : t \in Tasks} \ {Absent}, recon[r].run)
             next == [Then(r, "settle_run") EXCEPT !.target = target]
  <2>1. /\ recon[r].at = "list_again" /\ recon[r].run \notin WorkflowTerminal
        /\ \A t \in Tasks : Closed(t)
        /\ \/ target = recon[r].run /\ ReconDone(r)
           \/ target # recon[r].run /\ Reads(r, next)
    BY <1>0, <1>9
    DEF ListTasksAgain, Doing, EndIsKnown, RepairKnows, EveryTaskIsSeen, Concluding
  <2>2. target \in {recon[r].run, "RUNNING"} => \E t \in Tasks : NeverBegan(t)
    BY <2>1, OpenRunHasOpenTask
  <2> HIDE DEF target
  <2>3. CASE target = recon[r].run /\ ReconDone(r)
    BY <1>4, <2>2, <2>3 DEF WorkIsOver
  <2>4. CASE Reads(r, next)
    <3>1. recon'[r] = next /\ UNCHANGED store
      BY <1>1, <2>4 DEF Reads
    <3>2. next.at = "settle_run" /\ next.target = target
      BY <1>0 DEF Then, Recons, ReconSteps
    <3> HIDE DEF next
    <3> QED
      BY <2>2, <3>1, <3>2 DEF EndIsKnown, NeverBegan, store
  <2> QED
    BY <2>1, <2>3, <2>4
<1>10. CASE SettleRecoveredRun(r) /\ ~ ReconRaises(r)
  <2>1. PICK old \in Recons : old = recon[r]
    BY <1>0
  <2>2. /\ old.at = "settle_run" /\ recon'[r] = Finished(r)
        /\ UpdateWorkflowRun(old.run, old.target)
        /\ RepairKnows(old) /\ EndIsKnown(old)
    BY <1>0, <1>1, <1>10, <2>1 DEF SettleRecoveredRun, Doing
  <2>3. old.target \in WorkflowTerminal \cup {"RUNNING"}
    BY <2>2 DEF RepairKnows, VerdictIsKnown
  <2>4. WorkIsOver'
    BY <2>2, <2>3 DEF EndIsKnown, WorkIsOver, UpdateWorkflowRun, NeverBegan
  <2> QED
    BY <1>2, <2>2, <2>4 DEF EndIsKnown
<1> QED
  BY <1>3, <1>6, <1>7, <1>8, <1>9, <1>10

\* Without cancelling threads, what is known of the end of the run remains so.
LEMMA EndsInductive ==
    Callers = {} /\ RInv /\ EndsKnown /\ [RecoveryNext]_recoveryVars => EndsKnown'
<1> SUFFICES ASSUME Callers = {}, RInv, EndsKnown, [RecoveryNext]_recoveryVars
             PROVE  EndsKnown'
  OBVIOUS
<1>0. recon \in [Reconcilers -> Recons] /\ StoreTypeOK /\ RecordsAgree
  BY DEF RInv, RecoveryTypeOK, IInv, TypeOK
<1>1. ASSUME NEW q \in Reconcilers, recon'[q] = recon[q], RepairUpdate
      PROVE  EndIsKnown(recon[q])'
  <2>1. PICK old \in Recons : old = recon[q] /\ EndIsKnown(old)
    BY <1>0 DEF EndsKnown
  <2>2. EndIsKnown(old)'
    BY <1>0, <1>1, <2>1, EndKnowledgeStays
  <2> QED
    BY <1>1, <2>1, <2>2 DEF EndIsKnown
<1>2. CASE UNCHANGED store /\ recon' = recon
  BY <1>1, <1>2 DEF EndsKnown, RepairUpdate
<1>3. CASE AliveStep
  <2>1. CASE Running
    <3>1. \A r \in Reconcilers : recon'[r].at = "idle"
      BY <1>3, <2>1 DEF RInv, AliveStep, NoRecon
    <3> QED
      BY <3>1 DEF EndsKnown, EndIsKnown
  <2>2. CASE ~ Running
    <3>1. ~ RunStep
      BY <1>3, <2>2
      DEF AliveStep, Running, Ended, RunStep, RunThread, CreateRun, CreateTask,
          ReuseTask, ReuseCheckpoint, StartRun, SkipReusedTask, EvaluateReadiness,
          SkipTask, ReadyTask, RunTask, AppendAttempt, StartAttempt, RunAttempt,
          RememberActiveRequest, BeginExecute, EndExecute, ForgetActiveRequest,
          ReloadAttempt, ReloadTask, ReloadRun, PersistExternalRunRefs,
          AppendExternalRef, ExternalRunRefAccepted,
          CancelTaskRun, ListNotStarted, CancelNotStarted, NotStartedCancelled,
          CancelRun, SucceedAttempt, SucceedTask, PersistOutputCheckpoint,
          RecheckRun, EvaluateFailure, UnknownTask, UnknownRun, FailTask, FailFast,
          FailFastSkip, FailRun, AssertTerminalTaskRuns, SucceedRun, OnTask,
          OnAttempt, OnWorkflow
    <3> QED
      BY <1>2, <1>3, <3>1 DEF AliveStep, Next, Stopped, vars
  <2> QED
    BY <2>1, <2>2
<1>4. ASSUME NEW r \in Reconcilers,
             BeginReconcile(r) \/ ReconcileStep(r) \/ ReconcilerDies(r)
      PROVE  EndsKnown'
  <2>1. RepairUpdate /\ \A q \in Reconcilers : q # r => recon'[q] = recon[q]
    BY <1>0, <1>4, ReconcilerKeeps DEF RepairEffect
  <2>2. EndIsKnown(recon[r])'
    <3>1. CASE recon'[r].at \notin {"list_again", "settle_run", "done"}
      BY <3>1 DEF EndIsKnown
    <3> QED
      BY <1>0, <1>4, <3>1, ElsewhereIsKnown, EndingIsKnown DEF ReconcileStep
  <2> QED
    BY <1>1, <2>1, <2>2 DEF EndsKnown
<1> QED
  BY <1>2, <1>3, <1>4 DEF RecoveryNext, Crash, AllStopped, recoveryVars, vars

\* Where nobody cancels, a report may be relied on altogether: what it calls
\* resolved is so for good, and when it is fully resolved the run has ended
\* unless a task never began (reconcile_run, fully_resolved).  A cancel() that
\* comes later may cancel such a task and leave the run open.
THEOREM ReportsMayBeReliedOn ==
    ASSUME Callers = {}
    PROVE  RecoverySpec => []FullyResolvedReportIsTrue
<1>1. RecoveryInit => EndsKnown
  BY DEF RecoveryInit, EndsKnown, EndIsKnown, NoRecon
<1>2. RInv /\ EndsKnown /\ [RecoveryNext]_recoveryVars => EndsKnown'
  BY EndsInductive
<1>3. RInv /\ EndsKnown => FullyResolvedReportIsTrue
  <2> SUFFICES ASSUME RInv, EndsKnown PROVE FullyResolvedReportIsTrue
    OBVIOUS
  <2>1. ReportedVerdictsLast
    BY DEF RInv, RepairsKnow, RepairKnows, ReportHolds, ReportedVerdictsLast
  <2>2. ResolvedRunHasEnded
    BY DEF EndsKnown, EndIsKnown, LeftOpen, WorkIsOver, NeverBegan, ResolvedRunHasEnded,
           FullyResolved
  <2> QED
    BY <2>1, <2>2 DEF FullyResolvedReportIsTrue
<1> QED
  BY <1>1, <1>2, <1>3, RecoveryInvariant, PTL DEF RecoverySpec

=============================================================================
