----------------------- MODULE ConcurrentRunnerProofs -----------------------
(***************************************************************************)
(* The V1 coordinator and its capacity manager, for every plan, policy,    *)
(* timeout mode and capability, all sets of attempts and executors and all *)
(* limits: first the slot accounting of CapacityManager alone, then that   *)
(* ConcurrentRunner uses it, then that the coordinator and its workers     *)
(* never lose sight of each other and that the records of a run follow its *)
(* work to the end.                                                        *)
(***************************************************************************)
EXTENDS ConcurrentRunner, FiniteSetTheorems, SequenceTheorems, WellFoundedInduction, TLAPS

\* Only finitely many leases are ever held; the rest is what the code checks.
CapacityInv == CapacityTypeOK /\ IsFiniteSet(Leased) /\ LeasesWithinLimits

\* The leases of one executor are some of all leases.
LEMMA LeasedOnIsLeased ==
    ASSUME NEW k \in ExecutorKeys
    PROVE  LeasedOn(k) \subseteq Leased
BY NoExecutorIsNoKey DEF Leased, LeasedOn

\* The effective limit is one of the two limits (CapacityManager.__init__).
LEMMA ExecutorLimitIsPositive ==
    ASSUME NEW k \in ExecutorKeys
    PROVE  ExecutorLimit(k) \in Nat \ {0}
BY LimitsArePositive DEF ExecutorLimit

\* A new manager holds no lease.
LEMMA CapacityInitInv == InitCapacity => CapacityInv
<1>. SUFFICES ASSUME InitCapacity PROVE CapacityInv
    OBVIOUS
<1>1. CapacityTypeOK
    BY DEF InitCapacity, CapacityTypeOK
<1>2. Leased = {}
    BY DEF InitCapacity, Leased
<1>3. \A k \in ExecutorKeys : LeasedOn(k) = {}
    BY NoExecutorIsNoKey DEF InitCapacity, LeasedOn
<1>4. IsFiniteSet({}) /\ Cardinality({}) = 0
    BY FS_EmptySet
<1>5. \A k \in ExecutorKeys : 0 <= ExecutorLimit(k) /\ activeByExecutor[k] = 0
    BY ExecutorLimitIsPositive DEF InitCapacity
<1>. QED
    BY <1>1, <1>2, <1>3, <1>4, <1>5, GlobalLimitIsPositive
       DEF CapacityInv, LeasesWithinLimits

\* try_acquire adds one lease where both limits leave room for it.
LEMMA AcquireKeepsInv ==
    ASSUME CapacityInv, NEW a \in Attempts, NEW k \in ExecutorKeys, Acquire(a, k)
    PROVE  CapacityInv'
<1>. USE NoExecutorIsNoKey
<1>1. CapacityTypeOK'
    BY DEF CapacityInv, CapacityTypeOK, Acquire
<1>2. a \notin Leased /\ Leased' = Leased \cup {a}
    BY DEF CapacityInv, CapacityTypeOK, Acquire, Leased
<1>3. IsFiniteSet(Leased') /\ Cardinality(Leased') = Cardinality(Leased) + 1
    BY <1>2, FS_AddElement DEF CapacityInv
<1>4. Cardinality(Leased) \in Nat
    BY FS_CardinalityType DEF CapacityInv
<1>5. Cardinality(Leased') <= GlobalLimit
    BY <1>3, <1>4, GlobalLimitIsPositive DEF Acquire, CapacityAvailable
<1>6. ASSUME NEW j \in ExecutorKeys
      PROVE  /\ activeByExecutor'[j] = Cardinality(LeasedOn(j)')
             /\ Cardinality(LeasedOn(j)') <= ExecutorLimit(j)
    <2>1. IsFiniteSet(LeasedOn(j)) /\ Cardinality(LeasedOn(j)) \in Nat
        BY LeasedOnIsLeased, FS_Subset, FS_CardinalityType DEF CapacityInv
    <2>2. activeByExecutor[j] = Cardinality(LeasedOn(j))
        BY DEF CapacityInv, LeasesWithinLimits
    <2>3. CASE j = k
        <3>1. a \notin LeasedOn(k) /\ LeasedOn(k)' = LeasedOn(k) \cup {a}
            BY DEF CapacityInv, CapacityTypeOK, Acquire, LeasedOn
        <3>2. Cardinality(LeasedOn(k)') = Cardinality(LeasedOn(k)) + 1
            BY <2>1, <2>3, <3>1, FS_AddElement
        <3>3. activeByExecutor'[k] = activeByExecutor[k] + 1
            BY DEF CapacityInv, CapacityTypeOK, Acquire
        <3>4. activeByExecutor[k] < ExecutorLimit(k)
            BY DEF Acquire, CapacityAvailable
        <3>. QED
            BY <2>1, <2>2, <2>3, <3>2, <3>3, <3>4, ExecutorLimitIsPositive
    <2>4. CASE j # k
        <3>1. LeasedOn(j)' = LeasedOn(j)
            BY <2>4 DEF CapacityInv, CapacityTypeOK, Acquire, LeasedOn
        <3>2. activeByExecutor'[j] = activeByExecutor[j]
            BY <2>4 DEF CapacityInv, CapacityTypeOK, Acquire
        <3>. QED
            BY <2>2, <3>1, <3>2 DEF CapacityInv, LeasesWithinLimits
    <2>. QED
        BY <2>3, <2>4
<1>. QED
    BY <1>1, <1>3, <1>5, <1>6 DEF CapacityInv, LeasesWithinLimits, ExecutorLimit

\* release() takes one lease and one from the count of its executor.
LEMMA ReleaseKeepsInv ==
    ASSUME CapacityInv, NEW a \in Attempts, NEW k \in ExecutorKeys, Release(a, k)
    PROVE  CapacityInv'
<1>. USE NoExecutorIsNoKey
<1>1. /\ IsFiniteSet(LeasedOn(k)) /\ Cardinality(LeasedOn(k)) \in Nat
      /\ LeasedOn(k)' = LeasedOn(k) \ {a} /\ a \in LeasedOn(k)
    BY LeasedOnIsLeased, FS_Subset, FS_CardinalityType
       DEF CapacityInv, CapacityTypeOK, Release, LeasedOn
<1>2. /\ IsFiniteSet(LeasedOn(k)')
      /\ Cardinality(LeasedOn(k)') = Cardinality(LeasedOn(k)) - 1
    BY <1>1, FS_RemoveElement
<1>3. Cardinality(LeasedOn(k)') \in Nat
    BY <1>2, FS_CardinalityType
<1>4. activeByExecutor[k] = Cardinality(LeasedOn(k))
    BY DEF CapacityInv, LeasesWithinLimits
<1>5. CapacityTypeOK'
    <2>1. activeByExecutor[k] - 1 \in Nat
        BY <1>1, <1>2, <1>3, <1>4
    <2>. QED
        BY <2>1 DEF CapacityInv, CapacityTypeOK, Release
<1>6. a \in Leased /\ Leased' = Leased \ {a}
    BY DEF CapacityInv, CapacityTypeOK, Release, Leased
<1>7. IsFiniteSet(Leased') /\ Cardinality(Leased') = Cardinality(Leased) - 1
    BY <1>6, FS_RemoveElement DEF CapacityInv
<1>8. Cardinality(Leased') <= GlobalLimit
    BY <1>7, FS_CardinalityType, GlobalLimitIsPositive DEF CapacityInv, LeasesWithinLimits
<1>9. ASSUME NEW j \in ExecutorKeys
      PROVE  /\ activeByExecutor'[j] = Cardinality(LeasedOn(j)')
             /\ Cardinality(LeasedOn(j)') <= ExecutorLimit(j)
    <2>1. CASE j = k
        <3>1. activeByExecutor'[k] = activeByExecutor[k] - 1
            BY DEF CapacityInv, CapacityTypeOK, Release
        <3>2. Cardinality(LeasedOn(k)) <= ExecutorLimit(k)
            BY DEF CapacityInv, LeasesWithinLimits
        <3>3. Cardinality(LeasedOn(k)) \in Nat /\ ExecutorLimit(k) \in Nat
            BY <1>1, ExecutorLimitIsPositive
        <3>4. Cardinality(LeasedOn(k)') <= ExecutorLimit(k)
            BY <1>2, <3>2, <3>3
        <3>. QED
            BY <1>2, <1>4, <2>1, <3>1, <3>4
    <2>2. CASE j # k
        <3>1. LeasedOn(j)' = LeasedOn(j)
            BY <2>2 DEF CapacityInv, CapacityTypeOK, Release, LeasedOn
        <3>2. activeByExecutor'[j] = activeByExecutor[j]
            BY <2>2 DEF CapacityInv, CapacityTypeOK, Release
        <3>. QED
            BY <3>1, <3>2 DEF CapacityInv, LeasesWithinLimits
    <2>. QED
        BY <2>1, <2>2
<1>. QED
    BY <1>5, <1>7, <1>8, <1>9 DEF CapacityInv, LeasesWithinLimits, ExecutorLimit

\* CapacityInv is inductive.
LEMMA CapacityInvInductive == CapacityInv /\ [CapacityNext]_capacityVars => CapacityInv'
<1>. SUFFICES ASSUME CapacityInv, [CapacityNext]_capacityVars PROVE CapacityInv'
    OBVIOUS
<1>1. CASE CapacityNext
    BY <1>1, AcquireKeepsInv, ReleaseKeepsInv DEF CapacityNext
<1>2. CASE UNCHANGED capacityVars
    BY <1>2 DEF CapacityInv, CapacityTypeOK, LeasesWithinLimits, Leased, LeasedOn,
                ExecutorLimit, capacityVars
<1>. QED
    BY <1>1, <1>2

-----------------------------------------------------------------------------

\* The manager, whatever its callers do: the count of every executor is the
\* number of its leases, and no limit is exceeded (application/capacity.py).
THEOREM CapacityIsKept == CapacitySpec => []LeasesWithinLimits
<1>1. CapacityInv => LeasesWithinLimits
    BY DEF CapacityInv
<1>. QED
    BY <1>1, CapacityInitInv, CapacityInvInductive, PTL DEF CapacitySpec

\* What the runner's own variables have to satisfy for an execution to be one
\* of the attempts that the manager knows.
RunnerCore ==
    /\ definition \in Definitions
    /\ active \subseteq Attempts
    /\ pending \in [Tasks -> 0 .. AttemptBound]
    /\ eligible \subseteq Pending
    /\ todo \subseteq Tasks

\* The natural numbers are well founded: the library's fact, as a relation
\* (the identifiers that ConcurrentRunner._dispatch_ready_tasks sorts).
LEMMA LessIsWellFounded == IsWellFoundedOn({p \in Nat \X Nat : p[1] < p[2]}, Nat)
BY NatLessThanWellFounded, Zenon DEF OpToRel

\* The loops over tasks take the one with the smallest identifier
\* (ConcurrentRunner._dispatch_ready_tasks).
LEMMA FirstOfIsMember ==
    ASSUME NEW S \in SUBSET Tasks, S # {}
    PROVE  FirstOf(S) \in S
<1>. DEFINE R == {p \in Nat \X Nat : p[1] < p[2]}
<1>1. S \subseteq Nat
    BY TasksAreNumbered
<1>2. IsWellFoundedOn(R, Nat)
    BY LessIsWellFounded
<1>. HIDE DEF R
<1>3. PICK t \in S : \A u \in S : ~ (<<u, t>> \in R)
    BY <1>1, <1>2, WFMin
<1>4. t \in Nat /\ \A u \in S : u \in Nat /\ ~ (u < t)
    BY <1>1, <1>3 DEF R
<1>5. \A u \in S : t <= u
    BY <1>4
<1>. QED
    BY <1>5 DEF FirstOf

\* A failed or timed-out attempt schedules at most the last attempt that the
\* policy allows (RetryEngine.decide), and no pending retry disappears.
LEMMA RetriesAreAttempts ==
    ASSUME RunnerCore, NEW h \in Attempts, NEW outcome, FailsOrRetries(h, outcome)
    PROVE  /\ pending' \in [Tasks -> 0 .. AttemptBound]
           /\ \A t \in Tasks : pending[t] # 0 => pending'[t] # 0
<1>. USE AttemptsAreNumbered
<1>1. TaskOf(h) \in Tasks /\ h[2] \in 1 .. AttemptBound
    BY DEF TaskOf
<1>2. CASE pending' = pending
    BY <1>2 DEF RunnerCore
<1>3. CASE SchedulesRetry(h) /\ ShouldRetry(TaskOf(h), h[2], outcome)
    <2>1. definition.maxAttempts[TaskOf(h)] \in 1 .. AttemptBound
        BY <1>1, DefinitionsType DEF RunnerCore
    <2>2. h[2] + 1 \in 1 .. AttemptBound
        BY <1>1, <1>3, <2>1 DEF ShouldRetry
    <2>. QED
        BY <1>1, <1>3, <2>2 DEF RunnerCore, SchedulesRetry
<1>. QED
    BY <1>2, <1>3 DEF FailsOrRetries, SettlesSibling, FailsWorkflow

\* So does a completion, whatever it settles.
LEMMA CompletionsAreAttempts ==
    ASSUME RunnerCore, NEW h \in Attempts, NEW outcome, AppliesCompletion(h, outcome)
    PROVE  /\ pending' \in [Tasks -> 0 .. AttemptBound]
           /\ \A t \in Tasks : pending[t] # 0 => pending'[t] # 0
<1>1. CASE pending' = pending
    BY <1>1 DEF RunnerCore
<1>2. CASE FailsOrRetries(h, outcome)
    BY <1>2, RetriesAreAttempts
<1>. QED
    BY <1>1, <1>2 DEF AppliesCompletion, SettlesSibling, Succeeds

\* The retry of a task and its first attempt are attempts.
LEMMA DispatchesAttempts ==
    ASSUME RunnerCore, NEW t \in Tasks
    PROVE  <<t, 1>> \in Attempts /\ (t \in eligible => RetryOf(t) \in Attempts)
BY AttemptsAreNumbered DEF RunnerCore, RetryOf, Pending

\* One unit of work of the coordinator.
LEMMA CoordinatorKeepsCore ==
    ASSUME RunnerCore, Coordinator
    PROVE  RunnerCore' /\ [CapacityNext]_capacityVars
<1>. USE ExecutorIsRegistered
<1>1. CASE TopMarksReady
    BY <1>1 DEF TopMarksReady, RunnerCore, Pending, locals, environment
<1>2. CASE DispatchRetry
    <2>. DEFINE t == FirstOf(todo)
    <2>1. t \in todo /\ t \in Tasks /\ t \in eligible
        BY <1>2, FirstOfIsMember DEF DispatchRetry, RunnerCore
    <2>2. RetryOf(t) \in Attempts
        BY <2>1, DispatchesAttempts
    <2>3. /\ definition' = definition /\ todo' \subseteq todo
          /\ pending' = [pending EXCEPT ![t] = 0] /\ eligible' = eligible \ {t}
          /\ active' \subseteq active \cup {RetryOf(t)} /\ Acquire(RetryOf(t), Executor)
        BY <1>2 DEF DispatchRetry, Submits
    <2>. HIDE DEF t
    <2>4. pending' \in [Tasks -> 0 .. AttemptBound]
        <3>1. 0 \in 0 .. AttemptBound
            BY AttemptsAreNumbered
        <3>2. pending \in [Tasks -> 0 .. AttemptBound]
            BY DEF RunnerCore
        <3>. QED
            BY <2>1, <2>3, <3>1, <3>2
    <2>5. \A u \in Tasks \ {t} : pending'[u] = pending[u]
        BY <2>3 DEF RunnerCore
    <2>6. eligible' \subseteq Pending'
        BY <2>3, <2>5 DEF RunnerCore, Pending
    <2>7. RunnerCore'
        BY <2>2, <2>3, <2>4, <2>6 DEF RunnerCore
    <2>. QED
        BY <2>2, <2>3, <2>7 DEF CapacityNext
<1>3. CASE DispatchReady
    <2>. DEFINE t == FirstOf(todo)
    <2>1. t \in todo /\ t \in Tasks
        BY <1>3, FirstOfIsMember DEF DispatchReady, RunnerCore
    <2>2. <<t, 1>> \in Attempts
        BY <2>1, DispatchesAttempts
    <2>3. /\ definition' = definition /\ todo' \subseteq todo
          /\ pending' = pending /\ eligible' = eligible
          /\ active' \subseteq active \cup {<<t, 1>>} /\ Acquire(<<t, 1>>, Executor)
        BY <1>3 DEF DispatchReady, Submits
    <2>. HIDE DEF t
    <2>4. RunnerCore'
        BY <2>2, <2>3 DEF RunnerCore, Pending
    <2>. QED
        BY <2>2, <2>3, <2>4 DEF CapacityNext
<1>4. CASE TakeCompletion
    <2>. DEFINE h == Head(queue).handle
    <2>1. CASE h \in active /\ CompletionLegal(h)
        <3>1. /\ h \in Attempts /\ Release(h, Executor) /\ active' = active \ {h}
              /\ AppliesCompletion(h, Head(queue).outcome)
              /\ definition' = definition /\ eligible' = eligible /\ todo' = todo
            BY <1>4, <2>1 DEF TakeCompletion, LetsGo, Goes, RunnerCore
        <3>2. /\ pending' \in [Tasks -> 0 .. AttemptBound]
              /\ \A t \in Tasks : pending[t] # 0 => pending'[t] # 0
            BY <3>1, CompletionsAreAttempts
        <3>3. RunnerCore'
            BY <3>1, <3>2 DEF RunnerCore, Pending
        <3>. QED
            BY <3>1, <3>3 DEF CapacityNext
    <2>2. CASE ~ (h \in active /\ CompletionLegal(h))
        BY <1>4, <2>2 DEF TakeCompletion, Goes, RunnerCore, Pending
    <2>. QED
        BY <2>1, <2>2
<1>5. CASE DrainsNext
    <2>. DEFINE h == Head(queue).handle
    <2>1. CASE h \in active /\ CompletionLegal(h)
        BY <1>5, <2>1 DEF DrainsNext, LetsGo, RunnerCore, Pending, CapacityNext
    <2>2. CASE ~ (h \in active /\ CompletionLegal(h))
        BY <1>5, <2>2 DEF DrainsNext, RunnerCore, Pending
    <2>. QED
        BY <2>1, <2>2
<1>6. CASE \E h \in Attempts : Expire(h)
    <2>1. PICK h \in Attempts : Expire(h)
        BY <1>6
    <2>2. /\ pending' \in [Tasks -> 0 .. AttemptBound]
          /\ \A t \in Tasks : pending[t] # 0 => pending'[t] # 0
        BY <2>1, RetriesAreAttempts DEF Expire
    <2>. QED
        BY <2>1, <2>2 DEF Expire, RunnerCore, Pending
<1>7. CASE PassOverRetry \/ RetryPassEnds \/ PassOverReady \/ DispatchPassEnds
    BY <1>7 DEF PassOverRetry, RetryPassEnds, PassOverReady, DispatchPassEnds,
                RunnerCore, Pending, locals
<1>8. CASE Recheck \/ WaitTimesOut \/ ExpirePassEnds \/ StopPassEnds
    BY <1>8 DEF Recheck, WaitTimesOut, ExpirePassEnds, StopPassEnds, Goes,
                RunnerCore, Pending, locals
<1>9. CASE BeginCancellation \/ \E h \in Attempts : StopExecution(h)
    BY <1>9, AttemptsAreNumbered
       DEF BeginCancellation, StopExecution, Goes, RunnerCore, Pending
<1>10. CASE DrainEnds \/ Finish
    BY <1>10 DEF DrainEnds, Finish, Goes, RunnerCore, Pending, locals
<1>. QED
    BY <1>1, <1>2, <1>3, <1>4, <1>5, <1>6, <1>7, <1>8, <1>9, <1>10
       DEF Coordinator, DrainCancelled, DrainTerminal

\* An interrupt within one of them takes or gives back at most one lease.
LEMMA InterruptKeepsCore ==
    ASSUME RunnerCore, InterruptWithin
    PROVE  RunnerCore' /\ [CapacityNext]_capacityVars
<1>. USE ExecutorIsRegistered
<1>1. CASE InterruptInDispatch
    <2>. DEFINE h == NextDispatch
    <2>1. FirstOf(todo) \in todo /\ FirstOf(todo) \in Tasks
        BY <1>1, FirstOfIsMember DEF InterruptInDispatch, RunnerCore
    <2>2. h \in Attempts
        BY <1>1, <2>1, DispatchesAttempts DEF InterruptInDispatch, NextDispatch
    <2>3. /\ definition' = definition /\ todo' = {} /\ active' = active
          /\ Acquire(h, Executor)
          /\ \/ pending' = pending /\ eligible' = eligible
             \/ /\ pending' = [pending EXCEPT ![TaskOf(h)] = 0]
                /\ eligible' = eligible \ {TaskOf(h)}
        BY <1>1 DEF InterruptInDispatch, HandlesInterrupt
    <2>. HIDE DEF h
    <2>4. 0 \in 0 .. AttemptBound
        BY AttemptsAreNumbered
    <2>5. pending' \in [Tasks -> 0 .. AttemptBound] /\ eligible' \subseteq Pending'
        BY <2>3, <2>4 DEF RunnerCore, Pending
    <2>. QED
        BY <2>2, <2>3, <2>5 DEF RunnerCore, CapacityNext
<1>2. CASE \E h \in Attempts : InterruptInTimeout(h)
    BY <1>2 DEF InterruptInTimeout, HandlesInterrupt, RunnerCore, Pending
<1>3. CASE InterruptInCompletion
    <2>. DEFINE h == Head(queue).handle
    <2>1. /\ h \in Attempts /\ active' \subseteq active
          /\ UNCHANGED <<definition, pending, eligible>> /\ todo' = {}
          /\ UNCHANGED capacityVars \/ Release(h, Executor)
        BY <1>3 DEF InterruptInCompletion, HandlesInterrupt, RunnerCore
    <2>. HIDE DEF h
    <2>. QED
        BY <2>1 DEF RunnerCore, Pending, CapacityNext
<1>4. CASE InterruptAfterFailure
    <2>. DEFINE h == Head(queue).handle
    <2>1. /\ h \in Attempts /\ active' \subseteq active
          /\ UNCHANGED <<definition, pending, eligible>> /\ todo' = {}
          /\ Release(h, Executor)
        BY <1>4 DEF InterruptAfterFailure, HandlesInterrupt, RunnerCore, LetsGo, FailsWorkflow
    <2>. HIDE DEF h
    <2>. QED
        BY <2>1 DEF RunnerCore, Pending, CapacityNext
<1>5. CASE InterruptAfterEnd
    BY <1>5 DEF InterruptAfterEnd, HandlesInterrupt, RunnerCore, Pending
<1>. QED
    BY <1>1, <1>2, <1>3, <1>4, <1>5 DEF InterruptWithin

\* RunnerCore is inductive, and every step of the runner is one of the manager.
LEMMA RunnerCoreInductive ==
    RunnerCore /\ [RunnerNext]_runnerVars => RunnerCore' /\ [CapacityNext]_capacityVars
<1>. SUFFICES ASSUME RunnerCore, [RunnerNext]_runnerVars
              PROVE  RunnerCore' /\ [CapacityNext]_capacityVars
    OBVIOUS
<1>1. CASE Coordinator
    BY <1>1, CoordinatorKeepsCore
<1>2. CASE \E h \in Attempts : Worker(h)
    BY <1>2 DEF Worker, WorkerFreesSlot, WorkerReports, RunnerCore, Pending, loops, locals
<1>3. CASE \E t \in Tasks : BackoffEnds(t)
    BY <1>3 DEF BackoffEnds, RunnerCore, Pending, loops
<1>4. CASE RequestCancellation
    BY <1>4 DEF RequestCancellation, RunnerCore, Pending, loops, locals
<1>5. CASE InterruptBetween
    BY <1>5 DEF InterruptBetween, HandlesInterrupt, RunnerCore, Pending
<1>6. CASE InterruptWithin
    BY <1>6, InterruptKeepsCore
<1>7. CASE UNCHANGED runnerVars
    BY <1>7 DEF runnerVars, RunnerCore, Pending, loops, locals
<1>. QED
    BY <1>1, <1>2, <1>3, <1>4, <1>5, <1>6, <1>7 DEF RunnerNext, RunEnded

\* The runner starts with no execution at all.
LEMMA RunnerInitCore == RunnerInit => RunnerCore /\ InitCapacity
BY AttemptsAreNumbered DEF RunnerInit, RunnerCore, Pending

\* The runner implements the manager: whatever it does with completions,
\* timeouts, retries, cancellation and interrupts, it takes a lease only where
\* there is room and gives each lease back once (ConcurrentRunner.run).
THEOREM RunnerUsesCapacity == RunnerSpec => CapacitySpec
BY RunnerInitCore, RunnerCoreInductive, PTL DEF RunnerSpec, CapacitySpec

\* So its leases stay within both limits, for every number of tasks, attempts
\* and slots.
THEOREM RunnerLeasesWithinLimits == RunnerSpec => []LeasesWithinLimits
BY RunnerUsesCapacity, CapacityIsKept, PTL

-----------------------------------------------------------------------------
(* The invariant of the runner.                                            *)

\* The executions whose outcome still counts.
InTime == active \ timedOut

\* Every execution the coordinator waits for holds the lease of its attempt,
\* and is with its worker or in the queue, once.
Ownership ==
    /\ \A h \in Attempts : leaseOf[h] = IF h \in active THEN Executor ELSE NoExecutor
    /\ \A h \in Attempts : h \in active <=> worker[h] \in {"running", "freed"} \/ Queued(h)
    /\ \A h \in Attempts : Queued(h) => worker[h] = "reported"
    /\ \A h \in Attempts : worker[h] = "idle" <=> attempt[h] = Absent
    /\ \A i, j \in 1 .. Len(queue) : queue[i].handle = queue[j].handle => i = j
    /\ \A g, h \in active : TaskOf(g) = TaskOf(h) => g = h

\* An attempt runs exactly as long as its outcome counts, it is then the last
\* one of a RUNNING task, and no retry of it is pending.
InTimeIsLast ==
    /\ \A h \in Attempts : attempt[h] = "RUNNING" <=> h \in InTime
    /\ \A h \in InTime :
          /\ task[TaskOf(h)] = "RUNNING" /\ pending[TaskOf(h)] = 0
          /\ \A n \in 1 .. AttemptBound : h[2] < n => attempt[<<TaskOf(h), n>>] = Absent

\* A pending retry is the next attempt of a RUNNING task.
PendingIsNext ==
    \A t \in Tasks : pending[t] # 0 =>
        /\ task[t] = "RUNNING"
        /\ \A n \in 1 .. AttemptBound : attempt[<<t, n>>] # Absent <=> n < pending[t]

\* Attempts are numbered without gaps, and only dispatched tasks have any.
AttemptsInOrder ==
    /\ \A t \in Tasks, n \in 1 .. AttemptBound, m \in 1 .. AttemptBound :
          m < n /\ attempt[<<t, n>>] # Absent => attempt[<<t, m>>] # Absent
    /\ \A t \in Tasks, n \in 1 .. AttemptBound :
          task[t] \in {"PENDING", "READY"} => attempt[<<t, n>>] = Absent

\* A RUNNING task is at work or waits for its retry, and like a READY one it
\* has its upstream tasks behind it, with their outputs while tasks are dispatched.
TasksStand ==
    /\ \A t \in Tasks : task[t] = "RUNNING" =>
          pending[t] # 0 \/ \E h \in InTime : TaskOf(h) = t
    /\ \A t \in Tasks : task[t] \in {"READY", "RUNNING"} =>
          \A u \in definition.upstream[t] : task[u] = "SUCCEEDED"
    /\ ~ cancelRequested /\ pc \notin {"drain", "returned"} =>
          \A t \in Tasks : task[t] = "SUCCEEDED" => t \in outputs

\* A failed run has a FAILED task and nothing left to dispatch; another one
\* has only successes behind it, until somebody cancels.
VerdictStands ==
    /\ run = "FAILED" => NotDispatched = {} /\ \E t \in Tasks : task[t] = "FAILED"
    /\ run # "FAILED" /\ ~ cancelRequested =>
          \A t \in Tasks : task[t] \in {"PENDING", "READY", "RUNNING", "SUCCEEDED"}

\* What the position of the coordinator says.
PositionKnows ==
    /\ pc # "raised" /\ interrupted # "within"
    /\ failed => run = "FAILED"
    /\ run = "FAILED" => failed \/ pc = "expire"
    /\ pc # "returned" => run \in {"RUNNING", "FAILED"}
    /\ pc \notin {"expire", "stop"} => visit = {}
    /\ pc = "expire" => visit \subseteq InTime
    /\ pc \in {"retries", "dispatch", "recheck"} /\ ~ failed /\ ~ cancelRequested =>
          \A t \in Tasks : ~ IsReady(t)
    /\ pc = "dispatch" => \A t \in todo : task[t] = "READY"
    /\ pc \in {"dispatch", "recheck"} /\ ~ cancelRequested /\ active = {} =>
          \A t \in Tasks : task[t] = "READY" => pc = "dispatch" /\ t \in todo
    /\ pc = "stop" => ~ failed
    /\ pc \in {"stop", "drain"} /\ ~ failed =>
          cancelRequested /\ Pending = {} /\ NotDispatched = {}
    /\ pc = "drain" /\ failed => interrupted = "between"
    /\ pc = "finish" =>
          /\ active = {} /\ Pending = {}
          /\ ~ failed => \A t \in Tasks : task[t] = "SUCCEEDED"

Undisturbed ==
    /\ RunnerTypeOK /\ CapacityInv
    /\ Ownership /\ InTimeIsLast /\ PendingIsNext /\ AttemptsInOrder
    /\ TasksStand /\ VerdictStands /\ PositionKnows
    /\ TaskFollowsAttempts /\ ReturnedRunLeavesNothing

-----------------------------------------------------------------------------
(* Attempts, and what two records that agree on the relevant variables     *)
(* share.                                                                  *)

\* An attempt is the pair of its task and its number.
LEMMA AttemptIsPair ==
    /\ \A h \in Attempts : /\ TaskOf(h) \in Tasks /\ h[2] \in 1 .. AttemptBound
                           /\ h = <<TaskOf(h), h[2]>>
    /\ \A t \in Tasks, n \in 1 .. AttemptBound :
          <<t, n>> \in Attempts /\ TaskOf(<<t, n>>) = t /\ <<t, n>>[2] = n
BY AttemptsAreNumbered DEF TaskOf

\* What the loops need of the runner's variables is part of its invariant.
LEMMA InvHasCore == Undisturbed => RunnerCore
BY DEF Undisturbed, RunnerTypeOK, RunnerCore

\* A completion in the queue is at one of its places, and the first of them
\* is its head.
LEMMA HeadIsQueued ==
    ASSUME Undisturbed, queue # << >>
    PROVE  /\ Head(queue) = queue[1] /\ 1 \in 1 .. Len(queue)
           /\ Head(queue).handle \in Attempts /\ Head(queue).outcome \in Outcome
           /\ Queued(Head(queue).handle) /\ Head(queue).handle \in active
<1> DEFINE R == [handle: Attempts, outcome: Outcome]
<1>1. queue \in Seq(R)
  BY DEF Undisturbed, RunnerTypeOK
<1> HIDE DEF R
<1>2. Len(queue) \in Nat /\ Len(queue) # 0 /\ Head(queue) = queue[1]
  BY <1>1, EmptySeq, LenProperties, HeadTailProperties
<1>3. 1 \in 1 .. Len(queue) /\ queue[1] \in R
  BY <1>1, <1>2
<1>4. queue[1].handle \in Attempts /\ queue[1].outcome \in Outcome
  BY <1>3 DEF R
<1>5. Queued(queue[1].handle)
  BY <1>3 DEF Queued
<1> QED
  BY <1>2, <1>3, <1>4, <1>5 DEF Undisturbed, Ownership

\* The actions that leave the records and the ownership of the executions
\* alone keep everything but what the position says.
RecordsParts ==
    /\ Ownership /\ InTimeIsLast /\ PendingIsNext /\ AttemptsInOrder
    /\ TasksStand /\ VerdictStands /\ TaskFollowsAttempts

LEMMA StandingRecords ==
    ASSUME Undisturbed,
           UNCHANGED <<definition, task, attempt, outputs, active, timedOut,
                       pending, worker, queue, leaseOf>>,
           cancelRequested => cancelRequested',
           pc \in {"drain", "returned"} => pc' \in {"drain", "returned"} \/ cancelRequested',
           run' = "FAILED" <=> run = "FAILED"
    PROVE  RecordsParts'
<1> USE DEF Undisturbed, RecordsParts
<1>1. InTime' = InTime /\ \A h \in Attempts : Queued(h)' = Queued(h)
  BY DEF InTime, Queued
<1>2. Ownership'
  BY <1>1 DEF Ownership
<1>3. InTimeIsLast'
  BY <1>1 DEF InTimeIsLast
<1>4. PendingIsNext' /\ AttemptsInOrder' /\ TaskFollowsAttempts'
  BY DEF PendingIsNext, AttemptsInOrder, TaskFollowsAttempts
<1>5. TasksStand'
  BY <1>1 DEF TasksStand
<1>6. VerdictStands'
  BY DEF VerdictStands, NotDispatched
<1> QED
  BY <1>2, <1>3, <1>4, <1>5, <1>6

-----------------------------------------------------------------------------
(* The steps that only move the coordinator.                               *)

\* When nothing is at work, pending or ready, and nothing has failed, every
\* task has succeeded: the first PENDING task of the plan would be ready.
LEMMA IdleRunHasSucceeded ==
    ASSUME Undisturbed, run # "FAILED", ~ cancelRequested, active = {}, Pending = {},
           \A t \in Tasks : task[t] # "READY" /\ ~ IsReady(t)
    PROVE  \A t \in Tasks : task[t] = "SUCCEEDED"
<1> USE DEF Undisturbed
<1>1. \A t \in Tasks : task[t] \in {"PENDING", "SUCCEEDED"}
  BY DEF TasksStand, VerdictStands, InTime, Pending
<1>2. PICK position \in [Tasks -> 1 .. Cardinality(Tasks)] :
         \A t \in Tasks : \A u \in definition.upstream[t] : position[u] < position[t]
  BY PlansAreOrdered DEF RunnerTypeOK
<1>3. Cardinality(Tasks) \in Nat
  BY PlansAreOrdered, FS_CardinalityType
<1> SUFFICES ASSUME {t \in Tasks : task[t] = "PENDING"} # {} PROVE FALSE
  BY <1>1
<1> DEFINE R == {p \in Nat \X Nat : p[1] < p[2]}
           P == {position[t] : t \in {u \in Tasks : task[u] = "PENDING"}}
<1>4. P \subseteq Nat /\ P # {}
  BY <1>2, <1>3
<1>5. IsWellFoundedOn(R, Nat)
  BY LessIsWellFounded
<1>6. PICK least \in P : \A p \in P : ~ (<<p, least>> \in R)
  <2> HIDE DEF R, P
  <2> QED
    BY <1>4, <1>5, WFMin
<1>7. PICK t \in Tasks : task[t] = "PENDING" /\ position[t] = least
  BY <1>6
<1>8. PICK u \in definition.upstream[t] : task[u] # "SUCCEEDED"
  BY <1>7 DEF IsReady
<1>9. u \in Tasks
  BY <1>7, <1>8, DefinitionsType DEF RunnerTypeOK
<1>10. position[u] \in P
  BY <1>1, <1>8, <1>9
<1>11. position[u] \in Nat /\ least \in Nat /\ position[u] < least
  BY <1>2, <1>3, <1>7, <1>8, <1>9
<1> QED
  BY <1>6, <1>10, <1>11

\* With nothing leased there is room for one more execution.
LEMMA IdleRunHasCapacity ==
    ASSUME Undisturbed, active = {}
    PROVE  CapacityAvailable(Executor)
<1> USE DEF Undisturbed
<1>1. Leased = {} /\ LeasedOn(Executor) = {}
  BY ExecutorIsRegistered, NoExecutorIsNoKey DEF Leased, LeasedOn, Ownership
<1>2. activeByExecutor[Executor] = 0
  BY <1>1, FS_EmptySet, ExecutorIsRegistered DEF CapacityInv, LeasesWithinLimits
<1>3. ExecutorLimit(Executor) \in Nat \ {0}
  BY ExecutorIsRegistered, ExecutorLimitIsPositive
<1> QED
  BY <1>1, <1>2, <1>3, FS_EmptySet, GlobalLimitIsPositive DEF CapacityAvailable

\* The dispatch passes, up to the decision to wait or to finish.
LEMMA PassesKeep ==
    ASSUME Undisturbed, CapacityInv',
           PassOverRetry \/ RetryPassEnds \/ PassOverReady \/ DispatchPassEnds \/ Recheck
    PROVE  Undisturbed'
<1>1. /\ UNCHANGED <<definition, records, locals, environment, capacityVars, visit>>
      /\ pc \in {"retries", "dispatch", "recheck"}
      /\ todo' \subseteq Tasks
      /\ pc' \in {"retries", "dispatch", "recheck", "top", "wait", "finish"}
  BY DEF PassOverRetry, RetryPassEnds, PassOverReady, DispatchPassEnds, Recheck, Goes,
         Undisturbed, RunnerTypeOK
<1>2. RecordsParts'
  BY <1>1, StandingRecords DEF records, locals, environment, capacityVars
<1>3. RunnerTypeOK'
  BY <1>1 DEF Undisturbed, RunnerTypeOK, CoordinatorStep, records, locals, environment,
             CapacityInv, Pending
<1>4. \A t \in Tasks : IsReady(t)' = IsReady(t)
  BY <1>1 DEF IsReady, records
<1>5. PositionKnows'
  <2> USE <1>1, <1>4 DEF records, locals, environment
  <2>1. CASE PassOverRetry
    BY <2>1 DEF PassOverRetry, Undisturbed, PositionKnows
  <2>2. CASE RetryPassEnds
    BY <2>2 DEF RetryPassEnds, Undisturbed, PositionKnows, VerdictStands, NotDispatched
  <2>3. CASE PassOverReady
    <3>1. active # {}
      BY <2>3, IdleRunHasCapacity DEF PassOverReady
    <3> QED
      BY <2>3, <3>1 DEF PassOverReady, Undisturbed, PositionKnows
  <2>4. CASE DispatchPassEnds
    BY <2>4 DEF DispatchPassEnds, Undisturbed, PositionKnows
  <2>5. CASE Recheck
    <3>1. CASE pc' = "finish"
      <4>1. active = {} /\ Pending = {} /\ (cancelRequested => failed)
        BY <2>5, <3>1 DEF Recheck, Goes
      <4>2. ~ failed => \A t \in Tasks : task[t] = "SUCCEEDED"
        <5> SUFFICES ASSUME ~ failed PROVE \A t \in Tasks : task[t] = "SUCCEEDED"
          OBVIOUS
        <5>1. \A t \in Tasks : task[t] # "READY" /\ ~ IsReady(t)
          BY <2>5, <4>1 DEF Recheck, Undisturbed, PositionKnows
        <5> QED
          BY <2>5, <4>1, <5>1, IdleRunHasSucceeded DEF Recheck, Undisturbed, PositionKnows
      <4> QED
        BY <2>5, <3>1, <4>1, <4>2 DEF Recheck, Undisturbed, PositionKnows, Pending
    <3>2. CASE pc' # "finish"
      BY <2>5, <3>2 DEF Recheck, Goes, Undisturbed, PositionKnows
    <3> QED
      BY <3>1, <3>2
  <2> QED
    BY <2>1, <2>2, <2>3, <2>4, <2>5
<1>6. ReturnedRunLeavesNothing'
  BY <1>1 DEF ReturnedRunLeavesNothing
<1> QED
  BY <1>2, <1>3, <1>5, <1>6 DEF Undisturbed, RecordsParts

\* Waiting, deadlines, the stop of the executions in flight, an interrupt.
LEMMA WaitsKeep ==
    ASSUME Undisturbed, CapacityInv',
           \/ WaitTimesOut \/ ExpirePassEnds \/ StopPassEnds
           \/ InterruptBetween /\ interrupted' = "between"
           \/ \E h \in Attempts : StopExecution(h)
    PROVE  Undisturbed'
<1>1. /\ UNCHANGED <<definition, records, active, timedOut, pending, eligible, worker,
                     queue, capacityVars>>
      /\ pc \notin {"returned", "raised"}
      /\ pc' \in {"top", "expire", "stop", "drain"}
      /\ pc = "drain" => pc' \in {"top", "drain"} /\ (pc' = "top" => cancelRequested')
      /\ failed' \in BOOLEAN /\ todo' \subseteq Tasks
      /\ stopped' \subseteq Attempts /\ visit' \subseteq active
      /\ cancelRequested' \in BOOLEAN /\ interrupted' \in Interruption
      /\ cancelRequested => cancelRequested'
  <2> USE DEF Goes, locals, environment, Undisturbed, RunnerTypeOK, Interruption
  <2>1. CASE WaitTimesOut
    BY <2>1 DEF WaitTimesOut
  <2>2. CASE ExpirePassEnds
    BY <2>2 DEF ExpirePassEnds
  <2>3. CASE StopPassEnds
    BY <2>3 DEF StopPassEnds
  <2>4. CASE InterruptBetween
    BY <2>4 DEF InterruptBetween, HandlesInterrupt, Ended
  <2>5. CASE \E h \in Attempts : StopExecution(h)
    BY <2>5 DEF StopExecution
  <2> QED
    BY <2>1, <2>2, <2>3, <2>4, <2>5
<1>2. RecordsParts'
  BY <1>1, StandingRecords DEF records, capacityVars
<1>3. RunnerTypeOK'
  BY <1>1 DEF Undisturbed, RunnerTypeOK, CoordinatorStep, records, CapacityInv, Pending
<1>4. PositionKnows'
  <2> USE <1>1 DEF records, Undisturbed, PositionKnows, Goes, InTime, Pending, NotDispatched
  <2>1. CASE WaitTimesOut
    BY <2>1 DEF WaitTimesOut, environment, locals
  <2>2. CASE ExpirePassEnds
    BY <2>2 DEF ExpirePassEnds, environment
  <2>3. CASE StopPassEnds
    BY <2>3 DEF StopPassEnds, environment, locals
  <2>4. CASE InterruptBetween /\ interrupted' = "between"
    BY <2>4 DEF InterruptBetween, HandlesInterrupt
  <2>5. CASE \E h \in Attempts : StopExecution(h)
    BY <2>5 DEF StopExecution, environment
  <2> QED
    BY <2>1, <2>2, <2>3, <2>4, <2>5
<1>5. ReturnedRunLeavesNothing'
  BY <1>1 DEF ReturnedRunLeavesNothing
<1> QED
  BY <1>2, <1>3, <1>4, <1>5 DEF Undisturbed, RecordsParts

\* Nothing is in the queue when nothing is waited for.
LEMMA IdleQueueIsEmpty ==
    ASSUME Undisturbed, active = {}
    PROVE  queue = << >>
BY HeadIsQueued

\* The two ends of run().
LEMMA EndsKeep ==
    ASSUME Undisturbed, CapacityInv', DrainEnds \/ Finish
    PROVE  Undisturbed'
<1> USE DEF Undisturbed
<1>1. /\ UNCHANGED <<definition, task, attempt, outputs, locals, environment,
                     capacityVars, visit, todo>>
      /\ pc \in {"drain", "finish"} /\ pc' \in {"returned", "raised"}
      /\ active = {}
      /\ failed => run' = run
      /\ run = "FAILED" <=> failed
      /\ run \in {"RUNNING", "FAILED"}
  BY DEF DrainEnds, Finish, Goes, PositionKnows
<1>2. \A t \in Tasks : task[t] = "RUNNING" => t \in Pending
  BY <1>1 DEF TasksStand, InTime, Pending
<1>3. pc' # "raised"
  <2>1. CASE DrainEnds
    BY <1>2, <2>1 DEF DrainEnds, PositionKnows, Goes
  <2>2. CASE Finish
    BY <2>2 DEF Finish, PositionKnows, TaskTerminal, Goes
  <2> QED
    BY <2>1, <2>2
<1>4. /\ run' \in WorkflowTerminal /\ lastEvent' \in EventKind
      /\ run' = "SUCCEEDED" => \A t \in Tasks : task[t] = "SUCCEEDED"
      /\ run' = "FAILED" => \E t \in Tasks : task[t] = "FAILED"
  <2>1. failed => run = "FAILED" /\ run' = run /\ lastEvent' = lastEvent
                  /\ \E t \in Tasks : task[t] = "FAILED"
    BY <1>1 DEF VerdictStands, DrainEnds, Finish
  <2>2. ~ failed => \/ DrainEnds /\ run' = "CANCELLED" /\ lastEvent' = "ended"
                    \/ Finish /\ run' = "SUCCEEDED" /\ lastEvent' = "ended"
    BY <1>3 DEF DrainEnds, Finish, Goes
  <2>3. Finish /\ ~ failed => \A t \in Tasks : task[t] = "SUCCEEDED"
    BY DEF Finish, PositionKnows
  <2> QED
    BY <2>1, <2>2, <2>3 DEF WorkflowTerminal, EventKind, RunnerTypeOK
<1>5. ~ (failed /\ interrupted = "between") => \A t \in Tasks : task[t] \in TaskTerminal
  <2> SUFFICES ASSUME ~ (failed /\ interrupted = "between")
               PROVE  Pending = {} /\ NotDispatched = {}
    BY <1>2 DEF NotDispatched, TaskTerminal, RunnerTypeOK, TaskRunStatus
  <2>2. CASE DrainEnds
    BY <2>2 DEF DrainEnds, PositionKnows
  <2>3. CASE Finish
    BY <2>3 DEF Finish, PositionKnows, VerdictStands, NotDispatched
  <2> QED
    BY <2>2, <2>3
<1>6. RecordsParts'
  <2>1. run' = "FAILED" <=> run = "FAILED"
    BY <1>1, <1>3 DEF DrainEnds, Finish, Goes
  <2> QED
    BY <1>1, <1>3, <2>1, StandingRecords DEF locals, environment, capacityVars
<1>7. RunnerTypeOK'
  BY <1>1, <1>3, <1>4 DEF RunnerTypeOK, CoordinatorStep, locals, environment, CapacityInv,
        Pending, WorkflowTerminal, WorkflowRunStatus
<1>8. PositionKnows'
  BY <1>1, <1>3 DEF PositionKnows, locals, environment, DrainEnds, Finish, Goes
<1>9. ReturnedRunLeavesNothing'
  BY <1>1, <1>4, <1>5, IdleQueueIsEmpty
     DEF ReturnedRunLeavesNothing, locals, environment
<1> QED
  BY <1>6, <1>7, <1>8, <1>9 DEF RecordsParts

\* A request to cancel, and the end of a backoff.
LEMMA SignalsKeep ==
    ASSUME Undisturbed, CapacityInv',
           RequestCancellation \/ \E t \in Tasks : BackoffEnds(t)
    PROVE  Undisturbed'
<1> USE DEF Undisturbed
<1>1. /\ UNCHANGED <<definition, records, loops, active, timedOut, pending, failed,
                     stopped, worker, queue, interrupted, capacityVars>>
      /\ eligible' \subseteq Pending
      /\ cancelRequested' \in BOOLEAN
      /\ cancelRequested => cancelRequested'
      /\ cancelRequested' # cancelRequested => pc \notin {"returned", "raised"}
  <2>1. CASE RequestCancellation
    BY <2>1 DEF RequestCancellation, Ended, locals, RunnerTypeOK
  <2>2. CASE \E t \in Tasks : BackoffEnds(t)
    BY <2>2 DEF BackoffEnds, environment, RunnerTypeOK
  <2> QED
    BY <2>1, <2>2
<1>2. RecordsParts'
  BY <1>1, StandingRecords DEF records, loops, capacityVars
<1>3. RunnerTypeOK'
  BY <1>1 DEF RunnerTypeOK, records, loops, CapacityInv, Pending
<1>4. PositionKnows'
  BY <1>1 DEF PositionKnows, records, loops, InTime, Pending, NotDispatched, IsReady
<1>5. ReturnedRunLeavesNothing'
  BY <1>1 DEF ReturnedRunLeavesNothing, records, loops
<1> QED
  BY <1>2, <1>3, <1>4, <1>5 DEF RecordsParts

LEMMA StutterKeeps ==
    ASSUME Undisturbed, CapacityInv', UNCHANGED runnerVars
    PROVE  Undisturbed'
<1> USE DEF Undisturbed, runnerVars, records, loops, locals, environment, capacityVars
<1>1. RecordsParts'
  BY StandingRecords
<1>2. RunnerTypeOK' /\ PositionKnows' /\ ReturnedRunLeavesNothing'
  BY DEF RunnerTypeOK, CapacityInv, PositionKnows, InTime, Pending, NotDispatched,
         IsReady,
         ReturnedRunLeavesNothing
<1> QED
  BY <1>1, <1>2 DEF RecordsParts

-----------------------------------------------------------------------------
(* Workers, and the queue between them and the coordinator.                *)

\* A worker that reports puts its execution into the queue (completion.py).
LEMMA ReportIsQueued ==
    ASSUME Undisturbed, NEW h \in Attempts, NEW outcome \in Outcome, ~ Queued(h),
           queue' = Append(queue, [handle |-> h, outcome |-> outcome])
    PROVE  /\ queue' \in Seq([handle: Attempts, outcome: Outcome])
           /\ \A g \in Attempts : Queued(g)' <=> Queued(g) \/ g = h
           /\ \A i, j \in 1 .. Len(queue)' : queue'[i].handle = queue'[j].handle => i = j
<1> DEFINE R == [handle: Attempts, outcome: Outcome]
           new == [handle |-> h, outcome |-> outcome]
<1>1. queue \in Seq(R) /\ new \in R /\ new.handle = h
  BY DEF Undisturbed, RunnerTypeOK
<1> HIDE DEF R, new
<1>2. /\ queue' \in Seq(R)
      /\ Len(queue) \in Nat /\ Len(queue') = Len(queue) + 1
      /\ \A i \in 1 .. Len(queue) : queue'[i] = queue[i]
      /\ queue'[Len(queue) + 1] = new
  <2>1. queue' = Append(queue, new)
    BY DEF new
  <2> QED
    BY <1>1, <2>1, AppendProperties, LenProperties
<1>3. \A i \in 1 .. Len(queue') : i \in 1 .. Len(queue) \/ i = Len(queue) + 1
  BY <1>2
<1>4. \A i \in 1 .. Len(queue) : i \in 1 .. Len(queue') /\ queue[i].handle # h
  BY <1>2 DEF Queued
<1>5. Len(queue) + 1 \in 1 .. Len(queue')
  BY <1>2
<1>6. \A g \in Attempts : Queued(g)' <=> Queued(g) \/ g = h
  <2> TAKE g \in Attempts
  <2>1. ASSUME Queued(g)' PROVE Queued(g) \/ g = h
    <3>1. PICK i \in 1 .. Len(queue') : queue'[i].handle = g
      BY <2>1 DEF Queued
    <3>2. CASE i \in 1 .. Len(queue)
      BY <1>2, <3>1, <3>2 DEF Queued
    <3>3. CASE i = Len(queue) + 1
      BY <1>1, <1>2, <3>1, <3>3
    <3> QED
      BY <1>3, <3>2, <3>3
  <2>2. ASSUME Queued(g) PROVE Queued(g)'
    <3>1. PICK i \in 1 .. Len(queue) : queue[i].handle = g
      BY <2>2 DEF Queued
    <3> QED
      BY <1>2, <1>4, <3>1 DEF Queued
  <2>3. Queued(h)'
    BY <1>1, <1>2, <1>5 DEF Queued
  <2> QED
    BY <2>1, <2>2, <2>3
<1>7. ASSUME NEW i \in 1 .. Len(queue'), NEW j \in 1 .. Len(queue'),
             queue'[i].handle = queue'[j].handle
      PROVE  i = j
  <2>1. CASE i \in 1 .. Len(queue) /\ j \in 1 .. Len(queue)
    BY <1>2, <1>7, <2>1 DEF Undisturbed, Ownership
  <2>2. CASE ~ (i \in 1 .. Len(queue)) \/ ~ (j \in 1 .. Len(queue))
    BY <1>1, <1>2, <1>3, <1>4, <1>7, <2>2
  <2> QED
    BY <2>1, <2>2
<1> QED
  BY <1>2, <1>6, <1>7 DEF R

\* The coordinator takes the first completion, and with it the only one of
\* its execution (CompletionQueue.get).
LEMMA TakenIsGone ==
    ASSUME Undisturbed, queue # << >>, queue' = Tail(queue)
    PROVE  /\ queue' \in Seq([handle: Attempts, outcome: Outcome])
           /\ \A g \in Attempts : Queued(g)' <=> Queued(g) /\ g # Head(queue).handle
           /\ \A i, j \in 1 .. Len(queue)' : queue'[i].handle = queue'[j].handle => i = j
<1> DEFINE R == [handle: Attempts, outcome: Outcome]
<1>1. queue \in Seq(R)
  BY DEF Undisturbed, RunnerTypeOK
<1> HIDE DEF R
<1>2. /\ queue' \in Seq(R)
      /\ Len(queue) \in Nat /\ Len(queue') = Len(queue) - 1
      /\ \A i \in 1 .. Len(queue') : queue'[i] = queue[i + 1]
  BY <1>1, HeadTailProperties, LenProperties
<1>3. \A i \in 1 .. Len(queue') : i + 1 \in 1 .. Len(queue) /\ i + 1 # 1
  BY <1>2
<1>4. \A i \in 1 .. Len(queue) : i = 1 \/ (i - 1 \in 1 .. Len(queue') /\ i = (i - 1) + 1)
  BY <1>2
<1>5. \A i, j \in 1 .. Len(queue) : queue[i].handle = queue[j].handle => i = j
  BY DEF Undisturbed, Ownership
<1>6. Head(queue) = queue[1] /\ 1 \in 1 .. Len(queue)
  BY HeadIsQueued
<1>7. ASSUME NEW g \in Attempts
      PROVE  Queued(g)' <=> Queued(g) /\ g # Head(queue).handle
  <2>1. ASSUME Queued(g)' PROVE Queued(g) /\ g # Head(queue).handle
    <3>1. PICK i \in 1 .. Len(queue') : queue'[i].handle = g
      BY <2>1 DEF Queued
    <3>2. i + 1 \in 1 .. Len(queue) /\ i + 1 # 1 /\ queue[i + 1].handle = g
      BY <1>2, <1>3, <3>1
    <3> QED
      BY <1>5, <1>6, <3>2 DEF Queued
  <2>2. ASSUME Queued(g), g # Head(queue).handle PROVE Queued(g)'
    <3>1. PICK i \in 1 .. Len(queue) : queue[i].handle = g
      BY <2>2 DEF Queued
    <3>2. i - 1 \in 1 .. Len(queue') /\ queue'[i - 1] = queue[(i - 1) + 1] /\ i = (i - 1) + 1
      BY <1>2, <1>4, <1>6, <2>2, <3>1
    <3> QED
      BY <3>1, <3>2 DEF Queued
  <2> QED
    BY <2>1, <2>2
<1>8. ASSUME NEW i \in 1 .. Len(queue'), NEW j \in 1 .. Len(queue'),
             queue'[i].handle = queue'[j].handle
      PROVE  i = j
  <2>1. i + 1 = j + 1
    BY <1>2, <1>3, <1>5, <1>8
  <2> QED
    BY <2>1
<1> QED
  BY <1>2, <1>7, <1>8 DEF R

\* A worker ends, and reports.
LEMMA WorkersKeep ==
    ASSUME Undisturbed, CapacityInv', NEW h \in Attempts, Worker(h)
    PROVE  Undisturbed'
<1> USE DEF Undisturbed
<1>1. /\ UNCHANGED <<definition, records, loops, locals, cancelRequested, interrupted,
                     capacityVars>>
      /\ worker[h] \in {"running", "freed"} /\ worker'[h] \in {"freed", "reported"}
      /\ worker' = [worker EXCEPT ![h] = worker'[h]]
  BY DEF Worker, WorkerFreesSlot, WorkerReports, RunnerTypeOK
<1>2. /\ queue' \in Seq([handle: Attempts, outcome: Outcome])
      /\ \A g \in Attempts : Queued(g)' <=> Queued(g) \/ (g = h /\ worker'[h] = "reported")
      /\ \A i, j \in 1 .. Len(queue)' : queue'[i].handle = queue'[j].handle => i = j
  <2>1. CASE WorkerFreesSlot(h)
    <3>1. worker'[h] = "freed" /\ queue' = queue
      BY <2>1 DEF WorkerFreesSlot, RunnerTypeOK
    <3> QED
      BY <3>1 DEF RunnerTypeOK, Ownership, Queued
  <2>2. CASE WorkerReports(h)
    <3>1. worker'[h] = "reported" /\ ~ Queued(h)
      BY <2>2 DEF WorkerReports, RunnerTypeOK, Ownership
    <3>2. PICK outcome \in Outcome :
             queue' = Append(queue, [handle |-> h, outcome |-> outcome])
      BY <2>2 DEF WorkerReports
    <3> QED
      BY <3>1, <3>2, ReportIsQueued
  <2>3. WorkerFreesSlot(h) \/ WorkerReports(h)
    BY DEF Worker
  <2> QED
    BY <2>1, <2>2, <2>3
<1>3. h \in active
  BY <1>1 DEF Ownership
<1>4. Ownership'
  <2>1. leaseOf' = leaseOf /\ active' = active /\ attempt' = attempt
    BY <1>1 DEF records, locals, capacityVars
  <2>2. \A g \in Attempts \ {h} : worker'[g] = worker[g] /\ (Queued(g)' <=> Queued(g))
    BY <1>1, <1>2 DEF RunnerTypeOK
  <2>3. \A g \in Attempts : leaseOf'[g] = IF g \in active' THEN Executor ELSE NoExecutor
    BY <2>1 DEF Ownership
  <2>4. ~ Queued(h)
    BY <1>1 DEF Ownership
  <2>5. Queued(h)' <=> worker'[h] = "reported"
    BY <1>2, <2>4
  <2>6. \A g \in Attempts :
           g \in active' <=> worker'[g] \in {"running", "freed"} \/ Queued(g)'
    <3> TAKE g \in Attempts
    <3>1. CASE g = h
      BY <3>1, <1>1, <1>3, <2>1, <2>5
    <3>2. CASE g # h
      BY <3>2, <2>1, <2>2 DEF Ownership
    <3> QED
      BY <3>1, <3>2
  <2>7. \A g \in Attempts : Queued(g)' => worker'[g] = "reported"
    BY <2>2, <2>5 DEF Ownership
  <2>8. \A g \in Attempts : worker'[g] = "idle" <=> attempt'[g] = Absent
    BY <1>1, <2>1, <2>2 DEF Ownership
  <2>9. \A f, g \in active' : TaskOf(f) = TaskOf(g) => f = g
    BY <2>1 DEF Ownership
  <2> QED
    BY <1>2, <2>3, <2>6, <2>7, <2>8, <2>9 DEF Ownership
<1>5. InTimeIsLast' /\ PendingIsNext' /\ AttemptsInOrder' /\ TaskFollowsAttempts'
  BY <1>1 DEF InTimeIsLast, PendingIsNext, AttemptsInOrder, TaskFollowsAttempts, InTime,
              records, locals
<1>6. TasksStand' /\ VerdictStands' /\ PositionKnows'
  BY <1>1 DEF TasksStand, VerdictStands, PositionKnows, InTime, NotDispatched, Pending,
              IsReady, records, locals, loops
<1>7. RunnerTypeOK'
  BY <1>1, <1>2 DEF RunnerTypeOK, records, loops, locals, CapacityInv, Pending
<1>8. ReturnedRunLeavesNothing'
  BY <1>1, <1>3 DEF ReturnedRunLeavesNothing, loops, locals
<1> QED
  BY <1>4, <1>5, <1>6, <1>7, <1>8

-----------------------------------------------------------------------------
(* How an attempt settles.                                                 *)

\* What a completion, a timeout and a drain have in common: the attempt gets
\* its status, and its task the same one or a retry; of the other tasks some
\* that were never dispatched may be skipped.
SettlesAs(h, status) ==
    /\ attempt' = [attempt EXCEPT ![h] = status]
    /\ task' \in [Tasks -> TaskRunStatus]
    /\ pending' \in [Tasks -> 0 .. AttemptBound]
    /\ \A u \in Tasks \ {TaskOf(h)} :
          /\ pending'[u] = pending[u]
          /\ task'[u] = task[u] \/ (u \in NotDispatched /\ task'[u] = "SKIPPED")
    /\ \/ task'[TaskOf(h)] = status /\ pending'[TaskOf(h)] = 0
       \/ /\ status = "FAILED" /\ task'[TaskOf(h)] = task[TaskOf(h)]
          /\ pending'[TaskOf(h)] = h[2] + 1

\* The attempt and its task get the same status.
LEMMA SettlingSettles ==
    ASSUME Undisturbed, NEW h \in InTime, NEW status \in AttemptTerminal,
           Settles(h, status), UNCHANGED pending
    PROVE  SettlesAs(h, status)
<1>1. h \in Attempts /\ TaskOf(h) \in Tasks /\ pending[TaskOf(h)] = 0
  BY AttemptIsPair DEF Undisturbed, RunnerTypeOK, InTime, InTimeIsLast
<1>2. status \in TaskRunStatus
  BY DEF AttemptTerminal, TaskRunStatus
<1> QED
  BY <1>1, <1>2 DEF Settles, SettlesAs, Undisturbed, RunnerTypeOK

\* A failure settles the attempt as FAILED, and either schedules the next
\* attempt that the policy allows, or fails the task and with it, unless it
\* has failed before or is being cancelled, the run.
LEMMA FailingSettles ==
    ASSUME Undisturbed, NEW h \in InTime, NEW outcome, FailsOrRetries(h, outcome)
    PROVE  /\ SettlesAs(h, "FAILED") /\ outputs' = outputs
           /\ run' \in {run, "FAILED"} /\ lastEvent' \in EventKind
           /\ run' = "FAILED" /\ run # "FAILED" =>
                 /\ \A t \in Tasks : task'[t] \notin {"PENDING", "READY"}
                 /\ task'[TaskOf(h)] = "FAILED"
           /\ run' # "FAILED" => task' = task
<1> USE DEF Undisturbed, RunnerTypeOK
<1>1. h \in Attempts /\ TaskOf(h) \in Tasks /\ h[2] \in 1 .. AttemptBound
      /\ pending[TaskOf(h)] = 0 /\ task[TaskOf(h)] = "RUNNING"
  BY AttemptIsPair DEF InTime, InTimeIsLast
<1>2. CASE run = "FAILED" /\ SettlesSibling(h, "FAILED")
  <2>1. SettlesAs(h, "FAILED")
    BY <1>2, SettlingSettles DEF SettlesSibling, AttemptTerminal
  <2> QED
    BY <1>2, <2>1 DEF SettlesSibling, VerdictStands, EventKind
<1>3. CASE run # "FAILED" /\ SchedulesRetry(h) /\ ShouldRetry(TaskOf(h), h[2], outcome)
  <2>1. RunnerCore
    BY InvHasCore
  <2>2. pending' \in [Tasks -> 0 .. AttemptBound]
    BY <1>1, <2>1, RetriesAreAttempts
  <2>3. SettlesAs(h, "FAILED")
    BY <1>1, <1>3, <2>2 DEF SchedulesRetry, SettlesAs
  <2> QED
    BY <1>3, <2>3 DEF SchedulesRetry, EventKind
<1>4. CASE run # "FAILED" /\ FailsWorkflow(h)
  <2>1. task' \in [Tasks -> TaskRunStatus]
    BY <1>4 DEF FailsWorkflow, TaskRunStatus
  <2>2. \A u \in Tasks : task'[u] = IF u = TaskOf(h) THEN "FAILED"
                                    ELSE IF u \in NotDispatched THEN "SKIPPED" ELSE task[u]
    BY <1>4 DEF FailsWorkflow
  <2>3. SettlesAs(h, "FAILED")
    BY <1>1, <1>4, <2>1, <2>2 DEF FailsWorkflow, SettlesAs
  <2>4. \A t \in Tasks : task'[t] \notin {"PENDING", "READY"}
    BY <2>2 DEF NotDispatched
  <2> QED
    BY <1>1, <1>4, <2>2, <2>3, <2>4 DEF FailsWorkflow, WorkflowRunStatus, EventKind
<1> QED
  BY <1>2, <1>3, <1>4 DEF FailsOrRetries

\* However it settles, the records go on fitting together.
LEMMA SettlingKeepsRecords ==
    ASSUME Undisturbed, NEW h \in InTime, NEW status \in AttemptTerminal,
           SettlesAs(h, status), InTime' = InTime \ {h}, UNCHANGED definition
    PROVE  /\ InTimeIsLast' /\ PendingIsNext' /\ AttemptsInOrder' /\ TaskFollowsAttempts'
           /\ \A t \in Tasks : task'[t] = "RUNNING" =>
                 pending'[t] # 0 \/ \E g \in InTime' : TaskOf(g) = t
           /\ \A t \in Tasks : task'[t] \in {"READY", "RUNNING"} =>
                 \A u \in definition'.upstream[t] : task'[u] = "SUCCEEDED"
<1> USE DEF Undisturbed
<1> DEFINE t == TaskOf(h)
           n == h[2]
<1>1. /\ h \in Attempts /\ t \in Tasks /\ n \in 1 .. AttemptBound /\ h = <<t, n>>
      /\ task[t] = "RUNNING" /\ pending[t] = 0 /\ attempt[h] = "RUNNING"
      /\ \A m \in 1 .. AttemptBound : n < m => attempt[<<t, m>>] = Absent
  BY AttemptIsPair DEF InTime, InTimeIsLast, RunnerTypeOK
<1>2. /\ status # "RUNNING" /\ status # Absent /\ status \notin {"PENDING", "READY"}
      /\ "RUNNING" # Absent
  BY DEF AttemptTerminal, Absent
<1> HIDE DEF t, n
<1>3. /\ attempt' = [attempt EXCEPT ![h] = status]
      /\ attempt' \in [Attempts -> TaskAttemptStatus \cup {Absent}]
      /\ attempt'[h] = status
      /\ \A g \in Attempts : g # h => attempt'[g] = attempt[g]
      /\ \A g \in Attempts : attempt'[g] = Absent <=> attempt[g] = Absent
  BY <1>1, <1>2 DEF SettlesAs, RunnerTypeOK, AttemptTerminal, TaskAttemptStatus
<1>4. /\ \A u \in Tasks : u # t => /\ pending'[u] = pending[u]
                                   /\ \/ task'[u] = task[u]
                                      \/ task[u] \in {"PENDING", "READY"}
                                         /\ task'[u] = "SKIPPED"
      /\ \/ task'[t] = status /\ pending'[t] = 0
         \/ status = "FAILED" /\ task'[t] = "RUNNING" /\ pending'[t] = n + 1
  BY <1>1 DEF SettlesAs, NotDispatched, t, n
<1>5. \A g \in InTime' : g \in InTime /\ g \in Attempts /\ TaskOf(g) \in Tasks /\ TaskOf(g) # t
  BY <1>1, AttemptIsPair DEF InTime, Ownership, RunnerTypeOK, t
<1>6. InTimeIsLast'
  <2>1. \A g \in Attempts : attempt'[g] = "RUNNING" <=> g \in InTime'
    BY <1>1, <1>2, <1>3 DEF InTimeIsLast
  <2>2. ASSUME NEW g \in InTime'
        PROVE  /\ task'[TaskOf(g)] = "RUNNING" /\ pending'[TaskOf(g)] = 0
               /\ \A m \in 1 .. AttemptBound :
                     g[2] < m => attempt'[<<TaskOf(g), m>>] = Absent
    BY <1>3, <1>4, <1>5, AttemptIsPair DEF InTimeIsLast
  <2> QED
    BY <2>1, <2>2 DEF InTimeIsLast
<1>7. PendingIsNext'
  <2> SUFFICES ASSUME NEW u \in Tasks, pending'[u] # 0
               PROVE  /\ task'[u] = "RUNNING"
                      /\ \A m \in 1 .. AttemptBound :
                            attempt'[<<u, m>>] # Absent <=> m < pending'[u]
    BY DEF PendingIsNext
  <2>1. CASE u # t
    BY <1>3, <1>4, <2>1, AttemptIsPair DEF PendingIsNext
  <2>2. CASE u = t
    <3>1. task'[t] = "RUNNING" /\ pending'[t] = n + 1
      BY <1>4, <2>2
    <3>2. ASSUME NEW m \in 1 .. AttemptBound
          PROVE  attempt'[<<t, m>>] # Absent <=> m < n + 1
      <4>1. n < m => attempt[<<t, m>>] = Absent
        BY <1>1
      <4>2. m < n => attempt[<<t, m>>] # Absent
        BY <1>1, <1>2 DEF AttemptsInOrder
      <4>3. m = n => attempt[<<t, m>>] # Absent
        BY <1>1, <1>2
      <4>4. m < n + 1 <=> m < n \/ m = n
        BY <1>1
      <4>5. <<t, m>> \in Attempts /\ (m < n \/ m = n \/ n < m)
        BY <1>1, AttemptIsPair
      <4> QED
        BY <1>1, <1>3, <4>1, <4>2, <4>3, <4>4, <4>5
    <3> QED
      BY <2>2, <3>1, <3>2
  <2> QED
    BY <2>1, <2>2
<1>8. AttemptsInOrder'
  <2>1. ASSUME NEW u \in Tasks, NEW m \in 1 .. AttemptBound, task'[u] \in {"PENDING", "READY"}
        PROVE  attempt'[<<u, m>>] = Absent
    BY <1>2, <1>3, <1>4, <2>1, AttemptIsPair DEF AttemptsInOrder
  <2> QED
    BY <1>3, <2>1, AttemptIsPair DEF AttemptsInOrder
<1>9. TaskFollowsAttempts'
  <2> SUFFICES ASSUME NEW u \in Tasks, NEW m \in 1 .. AttemptBound,
                      attempt'[<<u, m>>] # Absent,
                      m < AttemptBound => attempt'[<<u, m + 1>>] = Absent,
                      task'[u] \in {"SUCCEEDED", "FAILED"}
               PROVE  attempt'[<<u, m>>] = task'[u]
    BY DEF TaskFollowsAttempts
  <2>1. AttemptBound \in Nat \ {0} /\ (m < AttemptBound => m + 1 \in 1 .. AttemptBound)
    BY AttemptsAreNumbered
  <2>2. <<u, m>> \in Attempts /\ (m < AttemptBound => <<u, m + 1>> \in Attempts)
    BY <2>1, AttemptIsPair
  <2>3. CASE u # t
    <3>1. task'[u] = task[u]
      BY <1>4, <2>3
    <3>2. <<u, m>> # h
      BY <1>1, <2>3
    <3>3. m < AttemptBound => attempt[<<u, m + 1>>] = Absent
      BY <1>3, <2>2
    <3> QED
      BY <1>3, <2>2, <3>1, <3>2, <3>3 DEF TaskFollowsAttempts
  <2>4. CASE u = t
    <3>1. task'[t] = status
      BY <1>4, <2>4
    <3>2. ~ (n < m)
      BY <1>1, <1>3, <2>2, <2>4
    <3>3. ~ (m < n)
      <4> SUFFICES ASSUME m < n PROVE FALSE
        OBVIOUS
      <4>1. m < AttemptBound /\ m + 1 \in 1 .. AttemptBound /\ (m + 1 = n \/ m + 1 < n)
        BY <1>1, <2>1
      <4>2. attempt[<<t, m + 1>>] # Absent
        BY <1>1, <1>2, <4>1 DEF AttemptsInOrder
      <4> QED
        BY <1>3, <2>2, <2>4, <4>1, <4>2
    <3> QED
      BY <1>1, <1>3, <2>4, <3>1, <3>2, <3>3
  <2> QED
    BY <2>3, <2>4
<1>10. ASSUME NEW u \in Tasks, task'[u] = "RUNNING"
       PROVE  pending'[u] # 0 \/ \E g \in InTime' : TaskOf(g) = u
  <2>1. CASE u = t
    <3>1. pending'[t] = n + 1
      BY <1>2, <1>4, <1>10, <2>1
    <3> QED
      BY <1>1, <2>1, <3>1
  <2>2. CASE u # t
    <3>1. task[u] = "RUNNING" /\ pending'[u] = pending[u]
      BY <1>4, <1>10, <2>2
    <3>2. pending[u] # 0 \/ \E g \in InTime : TaskOf(g) = u
      BY <3>1 DEF TasksStand
    <3>3. TaskOf(h) = t
      BY DEF t
    <3> QED
      BY <2>2, <3>1, <3>2, <3>3
  <2> QED
    BY <2>1, <2>2
<1>11. ASSUME NEW u \in Tasks, task'[u] \in {"READY", "RUNNING"},
              NEW v \in definition'.upstream[u]
       PROVE  task'[v] = "SUCCEEDED"
  <2>1. task[u] \in {"READY", "RUNNING"}
    BY <1>1, <1>4, <1>11
  <2>2. v \in definition.upstream[u] /\ task[v] = "SUCCEEDED"
    BY <1>11, <2>1 DEF TasksStand
  <2>3. v \in Tasks
    BY <2>2, DefinitionsType DEF RunnerTypeOK
  <2> QED
    BY <1>1, <1>4, <2>2, <2>3
<1> QED
  BY <1>6, <1>7, <1>8, <1>9, <1>10, <1>11

\* What a timeout or a completion that counts makes of the verdict of the run.
Settlement(h) ==
    /\ \E status \in AttemptTerminal : SettlesAs(h, status)
    /\ run' \in {run, "FAILED"} /\ lastEvent' \in EventKind
    /\ outputs' \subseteq Tasks /\ outputs \subseteq outputs'
    /\ run' = "FAILED" /\ run # "FAILED" =>
          /\ \A t \in Tasks : task'[t] \notin {"PENDING", "READY"}
          /\ \E t \in Tasks : task'[t] = "FAILED"
    /\ run' # "FAILED" /\ ~ cancelRequested =>
          \A t \in Tasks : task'[t] = task[t] \/ task'[t] = "SUCCEEDED"
    /\ ~ cancelRequested =>
          \A t \in Tasks : task'[t] = "SUCCEEDED" => task[t] = "SUCCEEDED" \/ t \in outputs'

\* A failed attempt, timed out or reported, is such a settlement.
LEMMA FailureIsSettlement ==
    ASSUME Undisturbed, NEW h \in InTime, NEW outcome, FailsOrRetries(h, outcome)
    PROVE  Settlement(h) /\ outputs' = outputs
<1>1. /\ SettlesAs(h, "FAILED") /\ outputs' = outputs
      /\ run' \in {run, "FAILED"} /\ lastEvent' \in EventKind
      /\ run' = "FAILED" /\ run # "FAILED" =>
            /\ \A t \in Tasks : task'[t] \notin {"PENDING", "READY"}
            /\ task'[TaskOf(h)] = "FAILED"
      /\ run' # "FAILED" => task' = task
  BY FailingSettles
<1>2. h \in Attempts /\ TaskOf(h) \in Tasks
  BY AttemptIsPair DEF Undisturbed, RunnerTypeOK, InTime
<1>3. \A t \in Tasks : task'[t] = "SUCCEEDED" => task[t] = "SUCCEEDED"
  BY <1>1 DEF SettlesAs
<1>4. outputs \subseteq Tasks /\ "FAILED" \in AttemptTerminal
  BY DEF Undisturbed, RunnerTypeOK, AttemptTerminal
<1> QED
  BY <1>1, <1>2, <1>3, <1>4 DEF Settlement

\* And so is every completion of an attempt that has not timed out.
LEMMA CompletionIsSettlement ==
    ASSUME Undisturbed, NEW h \in InTime, NEW outcome \in Outcome,
           AppliesCompletion(h, outcome)
    PROVE  Settlement(h)
<1> USE DEF Undisturbed, RunnerTypeOK
<1>1. h \in Attempts /\ TaskOf(h) \in Tasks /\ h \notin timedOut
  BY AttemptIsPair DEF InTime
<1>2. ASSUME cancelRequested /\ ~ failed, NEW status \in {"SUCCEEDED", "FAILED"},
             SettlesSibling(h, status)
      PROVE  Settlement(h)
  <2>1. SettlesAs(h, status) /\ status \in AttemptTerminal
    BY <1>2, SettlingSettles DEF SettlesSibling, AttemptTerminal
  <2> QED
    BY <1>2, <2>1 DEF SettlesSibling, Settlement, EventKind
<1>3. ASSUME Succeeds(h) PROVE Settlement(h)
  <2>1. SettlesAs(h, "SUCCEEDED") /\ "SUCCEEDED" \in AttemptTerminal
    BY <1>3, SettlingSettles DEF Succeeds, AttemptTerminal
  <2>2. /\ run' = run /\ lastEvent' = "task"
        /\ outputs' = outputs \cup {TaskOf(h)}
        /\ task' = [task EXCEPT ![TaskOf(h)] = "SUCCEEDED"]
    BY <1>3 DEF Succeeds, Settles
  <2>3. \A t \in Tasks : task'[t] = task[t] \/ (task'[t] = "SUCCEEDED" /\ t \in outputs')
    BY <1>1, <2>2
  <2> QED
    BY <1>1, <2>1, <2>2, <2>3 DEF Settlement, EventKind
<1> QED
  BY <1>1, <1>2, <1>3, FailureIsSettlement DEF AppliesCompletion

\* The records after a settlement.
LEMMA SettlementKeepsRecords ==
    ASSUME Undisturbed, NEW h \in InTime, Settlement(h), InTime' = InTime \ {h},
           UNCHANGED <<definition, cancelRequested>>, pc \notin {"drain", "returned"}
    PROVE  /\ InTimeIsLast' /\ PendingIsNext' /\ AttemptsInOrder' /\ TaskFollowsAttempts'
           /\ TasksStand' /\ VerdictStands'
           /\ task' \in [Tasks -> TaskRunStatus]
           /\ attempt' \in [Attempts -> TaskAttemptStatus \cup {Absent}]
           /\ pending' \in [Tasks -> 0 .. AttemptBound]
           /\ \A g \in Attempts : attempt'[g] = Absent <=> attempt[g] = Absent
           /\ \A t \in Tasks : pending[t] # 0 => pending'[t] # 0
<1> USE DEF Undisturbed
<1>1. PICK status \in AttemptTerminal : SettlesAs(h, status)
  BY DEF Settlement
<1>2. /\ h \in Attempts /\ TaskOf(h) \in Tasks
      /\ task[TaskOf(h)] = "RUNNING" /\ pending[TaskOf(h)] = 0 /\ attempt[h] = "RUNNING"
  BY AttemptIsPair DEF InTime, InTimeIsLast, RunnerTypeOK
<1>3. /\ InTimeIsLast' /\ PendingIsNext' /\ AttemptsInOrder' /\ TaskFollowsAttempts'
      /\ \A t \in Tasks : task'[t] = "RUNNING" =>
            pending'[t] # 0 \/ \E g \in InTime' : TaskOf(g) = t
      /\ \A t \in Tasks : task'[t] \in {"READY", "RUNNING"} =>
            \A u \in definition'.upstream[t] : task'[u] = "SUCCEEDED"
  BY <1>1, SettlingKeepsRecords
<1>4. TasksStand'
  <2>1. ~ cancelRequested => \A t \in Tasks : task'[t] = "SUCCEEDED" => t \in outputs'
    BY DEF Settlement, TasksStand
  <2> QED
    BY <1>3, <2>1 DEF TasksStand
<1>5. VerdictStands'
  <2>1. ASSUME run' = "FAILED"
        PROVE  /\ \A t \in Tasks : task'[t] \notin {"PENDING", "READY"}
               /\ \E t \in Tasks : task'[t] = "FAILED"
    <3>1. CASE run = "FAILED"
      <4>1. PICK t \in Tasks : task[t] = "FAILED"
        BY <3>1 DEF VerdictStands
      <4>2. t # TaskOf(h) /\ t \notin NotDispatched /\ task'[t] = "FAILED"
        BY <1>1, <1>2, <4>1 DEF SettlesAs, NotDispatched
      <4>3. \A u \in Tasks : task[u] \notin {"PENDING", "READY"}
        BY <3>1 DEF VerdictStands, NotDispatched
      <4>4. \A u \in Tasks : task'[u] \notin {"PENDING", "READY"}
        BY <1>1, <1>2, <4>3 DEF SettlesAs, AttemptTerminal
      <4> QED
        BY <2>1, <4>2, <4>4 DEF Settlement
    <3>2. CASE run # "FAILED"
      BY <2>1, <3>2 DEF Settlement
    <3> QED
      BY <3>1, <3>2
  <2>2. ASSUME run' # "FAILED", ~ cancelRequested
        PROVE  \A t \in Tasks : task'[t] \in {"PENDING", "READY", "RUNNING", "SUCCEEDED"}
    BY <2>2 DEF Settlement, VerdictStands
  <2> QED
    BY <2>1, <2>2 DEF VerdictStands, NotDispatched
<1>6. /\ task' \in [Tasks -> TaskRunStatus] /\ pending' \in [Tasks -> 0 .. AttemptBound]
      /\ attempt' \in [Attempts -> TaskAttemptStatus \cup {Absent}]
      /\ \A g \in Attempts : attempt'[g] = Absent <=> attempt[g] = Absent
  BY <1>1, <1>2 DEF SettlesAs, RunnerTypeOK, AttemptTerminal, TaskAttemptStatus, Absent
<1>7. \A t \in Tasks : pending[t] # 0 => pending'[t] # 0
  BY <1>1, <1>2 DEF SettlesAs
<1> QED
  BY <1>3, <1>4, <1>5, <1>6, <1>7

-----------------------------------------------------------------------------
(* Deadlines and completions.                                              *)

\* An execution is declared timed out: the coordinator goes on waiting for it.
LEMMA ExpireKeeps ==
    ASSUME Undisturbed, CapacityInv', NEW h \in Attempts, Expire(h)
    PROVE  Undisturbed'
<1> USE DEF Undisturbed
<1>1. h \in InTime /\ visit \subseteq InTime
  BY DEF Expire, PositionKnows
<1>2. /\ UNCHANGED <<definition, active, eligible, failed, stopped, environment, capacityVars,
                     pc, todo>>
      /\ timedOut' = timedOut \cup {h} /\ visit' = visit \ {h} /\ pc = "expire"
  BY DEF Expire
<1>3. InTime' = InTime \ {h}
  BY <1>2 DEF InTime
<1>4. Settlement(h) /\ outputs' = outputs
  BY <1>1, FailureIsSettlement DEF Expire
<1>5. /\ InTimeIsLast' /\ PendingIsNext' /\ AttemptsInOrder' /\ TaskFollowsAttempts'
      /\ TasksStand' /\ VerdictStands'
      /\ task' \in [Tasks -> TaskRunStatus]
      /\ attempt' \in [Attempts -> TaskAttemptStatus \cup {Absent}]
      /\ pending' \in [Tasks -> 0 .. AttemptBound]
      /\ \A g \in Attempts : attempt'[g] = Absent <=> attempt[g] = Absent
      /\ \A t \in Tasks : pending[t] # 0 => pending'[t] # 0
  BY <1>1, <1>2, <1>3, <1>4, SettlementKeepsRecords DEF environment
<1>6. Ownership'
  BY <1>2, <1>5 DEF Ownership, Queued, environment, capacityVars
<1>7. RunnerTypeOK'
  BY <1>1, <1>2, <1>4, <1>5
     DEF RunnerTypeOK, Settlement, environment, WorkflowRunStatus, CapacityInv,
         Pending, InTime
<1>8. PositionKnows'
  BY <1>1, <1>2, <1>3, <1>4 DEF PositionKnows, Settlement, environment
<1>9. ReturnedRunLeavesNothing'
  BY <1>2 DEF ReturnedRunLeavesNothing
<1> QED
  BY <1>5, <1>6, <1>7, <1>8, <1>9

\* The completion of an execution may always be taken: it is one the
\* coordinator waits for, and what is still in time is RUNNING.
LEMMA CompletionsAreLegal ==
    ASSUME Undisturbed, queue # << >>
    PROVE  Head(queue).handle \in active /\ CompletionLegal(Head(queue).handle)
<1> DEFINE h == Head(queue).handle
<1>1. h \in active /\ h \in Attempts
  BY HeadIsQueued
<1>2. h \notin timedOut => attempt[h] = "RUNNING" /\ task[TaskOf(h)] = "RUNNING"
  BY <1>1 DEF Undisturbed, InTimeIsLast, InTime
<1> QED
  BY <1>1, <1>2 DEF CompletionLegal, AttemptAllowedFrom, TaskMovable, TaskAllowedFrom

\* An execution that is let go is with nobody any more (capacity.py release).
LEMMA LettingGoKeepsOwnership ==
    ASSUME Undisturbed, queue # << >>, LetsGo(Head(queue).handle), UNCHANGED worker,
           \A g \in Attempts : attempt'[g] = Absent <=> attempt[g] = Absent
    PROVE  Ownership' /\ queue' \in Seq([handle: Attempts, outcome: Outcome])
<1> DEFINE h == Head(queue).handle
<1> USE DEF Undisturbed
<1>1. h \in Attempts /\ Queued(h) /\ h \in active
  BY HeadIsQueued
<1>2. /\ active' = active \ {h} /\ leaseOf' = [leaseOf EXCEPT ![h] = NoExecutor]
      /\ queue' = Tail(queue)
  BY DEF LetsGo, Release
<1>3. /\ queue' \in Seq([handle: Attempts, outcome: Outcome])
      /\ \A g \in Attempts : Queued(g)' <=> Queued(g) /\ g # h
      /\ \A i, j \in 1 .. Len(queue)' : queue'[i].handle = queue'[j].handle => i = j
  BY <1>2, TakenIsGone
<1> HIDE DEF h
<1>4. worker[h] = "reported"
  BY <1>1 DEF Ownership
<1>5. leaseOf \in [Attempts -> ExecutorKeys \cup {NoExecutor}]
  BY DEF RunnerTypeOK, CapacityInv, CapacityTypeOK
<1>6. \A g \in Attempts : leaseOf'[g] = IF g \in active' THEN Executor ELSE NoExecutor
  BY <1>1, <1>2, <1>5 DEF Ownership
<1>7. \A g \in Attempts : g \in active' <=> worker'[g] \in {"running", "freed"} \/ Queued(g)'
  BY <1>2, <1>3, <1>4 DEF Ownership
<1> QED
  BY <1>2, <1>3, <1>6, <1>7 DEF Ownership

\* A completion that the coordinator waits for (_handle_completion).
LEMMA TakeCompletionKeeps ==
    ASSUME Undisturbed, CapacityInv', TakeCompletion
    PROVE  Undisturbed'
<1> USE DEF Undisturbed
<1> DEFINE h == Head(queue).handle
<1>1. queue # << >> /\ pc = "wait" /\ visit = {}
  BY DEF TakeCompletion, PositionKnows
<1>2. h \in active /\ CompletionLegal(h) /\ h \in Attempts /\ Head(queue).outcome \in Outcome
  BY <1>1, CompletionsAreLegal, HeadIsQueued
<1>3. /\ LetsGo(h) /\ timedOut' = timedOut \ {h} /\ active' = active \ {h}
      /\ AppliesCompletion(h, Head(queue).outcome)
      /\ pc' = "top" /\ UNCHANGED <<todo, visit>> /\ failed' = (run' = "FAILED")
      /\ UNCHANGED <<definition, eligible, stopped, worker, cancelRequested, interrupted>>
  BY <1>2 DEF TakeCompletion, LetsGo, Goes
<1> HIDE DEF h
<1>4. /\ InTimeIsLast' /\ PendingIsNext' /\ AttemptsInOrder' /\ TaskFollowsAttempts'
      /\ TasksStand' /\ VerdictStands'
      /\ task' \in [Tasks -> TaskRunStatus]
      /\ attempt' \in [Attempts -> TaskAttemptStatus \cup {Absent}]
      /\ pending' \in [Tasks -> 0 .. AttemptBound]
      /\ \A g \in Attempts : attempt'[g] = Absent <=> attempt[g] = Absent
      /\ \A t \in Tasks : pending[t] # 0 => pending'[t] # 0
      /\ run' \in {run, "FAILED"} /\ lastEvent' \in EventKind
      /\ outputs' \subseteq Tasks
  <2>1. CASE h \in timedOut
    <3>1. UNCHANGED <<run, task, attempt, outputs, lastEvent, pending>>
      BY <1>3, <2>1 DEF AppliesCompletion
    <3>2. InTime' = InTime
      BY <1>3, <2>1 DEF InTime
    <3>3. InTimeIsLast' /\ PendingIsNext' /\ AttemptsInOrder' /\ TaskFollowsAttempts'
      BY <1>3, <3>1, <3>2
         DEF InTimeIsLast, PendingIsNext, AttemptsInOrder, TaskFollowsAttempts
    <3>4. TasksStand' /\ VerdictStands'
      BY <1>1, <1>3, <3>1, <3>2 DEF TasksStand, VerdictStands, NotDispatched
    <3> QED
      BY <3>1, <3>3, <3>4 DEF RunnerTypeOK
  <2>2. CASE h \notin timedOut
    <3>1. h \in InTime /\ InTime' = InTime \ {h}
      BY <1>2, <1>3, <2>2 DEF InTime
    <3>2. Settlement(h)
      BY <1>2, <1>3, <3>1, CompletionIsSettlement
    <3>3. pc \notin {"drain", "returned"}
      BY <1>1
    <3> QED
      BY <1>3, <3>1, <3>2, <3>3, SettlementKeepsRecords DEF Settlement
  <2> QED
    BY <2>1, <2>2
<1>5. Ownership' /\ queue' \in Seq([handle: Attempts, outcome: Outcome])
  BY <1>1, <1>3, <1>4, LettingGoKeepsOwnership DEF h
<1>6. RunnerTypeOK'
  BY <1>1, <1>3, <1>4, <1>5 DEF RunnerTypeOK, CapacityInv, Pending, CoordinatorStep, WorkflowRunStatus
<1>7. PositionKnows' /\ ReturnedRunLeavesNothing'
  BY <1>1, <1>3, <1>4 DEF PositionKnows, ReturnedRunLeavesNothing
<1> QED
  BY <1>4, <1>5, <1>6, <1>7

\* A completion after a cancellation, or after an interrupt of a run that has
\* failed (_finish_cancellation).
LEMMA DrainsNextKeeps ==
    ASSUME Undisturbed, CapacityInv', DrainsNext
    PROVE  Undisturbed'
<1> USE DEF Undisturbed
<1> DEFINE h == Head(queue).handle
           status == DrainedStatus(h, Head(queue).outcome)
<1>1. queue # << >> /\ pc = "drain" /\ visit = {}
  BY DEF DrainsNext, PositionKnows
<1>2. h \in active /\ CompletionLegal(h) /\ h \in Attempts
  BY <1>1, CompletionsAreLegal, HeadIsQueued
<1>3. /\ LetsGo(h) /\ timedOut' = timedOut \ {h} /\ active' = active \ {h}
      /\ IF h \in timedOut THEN UNCHANGED <<task, attempt, lastEvent>>
         ELSE Settles(h, status) /\ lastEvent' \in {lastEvent, "task"}
      /\ UNCHANGED <<pc, definition, run, outputs, todo, visit, pending, eligible, failed,
                     stopped, worker, cancelRequested, interrupted>>
  BY <1>2 DEF DrainsNext, LetsGo
<1>4. status \in AttemptTerminal
  BY DEF DrainedStatus, AttemptTerminal
<1> HIDE DEF h, status
<1>5. /\ InTimeIsLast' /\ PendingIsNext' /\ AttemptsInOrder' /\ TaskFollowsAttempts'
      /\ \A t \in Tasks : task'[t] = "RUNNING" =>
            pending'[t] # 0 \/ \E g \in InTime' : TaskOf(g) = t
      /\ \A t \in Tasks : task'[t] \in {"READY", "RUNNING"} =>
            \A u \in definition'.upstream[t] : task'[u] = "SUCCEEDED"
      /\ task' \in [Tasks -> TaskRunStatus]
      /\ attempt' \in [Attempts -> TaskAttemptStatus \cup {Absent}]
      /\ \A g \in Attempts : attempt'[g] = Absent <=> attempt[g] = Absent
      /\ \A t \in Tasks : task'[t] = task[t] \/ (task[t] = "RUNNING" /\ task'[t] = status)
  <2>1. CASE h \in timedOut
    <3>1. UNCHANGED <<task, attempt, lastEvent>> /\ InTime' = InTime
      BY <1>3, <2>1 DEF InTime
    <3>2. InTimeIsLast' /\ PendingIsNext' /\ AttemptsInOrder' /\ TaskFollowsAttempts'
      BY <1>3, <3>1
         DEF InTimeIsLast, PendingIsNext, AttemptsInOrder, TaskFollowsAttempts
    <3> QED
      BY <1>3, <3>1, <3>2 DEF TasksStand, RunnerTypeOK
  <2>2. CASE h \notin timedOut
    <3>1. h \in InTime /\ InTime' = InTime \ {h}
      BY <1>2, <1>3, <2>2 DEF InTime
    <3>2. Settles(h, status) /\ SettlesAs(h, status)
      BY <1>3, <1>4, <2>2, <3>1, SettlingSettles
    <3>3. /\ task[TaskOf(h)] = "RUNNING" /\ attempt[h] = "RUNNING" /\ TaskOf(h) \in Tasks
      BY <1>2, <3>1, AttemptIsPair DEF InTimeIsLast
    <3>4. /\ task' \in [Tasks -> TaskRunStatus]
          /\ attempt' \in [Attempts -> TaskAttemptStatus \cup {Absent}]
          /\ \A g \in Attempts : attempt'[g] = Absent <=> attempt[g] = Absent
      BY <1>2, <1>4, <3>2, <3>3
         DEF SettlesAs, RunnerTypeOK, AttemptTerminal, TaskAttemptStatus, Absent
    <3>5. \A t \in Tasks : task'[t] = task[t] \/ (task[t] = "RUNNING" /\ task'[t] = status)
      BY <3>2, <3>3 DEF Settles, RunnerTypeOK
    <3> QED
      BY <1>3, <1>4, <3>1, <3>2, <3>4, <3>5, SettlingKeepsRecords
  <2> QED
    BY <2>1, <2>2
<1>6. TasksStand'
  BY <1>1, <1>3, <1>5 DEF TasksStand
<1>7. NotDispatched' \subseteq NotDispatched
  BY <1>4, <1>5 DEF NotDispatched, AttemptTerminal
<1>8. VerdictStands'
  BY <1>1, <1>3, <1>4, <1>5, <1>7 DEF VerdictStands, PositionKnows
<1>9. Ownership' /\ queue' \in Seq([handle: Attempts, outcome: Outcome])
  BY <1>1, <1>3, <1>5, LettingGoKeepsOwnership DEF h
<1>10. RunnerTypeOK'
  BY <1>1, <1>3, <1>5, <1>9 DEF RunnerTypeOK, CapacityInv, Pending, EventKind
<1>11. PositionKnows' /\ ReturnedRunLeavesNothing'
  BY <1>1, <1>3, <1>7 DEF PositionKnows, ReturnedRunLeavesNothing, Pending
<1> QED
  BY <1>5, <1>6, <1>8, <1>9, <1>10, <1>11

-----------------------------------------------------------------------------
(* Dispatching.                                                            *)

\* The executor never refuses what the capacity manager allowed: each worker
\* at work holds a lease of that executor, whose limit is below its own.
LEMMA LeasedExecutionIsAccepted ==
    ASSUME Undisturbed, CapacityAvailable(Executor)
    PROVE  Cardinality(OccupiedSlots) < MaxConcurrency[Executor]
<1> USE DEF Undisturbed, ExecutorIsRegistered
<1>1. OccupiedSlots \subseteq LeasedOn(Executor)
  BY DEF OccupiedSlots, LeasedOn, Ownership
<1>2. IsFiniteSet(LeasedOn(Executor))
  BY ExecutorIsRegistered, LeasedOnIsLeased, FS_Subset DEF CapacityInv
<1>3. /\ Cardinality(OccupiedSlots) <= Cardinality(LeasedOn(Executor))
      /\ Cardinality(OccupiedSlots) \in Nat /\ Cardinality(LeasedOn(Executor)) \in Nat
  BY <1>1, <1>2, FS_Subset, FS_CardinalityType
<1>4. Cardinality(LeasedOn(Executor)) < ExecutorLimit(Executor)
  BY ExecutorIsRegistered DEF CapacityAvailable, CapacityInv, LeasesWithinLimits
<1>5. /\ ConfiguredLimit[Executor] \in Nat /\ MaxConcurrency[Executor] \in Nat
      /\ ExecutorLimit(Executor) <= MaxConcurrency[Executor]
      /\ ExecutorLimit(Executor) \in Nat
  BY ExecutorIsRegistered, LimitsArePositive DEF ExecutorLimit
<1> QED
  BY <1>3, <1>4, <1>5

\* The n-th attempt of a task that has had n - 1 and none of them at work.
Dispatched(t, n) ==
    /\ \A m \in 1 .. AttemptBound : attempt[<<t, m>>] # Absent <=> m < n
    /\ \A g \in active : TaskOf(g) # t
    /\ task[t] \in {"READY", "RUNNING"}
    /\ ~ cancelRequested /\ pc \notin {"drain", "returned"}
    /\ Acquire(<<t, n>>, Executor)
    /\ attempt' = [attempt EXCEPT ![<<t, n>>] = "RUNNING"]
    /\ task' = [task EXCEPT ![t] = "RUNNING"]
    /\ pending' = [pending EXCEPT ![t] = 0]
    /\ Submits(<<t, n>>) /\ pc' # "raised"
    /\ UNCHANGED <<definition, run, outputs, timedOut, failed, queue, cancelRequested,
                   interrupted>>

\* It is accepted, and the records go on fitting together.
LEMMA DispatchKeepsRecords ==
    ASSUME Undisturbed, NEW t \in Tasks, NEW n \in 1 .. AttemptBound, Dispatched(t, n)
    PROVE  /\ RecordsParts'
           /\ active' = active \cup {<<t, n>>} /\ pc' = pc
           /\ worker' \in [Attempts -> {"idle", "running", "freed", "reported"}]
           /\ task' \in [Tasks -> TaskRunStatus]
           /\ attempt' \in [Attempts -> TaskAttemptStatus \cup {Absent}]
           /\ pending' \in [Tasks -> 0 .. AttemptBound]
<1> USE DEF Undisturbed
<1> DEFINE h == <<t, n>>
<1>1. h \in Attempts /\ TaskOf(h) = t /\ h[2] = n
  BY AttemptIsPair
<1>2. attempt[h] = Absent /\ worker[h] = "idle" /\ h \notin active
  <2>1. attempt[h] = Absent
    BY DEF Dispatched
  <2> QED
    BY <1>1, <2>1 DEF Ownership
<1>3. SubmitAccepted(h)
  <2>1. definition.upstream[t] \subseteq Tasks
    BY DefinitionsType DEF RunnerTypeOK
  <2>2. definition.upstream[t] \subseteq outputs
    BY <2>1 DEF Dispatched, TasksStand
  <2>3. CapacityAvailable(Executor)
    BY DEF Dispatched, Acquire
  <2> QED
    BY <1>1, <1>2, <2>2, <2>3, LeasedExecutionIsAccepted DEF SubmitAccepted
<1>4. /\ active' = active \cup {h} /\ worker' = [worker EXCEPT ![h] = "running"]
      /\ pc' = pc
  BY <1>3 DEF Dispatched, Submits
<1>5. /\ leaseOf' = [leaseOf EXCEPT ![h] = Executor]
      /\ attempt' = [attempt EXCEPT ![h] = "RUNNING"]
      /\ task' = [task EXCEPT ![t] = "RUNNING"]
      /\ pending' = [pending EXCEPT ![t] = 0]
      /\ UNCHANGED <<definition, run, outputs, timedOut, failed, queue, cancelRequested>>
      /\ \A m \in 1 .. AttemptBound : attempt[<<t, m>>] # Absent <=> m < n
      /\ \A g \in active : TaskOf(g) # t
      /\ task[t] \in {"READY", "RUNNING"}
  BY DEF Dispatched, Acquire
<1> HIDE DEF h
<1>6. /\ worker' \in [Attempts -> {"idle", "running", "freed", "reported"}]
      /\ task' \in [Tasks -> TaskRunStatus]
      /\ attempt' \in [Attempts -> TaskAttemptStatus \cup {Absent}]
      /\ pending' \in [Tasks -> 0 .. AttemptBound]
  <2>1. 0 \in 0 .. AttemptBound
    BY AttemptsAreNumbered
  <2>2. "RUNNING" \in TaskRunStatus /\ "RUNNING" \in TaskAttemptStatus
    BY DEF TaskRunStatus, TaskAttemptStatus
  <2>3. /\ worker \in [Attempts -> {"idle", "running", "freed", "reported"}]
        /\ task \in [Tasks -> TaskRunStatus]
        /\ attempt \in [Attempts -> TaskAttemptStatus \cup {Absent}]
        /\ pending \in [Tasks -> 0 .. AttemptBound]
    BY DEF RunnerTypeOK
  <2> QED
    BY <1>1, <1>4, <1>5, <2>1, <2>2, <2>3
<1>7. InTime' = InTime \cup {h} /\ h \notin InTime
  BY <1>2, <1>4, <1>5 DEF InTime, RunnerTypeOK
<1>8. /\ \A g \in Attempts : g # h => attempt'[g] = attempt[g] /\ worker'[g] = worker[g]
                                      /\ leaseOf'[g] = leaseOf[g]
      /\ attempt'[h] = "RUNNING" /\ worker'[h] = "running" /\ leaseOf'[h] = Executor
      /\ \A u \in Tasks : u # t => task'[u] = task[u] /\ pending'[u] = pending[u]
      /\ task'[t] = "RUNNING" /\ pending'[t] = 0
  BY <1>1, <1>4, <1>5 DEF RunnerTypeOK, CapacityInv, CapacityTypeOK
<1>9. Ownership'
  <2>1. /\ \A g \in Attempts : Queued(g)' = Queued(g)
        /\ ~ Queued(h)
    BY <1>1, <1>2, <1>5 DEF Queued, Ownership
  <2>2. "RUNNING" # Absent
    BY DEF Absent
  <2>3. \A f, g \in active' : TaskOf(f) = TaskOf(g) => f = g
    BY <1>1, <1>4, <1>5 DEF Ownership
  <2>4. \A i, j \in 1 .. Len(queue)' : queue'[i].handle = queue'[j].handle => i = j
    BY <1>5 DEF Ownership
  <2> QED
    BY <1>1, <1>2, <1>4, <1>8, <2>1, <2>2, <2>3, <2>4 DEF Ownership
<1>10. InTimeIsLast'
  <2>1. \A g \in Attempts : attempt'[g] = "RUNNING" <=> g \in InTime'
    BY <1>1, <1>7, <1>8 DEF InTimeIsLast
  <2>2. ASSUME NEW g \in InTime'
        PROVE  /\ task'[TaskOf(g)] = "RUNNING" /\ pending'[TaskOf(g)] = 0
               /\ \A m \in 1 .. AttemptBound :
                     g[2] < m => attempt'[<<TaskOf(g), m>>] = Absent
    <3>1. CASE g = h
      <4>1. \A m \in 1 .. AttemptBound :
               n < m => <<t, m>> \in Attempts /\ <<t, m>> # h /\ attempt[<<t, m>>] = Absent
        BY <1>1, <1>5, AttemptIsPair DEF h
      <4> QED
        BY <1>1, <1>8, <3>1, <4>1
    <3>2. CASE g # h
      <4>1. g \in InTime /\ g \in active /\ g \in Attempts /\ TaskOf(g) # t
            /\ TaskOf(g) \in Tasks
        BY <1>5, <1>7, <3>2, AttemptIsPair DEF InTime, RunnerTypeOK
      <4>2. \A m \in 1 .. AttemptBound :
               <<TaskOf(g), m>> \in Attempts /\ <<TaskOf(g), m>> # h
        BY <1>1, <4>1, AttemptIsPair
      <4> QED
        BY <1>8, <4>1, <4>2 DEF InTimeIsLast
    <3> QED
      BY <3>1, <3>2
  <2> QED
    BY <2>1, <2>2 DEF InTimeIsLast
<1>11. \A u \in Tasks \ {t}, m \in 1 .. AttemptBound :
          <<u, m>> \in Attempts /\ attempt'[<<u, m>>] = attempt[<<u, m>>]
  <2> TAKE u \in Tasks \ {t}, m \in 1 .. AttemptBound
  <2>1. <<u, m>> \in Attempts /\ TaskOf(<<u, m>>) = u
    BY AttemptIsPair
  <2>2. <<u, m>> # h
    BY <1>1, <2>1
  <2> QED
    BY <1>8, <2>1, <2>2
<1>12. \A m \in 1 .. AttemptBound :
          /\ m # n => attempt'[<<t, m>>] = attempt[<<t, m>>]
          /\ attempt'[<<t, m>>] # Absent <=> m <= n
  <2> TAKE m \in 1 .. AttemptBound
  <2>1. <<t, m>> \in Attempts /\ (m = n <=> <<t, m>> = h)
    BY <1>1, AttemptIsPair DEF h
  <2>2. "RUNNING" # Absent
    BY DEF Absent
  <2> QED
    BY <1>5, <1>8, <2>1, <2>2
<1>13. PendingIsNext'
  BY <1>8, <1>11 DEF PendingIsNext
<1>14. AttemptsInOrder'
  <2>1. ASSUME NEW u \in Tasks, NEW k \in 1 .. AttemptBound, NEW m \in 1 .. AttemptBound,
               m < k, attempt'[<<u, k>>] # Absent
        PROVE  attempt'[<<u, m>>] # Absent
    <3>1. CASE u = t
      BY <1>12, <2>1, <3>1
    <3>2. CASE u # t
      BY <1>11, <2>1, <3>2 DEF AttemptsInOrder
    <3> QED
      BY <3>1, <3>2
  <2>2. ASSUME NEW u \in Tasks, NEW k \in 1 .. AttemptBound, task'[u] \in {"PENDING", "READY"}
        PROVE  attempt'[<<u, k>>] = Absent
    BY <1>8, <1>11, <2>2 DEF AttemptsInOrder
  <2> QED
    BY <2>1, <2>2 DEF AttemptsInOrder
<1>15. TaskFollowsAttempts'
  <2> SUFFICES ASSUME NEW u \in Tasks, NEW m \in 1 .. AttemptBound,
                      attempt'[<<u, m>>] # Absent,
                      m < AttemptBound => attempt'[<<u, m + 1>>] = Absent,
                      task'[u] \in {"SUCCEEDED", "FAILED"}
               PROVE  attempt'[<<u, m>>] = task'[u]
    BY DEF TaskFollowsAttempts
  <2>1. u # t /\ task'[u] = task[u]
    BY <1>8
  <2>2. m < AttemptBound => m + 1 \in 1 .. AttemptBound
    BY AttemptsAreNumbered
  <2>3. m < AttemptBound => attempt[<<u, m + 1>>] = Absent
    BY <1>11, <2>1, <2>2
  <2> QED
    BY <1>11, <2>1, <2>3 DEF TaskFollowsAttempts
<1>16. TasksStand'
  <2>1. \A u \in Tasks : task'[u] = "RUNNING" =>
           pending'[u] # 0 \/ \E g \in InTime' : TaskOf(g) = u
    BY <1>1, <1>7, <1>8 DEF TasksStand
  <2>2. ASSUME NEW u \in Tasks, task'[u] \in {"READY", "RUNNING"},
               NEW v \in definition'.upstream[u]
        PROVE  task'[v] = "SUCCEEDED"
    <3>1. task[u] \in {"READY", "RUNNING"} /\ v \in definition.upstream[u]
      BY <1>5, <1>8, <2>2
    <3>2. task[v] = "SUCCEEDED" /\ v \in Tasks
      BY <3>1, DefinitionsType DEF TasksStand, RunnerTypeOK
    <3> QED
      BY <1>5, <1>8, <3>2
  <2>3. \A u \in Tasks : task'[u] = "SUCCEEDED" => u \in outputs'
    BY <1>5, <1>8 DEF TasksStand, Dispatched
  <2> QED
    BY <2>1, <2>2, <2>3 DEF TasksStand
<1>17. VerdictStands'
  <2>1. NotDispatched' \subseteq NotDispatched
    BY <1>8 DEF NotDispatched
  <2>2. \A u \in Tasks : task[u] = "FAILED" => task'[u] = "FAILED"
    BY <1>5, <1>8
  <2> QED
    BY <1>5, <1>8, <2>1, <2>2 DEF VerdictStands
<1> QED
  BY <1>4, <1>6, <1>9, <1>10, <1>13, <1>14, <1>15, <1>16, <1>17 DEF RecordsParts, h

\* A due retry is the next attempt of a task whose worker has ended
\* (_dispatch_pending_retries).
LEMMA DispatchRetryKeeps ==
    ASSUME Undisturbed, CapacityInv', DispatchRetry, pc' # "raised"
    PROVE  Undisturbed'
<1> USE DEF Undisturbed
<1> DEFINE t == FirstOf(todo)
           n == pending[t]
<1>1. t \in todo /\ t \in Tasks /\ t \in eligible
  BY FirstOfIsMember DEF DispatchRetry, RunnerTypeOK
<1>2. n \in 1 .. AttemptBound
  <2>1. n \in 0 .. AttemptBound /\ n # 0
    BY <1>1 DEF RunnerTypeOK, Pending
  <2> QED
    BY <2>1, AttemptsAreNumbered
<1>3. /\ pc = "retries" /\ UNCHANGED <<visit, stopped, interrupted, lastEvent>>
      /\ todo' = todo \ {t} /\ eligible' = eligible \ {t}
      /\ UNCHANGED task
  BY DEF DispatchRetry
<1>4. Dispatched(t, n)
  <2>1. /\ task[t] = "RUNNING"
        /\ \A m \in 1 .. AttemptBound : attempt[<<t, m>>] # Absent <=> m < n
    BY <1>1, <1>2 DEF PendingIsNext
  <2>2. task' = [task EXCEPT ![t] = "RUNNING"]
    BY <1>1, <1>3, <2>1 DEF RunnerTypeOK
  <2> QED
    BY <1>3, <2>1, <2>2 DEF DispatchRetry, Dispatched, RetryOf, HasExecution
<1> HIDE DEF t, n
<1>5. /\ RecordsParts'
      /\ active' = active \cup {<<t, n>>} /\ pc' = pc
      /\ worker' \in [Attempts -> {"idle", "running", "freed", "reported"}]
      /\ task' \in [Tasks -> TaskRunStatus]
      /\ attempt' \in [Attempts -> TaskAttemptStatus \cup {Absent}]
      /\ pending' \in [Tasks -> 0 .. AttemptBound]
  BY <1>1, <1>2, <1>4, DispatchKeepsRecords
<1>6. /\ UNCHANGED <<definition, run, outputs, timedOut, failed, queue, cancelRequested>>
      /\ pending' = [pending EXCEPT ![t] = 0]
  BY <1>4 DEF Dispatched
<1>7. eligible' \subseteq Pending'
  BY <1>3, <1>5, <1>6 DEF Pending, RunnerTypeOK
<1>8. <<t, n>> \in Attempts
  BY <1>1, <1>2, AttemptIsPair
<1>9. RunnerTypeOK'
  BY <1>3, <1>5, <1>6, <1>7, <1>8 DEF RunnerTypeOK, CapacityInv
<1>10. PositionKnows' /\ ReturnedRunLeavesNothing'
  BY <1>3, <1>5, <1>6 DEF PositionKnows, ReturnedRunLeavesNothing, IsReady
<1> QED
  BY <1>5, <1>9, <1>10 DEF RecordsParts

\* The first attempt of a READY task (_dispatch_ready_tasks).
LEMMA DispatchReadyKeeps ==
    ASSUME Undisturbed, CapacityInv', DispatchReady, pc' # "raised"
    PROVE  Undisturbed'
<1> USE DEF Undisturbed
<1> DEFINE t == FirstOf(todo)
<1>1. t \in todo /\ t \in Tasks /\ task[t] = "READY" /\ 1 \in 1 .. AttemptBound
  <2>1. t \in todo /\ todo \subseteq Tasks
    BY FirstOfIsMember DEF DispatchReady, RunnerTypeOK
  <2>2. 1 \in 1 .. AttemptBound
    BY AttemptsAreNumbered
  <2> QED
    BY <2>1, <2>2 DEF DispatchReady, PositionKnows
<1>2. /\ pc = "dispatch" /\ UNCHANGED <<visit, stopped, interrupted, eligible, pending>>
      /\ todo' = todo \ {t} /\ lastEvent' = "task"
  BY DEF DispatchReady
<1>3. Dispatched(t, 1)
  <2>1. \A m \in 1 .. AttemptBound : attempt[<<t, m>>] = Absent
    BY <1>1 DEF AttemptsInOrder
  <2>2. \A m \in 1 .. AttemptBound : attempt[<<t, m>>] # Absent <=> m < 1
    BY <2>1
  <2>3. \A g \in active : TaskOf(g) # t
    <3> SUFFICES ASSUME NEW g \in active, TaskOf(g) = t PROVE FALSE
      OBVIOUS
    <3>1. g \in Attempts /\ worker[g] # "idle"
      BY DEF Ownership, RunnerTypeOK
    <3>2. attempt[g] = Absent
      BY <2>1, <3>1, AttemptIsPair
    <3> QED
      BY <3>1, <3>2 DEF Ownership
  <2>4. pending[t] = 0 /\ pending' = [pending EXCEPT ![t] = 0]
    BY <1>1, <1>2 DEF PendingIsNext, RunnerTypeOK
  <2> QED
    BY <1>1, <1>2, <2>2, <2>3, <2>4 DEF DispatchReady, Dispatched
<1> HIDE DEF t
<1>4. /\ RecordsParts'
      /\ active' = active \cup {<<t, 1>>} /\ pc' = pc
      /\ worker' \in [Attempts -> {"idle", "running", "freed", "reported"}]
      /\ task' \in [Tasks -> TaskRunStatus]
      /\ attempt' \in [Attempts -> TaskAttemptStatus \cup {Absent}]
      /\ pending' \in [Tasks -> 0 .. AttemptBound]
  BY <1>1, <1>3, DispatchKeepsRecords
<1>5. /\ UNCHANGED <<definition, run, outputs, timedOut, failed, queue, cancelRequested>>
      /\ task' = [task EXCEPT ![t] = "RUNNING"]
  BY <1>3 DEF Dispatched
<1>6. <<t, 1>> \in Attempts
  BY <1>1, AttemptIsPair
<1>7. RunnerTypeOK'
  BY <1>2, <1>4, <1>5, <1>6 DEF RunnerTypeOK, CapacityInv, Pending, EventKind
<1>8. /\ \A u \in Tasks : u # t => task'[u] = task[u]
      /\ task'[t] = "RUNNING"
  BY <1>1, <1>5 DEF RunnerTypeOK
<1>9. \A u \in Tasks : IsReady(u)' => IsReady(u)
  <2> SUFFICES ASSUME NEW u \in Tasks, IsReady(u)' PROVE IsReady(u)
    OBVIOUS
  <2>1. definition.upstream[u] \subseteq Tasks /\ definition' = definition
    BY <1>5, DefinitionsType DEF RunnerTypeOK
  <2>2. task'[u] = "PENDING" /\ \A v \in definition.upstream[u] : task'[v] = "SUCCEEDED"
    BY <2>1 DEF IsReady
  <2> QED
    BY <1>8, <2>1, <2>2 DEF IsReady
<1>10. PositionKnows' /\ ReturnedRunLeavesNothing'
  BY <1>2, <1>4, <1>5, <1>8, <1>9 DEF PositionKnows, ReturnedRunLeavesNothing
<1> QED
  BY <1>4, <1>7, <1>10 DEF RecordsParts

\* The head of the loop marks READY what has become ready.
LEMMA TopMarksReadyKeeps ==
    ASSUME Undisturbed, CapacityInv', TopMarksReady
    PROVE  Undisturbed'
<1> USE DEF Undisturbed
<1>1. /\ UNCHANGED <<definition, run, attempt, outputs, locals, environment,
                     capacityVars, visit>>
      /\ pc = "top" /\ pc' = "retries" /\ todo' = Pending /\ visit = {}
      /\ lastEvent' \in {lastEvent, "task"}
      /\ \A t \in Tasks : task'[t] = IF IsReady(t) /\ ~ failed THEN "READY" ELSE task[t]
      /\ task' \in [Tasks -> TaskRunStatus]
  BY DEF TopMarksReady, PositionKnows, RunnerTypeOK, TaskRunStatus
<1>2. InTime' = InTime /\ \A h \in Attempts : Queued(h)' = Queued(h)
  BY <1>1 DEF InTime, Queued, locals, environment
<1>3. \A t \in Tasks : \/ task'[t] = task[t]
                       \/ task[t] = "PENDING" /\ task'[t] = "READY" /\ IsReady(t) /\ ~ failed
  BY <1>1 DEF IsReady
<1>4. \A h \in Attempts : TaskOf(h) \in Tasks
  BY AttemptIsPair
<1>5. Ownership'
  BY <1>1, <1>2 DEF Ownership, locals, environment, capacityVars
<1>6. InTimeIsLast'
  BY <1>1, <1>2, <1>3, <1>4 DEF InTimeIsLast, locals, InTime, RunnerTypeOK
<1>7. PendingIsNext' /\ AttemptsInOrder' /\ TaskFollowsAttempts'
  BY <1>1, <1>3 DEF PendingIsNext, AttemptsInOrder, TaskFollowsAttempts, locals
<1>8. TasksStand'
  <2>1. ASSUME NEW t \in Tasks, task'[t] \in {"READY", "RUNNING"},
               NEW u \in definition'.upstream[t]
        PROVE  task'[u] = "SUCCEEDED"
    <3>1. u \in definition.upstream[t] /\ u \in Tasks
      BY <1>1, DefinitionsType DEF RunnerTypeOK
    <3>2. task[u] = "SUCCEEDED"
      BY <1>3, <2>1, <3>1 DEF IsReady, TasksStand
    <3> QED
      BY <1>3, <3>1, <3>2
  <2>2. \A t \in Tasks : task'[t] = "RUNNING" =>
           pending'[t] # 0 \/ \E h \in InTime' : TaskOf(h) = t
    BY <1>1, <1>2, <1>3 DEF TasksStand, locals
  <2>3. ~ cancelRequested => \A t \in Tasks : task'[t] = "SUCCEEDED" => t \in outputs'
    BY <1>1, <1>3 DEF TasksStand
  <2> QED
    BY <1>1, <2>1, <2>2, <2>3 DEF TasksStand, environment
<1>9. VerdictStands'
  BY <1>1, <1>3 DEF VerdictStands, NotDispatched, locals, environment
<1>10. RunnerTypeOK'
  BY <1>1 DEF RunnerTypeOK, CapacityInv, Pending, locals, environment, EventKind,
              CoordinatorStep
<1>11. \A t \in Tasks : ~ failed => ~ IsReady(t)'
  <2> SUFFICES ASSUME NEW t \in Tasks, ~ failed, IsReady(t)' PROVE FALSE
    OBVIOUS
  <2>1. /\ task'[t] = "PENDING" /\ definition.upstream[t] \subseteq Tasks
        /\ \A u \in definition.upstream[t] : task'[u] = "SUCCEEDED"
    BY <1>1, DefinitionsType DEF IsReady, RunnerTypeOK
  <2>2. IsReady(t)
    BY <1>3, <2>1 DEF IsReady
  <2> QED
    BY <1>1, <2>1, <2>2
<1>12. PositionKnows' /\ ReturnedRunLeavesNothing'
  BY <1>1, <1>11 DEF PositionKnows, ReturnedRunLeavesNothing, locals, environment
<1> QED
  BY <1>5, <1>6, <1>7, <1>8, <1>9, <1>10, <1>12

\* A cancellation: what nothing is at work for is CANCELLED at once.
LEMMA BeginCancellationKeeps ==
    ASSUME Undisturbed, CapacityInv', BeginCancellation
    PROVE  Undisturbed'
<1> USE DEF Undisturbed
<1>1. /\ UNCHANGED <<definition, run, attempt, outputs, lastEvent, active, timedOut,
                     failed, stopped, environment, capacityVars, todo>>
      /\ pc = "top" /\ visit = {} /\ cancelRequested /\ ~ failed
      /\ \/ pc' = "drain" /\ visit' = visit
         \/ pc' = "stop" /\ visit' = active
      /\ \A t \in Tasks : task'[t] = IF t \in CancelledAtOnce THEN "CANCELLED" ELSE task[t]
      /\ task' \in [Tasks -> TaskRunStatus]
      /\ pending' = [t \in Tasks |-> 0] /\ eligible' = {}
  BY DEF BeginCancellation, Goes, PositionKnows, RunnerTypeOK, TaskRunStatus
<1>2. InTime' = InTime /\ \A h \in Attempts : Queued(h)' = Queued(h)
  BY <1>1 DEF InTime, Queued, environment
<1>3. \A t \in Tasks : t \in CancelledAtOnce <=>
         \/ task[t] \in {"PENDING", "READY"}
         \/ pending[t] # 0 /\ ~ \E h \in InTime : TaskOf(h) = t
  BY DEF CancelledAtOnce, NotDispatched, Pending, InTime
<1>4. \A t \in Tasks : t \in CancelledAtOnce => task[t] \in {"PENDING", "READY", "RUNNING"}
  BY <1>3 DEF PendingIsNext
<1>5. \A h \in InTime : TaskOf(h) \in Tasks /\ TaskOf(h) \notin CancelledAtOnce
  BY <1>3, AttemptIsPair DEF InTimeIsLast, InTime, RunnerTypeOK
<1>6. Ownership'
  BY <1>1, <1>2 DEF Ownership, environment, capacityVars
<1>7. InTimeIsLast'
  BY <1>1, <1>2, <1>5 DEF InTimeIsLast
<1>8. PendingIsNext' /\ AttemptsInOrder' /\ TaskFollowsAttempts'
  BY <1>1, <1>3 DEF PendingIsNext, AttemptsInOrder, TaskFollowsAttempts
<1>9. TasksStand'
  <2>1. ASSUME NEW t \in Tasks, task'[t] \in {"READY", "RUNNING"},
               NEW u \in definition'.upstream[t]
        PROVE  task'[u] = "SUCCEEDED"
    <3>1. u \in definition.upstream[t] /\ u \in Tasks /\ task[t] \in {"READY", "RUNNING"}
      BY <1>1, <2>1, DefinitionsType DEF RunnerTypeOK
    <3>2. task[u] = "SUCCEEDED"
      BY <3>1 DEF TasksStand
    <3> QED
      BY <1>1, <1>4, <3>1, <3>2
  <2>2. ASSUME NEW t \in Tasks, task'[t] = "RUNNING"
        PROVE  \E h \in InTime' : TaskOf(h) = t
    <3>1. task[t] = "RUNNING" /\ t \notin CancelledAtOnce
      BY <1>1, <2>2
    <3> QED
      BY <1>2, <1>3, <3>1 DEF TasksStand
  <2> QED
    BY <1>1, <2>1, <2>2 DEF TasksStand, environment
<1>10. VerdictStands'
  BY <1>1 DEF VerdictStands, PositionKnows, environment
<1>11. RunnerTypeOK'
  BY <1>1, AttemptsAreNumbered
     DEF RunnerTypeOK, CapacityInv, Pending, environment, CoordinatorStep
<1>12. NotDispatched' = {} /\ Pending' = {}
  BY <1>1, <1>3 DEF NotDispatched, Pending
<1>13. PositionKnows' /\ ReturnedRunLeavesNothing'
  BY <1>1, <1>12 DEF PositionKnows, ReturnedRunLeavesNothing, environment
<1> QED
  BY <1>6, <1>7, <1>8, <1>9, <1>10, <1>11, <1>13

-----------------------------------------------------------------------------
(* The start, and what run() leaves when it does not come to its end.      *)

\* A run that has just started.
LEMMA RunnerStarts == RunnerInit => Undisturbed
<1> SUFFICES ASSUME RunnerInit PROVE Undisturbed
  OBVIOUS
<1> USE DEF RunnerInit
<1>1. CapacityInv
  BY CapacityInitInv
<1>2. \A h \in Attempts : attempt[h] = Absent /\ worker[h] = "idle" /\ leaseOf[h] = NoExecutor
  BY DEF InitCapacity
<1>3. queue = << >> /\ Len(queue) = 0 /\ 1 .. Len(queue) = {}
  BY EmptySeq
<1>4. \A t \in Tasks, n \in 1 .. AttemptBound : attempt[<<t, n>>] = Absent
  BY <1>2, AttemptIsPair
<1>5. RunnerTypeOK
  <2>1. queue \in Seq([handle: Attempts, outcome: Outcome])
    BY <1>3, EmptySeq
  <2>2. /\ task \in [Tasks -> TaskRunStatus] /\ pending \in [Tasks -> 0 .. AttemptBound]
        /\ attempt \in [Attempts -> TaskAttemptStatus \cup {Absent}]
        /\ worker \in [Attempts -> {"idle", "running", "freed", "reported"}]
    BY AttemptsAreNumbered DEF TaskRunStatus
  <2>3. definition \in Definitions /\ run \in WorkflowRunStatus /\ lastEvent \in EventKind
        /\ pc \in CoordinatorStep
    BY DEF WorkflowRunStatus, EventKind, CoordinatorStep
  <2> QED
    BY <1>1, <2>1, <2>2, <2>3 DEF RunnerTypeOK, CapacityInv, Interruption, Pending
<1>6. Ownership
  BY <1>2, <1>3 DEF Ownership, Queued
<1>7. InTimeIsLast /\ PendingIsNext /\ AttemptsInOrder /\ TaskFollowsAttempts
  BY <1>2, <1>4 DEF InTimeIsLast, InTime, PendingIsNext, AttemptsInOrder,
                    TaskFollowsAttempts, Absent
<1>8. TasksStand /\ VerdictStands /\ PositionKnows /\ ReturnedRunLeavesNothing
  BY DEF TasksStand, VerdictStands, PositionKnows, ReturnedRunLeavesNothing
<1> QED
  BY <1>1, <1>5, <1>6, <1>7, <1>8 DEF Undisturbed

-----------------------------------------------------------------------------
(* A submission that was refused: run() has raised, and what it left stays. *)

\* Nothing but the workers goes on when run() has raised.
Refused ==
    /\ RunnerTypeOK /\ CapacityInv
    /\ pc = "raised" /\ interrupted # "within"
    /\ EveryExecutionIsOwned /\ OneLiveWorkerPerTask
    /\ RaisesOnlyWhenRefused /\ TaskFollowsAttempts

\* While run() is at work, every lease is that of an execution it waits for.
LEMMA LeasesAreActive == Undisturbed => Leased = active /\ OneLiveWorkerPerTask
<1> SUFFICES ASSUME Undisturbed PROVE Leased = active /\ OneLiveWorkerPerTask
  OBVIOUS
<1> USE DEF Undisturbed
<1>1. Leased = active
  BY ExecutorIsRegistered, NoExecutorIsNoKey DEF Leased, Ownership, RunnerTypeOK
<1>2. OneLiveWorkerPerTask
  BY DEF Ownership, OneLiveWorkerPerTask
<1> QED
  BY <1>1, <1>2

\* The attempt that a dispatch pass has come to: it is new, its task has no
\* execution, and it is the next one of its task.
LEMMA NextDispatchIsNew ==
    ASSUME Undisturbed, todo # {}, pc \in {"retries", "dispatch"},
           pc = "retries" => FirstOf(todo) \in eligible /\ ~ HasExecution(FirstOf(todo))
    PROVE  \E t \in Tasks, n \in 1 .. AttemptBound :
              /\ t = FirstOf(todo) /\ NextDispatch = <<t, n>>
              /\ \A m \in 1 .. AttemptBound : attempt[<<t, m>>] # Absent <=> m < n
              /\ \A g \in active : TaskOf(g) # t
              /\ task[t] \in {"READY", "RUNNING"}
<1> USE DEF Undisturbed
<1> DEFINE t == FirstOf(todo)
<1>1. t \in todo /\ t \in Tasks /\ 1 \in 1 .. AttemptBound
  <2>1. t \in todo /\ todo \subseteq Tasks
    BY FirstOfIsMember DEF RunnerTypeOK
  <2> QED
    BY <2>1, AttemptsAreNumbered
<1>2. CASE pc = "retries"
  <2>1. t \in Pending /\ pending[t] \in 0 .. AttemptBound /\ pending[t] # 0
    BY <1>1, <1>2 DEF RunnerTypeOK, Pending
  <2>2. pending[t] \in 1 .. AttemptBound
    BY <2>1, AttemptsAreNumbered
  <2>3. /\ task[t] = "RUNNING"
        /\ \A m \in 1 .. AttemptBound : attempt[<<t, m>>] # Absent <=> m < pending[t]
    BY <1>1, <2>1 DEF PendingIsNext
  <2>4. NextDispatch = <<t, pending[t]>>
    BY <1>2 DEF NextDispatch, RetryOf
  <2>5. \A g \in active : TaskOf(g) # t
    BY <1>2 DEF HasExecution
  <2> HIDE DEF t
  <2> QED
    BY <1>1, <2>2, <2>3, <2>4, <2>5 DEF t
<1>3. CASE pc = "dispatch"
  <2>1. task[t] = "READY"
    BY <1>1, <1>3 DEF PositionKnows
  <2>2. \A m \in 1 .. AttemptBound : attempt[<<t, m>>] = Absent
    BY <1>1, <2>1 DEF AttemptsInOrder
  <2>3. \A g \in active : TaskOf(g) # t
    <3> SUFFICES ASSUME NEW g \in active, TaskOf(g) = t PROVE FALSE
      OBVIOUS
    <3>1. g \in Attempts /\ worker[g] # "idle"
      BY DEF Ownership, RunnerTypeOK
    <3>2. attempt[g] = Absent
      BY <2>2, <3>1, AttemptIsPair
    <3> QED
      BY <3>1, <3>2 DEF Ownership
  <2>4. \A m \in 1 .. AttemptBound : attempt[<<t, m>>] # Absent <=> m < 1
    BY <2>2
  <2>5. NextDispatch = <<t, 1>>
    BY <1>3 DEF NextDispatch
  <2> HIDE DEF t
  <2> QED
    BY <1>1, <2>1, <2>3, <2>4, <2>5 DEF t
<1> QED
  BY <1>2, <1>3

\* Attempts are numbered without gaps.
NoGaps ==
    \A t \in Tasks, n \in 1 .. AttemptBound, m \in 1 .. AttemptBound :
        m < n /\ attempt[<<t, n>>] # Absent => attempt[<<t, m>>] # Absent

\* An execution whose outcome still counts is the last attempt of its task.
InTimeIsNewest ==
    \A h \in InTime :
        /\ attempt[h] # Absent
        /\ \A n \in 1 .. AttemptBound : h[2] < n => attempt[<<TaskOf(h), n>>] = Absent

\* The attempt that was stored and is not submitted, or not kept.
StoredOnly(h) ==
    /\ Acquire(h, Executor)
    /\ attempt' = [attempt EXCEPT ![h] = "RUNNING"]
    /\ task' = [task EXCEPT ![TaskOf(h)] = "RUNNING"]
    /\ UNCHANGED <<definition, outputs, active, timedOut, queue>>

\* What it leaves of the records.
LEMMA StoringKeepsRecords ==
    ASSUME Undisturbed, NEW t \in Tasks, NEW n \in 1 .. AttemptBound,
           \A m \in 1 .. AttemptBound : attempt[<<t, m>>] # Absent <=> m < n,
           \A g \in active : TaskOf(g) # t,
           StoredOnly(<<t, n>>)
    PROVE  /\ task' \in [Tasks -> TaskRunStatus]
           /\ attempt' \in [Attempts -> TaskAttemptStatus \cup {Absent}]
           /\ TaskFollowsAttempts' /\ NoGaps' /\ InTimeIsNewest'
<1> USE DEF Undisturbed
<1> DEFINE h == <<t, n>>
<1>1. h \in Attempts /\ TaskOf(h) = t /\ h[2] = n
  BY AttemptIsPair
<1>2. /\ attempt' = [attempt EXCEPT ![h] = "RUNNING"]
      /\ task' = [task EXCEPT ![t] = "RUNNING"] /\ InTime' = InTime
  BY <1>1 DEF StoredOnly, InTime
<1> HIDE DEF h
<1>3. /\ task' \in [Tasks -> TaskRunStatus]
      /\ attempt' \in [Attempts -> TaskAttemptStatus \cup {Absent}]
  <2>1. "RUNNING" \in TaskRunStatus /\ "RUNNING" \in TaskAttemptStatus
    BY DEF TaskRunStatus, TaskAttemptStatus
  <2> QED
    BY <1>1, <1>2, <2>1 DEF RunnerTypeOK
<1>4. /\ \A u \in Tasks : u # t => task'[u] = task[u]
      /\ task'[t] = "RUNNING"
  BY <1>2 DEF RunnerTypeOK
<1>5. \A u \in Tasks \ {t}, m \in 1 .. AttemptBound :
          <<u, m>> \in Attempts /\ attempt'[<<u, m>>] = attempt[<<u, m>>]
  <2> TAKE u \in Tasks \ {t}, m \in 1 .. AttemptBound
  <2>1. <<u, m>> \in Attempts /\ TaskOf(<<u, m>>) = u
    BY AttemptIsPair
  <2>2. <<u, m>> # h
    BY <1>1, <2>1
  <2> QED
    BY <1>2, <2>1, <2>2 DEF RunnerTypeOK
<1>6. \A m \in 1 .. AttemptBound : attempt'[<<t, m>>] # Absent <=> m <= n
  <2> TAKE m \in 1 .. AttemptBound
  <2>1. <<t, m>> \in Attempts /\ (m = n <=> <<t, m>> = h)
    BY <1>1, AttemptIsPair DEF h
  <2>2. "RUNNING" # Absent
    BY DEF Absent
  <2> QED
    BY <1>2, <2>1, <2>2 DEF RunnerTypeOK
<1>7. TaskFollowsAttempts'
  <2> SUFFICES ASSUME NEW u \in Tasks, NEW m \in 1 .. AttemptBound,
                      attempt'[<<u, m>>] # Absent,
                      m < AttemptBound => attempt'[<<u, m + 1>>] = Absent,
                      task'[u] \in {"SUCCEEDED", "FAILED"}
               PROVE  attempt'[<<u, m>>] = task'[u]
    BY DEF TaskFollowsAttempts
  <2>1. u # t /\ task'[u] = task[u]
    BY <1>4
  <2>2. m < AttemptBound => m + 1 \in 1 .. AttemptBound
    BY AttemptsAreNumbered
  <2>3. m < AttemptBound => attempt[<<u, m + 1>>] = Absent
    BY <1>5, <2>1, <2>2
  <2> QED
    BY <1>5, <2>1, <2>3 DEF TaskFollowsAttempts
<1>8. NoGaps'
  <2> SUFFICES ASSUME NEW u \in Tasks, NEW k \in 1 .. AttemptBound, NEW m \in 1 .. AttemptBound,
                      m < k, attempt'[<<u, k>>] # Absent
               PROVE  attempt'[<<u, m>>] # Absent
    BY DEF NoGaps
  <2>1. CASE u = t
    BY <1>6, <2>1
  <2>2. CASE u # t
    BY <1>5, <2>2 DEF AttemptsInOrder
  <2> QED
    BY <2>1, <2>2
<1>9. InTimeIsNewest'
  <2> SUFFICES ASSUME NEW g \in InTime
               PROVE  /\ attempt'[g] # Absent
                      /\ \A m \in 1 .. AttemptBound :
                            g[2] < m => attempt'[<<TaskOf(g), m>>] = Absent
    BY <1>2 DEF InTimeIsNewest
  <2>1. /\ g \in active /\ g \in Attempts /\ TaskOf(g) \in Tasks /\ TaskOf(g) # t
        /\ g[2] \in 1 .. AttemptBound /\ g = <<TaskOf(g), g[2]>>
    BY AttemptIsPair DEF InTime, RunnerTypeOK
  <2>2. attempt[g] # Absent
    BY <2>1 DEF Ownership
  <2> QED
    BY <1>5, <2>1, <2>2 DEF InTimeIsLast
<1> QED
  BY <1>3, <1>7, <1>8, <1>9

\* The executor refuses an attempt that was stored (_submit_attempt).
LEMMA RefusalIsLeft ==
    ASSUME Undisturbed, CapacityInv', DispatchRetry \/ DispatchReady, pc' = "raised"
    PROVE  Refused'
<1> USE DEF Undisturbed
<1>1. /\ todo # {} /\ pc \in {"retries", "dispatch"} /\ ~ cancelRequested
      /\ pc = "retries" => FirstOf(todo) \in eligible /\ ~ HasExecution(FirstOf(todo))
  BY DEF DispatchRetry, DispatchReady
<1>2. PICK t \in Tasks, n \in 1 .. AttemptBound :
              /\ t = FirstOf(todo) /\ NextDispatch = <<t, n>>
              /\ \A m \in 1 .. AttemptBound : attempt[<<t, m>>] # Absent <=> m < n
              /\ \A g \in active : TaskOf(g) # t
              /\ task[t] \in {"READY", "RUNNING"}
  BY <1>1, NextDispatchIsNew
<1> DEFINE h == <<t, n>>
<1>3. h \in Attempts /\ TaskOf(h) = t /\ attempt[h] = Absent
  BY <1>2, AttemptIsPair
<1>4. worker[h] = "idle" /\ h \notin active
  BY <1>3 DEF Ownership
<1>5. /\ Acquire(h, Executor)
      /\ attempt' = [attempt EXCEPT ![h] = "RUNNING"]
      /\ Submits(h)
      /\ UNCHANGED <<definition, run, outputs, visit, timedOut, failed, stopped, queue,
                     cancelRequested, interrupted>>
      /\ todo' = todo \ {t}
      /\ \/ /\ pc = "retries" /\ UNCHANGED <<task, lastEvent>>
            /\ pending' = [pending EXCEPT ![t] = 0] /\ eligible' = eligible \ {t}
         \/ /\ task' = [task EXCEPT ![t] = "RUNNING"] /\ lastEvent' = "task"
            /\ UNCHANGED <<pending, eligible>>
  <2>1. CASE DispatchRetry
    <3>1. h = RetryOf(FirstOf(todo))
      BY <1>2, <2>1 DEF DispatchRetry, NextDispatch
    <3> HIDE DEF h
    <3> QED
      BY <1>2, <2>1, <3>1 DEF DispatchRetry
  <2>2. CASE DispatchReady
    <3>1. h = <<FirstOf(todo), 1>>
      BY <1>2, <2>2 DEF DispatchReady, NextDispatch
    <3> HIDE DEF h
    <3> QED
      BY <1>2, <2>2, <3>1 DEF DispatchReady
  <2> QED
    BY <2>1, <2>2
<1>6. task' = [task EXCEPT ![t] = "RUNNING"]
  <2>1. ASSUME pc = "retries", task' = task
        PROVE  task' = [task EXCEPT ![t] = "RUNNING"]
    <3>1. t \in eligible
      BY <1>1, <1>2, <2>1
    <3>2. task[t] = "RUNNING"
      BY <3>1 DEF PendingIsNext, RunnerTypeOK, Pending
    <3> QED
      BY <2>1, <3>2 DEF RunnerTypeOK
  <2> QED
    BY <1>5, <2>1
<1>7. SubmitAccepted(h)
  <2>1. definition.upstream[t] \subseteq Tasks
    BY DefinitionsType DEF RunnerTypeOK
  <2>2. definition.upstream[t] \subseteq outputs
    BY <1>1, <1>2, <2>1 DEF TasksStand
  <2>3. CapacityAvailable(Executor)
    BY <1>5 DEF Acquire
  <2> QED
    BY <1>3, <2>2, <2>3, LeasedExecutionIsAccepted DEF SubmitAccepted
<1>8. t \in definition.refuses /\ UNCHANGED <<active, worker>>
  BY <1>1, <1>3, <1>5, <1>7 DEF Submits
<1>9. /\ task' \in [Tasks -> TaskRunStatus]
      /\ attempt' \in [Attempts -> TaskAttemptStatus \cup {Absent}]
      /\ TaskFollowsAttempts'
  <2>1. StoredOnly(h)
    BY <1>3, <1>5, <1>6, <1>8 DEF StoredOnly
  <2> QED
    BY <1>2, <2>1, StoringKeepsRecords
<1> HIDE DEF h
<1>10. /\ attempt'[h] = "RUNNING" /\ task'[t] = "RUNNING"
       /\ leaseOf' = [leaseOf EXCEPT ![h] = Executor]
  BY <1>3, <1>5, <1>6 DEF RunnerTypeOK, Acquire
<1>11. Leased' = active' \cup {h}
  <2>1. Leased = active
    BY LeasesAreActive
  <2>2. Leased' = Leased \cup {h}
    BY <1>3, <1>10, ExecutorIsRegistered, NoExecutorIsNoKey
       DEF Leased, CapacityInv, CapacityTypeOK
  <2> QED
    BY <1>8, <2>1, <2>2
<1>12. \A g \in Attempts : RefusedSubmission(g)' <=> g = h
  BY <1>3, <1>4, <1>5, <1>8, <1>10, <1>11 DEF RefusedSubmission
<1>13. EveryExecutionIsOwned' /\ RaisesOnlyWhenRefused'
  BY <1>3, <1>11, <1>12 DEF EveryExecutionIsOwned, RaisesOnlyWhenRefused
<1>14. OneLiveWorkerPerTask'
  BY <1>8, LeasesAreActive DEF OneLiveWorkerPerTask
<1>15. pending' \in [Tasks -> 0 .. AttemptBound] /\ eligible' \subseteq Pending'
  <2>1. 0 \in 0 .. AttemptBound
    BY AttemptsAreNumbered
  <2>2. \/ UNCHANGED <<pending, eligible>>
        \/ pending' = [pending EXCEPT ![t] = 0] /\ eligible' = eligible \ {t}
    BY <1>5
  <2> QED
    BY <2>1, <2>2 DEF RunnerTypeOK, Pending
<1>16. RunnerTypeOK'
  <2>1. lastEvent' \in EventKind /\ todo' \subseteq Tasks /\ pc' \in CoordinatorStep
    BY <1>5 DEF RunnerTypeOK, EventKind, CoordinatorStep
  <2> QED
    BY <1>5, <1>8, <1>9, <1>15, <2>1 DEF RunnerTypeOK, CapacityInv
<1> QED
  BY <1>5, <1>9, <1>13, <1>14, <1>16 DEF Refused, PositionKnows

\* A worker that ends or reports, and the clock, change nothing else.
LEMMA OthersKeepTypes ==
    ASSUME RunnerTypeOK,
           \/ \E h \in Attempts : Worker(h)
           \/ \E t \in Tasks : BackoffEnds(t)
           \/ UNCHANGED runnerVars
    PROVE  /\ UNCHANGED <<definition, records, loops, active, timedOut, pending, failed,
                          stopped, cancelRequested, interrupted, capacityVars>>
           /\ eligible' \subseteq Pending
           /\ worker' \in [Attempts -> {"idle", "running", "freed", "reported"}]
           /\ \A h \in Attempts :
                 \/ worker'[h] = worker[h]
                 \/ worker[h] \in {"running", "freed"} /\ worker'[h] \in {"freed", "reported"}
           /\ queue' \in Seq([handle: Attempts, outcome: Outcome])
<1> USE DEF RunnerTypeOK
<1>1. ASSUME NEW h \in Attempts, WorkerFreesSlot(h)
      PROVE  /\ worker' = [worker EXCEPT ![h] = "freed"] /\ worker[h] = "running"
             /\ queue' = queue
             /\ UNCHANGED <<definition, records, loops, locals, cancelRequested,
                            interrupted, capacityVars>>
  BY <1>1 DEF WorkerFreesSlot
<1>2. ASSUME NEW h \in Attempts, WorkerReports(h)
      PROVE  /\ worker' = [worker EXCEPT ![h] = "reported"] /\ worker[h] = "freed"
             /\ queue' \in Seq([handle: Attempts, outcome: Outcome])
             /\ UNCHANGED <<definition, records, loops, locals, cancelRequested,
                            interrupted, capacityVars>>
  <2>1. PICK outcome \in Outcome : queue' = Append(queue, [handle |-> h, outcome |-> outcome])
    BY <1>2 DEF WorkerReports
  <2>2. [handle |-> h, outcome |-> outcome] \in [handle: Attempts, outcome: Outcome]
    OBVIOUS
  <2>3. queue' \in Seq([handle: Attempts, outcome: Outcome])
    BY <2>1, <2>2, AppendProperties
  <2> QED
    BY <1>2, <2>3 DEF WorkerReports
<1>3. CASE \E h \in Attempts : Worker(h)
  <2>1. PICK h \in Attempts : WorkerFreesSlot(h) \/ WorkerReports(h)
    BY <1>3 DEF Worker
  <2>2. /\ worker[h] \in {"running", "freed"} /\ worker'[h] \in {"freed", "reported"}
        /\ \A g \in Attempts : g # h => worker'[g] = worker[g]
        /\ worker' \in [Attempts -> {"idle", "running", "freed", "reported"}]
    BY <1>1, <1>2, <2>1
  <2>3. queue' \in Seq([handle: Attempts, outcome: Outcome])
    BY <1>1, <1>2, <2>1
  <2>4. /\ UNCHANGED <<definition, records, loops, locals, cancelRequested, interrupted,
                       capacityVars>>
    BY <1>1, <1>2, <2>1
  <2> QED
    BY <2>2, <2>3, <2>4 DEF locals
<1>4. CASE \E t \in Tasks : BackoffEnds(t)
  <2>1. /\ UNCHANGED <<definition, records, loops, active, timedOut, pending, failed,
                       stopped, worker, queue, cancelRequested, interrupted, capacityVars>>
        /\ eligible' \subseteq Pending
    BY <1>4 DEF BackoffEnds, environment
  <2> QED
    BY <2>1
<1>5. CASE UNCHANGED runnerVars
  <2>1. UNCHANGED <<definition, records, loops, locals, environment, capacityVars>>
    BY <1>5 DEF runnerVars
  <2>2. UNCHANGED <<active, timedOut, pending, eligible, failed, stopped, worker, queue,
                    cancelRequested, interrupted>>
    BY <2>1 DEF locals, environment
  <2> QED
    BY <2>1, <2>2
<1> QED
  BY <1>3, <1>4, <1>5

\* Nothing but workers and the clock moves behind it.
LEMMA RefusalStays ==
    ASSUME Refused, CapacityInv', [RunnerNext]_runnerVars
    PROVE  Refused'
<1> USE DEF Refused
<1>1. \/ \E h \in Attempts : Worker(h)
      \/ \E t \in Tasks : BackoffEnds(t)
      \/ UNCHANGED runnerVars
  <2>1. ~ Coordinator
    BY DEF Coordinator, TopMarksReady, DispatchRetry, PassOverRetry, RetryPassEnds,
           DispatchReady, PassOverReady, DispatchPassEnds, Recheck, TakeCompletion,
           WaitTimesOut, Expire, ExpirePassEnds, BeginCancellation, StopExecution,
           StopPassEnds, DrainCancelled, DrainTerminal, DrainsNext, DrainEnds, Finish
  <2>2. ~ InterruptBetween /\ ~ InterruptWithin /\ ~ RequestCancellation
    BY DEF InterruptBetween, InterruptWithin, InterruptInDispatch, InterruptInTimeout,
           InterruptInCompletion, InterruptAfterFailure, InterruptAfterEnd,
           HandlesInterrupt, RequestCancellation, Ended
  <2> QED
    BY <2>1, <2>2 DEF RunnerNext, RunEnded
<1>2. /\ UNCHANGED <<definition, records, loops, active, timedOut, pending, failed, stopped,
                     cancelRequested, interrupted, capacityVars>>
      /\ eligible' \subseteq Pending
      /\ worker' \in [Attempts -> {"idle", "running", "freed", "reported"}]
      /\ \A h \in Attempts :
            \/ worker'[h] = worker[h]
            \/ worker[h] \in {"running", "freed"} /\ worker'[h] \in {"freed", "reported"}
      /\ queue' \in Seq([handle: Attempts, outcome: Outcome])
  BY <1>1, OthersKeepTypes
<1>3. RunnerTypeOK'
  BY <1>2 DEF RunnerTypeOK, records, loops, CapacityInv, Pending
<1>4. Leased' = Leased /\ active' = active /\ definition' = definition /\ pc' = pc
      /\ attempt' = attempt /\ task' = task
  BY <1>2 DEF Leased, capacityVars, records, loops
<1>5. \A h \in Attempts : RefusedSubmission(h)' <=> RefusedSubmission(h)
  BY <1>2, <1>4 DEF RefusedSubmission
<1>6. EveryExecutionIsOwned' /\ RaisesOnlyWhenRefused'
  BY <1>4, <1>5 DEF EveryExecutionIsOwned, RaisesOnlyWhenRefused
<1>7. OneLiveWorkerPerTask'
  BY <1>2 DEF OneLiveWorkerPerTask
<1>8. TaskFollowsAttempts'
  BY <1>4 DEF TaskFollowsAttempts
<1> QED
  BY <1>2, <1>3, <1>4, <1>6, <1>7, <1>8

-----------------------------------------------------------------------------
(* An interrupt within a unit of work: the run is only wound up.           *)

\* What is left of the invariant: no attempt is dispatched any more, and the
\* executions whose outcome counts are the last ones of their tasks.
Torn ==
    /\ RunnerTypeOK /\ CapacityInv
    /\ interrupted = "within"
    /\ \/ pc = "top" /\ cancelRequested /\ ~ failed
       \/ pc \in {"stop", "drain", "returned", "raised"}
    /\ pc # "stop" => visit = {}
    /\ NoGaps /\ InTimeIsNewest
    /\ OneLiveWorkerPerTask /\ TaskFollowsAttempts

\* A queue of completions gives one and keeps the others.
LEMMA QueueIsTyped ==
    ASSUME RunnerTypeOK, queue # << >>
    PROVE  /\ Head(queue).handle \in Attempts /\ Head(queue).outcome \in Outcome
           /\ Tail(queue) \in Seq([handle: Attempts, outcome: Outcome])
<1> DEFINE R == [handle: Attempts, outcome: Outcome]
<1>1. queue \in Seq(R)
  BY DEF RunnerTypeOK
<1> HIDE DEF R
<1>2. Head(queue) \in R /\ Tail(queue) \in Seq(R)
  BY <1>1, HeadTailProperties, EmptySeq, LenProperties
<1> QED
  BY <1>2 DEF R

\* The common part of what an interrupt leaves.
LEMMA InterruptsTear ==
    ASSUME Undisturbed, CapacityInv', HandlesInterrupt("within"),
           run' \in WorkflowRunStatus, lastEvent' \in EventKind, UNCHANGED outputs,
           task' \in [Tasks -> TaskRunStatus],
           attempt' \in [Attempts -> TaskAttemptStatus \cup {Absent}],
           active' \subseteq active, timedOut' \subseteq active',
           pending' \in [Tasks -> 0 .. AttemptBound], eligible' \subseteq Pending',
           worker' \in [Attempts -> {"idle", "running", "freed", "reported"}],
           queue' \in Seq([handle: Attempts, outcome: Outcome]),
           NoGaps', InTimeIsNewest', OneLiveWorkerPerTask', TaskFollowsAttempts'
    PROVE  Torn'
<1> USE DEF Undisturbed
<1>1. /\ definition' = definition /\ failed' = failed /\ interrupted' = "within"
      /\ todo' = {} /\ visit' = {} /\ stopped' = {}
      /\ cancelRequested' \in BOOLEAN
      /\ pc' = "drain" \/ (pc' = "top" /\ cancelRequested' /\ ~ failed')
  BY DEF HandlesInterrupt, RunnerTypeOK
<1>2. RunnerTypeOK'
  BY <1>1 DEF RunnerTypeOK, CapacityInv, CoordinatorStep, Interruption
<1> QED
  BY <1>1, <1>2 DEF Torn

\* The records as they stand satisfy what an interrupt leaves of them.
LEMMA RecordsStand ==
    Undisturbed => NoGaps /\ InTimeIsNewest /\ OneLiveWorkerPerTask /\ TaskFollowsAttempts
<1> SUFFICES ASSUME Undisturbed
             PROVE  NoGaps /\ InTimeIsNewest /\ OneLiveWorkerPerTask /\ TaskFollowsAttempts
  OBVIOUS
<1> USE DEF Undisturbed
<1>1. NoGaps
  BY DEF NoGaps, AttemptsInOrder
<1>2. InTimeIsNewest
  BY DEF InTimeIsNewest, InTimeIsLast, InTime, RunnerTypeOK, Absent
<1> QED
  BY <1>1, <1>2, LeasesAreActive

\* Ctrl-C between two units of work, where run() does not know that it failed.
LEMMA UnnotedFailureTears ==
    ASSUME Undisturbed, CapacityInv', InterruptBetween, interrupted' = "within"
    PROVE  Torn'
<1>1. /\ HandlesInterrupt("within")
      /\ UNCHANGED <<records, active, timedOut, pending, eligible, worker, queue>>
  BY DEF InterruptBetween, HandlesInterrupt
<1>2. InTime' = InTime
  BY <1>1 DEF InTime
<1>3. NoGaps' /\ InTimeIsNewest' /\ OneLiveWorkerPerTask' /\ TaskFollowsAttempts'
  BY <1>1, <1>2, RecordsStand
     DEF records, NoGaps, InTimeIsNewest, OneLiveWorkerPerTask, TaskFollowsAttempts
<1> QED
  BY <1>1, <1>3, InterruptsTear DEF Undisturbed, RunnerTypeOK, records, Pending

\* Ctrl-C while an attempt is dispatched.
LEMMA DispatchTears ==
    ASSUME Undisturbed, CapacityInv', InterruptInDispatch
    PROVE  Torn'
<1> USE DEF Undisturbed
<1>1. PICK t \in Tasks, n \in 1 .. AttemptBound :
              /\ t = FirstOf(todo) /\ NextDispatch = <<t, n>>
              /\ \A m \in 1 .. AttemptBound : attempt[<<t, m>>] # Absent <=> m < n
              /\ \A g \in active : TaskOf(g) # t
              /\ task[t] \in {"READY", "RUNNING"}
  BY NextDispatchIsNew DEF InterruptInDispatch
<1> DEFINE h == <<t, n>>
<1>2. h \in Attempts /\ TaskOf(h) = t
  BY <1>1, AttemptIsPair
<1>3. /\ HandlesInterrupt("within") /\ StoredOnly(h)
      /\ UNCHANGED <<run, outputs, lastEvent, active, timedOut, queue>>
      /\ \/ UNCHANGED <<pending, eligible>>
         \/ pending' = [pending EXCEPT ![t] = 0] /\ eligible' = eligible \ {t}
      /\ worker' = worker \/ worker' = [worker EXCEPT ![h] = "running"]
  <2>1. h = NextDispatch
    BY <1>1
  <2> HIDE DEF h
  <2> QED
    BY <1>2, <2>1 DEF InterruptInDispatch, StoredOnly, HandlesInterrupt
<1>4. /\ task' \in [Tasks -> TaskRunStatus]
      /\ attempt' \in [Attempts -> TaskAttemptStatus \cup {Absent}]
      /\ TaskFollowsAttempts' /\ NoGaps' /\ InTimeIsNewest'
  BY <1>1, <1>3, StoringKeepsRecords
<1> HIDE DEF h
<1>5. pending' \in [Tasks -> 0 .. AttemptBound] /\ eligible' \subseteq Pending'
  <2>1. 0 \in 0 .. AttemptBound
    BY AttemptsAreNumbered
  <2> QED
    BY <1>3, <2>1 DEF RunnerTypeOK, Pending
<1>6. worker' \in [Attempts -> {"idle", "running", "freed", "reported"}]
  BY <1>3 DEF RunnerTypeOK
<1>7. OneLiveWorkerPerTask'
  <2>1. \A g \in Attempts : worker[g] = "running" => g \in active /\ TaskOf(g) # t
    BY <1>1 DEF Ownership
  <2>2. \A g \in Attempts : worker'[g] = "running" => g = h \/ worker[g] = "running"
    BY <1>3, <1>2 DEF RunnerTypeOK
  <2> QED
    BY <1>2, <2>1, <2>2, LeasesAreActive DEF OneLiveWorkerPerTask
<1> QED
  BY <1>3, <1>4, <1>5, <1>6, <1>7, InterruptsTear DEF RunnerTypeOK

\* Ctrl-C while a timeout is declared, and while a completion is taken.
LEMMA TakingTears ==
    ASSUME Undisturbed, CapacityInv',
           InterruptInCompletion \/ \E h \in Attempts : InterruptInTimeout(h)
    PROVE  Torn'
<1> USE DEF Undisturbed
<1>1. /\ HandlesInterrupt("within")
      /\ UNCHANGED <<records, pending, eligible, worker>>
      /\ active' \subseteq active /\ timedOut' \subseteq active' /\ InTime' \subseteq InTime
      /\ queue' \in Seq([handle: Attempts, outcome: Outcome])
  <2>1. CASE InterruptInCompletion
    <3>1. queue # << >> /\ queue' = Tail(queue)
      BY <2>1 DEF InterruptInCompletion
    <3>2. queue' \in Seq([handle: Attempts, outcome: Outcome])
      BY <3>1, QueueIsTyped
    <3> QED
      BY <2>1, <3>2 DEF InterruptInCompletion, InTime
  <2>2. CASE \E h \in Attempts : InterruptInTimeout(h)
    BY <2>2 DEF InterruptInTimeout, InTime, RunnerTypeOK
  <2> QED
    BY <2>1, <2>2
<1>2. NoGaps' /\ InTimeIsNewest' /\ OneLiveWorkerPerTask' /\ TaskFollowsAttempts'
  BY <1>1, RecordsStand
     DEF records, NoGaps, InTimeIsNewest, OneLiveWorkerPerTask, TaskFollowsAttempts
<1> QED
  BY <1>1, <1>2, InterruptsTear DEF RunnerTypeOK, records, Pending

\* Ctrl-C after a completion failed the run, and after the run has ended.
LEMMA EndTears ==
    ASSUME Undisturbed, CapacityInv', InterruptAfterFailure \/ InterruptAfterEnd
    PROVE  Torn'
<1> USE DEF Undisturbed
<1>1. CASE InterruptAfterFailure
  <2> DEFINE h == Head(queue).handle
             outcome == Head(queue).outcome
  <2>1. /\ HandlesInterrupt("within")
        /\ pc = "wait" /\ queue # << >> /\ ~ failed
        /\ h \in InTime /\ ~ ShouldRetry(TaskOf(h), h[2], outcome)
        /\ active' = active \ {h} /\ queue' = Tail(queue)
        /\ FailsWorkflow(h)
        /\ UNCHANGED <<timedOut, eligible, worker, definition>>
    BY <1>1 DEF InterruptAfterFailure, LetsGo, InTime, HandlesInterrupt
  <2> HIDE DEF h, outcome
  <2>2. FailsOrRetries(h, outcome)
    BY <2>1 DEF FailsOrRetries, PositionKnows
  <2>3. SettlesAs(h, "FAILED") /\ outputs' = outputs
        /\ run' \in {run, "FAILED"} /\ lastEvent' \in EventKind
    BY <2>1, <2>2, FailingSettles
  <2>4. InTime' = InTime \ {h} /\ h \in Attempts
    BY <2>1 DEF InTime, RunnerTypeOK
  <2>5. /\ InTimeIsLast' /\ AttemptsInOrder' /\ TaskFollowsAttempts'
    BY <2>1, <2>3, <2>4, SettlingKeepsRecords DEF AttemptTerminal
  <2>6. /\ attempt' = [attempt EXCEPT ![h] = "FAILED"]
        /\ task' \in [Tasks -> TaskRunStatus] /\ pending' = pending
    BY <2>1, <2>3 DEF SettlesAs, FailsWorkflow
  <2>7. attempt' \in [Attempts -> TaskAttemptStatus \cup {Absent}]
    BY <2>4, <2>6 DEF RunnerTypeOK, TaskAttemptStatus
  <2>8. NoGaps' /\ InTimeIsNewest' /\ OneLiveWorkerPerTask'
    <3>1. NoGaps'
      BY <2>5 DEF NoGaps, AttemptsInOrder
    <3>2. InTimeIsNewest'
      BY <2>4, <2>5 DEF InTimeIsNewest, InTimeIsLast, InTime, RunnerTypeOK, Absent
    <3>3. OneLiveWorkerPerTask'
      BY <2>1, LeasesAreActive DEF OneLiveWorkerPerTask
    <3> QED
      BY <3>1, <3>2, <3>3
  <2>9. timedOut' \subseteq active'
    BY <2>1 DEF InTime, RunnerTypeOK
  <2>10. queue' \in Seq([handle: Attempts, outcome: Outcome])
    BY <2>1, QueueIsTyped
  <2>11. run' \in WorkflowRunStatus
    BY <2>3 DEF RunnerTypeOK, WorkflowRunStatus
  <2> QED
    BY <2>1, <2>3, <2>5, <2>6, <2>7, <2>8, <2>9, <2>10, <2>11, InterruptsTear
       DEF RunnerTypeOK, Pending
<1>2. CASE InterruptAfterEnd
  <2>1. /\ HandlesInterrupt("within") /\ run' \in WorkflowRunStatus /\ lastEvent' \in EventKind
        /\ UNCHANGED <<task, attempt, outputs, active, timedOut, pending, eligible,
                       worker, queue>>
    BY <1>2 DEF InterruptAfterEnd, WorkflowRunStatus, EventKind
  <2>2. InTime' = InTime
    BY <2>1 DEF InTime
  <2>3. NoGaps' /\ InTimeIsNewest' /\ OneLiveWorkerPerTask' /\ TaskFollowsAttempts'
    BY <2>1, <2>2, RecordsStand
       DEF NoGaps, InTimeIsNewest, OneLiveWorkerPerTask, TaskFollowsAttempts
  <2> QED
    BY <2>1, <2>3, InterruptsTear DEF RunnerTypeOK, Pending
<1> QED
  BY <1>1, <1>2

\* A drained completion settles the last attempt of its task.
LEMMA TornSettles ==
    ASSUME Torn, NEW h \in InTime, NEW status \in AttemptTerminal, Settles(h, status),
           InTime' \subseteq InTime
    PROVE  /\ task' \in [Tasks -> TaskRunStatus]
           /\ attempt' \in [Attempts -> TaskAttemptStatus \cup {Absent}]
           /\ NoGaps' /\ InTimeIsNewest' /\ TaskFollowsAttempts'
<1> USE DEF Torn
<1> DEFINE t == TaskOf(h)
           n == h[2]
<1>1. /\ h \in Attempts /\ t \in Tasks /\ n \in 1 .. AttemptBound /\ h = <<t, n>>
      /\ attempt[h] # Absent
      /\ \A m \in 1 .. AttemptBound : n < m => attempt[<<t, m>>] = Absent
  BY AttemptIsPair DEF InTime, InTimeIsNewest, RunnerTypeOK
<1>2. attempt' = [attempt EXCEPT ![h] = status] /\ task' = [task EXCEPT ![t] = status]
  BY DEF Settles
<1> HIDE DEF t, n
<1>3. /\ task' \in [Tasks -> TaskRunStatus]
      /\ attempt' \in [Attempts -> TaskAttemptStatus \cup {Absent}]
      /\ attempt'[h] = status /\ task'[t] = status
      /\ \A g \in Attempts : g # h => attempt'[g] = attempt[g]
      /\ \A u \in Tasks : u # t => task'[u] = task[u]
      /\ \A g \in Attempts : attempt'[g] = Absent <=> attempt[g] = Absent
  <2>1. status \in TaskRunStatus /\ status \in TaskAttemptStatus /\ status # Absent
    BY DEF AttemptTerminal, TaskRunStatus, TaskAttemptStatus, Absent
  <2> QED
    BY <1>1, <1>2, <2>1 DEF RunnerTypeOK
<1>4. NoGaps'
  BY <1>3, AttemptIsPair DEF NoGaps
<1>5. InTimeIsNewest'
  <2>1. \A g \in InTime : g \in Attempts /\ TaskOf(g) \in Tasks
    BY AttemptIsPair DEF InTime, RunnerTypeOK
  <2> QED
    BY <1>3, <2>1, AttemptIsPair DEF InTimeIsNewest
<1>6. TaskFollowsAttempts'
  <2> SUFFICES ASSUME NEW u \in Tasks, NEW m \in 1 .. AttemptBound,
                      attempt'[<<u, m>>] # Absent,
                      m < AttemptBound => attempt'[<<u, m + 1>>] = Absent,
                      task'[u] \in {"SUCCEEDED", "FAILED"}
               PROVE  attempt'[<<u, m>>] = task'[u]
    BY DEF TaskFollowsAttempts
  <2>1. AttemptBound \in Nat \ {0} /\ (m < AttemptBound => m + 1 \in 1 .. AttemptBound)
    BY AttemptsAreNumbered
  <2>2. <<u, m>> \in Attempts /\ (m < AttemptBound => <<u, m + 1>> \in Attempts)
    BY <2>1, AttemptIsPair
  <2>3. attempt[<<u, m>>] # Absent /\ (m < AttemptBound => attempt[<<u, m + 1>>] = Absent)
    BY <1>3, <2>2
  <2>4. CASE u # t
    <3>1. <<u, m>> # h
      BY <1>1, <2>4
    <3> QED
      BY <1>3, <2>2, <2>3, <2>4, <3>1 DEF TaskFollowsAttempts
  <2>5. CASE u = t
    <3>1. ~ (n < m)
      BY <1>1, <2>3, <2>5
    <3>2. ~ (m < n)
      <4> SUFFICES ASSUME m < n PROVE FALSE
        OBVIOUS
      <4>1. m < AttemptBound /\ m + 1 \in 1 .. AttemptBound /\ (m + 1 = n \/ m + 1 < n)
        BY <1>1, <2>1
      <4>2. attempt[<<t, m + 1>>] # Absent
        BY <1>1, <4>1 DEF NoGaps
      <4> QED
        BY <2>3, <2>5, <4>1, <4>2
    <3>3. m = n
      BY <1>1, <3>1, <3>2
    <3> QED
      BY <1>1, <1>3, <2>5, <3>3
  <2> QED
    BY <2>4, <2>5
<1> QED
  BY <1>3, <1>4, <1>5, <1>6

\* The run is wound up: what no worker is busy with is cancelled, the workers
\* are stopped, their completions drained, as far as that goes.
LEMMA TornIsWoundUp ==
    ASSUME Torn, CapacityInv', Coordinator
    PROVE  Torn'
<1> USE DEF Torn
<1>1. BeginCancellation \/ (\E h \in Attempts : StopExecution(h)) \/ StopPassEnds
      \/ DrainsNext \/ DrainEnds
  BY DEF Coordinator, TopMarksReady, DispatchRetry, PassOverRetry, RetryPassEnds,
         DispatchReady, PassOverReady, DispatchPassEnds, Recheck, TakeCompletion,
         WaitTimesOut, Expire, ExpirePassEnds, DrainCancelled, DrainTerminal, Finish
<1>2. CASE BeginCancellation
  <2>1. /\ UNCHANGED <<definition, run, attempt, outputs, lastEvent, active, timedOut,
                       failed, stopped, worker, queue, cancelRequested, interrupted, todo>>
        /\ visit = {} /\ pending' = [t \in Tasks |-> 0] /\ eligible' = {}
        /\ \/ pc' = "drain" /\ visit' = visit
           \/ pc' = "stop" /\ visit' = active
        /\ \A t \in Tasks : task'[t] \in {task[t], "CANCELLED"}
        /\ task' \in [Tasks -> TaskRunStatus]
    BY <1>2 DEF BeginCancellation, Goes, environment, RunnerTypeOK, TaskRunStatus
  <2>2. RunnerTypeOK'
    BY <2>1, AttemptsAreNumbered DEF RunnerTypeOK, CapacityInv, CoordinatorStep, Pending
  <2>3. InTime' = InTime
    BY <2>1 DEF InTime
  <2>4. TaskFollowsAttempts'
    BY <2>1 DEF TaskFollowsAttempts
  <2>5. NoGaps' /\ InTimeIsNewest' /\ OneLiveWorkerPerTask'
    BY <2>1, <2>3 DEF NoGaps, InTimeIsNewest, OneLiveWorkerPerTask
  <2> QED
    BY <2>1, <2>2, <2>4, <2>5
<1>3. CASE (\E h \in Attempts : StopExecution(h)) \/ StopPassEnds
  <2>1. /\ UNCHANGED <<definition, records, active, timedOut, pending, eligible, failed,
                       environment, todo>>
        /\ pc = "stop" /\ visit' \subseteq active /\ stopped' \subseteq Attempts
        /\ pc' = "stop" \/ (pc' = "drain" /\ visit' = {})
    <3>1. CASE \E h \in Attempts : StopExecution(h)
      BY <1>3, <3>1 DEF StopExecution, RunnerTypeOK
    <3>2. CASE StopPassEnds
      BY <1>3, <3>2 DEF StopPassEnds, Goes, locals, RunnerTypeOK
    <3> QED
      BY <1>3, <3>1, <3>2
  <2>2. RunnerTypeOK'
    BY <2>1 DEF RunnerTypeOK, CapacityInv, CoordinatorStep, Pending, records, environment
  <2>3. InTime' = InTime
    BY <2>1 DEF InTime
  <2>4. NoGaps' /\ InTimeIsNewest' /\ OneLiveWorkerPerTask' /\ TaskFollowsAttempts'
    BY <2>1, <2>3 DEF NoGaps, InTimeIsNewest, OneLiveWorkerPerTask, TaskFollowsAttempts,
                      records, environment
  <2> QED
    BY <2>1, <2>2, <2>4 DEF environment
<1>4. CASE DrainsNext
  <2> DEFINE h == Head(queue).handle
             status == DrainedStatus(h, Head(queue).outcome)
  <2>1. /\ queue # << >> /\ pc = "drain" /\ visit = {}
        /\ UNCHANGED <<definition, run, outputs, todo, visit, pending, eligible, failed,
                       stopped, worker, cancelRequested, interrupted>>
    BY <1>4 DEF DrainsNext
  <2>2. CASE ~ (h \in active /\ CompletionLegal(h))
    <3>1. pc' = "raised" /\ UNCHANGED <<task, attempt, lastEvent, active, timedOut, queue>>
      BY <1>4, <2>2 DEF DrainsNext
    <3> HIDE DEF h, status
    <3>2. RunnerTypeOK'
      BY <2>1, <3>1 DEF RunnerTypeOK, CapacityInv, CoordinatorStep, Pending
    <3>3. InTime' = InTime
      BY <3>1 DEF InTime
    <3>4. NoGaps' /\ InTimeIsNewest' /\ OneLiveWorkerPerTask' /\ TaskFollowsAttempts'
      BY <2>1, <3>1, <3>3
         DEF NoGaps, InTimeIsNewest, OneLiveWorkerPerTask, TaskFollowsAttempts
    <3> QED
      BY <2>1, <3>1, <3>2, <3>4
  <2>3. CASE h \in active /\ CompletionLegal(h)
    <3>1. /\ active' = active \ {h} /\ timedOut' = timedOut \ {h} /\ queue' = Tail(queue)
          /\ \/ h \in timedOut /\ UNCHANGED <<task, attempt, lastEvent>>
             \/ h \notin timedOut /\ Settles(h, status) /\ lastEvent' \in {lastEvent, "task"}
          /\ pc' = pc
      BY <1>4, <2>3 DEF DrainsNext, LetsGo
    <3>2. status \in AttemptTerminal
      BY DEF DrainedStatus, AttemptTerminal
    <3> HIDE DEF h, status
    <3>3. queue' \in Seq([handle: Attempts, outcome: Outcome])
      BY <2>1, <3>1, QueueIsTyped
    <3>4. InTime' \subseteq InTime
      BY <3>1 DEF InTime
    <3>5. /\ task' \in [Tasks -> TaskRunStatus]
          /\ attempt' \in [Attempts -> TaskAttemptStatus \cup {Absent}]
          /\ NoGaps' /\ InTimeIsNewest' /\ TaskFollowsAttempts'
      <4>1. CASE h \in timedOut
        BY <3>1, <3>4, <4>1
           DEF NoGaps, InTimeIsNewest, TaskFollowsAttempts, RunnerTypeOK
      <4>2. CASE h \notin timedOut
        <5>1. h \in InTime
          BY <2>3, <4>2 DEF InTime
        <5> QED
          BY <3>1, <3>2, <3>4, <4>2, <5>1, TornSettles
      <4> QED
        BY <4>1, <4>2
    <3>6. lastEvent' \in EventKind
      BY <3>1 DEF RunnerTypeOK, EventKind
    <3>7. RunnerTypeOK'
      BY <2>1, <3>1, <3>3, <3>5, <3>6 DEF RunnerTypeOK, CapacityInv, Pending
    <3>8. OneLiveWorkerPerTask'
      BY <2>1 DEF OneLiveWorkerPerTask
    <3> QED
      BY <2>1, <3>1, <3>5, <3>7, <3>8
  <2> QED
    BY <2>2, <2>3
<1>5. CASE DrainEnds
  <2>1. /\ UNCHANGED <<definition, task, attempt, outputs, locals, environment, todo, visit>>
        /\ pc = "drain" /\ pc' \in {"returned", "raised"}
        /\ run' \in {run, "CANCELLED"} /\ lastEvent' \in {lastEvent, "ended"}
    BY <1>5 DEF DrainEnds, Goes
  <2>2. RunnerTypeOK'
    BY <2>1 DEF RunnerTypeOK, CapacityInv, CoordinatorStep, Pending, locals, environment,
                WorkflowRunStatus, EventKind
  <2>3. InTime' = InTime
    BY <2>1 DEF InTime, locals
  <2>4. NoGaps' /\ InTimeIsNewest' /\ OneLiveWorkerPerTask' /\ TaskFollowsAttempts'
    BY <2>1, <2>3 DEF NoGaps, InTimeIsNewest, OneLiveWorkerPerTask, TaskFollowsAttempts,
                      environment
  <2> QED
    BY <2>1, <2>2, <2>4 DEF environment
<1> QED
  BY <1>1, <1>2, <1>3, <1>4, <1>5

\* It stays so.
LEMMA TornStays ==
    ASSUME Torn, CapacityInv', [RunnerNext]_runnerVars
    PROVE  Torn'
<1> USE DEF Torn
<1>1. CASE Coordinator
  BY <1>1, TornIsWoundUp
<1>2. CASE \/ \E h \in Attempts : Worker(h)
           \/ \E t \in Tasks : BackoffEnds(t)
           \/ UNCHANGED runnerVars
  <2>1. /\ UNCHANGED <<definition, records, loops, active, timedOut, pending, failed, stopped,
                       cancelRequested, interrupted, capacityVars>>
        /\ eligible' \subseteq Pending
        /\ worker' \in [Attempts -> {"idle", "running", "freed", "reported"}]
        /\ \A h \in Attempts :
              \/ worker'[h] = worker[h]
              \/ worker[h] \in {"running", "freed"} /\ worker'[h] \in {"freed", "reported"}
        /\ queue' \in Seq([handle: Attempts, outcome: Outcome])
    BY <1>2, OthersKeepTypes
  <2>2. RunnerTypeOK'
    BY <2>1 DEF RunnerTypeOK, records, loops, CapacityInv, Pending
  <2>3. InTime' = InTime
    BY <2>1 DEF InTime
  <2>4. NoGaps' /\ InTimeIsNewest' /\ TaskFollowsAttempts'
    BY <2>1, <2>3 DEF NoGaps, InTimeIsNewest, TaskFollowsAttempts, records
  <2>5. OneLiveWorkerPerTask'
    BY <2>1 DEF OneLiveWorkerPerTask
  <2> QED
    BY <2>1, <2>2, <2>4, <2>5 DEF loops
<1>3. CASE RequestCancellation
  <2>1. /\ UNCHANGED <<definition, records, loops, locals, worker, queue, interrupted,
                       capacityVars>>
        /\ cancelRequested' = TRUE
    BY <1>3 DEF RequestCancellation
  <2>2. RunnerTypeOK'
    BY <2>1 DEF RunnerTypeOK, records, loops, locals, CapacityInv, Pending
  <2>3. InTime' = InTime
    BY <2>1 DEF InTime, locals
  <2>4. NoGaps' /\ InTimeIsNewest' /\ OneLiveWorkerPerTask' /\ TaskFollowsAttempts'
    BY <2>1, <2>3 DEF NoGaps, InTimeIsNewest, OneLiveWorkerPerTask, TaskFollowsAttempts,
                      records
  <2> QED
    BY <2>1, <2>2, <2>4 DEF loops, locals
<1>4. ~ InterruptBetween /\ ~ InterruptWithin
  BY DEF InterruptBetween, InterruptWithin, InterruptInDispatch, InterruptInTimeout,
         InterruptInCompletion, InterruptAfterFailure, InterruptAfterEnd,
         HandlesInterrupt
<1> QED
  BY <1>1, <1>2, <1>3, <1>4 DEF RunnerNext, RunEnded

-----------------------------------------------------------------------------
(* The invariant and what it is for.                                       *)

\* The run goes on, or was left by a refusal, or is wound up.
RunnerInv == Undisturbed \/ Refused \/ Torn

\* Every step of the coordinator, of a worker, of the clock and of whoever
\* cancels or interrupts keeps it.
LEMMA RunnerInductive == RunnerInv /\ [RunnerNext]_runnerVars => RunnerInv'
<1> SUFFICES ASSUME RunnerInv, [RunnerNext]_runnerVars PROVE RunnerInv'
  OBVIOUS
<1>1. CapacityInv'
  <2>1. CapacityInv /\ RunnerTypeOK
    BY DEF RunnerInv, Undisturbed, Refused, Torn
  <2>2. RunnerCore
    BY <2>1 DEF RunnerTypeOK, RunnerCore
  <2> QED
    BY <2>1, <2>2, RunnerCoreInductive, CapacityInvInductive
<1>2. CASE Refused \/ Torn
  BY <1>1, <1>2, RefusalStays, TornStays DEF RunnerInv
<1>3. CASE Undisturbed
  <2>1. CASE Coordinator
    <3>1. CASE (DispatchRetry \/ DispatchReady) /\ pc' = "raised"
      BY <1>1, <1>3, <3>1, RefusalIsLeft DEF RunnerInv
    <3>2. CASE ~ ((DispatchRetry \/ DispatchReady) /\ pc' = "raised")
      BY <1>1, <1>3, <2>1, <3>2, PassesKeep, WaitsKeep, EndsKeep, ExpireKeeps,
         TakeCompletionKeeps, DrainsNextKeeps, DispatchRetryKeeps, DispatchReadyKeeps,
         TopMarksReadyKeeps, BeginCancellationKeeps
         DEF Coordinator, DrainCancelled, DrainTerminal, RunnerInv
    <3> QED
      BY <3>1, <3>2
  <2>2. CASE \E h \in Attempts : Worker(h)
    BY <1>1, <1>3, <2>2, WorkersKeep DEF RunnerInv
  <2>3. CASE RequestCancellation \/ \E t \in Tasks : BackoffEnds(t)
    BY <1>1, <1>3, <2>3, SignalsKeep DEF RunnerInv
  <2>4. CASE InterruptBetween
    <3>1. interrupted' \in {"between", "within"}
      BY <2>4 DEF InterruptBetween, HandlesInterrupt
    <3> QED
      BY <1>1, <1>3, <2>4, <3>1, WaitsKeep, UnnotedFailureTears DEF RunnerInv
  <2>5. CASE InterruptWithin
    BY <1>1, <1>3, <2>5, DispatchTears, TakingTears, EndTears DEF InterruptWithin, RunnerInv
  <2>6. CASE UNCHANGED runnerVars
    BY <1>1, <1>3, <2>6, StutterKeeps DEF RunnerInv
  <2> QED
    BY <2>1, <2>2, <2>3, <2>4, <2>5, <2>6 DEF RunnerNext, RunEnded
<1> QED
  BY <1>2, <1>3 DEF RunnerInv

\* As long as run() is at work, its records, its view of the executions, their
\* leases and the workers agree; a refused submission leaves exactly its own
\* attempt behind; and an interrupt within a unit of work leaves a run in which
\* nothing more is started (ConcurrentRunner.run).
THEOREM RunnerInvariant == RunnerSpec => []RunnerInv
<1>1. RunnerInit => RunnerInv
  BY RunnerStarts DEF RunnerInv
<1> QED
  BY <1>1, RunnerInductive, PTL DEF RunnerSpec

\* Every worker that may still report is one the coordinator waits for, with
\* its lease, unless an interrupt hit the middle of a unit of work; and no task
\* ever has two workers at once, however timeouts, retries, failures, refusals,
\* cancellations and interrupts meet (_active_executions).
THEOREM WorkersStayAccountedFor == RunnerSpec => []WorkersAreAccountedFor
<1>1. RunnerInv => WorkersAreAccountedFor
  <2> SUFFICES ASSUME RunnerInv PROVE WorkersAreAccountedFor
    OBVIOUS
  <2>1. CASE Undisturbed
    <3> USE <2>1 DEF Undisturbed
    <3>1. Leased = active /\ OneLiveWorkerPerTask
      BY LeasesAreActive
    <3>2. active = {h \in Attempts : worker[h] \in {"running", "freed"} \/ Queued(h)}
      BY DEF Ownership, RunnerTypeOK
    <3>3. {h \in Attempts : RefusedSubmission(h)} = {}
      BY <3>1 DEF RefusedSubmission
    <3> QED
      BY <3>1, <3>2, <3>3 DEF WorkersAreAccountedFor, EveryExecutionIsOwned
  <2>2. CASE Refused \/ Torn
    BY <2>2 DEF Refused, Torn, WorkersAreAccountedFor
  <2> QED
    BY <2>1, <2>2 DEF RunnerInv
<1> QED
  BY <1>1, RunnerInvariant, PTL

\* A refused submission is the only thing that run() raises for, apart from an
\* interrupt in the middle of a unit of work; the task follows its attempts in
\* every case; and a run that returned has settled, for every acyclic workflow
\* and every executor (ConcurrentRunner.run).
THEOREM RecordsAlwaysFollowWork == RunnerSpec => []RecordsFollowWork
<1>1. RunnerInv => RecordsFollowWork
  BY DEF RunnerInv, Undisturbed, Refused, Torn, RecordsFollowWork, RaisesOnlyWhenRefused,
         ReturnedRunLeavesNothing, PositionKnows
<1> QED
  BY <1>1, RunnerInvariant, PTL

=============================================================================
