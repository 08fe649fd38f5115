# TLA+ models and proofs of pyworkflowkit

This directory models how pyworkflowkit drives, retries, cancels, resumes,
prunes and repairs workflow runs, in both of its generations: the V2 runtime
(`runtime/`, `executors/`, `persistence/`) and the V1 runners it replaces
(`application/`, `adapters/`), with the planner, the stores, the plugin
catalogs and the boundaries to external jobs. The models are checked with TLC
on small instances; their safety, every invariant that a run checks included, is
proved with TLAPS for every value of the constants. Paths below are relative to
`src/src/pyworkflowkit/`.

## 1. The system

| Component | State | Operations | Interacts with |
|---|---|---|---|
| V2 state machines (`states/`) | none: three transition tables | `transition` | every update of the store |
| V2 retry policy (`policies/retry.py`, `diagnostics/failure.py`) | none | `RetryEvaluator.evaluate`, `_delay` | the attempt loop |
| V2 metadata stores (`persistence/memory.py`, `sqlite.py`, `postgresql.py`) | workflow run, task runs, attempts, external references, checkpoints, transitions, manifests | `create_*`, `append_*`, compare-and-set `update_*`, lists, `prune_runs` | every thread, under a lock or in one transaction |
| V2 run loop (`runtime/workflow.py`: `run`; `_attempts.py`, `_readiness.py`, `policies/trigger.py`) | the thread's copies of the records, the plan cursor, `_active_requests` | create records, readiness, attempt loop, success, failure, fail-fast | store, executors, retry policy |
| V2 cancellation (`runtime/workflow.py`: `cancel`, `cancel_task`) | copies of the records per call | request, ask the executor, settle attempt, task, run | store, `_active_requests`, executors; races with the run loop |
| V2 reconciliation (`runtime/reconciliation.py`) | copies of the records per call, a report | repair tasks, resolve attempts from external runs, settle the run | store after a crash; other reconcilers |
| V2 selective resume (`runtime/_resume.py`) and retention (`persistence/retention.py`) | none of their own | choose which results of a parent run are reused; `prune_runs` | store of the parent run |
| V2 executors (`executors/*.py`) | active executions, places, pools, child processes | `execute`, `cancel`, `shutdown`, deadlines | run loop and cancellation |
| Planner (`authoring/`, `planning/`, `application/planning.py`) | the live task objects, their keys and the links between them | `>>`, validate, plan in layers | the plan the runtimes trust |
| Evidence (`diagnostics/`, `lineage/`) | none | recovery assessment, manifest, lineage | reads the store at any moment |
| V1 concurrent runner (`application/concurrent_runner.py`, `capacity.py`, `completion.py`) | executions in flight, leases, timers, completions | schedule, time out, retry, cancel, drain | V1 executors through a completion queue |
| V1 runner, recovery, reconciliation, manifest (`application/`) | V1 records | `run`, `resume`, reconcile, assess | V1 store, external providers, other processes |
| V1 executors and stores (`adapters/`) | handles, workers, completion queue; units of work | `submit`, `terminate`, `shutdown`; `commit`, `rollback` | V1 runners |
| Plugin catalogs (`plugins/`) | registrations, instances, the discovery report | `discover`, `enable_selected`, `create` | installed entry points |
| Integrations (`integrations/`) | none | translate the answer of another runtime into a result | retry policy |
| V1 to V2 (`_compat/v1_to_v2.py`) | none | migrate definitions and stored runs | planner, retry policy, recovery |
| Authoring, serialization, contracts, control plane, telemetry, CLI | declarations, exporters | conversions, views | public API |

What is hard in it, and what must nevertheless be true:

- **Stale copies.** The run thread keeps copies of its records as the expected
  status of its next update; `cancel`, `cancel_task`, `reconcile` and the V1
  `resume` do the same. Stored statuses must still only move along the tables,
  an attempt and its task must agree, and a `CONFIRMED` reply must be true.
- **Several writes for one fact.** An attempt, its task and its run are settled
  by three updates. A second canceller, the run thread, another process or a
  crash may fall in between, and an observer may read in between.
- **Unknown outcomes.** A soft timeout, a lost request or lost contact with an
  external job leaves an effect that may still land. No attempt may follow it.
- **Late answers.** A completion, a timeout and a cancellation of one attempt
  race; one of them settles it, and its place is given back exactly once.
- **Crash.** What was stored stays; repair must end, must not contradict an
  attempt and must justify the status it gives. Two processes may believe that
  they own a run.
- **Places.** Limits per task, executor and pool, while workers outlive the
  calls that started them.
- **Chains of resumes.** A reused result must fit the other results of its run,
  although the run it comes from may be pruned meanwhile.
- **Progress.** Runs, cancellations, resumes, executor calls and repairs end.

`PROJECT.json` lists each hazard at its line with the properties that cover it.

## 2. Modules

    RunStates                  statuses and transition tables
      MetadataStore            the records of one run; one operator per store call
      RelationalStore          the same contract as SQL transactions
      RunHistory               many runs, checkpoints, prune_runs
        SelectiveResume        run(), resume_run() over that history
    RetryPolicy                the retry decision as a pure relation
      RetryLoop                one task, its clock and its policy
        DefinitionMigration    a V1 definition brought to V2 and run there
      ExternalWorkloads        a task that is a job of another runtime
        RepetitionProofs         theorems about the three loops and about resume
    RunLoop                    run(): MetadataStore + RetryPolicy
      Cancellation             cancel(), cancel_task(), on top of RunLoop
        WorkflowRuntime        composition, fairness, properties, the view as a ledger
          WorkflowRuntimeProofs  the store, dispatch, cancellations, verdicts, RunLedger
          RunEvidence          assessment, manifest, lineage
          RunRecovery          crash and reconcile_run
            RunEndProofs         returned runs; repaired runs and reports
    RunLedger                  what a client may believe about a run
    ExecutorCalls              what the V2 executors share
      ThreadExecutor, AsyncExecutor, ProcessExecutor, SubprocessExecutor
        Executors              composition, inline executor, properties
    LegacyExecutors            the four queue-based V1 executors
      ExecutorProofs           theorems about both generations
    LegacyStates               V1 statuses
      CapacityManager          leases (no statuses)
        ConcurrentRunner       one V1 run(), with LegacyStates
          ConcurrentRunnerProofs  theorems about both
      SequentialRunner         V1 run() and resume() by several processes
        LegacyEvidence         manifest, assessment, export, migration
          SequentialProofs       theorems about both
    WorkflowPlanning           linking, cycles, plans of both generations
      PlanningProofs           walks, worklist and layers
    UnitsOfWork                V1 stores and overlapping units of work
    PluginCatalogs             plugin registries of both generations
      StoreProofs              theorems about these two and RelationalStore
    MC*                        instances for TLC

**RunStates** is `states/machine.py` as functions from a status to the set of
its successors; **LegacyStates** is the same for V1.

**MetadataStore.** One operator per critical section of the store's lock. An
update takes the status the caller expects; it is accepted when the table has
`expected -> target` (checked by the state machine before the call) and the
store still holds `expected` (checked by the store). The attempts of a task are
a sequence, because `append_task_attempt` numbers them without gaps.

**RelationalStore** does each of those operations as a transaction in three
steps: reads without a lock, the write that takes it and may be refused by a
constraint or the row count, the commit. Its log of state transitions is part of
the commit. `ImplementsStore` maps it back to the compare-and-set contract; the
runtime modules rely on the contract only.

**RetryPolicy** follows `RetryEvaluator.evaluate` branch by branch. Its result
is a set because full jitter draws any delay up to the capped one. Delays are
whole seconds. The only property of floats kept is the one that bites:
`2 ** (n - 1)` no longer converts to a float from `FloatExponentLimit` on (1024
in CPython), and `evaluate` then raises (`decision = "raises"`). **RetryLoop** is
the attempt loop with its clock. **ExternalWorkloads** is the loop around a
wrapped job: a wrapper is honest when it names an end, but may lose its job and
raise, answer something else, or say that it does not know.
**DefinitionMigration** converts a V1 task definition, or refuses it, and states
next to it what V1's `RetryEngine` would have answered.

**RunLoop.** One action per call the run thread makes to the store, to
`_active_requests` or to the executor, in code order: `pc` names the next call.
`runView`, `taskView`, `attemptView` are the local variables of the thread. An
update that the table or the store refuses raises out of `run()` (`pc =
"raised"`). `EndExecute` picks any outcome of `Outcomes`. An executor may report
`cancelled` although nobody asked it to (`inline.py:115`, `_common.py:69`,
`asyncio.py:361`): the update of the attempt is then refused and `run()` raises. An
execution that a cancel request interrupted may still have finished first. A
result names at most one external run, the one of its attempt.

**Cancellation.** The local variables of each call are a record `call[c]`.
A caller makes one call, of `cancel` (`whole`) or of `cancel_task`; `cancel`
runs the steps of `cancel_task` for each task it listed as RUNNING, as the code
does. `CancelReplies[t]` is what the executor of task `t` may reply; the empty
set is an executor without the capability. `AskExecutor` covers the window in
which the request is registered but the execution has not begun or has already
ended. The reference that an executor's reply names is appended afterwards,
without a look at what has become of the attempt, as the store allows.

**RunLedger** is the abstract specification of a run: tasks and run are open
until they get one verdict, an attempt is live until it ends, a task that
succeeded is known by a successful attempt, nothing is attempted before its
dependencies, nothing follows an attempt of unknown end. WorkflowRuntime
reads the ledger off its stored records. **RunEvidence** states what
observers make of the same records. Each inspector is a thread of its own that
reads the run, the list of its tasks and then, task by task, status, attempts
and references; `begun` is a history variable with the tasks that had an attempt
when it began.

**RunRecovery** adds `Crash` at any moment after the run's record exists, and
reconcilers that read, observe external runs, repair, report and may die at any
step; a reconciler may also start once `run()` has ended in a live process.

**RunHistory** and **SelectiveResume.** Runs are numbered by creation. An output
carries the run that computed it and, per upstream task, the run whose output it
was computed from, so that "the reused results fit together" can be stated. A
resume reads the parent run, its tasks and one checkpoint after the other, and
then makes the records of its run and executes them call by call; `Accepts` is
what the store asks of each of these calls, `Raise` what becomes of the caller
when it is refused. `cancel()` may take a run at any point of its call: it is
CANCELLED, and may be resumed or pruned, while the call goes on. The memory store
prunes in one step, the SQLite store in batches.

**Executors.** A step is what one thread does under the executor's lock, or
between two of them: the caller of `execute`, the worker (thread, coroutine,
child process, external program), the deadline, `cancel` and `shutdown`.
**LegacyExecutors** is the same for `submit`, `terminate` and `shutdown` of V1,
with the completion queue.

**CapacityManager, ConcurrentRunner.** The coordinator's units of work are its
actions; workers, timers and a cancelling thread interleave with them. The
completion queue is a sequence; a timed-out attempt may still complete later.
`Definitions` chooses the workflow, its retries and timeouts, what the
executor can cancel, which submissions it refuses and whether Ctrl-C may come.
`SubmitAccepted` is the guard of a submission that goes well; a refused one leaves
its attempt stored as RUNNING and leased, and `run()` raises. An interrupt hits
the coordinator between two units of work (`InterruptBetween`) or inside one
(`InterruptWithin`: after an attempt was stored, after a completion was taken,
after a failure or the end of the run was stored, after a timeout was noted).

**SequentialRunner** has process 1 in `run()` and the others in `resume_run()`;
each transaction is a step and a process may die between any two. The V1 store
saves unconditionally: only the uniqueness of event and attempt numbers keeps
two processes apart. **LegacyEvidence** reads the same records: manifest,
recovery assessment, semantic export and migration to V2, with the V2
assessment of the migrated run.

**WorkflowPlanning.** A task object has an identity and a key. `>>` tracks links
by identity and writes dependencies down by key, so that two objects of one key,
or one that is built again after another was collected, are different things to
`>>` and the same thing to the definition. Authors construct, link and let go of
objects in any order and define a workflow of some of them; then either
generation validates and plans. What a walk finds is
stated as the least set closed under the edges (`Reaches`), not as a search.

**UnitsOfWork** is the V1 unit of work on its three stores, with crashes. **PluginCatalogs** loads
entry points that may fail in each way and enables them in both registries.

Abstractions common to all modules:

- Names, payloads, timestamps, reasons and texts are left out; no property reads
  them. Telemetry never influences a decision.
- Where the code loops over a list the store returned, the model takes the
  elements in any order, unless the order is what the property is about.
- The wait before a retry is the time between two actions. `RetryLoop` models
  the clock itself.
- The listing, numbering and append of an attempt are one action in RunLoop:
  only the run thread appends. RelationalStore takes them apart.
- Operators named in a comment `Mutant:` are plausible mistakes, kept next to
  the definition they would replace. No specification uses them; they show that
  the property of a run can be violated by the code it is about.


## 3. Runs

Passing runs:

| Run | Instance | What it shows |
|---|---|---|
| `runtime_plain` | 3 tasks, the last joins the others, rules `always`, `any_failed`, `none_failed`; two attempts; every outcome; nothing, one or two tasks reused; young and old tasks; one inspector | Without cancellation an update of `run()` is refused only after an executor's unrequested CANCELLED, `run()` ends and leaves every task and the run settled, a task is attempted only when its trigger rule holds, and an assessment is not misled about a handler at work. |
| `runtime_cancel` | 2 chained tasks, two attempts, one caller of either kind, an executor that may confirm, accept or doubt | Whatever the interleaving: WorkflowRuntime implements RunLedger, stored statuses move legally, attempt and task agree, the manifest of a run that ended keeps what it says, every cancel call ends. |
| `runtime_two_callers` | 2 chained tasks, one attempt, two callers; only the executor of the second task can cancel | A confirmed task reply is never contradicted, no caller records a cancellation that no executor reported, no attempt is live behind a returned run. |
| `recovery` | 2 chained tasks, two attempts, crash anywhere, two reconcilers that may die, any external status but `not_found` (the same branch as `unknown`) | A run that ended is justified by its tasks and attempts, what a report calls resolved is settled for good, every reconcile call ends. |
| `retry_loop` | 512 policies by 17 failures with attempts of one or three seconds; the four integrations; 64 V1 definitions | Retries stay within attempts and budget and follow only known retryable failures; an externally owned job is started once and a lost one is not repeated; a migrated task retries as V1 would have, restricted to declared-retryable failures. |
| `v1_concurrent` | 3 tasks, the third after the first, a global limit of three over an executor that takes two; four definitions: soft and hard timeouts, retries, a refused submission, cancellation capability none, cooperative and hard, keyboard interrupt at and within any unit of work | Leases stay within limits and belong to live workers; an execution has one owner until it is accounted for; records follow work; `run()` returns. |
| `v1_resume` | 2 chained tasks, one retry, an external job, two processes that may die at every unit of work | A task is executed by one process, which had selected it; the manifest of whatever is stored can be built, a run moved to V2 while somebody executes is not called ready, every process comes to an end. |
| `executors` | five V2 and four V1 executors, two attempts, one place, one deadline, one V1 child that only ends when stopped | An outcome told is final and agrees with the reply to a cancellation, work holds its place and stays tracked, a shutdown that waited leaves nothing running, every call returns and every completion arrives. |
| `resume_retention` | 2 chained tasks, up to three runs, reuse with nothing or one task forced, one run cancelled at any moment, one prune with batches of one run, both kinds of store | The outputs of a run fit together along its whole chain of parents; pruning leaves no orphan and takes nothing from a call that goes on, unless its run was cancelled. |
| `planning` | 3 objects, 3 keys, any dependencies at construction and one unknown, every order of constructing, linking, collecting and rebuilding | No accepted link closes a cycle of objects, every cycle of keys is found by the validation, a plan has every task after its dependencies. |
| `stores` | 2 writers, 2 attempts, 5 commits on three V2 backends; 2 writers, 4 units of work on three V1 backends; 2 entry points with every way to fail | The log of transitions matches the records without gaps, the transactions implement the contract, units of work follow each other, catalogs tell what is enabled. |

The run that ends in a counterexample checks a statement of the documentation
that the code does not keep (`findings` in `PROJECT.json`): `claim_dispatch`,
"Workflow cancellation additionally stops dispatching tasks that have not
started." `run()` looks at its run only after an attempt, and not before it
starts a task. In the trace `cancel()` stores its request and lists the task as
PENDING; `run()` makes the task READY, which makes `cancel()` raise on its own
update; `run()` then starts the task in a run whose cancellation is recorded.

**Bounds.** Two tasks are the least with a dependency, a listing of more than
one task and a fail-fast; three add a join, two different upstream statuses, two
executions at once while one waits, and a chain of reuse with a middle. Two
attempts are the least with a retry and with an attempt behind a terminal one.
The inspector of `runtime_plain` has no callers beside it: one task with a
canceller and an inspector, and `resume_retention` with two callers at once, hold
too but take too long to be checked each time; their theorems cover any number.
Two callers, reconcilers, writers or processes are the least that race with each
other; `AttemptBound`, `RunBound`, `PruneBound`, `BatchSize`, `CommitBound`,
`UnitBound`, `OfferBound` and `EnableBound` cap the counters of the modules that
declare them. `FloatExponentLimit` is scaled down to 2 in `retry_loop`, so that
four attempts go past it. Symmetry of the callers is used in
`runtime_two_callers` only, whose properties are invariants.

In `executors`, `retry_loop` and `stores` one variable chooses which part is at
work and the others stand still: a behaviour is about one of them.
`CHECK_DEADLOCK FALSE` stands where behaviours legally stop (no more attempts,
runs, units or tasks to declare).

**Fairness.** `FairSpec` assumes that the run thread and every call that has
begun are scheduled (weak fairness): they are plain threads, and nothing but an
executor call and the bounded wait before a retry blocks them. That includes the
end of an executor call: an `execute` that hangs for ever is outside that model
and the subject of `executors`. Beginning a cancellation is not fair.
`RecoveryFairSpec` assumes the same of a reconciler that has begun and nothing
of the dead process; `SequentialFairSpec` of each process, which may always die
instead. `RunnerFairSpec` adds that workers report and backoff timers elapse.
`ExecutorsFairness` and `LegacyFairness` assume that calls and workers proceed,
that a workload ends unless it is one that only ends when stopped, and that an
event loop runs until it is closed; nobody is obliged to cancel, to shut down or
to make a call. Weak fairness is enough because no thread waits for a condition
that another one may keep switching off.

**Mutants.** `PROJECT.json` pairs each property of each passing run with a
mistake that breaks it: a dropped guard, a missing reset, a swapped order. TLC
finds each one under the run's own configuration.

## 4. Proofs

The theorems hold for every value of the constants that satisfies the
assumptions stated where they are declared. Those that say something of the code:
`DependenciesPrecede`, `UpstreamPrecedes` and `PlansAreOrdered` (plan order is
topological, which `PlansAreSound` proves of the planner) and
`PlanRespectsDependencies`, the same of a V1 plan; `PlanIsNotEmpty` (a V1 plan
without tasks is refused, `application/planning.py`);
`PruneStatesTerminal` (`RetentionPolicy` refuses other states);
`FailuresAreNamed` (a V2 failure category keeps its own name when a V1 policy is
mapped, `_map_legacy_retry_category`); `RelationalBounds` (a checkpoint's content
is not the mark of a missing row, and the identifiers of attempts at hand are
finite). The others are bounds and types; `ProcessesAreNumbered` only gives
process 1 the call of `run()` and the others `resume_run`. The sets of callers, reconcilers, processes, tasks,
executors, writers and pools are arbitrary; no theorem needs them finite,
except for the tasks of a V1 plan and of a workflow that is planned.

Four theorems have a premise about the instance, and say so in their
statements: `ReportsMayBeReliedOn` and `UndisturbedRunsSettle` have no cancelling
threads (`Callers = {}`), because a cancellation can end a run over a task that
is still open and make an update of `run()` be refused; the latter also needs
`NothingOverflows`, that no attempt number reaches the exponent at which
`RetryEvaluator` raises (that an executor reports a cancellation nobody asked for
is no premise but an exception the property names). `ReturnedRunsLeaveNothingLive` needs `Unrivalled`: at
most one cancelling thread, or a policy that does not ask for reconciliation
(section 5). `UnitsFollow` needs that units of the memory store do not overlap
(`"v1-memory" \notin Overlapping`), because its commit replaces the whole state
(section 5); the run has the same restriction.

| Module | Theorem | States |
|---|---|---|
| `WorkflowRuntimeProofs` | `Invariant` | `Spec => []IInv` |
| | `TypeCorrect` | `Spec => []TypeOK` |
| | `StatusesMoveLegally` | `Spec => DurableStepsLegal` |
| | `DispatchIsSafe` | `Spec => []DispatchAfterDependencies` |
| | `AttemptsFollowFailures` | `Spec => []AttemptSequence` |
| | `CheckpointsAreResults` | `Spec => []CheckpointOnlySucceeded` |
| | `CancellationIsHonest` | `Spec => []CancellationsAreHonest` |
| | `VerdictInvariant` | `Spec => []VInv` |
| | `TaskFollowsItsAttempt` | `Spec => []TaskMatchesLastAttempt` |
| | `RuntimeImplementsLedger` | `Spec => ImplementsLedger`, the refinement of RunLedger |
| | `SettledRunIsJustified` | `Spec => []SettledRunHasSettledTasks` |
| | `AttemptsStayWithinPolicy` | `Spec => []AttemptsWithinPolicy` |
| `RunEndProofs` | `ReturnedRunsLeaveNothingLive` | `Spec => []ReturnedRunHasNoLiveAttempt`, if `Unrivalled` |
| | `ManifestsAreKept` | `Spec => TerminalManifestIsKept` |
| | `InspectionsSeeWork` | `InspectedSpec => []InspectionSeesWork` |
| | `UndisturbedRunsSettle` | `Spec => []UndisturbedRunSettles`, if nobody cancels |
| | `RecoveryInvariant` | `RecoverySpec => []RInv` |
| | `RecoveredRunsAreJustified` | `RecoverySpec => []RecoveredRunIsJustified` |
| | `ReportsAreTrue` | `RecoverySpec => []ReportedVerdictsLast` |
| | `ReportsMayBeReliedOn` | `RecoverySpec => []FullyResolvedReportIsTrue`, if nobody cancels |
| | `RecoveryKeepsRecordsInAgreement` | `RecoverySpec => [](TaskMatchesLastAttempt /\ DispatchAfterDependencies)` |
| | `RecoveryMovesLegally` | `RecoverySpec => DurableStepsLegal` |
| `RepetitionProofs` | `RetriesStayWithinPolicy` | `LoopSpec => []RetriesWithinPolicy` |
| | `OnlyKnownFailuresAreRetried` | `LoopSpec => RetryOnlyAfterKnownFailure` |
| | `MigrationKeepsRetries` | `MigrationSpec => []MigratedTaskRetriesAlike` |
| | `ExternalRetriesAreNotMultiplied` | `ExternalSpec => []ExternallyOwnedRunsOnce` |
| | `LostJobsAreLeftAlone` | `ExternalSpec => []LostJobIsNotRepeated` |
| | `ResumeInvariant` | `ResumeSpec => []ResumeInv` |
| | `OutputsAlwaysFitTogether` | `ResumeSpec => []OutputsFitTogether` |
| | `PruningIsAlwaysClean` | `ResumeSpec => PruningIsClean` |
| `ConcurrentRunnerProofs` | `CapacityIsKept` | `CapacitySpec => []LeasesWithinLimits` |
| | `RunnerUsesCapacity` | `RunnerSpec => CapacitySpec` |
| | `RunnerLeasesWithinLimits` | `RunnerSpec => []LeasesWithinLimits` |
| | `RunnerInvariant` | `RunnerSpec => []RunnerInv` |
| | `WorkersStayAccountedFor` | `RunnerSpec => []WorkersAreAccountedFor` |
| | `RecordsAlwaysFollowWork` | `RunnerSpec => []RecordsFollowWork` |
| `SequentialProofs` | `SequentialInvariant` | `SequentialSpec => []SequentialInv` |
| | `ExecutionsAreClaimed` | `SequentialSpec => []ExecutionIsClaimed` |
| | `ManifestsCanBeBuilt` | `SequentialSpec => []ManifestCanBeBuilt` |
| | `LiveWorkIsAlwaysSeen` | `SequentialSpec => []LiveWorkIsSeen` |
| `StoreProofs` | `RecordsAgree` | `RelationalSpec => []RecordsAndLogAgree` |
| | `StoreIsImplemented` | `RelationalSpec => ImplementsStore`, the contract of MetadataStore |
| | `UnitsFollow` | `UnitSpec => []UnitsFollowEachOther`, if memory units do not overlap |
| | `CatalogsAreTruthful` | `PluginsSpec => []CatalogIsTruthful` |
| `ExecutorProofs` | `ExecutorsAreTyped` | `ExecutorsSpec => []ExecutorsTypeOK` |
| | `OutcomesAreFinal` | `ExecutorsSpec => []ToldOutcomesAreFinal` |
| | `ConfirmedProgramsAreCancelled` | `ExecutorsSpec => []ConfirmedProgramIsNotResult` |
| | `RunningWorkIsHeld` | `ExecutorsSpec => []WorkIsHeld` |
| | `LegacyHandlesAreAccountedFor` | `LegacySpec => []HandlesAreAccountedFor` |
| `PlanningProofs` | `PlansAreSound` | `PlanningSpec => []PlanningIsSound` |

**The store and its callers.** The first part of `WorkflowRuntimeProofs` proves,
for any one store operation with any arguments its callers may pass
(`StoreStep`), that types, legal moves, attempt sequence and checkpoints are
preserved, one step per operation. The second proves that every action of every
thread is such a step, one case per action. `IInv` is needed because types alone
are not inductive. `ReloadAttempt` and `ReadAttemptAfter` index the attempts of a
task, which is defined only if the attempt exists: `InFlightHasAttempt` and
`CallsAreReady` say that the program counters guarantee it, and stay true because
no store step removes an attempt. `DispatchingIsDispatchable` carries the
readiness decision from `EvaluateReadiness` through retries to the append: it
survives because upstream tasks are terminal and a terminal status never changes,
whoever cancels meanwhile. `HonestInv`, at the end of the module, traces a
CANCELLED attempt of an executor that cannot cancel back to who said so. It is
never the answer that a call carries from the executor to the store
(`CallsAreHonest`), and no request has interrupted the execution
(`ExecutionIsHonest`); so it is the result of the attempt itself, which the run
thread recorded and goes no further with (`CancelledIsTraced`).

**Verdicts.** That a task agrees with its attempt, and a run with its tasks, is
not visible in a single store operation: the reason is read in one step and
written in a later one, with other threads in between. `VInv` has three parts.
`RecordsAgree`: what is stored already has its reason. `RunThreadKnows` and
`CallsKnow`: at each program counter, what the run thread or a cancel call is
about to write is still due. The proof shows, per thread, that its own step
establishes what it will need next (`RunEffect`, `CallEffect`) and that a step
of any other thread cannot take it away (`RunThreadIsUndisturbed`): statuses
that are reasons are terminal, and the compare-and-set refuses a write whose
premise was overtaken. So each step writes only what is due (`DueStep`). The
refinement follows, because a due step is a step of RunLedger or a stutter
(`DueStepIsLedgerStep`). `AttemptsWithinPolicy` rests on the same knowledge: the
run thread alone appends, and it does so after the policy allowed it.

**The end of a run.** An attempt comes back to life by one transition only, from
REQUIRES_RECONCILIATION to RUNNING, and only a canceller takes it. `RestInv`
follows a canceller from its request to the answer (`ClaimStands`) and shows that
this takes two of them. `ManifestInv`: the run thread returns on its verdict, all
tasks are terminal then, and the compare-and-set leaves the cancellers no status to
change; the references of late replies are all they can still add
(`LateReferencesOnly`). `StopInv`: a confirmation comes from an executor that has
stopped, so a handler at work has a task that is not cancelled. `InspectedInv`
follows an inspector through its reads: each task that had an attempt when it began
is listed, and of those it has passed either one made it ask for recovery or all
were over, and stay so (`InspectionKnows`). `UndisturbedInv`: with no canceller the
copies of the run thread are what is stored, so every update is accepted, except
those that would record a cancellation which the executor reported of its own.

**Recovery.** A reconciler begins only when the run thread is gone, so that from
then on nothing is tried or created any more and what ended stays ended. That is
why what a reconciler has read remains a reason for what it repairs three steps
later (`RepairKnows`), although other reconcilers and cancellers write in
between, and why a report stays true (`ReportHolds`). A verdict SUCCEEDED is the
delicate one: it needs that all records of the plan existed before anything was
taken up (`CreationComesFirst`), also for a canceller that makes the run terminal
after having seen work (`SawWork`). `EndsKnown` adds what a reconciler without
cancellers knows of the end of the run.

**Resume and pruning.** `ResumeInv` says of each run how it stands
(`RunStands`) and of each call what it knows at each of its steps (`CallsKnow`),
as formulas over a record of the call and the values the store holds. While a call
reads checkpoints one by one, what its parent still holds fits what was read of it
(`ParentKnows`). A parent may have been cancelled and still be written by the call
that executes it: then what the resume has read is what that call holds too
(`CallsAgree`). While a call fills the new run (`MadeSoFar`) and executes it
(`ExecutedSoFar`), the run is nobody else's; only a cancellation makes it terminal,
so that a batch may select it (`SelectedRunsEnded`), and from then on the store
refuses what the call still wants to add (`Accepts`). The reused tasks are closed
under dependencies (`ReuseIsClosed`), which is what makes a copied output and a
fresh one fit together.

**The loops of attempts.** `RetryStands` keeps the decision from `evaluate` to
the next attempt: nobody changes policy, failure or clock during the wait.
`MigrationInv` relates the converted policy to the V1 definition it comes from.
`ExternalInv` counts the jobs and says that each but the last has failed; for the
generic V1 wrapper that holds only when the task's filter retries failures of
jobs alone (`OnlyFailedJobsRetried`), which is the condition `LostJobIsNotRepeated`
states.

**V1 coordinator.** The totals that `CapacityManager` adds and subtracts are those
of the live leases; with that equality each acquisition that passes the checks
stays within the limits. `RunnerUsesCapacity` shows that each step of the
coordinator acquires or releases at most one lease through the manager, or leaves
it alone. `RunnerInv` has three cases. `Undisturbed`, the main one, relates the
coordinator's books to the workers (`Ownership`: whoever computes is leased, active
and not yet completed; only an execution in time, active and not timed out, may
settle its attempt), the pending retries to the attempts (`PendingIsNext`), the
records to each other (`AttemptsInOrder`, `TasksStand`, `VerdictStands`) and says
what the coordinator knows at each point of its loop (`PositionKnows`); an
interrupt between two units of work stays within it. `Refused`: a submission was
refused, `run()` has raised, and its attempt is the one that is leased without a
worker. `Torn`: behind an interrupt within a unit of work the books and the records
may disagree for good, but an outcome in time is still that of the newest attempt
(`InTimeIsNewest`), no attempt is left out (`NoGaps`), no task has two live workers,
and a verdict still follows its attempt. The last step of the main case, that the loop
never ends without progress, uses that the plan is acyclic: an idle run with
nothing ready, nothing pending and no failure has succeeded, by well-founded
induction on plan positions.

**V1 processes on one stored run.** Nothing keeps two resumes apart but the
sequence numbers of the events: a unit of work that stores an event with a number
already taken is refused. So what a process knows falls in two parts.
`KnowsAnyway` stays true whatever others store: the attempt it executes exists and
is its own (`AttemptsAreTheirOwn`). `KnowsStill` holds while `Unfenced(k)`, that
is, as long as no event was stored since it looked: its copies are what is stored
and what it is about to write is due. An accepted event is therefore due, and it
fences everybody else, which is all that has to be shown of the others
(`EventStep`). `TryAgain` is the exception: it stores the next attempt without an
event and fences nobody, so its lemma argues from the task, which no other process
can hold unfenced. `OneExecutionPerTask` follows because an execution whose outcome
is open is the last attempt of its task, and two processes with the same attempt
would share it. That no run is deadlocked is an argument about its first
unfinished task. The assessments, of the V1 run and of the run migrated to V2, are
then read off the records.

**The relational store.** A writer reads without a lock, so what it read may be
stale when its statement is executed. `StaysTrue` collects what it may still rely
on: rows are never deleted, a status never disappears and the number it computed
for an attempt is at most the next free one. The rest is decided again by the
statement under its locks: a number that is taken violates the unique key, a
status that moved leaves the row count at zero. From then on `Accepted` holds
until the commit, because no two written transactions share a lock
(`TransactionsHold`). The tables then fit (`TablesFit`): numbers without gaps and
the transitions of each entity a walk along its table that ends in the stored
status. `StoreIsImplemented` maps rows to the records of MetadataStore: a commit
is one operation of the contract and every other step a stutter. The model takes
the primary key of attempts as part of the statement (`IdentifierIsFree`).

**Units of work.** A unit has written what it said or it is gone
(`UnitsAreWhole`); two open units never write the same key, on SQLite never
anything at once (`UnitsAreApart`); the event a unit writes is the next one
(`EventsAreNext`). So the stored rows
are those of the committed units in the order of their commits, and the numbers
of the events follow that order.

**Plugin catalogs.** The entry points of a call are taken in a fixed order, and
`ChangeIsTold` says of every name of every type what the call has done with it so
far: it is unchanged and nobody claims it, or one entry point is reported as
registered and the catalog holds what that one yields. `RegistriesAreCurrent`
follows a V2 registration from discovery to `create`.

**Executors.** `AttemptIsSound` says what one attempt's call, workload, place and
answer have to do with each other: nothing was said of a workload that has not
started, `KeepsItsPlace` that whoever runs is registered and who gave the place
back is over, `ProgramIsJudged` that a program is judged after it has ended and
by whether it was cancelled. A step concerns one attempt and leaves the others
alone (`StepOfOne`); `PlacesAreBounded` and `LoopOutlivesWork` are what attempts
share. `ShutdownWaits` adds that nothing starts in a closed executor, so that
whoever still runs is among the executions that `shutdown` noted. For V1,
`HandleIsSound` follows a handle from registration to its completion in the queue
and `LegacyShutdownWaits` says that nothing registers once `shutdown` has looked.

**Planning.** `ObjectsStand` and `LinksStand` speak of objects: a link joins two
that are alive and is written down as a dependency between their keys, and links
have no cycle. The worklist speaks of the keys of the chosen objects, where there
may be one. Three facts about graphs carry the proof of both. A walk is the least set
closed under the edges; fewer edges have fewer walks, which covers objects that
are collected. An edge without a walk back closes no cycle
(`EdgeClosesNoCycle`). And a set of tasks in which each has an upstream task in the
set has a cycle: take the task from which the least is reached
(`LeftOverHasCycle`).
`WorklistStands` says that the worklist holds exactly the unvisited tasks whose
dependencies are visited; when it is empty and tasks are left over, they have a
cycle, and when none is left, the order of the visit excludes one. The planner
does the same in layers: `LayersStand` says that each task of a layer depends on
the layer before it and on earlier ones alone. Validation therefore refuses
exactly what the planner could not plan. This is also what the runtimes assume of
a plan (`DependenciesPrecede` and the like).

**Only model-checked.** Liveness under fairness and `ENABLED` are out of the
prover's reach and stay with TLC: `run()`, every cancel call, reconciliation,
resume and execution ends (`RunEnds`, `CallsEnd`, `ReconcileEnds`,
`RunnerReturns`, `ResumeEnds`, `ExecuteReturns`) and every completion arrives
(`CompletionArrives`). All invariants and action properties of the passing runs
are theorems.

## 5. Known divergences

Behaviour met while modelling that a maintainer may want to know. The models
have it as the code has it; where a property would fail because of it, the
property is stated without the case and the case is listed here.

V2 runtime and recovery:

- A task cancellation confirmed between the three reads of `workflow.py:471`
  makes `run()` try RUNNING -> CANCELLED and raise; the run stays RUNNING.
- An executor may report CANCELLED although nobody asked (`inline.py:115`,
  `_common.py:69`, `asyncio.py:361`): `run()` tries RUNNING -> CANCELLED on the
  attempt and raises, and attempt, task and run stay RUNNING.
  `UndisturbedRunSettles` names it. If a request is stored when such a result
  arrives, the attempt becomes CANCELLED although its executor cannot cancel
  (`CancellationsAreHonest` says who recorded it).
- A request that is stored after `run()` has looked, and before a task starts,
  stops nothing: the task is started, and an attempt whose backoff runs is
  repeated (`workflow.py:414`, `608`; the run `claim_dispatch`). A confirmed
  cancellation of an attempt whose task then times out is refused the time-out
  (`workflow.py:553`), and `run()` raises.
- `cancel_task` appends the references of the executor's reply without looking at
  the attempt (`workflow.py:946-949`; the store has no check either), so that the
  manifest of a terminal run may still gain a reference: `TerminalManifestIsKept`
  allows that and nothing else. When `run()` and `cancel_task` store the same
  reference, one of them raises `DuplicateMetadataError`.
- A request answered UNSUPPORTED leaves CANCELLATION_REQUESTED behind, and
  `run()` cancels the run later (`workflow.py:513`).
- After a crash during a pending retry, reconciliation fails the task with
  attempts left (`reconciliation.py:399`).
- Reconciliation picks CANCELLED for a run with a cancelled task; the transition
  does not exist from PENDING or RUNNING, so it raises (`reconciliation.py:456`).
- With a very large attempt number `OverflowError` leaves `evaluate` before the
  cap applies (`retry.py:304`).
- With two callers and a policy that asks for reconciliation, `cancel_task` may
  move an attempt from REQUIRES_RECONCILIATION back to RUNNING after `run()` has
  returned (`workflow.py:957-961`); nobody settles it then.
  `ReturnedRunHasNoLiveAttempt` is proved without that combination.
- A run that is CANCELLED is terminal for the inspector and the manifest while
  its thread may still execute a task.
- The V2 inspector reads run, tasks and attempts in separate calls
  (`diagnostics/recovery.py:68-137`): a "ready" may be stale when it is given, and
  the thread may have begun another task since. `InspectionSeesWork` is about the
  tasks that had an attempt when the assessment began.
- The V2 inspector calls a terminal run's tasks resolved without looking at
  them, so `fully_resolved` of such a report says little. With cancelling
  threads, a report that resolves everything may be about a run that has not
  ended.

V2 executors:

- `SubprocessExecutor` checks its capacity, spawns and registers in separate
  steps (`subprocess.py:366-427`): two calls may pass for one place. `WorkIsHeld`
  leaves it out. Its command handler runs before the deadline is looked at.
- `ProcessExecutor.shutdown` terminates and joins outside the lock and may meet
  a process object that `execute` has closed, which raises `ValueError`.
- A process whose result is already in the pipe is reported as a success after a
  CONFIRMED cancellation.
- `AsyncExecutor.execute` raises `RuntimeError` when the loop closes between the
  end of its wait and the detaching.

Stores, retention and planning:

- SQLite's `prune_runs` deletes task runs, manifests and runs inside
  `if attempt_ids:`; a batch of runs without attempts is left (`sqlite.py:948`).
- A run that is cancelled while its call goes on may be pruned from under it, and
  may be the parent of a resume. A run that is cancelled before anything of it was
  executed may lose to SQLite's batches an output that a copied one was computed
  from. `PruningIsClean` and `OutputsFitTogether` name the two cases.
- Runs with equal timestamps are pruned in another order by memory and SQLite.
- `_validate_acyclic` reports what it could not sort as `cycle_path`, which may
  include tasks that are on no cycle. The self-dependency check of the V1
  `DAGValidator` is never reached.
- `>>` tracks links by the identity of the objects and dependencies are by key: a
  cycle through two objects of one key, or through a rebuilt one, is accepted and
  found only by the validation (`authoring/validation.py:44-52`, `95-118`), although
  a comment says that the error is "Raised immediately".
- A plan entry reads the dependencies of the live task object.

V1:

- A retry that is pending when another task fails may be dispatched after the
  run is FAILED; when a cancellation comes in addition the coordinator keeps
  looping. `RunnerReturns` excludes that combination by name.
- A submission that raises (`adapters/executors/process.py:604`, `asyncio.py:250`)
  leaves its attempt stored as RUNNING and leased, and `run()` raises
  (`concurrent_runner.py:587`).
- A keyboard interrupt in a run that has failed leaves a sibling RUNNING whose retry
  is pending. An interrupt within a unit of work leaves attempts without
  work behind them: `_finish_cancellation` raises on tasks that stay RUNNING
  (`982-986`), or waits for ever for a completion it has already taken. A second
  interrupt leaves `run()`.
- A second run-ending event may be stored (`runner.py:277`).
- A crash between `CreateRun` and `BeginRun` leaves a PENDING run that `resume`
  never accepts. A missing handler is discovered only after the reconciliation
  has been applied.
- A runtime snapshot of V1 cannot always be imported again.
- `shutdown(wait=True)` of the process and subprocess executors may return before
  the last completion is queued; `AsyncExecutor.cancel` may wait for ever when
  the loop stops before the acknowledgement (`adapters/executors/asyncio.py:344`).
- `MemoryUnitOfWork.commit` replaces the whole state: of two overlapping units
  the first one's changes are lost. `UnitsOfWork` overlaps units on the
  databases only.
- The V1 plugin registry accepts any API version and hands out instances that
  are not validated.

Integrations and migration:

- A V1 task owned by PyWorkflowKit without a category filter may start an
  external job again while the first is running. The exception of the
  PyIngestKit adapter hides its category from the retry filter.
- A wrapper of V2 that raises after its job started is recorded as a known
  failure without reference.
- V1 retries every task error, a migrated task only failures declared retryable.

## 6. Not modelled

- **Authoring, serialization, contracts**: immutable declarations and codecs
  without state. **Control plane, CLI**: views and rendering. **Telemetry**: no
  decision reads it.
- Column mapping and schema migrations of the durable stores: data conversion
  around the transactions of RelationalStore.
- The synchronous `execute()` of the V1 executors and `wait()` of all of them:
  no state beyond what `submit` has.
- In RunLoop: a failure policy other than FAIL_FAST and an executor that returns
  something other than a `TaskExecutionResult`, which both make `run()` raise
  (`workflow.py:656`, `1123`). An exception of the executor is the failure of
  category `internal` that `run()` makes of it. One external run per attempt.
- In SelectiveResume: runs that end in UNKNOWN_OUTCOME (neither resumed nor pruned);
  `cancel_task` by itself; READY, which counts as RUNNING. All attempts of a task are one step, and every trigger rule is
  taken for `all_success`. The dry run of retention only reads.
- In ConcurrentRunner: a second keyboard interrupt, and one between a transition of
  a record in memory and its save.
- In PluginCatalogs: a provider that registers further plugins while it loads.
- In RelationalStore: deletion, which RunHistory has.
- `ExecutorRegistry`: a dictionary filled at start-up.
