----------------------------- MODULE RunHistory -----------------------------
(***************************************************************************)
(* The runs of one workflow that a V2 metadata store holds, with their     *)
(* task runs, attempts and output checkpoints, and the pruning of that     *)
(* history (persistence/retention.py; prune_runs of persistence/memory.py  *)
(* and persistence/sqlite.py).                                             *)
(*                                                                         *)
(* Runs are numbered in the order of their creation.  An output is known   *)
(* by the run that computed it and by the runs that computed the outputs   *)
(* it was computed from.  The memory store prunes under its lock, in one   *)
(* step; the SQLite store reads the eligible runs in one session and then  *)
(* deletes them in batches, one transaction each.  A dry run reads and     *)
(* writes nothing, so it is no action.                                     *)
(***************************************************************************)
EXTENDS RunStates, Integers, FiniteSets

CONSTANTS
    TaskCount,       \* tasks of the execution plan, numbered in plan order
    RunBound,        \* bound: the runs ever created
    Backends,        \* the stores to look at: "memory", "sqlite"
    MaxRuns,         \* RetentionPolicy.max_runs_per_workflow
    PruneStates,     \* RetentionPolicy.prune_states
    BatchSize,       \* the batch_size of prune_runs
    PruneBound       \* bound: the calls of prune_runs

Tasks == 1..TaskCount
Runs == 1..RunBound
NoRun == 0
Absent == "ABSENT"

Outputs == [by: Runs, from: [Tasks -> Runs \cup {NoRun}]]
NoOutput == [by |-> NoRun, from |-> [t \in Tasks |-> NoRun]]

ASSUME HistoryBounds ==
    /\ TaskCount \in Nat \ {0} /\ RunBound \in Nat \ {0} /\ PruneBound \in Nat
    /\ MaxRuns \in Nat \ {0} /\ BatchSize \in Nat \ {0}
ASSUME BackendsType == Backends \in SUBSET {"memory", "sqlite"}
ASSUME PruneStatesTerminal ==
    PruneStates \in SUBSET WorkflowTerminal /\ PruneStates # {}

VARIABLES
    backend,         \* the store in use
    runs,            \* runs[r]: the status of run r, or Absent
    taskRuns,        \* taskRuns[r][t]: the status of its task run, or Absent
    attempted,       \* attempted[r]: the tasks of r that have attempts
    checkpoints,     \* checkpoints[r][t]: the TaskOutputCheckpoint, or NoOutput
    created,         \* the number of runs created so far
    pruning,         \* the call of prune_runs: where it is, what it selected
    prunes           \* the number of calls of prune_runs so far

records == <<runs, taskRuns, attempted, checkpoints>>
pruneVars == <<pruning, prunes>>
historyVars == <<backend, records, created, pruneVars>>

InitHistory ==
    /\ backend \in Backends
    /\ runs = [r \in Runs |-> Absent]
    /\ taskRuns = [r \in Runs |-> [t \in Tasks |-> Absent]]
    /\ attempted = [r \in Runs |-> {}]
    /\ checkpoints = [r \in Runs |-> [t \in Tasks |-> NoOutput]]
    /\ created = 0
    /\ pruning = [at |-> "idle", eligible |-> {}, todo |-> {}]
    /\ prunes = 0

HistoryTypeOK ==
    /\ backend \in Backends
    /\ runs \in [Runs -> WorkflowRunStatus \cup {Absent}]
    /\ taskRuns \in [Runs -> [Tasks -> TaskRunStatus \cup {Absent}]]
    /\ attempted \in [Runs -> SUBSET Tasks]
    /\ checkpoints \in [Runs -> [Tasks -> Outputs \cup {NoOutput}]]
    /\ created \in 0..RunBound
    /\ pruning \in [at : {"idle", "deleting", "done"}, eligible : SUBSET Runs,
                   todo : SUBSET Runs]
    /\ pruning.todo \subseteq pruning.eligible
    /\ prunes \in 0..PruneBound

-----------------------------------------------------------------------------
(* Which runs a policy selects.                                            *)

Stored == {r \in Runs : runs[r] # Absent}

\* The place of a run among the stored runs, the newest first.
Rank(r) == Cardinality({s \in Stored : s >= r})

\* Mutant: the quota selects runs of any status.
PrunableAnyStatus(r) == TRUE

Prunable(r) == runs[r] \in WorkflowTerminal \cap PruneStates

\* The runs up to old are older than retention_days, the runs up to oldFailed
\* older than retain_failed_runs_days.
AgeEligible(r, old, oldFailed) ==
    r <= IF runs[r] = "FAILED" THEN oldFailed ELSE old

Eligible(old, oldFailed) ==
    {r \in Stored : Prunable(r) /\ (AgeEligible(r, old, oldFailed) \/ Rank(r) > MaxRuns)}

-----------------------------------------------------------------------------
(* Deleting runs.                                                          *)

WithoutOutputs(doomed) ==
    [r \in Runs |-> IF r \in doomed THEN [t \in Tasks |-> NoOutput]
                                    ELSE checkpoints[r]]

DeleteRuns(doomed) ==
    /\ runs' = [r \in Runs |-> IF r \in doomed THEN Absent ELSE runs[r]]
    /\ taskRuns' = [r \in Runs |-> IF r \in doomed THEN [t \in Tasks |-> Absent]
                                                   ELSE taskRuns[r]]
    /\ attempted' = [r \in Runs |-> IF r \in doomed THEN {} ELSE attempted[r]]
    /\ checkpoints' = WithoutOutputs(doomed)

MayPrune == pruning.at # "deleting" /\ prunes < PruneBound

\* prune_runs of the memory store, under its lock.
PruneInMemory ==
    /\ backend = "memory"
    /\ MayPrune
    /\ \E old \in 0..RunBound, oldFailed \in 0..RunBound :
          /\ DeleteRuns(Eligible(old, oldFailed))
          /\ pruning' = [at |-> "done", eligible |-> Eligible(old, oldFailed),
                         todo |-> {}]
    /\ prunes' = prunes + 1
    /\ UNCHANGED <<backend, created>>

\* prune_runs of the SQLite store: the session that reads.
SelectEligible ==
    /\ backend = "sqlite"
    /\ MayPrune
    /\ \E old \in 0..RunBound, oldFailed \in 0..RunBound :
          LET eligible == Eligible(old, oldFailed)
          IN  pruning' = [at |-> IF eligible = {} THEN "done" ELSE "deleting",
                          eligible |-> eligible,
                          todo |-> eligible]
    /\ prunes' = prunes + 1
    /\ UNCHANGED <<backend, records, created>>

\* The newest of the runs that are still to delete.
Batch ==
    {r \in pruning.todo : Cardinality({s \in pruning.todo : s >= r}) <= BatchSize}

\* One transaction.  The statements that delete attempts, task runs, manifests
\* and runs stand inside `if attempt_ids:`, so that a batch whose runs have no
\* attempt at all loses its checkpoints and keeps the rest.
PruneBatch ==
    /\ pruning.at = "deleting"
    /\ \/ (\E r \in Batch : attempted[r] # {}) /\ DeleteRuns(Batch)
       \/ /\ \A r \in Batch : attempted[r] = {}
          /\ checkpoints' = WithoutOutputs(Batch)
          /\ UNCHANGED <<runs, taskRuns, attempted>>
    /\ LET rest == pruning.todo \ Batch
       IN  pruning' = [pruning EXCEPT !.todo = rest,
                                      !.at = IF rest = {} THEN "done" ELSE @]
    /\ UNCHANGED <<backend, created, prunes>>

Prune == PruneInMemory \/ SelectEligible \/ PruneBatch

=============================================================================
