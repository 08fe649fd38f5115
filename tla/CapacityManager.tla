-------------------------- MODULE CapacityManager --------------------------
(***************************************************************************)
(* The slot accounting of the V1 concurrent runner                         *)
(* (application/capacity.py).  An attempt holds at most one lease, on one  *)
(* executor; next to the leases the manager keeps a count per executor,    *)
(* which the limit of that executor is checked against.                    *)
(***************************************************************************)
EXTENDS Naturals, FiniteSets

CONSTANTS
    Attempts,          \* identifiers of task attempts
    ExecutorKeys,      \* registered executors
    GlobalLimit,       \* slots over all executors
    ConfiguredLimit,   \* per executor, what the caller configured
    MaxConcurrency     \* per executor, what its capabilities declare

ASSUME GlobalLimitIsPositive == GlobalLimit \in Nat \ {0}

ASSUME LimitsArePositive ==
    /\ ConfiguredLimit \in [ExecutorKeys -> Nat \ {0}]
    /\ MaxConcurrency \in [ExecutorKeys -> Nat \ {0}]

NoExecutor == "none"

ASSUME NoExecutorIsNoKey == NoExecutor \notin ExecutorKeys

VARIABLES
    leaseOf,             \* _active_by_attempt
    activeByExecutor     \* _active_by_executor

capacityVars == <<leaseOf, activeByExecutor>>

Leased == {a \in Attempts : leaseOf[a] # NoExecutor}

LeasedOn(k) == {a \in Attempts : leaseOf[a] = k}

\* The effective limit: never above what the executor declares.
ExecutorLimit(k) ==
    IF ConfiguredLimit[k] <= MaxConcurrency[k] THEN ConfiguredLimit[k]
    ELSE MaxConcurrency[k]

InitCapacity ==
    /\ leaseOf = [a \in Attempts |-> NoExecutor]
    /\ activeByExecutor = [k \in ExecutorKeys |-> 0]

CapacityAvailable(k) ==
    /\ Cardinality(Leased) < GlobalLimit
    /\ activeByExecutor[k] < ExecutorLimit(k)

\* try_acquire of an attempt that holds no lease yet.
Acquire(a, k) ==
    /\ leaseOf[a] = NoExecutor
    /\ CapacityAvailable(k)
    /\ leaseOf' = [leaseOf EXCEPT ![a] = k]
    /\ activeByExecutor' = [activeByExecutor EXCEPT ![k] = @ + 1]

\* Mutant: the lease is given back and the executor's count is not.
ReleaseForgetsCount(a, k) ==
    /\ leaseOf[a] = k
    /\ leaseOf' = [leaseOf EXCEPT ![a] = NoExecutor]
    /\ UNCHANGED activeByExecutor

Release(a, k) ==
    /\ leaseOf[a] = k
    /\ leaseOf' = [leaseOf EXCEPT ![a] = NoExecutor]
    /\ activeByExecutor' = [activeByExecutor EXCEPT ![k] = @ - 1]

CapacityNext ==
    \E a \in Attempts, k \in ExecutorKeys : Acquire(a, k) \/ Release(a, k)

CapacitySpec == InitCapacity /\ [][CapacityNext]_capacityVars

-----------------------------------------------------------------------------

CapacityTypeOK ==
    /\ leaseOf \in [Attempts -> ExecutorKeys \cup {NoExecutor}]
    /\ activeByExecutor \in [ExecutorKeys -> Nat]

\* The count of each executor is the number of its leases, so that neither
\* limit is ever exceeded and a count never goes negative
\* (CapacityManager.release).
LeasesWithinLimits ==
    /\ Cardinality(Leased) <= GlobalLimit
    /\ \A k \in ExecutorKeys :
          /\ activeByExecutor[k] = Cardinality(LeasedOn(k))
          /\ Cardinality(LeasedOn(k)) <= ExecutorLimit(k)

=============================================================================
