---------------------------- MODULE ExecutorProofs ----------------------------
(***************************************************************************)
(* Proofs about the executors of both generations: what the runtime is     *)
(* told of a workload stays true, whatever runs holds a place and is found *)
(* by cancel() and shutdown(), and a V1 handle stands for what runs behind *)
(* it until its completion is queued.                                      *)
(***************************************************************************)
EXTENDS MCExecutors, FiniteSetTheorems, SequenceTheorems, TLAPS

-----------------------------------------------------------------------------
(* The V2 executors.                                                       *)

Final == {"CONFIRMED", "ALREADY_TERMINAL"}

\* Before a workload is started nothing runs and nothing was said of it.
NotStartedYet(a) ==
    call[a].at \in {"new", "spawn"} =>
        ~ Live(a) /\ a \notin active /\ a \notin completed /\ a \notin done /\ answer[a] \notin Final

\* What was said of a workload holds.
TellsTheTruth(a) ==
    /\ At(a, "returned") /\ call[a].result # "soft_timeout" => ~ Live(a)
    /\ answer[a] \in Final => ~ Live(a)

\* A call has a result when it is about to return.
ResultComesLast(a) == call[a].at \notin {"closing", "returned"} => call[a].result = "none"

\* Who gives its place back is over.
KeepsItsPlace(a) ==
    /\ executor \in {"async", "process"} /\ Live(a) => a \in active
    /\ executor = "subprocess" /\ Live(a) => a \in active \/ At(a, "register")
    /\ a \in completed \/ a \in done => ~ Live(a)

\* A thread has no register, no cancel() and no pipe.
PoolIsPlain(a) ==
    /\ executor \in {"inline", "thread"} => answer[a] = "none"
    /\ executor = "inline" /\ Live(a) => At(a, "waiting")
    /\ executor = "thread" => work[a] # "sent" /\ call[a].at \in {"new", "waiting", "expired", "returned"}

\* A program is judged after it has ended, and by whether it was cancelled.
ProgramIsJudged(a) ==
    executor = "subprocess" =>
        /\ a \in active => call[a].at \in {"waiting", "expired", "check", "closing"}
        /\ call[a].at \in {"check", "closing"} => work[a] = "ended"
        /\ answer[a] = "CONFIRMED" =>
              /\ a \in cancelRequested /\ call[a].at \notin {"new", "spawn", "register"}
              /\ call[a].result \notin {"handler", "exited"}

AttemptIsSound(a) ==
    /\ NotStartedYet(a) /\ TellsTheTruth(a) /\ ResultComesLast(a)
    /\ KeepsItsPlace(a) /\ PoolIsPlain(a) /\ ProgramIsJudged(a)

Bounded(S) == IsFiniteSet(S) /\ Cardinality(S) <= MaxWorkers

\* The places of the registers and of the thread pool.
PlacesAreBounded ==
    /\ executor \in {"async", "process"} => Bounded(active)
    /\ executor = "thread" => Bounded(PoolBusy)

\* The event loop closes after the executions that shutdown() saw.
LoopOutlivesWork ==
    executor = "async" =>
        /\ ~ IsOpen => active \subseteq closing.of
        /\ loop = "closed" => ~ IsOpen /\ active \subseteq done

ExecutorsInv ==
    /\ ExecutorsTypeOK
    /\ \A a \in Attempts : AttemptIsSound(a)
    /\ PlacesAreBounded
    /\ LoopOutlivesWork

LEMMA BoundedSets ==
    /\ Bounded({})
    /\ \A S, x : Bounded(S) /\ Cardinality(S) < MaxWorkers => Bounded(S \cup {x})
    /\ \A S, T : Bounded(S) /\ T \subseteq S => Bounded(T)
<1>1. Bounded({})
  BY FS_EmptySet, ExecutorAssumption DEF Bounded
<1>2. ASSUME NEW S, NEW x, Bounded(S), Cardinality(S) < MaxWorkers
      PROVE  Bounded(S \cup {x})
  <2>1. Cardinality(S) \in Nat
    BY <1>2, FS_CardinalityType DEF Bounded
  <2>2. /\ IsFiniteSet(S \cup {x})
        /\ Cardinality(S \cup {x}) = Cardinality(S) \/ Cardinality(S \cup {x}) = Cardinality(S) + 1
    BY <1>2, <2>1, FS_AddElement DEF Bounded
  <2> QED
    BY <1>2, <2>1, <2>2, ExecutorAssumption DEF Bounded
<1>3. ASSUME NEW S, NEW T, Bounded(S), T \subseteq S
      PROVE  Bounded(T)
  <2>1. /\ IsFiniteSet(T) /\ Cardinality(T) <= Cardinality(S)
        /\ Cardinality(T) \in Nat /\ Cardinality(S) \in Nat
    BY <1>3, FS_Subset, FS_CardinalityType DEF Bounded
  <2> QED
    BY <1>3, <2>1, ExecutorAssumption DEF Bounded
<1> QED
  BY <1>1, <1>2, <1>3

LEMMA InitExecutorsInv ==
    ASSUME ExecutorsInit
    PROVE  ExecutorsInv
<1> USE DEF ExecutorsInit, CallsInit, AsyncInit
<1>1. ExecutorsTypeOK
  BY DEF ExecutorsTypeOK, ExecutorKinds, CallStep, Result, WorkState, CancellationStatus
<1>2. \A a \in Attempts : AttemptIsSound(a)
  BY DEF AttemptIsSound, NotStartedYet, TellsTheTruth, ResultComesLast, KeepsItsPlace,
         PoolIsPlain, ProgramIsJudged, Final, Live, At
<1>3. PlacesAreBounded
  <2>1. PoolBusy = {}
    BY DEF PoolBusy
  <2> QED
    BY <2>1, BoundedSets DEF PlacesAreBounded
<1> QED
  BY <1>1, <1>2, <1>3 DEF ExecutorsInv, LoopOutlivesWork, IsOpen

\* A step about one attempt: nothing changes for the others.
OthersAreKept(a) ==
    \A b \in Attempts : b # a =>
        /\ call'[b] = call[b] /\ work'[b] = work[b] /\ answer'[b] = answer[b]
        /\ b \in active' <=> b \in active
        /\ b \in completed' <=> b \in completed
        /\ b \in done' <=> b \in done
        /\ b \in cancelRequested' <=> b \in cancelRequested

LEMMA StepOfOne ==
    ASSUME ExecutorsInv, NEW a \in Attempts, OthersAreKept(a), executor' = executor,
           AttemptIsSound(a)'
    PROVE  \A b \in Attempts : AttemptIsSound(b)'
<1>1. ASSUME NEW b \in Attempts, b # a
      PROVE  AttemptIsSound(b)'
  <2>1. AttemptIsSound(b)
    BY DEF ExecutorsInv
  <2> QED
    BY <1>1, <2>1 DEF OthersAreKept, AttemptIsSound, NotStartedYet, TellsTheTruth,
        ResultComesLast, KeepsItsPlace, PoolIsPlain, ProgramIsJudged, Live, At
<1> QED
  BY <1>1

\* A step of one attempt that takes no place and no thread.
LEMMA StepKeeps ==
    ASSUME ExecutorsInv, NEW a \in Attempts, ExecutorsTypeOK', OthersAreKept(a),
           AttemptIsSound(a)', UNCHANGED executor,
           executor = "async" => UNCHANGED <<closing, loop>>,
           executor = "subprocess" \/ active' \subseteq active,
           done \subseteq done',
           work'[a] = "running" => executor # "thread" \/ work[a] = "running"
    PROVE  ExecutorsInv'
<1>1. \A b \in Attempts : AttemptIsSound(b)'
  BY StepOfOne
<1>2. PoolBusy' \subseteq PoolBusy
  BY DEF PoolBusy, OthersAreKept
<1>3. PlacesAreBounded'
  BY <1>2, BoundedSets DEF ExecutorsInv, PlacesAreBounded
<1>4. LoopOutlivesWork'
  BY DEF ExecutorsInv, LoopOutlivesWork, IsOpen
<1> QED
  BY <1>1, <1>3, <1>4 DEF ExecutorsInv

\* A call that is refused has started nothing.
LEMMA RejectsKeeps ==
    ASSUME ExecutorsInv, NEW a \in Attempts, Rejects(a), UNCHANGED asyncVars
    PROVE  ExecutorsInv'
<1>1. ExecutorsTypeOK'
  BY DEF Rejects, At, Returns, Keeps, asyncVars, ExecutorsInv, ExecutorsTypeOK,
         CallStep, Result, WorkState, CancellationStatus, ExecutorKinds
<1>2. OthersAreKept(a)
  BY DEF Rejects, At, Returns, Keeps, asyncVars, ExecutorsInv, ExecutorsTypeOK,
         OthersAreKept
<1>3. AttemptIsSound(a)'
  <2>1. AttemptIsSound(a)
    BY DEF ExecutorsInv
  <2> QED
    BY <2>1 DEF Rejects, At, Returns, Keeps, asyncVars, ExecutorsInv, ExecutorsTypeOK,
           AttemptIsSound, NotStartedYet, TellsTheTruth, ResultComesLast, KeepsItsPlace,
           PoolIsPlain, ProgramIsJudged, Live, Final
<1> QED
  BY <1>1, <1>2, <1>3, StepKeeps DEF Rejects, At, Returns, Keeps, asyncVars,
         ExecutorsInv, ExecutorsTypeOK

\* So has one whose deadline has passed.
LEMMA PassedDeadlineKeeps ==
    ASSUME ExecutorsInv, NEW a \in Attempts, PassedDeadline(a), UNCHANGED asyncVars
    PROVE  ExecutorsInv'
<1>1. ExecutorsTypeOK'
  BY DEF PassedDeadline, At, Returns, Keeps, asyncVars, ExecutorsInv, ExecutorsTypeOK,
         CallStep, Result, WorkState, CancellationStatus, ExecutorKinds
<1>2. OthersAreKept(a)
  BY DEF PassedDeadline, At, Returns, Keeps, asyncVars, ExecutorsInv, ExecutorsTypeOK,
         OthersAreKept
<1>3. AttemptIsSound(a)'
  <2>1. AttemptIsSound(a)
    BY DEF ExecutorsInv
  <2> QED
    BY <2>1 DEF PassedDeadline, At, Returns, Keeps, asyncVars, ExecutorsInv,
           ExecutorsTypeOK, AttemptIsSound, NotStartedYet, TellsTheTruth,
           ResultComesLast, KeepsItsPlace, PoolIsPlain, ProgramIsJudged, Live, Final
<1> QED
  BY <1>1, <1>2, <1>3, StepKeeps DEF PassedDeadline, At, Returns, Keeps, asyncVars,
         ExecutorsInv, ExecutorsTypeOK

\* So has one that finds the executor full or closed.
LEMMA RefusesKeeps ==
    ASSUME ExecutorsInv, NEW a \in Attempts, Refuses(a), UNCHANGED asyncVars
    PROVE  ExecutorsInv'
<1>1. ExecutorsTypeOK'
  BY DEF Refuses, At, IsOpen, Returns, HasCapacity, Keeps, asyncVars, ExecutorsInv,
         ExecutorsTypeOK, CallStep, Result, WorkState, CancellationStatus, ExecutorKinds
<1>2. OthersAreKept(a)
  BY DEF Refuses, At, IsOpen, Returns, HasCapacity, Keeps, asyncVars, ExecutorsInv,
         ExecutorsTypeOK, OthersAreKept
<1>3. AttemptIsSound(a)'
  <2>1. AttemptIsSound(a)
    BY DEF ExecutorsInv
  <2> QED
    BY <2>1 DEF Refuses, At, IsOpen, Returns, HasCapacity, Keeps, asyncVars,
           ExecutorsInv, ExecutorsTypeOK, AttemptIsSound, NotStartedYet, TellsTheTruth,
           ResultComesLast, KeepsItsPlace, PoolIsPlain, ProgramIsJudged, Live, Final
<1> QED
  BY <1>1, <1>2, <1>3, StepKeeps DEF Refuses, At, IsOpen, Returns, HasCapacity, Keeps,
         asyncVars, ExecutorsInv, ExecutorsTypeOK

\* The wait of a call times out, whatever its workload does.
LEMMA DeadlinePassesKeeps ==
    ASSUME ExecutorsInv, NEW a \in Attempts, DeadlinePasses(a), UNCHANGED asyncVars
    PROVE  ExecutorsInv'
<1>1. ExecutorsTypeOK'
  BY DEF DeadlinePasses, TimesOut, At, Goes, asyncVars, ExecutorsInv, ExecutorsTypeOK,
         CallStep, Result, WorkState, CancellationStatus, ExecutorKinds
<1>2. OthersAreKept(a)
  BY DEF DeadlinePasses, TimesOut, At, Goes, asyncVars, ExecutorsInv, ExecutorsTypeOK,
         OthersAreKept
<1>3. AttemptIsSound(a)'
  <2>1. AttemptIsSound(a)
    BY DEF ExecutorsInv
  <2> QED
    BY <2>1 DEF DeadlinePasses, TimesOut, At, Goes, asyncVars, ExecutorsInv,
           ExecutorsTypeOK, AttemptIsSound, NotStartedYet, TellsTheTruth,
           ResultComesLast, KeepsItsPlace, PoolIsPlain, ProgramIsJudged, Live, Final
<1> QED
  BY <1>1, <1>2, <1>3, StepKeeps DEF DeadlinePasses, TimesOut, At, Goes, asyncVars,
         ExecutorsInv, ExecutorsTypeOK

\* The inline executor works in its caller.
LEMMA RunsInlineKeeps ==
    ASSUME ExecutorsInv, NEW a \in Attempts, RunsInline(a), UNCHANGED asyncVars
    PROVE  ExecutorsInv'
<1>1. ExecutorsTypeOK'
  <2>1. CASE Rejects(a)
    BY <2>1 DEF Rejects, At, Returns, Keeps, asyncVars, ExecutorsInv, ExecutorsTypeOK,
                CallStep, Result
  <2>2. CASE ~ Rejects(a)
    <3>1. At(a, "new") /\ Goes(a, "waiting") /\ Becomes(a, "running")
          /\ UNCHANGED <<executor, outcome, active, completed, cancelRequested, answer,
                         closing>>
      BY <2>2 DEF RunsInline
    <3>2. call' \in [Attempts -> [at: CallStep, result: Result]]
      BY <3>1 DEF Goes, ExecutorsInv, ExecutorsTypeOK, CallStep
    <3>3. work' \in [Attempts -> WorkState]
      BY <3>1 DEF Becomes, ExecutorsInv, ExecutorsTypeOK, WorkState
    <3> QED
      BY <3>1, <3>2, <3>3 DEF ExecutorsInv, ExecutorsTypeOK, asyncVars
  <2> QED
    BY <2>1, <2>2
<1>2. OthersAreKept(a)
  BY DEF RunsInline, Rejects, At, Goes, Becomes, Returns, Keeps, asyncVars,
         ExecutorsInv, ExecutorsTypeOK, OthersAreKept
<1>3. AttemptIsSound(a)'
  <2>1. AttemptIsSound(a)
    BY DEF ExecutorsInv
  <2> QED
    BY <2>1 DEF RunsInline, Rejects, At, Goes, Becomes, Returns, Keeps, asyncVars,
           ExecutorsInv, ExecutorsTypeOK, AttemptIsSound, NotStartedYet, TellsTheTruth,
           ResultComesLast, KeepsItsPlace, PoolIsPlain, ProgramIsJudged, Live, Final
<1> QED
  BY <1>1, <1>2, <1>3, StepKeeps DEF RunsInline, Rejects, At, Goes, Becomes, Returns,
         Keeps, asyncVars, ExecutorsInv, ExecutorsTypeOK

LEMMA ReturnsInlineKeeps ==
    ASSUME ExecutorsInv, NEW a \in Attempts, ReturnsInline(a), UNCHANGED asyncVars
    PROVE  ExecutorsInv'
<1>1. ExecutorsTypeOK'
  BY DEF ReturnsInline, Becomes, Returns, Keeps, asyncVars, ExecutorsInv,
         ExecutorsTypeOK, CallStep, Result, WorkState, CancellationStatus, ExecutorKinds
<1>2. OthersAreKept(a)
  BY DEF ReturnsInline, Becomes, Returns, Keeps, asyncVars, ExecutorsInv,
         ExecutorsTypeOK, OthersAreKept
<1>3. AttemptIsSound(a)'
  <2>1. AttemptIsSound(a)
    BY DEF ExecutorsInv
  <2> QED
    BY <2>1 DEF ReturnsInline, Becomes, Returns, Keeps, asyncVars, ExecutorsInv,
           ExecutorsTypeOK, AttemptIsSound, NotStartedYet, TellsTheTruth,
           ResultComesLast, KeepsItsPlace, PoolIsPlain, ProgramIsJudged, At, Live, Final
<1> QED
  BY <1>1, <1>2, <1>3, StepKeeps DEF ReturnsInline, Becomes, Returns, Keeps, asyncVars,
         ExecutorsInv, ExecutorsTypeOK

\* The thread pool.
LEMMA SubmitToPoolKeeps ==
    ASSUME ExecutorsInv, NEW a \in Attempts, SubmitToPool(a), UNCHANGED asyncVars
    PROVE  ExecutorsInv'
<1>1. ExecutorsTypeOK'
  BY DEF SubmitToPool, At, IsOpen, Goes, Becomes, asyncVars, ExecutorsInv,
         ExecutorsTypeOK, CallStep, Result, WorkState, CancellationStatus, ExecutorKinds
<1>2. OthersAreKept(a)
  BY DEF SubmitToPool, At, IsOpen, Goes, Becomes, asyncVars, ExecutorsInv,
         ExecutorsTypeOK, OthersAreKept
<1>3. AttemptIsSound(a)'
  <2>1. AttemptIsSound(a)
    BY DEF ExecutorsInv
  <2> QED
    BY <2>1 DEF SubmitToPool, At, IsOpen, Goes, Becomes, asyncVars, ExecutorsInv,
           ExecutorsTypeOK, AttemptIsSound, NotStartedYet, TellsTheTruth,
           ResultComesLast, KeepsItsPlace, PoolIsPlain, ProgramIsJudged, Live, Final
<1> QED
  BY <1>1, <1>2, <1>3, StepKeeps DEF SubmitToPool, At, IsOpen, Goes, Becomes, asyncVars,
         ExecutorsInv, ExecutorsTypeOK

LEMMA PoolFinishesKeeps ==
    ASSUME ExecutorsInv, NEW a \in Attempts, PoolFinishes(a), UNCHANGED asyncVars
    PROVE  ExecutorsInv'
<1>1. ExecutorsTypeOK'
  BY DEF PoolFinishes, Becomes, Leaves, asyncVars, ExecutorsInv, ExecutorsTypeOK,
         CallStep, Result, WorkState, CancellationStatus, ExecutorKinds
<1>2. OthersAreKept(a)
  BY DEF PoolFinishes, Becomes, Leaves, asyncVars, ExecutorsInv, ExecutorsTypeOK,
         OthersAreKept
<1>3. AttemptIsSound(a)'
  <2>1. AttemptIsSound(a)
    BY DEF ExecutorsInv
  <2> QED
    BY <2>1 DEF PoolFinishes, Becomes, Leaves, asyncVars, ExecutorsInv, ExecutorsTypeOK,
           AttemptIsSound, NotStartedYet, TellsTheTruth, ResultComesLast, KeepsItsPlace,
           PoolIsPlain, ProgramIsJudged, At, Live, Final
<1> QED
  BY <1>1, <1>2, <1>3, StepKeeps DEF PoolFinishes, Becomes, Leaves, asyncVars,
         ExecutorsInv, ExecutorsTypeOK

LEMMA FutureResultKeeps ==
    ASSUME ExecutorsInv, NEW a \in Attempts, FutureResult(a), UNCHANGED asyncVars
    PROVE  ExecutorsInv'
<1>1. ExecutorsTypeOK'
  BY DEF FutureResult, At, Returns, Keeps, asyncVars, ExecutorsInv, ExecutorsTypeOK,
         CallStep, Result, WorkState, CancellationStatus, ExecutorKinds
<1>2. OthersAreKept(a)
  BY DEF FutureResult, At, Returns, Keeps, asyncVars, ExecutorsInv, ExecutorsTypeOK,
         OthersAreKept
<1>3. AttemptIsSound(a)'
  <2>1. AttemptIsSound(a)
    BY DEF ExecutorsInv
  <2> QED
    BY <2>1 DEF FutureResult, At, Returns, Keeps, asyncVars, ExecutorsInv,
           ExecutorsTypeOK, AttemptIsSound, NotStartedYet, TellsTheTruth,
           ResultComesLast, KeepsItsPlace, PoolIsPlain, ProgramIsJudged, Live, Final
<1> QED
  BY <1>1, <1>2, <1>3, StepKeeps DEF FutureResult, At, Returns, Keeps, asyncVars,
         ExecutorsInv, ExecutorsTypeOK

\* What no thread has taken is withdrawn; for the rest the timeout is soft.
LEMMA FutureTimesOutKeeps ==
    ASSUME ExecutorsInv, NEW a \in Attempts, FutureTimesOut(a), UNCHANGED asyncVars
    PROVE  ExecutorsInv'
<1>1. ExecutorsTypeOK'
  BY DEF FutureTimesOut, At, Returns, TimeoutResult, Keeps, asyncVars, ExecutorsInv,
         ExecutorsTypeOK, CallStep, Result, WorkState, CancellationStatus, ExecutorKinds
<1>2. OthersAreKept(a)
  BY DEF FutureTimesOut, At, Returns, TimeoutResult, Keeps, asyncVars, ExecutorsInv,
         ExecutorsTypeOK, OthersAreKept
<1>3. AttemptIsSound(a)'
  <2>1. AttemptIsSound(a)
    BY DEF ExecutorsInv
  <2> QED
    BY <2>1 DEF FutureTimesOut, At, Returns, TimeoutResult, Keeps, asyncVars,
           ExecutorsInv, ExecutorsTypeOK, AttemptIsSound, NotStartedYet, TellsTheTruth,
           ResultComesLast, KeepsItsPlace, PoolIsPlain, ProgramIsJudged, Live, Final
<1> QED
  BY <1>1, <1>2, <1>3, StepKeeps DEF FutureTimesOut, At, Returns, TimeoutResult, Keeps,
         asyncVars, ExecutorsInv, ExecutorsTypeOK

\* The child processes.
LEMMA ChildSendsKeeps ==
    ASSUME ExecutorsInv, NEW a \in Attempts, ChildSends(a), UNCHANGED asyncVars
    PROVE  ExecutorsInv'
<1>1. ExecutorsTypeOK'
  BY DEF ChildSends, Becomes, Leaves, asyncVars, ExecutorsInv, ExecutorsTypeOK,
         CallStep, Result, WorkState, CancellationStatus, ExecutorKinds
<1>2. OthersAreKept(a)
  BY DEF ChildSends, Becomes, Leaves, asyncVars, ExecutorsInv, ExecutorsTypeOK,
         OthersAreKept
<1>3. AttemptIsSound(a)'
  <2>1. AttemptIsSound(a)
    BY DEF ExecutorsInv
  <2> QED
    BY <2>1 DEF ChildSends, Becomes, Leaves, asyncVars, ExecutorsInv, ExecutorsTypeOK,
           AttemptIsSound, NotStartedYet, TellsTheTruth, ResultComesLast, KeepsItsPlace,
           PoolIsPlain, ProgramIsJudged, At, Live, Final
<1> QED
  BY <1>1, <1>2, <1>3, StepKeeps DEF ChildSends, Becomes, Leaves, asyncVars,
         ExecutorsInv, ExecutorsTypeOK

LEMMA ChildExitsKeeps ==
    ASSUME ExecutorsInv, NEW a \in Attempts, ChildExits(a), UNCHANGED asyncVars
    PROVE  ExecutorsInv'
<1>1. ExecutorsTypeOK'
  BY DEF ChildExits, Becomes, asyncVars, ExecutorsInv, ExecutorsTypeOK, CallStep,
         Result, WorkState, CancellationStatus, ExecutorKinds
<1>2. OthersAreKept(a)
  BY DEF ChildExits, Becomes, asyncVars, ExecutorsInv, ExecutorsTypeOK, OthersAreKept
<1>3. AttemptIsSound(a)'
  <2>1. AttemptIsSound(a)
    BY DEF ExecutorsInv
  <2> QED
    BY <2>1 DEF ChildExits, Becomes, asyncVars, ExecutorsInv, ExecutorsTypeOK,
           AttemptIsSound, NotStartedYet, TellsTheTruth, ResultComesLast, KeepsItsPlace,
           PoolIsPlain, ProgramIsJudged, At, Live, Final
<1> QED
  BY <1>1, <1>2, <1>3, StepKeeps DEF ChildExits, Becomes, asyncVars, ExecutorsInv,
         ExecutorsTypeOK

LEMMA ReceiveResultKeeps ==
    ASSUME ExecutorsInv, NEW a \in Attempts, ReceiveResult(a), UNCHANGED asyncVars
    PROVE  ExecutorsInv'
<1>1. ExecutorsTypeOK'
  BY DEF ReceiveResult, At, Keeps, asyncVars, ExecutorsInv, ExecutorsTypeOK, CallStep,
         Result, WorkState, CancellationStatus, ExecutorKinds
<1>2. OthersAreKept(a)
  BY DEF ReceiveResult, At, Keeps, asyncVars, ExecutorsInv, ExecutorsTypeOK,
         OthersAreKept
<1>3. AttemptIsSound(a)'
  <2>1. AttemptIsSound(a)
    BY DEF ExecutorsInv
  <2> QED
    BY <2>1 DEF ReceiveResult, At, Keeps, asyncVars, ExecutorsInv, ExecutorsTypeOK,
           AttemptIsSound, NotStartedYet, TellsTheTruth, ResultComesLast, KeepsItsPlace,
           PoolIsPlain, ProgramIsJudged, Live, Final
<1> QED
  BY <1>1, <1>2, <1>3, StepKeeps DEF ReceiveResult, At, Keeps, asyncVars, ExecutorsInv,
         ExecutorsTypeOK

LEMMA ReceiveNothingKeeps ==
    ASSUME ExecutorsInv, NEW a \in Attempts, ReceiveNothing(a), UNCHANGED asyncVars
    PROVE  ExecutorsInv'
<1>1. ExecutorsTypeOK'
  BY DEF ReceiveNothing, At, Keeps, ExitResult, asyncVars, ExecutorsInv,
         ExecutorsTypeOK, CallStep, Result, WorkState, CancellationStatus, ExecutorKinds
<1>2. OthersAreKept(a)
  BY DEF ReceiveNothing, At, Keeps, ExitResult, asyncVars, ExecutorsInv,
         ExecutorsTypeOK, OthersAreKept
<1>3. AttemptIsSound(a)'
  <2>1. AttemptIsSound(a)
    BY DEF ExecutorsInv
  <2> QED
    BY <2>1 DEF ReceiveNothing, At, Keeps, ExitResult, asyncVars, ExecutorsInv,
           ExecutorsTypeOK, AttemptIsSound, NotStartedYet, TellsTheTruth,
           ResultComesLast, KeepsItsPlace, PoolIsPlain, ProgramIsJudged, Live, Final
<1> QED
  BY <1>1, <1>2, <1>3, StepKeeps DEF ReceiveNothing, At, Keeps, ExitResult, asyncVars,
         ExecutorsInv, ExecutorsTypeOK

LEMMA KillChildKeeps ==
    ASSUME ExecutorsInv, NEW a \in Attempts, KillChild(a), UNCHANGED asyncVars
    PROVE  ExecutorsInv'
<1>1. ExecutorsTypeOK'
  BY DEF KillChild, At, HardStops, Keeps, Becomes, asyncVars, ExecutorsInv,
         ExecutorsTypeOK, CallStep, Result, WorkState, CancellationStatus, ExecutorKinds
<1>2. OthersAreKept(a)
  BY DEF KillChild, At, HardStops, Keeps, Becomes, asyncVars, ExecutorsInv,
         ExecutorsTypeOK, OthersAreKept
<1>3. AttemptIsSound(a)'
  <2>1. AttemptIsSound(a)
    BY DEF ExecutorsInv
  <2> QED
    BY <2>1 DEF KillChild, At, HardStops, Keeps, Becomes, asyncVars, ExecutorsInv,
           ExecutorsTypeOK, AttemptIsSound, NotStartedYet, TellsTheTruth,
           ResultComesLast, KeepsItsPlace, PoolIsPlain, ProgramIsJudged, Live, Final
<1> QED
  BY <1>1, <1>2, <1>3, StepKeeps DEF KillChild, At, HardStops, Keeps, Becomes,
         asyncVars, ExecutorsInv, ExecutorsTypeOK

\* The place is given back after the join.
LEMMA CloseChildKeeps ==
    ASSUME ExecutorsInv, NEW a \in Attempts, CloseChild(a), UNCHANGED asyncVars
    PROVE  ExecutorsInv'
<1>1. ExecutorsTypeOK'
  BY DEF CloseChild, At, Joined, Goes, asyncVars, ExecutorsInv, ExecutorsTypeOK,
         CallStep, Result, WorkState, CancellationStatus, ExecutorKinds
<1>2. OthersAreKept(a)
  BY DEF CloseChild, At, Joined, Goes, asyncVars, ExecutorsInv, ExecutorsTypeOK,
         OthersAreKept
<1>3. AttemptIsSound(a)'
  <2>1. AttemptIsSound(a)
    BY DEF ExecutorsInv
  <2> QED
    BY <2>1 DEF CloseChild, At, Joined, Goes, asyncVars, ExecutorsInv, ExecutorsTypeOK,
           AttemptIsSound, NotStartedYet, TellsTheTruth, ResultComesLast, KeepsItsPlace,
           PoolIsPlain, ProgramIsJudged, Live, Final
<1> QED
  BY <1>1, <1>2, <1>3, StepKeeps DEF CloseChild, At, Joined, Goes, asyncVars,
         ExecutorsInv, ExecutorsTypeOK

\* The external programs.
LEMMA AdmitProgramKeeps ==
    ASSUME ExecutorsInv, NEW a \in Attempts, AdmitProgram(a), UNCHANGED asyncVars
    PROVE  ExecutorsInv'
<1>1. ExecutorsTypeOK'
  BY DEF AdmitProgram, Admits, Goes, At, IsOpen, HasCapacity, asyncVars, ExecutorsInv,
         ExecutorsTypeOK, CallStep, Result, WorkState, CancellationStatus, ExecutorKinds
<1>2. OthersAreKept(a)
  BY DEF AdmitProgram, Admits, Goes, At, IsOpen, HasCapacity, asyncVars, ExecutorsInv,
         ExecutorsTypeOK, OthersAreKept
<1>3. AttemptIsSound(a)'
  <2>1. AttemptIsSound(a)
    BY DEF ExecutorsInv
  <2> QED
    BY <2>1 DEF AdmitProgram, Admits, Goes, At, IsOpen, HasCapacity, asyncVars,
           ExecutorsInv, ExecutorsTypeOK, AttemptIsSound, NotStartedYet, TellsTheTruth,
           ResultComesLast, KeepsItsPlace, PoolIsPlain, ProgramIsJudged, Live, Final
<1> QED
  BY <1>1, <1>2, <1>3, StepKeeps DEF AdmitProgram, Admits, Goes, At, IsOpen,
         HasCapacity, asyncVars, ExecutorsInv, ExecutorsTypeOK

LEMMA SpawnProgramKeeps ==
    ASSUME ExecutorsInv, NEW a \in Attempts, SpawnProgram(a), UNCHANGED asyncVars
    PROVE  ExecutorsInv'
<1>1. ExecutorsTypeOK'
  <2>1. call' \in [Attempts -> [at: CallStep, result: Result]]
    BY DEF SpawnProgram, At, Goes, Becomes, Returns, Keeps, asyncVars, ExecutorsInv,
           ExecutorsTypeOK, CallStep, Result
  <2>2. work' \in [Attempts -> WorkState]
    BY DEF SpawnProgram, At, Goes, Becomes, Returns, Keeps, asyncVars, ExecutorsInv,
           ExecutorsTypeOK, WorkState
  <2> QED
    BY <2>1, <2>2 DEF SpawnProgram, At, Goes, Becomes, Returns, Keeps, asyncVars,
           ExecutorsInv, ExecutorsTypeOK
<1>2. OthersAreKept(a)
  BY DEF SpawnProgram, At, Goes, Becomes, Returns, Keeps, asyncVars, ExecutorsInv,
         ExecutorsTypeOK, OthersAreKept
<1>3. AttemptIsSound(a)'
  <2>1. AttemptIsSound(a)
    BY DEF ExecutorsInv
  <2> QED
    BY <2>1 DEF SpawnProgram, At, Goes, Becomes, Returns, Keeps, asyncVars,
           ExecutorsInv, ExecutorsTypeOK, AttemptIsSound, NotStartedYet, TellsTheTruth,
           ResultComesLast, KeepsItsPlace, PoolIsPlain, ProgramIsJudged, Live, Final
<1> QED
  BY <1>1, <1>2, <1>3, StepKeeps DEF SpawnProgram, At, Goes, Becomes, Returns, Keeps,
         asyncVars, ExecutorsInv, ExecutorsTypeOK

LEMMA RegisterProgramKeeps ==
    ASSUME ExecutorsInv, NEW a \in Attempts, RegisterProgram(a), UNCHANGED asyncVars
    PROVE  ExecutorsInv'
<1>1. ExecutorsTypeOK'
  BY DEF RegisterProgram, At, Goes, asyncVars, ExecutorsInv, ExecutorsTypeOK, CallStep,
         Result, WorkState, CancellationStatus, ExecutorKinds
<1>2. OthersAreKept(a)
  BY DEF RegisterProgram, At, Goes, asyncVars, ExecutorsInv, ExecutorsTypeOK,
         OthersAreKept
<1>3. AttemptIsSound(a)'
  <2>1. AttemptIsSound(a)
    BY DEF ExecutorsInv
  <2> QED
    BY <2>1 DEF RegisterProgram, At, Goes, asyncVars, ExecutorsInv, ExecutorsTypeOK,
           AttemptIsSound, NotStartedYet, TellsTheTruth, ResultComesLast, KeepsItsPlace,
           PoolIsPlain, ProgramIsJudged, Live, Final
<1> QED
  BY <1>1, <1>2, <1>3, StepKeeps DEF RegisterProgram, At, Goes, asyncVars, ExecutorsInv,
         ExecutorsTypeOK

LEMMA ProgramEndsKeeps ==
    ASSUME ExecutorsInv, NEW a \in Attempts, ProgramEnds(a), UNCHANGED asyncVars
    PROVE  ExecutorsInv'
<1>1. ExecutorsTypeOK'
  BY DEF ProgramEnds, Becomes, asyncVars, ExecutorsInv, ExecutorsTypeOK, CallStep,
         Result, WorkState, CancellationStatus, ExecutorKinds
<1>2. OthersAreKept(a)
  BY DEF ProgramEnds, Becomes, asyncVars, ExecutorsInv, ExecutorsTypeOK, OthersAreKept
<1>3. AttemptIsSound(a)'
  <2>1. AttemptIsSound(a)
    BY DEF ExecutorsInv
  <2> QED
    BY <2>1 DEF ProgramEnds, Becomes, asyncVars, ExecutorsInv, ExecutorsTypeOK,
           AttemptIsSound, NotStartedYet, TellsTheTruth, ResultComesLast, KeepsItsPlace,
           PoolIsPlain, ProgramIsJudged, At, Live, Final
<1> QED
  BY <1>1, <1>2, <1>3, StepKeeps DEF ProgramEnds, Becomes, asyncVars, ExecutorsInv,
         ExecutorsTypeOK

LEMMA CollectOutputKeeps ==
    ASSUME ExecutorsInv, NEW a \in Attempts, CollectOutput(a), UNCHANGED asyncVars
    PROVE  ExecutorsInv'
<1>1. ExecutorsTypeOK'
  BY DEF CollectOutput, At, Goes, asyncVars, ExecutorsInv, ExecutorsTypeOK, CallStep,
         Result, WorkState, CancellationStatus, ExecutorKinds
<1>2. OthersAreKept(a)
  BY DEF CollectOutput, At, Goes, asyncVars, ExecutorsInv, ExecutorsTypeOK,
         OthersAreKept
<1>3. AttemptIsSound(a)'
  <2>1. AttemptIsSound(a)
    BY DEF ExecutorsInv
  <2> QED
    BY <2>1 DEF CollectOutput, At, Goes, asyncVars, ExecutorsInv, ExecutorsTypeOK,
           AttemptIsSound, NotStartedYet, TellsTheTruth, ResultComesLast, KeepsItsPlace,
           PoolIsPlain, ProgramIsJudged, Live, Final
<1> QED
  BY <1>1, <1>2, <1>3, StepKeeps DEF CollectOutput, At, Goes, asyncVars, ExecutorsInv,
         ExecutorsTypeOK

\* What was cancelled is reported as cancelled.
LEMMA JudgeProgramKeeps ==
    ASSUME ExecutorsInv, NEW a \in Attempts, JudgeProgram(a), UNCHANGED asyncVars
    PROVE  ExecutorsInv'
<1>1. ExecutorsTypeOK'
  BY DEF JudgeProgram, At, Keeps, ProgramResult, asyncVars, ExecutorsInv,
         ExecutorsTypeOK, CallStep, Result, WorkState, CancellationStatus, ExecutorKinds
<1>2. OthersAreKept(a)
  BY DEF JudgeProgram, At, Keeps, ProgramResult, asyncVars, ExecutorsInv,
         ExecutorsTypeOK, OthersAreKept
<1>3. AttemptIsSound(a)'
  <2>1. AttemptIsSound(a)
    BY DEF ExecutorsInv
  <2> QED
    BY <2>1 DEF JudgeProgram, At, Keeps, ProgramResult, asyncVars, ExecutorsInv,
           ExecutorsTypeOK, AttemptIsSound, NotStartedYet, TellsTheTruth,
           ResultComesLast, KeepsItsPlace, PoolIsPlain, ProgramIsJudged, Live, Final
<1> QED
  BY <1>1, <1>2, <1>3, StepKeeps DEF JudgeProgram, At, Keeps, ProgramResult, asyncVars,
         ExecutorsInv, ExecutorsTypeOK

LEMMA KillProgramKeeps ==
    ASSUME ExecutorsInv, NEW a \in Attempts, KillProgram(a), UNCHANGED asyncVars
    PROVE  ExecutorsInv'
<1>1. ExecutorsTypeOK'
  BY DEF KillProgram, At, HardStops, Keeps, Becomes, asyncVars, ExecutorsInv,
         ExecutorsTypeOK, CallStep, Result, WorkState, CancellationStatus, ExecutorKinds
<1>2. OthersAreKept(a)
  BY DEF KillProgram, At, HardStops, Keeps, Becomes, asyncVars, ExecutorsInv,
         ExecutorsTypeOK, OthersAreKept
<1>3. AttemptIsSound(a)'
  <2>1. AttemptIsSound(a)
    BY DEF ExecutorsInv
  <2> QED
    BY <2>1 DEF KillProgram, At, HardStops, Keeps, Becomes, asyncVars, ExecutorsInv,
           ExecutorsTypeOK, AttemptIsSound, NotStartedYet, TellsTheTruth,
           ResultComesLast, KeepsItsPlace, PoolIsPlain, ProgramIsJudged, Live, Final
<1> QED
  BY <1>1, <1>2, <1>3, StepKeeps DEF KillProgram, At, HardStops, Keeps, Becomes,
         asyncVars, ExecutorsInv, ExecutorsTypeOK

LEMMA ForgetProgramKeeps ==
    ASSUME ExecutorsInv, NEW a \in Attempts, ForgetProgram(a), UNCHANGED asyncVars
    PROVE  ExecutorsInv'
<1>1. ExecutorsTypeOK'
  BY DEF ForgetProgram, At, Goes, asyncVars, ExecutorsInv, ExecutorsTypeOK, CallStep,
         Result, WorkState, CancellationStatus, ExecutorKinds
<1>2. OthersAreKept(a)
  BY DEF ForgetProgram, At, Goes, asyncVars, ExecutorsInv, ExecutorsTypeOK,
         OthersAreKept
<1>3. AttemptIsSound(a)'
  <2>1. AttemptIsSound(a)
    BY DEF ExecutorsInv
  <2> QED
    BY <2>1 DEF ForgetProgram, At, Goes, asyncVars, ExecutorsInv, ExecutorsTypeOK,
           AttemptIsSound, NotStartedYet, TellsTheTruth, ResultComesLast, KeepsItsPlace,
           PoolIsPlain, ProgramIsJudged, Live, Final
<1> QED
  BY <1>1, <1>2, <1>3, StepKeeps DEF ForgetProgram, At, Goes, asyncVars, ExecutorsInv,
         ExecutorsTypeOK

\* cancel() kills the process before it answers.
LEMMA CancelProcessKeeps ==
    ASSUME ExecutorsInv, NEW a \in Attempts, CancelProcess(a), UNCHANGED asyncVars
    PROVE  ExecutorsInv'
<1>1. ExecutorsTypeOK'
  BY DEF CancelProcess, Answers, HardStops, Becomes, asyncVars, ExecutorsInv,
         ExecutorsTypeOK, CallStep, Result, WorkState, CancellationStatus, ExecutorKinds
<1>2. OthersAreKept(a)
  BY DEF CancelProcess, Answers, HardStops, Becomes, asyncVars, ExecutorsInv,
         ExecutorsTypeOK, OthersAreKept
<1>3. AttemptIsSound(a)'
  <2>1. AttemptIsSound(a)
    BY DEF ExecutorsInv
  <2> QED
    BY <2>1 DEF CancelProcess, Answers, HardStops, Becomes, asyncVars, ExecutorsInv,
           ExecutorsTypeOK, AttemptIsSound, NotStartedYet, TellsTheTruth,
           ResultComesLast, KeepsItsPlace, PoolIsPlain, ProgramIsJudged, At, Live, Final
<1> QED
  BY <1>1, <1>2, <1>3, StepKeeps DEF CancelProcess, Answers, HardStops, Becomes,
         asyncVars, ExecutorsInv, ExecutorsTypeOK

\* The coroutines.
LEMMA StartExecutionKeeps ==
    ASSUME ExecutorsInv, NEW a \in Attempts, StartExecution(a)
    PROVE  ExecutorsInv'
<1>1. ExecutorsTypeOK'
  BY DEF StartExecution, Becomes, Leaves, asyncVars, ExecutorsInv, ExecutorsTypeOK,
         CallStep, Result, WorkState, CancellationStatus, ExecutorKinds
<1>2. OthersAreKept(a)
  BY DEF StartExecution, Becomes, Leaves, asyncVars, ExecutorsInv, ExecutorsTypeOK,
         OthersAreKept
<1>3. AttemptIsSound(a)'
  <2>1. AttemptIsSound(a)
    BY DEF ExecutorsInv
  <2> QED
    BY <2>1 DEF StartExecution, Becomes, Leaves, asyncVars, ExecutorsInv,
           ExecutorsTypeOK, AttemptIsSound, NotStartedYet, TellsTheTruth,
           ResultComesLast, KeepsItsPlace, PoolIsPlain, ProgramIsJudged, At, Live, Final
<1> QED
  BY <1>1, <1>2, <1>3, StepKeeps DEF StartExecution, Becomes, Leaves, asyncVars,
         ExecutorsInv, ExecutorsTypeOK

LEMMA CoroutineEndsKeeps ==
    ASSUME ExecutorsInv, NEW a \in Attempts, CoroutineEnds(a)
    PROVE  ExecutorsInv'
<1>1. ExecutorsTypeOK'
  BY DEF CoroutineEnds, Becomes, Leaves, asyncVars, ExecutorsInv, ExecutorsTypeOK,
         CallStep, Result, WorkState, CancellationStatus, ExecutorKinds
<1>2. OthersAreKept(a)
  BY DEF CoroutineEnds, Becomes, Leaves, asyncVars, ExecutorsInv, ExecutorsTypeOK,
         OthersAreKept
<1>3. AttemptIsSound(a)'
  <2>1. AttemptIsSound(a)
    BY DEF ExecutorsInv
  <2> QED
    BY <2>1 DEF CoroutineEnds, Becomes, Leaves, asyncVars, ExecutorsInv,
           ExecutorsTypeOK, AttemptIsSound, NotStartedYet, TellsTheTruth,
           ResultComesLast, KeepsItsPlace, PoolIsPlain, ProgramIsJudged, At, Live, Final
<1> QED
  BY <1>1, <1>2, <1>3, StepKeeps DEF CoroutineEnds, Becomes, Leaves, asyncVars,
         ExecutorsInv, ExecutorsTypeOK

LEMMA CompleteExecutionKeeps ==
    ASSUME ExecutorsInv, NEW a \in Attempts, CompleteExecution(a)
    PROVE  ExecutorsInv'
<1>1. ExecutorsTypeOK'
  BY DEF CompleteExecution, WakesCaller, asyncVars, ExecutorsInv, ExecutorsTypeOK,
         CallStep, Result, WorkState, CancellationStatus, ExecutorKinds
<1>2. OthersAreKept(a)
  BY DEF CompleteExecution, WakesCaller, asyncVars, ExecutorsInv, ExecutorsTypeOK,
         OthersAreKept
<1>3. AttemptIsSound(a)'
  <2>1. AttemptIsSound(a)
    BY DEF ExecutorsInv
  <2> QED
    BY <2>1 DEF CompleteExecution, WakesCaller, asyncVars, ExecutorsInv,
           ExecutorsTypeOK, AttemptIsSound, NotStartedYet, TellsTheTruth,
           ResultComesLast, KeepsItsPlace, PoolIsPlain, ProgramIsJudged, At, Live, Final
<1> QED
  BY <1>1, <1>2, <1>3, StepKeeps DEF CompleteExecution, WakesCaller, asyncVars,
         ExecutorsInv, ExecutorsTypeOK

LEMMA ReturnResultKeeps ==
    ASSUME ExecutorsInv, NEW a \in Attempts, ReturnResult(a)
    PROVE  ExecutorsInv'
<1>1. ExecutorsTypeOK'
  BY DEF ReturnResult, At, Returns, asyncVars, Keeps, ExecutorsInv, ExecutorsTypeOK,
         CallStep, Result, WorkState, CancellationStatus, ExecutorKinds
<1>2. OthersAreKept(a)
  BY DEF ReturnResult, At, Returns, asyncVars, Keeps, ExecutorsInv, ExecutorsTypeOK,
         OthersAreKept
<1>3. AttemptIsSound(a)'
  <2>1. AttemptIsSound(a)
    BY DEF ExecutorsInv
  <2> QED
    BY <2>1 DEF ReturnResult, At, Returns, asyncVars, Keeps, ExecutorsInv,
           ExecutorsTypeOK, AttemptIsSound, NotStartedYet, TellsTheTruth,
           ResultComesLast, KeepsItsPlace, PoolIsPlain, ProgramIsJudged, Live, Final
<1> QED
  BY <1>1, <1>2, <1>3, StepKeeps DEF ReturnResult, At, Returns, asyncVars, Keeps,
         ExecutorsInv, ExecutorsTypeOK

LEMMA WaitTimesOutKeeps ==
    ASSUME ExecutorsInv, NEW a \in Attempts, WaitTimesOut(a)
    PROVE  ExecutorsInv'
<1>1. ExecutorsTypeOK'
  BY DEF WaitTimesOut, At, Goes, asyncVars, ExecutorsInv, ExecutorsTypeOK, CallStep,
         Result, WorkState, CancellationStatus, ExecutorKinds
<1>2. OthersAreKept(a)
  BY DEF WaitTimesOut, At, Goes, asyncVars, ExecutorsInv, ExecutorsTypeOK, OthersAreKept
<1>3. AttemptIsSound(a)'
  <2>1. AttemptIsSound(a)
    BY DEF ExecutorsInv
  <2> QED
    BY <2>1 DEF WaitTimesOut, At, Goes, asyncVars, ExecutorsInv, ExecutorsTypeOK,
           AttemptIsSound, NotStartedYet, TellsTheTruth, ResultComesLast, KeepsItsPlace,
           PoolIsPlain, ProgramIsJudged, Live, Final
<1> QED
  BY <1>1, <1>2, <1>3, StepKeeps DEF WaitTimesOut, At, Goes, asyncVars, ExecutorsInv,
         ExecutorsTypeOK

\* A call that gives up leaves its coroutine its place.
LEMMA DetachExecutionKeeps ==
    ASSUME ExecutorsInv, NEW a \in Attempts, DetachExecution(a)
    PROVE  ExecutorsInv'
<1>1. ExecutorsTypeOK'
  BY DEF DetachExecution, At, KeptByDetached, Returns, Keeps, asyncVars, ExecutorsInv,
         ExecutorsTypeOK, CallStep, Result, WorkState, CancellationStatus, ExecutorKinds
<1>2. OthersAreKept(a)
  BY DEF DetachExecution, At, KeptByDetached, Returns, Keeps, asyncVars, ExecutorsInv,
         ExecutorsTypeOK, OthersAreKept
<1>3. AttemptIsSound(a)'
  <2>1. AttemptIsSound(a)
    BY DEF ExecutorsInv
  <2> QED
    BY <2>1 DEF DetachExecution, At, KeptByDetached, Returns, Keeps, asyncVars,
           LoopOutlivesWork, ExecutorsInv, ExecutorsTypeOK, AttemptIsSound,
           NotStartedYet, TellsTheTruth, ResultComesLast, KeepsItsPlace, PoolIsPlain,
           ProgramIsJudged, Live, Final
<1> QED
  BY <1>1, <1>2, <1>3, StepKeeps DEF DetachExecution, At, KeptByDetached, Returns,
         Keeps, asyncVars, ExecutorsInv, ExecutorsTypeOK

LEMMA CancelCoroutineKeeps ==
    ASSUME ExecutorsInv, NEW a \in Attempts, CancelCoroutine(a)
    PROVE  ExecutorsInv'
<1>1. ExecutorsTypeOK'
  BY DEF CancelCoroutine, Answers, AsyncCancelStatus, asyncVars, ExecutorsInv,
         ExecutorsTypeOK, CallStep, Result, WorkState, CancellationStatus, ExecutorKinds
<1>2. OthersAreKept(a)
  BY DEF CancelCoroutine, Answers, AsyncCancelStatus, asyncVars, ExecutorsInv,
         ExecutorsTypeOK, OthersAreKept
<1>3. AttemptIsSound(a)'
  <2>1. AttemptIsSound(a)
    BY DEF ExecutorsInv
  <2> QED
    BY <2>1 DEF CancelCoroutine, Answers, AsyncCancelStatus, asyncVars, ExecutorsInv,
           ExecutorsTypeOK, AttemptIsSound, NotStartedYet, TellsTheTruth,
           ResultComesLast, KeepsItsPlace, PoolIsPlain, ProgramIsJudged, At, Live, Final
<1> QED
  BY <1>1, <1>2, <1>3, StepKeeps DEF CancelCoroutine, Answers, AsyncCancelStatus,
         asyncVars, ExecutorsInv, ExecutorsTypeOK

\* A free thread takes work from the queue.
LEMMA PoolStartsKeeps ==
    ASSUME ExecutorsInv, NEW a \in Attempts, PoolStarts(a), UNCHANGED asyncVars
    PROVE  ExecutorsInv'
<1>1. ExecutorsTypeOK'
  BY DEF PoolStarts, Becomes, asyncVars, ExecutorsInv, ExecutorsTypeOK, CallStep, Result,
         WorkState, CancellationStatus, ExecutorKinds
<1>2. OthersAreKept(a)
  BY DEF PoolStarts, Becomes, asyncVars, ExecutorsInv, ExecutorsTypeOK, OthersAreKept
<1>3. AttemptIsSound(a)'
  <2>1. AttemptIsSound(a)
    BY DEF ExecutorsInv
  <2> QED
    BY <2>1 DEF PoolStarts, Becomes, asyncVars, ExecutorsInv, ExecutorsTypeOK,
           AttemptIsSound, NotStartedYet, TellsTheTruth, ResultComesLast, KeepsItsPlace,
           PoolIsPlain, ProgramIsJudged, At, Live, Final
<1>4. executor = "thread" /\ executor' = "thread"
  BY DEF PoolStarts
<1>5. PlacesAreBounded'
  <2>1. Bounded(PoolBusy) /\ Cardinality(PoolBusy) < MaxWorkers
    BY <1>4 DEF PoolStarts, ExecutorsInv, PlacesAreBounded
  <2>2. Bounded(PoolBusy \cup {a})
    BY <2>1, BoundedSets
  <2>3. PoolBusy' \subseteq PoolBusy \cup {a}
    BY <1>2, <1>4 DEF PoolBusy, OthersAreKept
  <2>4. Bounded(PoolBusy')
    BY <2>2, <2>3, BoundedSets
  <2> QED
    BY <1>4, <2>4 DEF PlacesAreBounded, Bounded
<1>6. \A b \in Attempts : AttemptIsSound(b)'
  BY <1>2, <1>3, <1>4, StepOfOne
<1> QED
  BY <1>1, <1>4, <1>5, <1>6 DEF ExecutorsInv, LoopOutlivesWork

\* A workload that is admitted takes one of the places of the executor.
LEMMA AdmittedIsBounded ==
    ASSUME ExecutorsInv, NEW a \in Attempts, Admits(a), executor \in {"async", "process"},
           active' = active \cup {a}, UNCHANGED <<executor, closing, loop>>, IsOpen
    PROVE  PlacesAreBounded' /\ LoopOutlivesWork'
<1>1. Bounded(active) /\ Cardinality(active) < MaxWorkers
  BY DEF Admits, HasCapacity, ExecutorsInv, PlacesAreBounded
<1>2. Bounded(active')
  BY <1>1, BoundedSets
<1> QED
  BY <1>2 DEF PlacesAreBounded, Bounded, LoopOutlivesWork, ExecutorsInv, IsOpen

LEMMA StartChildKeeps ==
    ASSUME ExecutorsInv, NEW a \in Attempts, StartChild(a), UNCHANGED asyncVars
    PROVE  ExecutorsInv'
<1>1. ExecutorsTypeOK'
  BY DEF StartChild, Goes, Becomes, asyncVars, ExecutorsInv, ExecutorsTypeOK, CallStep,
         Result, WorkState, CancellationStatus, ExecutorKinds
<1>2. OthersAreKept(a)
  BY DEF StartChild, Goes, Becomes, asyncVars, ExecutorsInv, ExecutorsTypeOK, OthersAreKept
<1>3. AttemptIsSound(a)'
  <2>1. AttemptIsSound(a)
    BY DEF ExecutorsInv
  <2> QED
    BY <2>1 DEF StartChild, Admits, Goes, Becomes, asyncVars, ExecutorsInv, ExecutorsTypeOK,
           AttemptIsSound, NotStartedYet, TellsTheTruth, ResultComesLast, KeepsItsPlace,
           PoolIsPlain, ProgramIsJudged, At, Live, Final
<1>4. PlacesAreBounded' /\ LoopOutlivesWork'
  BY AdmittedIsBounded DEF StartChild, Admits, asyncVars
<1>5. \A b \in Attempts : AttemptIsSound(b)'
  BY <1>2, <1>3, StepOfOne DEF StartChild
<1> QED
  BY <1>1, <1>4, <1>5 DEF ExecutorsInv

LEMMA ScheduleCoroutineKeeps ==
    ASSUME ExecutorsInv, NEW a \in Attempts, ScheduleCoroutine(a)
    PROVE  ExecutorsInv'
<1>1. ExecutorsTypeOK'
  BY DEF ScheduleCoroutine, Goes, Becomes, asyncVars, ExecutorsInv, ExecutorsTypeOK, CallStep,
         Result, WorkState, CancellationStatus, ExecutorKinds
<1>2. OthersAreKept(a)
  BY DEF ScheduleCoroutine, Goes, Becomes, asyncVars, ExecutorsInv, ExecutorsTypeOK, OthersAreKept
<1>3. AttemptIsSound(a)'
  <2>1. AttemptIsSound(a)
    BY DEF ExecutorsInv
  <2> QED
    BY <2>1 DEF ScheduleCoroutine, Admits, Goes, Becomes, asyncVars, ExecutorsInv,
           ExecutorsTypeOK, AttemptIsSound, NotStartedYet, TellsTheTruth, ResultComesLast,
           KeepsItsPlace, PoolIsPlain, ProgramIsJudged, At, Live, Final
<1>4. PlacesAreBounded' /\ LoopOutlivesWork'
  BY AdmittedIsBounded DEF ScheduleCoroutine, Admits, asyncVars
<1>5. \A b \in Attempts : AttemptIsSound(b)'
  BY <1>2, <1>3, StepOfOne DEF ScheduleCoroutine
<1> QED
  BY <1>1, <1>4, <1>5 DEF ExecutorsInv

\* shutdown() goes through the executions that it found: it waits for each, or
\* ends it.
LEMMA JoinKeeps ==
    ASSUME ExecutorsInv, NEW a \in Attempts, JoinChild(a) \/ JoinProgram(a), UNCHANGED asyncVars
    PROVE  ExecutorsInv'
<1>1. ExecutorsTypeOK'
  BY DEF JoinChild, JoinProgram, HardStops, Becomes, asyncVars, ExecutorsInv, ExecutorsTypeOK,
         WorkState
<1>2. OthersAreKept(a)
  BY DEF JoinChild, JoinProgram, HardStops, Becomes, asyncVars, ExecutorsInv, ExecutorsTypeOK,
         OthersAreKept
<1>3. AttemptIsSound(a)'
  <2>1. AttemptIsSound(a)
    BY DEF ExecutorsInv
  <2> QED
    BY <2>1 DEF JoinChild, JoinProgram, HardStops, Becomes, asyncVars, ExecutorsInv,
           ExecutorsTypeOK, AttemptIsSound, NotStartedYet, TellsTheTruth, ResultComesLast,
           KeepsItsPlace, PoolIsPlain, ProgramIsJudged, At, Live, Final
<1> QED
  BY <1>1, <1>2, <1>3, StepKeeps DEF JoinChild, JoinProgram, asyncVars

\* The steps of shutdown() that change no call and no workload.
LEMMA ShutdownKeeps ==
    ASSUME ExecutorsInv, ExecutorsTypeOK', LoopOutlivesWork',
           UNCHANGED <<executor, call, work, active, completed, answer, done>>,
           cancelRequested \subseteq cancelRequested'
    PROVE  ExecutorsInv'
<1>1. \A a \in Attempts : AttemptIsSound(a)'
  <2> TAKE a \in Attempts
  <2>1. AttemptIsSound(a)
    BY DEF ExecutorsInv
  <2> QED
    BY <2>1 DEF AttemptIsSound, NotStartedYet, TellsTheTruth, ResultComesLast, KeepsItsPlace,
           PoolIsPlain, ProgramIsJudged, At, Live
<1>2. PlacesAreBounded'
  <2>1. PoolBusy' = PoolBusy
    BY DEF PoolBusy
  <2> QED
    BY <2>1 DEF ExecutorsInv, PlacesAreBounded, Bounded
<1> QED
  BY <1>1, <1>2 DEF ExecutorsInv

LEMMA ShutdownStartsKeeps ==
    ASSUME ExecutorsInv, ShutdownStarts
    PROVE  ExecutorsInv'
<1>1. CASE (ShutdownPool \/ ShutdownChildren \/ ShutdownPrograms) /\ UNCHANGED asyncVars
  <2>1. ExecutorsTypeOK'
    BY <1>1 DEF ShutdownPool, ShutdownChildren, ShutdownPrograms, ClosesWith, IsOpen, asyncVars,
           ExecutorsInv, ExecutorsTypeOK
  <2>2. LoopOutlivesWork'
    BY <1>1 DEF ShutdownPool, ShutdownChildren, ShutdownPrograms, LoopOutlivesWork
  <2> QED
    BY <1>1, <2>1, <2>2, ShutdownKeeps
       DEF ShutdownPool, ShutdownChildren, ShutdownPrograms, asyncVars
<1>2. CASE ShutdownLoop
  <2>1. ExecutorsTypeOK'
    <3>1. \E wait \in BOOLEAN : \E step \in {"waiting", "returned"} :
             closing' = [at |-> step, wait |-> wait, of |-> active]
      BY <1>2 DEF ShutdownLoop, ClosesWith
    <3>2. active \subseteq Attempts
      BY DEF ExecutorsInv, ExecutorsTypeOK
    <3>3. closing' \in [at: {"open", "waiting", "returned", "raised"},
                        wait: BOOLEAN, of: SUBSET Attempts]
      BY <3>1, <3>2
    <3>4. cancelRequested' \subseteq Attempts
      BY <1>2, <3>2 DEF ShutdownLoop, ExecutorsInv, ExecutorsTypeOK
    <3> QED
      BY <1>2, <3>3, <3>4 DEF ShutdownLoop, asyncVars, ExecutorsInv, ExecutorsTypeOK
  <2>2. LoopOutlivesWork'
    BY <1>2 DEF ShutdownLoop, ClosesWith, IsOpen, asyncVars, ExecutorsInv, LoopOutlivesWork
  <2> QED
    BY <1>2, <2>1, <2>2, ShutdownKeeps DEF ShutdownLoop, asyncVars
<1> QED
  BY <1>1, <1>2 DEF ShutdownStarts

LEMMA ShutdownStepKeeps ==
    ASSUME ExecutorsInv, ShutdownStep
    PROVE  ExecutorsInv'
<1>1. CASE (PoolJoined \/ ChildrenJoined \/ ProgramsJoined) /\ UNCHANGED asyncVars
  <2>1. ExecutorsTypeOK'
    BY <1>1 DEF PoolJoined, ChildrenJoined, ProgramsJoined, asyncVars, ExecutorsInv, ExecutorsTypeOK
  <2>2. LoopOutlivesWork'
    BY <1>1 DEF PoolJoined, ChildrenJoined, ProgramsJoined, LoopOutlivesWork
  <2> QED
    BY <1>1, <2>1, <2>2, ShutdownKeeps DEF PoolJoined, ChildrenJoined, ProgramsJoined, asyncVars
<1>2. ASSUME NEW a \in Attempts, (JoinChild(a) \/ JoinProgram(a)) /\ UNCHANGED asyncVars
      PROVE  ExecutorsInv'
  BY <1>2, JoinKeeps
<1>3. CASE LoopCloses
  <2>1. ExecutorsTypeOK'
    BY <1>3 DEF LoopCloses, ExecutorsInv, ExecutorsTypeOK
  <2>2. active \subseteq closing.of /\ active \subseteq done
    BY <1>3 DEF LoopCloses, AwaitedDone, ExecutorsInv, LoopOutlivesWork
  <2>3. LoopOutlivesWork'
    BY <1>3, <2>2 DEF LoopCloses, ExecutorsInv, ExecutorsTypeOK, LoopOutlivesWork, IsOpen
  <2> QED
    BY <1>3, <2>1, <2>3, ShutdownKeeps DEF LoopCloses
<1> QED
  BY <1>1, <1>2, <1>3 DEF ShutdownStep

LEMMA CallStepKeeps ==
    ASSUME ExecutorsInv, NEW a \in Attempts, CallStepOf(a)
    PROVE  ExecutorsInv'
<1>1. CASE (PassedDeadline(a) \/ Refuses(a) \/ DeadlinePasses(a)) /\ UNCHANGED asyncVars
  BY <1>1, PassedDeadlineKeeps, RefusesKeeps, DeadlinePassesKeeps
<1>2. CASE RunsInline(a) /\ UNCHANGED asyncVars
  BY <1>2, RunsInlineKeeps
<1>3. CASE ThreadStep(a) /\ UNCHANGED asyncVars
  BY <1>3, RejectsKeeps, SubmitToPoolKeeps, PoolStartsKeeps, FutureResultKeeps,
     FutureTimesOutKeeps DEF ThreadStep, RejectsHandler
<1>4. CASE ProcessStep(a) /\ UNCHANGED asyncVars
  BY <1>4, RejectsKeeps, StartChildKeeps, ReceiveResultKeeps, ReceiveNothingKeeps, KillChildKeeps,
     CloseChildKeeps DEF ProcessStep, RejectsChild
<1>5. CASE SubprocessStep(a) /\ UNCHANGED asyncVars
  BY <1>5, RejectsKeeps, AdmitProgramKeeps, SpawnProgramKeeps, RegisterProgramKeeps,
     CollectOutputKeeps, JudgeProgramKeeps, KillProgramKeeps, ForgetProgramKeeps
     DEF SubprocessStep, RejectsProgram
<1>6. CASE AsyncStep(a)
  BY <1>6, RejectsKeeps, ScheduleCoroutineKeeps, StartExecutionKeeps, CompleteExecutionKeeps,
     ReturnResultKeeps, DetachExecutionKeeps, WaitTimesOutKeeps DEF AsyncStep, RejectsCoroutine
<1> QED
  BY <1>1, <1>2, <1>3, <1>4, <1>5, <1>6 DEF CallStepOf

\* The invariant of the executors: a step of a call, of a workload, of cancel()
\* or of shutdown() at a time.
LEMMA ExecutorsInvariant == ExecutorsSpec => []ExecutorsInv
<1>1. ExecutorsInit => ExecutorsInv
  BY InitExecutorsInv
<1>2. ExecutorsInv /\ [ExecutorsNext]_executorVars => ExecutorsInv'
  <2> SUFFICES ASSUME ExecutorsInv, [ExecutorsNext]_executorVars
               PROVE  ExecutorsInv'
    OBVIOUS
  <2>1. ASSUME NEW a \in Attempts, CallStepOf(a)
        PROVE  ExecutorsInv'
    BY <2>1, CallStepKeeps
  <2>2. ASSUME NEW a \in Attempts, WorkloadEnds(a)
        PROVE  ExecutorsInv'
    BY <2>2, ReturnsInlineKeeps, PoolFinishesKeeps, ChildSendsKeeps, ProgramEndsKeeps,
       CoroutineEndsKeeps DEF WorkloadEnds
  <2>3. ASSUME NEW a \in Attempts, Cancels(a)
        PROVE  ExecutorsInv'
    BY <2>3, CancelProcessKeeps, CancelCoroutineKeeps DEF Cancels
  <2>4. ASSUME NEW a \in Attempts, ChildExits(a), UNCHANGED asyncVars
        PROVE  ExecutorsInv'
    BY <2>4, ChildExitsKeeps
  <2>5. CASE ShutdownStarts
    BY <2>5, ShutdownStartsKeeps
  <2>6. CASE ShutdownStep
    BY <2>6, ShutdownStepKeeps
  <2>7. CASE UNCHANGED executorVars
    <3>1. ExecutorsTypeOK' /\ LoopOutlivesWork'
      BY <2>7 DEF executorVars, callVars, asyncVars, ExecutorsInv, ExecutorsTypeOK,
             LoopOutlivesWork, IsOpen
    <3> QED
      BY <2>7, <3>1, ShutdownKeeps DEF executorVars, callVars, asyncVars
  <2> QED
    BY <2>1, <2>2, <2>3, <2>4, <2>5, <2>6, <2>7 DEF ExecutorsNext
<1> QED
  BY <1>1, <1>2, PTL DEF ExecutorsSpec

\* shutdown(wait=True) waits for whatever runs when it begins: a pool for its
\* threads, a loop for the executions it noted, and the parent of child
\* processes for each of them.
ShutdownWaits ==
    /\ IsOpen => ~ closing.wait
    /\ executor = "inline" => IsOpen
    /\ closing.wait =>
          /\ executor = "thread" /\ closing.at = "returned" => \A a \in Attempts : ~ Live(a)
          /\ executor = "async" /\ closing.at = "returned" => closing.of \subseteq done
          /\ executor = "process" /\ closing.at # "raised" =>
                /\ \A a \in Attempts : Live(a) => a \in closing.of
                /\ closing.at = "returned" => closing.of = {}

\* A step that does not belong to shutdown(): it starts nothing in an executor
\* that is closed.
StartsNothingLate ==
    /\ closing' = closing /\ executor' = executor /\ done \subseteq done'
    /\ executor \in {"thread", "async", "process"} /\ ~ IsOpen =>
          \A a \in Attempts : Live(a)' => Live(a)

LEMMA CallsStartNothingLate ==
    ASSUME ExecutorsInv, NEW a \in Attempts, CallStepOf(a)
    PROVE  StartsNothingLate
<1>0. work \in [Attempts -> WorkState] /\ done \subseteq Attempts
  BY DEF ExecutorsInv, ExecutorsTypeOK
<1> USE DEF StartsNothingLate, Live, asyncVars
<1>1. CASE (PassedDeadline(a) \/ Refuses(a) \/ DeadlinePasses(a)) /\ UNCHANGED asyncVars
  BY <1>0, <1>1 DEF PassedDeadline, Refuses, DeadlinePasses, TimesOut
<1>2. CASE RunsInline(a) /\ UNCHANGED asyncVars
  BY <1>0, <1>2 DEF RunsInline, Rejects
<1>3. CASE ThreadStep(a) /\ UNCHANGED asyncVars
  <2>1. CASE RejectsHandler(a) \/ SubmitToPool(a) \/ FutureResult(a)
    BY <1>0, <1>3, <2>1 DEF RejectsHandler, Rejects, SubmitToPool, FutureResult
  <2>2. CASE PoolStarts(a) \/ FutureTimesOut(a)
    BY <1>0, <1>3, <2>2 DEF PoolStarts, FutureTimesOut, Becomes
  <2> QED
    BY <1>3, <2>1, <2>2 DEF ThreadStep
<1>4. CASE ProcessStep(a) /\ UNCHANGED asyncVars
  <2>1. CASE RejectsChild(a) \/ StartChild(a) \/ ReceiveResult(a) \/ ReceiveNothing(a)
    BY <1>0, <1>4, <2>1
       DEF RejectsChild, Rejects, StartChild, Admits, ReceiveResult, ReceiveNothing
  <2>2. CASE KillChild(a) \/ CloseChild(a)
    BY <1>0, <1>4, <2>2 DEF KillChild, CloseChild, HardStops, Becomes
  <2> QED
    BY <1>4, <2>1, <2>2 DEF ProcessStep
<1>5. CASE SubprocessStep(a) /\ UNCHANGED asyncVars
  BY <1>0, <1>5 DEF SubprocessStep, RejectsProgram, Rejects, AdmitProgram, SpawnProgram,
     RegisterProgram, CollectOutput, JudgeProgram, KillProgram, ForgetProgram
<1>6. CASE AsyncStep(a)
  <2>1. CASE RejectsCoroutine(a) \/ ScheduleCoroutine(a) \/ ReturnResult(a) \/ WaitTimesOut(a)
    BY <1>0, <2>1 DEF RejectsCoroutine, Rejects, ScheduleCoroutine, Admits, ReturnResult,
                      WaitTimesOut
  <2>2. CASE StartExecution(a)
    BY <1>0, <2>2 DEF StartExecution, Becomes
  <2>3. CASE CompleteExecution(a) \/ DetachExecution(a)
    BY <1>0, <2>3 DEF CompleteExecution, WakesCaller, DetachExecution
  <2> QED
    BY <1>6, <2>1, <2>2, <2>3 DEF AsyncStep
<1> QED
  BY <1>1, <1>2, <1>3, <1>4, <1>5, <1>6 DEF CallStepOf

LEMMA EndsStartNothingLate ==
    ASSUME ExecutorsInv, NEW a \in Attempts,
           WorkloadEnds(a) \/ Cancels(a) \/ (ChildExits(a) /\ UNCHANGED asyncVars)
    PROVE  StartsNothingLate
<1>0. work \in [Attempts -> WorkState] /\ done \subseteq Attempts
  BY DEF ExecutorsInv, ExecutorsTypeOK
<1> USE DEF StartsNothingLate, Live, asyncVars
<1>1. CASE (ReturnsInline(a) \/ ProgramEnds(a)) /\ UNCHANGED asyncVars
  BY <1>0, <1>1 DEF ReturnsInline, ProgramEnds
<1>2. CASE (PoolFinishes(a) \/ ChildSends(a) \/ ChildExits(a)) /\ UNCHANGED asyncVars
  BY <1>0, <1>2 DEF PoolFinishes, ChildSends, ChildExits, Becomes
<1>3. CASE CoroutineEnds(a)
  BY <1>0, <1>3 DEF CoroutineEnds, Becomes
<1>4. CASE CancelProcess(a) /\ UNCHANGED asyncVars
  BY <1>0, <1>4 DEF CancelProcess, HardStops, Becomes
<1>5. CASE CancelCoroutine(a)
  BY <1>0, <1>5 DEF CancelCoroutine
<1> QED
  BY <1>1, <1>2, <1>3, <1>4, <1>5 DEF WorkloadEnds, Cancels

LEMMA OthersLetShutdownWait ==
    ASSUME ExecutorsInv, ShutdownWaits, StartsNothingLate
    PROVE  ShutdownWaits'
BY DEF ShutdownWaits, StartsNothingLate, IsOpen

LEMMA ShutdownBeginsToWait ==
    ASSUME ExecutorsInv, ShutdownWaits, ShutdownStarts
    PROVE  ShutdownWaits'
<1>0. closing.wait \in BOOLEAN
  BY DEF ExecutorsInv, ExecutorsTypeOK
<1>1. CASE ShutdownPool
  BY <1>0, <1>1 DEF ShutdownPool, ClosesWith, ShutdownWaits, IsOpen
<1>2. CASE ShutdownChildren
  <2>1. \A a \in Attempts : Live(a) => a \in active
    BY <1>2 DEF ShutdownChildren, ExecutorsInv, AttemptIsSound, KeepsItsPlace
  <2> QED
    BY <1>0, <1>2, <2>1 DEF ShutdownChildren, ClosesWith, ShutdownWaits, IsOpen, Live
<1>3. CASE ShutdownPrograms
  BY <1>0, <1>3 DEF ShutdownPrograms, ClosesWith, ShutdownWaits, IsOpen
<1>4. CASE ShutdownLoop
  BY <1>0, <1>4 DEF ShutdownLoop, ClosesWith, ShutdownWaits, IsOpen
<1> QED
  BY <1>1, <1>2, <1>3, <1>4 DEF ShutdownStarts

LEMMA ShutdownGoesOnWaiting ==
    ASSUME ExecutorsInv, ShutdownWaits, ShutdownStep
    PROVE  ShutdownWaits'
<1>0. /\ closing \in [at: {"open", "waiting", "returned", "raised"}, wait: BOOLEAN,
                      of: SUBSET Attempts]
      /\ work \in [Attempts -> WorkState]
  BY DEF ExecutorsInv, ExecutorsTypeOK
<1>1. CASE PoolJoined
  BY <1>0, <1>1 DEF PoolJoined, ShutdownWaits, IsOpen, Live
<1>2. CASE ChildrenJoined
  BY <1>0, <1>2 DEF ChildrenJoined, ShutdownWaits, IsOpen, Live
<1>3. CASE ProgramsJoined
  BY <1>0, <1>3 DEF ProgramsJoined, ShutdownWaits, IsOpen, Live
<1>4. ASSUME NEW a \in Attempts, JoinChild(a)
      PROVE  ShutdownWaits'
  <2>1. /\ executor = "process" /\ executor' = "process" /\ closing.at = "waiting"
        /\ closing'.wait = closing.wait /\ closing'.at \in {"waiting", "raised"}
    BY <1>0, <1>4 DEF JoinChild
  <2>2. ASSUME closing.wait, closing'.at # "raised", NEW b \in Attempts, Live(b)'
        PROVE  b \in closing'.of
    <3>1. work[a] = "ended" /\ closing'.of = closing.of \ {a} /\ work' = work
      BY <1>0, <1>4, <2>2 DEF JoinChild
    <3>2. Live(b) /\ b # a
      BY <2>2, <3>1 DEF Live
    <3> QED
      BY <2>1, <2>2, <3>1, <3>2 DEF ShutdownWaits
  <2> QED
    BY <2>1, <2>2 DEF ShutdownWaits, IsOpen
<1>5. ASSUME NEW a \in Attempts, JoinProgram(a)
      PROVE  ShutdownWaits'
  <2>1. executor' = "subprocess" /\ closing'.at = "waiting"
    BY <1>0, <1>5 DEF JoinProgram
  <2> QED
    BY <2>1 DEF ShutdownWaits, IsOpen
<1>6. CASE LoopCloses
  <2>1. executor' = "async" /\ closing'.at = "returned" /\ closing'.of = closing.of
        /\ closing'.wait = closing.wait /\ done' = done
        /\ (closing.wait => closing.of \subseteq done)
    BY <1>0, <1>6 DEF LoopCloses, AwaitedDone
  <2> QED
    BY <2>1 DEF ShutdownWaits, IsOpen
<1> QED
  BY <1>1, <1>2, <1>3, <1>4, <1>5, <1>6 DEF ShutdownStep

LEMMA ShutdownIsWaitedFor == ExecutorsSpec => []ShutdownWaits
<1>1. ExecutorsInit => ShutdownWaits
  BY DEF ExecutorsInit, CallsInit, ShutdownWaits, IsOpen
<1>2. ExecutorsInv /\ ShutdownWaits /\ [ExecutorsNext]_executorVars => ShutdownWaits'
  <2> SUFFICES ASSUME ExecutorsInv, ShutdownWaits, [ExecutorsNext]_executorVars
               PROVE  ShutdownWaits'
    OBVIOUS
  <2>1. ASSUME NEW a \in Attempts,
               \/ CallStepOf(a) \/ WorkloadEnds(a) \/ Cancels(a)
               \/ ChildExits(a) /\ UNCHANGED asyncVars
        PROVE  ShutdownWaits'
    BY <2>1, CallsStartNothingLate, EndsStartNothingLate, OthersLetShutdownWait
  <2>2. CASE ShutdownStarts
    BY <2>2, ShutdownBeginsToWait
  <2>3. CASE ShutdownStep
    BY <2>3, ShutdownGoesOnWaiting
  <2>4. CASE UNCHANGED executorVars
    BY <2>4, OthersLetShutdownWait
       DEF executorVars, callVars, asyncVars, StartsNothingLate, Live
  <2> QED
    BY <2>1, <2>2, <2>3, <2>4 DEF ExecutorsNext
<1> QED
  BY <1>1, <1>2, ExecutorsInvariant, PTL DEF ExecutorsSpec

\* Every executor keeps to the results, statuses and registers of the code.
THEOREM ExecutorsAreTyped == ExecutorsSpec => []ExecutorsTypeOK
BY ExecutorsInvariant, PTL DEF ExecutorsInv

\* What the runtime is told of a workload, by the end of execute() or by the
\* answer to cancel(), stays true on each executor (executors/contracts.py).
THEOREM OutcomesAreFinal == ExecutorsSpec => []ToldOutcomesAreFinal
<1>1. ExecutorsInv => ToldOutcomesAreFinal
  BY DEF ExecutorsInv, AttemptIsSound, TellsTheTruth, Final, ToldOutcomesAreFinal,
         KnownOutcomeIsFinal, CancelAnswersAreTrue
<1> QED
  BY <1>1, ExecutorsInvariant, PTL

\* A program whose cancellation was confirmed never gives its own result
\* (SubprocessExecutor.execute looks at the request first).
THEOREM ConfirmedProgramsAreCancelled == ExecutorsSpec => []ConfirmedProgramIsNotResult
<1>1. ExecutorsInv => ConfirmedProgramIsNotResult
  BY DEF ExecutorsInv, AttemptIsSound, ProgramIsJudged, ConfirmedProgramIsNotResult
<1> QED
  BY <1>1, ExecutorsInvariant, PTL

\* Whatever runs holds a place and is found by cancel() and shutdown(), and a
\* shutdown() that waited leaves nothing behind, for any number of attempts and
\* places.
THEOREM RunningWorkIsHeld == ExecutorsSpec => []WorkIsHeld
<1>1. ExecutorsInv => WorkWithinCapacity /\ WorkIsTracked
  <2> SUFFICES ASSUME ExecutorsInv
               PROVE  WorkWithinCapacity /\ WorkIsTracked
    OBVIOUS
  <2>1. executor \in ExecutorKinds
    BY DEF ExecutorsInv, ExecutorsTypeOK
  <2> DEFINE busy == {a \in Attempts : work[a] \in {"running", "sent"}}
  <2>2. CASE executor = "thread"
    <3>1. busy \subseteq PoolBusy
      BY <2>2 DEF ExecutorsInv, AttemptIsSound, PoolIsPlain, PoolBusy
    <3> QED
      BY <2>2, <3>1, BoundedSets DEF ExecutorsInv, PlacesAreBounded, Bounded,
         WorkWithinCapacity, WorkIsTracked
  <2>3. CASE executor \in {"async", "process"}
    <3>1. busy \subseteq active /\ \A a \in Attempts : Live(a) => a \in active
      BY <2>3 DEF ExecutorsInv, AttemptIsSound, KeepsItsPlace, Live
    <3>2. Bounded(busy)
      BY <2>3, <3>1, BoundedSets DEF ExecutorsInv, PlacesAreBounded
    <3> QED
      BY <3>1, <3>2 DEF Bounded, WorkWithinCapacity, WorkIsTracked
  <2>4. CASE executor \in {"inline", "subprocess"}
    BY <2>4 DEF ExecutorsInv, AttemptIsSound, KeepsItsPlace, WorkWithinCapacity, WorkIsTracked
  <2> QED
    BY <2>1, <2>2, <2>3, <2>4 DEF ExecutorKinds
<1>2. ExecutorsInv /\ ShutdownWaits => ShutdownLeavesNothing
  <2> SUFFICES ASSUME ExecutorsInv, ShutdownWaits, closing.at = "returned", closing.wait,
                      executor # "subprocess", NEW a \in Attempts, Live(a)
               PROVE  FALSE
    BY DEF ShutdownLeavesNothing
  <2>1. executor \in {"thread", "async", "process"}
    BY DEF ExecutorsInv, ExecutorsTypeOK, ExecutorKinds, ShutdownWaits, IsOpen
  <2>2. CASE executor = "async"
    <3>1. a \in active /\ a \notin done
      BY <2>2 DEF ExecutorsInv, AttemptIsSound, KeepsItsPlace
    <3>2. active \subseteq closing.of
      BY <2>2 DEF ExecutorsInv, LoopOutlivesWork, IsOpen
    <3> QED
      BY <2>2, <3>1, <3>2 DEF ShutdownWaits
  <2>3. CASE executor \in {"thread", "process"}
    BY <2>3 DEF ShutdownWaits
  <2> QED
    BY <2>1, <2>2, <2>3
<1> QED
  BY <1>1, <1>2, ExecutorsInvariant, ShutdownIsWaitedFor, PTL DEF WorkIsHeld

-----------------------------------------------------------------------------
(* The V1 executors: LegacyExecutors, as MCExecutors instantiates it.       *)

LegacyTypeOK ==
    /\ submit \in [Handles -> {"new", "refused", "registered", "spawned", "returned"}]
    /\ worker \in [Handles -> {"none", "queued", "running", "sent", "ended"}]
    /\ left \in [Handles -> {"none", "result", "error", "cancelled"}]
    /\ finish \in [Handles -> {"none", "left", "stops", "put"}]
    /\ queue \in Seq([handle: Handles, outcome: {"none", "result", "error", "cancelled"}])
    /\ handles \subseteq Handles /\ settled \subseteq Handles
    /\ closingDown \in [at: {"open", "waiting", "returned"}, wait: BOOLEAN, of: SUBSET Handles]
    /\ eventLoop \in {"running", "stopping", "closed"}

\* A handle that is not taken on leaves no trace, and one that is stays in
\* _active until its workload is over.
HandleIsSound(h) ==
    /\ ~ V1!Accepted(h) => worker[h] = "none" /\ h \notin handles /\ h \notin settled
    /\ V1!Accepted(h) => h \in handles \/ h \in settled
    /\ submit[h] = "registered" => worker[h] = "none" /\ kind # "process"
    /\ h \in settled => worker[h] = "ended" /\ h \notin handles
    /\ h \in settled <=> finish[h] # "none"
    /\ finish[h] = "put" => \E i \in DOMAIN queue : queue[i].handle = h
    /\ finish[h] = "stops" => closingDown.at = "returned" /\ ~ closingDown.wait

\* The register of the executors that refuse, and the threads of the pool.
HandlesAreBounded ==
    /\ kind # "thread" => Bounded(handles)
    /\ kind = "thread" => Bounded({h \in Handles : V1!Live(h)})

\* shutdown(wait=True) sees every handle there is, and the event loop stops
\* after the last of them.
LegacyShutdownWaits ==
    /\ closingDown.at = "open" => eventLoop = "running"
    /\ closingDown.at # "open" /\ closingDown.wait =>
          /\ handles \subseteq closingDown.of
          /\ closingDown.at = "returned" =>
                /\ handles = {}
                /\ kind \in {"thread", "async"} =>
                      \A h \in Handles : V1!Accepted(h) => finish[h] = "put"
          /\ eventLoop # "running" => handles = {}
          /\ eventLoop = "closed" => \A h \in Handles : V1!Accepted(h) => finish[h] = "put"

LegacyInv ==
    /\ LegacyTypeOK
    /\ \A h \in Handles : HandleIsSound(h)
    /\ HandlesAreBounded
    /\ LegacyShutdownWaits

\* The instance counts as this module does.
LEMMA LegacyCardinality == \A S : V1!Cardinality(S) = Cardinality(S)
BY DEF V1!Cardinality, Cardinality

LEMMA InitLegacyInv ==
    ASSUME V1!LegacyInit
    PROVE  LegacyInv
<1> USE DEF V1!LegacyInit
<1>1. LegacyTypeOK
  BY DEF LegacyTypeOK
<1>2. \A h \in Handles : HandleIsSound(h)
  BY DEF HandleIsSound, V1!Accepted
<1>3. HandlesAreBounded
  <2>1. {h \in Handles : V1!Live(h)} = {}
    BY DEF V1!Live
  <2> QED
    BY <2>1, BoundedSets DEF HandlesAreBounded
<1> QED
  BY <1>1, <1>2, <1>3 DEF LegacyInv, LegacyShutdownWaits

\* A step about one handle: nothing changes for the others.
OtherHandlesAreKept(h) ==
    \A g \in Handles : g # h =>
        /\ submit'[g] = submit[g] /\ worker'[g] = worker[g] /\ finish'[g] = finish[g]
        /\ g \in handles' <=> g \in handles
        /\ g \in settled' <=> g \in settled

LEMMA StepOfOneHandle ==
    ASSUME LegacyInv, NEW h \in Handles, OtherHandlesAreKept(h), HandleIsSound(h)', kind' = kind,
           queue' = queue \/ \E m : queue' = Append(queue, m),
           closingDown.at = "returned" =>
               closingDown'.at = "returned" /\ closingDown'.wait = closingDown.wait
    PROVE  \A g \in Handles : HandleIsSound(g)'
<1>1. \A i \in DOMAIN queue : i \in DOMAIN queue' /\ queue'[i] = queue[i]
  <2>1. CASE queue' = queue
    BY <2>1
  <2>2. ASSUME NEW m, queue' = Append(queue, m)
        PROVE  \A i \in DOMAIN queue : i \in DOMAIN queue' /\ queue'[i] = queue[i]
    <3>1. PICK S : queue \in Seq(S)
      BY DEF LegacyInv, LegacyTypeOK
    <3>2. queue \in Seq(S \cup {m}) /\ m \in S \cup {m}
      BY <3>1
    <3> QED
      BY <2>2, <3>2, AppendProperties, LenProperties
  <2> QED
    BY <2>1, <2>2
<1>2. ASSUME NEW g \in Handles, g # h
      PROVE  HandleIsSound(g)'
  <2>1. HandleIsSound(g)
    BY DEF LegacyInv
  <2>2. (\E i \in DOMAIN queue : queue[i].handle = g) => \E i \in DOMAIN queue' : queue'[i].handle = g
    BY <1>1
  <2> QED
    BY <1>2, <2>1, <2>2 DEF OtherHandlesAreKept, HandleIsSound, V1!Accepted
<1> QED
  BY <1>2

\* A step of one handle that takes no place and no thread.
LEMMA HandleStepKeeps ==
    ASSUME LegacyInv, NEW h \in Handles, LegacyTypeOK', OtherHandlesAreKept(h),
           HandleIsSound(h)', UNCHANGED <<kind, queue, eventLoop>>,
           \/ UNCHANGED closingDown
           \/ closingDown.at = "waiting" /\ ~ closingDown.wait /\ closingDown'.at = "waiting"
                 /\ ~ closingDown'.wait,
           handles' \subseteq handles,
           V1!Accepted(h)' => V1!Accepted(h),
           finish[h] = "put" => finish'[h] = "put",
           V1!Live(h)' => kind # "thread" \/ V1!Live(h)
    PROVE  LegacyInv'
<1>1. \A g \in Handles : HandleIsSound(g)'
  BY StepOfOneHandle
<1>2. HandlesAreBounded'
  <2>1. kind = "thread" => {g \in Handles : V1!Live(g)}' \subseteq {g \in Handles : V1!Live(g)}
    BY DEF OtherHandlesAreKept, V1!Live
  <2> QED
    BY <2>1, BoundedSets DEF LegacyInv, HandlesAreBounded
<1>3. /\ \A g \in Handles : V1!Accepted(g)' => V1!Accepted(g)
      /\ \A g \in Handles : finish[g] = "put" => finish'[g] = "put"
  BY DEF OtherHandlesAreKept, V1!Accepted
<1>4. LegacyShutdownWaits'
  BY <1>3 DEF LegacyInv, LegacyShutdownWaits
<1> QED
  BY <1>1, <1>2, <1>4 DEF LegacyInv

\* A submission that is refused changes nothing.
LEMMA LegacyRefuses ==
    ASSUME LegacyInv, NEW h \in Handles, V1!Refuses(h)
    PROVE  LegacyInv'
<1>1. HandleIsSound(h)
  BY DEF LegacyInv
<1>2. LegacyTypeOK'
  BY DEF V1!Refuses, V1!HasPlace, V1!Submits, V1!records, V1!workload, V1!delivery,
         LegacyInv, LegacyTypeOK
<1>3. OtherHandlesAreKept(h)
  BY DEF V1!Refuses, V1!HasPlace, V1!Submits, V1!records, V1!workload, V1!delivery,
         LegacyInv, LegacyTypeOK, OtherHandlesAreKept
<1>4. HandleIsSound(h)'
  BY <1>1 DEF V1!Refuses, V1!HasPlace, V1!Submits, V1!records, V1!workload, V1!delivery,
         LegacyInv, LegacyTypeOK, HandleIsSound, V1!Accepted
<1> QED
  BY <1>2, <1>3, <1>4, HandleStepKeeps DEF V1!Refuses, V1!HasPlace, V1!Submits,
         V1!records, V1!workload, V1!delivery, LegacyInv, LegacyTypeOK, V1!Accepted,
         V1!Live

LEMMA LegacyRejectsSubmission ==
    ASSUME LegacyInv, NEW h \in Handles, V1!RejectsSubmission(h)
    PROVE  LegacyInv'
<1>1. HandleIsSound(h)
  BY DEF LegacyInv
<1>2. LegacyTypeOK'
  BY DEF V1!RejectsSubmission, V1!Submits, V1!records, V1!workload, V1!delivery,
         LegacyInv, LegacyTypeOK
<1>3. OtherHandlesAreKept(h)
  BY DEF V1!RejectsSubmission, V1!Submits, V1!records, V1!workload, V1!delivery,
         LegacyInv, LegacyTypeOK, OtherHandlesAreKept
<1>4. HandleIsSound(h)'
  BY <1>1 DEF V1!RejectsSubmission, V1!Submits, V1!records, V1!workload, V1!delivery,
         LegacyInv, LegacyTypeOK, HandleIsSound, V1!Accepted
<1> QED
  BY <1>2, <1>3, <1>4, HandleStepKeeps DEF V1!RejectsSubmission, V1!Submits, V1!records,
         V1!workload, V1!delivery, LegacyInv, LegacyTypeOK, V1!Accepted, V1!Live

\* The rest of submit().
LEMMA LegacyHandsToLoop ==
    ASSUME LegacyInv, NEW h \in Handles, V1!HandsToLoop(h)
    PROVE  LegacyInv'
<1>1. HandleIsSound(h)
  BY DEF LegacyInv
<1>2. LegacyTypeOK'
  BY DEF V1!HandsToLoop, V1!Submits, V1!Works, V1!records, V1!delivery, LegacyInv,
         LegacyTypeOK
<1>3. OtherHandlesAreKept(h)
  BY DEF V1!HandsToLoop, V1!Submits, V1!Works, V1!records, V1!delivery, LegacyInv,
         LegacyTypeOK, OtherHandlesAreKept
<1>4. HandleIsSound(h)'
  BY <1>1 DEF V1!HandsToLoop, V1!Submits, V1!Works, V1!records, V1!delivery, LegacyInv,
         LegacyTypeOK, HandleIsSound, V1!Accepted
<1> QED
  BY <1>2, <1>3, <1>4, HandleStepKeeps DEF V1!HandsToLoop, V1!Submits, V1!Works,
         V1!records, V1!delivery, LegacyInv, LegacyTypeOK, V1!Accepted, V1!Live

LEMMA LegacyCommandFails ==
    ASSUME LegacyInv, NEW h \in Handles, V1!CommandFails(h)
    PROVE  LegacyInv'
<1>1. HandleIsSound(h)
  BY DEF LegacyInv
<1>2. LegacyTypeOK'
  BY DEF V1!CommandFails, V1!Submits, V1!Ends, V1!Leaves, V1!Works, LegacyInv,
         LegacyTypeOK
<1>3. OtherHandlesAreKept(h)
  BY DEF V1!CommandFails, V1!Submits, V1!Ends, V1!Leaves, V1!Works, LegacyInv,
         LegacyTypeOK, OtherHandlesAreKept
<1>4. HandleIsSound(h)'
  BY <1>1 DEF V1!CommandFails, V1!Submits, V1!Ends, V1!Leaves, V1!Works, LegacyInv,
         LegacyTypeOK, HandleIsSound, V1!Accepted
<1>5. finish[h] # "put"
  BY <1>1 DEF V1!CommandFails, V1!Submits, V1!Ends, V1!Leaves, V1!Works, HandleIsSound
<1> QED
  BY <1>2, <1>3, <1>4, <1>5, HandleStepKeeps DEF V1!CommandFails, V1!Submits, V1!Ends,
         V1!Leaves, V1!Works, LegacyInv, LegacyTypeOK, V1!Accepted, V1!Live

LEMMA LegacySpawns ==
    ASSUME LegacyInv, NEW h \in Handles, V1!Spawns(h)
    PROVE  LegacyInv'
<1>1. HandleIsSound(h)
  BY DEF LegacyInv
<1>2. LegacyTypeOK'
  BY DEF V1!Spawns, V1!Submits, V1!Works, V1!records, V1!delivery, LegacyInv,
         LegacyTypeOK
<1>3. OtherHandlesAreKept(h)
  BY DEF V1!Spawns, V1!Submits, V1!Works, V1!records, V1!delivery, LegacyInv,
         LegacyTypeOK, OtherHandlesAreKept
<1>4. HandleIsSound(h)'
  BY <1>1 DEF V1!Spawns, V1!Submits, V1!Works, V1!records, V1!delivery, LegacyInv,
         LegacyTypeOK, HandleIsSound, V1!Accepted
<1> QED
  BY <1>2, <1>3, <1>4, HandleStepKeeps DEF V1!Spawns, V1!Submits, V1!Works, V1!records,
         V1!delivery, LegacyInv, LegacyTypeOK, V1!Accepted, V1!Live

\* What was to be terminated meanwhile is.
LEMMA LegacyKeepsProcess ==
    ASSUME LegacyInv, NEW h \in Handles, V1!KeepsProcess(h)
    PROVE  LegacyInv'
<1>1. HandleIsSound(h)
  BY DEF LegacyInv
<1>2. LegacyTypeOK'
  BY DEF V1!KeepsProcess, V1!Submits, V1!Live, V1!Ends, V1!workload, V1!records,
         V1!delivery, V1!Works, LegacyInv, LegacyTypeOK
<1>3. OtherHandlesAreKept(h)
  BY DEF V1!KeepsProcess, V1!Submits, V1!Live, V1!Ends, V1!workload, V1!records,
         V1!delivery, V1!Works, LegacyInv, LegacyTypeOK, OtherHandlesAreKept
<1>4. HandleIsSound(h)'
  BY <1>1 DEF V1!KeepsProcess, V1!Submits, V1!Live, V1!Ends, V1!workload, V1!records,
         V1!delivery, V1!Works, LegacyInv, LegacyTypeOK, HandleIsSound, V1!Accepted
<1> QED
  BY <1>2, <1>3, <1>4, HandleStepKeeps DEF V1!KeepsProcess, V1!Submits, V1!Live,
         V1!Ends, V1!workload, V1!records, V1!delivery, V1!Works, LegacyInv,
         LegacyTypeOK, V1!Accepted

\* The workload.
LEMMA LegacyLoopStarts ==
    ASSUME LegacyInv, NEW h \in Handles, V1!LoopStarts(h)
    PROVE  LegacyInv'
<1>1. HandleIsSound(h)
  BY DEF LegacyInv
<1>2. LegacyTypeOK'
  BY DEF V1!LoopStarts, V1!Ends, V1!Works, V1!records, V1!delivery, LegacyInv,
         LegacyTypeOK
<1>3. OtherHandlesAreKept(h)
  BY DEF V1!LoopStarts, V1!Ends, V1!Works, V1!records, V1!delivery, LegacyInv,
         LegacyTypeOK, OtherHandlesAreKept
<1>4. HandleIsSound(h)'
  BY <1>1 DEF V1!LoopStarts, V1!Ends, V1!Works, V1!records, V1!delivery, LegacyInv,
         LegacyTypeOK, HandleIsSound, V1!Accepted
<1> QED
  BY <1>2, <1>3, <1>4, HandleStepKeeps DEF V1!LoopStarts, V1!Ends, V1!Works, V1!records,
         V1!delivery, LegacyInv, LegacyTypeOK, V1!Accepted, V1!Live

LEMMA LegacyHandlerEnds ==
    ASSUME LegacyInv, NEW h \in Handles, V1!HandlerEnds(h)
    PROVE  LegacyInv'
<1>1. HandleIsSound(h)
  BY DEF LegacyInv
<1>2. LegacyTypeOK'
  BY DEF V1!HandlerEnds, V1!Comes, V1!Ends, V1!records, V1!delivery, V1!Works,
         LegacyInv, LegacyTypeOK
<1>3. OtherHandlesAreKept(h)
  BY DEF V1!HandlerEnds, V1!Comes, V1!Ends, V1!records, V1!delivery, V1!Works,
         LegacyInv, LegacyTypeOK, OtherHandlesAreKept
<1>4. HandleIsSound(h)'
  BY <1>1 DEF V1!HandlerEnds, V1!Comes, V1!Ends, V1!records, V1!delivery, V1!Works,
         LegacyInv, LegacyTypeOK, HandleIsSound, V1!Accepted
<1> QED
  BY <1>2, <1>3, <1>4, HandleStepKeeps DEF V1!HandlerEnds, V1!Comes, V1!Ends,
         V1!records, V1!delivery, V1!Works, LegacyInv, LegacyTypeOK, V1!Accepted,
         V1!Live

LEMMA LegacyCoroutineEnds ==
    ASSUME LegacyInv, NEW h \in Handles, V1!CoroutineEnds(h)
    PROVE  LegacyInv'
<1>1. HandleIsSound(h)
  BY DEF LegacyInv
<1>2. LegacyTypeOK'
  BY DEF V1!CoroutineEnds, V1!Comes, V1!Ends, V1!records, V1!delivery, V1!Works,
         LegacyInv, LegacyTypeOK
<1>3. OtherHandlesAreKept(h)
  BY DEF V1!CoroutineEnds, V1!Comes, V1!Ends, V1!records, V1!delivery, V1!Works,
         LegacyInv, LegacyTypeOK, OtherHandlesAreKept
<1>4. HandleIsSound(h)'
  BY <1>1 DEF V1!CoroutineEnds, V1!Comes, V1!Ends, V1!records, V1!delivery, V1!Works,
         LegacyInv, LegacyTypeOK, HandleIsSound, V1!Accepted
<1> QED
  BY <1>2, <1>3, <1>4, HandleStepKeeps DEF V1!CoroutineEnds, V1!Comes, V1!Ends,
         V1!records, V1!delivery, V1!Works, LegacyInv, LegacyTypeOK, V1!Accepted,
         V1!Live

LEMMA LegacyProgramEnds ==
    ASSUME LegacyInv, NEW h \in Handles, V1!ProgramEnds(h)
    PROVE  LegacyInv'
<1>1. HandleIsSound(h)
  BY DEF LegacyInv
<1>2. LegacyTypeOK'
  BY DEF V1!ProgramEnds, V1!Comes, V1!Ends, V1!records, V1!delivery, V1!Works,
         LegacyInv, LegacyTypeOK
<1>3. OtherHandlesAreKept(h)
  BY DEF V1!ProgramEnds, V1!Comes, V1!Ends, V1!records, V1!delivery, V1!Works,
         LegacyInv, LegacyTypeOK, OtherHandlesAreKept
<1>4. HandleIsSound(h)'
  BY <1>1 DEF V1!ProgramEnds, V1!Comes, V1!Ends, V1!records, V1!delivery, V1!Works,
         LegacyInv, LegacyTypeOK, HandleIsSound, V1!Accepted
<1> QED
  BY <1>2, <1>3, <1>4, HandleStepKeeps DEF V1!ProgramEnds, V1!Comes, V1!Ends,
         V1!records, V1!delivery, V1!Works, LegacyInv, LegacyTypeOK, V1!Accepted,
         V1!Live

LEMMA LegacyChildSends ==
    ASSUME LegacyInv, NEW h \in Handles, V1!ChildSends(h)
    PROVE  LegacyInv'
<1>1. HandleIsSound(h)
  BY DEF LegacyInv
<1>2. LegacyTypeOK'
  BY DEF V1!ChildSends, V1!Works, V1!records, V1!delivery, LegacyInv, LegacyTypeOK
<1>3. OtherHandlesAreKept(h)
  BY DEF V1!ChildSends, V1!Works, V1!records, V1!delivery, LegacyInv, LegacyTypeOK,
         OtherHandlesAreKept
<1>4. HandleIsSound(h)'
  BY <1>1 DEF V1!ChildSends, V1!Works, V1!records, V1!delivery, LegacyInv, LegacyTypeOK,
         HandleIsSound, V1!Accepted
<1> QED
  BY <1>2, <1>3, <1>4, HandleStepKeeps DEF V1!ChildSends, V1!Works, V1!records,
         V1!delivery, LegacyInv, LegacyTypeOK, V1!Accepted, V1!Live

LEMMA LegacyChildExits ==
    ASSUME LegacyInv, NEW h \in Handles, V1!ChildExits(h)
    PROVE  LegacyInv'
<1>1. HandleIsSound(h)
  BY DEF LegacyInv
<1>2. LegacyTypeOK'
  BY DEF V1!ChildExits, V1!Live, V1!Works, V1!records, V1!delivery, LegacyInv,
         LegacyTypeOK
<1>3. OtherHandlesAreKept(h)
  BY DEF V1!ChildExits, V1!Live, V1!Works, V1!records, V1!delivery, LegacyInv,
         LegacyTypeOK, OtherHandlesAreKept
<1>4. HandleIsSound(h)'
  BY <1>1 DEF V1!ChildExits, V1!Live, V1!Works, V1!records, V1!delivery, LegacyInv,
         LegacyTypeOK, HandleIsSound, V1!Accepted
<1> QED
  BY <1>2, <1>3, <1>4, HandleStepKeeps DEF V1!ChildExits, V1!Live, V1!Works, V1!records,
         V1!delivery, LegacyInv, LegacyTypeOK, V1!Accepted

\* A handle leaves after its workload.
LEMMA LegacyFutureFinishes ==
    ASSUME LegacyInv, NEW h \in Handles, V1!FutureFinishes(h)
    PROVE  LegacyInv'
<1>1. HandleIsSound(h)
  BY DEF LegacyInv
<1>2. LegacyTypeOK'
  BY DEF V1!FutureFinishes, V1!Finishes, V1!Leaves, LegacyInv, LegacyTypeOK
<1>3. OtherHandlesAreKept(h)
  BY DEF V1!FutureFinishes, V1!Finishes, V1!Leaves, LegacyInv, LegacyTypeOK,
         OtherHandlesAreKept
<1>4. HandleIsSound(h)'
  BY <1>1 DEF V1!FutureFinishes, V1!Finishes, V1!Leaves, LegacyInv, LegacyTypeOK,
         HandleIsSound, V1!Accepted
<1>5. finish[h] # "put"
  BY <1>1 DEF V1!FutureFinishes, V1!Finishes, V1!Leaves, HandleIsSound
<1> QED
  BY <1>2, <1>3, <1>4, <1>5, HandleStepKeeps DEF V1!FutureFinishes, V1!Finishes,
         V1!Leaves, LegacyInv, LegacyTypeOK, V1!Accepted, V1!Live

LEMMA LegacyWatcherFinishes ==
    ASSUME LegacyInv, NEW h \in Handles, V1!WatcherFinishes(h)
    PROVE  LegacyInv'
<1>1. HandleIsSound(h)
  BY DEF LegacyInv
<1>2. LegacyTypeOK'
  BY DEF V1!WatcherFinishes, V1!ChildJoined, V1!Finishes, V1!FromMessage, V1!Leaves,
         LegacyInv, LegacyTypeOK
<1>3. OtherHandlesAreKept(h)
  BY DEF V1!WatcherFinishes, V1!ChildJoined, V1!Finishes, V1!FromMessage, V1!Leaves,
         LegacyInv, LegacyTypeOK, OtherHandlesAreKept
<1>4. HandleIsSound(h)'
  BY <1>1 DEF V1!WatcherFinishes, V1!ChildJoined, V1!Finishes, V1!FromMessage,
         V1!Leaves, LegacyInv, LegacyTypeOK, HandleIsSound, V1!Accepted
<1>5. finish[h] # "put"
  BY <1>1 DEF V1!WatcherFinishes, V1!ChildJoined, V1!Finishes, V1!FromMessage,
         V1!Leaves, HandleIsSound
<1> QED
  BY <1>2, <1>3, <1>4, <1>5, HandleStepKeeps DEF V1!WatcherFinishes, V1!ChildJoined,
         V1!Finishes, V1!FromMessage, V1!Leaves, LegacyInv, LegacyTypeOK, V1!Accepted,
         V1!Live

LEMMA LegacyCoroutineFinishes ==
    ASSUME LegacyInv, NEW h \in Handles, V1!CoroutineFinishes(h)
    PROVE  LegacyInv'
<1>1. HandleIsSound(h)
  BY DEF LegacyInv
<1>2. LegacyTypeOK'
  BY DEF V1!CoroutineFinishes, V1!Finishes, V1!StopsLoop, V1!Leaves, LegacyInv,
         LegacyTypeOK
<1>3. OtherHandlesAreKept(h)
  BY DEF V1!CoroutineFinishes, V1!Finishes, V1!StopsLoop, V1!Leaves, LegacyInv,
         LegacyTypeOK, OtherHandlesAreKept
<1>4. HandleIsSound(h)'
  BY <1>1 DEF V1!CoroutineFinishes, V1!Finishes, V1!StopsLoop, V1!Leaves, LegacyInv,
         LegacyTypeOK, HandleIsSound, V1!Accepted
<1>5. finish[h] # "put"
  BY <1>1 DEF V1!CoroutineFinishes, V1!Finishes, V1!StopsLoop, V1!Leaves, HandleIsSound
<1> QED
  BY <1>2, <1>3, <1>4, <1>5, HandleStepKeeps DEF V1!CoroutineFinishes, V1!Finishes,
         V1!StopsLoop, V1!Leaves, LegacyInv, LegacyTypeOK, V1!Accepted, V1!Live

LEMMA LegacyProgramFinishes ==
    ASSUME LegacyInv, NEW h \in Handles, V1!ProgramFinishes(h)
    PROVE  LegacyInv'
<1>1. HandleIsSound(h)
  BY DEF LegacyInv
<1>2. LegacyTypeOK'
  BY DEF V1!ProgramFinishes, V1!Finishes, V1!Leaves, LegacyInv, LegacyTypeOK
<1>3. OtherHandlesAreKept(h)
  BY DEF V1!ProgramFinishes, V1!Finishes, V1!Leaves, LegacyInv, LegacyTypeOK,
         OtherHandlesAreKept
<1>4. HandleIsSound(h)'
  BY <1>1 DEF V1!ProgramFinishes, V1!Finishes, V1!Leaves, LegacyInv, LegacyTypeOK,
         HandleIsSound, V1!Accepted
<1>5. finish[h] # "put"
  BY <1>1 DEF V1!ProgramFinishes, V1!Finishes, V1!Leaves, HandleIsSound
<1> QED
  BY <1>2, <1>3, <1>4, <1>5, HandleStepKeeps DEF V1!ProgramFinishes, V1!Finishes,
         V1!Leaves, LegacyInv, LegacyTypeOK, V1!Accepted, V1!Live

\* cancel() and terminate().
LEMMA LegacyAsksLoop ==
    ASSUME LegacyInv, NEW h \in Handles, V1!AsksLoop(h)
    PROVE  LegacyInv'
<1>1. HandleIsSound(h)
  BY DEF LegacyInv
<1>2. LegacyTypeOK'
  BY DEF V1!AsksLoop, V1!Accepted, V1!Answers, V1!records, V1!workload, V1!delivery,
         LegacyInv, LegacyTypeOK
<1>3. OtherHandlesAreKept(h)
  BY DEF V1!AsksLoop, V1!Accepted, V1!Answers, V1!records, V1!workload, V1!delivery,
         LegacyInv, LegacyTypeOK, OtherHandlesAreKept
<1>4. HandleIsSound(h)'
  BY <1>1 DEF V1!AsksLoop, V1!Accepted, V1!Answers, V1!records, V1!workload,
         V1!delivery, LegacyInv, LegacyTypeOK, HandleIsSound
<1> QED
  BY <1>2, <1>3, <1>4, HandleStepKeeps DEF V1!AsksLoop, V1!Accepted, V1!Answers,
         V1!records, V1!workload, V1!delivery, LegacyInv, LegacyTypeOK, V1!Live

LEMMA LegacyLoopAnswers ==
    ASSUME LegacyInv, NEW h \in Handles, V1!LoopAnswers(h)
    PROVE  LegacyInv'
<1>1. HandleIsSound(h)
  BY DEF LegacyInv
<1>2. LegacyTypeOK'
  BY DEF V1!LoopAnswers, V1!Stoppable, V1!Answers, V1!workload, V1!delivery, LegacyInv,
         LegacyTypeOK
<1>3. OtherHandlesAreKept(h)
  BY DEF V1!LoopAnswers, V1!Stoppable, V1!Answers, V1!workload, V1!delivery, LegacyInv,
         LegacyTypeOK, OtherHandlesAreKept
<1>4. HandleIsSound(h)'
  BY <1>1 DEF V1!LoopAnswers, V1!Stoppable, V1!Answers, V1!workload, V1!delivery,
         LegacyInv, LegacyTypeOK, HandleIsSound, V1!Accepted
<1> QED
  BY <1>2, <1>3, <1>4, HandleStepKeeps DEF V1!LoopAnswers, V1!Stoppable, V1!Answers,
         V1!workload, V1!delivery, LegacyInv, LegacyTypeOK, V1!Accepted, V1!Live

LEMMA LegacyTerminatesChild ==
    ASSUME LegacyInv, NEW h \in Handles, V1!TerminatesChild(h)
    PROVE  LegacyInv'
<1>1. HandleIsSound(h)
  BY DEF LegacyInv
<1>2. LegacyTypeOK'
  BY DEF V1!TerminatesChild, V1!Accepted, V1!Stoppable, V1!Answers, V1!ChildIsStopped,
         V1!records, V1!delivery, V1!Works, LegacyInv, LegacyTypeOK
<1>3. OtherHandlesAreKept(h)
  BY DEF V1!TerminatesChild, V1!Accepted, V1!Stoppable, V1!Answers, V1!ChildIsStopped,
         V1!records, V1!delivery, V1!Works, LegacyInv, LegacyTypeOK, OtherHandlesAreKept
<1>4. HandleIsSound(h)'
  BY <1>1 DEF V1!TerminatesChild, V1!Accepted, V1!Stoppable, V1!Answers,
         V1!ChildIsStopped, V1!records, V1!delivery, V1!Works, LegacyInv, LegacyTypeOK,
         HandleIsSound
<1> QED
  BY <1>2, <1>3, <1>4, HandleStepKeeps DEF V1!TerminatesChild, V1!Accepted,
         V1!Stoppable, V1!Answers, V1!ChildIsStopped, V1!records, V1!delivery, V1!Works,
         LegacyInv, LegacyTypeOK, V1!Live

LEMMA LegacyTerminatesProgram ==
    ASSUME LegacyInv, NEW h \in Handles, V1!TerminatesProgram(h)
    PROVE  LegacyInv'
<1>1. HandleIsSound(h)
  BY DEF LegacyInv
<1>2. LegacyTypeOK'
  BY DEF V1!TerminatesProgram, V1!Accepted, V1!ToStop, V1!Answers, V1!StopsProgram,
         V1!workload, V1!delivery, V1!Ends, V1!Works, LegacyInv, LegacyTypeOK
<1>3. OtherHandlesAreKept(h)
  BY DEF V1!TerminatesProgram, V1!Accepted, V1!ToStop, V1!Answers, V1!StopsProgram,
         V1!workload, V1!delivery, V1!Ends, V1!Works, LegacyInv, LegacyTypeOK,
         OtherHandlesAreKept
<1>4. HandleIsSound(h)'
  BY <1>1 DEF V1!TerminatesProgram, V1!Accepted, V1!ToStop, V1!Answers, V1!StopsProgram,
         V1!workload, V1!delivery, V1!Ends, V1!Works, LegacyInv, LegacyTypeOK,
         HandleIsSound
<1> QED
  BY <1>2, <1>3, <1>4, HandleStepKeeps DEF V1!TerminatesProgram, V1!Accepted, V1!ToStop,
         V1!Answers, V1!StopsProgram, V1!workload, V1!delivery, V1!Ends, V1!Works,
         LegacyInv, LegacyTypeOK, V1!Live

\* shutdown(wait=False) asks for each handle.
LEMMA LegacyShutdownCancels ==
    ASSUME LegacyInv, NEW h \in Handles, V1!ShutdownCancels(h)
    PROVE  LegacyInv'
<1>1. HandleIsSound(h)
  BY DEF LegacyInv
<1>2. LegacyTypeOK'
  BY DEF V1!ShutdownCancels, V1!Stopping, V1!Passed, V1!Stoppable, V1!workload,
         V1!delivery, LegacyInv, LegacyTypeOK
<1>3. OtherHandlesAreKept(h)
  BY DEF V1!ShutdownCancels, V1!Stopping, V1!Passed, V1!Stoppable, V1!workload,
         V1!delivery, LegacyInv, LegacyTypeOK, OtherHandlesAreKept
<1>4. HandleIsSound(h)'
  BY <1>1 DEF V1!ShutdownCancels, V1!Stopping, V1!Passed, V1!Stoppable, V1!workload,
         V1!delivery, LegacyInv, LegacyTypeOK, HandleIsSound, V1!Accepted
<1> QED
  BY <1>2, <1>3, <1>4, HandleStepKeeps DEF V1!ShutdownCancels, V1!Stopping, V1!Passed,
         V1!Stoppable, V1!workload, V1!delivery, LegacyInv, LegacyTypeOK, V1!Accepted,
         V1!Live

LEMMA LegacyShutdownEndsProgram ==
    ASSUME LegacyInv, NEW h \in Handles, V1!ShutdownEndsProgram(h)
    PROVE  LegacyInv'
<1>1. HandleIsSound(h)
  BY DEF LegacyInv
<1>2. LegacyTypeOK'
  BY DEF V1!ShutdownEndsProgram, V1!Stopping, V1!Passed, V1!ToStop, V1!StopsProgram,
         V1!workload, V1!delivery, V1!Ends, V1!Works, LegacyInv, LegacyTypeOK
<1>3. OtherHandlesAreKept(h)
  BY DEF V1!ShutdownEndsProgram, V1!Stopping, V1!Passed, V1!ToStop, V1!StopsProgram,
         V1!workload, V1!delivery, V1!Ends, V1!Works, LegacyInv, LegacyTypeOK,
         OtherHandlesAreKept
<1>4. HandleIsSound(h)'
  BY <1>1 DEF V1!ShutdownEndsProgram, V1!Stopping, V1!Passed, V1!ToStop,
         V1!StopsProgram, V1!workload, V1!delivery, V1!Ends, V1!Works, LegacyInv,
         LegacyTypeOK, HandleIsSound, V1!Accepted
<1> QED
  BY <1>2, <1>3, <1>4, HandleStepKeeps DEF V1!ShutdownEndsProgram, V1!Stopping,
         V1!Passed, V1!ToStop, V1!StopsProgram, V1!workload, V1!delivery, V1!Ends,
         V1!Works, LegacyInv, LegacyTypeOK, V1!Accepted, V1!Live

\* A submission takes one of the places, or joins the queue of the pool.
LEMMA RegistrationKeeps ==
    ASSUME LegacyInv, NEW h \in Handles, LegacyTypeOK', OtherHandlesAreKept(h),
           HandleIsSound(h)', UNCHANGED <<kind, queue, eventLoop, closingDown>>,
           closingDown.at = "open", handles' = handles \cup {h},
           kind # "thread" => V1!HasPlace, kind = "thread" => ~ V1!Live(h)'
    PROVE  LegacyInv'
<1>1. \A g \in Handles : HandleIsSound(g)'
  BY StepOfOneHandle
<1>2. HandlesAreBounded'
  <2>1. CASE kind = "thread"
    <3>1. {g \in Handles : V1!Live(g)}' \subseteq {g \in Handles : V1!Live(g)}
      BY <2>1 DEF OtherHandlesAreKept, V1!Live
    <3> QED
      BY <2>1, <3>1, BoundedSets DEF LegacyInv, HandlesAreBounded
  <2>2. CASE kind # "thread"
    <3>1. Bounded(handles')
      BY <2>2, BoundedSets, LegacyCardinality DEF LegacyInv, HandlesAreBounded, V1!HasPlace
    <3> QED
      BY <2>2, <3>1 DEF HandlesAreBounded, Bounded
  <2> QED
    BY <2>1, <2>2
<1>3. LegacyShutdownWaits'
  BY DEF LegacyInv, LegacyShutdownWaits
<1> QED
  BY <1>1, <1>2, <1>3 DEF LegacyInv

LEMMA LegacyQueuesInPool ==
    ASSUME LegacyInv, NEW h \in Handles, V1!QueuesInPool(h)
    PROVE  LegacyInv'
<1>1. HandleIsSound(h)
  BY DEF LegacyInv
<1>2. LegacyTypeOK'
  BY DEF V1!QueuesInPool, V1!Registers, V1!Works, V1!Submits, V1!delivery, LegacyInv,
         LegacyTypeOK
<1>3. OtherHandlesAreKept(h)
  BY DEF V1!QueuesInPool, V1!Registers, V1!Works, V1!Submits, V1!delivery, LegacyInv,
         LegacyTypeOK, OtherHandlesAreKept
<1>4. HandleIsSound(h)'
  BY <1>1 DEF V1!QueuesInPool, V1!Registers, V1!Works, V1!Submits, V1!delivery,
         LegacyInv, LegacyTypeOK, HandleIsSound, V1!Accepted
<1> QED
  BY <1>2, <1>3, <1>4, RegistrationKeeps DEF V1!QueuesInPool, V1!Registers, V1!Works,
         V1!Submits, V1!delivery, LegacyInv, LegacyTypeOK, V1!Accepted, V1!Live

LEMMA LegacyStartsChild ==
    ASSUME LegacyInv, NEW h \in Handles, V1!StartsChild(h)
    PROVE  LegacyInv'
<1>1. HandleIsSound(h)
  BY DEF LegacyInv
<1>2. LegacyTypeOK'
  BY DEF V1!StartsChild, V1!HasPlace, V1!Registers, V1!Works, V1!Submits, V1!delivery,
         LegacyInv, LegacyTypeOK
<1>3. OtherHandlesAreKept(h)
  BY DEF V1!StartsChild, V1!HasPlace, V1!Registers, V1!Works, V1!Submits, V1!delivery,
         LegacyInv, LegacyTypeOK, OtherHandlesAreKept
<1>4. HandleIsSound(h)'
  BY <1>1 DEF V1!StartsChild, V1!HasPlace, V1!Registers, V1!Works, V1!Submits,
         V1!delivery, LegacyInv, LegacyTypeOK, HandleIsSound, V1!Accepted
<1> QED
  BY <1>2, <1>3, <1>4, RegistrationKeeps DEF V1!StartsChild, V1!HasPlace, V1!Registers,
         V1!Works, V1!Submits, V1!delivery, LegacyInv, LegacyTypeOK, V1!Accepted,
         V1!Live

LEMMA LegacyRegistersCoroutine ==
    ASSUME LegacyInv, NEW h \in Handles, V1!RegistersCoroutine(h)
    PROVE  LegacyInv'
<1>1. HandleIsSound(h)
  BY DEF LegacyInv
<1>2. LegacyTypeOK'
  BY DEF V1!RegistersCoroutine, V1!HasPlace, V1!Registers, V1!Submits, V1!delivery,
         LegacyInv, LegacyTypeOK
<1>3. OtherHandlesAreKept(h)
  BY DEF V1!RegistersCoroutine, V1!HasPlace, V1!Registers, V1!Submits, V1!delivery,
         LegacyInv, LegacyTypeOK, OtherHandlesAreKept
<1>4. HandleIsSound(h)'
  BY <1>1 DEF V1!RegistersCoroutine, V1!HasPlace, V1!Registers, V1!Submits, V1!delivery,
         LegacyInv, LegacyTypeOK, HandleIsSound, V1!Accepted
<1> QED
  BY <1>2, <1>3, <1>4, RegistrationKeeps DEF V1!RegistersCoroutine, V1!HasPlace,
         V1!Registers, V1!Submits, V1!delivery, LegacyInv, LegacyTypeOK, V1!Accepted,
         V1!Live

LEMMA LegacyRegistersProgram ==
    ASSUME LegacyInv, NEW h \in Handles, V1!RegistersProgram(h)
    PROVE  LegacyInv'
<1>1. HandleIsSound(h)
  BY DEF LegacyInv
<1>2. LegacyTypeOK'
  BY DEF V1!RegistersProgram, V1!HasPlace, V1!Registers, V1!Submits, V1!delivery,
         LegacyInv, LegacyTypeOK
<1>3. OtherHandlesAreKept(h)
  BY DEF V1!RegistersProgram, V1!HasPlace, V1!Registers, V1!Submits, V1!delivery,
         LegacyInv, LegacyTypeOK, OtherHandlesAreKept
<1>4. HandleIsSound(h)'
  BY <1>1 DEF V1!RegistersProgram, V1!HasPlace, V1!Registers, V1!Submits, V1!delivery,
         LegacyInv, LegacyTypeOK, HandleIsSound, V1!Accepted
<1> QED
  BY <1>2, <1>3, <1>4, RegistrationKeeps DEF V1!RegistersProgram, V1!HasPlace,
         V1!Registers, V1!Submits, V1!delivery, LegacyInv, LegacyTypeOK, V1!Accepted,
         V1!Live

\* A free thread of the pool takes the next submission.
LEMMA LegacyPoolStarts ==
    ASSUME LegacyInv, NEW h \in Handles, V1!PoolStarts(h)
    PROVE  LegacyInv'
<1>1. HandleIsSound(h)
  BY DEF LegacyInv
<1>2. LegacyTypeOK'
  BY DEF V1!PoolStarts, V1!Works, V1!records, V1!delivery, LegacyInv, LegacyTypeOK
<1>3. OtherHandlesAreKept(h)
  BY DEF V1!PoolStarts, V1!Works, V1!records, V1!delivery, LegacyInv, LegacyTypeOK,
         OtherHandlesAreKept
<1>4. HandleIsSound(h)'
  BY <1>1 DEF V1!PoolStarts, V1!Works, V1!records, V1!delivery, LegacyInv, LegacyTypeOK,
         HandleIsSound, V1!Accepted
<1>5. \A g \in Handles : HandleIsSound(g)'
  BY <1>3, <1>4, StepOfOneHandle DEF V1!PoolStarts, V1!delivery
<1>6. HandlesAreBounded'
  <2> DEFINE live == {g \in Handles : V1!Live(g)}
  <2>1. kind = "thread" /\ kind' = "thread" /\ Bounded(live) /\ Cardinality(live) < MaxWorkers
    BY LegacyCardinality DEF V1!PoolStarts, LegacyInv, HandlesAreBounded
  <2>2. live' \subseteq live \cup {h}
    BY <1>3 DEF OtherHandlesAreKept, V1!Live
  <2> HIDE DEF live
  <2>3. Bounded(live \cup {h})
    BY <2>1, BoundedSets
  <2>4. Bounded(live')
    BY <2>2, <2>3, BoundedSets
  <2> QED
    BY <2>1, <2>4 DEF HandlesAreBounded, Bounded, live
<1>7. LegacyShutdownWaits'
  BY DEF V1!PoolStarts, V1!records, V1!delivery, LegacyInv, LegacyShutdownWaits, V1!Accepted
<1> QED
  BY <1>2, <1>5, <1>6, <1>7 DEF LegacyInv

\* The completion of a handle is queued; the last one may stop the loop.
LEMMA LegacyPublishes ==
    ASSUME LegacyInv, NEW h \in Handles, V1!Publishes(h)
    PROVE  LegacyInv'
<1>1. HandleIsSound(h)
  BY DEF LegacyInv
<1>2. PICK m : m = [handle |-> h, outcome |-> left[h]]
  OBVIOUS
<1>3. /\ finish[h] \in {"left", "stops"} /\ finish' = [finish EXCEPT ![h] = "put"]
      /\ queue' = Append(queue, m)
      /\ eventLoop' = IF finish[h] = "stops" THEN "stopping" ELSE eventLoop
      /\ UNCHANGED <<kind, submit, handles, settled, asked, worker, left, stop, closingDown>>
  BY <1>2 DEF V1!Publishes, V1!records, V1!workload
<1>4. /\ queue' \in Seq([handle: Handles, outcome: {"none", "result", "error", "cancelled"}])
      /\ \E i \in DOMAIN queue' : queue'[i].handle = h
  <2>1. /\ m \in [handle: Handles, outcome: {"none", "result", "error", "cancelled"}]
        /\ m.handle = h
    BY <1>2 DEF LegacyInv, LegacyTypeOK
  <2>2. queue \in Seq([handle: Handles, outcome: {"none", "result", "error", "cancelled"}])
    BY DEF LegacyInv, LegacyTypeOK
  <2>3. /\ queue' \in Seq([handle: Handles, outcome: {"none", "result", "error", "cancelled"}])
        /\ Len(queue') \in DOMAIN queue' /\ queue'[Len(queue')] = m
    BY <1>3, <2>1, <2>2, AppendProperties, LenProperties
  <2> QED
    BY <2>1, <2>3
<1>5. LegacyTypeOK'
  BY <1>3, <1>4 DEF LegacyInv, LegacyTypeOK
<1>6. OtherHandlesAreKept(h)
  BY <1>3 DEF LegacyInv, LegacyTypeOK, OtherHandlesAreKept
<1>7. finish'[h] = "put"
  BY <1>3 DEF LegacyInv, LegacyTypeOK
<1>8. HandleIsSound(h)'
  BY <1>1, <1>3, <1>4, <1>7 DEF HandleIsSound, V1!Accepted
<1>9. \A g \in Handles : HandleIsSound(g)'
  BY <1>3, <1>6, <1>8, StepOfOneHandle
<1>10. HandlesAreBounded'
  <2>1. {g \in Handles : V1!Live(g)}' = {g \in Handles : V1!Live(g)}
    BY <1>3 DEF V1!Live
  <2> QED
    BY <1>3, <2>1 DEF LegacyInv, HandlesAreBounded, Bounded
<1>11. LegacyShutdownWaits'
  <2>1. \A g \in Handles : finish[g] = "put" => finish'[g] = "put"
    BY <1>6, <1>7 DEF OtherHandlesAreKept
  <2>2. finish[h] = "stops" => closingDown.at = "returned" /\ ~ closingDown.wait
    BY <1>1 DEF HandleIsSound
  <2> QED
    BY <1>3, <2>1, <2>2 DEF LegacyInv, LegacyShutdownWaits, V1!Accepted
<1> QED
  BY <1>5, <1>9, <1>10, <1>11 DEF LegacyInv

\* The steps of shutdown() that change no handle.
LEMMA LegacyShutdownKeeps ==
    ASSUME LegacyInv, LegacyTypeOK', LegacyShutdownWaits',
           UNCHANGED <<kind, submit, handles, settled, finish, queue>>,
           \A h \in Handles : worker'[h] = worker[h] \/ (V1!Live(h) /\ worker'[h] = "ended"),
           closingDown.at = "returned" =>
               closingDown'.at = "returned" /\ closingDown'.wait = closingDown.wait
    PROVE  LegacyInv'
<1>1. \A h \in Handles : HandleIsSound(h)'
  <2> TAKE h \in Handles
  <2>1. HandleIsSound(h)
    BY DEF LegacyInv
  <2> QED
    BY <2>1 DEF HandleIsSound, V1!Accepted, V1!Live
<1>2. HandlesAreBounded'
  <2>1. {g \in Handles : V1!Live(g)}' \subseteq {g \in Handles : V1!Live(g)}
    BY DEF V1!Live
  <2> QED
    BY <2>1, BoundedSets DEF LegacyInv, HandlesAreBounded
<1> QED
  BY <1>1, <1>2 DEF LegacyInv

LEMMA LegacyShutdownStarts ==
    ASSUME LegacyInv, V1!ShutdownStarts \/ V1!ShutdownTerminates
    PROVE  LegacyInv'
<1>1. PICK wait \in BOOLEAN :
         /\ closingDown.at = "open"
         /\ closingDown' = [at |-> "waiting", wait |-> wait, of |-> handles]
  BY DEF V1!ShutdownStarts, V1!ShutdownTerminates, V1!Closes
<1>2. UNCHANGED <<kind, submit, handles, settled, asked, left, finish, queue, stop, eventLoop>>
  BY DEF V1!ShutdownStarts, V1!ShutdownTerminates, V1!records, V1!workload, V1!delivery
<1>3. \A h \in Handles : worker'[h] = worker[h] \/ (V1!Live(h) /\ worker'[h] = "ended")
  BY DEF V1!ShutdownStarts, V1!ShutdownTerminates, V1!workload
<1>4. worker' \in [Handles -> {"none", "queued", "running", "sent", "ended"}]
  <2>1. worker \in [Handles -> {"none", "queued", "running", "sent", "ended"}]
    BY DEF LegacyInv, LegacyTypeOK
  <2>2. \/ worker' = worker
        \/ worker' = [h \in Handles |-> IF V1!Live(h) THEN "ended" ELSE worker[h]]
    BY DEF V1!ShutdownStarts, V1!ShutdownTerminates, V1!workload
  <2> QED
    BY <2>1, <2>2
<1>5. LegacyTypeOK'
  BY <1>1, <1>2, <1>4 DEF LegacyInv, LegacyTypeOK
<1>6. LegacyShutdownWaits'
  BY <1>1, <1>2 DEF LegacyInv, LegacyShutdownWaits
<1> QED
  BY <1>1, <1>2, <1>3, <1>5, <1>6, LegacyShutdownKeeps

\* shutdown() returns when what it waits for is over.
LEMMA LegacyShutdownReturns ==
    ASSUME LegacyInv, V1!ShutdownReturns
    PROVE  LegacyInv'
<1>1. /\ closingDown.at = "waiting"
      /\ closingDown' = [closingDown EXCEPT !.at = "returned"]
      /\ eventLoop' = IF kind = "async" /\ ~ closingDown.wait /\ handles = {}
                      THEN "stopping" ELSE eventLoop
      /\ UNCHANGED <<kind, submit, handles, settled, asked, worker, left, finish, queue, stop>>
  BY DEF V1!ShutdownReturns, V1!records, V1!workload, V1!delivery
<1>2. /\ closingDown'.at = "returned" /\ closingDown'.wait = closingDown.wait
      /\ closingDown'.of = closingDown.of
  BY <1>1 DEF LegacyInv, LegacyTypeOK
<1>3. LegacyTypeOK'
  BY <1>1 DEF LegacyInv, LegacyTypeOK
<1>4. ASSUME closingDown.wait
      PROVE  /\ handles = {}
             /\ kind \in {"thread", "async"} =>
                   \A h \in Handles : V1!Accepted(h) => finish[h] = "put"
  <2>1. handles \subseteq closingDown.of /\ handles \subseteq Handles
    BY <1>1, <1>4 DEF LegacyInv, LegacyShutdownWaits, LegacyTypeOK
  <2>2. \A h \in handles : V1!Accepted(h) /\ finish[h] = "none" /\ h \notin settled
    BY <2>1 DEF LegacyInv, HandleIsSound
  <2>3. CASE kind = "thread" /\ V1!PoolJoined
    BY <1>4, <2>1, <2>2, <2>3 DEF V1!PoolJoined
  <2>4. CASE kind = "process" /\ V1!WatchersJoined
    BY <2>1, <2>2, <2>4 DEF V1!WatchersJoined
  <2>5. CASE kind = "async" /\ V1!LoopJoined
    BY <1>1, <1>4, <2>5 DEF V1!LoopJoined, LegacyInv, LegacyShutdownWaits
  <2>6. CASE kind = "subprocess" /\ V1!ProgramsWaitedFor
    BY <1>4, <2>1, <2>2, <2>6 DEF V1!ProgramsWaitedFor
  <2> QED
    BY <2>3, <2>4, <2>5, <2>6 DEF V1!ShutdownReturns
<1>5. LegacyShutdownWaits'
  BY <1>1, <1>2, <1>4 DEF LegacyInv, LegacyShutdownWaits, V1!Accepted
<1> QED
  BY <1>1, <1>2, <1>3, <1>5, LegacyShutdownKeeps

LEMMA LegacyLoopStops ==
    ASSUME LegacyInv, V1!RequestsLoopStop \/ V1!LoopCloses
    PROVE  LegacyInv'
<1>1. UNCHANGED <<kind, submit, handles, settled, asked, worker, left, finish, queue, stop,
                  closingDown>>
  BY DEF V1!RequestsLoopStop, V1!LoopCloses, V1!records, V1!workload, V1!delivery
<1>2. LegacyTypeOK'
  BY <1>1 DEF V1!RequestsLoopStop, V1!LoopCloses, LegacyInv, LegacyTypeOK
<1>3. CASE V1!RequestsLoopStop
  <2>1. closingDown.at = "waiting" /\ closingDown.wait /\ closingDown.of \subseteq settled
    BY <1>3 DEF V1!RequestsLoopStop
  <2>2. handles = {}
    <3>1. handles \subseteq Handles /\ handles \subseteq closingDown.of
      BY <2>1 DEF LegacyInv, LegacyTypeOK, LegacyShutdownWaits
    <3> QED
      BY <2>1, <3>1 DEF LegacyInv, HandleIsSound
  <2>3. LegacyShutdownWaits'
    BY <1>1, <1>3, <2>1, <2>2 DEF V1!RequestsLoopStop, LegacyInv, LegacyShutdownWaits
  <2> QED
    BY <1>1, <1>2, <2>3, LegacyShutdownKeeps
<1>4. CASE V1!LoopCloses
  <2>1. eventLoop = "stopping" /\ eventLoop' = "closed"
        /\ \A h \in Handles : finish[h] \notin {"left", "stops"}
    BY <1>4 DEF V1!LoopCloses
  <2>2. ASSUME handles = {}, NEW h \in Handles, V1!Accepted(h)
        PROVE  finish[h] = "put"
    <3>1. finish[h] # "none" /\ finish[h] \in {"none", "left", "stops", "put"}
      BY <2>2 DEF LegacyInv, HandleIsSound, LegacyTypeOK
    <3> QED
      BY <2>1, <3>1
  <2>3. LegacyShutdownWaits'
    BY <1>1, <2>1, <2>2 DEF LegacyInv, LegacyShutdownWaits, V1!Accepted
  <2> QED
    BY <1>1, <1>2, <2>3, LegacyShutdownKeeps
<1> QED
  BY <1>3, <1>4

\* A place given back is free, and after shutdown(wait=True) every handle is
\* settled, for any number of handles and places, whichever workloads never end
\* by themselves (adapters/executors/).
THEOREM LegacyHandlesAreAccountedFor == V1!LegacySpec => []HandlesAreAccountedFor
<1>1. V1!LegacyInit => LegacyInv
  BY InitLegacyInv
<1>2. LegacyInv /\ [V1!LegacyNext]_(V1!legacyVars) => LegacyInv'
  <2> SUFFICES ASSUME LegacyInv, [V1!LegacyNext]_(V1!legacyVars)
               PROVE  LegacyInv'
    OBVIOUS
  <2>1. ASSUME NEW h \in Handles, V1!SubmitStep(h)
        PROVE  LegacyInv'
    BY <2>1, LegacyRefuses, LegacyRejectsSubmission, LegacyQueuesInPool, LegacyStartsChild,
       LegacyRegistersCoroutine, LegacyHandsToLoop, LegacyRegistersProgram, LegacyCommandFails,
       LegacySpawns, LegacyKeepsProcess DEF V1!SubmitStep
  <2>2. ASSUME NEW h \in Handles, V1!ExecutorStep(h)
        PROVE  LegacyInv'
    BY <2>2, LegacyPoolStarts, LegacyLoopStarts, LegacyLoopAnswers, LegacyFutureFinishes,
       LegacyWatcherFinishes, LegacyCoroutineFinishes, LegacyProgramFinishes, LegacyPublishes
       DEF V1!ExecutorStep
  <2>3. ASSUME NEW h \in Handles, V1!WorkEnds(h)
        PROVE  LegacyInv'
    BY <2>3, LegacyHandlerEnds, LegacyCoroutineEnds, LegacyProgramEnds, LegacyChildSends
       DEF V1!WorkEnds
  <2>4. ASSUME NEW h \in Handles,
               V1!ChildExits(h) \/ V1!AsksLoop(h) \/ V1!TerminatesChild(h) \/ V1!TerminatesProgram(h)
        PROVE  LegacyInv'
    BY <2>4, LegacyChildExits, LegacyAsksLoop, LegacyTerminatesChild, LegacyTerminatesProgram
  <2>5. CASE V1!ShutdownStarts \/ V1!ShutdownTerminates
    BY <2>5, LegacyShutdownStarts
  <2>6. CASE V1!ShutdownStep
    BY <2>6, LegacyShutdownCancels, LegacyShutdownEndsProgram, LegacyLoopStops,
       LegacyShutdownReturns DEF V1!ShutdownStep
  <2>7. CASE UNCHANGED V1!legacyVars
    <3>1. UNCHANGED <<kind, submit, handles, settled, worker, left, finish, queue, closingDown, eventLoop>>
      BY <2>7 DEF V1!legacyVars, V1!records, V1!workload, V1!delivery
    <3>2. LegacyTypeOK' /\ LegacyShutdownWaits'
      BY <3>1 DEF LegacyInv, LegacyTypeOK, LegacyShutdownWaits, V1!Accepted
    <3> QED
      BY <3>1, <3>2, LegacyShutdownKeeps
  <2> QED
    BY <2>1, <2>2, <2>3, <2>4, <2>5, <2>6, <2>7 DEF V1!LegacyNext
<1>3. LegacyInv => HandlesAreAccountedFor
  <2> SUFFICES ASSUME LegacyInv
               PROVE  HandlesAreAccountedFor
    OBVIOUS
  <2>1. \A h \in Handles : V1!Live(h) => h \in handles
    BY DEF LegacyInv, HandleIsSound, V1!Live
  <2>2. Cardinality({h \in Handles : V1!Live(h)}) <= MaxWorkers
    <3>1. CASE kind = "thread"
      BY <3>1 DEF LegacyInv, HandlesAreBounded, Bounded
    <3>2. CASE kind # "thread"
      <4>1. {h \in Handles : V1!Live(h)} \subseteq handles
        BY <2>1
      <4>2. Bounded({h \in Handles : V1!Live(h)})
        BY <3>2, <4>1, BoundedSets DEF LegacyInv, HandlesAreBounded
      <4> QED
        BY <4>2 DEF Bounded
    <3> QED
      BY <3>1, <3>2
  <2>3. V1!ShutdownSettles
    <3> SUFFICES ASSUME closingDown.at = "returned", closingDown.wait,
                        NEW h \in Handles, V1!Accepted(h)
                 PROVE  /\ ~ V1!Live(h) /\ h \in settled
                        /\ kind \in {"thread", "async"} => \E i \in DOMAIN queue : queue[i].handle = h
      BY DEF V1!ShutdownSettles
    <3>1. handles = {} /\ (kind \in {"thread", "async"} => finish[h] = "put")
      BY DEF LegacyInv, LegacyShutdownWaits
    <3>2. HandleIsSound(h)
      BY DEF LegacyInv
    <3> QED
      BY <3>1, <3>2 DEF HandleIsSound, V1!Live
  <2> QED
    BY <2>1, <2>2, <2>3, LegacyCardinality
       DEF HandlesAreAccountedFor, V1!HandlesAreAccountedFor, V1!PlacesAreHeldByLiveWork
<1> QED
  BY <1>1, <1>2, <1>3, PTL DEF V1!LegacySpec

=============================================================================
