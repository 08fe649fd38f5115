-------------------------- MODULE SequentialProofs --------------------------
(***************************************************************************)
(* Proofs about SequentialRunner and LegacyEvidence: what the sequence     *)
(* numbers of the events guarantee.  The processes share nothing but the   *)
(* store, so what a process knows falls in two parts: what stays true      *)
(* whatever the others store, and what is true as long as none of them     *)
(* has stored an event since it looked (Unfenced).  A unit of work with an *)
(* event is only accepted in the second case.                              *)
(***************************************************************************)
EXTENDS LegacyEvidence, FiniteSetTheorems, WellFoundedInduction, TLAPS

-----------------------------------------------------------------------------
(* The invariant.                                                          *)

\* The store accepts the next event of a process only if no event was stored
\* since the process looked.
Unfenced(k) == k.next > sequence

\* The steps of a process that executes an attempt, or waits to try again.
Trying == {"load_siblings", "execute", "succeed", "retry", "fail"}
InAttempt == Trying \cup {"again"}

\* The steps of the loop over the plan.
InLoop == {"create", "begin", "next", "attempts", "mark", "start"} \cup InAttempt

\* The steps only run() and only resume_run() takes.
OnlyRun == {"prepare", "create", "begin"}
OnlyResume ==
    {"idle", "scan_tasks", "scan", "load_run", "load_tasks", "load_events",
     "check", "apply", "preflight", "attempts"}

Last(t) == attempts[t][Len(attempts[t])]

\* A task is RUNNING only while all before it have succeeded and none behind
\* it was touched.
ViewInOrder(view) ==
    \A t, u \in Tasks : view[t] = "RUNNING" =>
        /\ u < t => view[u] = "SUCCEEDED"
        /\ u > t => view[u] = "PENDING"

\* What a process knows whatever others stored since.
KnowsAnyway(k) ==
    /\ k.at \notin {"next", "conclude"} => k.task \in Tasks
    /\ k.at \notin InLoop \cup {"scan", "conclude"} => k.task = 1
    /\ k.at \in OnlyRun => k.next = 1
    /\ k.at \in InAttempt => k.num \in 1 .. Len(attempts[k.task]) /\ k.task \in k.selected
    /\ k.at \in Trying =>
          /\ attempts[k.task][k.num] # "RETRY"
          /\ attempts[k.task][k.num] = "RUNNING" \/ task[k.task] \in TaskTerminal
    /\ k.at = "again" => attempts[k.task][k.num] = "RETRY"
    /\ k.at \in {"load_events", "check", "apply"} => ViewInOrder(k.view)
    /\ k.at \in {"load_tasks", "load_events", "check", "apply"} =>
          \A t \in Tasks : k.report[t] \notin {"MANUAL_REQUIRED", "STILL_RUNNING"}
    /\ k.at \in {"check", "apply"} => \E t \in Tasks : k.report[t] # "none"

\* What it knows as long as the store accepts its next event.
KnowsStill(k) ==
    /\ k.at \in InLoop =>
          /\ \A t \in Tasks : t < k.task => task[t] = "SUCCEEDED"
          /\ \A t \in Executable : t >= k.task => t \in k.selected
    /\ k.at \in {"attempts"} \cup (InAttempt \ {"load_siblings"}) => k.view = task
    /\ k.at = "mark" => task[k.task] = "PENDING" /\ k.num = 1
    /\ k.at = "start" =>
          \/ task[k.task] = "READY" /\ k.num = 1
          \/ /\ task[k.task] = "RUNNING"
             /\ k.num - 1 \in 1 .. Len(attempts[k.task])
             /\ attempts[k.task][k.num - 1] = "RETRY"
    /\ k.at \in {"mark", "start"} => k.task \in k.selected
    /\ k.at \in InAttempt => task[k.task] = "RUNNING"
    /\ k.at = "apply" => \A t \in Tasks : k.report[t] # "none" =>
          attempts[t] # << >> /\ Last(t) = "RUNNING" /\ k.view[t] = "RUNNING"
    /\ k.at = "conclude" => \A t \in Tasks : task[t] = "SUCCEEDED"

ProcessKnows(k) ==
    /\ k.next <= sequence + 1
    /\ KnowsAnyway(k)
    /\ Unfenced(k) => KnowsStill(k)

\* Only the last attempt of a task is not a failure that is retried.
OnlyTheLastIsOpen ==
    \A t \in Tasks : \A n \in 1 .. Len(attempts[t]) - 1 : attempts[t][n] = "RETRY"

OpenTaskIsRunning ==
    \A t \in Tasks :
        /\ attempts[t] # << >> /\ Last(t) \in {"RUNNING", "RETRY"} => task[t] = "RUNNING"
        /\ task[t] \in {"PENDING", "READY"} => attempts[t] = << >>

TasksInOrder ==
    run \notin WorkflowTerminal =>
        /\ \A t \in Tasks : task[t] \in {"PENDING", "READY", "RUNNING", "SUCCEEDED"}
        /\ \A t, u \in Tasks : t < u /\ task[u] # "PENDING" => task[t] = "SUCCEEDED"

EndIsJustified ==
    run \in WorkflowTerminal =>
        /\ \A t \in Tasks : task[t] \in TaskTerminal
        /\ sequence > 0 /\ closed
        /\ run = "SUCCEEDED" => \A t \in Tasks : task[t] = "SUCCEEDED"
        /\ run = "FAILED" => \E t \in Tasks : task[t] = "FAILED"

RecordsFit ==
    OnlyTheLastIsOpen /\ OpenTaskIsRunning /\ TasksInOrder /\ EndIsJustified

\* run() and resume_run() have steps of their own, and nobody resumes a run
\* that is not stored.
StepsOf(p, step) ==
    /\ step \notin IF p = 1 THEN OnlyResume ELSE OnlyRun
    /\ run = Absent => step \in Gone \cup (IF p = 1 THEN {"prepare", "create"} ELSE {"idle"})
    /\ step \in {"prepare", "create"} => run = Absent

Beginning ==
    /\ sequence = 0 => run \in {Absent, "PENDING"} /\ \A t \in Tasks : task[t] = "PENDING"
    /\ run = Absent => sequence = 0
    /\ \A p \in Processes : StepsOf(p, process[p].at)

\* An attempt was stored by the process that executes it.
SameAttempt(k, l) ==
    k.at \in InAttempt /\ l.at \in InAttempt /\ k.task = l.task /\ k.num = l.num

AttemptsAreTheirOwn ==
    \A p, q \in Processes : p # q => ~ SameAttempt(process[p], process[q])

SequentialInv ==
    /\ SequentialTypeOK
    /\ RecordsFit
    /\ Beginning
    /\ AttemptsAreTheirOwn
    /\ \A p \in Processes : ProcessKnows(process[p])

-----------------------------------------------------------------------------
(* What a step does to the knowledge of the others.                        *)

\* Only the local variables of p change, and its claim on an attempt stays
\* what it was (Reads, Raises, Crash).
LEMMA QuietStep ==
    ASSUME SequentialInv, UNCHANGED durable, external' \in [Tasks -> ExternalState],
           NEW p \in Processes, NEW k \in ProcessRecords,
           process' = [process EXCEPT ![p] = k],
           ProcessKnows(k), StepsOf(p, k.at),
           k.at \in InAttempt => SameAttempt(k, process[p])
    PROVE  SequentialInv'
<1> USE DEF SequentialInv
<1>1. /\ process' \in [Processes -> ProcessRecords] /\ process'[p] = k
      /\ \A q \in Processes \ {p} : process'[q] = process[q]
  BY DEF SequentialTypeOK
<1>2. SequentialTypeOK'
  BY <1>1 DEF SequentialTypeOK, durable
<1>3. RecordsFit'
  BY DEF RecordsFit, OnlyTheLastIsOpen, OpenTaskIsRunning, TasksInOrder, EndIsJustified,
         Last, durable
<1>4. Beginning'
  <2>1. \A q \in Processes : StepsOf(q, process'[q].at)
    BY <1>1 DEF Beginning
  <2> QED
    BY <2>1 DEF Beginning, StepsOf, durable
<1>5. AttemptsAreTheirOwn'
  BY <1>1 DEF AttemptsAreTheirOwn, SameAttempt
<1>6. ASSUME NEW q \in Processes
      PROVE  ProcessKnows(process[q])'
  <2>1. ProcessKnows(process'[q])
    BY <1>1
  <2> QED
    BY <2>1 DEF ProcessKnows, KnowsAnyway, KnowsStill, Unfenced, Last, Executable,
                WaitsForRetry, durable
<1> QED
  BY <1>2, <1>3, <1>4, <1>5, <1>6

\* What somebody who knows the n-th attempt of t relies on.
AttemptKept(t, n) ==
    /\ n \in 1 .. Len(attempts'[t])
    /\ attempts[t][n] = "RETRY" => attempts'[t][n] = "RETRY"
    /\ attempts[t][n] # "RETRY" /\ (attempts[t][n] = "RUNNING" \/ task[t] \in TaskTerminal)
       => /\ attempts'[t][n] # "RETRY"
          /\ attempts'[t][n] = "RUNNING" \/ task'[t] \in TaskTerminal

LEMMA KnowledgeStays ==
    ASSUME NEW k \in ProcessRecords, KnowsAnyway(k),
           k.at \in InAttempt => AttemptKept(k.task, k.num)
    PROVE  KnowsAnyway(k)'
<1>1. k.at \in Trying => k.at \in InAttempt
  BY DEF InAttempt
<1>2. k.at = "again" => k.at \in InAttempt
  BY DEF InAttempt
<1> QED
  BY <1>1, <1>2 DEF KnowsAnyway, AttemptKept

\* The attempt p works on.
OwnAttempt(p, t, n) ==
    process[p].at \in InAttempt /\ t = process[p].task /\ n = process[p].num

\* The types of what a unit of work stores.
StoredTypeOK ==
    /\ run \in WorkflowRunStatus /\ task \in [Tasks -> TaskRunStatus]
    /\ attempts \in [Tasks -> Seq(StoredAttempt)]
    /\ checkpoints \subseteq Tasks /\ sequence \in Nat /\ endings \in Nat
    /\ closed \in BOOLEAN

\* p stores something, and claims at most an attempt that is new.
LEMMA StoreStep ==
    ASSUME SequentialInv, UNCHANGED external, StoredTypeOK',
           NEW p \in Processes, NEW k \in ProcessRecords,
           process' = [process EXCEPT ![p] = k],
           process[p].at \notin Gone \cup {"idle"},
           RecordsFit',
           sequence' = 0 => run' \in {Absent, "PENDING"} /\ \A t \in Tasks : task'[t] = "PENDING",
           ProcessKnows(k)', StepsOf(p, k.at)',
           \A q \in Processes \ {p} : ProcessKnows(process[q])',
           k.at \in InAttempt => \/ SameAttempt(k, process[p])
                                 \/ k.num > Len(attempts[k.task])
    PROVE  SequentialInv'
<1> USE DEF SequentialInv
<1>1. /\ process' \in [Processes -> ProcessRecords] /\ process'[p] = k
      /\ \A q \in Processes \ {p} : process'[q] = process[q]
  BY DEF SequentialTypeOK
<1>2. SequentialTypeOK'
  BY <1>1 DEF SequentialTypeOK, StoredTypeOK
<1>3. run' # Absent
  BY DEF StoredTypeOK, WorkflowRunStatus, Absent
<1>4. Beginning'
  <2>1. ASSUME NEW q \in Processes \ {p}
        PROVE  StepsOf(q, process[q].at)'
    <3>1. StepsOf(q, process[q].at) /\ StepsOf(p, process[p].at)
      BY DEF Beginning
    <3>2. CASE run = Absent
      <4>1. p = 1 /\ q # 1
        BY <3>1, <3>2 DEF StepsOf
      <4> QED
        BY <4>1, <3>1, <1>1, <1>3 DEF StepsOf, OnlyRun
    <3>3. CASE run # Absent
      BY <3>1, <3>3, <1>1, <1>3 DEF StepsOf
    <3> QED
      BY <3>2, <3>3
  <2> QED
    BY <2>1, <1>1, <1>3 DEF Beginning, StepsOf
<1>5. AttemptsAreTheirOwn'
  <2>1. ASSUME NEW q \in Processes \ {p}, SameAttempt(k, process[q])
        PROVE  FALSE
    <3>1. ~ SameAttempt(k, process[p])
      BY <2>1 DEF AttemptsAreTheirOwn, SameAttempt
    <3>2. k.num > Len(attempts[k.task]) /\ k.num \in 1 .. Len(attempts[k.task])
      BY <2>1, <3>1 DEF SameAttempt, ProcessKnows, KnowsAnyway
    <3> QED
      BY <3>2
  <2> QED
    BY <2>1, <1>1 DEF AttemptsAreTheirOwn, SameAttempt
<1>6. \A q \in Processes : ProcessKnows(process[q])'
  BY <1>1 DEF ProcessKnows, KnowsAnyway, KnowsStill, Unfenced
<1> QED
  BY <1>2, <1>4, <1>5, <1>6

\* A stored event fences everybody else.
LEMMA EventStep ==
    ASSUME SequentialInv, UNCHANGED external, StoredTypeOK',
           NEW p \in Processes, NEW k \in ProcessRecords,
           process' = [process EXCEPT ![p] = k],
           process[p].at \notin Gone \cup {"idle"},
           RecordsFit', sequence' > sequence,
           ProcessKnows(k)', StepsOf(p, k.at)',
           \A t \in Tasks : \A n \in 1 .. Len(attempts[t]) :
              OwnAttempt(p, t, n) \/ AttemptKept(t, n),
           k.at \in InAttempt => \/ SameAttempt(k, process[p])
                                 \/ k.num > Len(attempts[k.task])
    PROVE  SequentialInv'
<1>1. ASSUME NEW q \in Processes \ {p}
      PROVE  ProcessKnows(process[q])'
  <2>1. PICK j \in ProcessRecords : j = process[q]
    BY DEF SequentialInv, SequentialTypeOK
  <2>2. process'[q] = j
    BY <2>1 DEF SequentialInv, SequentialTypeOK
  <2>3. ProcessKnows(j)
    BY <2>1 DEF SequentialInv
  <2>4. j.at \in InAttempt => AttemptKept(j.task, j.num)
    <3> SUFFICES ASSUME j.at \in InAttempt
                 PROVE  AttemptKept(j.task, j.num)
      OBVIOUS
    <3>1. j.task \in Tasks /\ j.num \in 1 .. Len(attempts[j.task])
      BY <2>3 DEF ProcessKnows, KnowsAnyway, InAttempt, Trying
    <3>2. ~ OwnAttempt(p, j.task, j.num)
      BY <2>1 DEF SequentialInv, AttemptsAreTheirOwn, SameAttempt, OwnAttempt
    <3> QED
      BY <3>1, <3>2
  <2>5. KnowsAnyway(j)'
    BY <2>3, <2>4, KnowledgeStays DEF ProcessKnows
  <2>6. sequence \in Nat /\ sequence' \in Nat /\ j.next \in Nat
    BY DEF SequentialInv, SequentialTypeOK, StoredTypeOK, ProcessRecords
  <2>7. j.next <= sequence' /\ ~ Unfenced(j)'
    BY <2>3, <2>6 DEF ProcessKnows, Unfenced
  <2>8. ProcessKnows(j)'
    BY <2>5, <2>6, <2>7 DEF ProcessKnows
  <2> QED
    BY <2>2, <2>8 DEF ProcessKnows, KnowsAnyway, KnowsStill, Unfenced
<1>2. sequence' # 0
  BY DEF SequentialInv, SequentialTypeOK, StoredTypeOK
<1> QED
  BY <1>1, <1>2, StoreStep

-----------------------------------------------------------------------------
(* The local variables of a process.                                       *)

LEMMA LocalsType ==
    ASSUME SequentialInv, NEW p \in Processes
    PROVE  /\ process[p] \in ProcessRecords /\ ProcessKnows(process[p])
           /\ StepsOf(p, process[p].at)
           /\ process[p].at \in ProcessStep /\ process[p].task \in 1 .. TaskCount + 1
           /\ process[p].num \in Nat /\ process[p].next \in Nat
           /\ process[p].outputs \subseteq Tasks /\ process[p].selected \subseteq Tasks
           /\ process[p].view \in [Tasks -> TaskRunStatus]
           /\ process[p].report \in [Tasks -> Disposition]
           /\ process[p].seen \in [Tasks -> Nat]
BY DEF SequentialInv, SequentialTypeOK, ProcessRecords, Beginning

LEMMA StoreType ==
    ASSUME SequentialInv
    PROVE  /\ task \in [Tasks -> TaskRunStatus] /\ sequence \in Nat
           /\ external \in [Tasks -> ExternalState]
           /\ attempts \in [Tasks -> Seq(StoredAttempt)]
           /\ \A t \in Tasks : attempts[t] \in Seq(StoredAttempt) /\ Len(attempts[t]) \in Nat
BY DEF SequentialInv, SequentialTypeOK

LEMMA FirstTask == 1 \in Tasks /\ 1 \in 1 .. TaskCount + 1 /\ TaskCount \in Nat
BY PlanIsNotEmpty DEF Tasks

LEMMA NewProcessType == NewProcess \in ProcessRecords
BY FirstTask DEF NewProcess, ProcessRecords, ProcessStep, NoViewOf, NoReport, NoSeen,
                 Disposition, TaskRunStatus

\* A call that is over knows nothing.
LEMMA OverKnows ==
    ASSUME SequentialInv, NEW p \in Processes, NEW step \in Gone
    PROVE  /\ Over(p, step) \in ProcessRecords /\ Over(p, step).at = step
           /\ ProcessKnows(Over(p, step)) /\ StepsOf(p, step)
<1>1. NewProcess \in ProcessRecords
  BY NewProcessType
<1>2. /\ Over(p, step) \in ProcessRecords /\ Over(p, step).at = step
      /\ Over(p, step).task = 1 /\ Over(p, step).next = 1
  BY <1>1 DEF Over, NewProcess, ProcessRecords, ProcessStep, Gone
<1>3. StepsOf(p, step)
  BY DEF StepsOf, Gone, OnlyRun, OnlyResume
<1>4. sequence \in Nat
  BY DEF SequentialInv, SequentialTypeOK
<1>5. KnowsAnyway(Over(p, step)) /\ KnowsStill(Over(p, step))
  BY <1>2, FirstTask DEF KnowsAnyway, KnowsStill, Gone, InAttempt, Trying, InLoop, OnlyRun
<1> QED
  BY <1>2, <1>3, <1>4, <1>5 DEF ProcessKnows

LEMMA EndsQuietly ==
    ASSUME SequentialInv, UNCHANGED <<durable, external>>,
           NEW p \in Processes, NEW step \in Gone, Becomes(p, Over(p, step))
    PROVE  SequentialInv'
<1>1. PICK k \in ProcessRecords : k = Over(p, step)
  BY OverKnows
<1>2. k.at = step /\ ProcessKnows(k) /\ StepsOf(p, k.at) /\ k.at \notin InAttempt
  BY <1>1, OverKnows DEF Gone, InAttempt, Trying
<1>3. external' \in [Tasks -> ExternalState]
  BY DEF SequentialInv, SequentialTypeOK
<1> QED
  BY <1>1, <1>2, <1>3, QuietStep DEF Becomes

LEMMA RaisesKeeps ==
    ASSUME SequentialInv, NEW p \in Processes, Raises(p)
    PROVE  SequentialInv'
BY EndsQuietly DEF Raises, Gone

\* A process that only reads.
LEMMA ReadsKeeps ==
    ASSUME SequentialInv, NEW p \in Processes, NEW k \in ProcessRecords, Reads(p, k),
           k.next = process[p].next, KnowsAnyway(k),
           Unfenced(k) /\ KnowsStill(process[p]) => KnowsStill(k),
           run # Absent \/ k.at = "create", k.at \in ProcessStep,
           k.at \notin IF p = 1 THEN OnlyResume ELSE OnlyRun,
           k.at = "create" => run = Absent /\ p = 1, k.at # "prepare",
           k.at \in InAttempt => SameAttempt(k, process[p])
    PROVE  SequentialInv'
<1>1. ProcessKnows(k)
  BY LocalsType DEF ProcessKnows, Unfenced
<1>2. StepsOf(p, k.at)
  BY DEF StepsOf
<1>3. external' \in [Tasks -> ExternalState]
  BY DEF SequentialInv, SequentialTypeOK, Reads
<1> QED
  BY <1>1, <1>2, <1>3, QuietStep DEF Reads, Becomes

-----------------------------------------------------------------------------
(* run(), up to its first task.                                            *)

LEMMA InitKnows ==
    ASSUME SequentialInit
    PROVE  SequentialInv
<1>1. /\ process \in [Processes -> ProcessRecords]
      /\ \A p \in Processes :
            /\ process[p].at = IF p = 1 THEN "prepare" ELSE "idle"
            /\ process[p].task = 1 /\ process[p].next = 1
  BY NewProcessType DEF SequentialInit, NewProcess, ProcessRecords, ProcessStep
<1>2. SequentialTypeOK
  <2>1. attempts \in [Tasks -> Seq(StoredAttempt)]
    BY DEF SequentialInit
  <2>2. task \in [Tasks -> TaskRunStatus] /\ external \in [Tasks -> ExternalState]
    BY DEF SequentialInit, TaskRunStatus, ExternalState
  <2> QED
    BY <1>1, <2>1, <2>2 DEF SequentialInit, SequentialTypeOK
<1>3. RecordsFit
  BY DEF SequentialInit, RecordsFit, OnlyTheLastIsOpen, OpenTaskIsRunning, TasksInOrder,
         EndIsJustified, Absent, WorkflowTerminal, Last
<1>4. Beginning
  BY <1>1 DEF SequentialInit, Beginning, StepsOf, Gone, OnlyRun, OnlyResume, Absent
<1>5. AttemptsAreTheirOwn
  BY <1>1 DEF AttemptsAreTheirOwn, SameAttempt, InAttempt, Trying
<1>6. \A p \in Processes : ProcessKnows(process[p])
  BY <1>1, FirstTask DEF SequentialInit, ProcessKnows, KnowsAnyway, KnowsStill, InLoop, OnlyRun,
                         InAttempt, Trying
<1> QED
  BY <1>2, <1>3, <1>4, <1>5, <1>6 DEF SequentialInv

LEMMA PrepareKeeps ==
    ASSUME SequentialInv, NEW p \in Processes, Prepare(p)
    PROVE  SequentialInv'
<1>1. CASE Raises(p)
  BY <1>1, RaisesKeeps
<1>2. CASE Reads(p, [Then(p, "create") EXCEPT !.selected = Tasks])
  <2>1. PICK k : k = [Then(p, "create") EXCEPT !.selected = Tasks]
    OBVIOUS
  <2>2. /\ k \in ProcessRecords /\ k.at = "create" /\ k.task = process[p].task
        /\ k.next = process[p].next /\ k.selected = Tasks
    BY <2>1, LocalsType, ZenonT(30) DEF Then, ProcessRecords, ProcessStep
  <2>3. process[p].at = "prepare" /\ run = Absent /\ p = 1
    BY LocalsType DEF Prepare, At, StepsOf, OnlyRun
  <2>4. k.task = 1 /\ k.next = 1
    BY <2>2, <2>3, LocalsType
    DEF ProcessKnows, KnowsAnyway, InLoop, InAttempt, Trying, OnlyRun
  <2>5. KnowsAnyway(k) /\ KnowsStill(k)
    BY <2>2, <2>4, FirstTask
    DEF KnowsAnyway, KnowsStill, InLoop, InAttempt, Trying, OnlyRun, Executable, Tasks
  <2>6. k.at \notin InAttempt /\ k.at \notin OnlyResume /\ k.at \in ProcessStep
    BY <2>2 DEF InAttempt, Trying, OnlyResume, ProcessStep
  <2>7. Reads(p, k)
    BY <1>2, <2>1
  <2> QED
    BY <2>2, <2>3, <2>5, <2>6, <2>7, ReadsKeeps
<1> QED
  BY <1>1, <1>2 DEF Prepare

-----------------------------------------------------------------------------
(* The steps of the loop that only read.                                   *)

\* A run somebody works on is stored.
LEMMA RunIsStored ==
    ASSUME SequentialInv, NEW p \in Processes,
           process[p].at \notin Gone \cup {"idle", "prepare", "create"}
    PROVE  run # Absent
BY LocalsType DEF StepsOf

LEMMA RunTakesTaskKeeps ==
    ASSUME SequentialInv, NEW p \in Processes, RunTakesTask(p)
    PROVE  SequentialInv'
<1>1. CASE Raises(p)
  BY <1>1, RaisesKeeps
<1>2. CASE ~ Raises(p)
  <2>1. PICK k : k = [Then(p, "mark") EXCEPT !.num = 1]
    OBVIOUS
  <2>2. /\ k \in ProcessRecords /\ k.at = "mark" /\ k.num = 1 /\ k.task = process[p].task
        /\ k.next = process[p].next /\ k.selected = process[p].selected
    BY <2>1, LocalsType, ZenonT(30) DEF Then, ProcessRecords, ProcessStep
  <2>3. /\ process[p].at = "next" /\ p = 1 /\ k.task \in Tasks /\ task[k.task] = "PENDING"
        /\ Reads(p, k)
    BY <1>2, <2>1, <2>2 DEF RunTakesTask, At, Current
  <2>4. k.task \in Executable
    BY <2>3 DEF Executable
  <2>5. KnowsAnyway(k)
    BY <2>2, <2>3 DEF KnowsAnyway, InLoop, InAttempt, Trying, OnlyRun
  <2>6. KnowsStill(process[p]) => KnowsStill(k)
    BY <2>2, <2>3, <2>4 DEF KnowsStill, InLoop, InAttempt, Trying, Tasks
  <2>7. run # Absent
    BY <2>3, RunIsStored DEF Gone
  <2>8. k.at \notin InAttempt /\ k.at \notin OnlyResume /\ k.at \in ProcessStep
    BY <2>2 DEF InAttempt, Trying, OnlyResume, ProcessStep
  <2> QED
    BY <2>2, <2>3, <2>5, <2>6, <2>7, <2>8, ReadsKeeps
<1> QED
  BY <1>1, <1>2

LEMMA PreflightKeeps ==
    ASSUME SequentialInv, NEW p \in Processes, Preflight(p)
    PROVE  SequentialInv'
<1>1. CASE Raises(p)
  BY <1>1, RaisesKeeps
<1>2. CASE ~ Raises(p)
  <2>1. PICK k : k = [Then(p, "next") EXCEPT !.selected = Executable]
    OBVIOUS
  <2>2. /\ k \in ProcessRecords /\ k.at = "next" /\ k.task = process[p].task
        /\ k.next = process[p].next /\ k.selected = Executable
    BY <2>1, LocalsType, ZenonT(30) DEF Then, ProcessRecords, ProcessStep, Executable
  <2>3. process[p].at = "preflight" /\ Reads(p, k)
    BY <1>2, <2>1 DEF Preflight, At
  <2>4. k.task = 1
    BY <2>2, <2>3, LocalsType DEF ProcessKnows, KnowsAnyway, InLoop, InAttempt, Trying
  <2>5. KnowsAnyway(k) /\ KnowsStill(k)
    BY <2>2, <2>4
    DEF KnowsAnyway, KnowsStill, InLoop, InAttempt, Trying, OnlyRun, Tasks
  <2>6. run # Absent
    BY <2>3, RunIsStored DEF Gone
  <2>7. /\ k.at \notin InAttempt /\ k.at \notin OnlyResume /\ k.at \notin OnlyRun
        /\ k.at \in ProcessStep
    BY <2>2 DEF InAttempt, Trying, OnlyResume, OnlyRun, ProcessStep
  <2> QED
    BY <2>2, <2>3, <2>5, <2>6, <2>7, ReadsKeeps
<1> QED
  BY <1>1, <1>2

LEMMA ResumeTakesTaskKeeps ==
    ASSUME SequentialInv, NEW p \in Processes, ResumeTakesTask(p)
    PROVE  SequentialInv'
<1>1. process[p].at = "next" /\ p # 1 /\ process[p].task \in Tasks /\ run # Absent
  BY RunIsStored DEF ResumeTakesTask, At, Current, Gone
<1>2. CASE task[process[p].task] = "SUCCEEDED"
  <2>1. PICK k : k = SkipSucceeded(p)
    OBVIOUS
  <2>2. /\ k \in ProcessRecords /\ k.at = "next" /\ k.task = process[p].task + 1
        /\ k.next = process[p].next /\ k.selected = process[p].selected
    <3>1. process[p].task + 1 \in 1 .. TaskCount + 1
      BY <1>1, FirstTask DEF Tasks
    <3> QED
      BY <1>1, <2>1, <3>1, LocalsType DEF SkipSucceeded, ProcessRecords
  <2>3. Reads(p, k)
    BY <1>2, <2>1 DEF ResumeTakesTask, Current
  <2>4. KnowsAnyway(k)
    BY <2>2 DEF KnowsAnyway, InLoop, InAttempt, Trying, OnlyRun
  <2>5. KnowsStill(process[p]) => KnowsStill(k)
    BY <1>1, <1>2, <2>2, FirstTask
    DEF KnowsStill, InLoop, InAttempt, Trying, Tasks, Executable
  <2>6. /\ k.at \notin InAttempt /\ k.at \notin OnlyRun /\ k.at \in ProcessStep
    BY <2>2 DEF InAttempt, Trying, OnlyRun, ProcessStep
  <2> QED
    BY <1>1, <2>2, <2>3, <2>4, <2>5, <2>6, ReadsKeeps
<1>3. CASE task[process[p].task] # "SUCCEEDED"
  <2>1. PICK k : k = [Then(p, "attempts") EXCEPT !.view = task]
    OBVIOUS
  <2>2. /\ k \in ProcessRecords /\ k.at = "attempts" /\ k.task = process[p].task
        /\ k.next = process[p].next /\ k.selected = process[p].selected /\ k.view = task
    BY <2>1, LocalsType, StoreType, ZenonT(30) DEF Then, ProcessRecords, ProcessStep
  <2>3. Reads(p, k)
    BY <1>3, <2>1 DEF ResumeTakesTask, Current
  <2>4. KnowsAnyway(k)
    BY <1>1, <2>2 DEF KnowsAnyway, InLoop, InAttempt, Trying, OnlyRun
  <2>5. KnowsStill(process[p]) => KnowsStill(k)
    BY <1>1, <2>2 DEF KnowsStill, InLoop, InAttempt, Trying
  <2>6. /\ k.at \notin InAttempt /\ k.at \notin OnlyRun /\ k.at \in ProcessStep
    BY <2>2 DEF InAttempt, Trying, OnlyRun, ProcessStep
  <2> QED
    BY <1>1, <2>2, <2>3, <2>4, <2>5, <2>6, ReadsKeeps
<1> QED
  BY <1>2, <1>3

LEMMA ResumeChecksTaskKeeps ==
    ASSUME SequentialInv, NEW p \in Processes, ResumeChecksTask(p)
    PROVE  SequentialInv'
<1>1. CASE Raises(p)
  BY <1>1, RaisesKeeps
<1>2. CASE ~ Raises(p)
  <2> DEFINE status == process[p].view[process[p].task]
             waits == status = "RUNNING" /\ WaitsForRetry(process[p].task)
  <2>1. PICK k : k = [[process[p] EXCEPT !.waited = waits,
                                        !.num = NextAttemptNumber(process[p].task)]
                        EXCEPT !.at = IF status = "PENDING" THEN "mark" ELSE "start"]
    OBVIOUS
  <2>2. /\ process[p].at = "attempts" /\ process[p].task \in Tasks /\ run # Absent
        /\ attempts[process[p].task] \in Seq(StoredAttempt)
        /\ Len(attempts[process[p].task]) \in Nat
    <3>1. process[p].at = "attempts"
      BY DEF ResumeChecksTask, At
    <3>2. process[p].task \in Tasks
      BY <3>1, LocalsType DEF ProcessKnows, KnowsAnyway
    <3> QED
      BY <3>1, <3>2, StoreType, RunIsStored DEF Gone
  <2>3. /\ k \in ProcessRecords /\ k.at = (IF status = "PENDING" THEN "mark" ELSE "start")
        /\ k.task = process[p].task /\ k.num = Len(attempts[k.task]) + 1
        /\ k.next = process[p].next /\ k.selected = process[p].selected
    <3>1. waits \in BOOLEAN
      BY DEF WaitsForRetry
    <3>2. PICK n \in Nat :
             n = NextAttemptNumber(process[p].task) /\ n = Len(attempts[process[p].task]) + 1
      BY <2>2 DEF NextAttemptNumber
    <3> HIDE DEF waits, status
    <3>3. k.at = (IF status = "PENDING" THEN "mark" ELSE "start") /\ k.at \in ProcessStep
      BY <2>1, LocalsType DEF ProcessStep, ProcessRecords
    <3> QED
      BY <2>1, <3>1, <3>2, <3>3, LocalsType DEF ProcessRecords
  <2>4. Reads(p, k) /\ (status \in {"PENDING", "READY"} \/ waits)
    BY <1>2, <2>1 DEF ResumeChecksTask, Current
  <2>5. KnowsAnyway(k)
    BY <2>2, <2>3 DEF KnowsAnyway, InLoop, InAttempt, Trying, OnlyRun
  <2>6. KnowsStill(process[p]) => KnowsStill(k)
    <3> SUFFICES ASSUME KnowsStill(process[p])
                 PROVE  KnowsStill(k)
      OBVIOUS
    <3>1. /\ status = task[k.task]
          /\ \A t \in Tasks : t < k.task => task[t] = "SUCCEEDED"
          /\ \A t \in Executable : t >= k.task => t \in k.selected
      BY <2>2, <2>3 DEF KnowsStill, InLoop
    <3>2. k.task \in k.selected
      BY <2>2, <2>3, <2>4, <3>1 DEF Executable, Tasks
    <3>3. status \in {"PENDING", "READY"} => k.num = 1
      BY <2>2, <2>3, <3>1 DEF SequentialInv, RecordsFit, OpenTaskIsRunning
    <3>4. waits => /\ k.num - 1 \in 1 .. Len(attempts[k.task])
                   /\ attempts[k.task][k.num - 1] = "RETRY"
      BY <2>2, <2>3 DEF WaitsForRetry
    <3>5. k.at \in {"mark", "start"}
      BY <2>3
    <3> QED
      BY <2>3, <2>4, <3>1, <3>2, <3>3, <3>4, <3>5 DEF KnowsStill, InLoop, InAttempt, Trying
  <2>7. /\ k.at \notin InAttempt /\ k.at \notin OnlyRun /\ k.at \in ProcessStep
        /\ k.at \notin OnlyResume /\ k.at \notin {"create", "prepare"}
    BY <2>3 DEF InAttempt, Trying, OnlyRun, OnlyResume, ProcessStep
  <2> QED
    BY <2>2, <2>3, <2>4, <2>5, <2>6, <2>7, ReadsKeeps
<1> QED
  BY <1>1, <1>2

\* A process in its attempt keeps its claim, and what it knows.
LEMMA AttemptGoesOn ==
    ASSUME SequentialInv, NEW p \in Processes, NEW k \in ProcessRecords, Reads(p, k),
           process[p].at \in Trying, k.at \in Trying \ {"load_siblings"},
           k.task = process[p].task, k.num = process[p].num, k.next = process[p].next,
           k.selected = process[p].selected,
           k.view = IF process[p].at = "load_siblings" THEN task ELSE process[p].view
    PROVE  SequentialInv'
<1>1. KnowsAnyway(process[p]) /\ run # Absent
  BY LocalsType, RunIsStored DEF ProcessKnows, Gone, Trying
<1>2. KnowsAnyway(k)
  BY <1>1 DEF KnowsAnyway, InLoop, InAttempt, Trying, OnlyRun
<1>3. KnowsStill(process[p]) => KnowsStill(k)
  BY DEF KnowsStill, InLoop, InAttempt, Trying
<1>4. /\ SameAttempt(k, process[p]) /\ k.at \in ProcessStep
      /\ k.at \notin OnlyRun /\ k.at \notin OnlyResume /\ k.at \notin {"create", "prepare"}
  BY DEF SameAttempt, InAttempt, Trying, OnlyRun, OnlyResume, ProcessStep
<1> QED
  BY <1>1, <1>2, <1>3, <1>4, ReadsKeeps

LEMMA LoadSiblingsKeeps ==
    ASSUME SequentialInv, NEW p \in Processes, LoadSiblings(p)
    PROVE  SequentialInv'
<1>1. PICK k : k = [Then(p, "execute") EXCEPT !.view = task]
  OBVIOUS
<1>2. /\ k \in ProcessRecords /\ k.at = "execute" /\ k.task = process[p].task
      /\ k.num = process[p].num /\ k.next = process[p].next
      /\ k.selected = process[p].selected /\ k.view = task
  BY <1>1, LocalsType, StoreType, ZenonT(30) DEF Then, ProcessRecords, ProcessStep
<1>3. process[p].at = "load_siblings" /\ Reads(p, k)
  BY <1>1 DEF LoadSiblings, At
<1> QED
  BY <1>2, <1>3, AttemptGoesOn DEF Trying

LEMMA ExecuteTaskKeeps ==
    ASSUME SequentialInv, NEW p \in Processes, ExecuteTask(p)
    PROVE  SequentialInv'
<1>1. PICK step \in {"succeed", "retry", "fail"} : Reads(p, Then(p, step))
  BY DEF ExecuteTask
<1>2. PICK k : k = Then(p, step)
  OBVIOUS
<1>3. /\ k \in ProcessRecords /\ k.at = step /\ k.task = process[p].task
      /\ k.num = process[p].num /\ k.next = process[p].next
      /\ k.selected = process[p].selected /\ k.view = process[p].view
  BY <1>2, LocalsType DEF Then, ProcessRecords, ProcessStep
<1>4. process[p].at = "execute" /\ Reads(p, k)
  BY <1>1, <1>2 DEF ExecuteTask, At
<1> QED
  BY <1>3, <1>4, AttemptGoesOn DEF Trying

LEMMA PlanExhaustedKeeps ==
    ASSUME SequentialInv, NEW p \in Processes, PlanExhausted(p)
    PROVE  SequentialInv'
<1>1. CASE Raises(p)
  BY <1>1, RaisesKeeps
<1>2. CASE ~ Raises(p)
  <2>1. PICK k : k = Then(p, "conclude")
    OBVIOUS
  <2>2. /\ k \in ProcessRecords /\ k.at = "conclude" /\ k.next = process[p].next
    BY <2>1, LocalsType DEF Then, ProcessRecords, ProcessStep
  <2>3. /\ process[p].at = "next" /\ process[p].task \notin Tasks /\ Reads(p, k)
        /\ p = 1 \/ \A t \in Tasks : task[t] = "SUCCEEDED"
    BY <1>2, <2>1 DEF PlanExhausted, At, Current
  <2>4. \A t \in Tasks : t < process[p].task
    BY <2>3, LocalsType, FirstTask DEF Tasks
  <2>5. KnowsAnyway(k)
    BY <2>2 DEF KnowsAnyway, InLoop, InAttempt, Trying, OnlyRun
  <2>6. KnowsStill(process[p]) => KnowsStill(k)
    BY <2>2, <2>3, <2>4 DEF KnowsStill, InLoop, InAttempt, Trying
  <2>7. run # Absent
    BY <2>3, RunIsStored DEF Gone
  <2>8. /\ k.at \notin InAttempt /\ k.at \notin OnlyRun /\ k.at \notin OnlyResume
        /\ k.at \in ProcessStep
    BY <2>2 DEF InAttempt, Trying, OnlyRun, OnlyResume, ProcessStep
  <2> QED
    BY <2>2, <2>3, <2>5, <2>6, <2>7, <2>8, ReadsKeeps
<1> QED
  BY <1>1, <1>2

-----------------------------------------------------------------------------
(* Assessment and reconciliation.                                          *)

\* The steps before "check" know little, and nothing that a stored event
\* could make wrong.
Assessing == {"scan_tasks", "scan", "load_run", "load_tasks", "load_events", "check"}

LEMMA AssessmentGoesOn ==
    ASSUME SequentialInv, NEW p \in Processes, NEW k \in ProcessRecords, Reads(p, k),
           p # 1, run # Absent, k.at \in Assessing \cup {"preflight"}, k.next <= sequence + 1,
           k.task = 1 \/ (k.at = "scan" /\ k.task \in Tasks),
           k.at \in {"load_events", "check"} => ViewInOrder(k.view),
           k.at \in {"load_tasks", "load_events", "check"} =>
              \A t \in Tasks : k.report[t] \notin {"MANUAL_REQUIRED", "STILL_RUNNING"},
           k.at = "check" => \E t \in Tasks : k.report[t] # "none"
    PROVE  SequentialInv'
<1>1. KnowsAnyway(k)
  BY FirstTask
  DEF KnowsAnyway, InLoop, InAttempt, Trying, OnlyRun, Assessing
<1>2. KnowsStill(k)
  BY DEF KnowsStill, InLoop, InAttempt, Trying, Assessing
<1>3. k.at \notin InAttempt /\ StepsOf(p, k.at)
  BY DEF InAttempt, Trying, StepsOf, OnlyRun, Assessing
<1>4. external' \in [Tasks -> ExternalState]
  BY StoreType DEF Reads
<1> QED
  BY <1>1, <1>2, <1>3, <1>4, QuietStep DEF ProcessKnows, Becomes, Reads

\* Whoever assesses has called resume_run().
LEMMA AssessorKnows ==
    ASSUME SequentialInv, NEW p \in Processes, process[p].at \in Assessing
    PROVE  /\ p # 1 /\ run # Absent /\ process[p].next <= sequence + 1
           /\ process[p].task \in Tasks
           /\ process[p].at # "scan" => process[p].task = 1
           /\ KnowsAnyway(process[p])
BY LocalsType, RunIsStored
DEF Assessing, OnlyResume, StepsOf, Gone, ProcessKnows, KnowsAnyway, InLoop, InAttempt, Trying

LEMMA AssessRunKeeps ==
    ASSUME SequentialInv, NEW p \in Processes, AssessRun(p)
    PROVE  SequentialInv'
<1>1. CASE Raises(p)
  BY <1>1, RaisesKeeps
<1>2. CASE ~ Raises(p)
  <2>1. PICK k : k = Then(p, "scan_tasks")
    OBVIOUS
  <2>2. /\ k \in ProcessRecords /\ k.at = "scan_tasks" /\ k.task = process[p].task
        /\ k.next = process[p].next
    BY <2>1, LocalsType DEF Then, ProcessRecords, ProcessStep
  <2>3. process[p].at = "idle" /\ p # 1 /\ run # Absent /\ Reads(p, k)
    BY <1>2, <2>1 DEF AssessRun, At
  <2>4. k.task = 1 /\ k.next <= sequence + 1
    BY <2>2, <2>3, LocalsType
    DEF ProcessKnows, KnowsAnyway, InLoop, InAttempt, Trying
  <2> QED
    BY <2>2, <2>3, <2>4, AssessmentGoesOn DEF Assessing
<1> QED
  BY <1>1, <1>2

LEMMA ScanTasksKeeps ==
    ASSUME SequentialInv, NEW p \in Processes, ScanTasks(p)
    PROVE  SequentialInv'
<1>1. PICK k : k = [Then(p, "scan") EXCEPT !.view = task]
  OBVIOUS
<1>2. /\ k \in ProcessRecords /\ k.at = "scan" /\ k.task = process[p].task
      /\ k.next = process[p].next
  BY <1>1, LocalsType, StoreType, ZenonT(30) DEF Then, ProcessRecords, ProcessStep
<1>3. process[p].at = "scan_tasks" /\ Reads(p, k)
  BY <1>1 DEF ScanTasks, At
<1> QED
  BY <1>2, <1>3, AssessorKnows, AssessmentGoesOn DEF Assessing

LEMMA ScanTaskKeeps ==
    ASSUME SequentialInv, NEW p \in Processes, ScanTask(p)
    PROVE  SequentialInv'
<1>1. process[p].at = "scan"
  BY DEF ScanTask, At
<1>2. PICK t \in Tasks : t = process[p].task
  BY <1>1, AssessorKnows DEF Assessing
<1>3. PICK disposition \in DispositionOf(t, process[p].view[t]) :
         Reads(p, [process[p] EXCEPT
                         !.report[t] = disposition,
                         !.seen[t] = IF disposition = "none" THEN 0 ELSE RunningAttempt(t),
                         !.task = IF t = TaskCount THEN 1 ELSE t + 1,
                         !.at = IF t = TaskCount THEN "load_run" ELSE "scan"])
  BY <1>2 DEF ScanTask, Current
<1>4. disposition \in Disposition
  BY StoreType DEF DispositionOf, Confirmed, Disposition, ExternalState
<1>5. PICK seen \in Nat : seen = IF disposition = "none" THEN 0 ELSE RunningAttempt(t)
  BY StoreType DEF RunningAttempt
<1>6. PICK next \in Tasks : next = IF t = TaskCount THEN 1 ELSE t + 1
  BY FirstTask DEF Tasks
<1>7. PICK k : k = [process[p] EXCEPT
                         !.report[t] = disposition, !.seen[t] = seen, !.task = next,
                         !.at = IF t = TaskCount THEN "load_run" ELSE "scan"]
  OBVIOUS
<1>8. /\ k \in ProcessRecords /\ k.next = process[p].next /\ k.task = next
      /\ k.at = IF t = TaskCount THEN "load_run" ELSE "scan"
  <2>1. next \in 1 .. TaskCount + 1
    BY FirstTask DEF Tasks
  <2> QED
    BY <1>4, <1>7, <2>1, LocalsType, ZenonT(30) DEF ProcessRecords, ProcessStep
<1>9. Reads(p, k)
  BY <1>3, <1>5, <1>6, <1>7
<1>10. k.task = 1 \/ (k.at = "scan" /\ k.task \in Tasks)
  BY <1>6, <1>8
<1> QED
  BY <1>1, <1>8, <1>9, <1>10, AssessorKnows, AssessmentGoesOn DEF Assessing

LEMMA LoadRunKeeps ==
    ASSUME SequentialInv, NEW p \in Processes, LoadRun(p)
    PROVE  SequentialInv'
<1>1. CASE Raises(p)
  BY <1>1, RaisesKeeps
<1>2. CASE ~ Raises(p)
  <2>1. PICK k : k = Then(p, "load_tasks")
    OBVIOUS
  <2>2. /\ k \in ProcessRecords /\ k.at = "load_tasks" /\ k.task = process[p].task
        /\ k.next = process[p].next /\ k.report = process[p].report
    BY <2>1, LocalsType DEF Then, ProcessRecords, ProcessStep
  <2>3. /\ process[p].at = "load_run" /\ Reads(p, k)
        /\ Reported(p, "MANUAL_REQUIRED") = {} /\ Reported(p, "STILL_RUNNING") = {}
    BY <1>2, <2>1 DEF LoadRun, At
  <2>4. \A t \in Tasks : k.report[t] \notin {"MANUAL_REQUIRED", "STILL_RUNNING"}
    BY <2>2, <2>3 DEF Reported
  <2> QED
    BY <2>2, <2>3, <2>4, AssessorKnows, AssessmentGoesOn DEF Assessing
<1> QED
  BY <1>1, <1>2

\* The stored tasks are in order at any time, whatever became of the run.
LEMMA StoreIsInOrder ==
    ASSUME SequentialInv
    PROVE  ViewInOrder(task)
<1>1. CASE run \in WorkflowTerminal
  BY <1>1 DEF SequentialInv, RecordsFit, EndIsJustified, ViewInOrder, TaskTerminal
<1>2. CASE run \notin WorkflowTerminal
  BY <1>2 DEF SequentialInv, RecordsFit, TasksInOrder, ViewInOrder
<1> QED
  BY <1>1, <1>2

LEMMA LoadTasksKeeps ==
    ASSUME SequentialInv, NEW p \in Processes, LoadTasks(p)
    PROVE  SequentialInv'
<1>1. PICK k : k = [Then(p, "load_events") EXCEPT !.view = task]
  OBVIOUS
<1>2. /\ k \in ProcessRecords /\ k.at = "load_events" /\ k.task = process[p].task
      /\ k.next = process[p].next /\ k.view = task /\ k.report = process[p].report
  BY <1>1, LocalsType, StoreType, ZenonT(30) DEF Then, ProcessRecords, ProcessStep
<1>3. process[p].at = "load_tasks" /\ Reads(p, k)
  BY <1>1 DEF LoadTasks, At
<1>4. \A t \in Tasks : k.report[t] \notin {"MANUAL_REQUIRED", "STILL_RUNNING"}
  BY <1>2, <1>3, AssessorKnows DEF KnowsAnyway, Assessing
<1> QED
  BY <1>2, <1>3, <1>4, StoreIsInOrder, AssessorKnows, AssessmentGoesOn DEF Assessing

LEMMA LoadEventsKeeps ==
    ASSUME SequentialInv, NEW p \in Processes, LoadEvents(p)
    PROVE  SequentialInv'
<1>1. PICK step : step = IF Reported(p, "none") = Tasks THEN "preflight" ELSE "check"
  OBVIOUS
<1>2. PICK k : k = [Then(p, step) EXCEPT !.next = sequence + 1]
  OBVIOUS
<1>3. /\ k \in ProcessRecords /\ k.at = step /\ k.task = process[p].task
      /\ k.next = sequence + 1 /\ k.view = process[p].view /\ k.report = process[p].report
  <2>1. step \in ProcessStep
    BY <1>1 DEF ProcessStep
  <2>2. PICK next \in Nat : next = sequence + 1
    BY StoreType
  <2> QED
    BY <1>2, <2>1, <2>2, LocalsType DEF Then, ProcessRecords
<1>4. process[p].at = "load_events" /\ Reads(p, k)
  BY <1>1, <1>2 DEF LoadEvents, At
<1>5. /\ ViewInOrder(k.view)
      /\ \A t \in Tasks : k.report[t] \notin {"MANUAL_REQUIRED", "STILL_RUNNING"}
  BY <1>3, <1>4, AssessorKnows DEF KnowsAnyway, Assessing
<1>6. k.at = "check" => \E t \in Tasks : k.report[t] # "none"
  BY <1>1, <1>3 DEF Reported
<1>7. k.next <= sequence + 1
  BY <1>3, StoreType
<1> QED
  BY <1>1, <1>3, <1>4, <1>5, <1>6, <1>7, AssessorKnows, AssessmentGoesOn DEF Assessing

LEMMA CheckReportKeeps ==
    ASSUME SequentialInv, NEW p \in Processes, CheckReport(p)
    PROVE  SequentialInv'
<1>1. CASE Raises(p)
  BY <1>1, RaisesKeeps
<1>2. CASE ~ Raises(p)
  <2>1. PICK k : k = Then(p, "apply")
    OBVIOUS
  <2>2. /\ k \in ProcessRecords /\ k.at = "apply" /\ k.task = process[p].task
        /\ k.next = process[p].next /\ k.view = process[p].view
        /\ k.report = process[p].report
    BY <2>1, LocalsType DEF Then, ProcessRecords, ProcessStep
  <2>3. /\ process[p].at = "check" /\ Reads(p, k)
        /\ \A t \in Tasks \ Reported(p, "none") :
              process[p].view[t] = "RUNNING" /\ RunningAttempt(t) # 0
    BY <1>2, <2>1 DEF CheckReport, At
  <2>4. ASSUME NEW t \in Tasks, k.report[t] # "none"
        PROVE  attempts[t] # << >> /\ Last(t) = "RUNNING" /\ k.view[t] = "RUNNING"
    <3>1. k.view[t] = "RUNNING" /\ RunningAttempts(t) # {}
      BY <2>2, <2>3, <2>4 DEF Reported, RunningAttempt
    <3>2. PICK n \in 1 .. Len(attempts[t]) : attempts[t][n] = "RUNNING"
      BY <3>1 DEF RunningAttempts
    <3>3. n = Len(attempts[t])
      BY <3>2, StoreType DEF SequentialInv, RecordsFit, OnlyTheLastIsOpen
    <3> QED
      BY <3>1, <3>2, <3>3, StoreType DEF Last
  <2>5. p # 1 /\ run # Absent /\ KnowsAnyway(process[p]) /\ process[p].task = 1
    BY <2>3, AssessorKnows DEF Assessing
  <2>6. KnowsAnyway(k)
    BY <2>2, <2>3, <2>5, FirstTask DEF KnowsAnyway, InLoop, InAttempt, Trying, OnlyRun
  <2>7. KnowsStill(k)
    BY <2>2, <2>4 DEF KnowsStill, InLoop, InAttempt, Trying
  <2>8. k.at \notin InAttempt /\ k.at \notin OnlyRun /\ k.at \in ProcessStep
    BY <2>2 DEF InAttempt, Trying, OnlyRun, ProcessStep
  <2> QED
    BY <2>2, <2>3, <2>5, <2>6, <2>7, <2>8, ReadsKeeps
<1> QED
  BY <1>1, <1>2

-----------------------------------------------------------------------------
(* The run begins.                                                         *)

LEMMA CreateRunKeeps ==
    ASSUME SequentialInv, NEW p \in Processes, CreateRun(p)
    PROVE  SequentialInv'
<1>1. PICK k : k = Then(p, "begin")
  OBVIOUS
<1>2. /\ k \in ProcessRecords /\ k.at = "begin" /\ k.task = process[p].task
      /\ k.next = process[p].next /\ k.selected = process[p].selected
  BY <1>1, LocalsType DEF Then, ProcessRecords, ProcessStep
<1>3. /\ process[p].at = "create" /\ process' = [process EXCEPT ![p] = k] /\ run' = "PENDING"
      /\ UNCHANGED <<task, attempts, checkpoints, sequence, endings, closed, external>>
  BY <1>1 DEF CreateRun, At, Becomes
<1>4. run = Absent /\ p = 1
  BY <1>3, LocalsType DEF StepsOf, OnlyRun
<1>5. StoredTypeOK'
  BY <1>3 DEF StoredTypeOK, SequentialInv, SequentialTypeOK, WorkflowRunStatus
<1>6. RecordsFit'
  BY <1>3, <1>4
  DEF SequentialInv, RecordsFit, OnlyTheLastIsOpen, OpenTaskIsRunning, TasksInOrder,
      EndIsJustified, WorkflowTerminal, Last, Absent
<1>7. \A t \in Tasks : task'[t] = "PENDING"
  BY <1>3, <1>4 DEF SequentialInv, Beginning
<1>8. ProcessKnows(k)'
  <2>1. KnowsAnyway(process[p]) /\ k.next <= sequence' + 1
        /\ (Unfenced(process[p]) => KnowsStill(process[p]))
    BY <1>2, <1>3, LocalsType DEF ProcessKnows
  <2>2. KnowsAnyway(k)'
    BY <1>2, <1>3, <2>1, FirstTask
    DEF KnowsAnyway, InLoop, InAttempt, Trying, OnlyRun
  <2>3. Unfenced(k)' => KnowsStill(k)'
    BY <1>2, <1>3, <2>1
    DEF Unfenced, KnowsStill, InLoop, InAttempt, Trying, Executable, WaitsForRetry
  <2> QED
    BY <2>1, <2>2, <2>3 DEF ProcessKnows
<1>9. StepsOf(p, k.at)'
  BY <1>2, <1>3, <1>4 DEF StepsOf, OnlyResume, Absent
<1>10. ASSUME NEW q \in Processes \ {p}
       PROVE  ProcessKnows(process[q])'
  <2>1. process'[q] = process[q] /\ ProcessKnows(process[q])
    BY <1>3 DEF SequentialInv, SequentialTypeOK
  <2> QED
    BY <1>3, <2>1 DEF ProcessKnows, KnowsAnyway, KnowsStill, Unfenced, Last, Executable,
                      WaitsForRetry
<1> QED
  BY <1>2, <1>3, <1>5, <1>6, <1>7, <1>8, <1>9, <1>10, StoreStep
  DEF Gone, InAttempt, Trying

LEMMA BeginRunKeeps ==
    ASSUME SequentialInv, NEW p \in Processes, BeginRun(p)
    PROVE  SequentialInv'
<1>1. PICK k : k = [Then(p, "next") EXCEPT !.next = process[p].next + 1]
  OBVIOUS
<1>2. /\ k \in ProcessRecords /\ k.at = "next" /\ k.task = process[p].task
      /\ k.next = process[p].next + 1 /\ k.selected = process[p].selected
  <2>1. PICK next \in Nat : next = process[p].next + 1
    BY LocalsType
  <2> QED
    BY <1>1, <2>1, LocalsType, ZenonT(30) DEF Then, ProcessRecords, ProcessStep
<1>3. /\ process[p].at = "begin" /\ process' = [process EXCEPT ![p] = k] /\ run' = "RUNNING"
      /\ UNCHANGED <<task, attempts, checkpoints, endings, external>> /\ closed' = FALSE
      /\ Unfenced(process[p]) /\ sequence' = process[p].next + 1 - 1
  BY <1>1 DEF BeginRun, Commits, At, Becomes, EventAccepted, Unfenced, StoresEvents, Then
<1>4. KnowsAnyway(process[p]) /\ KnowsStill(process[p])
  BY <1>3, LocalsType DEF ProcessKnows
<1>5. sequence = 0 /\ sequence' = 1 /\ k.next = 2 /\ k.task = process[p].task
  BY <1>2, <1>3, <1>4, StoreType DEF KnowsAnyway, OnlyRun, Unfenced
<1>6. \A t \in Tasks : task[t] = "PENDING"
  BY <1>5 DEF SequentialInv, Beginning
<1>7. StoredTypeOK'
  <2>1. sequence' \in Nat /\ run' \in WorkflowRunStatus
    BY <1>3, <1>5 DEF WorkflowRunStatus
  <2>3. closed' \in BOOLEAN
    BY <1>3, Zenon
  <2>2. /\ task \in [Tasks -> TaskRunStatus] /\ attempts \in [Tasks -> Seq(StoredAttempt)]
        /\ checkpoints \subseteq Tasks /\ endings \in Nat
    BY DEF SequentialInv, SequentialTypeOK
  <2> QED
    BY <1>3, <2>1, <2>2, <2>3 DEF StoredTypeOK
<1>8. RecordsFit'
  BY <1>3, <1>6
  DEF SequentialInv, RecordsFit, OnlyTheLastIsOpen, OpenTaskIsRunning, TasksInOrder,
      EndIsJustified, WorkflowTerminal, Last
<1>9. KnowsAnyway(k)'
  BY <1>2 DEF KnowsAnyway, InLoop, InAttempt, Trying, OnlyRun
<1>10. KnowsStill(k)'
  BY <1>2, <1>3, <1>4
  DEF KnowsStill, InLoop, InAttempt, Trying, Executable, WaitsForRetry
<1>11. StepsOf(p, k.at)'
  BY <1>2, <1>3 DEF StepsOf, OnlyResume, OnlyRun, Absent
<1>12. \A t \in Tasks : \A n \in 1 .. Len(attempts[t]) : AttemptKept(t, n)
  BY <1>3 DEF AttemptKept
<1>13. ProcessKnows(k)' /\ sequence' > sequence
  BY <1>5, <1>9, <1>10 DEF ProcessKnows
<1>14. process[p].at \notin Gone \cup {"idle"} /\ k.at \notin InAttempt
  BY <1>2, <1>3 DEF Gone, InAttempt, Trying
<1> QED
  BY <1>2, <1>3, <1>7, <1>8, <1>11, <1>12, <1>13, <1>14, EventStep

-----------------------------------------------------------------------------
(* A unit of work about one task.                                          *)

\* Whoever is in the loop and not fenced works on the first task that has not
\* succeeded, behind which nothing happened.
LEMMA WorkIsInOrder ==
    ASSUME SequentialInv, NEW t \in Tasks, task[t] \in {"PENDING", "READY", "RUNNING"}
    PROVE  /\ run \notin WorkflowTerminal
           /\ task[t] # "PENDING" =>
                 /\ \A u \in Tasks : u < t => task[u] = "SUCCEEDED"
                 /\ \A u \in Tasks : u > t => task[u] = "PENDING"
<1>1. run \notin WorkflowTerminal
  BY DEF SequentialInv, RecordsFit, EndIsJustified, TaskTerminal
<1> QED
  BY <1>1 DEF SequentialInv, RecordsFit, TasksInOrder

\* One event about one task: what is left to show.
LEMMA CommitKeeps ==
    ASSUME SequentialInv, NEW p \in Processes, NEW k \in ProcessRecords,
           process' = [process EXCEPT ![p] = k], UNCHANGED <<run, endings, external>>,
           EventAccepted(p), sequence' = process[p].next + 1 - 1,
           k.next = process[p].next + 1, closed' = FALSE,
           process[p].at \in {"mark", "start", "succeed", "retry"},
           k.at \notin {"prepare", "create"} \cup (IF p = 1 THEN OnlyResume ELSE OnlyRun),
           task' \in [Tasks -> TaskRunStatus], attempts' \in [Tasks -> Seq(StoredAttempt)],
           checkpoints' \subseteq Tasks, RecordsFit', KnowsAnyway(k)', KnowsStill(k)',
           \A t \in Tasks : \A n \in 1 .. Len(attempts[t]) :
              OwnAttempt(p, t, n) \/ AttemptKept(t, n),
           k.at \in InAttempt => \/ SameAttempt(k, process[p])
                                 \/ k.num > Len(attempts[k.task])
    PROVE  SequentialInv'
<1>1. run # Absent /\ process[p].at \notin Gone \cup {"idle"}
  BY RunIsStored DEF Gone
<1>2. sequence' \in Nat /\ sequence' > sequence /\ k.next <= sequence' + 1
  BY LocalsType, StoreType DEF EventAccepted
<1>3. StoredTypeOK'
  BY <1>1, <1>2 DEF StoredTypeOK, SequentialInv, SequentialTypeOK
<1>4. StepsOf(p, k.at)'
  BY <1>1 DEF StepsOf
<1>5. ProcessKnows(k)'
  BY <1>2 DEF ProcessKnows
<1> QED
  BY <1>1, <1>2, <1>3, <1>4, <1>5, EventStep

LEMMA AttemptSaved ==
    ASSUME attempts \in [Tasks -> Seq(StoredAttempt)], NEW t \in Tasks,
           NEW n \in 1 .. Len(attempts[t]), NEW status \in StoredAttempt,
           SavesAttempt(t, n, status)
    PROVE  /\ attempts' \in [Tasks -> Seq(StoredAttempt)]
           /\ Len(attempts'[t]) = Len(attempts[t]) /\ attempts'[t][n] = status
           /\ \A i \in 1 .. Len(attempts[t]) : i # n => attempts'[t][i] = attempts[t][i]
           /\ \A u \in Tasks \ {t} : attempts'[u] = attempts[u]
<1>1. PICK old \in Seq(StoredAttempt) : old = attempts[t]
  OBVIOUS
<1>2. attempts' = [attempts EXCEPT ![t] = [old EXCEPT ![n] = status]]
  BY <1>1 DEF SavesAttempt
<1>3. /\ [old EXCEPT ![n] = status] \in Seq(StoredAttempt)
      /\ Len([old EXCEPT ![n] = status]) = Len(old)
      /\ \A i \in 1 .. Len(old) :
            [old EXCEPT ![n] = status][i] = IF i = n THEN status ELSE old[i]
  BY <1>1
<1> QED
  BY <1>1, <1>2, <1>3

LEMMA AttemptAdded ==
    ASSUME attempts \in [Tasks -> Seq(StoredAttempt)], NEW t \in Tasks, NEW n \in Nat,
           n = Len(attempts[t]) + 1, AddsAttempt(t, n)
    PROVE  /\ attempts' \in [Tasks -> Seq(StoredAttempt)]
           /\ Len(attempts'[t]) = n /\ attempts'[t][n] = "RUNNING" /\ attempts'[t] # << >>
           /\ \A i \in 1 .. Len(attempts[t]) : attempts'[t][i] = attempts[t][i]
           /\ \A u \in Tasks \ {t} : attempts'[u] = attempts[u]
<1>1. PICK old \in Seq(StoredAttempt) : old = attempts[t]
  OBVIOUS
<1>2. attempts' = [attempts EXCEPT ![t] = Append(old, "RUNNING")]
  <2>1. attempts' = [attempts EXCEPT ![t] =
                       IF n > Len(old) THEN Append(old, "RUNNING")
                       ELSE [old EXCEPT ![n] = "RUNNING"]]
    BY <1>1 DEF AddsAttempt
  <2>2. n > Len(old)
    BY <1>1
  <2> QED
    BY <2>1, <2>2
<1>3. "RUNNING" \in StoredAttempt
  BY DEF StoredAttempt, TaskAttemptStatus
<1>4. /\ Append(old, "RUNNING") \in Seq(StoredAttempt)
      /\ Len(Append(old, "RUNNING")) = Len(old) + 1
      /\ \A i \in 1 .. Len(old) : Append(old, "RUNNING")[i] = old[i]
      /\ Append(old, "RUNNING")[Len(old) + 1] = "RUNNING"
  BY <1>3
<1>5. attempts'[t] = Append(old, "RUNNING")
  BY <1>2
<1>6. attempts'[t] # << >>
  BY <1>1, <1>4, <1>5
<1> QED
  BY <1>1, <1>2, <1>3, <1>4, <1>5, <1>6

\* The attempt of a process that is not fenced is the last one, it is RUNNING,
\* and so is its task.
LEMMA OwnAttemptIsOpen ==
    ASSUME SequentialInv, NEW p \in Processes, EventAccepted(p),
           process[p].at \in {"succeed", "retry", "fail"},
           NEW t, t = process[p].task, NEW n, n = process[p].num
    PROVE  /\ t \in Tasks /\ n \in 1 .. Len(attempts[t]) /\ n = Len(attempts[t])
           /\ attempts[t] # << >> /\ attempts[t][n] = "RUNNING" /\ task[t] = "RUNNING"
           /\ run \notin WorkflowTerminal /\ process[p].view = task
           /\ \A u \in Tasks : u < t => task[u] = "SUCCEEDED"
           /\ \A u \in Tasks : u > t => task[u] = "PENDING"
           /\ \A u \in Executable : u >= t => u \in process[p].selected
           /\ t \in process[p].selected
<1>1. KnowsAnyway(process[p]) /\ KnowsStill(process[p])
  BY LocalsType DEF ProcessKnows, EventAccepted, Unfenced
<1>2. /\ t \in Tasks /\ n \in 1 .. Len(attempts[t]) /\ task[t] = "RUNNING"
      /\ attempts[t][n] # "RETRY" /\ process[p].view = task /\ t \in process[p].selected
      /\ \A u \in Executable : u >= t => u \in process[p].selected
      /\ attempts[t][n] = "RUNNING" \/ task[t] \in TaskTerminal
  BY <1>1 DEF KnowsAnyway, KnowsStill, InLoop, InAttempt, Trying
<1>3. n = Len(attempts[t]) /\ attempts[t] # << >>
  BY <1>2, StoreType DEF SequentialInv, RecordsFit, OnlyTheLastIsOpen
<1> QED
  BY <1>2, <1>3, WorkIsInOrder DEF TaskTerminal

LEMMA MarkReadyKeeps ==
    ASSUME SequentialInv, NEW p \in Processes, MarkReady(p)
    PROVE  SequentialInv'
<1>1. CASE Fenced(p)
  BY <1>1, RaisesKeeps DEF Fenced
<1>2. CASE ~ Fenced(p)
  <2>1. PICK k : k = [Then(p, "start") EXCEPT !.next = process[p].next + 1]
    OBVIOUS
  <2>2. /\ k \in ProcessRecords /\ k.at = "start" /\ k.task = process[p].task
        /\ k.next = process[p].next + 1 /\ k.selected = process[p].selected
        /\ k.num = process[p].num
    <3>1. PICK next \in Nat : next = process[p].next + 1
      BY LocalsType
    <3> QED
      BY <2>1, <3>1, LocalsType, ZenonT(30) DEF Then, ProcessRecords, ProcessStep
  <2>3. /\ process[p].at = "mark" /\ process' = [process EXCEPT ![p] = k]
        /\ UNCHANGED <<run, attempts, checkpoints, endings, external>> /\ closed' = FALSE
        /\ EventAccepted(p) /\ sequence' = process[p].next + 1 - 1
        /\ task' = [task EXCEPT ![k.task] = "READY"]
    BY <1>2, <2>1, <2>2
    DEF MarkReady, Commits, At, Becomes, StoresEvents, Then, SavesTask, Current
  <2>4. KnowsAnyway(process[p]) /\ KnowsStill(process[p])
    BY <2>3, LocalsType DEF ProcessKnows, EventAccepted, Unfenced
  <2>5. /\ k.task \in Tasks /\ task[k.task] = "PENDING" /\ k.num = 1 /\ k.task \in k.selected
        /\ \A u \in Tasks : u < k.task => task[u] = "SUCCEEDED"
        /\ \A u \in Executable : u >= k.task => u \in k.selected
    BY <2>2, <2>3, <2>4 DEF KnowsAnyway, KnowsStill, InLoop
  <2>6. /\ task' \in [Tasks -> TaskRunStatus] /\ task'[k.task] = "READY"
        /\ \A u \in Tasks \ {k.task} : task'[u] = task[u]
        /\ run \notin WorkflowTerminal /\ attempts[k.task] = << >>
    BY <2>3, <2>5, StoreType, WorkIsInOrder
    DEF TaskRunStatus, SequentialInv, RecordsFit, OpenTaskIsRunning
  <2>7. RecordsFit'
    <3>1. OnlyTheLastIsOpen' /\ EndIsJustified'
      BY <2>3, <2>6 DEF SequentialInv, RecordsFit, OnlyTheLastIsOpen, EndIsJustified
    <3>2. OpenTaskIsRunning'
      BY <2>3, <2>5, <2>6 DEF SequentialInv, RecordsFit, OpenTaskIsRunning, Last
    <3>3. TasksInOrder'
      BY <2>3, <2>5, <2>6 DEF SequentialInv, RecordsFit, TasksInOrder, Tasks
    <3> QED
      BY <3>1, <3>2, <3>3 DEF RecordsFit
  <2>8. KnowsAnyway(k)'
    BY <2>2, <2>5 DEF KnowsAnyway, InLoop, InAttempt, Trying, OnlyRun
  <2>9. KnowsStill(k)'
    BY <2>2, <2>3, <2>5, <2>6
    DEF KnowsStill, InLoop, InAttempt, Trying, Executable, WaitsForRetry, Tasks
  <2>10. \A t \in Tasks : \A n \in 1 .. Len(attempts[t]) : AttemptKept(t, n)
    BY <2>3, <2>6 DEF AttemptKept, TaskTerminal
  <2>11. /\ k.at \notin {"prepare", "create"} \cup (IF p = 1 THEN OnlyResume ELSE OnlyRun)
         /\ k.at \notin InAttempt
    BY <2>2 DEF OnlyResume, OnlyRun, InAttempt, Trying
  <2>12. checkpoints' \subseteq Tasks /\ attempts' \in [Tasks -> Seq(StoredAttempt)]
    BY <2>3 DEF SequentialInv, SequentialTypeOK
  <2> QED
    BY <2>2, <2>3, <2>6, <2>7, <2>8, <2>9, <2>10, <2>11, <2>12, CommitKeeps
<1> QED
  BY <1>1, <1>2

\* A new attempt follows one that is to be retried, or is the first; its task
\* is, or becomes, RUNNING.
LEMMA NewAttemptFits ==
    ASSUME SequentialInv, NEW t \in Tasks, NEW n \in Nat, n = Len(attempts[t]) + 1,
           AddsAttempt(t, n), attempts[t] = << >> \/ Last(t) = "RETRY",
           task[t] \in {"READY", "RUNNING"}, task' = [task EXCEPT ![t] = "RUNNING"],
           UNCHANGED run, sequence' >= sequence, sequence' \in Nat
    PROVE  /\ task' \in [Tasks -> TaskRunStatus]
           /\ attempts' \in [Tasks -> Seq(StoredAttempt)]
           /\ RecordsFit'
           /\ Len(attempts'[t]) = n /\ attempts'[t][n] = "RUNNING"
           /\ \A u \in Tasks \ {t} : attempts'[u] = attempts[u]
           /\ \A u \in Tasks : \A i \in 1 .. Len(attempts[u]) : AttemptKept(u, i)
           /\ Executable' \subseteq Executable
<1>1. /\ task' \in [Tasks -> TaskRunStatus] /\ task'[t] = "RUNNING"
      /\ \A u \in Tasks \ {t} : task'[u] = task[u]
  BY StoreType DEF TaskRunStatus
<1>2. /\ attempts' \in [Tasks -> Seq(StoredAttempt)]
      /\ Len(attempts'[t]) = n /\ attempts'[t][n] = "RUNNING" /\ attempts'[t] # << >>
      /\ \A i \in 1 .. Len(attempts[t]) : attempts'[t][i] = attempts[t][i]
      /\ \A u \in Tasks \ {t} : attempts'[u] = attempts[u]
  BY StoreType, AttemptAdded
<1>3. run \notin WorkflowTerminal
  BY WorkIsInOrder
<1>4. OnlyTheLastIsOpen'
  <2>1. \A i \in 1 .. n - 1 : attempts[t][i] = "RETRY"
    BY StoreType DEF SequentialInv, RecordsFit, OnlyTheLastIsOpen, Last
  <2>2. n - 1 = Len(attempts[t]) /\ n - 1 = Len(attempts'[t]) - 1
    BY <1>2, StoreType
  <2>3. \A i \in 1 .. n - 1 : attempts'[t][i] = "RETRY"
    BY <1>2, <2>1, <2>2
  <2> QED
    BY <1>2, <2>2, <2>3 DEF SequentialInv, RecordsFit, OnlyTheLastIsOpen
<1>5. OpenTaskIsRunning'
  BY <1>1, <1>2 DEF SequentialInv, RecordsFit, OpenTaskIsRunning, Last
<1>6. TasksInOrder'
  <2>1. \A u \in Tasks : u < t => task[u] = "SUCCEEDED"
    BY WorkIsInOrder
  <2> QED
    BY <1>1, <1>3, <2>1 DEF SequentialInv, RecordsFit, TasksInOrder, Tasks
<1>7. EndIsJustified'
  BY <1>3 DEF EndIsJustified
<1>8. ASSUME NEW u \in Tasks, NEW i \in 1 .. Len(attempts[u])
      PROVE  AttemptKept(u, i)
  <2>1. i \in 1 .. Len(attempts'[u]) /\ attempts'[u][i] = attempts[u][i]
    <3>1. CASE u = t
      BY <1>2, <3>1, StoreType
    <3>2. CASE u # t
      BY <1>2, <3>2
    <3> QED
      BY <3>1, <3>2
  <2>2. task[u] \in TaskTerminal => task'[u] \in TaskTerminal
    BY <1>1 DEF TaskTerminal
  <2> QED
    BY <2>1, <2>2 DEF AttemptKept
<1>9. Executable' \subseteq Executable
  <2>1. t \notin Executable'
    BY <1>1, <1>2 DEF Executable, WaitsForRetry
  <2> QED
    BY <1>1, <1>2, <2>1 DEF Executable, WaitsForRetry
<1> QED
  BY <1>1, <1>2, <1>4, <1>5, <1>6, <1>7, <1>8, <1>9 DEF RecordsFit

LEMMA StartTaskKeeps ==
    ASSUME SequentialInv, NEW p \in Processes, StartTask(p)
    PROVE  SequentialInv'
<1>1. CASE Raises(p)
  BY <1>1, RaisesKeeps
<1>2. CASE ~ Raises(p)
  <2>1. PICK k : k = [Then(p, "load_siblings") EXCEPT !.next = process[p].next + 1]
    OBVIOUS
  <2>2. /\ k \in ProcessRecords /\ k.at = "load_siblings" /\ k.task = process[p].task
        /\ k.next = process[p].next + 1 /\ k.selected = process[p].selected
        /\ k.num = process[p].num /\ k.num \in Nat
    <3>1. PICK next \in Nat : next = process[p].next + 1
      BY LocalsType
    <3> QED
      BY <2>1, <3>1, LocalsType, ZenonT(30) DEF Then, ProcessRecords, ProcessStep
  <2>3. /\ process[p].at = "start" /\ process' = [process EXCEPT ![p] = k]
        /\ UNCHANGED <<run, checkpoints, endings, external>> /\ closed' = FALSE
        /\ EventAccepted(p) /\ sequence' = process[p].next + 1 - 1
        /\ task' = [task EXCEPT ![k.task] = "RUNNING"]
        /\ AttemptIsNew(k.task, k.num) /\ AddsAttempt(k.task, k.num)
    BY <1>2, <2>1, <2>2
    DEF StartTask, Commits, At, Becomes, StoresEvents, Then, SavesTask, Current
  <2>4. KnowsAnyway(process[p]) /\ KnowsStill(process[p])
    BY <2>3, LocalsType DEF ProcessKnows, EventAccepted, Unfenced
  <2>5. /\ k.task \in Tasks /\ k.task \in k.selected
        /\ \A u \in Tasks : u < k.task => task[u] = "SUCCEEDED"
        /\ \A u \in Executable : u >= k.task => u \in k.selected
        /\ \/ task[k.task] = "READY" /\ k.num = 1
           \/ /\ task[k.task] = "RUNNING"
              /\ k.num - 1 \in 1 .. Len(attempts[k.task])
              /\ attempts[k.task][k.num - 1] = "RETRY"
    BY <2>2, <2>3, <2>4 DEF KnowsAnyway, KnowsStill, InLoop
  <2>6. k.num = Len(attempts[k.task]) + 1 /\ (attempts[k.task] = << >> \/ Last(k.task) = "RETRY")
    <3>1. CASE task[k.task] = "READY" /\ k.num = 1
      BY <2>5, <3>1 DEF SequentialInv, RecordsFit, OpenTaskIsRunning
    <3>2. CASE /\ k.num - 1 \in 1 .. Len(attempts[k.task])
               /\ attempts[k.task][k.num - 1] = "RETRY"
      <4>1. k.num - 1 = Len(attempts[k.task])
        BY <2>2, <2>3, <2>5, <3>2, StoreType DEF AttemptIsNew
      <4>2. k.num = Len(attempts[k.task]) + 1
        <5>1. PICK last \in Nat : last = Len(attempts[k.task])
          BY <2>5, StoreType
        <5>2. PICK num \in Nat : num = k.num
          BY <2>2
        <5>3. num - 1 = last
          BY <4>1, <5>1, <5>2
        <5>4. num = last + 1
          BY ONLY <5>1, <5>2, <5>3
        <5> QED
          BY <5>1, <5>2, <5>4
      <4> QED
        BY <3>2, <4>1, <4>2 DEF Last
    <3> QED
      BY <2>5, <3>1, <3>2
  <2>7. sequence' \in Nat /\ sequence' >= sequence
    BY <2>3, LocalsType, StoreType DEF EventAccepted
  <2>8. /\ task' \in [Tasks -> TaskRunStatus] /\ attempts' \in [Tasks -> Seq(StoredAttempt)]
        /\ RecordsFit' /\ Len(attempts'[k.task]) = k.num /\ attempts'[k.task][k.num] = "RUNNING"
        /\ \A u \in Tasks : \A i \in 1 .. Len(attempts[u]) : AttemptKept(u, i)
        /\ Executable' \subseteq Executable
    BY <2>2, <2>3, <2>5, <2>6, <2>7, NewAttemptFits
  <2>9. /\ task'[k.task] = "RUNNING" /\ \A u \in Tasks \ {k.task} : task'[u] = task[u]
        /\ k.num \in 1 .. Len(attempts'[k.task]) /\ k.num > Len(attempts[k.task])
    BY <2>2, <2>3, <2>5, <2>6, <2>8, StoreType
  <2>10. KnowsAnyway(k)'
    BY <2>2, <2>5, <2>8, <2>9 DEF KnowsAnyway, InLoop, InAttempt, Trying, OnlyRun
  <2>11. KnowsStill(k)'
    BY <2>2, <2>5, <2>8, <2>9 DEF KnowsStill, InLoop, InAttempt, Trying, Tasks
  <2>12. k.at \notin {"prepare", "create"} \cup (IF p = 1 THEN OnlyResume ELSE OnlyRun)
    BY <2>2 DEF OnlyResume, OnlyRun
  <2>13. checkpoints' \subseteq Tasks
    BY <2>3 DEF SequentialInv, SequentialTypeOK
  <2> QED
    BY <2>2, <2>3, <2>8, <2>9, <2>10, <2>11, <2>12, <2>13, CommitKeeps
<1> QED
  BY <1>1, <1>2

\* Only the status of the last attempt of t changes.
LEMMA SavedAttemptFits ==
    ASSUME SequentialInv, NEW t \in Tasks, NEW n, n = Len(attempts[t]), attempts[t] # << >>,
           NEW status \in StoredAttempt, SavesAttempt(t, n, status)
    PROVE  /\ attempts' \in [Tasks -> Seq(StoredAttempt)]
           /\ n \in 1 .. Len(attempts'[t]) /\ Len(attempts'[t]) = n /\ attempts'[t] # << >>
           /\ attempts'[t][n] = status
           /\ \A i \in 1 .. n - 1 : attempts'[t][i] = attempts[t][i]
           /\ \A u \in Tasks \ {t} : attempts'[u] = attempts[u]
           /\ OnlyTheLastIsOpen'
<1>1. n \in 1 .. Len(attempts[t])
  BY StoreType
<1>2. /\ attempts' \in [Tasks -> Seq(StoredAttempt)]
      /\ Len(attempts'[t]) = n /\ attempts'[t][n] = status
      /\ \A i \in 1 .. n : i # n => attempts'[t][i] = attempts[t][i]
      /\ \A u \in Tasks \ {t} : attempts'[u] = attempts[u]
  BY <1>1, StoreType, AttemptSaved
<1>3. \A i \in 1 .. n - 1 : attempts'[t][i] = attempts[t][i]
  BY <1>1, <1>2, StoreType
<1>4. attempts'[t] # << >>
  BY <1>1, <1>2
<1>5. OnlyTheLastIsOpen'
  BY <1>2, <1>3 DEF SequentialInv, RecordsFit, OnlyTheLastIsOpen
<1> QED
  BY <1>1, <1>2, <1>3, <1>4, <1>5

\* What p does to its own attempt, which is open, others do not notice, and
\* they notice no attempt that ends with its task.
LEMMA OthersAttemptsAreKept ==
    ASSUME SequentialInv, NEW p \in Processes, NEW t \in Tasks,
           NEW n, n = Len(attempts[t]), attempts[t] # << >>,
           NEW status \in StoredAttempt, SavesAttempt(t, n, status),
           \/ OwnAttempt(p, t, n)
           \/ attempts[t][n] = "RUNNING" /\ status # "RETRY" /\ task'[t] \in TaskTerminal,
           \A u \in Tasks : task[u] \in TaskTerminal => task'[u] = task[u]
    PROVE  \A u \in Tasks : \A i \in 1 .. Len(attempts[u]) :
              OwnAttempt(p, u, i) \/ AttemptKept(u, i)
<1>1. /\ Len(attempts'[t]) = n /\ n \in 1 .. Len(attempts'[t]) /\ attempts'[t][n] = status
      /\ \A i \in 1 .. n - 1 : attempts'[t][i] = attempts[t][i]
      /\ \A u \in Tasks \ {t} : attempts'[u] = attempts[u]
  BY SavedAttemptFits
<1> TAKE u \in Tasks
<1> TAKE i \in 1 .. Len(attempts[u])
<1>3. CASE u # t
  BY <1>1, <1>3 DEF AttemptKept
<1>4. CASE u = t /\ i = n
  BY <1>1, <1>4 DEF AttemptKept
<1>5. CASE u = t /\ i # n
  <2>1. i \in 1 .. n - 1
    BY <1>5, StoreType
  <2>2. attempts'[u][i] = attempts[u][i] /\ i \in 1 .. Len(attempts'[u])
    BY <1>1, <1>5, <2>1
  <2> QED
    BY <2>2 DEF AttemptKept
<1> QED
  BY <1>3, <1>4, <1>5

LEMMA SucceedTaskKeeps ==
    ASSUME SequentialInv, NEW p \in Processes, SucceedTask(p)
    PROVE  SequentialInv'
<1>1. CASE Fenced(p)
  BY <1>1, RaisesKeeps DEF Fenced
<1>2. CASE ~ Fenced(p)
  <2>1. PICK k : k = [NextTask(p) EXCEPT !.next = process[p].next + 1]
    OBVIOUS
  <2>2. PICK t, n : t = process[p].task /\ n = process[p].num
    OBVIOUS
  <2>3. /\ process[p].at = "succeed" /\ process' = [process EXCEPT ![p] = k]
        /\ UNCHANGED <<run, endings, external>> /\ closed' = FALSE
        /\ EventAccepted(p) /\ sequence' = process[p].next + 1 - 1
        /\ task' = [task EXCEPT ![t] = "SUCCEEDED"] /\ SavesAttempt(t, n, "SUCCEEDED")
        /\ checkpoints' \in {checkpoints, checkpoints \cup {t}}
    BY <1>2, <2>1, <2>2
    DEF SucceedTask, Commits, At, Becomes, StoresEvents, SavesTask, Current, NextTask, Then
  <2>4. /\ t \in Tasks /\ n \in 1 .. Len(attempts[t]) /\ n = Len(attempts[t])
        /\ attempts[t] # << >> /\ task[t] = "RUNNING" /\ run \notin WorkflowTerminal
        /\ \A u \in Tasks : u < t => task[u] = "SUCCEEDED"
        /\ \A u \in Tasks : u > t => task[u] = "PENDING"
        /\ \A u \in Executable : u >= t => u \in process[p].selected
    BY <2>2, <2>3, OwnAttemptIsOpen
  <2>5. /\ k \in ProcessRecords /\ k.at = "next" /\ k.task = t + 1
        /\ k.next = process[p].next + 1 /\ k.selected = process[p].selected
    <3>1. PICK next \in Nat : next = process[p].next + 1
      BY LocalsType
    <3>2. PICK following \in 1 .. TaskCount + 1 : following = t + 1
      BY <2>4, FirstTask DEF Tasks
    <3>3. PICK outputs \in SUBSET Tasks : outputs = process[p].outputs \cup {t}
      BY <2>4, LocalsType
    <3>4. NoViewOf \in [Tasks -> TaskRunStatus]
      BY DEF NoViewOf, TaskRunStatus
    <3>5. PICK j : j = Then(p, "next")
      OBVIOUS
    <3>6. /\ j \in ProcessRecords /\ j.at = "next" /\ j.task = t
          /\ j.outputs = process[p].outputs /\ j.selected = process[p].selected
      BY <2>2, <3>5, LocalsType DEF Then, ProcessRecords, ProcessStep
    <3>7. k = [j EXCEPT !.task = following, !.outputs = outputs, !.view = NoViewOf,
                        !.next = next]
      BY <2>1, <2>2, <3>1, <3>2, <3>3, <3>5, <3>6 DEF NextTask, Current, ProcessRecords
    <3> QED
      BY <3>1, <3>2, <3>3, <3>4, <3>6, <3>7 DEF ProcessRecords
  <2>6. "SUCCEEDED" \in StoredAttempt /\ "SUCCEEDED" \in TaskRunStatus
    BY DEF StoredAttempt, TaskAttemptStatus, TaskRunStatus
  <2>7. /\ attempts' \in [Tasks -> Seq(StoredAttempt)] /\ Len(attempts'[t]) = n
        /\ attempts'[t] # << >> /\ attempts'[t][n] = "SUCCEEDED"
        /\ \A u \in Tasks \ {t} : attempts'[u] = attempts[u]
        /\ OnlyTheLastIsOpen'
    BY <2>3, <2>4, <2>6, SavedAttemptFits
  <2>8. /\ task' \in [Tasks -> TaskRunStatus] /\ task'[t] = "SUCCEEDED"
        /\ \A u \in Tasks \ {t} : task'[u] = task[u]
    BY <2>3, <2>4, <2>6, StoreType
  <2>9. RecordsFit'
    <3>1. EndIsJustified'
      BY <2>3, <2>4 DEF EndIsJustified
    <3>2. OpenTaskIsRunning'
      BY <2>7, <2>8 DEF SequentialInv, RecordsFit, OpenTaskIsRunning, Last
    <3>3. TasksInOrder'
      BY <2>3, <2>4, <2>8 DEF SequentialInv, RecordsFit, TasksInOrder, Tasks
    <3> QED
      BY <2>7, <3>1, <3>2, <3>3 DEF RecordsFit
  <2>10. Executable' \subseteq Executable
    BY <2>7, <2>8 DEF Executable, WaitsForRetry
  <2>11. KnowsAnyway(k)' /\ KnowsStill(k)'
    <3>1. \A u \in Tasks : u < t + 1 => task'[u] = "SUCCEEDED"
      BY <2>4, <2>8 DEF Tasks
    <3>2. \A u \in Executable' : u >= t + 1 => u \in k.selected
      BY <2>4, <2>5, <2>10 DEF Tasks, Executable
    <3> QED
      BY <2>5, <3>1, <3>2 DEF KnowsAnyway, KnowsStill, InLoop, InAttempt, Trying, OnlyRun
  <2>12. process[p].at \in InAttempt
    BY <2>3 DEF InAttempt, Trying
  <2>13. \A u \in Tasks : \A i \in 1 .. Len(attempts[u]) :
            OwnAttempt(p, u, i) \/ AttemptKept(u, i)
    BY <2>2, <2>3, <2>4, <2>6, <2>8, <2>12, OthersAttemptsAreKept DEF TaskTerminal, OwnAttempt
  <2>14. /\ k.at \notin {"prepare", "create"} \cup (IF p = 1 THEN OnlyResume ELSE OnlyRun)
         /\ k.at \notin InAttempt
    BY <2>5 DEF OnlyResume, OnlyRun, InAttempt, Trying
  <2>15. checkpoints' \subseteq Tasks
    BY <2>3, <2>4 DEF SequentialInv, SequentialTypeOK
  <2> QED
    BY <2>3, <2>5, <2>7, <2>8, <2>9, <2>11, <2>13, <2>14, <2>15, CommitKeeps
<1> QED
  BY <1>1, <1>2

LEMMA ScheduleRetryKeeps ==
    ASSUME SequentialInv, NEW p \in Processes, ScheduleRetry(p)
    PROVE  SequentialInv'
<1>1. CASE Fenced(p)
  BY <1>1, RaisesKeeps DEF Fenced
<1>2. CASE ~ Fenced(p)
  <2>1. PICK k : k = [Then(p, "again") EXCEPT !.next = process[p].next + 1]
    OBVIOUS
  <2>2. PICK t, n : t = process[p].task /\ n = process[p].num
    OBVIOUS
  <2>3. /\ process[p].at = "retry" /\ process' = [process EXCEPT ![p] = k]
        /\ UNCHANGED <<run, task, checkpoints, endings, external>> /\ closed' = FALSE
        /\ EventAccepted(p) /\ sequence' = process[p].next + 1 - 1
        /\ SavesAttempt(t, n, "RETRY")
    BY <1>2, <2>1, <2>2
    DEF ScheduleRetry, Commits, At, Becomes, StoresEvents, Current, Then
  <2>4. /\ t \in Tasks /\ n \in 1 .. Len(attempts[t]) /\ n = Len(attempts[t])
        /\ attempts[t] # << >> /\ task[t] = "RUNNING" /\ run \notin WorkflowTerminal
        /\ process[p].view = task
        /\ \A u \in Tasks : u < t => task[u] = "SUCCEEDED"
        /\ \A u \in Executable : u >= t => u \in process[p].selected
        /\ t \in process[p].selected
    BY <2>2, <2>3, OwnAttemptIsOpen
  <2>5. /\ k \in ProcessRecords /\ k.at = "again" /\ k.task = t /\ k.num = n
        /\ k.next = process[p].next + 1 /\ k.selected = process[p].selected
        /\ k.view = process[p].view
    <3>1. PICK next \in Nat : next = process[p].next + 1
      BY LocalsType
    <3> QED
      BY <2>1, <2>2, <3>1, LocalsType, ZenonT(30) DEF Then, ProcessRecords, ProcessStep
  <2>6. "RETRY" \in StoredAttempt
    BY DEF StoredAttempt
  <2>7. /\ attempts' \in [Tasks -> Seq(StoredAttempt)] /\ Len(attempts'[t]) = n
        /\ n \in 1 .. Len(attempts'[t]) /\ attempts'[t] # << >> /\ attempts'[t][n] = "RETRY"
        /\ \A u \in Tasks \ {t} : attempts'[u] = attempts[u]
        /\ OnlyTheLastIsOpen'
    BY <2>3, <2>4, <2>6, SavedAttemptFits
  <2>8. RecordsFit'
    <3>1. EndIsJustified' /\ TasksInOrder'
      BY <2>3, <2>4 DEF EndIsJustified, SequentialInv, RecordsFit, TasksInOrder
    <3>2. OpenTaskIsRunning'
      BY <2>3, <2>4, <2>7 DEF SequentialInv, RecordsFit, OpenTaskIsRunning, Last
    <3> QED
      BY <2>7, <3>1, <3>2 DEF RecordsFit
  <2>9. Executable' \subseteq Executable \cup {t}
    BY <2>3, <2>7 DEF Executable, WaitsForRetry
  <2>10. KnowsAnyway(k)'
    BY <2>4, <2>5, <2>7 DEF KnowsAnyway, InLoop, InAttempt, Trying, OnlyRun
  <2>11. KnowsStill(k)'
    BY <2>3, <2>4, <2>5, <2>9 DEF KnowsStill, InLoop, InAttempt, Trying
  <2>12. process[p].at \in InAttempt
    BY <2>3 DEF InAttempt, Trying
  <2>13. \A u \in Tasks : \A i \in 1 .. Len(attempts[u]) :
            OwnAttempt(p, u, i) \/ AttemptKept(u, i)
    BY <2>2, <2>3, <2>4, <2>6, <2>12, OthersAttemptsAreKept DEF OwnAttempt
  <2>14. /\ k.at \notin {"prepare", "create"} \cup (IF p = 1 THEN OnlyResume ELSE OnlyRun)
         /\ SameAttempt(k, process[p])
    BY <2>2, <2>5, <2>12 DEF OnlyResume, OnlyRun, InAttempt, SameAttempt
  <2>15. checkpoints' \subseteq Tasks /\ task' \in [Tasks -> TaskRunStatus]
    BY <2>3 DEF SequentialInv, SequentialTypeOK
  <2> QED
    BY <2>3, <2>5, <2>7, <2>8, <2>10, <2>11, <2>13, <2>14, <2>15, CommitKeeps
<1> QED
  BY <1>1, <1>2

\* The new attempt is stored without an event: nobody is fenced by it, but
\* nobody has looked at it either.
LEMMA TryAgainKeeps ==
    ASSUME SequentialInv, NEW p \in Processes, TryAgain(p)
    PROVE  SequentialInv'
<1>1. CASE Raises(p)
  BY <1>1, RaisesKeeps
<1>2. CASE ~ Raises(p)
  <2>1. PICK t, n : t = process[p].task /\ n = process[p].num + 1
    OBVIOUS
  <2>2. PICK k : k = [Then(p, "execute") EXCEPT !.num = n]
    OBVIOUS
  <2>3. n \in Nat
    BY <2>1, LocalsType
  <2>4. /\ k \in ProcessRecords /\ k.at = "execute" /\ k.task = t /\ k.num = n
        /\ k.next = process[p].next /\ k.selected = process[p].selected
        /\ k.view = process[p].view
    BY <2>1, <2>2, <2>3, LocalsType, ZenonT(30) DEF Then, ProcessRecords, ProcessStep
  <2>5. /\ process[p].at = "again" /\ process' = [process EXCEPT ![p] = k]
        /\ UNCHANGED <<run, task, checkpoints, sequence, endings, closed, external>>
        /\ AttemptIsNew(t, n) /\ AddsAttempt(t, n)
    BY <1>2, <2>1, <2>2 DEF TryAgain, At, Becomes, Current
  <2>6. KnowsAnyway(process[p]) /\ run # Absent
    BY <2>5, LocalsType, RunIsStored DEF ProcessKnows, Gone
  <2>7. /\ t \in Tasks /\ t \in k.selected /\ n - 1 \in 1 .. Len(attempts[t])
        /\ attempts[t][n - 1] = "RETRY"
    <3>1. process[p].num = n - 1
      BY <2>1, LocalsType
    <3> QED
      BY <2>1, <2>4, <2>5, <2>6, <3>1 DEF KnowsAnyway, InAttempt, Trying
  <2>8. n = Len(attempts[t]) + 1 /\ attempts[t] # << >> /\ Last(t) = "RETRY"
    <3>1. PICK last \in Nat : last = Len(attempts[t])
      BY <2>7, StoreType
    <3>2. n > last /\ n - 1 \in 1 .. last
      BY <2>5, <2>7, <3>1 DEF AttemptIsNew
    <3>3. n = last + 1 /\ last # 0 /\ n - 1 = last
      BY <2>3, <3>2
    <3> QED
      BY <2>7, <3>1, <3>3, StoreType DEF Last
  <2>9. task[t] = "RUNNING"
    BY <2>7, <2>8 DEF SequentialInv, RecordsFit, OpenTaskIsRunning
  <2>10. task' = [task EXCEPT ![t] = "RUNNING"]
    BY <2>5, <2>7, <2>9, StoreType
  <2>11. /\ task' \in [Tasks -> TaskRunStatus] /\ attempts' \in [Tasks -> Seq(StoredAttempt)]
         /\ RecordsFit' /\ Len(attempts'[t]) = n /\ attempts'[t][n] = "RUNNING"
         /\ \A u \in Tasks \ {t} : attempts'[u] = attempts[u]
         /\ \A u \in Tasks : \A i \in 1 .. Len(attempts[u]) : AttemptKept(u, i)
         /\ Executable' \subseteq Executable
    <3>1. sequence' \in Nat /\ sequence' >= sequence /\ run' = run
      BY <2>5, StoreType
    <3>2. AddsAttempt(t, n) /\ task[t] \in {"READY", "RUNNING"}
      BY <2>5, <2>9
    <3> QED
      BY <2>3, <2>7, <2>8, <2>10, <3>1, <3>2, NewAttemptFits
  <2>12. n \in 1 .. Len(attempts'[t]) /\ n > Len(attempts[t])
    BY <2>3, <2>7, <2>8, <2>11, StoreType
  <2>13. StoredTypeOK'
    BY <2>5, <2>6, <2>11 DEF StoredTypeOK, SequentialInv, SequentialTypeOK
  <2>14. ProcessKnows(k)'
    <3>1. KnowsAnyway(k)'
      BY <2>4, <2>7, <2>11, <2>12 DEF KnowsAnyway, InLoop, InAttempt, Trying, OnlyRun
    <3>2. ASSUME KnowsStill(process[p])
          PROVE  KnowsStill(k)'
      <4>1. /\ \A u \in Tasks : u < t => task[u] = "SUCCEEDED"
            /\ \A u \in Executable : u >= t => u \in k.selected
            /\ k.view = task
        BY <2>1, <2>4, <2>5, <3>2 DEF KnowsStill, InLoop, InAttempt, Trying
      <4> QED
        BY <2>4, <2>5, <2>9, <2>11, <4>1 DEF KnowsStill, InLoop, InAttempt, Trying
    <3>3. /\ k.next <= sequence' + 1
          /\ Unfenced(k)' => KnowsStill(process[p])
      BY <2>4, <2>5, LocalsType DEF ProcessKnows, Unfenced
    <3> QED
      BY <3>1, <3>2, <3>3 DEF ProcessKnows
  <2>15. StepsOf(p, k.at)'
    BY <2>4, <2>5, <2>6 DEF StepsOf, OnlyRun, OnlyResume
  <2>16. ASSUME NEW q \in Processes \ {p}
         PROVE  ProcessKnows(process[q])'
    <3>1. PICK j \in ProcessRecords : j = process[q]
      BY LocalsType
    <3>2. process'[q] = j
      BY <2>5, <3>1 DEF SequentialInv, SequentialTypeOK
    <3>3. ProcessKnows(j)
      BY <3>1, LocalsType
    <3>4. j.at \in InAttempt => j.task \in Tasks /\ j.num \in 1 .. Len(attempts[j.task])
      BY <3>3 DEF ProcessKnows, KnowsAnyway, InAttempt, Trying
    <3>5. KnowsAnyway(j)'
      BY <2>11, <3>3, <3>4, KnowledgeStays DEF ProcessKnows
    <3>6. ASSUME KnowsStill(j)
          PROVE  KnowsStill(j)'
      <4>1. j.at = "start" /\ task[j.task] = "RUNNING" =>
               /\ j.num - 1 \in 1 .. Len(attempts'[j.task])
               /\ attempts'[j.task][j.num - 1] = "RETRY"
        <5> SUFFICES ASSUME j.at = "start", task[j.task] = "RUNNING"
                     PROVE  /\ j.num - 1 \in 1 .. Len(attempts'[j.task])
                            /\ attempts'[j.task][j.num - 1] = "RETRY"
          OBVIOUS
        <5>1. j.task \in Tasks
          BY <3>3 DEF ProcessKnows, KnowsAnyway
        <5>2. PICK i : i = j.num - 1
          OBVIOUS
        <5>3. i \in 1 .. Len(attempts[j.task]) /\ attempts[j.task][i] = "RETRY"
          BY <3>6, <5>2 DEF KnowsStill
        <5> QED
          BY <2>11, <5>1, <5>2, <5>3 DEF AttemptKept
      <4>2. j.at = "apply" => \A u \in Tasks : j.report[u] # "none" =>
               attempts'[u] # << >> /\ Last(u)' = "RUNNING" /\ j.view[u] = "RUNNING"
        BY <2>8, <2>11, <3>6 DEF KnowsStill, Last
      <4>3. task' = task
        BY <2>5
      <4> QED
        BY <2>11, <3>6, <4>1, <4>2, <4>3 DEF KnowsStill
    <3>7. ProcessKnows(j)'
      BY <2>5, <3>3, <3>5, <3>6 DEF ProcessKnows, Unfenced
    <3> QED
      BY <3>2, <3>7 DEF ProcessKnows, KnowsAnyway, KnowsStill, Unfenced
  <2>17. sequence' = 0 => run' \in {Absent, "PENDING"} /\ \A u \in Tasks : task'[u] = "PENDING"
    BY <2>5 DEF SequentialInv, Beginning
  <2>18. process[p].at \notin Gone \cup {"idle"}
    BY <2>5 DEF Gone
  <2> QED
    BY <2>4, <2>5, <2>11, <2>12, <2>13, <2>14, <2>15, <2>16, <2>17, <2>18, StoreStep
<1> QED
  BY <1>1, <1>2

-----------------------------------------------------------------------------
(* The end of the run.                                                     *)

\* A call that ends with its unit of work.
LEMMA LastCommitKeeps ==
    ASSUME SequentialInv, NEW p \in Processes, NEW step \in Gone,
           process' = [process EXCEPT ![p] = Over(p, step)], UNCHANGED external,
           process[p].at \notin Gone \cup {"idle"}, StoredTypeOK', RecordsFit',
           sequence' > sequence,
           \A t \in Tasks : \A n \in 1 .. Len(attempts[t]) :
              OwnAttempt(p, t, n) \/ AttemptKept(t, n)
    PROVE  SequentialInv'
<1>1. PICK k \in ProcessRecords : k = Over(p, step)
  BY OverKnows
<1>2. k.at = step /\ k.task = 1 /\ k.next = 1
  BY <1>1 DEF Over, NewProcess
<1>3. k.at \notin InAttempt
  BY <1>2 DEF InAttempt, Trying, Gone
<1>4. KnowsAnyway(k)' /\ KnowsStill(k)'
  BY <1>2, FirstTask DEF KnowsAnyway, KnowsStill, InLoop, InAttempt, Trying, OnlyRun, Gone
<1>5. k.next <= sequence' + 1
  <2>1. PICK last \in Nat : last = sequence'
    BY DEF StoredTypeOK
  <2>2. 1 <= last + 1
    OBVIOUS
  <2> QED
    BY <1>2, <2>1, <2>2
<1>6. ProcessKnows(k)'
  BY <1>4, <1>5 DEF ProcessKnows
<1>7. StepsOf(p, k.at)'
  BY <1>2 DEF StepsOf, Gone, OnlyRun, OnlyResume
<1> QED
  BY <1>1, <1>3, <1>6, <1>7, EventStep

\* One RUNNING task ends as its attempt does, and the run with it: of the tasks
\* behind it nothing was begun.
LEMMA RunEndsWithTask ==
    ASSUME SequentialInv, NEW t \in Tasks, NEW n, n = Len(attempts[t]), attempts[t] # << >>,
           task[t] = "RUNNING", NEW status \in {"FAILED", "CANCELLED"},
           SavesAttempt(t, n, status), task' \in [Tasks -> TaskRunStatus], task'[t] = status,
           \A u \in Tasks : u < t => task'[u] = task[u],
           \A u \in Tasks : u > t => task'[u] \in {"SKIPPED", "CANCELLED"},
           run' = status, closed', sequence' \in Nat, sequence' > 0
    PROVE  /\ attempts' \in [Tasks -> Seq(StoredAttempt)] /\ RecordsFit'
           /\ \A u \in Tasks : task[u] \in TaskTerminal => task'[u] = task[u]
<1>1. status \in StoredAttempt
  BY DEF StoredAttempt, TaskAttemptStatus
<1>2. /\ attempts' \in [Tasks -> Seq(StoredAttempt)] /\ OnlyTheLastIsOpen'
      /\ Len(attempts'[t]) = n /\ attempts'[t][n] = status
      /\ \A u \in Tasks \ {t} : attempts'[u] = attempts[u]
  BY <1>1, SavedAttemptFits
<1>3. /\ \A u \in Tasks : u < t => task[u] = "SUCCEEDED" /\ task'[u] = "SUCCEEDED"
      /\ \A u \in Tasks : u > t => task[u] = "PENDING"
  BY WorkIsInOrder
<1>4. \A u \in Tasks : u < t \/ u = t \/ u > t
  BY DEF Tasks
<1>5. \A u \in Tasks : task'[u] \in TaskTerminal
  BY <1>3, <1>4 DEF TaskTerminal
<1>6. EndIsJustified'
  BY <1>5 DEF EndIsJustified
<1>7. TasksInOrder'
  BY DEF TasksInOrder, WorkflowTerminal
<1>8. OpenTaskIsRunning'
  BY <1>2, <1>3, <1>4, <1>5 DEF SequentialInv, RecordsFit, OpenTaskIsRunning, Last, TaskTerminal
<1>9. \A u \in Tasks : task[u] \in TaskTerminal => task'[u] = task[u]
  BY <1>3, <1>4 DEF TaskTerminal
<1> QED
  BY <1>2, <1>6, <1>7, <1>8, <1>9 DEF RecordsFit

LEMMA FailTaskKeeps ==
    ASSUME SequentialInv, NEW p \in Processes, FailTask(p)
    PROVE  SequentialInv'
<1>1. CASE Fenced(p)
  BY <1>1, RaisesKeeps DEF Fenced
<1>2. CASE ~ Fenced(p)
  <2>1. PICK t, n : t = process[p].task /\ n = process[p].num
    OBVIOUS
  <2>2. PICK skipped : skipped = Undispatched(process[p].view) \ {t}
    OBVIOUS
  <2>3. /\ process[p].at = "fail" /\ EventAccepted(p)
        /\ sequence' = process[p].next + (2 + Cardinality(skipped)) - 1
        /\ SavesAttempt(t, n, "FAILED")
        /\ task' = [u \in Tasks |-> IF u = t THEN "FAILED"
                                    ELSE IF u \in skipped THEN "SKIPPED"
                                    ELSE task[u]]
        /\ run' = "FAILED" /\ endings' = endings + 1 /\ closed' = TRUE
        /\ process' = [process EXCEPT ![p] = Over(p, "raised")]
        /\ UNCHANGED <<checkpoints, external>>
    BY <1>2, <2>1, <2>2 DEF FailTask, At, Current, StoresEvents, StoresEnding, Becomes
  <2>4. /\ t \in Tasks /\ n = Len(attempts[t]) /\ attempts[t] # << >>
        /\ attempts[t][n] = "RUNNING" /\ task[t] = "RUNNING" /\ process[p].view = task
        /\ \A u \in Tasks : u < t => task[u] = "SUCCEEDED"
        /\ \A u \in Tasks : u > t => task[u] = "PENDING"
    BY <2>1, <2>3, OwnAttemptIsOpen
  <2>5. Cardinality(skipped) \in Nat
    <3>1. IsFiniteSet(Tasks)
      BY FirstTask, FS_Interval DEF Tasks
    <3>2. IsFiniteSet(skipped)
      BY <2>2, <3>1, FS_Subset DEF Undispatched
    <3> QED
      BY <3>2, FS_CardinalityType
  <2>6. sequence' \in Nat /\ sequence' > sequence
    BY <2>3, <2>5, LocalsType, StoreType DEF EventAccepted
  <2>7. \A u \in Tasks : u \in skipped <=> u > t
    <3> TAKE u \in Tasks
    <3>1. u < t \/ u = t \/ u > t
      BY <2>4 DEF Tasks
    <3>2. u \in skipped <=> task[u] \in {"PENDING", "READY"} /\ u # t
      BY <2>2, <2>4 DEF Undispatched
    <3>3. u < t => ~ (u > t)
      BY <2>4 DEF Tasks
    <3> QED
      BY <2>4, <3>1, <3>2, <3>3 DEF Tasks
  <2>8. /\ task' \in [Tasks -> TaskRunStatus] /\ task'[t] = "FAILED"
        /\ \A u \in Tasks : u < t => task'[u] = task[u]
        /\ \A u \in Tasks : u > t => task'[u] = "SKIPPED"
    <3>1. task' \in [Tasks -> TaskRunStatus]
      BY <2>3, StoreType DEF TaskRunStatus
    <3>2. ASSUME NEW u \in Tasks, u < t
          PROVE  task'[u] = task[u]
      BY <2>3, <2>4, <2>7, <3>2 DEF Tasks
    <3>3. ASSUME NEW u \in Tasks, u > t
          PROVE  task'[u] = "SKIPPED"
      BY <2>3, <2>4, <2>7, <3>3 DEF Tasks
    <3> QED
      BY <2>3, <2>4, <3>1, <3>2, <3>3
  <2>9. /\ attempts' \in [Tasks -> Seq(StoredAttempt)] /\ RecordsFit'
        /\ \A u \in Tasks : task[u] \in TaskTerminal => task'[u] = task[u]
    <3>1. sequence' > 0
      BY <2>6, StoreType
    <3> QED
      BY <2>3, <2>4, <2>6, <2>8, <3>1, RunEndsWithTask
  <2>10. \A u \in Tasks : \A i \in 1 .. Len(attempts[u]) :
            OwnAttempt(p, u, i) \/ AttemptKept(u, i)
    <3>1. OwnAttempt(p, t, n)
      BY <2>1, <2>3 DEF OwnAttempt, InAttempt, Trying
    <3>2. "FAILED" \in StoredAttempt
      BY DEF StoredAttempt, TaskAttemptStatus
    <3> QED
      BY <2>3, <2>4, <2>9, <3>1, <3>2, OthersAttemptsAreKept
  <2>11. StoredTypeOK'
    <3>1. endings' \in Nat /\ checkpoints' \subseteq Tasks /\ run' \in WorkflowRunStatus
      BY <2>3 DEF SequentialInv, SequentialTypeOK, WorkflowRunStatus
    <3>2. closed' \in BOOLEAN
      BY <2>3, Zenon
    <3> QED
      BY <2>6, <2>8, <2>9, <3>1, <3>2 DEF StoredTypeOK
  <2>12. process[p].at \notin Gone \cup {"idle"} /\ "raised" \in Gone
    BY <2>3 DEF Gone
  <2> QED
    BY <2>3, <2>6, <2>9, <2>10, <2>11, <2>12, LastCommitKeeps
<1> QED
  BY <1>1, <1>2

LEMMA SucceedRunKeeps ==
    ASSUME SequentialInv, NEW p \in Processes, SucceedRun(p)
    PROVE  SequentialInv'
<1>1. CASE Fenced(p)
  BY <1>1, RaisesKeeps DEF Fenced
<1>2. CASE ~ Fenced(p)
  <2>1. /\ process[p].at = "conclude" /\ EventAccepted(p)
        /\ sequence' = process[p].next + 1 - 1
        /\ run' = "SUCCEEDED" /\ endings' = endings + 1 /\ closed' = TRUE
        /\ process' = [process EXCEPT ![p] = Over(p, "returned")]
        /\ UNCHANGED <<task, attempts, checkpoints, external>>
    BY <1>2 DEF SucceedRun, At, StoresEvents, StoresEnding, Becomes
  <2>2. \A t \in Tasks : task[t] = "SUCCEEDED"
    BY <2>1, LocalsType DEF ProcessKnows, KnowsStill, EventAccepted, Unfenced
  <2>3. sequence' \in Nat /\ sequence' > sequence /\ sequence' > 0
    BY <2>1, LocalsType, StoreType DEF EventAccepted
  <2>4. RecordsFit'
    <3>1. OnlyTheLastIsOpen' /\ OpenTaskIsRunning'
      BY <2>1 DEF SequentialInv, RecordsFit, OnlyTheLastIsOpen, OpenTaskIsRunning, Last
    <3>2. TasksInOrder'
      BY <2>1 DEF TasksInOrder, WorkflowTerminal
    <3>3. EndIsJustified'
      BY <2>1, <2>2, <2>3 DEF EndIsJustified, TaskTerminal
    <3> QED
      BY <3>1, <3>2, <3>3 DEF RecordsFit
  <2>5. StoredTypeOK'
    <3>1. /\ endings' \in Nat /\ checkpoints' \subseteq Tasks /\ run' \in WorkflowRunStatus
          /\ task' \in [Tasks -> TaskRunStatus] /\ attempts' \in [Tasks -> Seq(StoredAttempt)]
      BY <2>1 DEF SequentialInv, SequentialTypeOK, WorkflowRunStatus
    <3>2. closed' \in BOOLEAN
      BY <2>1, Zenon
    <3> QED
      BY <2>3, <3>1, <3>2 DEF StoredTypeOK
  <2>6. \A t \in Tasks : \A n \in 1 .. Len(attempts[t]) : AttemptKept(t, n)
    BY <2>1 DEF AttemptKept
  <2>7. process[p].at \notin Gone \cup {"idle"} /\ "returned" \in Gone
    BY <2>1 DEF Gone
  <2> QED
    BY <2>1, <2>3, <2>4, <2>5, <2>6, <2>7, LastCommitKeeps
<1> QED
  BY <1>1, <1>2

-----------------------------------------------------------------------------
(* The report is applied.                                                  *)

\* A process that is not fenced applies the outcome of one attempt, the only
\* one that was open when it looked at the tasks.
LEMMA ReportIsOfOneTask ==
    ASSUME SequentialInv, NEW p \in Processes, process[p].at = "apply", EventAccepted(p)
    PROVE  \E t \in Tasks :
              /\ process[p].report[t] \in
                    {"CONFIRMED_SUCCEEDED", "CONFIRMED_FAILED", "CONFIRMED_CANCELLED"}
              /\ \A u \in Tasks : u # t => process[p].report[u] = "none"
              /\ attempts[t] # << >> /\ Last(t) = "RUNNING" /\ task[t] = "RUNNING"
              /\ process[p].view[t] = "RUNNING"
              /\ \A u \in Tasks : u < t => process[p].view[u] = "SUCCEEDED"
              /\ \A u \in Tasks : u > t => process[p].view[u] = "PENDING"
<1>1. KnowsAnyway(process[p]) /\ KnowsStill(process[p])
  BY LocalsType DEF ProcessKnows, EventAccepted, Unfenced
<1>2. PICK t \in Tasks : process[p].report[t] # "none"
  BY <1>1 DEF KnowsAnyway
<1>3. /\ ViewInOrder(process[p].view)
      /\ \A u \in Tasks : process[p].report[u] \notin {"MANUAL_REQUIRED", "STILL_RUNNING"}
  BY <1>1 DEF KnowsAnyway
<1>4. \A u \in Tasks : process[p].report[u] # "none" =>
         attempts[u] # << >> /\ Last(u) = "RUNNING" /\ process[p].view[u] = "RUNNING"
  BY <1>1 DEF KnowsStill
<1>5. process[p].report[t] \in
         {"CONFIRMED_SUCCEEDED", "CONFIRMED_FAILED", "CONFIRMED_CANCELLED"}
  BY <1>2, <1>3, LocalsType DEF Disposition
<1>6. task[t] = "RUNNING"
  BY <1>2, <1>4 DEF SequentialInv, RecordsFit, OpenTaskIsRunning
<1>7. /\ \A u \in Tasks : u < t => process[p].view[u] = "SUCCEEDED"
      /\ \A u \in Tasks : u > t => process[p].view[u] = "PENDING"
  BY <1>2, <1>3, <1>4 DEF ViewInOrder
<1>8. \A u \in Tasks : u # t => process[p].report[u] = "none"
  <2> SUFFICES ASSUME NEW u \in Tasks, u # t, process[p].report[u] # "none"
               PROVE  FALSE
    OBVIOUS
  <2>1. process[p].view[u] = "RUNNING" /\ (u < t \/ u > t)
    BY <1>4 DEF Tasks
  <2> QED
    BY <1>7, <2>1
<1> QED
  BY <1>2, <1>4, <1>5, <1>6, <1>7, <1>8

\* What is stored, said of that task.
AppliesTo(p, t, outcome, count) ==
    /\ count \in Nat /\ count > 0 /\ sequence' = process[p].next + count - 1
    /\ SavesAttempt(t, Len(attempts[t]), outcome)
    /\ task' \in [Tasks -> TaskRunStatus] /\ task'[t] = outcome
    /\ \A u \in Tasks : u < t => task'[u] = task[u]
    /\ UNCHANGED <<checkpoints, external>>
    /\ IF outcome = "SUCCEEDED"
       THEN /\ \A u \in Tasks : u > t => task'[u] = task[u]
            /\ closed' = FALSE /\ UNCHANGED <<run, endings>>
            /\ process' = [process EXCEPT ![p] =
                             [Then(p, "preflight") EXCEPT
                                !.next = process[p].next + count,
                                !.report = NoReport, !.seen = NoSeen]]
       ELSE /\ \A u \in Tasks : u > t => task'[u] \in {"SKIPPED", "CANCELLED"}
            /\ run' = outcome /\ StoresEnding
            /\ process' = [process EXCEPT ![p] = Over(p, "returned")]

LEMMA ApplyReportApplies ==
    ASSUME SequentialInv, NEW p \in Processes, ApplyReport(p), ~ Fenced(p)
    PROVE  /\ process[p].at = "apply" /\ EventAccepted(p)
           /\ \E t \in Tasks : \E outcome \in {"SUCCEEDED", "FAILED", "CANCELLED"} :
                 /\ attempts[t] # << >> /\ Last(t) = "RUNNING" /\ task[t] = "RUNNING"
                 /\ \E count \in Nat : AppliesTo(p, t, outcome, count)
<1>1. PICK succeeded, lost, cancelled :
         /\ succeeded = Reported(p, "CONFIRMED_SUCCEEDED")
         /\ lost = Reported(p, "CONFIRMED_FAILED")
         /\ cancelled = Reported(p, "CONFIRMED_CANCELLED")
  OBVIOUS
<1>2. PICK ends \in BOOLEAN : ends <=> lost \cup cancelled # {}
  BY Zenon
<1>3. PICK rest : rest = IF ends THEN Undispatched(process[p].view) ELSE {}
  OBVIOUS
<1>4. PICK count : count = Cardinality(succeeded \cup lost)
                        + IF lost # {} THEN Cardinality(rest) + 1
                          ELSE IF ends THEN 1 ELSE 0
  OBVIOUS
<1>5. /\ process[p].at = "apply" /\ EventAccepted(p)
      /\ sequence' = process[p].next + count - 1
      /\ UNCHANGED <<checkpoints, external>>
  BY <1>1, <1>2, <1>3, <1>4 DEF ApplyReport, At, StoresEvents
<1>6. /\ attempts' = [u \in Tasks |->
            IF u \in succeeded \cup lost \cup cancelled
            THEN [attempts[u] EXCEPT ![Len(attempts[u])] =
                    IF u \in succeeded THEN "SUCCEEDED"
                    ELSE IF u \in lost THEN "FAILED" ELSE "CANCELLED"]
            ELSE attempts[u]]
      /\ task' = [u \in Tasks |->
            IF u \in succeeded \cup lost \cup cancelled
            THEN IF u \in succeeded THEN "SUCCEEDED"
                 ELSE IF u \in lost THEN "FAILED" ELSE "CANCELLED"
            ELSE IF u \in rest THEN (IF lost # {} THEN "SKIPPED" ELSE "CANCELLED")
            ELSE task[u]]
  BY <1>1, <1>2, <1>3 DEF ApplyReport, Fenced
<1>7. /\ ends => /\ run' = (IF lost # {} THEN "FAILED" ELSE "CANCELLED")
                 /\ StoresEnding
                 /\ process' = [process EXCEPT ![p] = Over(p, "returned")]
      /\ ~ ends => /\ process' = [process EXCEPT ![p] =
                                     [Then(p, "preflight") EXCEPT
                                        !.next = process[p].next + count,
                                        !.report = NoReport, !.seen = NoSeen]]
                   /\ closed' = FALSE /\ UNCHANGED <<run, endings>>
  BY <1>1, <1>2, <1>3, <1>4 DEF ApplyReport, Fenced, Becomes
<1>8. PICK t \in Tasks :
         /\ process[p].report[t] \in
               {"CONFIRMED_SUCCEEDED", "CONFIRMED_FAILED", "CONFIRMED_CANCELLED"}
         /\ \A u \in Tasks : u # t => process[p].report[u] = "none"
         /\ attempts[t] # << >> /\ Last(t) = "RUNNING" /\ task[t] = "RUNNING"
         /\ process[p].view[t] = "RUNNING"
         /\ \A u \in Tasks : u < t => process[p].view[u] = "SUCCEEDED"
         /\ \A u \in Tasks : u > t => process[p].view[u] = "PENDING"
  BY <1>5, ReportIsOfOneTask
<1>9. PICK outcome : outcome = IF t \in succeeded THEN "SUCCEEDED"
                               ELSE IF t \in lost THEN "FAILED" ELSE "CANCELLED"
  OBVIOUS
<1>10. /\ outcome \in {"SUCCEEDED", "FAILED", "CANCELLED"}
       /\ succeeded = (IF outcome = "SUCCEEDED" THEN {t} ELSE {})
       /\ lost = (IF outcome = "FAILED" THEN {t} ELSE {})
       /\ cancelled = (IF outcome = "CANCELLED" THEN {t} ELSE {})
  BY <1>1, <1>8, <1>9 DEF Reported
<1>11. succeeded \cup lost \cup cancelled = {t} /\ (ends <=> outcome # "SUCCEEDED")
  BY <1>2, <1>10
<1>12. \A u \in Tasks : u \in rest <=> ends /\ u > t
  <2> TAKE u \in Tasks
  <2>1. u < t \/ u = t \/ u > t
    BY DEF Tasks
  <2>2. u < t => ~ (u > t)
    BY DEF Tasks
  <2>3. u = t => ~ (u > t)
    BY DEF Tasks
  <2> QED
    BY <1>3, <1>8, <2>1, <2>2, <2>3 DEF Undispatched
<1>13. SavesAttempt(t, Len(attempts[t]), outcome)
  <2>1. attempts' = [u \in Tasks |->
            IF u = t THEN [attempts[t] EXCEPT ![Len(attempts[t])] = outcome]
            ELSE attempts[u]]
    BY <1>6, <1>9, <1>11
  <2>2. attempts' = [attempts EXCEPT ![t] = [attempts[t] EXCEPT ![Len(attempts[t])] = outcome]]
    BY <2>1, StoreType
  <2> QED
    BY <2>2 DEF SavesAttempt
<1>14. task' = [u \in Tasks |->
            IF u = t THEN outcome
            ELSE IF u \in rest THEN (IF lost # {} THEN "SKIPPED" ELSE "CANCELLED")
            ELSE task[u]]
  BY <1>6, <1>9, <1>11
<1>15. /\ task' \in [Tasks -> TaskRunStatus] /\ task'[t] = outcome
       /\ \A u \in Tasks : u < t => task'[u] = task[u]
       /\ \A u \in Tasks : u > t =>
             IF ends THEN task'[u] \in {"SKIPPED", "CANCELLED"} ELSE task'[u] = task[u]
  <2>1. task' \in [Tasks -> TaskRunStatus]
    BY <1>10, <1>14, StoreType DEF TaskRunStatus
  <2>2. task'[t] = outcome
    BY <1>14
  <2>3. ASSUME NEW u \in Tasks, u < t
        PROVE  task'[u] = task[u]
    <3>1. u # t /\ ~ (u > t)
      BY <2>3 DEF Tasks
    <3> QED
      BY <1>12, <1>14, <3>1
  <2>4. ASSUME NEW u \in Tasks, u > t
        PROVE  IF ends THEN task'[u] \in {"SKIPPED", "CANCELLED"} ELSE task'[u] = task[u]
    <3>1. u # t
      BY <2>4 DEF Tasks
    <3> QED
      BY <1>12, <1>14, <2>4, <3>1
  <2> QED
    BY <2>1, <2>2, <2>3, <2>4
<1>16. count \in Nat /\ count > 0
  <2>1. IsFiniteSet(rest)
    <3>1. IsFiniteSet(Tasks)
      BY FirstTask, FS_Interval DEF Tasks
    <3>2. rest \subseteq Tasks
      BY <1>3 DEF Undispatched
    <3> QED
      BY <3>1, <3>2, FS_Subset
  <2>2. Cardinality(rest) \in Nat
    BY <2>1, FS_CardinalityType
  <2>3. Cardinality({t}) = 1 /\ Cardinality({}) = 0
    BY FS_Singleton, FS_EmptySet
  <2>4. CASE outcome = "SUCCEEDED"
    <3>1. succeeded \cup lost = {t} /\ lost = {} /\ ~ ends
      BY <1>10, <1>11, <2>4
    <3> QED
      BY <1>4, <2>3, <3>1
  <2>5. CASE outcome = "FAILED"
    <3>1. succeeded \cup lost = {t} /\ lost # {}
      BY <1>10, <2>5
    <3> QED
      BY <1>4, <2>2, <2>3, <3>1
  <2>6. CASE outcome = "CANCELLED"
    <3>1. succeeded \cup lost = {} /\ lost = {} /\ ends
      BY <1>10, <1>11, <2>6
    <3> QED
      BY <1>4, <2>3, <3>1
  <2> QED
    BY <1>10, <2>4, <2>5, <2>6
<1>17. lost # {} <=> outcome = "FAILED"
  BY <1>10
<1>18. AppliesTo(p, t, outcome, count)
  BY <1>5, <1>7, <1>10, <1>11, <1>13, <1>15, <1>16, <1>17 DEF AppliesTo
<1> QED
  BY <1>5, <1>8, <1>10, <1>16, <1>18

LEMMA ApplyReportKeeps ==
    ASSUME SequentialInv, NEW p \in Processes, ApplyReport(p)
    PROVE  SequentialInv'
<1>1. CASE Fenced(p)
  BY <1>1, RaisesKeeps DEF Fenced
<1>2. CASE ~ Fenced(p)
  <2>1. /\ process[p].at = "apply" /\ EventAccepted(p)
        /\ process[p].at \notin Gone \cup {"idle"} /\ run # Absent
    BY <1>2, ApplyReportApplies, RunIsStored DEF Gone
  <2>2. PICK t \in Tasks, outcome \in {"SUCCEEDED", "FAILED", "CANCELLED"},
              count \in Nat :
           /\ attempts[t] # << >> /\ Last(t) = "RUNNING" /\ task[t] = "RUNNING"
           /\ AppliesTo(p, t, outcome, count)
    BY <1>2, ApplyReportApplies
  <2>3. PICK n : n = Len(attempts[t])
    OBVIOUS
  <2>4. /\ count \in Nat /\ count > 0 /\ sequence' = process[p].next + count - 1
        /\ SavesAttempt(t, n, outcome) /\ task' \in [Tasks -> TaskRunStatus]
        /\ task'[t] = outcome /\ \A u \in Tasks : u < t => task'[u] = task[u]
        /\ checkpoints' = checkpoints /\ external' = external
    BY <2>2, <2>3 DEF AppliesTo
  <2>5. sequence' \in Nat /\ sequence' > sequence /\ sequence' > 0
    BY <2>1, <2>4, LocalsType, StoreType DEF EventAccepted
  <2>6. outcome \in StoredAttempt /\ outcome # "RETRY"
    BY DEF StoredAttempt, TaskAttemptStatus
  <2>7. /\ attempts' \in [Tasks -> Seq(StoredAttempt)] /\ OnlyTheLastIsOpen'
        /\ Len(attempts'[t]) = n /\ attempts'[t] # << >> /\ attempts'[t][n] = outcome
        /\ \A u \in Tasks \ {t} : attempts'[u] = attempts[u]
    BY <2>2, <2>3, <2>4, <2>6, SavedAttemptFits
  <2>8. /\ run \notin WorkflowTerminal
        /\ \A u \in Tasks : u < t => task[u] = "SUCCEEDED"
        /\ \A u \in Tasks : u > t => task[u] = "PENDING"
    BY <2>2, WorkIsInOrder
  <2>9. ASSUME \A u \in Tasks : task[u] \in TaskTerminal => task'[u] = task[u]
        PROVE  \A u \in Tasks : \A i \in 1 .. Len(attempts[u]) : AttemptKept(u, i)
    <3>1. attempts[t][n] = "RUNNING" /\ task'[t] \in TaskTerminal
      BY <2>2, <2>3, <2>4 DEF Last, TaskTerminal
    <3>2. /\ n \in 1 .. Len(attempts'[t])
          /\ \A i \in 1 .. n - 1 : attempts'[t][i] = attempts[t][i]
      BY <2>2, <2>3, <2>4, <2>6, SavedAttemptFits
    <3> TAKE u \in Tasks
    <3> TAKE i \in 1 .. Len(attempts[u])
    <3>3. CASE u # t
      BY <2>7, <2>9, <3>3 DEF AttemptKept
    <3>4. CASE u = t /\ i = n
      BY <2>6, <2>7, <3>1, <3>2, <3>4 DEF AttemptKept
    <3>5. CASE u = t /\ i # n
      <4>1. i \in 1 .. n - 1
        BY <2>3, <3>5, StoreType
      <4>2. attempts'[u][i] = attempts[u][i] /\ i \in 1 .. Len(attempts'[u])
        BY <2>7, <3>2, <3>5, <4>1
      <4> QED
        BY <3>1, <3>5, <4>2 DEF AttemptKept
    <3> QED
      BY <3>3, <3>4, <3>5
  <2>10. CASE outcome = "SUCCEEDED"
    <3>1. PICK k : k = [Then(p, "preflight") EXCEPT !.next = process[p].next + count,
                                                    !.report = NoReport, !.seen = NoSeen]
      OBVIOUS
    <3>2. /\ k \in ProcessRecords /\ k.at = "preflight" /\ k.task = process[p].task
          /\ k.next = process[p].next + count
      <4>1. PICK next \in Nat : next = process[p].next + count
        BY <2>4, LocalsType
      <4>2. NoReport \in [Tasks -> Disposition] /\ NoSeen \in [Tasks -> Nat]
        BY DEF NoReport, NoSeen, Disposition
      <4> QED
        BY <3>1, <4>1, <4>2, LocalsType, ZenonT(30) DEF Then, ProcessRecords, ProcessStep
    <3>3. /\ \A u \in Tasks : u > t => task'[u] = task[u]
          /\ closed' = FALSE /\ run' = run /\ endings' = endings
          /\ process' = [process EXCEPT ![p] = k]
      BY <2>2, <2>10, <3>1 DEF AppliesTo
    <3>4. \A u \in Tasks \ {t} : task'[u] = task[u]
      BY <2>4, <3>3 DEF Tasks
    <3>5. RecordsFit'
      <4>1. EndIsJustified'
        BY <2>8, <3>3 DEF EndIsJustified
      <4>2. OpenTaskIsRunning'
        BY <2>4, <2>7, <2>10, <3>4 DEF SequentialInv, RecordsFit, OpenTaskIsRunning, Last
      <4>3. TasksInOrder'
        BY <2>4, <2>8, <2>10, <3>3, <3>4 DEF SequentialInv, RecordsFit, TasksInOrder, Tasks
      <4> QED
        BY <2>7, <4>1, <4>2, <4>3 DEF RecordsFit
    <3>6. StoredTypeOK'
      <4>1. endings' \in Nat /\ checkpoints' \subseteq Tasks /\ run' \in WorkflowRunStatus
        BY <2>1, <2>4, <3>3 DEF SequentialInv, SequentialTypeOK
      <4>2. closed' \in BOOLEAN
        BY <3>3, Zenon
      <4> QED
        BY <2>4, <2>5, <2>7, <4>1, <4>2 DEF StoredTypeOK
    <3>7. k.task = 1
      BY <2>1, <3>2, LocalsType DEF ProcessKnows, KnowsAnyway, InLoop, InAttempt, Trying
    <3>8. KnowsAnyway(k)' /\ KnowsStill(k)'
      BY <3>2, <3>7, FirstTask DEF KnowsAnyway, KnowsStill, InLoop, InAttempt, Trying, OnlyRun
    <3>9. k.next <= sequence' + 1
      BY <2>4, <2>5, <3>2, LocalsType
    <3>10. ProcessKnows(k)'
      BY <3>8, <3>9 DEF ProcessKnows
    <3>11. p # 1
      BY <2>1, LocalsType DEF StepsOf, OnlyResume
    <3>12. StepsOf(p, k.at)' /\ k.at \notin InAttempt
      BY <2>1, <3>2, <3>3, <3>11 DEF StepsOf, OnlyRun, InAttempt, Trying
    <3>13. \A u \in Tasks : \A i \in 1 .. Len(attempts[u]) : AttemptKept(u, i)
      BY <2>2, <2>9, <3>4 DEF TaskTerminal
    <3> QED
      BY <2>1, <2>4, <2>5, <3>2, <3>3, <3>5, <3>6, <3>10, <3>12, <3>13, EventStep
  <2>11. CASE outcome # "SUCCEEDED"
    <3>1. /\ \A u \in Tasks : u > t => task'[u] \in {"SKIPPED", "CANCELLED"}
          /\ run' = outcome /\ closed' = TRUE /\ endings' = endings + 1
          /\ process' = [process EXCEPT ![p] = Over(p, "returned")]
      BY <2>2, <2>11 DEF AppliesTo, StoresEnding
    <3>2. outcome \in {"FAILED", "CANCELLED"} /\ closed'
      BY <2>11, <3>1
    <3>3. /\ RecordsFit'
          /\ \A u \in Tasks : task[u] \in TaskTerminal => task'[u] = task[u]
      BY <2>2, <2>3, <2>4, <2>5, <3>1, <3>2, RunEndsWithTask
    <3>4. \A u \in Tasks : \A i \in 1 .. Len(attempts[u]) : AttemptKept(u, i)
      BY <2>9, <3>3
    <3>5. StoredTypeOK'
      <4>1. endings' \in Nat /\ checkpoints' \subseteq Tasks /\ run' \in WorkflowRunStatus
        BY <2>4, <3>1, <3>2 DEF SequentialInv, SequentialTypeOK, WorkflowRunStatus
      <4>2. closed' \in BOOLEAN
        BY <3>1, Zenon
      <4> QED
        BY <2>4, <2>5, <2>7, <4>1, <4>2 DEF StoredTypeOK
    <3>6. "returned" \in Gone
      BY DEF Gone
    <3> QED
      BY <2>1, <2>4, <2>5, <3>1, <3>3, <3>4, <3>5, <3>6, LastCommitKeeps
  <2> QED
    BY <2>10, <2>11
<1> QED
  BY <1>1, <1>2

-----------------------------------------------------------------------------
(* The invariant holds.                                                    *)

LEMMA CrashKeeps ==
    ASSUME SequentialInv, NEW p \in Processes, Crash(p)
    PROVE  SequentialInv'
BY EndsQuietly DEF Crash, Gone

\* The local variables do not change while an external job does.
LEMMA ExternalKeeps ==
    ASSUME SequentialInv, UNCHANGED <<durable, process>>,
           external' \in [Tasks -> ExternalState]
    PROVE  SequentialInv'
<1>1. SequentialTypeOK'
  BY DEF SequentialInv, SequentialTypeOK, durable
<1>2. RecordsFit' /\ Beginning' /\ AttemptsAreTheirOwn'
  BY DEF SequentialInv, RecordsFit, OnlyTheLastIsOpen, OpenTaskIsRunning, TasksInOrder,
         EndIsJustified, Last, Beginning, StepsOf, AttemptsAreTheirOwn, SameAttempt, durable
<1>3. \A p \in Processes : ProcessKnows(process[p])'
  BY DEF SequentialInv, ProcessKnows, KnowsAnyway, KnowsStill, Unfenced, Last, Executable,
         WaitsForRetry, durable
<1> QED
  BY <1>1, <1>2, <1>3 DEF SequentialInv

LEMMA ExternalJobKeeps ==
    ASSUME SequentialInv, NEW t \in Tasks, ExternalJobStarts(t) \/ ExternalJobEnds(t)
    PROVE  SequentialInv'
<1>1. external' \in [Tasks -> ExternalState]
  BY StoreType DEF ExternalJobStarts, ExternalJobEnds, ExternalState
<1>2. UNCHANGED <<durable, process>>
  BY DEF ExternalJobStarts, ExternalJobEnds
<1> QED
  BY <1>1, <1>2, ExternalKeeps

LEMMA StepKeeps ==
    ASSUME SequentialInv, NEW p \in Processes, AssessRun(p) \/ Step(p) \/ Crash(p)
    PROVE  SequentialInv'
<1>1. \/ AssessRun(p) \/ Prepare(p) \/ CreateRun(p) \/ BeginRun(p) \/ Preflight(p)
      \/ RunTakesTask(p) \/ ResumeTakesTask(p) \/ ResumeChecksTask(p)
      \/ MarkReady(p) \/ StartTask(p) \/ LoadSiblings(p) \/ ExecuteTask(p)
      \/ SucceedTask(p) \/ ScheduleRetry(p) \/ TryAgain(p) \/ FailTask(p)
      \/ PlanExhausted(p) \/ SucceedRun(p)
      \/ ScanTasks(p) \/ ScanTask(p) \/ LoadRun(p) \/ LoadTasks(p)
      \/ LoadEvents(p) \/ CheckReport(p) \/ ApplyReport(p) \/ Crash(p)
  BY DEF Step
<1>2. ASSUME \/ AssessRun(p) \/ ScanTasks(p) \/ ScanTask(p) \/ LoadRun(p) \/ LoadTasks(p)
             \/ LoadEvents(p) \/ CheckReport(p) \/ ApplyReport(p) \/ Crash(p)
      PROVE  SequentialInv'
  BY <1>2, AssessRunKeeps, ScanTasksKeeps, ScanTaskKeeps, LoadRunKeeps, LoadTasksKeeps,
     LoadEventsKeeps, CheckReportKeeps, ApplyReportKeeps, CrashKeeps
<1>3. ASSUME \/ Prepare(p) \/ CreateRun(p) \/ BeginRun(p) \/ Preflight(p)
             \/ RunTakesTask(p) \/ ResumeTakesTask(p) \/ ResumeChecksTask(p)
      PROVE  SequentialInv'
  BY <1>3, PrepareKeeps, CreateRunKeeps, BeginRunKeeps, PreflightKeeps, RunTakesTaskKeeps,
     ResumeTakesTaskKeeps, ResumeChecksTaskKeeps
<1>4. ASSUME \/ MarkReady(p) \/ StartTask(p) \/ LoadSiblings(p) \/ ExecuteTask(p)
             \/ SucceedTask(p) \/ ScheduleRetry(p) \/ TryAgain(p) \/ FailTask(p)
             \/ PlanExhausted(p) \/ SucceedRun(p)
      PROVE  SequentialInv'
  BY <1>4, MarkReadyKeeps, StartTaskKeeps, LoadSiblingsKeeps, ExecuteTaskKeeps,
     SucceedTaskKeeps, ScheduleRetryKeeps, TryAgainKeeps, FailTaskKeeps, PlanExhaustedKeeps,
     SucceedRunKeeps
<1> QED
  BY <1>1, <1>2, <1>3, <1>4

\* The records of a V1 run fit together, and every process knows of them what
\* it acts on, however many processes run, resume and die (application/runner.py).
THEOREM SequentialInvariant == SequentialSpec => []SequentialInv
<1>1. SequentialInit => SequentialInv
  BY InitKnows
<1>2. SequentialInv /\ [SequentialNext]_sequentialVars => SequentialInv'
  <2> SUFFICES ASSUME SequentialInv, [SequentialNext]_sequentialVars
               PROVE  SequentialInv'
    OBVIOUS
  <2>1. CASE \E p \in Processes : AssessRun(p) \/ Step(p) \/ Crash(p)
    BY <2>1, StepKeeps
  <2>2. CASE \E t \in Tasks : ExternalJobStarts(t) \/ ExternalJobEnds(t)
    BY <2>2, ExternalJobKeeps
  <2>3. CASE UNCHANGED sequentialVars
    BY <2>3, ExternalKeeps, StoreType DEF sequentialVars
  <2> QED
    BY <2>1, <2>2, <2>3 DEF SequentialNext, AllGone
<1> QED
  BY <1>1, <1>2, PTL DEF SequentialSpec

-----------------------------------------------------------------------------
(* Nobody executes what another executes.                                  *)

\* An attempt of which the outcome is not yet stored is the last of its task,
\* and RUNNING unless its task ended without it.
LEMMA OpenAttemptIsLast ==
    ASSUME SequentialInv, NEW p \in Processes, process[p].at \in Trying,
           NEW t, t = process[p].task, NEW n, n = process[p].num
    PROVE  /\ t \in Tasks /\ n \in 1 .. Len(attempts[t]) /\ n = Len(attempts[t])
           /\ attempts[t] # << >> /\ Last(t) # "RETRY" /\ t \in process[p].selected
           /\ Last(t) = "RUNNING" \/ task[t] \in TaskTerminal
<1>1. /\ t \in Tasks /\ n \in 1 .. Len(attempts[t]) /\ t \in process[p].selected
      /\ attempts[t][n] # "RETRY"
      /\ attempts[t][n] = "RUNNING" \/ task[t] \in TaskTerminal
  BY LocalsType DEF ProcessKnows, KnowsAnyway, InAttempt, Trying
<1>2. n = Len(attempts[t]) /\ attempts[t] # << >>
  BY <1>1, StoreType DEF SequentialInv, RecordsFit, OnlyTheLastIsOpen
<1> QED
  BY <1>1, <1>2 DEF Last

LEMMA ClaimsHold ==
    ASSUME SequentialInv
    PROVE  ExecutionIsClaimed
<1>1. OneExecutionPerTask
  <2> SUFFICES ASSUME NEW p \in Processes, NEW q \in Processes,
                      At(p, "execute"), At(q, "execute"), Current(p) = Current(q), p # q
               PROVE  FALSE
    BY DEF OneExecutionPerTask
  <2>1. /\ process[p].at = "execute" /\ process[q].at = "execute"
        /\ process[p].task = process[q].task
    BY DEF At, Current
  <2>2. /\ process[p].num = Len(attempts[process[p].task])
        /\ process[q].num = Len(attempts[process[q].task])
    BY <2>1, OpenAttemptIsLast DEF Trying
  <2>3. SameAttempt(process[p], process[q])
    BY <2>1, <2>2 DEF SameAttempt, InAttempt, Trying
  <2> QED
    BY <2>3 DEF SequentialInv, AttemptsAreTheirOwn
<1>2. ExecutedTasksAreSelected
  BY LocalsType
  DEF ExecutedTasksAreSelected, ProcessKnows, KnowsAnyway, InAttempt, Trying, Current
<1> QED
  BY <1>1, <1>2 DEF ExecutionIsClaimed

\* A task is executed by one process at a time, which had chosen to
\* (application/runner.py resume).
THEOREM ExecutionsAreClaimed == SequentialSpec => []ExecutionIsClaimed
BY SequentialInvariant, ClaimsHold, PTL

-----------------------------------------------------------------------------
(* What is read out of the store.                                          *)

\* A run that is over has no attempt that is not.
LEMMA AttemptsAreOver ==
    ASSUME SequentialInv, NEW t \in Tasks, task[t] \in TaskTerminal
    PROVE  ManifestAttemptsAllowed(t)
<1> SUFFICES ASSUME NEW n \in 1 .. Len(attempts[t]), NEW r \in ExportedAttempts(t, n)
             PROVE  r.status \in AttemptTerminal
  BY DEF ManifestAttemptsAllowed
<1>1. attempts[t][n] # "RUNNING"
  <2> SUFFICES ASSUME attempts[t][n] = "RUNNING"
               PROVE  FALSE
    OBVIOUS
  <2>1. n = Len(attempts[t]) /\ attempts[t] # << >>
    BY StoreType DEF SequentialInv, RecordsFit, OnlyTheLastIsOpen
  <2> QED
    BY <2>1 DEF SequentialInv, RecordsFit, OpenTaskIsRunning, Last, TaskTerminal
<1>2. attempts[t][n] \in StoredAttempt
  BY StoreType
<1>3. IF attempts[t][n] = "RETRY" THEN r.status = "FAILED" ELSE r.status = attempts[t][n]
  BY DEF ExportedAttempts
<1> QED
  BY <1>1, <1>2, <1>3 DEF StoredAttempt, TaskAttemptStatus, AttemptTerminal

LEMMA PlanOrderIsWellFounded == IsWellFoundedOn({p \in Nat \X Nat : p[1] < p[2]}, Nat)
BY NatLessThanWellFounded, Zenon DEF OpToRel

\* The first unfinished task of a run that is not over waits for nobody.
LEMMA FirstUnfinishedCanRun ==
    ASSUME SequentialInv
    PROVE  ~ Deadlocked
<1> SUFFICES ASSUME Unfinished # {},
                    \A t \in Unfinished : \E u \in Upstream[t] : task[u] # "SUCCEEDED"
             PROVE  FALSE
  BY DEF Deadlocked
<1>1. Unfinished \subseteq Tasks /\ Unfinished \subseteq Nat
  BY DEF Unfinished, Tasks
<1>2. PICK t \in Unfinished : \A u \in Unfinished : ~ (u < t)
  <2> DEFINE R == {p \in Nat \X Nat : p[1] < p[2]}
  <2>1. IsWellFoundedOn(R, Nat)
    BY PlanOrderIsWellFounded
  <2>2. PICK S : S = Unfinished
    OBVIOUS
  <2> HIDE DEF R
  <2>3. PICK t \in S : \A u \in S : ~ (<<u, t>> \in R)
    BY <1>1, <2>1, <2>2, WFMin
  <2>4. \A u \in S : ~ (u < t)
    BY <1>1, <2>2, <2>3 DEF R
  <2> QED
    BY <2>2, <2>3, <2>4
<1>3. PICK u \in Upstream[t] : task[u] # "SUCCEEDED"
  BY <1>2
<1>4. t \in Tasks /\ u \in Tasks /\ u < t
  BY <1>1, <1>2, PlanRespectsDependencies, FirstTask DEF Tasks
<1>5. u \notin Unfinished
  BY <1>2, <1>4
<1>6. task[u] \in TaskTerminal /\ task[t] \notin TaskTerminal
  BY <1>2, <1>4, <1>5 DEF Unfinished
<1>7. run \notin WorkflowTerminal
  BY <1>4, <1>6 DEF SequentialInv, RecordsFit, EndIsJustified
<1> QED
  BY <1>3, <1>4, <1>6, <1>7 DEF SequentialInv, RecordsFit, TasksInOrder, TaskTerminal

LEMMA ManifestBuildsThen ==
    ASSUME SequentialInv
    PROVE  ManifestCanBeBuilt
<1>1. ASSUME run \in WorkflowTerminal
      PROVE  /\ ManifestBuilds
             /\ run = "SUCCEEDED" => \A t \in Tasks : task[t] = "SUCCEEDED"
             /\ run = "FAILED" => \E t \in Tasks : task[t] = "FAILED"
  BY <1>1, AttemptsAreOver
  DEF SequentialInv, RecordsFit, EndIsJustified, ManifestBuilds, ManifestEventsAllowed
<1> QED
  BY <1>1, FirstUnfinishedCanRun DEF ManifestCanBeBuilt

\* A manifest can be built of every run that is over, and no run is reported
\* as deadlocked (application/manifest.py, application/inspection.py).
THEOREM ManifestsCanBeBuilt == SequentialSpec => []ManifestCanBeBuilt
BY SequentialInvariant, ManifestBuildsThen, PTL

-----------------------------------------------------------------------------
(* Recovery assessments.                                                   *)

\* A task that is not over is migrated with its status, whenever the record of
\* its run, as it may be, is migrated.
LEMMA TaskIsMigrated ==
    ASSUME SequentialInv, NEW t \in Tasks, task[t] \notin TaskTerminal
    PROVE  \E v \in UNION {MigrateTask(r) : r \in Import(Exported).task_runs[t]} :
              v.status = task[t]
<1>1. PICK m \in Stamps : m.created /\ ~ m.finished
  <2>1. [created |-> TRUE, started |-> TRUE, finished |-> FALSE] \in Stamps
    BY Zenon DEF Stamps
  <2> QED
    BY <2>1
<1>2. PICK r : r = [status |-> task[t], reason |-> "none", stamps |-> m]
  OBVIOUS
<1>3. task[t] \in {"PENDING", "READY", "RUNNING"}
  BY StoreType DEF TaskRunStatus, TaskTerminal
<1>4. r \in TaskRecords
  BY <1>2, <1>3 DEF TaskRecords, TaskRunStatus
<1>5. TaskRecordAllowed(r) /\ r.status = task[t] /\ r.stamps = m
  BY <1>1, <1>2, <1>3 DEF TaskRecordAllowed, TaskTerminal
<1>6. r \in Import(Exported).task_runs[t]
  BY <1>4, <1>5 DEF Import, Exported, ImportTasks, ExportedTasks, LegacyTasks
<1>7. V2TaskAllowed(r)
  BY <1>1, <1>2, <1>3 DEF V2TaskAllowed, V2!TaskRunTerminal
<1>8. r \in MigrateTask(r)
  BY <1>1, <1>5, <1>7 DEF MigrateTask
<1> QED
  BY <1>5, <1>6, <1>8

\* What the last stored attempt is called where it is exported.
ExportedStatus(t) == IF Last(t) = "RETRY" THEN "FAILED" ELSE Last(t)

LEMMA AttemptIsMigrated ==
    ASSUME SequentialInv, NEW t \in Tasks, attempts[t] # << >>
    PROVE  ExportedStatus(t) \in LatestMigrated(Import(Exported), t)
<1>1. PICK n : n = Len(attempts[t])
  OBVIOUS
<1>2. n \in Nat /\ n \in 1 .. n /\ n \in 1 .. Len(attempts[t]) /\ attempts[t][n] \in StoredAttempt
  BY <1>1, StoreType
<1>3. PICK status : status = ExportedStatus(t)
  OBVIOUS
<1>4. /\ status \in TaskAttemptStatus
      /\ IF attempts[t][n] = "RETRY" THEN status = "FAILED" ELSE status = attempts[t][n]
  BY <1>1, <1>2, <1>3 DEF ExportedStatus, Last, StoredAttempt, TaskAttemptStatus
<1>5. PICK m \in Stamps : ~ m.created /\ (m.finished <=> status \in AttemptTerminal)
  <2>1. /\ [created |-> FALSE, started |-> TRUE, finished |-> FALSE] \in Stamps
        /\ [created |-> FALSE, started |-> TRUE, finished |-> TRUE] \in Stamps
    BY Zenon DEF Stamps
  <2> QED
    BY <2>1
<1>6. PICK eligible \in BOOLEAN : eligible <=> attempts[t][n] = "RETRY"
  BY Zenon
<1>7. PICK r : r = [status |-> status, eligible |-> eligible, message |-> "none", stamps |-> m]
  OBVIOUS
<1>8. r \in AttemptRecords
  <2>1. m \in {stamps \in Stamps : ~ stamps.created}
    BY <1>5, Zenon
  <2>2. status \in TaskAttemptStatus
    BY <1>4
  <2> QED
    BY <1>6, <1>7, <2>1, <2>2 DEF AttemptRecords
<1>9. /\ r.status = status /\ r.stamps = m /\ r.message = "none"
      /\ (r.eligible <=> attempts[t][n] = "RETRY")
  BY <1>6, <1>7
<1>10. AttemptRecordAllowed(r)
  BY <1>4, <1>5, <1>9 DEF AttemptRecordAllowed
<1>11. r \in ExportedAttempts(t, n)
  BY <1>4, <1>8, <1>9, <1>10 DEF ExportedAttempts, LegacyAttempts
<1>12. r \in ImportAttempts(ExportedAttempts(t, n))
  BY <1>9, <1>10, <1>11 DEF ImportAttempts
<1>13. PICK v : v = [status |-> r.status, stamps |-> [r.stamps EXCEPT !.created = TRUE]]
  OBVIOUS
<1>14. v.status = status /\ (v.stamps.finished <=> status \in AttemptTerminal)
  BY <1>5, <1>9, <1>13 DEF Stamps
<1>15. V2AttemptAllowed(v)
  BY <1>4, <1>14 DEF V2AttemptAllowed, V2!TaskAttemptTerminal, TaskAttemptStatus, AttemptTerminal
<1>16. v \in MigrateAttempt(r)
  BY <1>13, <1>15 DEF MigrateAttempt
<1>17. PICK migrated : migrated = MigrateAttempts(Import(Exported), t)
  OBVIOUS
<1>18. Import(Exported).task_attempts[t] = [i \in 1 .. n |-> ImportAttempts(ExportedAttempts(t, i))]
  BY <1>1 DEF Import, Exported
<1>19. migrated = [i \in 1 .. n |->
                     UNION {MigrateAttempt(a) : a \in ImportAttempts(ExportedAttempts(t, i))}]
  BY <1>17, <1>18 DEF MigrateAttempts
<1>20. migrated # << >> /\ Len(migrated) = n /\ v \in migrated[n]
  <2>1. migrated[n] = UNION {MigrateAttempt(a) : a \in ImportAttempts(ExportedAttempts(t, n))}
    BY <1>2, <1>19
  <2>2. v \in migrated[n]
    BY <1>12, <1>16, <2>1
  <2>3. Len(migrated) = n
    BY <1>2, <1>19
  <2>4. migrated # << >>
    BY <1>2, <2>3
  <2> QED
    BY <2>2, <2>3, <2>4
<1>21. LatestMigrated(Import(Exported), t) = {w.status : w \in migrated[n]}
  BY <1>17, <1>20 DEF LatestMigrated
<1> QED
  BY <1>3, <1>14, <1>20, <1>21

\* A task that is not over and has an attempt is never taken for one that may
\* simply be run.
LEMMA AttemptsAreSeen ==
    ASSUME SequentialInv, NEW t \in Tasks, attempts[t] # << >>, task[t] \notin TaskTerminal,
           Last(t) \in {"RUNNING", "RETRY"}
    PROVE  MigratedRunAssessment # "READY"
<1>1. PICK snapshot : snapshot = Import(Exported)
  OBVIOUS
<1>2. PICK v \in UNION {MigrateTask(r) : r \in snapshot.task_runs[t]} : v.status = task[t]
  BY <1>1, TaskIsMigrated
<1>3. PICK latest \in LatestMigrated(snapshot, t) : latest = ExportedStatus(t)
  BY <1>1, AttemptIsMigrated
<1>4. latest \in {"RUNNING", "FAILED"}
  BY <1>3 DEF ExportedStatus
<1>5. PICK said : said = MigratedTaskAssessment(v.status, latest, MigratedRefs(snapshot, t))
  OBVIOUS
<1>6. said \in MigratedAssessments(snapshot, t)
  BY <1>2, <1>3, <1>5 DEF MigratedAssessments
<1>7. v.status \notin V2!TaskRunTerminal
  BY <1>2, StoreType DEF V2!TaskRunTerminal, TaskRunStatus, TaskTerminal
<1>8. MigratedRefs(snapshot, t) = {}
  BY <1>1 DEF MigratedRefs, Import, Exported
<1>9. said \in {"MANUAL_REQUIRED", "REQUIRES_RECONCILIATION"}
  BY <1>4, <1>5, <1>7, <1>8 DEF MigratedTaskAssessment
<1>10. PICK found : found = UNION {MigratedAssessments(snapshot, u) : u \in Tasks}
  OBVIOUS
<1>11. said \in found
  BY <1>6, <1>10
<1> QED
  BY <1>1, <1>9, <1>10, <1>11 DEF MigratedRunAssessment

LEMMA LiveWorkIsSeenThen ==
    ASSUME SequentialInv
    PROVE  LiveWorkIsSeen
<1>1. ASSUME NEW t \in LiveTasks \cap Unfinished
      PROVE  /\ t \in Tasks /\ attempts[t] # << >> /\ Last(t) = "RUNNING"
             /\ task[t] \notin TaskTerminal
  <2>1. PICK p \in Processes :
           process[p].at \in {"execute", "succeed", "retry", "fail"} /\ t = process[p].task
    BY DEF LiveTasks, Current
  <2> QED
    BY <2>1, OpenAttemptIsLast DEF Unfinished, Trying
<1>2. ASSUME Eligible, NEW t \in LiveTasks \cap Unfinished
      PROVE  FALSE
  <2>1. Len(attempts[t]) \in RunningAttempts(t)
    BY <1>1, StoreType DEF RunningAttempts, Last
  <2> QED
    BY <1>1, <1>2, <2>1 DEF Eligible
<1>3. ASSUME NEW t \in RetryWaiting
      PROVE  t \in Tasks /\ attempts[t] # << >> /\ Last(t) = "RETRY" /\ task[t] \notin TaskTerminal
  BY DEF RetryWaiting, WaitsForRetry, Last, TaskTerminal
<1>4. ASSUME MigratedRunAssessment = "READY"
      PROVE  LiveTasks \cap Unfinished = {} /\ RetryWaiting = {}
  BY <1>1, <1>3, <1>4, AttemptsAreSeen
<1> QED
  BY <1>2, <1>4 DEF LiveWorkIsSeen

\* No assessment, of the V1 run or of the run moved to V2 at any moment, lets a
\* run go on while the outcome of a handler is open (application/recovery.py,
\* diagnostics/recovery.py).
THEOREM LiveWorkIsAlwaysSeen == SequentialSpec => []LiveWorkIsSeen
BY SequentialInvariant, LiveWorkIsSeenThen, PTL

=============================================================================
