--------------------------- MODULE SubprocessExecutor ---------------------------
(***************************************************************************)
(* executors/subprocess.py: one external program for each attempt.  The    *)
(* capacity check, Popen() and the entry in _active are separate steps:    *)
(* in between, neither cancel() nor shutdown() nor the capacity check of   *)
(* another call knows of the program.                                      *)
(***************************************************************************)
EXTENDS ExecutorCalls

\* A registered handler is called for the command, and may fail; then the
\* security policy is asked.
RejectsProgram(a) == executor = "subprocess" /\ Rejects(a)

AdmitProgram(a) ==
    /\ executor = "subprocess" /\ Admits(a)
    /\ Goes(a, "spawn")
    /\ UNCHANGED <<executor, work, outcome, active, completed, cancelRequested,
                   answer, closing>>

\* Popen, which may fail.
SpawnProgram(a) ==
    /\ executor = "subprocess" /\ At(a, "spawn")
    /\ \/ Goes(a, "register") /\ Becomes(a, "running")
       \/ Returns(a, "handler") /\ UNCHANGED work
    /\ UNCHANGED <<executor, outcome, active, completed, cancelRequested, answer, closing>>

RegisterProgram(a) ==
    /\ executor = "subprocess" /\ At(a, "register")
    /\ active' = active \cup {a}
    /\ Goes(a, "waiting")
    /\ UNCHANGED <<executor, work, outcome, completed, cancelRequested, answer, closing>>

ProgramEnds(a) ==
    /\ executor = "subprocess" /\ work[a] = "running"
    /\ Becomes(a, "ended")
    /\ UNCHANGED <<executor, call, outcome, active, completed, cancelRequested,
                   answer, closing>>

\* communicate() returns.
CollectOutput(a) ==
    /\ executor = "subprocess" /\ At(a, "waiting") /\ work[a] = "ended"
    /\ Goes(a, "check")
    /\ UNCHANGED <<executor, work, outcome, active, completed, cancelRequested,
                   answer, closing>>

\* Mutant: the result of the program is looked at first.
ProgramResultFirst(a) == "handler"

ProgramResult(a) == IF a \in cancelRequested THEN "cancelled" ELSE "handler"

JudgeProgram(a) ==
    /\ executor = "subprocess" /\ At(a, "check")
    /\ Keeps(a, "closing", ProgramResult(a))
    /\ UNCHANGED <<executor, work, outcome, active, completed, cancelRequested,
                   answer, closing>>

KillProgram(a) ==
    /\ executor = "subprocess" /\ At(a, "expired")
    /\ HardStops(a)
    /\ Keeps(a, "closing", "known_timeout")
    /\ UNCHANGED <<executor, outcome, active, completed, cancelRequested, answer, closing>>

\* finally.
ForgetProgram(a) ==
    /\ executor = "subprocess" /\ At(a, "closing")
    /\ active' = active \ {a} /\ completed' = completed \cup {a}
    /\ Goes(a, "returned")
    /\ UNCHANGED <<executor, work, outcome, cancelRequested, answer, closing>>

\* shutdown() waits for the registered programs or terminates them.
ShutdownPrograms ==
    /\ executor = "subprocess"
    /\ \E wait \in BOOLEAN : ClosesWith("waiting", wait)
    /\ UNCHANGED <<executor, call, work, outcome, active, completed,
                   cancelRequested, answer>>

JoinProgram(a) ==
    /\ executor = "subprocess" /\ closing.at = "waiting" /\ a \in closing.of
    /\ closing.wait => work[a] = "ended"
    /\ closing' = [closing EXCEPT !.of = @ \ {a}]
    /\ IF closing.wait THEN UNCHANGED work ELSE HardStops(a)
    /\ UNCHANGED <<executor, call, outcome, active, completed, cancelRequested, answer>>

ProgramsJoined ==
    /\ executor = "subprocess" /\ closing.at = "waiting" /\ closing.of = {}
    /\ closing' = [closing EXCEPT !.at = "returned"]
    /\ UNCHANGED <<executor, call, work, outcome, active, completed,
                   cancelRequested, answer>>

SubprocessStep(a) ==
    \/ RejectsProgram(a) \/ AdmitProgram(a) \/ SpawnProgram(a) \/ RegisterProgram(a) \/ CollectOutput(a)
    \/ JudgeProgram(a) \/ KillProgram(a) \/ ForgetProgram(a)

=============================================================================
