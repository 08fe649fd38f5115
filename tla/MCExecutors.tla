----------------------------- MODULE MCExecutors -----------------------------
(***************************************************************************)
(* The executors of both generations.  A behaviour is about one executor,  *)
(* so the variables of the other generation keep their initial values.     *)
(* The instance to check: each of the five executors of V2 and the four of *)
(* V1 with two attempts and room for one of them.  In V2 one attempt has a *)
(* deadline; in V1 one child process only ends when it is stopped.         *)
(***************************************************************************)
EXTENDS Executors

CONSTANTS
    Handles, Endless, Kinds,     \* of LegacyExecutors
    first, second

TwoAttempts == {first, second}
FirstDeadlined == {first}
SecondEndless == {second}

VARIABLES
    generation,
    kind, submit, handles, settled, asked, worker, left, finish, queue, stop,
    closingDown, eventLoop

V1 == INSTANCE LegacyExecutors WITH
    active <- handles, completed <- settled, outcome <- left,
    closing <- closingDown, loop <- eventLoop

v1Vars ==
    <<kind, submit, handles, settled, asked, worker, left, finish, queue, stop,
      closingDown, eventLoop>>

mcVars == <<generation, executorVars, v1Vars>>

MCInit ==
    /\ ExecutorsInit /\ V1!LegacyInit
    /\ \/ generation = 1 /\ executor = "inline"
       \/ generation = 2 /\ kind = "thread"

MCNext ==
    /\ \/ generation = 1 /\ V1!LegacyNext /\ UNCHANGED executorVars
       \/ generation = 2 /\ ExecutorsNext /\ UNCHANGED v1Vars
    /\ UNCHANGED generation

MCSpec ==
    MCInit /\ [][MCNext]_mcVars /\ ExecutorsFairness /\ V1!LegacyFairness

\* The properties of LegacyExecutors, of the instance above.
HandlesAreAccountedFor == V1!HandlesAreAccountedFor
CompletionArrives == V1!CompletionArrives

=============================================================================
