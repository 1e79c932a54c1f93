--------------------------- MODULE TestLifecycle ----------------------------
(***************************************************************************)
(* The life of one test: TempestaTest.start_all_services, the test body,   *)
(* the retry_if_not_conditions decorator and cleanup_services              *)
(* (framework/test_suite/tester.py, marks.py) over services that implement *)
(* Stateful (framework/services/stateful.py).                              *)
(*                                                                         *)
(* A service is its state, whether the process, module or socket behind it *)
(* runs, and whether it has recorded an exception.  The first stop         *)
(* procedure takes the service down, the others remove its files; each may *)
(* fail, as each runs external commands.                                   *)
(***************************************************************************)
EXTENDS Stateful, Integers, FiniteSets

CONSTANTS
    Servers, Clients,   \* the services a test class declares
    tempesta, manager,  \* the two every test has
    DeproxyClients,     \* the clients the polling thread of the manager drives
    Docker,             \* the servers that run in a container
    StopProcs,          \* the number of stop procedures of each service
    MaxOps              \* bound: start() and stop() calls of one test body

Services == Servers \cup Clients \cup {tempesta, manager}

ASSUME ServicesAssumption ==
    /\ tempesta \notin Servers \cup Clients /\ manager \notin Servers \cup Clients
    /\ Servers \cap Clients = {} /\ tempesta # manager
    /\ Docker \subseteq Servers /\ DeproxyClients \subseteq Clients
ASSUME StopProcsAssumption == StopProcs \in [Services -> Nat \ {0}]
ASSUME MaxOpsAssumption == MaxOps \in Nat

VARIABLES
    phase,      \* what the test does
    attempt,    \* the loop variable of retry_if_not_conditions
    todo,       \* services start_all_services or start_all_clients has still to start
    ops,        \* start() and stop() calls the body may still make
    state,      \* Stateful.state
    up,         \* the service runs
    orphan,     \* a container runs whose id nobody knows
    exc,        \* Stateful.exceptions is not empty
    left,       \* stop procedures force_stop() has still to call
    raised,     \* a start() of the current gather() has raised
    broken,     \* services whose run_start() has raised in this test
    reported    \* services named in ServiceStoppingException

vars == <<phase, attempt, todo, ops, state, up, orphan, exc, left, raised, broken, reported>>

Attempts == 3

Idle == \A s \in Services : left[s] = 0

\* Stateful.__init__ of every service, asyncSetUp
Init ==
    /\ phase = "begin"
    /\ attempt = 1
    /\ todo = {}
    /\ ops = MaxOps
    /\ state = [s \in Services |-> STATE_STOPPED]
    /\ up = [s \in Services |-> FALSE]
    /\ orphan = [s \in Services |-> FALSE]
    /\ exc = [s \in Services |-> FALSE]
    /\ left = [s \in Services |-> 0]
    /\ raised = FALSE
    /\ broken = {}
    /\ reported = {}

-----------------------------------------------------------------------------
(* Stateful.start and Stateful.stop *)

\* start() of a stopped service whose run_start() succeeds.
Starts(s) ==
    /\ MayStart(state[s])
    /\ state' = [state EXCEPT ![s] = STATE_STARTED]
    /\ up' = [up EXCEPT ![s] = TRUE]
    /\ UNCHANGED <<orphan, raised, broken>>

\* run_start() raises and the state stays BEGIN_START; the service may run all the
\* same (a start script that fails half-way).  `docker run' may have started the
\* container before DockerServer.run_start looks at its stderr and gives up.
StartFails(s) ==
    /\ MayStart(state[s])
    /\ state' = [state EXCEPT ![s] = STATE_BEGIN_START]
    /\ \/ UNCHANGED orphan
       \/ s \in Docker /\ orphan' = [orphan EXCEPT ![s] = TRUE]
    /\ \/ UNCHANGED up
       \/ s \notin Docker /\ up' = [up EXCEPT ![s] = TRUE]
    /\ raised' = TRUE
    /\ broken' = broken \cup {s}

\* start() of a service that is not stopped only logs a warning; start_tempesta
\* raises when Tempesta is not running then.
StartIgnored(s) ==
    /\ ~MayStart(state[s])
    /\ raised' = (raised \/ (s = tempesta /\ state[s] # STATE_STARTED))
    /\ UNCHANGED <<state, up, orphan, broken>>

Start(s) == Starts(s) \/ StartFails(s) \/ StartIgnored(s)

\* stop(): nothing, or the first step into force_stop().
Stop(s) ==
    left' = [left EXCEPT ![s] = IF MayStop(state[s]) THEN StopProcs[s] ELSE 0]

\* One iteration of force_stop(): the outcome of each procedure overwrites the
\* state that the one before it has set.
CallProcedure(s, recorded) ==
    /\ left[s] > 0
    /\ left' = [left EXCEPT ![s] = @ - 1]
    /\ \/ /\ up' = [up EXCEPT ![s] = @ /\ left[s] # StopProcs[s]]
          /\ state' = [state EXCEPT ![s] = STATE_STOPPED]
          /\ UNCHANGED exc
       \/ /\ state' = [state EXCEPT ![s] = STATE_ERROR]
          /\ exc' = [exc EXCEPT ![s] = recorded]
          /\ UNCHANGED up
    /\ UNCHANGED <<phase, attempt, todo, ops, orphan, raised, broken, reported>>

\* Mutant of StopProcedure: the exception is logged and not recorded.
StopProcedureForgets(s) == CallProcedure(s, exc[s])

StopProcedure(s) == CallProcedure(s, TRUE)

-----------------------------------------------------------------------------
(* The test *)

\* start_all_services creates a task for every server, Tempesta and the manager.
StartAllServices ==
    /\ phase = "begin"
    /\ phase' = "services"
    /\ todo' = Servers \cup {tempesta, manager}
    /\ raised' = FALSE
    /\ UNCHANGED <<attempt, ops, state, up, orphan, exc, left, broken, reported>>

\* A task of gather(); the others run on when one raises.
StartTask(s) ==
    /\ phase \in {"services", "clients"} /\ s \in todo
    /\ Start(s)
    /\ todo' = todo \ {s}
    /\ UNCHANGED <<phase, attempt, ops, exc, left, reported>>

\* gather() raises in the test if a task has, or start_all_clients follows.
Gathered ==
    /\ phase = "services" /\ todo = {}
    /\ IF ~raised
       THEN phase' = "clients" /\ todo' = Clients
       ELSE phase' = "cleanup" /\ UNCHANGED todo
    /\ UNCHANGED <<attempt, ops, state, up, orphan, exc, left, raised, broken, reported>>

ClientsGathered ==
    /\ phase = "clients" /\ todo = {}
    /\ phase' = IF raised THEN "cleanup" ELSE "body"
    /\ UNCHANGED <<attempt, todo, ops, state, up, orphan, exc, left, raised, broken, reported>>

\* The body stops, starts and restarts services.
BodyStop(s) ==
    /\ phase = "body" /\ Idle /\ ops > 0
    /\ ops' = ops - 1
    /\ Stop(s)
    /\ UNCHANGED <<phase, attempt, todo, state, up, orphan, exc, raised, broken, reported>>

BodyStart(s) ==
    /\ phase = "body" /\ Idle /\ ops > 0
    /\ ops' = ops - 1
    /\ Start(s)
    /\ UNCHANGED <<phase, attempt, todo, exc, left, reported>>

\* The polling thread crashes: append_exception() of the manager also sets the
\* state of every deproxy client, but records the exception for the manager only.
ManagerFails ==
    /\ up[manager]
    /\ state' = [s \in Services |->
                    IF s \in DeproxyClients \cup {manager} THEN STATE_ERROR ELSE state[s]]
    /\ exc' = [exc EXCEPT ![manager] = TRUE]
    /\ up' = [up EXCEPT ![manager] = FALSE]
    /\ UNCHANGED <<phase, attempt, todo, ops, orphan, left, raised, broken, reported>>

\* The body returns or raises.
BodyEnds ==
    /\ phase = "body" /\ Idle
    /\ phase' = "cleanup"
    /\ UNCHANGED <<attempt, todo, ops, state, up, orphan, exc, left, raised, broken, reported>>

Retry(again) ==
    /\ phase = "body" /\ Idle
    /\ IF again
       THEN attempt' = attempt + 1 /\ phase' = "begin"
       ELSE attempt' = attempt /\ phase' = "cleanup"
    /\ UNCHANGED <<todo, ops, state, up, orphan, exc, left, raised, broken, reported>>

\* The body raises TestConditionsAreNotCompleted: the decorator calls stop() of
\* every service, but stop() is a coroutine function and nothing awaits what it
\* returns; after a second the next attempt begins, or the third raises.
ConditionsNotCompleted == Retry(attempt < Attempts)

StopAll(S) ==
    /\ phase = "cleanup"
    /\ phase' = "stopping"
    /\ left' = [s \in Services |-> IF s \in S THEN StopProcs[s] ELSE 0]
    /\ UNCHANGED <<attempt, todo, ops, state, up, orphan, exc, raised, broken, reported>>

\* cleanup_services: a task calls stop() of each service, ...
CleanupServices == StopAll({s \in Services : MayStop(state[s])})

\* ... and when all have ended, the recorded exceptions are raised.
CleanupReports ==
    /\ phase = "stopping" /\ Idle
    /\ phase' = "deproxy"
    /\ reported' = {s \in Services : exc[s]}
    /\ UNCHANGED <<attempt, todo, ops, state, up, orphan, exc, left, raised, broken>>

CloseSockets(S) ==
    /\ phase = "deproxy"
    /\ phase' = "end"
    /\ up' = [s \in Services |-> up[s] /\ s \notin S]
    /\ UNCHANGED <<attempt, todo, ops, state, orphan, exc, left, raised, broken, reported>>

\* Mutant of CleanupDeproxy: only the clients that are still started are closed.
CleanupDeproxyStarted == CloseSockets({s \in DeproxyClients : state[s] = STATE_STARTED})

\* cleanup_deproxy: finish_all_deproxy() closes the sockets of all deproxy clients
\* (DeproxyManager has the detail, and the one option that makes it skip a socket).
CleanupDeproxy == CloseSockets(DeproxyClients)

-----------------------------------------------------------------------------
Next ==
    \/ StartAllServices \/ Gathered \/ ClientsGathered
    \/ BodyEnds \/ ConditionsNotCompleted \/ ManagerFails
    \/ CleanupServices \/ CleanupReports \/ CleanupDeproxy
    \/ \E s \in Services : StopProcedure(s) \/ StartTask(s) \/ BodyStop(s) \/ BodyStart(s)

Spec == Init /\ [][Next]_vars

-----------------------------------------------------------------------------
(* Properties *)

TypeOK ==
    /\ phase \in {"begin", "services", "clients", "body", "cleanup", "stopping", "deproxy", "end"}
    /\ attempt \in 1 .. Attempts
    /\ todo \subseteq Services
    /\ ops \in 0 .. MaxOps
    /\ state \in [Services -> States]
    /\ up \in [Services -> BOOLEAN]
    /\ orphan \in [Services -> BOOLEAN]
    /\ exc \in [Services -> BOOLEAN]
    /\ left \in [Services -> Nat] /\ \A s \in Services : left[s] <= StopProcs[s]
    /\ raised \in BOOLEAN
    /\ broken \subseteq Services
    /\ reported \subseteq Services

\* A service that outlives its test is reported.  stop() does nothing for a
\* service in error or marked stopped by its last stop procedure, so cleanup may
\* leave one running; but then ServiceStoppingException names it.  Only a
\* container whose start() has failed can outlive the test with no report of its own.
SurvivorIsReported ==
    phase = "end" =>
        \A s \in Services : /\ up[s] => s \in reported
                            /\ orphan[s] => s \in broken

\* After cleanup no service is left in a state that stop() would still act on.
CleanupStopsAll ==
    phase \in {"deproxy", "end"} => \A s \in Services : ~MayStop(state[s])

\* What makes SurvivorIsReported inductive: a service that runs and that stop()
\* would ignore has recorded an exception, at every moment and also between two
\* stop procedures.
SurvivorRecorded ==
    \A s \in Services \ DeproxyClients :
        up[s] => \/ exc[s]
                 \/ left[s] = 0 /\ MayStop(state[s])
                 \/ left[s] = StopProcs[s]

\* Stop procedures run only in the body and in cleanup, and cleanup's stop() has
\* reached every service that it should have.
CleanupReached ==
    /\ phase \in {"stopping", "deproxy", "end"} =>
           \A s \in Services : MayStop(state[s]) => left[s] = StopProcs[s]
    /\ phase \notin {"body", "stopping"} => Idle
    /\ phase \in {"deproxy", "end"} => reported = {s \in Services : exc[s]}
    /\ phase = "end" => \A s \in DeproxyClients : ~up[s]
    /\ \A s \in Services : orphan[s] => s \in broken

IndInv == TypeOK /\ SurvivorRecorded /\ CleanupReached

\* The retry decorator says "Stop all services on failure" and logs "Stop services
\* and restart test.": the next attempt finds no service running.
RetryStartsFromStopped ==
    phase = "begin" /\ attempt > 1 => \A s \in Services : ~MayStop(state[s])

=============================================================================
