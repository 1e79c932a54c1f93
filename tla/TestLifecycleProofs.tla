------------------------ MODULE TestLifecycleProofs -------------------------
(***************************************************************************)
(* Whatever services a test declares and however their start and stop      *)
(* procedures fail, a service that outlives the test is reported.          *)
(***************************************************************************)
EXTENDS TestLifecycle, TLAPS

\* The states are four different values.
LEMMA StatesDiffer ==
    /\ STATE_BEGIN_START # STATE_STARTED /\ STATE_BEGIN_START # STATE_STOPPED
    /\ STATE_BEGIN_START # STATE_ERROR /\ STATE_STARTED # STATE_STOPPED
    /\ STATE_STARTED # STATE_ERROR /\ STATE_STOPPED # STATE_ERROR
    BY DEF STATE_BEGIN_START, STATE_STARTED, STATE_STOPPED, STATE_ERROR

\* A stopped service and one in error are ignored by stop(), a started one and one
\* whose start() has failed are not.
LEMMA MayStopValues ==
    /\ ~MayStop(STATE_STOPPED) /\ ~MayStop(STATE_ERROR)
    /\ MayStop(STATE_STARTED) /\ MayStop(STATE_BEGIN_START)
    BY StatesDiffer DEF MayStop

\* The services of a fresh test satisfy the invariant.
LEMMA InitIndInv == Init => IndInv
    <1> SUFFICES ASSUME Init PROVE IndInv
        OBVIOUS
    <1>1. /\ up \in [Services -> BOOLEAN] /\ orphan \in [Services -> BOOLEAN]
          /\ exc \in [Services -> BOOLEAN]
        BY Zenon DEF Init
    <1>2. /\ left \in [Services -> Nat] /\ \A s \in Services : left[s] <= StopProcs[s]
          /\ ops \in 0 .. MaxOps /\ attempt \in 1 .. Attempts
        BY StopProcsAssumption, MaxOpsAssumption DEF Init, Attempts
    <1>3. state \in [Services -> States]
        BY DEF Init, States
    <1>4. TypeOK
        BY <1>1, <1>2, <1>3 DEF Init, TypeOK
    <1>5. SurvivorRecorded /\ CleanupReached
        BY StatesDiffer DEF Init, SurvivorRecorded, CleanupReached, MayStop, Idle
    <1> QED BY <1>4, <1>5 DEF IndInv

\* start() of a service keeps the parts of the invariant it can disturb, in the
\* phases that call it.
LEMMA StartPreserves ==
    ASSUME IndInv, NEW s \in Services, Start(s),
           phase \in {"services", "clients", "body"},
           UNCHANGED <<phase, attempt, exc, left, reported>>,
           todo' \subseteq Services, ops' \in 0 .. MaxOps,
           Idle
    PROVE  IndInv'
    <1>1. /\ state' \in [Services -> States] /\ up' \in [Services -> BOOLEAN]
          /\ orphan' \in [Services -> BOOLEAN] /\ raised' \in BOOLEAN
          /\ broken' \subseteq Services
        BY DEF IndInv, TypeOK, Start, Starts, StartFails, StartIgnored, States
    <1>2. TypeOK'
        BY <1>1 DEF IndInv, TypeOK
    <1>3. SurvivorRecorded'
        BY MayStopValues
        DEF IndInv, TypeOK, SurvivorRecorded, Start, Starts, StartFails, StartIgnored, Idle
    <1>4. \A t \in Services : orphan'[t] => t \in broken'
        BY DEF IndInv, TypeOK, CleanupReached, Start, Starts, StartFails, StartIgnored
    <1>5. CleanupReached'
        BY <1>4 DEF CleanupReached, Idle
    <1> QED BY <1>2, <1>3, <1>5 DEF IndInv

\* One stop procedure keeps the invariant: the one that fails records why, and the
\* first one takes the service down or fails.
LEMMA StopPreserves ==
    ASSUME IndInv, NEW s \in Services, StopProcedure(s)
    PROVE  IndInv'
    <1>0. /\ left \in [Services -> Nat] /\ \A t \in Services : left[t] <= StopProcs[t]
          /\ StopProcs \in [Services -> Nat]
        BY StopProcsAssumption DEF IndInv, TypeOK
    <1>1. /\ left' \in [Services -> Nat] /\ \A t \in Services : left'[t] <= StopProcs[t]
          /\ state' \in [Services -> States]
        <2>1. left[s] > 0 /\ left' = [left EXCEPT ![s] = left[s] - 1]
            BY DEF StopProcedure, CallProcedure
        <2>2. left' \in [Services -> Nat] /\ \A t \in Services : left'[t] <= StopProcs[t]
            BY <1>0, <2>1
        <2>3. state' \in [Services -> States]
            BY DEF IndInv, TypeOK, StopProcedure, CallProcedure, States
        <2> QED BY <2>2, <2>3
    <1>2. up' \in [Services -> BOOLEAN] /\ exc' \in [Services -> BOOLEAN]
        <2>1. up \in [Services -> BOOLEAN] /\ exc \in [Services -> BOOLEAN]
            BY DEF IndInv, TypeOK
        <2>2. (up[s] /\ left[s] # StopProcs[s]) \in BOOLEAN
            OBVIOUS
        <2>3. exc' = exc \/ exc' = [exc EXCEPT ![s] = TRUE]
            BY DEF StopProcedure, CallProcedure
        <2>4. up' = up \/ up' = [up EXCEPT ![s] = up[s] /\ left[s] # StopProcs[s]]
            BY DEF StopProcedure, CallProcedure
        <2> QED BY <2>1, <2>2, <2>3, <2>4, Zenon
    <1>3. TypeOK'
        BY <1>1, <1>2 DEF IndInv, TypeOK, StopProcedure, CallProcedure
    <1>4. SurvivorRecorded'
        BY MayStopValues, StopProcsAssumption
        DEF IndInv, TypeOK, SurvivorRecorded, StopProcedure, CallProcedure
    <1>5. phase \in {"body", "stopping"}
        BY DEF IndInv, TypeOK, CleanupReached, Idle, StopProcedure, CallProcedure
    <1>6. ASSUME NEW t \in Services, phase = "stopping", MayStop(state'[t])
          PROVE  left'[t] = StopProcs[t]
        BY <1>6, MayStopValues DEF IndInv, TypeOK, CleanupReached, StopProcedure, CallProcedure
    <1>7. CleanupReached'
        BY <1>5, <1>6 DEF IndInv, CleanupReached, StopProcedure, CallProcedure
    <1> QED BY <1>3, <1>4, <1>7 DEF IndInv

\* A crash of the polling thread keeps the invariant.
LEMMA ManagerFailsPreserves ==
    ASSUME IndInv, ManagerFails
    PROVE  IndInv'
    <1>0. manager \in Services
        BY DEF Services
    <1>1. /\ state' \in [Services -> States]
          /\ up' \in [Services -> BOOLEAN] /\ exc' \in [Services -> BOOLEAN]
        BY <1>0 DEF IndInv, TypeOK, ManagerFails, States
    <1>2. TypeOK'
        BY <1>1 DEF IndInv, TypeOK, ManagerFails
    <1>3. SurvivorRecorded'
        BY <1>0 DEF IndInv, TypeOK, SurvivorRecorded, ManagerFails
    <1>4. ASSUME phase \in {"deproxy", "end"}
          PROVE  exc[manager] \/ manager \in DeproxyClients
        BY <1>0, <1>4, StopProcsAssumption
        DEF IndInv, TypeOK, SurvivorRecorded, CleanupReached, Idle, ManagerFails
    <1>5. manager \notin DeproxyClients
        BY ServicesAssumption
    <1>6. CleanupReached'
        BY <1>0, <1>4, <1>5, MayStopValues DEF IndInv, TypeOK, CleanupReached, ManagerFails, Idle
    <1> QED BY <1>2, <1>3, <1>6 DEF IndInv

\* Every step keeps the invariant.
LEMMA Inductive == IndInv /\ [Next]_vars => IndInv'
    <1> SUFFICES ASSUME IndInv, [Next]_vars PROVE IndInv'
        OBVIOUS
    <1> tempesta \in Services /\ manager \in Services
            /\ Servers \subseteq Services /\ Clients \subseteq Services
        BY DEF Services
    <1>1. CASE StartAllServices
        BY <1>1 DEF StartAllServices, IndInv, TypeOK, SurvivorRecorded, CleanupReached, Idle
    <1>2. CASE Gathered
        BY <1>2 DEF Gathered, IndInv, TypeOK, SurvivorRecorded, CleanupReached, Idle
    <1>3. CASE ClientsGathered
        BY <1>3 DEF ClientsGathered, IndInv, TypeOK, SurvivorRecorded, CleanupReached, Idle
    <1>4. CASE BodyEnds
        BY <1>4 DEF BodyEnds, IndInv, TypeOK, SurvivorRecorded, CleanupReached, Idle
    <1>5. CASE ConditionsNotCompleted
        BY <1>5 DEF ConditionsNotCompleted, Retry, Attempts, IndInv, TypeOK, SurvivorRecorded,
                    CleanupReached, Idle
    <1>6. CASE ManagerFails
        BY <1>6, ManagerFailsPreserves
    <1>7. CASE CleanupServices
        <2>1. Idle
            BY <1>7 DEF CleanupServices, StopAll, IndInv, CleanupReached
        <2>2. left' \in [Services -> Nat] /\ \A s \in Services : left'[s] <= StopProcs[s]
            BY <1>7, StopProcsAssumption DEF CleanupServices, StopAll
        <2>3. TypeOK'
            BY <1>7, <2>2 DEF CleanupServices, StopAll, IndInv, TypeOK
        <2>4. SurvivorRecorded'
            BY <1>7, <2>1, StopProcsAssumption
            DEF CleanupServices, StopAll, IndInv, TypeOK, SurvivorRecorded, Idle
        <2>5. CleanupReached'
            BY <1>7 DEF CleanupServices, StopAll, IndInv, CleanupReached
        <2> QED BY <2>3, <2>4, <2>5 DEF IndInv
    <1>8. CASE CleanupReports
        BY <1>8 DEF CleanupReports, IndInv, TypeOK, SurvivorRecorded, CleanupReached, Idle
    <1>9. CASE CleanupDeproxy
        <2>1. up' \in [Services -> BOOLEAN]
            BY <1>9 DEF CleanupDeproxy, CloseSockets, IndInv, TypeOK
        <2>2. TypeOK'
            BY <1>9, <2>1 DEF CleanupDeproxy, CloseSockets, IndInv, TypeOK
        <2>3. SurvivorRecorded'
            BY <1>9 DEF CleanupDeproxy, CloseSockets, IndInv, SurvivorRecorded
        <2>4. CleanupReached'
            BY <1>9, ServicesAssumption
            DEF CleanupDeproxy, CloseSockets, IndInv, TypeOK, CleanupReached, Idle, Services
        <2> QED BY <2>2, <2>3, <2>4 DEF IndInv
    <1>10. ASSUME NEW s \in Services, StopProcedure(s) PROVE IndInv'
        BY <1>10, StopPreserves
    <1>11. ASSUME NEW s \in Services, StartTask(s) PROVE IndInv'
        <2>1. Idle
            BY <1>11 DEF StartTask, IndInv, CleanupReached
        <2> QED BY <1>11, <2>1, StartPreserves DEF StartTask, IndInv, TypeOK
    <1>12. ASSUME NEW s \in Services, BodyStop(s) PROVE IndInv'
        <2>1. left' \in [Services -> Nat] /\ \A t \in Services : left'[t] <= StopProcs[t]
            <3>1. /\ left \in [Services -> Nat] /\ \A t \in Services : left[t] <= StopProcs[t]
                  /\ StopProcs \in [Services -> Nat]
                BY StopProcsAssumption DEF IndInv, TypeOK
            <3>2. left' = [left EXCEPT ![s] = IF MayStop(state[s]) THEN StopProcs[s] ELSE 0]
                BY <1>12 DEF BodyStop, Stop
            <3> QED BY <3>1, <3>2
        <2>2. TypeOK'
            BY <1>12, <2>1, MaxOpsAssumption DEF BodyStop, IndInv, TypeOK
        <2>3. SurvivorRecorded'
            BY <1>12, StopProcsAssumption
            DEF BodyStop, Stop, IndInv, TypeOK, SurvivorRecorded, Idle
        <2>4. CleanupReached'
            BY <1>12 DEF BodyStop, IndInv, CleanupReached
        <2> QED BY <2>2, <2>3, <2>4 DEF IndInv
    <1>13. ASSUME NEW s \in Services, BodyStart(s) PROVE IndInv'
        <2>1. ops' \in 0 .. MaxOps
            BY <1>13, MaxOpsAssumption DEF BodyStart, IndInv, TypeOK
        <2> QED BY <1>13, <2>1, StartPreserves DEF BodyStart, IndInv, TypeOK
    <1>14. CASE UNCHANGED vars
        BY <1>14 DEF vars, IndInv, TypeOK, SurvivorRecorded, CleanupReached, Idle
    <1> QED
        BY <1>1, <1>2, <1>3, <1>4, <1>5, <1>6, <1>7, <1>8, <1>9, <1>10, <1>11, <1>12, <1>13, <1>14
        DEF Next

\* The invariant holds in every reachable state, for every set of services and
\* every number of stop procedures.
THEOREM IndInvHolds == Spec => []IndInv
    BY InitIndInv, Inductive, PTL DEF Spec

\* Type correctness of the model of start_all_services, the body and cleanup.
THEOREM TypeCorrect == Spec => []TypeOK
    <1>1. IndInv => TypeOK
        BY DEF IndInv
    <1> QED BY <1>1, IndInvHolds, PTL

\* cleanup_services and cleanup_deproxy leave no service running unreported, and
\* none in a state in which stop() would still act.
THEOREM SurvivorsReported == Spec => [](SurvivorIsReported /\ CleanupStopsAll)
    <1>1. ASSUME IndInv, phase \in {"deproxy", "end"}, NEW s \in Services
          PROVE  ~MayStop(state[s]) /\ left[s] = 0
        BY <1>1, StopProcsAssumption DEF IndInv, TypeOK, CleanupReached, Idle
    <1>2. IndInv => CleanupStopsAll
        BY <1>1 DEF CleanupStopsAll
    <1>3. IndInv => SurvivorIsReported
        BY <1>1, StopProcsAssumption
        DEF IndInv, TypeOK, SurvivorIsReported, SurvivorRecorded, CleanupReached
    <1> QED BY <1>2, <1>3, IndInvHolds, PTL

=============================================================================
