------------------------ MODULE DeproxyServerProofs -------------------------
(***************************************************************************)
(* Proofs about DeproxyServer: stop() and the tasks that accept            *)
(* connections keep the runs of a server apart, and wait_until_event loses *)
(* no wakeup, for any number of connections, coroutines, requests and      *)
(* restarts.                                                               *)
(***************************************************************************)
EXTENDS DeproxyServer, SequenceTheorems, TLAPS

Wait == [pc : {"idle", "waiting"}, goal : Goals \cup {Idle.goal}, woken : BOOLEAN,
         result : {"none", "None", "True", "False"}, run : 0..MaxRuns]

\* The state of a server goes round: it is started once in a run, and stop() acts on
\* a started server only.
CycleInv ==
    /\ state \in {STATE_STOPPED, STATE_BEGIN_START, STATE_STARTED}
    /\ stop.pc # "idle" => state = STATE_STARTED

\* Where a connection that was accepted can be: in the list, or known to be left over,
\* as long as it is open; left over or of this run until it is removed; and nothing
\* but what is left over outlives a run.
ConnInv ==
    \A c \in Conns : accepted[c] = "yes" =>
        /\ conn[c].phase = "open" => c \in list \/ c \in left
        /\ conn[c].phase = "open" /\ stop.pc # "idle" => c \in left
        /\ conn[c].phase # "removed" => born[c] = run \/ c \in left
        /\ conn[c].phase # "removed" /\ state # STATE_STARTED => c \in left

\* The requests are those of accepted connections; in a stopped server, of connections
\* that were left over.
RequestInv ==
    \A i \in 1..Len(requests) :
        /\ accepted[requests[i]] = "yes"
        /\ born[requests[i]] = run \/ requests[i] \in left
        /\ state = STATE_STOPPED => requests[i] \in left

\* A coroutine sleeps for one of its goals; one that waits for connections has begun
\* in an earlier run when a new one is starting.
WaitInv ==
    \A w \in Waiters : wait[w].pc = "waiting" =>
        /\ wait[w].goal \in Goals
        /\ wait[w].run <= run
        /\ wait[w].goal.ev = "connection" /\ state = STATE_BEGIN_START => wait[w].run < run

\* The inductive invariant.
IndInv ==
    /\ TypeOK /\ wait \in [Waiters -> Wait] /\ born \in [Conns -> 0..MaxRuns]
    /\ CycleInv /\ ConnInv /\ RequestInv /\ WaitInv /\ NoLostWakeup

-----------------------------------------------------------------------------
(* What the operators do. *)

USE DEF STATE_STOPPED, STATE_BEGIN_START, STATE_STARTED, STATE_ERROR

\* Event.set() keeps the types and what every coroutine waits for; the sleepers that
\* it does not wake wait for the other event.
LEMMA FireEffect ==
    ASSUME NEW e \in {"request", "connection"}, Fire(e), IndInv
    PROVE  /\ ev' \in [{"request", "connection"} -> BOOLEAN]
           /\ wait' \in [Waiters -> Wait]
           /\ \A w \in Waiters : /\ wait'[w].pc = wait[w].pc
                                 /\ wait'[w].goal = wait[w].goal
                                 /\ wait'[w].run = wait[w].run
                                 /\ wait[w].woken => wait'[w].woken
                                 /\ wait[w].pc = "waiting" /\ wait[w].goal.ev = e
                                      => wait'[w].woken
<1>1. ev' \in [{"request", "connection"} -> BOOLEAN]
  BY DEF Fire, IndInv, TypeOK
<1>2. ASSUME NEW w \in Waiters
      PROVE  /\ wait'[w] \in Wait
             /\ wait'[w].pc = wait[w].pc /\ wait'[w].goal = wait[w].goal
             /\ wait'[w].run = wait[w].run
             /\ wait[w].woken => wait'[w].woken
             /\ wait[w].pc = "waiting" /\ wait[w].goal.ev = e => wait'[w].woken
  <2>1. wait[w] \in Wait
    BY DEF IndInv
  <2>2. wait'[w] = IF wait[w].pc = "waiting" /\ wait[w].goal.ev = e
                   THEN [wait[w] EXCEPT !.woken = TRUE] ELSE wait[w]
    BY DEF Fire
  <2> QED
    BY <2>1, <2>2 DEF Wait
<1>3. wait' = [w \in Waiters |-> wait'[w]]
  BY DEF Fire
<1> QED
  BY <1>1, <1>2, <1>3

\* A round of wait_until_event keeps the invariant: it puts the coroutine to sleep
\* only if the coroutine has to wait.
LEMMA RoundPreserves ==
    ASSUME NEW w \in Waiters, NEW goal \in Goals, NEW set \in BOOLEAN, Round(w, goal, set), IndInv,
           goal.ev \in {"request", "connection"}
    PROVE  IndInv'
<1>1. UNCHANGED <<state, serving, run, accepted, conn, list, requests, stop, born, left>>
  BY DEF Round
<1>2. ev' \in [{"request", "connection"} -> BOOLEAN]
  BY DEF Round, IndInv, TypeOK
<1>3. \/ /\ WaitCond(goal) /\ ~AbortCond(goal)
         /\ wait'[w] = [pc |-> "waiting", goal |-> goal, woken |-> set, result |-> "none",
                        run |-> run]
      \/ \E r \in {"None", "True"} : wait'[w] = [Idle EXCEPT !.result = r]
  BY DEF Round, IndInv
<1>4. \A v \in Waiters \ {w} : wait'[v] = wait[v]
  BY DEF Round, IndInv
<1>5. wait'[w] \in Wait
  <2>1. run \in 0..MaxRuns /\ 0 \in 0..MaxRuns
    BY BoundsAssumption DEF IndInv, TypeOK
  <2>2. [pc |-> "waiting", goal |-> goal, woken |-> set, result |-> "none", run |-> run] \in Wait
    BY <2>1 DEF Wait
  <2>3. \A r \in {"None", "True"} : [Idle EXCEPT !.result = r] \in Wait
    BY <2>1 DEF Wait, Idle
  <2> QED
    BY <2>2, <2>3, <1>3
<1>6. wait' \in [Waiters -> Wait]
  BY <1>5 DEF Round, IndInv
<1>7. TypeOK'
  BY <1>1, <1>2, <1>6 DEF IndInv, TypeOK, Wait
<1>8. CycleInv' /\ ConnInv' /\ RequestInv'
  BY <1>1 DEF IndInv, CycleInv, ConnInv, RequestInv
<1>9. WaitInv' /\ NoLostWakeup'
  <2> SUFFICES ASSUME NEW v \in Waiters, wait'[v].pc = "waiting"
               PROVE  /\ wait'[v].goal \in Goals
                      /\ wait'[v].run <= run
                      /\ wait'[v].goal.ev = "connection" /\ state = STATE_BEGIN_START
                            => wait'[v].run < run
                      /\ ~wait'[v].woken
                            /\ (wait'[v].goal.ev = "connection"
                                  => state = STATE_STARTED /\ wait'[v].run = run)
                            => WaitCond(wait'[v].goal)
    BY <1>1 DEF WaitInv, NoLostWakeup, WaitCond
  <2>1. CASE v # w
    BY <2>1, <1>4 DEF IndInv, WaitInv, NoLostWakeup
  <2>2. CASE v = w
    <3>1. /\ WaitCond(goal) /\ ~AbortCond(goal)
          /\ wait'[w] = [pc |-> "waiting", goal |-> goal, woken |-> set, result |-> "none",
                         run |-> run]
      BY <1>3, <2>2 DEF Idle
    <3>2. run \in 0..MaxRuns
      BY DEF IndInv, TypeOK
    <3> QED
      BY <3>1, <3>2, <2>2 DEF AbortCond
  <2> QED
    BY <2>1, <2>2
<1> QED
  BY <1>1, <1>6, <1>7, <1>8, <1>9 DEF IndInv

\* The goals of the coroutines.
LEMMA GoalType ==
    \A g \in Goals : /\ g.ev \in {"request", "connection"} /\ g.n \in Nat
                     /\ g.ev = "request" => g.n > 0
  BY DEF Goals

\* After Event.set() only the coroutines that wait for the other event can be asleep.
LEMMA FireWait ==
    ASSUME NEW e \in {"request", "connection"}, Fire(e), IndInv, UNCHANGED <<state, run>>,
           e = "request" => list' = list,
           e = "connection" => requests' = requests
    PROVE  WaitInv' /\ NoLostWakeup'
<1> USE FireEffect
<1>1. WaitInv'
  BY DEF IndInv, WaitInv
<1>2. ASSUME NEW w \in Waiters, wait'[w].pc = "waiting", ~wait'[w].woken,
             wait'[w].goal.ev = "connection" => state = STATE_STARTED /\ wait'[w].run = run
      PROVE  WaitCond(wait[w].goal)'
  <2>1. wait[w].pc = "waiting" /\ ~wait[w].woken /\ wait'[w].goal = wait[w].goal
          /\ wait[w].goal.ev # e
    BY <1>2
  <2>2. wait[w].goal.ev \in {"request", "connection"}
    BY <2>1, GoalType DEF IndInv, WaitInv
  <2>3. WaitCond(wait[w].goal)
    BY <1>2, <2>1 DEF IndInv, NoLostWakeup
  <2> QED
    BY <2>1, <2>2, <2>3 DEF WaitCond
<1> QED
  BY <1>1, <1>2 DEF NoLostWakeup

-----------------------------------------------------------------------------
(* The invariant. *)

\* Before the first start() the invariant holds.
LEMMA InitIndInv == Init => IndInv
<1> SUFFICES ASSUME Init PROVE IndInv
  OBVIOUS
<1>1. 0 \in 0..MaxRuns /\ 0 \in 0..MaxReq /\ 0 \in 0..(MaxReq + 1)
  BY BoundsAssumption
<1>2. Idle \in Wait /\ Idle.pc = "idle"
  BY <1>1 DEF Idle, Wait
<1>3. C!NewConn(FALSE) \in C!Conn
  BY <1>1 DEF C!NewConn, C!Conn
<1>4. TypeOK
  <2>1. /\ accepted \in [Conns -> {"no", "scheduled", "yes"}] /\ conn \in [Conns -> C!Conn]
        /\ ev \in [{"request", "connection"} -> BOOLEAN]
    BY <1>3 DEF Init
  <2>2. list = {} /\ left = {} /\ requests \in Seq(Conns)
    BY DEF Init
  <2>3. stop.pc = "idle" /\ stop.todo = {} /\ \A w \in Waiters : wait[w].pc = "idle"
    BY <1>2 DEF Init
  <2>4. state \in States /\ serving \in BOOLEAN /\ run \in 0..MaxRuns
    BY <1>1 DEF Init, States
  <2> QED
    BY <2>1, <2>2, <2>3, <2>4 DEF TypeOK
<1>5. CycleInv /\ ConnInv /\ RequestInv
  BY DEF Init, CycleInv, ConnInv, RequestInv
<1>6. WaitInv /\ NoLostWakeup
  BY <1>2 DEF Init, WaitInv, NoLostWakeup
<1> QED
  BY <1>1, <1>2, <1>4, <1>5, <1>6 DEF Init, IndInv

\* What a connection may become keeps its type, and its phase only moves on.
LEMMA ConnStep ==
    ASSUME NEW c \in Conns, IndInv,
           NEW d \in C!Receives(conn[c]) \cup C!Closes(conn[c]) \cup C!Removes(conn[c])
    PROVE  /\ d \in C!Conn
           /\ d.phase = "open" => conn[c].phase = "open"
           /\ d.phase # "removed" => conn[c].phase # "removed"
<1>1. conn[c] \in C!Conn /\ MaxReq \in Nat
  BY BoundsAssumption DEF IndInv, TypeOK
<1>2. CASE d \in C!Receives(conn[c])
  <2>1. PICK n \in (conn[c].got + 1)..MaxReq,
             p \in {conn[c].phase} \cup (IF conn[c].phase = "open" THEN {"closing"} ELSE {}) :
               d = C!Received(conn[c], n, p)
    BY <1>2 DEF C!Receives
  <2>2. n \in 0..MaxReq
    BY <1>1 DEF C!Conn
  <2>3. p = conn[c].phase \/ (conn[c].phase = "open" /\ p = "closing")
    BY <2>1
  <2> QED
    BY <1>1, <2>1, <2>2, <2>3 DEF C!Conn, C!Received
<1>3. CASE d \in C!Closes(conn[c])
  BY <1>1, <1>3 DEF C!Conn, C!Closes
<1>4. CASE d \in C!Removes(conn[c])
  BY <1>1, <1>4 DEF C!Conn, C!Removes
<1> QED
  BY <1>2, <1>3, <1>4

\* start() and stop() change what the coroutines wait for only in StopEnds.
LEMMA StartStopPreserves ==
    ASSUME IndInv, Start \/ Started \/ ResetNewConnections \/ StopBegins \/ StopGathered
    PROVE  IndInv'
<1> USE DEF IndInv
<1>1. CASE Start
  <2>1. run' = run + 1 /\ run' \in 0..MaxRuns /\ state = STATE_STOPPED /\ stop.pc = "idle"
          /\ state' = STATE_BEGIN_START
    BY <1>1, BoundsAssumption DEF Start, MayStart, TypeOK
  <2>2. TypeOK' /\ wait' \in [Waiters -> Wait] /\ born' \in [Conns -> 0..MaxRuns]
    BY <1>1, <2>1 DEF Start, TypeOK, States
  <2>3. CycleInv' /\ ConnInv' /\ RequestInv'
    BY <1>1, <2>1 DEF Start, CycleInv, ConnInv, RequestInv
  <2>4. WaitInv'
    BY <1>1, <2>1 DEF Start, WaitInv, Wait, TypeOK
  <2>5. NoLostWakeup'
    BY <1>1, <2>1 DEF Start, NoLostWakeup, WaitCond
  <2> QED
    BY <2>2, <2>3, <2>4, <2>5
<1>2. CASE Started
  <2>1. TypeOK' /\ wait' \in [Waiters -> Wait] /\ born' \in [Conns -> 0..MaxRuns]
    BY <1>2 DEF Started, TypeOK, States
  <2>2. CycleInv' /\ ConnInv' /\ RequestInv' /\ WaitInv'
    BY <1>2 DEF Started, CycleInv, ConnInv, RequestInv, WaitInv
  <2>3. NoLostWakeup'
    BY <1>2 DEF Started, NoLostWakeup, WaitCond, WaitInv, TypeOK, Wait
  <2> QED
    BY <2>1, <2>2, <2>3
<1>3. CASE ResetNewConnections
  BY <1>3 DEF ResetNewConnections, TypeOK, CycleInv, ConnInv, RequestInv, WaitInv, NoLostWakeup,
     WaitCond
<1>4. CASE StopBegins
  <2> DEFINE closed(c) == IF c \in list /\ conn[c].phase = "open"
                          THEN [conn[c] EXCEPT !.phase = "closing"] ELSE conn[c]
  <2>1. /\ state = STATE_STARTED /\ stop.pc = "idle" /\ serving' = FALSE
        /\ conn' = [c \in Conns |-> closed(c)]
        /\ stop' = [pc |-> "gather", todo |-> {c \in list : conn[c].phase = "open"}]
        /\ UNCHANGED <<state, run, accepted, list, requests, ev, wait, born, left>>
    BY <1>4 DEF StopBegins
  <2>2. ASSUME NEW c \in Conns
        PROVE  /\ closed(c) \in C!Conn
               /\ closed(c).phase = "open" => conn[c].phase = "open" /\ c \notin list
               /\ closed(c).phase # "removed" => conn[c].phase # "removed"
    BY DEF TypeOK, C!Conn
  <2> HIDE DEF closed
  <2>3. TypeOK'
    BY <2>1, <2>2 DEF TypeOK
  <2>4. ConnInv'
    BY <2>1, <2>2 DEF ConnInv
  <2>5. CycleInv' /\ RequestInv' /\ WaitInv' /\ NoLostWakeup'
    BY <2>1 DEF CycleInv, RequestInv, WaitInv, NoLostWakeup, WaitCond
  <2> QED
    BY <2>1, <2>3, <2>4, <2>5
<1>5. CASE StopGathered
  BY <1>5 DEF StopGathered, TypeOK, CycleInv, ConnInv, RequestInv, WaitInv, NoLostWakeup, WaitCond
<1> QED
  BY <1>1, <1>2, <1>3, <1>4, <1>5

\* The end of stop(): what is not left over was removed, and what it empties the
\* coroutines do not wait for any more.
LEMMA StopEndsPreserves ==
    ASSUME IndInv, StopEnds
    PROVE  IndInv'
<1> USE DEF IndInv
<1>1. state = STATE_STARTED /\ stop.pc = "wait_closed"
  BY DEF StopEnds, CycleInv
<1>2. /\ stop' = [pc |-> "idle", todo |-> {}] /\ list' = {} /\ requests' = <<>>
      /\ state' = STATE_STOPPED
      /\ left' = left \cup {c \in Conns : accepted[c] = "yes" /\ conn[c].phase = "closing"}
      /\ UNCHANGED <<serving, run, accepted, conn, wait, born>>
  BY DEF StopEnds
<1>3. TypeOK'
  <2>1. ev' \in [{"request", "connection"} -> BOOLEAN]
    BY DEF StopEnds, TypeOK
  <2> QED
    BY <1>2, <2>1 DEF TypeOK, States
<1>4. ConnInv'
  <2>1. \A c \in Conns : conn[c].phase \in {"open", "closing", "removed"}
    BY DEF TypeOK, C!Conn
  <2> QED
    BY <1>1, <1>2, <2>1 DEF ConnInv
<1>5. CycleInv' /\ RequestInv' /\ WaitInv'
  BY <1>2 DEF CycleInv, RequestInv, WaitInv
<1>6. NoLostWakeup'
  <2> SUFFICES ASSUME NEW w \in Waiters, wait[w].pc = "waiting", wait[w].goal.ev # "connection"
               PROVE  WaitCond(wait[w].goal)'
    BY <1>2 DEF NoLostWakeup
  <2>1. wait[w].goal.ev = "request" /\ wait[w].goal.n > 0
    BY GoalType DEF WaitInv
  <2> QED
    BY <1>2, <2>1 DEF WaitCond
<1> QED
  BY <1>2, <1>3, <1>4, <1>5, <1>6

\* A new connection, and the task that accepts it.
LEMMA AcceptPreserves ==
    ASSUME IndInv, NEW c \in Conns, Connect(c) \/ Accept(c)
    PROVE  IndInv'
<1> USE DEF IndInv
<1>1. CASE Connect(c)
  <2>1. TypeOK' /\ born' \in [Conns -> 0..MaxRuns]
    BY <1>1 DEF Connect, TypeOK
  <2>2. \A d \in Conns : /\ accepted'[d] = "yes" <=> accepted[d] = "yes"
                         /\ accepted[d] = "yes" => born'[d] = born[d]
    BY <1>1 DEF Connect, TypeOK
  <2>3. ConnInv' /\ CycleInv'
    BY <1>1, <2>2 DEF Connect, ConnInv, CycleInv
  <2>4. RequestInv'
    <3>1. \A i \in 1..Len(requests) : requests[i] \in Conns
      BY DEF TypeOK
    <3> QED
      BY <1>1, <2>2, <3>1 DEF Connect, RequestInv
  <2>5. WaitInv' /\ NoLostWakeup'
    BY <1>1 DEF Connect, WaitInv, NoLostWakeup, WaitCond
  <2> QED
    BY <1>1, <2>1, <2>3, <2>4, <2>5 DEF Connect
<1>2. CASE Accept(c)
  <2>1. /\ accepted' = [accepted EXCEPT ![c] = "yes"] /\ list' = list \cup {c}
        /\ left' = left \/ left' = left \cup {c}
        /\ ~(state = STATE_STARTED /\ stop.pc = "idle" /\ born[c] = run) => c \in left'
        /\ Fire("connection")
        /\ UNCHANGED <<state, serving, run, conn, requests, stop, born>>
    BY <1>2 DEF Accept
  <2>2. WaitInv' /\ NoLostWakeup'
    BY <2>1, FireWait
  <2>3. TypeOK' /\ wait' \in [Waiters -> Wait]
    <3>1. ev' \in [{"request", "connection"} -> BOOLEAN] /\ wait' \in [Waiters -> Wait]
      BY <2>1, FireEffect
    <3> QED
      BY <2>1, <3>1 DEF TypeOK, Wait
  <2>4. ConnInv'
    BY <2>1 DEF ConnInv, TypeOK
  <2>5. CycleInv'
    BY <2>1 DEF CycleInv
  <2>6. RequestInv'
    <3>1. \A i \in 1..Len(requests) : requests[i] \in Conns
      BY DEF TypeOK
    <3> QED
      BY <2>1, <3>1 DEF RequestInv, TypeOK
  <2> QED
    BY <2>1, <2>2, <2>3, <2>4, <2>5, <2>6
<1> QED
  BY <1>1, <1>2

\* A request of a connection of this run, or of one that is left over.
LEMMA RequestPreserves ==
    ASSUME IndInv, NEW c \in Conns, Request(c)
    PROVE  IndInv'
<1> USE DEF IndInv
<1>1. PICK d \in C!Receives(conn[c]) : conn' = [conn EXCEPT ![c] = d]
  BY DEF Request
<1>2. /\ accepted[c] = "yes"
      /\ conn[c].phase = "removed" => born[c] = run /\ state # STATE_STOPPED
      /\ requests' = Append(requests, c) /\ Fire("request")
      /\ UNCHANGED <<state, serving, run, accepted, list, stop, born, left>>
  BY DEF Request
<1>3. /\ d \in C!Conn
      /\ d.phase = "open" => conn[c].phase = "open"
      /\ d.phase # "removed" => conn[c].phase # "removed"
  BY ConnStep
<1>4. WaitInv' /\ NoLostWakeup'
  BY <1>2, FireWait
<1>5. TypeOK' /\ wait' \in [Waiters -> Wait]
  <2>1. ev' \in [{"request", "connection"} -> BOOLEAN] /\ wait' \in [Waiters -> Wait]
    BY <1>2, FireEffect
  <2>2. requests' \in Seq(Conns)
    BY <1>2, AppendProperties DEF TypeOK
  <2>3. conn' \in [Conns -> C!Conn]
    BY <1>1, <1>3 DEF TypeOK
  <2> QED
    BY <1>2, <2>1, <2>2, <2>3 DEF TypeOK, Wait
<1>6. ConnInv'
  BY <1>1, <1>2, <1>3 DEF ConnInv, TypeOK
<1>7. CycleInv'
  BY <1>2 DEF CycleInv
<1>8. RequestInv'
  <2>1. (born[c] = run \/ c \in left) /\ (state = STATE_STOPPED => c \in left)
    BY <1>2 DEF ConnInv
  <2>2. ASSUME NEW i \in 1..Len(requests')
        PROVE  requests'[i] = c \/ (i \in 1..Len(requests) /\ requests'[i] = requests[i])
    BY <1>2, AppendProperties DEF TypeOK
  <2> QED
    BY <1>2, <2>1, <2>2 DEF RequestInv
<1> QED
  BY <1>2, <1>4, <1>5, <1>6, <1>7, <1>8

\* close() and its end, whoever called it.
LEMMA ClosePreserves ==
    ASSUME IndInv, NEW c \in Conns, Close(c) \/ Closed(c)
    PROVE  IndInv'
<1> USE DEF IndInv
<1>1. PICK d \in C!Closes(conn[c]) \cup C!Removes(conn[c]) :
             /\ conn' = [conn EXCEPT ![c] = d]
             /\ Close(c) \/ (Closed(c) /\ d \in C!Removes(conn[c]))
  BY DEF Close, Closed
<1>2. /\ d \in C!Conn
      /\ d.phase = "open" => conn[c].phase = "open"
      /\ d.phase # "removed" => conn[c].phase # "removed"
  BY ConnStep
<1>3. conn' \in [Conns -> C!Conn]
  BY <1>1, <1>2 DEF TypeOK
<1>4. UNCHANGED <<state, serving, run, accepted, requests, stop, born, left>>
  BY DEF Close, Closed
<1>5. list' = list \/ (list' = list \ {c} /\ d.phase = "removed")
  <2>1. d \in C!Removes(conn[c]) => d.phase = "removed"
    BY DEF C!Removes, TypeOK, C!Conn
  <2> QED
    BY <1>1, <2>1 DEF Close, Closed
<1>6. CycleInv' /\ RequestInv'
  BY <1>4 DEF CycleInv, RequestInv
<1>7. ConnInv'
  BY <1>1, <1>2, <1>4, <1>5 DEF ConnInv, TypeOK
<1>8. CASE UNCHANGED <<ev, wait, list>>
  BY <1>3, <1>4, <1>6, <1>7, <1>8 DEF TypeOK, WaitInv, NoLostWakeup, WaitCond
<1>9. CASE Fire("connection")
  <2>1. ev' \in [{"request", "connection"} -> BOOLEAN] /\ wait' \in [Waiters -> Wait]
    BY <1>9, FireEffect
  <2>2. WaitInv' /\ NoLostWakeup'
    BY <1>4, <1>9, FireWait
  <2>3. TypeOK'
    BY <1>3, <1>4, <1>5, <2>1 DEF TypeOK, Wait
  <2> QED
    BY <1>4, <1>6, <1>7, <2>1, <2>2, <2>3
<1> QED
  BY <1>8, <1>9 DEF Close, Closed

\* The inductive step.
THEOREM Inductive == IndInv /\ [Next]_vars => IndInv'
<1> SUFFICES ASSUME IndInv, [Next]_vars PROVE IndInv'
  OBVIOUS
<1>1. CASE Start \/ Started \/ ResetNewConnections \/ StopBegins \/ StopGathered
  BY <1>1, StartStopPreserves
<1>2. CASE StopEnds
  BY <1>2, StopEndsPreserves
<1>3. ASSUME NEW c \in Conns, Connect(c) \/ Accept(c) PROVE IndInv'
  BY <1>3, AcceptPreserves
<1>4. ASSUME NEW c \in Conns, Request(c) PROVE IndInv'
  BY <1>4, RequestPreserves
<1>5. ASSUME NEW c \in Conns, Close(c) \/ Closed(c) PROVE IndInv'
  BY <1>5, ClosePreserves
<1>6. ASSUME NEW w \in Waiters, NEW goal \in Goals, Call(w, goal) PROVE IndInv'
  <2>1. goal.ev \in {"request", "connection"}
    BY GoalType
  <2>2. ev[goal.ev] \in BOOLEAN
    BY <2>1 DEF IndInv, TypeOK
  <2> QED
    BY <1>6, <2>1, <2>2, RoundPreserves DEF Call
<1>7. ASSUME NEW w \in Waiters, NextRound(w) PROVE IndInv'
  <2>1. wait[w].goal \in Goals
    BY <1>7 DEF NextRound, IndInv, WaitInv
  <2>2. wait[w].goal.ev \in {"request", "connection"}
    BY <2>1, GoalType
  <2> QED
    BY <1>7, <2>1, <2>2, RoundPreserves DEF NextRound
<1>8. ASSUME NEW w \in Waiters, TimesOut(w) PROVE IndInv'
  <2>1. /\ wait'[w].pc = "idle" /\ wait'[w] \in Wait
        /\ \A v \in Waiters \ {w} : wait'[v] = wait[v]
        /\ wait' \in [Waiters -> Wait]
    <3>1. 0 \in 0..MaxRuns
      BY BoundsAssumption
    <3>2. \A r \in {"True", "False"} : [Idle EXCEPT !.result = r] \in Wait
      BY <3>1 DEF Wait, Idle
    <3>3. \A r \in {"True", "False"} : [Idle EXCEPT !.result = r].pc = "idle"
      BY DEF Idle
    <3>4. PICK r \in {"True", "False"} : wait' = [wait EXCEPT ![w] = [Idle EXCEPT !.result = r]]
      BY <1>8 DEF TimesOut
    <3> QED
      BY <3>2, <3>3, <3>4 DEF IndInv
  <2>2. UNCHANGED <<state, serving, run, accepted, conn, list, requests, ev, stop, born, left>>
    BY <1>8 DEF TimesOut
  <2>3. TypeOK' /\ CycleInv' /\ ConnInv' /\ RequestInv'
    BY <2>1, <2>2 DEF IndInv, TypeOK, CycleInv, ConnInv, RequestInv, Wait
  <2>4. WaitInv' /\ NoLostWakeup'
    BY <2>1, <2>2 DEF IndInv, WaitInv, NoLostWakeup, WaitCond
  <2> QED
    BY <2>1, <2>2, <2>3, <2>4 DEF IndInv
<1>9. CASE UNCHANGED vars
  BY <1>9 DEF vars, IndInv, TypeOK, CycleInv, ConnInv, RequestInv, WaitInv, NoLostWakeup, WaitCond
<1> QED
  BY <1>1, <1>2, <1>3, <1>4, <1>5, <1>6, <1>7, <1>8, <1>9 DEF Next

\* The invariant holds of every reachable state.
THEOREM IndInvHolds == Spec => []IndInv
  BY InitIndInv, Inductive, PTL DEF Spec

\* wait_until_event loses no wakeup: however many coroutines wait for the same event
\* and clear it, one that sleeps and is not due to run has something to wait for.
THEOREM WakeupsKept == Spec => []NoLostWakeup
<1>1. IndInv => NoLostWakeup
  BY DEF IndInv
<1> QED
  BY <1>1, IndInvHolds, PTL

\* stop() closes the connections of its run, those excepted that were accepted too
\* late for it, and the requests that a test counts are those of its own run or of
\* such connections.
THEOREM RunsKeptApart == Spec => []ConnectionsApart
<1>1. IndInv => TypeOK
  BY DEF IndInv
<1>2. IndInv => StopClosesAll
  BY DEF IndInv, ConnInv, StopClosesAll
<1>3. IndInv => RunsApart
  BY DEF IndInv, RequestInv, RunsApart
<1>4. IndInv => ConnectionsApart
  BY <1>1, <1>2, <1>3 DEF ConnectionsApart
<1> QED
  BY <1>4, IndInvHolds, PTL

=============================================================================
