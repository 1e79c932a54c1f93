--------------------------- MODULE DeproxyServer ----------------------------
(***************************************************************************)
(* StaticDeproxyServer of framework/deproxy/deproxy_server.py: start and   *)
(* stop, the tasks that accept connections, several connections (each      *)
(* known by what Connection promises), and the test's coroutines in        *)
(* wait_until_event of framework/helpers/util.py.  All run on one event    *)
(* loop, so a step lasts from one await to the next.                       *)
(*                                                                         *)
(* Whether Server.wait_closed() waits for the connections depends on the   *)
(* version of Python (since 3.12 it does), which the framework leaves open.*)
(***************************************************************************)
EXTENDS Stateful, Integers, Sequences, FiniteSets

CONSTANTS Conns,      \* connections that TempestaFW opens during the test
          Waiters,    \* coroutines of the test that wait for the server
          MaxReq,     \* bound: requests on a connection
          MaxRuns     \* bound: calls of start()

ASSUME BoundsAssumption == MaxReq \in Nat /\ MaxRuns \in Nat

VARIABLES
    state,      \* Stateful.state
    serving,    \* _server.is_serving(): the listening socket is open
    run,        \* starts so far
    accepted,   \* per connection: no, scheduled (its accept task has not run), yes
    conn,       \* per connection: the record of module Connection
    list,       \* _connections
    requests,   \* _requests: the connection of each
    ev,         \* __request_event and __connection_event
    wait,       \* per waiter: pc, goal, woken, result, run (in which it was called)
    stop,       \* _stop_deproxy: pc, todo (connections whose close() it awaits)
    born, left  \* history: run in which a connection was opened; connections that
                \* a stop() did not see or did not wait for

vars == <<state, serving, run, accepted, conn, list, requests, ev, wait, stop, born, left>>

C == INSTANCE Connection WITH conn <- conn

\* What a coroutine waits for: n requests, or the end of all connections.
Goals == {[ev |-> "request", n |-> n] : n \in 1..2} \cup {[ev |-> "connection", n |-> 0]}

Idle == [pc |-> "idle", goal |-> [ev |-> "none", n |-> 0], woken |-> FALSE, result |-> "none",
         run |-> 0]

Init ==
    /\ state = STATE_STOPPED /\ serving = FALSE /\ run = 0
    /\ accepted = [c \in Conns |-> "no"]
    /\ conn = [c \in Conns |-> C!NewConn(FALSE)]
    /\ list = {} /\ requests = <<>>
    /\ ev = [e \in {"request", "connection"} |-> FALSE]
    /\ wait = [w \in Waiters |-> Idle]
    /\ stop = [pc |-> "idle", todo |-> {}]
    /\ born = [c \in Conns |-> 0] /\ left = {}

\* asyncio.Event.set(): everyone who waits now will run again.
Fire(e) ==
    /\ ev' = [ev EXCEPT ![e] = TRUE]
    /\ wait' = [w \in Waiters |->
                   IF wait[w].pc = "waiting" /\ wait[w].goal.ev = e
                   THEN [wait[w] EXCEPT !.woken = TRUE] ELSE wait[w]]

-----------------------------------------------------------------------------
(* start() and stop(). *)

Start ==
    /\ MayStart(state) /\ run < MaxRuns /\ stop.pc = "idle"
    /\ state' = STATE_BEGIN_START
    /\ run' = run + 1
    /\ UNCHANGED <<serving, accepted, conn, list, requests, ev, wait, stop, born, left>>

\* run_start: asyncio.start_server() returns.
Started ==
    /\ state = STATE_BEGIN_START /\ stop.pc = "idle"
    /\ state' = STATE_STARTED
    /\ serving' = TRUE
    /\ UNCHANGED <<run, accepted, conn, list, requests, ev, wait, stop, born, left>>

\* reset_new_connections: the connections that exist work on.
ResetNewConnections ==
    /\ state = STATE_STARTED /\ serving
    /\ serving' = FALSE
    /\ UNCHANGED <<state, run, accepted, conn, list, requests, ev, wait, stop, born, left>>

\* Mutant of StopBegins: only the listening socket is closed.
StopBeginsListener ==
    /\ MayStop(state) /\ state = STATE_STARTED /\ stop.pc = "idle"
    /\ serving' = FALSE
    /\ stop' = [pc |-> "gather", todo |-> {}]
    /\ UNCHANGED <<state, run, accepted, conn, list, requests, ev, wait, born, left>>

\* _stop_deproxy up to its first await: close() of every connection in a copy of
\* the list.  Those that somebody else is closing are not waited for.
StopBegins ==
    LET open == {c \in list : conn[c].phase = "open"}
    IN  /\ MayStop(state) /\ state = STATE_STARTED /\ stop.pc = "idle"
        /\ serving' = FALSE
        /\ conn' = [c \in Conns |-> IF c \in open THEN [conn[c] EXCEPT !.phase = "closing"]
                                    ELSE conn[c]]
        /\ stop' = [pc |-> "gather", todo |-> open]
        /\ UNCHANGED <<state, run, accepted, list, requests, ev, wait, born, left>>

\* gather() returns; wait_closed() may go on to wait.
StopGathered ==
    /\ stop.pc = "gather"
    /\ \A c \in stop.todo : conn[c].phase = "removed"
    /\ stop' = [pc |-> "wait_closed", todo |-> {}]
    /\ UNCHANGED <<state, serving, run, accepted, conn, list, requests, ev, wait, born, left>>

\* wait_closed() returns, at once or when every connection of the server is closed;
\* clear_stats, and the state that force_stop sets.  A waiter is not told.
StopEnds ==
    /\ stop.pc = "wait_closed"
    /\ stop' = [pc |-> "idle", todo |-> {}]
    /\ list' = {} /\ requests' = <<>>
    /\ ev' = [e \in DOMAIN ev |-> FALSE]
    /\ state' = STATE_STOPPED
    /\ left' = left \cup {c \in Conns : accepted[c] = "yes" /\ conn[c].phase = "closing"}
    /\ UNCHANGED <<serving, run, accepted, conn, wait, born>>

-----------------------------------------------------------------------------
(* Connections. *)

\* TempestaFW connects: the event loop makes a task of _accept_connection.
Connect(c) ==
    /\ serving /\ accepted[c] = "no"
    /\ accepted' = [accepted EXCEPT ![c] = "scheduled"]
    /\ born' = [born EXCEPT ![c] = run]
    /\ UNCHANGED <<state, serving, run, conn, list, requests, ev, wait, stop, left>>

\* _accept_connection, also when stop() has begun or is over.
Accept(c) ==
    /\ accepted[c] = "scheduled"
    /\ accepted' = [accepted EXCEPT ![c] = "yes"]
    /\ list' = list \cup {c}
    /\ left' = IF state = STATE_STARTED /\ stop.pc = "idle" /\ born[c] = run THEN left
               ELSE left \cup {c}
    /\ Fire("connection")
    /\ UNCHANGED <<state, serving, run, conn, requests, stop, born>>

\* The connection hands over a request, with more to come in the same step.
\* _receive_request may end the connection (hang_on_req_num), or the test has set
\* drop_conn_when_request_received.  The read task of a connection that was removed
\* is scheduled by then and runs before the next start() is through.
Request(c) ==
    /\ accepted[c] = "yes"
    /\ conn[c].phase = "removed" => born[c] = run /\ state # STATE_STOPPED
    /\ \E d \in C!Receives(conn[c]) :
          /\ d.got = conn[c].got + 1
          /\ conn' = [conn EXCEPT ![c] = d]
    /\ requests' = Append(requests, c)
    /\ Fire("request")
    /\ UNCHANGED <<state, serving, run, accepted, list, stop, born, left>>

\* close() by a task of the connection (FIN, RST, keep_alive) or by the test.
Close(c) ==
    /\ accepted[c] = "yes"
    /\ \E d \in C!Closes(conn[c]) : conn' = [conn EXCEPT ![c] = d]
    /\ UNCHANGED <<state, serving, run, accepted, list, requests, ev, wait, stop, born, left>>

\* Mutant of Closed: the connection is taken off the list in silence.
ClosedSilently(c) ==
    /\ \E d \in C!Removes(conn[c]) : conn' = [conn EXCEPT ![c] = d]
    /\ list' = list \ {c}
    /\ UNCHANGED <<state, serving, run, accepted, requests, ev, wait, stop, born, left>>

\* The end of close(): remove_connection, if this run's list has the connection.
Closed(c) ==
    /\ \E d \in C!Removes(conn[c]) : conn' = [conn EXCEPT ![c] = d]
    /\ list' = list \ {c}
    /\ IF c \in list THEN Fire("connection") ELSE UNCHANGED <<ev, wait>>
    /\ UNCHANGED <<state, serving, run, accepted, requests, stop, born, left>>

-----------------------------------------------------------------------------
(* wait_for_requests and wait_for_connections_closed: wait_until_event. *)

WaitCond(goal) == IF goal.ev = "request" THEN Len(requests) < goal.n ELSE list # {}
AbortCond(goal) == IF goal.ev = "request" THEN ~serving ELSE state # STATE_STARTED

\* A round of the loop, from the test of wait_cond to the next await; `set' is the
\* event as the round finds it.
Round(w, goal, set) ==
    /\ ev' = [ev EXCEPT ![goal.ev] = set]
    /\ wait' = [wait EXCEPT ![w] =
          IF WaitCond(goal) /\ ~AbortCond(goal)
          THEN [pc |-> "waiting", goal |-> goal, woken |-> set, result |-> "none", run |-> run]
          ELSE [Idle EXCEPT !.result = IF WaitCond(goal) THEN "None" ELSE "True"]]
    /\ UNCHANGED <<state, serving, run, accepted, conn, list, requests, stop, born, left>>

\* The call.  wait_for_connections_closed asks for a started server first.
Call(w, goal) ==
    /\ wait[w].pc = "idle" /\ wait[w].result = "none" /\ run > 0
    /\ goal.ev = "connection" => state = STATE_STARTED
    /\ Round(w, goal, ev[goal.ev])

\* event.wait() returns and the event is cleared.
NextRound(w) ==
    /\ wait[w].pc = "waiting" /\ wait[w].woken
    /\ Round(w, wait[w].goal, FALSE)

\* The time is up: the condition decides, tested for the last time.
TimesOut(w) ==
    /\ wait[w].pc = "waiting"
    /\ wait' = [wait EXCEPT ![w] = [Idle EXCEPT !.result =
                                        IF WaitCond(wait[w].goal) THEN "False" ELSE "True"]]
    /\ UNCHANGED <<state, serving, run, accepted, conn, list, requests, ev, stop, born, left>>

-----------------------------------------------------------------------------
Next ==
    \/ Start \/ Started \/ ResetNewConnections \/ StopBegins \/ StopGathered \/ StopEnds
    \/ \E c \in Conns : Connect(c) \/ Accept(c) \/ Request(c) \/ Close(c) \/ Closed(c)
    \/ \E w \in Waiters :
          \/ \E goal \in Goals : Call(w, goal)
          \/ NextRound(w) \/ TimesOut(w)

Spec == Init /\ [][Next]_vars

\* No connection of this run is alive: then wait_closed() returns in any version.
Quiet ==
    \A c \in Conns : born[c] = run => accepted[c] = "yes" /\ conn[c].phase = "removed"

\* The event loop runs what is scheduled.  Nothing is assumed of TempestaFW, of the
\* test, or of a wait_closed() that waits for connections.
FairSpec ==
    /\ Spec
    /\ WF_vars(StopGathered) /\ WF_vars(StopEnds /\ Quiet)
    /\ \A c \in Conns : WF_vars(Accept(c)) /\ WF_vars(Closed(c))

-----------------------------------------------------------------------------
(* Properties *)

TypeOK ==
    /\ state \in States /\ serving \in BOOLEAN /\ run \in 0..MaxRuns
    /\ accepted \in [Conns -> {"no", "scheduled", "yes"}]
    /\ conn \in [Conns -> C!Conn]
    /\ list \subseteq {c \in Conns : accepted[c] = "yes"}
    /\ requests \in Seq(Conns)
    /\ ev \in [{"request", "connection"} -> BOOLEAN]
    /\ stop.pc \in {"idle", "gather", "wait_closed"} /\ stop.todo \subseteq Conns
    /\ \A w \in Waiters : wait[w].pc \in {"idle", "waiting"}
    /\ left \subseteq Conns

\* wait_until_event loses no change, although every waiter clears the event that
\* they share: a coroutine that sleeps and is not due to run still has to wait.
\* (A stop() empties the list of connections without a word; the wait for their
\* end that it overtakes goes on until its timeout.)
NoLostWakeup ==
    \A w \in Waiters :
        wait[w].pc = "waiting" /\ ~wait[w].woken
            /\ (wait[w].goal.ev = "connection" => state = STATE_STARTED /\ wait[w].run = run)
          => WaitCond(wait[w].goal)

\* stop() leaves no connection open except those whose accept task ran after it had
\* copied the list.
StopClosesAll ==
    state = STATE_STOPPED =>
        \A c \in Conns : accepted[c] = "yes" /\ conn[c].phase = "open" => c \in left

\* The requests that the test counts were received on connections of this run, or
\* on one that an earlier stop() did not see or did not wait for.
RunsApart ==
    \A i \in 1..Len(requests) : born[requests[i]] = run \/ requests[i] \in left

\* stop() ends, also when the connections are being closed by others meanwhile; only
\* a connection accepted too late can keep it in wait_closed().
StopEndsUnlessLate ==
    (stop.pc # "idle") ~>
        (stop.pc = "idle" \/ \E c \in left : conn[c].phase = "open")

\* The runs of a server are apart: stop() closes the connections of its run, and the
\* next run counts requests of its own.  (And the variables have their types.)
ConnectionsApart == TypeOK /\ StopClosesAll /\ RunsApart

=============================================================================
