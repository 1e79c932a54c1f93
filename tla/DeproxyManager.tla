--------------------------- MODULE DeproxyManager ---------------------------
(***************************************************************************)
(* The polling thread of framework/deproxy/deproxy_manager.py, the deproxy *)
(* clients it drives, and the main thread that starts and stops them       *)
(* (deproxy_base.py, stateful.py) and cleans up after the test             *)
(* (tester.py: cleanup_services, cleanup_deproxy).                         *)
(*                                                                         *)
(* The two threads share asyncore.socket_map, the clients and one          *)
(* threading.Lock.  start() and stop() of a client have no await that      *)
(* suspends, so to the event loop the main thread is one sequential        *)
(* program; every access it shares with the polling thread is a step.      *)
(***************************************************************************)
EXTENDS Stateful, DeproxyAsyncore, FiniteSets

CONSTANTS
    Clients,        \* the deproxy clients of the test, all in manager.clients
    RstClients,     \* those on which the test calls set_rst_tcp_to_closing_connection
    KeepClients,    \* those whose close_connection_for_tcp_fin the test unsets
    MaxPend         \* bound: requests queued and not sent, per client

ASSUME ClientsAssumption == RstClients \subseteq Clients /\ KeepClients \subseteq Clients
ASSUME MaxPendAssumption == MaxPend \in Nat

VARIABLES
    mstate,         \* manager.state
    mexc,           \* manager.exceptions is not empty
    exit,           \* manager._exit_event is set
    cstate,         \* client.state
    cexc,           \* client.exceptions is not empty
    conn,           \* the connection record of each client
    pend,           \* number of requests queued and not sent
    lock,           \* holder of the polling lock: "free", "main" or "poll"
    mpc, mcl,       \* main thread: control point, client it works on
    cleanup,        \* main thread: the test body is over
    todo,           \* main thread: clients that cleanup_services has to stop
    reported,       \* cleanup_services has found an exception to raise
    ppc, ready,     \* polling thread: control point, what poll() returned
    failing,        \* polling thread: clients its state setter has yet to reach
    crashed         \* history: the polling cycle was left by an exception

mainVars == <<mpc, mcl, cleanup, todo, reported>>
pollVars == <<ppc, ready, failing, crashed>>
vars == <<mstate, mexc, exit, cstate, cexc, conn, pend, lock, mainVars, pollVars>>

Flags == {"IN", "OUT", "HUP"}

\* Control points of the main thread at which it is inside a critical section.
MainLocked == {"start_create", "start_connect", "start_rel", "start_fail",
               "stop_close", "stop_rel", "stop_fail", "rst_opt", "rst_rel"}
MainPoints == MainLocked \cup
              {"body", "mgr_started", "mgr_join", "start_acq", "start_set",
               "stop_acq", "stop_set", "stop_err", "rst_acq",
               "cl_mgr", "cl_check", "cl_finish", "done"}

\* Control points of the polling thread at which it holds the lock.
PollLocked == {"poll", "handle", "crash_rel"}
PollPoints == PollLocked \cup
              {"none", "check", "acquire", "crash_append", "crash_state",
               "crash_clients", "end"}

NoFlags == [c \in Clients |-> {}]

Init ==
    /\ mstate = STATE_STOPPED
    /\ mexc = FALSE
    /\ exit = FALSE
    /\ cstate = [c \in Clients |-> STATE_STOPPED]
    /\ cexc = [c \in Clients |-> FALSE]
    /\ conn = [c \in Clients |-> InitConn]
    /\ pend = [c \in Clients |-> 0]
    /\ lock = "free"
    /\ mpc = "body"
    /\ mcl \in Clients
    /\ cleanup = FALSE
    /\ todo = {}
    /\ reported = FALSE
    /\ ppc = "none"
    /\ ready = NoFlags
    /\ failing = {}
    /\ crashed = FALSE

-----------------------------------------------------------------------------
(* The main thread. *)

\* Where stop() and start() of a client return to.
Return == mpc' = IF cleanup THEN "cl_mgr" ELSE "body"

MainGoto(from, to) == mpc = from /\ mpc' = to

\* manager.start(): BEGIN_START, then run_start creates and starts the thread.
MgrStart ==
    /\ MainGoto("body", "mgr_started")
    /\ MayStart(mstate)
    /\ mstate' = STATE_BEGIN_START
    /\ exit' = FALSE
    /\ ppc' = "check"
    /\ UNCHANGED <<mexc, cstate, cexc, conn, pend, lock, mcl, cleanup, todo, reported,
                   ready, failing, crashed>>

MgrStarted ==
    /\ MainGoto("mgr_started", "body")
    /\ mstate' = STATE_STARTED
    /\ UNCHANGED <<mexc, exit, cstate, cexc, conn, pend, lock, mcl, cleanup, todo,
                   reported, pollVars>>

\* manager.stop(): __stop sets the event and joins the thread.
MgrStop ==
    /\ mpc = "body" \/ (mpc = "cl_mgr" /\ todo = {})
    /\ MayStop(mstate)
    /\ exit' = TRUE
    /\ mpc' = "mgr_join"
    /\ UNCHANGED <<mstate, mexc, cstate, cexc, conn, pend, lock, mcl, cleanup, todo,
                   reported, pollVars>>

\* Mutant of MgrJoined: __stop does not wait for the thread.
MgrJoinedEarly ==
    /\ mpc = "mgr_join"
    /\ mstate' = STATE_STOPPED
    /\ mpc' = IF cleanup THEN "cl_check" ELSE "body"
    /\ UNCHANGED <<mexc, exit, cstate, cexc, conn, pend, lock, mcl, cleanup, todo,
                   reported, pollVars>>

MgrJoined ==
    /\ mpc = "mgr_join"
    /\ ppc \in {"none", "end"}
    /\ mstate' = STATE_STOPPED
    /\ mpc' = IF cleanup THEN "cl_check" ELSE "body"
    /\ UNCHANGED <<mexc, exit, cstate, cexc, conn, pend, lock, mcl, cleanup, todo,
                   reported, pollVars>>

\* client.start() up to the lock.
ClientStart(c) ==
    /\ MainGoto("body", "start_acq")
    /\ MayStart(cstate[c])
    /\ cstate' = [cstate EXCEPT ![c] = STATE_BEGIN_START]
    /\ mcl' = c
    /\ UNCHANGED <<mstate, mexc, exit, cexc, conn, pend, lock, cleanup, todo, reported,
                   pollVars>>

\* BaseDeproxy.__acquire, from run_start, __stop or set_rst_...
MainAcquire ==
    /\ \/ MainGoto("start_acq", "start_create")
       \/ MainGoto("stop_acq", "stop_close")
       \/ MainGoto("rst_acq", "rst_opt")
    /\ lock = "free"
    /\ lock' = "main"
    /\ UNCHANGED <<mstate, mexc, exit, cstate, cexc, conn, pend, mcl, cleanup, todo,
                   reported, pollVars>>

\* _run_deproxy under the lock: create the socket, bind it, connect.  Each of
\* the three may raise, which run_start passes on after releasing the lock.
StartCreate ==
    /\ \/ /\ MainGoto("start_create", "start_connect") \/ MainGoto("start_create", "start_fail")
          /\ conn' = [conn EXCEPT ![mcl] = CreateSocket(@)]
       \/ /\ MainGoto("start_create", "start_fail")
          /\ UNCHANGED conn
    /\ UNCHANGED <<mstate, mexc, exit, cstate, cexc, pend, lock, mcl, cleanup, todo,
                   reported, pollVars>>

StartConnect ==
    /\ \/ /\ MainGoto("start_connect", "start_rel")
          /\ conn' = [conn EXCEPT ![mcl] = ConnectInProgress(@)]
       \/ /\ MainGoto("start_connect", "start_rel")
          /\ conn' = [conn EXCEPT ![mcl] = ConnectAtOnce(@)]
       \/ /\ MainGoto("start_connect", "start_fail")
          /\ conn' = [conn EXCEPT ![mcl] = ConnectError(@)]
    /\ UNCHANGED <<mstate, mexc, exit, cstate, cexc, pend, lock, mcl, cleanup, todo,
                   reported, pollVars>>

\* The `finally' clauses of run_start and __stop.  A failed start() raises into
\* the test and leaves the client in BEGIN_START.
MainRelease ==
    /\ \/ MainGoto("start_rel", "start_set")
       \/ MainGoto("start_fail", "body")
       \/ MainGoto("stop_rel", "stop_set")
       \/ MainGoto("stop_fail", "stop_err")
       \/ MainGoto("rst_rel", "body")
    /\ lock' = "free"
    /\ UNCHANGED <<mstate, mexc, exit, cstate, cexc, conn, pend, mcl, cleanup, todo,
                   reported, pollVars>>

ClientStarted ==
    /\ MainGoto("start_set", "body")
    /\ cstate' = [cstate EXCEPT ![mcl] = STATE_STARTED]
    /\ UNCHANGED <<mstate, mexc, exit, cexc, conn, pend, lock, mcl, cleanup, todo, reported,
                   pollVars>>

\* client.stop() up to the lock, from the test or from cleanup_services.
ClientStop(c) ==
    /\ \/ /\ MainGoto("body", "stop_acq")
          /\ UNCHANGED todo
       \/ /\ MainGoto("cl_mgr", "stop_acq")
          /\ c \in todo
          /\ todo' = todo \ {c}
    /\ MayStop(cstate[c])
    /\ mcl' = c
    /\ UNCHANGED <<mstate, mexc, exit, cstate, cexc, conn, pend, lock, cleanup, reported,
                   pollVars>>

\* Mutant of StopClose: _stop_deproxy does not set close_connection_for_tcp_fin.
StopCloseUnlessKept ==
    /\ MainGoto("stop_close", "stop_rel")
    /\ conn' = [conn EXCEPT ![mcl] = HandleClose(@)]
    /\ pend' = [pend EXCEPT ![mcl] = 0]
    /\ UNCHANGED <<mstate, mexc, exit, cstate, cexc, lock, mcl, cleanup, todo, reported,
                   pollVars>>

\* __stop under the lock: _stop_deproxy closes the socket whatever keep says,
\* clear_stats drops the queued requests.  Without a socket _handle_close
\* raises AttributeError.
StopClose ==
    /\ \/ /\ MainGoto("stop_close", "stop_rel")
          /\ conn[mcl].k # "none"
          /\ conn' = [conn EXCEPT ![mcl] = HandleClose([@ EXCEPT !.keep = FALSE])]
          /\ pend' = [pend EXCEPT ![mcl] = 0]
       \/ /\ MainGoto("stop_close", "stop_fail")
          /\ conn[mcl].k = "none"
          /\ conn' = [conn EXCEPT ![mcl].keep = FALSE]
          /\ UNCHANGED pend
    /\ UNCHANGED <<mstate, mexc, exit, cstate, cexc, lock, mcl, cleanup, todo, reported,
                   pollVars>>

\* force_stop after the only stop procedure of a client.
ClientStopped ==
    /\ \/ /\ mpc = "stop_set"
          /\ cstate' = [cstate EXCEPT ![mcl] = STATE_STOPPED]
          /\ UNCHANGED cexc
       \/ /\ mpc = "stop_err"
          /\ cexc' = [cexc EXCEPT ![mcl] = TRUE]
          /\ cstate' = [cstate EXCEPT ![mcl] = STATE_ERROR]
    /\ Return
    /\ UNCHANGED <<mstate, mexc, exit, conn, pend, lock, mcl, cleanup, todo, reported,
                   pollVars>>

\* make_request / send_bytes: queued without taking the lock, in any state.
MakeRequest(c) ==
    /\ mpc = "body"
    /\ pend[c] < MaxPend
    /\ pend' = [pend EXCEPT ![c] = @ + 1]
    /\ UNCHANGED <<mstate, mexc, exit, cstate, cexc, conn, lock, mainVars, pollVars>>

\* The test sets client.close_connection_for_tcp_fin = False.
KeepAfterFin(c) ==
    /\ mpc = "body"
    /\ c \in KeepClients
    /\ conn' = [conn EXCEPT ![c].keep = TRUE]
    /\ UNCHANGED <<mstate, mexc, exit, cstate, cexc, pend, lock, mainVars, pollVars>>

\* set_rst_tcp_to_closing_connection: acquire, setsockopt, release.  There is no
\* `finally': when setsockopt raises on a closed socket the lock stays taken.
\* The tests call it on clients they have started.
SetRst(c) ==
    /\ MainGoto("body", "rst_acq")
    /\ c \in RstClients
    /\ cstate[c] = STATE_STARTED
    /\ mcl' = c
    /\ UNCHANGED <<mstate, mexc, exit, cstate, cexc, conn, pend, lock, cleanup, todo,
                   reported, pollVars>>

SetRstOption ==
    /\ mpc = "rst_opt"
    /\ mpc' = IF conn[mcl].k \in OpenFd THEN "rst_rel" ELSE "body"
    /\ UNCHANGED <<mstate, mexc, exit, cstate, cexc, conn, pend, lock, mcl, cleanup, todo,
                   reported, pollVars>>

-----------------------------------------------------------------------------
(* Cleanup, after the test body returned or raised. *)

\* cleanup_services: stop every client, then the manager ...
BeginCleanup ==
    /\ MainGoto("body", "cl_mgr")
    /\ cleanup' = TRUE
    /\ todo' = Clients
    /\ UNCHANGED <<mstate, mexc, exit, cstate, cexc, conn, pend, lock, mcl, reported, pollVars>>

\* ... where stop() is a no-op for a service that is stopped or failed ...
SkipClient(c) ==
    /\ mpc = "cl_mgr"
    /\ c \in todo
    /\ ~MayStop(cstate[c])
    /\ todo' = todo \ {c}
    /\ UNCHANGED <<mstate, mexc, exit, cstate, cexc, conn, pend, lock, mpc, mcl, cleanup,
                   reported, pollVars>>

SkipManager ==
    /\ MainGoto("cl_mgr", "cl_check")
    /\ todo = {}
    /\ ~MayStop(mstate)
    /\ UNCHANGED <<mstate, mexc, exit, cstate, cexc, conn, pend, lock, mcl, cleanup, todo,
                   reported, pollVars>>

\* ... then clear the counters and collect the exceptions of all of them.
CheckExceptions ==
    /\ MainGoto("cl_check", "cl_finish")
    /\ pend' = [c \in Clients |-> 0]
    /\ reported' = (mexc \/ \E c \in Clients : cexc[c])
    /\ UNCHANGED <<mstate, mexc, exit, cstate, cexc, conn, lock, mcl, cleanup, todo, pollVars>>

\* cleanup_deproxy: finish_all_deproxy closes what is left, without the lock,
\* and empties socket_map.
FinishAllDeproxy ==
    /\ MainGoto("cl_finish", "done")
    /\ conn' = [c \in Clients |->
                  IF conn[c].inmap
                  THEN [HandleClose(conn[c]) EXCEPT !.inmap = FALSE]
                  ELSE conn[c]]
    /\ UNCHANGED <<mstate, mexc, exit, cstate, cexc, pend, lock, mcl, cleanup, todo, reported,
                   pollVars>>

-----------------------------------------------------------------------------
(* The polling thread: __run_deproxy_manager and _poll. *)

PollGoto(from, to) == ppc = from /\ ppc' = to

PollCheckExit ==
    /\ ppc = "check"
    /\ ppc' = IF exit THEN "end" ELSE "acquire"
    /\ UNCHANGED <<mstate, mexc, exit, cstate, cexc, conn, pend, lock, mainVars, ready, failing, crashed>>

\* Mutant of PollAcquire: the polling loop does not wait for the lock.
PollAcquireBlindly ==
    /\ PollGoto("acquire", "poll")
    /\ lock' = "poll"
    /\ UNCHANGED <<mstate, mexc, exit, cstate, cexc, conn, pend, mainVars, ready, failing, crashed>>

PollAcquire ==
    /\ PollGoto("acquire", "poll")
    /\ lock = "free"
    /\ lock' = "poll"
    /\ UNCHANGED <<mstate, mexc, exit, cstate, cexc, conn, pend, mainVars, ready, failing, crashed>>

\* Register every socket of socket_map and poll without waiting.
Poll(due) ==
    /\ PollGoto("poll", "handle")
    /\ ready' = [c \in Clients |->
                   IF conn[c].inmap
                   THEN PollFlags(conn[c], Writable(conn[c], pend[c], c \in due))
                   ELSE {}]
    /\ UNCHANGED <<mstate, mexc, exit, cstate, cexc, conn, pend, lock, mainVars, failing, crashed>>

\* One pass of the loop over the poll result.  A descriptor that has left the
\* map meanwhile is skipped.
PollHandle(c, rout, wout) ==
    LET r == IF conn[c].inmap
             THEN Readwrite([s |-> conn[c], pend |-> pend[c], exc |-> "none"],
                            ready[c], rout, wout)
             ELSE [s |-> conn[c], pend |-> pend[c], exc |-> "none"]
    IN  /\ ppc = "handle"
        /\ ready[c] # {}
        /\ conn' = [conn EXCEPT ![c] = r.s]
        /\ pend' = [pend EXCEPT ![c] = r.pend]
        /\ IF r.exc = "fatal"
           THEN ready' = NoFlags /\ ppc' = "crash_rel" /\ crashed' = TRUE
           ELSE ready' = [ready EXCEPT ![c] = {}] /\ UNCHANGED <<ppc, crashed>>
        /\ UNCHANGED <<mstate, mexc, exit, cstate, cexc, lock, mainVars, failing>>

PollRelease ==
    /\ PollGoto("handle", "check")
    /\ ready = NoFlags
    /\ lock' = "free"
    /\ UNCHANGED <<mstate, mexc, exit, cstate, cexc, conn, pend, mainVars, ready, failing, crashed>>

\* Mutants of CrashRelease and CrashState: the lock stays taken after a crash; the
\* manager is marked stopped while its thread is still running.
CrashKeepsLock ==
    /\ PollGoto("crash_rel", "crash_append")
    /\ UNCHANGED <<mstate, mexc, exit, cstate, cexc, conn, pend, lock, mainVars, ready, failing,
                   crashed>>
CrashStateStopped ==
    /\ PollGoto("crash_state", "crash_clients")
    /\ mstate' = STATE_STOPPED
    /\ failing' = Clients
    /\ UNCHANGED <<mexc, exit, cstate, cexc, conn, pend, lock, mainVars, ready, crashed>>

\* The except clause: release the lock, then append_exception, whose two
\* statements are the append and the state setter; the setter of the manager
\* goes on to the clients one by one.
CrashRelease ==
    /\ PollGoto("crash_rel", "crash_append")
    /\ lock' = "free"
    /\ UNCHANGED <<mstate, mexc, exit, cstate, cexc, conn, pend, mainVars, ready, failing, crashed>>

CrashAppend ==
    /\ PollGoto("crash_append", "crash_state")
    /\ mexc' = TRUE
    /\ UNCHANGED <<mstate, exit, cstate, cexc, conn, pend, lock, mainVars, ready, failing, crashed>>

CrashState ==
    /\ PollGoto("crash_state", "crash_clients")
    /\ mstate' = STATE_ERROR
    /\ failing' = Clients
    /\ UNCHANGED <<mexc, exit, cstate, cexc, conn, pend, lock, mainVars, ready, crashed>>

CrashClient(c) ==
    /\ ppc = "crash_clients"
    /\ c \in failing
    /\ failing' = failing \ {c}
    /\ cstate' = [cstate EXCEPT ![c] = STATE_ERROR]
    /\ UNCHANGED <<mstate, mexc, exit, cexc, conn, pend, lock, mainVars, ppc, ready, crashed>>

CrashEnd ==
    /\ PollGoto("crash_clients", "end")
    /\ failing = {}
    /\ UNCHANGED <<mstate, mexc, exit, cstate, cexc, conn, pend, lock, mainVars, ready, failing, crashed>>

-----------------------------------------------------------------------------
(* The network and the kernel (external). *)

Kernel1(c, from, to) ==
    /\ conn[c].k = from
    /\ conn' = [conn EXCEPT ![c].k = to]
    /\ UNCHANGED <<mstate, mexc, exit, cstate, cexc, pend, lock, mainVars, pollVars>>

Establish(c) == Kernel1(c, "syn", "open")
HandshakeFails(c) == Kernel1(c, "syn", "refused") \/ Kernel1(c, "syn", "unreach")
PeerFin(c) == Kernel1(c, "open", "fin")

PeerData(c) ==
    /\ conn[c].k = "open"
    /\ ~conn[c].data
    /\ conn' = [conn EXCEPT ![c].data = TRUE]
    /\ UNCHANGED <<mstate, mexc, exit, cstate, cexc, pend, lock, mainVars, pollVars>>

\* A RST also discards the receive queue.
PeerRst(c) ==
    /\ conn[c].k \in {"open", "fin"}
    /\ conn' = [conn EXCEPT ![c].k = "reset", ![c].data = FALSE]
    /\ UNCHANGED <<mstate, mexc, exit, cstate, cexc, pend, lock, mainVars, pollVars>>

-----------------------------------------------------------------------------
\* What the test body may choose to call.
BodyStep ==
    /\ mpc = "body"
    /\ \/ MgrStart \/ MgrStop \/ BeginCleanup
       \/ \E c \in Clients : \/ ClientStart(c) \/ ClientStop(c)
                           \/ MakeRequest(c) \/ KeepAfterFin(c) \/ SetRst(c)

\* The rest of the main thread: a call, and the cleanup, run to their ends.
MainStep ==
    /\ mpc # "body"
    /\ \/ MgrStarted \/ MgrStop \/ MgrJoined
       \/ StartCreate \/ StartConnect \/ ClientStarted
       \/ StopClose \/ ClientStopped \/ SetRstOption \/ MainRelease
       \/ SkipManager \/ CheckExceptions \/ FinishAllDeproxy
       \/ \E c \in Clients : ClientStop(c) \/ SkipClient(c)

PollStep ==
    \/ PollCheckExit
    \/ \E due \in SUBSET Clients : Poll(due)
    \/ \E c \in Clients, rout \in Outcomes, wout \in Outcomes : PollHandle(c, rout, wout)
    \/ PollRelease
    \/ CrashRelease \/ CrashAppend \/ CrashState \/ CrashEnd
    \/ \E c \in Clients : CrashClient(c)

NetStep ==
    \E c \in Clients :
        Establish(c) \/ HandshakeFails(c) \/ PeerFin(c) \/ PeerData(c) \/ PeerRst(c)

Next == BodyStep \/ MainStep \/ MainAcquire \/ PollStep \/ PollAcquire \/ NetStep

Spec == Init /\ [][Next]_vars

\* A runnable thread is eventually scheduled.  The lock is not fair, but the
\* sleep after each release in the polling loop is there so that the other
\* thread gets it, hence strong fairness of the two acquires.  Nothing is
\* assumed of the network or of the test body.
Fairness ==
    /\ WF_vars(MainStep)
    /\ WF_vars(PollStep)
    /\ SF_vars(MainAcquire)
    /\ SF_vars(PollAcquire)

FairSpec == Spec /\ Fairness

-----------------------------------------------------------------------------
(* Properties. *)

\* Every variable stays within its type.  `pend' never goes below zero:
\* _send_data is never entered with nothing queued, which would be an
\* IndexError on request_buffers.
TypeOK ==
    /\ mstate \in States
    /\ mexc \in BOOLEAN
    /\ exit \in BOOLEAN
    /\ cstate \in [Clients -> States]
    /\ cexc \in [Clients -> BOOLEAN]
    /\ conn \in [Clients -> Conn]
    /\ pend \in [Clients -> Nat]
    /\ lock \in {"free", "main", "poll"}
    /\ mpc \in MainPoints
    /\ mcl \in Clients
    /\ cleanup \in BOOLEAN
    /\ todo \in SUBSET Clients
    /\ reported \in BOOLEAN
    /\ ppc \in PollPoints
    /\ ready \in [Clients -> SUBSET Flags]
    /\ failing \in SUBSET Clients
    /\ crashed \in BOOLEAN

\* The polling lock does its job: a thread is inside a critical section only as
\* the holder of the lock.
LockHeld ==
    /\ mpc \in MainLocked => lock = "main"
    /\ ppc \in PollLocked => lock = "poll"

\* README, "Using separate thread for polling cycle": the polling function never
\* runs on a socket that start() of a client is still creating.
NoHalfMadeSocketPolled ==
    ppc \in PollLocked =>
        ~(mpc = "start_connect" /\ conn[mcl].inmap)

GoodConn(s) ==
    /\ s.inmap <=> s.k \in OpenFd
    /\ s.connected \/ s.connecting => s.inmap
    /\ ~(s.connected /\ s.connecting)

\* socket_map has exactly the sockets that are open, and only those are taken
\* for connected or connecting: no descriptor is polled after it was closed and
\* none is left open behind the back of the polling cycle.
MapIsExact == mpc # "done" => \A c \in Clients : GoodConn(conn[c])

\* The state a client must be in for _run_deproxy to work: no socket of an
\* earlier start is left, and the write handlers are those of a connecting
\* client (with the sending ones the end of the handshake would go unnoticed).
Clean(s) ==
    /\ s.k \in {"none", "closed"}
    /\ ~s.inmap /\ ~s.connected /\ ~s.connecting
    /\ s.mode = "connect"

\* start() always begins from a clean client, whatever the polling thread did to
\* it before: closes by the peer, failed handshakes, crashes, failed stops.
StartsClean == mpc = "start_create" => Clean(conn[mcl])

\* Points of the polling thread from which it never touches a socket again.
PollerGone == ppc \in {"none", "crash_clients", "end"}

\* After the manager's stop() in cleanup_services the polling cycle is over, also
\* when stop() was a no-op because the cycle had crashed: clear_stats and
\* finish_all_deproxy, which do not take the lock, have the sockets to themselves.
CleanupRunsAlone == mpc \in {"cl_check", "cl_finish", "done"} => PollerGone

\* An exception that ended the polling cycle is raised by cleanup_services, no
\* matter how the main thread's writes to manager.state interleave with the
\* polling thread's.
CrashIsReported == mpc \in {"cl_finish", "done"} /\ crashed => reported

\* After cleanup no deproxy socket is open.  The one exception the code has: a
\* client with close_connection_for_tcp_fin unset that a crash of the polling
\* cycle put in STATE_ERROR is not closed by stop() nor by finish_all_deproxy.
CleanupClosesAll ==
    mpc = "done" =>
        \A c \in Clients : conn[c].k \in OpenFd => conn[c].keep /\ cstate[c] = STATE_ERROR

(* The inductive invariant behind the safety properties. *)

\* manager.state tells how far the polling thread can be.
ManagerInv ==
    /\ mstate = STATE_STOPPED => ppc \in {"none", "end"}
    /\ mstate = STATE_ERROR => ppc \in {"crash_clients", "end"}
    /\ crashed => mexc \/ ppc \in {"crash_rel", "crash_append"}

\* What start() and stop() know about the client they work on, although the
\* polling thread runs between their steps.
ClientInv ==
    /\ \A c \in Clients : cstate[c] = STATE_STOPPED => Clean(conn[c])
    /\ mpc \in {"start_acq", "start_create", "stop_rel", "stop_set"} => Clean(conn[mcl])
    /\ mpc = "start_connect" =>
          conn[mcl].k = "fresh" /\ conn[mcl].inmap /\ ~conn[mcl].connected
    /\ mpc \in {"start_acq", "start_create", "start_connect", "start_rel", "start_fail",
                "start_set"}
          => cstate[mcl] \in {STATE_BEGIN_START, STATE_ERROR}

\* A client is polled for writing in order to send only while it has a request
\* queued, and the queue does not shrink before the write event is handled.
PendingInv ==
    ppc = "handle" =>
        \A c \in Clients :
            conn[c].inmap /\ conn[c].mode = "send" /\ "OUT" \in ready[c] => pend[c] > 0

\* How far cleanup is: every client it has dealt with is closed or failed.
CleanupInv ==
    /\ cleanup => mpc \in {"stop_acq", "stop_close", "stop_rel", "stop_fail", "stop_set",
                           "stop_err", "mgr_join", "cl_mgr", "cl_check", "cl_finish", "done"}
    /\ mpc \in {"cl_mgr", "cl_check", "cl_finish", "done"} => cleanup
    /\ cleanup /\ mpc \in {"mgr_join", "cl_check", "cl_finish", "done"} => todo = {}
    /\ cleanup => \A c \in Clients \ todo :
          \/ mpc # "done" /\ Clean(conn[c])
          \/ mpc = "done" /\ conn[c].k \notin OpenFd
          \/ cstate[c] = STATE_ERROR /\ (mpc = "done" => conn[c].keep)
          \/ mcl = c /\ mpc \in {"stop_acq", "stop_close", "stop_fail", "stop_err"}

\* The conjunction that every step preserves.  Taken together it says that what
\* each thread assumes about the client at hand survives the other's steps.
IndInv ==
    /\ TypeOK /\ LockHeld /\ MapIsExact
    /\ ManagerInv /\ ClientInv /\ PendingInv /\ CleanupInv
    /\ CleanupRunsAlone /\ CrashIsReported

\* Once begun, cleanup ends: the join of the polling thread and the lock cannot
\* wait for each other.
CleanupTerminates == cleanup ~> (mpc = "done")

PollerRuns == ppc \in {"check", "acquire", "poll", "handle"} /\ ~exit

\* A finished handshake, good or bad, is noticed by the polling cycle while it
\* runs: the client does not stay in the connecting state.
HandshakeIsNoticed ==
    \A c \in Clients :
        (PollerRuns /\ conn[c].connecting /\ conn[c].k # "syn")
            ~> (~PollerRuns \/ ~conn[c].connecting)

=============================================================================
