------------------------ MODULE DeproxyManagerProofs ------------------------
(***************************************************************************)
(* Proofs of the safety properties of DeproxyManager for every set of      *)
(* clients and every bound on the queued requests.                         *)
(***************************************************************************)
EXTENDS DeproxyManager, TLAPS

Results == [s : Conn, pend : Nat, exc : Exceptions]

\* Closing a connection, or leaving it alone when keep is set, keeps the
\* connection record consistent with socket_map.
LEMMA CloseGood ==
    ASSUME NEW s \in Conn, GoodConn(s)
    PROVE  HandleClose(s) \in Conn /\ GoodConn(HandleClose(s))
BY DEF HandleClose, Conn, GoodConn, Kernel, OpenFd

\* With replaces the connection record of a result and nothing else.
LEMMA WithResult ==
    ASSUME NEW r \in Results, NEW s \in Conn
    PROVE  /\ With(r, s) \in Results
           /\ With(r, s).s = s /\ With(r, s).pend = r.pend /\ With(r, s).exc = r.exc
BY DEF Results, With

\* Raise sets the exception of a result and nothing else.
LEMMA RaiseResult ==
    ASSUME NEW r \in Results, NEW e \in Exceptions
    PROVE  /\ Raise(r, e) \in Results
           /\ Raise(r, e).s = r.s /\ Raise(r, e).pend = r.pend /\ Raise(r, e).exc = e
BY DEF Results, Raise

\* close() leaves a consistent, closed connection.
LEMMA CloseResult ==
    ASSUME NEW r \in Results, GoodConn(r.s)
    PROVE  /\ Close(r) \in Results
           /\ GoodConn(Close(r).s)
           /\ Close(r).exc = r.exc
           /\ Close(r).pend = r.pend
           /\ Close(r).s.mode \in {r.s.mode, "connect"}
<1>1. r.s \in Conn
  BY DEF Results
<1>2. HandleClose(r.s).mode \in {r.s.mode, "connect"}
  BY <1>1 DEF HandleClose, Conn
<1> QED
  BY <1>1, <1>2, CloseGood, WithResult DEF Close

\* _handle_connect_event, called first by the read and write events, keeps a
\* connection consistent.
LEMMA ConnectFirstGood ==
    ASSUME NEW r \in Results, GoodConn(r.s)
    PROVE  /\ ConnectFirst(r) \in Results
           /\ GoodConn(ConnectFirst(r).s)
           /\ ConnectFirst(r).pend = r.pend
           /\ ConnectFirst(r).s.mode = r.s.mode
<1> DEFINE dead == [r.s EXCEPT !.k = "dead"]
           up == [r.s EXCEPT !.connected = TRUE, !.connecting = FALSE]
           Dead(e) == Raise(With(r, dead), e)
           Up == With(r, up)
<1> SUFFICES ASSUME ~r.s.connected, r.s.connecting
             PROVE  /\ HandleConnectEvent(r) \in Results
                    /\ GoodConn(HandleConnectEvent(r).s)
                    /\ HandleConnectEvent(r).pend = r.pend
                    /\ HandleConnectEvent(r).s.mode = r.s.mode
  BY DEF ConnectFirst
<1>0. r.s \in Conn
  BY DEF Results
<1>1. /\ dead \in Conn /\ GoodConn(dead) /\ dead.mode = r.s.mode
      /\ up \in Conn /\ GoodConn(up) /\ up.mode = r.s.mode
  BY <1>0 DEF Conn, GoodConn, Kernel, OpenFd
<1>2. HandleConnectEvent(r) \in {Dead("pass"), Dead("fatal"), Dead("disconnected"), Up}
  BY DEF HandleConnectEvent
<1> HIDE DEF dead, up
<1>3. ASSUME NEW e \in {"pass", "fatal", "disconnected"}
      PROVE  Dead(e) \in Results /\ Dead(e).s = dead /\ Dead(e).pend = r.pend
  BY <1>1, WithResult, RaiseResult DEF Exceptions
<1>4. Up \in Results /\ Up.s = up /\ Up.pend = r.pend
  BY <1>1, WithResult
<1> QED
  BY <1>1, <1>2, <1>3, <1>4

\* A system call that fails changes neither the connection nor the queue.
LEMMA IORaiseResult ==
    ASSUME NEW r \in Results, NEW out \in Outcomes
    PROVE  /\ IORaise(r, out) \in Results
           /\ IORaise(r, out).s = r.s /\ IORaise(r, out).pend = r.pend
BY RaiseResult DEF IORaise, Outcomes, Exceptions

\* After the read event the client either is still in the mode it was in or has
\* been closed, which puts it in mode "connect".
LEMMA ReadEventGood ==
    ASSUME NEW r \in Results, GoodConn(r.s), NEW out \in Outcomes
    PROVE  /\ HandleReadEvent(r, out) \in Results
           /\ GoodConn(HandleReadEvent(r, out).s)
           /\ HandleReadEvent(r, out).pend = r.pend
           /\ HandleReadEvent(r, out).s.mode \in {r.s.mode, "connect"}
<1> DEFINE q == ConnectFirst(r)
           drained == [q.s EXCEPT !.data = FALSE]
<1>1. /\ q \in Results /\ GoodConn(q.s)
      /\ q.pend = r.pend /\ q.s.mode = r.s.mode
  BY ConnectFirstGood
<1>2. q.s \in Conn
  BY <1>1 DEF Results
<1> HIDE DEF q
<1>3. drained \in Conn /\ GoodConn(drained) /\ drained.mode = q.s.mode
  BY <1>1, <1>2 DEF Conn, GoodConn
<1> HIDE DEF drained
<1>4. /\ IORaise(With(q, drained), out) \in Results
      /\ IORaise(With(q, drained), out).s = drained
      /\ IORaise(With(q, drained), out).pend = q.pend
  BY <1>1, <1>3, WithResult, IORaiseResult
<1>5. /\ Close(q) \in Results /\ GoodConn(Close(q).s)
      /\ Close(q).pend = q.pend /\ Close(q).s.mode \in {q.s.mode, "connect"}
  BY <1>1, CloseResult
<1>6. /\ Raise(Close(q), "fatal") \in Results
      /\ Raise(Close(q), "fatal").s = Close(q).s
      /\ Raise(Close(q), "fatal").pend = Close(q).pend
  BY <1>5, RaiseResult DEF Exceptions
<1>7. HandleReadEvent(r, out) \in {q, IORaise(With(q, drained), out), Close(q),
                                  Raise(Close(q), "fatal")}
  BY DEF HandleReadEvent, HandleRead, q, drained
<1> QED
  BY <1>1, <1>3, <1>4, <1>5, <1>6, <1>7

\* The write event never takes a request from an empty queue, provided a client
\* in mode "send" has one.
LEMMA WriteEventGood ==
    ASSUME NEW r \in Results, GoodConn(r.s), NEW out \in Outcomes,
           r.s.mode = "send" => r.pend > 0
    PROVE  HandleWriteEvent(r, out) \in Results /\ GoodConn(HandleWriteEvent(r, out).s)
<1> DEFINE q == ConnectFirst(r)
           sending == [q.s EXCEPT !.mode = "send"]
           w == With(q, sending)
           sent == [w EXCEPT !.pend = IF out = "ok" THEN @ - 1 ELSE @]
<1>1. /\ q \in Results /\ GoodConn(q.s)
      /\ q.pend = r.pend /\ q.s.mode = r.s.mode
  BY ConnectFirstGood
<1>2. q.s \in Conn /\ q.pend \in Nat
  BY <1>1 DEF Results
<1> HIDE DEF q
<1>3. sending \in Conn /\ GoodConn(sending)
  BY <1>1, <1>2 DEF Conn, GoodConn
<1> HIDE DEF sending
<1>4. w \in Results /\ w.s = sending /\ w.pend = q.pend
  BY <1>1, <1>3, WithResult
<1> HIDE DEF w
<1>5. ASSUME w.pend > 0
      PROVE  SendData(w, out) \in Results /\ GoodConn(SendData(w, out).s)
  <2>1. sent \in Results /\ sent.s = w.s
    BY <1>4, <1>5 DEF Results
  <2>2. IORaise(sent, out) \in Results /\ IORaise(sent, out).s = w.s
    BY <2>1, IORaiseResult
  <2>3. Close(w) \in Results /\ GoodConn(Close(w).s)
    BY <1>3, <1>4, CloseResult
  <2> QED
    BY <2>2, <2>3, <1>3, <1>4 DEF SendData
<1>6. CASE q.exc # "none"
  BY <1>6, <1>1 DEF HandleWriteEvent, q
<1>7. CASE q.exc = "none" /\ q.s.mode = "connect" /\ (q.pend = 0 \/ out = "partial")
  <2>1. HandleWriteEvent(r, out) = w
    BY <1>7 DEF HandleWriteEvent, HandleWrite, q, w, sending
  <2> QED BY <2>1, <1>3, <1>4
<1>8. CASE q.exc = "none" /\ ~(q.s.mode = "connect" /\ (q.pend = 0 \/ out = "partial"))
  <2>1. HandleWriteEvent(r, out) = SendData(w, out)
    BY <1>8 DEF HandleWriteEvent, HandleWrite, q, w, sending
  <2>2. q.s.mode \in {"connect", "send"}
    BY <1>2 DEF Conn
  <2>3. w.pend > 0
    BY <1>1, <1>2, <1>4, <1>8, <2>2
  <2> QED BY <2>1, <2>3, <1>5
<1> QED
  BY <1>6, <1>7, <1>8

\* _readwrite on a socket of socket_map keeps the record consistent, and takes a
\* request from the queue only if there is one.
LEMMA ReadwriteGood ==
    ASSUME NEW r \in Results, GoodConn(r.s), NEW flags \in SUBSET Flags,
           NEW rout \in Outcomes, NEW wout \in Outcomes,
           r.s.mode = "send" /\ "OUT" \in flags => r.pend > 0
    PROVE  /\ Readwrite(r, flags, rout, wout) \in Results
           /\ GoodConn(Readwrite(r, flags, rout, wout).s)
<1> DEFINE r1 == IF "IN" \in flags THEN HandleReadEvent(r, rout) ELSE r
           r2 == IF "OUT" \in flags /\ r1.exc = "none" THEN HandleWriteEvent(r1, wout) ELSE r1
           r3 == IF "HUP" \in flags /\ r2.exc = "none" THEN Close(r2) ELSE r2
<1>1. /\ r1 \in Results /\ GoodConn(r1.s)
      /\ r1.s.mode = "send" /\ "OUT" \in flags => r1.pend > 0
  BY ReadEventGood
<1>2. r2 \in Results /\ GoodConn(r2.s)
  <2> HIDE DEF r1
  <2> QED BY <1>1, WriteEventGood
<1>3. r3 \in Results /\ GoodConn(r3.s)
  <2> HIDE DEF r2
  <2> QED BY <1>2, CloseResult
<1>4. HandleError(r3) \in Results /\ GoodConn(HandleError(r3).s)
  <2> HIDE DEF r3
  <2> QED BY <1>3, CloseResult DEF HandleError
<1> QED
  BY <1>4 DEF Readwrite


\* The initial state satisfies the invariant.
LEMMA InitIndInv == Init => IndInv
<1> SUFFICES ASSUME Init PROVE IndInv
  OBVIOUS
<1>1. InitConn \in Conn /\ GoodConn(InitConn) /\ Clean(InitConn)
  BY DEF InitConn, Conn, Kernel, GoodConn, OpenFd, Clean
<1>2. TypeOK
  BY <1>1 DEF Init, TypeOK, States, STATE_STOPPED, MainPoints, PollPoints, NoFlags, Flags
<1>3. LockHeld /\ MapIsExact /\ ManagerInv /\ PendingInv /\ CleanupRunsAlone /\ CrashIsReported
  BY <1>1 DEF Init, LockHeld, MapIsExact, ManagerInv, PendingInv, CleanupRunsAlone,
              CrashIsReported, MainLocked, PollLocked, STATE_STOPPED, STATE_ERROR
<1>4. ClientInv /\ CleanupInv
  BY <1>1 DEF Init, ClientInv, CleanupInv
<1> QED
  BY <1>2, <1>3, <1>4 DEF IndInv

\* Effects of the remaining operations on one connection record.
LEMMA KeepGood ==
    ASSUME NEW s \in Conn, NEW b \in BOOLEAN
    PROVE  LET t == [s EXCEPT !.keep = b]
           IN  /\ t \in Conn
               /\ GoodConn(s) => GoodConn(t)
               /\ Clean(s) => Clean(t)
               /\ t.k = s.k /\ t.inmap = s.inmap /\ t.connected = s.connected
               /\ t.mode = s.mode
<1> DEFINE t == [s EXCEPT !.keep = b]
<1>1. t \in Conn
  BY DEF Conn
<1>2. /\ t.k = s.k /\ t.inmap = s.inmap /\ t.connected = s.connected
      /\ t.connecting = s.connecting /\ t.mode = s.mode
  BY DEF Conn
<1> HIDE DEF t
<1>3. (GoodConn(s) => GoodConn(t)) /\ (Clean(s) => Clean(t))
  BY <1>2 DEF GoodConn, Clean
<1> QED
  BY <1>1, <1>2, <1>3 DEF t

\* The three outcomes of connect() leave a consistent connection.
LEMMA ConnectGood ==
    ASSUME NEW s \in Conn, s.inmap, s.k = "fresh",
           NEW t \in {ConnectInProgress(s), ConnectAtOnce(s), ConnectError(s)}
    PROVE  t \in Conn /\ GoodConn(t)
BY DEF ConnectInProgress, ConnectAtOnce, ConnectError, Conn, GoodConn, OpenFd, Kernel

\* A step of the network changes only the kernel's side of a connection that is
\* in use, so it disturbs no thread.
LEMMA NetPreserves ==
    ASSUME IndInv, NEW c \in Clients, NEW t \in Conn,
           conn[c].k \in {"syn", "open", "fin"}, t.k \in OpenFd,
           t.inmap = conn[c].inmap, t.connected = conn[c].connected,
           t.connecting = conn[c].connecting, t.mode = conn[c].mode, t.keep = conn[c].keep,
           conn' = [conn EXCEPT ![c] = t],
           UNCHANGED <<mstate, mexc, exit, cstate, cexc, pend, lock, mainVars, pollVars>>
    PROVE  IndInv'
<1> USE DEF IndInv, TypeOK, LockHeld, MapIsExact, ManagerInv, ClientInv, PendingInv, CleanupInv,
            CleanupRunsAlone, CrashIsReported, PollerGone, MainLocked, MainPoints, PollLocked,
            PollPoints, mainVars, pollVars, MainGoto, PollGoto, MayStart, MayStop,
            States, STATE_STOPPED, STATE_STARTED, STATE_ERROR, STATE_BEGIN_START
<1>1. conn[c] \in Conn /\ ~Clean(conn[c]) /\ conn[c].k \in OpenFd /\ conn[c].k # "fresh"
  BY DEF Clean, OpenFd, Kernel
<1>2. GoodConn(conn[c]) => GoodConn(t)
  BY <1>1 DEF GoodConn
<1> QED
  BY <1>1, <1>2

\* The shape of every action of the network.
LEMMA NetActions ==
    ASSUME IndInv, NEW c \in Clients,
           Establish(c) \/ HandshakeFails(c) \/ PeerFin(c) \/ PeerData(c) \/ PeerRst(c)
    PROVE  IndInv'
<1>1. conn[c] \in Conn /\ conn \in [Clients -> Conn]
  BY DEF IndInv, TypeOK
<1>2. conn[c].data \in BOOLEAN /\ conn[c].k \in {"syn", "open", "fin"}
  BY <1>1 DEF Conn, Establish, HandshakeFails, PeerFin, PeerData, PeerRst, Kernel1
<1>3. PICK k \in {"open", "fin", "refused", "unreach", "reset"}, b \in BOOLEAN :
         conn' = [conn EXCEPT ![c] = [conn[c] EXCEPT !.k = k, !.data = b]]
  <2>1. ASSUME NEW k
        PROVE  [conn[c] EXCEPT !.k = k] = [conn[c] EXCEPT !.k = k, !.data = conn[c].data]
    BY <1>1 DEF Conn
  <2>2. ASSUME NEW b
        PROVE  [conn[c] EXCEPT !.data = b] = [conn[c] EXCEPT !.k = conn[c].k, !.data = b]
    BY <1>1 DEF Conn
  <2>3. CASE Establish(c) \/ HandshakeFails(c) \/ PeerFin(c)
    <3>1. PICK k \in {"open", "fin", "refused", "unreach"} :
             conn' = [conn EXCEPT ![c] = [conn[c] EXCEPT !.k = k]]
      BY <2>3 DEF Establish, HandshakeFails, PeerFin, Kernel1
    <3> QED BY <3>1, <2>1, <1>2
  <2>4. CASE PeerData(c)
    BY <2>4, <2>2 DEF PeerData
  <2>5. CASE PeerRst(c)
    BY <2>5 DEF PeerRst
  <2> QED BY <2>3, <2>4, <2>5
<1>4. k \in OpenFd
  BY DEF OpenFd, Kernel
<1>5. UNCHANGED <<mstate, mexc, exit, cstate, cexc, pend, lock, mainVars, pollVars>>
  BY DEF Establish, HandshakeFails, PeerFin, PeerData, PeerRst, Kernel1
<1> DEFINE t == [conn[c] EXCEPT !.k = k, !.data = b]
<1>6. /\ t \in Conn /\ t.k = k
      /\ t.inmap = conn[c].inmap /\ t.connected = conn[c].connected
      /\ t.connecting = conn[c].connecting /\ t.mode = conn[c].mode /\ t.keep = conn[c].keep
  BY <1>1, <1>4 DEF Conn, OpenFd, Kernel
<1>7. conn' = [conn EXCEPT ![c] = t]
  BY <1>3
<1> HIDE DEF t
<1> QED
  BY <1>2, <1>4, <1>5, <1>6, <1>7, NetPreserves

\* The test may unset close_connection_for_tcp_fin at any time.
LEMMA KeepPreserves ==
    ASSUME IndInv, NEW c \in Clients, KeepAfterFin(c)
    PROVE  IndInv'
<1> DEFINE t == [conn[c] EXCEPT !.keep = TRUE]
<1>1. conn[c] \in Conn
  BY DEF IndInv, TypeOK
<1>2. /\ t \in Conn
      /\ GoodConn(conn[c]) => GoodConn(t)
      /\ Clean(conn[c]) => Clean(t)
      /\ t.k = conn[c].k /\ t.inmap = conn[c].inmap /\ t.connected = conn[c].connected
      /\ t.mode = conn[c].mode
  BY <1>1, KeepGood
<1>3. conn' = [conn EXCEPT ![c] = t]
  BY DEF KeepAfterFin
<1> HIDE DEF t
<1>4. mpc = "body" /\ ~cleanup
      /\ UNCHANGED <<mstate, mexc, exit, cstate, cexc, pend, lock, mpc, mcl, cleanup, todo,
                     reported, ppc, ready, failing, crashed>>
  BY DEF KeepAfterFin, IndInv, CleanupInv, mainVars, pollVars
<1>5. TypeOK'
  BY <1>2, <1>3, <1>4 DEF IndInv, TypeOK
<1>6. LockHeld' /\ ManagerInv' /\ CleanupInv' /\ CleanupRunsAlone' /\ CrashIsReported'
  BY <1>4 DEF IndInv, LockHeld, ManagerInv, CleanupInv, CleanupRunsAlone, CrashIsReported,
              PollerGone
<1>7. MapIsExact' /\ ClientInv' /\ PendingInv'
  BY <1>1, <1>2, <1>3, <1>4 DEF IndInv, TypeOK, MapIsExact, ClientInv, PendingInv
<1> QED
  BY <1>5, <1>6, <1>7 DEF IndInv

\* start() works on a clean client: the socket it creates is consistent.
LEMMA StartCreatePreserves ==
    ASSUME IndInv, StartCreate
    PROVE  IndInv'
<1> USE DEF IndInv, TypeOK, LockHeld, MapIsExact, ManagerInv, ClientInv, PendingInv, CleanupInv,
            CleanupRunsAlone, CrashIsReported, PollerGone, MainLocked, MainPoints, PollLocked,
            PollPoints, mainVars, pollVars, MainGoto, PollGoto, MayStart, MayStop,
            States, STATE_STOPPED, STATE_STARTED, STATE_ERROR, STATE_BEGIN_START
<1> DEFINE t == CreateSocket(conn[mcl])
<1>1. /\ conn[mcl] \in Conn /\ Clean(conn[mcl]) /\ lock = "main"
      /\ ~cleanup /\ cstate[mcl] # STATE_STOPPED
  BY DEF StartCreate
<1>2. t \in Conn /\ GoodConn(t) /\ t.k = "fresh" /\ t.inmap /\ ~t.connected
  BY <1>1 DEF CreateSocket, Conn, GoodConn, Clean, OpenFd, Kernel
<1>3. CASE conn' = [conn EXCEPT ![mcl] = t]
  <2> HIDE DEF t
  <2> QED BY <1>1, <1>2, <1>3 DEF StartCreate
<1>4. CASE mpc' = "start_fail" /\ UNCHANGED conn
  <2> HIDE DEF t
  <2> QED BY <1>1, <1>4 DEF StartCreate
<1> QED
  BY <1>3, <1>4 DEF StartCreate

\* start() after its socket exists: connect() succeeds, is in progress or raises.
LEMMA StartConnectPreserves ==
    ASSUME IndInv, StartConnect
    PROVE  IndInv'
<1> USE DEF IndInv, TypeOK, LockHeld, MapIsExact, ManagerInv, ClientInv, PendingInv, CleanupInv,
            CleanupRunsAlone, CrashIsReported, PollerGone, MainLocked, MainPoints, PollLocked,
            PollPoints, mainVars, pollVars, MainGoto, PollGoto, MayStart, MayStop,
            States, STATE_STOPPED, STATE_STARTED, STATE_ERROR, STATE_BEGIN_START
<1>1. /\ conn[mcl] \in Conn /\ conn[mcl].inmap /\ lock = "main"
      /\ conn[mcl].k = "fresh" /\ ~cleanup /\ cstate[mcl] # STATE_STOPPED
  BY DEF StartConnect
<1>2. ASSUME NEW t \in {ConnectInProgress(conn[mcl]), ConnectAtOnce(conn[mcl]),
                       ConnectError(conn[mcl])}
      PROVE  t \in Conn /\ GoodConn(t)
  BY <1>1, ConnectGood
<1>3. PICK t \in {ConnectInProgress(conn[mcl]), ConnectAtOnce(conn[mcl]),
                 ConnectError(conn[mcl])} : conn' = [conn EXCEPT ![mcl] = t]
  BY DEF StartConnect
<1> QED
  BY <1>1, <1>2, <1>3 DEF StartConnect

\* stop() closes the socket whatever the test set, and leaves a clean client.
LEMMA StopClosePreserves ==
    ASSUME IndInv, StopClose
    PROVE  IndInv'
<1> USE DEF IndInv, TypeOK, LockHeld, MapIsExact, ManagerInv, ClientInv, PendingInv, CleanupInv,
            CleanupRunsAlone, CrashIsReported, PollerGone, MainLocked, MainPoints, PollLocked,
            PollPoints, mainVars, pollVars, MainGoto, PollGoto, MayStart, MayStop,
            States, STATE_STOPPED, STATE_STARTED, STATE_ERROR, STATE_BEGIN_START
<1> DEFINE unkept == [conn[mcl] EXCEPT !.keep = FALSE]
           t == HandleClose(unkept)
<1>1. conn[mcl] \in Conn /\ GoodConn(conn[mcl]) /\ lock = "main" /\ ppc \notin PollLocked
  BY DEF StopClose
<1>2. /\ unkept \in Conn /\ GoodConn(unkept)
      /\ Clean(conn[mcl]) => Clean(unkept)
      /\ unkept.k = conn[mcl].k /\ unkept.inmap = conn[mcl].inmap
  BY <1>1 DEF Conn, GoodConn, Clean
<1>3. t \in Conn /\ GoodConn(t) /\ Clean(t)
  BY <1>1 DEF HandleClose, Conn, GoodConn, Clean, OpenFd, Kernel
<1>4. CASE mpc' = "stop_rel" /\ conn' = [conn EXCEPT ![mcl] = t]
  <2> HIDE DEF t
  <2> QED BY <1>1, <1>3, <1>4 DEF StopClose
<1>5. CASE mpc' = "stop_fail" /\ conn' = [conn EXCEPT ![mcl] = unkept]
  <2> HIDE DEF unkept
  <2> QED BY <1>1, <1>2, <1>5 DEF StopClose
<1> QED
  BY <1>4, <1>5 DEF StopClose

\* The end of stop(), with or without an exception of its procedure.
LEMMA ClientStoppedPreserves ==
    ASSUME IndInv, ClientStopped
    PROVE  IndInv'
<1>1. /\ mpc \in {"stop_set", "stop_err"}
      /\ mpc' = IF cleanup THEN "cl_mgr" ELSE "body"
      /\ mcl \in Clients
      /\ cstate' = [cstate EXCEPT ![mcl] = IF mpc = "stop_set" THEN STATE_STOPPED ELSE STATE_ERROR]
      /\ cexc' \in {cexc, [cexc EXCEPT ![mcl] = TRUE]}
      /\ UNCHANGED <<mstate, mexc, exit, conn, pend, lock, mcl, cleanup, todo, reported,
                     ppc, ready, failing, crashed>>
  BY DEF ClientStopped, Return, IndInv, TypeOK, pollVars
<1>2. mpc = "stop_set" => Clean(conn[mcl])
  BY DEF IndInv, ClientInv
<1>3. cexc' \in [Clients -> BOOLEAN]
  BY <1>1 DEF IndInv, TypeOK
<1>4. TypeOK'
  BY <1>1, <1>3 DEF IndInv, TypeOK, MainPoints, States, STATE_STOPPED, STATE_ERROR
<1>5. LockHeld' /\ MapIsExact' /\ ManagerInv' /\ PendingInv' /\ CleanupRunsAlone'
      /\ CrashIsReported'
  BY <1>1 DEF IndInv, LockHeld, MapIsExact, ManagerInv, PendingInv, CleanupRunsAlone,
              CrashIsReported, MainLocked, PollerGone
<1>6. ClientInv'
  BY <1>1, <1>2 DEF IndInv, TypeOK, ClientInv, STATE_STOPPED, STATE_ERROR
<1>7. CleanupInv'
  BY <1>1, <1>2 DEF IndInv, TypeOK, CleanupInv, STATE_STOPPED, STATE_ERROR
<1> QED
  BY <1>4, <1>5, <1>6, <1>7 DEF IndInv

\* finish_all_deproxy closes everything stop() left open.
LEMMA FinishPreserves ==
    ASSUME IndInv, FinishAllDeproxy
    PROVE  IndInv'
<1> DEFINE T(s) == IF s.inmap THEN [HandleClose(s) EXCEPT !.inmap = FALSE] ELSE s
<1>1. ASSUME NEW s \in Conn, GoodConn(s)
      PROVE  /\ T(s) \in Conn
             /\ T(s).k \in OpenFd => T(s).keep
             /\ Clean(s) => Clean(T(s)) /\ s.k \notin OpenFd
  BY <1>1 DEF HandleClose, Conn, GoodConn, Clean, OpenFd, Kernel
<1>2. /\ mpc = "cl_finish" /\ mpc' = "done" /\ ppc \in {"none", "crash_clients", "end"}
      /\ cleanup /\ todo = {}
      /\ conn \in [Clients -> Conn] /\ \A c \in Clients : GoodConn(conn[c])
  BY DEF FinishAllDeproxy, MainGoto, IndInv, CleanupRunsAlone, PollerGone, CleanupInv, TypeOK,
         MapIsExact
<1>3. conn' = [c \in Clients |-> T(conn[c])]
  BY DEF FinishAllDeproxy
<1> HIDE DEF T
<1>4. /\ conn' \in [Clients -> Conn]
      /\ \A c \in Clients : /\ conn'[c].k \in OpenFd => conn'[c].keep
                            /\ Clean(conn[c]) => Clean(conn'[c])
  BY <1>1, <1>2, <1>3
<1>5. \A c \in Clients : Clean(conn[c]) \/ cstate[c] = STATE_ERROR
  BY <1>2 DEF IndInv, CleanupInv
<1>6. UNCHANGED <<mstate, mexc, exit, cstate, cexc, pend, lock, mcl, cleanup, todo, reported,
                  ppc, ready, failing, crashed>>
  BY DEF FinishAllDeproxy, pollVars
<1>7. TypeOK'
  BY <1>2, <1>4, <1>6 DEF IndInv, TypeOK, MainPoints
<1>8. LockHeld' /\ MapIsExact' /\ ManagerInv' /\ PendingInv' /\ CleanupRunsAlone'
      /\ CrashIsReported'
  BY <1>2, <1>6 DEF IndInv, LockHeld, MapIsExact, ManagerInv, PendingInv, CleanupRunsAlone,
                    CrashIsReported, MainLocked, PollLocked, PollerGone
<1>9. ClientInv'
  BY <1>2, <1>4, <1>6 DEF IndInv, ClientInv
<1>10. ASSUME NEW c \in Clients, Clean(conn'[c]) PROVE conn'[c].k \notin OpenFd
  BY <1>10 DEF Clean, OpenFd
<1>11. CleanupInv'
  BY <1>2, <1>4, <1>5, <1>6, <1>10 DEF CleanupInv
<1> QED
  BY <1>7, <1>8, <1>9, <1>11 DEF IndInv

\* poll() asks for POLLOUT of a sending client only if it has a request queued.
LEMMA PollPreserves ==
    ASSUME IndInv, NEW due \in SUBSET Clients, Poll(due)
    PROVE  IndInv'
<1> USE DEF IndInv, TypeOK, LockHeld, MapIsExact, ManagerInv, ClientInv, PendingInv, CleanupInv,
            CleanupRunsAlone, CrashIsReported, PollerGone, MainLocked, MainPoints, PollLocked,
            PollPoints, mainVars, pollVars, MainGoto, PollGoto, MayStart, MayStop,
            States, STATE_STOPPED, STATE_STARTED, STATE_ERROR, STATE_BEGIN_START
<1> DEFINE F(c) == PollFlags(conn[c], Writable(conn[c], pend[c], c \in due))
<1>1. \A c \in Clients : F(c) \in SUBSET Flags
  BY DEF PollFlags, Flags
<1>2. \A c \in Clients : conn[c].mode = "send" /\ "OUT" \in F(c) => pend[c] > 0
  BY DEF PollFlags, Writable
<1> HIDE DEF F
<1>3. ready' = [c \in Clients |-> IF conn[c].inmap THEN F(c) ELSE {}]
  BY DEF Poll, F
<1>4. ready' \in [Clients -> SUBSET Flags]
  BY <1>1, <1>3
<1>5. PendingInv'
  BY <1>2, <1>3 DEF Poll
<1> QED
  BY <1>4, <1>5 DEF Poll

\* Handling a poll event touches only a client in socket_map, so neither a
\* stopped client nor one that the main thread is setting up.
LEMMA PollHandlePreserves ==
    ASSUME IndInv, NEW c \in Clients, NEW rout \in Outcomes, NEW wout \in Outcomes,
           PollHandle(c, rout, wout)
    PROVE  IndInv'
<1> USE DEF IndInv, TypeOK, LockHeld, MapIsExact, ManagerInv, ClientInv, PendingInv, CleanupInv,
            CleanupRunsAlone, CrashIsReported, PollerGone, MainLocked, MainPoints, PollLocked,
            PollPoints, mainVars, pollVars, MainGoto, PollGoto, MayStart, MayStop,
            States, STATE_STOPPED, STATE_STARTED, STATE_ERROR, STATE_BEGIN_START
<1> DEFINE r0 == [s |-> conn[c], pend |-> pend[c], exc |-> "none"]
           r == IF conn[c].inmap THEN Readwrite(r0, ready[c], rout, wout) ELSE r0
<1>1. /\ ppc = "handle" /\ lock = "poll" /\ mpc \notin MainLocked /\ mpc # "done"
      /\ ready[c] \in SUBSET Flags
  BY DEF PollHandle
<1>2. r0 \in Results /\ r0.s = conn[c] /\ r0.pend = pend[c]
  BY DEF Results, Exceptions
<1>3. r \in Results /\ GoodConn(r.s) /\ (~conn[c].inmap => r.s = conn[c] /\ r.pend = pend[c])
  <2>1. GoodConn(r0.s)
    BY <1>1, <1>2
  <2>2. r0.s.mode = "send" /\ "OUT" \in ready[c] /\ conn[c].inmap => r0.pend > 0
    BY <1>1, <1>2
  <2> HIDE DEF r0
  <2> QED BY <1>1, <1>2, <2>1, <2>2, ReadwriteGood
<1>4. /\ conn' = [conn EXCEPT ![c] = r.s]
      /\ pend' = [pend EXCEPT ![c] = r.pend]
      /\ \/ ready' = NoFlags /\ ppc' = "crash_rel" /\ crashed' = TRUE
         \/ ready' = [ready EXCEPT ![c] = {}] /\ UNCHANGED <<ppc, crashed>>
      /\ UNCHANGED <<mstate, mexc, exit, cstate, cexc, lock, mainVars, failing>>
  BY DEF PollHandle
<1> HIDE DEF r, r0
<1>5. r.s \in Conn /\ r.pend \in Nat
  BY <1>3 DEF Results
<1>6. ready' \in [Clients -> SUBSET Flags]
  BY <1>4 DEF NoFlags
<1>7. TypeOK' /\ LockHeld' /\ ManagerInv'
  <2>1. conn' \in [Clients -> Conn] /\ pend' \in [Clients -> Nat]
    BY <1>4, <1>5
  <2>2. crashed' \in BOOLEAN /\ ppc' \in PollPoints
    BY <1>4
  <2>4. TypeOK'
    BY <1>4, <1>6, <2>1, <2>2
  <2>3. LockHeld' /\ ManagerInv'
    BY <1>1, <1>4
  <2> QED BY <2>3, <2>4
<1>8. MapIsExact' /\ CleanupRunsAlone' /\ CrashIsReported'
  BY <1>1, <1>3, <1>4
<1>9. PendingInv'
  BY <1>4
<1>10. ASSUME NEW d \in Clients, Clean(conn[d]) PROVE Clean(conn'[d])
  BY <1>3, <1>4, <1>10 DEF Clean
<1>11. ClientInv'
  BY <1>1, <1>4, <1>10
<1>12. CleanupInv'
  BY <1>1, <1>4, <1>10
<1> QED
  BY <1>7, <1>8, <1>9, <1>11, <1>12

\* Every step of either thread and of the network preserves the invariant.
THEOREM Inductive == IndInv /\ [Next]_vars => IndInv'
<1> SUFFICES ASSUME IndInv, [Next]_vars PROVE IndInv'
  OBVIOUS
<1> USE DEF IndInv, TypeOK, LockHeld, MapIsExact, ManagerInv, ClientInv, PendingInv, CleanupInv,
            CleanupRunsAlone, CrashIsReported, PollerGone, MainLocked, MainPoints, PollLocked,
            PollPoints, mainVars, pollVars, MainGoto, PollGoto, MayStart, MayStop,
            States, STATE_STOPPED, STATE_STARTED, STATE_ERROR, STATE_BEGIN_START
<1>1. ASSUME MgrStart
      PROVE  IndInv'
  BY <1>1 DEF MgrStart
<1>2. ASSUME MgrStarted
      PROVE  IndInv'
  BY <1>2 DEF MgrStarted
<1>3. ASSUME MgrStop
      PROVE  IndInv'
  BY <1>3 DEF MgrStop
<1>4. ASSUME MgrJoined
      PROVE  IndInv'
  BY <1>4 DEF MgrJoined
<1>5. ASSUME NEW c \in Clients, ClientStart(c)
      PROVE  IndInv'
  BY <1>5 DEF ClientStart
<1>6. ASSUME NEW c \in Clients, ClientStop(c)
      PROVE  IndInv'
  BY <1>6 DEF ClientStop
<1>7. ASSUME NEW c \in Clients, MakeRequest(c)
      PROVE  IndInv'
  BY <1>7 DEF MakeRequest
<1>8. ASSUME NEW c \in Clients, KeepAfterFin(c)
      PROVE  IndInv'
  BY <1>8, KeepPreserves
<1>9. ASSUME NEW c \in Clients, SetRst(c)
      PROVE  IndInv'
  BY <1>9 DEF SetRst
<1>10. ASSUME BeginCleanup
      PROVE  IndInv'
  BY <1>10 DEF BeginCleanup
<1>11. ASSUME MainAcquire
      PROVE  IndInv'
  BY <1>11 DEF MainAcquire
<1>12. ASSUME StartCreate
      PROVE  IndInv'
  BY <1>12, StartCreatePreserves
<1>13. ASSUME StartConnect
      PROVE  IndInv'
  BY <1>13, StartConnectPreserves
<1>14. ASSUME ClientStarted
      PROVE  IndInv'
  BY <1>14 DEF ClientStarted
<1>15. ASSUME StopClose
      PROVE  IndInv'
  BY <1>15, StopClosePreserves
<1>16. ASSUME ClientStopped
      PROVE  IndInv'
  BY <1>16, ClientStoppedPreserves
<1>17. ASSUME SetRstOption
      PROVE  IndInv'
  BY <1>17 DEF SetRstOption
<1>18. ASSUME MainRelease
      PROVE  IndInv'
  BY <1>18 DEF MainRelease
<1>19. ASSUME SkipManager
      PROVE  IndInv'
  BY <1>19 DEF SkipManager
<1>20. ASSUME CheckExceptions
      PROVE  IndInv'
  BY <1>20 DEF CheckExceptions
<1>21. ASSUME FinishAllDeproxy
      PROVE  IndInv'
  BY <1>21, FinishPreserves
<1>22. ASSUME NEW c \in Clients, SkipClient(c)
      PROVE  IndInv'
  BY <1>22 DEF SkipClient
<1>23. ASSUME PollCheckExit
      PROVE  IndInv'
  BY <1>23 DEF PollCheckExit
<1>24. ASSUME NEW due \in SUBSET Clients, Poll(due)
      PROVE  IndInv'
  BY <1>24, PollPreserves
<1>25. ASSUME NEW c \in Clients, NEW rout \in Outcomes, NEW wout \in Outcomes,
             PollHandle(c, rout, wout)
      PROVE  IndInv'
  BY <1>25, PollHandlePreserves
<1>26. ASSUME PollRelease
      PROVE  IndInv'
  BY <1>26 DEF PollRelease
<1>27. ASSUME PollAcquire
      PROVE  IndInv'
  BY <1>27 DEF PollAcquire
<1>28. ASSUME CrashRelease
      PROVE  IndInv'
  BY <1>28 DEF CrashRelease
<1>29. ASSUME CrashAppend
      PROVE  IndInv'
  BY <1>29 DEF CrashAppend
<1>30. ASSUME CrashState
      PROVE  IndInv'
  BY <1>30 DEF CrashState
<1>31. ASSUME NEW c \in Clients, CrashClient(c)
      PROVE  IndInv'
  BY <1>31 DEF CrashClient
<1>32. ASSUME CrashEnd
      PROVE  IndInv'
  BY <1>32 DEF CrashEnd
<1>33. ASSUME NEW c \in Clients, Establish(c)
      PROVE  IndInv'
  BY <1>33, NetActions DEF Establish, Kernel1
<1>34. ASSUME NEW c \in Clients, HandshakeFails(c)
      PROVE  IndInv'
  BY <1>34, NetActions DEF HandshakeFails, Kernel1
<1>35. ASSUME NEW c \in Clients, PeerFin(c)
      PROVE  IndInv'
  BY <1>35, NetActions DEF PeerFin, Kernel1
<1>36. ASSUME NEW c \in Clients, PeerData(c)
      PROVE  IndInv'
  BY <1>36, NetActions DEF PeerData, Kernel1
<1>37. ASSUME NEW c \in Clients, PeerRst(c)
      PROVE  IndInv'
  BY <1>37, NetActions DEF PeerRst, Kernel1
<1>38. CASE UNCHANGED vars
  BY <1>38 DEF vars
<1> QED
  BY <1>1, <1>2, <1>3, <1>4, <1>5, <1>6, <1>7, <1>8, <1>9, <1>10, <1>11, <1>12,
     <1>13, <1>14, <1>15, <1>16, <1>17, <1>18, <1>19, <1>20, <1>21, <1>22, <1>23, <1>24, <1>25,
     <1>26, <1>27, <1>28, <1>29, <1>30, <1>31, <1>32, <1>33, <1>34, <1>35, <1>36, <1>37, <1>38
     DEF Next, BodyStep, MainStep, PollStep, NetStep

\* The inductive invariant holds of every reachable state.
THEOREM IndInvHolds == Spec => []IndInv
<1>1. Init => IndInv
  BY InitIndInv
<1>2. IndInv /\ [Next]_vars => IndInv'
  BY Inductive
<1> QED
  BY <1>1, <1>2, PTL DEF Spec

\* Type correctness, among it that _send_data never finds an empty queue.
THEOREM TypeCorrect == Spec => []TypeOK
<1>1. IndInv => TypeOK
  BY DEF IndInv
<1> QED
  BY <1>1, IndInvHolds, PTL

\* The lock protects the critical sections of the two threads, so that, as the
\* README requires, no socket is polled while start() is creating it.
THEOREM LockProtects == Spec => [](LockHeld /\ NoHalfMadeSocketPolled)
<1>1. IndInv => LockHeld /\ NoHalfMadeSocketPolled
  BY DEF IndInv, LockHeld, NoHalfMadeSocketPolled, MainLocked, PollLocked
<1> QED
  BY <1>1, IndInvHolds, PTL

\* socket_map is exact as long as the test and its cleanup run.
THEOREM MapExact == Spec => []MapIsExact
<1>1. IndInv => MapIsExact
  BY DEF IndInv
<1> QED
  BY <1>1, IndInvHolds, PTL

\* start() finds a client without a trace of its previous connection.
THEOREM StartClean == Spec => []StartsClean
<1>1. IndInv => StartsClean
  BY DEF IndInv, ClientInv, StartsClean
<1> QED
  BY <1>1, IndInvHolds, PTL

\* cleanup_services raises the exception that ended the polling cycle, however the
\* two threads' writes to manager.state interleave.
THEOREM CrashReported == Spec => []CrashIsReported
<1>1. IndInv => CrashIsReported
  BY DEF IndInv
<1> QED
  BY <1>1, IndInvHolds, PTL

\* Cleanup has the sockets to itself and closes every socket but those the code
\* knowingly leaves open.
THEOREM CleanupCorrect == Spec => [](CleanupRunsAlone /\ CleanupClosesAll)
<1>1. IndInv => CleanupRunsAlone
  BY DEF IndInv
<1>2. IndInv => CleanupClosesAll
  BY DEF IndInv, CleanupInv, CleanupClosesAll
<1> QED
  BY <1>1, <1>2, IndInvHolds, PTL

=============================================================================
