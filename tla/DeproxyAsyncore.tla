--------------------------- MODULE DeproxyAsyncore ---------------------------
(***************************************************************************)
(* The non-blocking socket of a deproxy client, as framework/deproxy/      *)
(* asyncore.py and the BaseDeproxyClient overrides in deproxy_client.py    *)
(* drive it.  A connection is a record:                                    *)
(*                                                                         *)
(*   k          the kernel's socket behind self._socket: "none" before the *)
(*              first start(), "fresh" created but not connecting, "syn"   *)
(*              handshake in progress, "open" established, "fin" closed by *)
(*              the peer, "reset" a RST received, "refused" / "unreach" a  *)
(*              failed handshake with SO_ERROR still to be read, "dead"    *)
(*              SO_ERROR read, "closed" self._socket.close() called        *)
(*   data       unread bytes are in the receive queue                      *)
(*   connected, connecting     self._connected, self._connecting           *)
(*   mode       "connect": writable is _in_connecting_state and            *)
(*              _handle_write is __setup_write;  "send": _has_pending_data *)
(*              and _send_data                                             *)
(*   inmap      self._fileno is a key of asyncore.socket_map               *)
(*   keep       not self.close_connection_for_tcp_fin                      *)
(*                                                                         *)
(* The handlers run one after another inside _readwrite, so each of them   *)
(* is an operator on a result r = [s, pend, exc]: the connection, the      *)
(* number of queued requests that are not sent yet, and the exception that *)
(* is propagating ("none" if there is none).                               *)
(***************************************************************************)
EXTENDS Naturals

Kernel == {"none", "fresh", "syn", "open", "fin", "reset", "refused",
           "unreach", "dead", "closed"}

\* The kernel states in which self._socket is an open file descriptor.
OpenFd == Kernel \ {"none", "closed"}

Conn == [k : Kernel, data : BOOLEAN, connected : BOOLEAN, connecting : BOOLEAN,
         mode : {"connect", "send"}, inmap : BOOLEAN, keep : BOOLEAN]

\* How I/O on an established connection can end: done, done in part (short
\* write, EWOULDBLOCK), an exception that _handle_error swallows (SSLWantRead,
\* SSLWantWrite, SSLError, AssertionError), SSLEOFError, or one that
\* _handle_error raises again (ParseError, and every other type by error.bug).
Outcomes == {"ok", "partial", "pass", "eof", "fatal"}

Exceptions == {"none", "disconnected", "pass", "eof", "fatal"}

\* DeproxyAsyncore.__init__ and BaseDeproxyClient.__init__
InitConn == [k |-> "none", data |-> FALSE, connected |-> FALSE,
             connecting |-> FALSE, mode |-> "connect", inmap |-> FALSE,
             keep |-> FALSE]

\* Mutants of HandleClose: the channel stays in socket_map; the client keeps its
\* sending handlers.
HandleCloseLeavesChannel(s) ==
    IF s.keep
    THEN s
    ELSE [s EXCEPT !.k = "closed", !.data = FALSE, !.connected = FALSE,
                   !.connecting = FALSE, !.mode = "connect"]
HandleCloseLeavesMode(s) ==
    IF s.keep
    THEN s
    ELSE [s EXCEPT !.k = "closed", !.data = FALSE, !.connected = FALSE,
                   !.connecting = FALSE, !.inmap = FALSE]

\* _handle_close: the base class closes the socket and forgets the channel, the
\* client goes back to the connecting handlers.  A no-op when keep is set.
HandleClose(s) ==
    IF s.keep
    THEN s
    ELSE [s EXCEPT !.k = "closed", !.data = FALSE, !.connected = FALSE,
                   !.connecting = FALSE, !.mode = "connect", !.inmap = FALSE]

With(r, s) == [r EXCEPT !.s = s]
Close(r) == With(r, HandleClose(r.s))
Raise(r, e) == [r EXCEPT !.exc = e]

\* _create_socket, _set_socket, _add_channel
CreateSocket(s) == [s EXCEPT !.k = "fresh", !.data = FALSE, !.inmap = TRUE]

\* connect_ex in _connect: in progress, done at once (_handle_connect_event
\* follows), or an error that is raised and leaves _connecting set.
ConnectInProgress(s) == [s EXCEPT !.k = "syn", !.connected = FALSE, !.connecting = TRUE]
ConnectAtOnce(s) == [s EXCEPT !.k = "open", !.connected = TRUE, !.connecting = FALSE]
ConnectError(s) == [s EXCEPT !.connected = FALSE, !.connecting = TRUE]

\* _handle_connect_event: reading SO_ERROR clears it, so that a second visit to
\* a socket whose handshake failed takes it for a connected one.
HandleConnectEvent(r) ==
    CASE r.s.k = "refused" -> Raise(With(r, [r.s EXCEPT !.k = "dead"]), "pass")
      [] r.s.k = "unreach" -> Raise(With(r, [r.s EXCEPT !.k = "dead"]), "fatal")
      [] r.s.k = "reset" -> Raise(With(r, [r.s EXCEPT !.k = "dead"]), "disconnected")
      [] OTHER -> With(r, [r.s EXCEPT !.connected = TRUE, !.connecting = FALSE])

\* The connection check that _handle_read_event and _handle_write_event share.
ConnectFirst(r) ==
    IF ~r.s.connected /\ r.s.connecting THEN HandleConnectEvent(r) ELSE r

\* An exception out of recv or send on an established connection.
IORaise(r, out) == IF out \in {"pass", "eof", "fatal"} THEN Raise(r, out) ELSE r

\* _handle_read: _recv closes on an empty read and on a disconnection errno; what
\* is left in response_buffer is then parsed once more, which may raise.
HandleRead(r, out) ==
    IF r.s.k \in {"open", "fin"} /\ r.s.data
    THEN IORaise(With(r, [r.s EXCEPT !.data = FALSE]), out)
    ELSE IF out = "fatal" THEN Raise(Close(r), "fatal") ELSE Close(r)

\* _send_data: a request leaves the queue when all of it is sent.  _send closes
\* on a disconnection errno and reports 0 bytes.
SendData(r, out) ==
    IF r.s.k \in {"open", "fin"}
    THEN IORaise([r EXCEPT !.pend = IF out = "ok" THEN @ - 1 ELSE @], out)
    ELSE Close(r)

\* _handle_write is either _send_data or __setup_write, which switches the
\* handlers over and sends the first request if there is one and it is due
\* ("partial" also stands for a request that is not).
HandleWrite(r, out) ==
    LET sending == With(r, [r.s EXCEPT !.mode = "send"])
    IN  IF r.s.mode = "connect" /\ (r.pend = 0 \/ out = "partial")
        THEN sending
        ELSE SendData(sending, out)

HandleReadEvent(r, out) ==
    LET r1 == ConnectFirst(r)
    IN  IF r1.exc = "none" THEN HandleRead(r1, out) ELSE r1

HandleWriteEvent(r, out) ==
    LET r1 == ConnectFirst(r)
    IN  IF r1.exc = "none" THEN HandleWrite(r1, out) ELSE r1

\* _handle_error, and the close that _readwrite does itself on an errno of
\* `disconnected'.  An exception of class "fatal" leaves _readwrite.
HandleError(r) == IF r.exc \in {"none", "pass"} THEN r ELSE Close(r)

\* _readwrite: the three flag groups in order, cut short by an exception.
Readwrite(r, flags, rout, wout) ==
    LET r1 == IF "IN" \in flags THEN HandleReadEvent(r, rout) ELSE r
        r2 == IF "OUT" \in flags /\ r1.exc = "none" THEN HandleWriteEvent(r1, wout) ELSE r1
        r3 == IF "HUP" \in flags /\ r2.exc = "none" THEN Close(r2) ELSE r2
    IN  HandleError(r3)

\* The writable() of the client.  `due' stands for the clock: the rps schedule
\* and the segment gap have elapsed.
Writable(s, pend, due) ==
    IF s.mode = "connect" THEN s.connecting ELSE pend > 0 /\ due

\* What poll() reports of a registered socket.  POLLHUP and POLLERR are
\* reported without being asked for; _readwrite treats them alike.
PollFlags(s, wantsOut) ==
    (IF s.data \/ s.k \in {"fin", "reset", "refused", "unreach", "dead"} THEN {"IN"} ELSE {})
    \cup (IF wantsOut /\ s.k # "syn" THEN {"OUT"} ELSE {})
    \cup (IF s.k \in {"fresh", "reset", "refused", "unreach", "dead"} THEN {"HUP"} ELSE {})

=============================================================================
