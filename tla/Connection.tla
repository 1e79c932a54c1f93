----------------------------- MODULE Connection -----------------------------
(***************************************************************************)
(* What a connection of the deproxy server promises to the server and to   *)
(* the peer, whatever its two tasks are doing: ServerConnection implements *)
(* it, DeproxyServer is composed of connections that are known by it only. *)
(*                                                                         *)
(* The connection is a record: its phase (open; closing, once close() was  *)
(* called; removed, once the server has forgotten it), the requests that   *)
(* it handed to the server, the responses that it wrote, and whether the   *)
(* server greets (send_after_conn_established).                            *)
(***************************************************************************)
EXTENDS Integers

CONSTANT MaxReq     \* bound: requests on one connection

VARIABLE conn

Conn == [phase : {"open", "closing", "removed"}, got : 0..MaxReq, sent : 0..(MaxReq + 1),
         greets : BOOLEAN]

NewConn(greets) == [phase |-> "open", got |-> 0, sent |-> 0, greets |-> greets]

\* The connection after it has handed over one request or more.  The last of them
\* may end the connection.  What was read before the end is still handed over.
Received(c, n, p) == [c EXCEPT !.got = n, !.phase = p]

Receives(c) ==
    {Received(c, n, p) :
        n \in (c.got + 1)..MaxReq,
        p \in {c.phase} \cup (IF c.phase = "open" THEN {"closing"} ELSE {})}

\* ... after it has written responses: one for each request at most, and one more
\* if the server greets.
Sends(c) ==
    {[c EXCEPT !.sent = n] : n \in (c.sent + 1)..(c.got + (IF c.greets THEN 1 ELSE 0))}

\* ... after close() was called, and after it has come to its end.
Closes(c) == IF c.phase = "open" THEN {[c EXCEPT !.phase = "closing"]} ELSE {}
Removes(c) == IF c.phase = "closing" THEN {[c EXCEPT !.phase = "removed"]} ELSE {}

Init == \E greets \in BOOLEAN : conn = NewConn(greets)

Next ==
    \/ conn' \in Receives(conn)
    \/ conn' \in Sends(conn)
    \/ conn' \in Closes(conn)
    \/ conn' \in Removes(conn)

Spec == Init /\ [][Next]_conn

=============================================================================
