-------------------------- MODULE DeproxyClientH2 --------------------------
(***************************************************************************)
(* The HTTP/2 deproxy client (DeproxyClientH2 of deproxy_client.py) on one *)
(* TLS connection.  The main thread queues requests, one step per          *)
(* statement and without the lock; the polling thread sends them, as far   *)
(* as the flow control window goes, and handles the events of the h2       *)
(* library, one step per event.  Both use the outbound buffer of the h2    *)
(* connection, both append to the same two lists of buffers.               *)
(*                                                                         *)
(* Bytes are abstracted to frames, bodies to their length.  Streams are    *)
(* numbered 1, 2, ... instead of 1, 3, ...                                 *)
(***************************************************************************)
EXTENDS Integers, Sequences, SequencesExt, FiniteSets, Functions

CONSTANTS MaxStreams,   \* bound: requests of the test
          Bodies,       \* bound: the lengths of a body
          MaxItems,     \* bound: calls that queue something, PING and SETTINGS included
          MaxWire,      \* bound: records under way to the client
          MaxRecords,   \* bound: records that the peer sends in all
          MaxUpsets,    \* bound: resets, empty DATA frames, GOAWAY or the end of the connection
          Window,       \* flow control window at the start
          MaxFrame      \* max_outbound_frame_size

ASSUME BoundsAssumption ==
    /\ MaxStreams \in Nat /\ Bodies \subseteq Nat /\ 0 \in Bodies /\ MaxItems \in Nat /\ MaxWire \in Nat
    /\ MaxRecords \in Nat /\ MaxUpsets \in Nat /\ Window \in Nat /\ MaxFrame \in Nat \ {0}

VARIABLES
    main,   \* main thread: pc, kind and len of what it sends, stream_id, open (a
            \* stream without END_STREAM), items (calls so far)
    q,      \* bufs (_request_buffers), bodies (_req_body_buffers), nrreq, cur
    h2,     \* out (frames in the outbound buffer), win (window), reset (streams),
            \* closed (ConnectionState.CLOSED: the peer's GOAWAY was received)
    cnt,    \* valid (_valid_req_num), ack (_ack_settings), pings
    poll,   \* polling thread: pc, events (lists of the nested _handle_read), crashed
    resp,   \* active (_active_responses), done (responses: stream and body length)
    net,    \* conn, wire (TLS records to the client)
    peer,   \* of the frames it received: seen (how far a stream is), window (what it
            \* has granted and not yet got), due (acknowledgements); of those it sent:
            \* ans (what it said on a stream), greeted, left (GOAWAY), said
    odd     \* history: the coincidences met so far

vars == <<main, q, h2, cnt, poll, resp, net, peer, odd>>

Streams == 1 .. MaxStreams
None == -1
Frame(t, s, n, end) == [t |-> t, s |-> s, n |-> n, end |-> end]
Event(t, s) == [t |-> t, s |-> s, n |-> 0]
Data(s, n) == [t |-> "DataReceived", s |-> s, n |-> n]
NoBody == [len |-> None, s |-> 0, end |-> FALSE]

\* update_initial_settings of run_start: the preamble and the SETTINGS frame wait in
\* h2's buffer for the first frame that is sent.
InitialFrames == <<Frame("SETTINGS", 0, 0, FALSE)>>

\* clear_stats, on a connection that is established.
Init ==
    /\ main = [pc |-> "idle", kind |-> "none", len |-> 0, stream_id |-> 1, open |-> FALSE,
               items |-> 0]
    /\ q = [bufs |-> <<>>, bodies |-> <<>>, nrreq |-> 0, cur |-> 0]
    /\ h2 = [out |-> InitialFrames, win |-> Window, reset |-> {}, closed |-> FALSE]
    /\ cnt = [valid |-> 0, ack |-> FALSE, pings |-> 0]
    /\ poll = [pc |-> "idle", events |-> <<>>, crashed |-> FALSE]
    /\ resp = [active |-> [s \in Streams |-> None], done |-> <<>>]
    /\ net = [conn |-> "open", wire |-> <<>>]
    /\ peer = [seen |-> [s \in Streams |-> "idle"], window |-> Window,
               due |-> [t \in {"SETTINGS", "PING"} |-> 0],
               ans |-> [s \in Streams |-> "none"], greeted |-> FALSE, left |-> FALSE, said |-> 0]
    /\ odd = {}

\* A stream as the peer sees it after one more frame; "broken" is a protocol error.
SeenAfter(state, f) ==
    CASE state = "idle" /\ f.t = "HEADERS" -> IF f.end THEN "ended" ELSE "open"
      [] state = "open" /\ f.t = "DATA" -> IF f.end THEN "ended" ELSE "open"
      [] OTHER -> "broken"

\* The peer once the frames have reached it.
Delivered(p, frames) ==
    FoldLeft(LAMBDA m, f :
                 IF f.s \in Streams
                 THEN [m EXCEPT !.seen[f.s] = SeenAfter(@, f), !.window = @ - f.n]
                 ELSE IF f.t \in DOMAIN m.due THEN [m EXCEPT !.due[f.t] = @ + 1]
                 ELSE m,
             p, frames)

\* The connection is closed; what was under way is lost.
Closed == [conn |-> "closed", wire |-> <<>>]

\* A call of the main thread returns.
Returns == [main EXCEPT !.pc = "idle", !.kind = "none", !.len = 0]

-----------------------------------------------------------------------------
(* The main thread. *)

\* What is queued once the peer has closed the connection is never sent.
MayAsk == main.pc = "idle" /\ main.items < MaxItems /\ net.conn = "open"

\* make_request of a list (headers), of a tuple (headers and body) or of a str (more
\* of the body of an open stream), with or without end_stream.  h2.send_headers is
\* called at once and raises, before anything is queued, once h2 is closed; a str
\* does not ask h2.
MakeRequest(kind, len, end_stream) ==
    /\ MayAsk /\ main.stream_id \in Streams
    /\ main.open <=> kind = "str"
    /\ kind = "list" => len = 0
    /\ kind # "str" => ~h2.closed
    /\ main' = [main EXCEPT !.pc = "buffer", !.kind = kind, !.len = len, !.open = ~end_stream,
                           !.items = @ + 1]
    /\ h2' = IF kind = "str" THEN h2
             ELSE [h2 EXCEPT !.out = Append(@, Frame("HEADERS", main.stream_id, 0,
                                                     kind = "list" /\ end_stream))]
    /\ UNCHANGED <<q, cnt, poll, resp, net, peer, odd>>

\* send_ping and send_settings_frame queue one frame with send_bytes.  Both raise once
\* h2 is closed; _ack_settings is cleared all the same.
SendPing ==
    /\ MayAsk /\ ~h2.closed
    /\ main' = [main EXCEPT !.pc = "buffer", !.kind = "PING", !.items = @ + 1]
    /\ h2' = [h2 EXCEPT !.out = Append(@, Frame("PING", 0, 0, FALSE))]
    /\ UNCHANGED <<q, cnt, poll, resp, net, peer, odd>>

SendSettings ==
    /\ MayAsk
    /\ main' = IF h2.closed THEN [main EXCEPT !.items = @ + 1]
               ELSE [main EXCEPT !.pc = "buffer", !.kind = "SETTINGS", !.items = @ + 1]
    /\ cnt' = [cnt EXCEPT !.ack = FALSE]
    /\ h2' = IF h2.closed THEN h2
             ELSE [h2 EXCEPT !.out = Append(@, Frame("SETTINGS", 0, 0, FALSE))]
    /\ odd' = IF cnt.ack THEN odd ELSE odd \cup {"settings in flight"}
    /\ UNCHANGED <<q, poll, resp, net, peer>>

\* _add_to_request_buffers: data_to_send() empties h2's buffer.  If the polling
\* thread did so after send_headers(), an empty buffer is queued.
AppendBuffer ==
    LET data == IF main.kind = "str" THEN <<>> ELSE h2.out
    IN  /\ main.pc = "buffer"
        /\ main' = [main EXCEPT !.pc = "body"]
        /\ q' = [q EXCEPT !.bufs = Append(@, data)]
        /\ h2' = IF main.kind = "str" THEN h2 ELSE [h2 EXCEPT !.out = <<>>]
        /\ odd' = IF data = <<>> /\ main.kind # "str" /\ ~h2.closed THEN odd \cup {"taken"} ELSE odd
        /\ UNCHANGED <<cnt, poll, resp, net, peer>>

\* _add_to_body_buffers.  The two lists get out of step if the polling thread is
\* between its own two appends.
AppendBody ==
    /\ main.pc = "body"
    /\ main' = [main EXCEPT !.pc = "count"]
    /\ q' = [q EXCEPT !.bodies = Append(@,
                IF main.kind \in {"tuple", "str"}
                THEN [len |-> main.len, s |-> main.stream_id, end |-> ~main.open] ELSE NoBody)]
    /\ odd' = IF poll.pc = "body" THEN odd \cup {"mixed"} ELSE odd
    /\ UNCHANGED <<h2, cnt, poll, resp, net, peer>>

\* What is sent is a request and ends its stream.
EndsRequest == main.kind \in {"list", "tuple", "str"} /\ ~main.open

\* Mutant of ValidReqNum: a request that is finished with a str is not counted.
ValidReqNumWhole == IF EndsRequest /\ main.kind # "str" THEN cnt.valid + 1 ELSE cnt.valid

ValidReqNum == IF EndsRequest THEN cnt.valid + 1 ELSE cnt.valid

\* _nrreq counts the buffer and, of a request that is complete, _valid_req_num and
\* stream_id follow (the polling thread reads neither).  A call of send_ping goes on.
CountRequest ==
    /\ main.pc = "count"
    /\ main' = IF main.kind = "PING" THEN [main EXCEPT !.pc = "clear"]
               ELSE [Returns EXCEPT !.stream_id = IF EndsRequest THEN @ + 1 ELSE @]
    /\ q' = [q EXCEPT !.nrreq = @ + 1]
    /\ cnt' = [cnt EXCEPT !.valid = ValidReqNum]
    /\ UNCHANGED <<h2, poll, resp, net, peer, odd>>

\* clear_outbound_data_buffer at the end of send_ping, whatever is in it by then.
ClearOutbound ==
    /\ main.pc = "clear"
    /\ main' = Returns
    /\ h2' = [h2 EXCEPT !.out = <<>>]
    /\ UNCHANGED <<q, cnt, poll, resp, net, peer, odd>>

-----------------------------------------------------------------------------
(* The polling thread: sending. *)

\* Mutant of DataSize: a body that does not fit is not cut.
DataSizeOfWhole(body) == IF body.len > h2.win \/ body.len > MaxFrame THEN 0 ELSE body.len

\* __prepare_data_frames: what the window and the frame size allow of a body.
DataSize(body) ==
    LET size == IF h2.win < MaxFrame THEN h2.win ELSE MaxFrame
    IN  IF body.len > size THEN size ELSE body.len

\* An exception that _handle_error does not expect: the polling thread ends.
Crash ==
    poll' = [poll EXCEPT !.pc = "idle", !.events = <<>>, !.crashed = TRUE]

\* Mutant of NextReq: the request is done with when its headers are sent.
NextReqEarly(n, rest, body) == IF n > 0 /\ rest = <<>> THEN q.cur + 1 ELSE q.cur

\* _cur_req_num advances when buffer and body are empty, but only if the buffer
\* had something in it.
NextReq(n, rest, body) ==
    IF n > 0 /\ rest = <<>> /\ body = NoBody THEN q.cur + 1 ELSE q.cur

\* _send_data: n frames of the buffer.  Once it is empty, a DATA frame of the body
\* takes its place, with what else is in h2's buffer; none is made, not even an
\* empty one, when the window is 0.  h2 raises for a stream that was reset, and for
\* any DATA once it is closed.
SendData(n) ==
    LET i == q.cur + 1
        rest == SubSeq(q.bufs[i], n + 1, Len(q.bufs[i]))
        body == q.bodies[i]
        size == DataSize(body)
        data == Append(h2.out, Frame("DATA", body.s, size, size = body.len /\ body.end))
        due == rest = <<>> /\ body # NoBody
        raises == due /\ (body.s \in h2.reset \/ (h2.closed /\ h2.win > 0))
        moves == due /\ ~raises /\ h2.win > 0
    IN  /\ net.conn = "open" /\ poll.pc = "idle" /\ ~poll.crashed /\ q.cur < q.nrreq
        /\ n \in (IF q.bufs[i] = <<>> THEN {0} ELSE 1..Len(q.bufs[i]))
        /\ peer' = Delivered(peer, SubSeq(q.bufs[i], 1, n))
        /\ net' = IF raises THEN Closed ELSE net
        /\ q' = [q EXCEPT !.cur = NextReq(n, rest, body),
                          !.bufs[i] = IF moves THEN data ELSE rest,
                          !.bodies[i] = IF ~moves THEN @
                                        ELSE IF @.len = size THEN NoBody
                                        ELSE [@ EXCEPT !.len = @ - size]]
        /\ h2' = IF moves THEN [h2 EXCEPT !.out = <<>>, !.win = @ - size] ELSE h2
        /\ IF raises THEN Crash ELSE UNCHANGED poll
        /\ UNCHANGED <<main, cnt, resp, odd>>

\* The peer has closed the connection: an empty read or a failed send closes it.
ConnectionEnds ==
    /\ net.conn = "fin" /\ poll.pc = "idle"
    /\ net.wire = <<>> \/ q.cur < q.nrreq
    /\ net' = Closed
    /\ UNCHANGED <<main, q, h2, cnt, poll, resp, peer, odd>>

-----------------------------------------------------------------------------
(* The polling thread: _handle_read. *)

Of(t, record) == {i \in 1..Len(record) : record[i].t = t}

\* _recv of one TLS record and receive_data, which opens the window, notes resets
\* and prepares the ACK of SETTINGS; a GOAWAY closes h2 and empties its buffer, and
\* the record after it raises ProtocolError.  `outer' are the event lists of the
\* calls that this one is nested in.
Read(outer) ==
    LET record == Head(net.wire)
        goaway == Of("ConnectionTerminated", record) # {}
    IN  /\ net.wire # <<>> /\ net.conn \in {"open", "fin"}
        /\ net' = IF h2.closed THEN Closed ELSE [net EXCEPT !.wire = Tail(@)]
        /\ IF h2.closed THEN Crash /\ UNCHANGED h2
           ELSE /\ h2' = [h2 EXCEPT !.win = @ + Cardinality(Of("WindowUpdated", record)),
                              !.reset = @ \cup {record[i].s : i \in Of("StreamReset", record)},
                              !.closed = goaway,
                              !.out = IF goaway THEN <<>>
                                      ELSE IF Of("Other", record) = {} THEN @
                                      ELSE Append(@, Frame("ACK", 0, 0, FALSE))]
                /\ poll' = [poll EXCEPT !.pc = "event", !.events = Append(outer, record)]

Recv ==
    /\ poll.pc = "idle" /\ ~poll.crashed
    /\ Read(<<>>)
    /\ UNCHANGED <<main, q, cnt, resp, peer, odd>>

Top == Last(poll.events)
Now == Head(Top)
On(t) == poll.pc = "event" /\ Now.t = t

\* Go on with the event lists es, without those that are finished.
GoOn(es) ==
    LET left == SelectSeq(es, LAMBDA list : list # <<>>)
    IN  poll' = [poll EXCEPT !.events = left, !.pc = IF left = <<>> THEN "idle" ELSE "event"]
Handled == [poll.events EXCEPT ![Len(poll.events)] = Tail(Top)]

\* The recursive _handle_read.  With nothing to read the TLS socket raises
\* SSLWantReadError, which ends all the nested calls; at the end of the stream the
\* connection is closed and the caller goes on.
ReadAgain ==
    \/ Read(SelectSeq(Handled, LAMBDA list : list # <<>>))
    \/ net.wire = <<>> /\ net.conn = "open" /\ GoOn(<<>>) /\ UNCHANGED <<net, h2>>
    \/ /\ net.conn = "closed" \/ (net.wire = <<>> /\ net.conn = "fin")
       /\ net' = Closed
       /\ GoOn(Handled)
       /\ UNCHANGED h2

\* The headers of a response open it; the body is still empty.
OnResponse ==
    /\ On("ResponseReceived")
    /\ resp' = [resp EXCEPT !.active[Now.s] = 0]
    /\ GoOn(Handled)
    /\ UNCHANGED <<main, q, h2, cnt, net, peer, odd>>

\* increment_flow_control_window: h2 makes a WINDOW_UPDATE of the connection (and one
\* of the stream if that is still open; the two go together) unless it is closed, and
\* send_bytes follows in any case, in two steps.  h2 raises ValueError for an
\* increment of 0.
IncrementFlowControlWindow(n) ==
    IF n = 0 /\ ~h2.closed
    THEN Crash /\ net' = Closed /\ UNCHANGED h2
    ELSE /\ h2' = IF h2.closed THEN h2
                  ELSE [h2 EXCEPT !.out = Append(@, Frame("WINDOW_UPDATE", 0, 0, FALSE))]
         /\ poll' = [poll EXCEPT !.pc = "buffer"]
         /\ UNCHANGED net

\* Without a response to add to: AttributeError.  Else the window is given back, unless
\* the test has switched auto_flow_control off.
OnData ==
    /\ On("DataReceived")
    /\ IF resp.active[Now.s] = None
       THEN Crash /\ net' = Closed /\ UNCHANGED <<h2, resp>>
       ELSE /\ resp' = [resp EXCEPT !.active[Now.s] = @ + Now.n]
            /\ \/ IncrementFlowControlWindow(Now.n)
               \/ GoOn(Handled) /\ UNCHANGED <<h2, net>>
    /\ UNCHANGED <<main, q, cnt, peer, odd>>

UpdateBuffer ==
    /\ poll.pc = "buffer"
    /\ q' = [q EXCEPT !.bufs = Append(@, h2.out)]
    /\ h2' = [h2 EXCEPT !.out = <<>>]
    /\ poll' = [poll EXCEPT !.pc = "body"]
    /\ odd' = IF h2.out = <<>> /\ ~h2.closed THEN odd \cup {"taken"} ELSE odd
    /\ UNCHANGED <<main, cnt, resp, net, peer>>

\* Only this thread reads _nrreq: it is counted in the same step.
UpdateBody ==
    /\ poll.pc = "body"
    /\ q' = [q EXCEPT !.bodies = Append(@, NoBody), !.nrreq = @ + 1]
    /\ GoOn(Handled)
    /\ odd' = IF main.pc = "body" THEN odd \cup {"mixed"} ELSE odd
    /\ UNCHANGED <<main, h2, cnt, resp, net, peer>>

\* Mutant of OnStreamEnded: the response is stored under the stream that ended but
\* taken without its body.
OnStreamEndedEmpty ==
    /\ On("StreamEnded")
    /\ resp' = [resp EXCEPT !.active[Now.s] = None, !.done = Append(@, [s |-> Now.s, n |-> 0])]
    /\ GoOn(Handled)
    /\ UNCHANGED <<main, q, h2, cnt, net, peer, odd>>

\* receive_response.  A stream that ends without a response ends the call: the
\* rest of its events are dropped.
OnStreamEnded ==
    /\ On("StreamEnded")
    /\ IF resp.active[Now.s] = None
       THEN GoOn(Front(poll.events)) /\ UNCHANGED resp
       ELSE /\ resp' = [resp EXCEPT !.active[Now.s] = None,
                                    !.done = Append(@, [s |-> Now.s, n |-> resp.active[Now.s]])]
            /\ GoOn(Handled)
    /\ UNCHANGED <<main, q, h2, cnt, net, peer, odd>>

\* _valid_req_num is lowered for every stream that is reset, counted or not.
OnStreamReset ==
    /\ On("StreamReset")
    /\ cnt' = [cnt EXCEPT !.valid = @ - 1]
    /\ GoOn(Handled)
    /\ UNCHANGED <<main, q, h2, resp, net, peer, odd>>

\* GOAWAY: the error code and last_stream_id are noted for the test, no more.
OnConnectionTerminated ==
    /\ On("ConnectionTerminated")
    /\ GoOn(Handled)
    /\ UNCHANGED <<main, q, h2, cnt, resp, net, peer, odd>>

Control == {"SettingsAcknowledged", "PingAckReceived", "WindowUpdated"}

\* Mutant of OnControl: any acknowledgement counts as that of SETTINGS.
OnControlAcks ==
    /\ poll.pc = "event" /\ Now.t \in Control
    /\ cnt' = [cnt EXCEPT !.ack = @ \/ Now.t # "WindowUpdated"]
    /\ IF Len(Top) = 1 THEN ReadAgain ELSE GoOn(Handled) /\ UNCHANGED <<net, h2>>
    /\ UNCHANGED <<main, q, resp, peer, odd>>

\* SettingsAcknowledged, PingAckReceived and WindowUpdated read on when they are
\* the last of their list.
OnControl ==
    /\ poll.pc = "event" /\ Now.t \in Control
    /\ cnt' = [cnt EXCEPT !.ack = @ \/ Now.t = "SettingsAcknowledged",
                          !.pings = IF Now.t = "PingAckReceived" THEN @ + 1 ELSE @]
    /\ IF Len(Top) = 1 THEN ReadAgain ELSE GoOn(Handled) /\ UNCHANGED <<net, h2>>
    /\ UNCHANGED <<main, q, resp, peer, odd>>

\* Every other event (the peer's SETTINGS among them) reads on at once, with the
\* rest of its own list still to be handled.
OnOther ==
    /\ On("Other")
    /\ ReadAgain
    /\ odd' = IF Len(Top) = 1 THEN odd ELSE odd \cup {"overtaken"}
    /\ UNCHANGED <<main, q, cnt, resp, peer>>

-----------------------------------------------------------------------------
(* The peer (external): it greets with SETTINGS, and says what h2 reports as one *)
(* list of events in one TLS record.                                         *)

Upsets(p) ==
    Cardinality({s \in Streams : p.ans[s] \in {"reset", "reset early", "empty"}})
      + (IF p.left THEN 1 ELSE 0)

PeerSays(record, p) ==
    /\ net.conn = "open" /\ Len(net.wire) < MaxWire /\ peer.said < MaxRecords
    /\ Upsets(p) <= MaxUpsets /\ (peer.left <=> record = <<>>)
    /\ net' = [net EXCEPT !.wire = Append(@, record)]
    /\ peer' = [p EXCEPT !.said = @ + 1]
    /\ UNCHANGED <<main, q, h2, cnt, poll, resp, odd>>

\* A response with a body of one octet, or with an empty DATA frame.
Answer(s, n) == <<Event("ResponseReceived", s), Data(s, n), Event("StreamEnded", s)>>
Answered(n) == IF n = 0 THEN "empty" ELSE "whole"
Greeting == <<Event("Other", 0)>>
GreetingIfDue == IF peer.greeted THEN <<>> ELSE Greeting
Goaway == <<Event("ConnectionTerminated", 0)>>

PeerGreets ==
    ~peer.greeted /\ PeerSays(Greeting, [peer EXCEPT !.greeted = TRUE])

\* A response in one record or in two, with the greeting before it if that is still
\* due and perhaps with a GOAWAY behind it.
PeerAnswers(s, n, leaves) ==
    /\ peer.seen[s] = "ended" /\ peer.ans[s] = "none"
    /\ PeerSays(GreetingIfDue \o Answer(s, n) \o (IF leaves THEN Goaway ELSE <<>>),
                [peer EXCEPT !.greeted = TRUE, !.ans[s] = Answered(n), !.left = leaves])
PeerHeaders(s) ==
    /\ peer.seen[s] = "ended" /\ peer.ans[s] = "none"
    /\ PeerSays(GreetingIfDue \o SubSeq(Answer(s, 1), 1, 1),
                [peer EXCEPT !.greeted = TRUE, !.ans[s] = "head"])
PeerBody(s, n) ==
    /\ peer.ans[s] = "head"
    /\ PeerSays(SubSeq(Answer(s, n), 2, 3), [peer EXCEPT !.ans[s] = Answered(n)])

PeerLeaves ==
    /\ peer.greeted
    /\ PeerSays(Goaway, [peer EXCEPT !.left = TRUE])

\* h2 refuses whatever comes after a GOAWAY: no matter what it is.
PeerGoesOn == PeerSays(<<>>, peer)

PeerResets(s) ==
    /\ peer.seen[s] # "idle" /\ peer.ans[s] \in {"none", "head"} /\ peer.greeted
    /\ PeerSays(<<Event("StreamReset", s)>>,
                [peer EXCEPT !.ans[s] = IF peer.seen[s] = "ended" THEN "reset" ELSE "reset early"])

PeerGrants ==
    /\ peer.greeted
    /\ PeerSays(<<Event("WindowUpdated", 0)>>, [peer EXCEPT !.window = @ + 1])

PeerAcks ==
    \E ts \in {<<"SETTINGS">>, <<"PING">>, <<"SETTINGS", "PING">>} :
        /\ peer.greeted /\ \A t \in Range(ts) : peer.due[t] > 0
        /\ PeerSays([i \in DOMAIN ts |-> Event(IF ts[i] = "PING" THEN "PingAckReceived"
                                               ELSE "SettingsAcknowledged", 0)],
                    [peer EXCEPT !.due = [t \in DOMAIN @ |-> IF t \in Range(ts) THEN @[t] - 1 ELSE @[t]]])

\* The peer closes the connection.  A call of the test is then over, which is no loss:
\* nothing is sent any more, and what is still received does not depend on the queue.
PeerCloses ==
    /\ net.conn = "open" /\ main.pc = "idle"
    /\ peer.left \/ Upsets(peer) < MaxUpsets
    /\ net' = [net EXCEPT !.conn = "fin"]
    /\ UNCHANGED <<main, q, h2, cnt, poll, resp, peer, odd>>

-----------------------------------------------------------------------------
MainThread ==
    \/ \E kind \in {"list", "tuple", "str"}, len \in Bodies, end_stream \in BOOLEAN :
         MakeRequest(kind, len, end_stream)
    \/ SendPing \/ SendSettings
    \/ AppendBuffer \/ AppendBody \/ CountRequest \/ ClearOutbound

\* A buffer holds at most what h2 can have for sending at once.
MaxFrames == MaxItems + 3

PollingThread ==
    \/ \E n \in 0..MaxFrames : SendData(n)
    \/ ConnectionEnds \/ Recv
    \/ OnResponse \/ OnData \/ UpdateBuffer \/ UpdateBody
    \/ OnStreamEnded \/ OnStreamReset \/ OnConnectionTerminated \/ OnControl \/ OnOther

Peer ==
    \/ \E s \in Streams, n \in 0..1, leaves \in BOOLEAN : PeerAnswers(s, n, leaves)
    \/ \E s \in Streams, n \in 0..1 : PeerBody(s, n)
    \/ \E s \in Streams : PeerHeaders(s) \/ PeerResets(s)
    \/ PeerGreets \/ PeerGrants \/ PeerAcks \/ PeerLeaves \/ PeerGoesOn \/ PeerCloses

Next == MainThread \/ PollingThread \/ Peer

Spec == Init /\ [][Next]_vars

\* The polling thread polls for ever.  Nothing is assumed of the peer, nor that the
\* test goes on.
FairSpec == Spec /\ WF_vars(PollingThread)

-----------------------------------------------------------------------------
(* Properties *)

TypeOK ==
    /\ main.pc \in {"idle", "buffer", "body", "count", "clear"}
    /\ main.stream_id \in 1..(MaxStreams + 1)
    /\ q.nrreq <= Len(q.bodies) /\ q.nrreq <= Len(q.bufs) /\ q.cur \in 0..q.nrreq
    /\ h2.win \in Int /\ h2.reset \subseteq Streams
    /\ cnt.valid \in -MaxStreams..MaxStreams
    /\ poll.pc \in {"idle", "event", "buffer", "body"}
    /\ resp.active \in [Streams -> None..1]
    /\ net.conn \in {"open", "fin", "closed"}

\* What the peer receives on a stream is HEADERS first, then DATA, END_STREAM on
\* the last frame and on no other, although _send_data goes back to a request
\* for each part of its body and the main thread queues behind it meanwhile.
\* (Unless the two threads' appends to the two lists of buffers met.)
StreamsInOrder ==
    "mixed" \notin odd => \A s \in Streams : peer.seen[s] # "broken"

\* _send_data never sends more DATA than the window that the peer has granted,
\* whatever the order of requests, WINDOW_UPDATE frames and short sends.
WindowKept == peer.window >= 0

\* Each response that the test sees is the whole answer to its stream, and none
\* comes twice, unless a list of events was left for a nested _handle_read.
ResponsesWhole ==
    "overtaken" \notin odd =>
        /\ \A i \in 1..Len(resp.done) : peer.ans[resp.done[i].s] = Answered(resp.done[i].n)
        /\ \A i, j \in 1..Len(resp.done) : resp.done[i].s = resp.done[j].s => i = j

\* What wait_for_response and wait_for_ack_settings wait for.
WaitForResponse == Len(resp.done) >= cnt.valid
WaitForAckSettings == cnt.ack

\* When wait_for_response finds as many responses as _valid_req_num asks for, every
\* request made has been answered or reset: nothing is still under way.  (Unless
\* the peer resets a stream that the test has not finished, which lowers the
\* count for a request that was never counted.)
WaitMeansAnswered ==
    main.pc = "idle" /\ WaitForResponse
        /\ (\A s \in Streams : peer.ans[s] # "reset early")
      => \A s \in 1..(main.stream_id - 1) : peer.ans[s] \in {"whole", "empty", "reset"}

\* The polling thread fails in four situations only: events were overtaken, a stream
\* is reset by the peer before its body is sent, the peer sends an empty DATA frame,
\* or it has sent GOAWAY (and another record follows, or a body is still to be sent).
CrashExplained ==
    poll.crashed =>
        \/ "overtaken" \in odd \/ h2.closed
        \/ \E s \in Streams : peer.ans[s] \in {"reset early", "empty"}

\* After send_settings_frame, _ack_settings means that the peer has acknowledged
\* that frame, if the acknowledgement of the one before had been received.
AckIsOfLast ==
    WaitForAckSettings /\ "settings in flight" \notin odd /\ main.pc = "idle"
      => peer.due["SETTINGS"] = 0

\* A queue that is not empty is drained, bodies larger than a frame included, as
\* long as the connection lives and the window is open; a window that opens again
\* is noticed.  (Unless one thread took what the other had put in h2's buffer, or a
\* GOAWAY emptied it: the empty buffer that is queued instead is never passed.)
QueueDrains ==
    (q.cur < q.nrreq) ~>
        (q.cur = q.nrreq \/ h2.win = 0 \/ net.conn # "open" \/ "taken" \in odd \/ h2.closed)

\* What the peer receives is right: the frames of a stream come in order and
\* within the window that _send_data asks for, and the variables have their types.
FramesRight == TypeOK /\ StreamsInOrder /\ WindowKept

\* What _handle_read makes of the peer's frames is right: it stores whole responses
\* and fails only where it is explained.
ResponsesRight == ResponsesWhole /\ CrashExplained

=============================================================================
