-------------------------- MODULE DeproxyClientH1 --------------------------
(***************************************************************************)
(* The HTTP/1 deproxy client (DeproxyClient of deproxy_client.py): the     *)
(* requests that the test queues in the main thread, without the polling   *)
(* lock, against the sending and the parsing in the polling thread, across *)
(* restarts.  A request is a member of Items.  A response is one piece of  *)
(* text (its head) or two (head and body); TCP may cut between any two.    *)
(* How the connection is set up and polled is the matter of DeproxyManager.*)
(***************************************************************************)
EXTENDS Naturals, Sequences

CONSTANTS MaxItems,   \* bound on what the test sends in one life of the client
          MaxStarts   \* bound on start()

ASSUME BoundsAssumption == MaxItems \in Nat /\ MaxStarts \in Nat

VARIABLES
    running,          \* state = STATE_STARTED
    starts,           \* number of start() so far
    conn,             \* "none", "syn" (_connecting), "open", "fin" (peer has closed)
    methods,
    request_buffers,  \* per buffer, the requests not sent yet
    nrreq, valid, cur,   \* _nrreq, _valid_req_num, _cur_req_num
    responses,        \* _nrresp is its length
    response_buffer,
    parsing,          \* the polling thread is in the loop of _handle_read
    crashed,          \* an exception left the polling thread
    mpc, arg,         \* the main thread: where it is, the requests it queues
    asked,            \* history: all requests since the last clear_stats
    clean,            \* history: response_buffer was empty at the last start()
    sent, answered, wire   \* peer: requests it got, how many it answered, text under way

countVars == <<nrreq, valid, cur>>
readVars == <<responses, response_buffer, parsing, crashed>>
mainVars == <<mpc, arg, asked>>
lifeVars == <<running, starts, clean>>
peerVars == <<sent, answered, wire>>
vars == <<lifeVars, conn, methods, request_buffers, countVars, readVars, mainVars, peerVars>>

\* The elements of s, a sequence of sequences, one after the other.
Flatten(s) ==
    LET upto[i \in 1..Len(s)] == IF i = 1 THEN s[i] ELSE upto[i - 1] \o s[i]
    IN  IF s = <<>> THEN <<>> ELSE upto[Len(s)]

\* "EXPECT" is a request with Expect: 100-continue and no body yet, "BODY" the
\* body that the test sends later with send_bytes.
Requests == {"GET", "HEAD", "EXPECT"}
Items == Requests \cup {"BODY"}

Part == {"head100", "head200", "body"}
Piece == [gen : 1..MaxStarts, item : 1..MaxItems, part : Part]

\* The response of the peer to its i-th request.
Answer(gen, i, item) ==
    LET piece(p) == [gen |-> gen, item |-> i, part |-> p]
    IN  CASE item = "EXPECT" -> <<piece("head100")>>
          [] item = "HEAD" -> <<piece("head200")>>
          [] OTHER -> <<piece("head200"), piece("body")>>

Init ==
    /\ running = FALSE /\ starts = 0 /\ clean = TRUE
    /\ conn = "none"
    /\ methods = <<>> /\ request_buffers = <<>>
    /\ nrreq = 0 /\ valid = 0 /\ cur = 0
    /\ responses = <<>> /\ response_buffer = <<>> /\ parsing = FALSE /\ crashed = FALSE
    /\ mpc = "idle" /\ arg = <<>> /\ asked = <<>>
    /\ sent = <<>> /\ answered = 0 /\ wire = <<>>

-----------------------------------------------------------------------------
(* The main thread: start, stop, requests, waiting. *)

\* start(): _run_deproxy makes a socket and connects it.
Start ==
    /\ mpc = "idle" /\ ~running /\ starts < MaxStarts
    /\ running' = TRUE
    /\ starts' = starts + 1
    /\ clean' = (response_buffer = <<>>)
    /\ conn' = "syn"
    /\ sent' = <<>> /\ answered' = 0 /\ wire' = <<>>
    /\ UNCHANGED <<methods, request_buffers, countVars, readVars, mainVars>>

\* Mutant of ClearStats: the methods survive.
ClearStatsKeepsMethods ==
    /\ UNCHANGED methods
    /\ request_buffers' = <<>>
    /\ nrreq' = 0 /\ valid' = 0 /\ cur' = 0
    /\ responses' = <<>>
    /\ asked' = <<>>

\* clear_stats: response_buffer is not among what it resets.
ClearStats ==
    /\ methods' = <<>> /\ request_buffers' = <<>>
    /\ nrreq' = 0 /\ valid' = 0 /\ cur' = 0
    /\ responses' = <<>>
    /\ asked' = <<>>

\* stop(), under the polling lock: _stop_deproxy, then clear_stats.  After a crash
\* the client is in STATE_ERROR and stop() does nothing.
Stop ==
    /\ mpc \in {"idle", "failed"} /\ running /\ ~parsing /\ ~crashed
    /\ running' = FALSE
    /\ conn' = "none"
    /\ ClearStats
    /\ mpc' = "idle"
    /\ UNCHANGED <<starts, clean, response_buffer, parsing, crashed, arg, peerVars>>

\* What __check_request appends to methods.
MethodsOf(item) == IF item = "EXPECT" THEN <<"POST", "POST">> ELSE <<item>>

\* The body of a request with Expect: 100-continue is still to come: what else
\* the test sends now would be that body.
OwesBody == asked # <<>> /\ asked[Len(asked)] = "EXPECT"

MayAsk(reqs) ==
    /\ mpc = "idle" /\ ~crashed
    /\ Len(asked) + Len(reqs) <= MaxItems
    /\ \A i \in 1..(Len(reqs) - 1) : reqs[i] # "EXPECT"

\* make_request(s): __check_request of all of them.  What follows is a step per
\* statement, since the polling thread runs in between.
CheckRequests(reqs, pipelined) ==
    /\ MayAsk(reqs) /\ ~OwesBody
    /\ pipelined \/ Len(reqs) = 1
    /\ methods' = methods \o Flatten([i \in 1..Len(reqs) |-> MethodsOf(reqs[i])])
    /\ asked' = asked \o reqs
    /\ arg' = reqs
    /\ mpc' = IF pipelined THEN "pipe_buffer" ELSE "one_valid"
    /\ UNCHANGED <<lifeVars, conn, request_buffers, countVars, readVars, peerVars>>

\* __check_request raises, after it has stored some methods or none, and ends the test.
CheckRaises(stored) ==
    /\ mpc = "idle" /\ ~crashed
    /\ methods' = methods \o stored
    /\ mpc' = "failed"
    /\ UNCHANGED <<lifeVars, conn, request_buffers, countVars, readVars, arg, asked, peerVars>>

\* send_bytes(body, expect_response=True)
SendBytes ==
    /\ MayAsk(<<"BODY">>) /\ OwesBody
    /\ asked' = Append(asked, "BODY")
    /\ arg' = <<"BODY">>
    /\ mpc' = "bytes_buffer"
    /\ UNCHANGED <<lifeVars, conn, methods, request_buffers, countVars, readVars, peerVars>>

\* The order of the three statements in make_request, make_requests and send_bytes.
AfterValid(pc) == CASE pc = "one_valid" -> "one_buffer"
                    [] pc = "pipe_valid" -> "pipe_nrreq"
                    [] pc = "bytes_valid" -> "idle"
AfterBuffer(pc) == CASE pc = "one_buffer" -> "one_nrreq"
                     [] pc = "pipe_buffer" -> "pipe_valid"
                     [] pc = "bytes_buffer" -> "bytes_nrreq"
AfterNrreq(pc) == CASE pc = "one_nrreq" -> "idle"
                    [] pc = "pipe_nrreq" -> "idle"
                    [] pc = "bytes_nrreq" -> "bytes_valid"

CountValid ==
    /\ mpc \in {"one_valid", "pipe_valid", "bytes_valid"}
    /\ valid' = valid + Len(arg)
    /\ mpc' = AfterValid(mpc)
    /\ UNCHANGED <<lifeVars, conn, methods, request_buffers, nrreq, cur, readVars, arg, asked,
                   peerVars>>

\* _add_to_request_buffers: one buffer, also for pipelined requests.
AddToRequestBuffers ==
    /\ mpc \in {"one_buffer", "pipe_buffer", "bytes_buffer"}
    /\ request_buffers' = Append(request_buffers, arg)
    /\ mpc' = AfterBuffer(mpc)
    /\ UNCHANGED <<lifeVars, conn, methods, countVars, readVars, arg, asked, peerVars>>

CountNrreq ==
    /\ mpc \in {"one_nrreq", "pipe_nrreq", "bytes_nrreq"}
    /\ nrreq' = nrreq + 1
    /\ mpc' = AfterNrreq(mpc)
    /\ UNCHANGED <<lifeVars, conn, methods, request_buffers, valid, cur, readVars, arg, asked,
                   peerVars>>

\* wait_for_response: the condition, and the abort when the connection is closed.
\* The timeout is left to the passing of time.
WaitForResponse ==
    /\ mpc = "idle"
    /\ mpc' = "waiting"
    /\ UNCHANGED <<lifeVars, conn, methods, request_buffers, countVars, readVars, arg, asked,
                   peerVars>>

WaitReturns ==
    /\ mpc = "waiting"
    /\ Len(responses) >= valid \/ conn = "none"
    /\ mpc' = "idle"
    /\ UNCHANGED <<lifeVars, conn, methods, request_buffers, countVars, readVars, arg, asked,
                   peerVars>>

\* The assertion on the result raises; the test may catch it and go on.
WaitTimesOut ==
    /\ mpc = "waiting"
    /\ Len(responses) < valid
    /\ mpc' = "idle"
    /\ UNCHANGED <<lifeVars, conn, methods, request_buffers, countVars, readVars, arg, asked,
                   peerVars>>

-----------------------------------------------------------------------------
(* The polling thread; it holds the lock, so that stop() waits for it. *)

\* _handle_error for what is not expected: close, and out of the polling loop.
Crash ==
    /\ crashed' = TRUE
    /\ parsing' = FALSE
    /\ conn' = "none"

\* Mutant of SendData: what is left of a buffer after a short send is dropped.
SendDataOnce(n) ==
    LET reqs == request_buffers[cur + 1]
    IN  /\ conn \in {"open", "fin"} /\ ~parsing
        /\ cur < nrreq
        /\ n \in 1..Len(reqs)
        /\ request_buffers' = [request_buffers EXCEPT ![cur + 1] = <<>>]
        /\ cur' = cur + 1
        /\ sent' = IF conn = "open" THEN sent \o SubSeq(reqs, 1, n) ELSE sent
        /\ UNCHANGED <<lifeVars, conn, methods, nrreq, valid, readVars, mainVars, answered, wire>>

\* _send_data: a send takes n whole requests of the buffer.  (A send that ends in
\* the middle of a request changes nothing here.)
SendData(n) ==
    LET reqs == request_buffers[cur + 1]
    IN  /\ conn \in {"open", "fin"} /\ ~parsing
        /\ cur < nrreq
        /\ n \in 1..Len(reqs)
        /\ request_buffers' = [request_buffers EXCEPT ![cur + 1] = SubSeq(reqs, n + 1, Len(reqs))]
        /\ cur' = IF n = Len(reqs) THEN cur + 1 ELSE cur
        /\ sent' = IF conn = "open" THEN sent \o SubSeq(reqs, 1, n) ELSE sent
        /\ UNCHANGED <<lifeVars, conn, methods, nrreq, valid, readVars, mainVars, answered, wire>>

\* _send on a connection that the peer has closed: _handle_close, 0 bytes sent.
SendFails ==
    /\ conn = "fin" /\ ~parsing
    /\ cur < nrreq
    /\ conn' = "none"
    /\ UNCHANGED <<lifeVars, methods, request_buffers, countVars, readVars, mainVars, peerVars>>

\* _handle_read: the first statement takes n pieces off the connection ...
Recv(n) ==
    /\ conn \in {"open", "fin"} /\ ~parsing
    /\ n \in 1..Len(wire)
    /\ response_buffer' = response_buffer \o SubSeq(wire, 1, n)
    /\ wire' = SubSeq(wire, n + 1, Len(wire))
    /\ parsing' = TRUE
    /\ UNCHANGED <<lifeVars, conn, methods, request_buffers, countVars, responses, crashed,
                   mainVars, sent, answered>>

\* Mutant of RecvEnd: the connection that the peer has closed stays open.
RecvEndKeeps ==
    /\ conn = "fin" /\ ~parsing
    /\ wire = <<>>
    /\ parsing' = (response_buffer # <<>>)
    /\ UNCHANGED <<lifeVars, conn, methods, request_buffers, countVars, responses,
                   response_buffer, crashed, mainVars, peerVars>>

\* ... or finds its end and closes; what the buffer holds is parsed all the same.
RecvEnd ==
    /\ conn = "fin" /\ ~parsing
    /\ wire = <<>>
    /\ conn' = "none"
    /\ parsing' = (response_buffer # <<>>)
    /\ UNCHANGED <<lifeVars, methods, request_buffers, countVars, responses, response_buffer,
                   crashed, mainVars, peerVars>>

\* Response(...): the method of the request and the status say whether there is a body.
PiecesNeeded(method, head) == IF method = "HEAD" \/ head.part = "head100" THEN 1 ELSE 2

\* What the loop of _handle_read comes to next.  It raises when no method is stored
\* for this response (IndexError) and when the text does not begin with a status
\* line (ParseError); it ends on an empty buffer and on IncompleteMessage.
NextPass ==
    IF response_buffer = <<>>
    THEN "ends"
    ELSE IF Len(responses) >= Len(methods) \/ Head(response_buffer).part = "body"
    THEN "raises"
    ELSE IF Len(response_buffer)
              < PiecesNeeded(methods[Len(responses) + 1], Head(response_buffer))
    THEN "ends"
    ELSE "response"

ParseRaises ==
    /\ parsing /\ NextPass = "raises"
    /\ Crash
    /\ UNCHANGED <<lifeVars, methods, request_buffers, countVars, responses, response_buffer,
                   mainVars, peerVars>>

ParseEnds ==
    /\ parsing /\ NextPass = "ends"
    /\ parsing' = FALSE
    /\ UNCHANGED <<lifeVars, conn, methods, request_buffers, countVars, responses,
                   response_buffer, crashed, mainVars, peerVars>>

\* receive_response.  The body is the text after the head, whatever it is.
ParseResponse ==
    LET n == PiecesNeeded(methods[Len(responses) + 1], Head(response_buffer))
    IN  /\ parsing /\ NextPass = "response"
        /\ responses' = Append(responses, SubSeq(response_buffer, 1, n))
        /\ response_buffer' = SubSeq(response_buffer, n + 1, Len(response_buffer))
        /\ UNCHANGED <<lifeVars, conn, methods, request_buffers, countVars, parsing, crashed,
                       mainVars, peerVars>>

-----------------------------------------------------------------------------
(* The peer and the network (external). *)

Network(from, to) ==
    /\ conn = from
    /\ conn' = to
    /\ UNCHANGED <<lifeVars, methods, request_buffers, countVars, readVars, mainVars, sent, answered>>

Establish == Network("syn", "open") /\ UNCHANGED wire
ConnectFails == Network("syn", "none") /\ UNCHANGED wire
PeerCloses == Network("open", "fin") /\ UNCHANGED wire
PeerResets == Network("open", "fin") /\ wire' = <<>>

PeerAnswers ==
    /\ conn = "open"
    /\ answered < Len(sent)
    /\ wire' = wire \o Answer(starts, answered + 1, sent[answered + 1])
    /\ answered' = answered + 1
    /\ UNCHANGED <<lifeVars, conn, methods, request_buffers, countVars, readVars, mainVars, sent>>

-----------------------------------------------------------------------------

\* Pipelined batches of at most two requests.
Batches == {<<r>> : r \in Requests} \cup {<<r, q>> : r, q \in Requests}

MainThread ==
    \/ Start \/ Stop \/ SendBytes
    \/ \E reqs \in Batches, pipelined \in BOOLEAN : CheckRequests(reqs, pipelined)
    \/ \E stored \in {<<>>, <<"GET">>} : CheckRaises(stored)
    \/ CountValid \/ AddToRequestBuffers \/ CountNrreq
    \/ WaitForResponse \/ WaitReturns \/ WaitTimesOut

PollingThread ==
    \/ \E n \in 1..MaxItems : SendData(n)
    \/ SendFails
    \/ \E n \in 1..(2 * MaxItems) : Recv(n)
    \/ RecvEnd \/ ParseRaises \/ ParseEnds \/ ParseResponse

Peer == Establish \/ ConnectFails \/ PeerCloses \/ PeerResets \/ PeerAnswers

Next == MainThread \/ PollingThread \/ Peer

Spec == Init /\ [][Next]_vars

\* The polling thread polls for ever, the peer sets the connection up and answers,
\* wait_until looks at its condition again and again.  No timeout is assumed.
Fairness ==
    /\ WF_vars(PollingThread)
    /\ WF_vars(Establish \/ ConnectFails) /\ WF_vars(PeerAnswers)
    /\ WF_vars(WaitReturns)

FairSpec == Spec /\ Fairness

-----------------------------------------------------------------------------
(* Properties *)

\* The type of the client's state; _nrreq never counts a buffer that is not
\* there, which is what keeps the index in _send_data in range.
TypeOK ==
    /\ running \in BOOLEAN /\ clean \in BOOLEAN /\ parsing \in BOOLEAN /\ crashed \in BOOLEAN
    /\ starts \in 0..MaxStarts
    /\ conn \in {"none", "syn", "open", "fin"}
    /\ asked \in Seq(Items) /\ Len(asked) <= MaxItems
    /\ methods \in Seq({"GET", "HEAD", "POST"})
    /\ request_buffers \in Seq(Seq(Items)) /\ arg \in Seq(Items)
    /\ nrreq \in 0..Len(request_buffers) /\ cur \in 0..nrreq
    /\ valid \in 0..Len(asked)
    /\ response_buffer \in Seq(Piece) /\ wire \in Seq(Piece)
    /\ responses \in Seq(Seq(Piece))
    /\ sent \in Seq(Items) /\ answered \in 0..Len(sent)

\* The requests reach the peer in the order in which the test made them, none
\* lost and none twice, although make_request queues without the lock and
\* _send_data cuts the buffers as the socket takes them.
RequestsInOrder ==
    LET queued == sent \o Flatten(request_buffers)
    IN  conn = "open" => Len(queued) <= Len(asked) /\ queued = SubSeq(asked, 1, Len(queued))

\* The i-th entry of responses is the whole response to the i-th request, and
\* _handle_read raises nothing: the method that it looks up for a response is
\* that of the request answered, Expect: 100-continue and restarts included.
\* (If the response buffer was empty at the start: clear_stats does not reset it.)
ResponsesMatch ==
    clean => /\ ~crashed
             /\ \A i \in 1..Len(responses) : responses[i] = Answer(starts, i, asked[i])

\* The client never holds more responses than _valid_req_num announces, so that
\* wait_for_response cannot take an answer to a request still to be counted for
\* one of those counted.  In send_bytes alone _valid_req_num comes after
\* _nrreq, and the response may come in between.
ExpectedCounted ==
    (clean /\ mpc # "bytes_valid") => Len(responses) <= valid

\* wait_for_response ends without its timeout when the peer answers or closes
\* the connection: no response is left in a buffer that nobody parses.
WaitEnds == (mpc = "waiting") ~> (mpc # "waiting")

\* What the test reads of the client is right: the variables have their types,
\* responses are those of the requests, and there are no more than announced.
ResponsesRight == TypeOK /\ ResponsesMatch /\ ExpectedCounted

=============================================================================
