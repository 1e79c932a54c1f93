-------------------------- MODULE ServerConnection --------------------------
(***************************************************************************)
(* One connection of the asyncio deproxy server: class ServerConnection of *)
(* framework/deproxy/deproxy_server.py.  A read task parses requests and   *)
(* queues responses, a write task sends them, and the test or the server's *)
(* stop() may close the connection.  All run on one event loop, so a step  *)
(* lasts from one await to the next.                                       *)
(*                                                                         *)
(* The byte stream is abstracted to half requests: a request is complete   *)
(* when both halves of it are in req_buffer.  The responses are numbered   *)
(* in the order in which they were built; the data of a queued item are    *)
(* the responses from + 1 to from + n, and Stop stands for the None that   *)
(* close() queues.                                                         *)
(***************************************************************************)
EXTENDS Integers, Sequences

CONSTANTS
    Configs,        \* the sets of server options to consider
    MaxReq          \* bound: requests the peer sends

Config == [pipelined : Nat, keep_alive : Nat, hang_on_req_num : Nat, drop : BOOLEAN,
           greet : BOOLEAN, segments : Nat \ {0}]

ASSUME ConfigsAssumption == Configs \subseteq Config
ASSUME MaxReqAssumption == MaxReq \in Nat

VARIABLES
    cfg,            \* the server options in force
    togo,           \* halves the peer has still to send
    inq,            \* halves in the StreamReader, not read yet
    fin,            \* the peer has closed its side
    rpc, rbuf,      \* read task: control point, halves in req_buffer
    skew,           \* half a request was lost: what follows cannot be parsed
    nrreq,          \* requests parsed
    answered,       \* responses put in the sending buffer
    cur,            \* _cur_pipelined
    queue,          \* _queue
    wpc, item, seg, \* write task: control point, item in hand, its segments written
    done,           \* _responses_done
    wrote,          \* responses completely handed to the transport
    rw,             \* the _readwrite event is set
    tr,             \* transport
    spc,            \* a close() called by the test or by stop()
    inlist          \* the connection is in server.connections

peerVars == <<cfg, togo, fin>>
readVars == <<inq, rpc, rbuf, skew, nrreq, answered, cur>>
writeVars == <<wpc, item, seg, done, wrote>>
vars == <<peerVars, readVars, queue, writeVars, rw, tr, spc, inlist>>

\* The pair (data, count) that flush() queues.
Item(from, n) == [from |-> from, n |-> n]

Stop == Item(0, -1)
Nothing == Item(0, 0)

\* "flushing": close() was called and the transport still has data to send;
\* "closing": connection_lost() is scheduled; "reset": the peer reset it.
Transport == {"open", "flushing", "closing", "closed", "reset"}

\* A flush is due when _cur_pipelined >= server.pipelined, after each addition.
Batch == IF cfg.pipelined = 0 THEN 1 ELSE cfg.pipelined

\* ServerConnection.__init__
Init ==
    /\ cfg \in Configs
    /\ togo = 2 * MaxReq /\ inq = 0 /\ fin = FALSE
    /\ rpc = "start" /\ rbuf = 0 /\ skew = FALSE /\ nrreq = 0
    /\ answered = (IF cfg.greet THEN 1 ELSE 0)
    /\ queue = (IF cfg.greet THEN <<Item(0, 1)>> ELSE <<>>)
    /\ cur = 0
    /\ wpc = "start" /\ item = Nothing /\ seg = 0 /\ done = 0 /\ wrote = 0
    /\ rw = TRUE
    /\ tr = "open"
    /\ spc = "idle"
    /\ inlist = TRUE

-----------------------------------------------------------------------------
(* close() and flush(), called by both tasks and by the test. *)

\* writer.close(): at once, or after the transport has sent what it still holds.
TransportClose ==
    CASE tr = "open" /\ wrote + seg > 0 -> {"flushing", "closing"}
      [] tr = "open" /\ wrote + seg = 0 -> {"closing"}
      [] OTHER -> {tr}

\* Mutant of CloseBegins: the write task is not told.
CloseBeginsSilently(q) ==
    /\ rw
    /\ rw' = FALSE
    /\ queue' = q
    /\ tr' \in TransportClose

\* The part of close() before its await, for the caller that finds _readwrite set.
CloseBegins(q) ==
    /\ rw
    /\ rw' = FALSE
    /\ queue' = Append(q, Stop)
    /\ tr' \in TransportClose

\* close() for any later caller.
CloseReturns(q) ==
    /\ ~rw
    /\ queue' = q
    /\ UNCHANGED <<rw, tr>>

\* The rest of close(): wait_closed() returns or raises, the server forgets the
\* connection.
CloseEnds ==
    /\ tr \in {"closed", "reset"}
    /\ inlist' = FALSE

\* What the queue receives for m more responses, and what stays unflushed.
FullBatches(m) ==
    [i \in 1 .. (cur + m) \div Batch |-> Item(answered - cur + (i - 1) * Batch, Batch)]
Unflushed(m) == (cur + m) % Batch

-----------------------------------------------------------------------------
(* The read task. *)

ReadStart ==
    /\ rpc = "start"
    /\ rpc' = IF rw THEN "read" ELSE "end"
    /\ UNCHANGED <<peerVars, inq, rbuf, skew, nrreq, answered, cur, queue, writeVars, rw, tr, spc,
                   inlist>>

\* The first of n complete requests that ends the connection, n + 1 if none:
\* any with drop_conn_when_request_received, else the one numbered hang_on_req_num
\* and those after it.
FirstFatal(n) ==
    CASE cfg.drop -> 1
      [] ~cfg.drop /\ cfg.hang_on_req_num = 0 -> n + 1
      [] ~cfg.drop /\ cfg.hang_on_req_num > nrreq -> cfg.hang_on_req_num - nrreq
      [] OTHER -> 1

\* n more requests are parsed and answered without an await.
Parse(n, restbuf, restcur, q) ==
    /\ rpc = "read" /\ inq > 0 /\ ~skew /\ tr # "reset"
    /\ FirstFatal(n) > n
    /\ inq' = 0
    /\ rbuf' = restbuf
    /\ nrreq' = nrreq + n
    /\ answered' = answered + n
    /\ cur' = restcur
    /\ queue' = q
    /\ rpc' = IF rw THEN "read" ELSE "end"
    /\ UNCHANGED <<peerVars, skew, writeVars, rw, tr, spc, inlist>>

\* Mutant of ReadRequests: all of req_buffer is dropped with the requests parsed.
ReadRequestsDropsRest ==
    LET n == (rbuf + inq) \div 2
    IN  Parse(n, IF n = 0 THEN rbuf + inq ELSE 0, Unflushed(n), queue \o FullBatches(n))

\* _read_loop when data has arrived and no request in it ends the connection: all
\* of it is parsed, also when close() was called while the task waited for it.
ReadRequests ==
    LET n == (rbuf + inq) \div 2
    IN  Parse(n, (rbuf + inq) % 2, Unflushed(n), queue \o FullBatches(n))

\* _read_loop when a request ends the connection: the ones before it are answered,
\* hang_on_req_num also flushes the unfinished batch, and close() is awaited.
ReadFatalRequest ==
    LET n == (rbuf + inq) \div 2
        m == FirstFatal(n) - 1
        q == queue \o FullBatches(m)
        sent == IF cfg.drop THEN q ELSE Append(q, Item((answered + m) - Unflushed(m), Unflushed(m)))
    IN  /\ rpc = "read" /\ inq > 0 /\ ~skew /\ tr # "reset"
        /\ m < n
        /\ inq' = 0
        /\ rbuf' = 0
        /\ nrreq' = nrreq + m + 1
        /\ answered' = answered + m
        /\ cur' = IF cfg.drop THEN Unflushed(m) ELSE 0
        /\ \/ CloseBegins(sent) /\ rpc' = "closing"
           \/ CloseReturns(sent) /\ rpc' = "end"
        /\ UNCHANGED <<peerVars, skew, writeVars, spc, inlist>>

\* _read_loop out of step with the requests: ParseError, and the buffer stays.
ReadGarbage ==
    /\ rpc = "read" /\ inq > 0 /\ skew /\ tr # "reset"
    /\ inq' = 0
    /\ rpc' = IF rw THEN "read" ELSE "end"
    /\ UNCHANGED <<peerVars, rbuf, skew, nrreq, answered, cur, queue, writeVars, rw, tr, spc,
                   inlist>>

\* An empty read (the peer's FIN, or the transport was closed) and the
\* ConnectionResetError that __safe_readwrite catches: close().
ReadEnds ==
    /\ rpc = "read"
    /\ tr = "reset" \/ (inq = 0 /\ (fin \/ tr = "closed"))
    /\ \/ CloseBegins(queue) /\ rpc' = "closing"
       \/ CloseReturns(queue) /\ rpc' = "end"
    /\ UNCHANGED <<peerVars, inq, rbuf, skew, nrreq, answered, cur, writeVars, spc, inlist>>

ReadClosed ==
    /\ rpc = "closing"
    /\ CloseEnds
    /\ rpc' = "end"
    /\ UNCHANGED <<peerVars, inq, rbuf, skew, nrreq, answered, cur, queue, writeVars, rw, tr, spc>>

\* The read task is cancelled, and its req_buffer goes with it.
CancelRead(listed) ==
    /\ rpc \in {"start", "read", "closing"}
    /\ rpc' = "cancelled"
    /\ inlist' = (inlist /\ listed)
    /\ skew' = (skew \/ rbuf = 1)
    /\ rbuf' = 0
    /\ UNCHANGED <<peerVars, inq, nrreq, answered, cur, queue, writeVars, rw, tr, spc>>

\* Mutant of DisableReadable: the end of the read task, however it comes, takes
\* the connection off the list.
DisableReadableForgets == CancelRead(FALSE)

\* disable_readable(): the finally clause of a cancelled close() still runs.
DisableReadable == CancelRead(rpc # "closing")

EnableReadable ==
    /\ rpc = "cancelled"
    /\ rpc' = "start"
    /\ UNCHANGED <<peerVars, inq, rbuf, skew, nrreq, answered, cur, queue, writeVars, rw, tr, spc,
                   inlist>>

-----------------------------------------------------------------------------
(* The write task. *)

WriteStart ==
    /\ wpc = "start"
    /\ wpc' = IF rw THEN "get" ELSE "end"
    /\ UNCHANGED <<peerVars, readVars, queue, item, seg, done, wrote, rw, tr, spc, inlist>>

\* _write_loop takes the next item, or the None that ends it; the wait for
\* delay_before_sending_response follows.
WriteGet ==
    /\ wpc = "get" /\ queue # <<>>
    /\ queue' = Tail(queue)
    /\ IF Head(queue) = Stop
       THEN wpc' = "end" /\ UNCHANGED item
       ELSE wpc' = "write" /\ item' = Head(queue)
    /\ UNCHANGED <<peerVars, readVars, seg, done, wrote, rw, tr, spc, inlist>>

\* _send_bytes and _send_bytes_with_tcp_segmentation: one write() and drain() for
\* each segment of the item, none for an empty item.
WriteSegment ==
    /\ wpc = "write"
    /\ item.n = 0 \/ tr \in {"open", "flushing"}
    /\ IF item.n = 0 \/ seg + 1 = cfg.segments
       THEN seg' = 0 /\ wrote' = wrote + item.n /\ wpc' = "written"
       ELSE seg' = seg + 1 /\ UNCHANGED <<wrote, wpc>>
    /\ UNCHANGED <<peerVars, readVars, queue, item, done, rw, tr, spc, inlist>>

\* write() to a closed transport is ignored and drain() raises
\* ConnectionResetError; a reset may also end a drain() that waits.
\* __safe_readwrite calls close().
WriteFails ==
    /\ \/ wpc = "write" /\ item.n > 0 /\ tr \in {"closing", "closed", "reset"}
       \/ wpc = "written" /\ item.n > 0 /\ tr = "reset"
    /\ item' = Nothing /\ seg' = 0
    /\ \/ CloseBegins(queue) /\ wpc' = "closing"
       \/ CloseReturns(queue) /\ wpc' = "end"
    /\ UNCHANGED <<peerVars, readVars, done, wrote, spc, inlist>>

\* The loop body after an item: count its responses and go on, or close.
Count(limit, next) ==
    /\ wpc = "written"
    /\ done' = done + item.n
    /\ item' = Nothing
    /\ IF limit
       THEN \/ CloseBegins(queue) /\ wpc' = "closing"
            \/ CloseReturns(queue) /\ wpc' = "end"
       ELSE /\ wpc' = IF rw THEN next ELSE "end"
            /\ UNCHANGED <<queue, rw, tr>>
    /\ UNCHANGED <<peerVars, readVars, seg, wrote, spc, inlist>>

\* Mutant of WriteDone: the limit is tested before the item is counted.
WriteDoneTestsFirst == Count(cfg.keep_alive > 0 /\ done >= cfg.keep_alive, "get")

\* Mutant of WriteDone: the `break' belongs to the loop, not to the keep_alive test.
WriteDoneBreaks == Count(FALSE, "end")

\* The connection is closed after keep_alive responses.
WriteDone == Count(cfg.keep_alive > 0 /\ done + item.n >= cfg.keep_alive, "get")

WriteClosed ==
    /\ wpc = "closing"
    /\ CloseEnds
    /\ wpc' = "end"
    /\ UNCHANGED <<peerVars, readVars, queue, item, seg, done, wrote, rw, tr, spc>>

-----------------------------------------------------------------------------
(* The test and the server. *)

\* server.flush() called by the test; an empty buffer would queue an empty item,
\* which sends nothing.
ServerFlush ==
    /\ inlist /\ cur > 0
    /\ queue' = Append(queue, Item(answered - cur, cur))
    /\ cur' = 0
    /\ UNCHANGED <<peerVars, inq, rpc, rbuf, skew, nrreq, answered, writeVars, rw, tr, spc, inlist>>

\* conn.close() called by the test or by _stop_deproxy.
OwnerClose ==
    /\ spc = "idle" /\ inlist
    /\ \/ CloseBegins(queue) /\ spc' = "closing"
       \/ CloseReturns(queue) /\ spc' = "closed"
    /\ UNCHANGED <<peerVars, readVars, writeVars, inlist>>

OwnerClosed ==
    /\ spc = "closing"
    /\ CloseEnds
    /\ spc' = "closed"
    /\ UNCHANGED <<peerVars, readVars, queue, writeVars, rw, tr>>

-----------------------------------------------------------------------------
(* The peer and the event loop's transport. *)

\* A TCP segment with any number of halves.
PeerSends ==
    /\ ~fin /\ tr = "open"
    /\ \E k \in 1 .. togo : togo' = togo - k /\ inq' = inq + k
    /\ UNCHANGED <<cfg, fin, rpc, rbuf, skew, nrreq, answered, cur, queue, writeVars, rw, tr, spc,
                   inlist>>

PeerFin ==
    /\ ~fin /\ tr = "open"
    /\ fin' = TRUE
    /\ UNCHANGED <<cfg, togo, readVars, queue, writeVars, rw, tr, spc, inlist>>

PeerResets ==
    /\ tr \in {"open", "flushing"}
    /\ tr' = "reset"
    /\ UNCHANGED <<peerVars, readVars, queue, writeVars, rw, spc, inlist>>

\* The transport of a closed connection sends the rest and reports the end.
TransportCloses ==
    /\ tr \in {"flushing", "closing"}
    /\ tr' = IF tr = "flushing" THEN "closing" ELSE "closed"
    /\ UNCHANGED <<peerVars, readVars, queue, writeVars, rw, spc, inlist>>

-----------------------------------------------------------------------------
ReadStep ==
    ReadStart \/ ReadRequests \/ ReadFatalRequest \/ ReadGarbage \/ ReadEnds \/ ReadClosed

WriteStep == WriteStart \/ WriteGet \/ WriteSegment \/ WriteFails \/ WriteDone \/ WriteClosed

OwnerStep == DisableReadable \/ EnableReadable \/ ServerFlush \/ OwnerClose

PeerStep == PeerSends \/ PeerFin \/ PeerResets

Next == ReadStep \/ WriteStep \/ OwnerStep \/ OwnerClosed \/ PeerStep \/ TransportCloses

Spec == Init /\ [][Next]_vars

\* The event loop runs every task that can run.  The test and the peer need not
\* act; the kernel takes the data of a closed connection, or resets it.
Fairness ==
    /\ WF_vars(ReadStep)
    /\ WF_vars(WriteStep)
    /\ WF_vars(OwnerClosed)
    /\ WF_vars(TransportCloses)

FairSpec == Spec /\ Fairness

-----------------------------------------------------------------------------
(* Properties *)

TypeOK ==
    /\ cfg \in Configs
    /\ togo \in 0 .. 2 * MaxReq /\ inq \in 0 .. 2 * MaxReq /\ fin \in BOOLEAN
    /\ rpc \in {"start", "read", "closing", "cancelled", "end"}
    /\ rbuf \in 0 .. 1 /\ skew \in BOOLEAN
    /\ nrreq \in 0 .. MaxReq /\ answered \in 0 .. MaxReq + 1
    /\ cur \in 0 .. Batch - 1
    /\ queue \in Seq([from : Nat, n : Int])
    /\ wpc \in {"start", "get", "write", "written", "closing", "end"}
    /\ item \in [from : Nat, n : Nat] /\ seg \in 0 .. cfg.segments - 1
    /\ done \in Nat /\ wrote \in Nat
    /\ rw \in BOOLEAN
    /\ tr \in Transport
    /\ spc \in {"idle", "closing", "closed"}
    /\ inlist \in BOOLEAN

\* The bytes of the stream are neither lost nor read twice while the read task
\* runs, however the peer cuts the requests into segments and whatever the other
\* tasks do: what was parsed, what is buffered and what is still to come make up
\* the whole.  (disable_readable() in the middle of a request is the exception,
\* and skew records it.)
RequestsConserved ==
    rpc = "read" /\ rw /\ ~skew => 2 * nrreq + rbuf + inq + togo = 2 * MaxReq

\* The responses that the write task has written or has in hand.
Taken == wrote + (IF wpc = "write" THEN item.n ELSE 0)

\* The first response of an item of the queue is the next after those before it.
FollowsOn(i) ==
    queue[i].from = (IF i = 1 THEN Taken ELSE queue[i - 1].from + queue[i - 1].n)

\* As long as the connection is open every response that was built is written, in
\* the write task's hands, queued or waiting for its batch to fill, and in the order
\* of the requests: the three parties that touch the buffer and the queue lose,
\* duplicate and overtake nothing.
ResponsesConserved ==
    tr = "open" =>
        /\ wpc = "write" => item.from = wrote
        /\ \A i \in 1..Len(queue) : FollowsOn(i)
        /\ answered = cur + (IF queue = <<>> THEN Taken
                             ELSE queue[Len(queue)].from + queue[Len(queue)].n)

\* keep_alive bounds the responses a connection sends: the batch that reaches the
\* limit is the last, so the limit is exceeded by less than one batch, and not at
\* all when responses are sent one by one.
KeepAliveBound ==
    cfg.keep_alive > 0 => wrote < cfg.keep_alive + Batch

\* server.connections forgets the connection only after close() was called, and an
\* open connection is in it: stop() and flush(), which walk the list, miss none.
OpenIsListed ==
    /\ tr = "open" => inlist
    /\ ~inlist => ~rw

\* close(), whoever calls it and whatever the two tasks are doing, ends both tasks
\* and takes the connection off the list.
CloseEndsTasks ==
    ~rw ~> (~inlist /\ rpc \in {"cancelled", "end"} /\ wpc = "end")

\* A response that was flushed is sent unless the connection is closed or reset.
FlushedIsSent ==
    (answered > wrote + cur) ~> (answered = wrote + cur \/ tr # "open")

\* The connection as the server and the peer know it.
Phase == IF rw THEN "open" ELSE IF inlist THEN "closing" ELSE "removed"

Known == [phase |-> Phase, got |-> nrreq, sent |-> wrote, greets |-> cfg.greet]

Promise == INSTANCE Connection WITH conn <- Known

\* The two tasks, close() from three sides, flush() and the restarts of the read
\* task keep the promise: a response is written only for a request that was handed
\* over before it (or as the greeting), and a connection goes from open to closing
\* to removed and never back, in steps of its own.
KeepsPromise == Promise!Spec

\* Nothing is lost between the tasks: no byte of the stream, no response, and the
\* server never loses sight of an open connection.  (And the variables have their types.)
NothingLost == TypeOK /\ RequestsConserved /\ ResponsesConserved /\ OpenIsListed

=============================================================================
