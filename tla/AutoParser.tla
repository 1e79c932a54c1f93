------------------------------ MODULE AutoParser ------------------------------
(***************************************************************************)
(* DeproxyAutoParser (framework/deproxy/deproxy_auto_parser.py): it        *)
(* predicts what Tempesta makes of every request and response and          *)
(* compares that with what arrives.  There is one parser for all clients   *)
(* and servers of a test, with one slot for each prediction: make_request  *)
(* fills the slots of the request, the server that receives a request      *)
(* checks it and fills the slot of the response, the client that receives  *)
(* a response checks that.  What it finds is raised in a clean-up.         *)
(*                                                                         *)
(* Tempesta is external.  Forwarded and Delivered say what the comments    *)
(* and docstrings of the parser expect of it, header by header.            *)
(***************************************************************************)
EXTENDS HeaderCollection

CONSTANTS Clients,        \* set of [name, http2]
          Requests,       \* what the test may send: [http2 -> set of requests]
          Responses,      \* what the server may answer
          CacheOn,        \* `cache 1` or `cache 2` in Tempesta's configuration
          MaxExchanges    \* bound: requests of a behaviour

VARIABLES dap,            \* the parser
          exchanges,      \* the exchanges so far: Done, or under way
          cache,          \* the response Tempesta has stored for the URI, or None
          lastAnswer,     \* the response that a server sent last
          verdict,        \* of the test: "running", "passed", "failed"
          damage,         \* observer: what Tempesta did wrong, and the parser should see
          odd             \* observer: coincidences the parser does not handle

vars == <<dap, exchanges, cache, lastAnswer, verdict, damage, odd>>

None == <<>>
Done == [stage |-> "done"]
HopByHop == {"connection", "keep-alive", "proxy-connection", "upgrade"}

-----------------------------------------------------------------------------
(* Requests                                                                *)

Plain(data) == [chunked |-> FALSE, chunks |-> <<data>>, end |-> FALSE]
NoBody == Plain(<<>>)
Data(body) == FlattenSeq(body.chunks)
Length(body) == <<ToString(Len(Data(body)))>>

\* create_request_from_list_or_tuple: an HTTP/1 request out of the headers of
\* an HTTP/2 one.
CreateRequest(r) ==
  LET rename(f) == IF f[1] = ":authority" THEN <<"host", f[2]>> ELSE f
      plain == SelectSeq([k \in DOMAIN r.headers |-> rename(r.headers[k])],
                         LAMBDA f : f[1] \notin {":path", ":method", ":scheme", "cookie"})
      hosts == FindAll(plain, "host")
      one == IF Len(hosts) <= 1 THEN plain
             ELSE SetItem(DeleteAll(plain, "host"), "host", hosts[1])
      cookies == FindAll(r.headers, "cookie")
      crumbs == IF cookies = <<>> THEN one ELSE Add(one, "cookie", FlattenSeq(cookies))
  IN [method |-> GetItem(r.headers, ":method")[1], uri |-> GetItem(r.headers, ":path")[1],
      headers |-> IF Data(r.body) = <<>> THEN crumbs
                  ELSE Add(DeleteAll(crumbs, "content-length"),
                           "content-length", Length(r.body)),
      body |-> r.body, trailer |-> <<>>]

\* __prepare_hop_by_hop_headers: the headers that Connection names are looked
\* for in the trailer only.  A chunked message whose trailer is gone ends
\* with an empty line.
RemoveHopByHop(m) ==
  LET named == IF "connection" \in Names(m.headers)
               THEN ToSet(GetItem(m.headers, "connection")) ELSE {}
      left == DeleteEach(m.trailer, HopByHop \cup named)
  IN [m EXCEPT !.headers = DeleteEach(@, HopByHop), !.trailer = left,
               !.body.end = @ \/ (left = <<>> /\ m.trailer # <<>>)]

\* Request.add_tempesta_headers
AddRequestHeaders(h, address) ==
  Add(DeleteAll(Add(h, "via", <<"1.1", "tempesta">>), "x-forwarded-for"),
      "x-forwarded-for", <<address>>)

\* __prepare_host_for_http1
PrepareHost(m) ==
  IF m.uri # "http" THEN m
  ELSE [m EXCEPT !.uri = "/", !.headers = SetItem(@, "host", <<"urihost">>)]

\* Mutant of PrepareMethod: HEAD becomes GET whatever its cache-control says.
PrepareMethodAlways(m) == IF m.method \in {"PURGE", "HEAD"} THEN "GET" ELSE m.method

\* __prepare_method_for_expected_request
PrepareMethod(m) ==
  LET noCache == /\ "cache-control" \in Names(m.headers)
                 /\ Contains(GetItem(m.headers, "cache-control"), "no-cache")
  IN IF m.method = "PURGE" \/ (m.method = "HEAD" /\ CacheOn /\ ~noCache)
     THEN "GET" ELSE m.method

PrepareExpectedRequest(m, client) ==
  LET marked == [m EXCEPT !.headers = AddRequestHeaders(@, client.name)]
      named == IF client.http2 THEN marked
               ELSE PrepareHost([marked EXCEPT !.headers = DeleteAll(@, "trailer")])
      clean == RemoveHopByHop(named)
  IN [clean EXCEPT !.method = PrepareMethod(clean)]

SameRequest(e, r) ==
  /\ e.method = r.method /\ e.uri = r.uri /\ e.body = r.body
  /\ Matches(e.headers, r.headers, 0) /\ Matches(e.trailer, r.trailer, 0)

-----------------------------------------------------------------------------
(* Responses                                                               *)

\* Response.add_tempesta_headers, also of an H2Response
AddResponseHeaders(m, version) ==
  LET marked == Add(Add(DeleteEach(m.headers, {"via", "server"}),
                        "via", <<version, "tempesta">>), "server", <<"tempesta">>)
  IN [m EXCEPT !.headers = IF "date" \in Names(@) THEN marked
                           ELSE Add(marked, "date", <<ToString(0)>>),
               !.trailer = DeleteEach(@, {"via", "server"})]

PrepareExpectedResponse(m) == AddResponseHeaders(m, "1.1")

\* H2Response.convert_http1_to_http2; the trailer is that of the original.
ConvertHttp1ToHttp2(m) ==
  [AddResponseHeaders([m EXCEPT !.headers = Add(@, ":status", <<m.status>>)], "2.0")
     EXCEPT !.trailer = m.trailer]

\* __prepare_body_for_HEAD_request
PrepareBodyForHead(m, method) ==
  IF method = "HEAD" THEN [m EXCEPT !.body = NoBody, !.trailer = <<>>] ELSE m

\* convert_chunked_body: one chunk, or none, and the line of the zero chunk;
\* just the data for HTTP/2 and for HEAD.
ConvertChunkedBody(body, http2, method) ==
  IF http2 \/ method = "HEAD" THEN Plain(Data(body))
  ELSE [chunked |-> TRUE, end |-> FALSE,
        chunks |-> IF Data(body) = <<>> THEN <<>> ELSE <<Data(body)>>]

\* __prepare_chunked_expected_response
PrepareChunked(m, http2, method) ==
  IF "transfer-encoding" \notin Names(m.headers) THEN m
  ELSE LET coding == Front(GetItem(m.headers, "transfer-encoding"))
           bare == DeleteAll(m.headers, "transfer-encoding")
       IN [m EXCEPT !.headers = CASE ~http2 -> @
                                  [] coding = <<>> -> bare
                                  [] OTHER -> Add(bare, "content-encoding", coding),
                    !.body = ConvertChunkedBody(@, http2, method),
                    !.trailer = IF method = "HEAD" THEN <<>> ELSE @]

\* __add_content_length_header_to_expected_response
AddContentLength(m) ==
  IF m.status = "204" \/ Names(m.headers) \cap {"content-length", "transfer-encoding"} # {}
  THEN m ELSE [m EXCEPT !.headers = Add(@, "content-length", Length(m.body))]

\* __prepare_expected_response_for_request
ForRequest(m, http2, cached, method) ==
  LET v == IF http2 THEN ConvertHttp1ToHttp2(m) ELSE m
      head == PrepareBodyForHead(v, method)
      clean == RemoveHopByHop([head EXCEPT !.headers = DeleteAll(@, "trailer")])
      stored == IF cached THEN [clean EXCEPT !.headers = DeleteAll(@, "set-cookie")]
                ELSE clean
      whole == CASE http2 \/ cached -> PrepareChunked(stored, http2, method)
                 [] method = "HEAD" -> [stored EXCEPT !.trailer = <<>>]
                 [] OTHER -> stored
  IN PrepareBodyForHead(IF http2 THEN whole ELSE AddContentLength(whole), method)

SameResponse(e, r) ==
  /\ e.status = r.status /\ e.body = r.body
  /\ Matches(e.headers, r.headers, 30) /\ Matches(e.trailer, r.trailer, 0)

-----------------------------------------------------------------------------
(* Tempesta                                                                *)

Named(m) == IF "connection" \in Names(m.headers)
            THEN ToSet(GetItem(m.headers, "connection")) ELSE {}

\* A header that is replaced by one of the proxy's own.
Replaced(h, name, value) == Add(DeleteAll(h, name), name, value)

\* What a request looks like behind Tempesta.
Forwarded(m, client) ==
  LET absolute == ~client.http2 /\ m.uri = "http"
      gone == HopByHop \cup (IF client.http2 THEN {} ELSE {"trailer"})
      named == IF absolute THEN Replaced(m.headers, "host", <<"urihost">>) ELSE m.headers
      cacheable == CacheOn /\ ~\E k \in DOMAIN m.headers :
                                 m.headers[k] = <<"cache-control", <<"no-cache">>>>
  IN [method |-> CASE m.method = "PURGE" -> "GET"
                   [] m.method = "HEAD" /\ cacheable -> "GET"
                   [] OTHER -> m.method,
      uri |-> IF absolute THEN "/" ELSE m.uri,
      headers |-> Replaced(Add(DeleteEach(named, gone), "via", <<"1.1", "tempesta">>),
                           "x-forwarded-for", <<client.name>>),
      trailer |-> DeleteEach(m.trailer, HopByHop \cup Named(m)),
      body |-> [m.body EXCEPT !.end = @ \/
                  (m.trailer # <<>> /\ Names(m.trailer) \subseteq HopByHop \cup Named(m))]]

\* And a response in front of it.
Delivered(m, client, method, cached) ==
  LET te == "transfer-encoding" \in Names(m.headers)
      coding == Front(GetItem(m.headers, "transfer-encoding"))
      gone == HopByHop \cup {"trailer", "via", "server"}
                \cup (IF cached THEN {"set-cookie"} ELSE {})
                \cup (IF client.http2 THEN {"transfer-encoding"} ELSE {})
      sized == Names(m.headers) \cap {"content-length", "transfer-encoding"} # {}
      when(p, name, value) == IF p THEN <<<<name, value>>>> ELSE <<>>
      trailer == IF method = "HEAD" THEN <<>>
                 ELSE DeleteEach(m.trailer, HopByHop \cup Named(m))
      end == trailer = <<>>
  IN [status |-> m.status, trailer |-> trailer,
      headers |->
        DeleteEach(m.headers, gone)
          \o <<<<"via", <<IF client.http2 THEN "2.0" ELSE "1.1", "tempesta">>>>,
               <<"server", <<"tempesta">>>>>>
          \o when("date" \notin Names(m.headers), "date", <<ToString(0)>>)
          \o when(cached, "age", <<ToString(0)>>)
          \o when(client.http2, ":status", <<m.status>>)
          \o when(~client.http2, "connection", <<"keep-alive">>)
          \o when(client.http2 /\ te /\ coding # <<>>, "content-encoding", coding)
          \o when(~client.http2 /\ ~sized /\ m.status # "204",
                  "content-length", Length(m.body)),
      body |-> CASE method = "HEAD" -> NoBody
                 [] ~te -> m.body
                 [] client.http2 -> Plain(Data(m.body))
                 [] ~cached -> [m.body EXCEPT !.end = end]
                 [] OTHER -> [chunked |-> TRUE, end |-> end,
                              chunks |-> IF Data(m.body) = <<>> THEN <<>>
                                         ELSE <<Data(m.body)>>]]

\* A message arrives as it is or, once in a behaviour, with one damage (and not
\* where the parser is off or has met a coincidence).
OnTheWay(m) == {m} \cup IF damage # {} \/ odd # {} \/ ~dap.parsing THEN {} ELSE
  {[m EXCEPT !.headers = Add(@, "evil", <<"1">>)]}
    \cup {[m EXCEPT !.headers = DeleteAll(@, name)] : name \in Names(m.headers) \cap {"x", "via"}}
    \cup (IF m.trailer = <<>> THEN {} ELSE {[m EXCEPT !.trailer = Front(@)]})
    \cup (IF m.body = NoBody THEN {} ELSE {[m EXCEPT !.body = NoBody]})

-----------------------------------------------------------------------------
(* The exchanges                                                           *)

AsHttp1(r, client) == IF client.http2 THEN CreateRequest(r) ELSE r

\* make_request.  An HTTP/2 request that is not sent as a whole, or is given
\* as bytes, is not prepared.  Bound: nothing more is sent after a damage or
\* one of the coincidences, which decide what the properties say, and only the
\* second request may overlap another.
MakeRequest(client, r, whole) ==
  LET m == AsHttp1(r, client)
      open == {k \in DOMAIN exchanges : exchanges[k] # Done}
  IN /\ verdict = "running" /\ Len(exchanges) < MaxExchanges
     /\ odd = {} /\ damage = {} /\ (open # {} => Len(exchanges) = 1)
     /\ dap' = IF dap.parsing /\ whole
               THEN [dap EXCEPT !.clientRequest = m,
                                !.expectedRequest = PrepareExpectedRequest(m, client)]
               ELSE dap
     /\ exchanges' = Append(exchanges, [client |-> client, request |-> m, stage |-> "sent",
                                        answer |-> None, cached |-> FALSE])
     /\ odd' = odd \cup (IF whole THEN {} ELSE {"not prepared"})
                   \cup (IF open # {} THEN {"overlap"} ELSE {})
     /\ UNCHANGED <<cache, lastAnswer, verdict, damage>>

\* _receive_request: the server checks what it got, and the response it is
\* about to send is prepared.
CheckExpectedRequest(d, received) ==
  IF d.expectedRequest = None \/ SameRequest(d.expectedRequest, received) THEN d
  ELSE [d EXCEPT !.exceptions = @ \cup {"request"}]

Receive(k, response, stored) ==
  LET x == exchanges[k]
      intact == Forwarded(x.request, x.client)
  IN /\ verdict = "running" /\ x.stage = "sent"
     /\ stored => (CacheOn /\ response.status = "200" /\ intact.method = "GET")
     /\ \E received \in OnTheWay(intact) :
          /\ dap' = IF ~dap.parsing THEN dap
                    ELSE [CheckExpectedRequest(dap, received) EXCEPT
                            !.expectedResponse = PrepareExpectedResponse(response)]
          /\ damage' = IF received # intact /\ dap.parsing THEN {"request"} ELSE damage
     /\ exchanges' = [exchanges EXCEPT ![k].stage = "answered", ![k].answer = response]
     /\ cache' = IF stored THEN response ELSE cache
     /\ lastAnswer' = response
     /\ UNCHANGED <<verdict, odd>>

\* Tempesta answers with a stored response.  The slot has the response that a
\* server sent last, which may be another one.
ServeFromCache(k) ==
  LET x == exchanges[k]
  IN /\ verdict = "running" /\ x.stage = "sent" /\ cache # None
     /\ x.request.method \in {"GET", "HEAD"}
     /\ exchanges' = [exchanges EXCEPT ![k].stage = "answered", ![k].cached = TRUE,
                                       ![k].answer = cache]
     /\ odd' = odd
          \cup (IF cache # lastAnswer THEN {"older answer"} ELSE {})
          \cup (IF /\ cache.body.chunked
                   /\ Delivered(cache, x.client, x.request.method, TRUE).body.end
                THEN {"cached chunks"} ELSE {})
     /\ UNCHANGED <<dap, cache, lastAnswer, verdict, damage>>

\* receive_response.
Checked(d, received) ==
  /\ received.status \in {"200", "204"} /\ d.expectedResponse # None
  /\ d.clientRequest # None /\ d.clientRequest.method # "PURGE"

CheckExpectedResponse(d, received, http2) ==
  IF Checked(d, received) =>
       SameResponse(ForRequest(d.expectedResponse, http2, "age" \in Names(received.headers),
                               d.clientRequest.method), received)
  THEN d ELSE [d EXCEPT !.exceptions = @ \cup {"response"}]

ReceiveResponse(k) ==
  LET x == exchanges[k]
      intact == Delivered(x.answer, x.client, x.request.method, x.cached)
  IN /\ verdict = "running" /\ x.stage = "answered"
     /\ \E received \in OnTheWay(intact) :
          /\ dap' = IF dap.parsing
                    THEN CheckExpectedResponse(dap, received, x.client.http2) ELSE dap
          /\ damage' = IF received # intact /\ dap.parsing /\ Checked(dap, received)
                       THEN {"response"} ELSE damage
     /\ exchanges' = [exchanges EXCEPT ![k] = Done]
     /\ UNCHANGED <<cache, lastAnswer, verdict, odd>>

\* disable_deproxy_auto_parser
DisableAutoParser ==
  /\ verdict = "running" /\ dap.parsing
  /\ dap' = [dap EXCEPT !.parsing = FALSE]
  /\ UNCHANGED <<exchanges, cache, lastAnswer, verdict, damage, odd>>

NewParser == [parsing |-> TRUE, clientRequest |-> None, expectedRequest |-> None,
              expectedResponse |-> None, exceptions |-> {}]

\* The clean-ups: check_exceptions, which raises the first exception, and
\* cleanup, which is run all the same.  The services were stopped before it,
\* and Tempesta's cache with them.
CleanupParser ==
  /\ verdict = "running"
  /\ verdict' = IF dap.exceptions = {} THEN "passed" ELSE "failed"
  /\ dap' = NewParser
  /\ exchanges' = <<>> /\ cache' = None /\ lastAnswer' = None
  /\ UNCHANGED <<damage, odd>>

Init ==
  /\ dap = NewParser /\ exchanges = <<>> /\ cache = None
  /\ lastAnswer = None /\ verdict = "running" /\ damage = {} /\ odd = {}

Next ==
  \/ \E client \in Clients : \E r \in Requests[client.http2] : \E whole \in BOOLEAN :
       (~whole => client.http2) /\ MakeRequest(client, r, whole)
  \/ \E k \in DOMAIN exchanges :
       \/ \E response \in Responses, stored \in BOOLEAN : Receive(k, response, stored)
       \/ ServeFromCache(k) \/ ReceiveResponse(k)
  \/ DisableAutoParser \/ CleanupParser

Spec == Init /\ [][Next]_vars

-----------------------------------------------------------------------------
\* A test in which Tempesta damages nothing does not fail in the parser's
\* clean-up, whatever its clients send and its servers answer, unless one of
\* the coincidences met it: exchanges that overlap (the slots are those of the
\* last request), a request that was not prepared (they are those of an
\* earlier one), an answer from the cache that is older than the last answer
\* of a server or is chunked and without trailer.
NoFalseAlarm == verdict = "failed" => (damage # {} \/ odd # {})

\* And a damage to a message that is checked does fail the test.
DamageReported == (verdict = "passed" /\ odd = {}) => damage = {}

\* So the verdict of cleanup_check_exceptions_in_deproxy_auto_parser is right.
VerdictRight == NoFalseAlarm /\ DamageReported

=============================================================================
