------------------------------ MODULE MCTestRun ------------------------------
(***************************************************************************)
(* What surrounds the body of a test, besides the services: the life of    *)
(* the test and the search for leaks (extended), and by INSTANCE the       *)
(* automatic check of messages, their parsing, the kernel log, the check   *)
(* of the close of a connection and the selection of tests.  They have no  *)
(* variable in common, so a behaviour of one of them with the others at    *)
(* rest is all there is to see: `part` is the one that moves.              *)
(***************************************************************************)
EXTENDS MCTestLifecycle, MemoryChecker, Sequences

CONSTANTS
    CacheOn, MaxExchanges, MaxSeconds,
    Segments,
    MaxUri, MaxRecords,
    Wrap, ISN, MaxPackets,
    ListNames, Always, MaxLines

VARIABLES part,
          dap, exchanges, cache, lastAnswer, answer, damage, parserOdd,
          sent, flow, buf, got, streamRaised,
          pending, journal, logTest, search,
          node_side_close, side, packets,
          config, items, marked, stage

-----------------------------------------------------------------------------
\* Requests and responses of the automatic check: header fields that Tempesta adds,
\* removes or rewrites, every form of a body, and what the cache may answer.
H1Req(method, uri, headers, body, trailer) ==
  [method |-> method, uri |-> uri, headers |-> headers, body |-> body, trailer |-> trailer]
H2Req(method, uri, more, body) ==
  [headers |-> <<<<":authority", <<"h">>>>, <<":path", <<uri>>>>, <<":scheme", <<"https">>>>,
                 <<":method", <<method>>>>>> \o more,
   body |-> body]
Resp(status, headers, body, trailer) ==
  [status |-> status, headers |-> headers, body |-> body, trailer |-> trailer]

Host == <<<<"host", <<"h">>>>>>
Via == <<<<"via", <<"1.1", "other">>>>, <<"x-forwarded-for", <<"o">>>>>>
Plain(data) == [chunked |-> FALSE, chunks |-> <<data>>, end |-> FALSE]
NoBody == Plain(<<>>)
InChunks(end) == [chunked |-> TRUE, chunks |-> <<<<"a">>, <<"b">>>>, end |-> end]
Coded == <<<<"transfer-encoding", <<"chunked">>>>>>
Field(name) == <<name, <<"1">>>>

Requests1 ==
  {H1Req("GET", "http", Host \o <<Field("x")>> \o Via, NoBody, <<>>),
   H1Req("HEAD", "/", Host, NoBody, <<>>),
   H1Req("HEAD", "/", Host \o <<<<"cache-control", <<"no-cache">>>>>>, NoBody, <<>>),
   H1Req("PURGE", "/", Host, NoBody, <<>>),
   H1Req("GET", "/",
         Host \o Coded \o <<<<"trailer", <<"t">>>>, <<"connection", <<"t">>>>, <<"keep-alive", <<"5">>>>>>,
         InChunks(FALSE), <<Field("t")>>)}

Requests2 ==
  {H2Req("GET", "/", <<<<"cookie", <<"a">>>>, <<"cookie", <<"b">>>>, <<"host", <<"other">>>>, Field("x")>>, NoBody),
   H2Req("HEAD", "/", <<>>, NoBody),
   H2Req("GET", "/", <<<<"content-length", <<"9">>>>>>, Plain(<<"a", "b">>))}

MCRequests == [http2 \in BOOLEAN |-> IF http2 THEN Requests2 ELSE Requests1]

MCResponses ==
  {Resp("200", <<<<"content-length", <<"2">>>>, Field("set-cookie"), <<"connection", <<"keep-alive">>>>,
                 <<"server", <<"s">>>>, Field("x"), Field("date")>>, Plain(<<"a", "b">>), <<>>),
   Resp("200", Coded, InChunks(TRUE), <<>>),
   Resp("200", <<<<"transfer-encoding", <<"gzip", "chunked">>>>, <<"trailer", <<"t", "u">>>>,
                 <<"connection", <<"u">>>>>>, InChunks(FALSE), <<Field("u"), Field("t")>>),
   Resp("200", Coded \o <<<<"connection", <<"u">>>>>>, InChunks(FALSE), <<Field("u")>>),
   Resp("204", <<Field("x")>>, NoBody, <<>>),
   Resp("404", <<<<"content-length", <<"0">>>>>>, NoBody, <<>>)}

HttpClients == {[name |-> "1", http2 |-> FALSE], [name |-> "2", http2 |-> TRUE]}

-----------------------------------------------------------------------------
\* The first message of a stream: every framing with data that may look like the
\* framing; and the second one, which is plain.
Message(at) ==
  {d \in [side : {at}, lead : BOOLEAN, method : {"GET", "HEAD"}, status : {"200", "204"},
          fields : {<<>>, <<"expect">>, <<"x", "fold">>},
          framing : {"none", "rest", "sized", "chunked"},
          data : {<<>>, <<"d">>, <<"d", "d", "d">>, <<"d", "LF", "d">>}, pad : BOOLEAN,
          trailer : {<<>>, <<"x">>, <<"x", "fold">>}] :
     /\ (at = "server") => (d.status = "200" /\ d.method = "GET" /\ d.framing # "rest")
     /\ (at = "server" /\ d.framing = "none") => (d.data = <<>>)
     /\ (at = "client") => (~d.lead /\ d.fields # <<"expect">>)
     /\ (d.framing # "chunked") => (~d.pad /\ d.trailer = <<>>)
     /\ (d.framing = "chunked") => (d.fields # <<"expect">>)}

MCFirsts == Message("server") \cup Message("client")
MCSeconds ==
  {d \in MCFirsts : /\ d.framing = "sized" /\ d.data = <<"d">> /\ d.fields = <<>>
                    /\ d.method = "GET" /\ d.status = "200"}

-----------------------------------------------------------------------------
\* A request with a URI that is logged as it is, and one whose URI is cut.
MCSent ==
  {[method |-> "GET", uri |-> <<"a", "a">>, status |-> 200],
   [method |-> "POST", uri |-> <<"a", "a", "b">>, status |-> 403]}

\* Tests and lines of lists whose names begin with each other.
T == <<"t">>
TU == <<"t", "u">>
MCCollected == <<<<T, T, T>>, <<T, T, TU>>, <<T, TU, T>>, <<TU, T, T>>>>
MCListed == {<<T>>, <<T, T>>, <<T, T, T>>, <<TU, T>>}

-----------------------------------------------------------------------------
P == INSTANCE AutoParser WITH Clients <- HttpClients, Requests <- MCRequests, Responses <- MCResponses,
                            verdict <- answer, odd <- parserOdd
W == INSTANCE MessageStream WITH Firsts <- MCFirsts, Seconds <- MCSeconds, raised <- streamRaised
L == INSTANCE KernelLog WITH Sent <- MCSent, test <- logTest
A == INSTANCE CloseAnalyzer
S == INSTANCE TestSelection WITH Collected <- MCCollected, Listed <- MCListed, phase <- stage

parserVars == <<dap, exchanges, cache, lastAnswer, answer, damage, parserOdd>>
streamVars == <<sent, flow, buf, got, streamRaised>>
logVars == <<pending, journal, logTest, search>>
closeVars == <<node_side_close, side, packets>>
selectionVars == <<config, items, marked, stage>>
allVars == <<part, vars, memoryVars, parserVars, streamVars, logVars, closeVars, selectionVars>>

\* The test and the memory are at their begin and the other parts have no state while
\* another part is looked at.
InitAll ==
  /\ part \in {"life", "parser", "stream", "log", "memory", "close", "selection"}
  /\ Init /\ MemoryInit
  /\ (part # "memory") => (local /\ ~checkLeaks /\ mem.cached = 0)
  /\ IF part = "parser" THEN P!Init
     ELSE /\ dap = 0 /\ exchanges = 0 /\ cache = 0 /\ lastAnswer = 0 /\ answer = 0 /\ damage = 0
          /\ parserOdd = 0
  /\ IF part = "stream" THEN W!Init
     ELSE sent = 0 /\ flow = 0 /\ buf = 0 /\ got = 0 /\ streamRaised = 0
  /\ IF part = "log" THEN L!Init ELSE pending = 0 /\ journal = 0 /\ logTest = 0 /\ search = 0
  /\ IF part = "close" THEN A!Init ELSE node_side_close = 0 /\ side = 0 /\ packets = 0
  /\ IF part = "selection" THEN S!Init ELSE config = 0 /\ items = 0 /\ marked = 0 /\ stage = 0

NextAll ==
  /\ UNCHANGED part
  /\ \/ /\ part = "life" /\ Next
        /\ UNCHANGED <<parserVars, streamVars, logVars, memoryVars, closeVars, selectionVars>>
     \/ /\ part = "parser" /\ P!Next
        /\ UNCHANGED <<vars, streamVars, logVars, memoryVars, closeVars, selectionVars>>
     \/ /\ part = "stream" /\ W!Next
        /\ UNCHANGED <<vars, parserVars, logVars, memoryVars, closeVars, selectionVars>>
     \/ /\ part = "log" /\ L!Next
        /\ UNCHANGED <<vars, parserVars, streamVars, memoryVars, closeVars, selectionVars>>
     \/ /\ part = "memory" /\ MemoryNext
        /\ UNCHANGED <<vars, parserVars, streamVars, logVars, closeVars, selectionVars>>
     \/ /\ part = "close" /\ A!Next
        /\ UNCHANGED <<vars, parserVars, streamVars, logVars, memoryVars, selectionVars>>
     \/ /\ part = "selection" /\ S!Next
        /\ UNCHANGED <<vars, parserVars, streamVars, logVars, memoryVars, closeVars>>

SpecAll == InitAll /\ [][NextAll]_allVars

-----------------------------------------------------------------------------
\* The properties of the instances; their modules say what they mean and which code they
\* are about.
VerdictRight == (part = "parser") => P!VerdictRight
StreamParsed == (part = "stream") => W!StreamParsed
BlameExact == (part = "log") => L!BlameExact
SearchRight == (part = "log") => L!SearchRight
RegularClose == (part = "close") => A!RegularClose
SelectionRight == (part = "selection") => S!SelectionRight

=============================================================================
