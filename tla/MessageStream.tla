---------------------------- MODULE MessageStream ----------------------------
(***************************************************************************)
(* How HTTP/1 messages are cut out of a byte stream                        *)
(* (framework/deproxy/deproxy_message.py).  The reading loops of the client*)
(* and of a server's connection keep what has arrived in a buffer and      *)
(* parse the whole buffer anew whenever something is added: the parser     *)
(* must tell a message that has not arrived yet from a broken one.         *)
(*                                                                         *)
(* The stream is a sequence of symbols: the two line-end characters, hex   *)
(* digits and body characters one by one, and the words of a first line or *)
(* a whole header field as one symbol each (a field cut in two is a line   *)
(* without its end, wherever the cut is).                                  *)
(***************************************************************************)
EXTENDS Integers, SequencesExt, FiniteSetsExt

CONSTANTS Firsts,      \* descriptions of the first message on the stream
          Seconds,     \* of the second
          Segments     \* bound: sizes of the segments that arrive

VARIABLES sent,        \* the two messages; sent[1].side is who reads them
          flow,        \* symbols on their way
          buf,         \* response_buffer, req_buffer
          got,         \* messages handed on
          raised       \* a ParseError left the loop

vars == <<sent, flow, buf, got, raised>>

CRLF == <<"CR", "LF">>

-----------------------------------------------------------------------------
(* StringIO                                                                *)

ReadLine(s, i) ==
  SubSeq(s, i + 1, Min({j \in i + 1 .. Len(s) : s[j] = "LF"} \cup {Len(s)}))
Read(s, i, n) == SubSeq(s, i + 1, Min({i + n, Len(s)}))
RStrip(line) == SelectSeq(line, LAMBDA c : c \notin {"CR", "LF"})
Ended(line) == line # <<>> /\ Last(line) = "LF"
EmptyLine(line) == Ended(line) /\ RStrip(line) = <<>>

Ok(pos, value) == [st |-> "ok", pos |-> pos, val |-> value]
Incomplete == [st |-> "incomplete", pos |-> 0, val |-> <<>>]
ParseError == [st |-> "error", pos |-> 0, val |-> <<>>]

-----------------------------------------------------------------------------
(* HeaderCollection.from_stream                                            *)

Folds == {"fold"}
Fields == {"te", "gzip", "cl0", "cl1", "cl3", "expect", "x"}

RECURSIVE Unfold(_, _)
Unfold(s, i) ==
  LET line == ReadLine(s, i)
  IN IF line # <<>> /\ line[1] \in Folds THEN Unfold(s, i + Len(line)) ELSE i

\* Whatever follows a header must be a line, too.
NextMissing(line) == ~Ended(line)

RECURSIVE FromStream(_, _, _, _)
FromStream(s, i, noCrlf, headers) ==
  LET line == ReadLine(s, i)
      next == i + Len(line)
  IN CASE EmptyLine(line) -> Ok(next, headers)
       [] line = <<>> /\ noCrlf -> Ok(i, headers)
       [] ~Ended(line) -> Incomplete
       [] line[1] \notin Fields -> ParseError
       [] NextMissing(ReadLine(s, next)) -> Incomplete
       [] OTHER -> FromStream(s, Unfold(s, next), noCrlf, headers \o RStrip(line))

-----------------------------------------------------------------------------
(* First lines                                                             *)

RECURSIVE SkipEmpty(_, _)
SkipEmpty(s, i) ==
  LET line == ReadLine(s, i) IN IF EmptyLine(line) THEN SkipEmpty(s, i + Len(line)) ELSE i

\* Only the line that comes first must be whole: one that follows an empty
\* line is split into words as far as it has arrived.
RequestFirstLine(s) ==
  LET i == SkipEmpty(s, 0)
      words == RStrip(ReadLine(s, i))
  IN CASE ~Ended(ReadLine(s, 0)) -> Incomplete
       [] Len(words) \notin {2, 3} -> ParseError
       [] words[1] \notin {"GET", "HEAD"} -> ParseError
       [] OTHER -> Ok(i + Len(ReadLine(s, i)), words)

StatusFirstLine(s) ==
  LET words == RStrip(ReadLine(s, 0))
  IN CASE ~Ended(ReadLine(s, 0)) -> Incomplete
       [] Len(words) < 2 -> ParseError
       [] words[2] \notin {"200", "204"} -> ParseError
       [] OTHER -> Ok(Len(ReadLine(s, 0)), words)

-----------------------------------------------------------------------------
(* Bodies                                                                  *)

Digits == <<"0", "1", "2", "3">>
IsHex(text) == text # <<>> /\ ToSet(text) \subseteq ToSet(Digits)
Hex(text) ==
  LET value(c) == (CHOOSE k \in DOMAIN Digits : Digits[k] = c) - 1
  IN FoldLeft(LAMBDA n, c : 16 * n + value(c), 0, text)

\* Mutant of BothEnds: half of the last line end will do.
AnyEnd(text) == TRUE

\* The zero chunk's line end and the last one are there.
BothEnds(text) ==
  LET tail == SubSeq(text, Len(text) - 2, Len(text))
  IN Cardinality({k \in DOMAIN tail : tail[k] = "LF"}) = 2

\* read_chunked_body after the zero chunk: the last line end or the trailer.
LastCrlf(s, i, body) ==
  LET end == Read(s, i, 2)
      whole == body \o end
  IN CASE end = <<>> -> Incomplete
       [] RStrip(end) = <<>> ->
            IF BothEnds(whole) THEN Ok(i + Len(end), [body |-> whole, trailer |-> <<>>])
            ELSE Incomplete
       [] OTHER ->
            LET t == FromStream(s, i, TRUE, <<>>)
            IN [t EXCEPT !.val = [body |-> body, trailer |-> t.val]]

RECURSIVE ReadChunkedBody(_, _, _)
ReadChunkedBody(s, i, body) ==
  LET line == ReadLine(s, i)
      chunk == ReadLine(s, i + Len(line))
      size == Hex(RStrip(line))
  IN CASE line = <<>> -> Incomplete
       [] ~IsHex(RStrip(line)) -> ParseError
       [] size = 0 -> LastCrlf(s, i + Len(line), body \o line)
       [] Len(RStrip(chunk)) < size \/ ~Ended(chunk) -> Incomplete
       [] Len(RStrip(chunk)) > size -> ParseError
       [] OTHER -> ReadChunkedBody(s, i + Len(line \o chunk), body \o line \o chunk)

Body(pos, text) == Ok(pos, [body |-> text, trailer |-> <<>>])

ContentLength(headers) ==
  LET first == SelectSeq(headers, LAMBDA h : h \in {"cl0", "cl1", "cl3"})
  IN CASE first[1] = "cl0" -> 0 [] first[1] = "cl1" -> 1 [] first[1] = "cl3" -> 3

ReadSizedBody(s, i, headers) ==
  LET text == Read(s, i, ContentLength(headers))
  IN IF Len(text) < ContentLength(headers) /\ ~Contains(headers, "expect")
     THEN Incomplete ELSE Body(i + Len(text), text)

ReadRestBody(s, i) == Body(Len(s), SubSeq(s, i + 1, Len(s)))

\* read_encoded_body and the parse_body methods: a HEAD response and a 204
\* have no body whatever their headers say.
ReadEncodedBody(side, s, i, headers) ==
  CASE SelectSeq(headers, LAMBDA h : h \in {"te", "gzip"})[1] = "te" ->
         ReadChunkedBody(s, i, <<>>)
    [] side = "server" -> ParseError
    [] OTHER -> ReadRestBody(s, i)

RequestBody(s, i, headers) ==
  CASE ToSet(headers) \cap {"te", "gzip"} # {} -> ReadEncodedBody("server", s, i, headers)
    [] ToSet(headers) \cap {"cl0", "cl1", "cl3"} # {} -> ReadSizedBody(s, i, headers)
    [] OTHER -> Body(i, <<>>)

ResponseBody(method, status, s, i, headers) ==
  CASE method = "HEAD" \/ status = "204" -> Body(i, <<>>)
    [] ToSet(headers) \cap {"te", "gzip"} # {} -> ReadEncodedBody("client", s, i, headers)
    [] ToSet(headers) \cap {"cl0", "cl1", "cl3"} # {} -> ReadSizedBody(s, i, headers)
    [] OTHER -> ReadRestBody(s, i)

\* HttpMessage.parse_text.
Parse(side, method, s) ==
  LET line == IF side = "server" THEN RequestFirstLine(s) ELSE StatusFirstLine(s)
      hdr == FromStream(s, line.pos, FALSE, <<>>)
      body == IF side = "server" THEN RequestBody(s, hdr.pos, hdr.val)
              ELSE ResponseBody(method, line.val[2], s, hdr.pos, hdr.val)
  IN CASE line.st # "ok" -> line
       [] hdr.st # "ok" -> hdr
       [] body.st # "ok" -> body
       [] OTHER -> Ok(body.pos, [headers |-> hdr.val, body |-> body.val.body,
                                 trailer |-> body.val.trailer])

-----------------------------------------------------------------------------
(* The reading loops                                                       *)

\* methods[self._nrresp]
MethodOf(n) == IF n <= Len(sent) THEN sent[n].method ELSE "GET"

\* DeproxyClient._handle_read and the loop of ServerConnection: a ParseError
\* goes up from the client and is only logged by the server, which tries
\* again with more data.
RECURSIVE HandleRead(_, _, _)
HandleRead(side, b, g) ==
  LET m == Parse(side, MethodOf(Len(g) + 1), b)
  IN CASE b = <<>> -> [buf |-> b, got |-> g, raised |-> FALSE]
       [] m.st = "incomplete" -> [buf |-> b, got |-> g, raised |-> FALSE]
       [] m.st = "error" -> [buf |-> b, got |-> g, raised |-> side = "client"]
       [] OTHER -> HandleRead(side, SubSeq(b, m.pos + 1, Len(b)), Append(g, m.val))

\* A segment of n symbols arrives.
Arrives(n) ==
  /\ n <= Len(flow) /\ ~raised
  /\ \E r \in {HandleRead(sent[1].side, buf \o SubSeq(flow, 1, n), got)} :
       buf' = r.buf /\ got' = r.got /\ raised' = r.raised
  /\ flow' = SubSeq(flow, n + 1, Len(flow))
  /\ UNCHANGED sent

-----------------------------------------------------------------------------
(* The messages, as their sender means them                                *)

\* util.encode_chunked; some senders pad the sizes with a zero.
RECURSIVE EncodeChunked(_, _, _)
EncodeChunked(data, size, pad) ==
  LET chunk == Read(data, 0, size)
      zero == IF pad THEN <<"0">> ELSE <<>>
  IN IF data = <<>> THEN <<"0">> \o CRLF \o CRLF
     ELSE zero \o <<Digits[Len(chunk) + 1]>> \o CRLF \o chunk \o CRLF
               \o EncodeChunked(SubSeq(data, size + 1, Len(data)), size, pad)

\* HttpMessage.create: first line, headers, empty line, body.  A chunked body
\* with a trailer gives up its last line end to it.
Lines(fields) == FlattenSeq([k \in DOMAIN fields |-> <<fields[k]>> \o CRLF])
Bodiless(d) == d.side = "client" /\ (d.method = "HEAD" \/ d.status = "204")
WireBody(d) ==
  CASE Bodiless(d) -> <<>>
    [] d.framing # "chunked" -> d.data
    [] OTHER -> LET text == EncodeChunked(d.data, 2, d.pad)
                IN IF d.trailer = <<>> THEN text
                   ELSE SubSeq(text, 1, Len(text) - 2) \o Lines(d.trailer) \o CRLF
FramingFields(d) ==
  CASE d.framing = "none" -> <<>> [] d.framing = "rest" -> <<"gzip">>
    [] d.framing = "sized" -> <<CASE Len(d.data) = 0 -> "cl0" [] Len(d.data) = 1 -> "cl1"
                                  [] Len(d.data) = 3 -> "cl3">>
    [] OTHER -> <<"te">>
Wire(d) ==
  (IF d.lead THEN CRLF ELSE <<>>)
    \o (IF d.side = "server" THEN <<d.method, "/", "HTTP">>
        ELSE <<"HTTP", d.status, "OK">>) \o CRLF
    \o Lines(d.fields \o FramingFields(d)) \o CRLF \o WireBody(d)

Meant(d) ==
  LET text == WireBody(d)
      cut == IF Bodiless(d) \/ d.trailer = <<>> THEN 0 ELSE Len(Lines(d.trailer)) + 2
      unfolded(f) == SelectSeq(f, LAMBDA h : h \notin Folds)
  IN [headers |-> unfolded(d.fields \o FramingFields(d)),
      body |-> SubSeq(text, 1, Len(text) - cut),
      trailer |-> IF Bodiless(d) THEN <<>> ELSE unfolded(d.trailer)]

\* Messages whose end the parser cannot see in the way it looks for it: a
\* body that ends with the connection, a body announced with Expect, a folded
\* line in a trailer, a line end inside a chunk.
Odd(d) ==
  /\ ~Bodiless(d)
  /\ \/ d.side = "client" /\ d.framing \in {"none", "rest"}
     \/ d.framing = "sized" /\ d.data # <<>> /\ Contains(d.fields, "expect")
     \/ d.framing = "chunked" /\ Contains(d.trailer, "fold")
     \/ d.framing = "chunked" /\ Contains(d.data, "LF")

Init ==
  /\ sent \in {<<a, b>> : a \in Firsts, b \in Seconds} /\ sent[1].side = sent[2].side
  /\ flow = Wire(sent[1]) \o Wire(sent[2])
  /\ buf = <<>> /\ got = <<>> /\ raised = FALSE

Next == \E n \in Segments : Arrives(n)

Spec == Init /\ [][Next]_vars

-----------------------------------------------------------------------------
\* However the stream is cut into segments, what the loop hands on are the
\* messages that were sent, in their order: no message is taken for complete
\* before its end has arrived, none eats a part of the next one.
MessagesAsSent ==
  \/ \E k \in 1 .. 2 : Odd(sent[k])
  \/ /\ Len(got) <= 2
     /\ \A k \in DOMAIN got : got[k] = Meant(sent[k])

\* And when all of it has arrived nothing is left over: no prefix of a message
\* was taken for a broken one, and no message for an unfinished one.
NothingLeft ==
  \/ \E k \in 1 .. 2 : Odd(sent[k])
  \/ ~raised /\ (flow = <<>> => (Len(got) = 2 /\ buf = <<>>))

\* So HandleRead parses the stream right, wherever it is cut.
StreamParsed == MessagesAsSent /\ NothingLeft

=============================================================================
