----------------------------- MODULE KernelLog ------------------------------
(***************************************************************************)
(* What a test learns from the kernel log (framework/helpers/dmesg.py,     *)
(* access_log.py, util.wait_until) and what its cleanup reports of it      *)
(* (TempestaTest.cleanup_check_dmesg), for tests that run one after the    *)
(* other on a node whose journal is behind its kernel.                     *)
(*                                                                         *)
(* A record is a message that tests look for, an error of the kernel, an   *)
(* entry of the access log or the report of the rate limiter; `test` is    *)
(* the test that caused it.  journalctl --since selects by the time of the *)
(* receipt, which is the place in `journal`.                               *)
(***************************************************************************)
EXTENDS Integers, SequencesExt, FiniteSetsExt

CONSTANTS
    Sent,           \* the requests of the tests: [method, uri, status]
    MaxUri,         \* Tempesta cuts a longer URI
    MaxTests,       \* bound: tests in a row
    MaxRecords      \* bound: records of all tests

VARIABLES
    pending,    \* records that the kernel has written and the journal has not received
    journal,    \* received records
    test,       \* the running or the last test: its finder, what the limiter did to it
    search      \* the find() or wait_for_msg() in progress, or the last one

vars == <<pending, journal, test, search>>

Conditions == {"zero", "one", "positive"}

\* amount_zero, amount_one, amount_positive
Holds(cond, n) ==
    CASE cond = "zero" -> n = 0
      [] cond = "one" -> n = 1
      [] cond = "positive" -> n > 0

\* DmesgFinder.update: what was received since the finder was made
Update(since) == SubSeq(journal, since + 1, Len(journal))

\* DmesgFinder.log_findall.  The pattern WARN_RATELIMIT asks for the letter d where
\* the record has a number, so that it matches no record.
LogFindall(log, kind) == SelectSeq(log, LAMBDA r : r.kind = kind /\ kind # "ratelimit")

Matched(s) == Holds(s.cond, Len(LogFindall(Update(s.since), s.kind)))

\* The records that test n has caused, received or not.
Written(n) == SelectSeq(journal \o pending, LAMBDA r : r.test = n)
WrittenOf(n, kind) == SelectSeq(Written(n), LAMBDA r : r.kind = kind)

-----------------------------------------------------------------------------
\* The access log

\* Tempesta cuts a long URI and marks the cut.
Cut(uri) == IF Len(uri) > MaxUri THEN SubSeq(uri, 1, MaxUri) \o <<"...">> ELSE uri

Logged(r) == [r EXCEPT !.uri = Cut(r.uri)]

\* AccessLogLine.re_pattern is greedy and its dots match line ends: one match begins
\* in the first entry of the text and ends in the last one, and all that lies between
\* them is its URI.
Pattern(entries) ==
    LET first == Logged(Head(entries).request)
        last == Logged(Last(entries).request)
    IN  [last EXCEPT !.method = first.method,
                     !.uri = IF Len(entries) = 1 THEN @ ELSE first.uri \o <<"...">> \o @]

\* AccessLogLine.parse_all
ParseAll(log) ==
    LET entries == LogFindall(log, "access")
    IN  IF entries = <<>> THEN <<>> ELSE <<Pattern(entries)>>

\* AccessLogLine.from_dmesg, DmesgFinder.access_log_last_message
FromDmesg(log) == IF ParseAll(log) = <<>> THEN {} ELSE {Head(ParseAll(log))}
LastMessage(log) == IF ParseAll(log) = <<>> THEN {} ELSE {Last(ParseAll(log))}

\* DmesgFinder.__records_filter, access_log_find: wanted is a function on the
\* fields that the caller names
RecordsFilter(records, wanted) ==
    SelectSeq(records, LAMBDA r : \A f \in DOMAIN wanted : r[f] = wanted[f])

AccessLogFind(log, wanted) == RecordsFilter(ParseAll(log), wanted)


\* AccessLogLine.__eq__ of a received entry and the expected one: a cut URI is
\* compared up to the cut, and a difference is an exception, never FALSE
ExpectedResult(received, expected) ==
    IF Len(received.uri) > 1 /\ Last(received.uri) = "..."
    THEN [expected EXCEPT !.uri = SubSeq(@, 1, Min({Len(@), Len(received.uri) - 1})) \o <<"...">>]
    ELSE expected

Equals(received, expected) ==
    IF received = ExpectedResult(received, expected) THEN "True" ELSE "AssertionError"

-----------------------------------------------------------------------------
NoRequest == [method |-> "none", uri |-> <<>>, status |-> 0]

NoSearch ==
  [state |-> "none", kind |-> "msg", cond |-> "one", since |-> 0, strict |-> FALSE, block |-> FALSE,
   expired |-> FALSE, held |-> FALSE, late |-> FALSE, base |-> 0, caused |-> 0, outcome |-> "none"]

Init ==
  /\ pending = <<>> /\ journal = <<>>
  /\ test = [n |-> 0, running |-> FALSE, start |-> 0, ignore |-> FALSE, raised |-> FALSE,
             late |-> FALSE, caused |-> 0, suppressed |-> FALSE, dropped |-> FALSE]
  /\ search = NoSearch

\* asyncSetUp makes the finder of the test and empties oops_ignore.
AsyncSetUp ==
  /\ ~test.running /\ test.n < MaxTests
  /\ test' = [test EXCEPT !.n = @ + 1, !.running = TRUE, !.start = Len(journal), !.ignore = FALSE,
                          !.raised = FALSE, !.late = pending # <<>>, !.caused = 0, !.dropped = FALSE]
  /\ search' = NoSearch
  /\ UNCHANGED <<pending, journal>>

Record(kind, request) == [kind |-> kind, test |-> test.n, request |-> request]

\* Bound: only messages matter to a search, so a test that searches, once, has no
\* other records.
MaySearch == test.running /\ search.state = "none"
             /\ WrittenOf(test.n, "error") = <<>> /\ WrittenOf(test.n, "access") = <<>>

\* The kernel writes a record because of the test; ...
KernelWrites(kind, request) ==
  /\ (search.state # "none") => (kind = "msg")
  /\ test.running /\ Len(journal \o pending) < MaxRecords
  /\ pending' = pending \o (IF test.suppressed /\ kind = "msg" THEN <<Record("limit", NoRequest)>> ELSE <<>>)
                        \o <<Record(kind, request)>>
  /\ test' = IF kind # "msg" THEN test ELSE [test EXCEPT !.caused = @ + 1, !.suppressed = FALSE]
  /\ UNCHANGED <<journal, search>>

\* ... a message may be dropped instead, unless a strict wait_for_msg has switched
\* the rate limiter off: the limiter says so before the next message.
\* Bound: one in a test.
KernelDrops ==
  /\ test.running /\ ~test.dropped
  /\ ~(search.block /\ search.strict)
  /\ test' = [test EXCEPT !.caused = @ + 1, !.suppressed = TRUE, !.dropped = TRUE]
  /\ UNCHANGED <<pending, journal, search>>

JournalReceives ==
  /\ pending # <<>>
  /\ journal' = Append(journal, Head(pending))
  /\ pending' = Tail(pending)
  /\ UNCHANGED <<test, search>>

\* DmesgFinder.find on the finder of the test
Find(cond) ==
  /\ MaySearch
  /\ search' = [NoSearch EXCEPT !.state = "look", !.cond = cond, !.since = test.start,
                                !.late = test.late]
  /\ UNCHANGED <<pending, journal, test>>

\* wait_for_msg makes a finder of its own before the block, ...
EnterWaitForMsg(strict) ==
  /\ MaySearch
  /\ search' = [NoSearch EXCEPT !.state = "inside", !.since = Len(journal), !.strict = strict,
                                !.block = TRUE, !.late = pending # <<>>, !.base = test.caused]
  /\ UNCHANGED <<pending, journal, test>>

\* ... and searches after it.
LeaveWaitForMsg ==
  /\ search.state = "inside"
  /\ search' = [search EXCEPT !.state = "look"]
  /\ UNCHANGED <<pending, journal, test>>

\* The end of find() and what wait_for_msg() makes of it: a strict one raises, any
\* other searches for the report of the rate limiter and, without it, warns.
Outcome(found) ==
  CASE found -> IF search.kind = "msg" THEN "found" ELSE "limited"
    [] ~found /\ ~search.block -> "not found"
    [] ~found /\ search.block -> IF search.strict THEN "raised" ELSE "warned"

Answered(found) ==
  IF ~found /\ search.block /\ ~search.strict /\ search.kind = "msg"
  THEN [search EXCEPT !.state = "look", !.kind = "ratelimit", !.expired = FALSE,
                      !.late = @ \/ pending # <<>>, !.caused = test.caused - search.base]
  ELSE [search EXCEPT !.state = "answered", !.outcome = Outcome(found),
                      !.late = @ \/ pending # <<>>,
                      !.caused = IF search.kind = "msg" THEN test.caused - search.base ELSE @]

\* util.wait_until: the condition is looked at, ...
Look ==
  /\ search.state = "look"
  /\ search' = IF Matched(search) THEN Answered(TRUE) ELSE [search EXCEPT !.state = "clock"]
  /\ UNCHANGED <<pending, journal, test>>

\* ... time runs out, whatever the state of the search, ...
Expires ==
  /\ search.state \in {"look", "clock"} /\ ~search.expired
  /\ search' = [search EXCEPT !.expired = TRUE,
                              !.held = IF search.kind = "msg" THEN Matched(search) ELSE @]
  /\ UNCHANGED <<pending, journal, test>>

\* ... then the clock, ...
Clock ==
  /\ search.state = "clock"
  /\ search' = [search EXCEPT !.state = IF search.expired THEN "last" ELSE "look"]
  /\ UNCHANGED <<pending, journal, test>>

\* ... and the condition for the last time.
LastLook(matched) ==
  /\ search.state = "last"
  /\ search' = Answered(matched)
  /\ UNCHANGED <<pending, journal, test>>

\* Mutant of LookAgain: the time is over, and so is the search.
NoLastLook == LastLook(FALSE)

LookAgain == LastLook(Matched(search))

\* Mutant of Check: oops_ignore is not asked.
CheckAlways(log, ignore) == LogFindall(log, "error") # <<>>

\* TempestaTest.cleanup_check_dmesg: one update(), no waiting.  By now the test
\* may have named an error in oops_ignore.
Check(log, ignore) == ~ignore /\ LogFindall(log, "error") # <<>>

CleanupCheckDmesg(ignore) ==
  /\ test.running /\ search.state \in {"none", "answered"}
  /\ test' = [test EXCEPT !.running = FALSE, !.raised = Check(Update(test.start), ignore),
                          !.ignore = ignore, !.late = @ \/ pending # <<>>]
  /\ search' = NoSearch
  /\ UNCHANGED <<pending, journal>>

Next ==
  \/ AsyncSetUp
  \/ \E kind \in {"msg", "error"} : KernelWrites(kind, NoRequest)
  \/ \E r \in Sent : KernelWrites("access", r)
  \/ KernelDrops
  \/ JournalReceives
  \/ \E cond \in Conditions : Find(cond)
  \/ \E strict \in BOOLEAN : EnterWaitForMsg(strict)
  \/ LeaveWaitForMsg \/ Look \/ Expires \/ Clock \/ LookAgain
  \/ \E ignore \in BOOLEAN : CleanupCheckDmesg(ignore)

Spec == Init /\ [][Next]_vars

-----------------------------------------------------------------------------
\* cleanup_check_dmesg fails a test if and only if that test made the kernel report
\* an error that it does not ignore, unless a record was on its way to the journal
\* when the test began or when it was checked.
BlameExact ==
  (test.n > 0 /\ ~test.running /\ ~test.late)
    => (test.raised <=> (WrittenOf(test.n, "error") # <<>> /\ ~test.ignore))

\* find() and wait_for_msg() answer by the messages that were caused since their
\* finder was made, not by older ones, unless a record was on its way then or at the
\* answer.  A message that the rate limiter drops deceives all but the strict wait.
AnswerTruthful ==
  (search.state = "answered" /\ ~search.late /\ (search.strict \/ ~test.dropped))
    => (search.outcome = "found" <=> Holds(search.cond, search.caused))

\* A search fails only if its condition did not hold when the time ran out, or more
\* messages have been received after that: the last look of wait_until counts.
TimeoutJustified ==
  (search.outcome \in {"not found", "raised", "warned"} /\ search.held)
    => ~Matched([search EXCEPT !.kind = "msg"])

\* So a search that ends tells the truth, in time or not.
SearchRight == AnswerTruthful /\ TimeoutJustified


\* "Parse the text and find all the entries for access logs" (access_log.py:73)
AllEntriesFound ==
  Len(ParseAll(Update(test.start))) = Len(LogFindall(Update(test.start), "access"))

=============================================================================
