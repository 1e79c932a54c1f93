---------------------------- MODULE CloseAnalyzer ---------------------------
(***************************************************************************)
(* AnalyzerCloseRegular (framework/helpers/analyzer.py): does a capture of *)
(* the packets of a connection show that it was closed in the regular way, *)
(* by FINs, and first by the expected side?  The capture is written by two *)
(* TCP endpoints, each of which may close first, both at once, or reset.   *)
(*                                                                         *)
(* The sides are "port", which owns the port that is sniffed, and "peer".  *)
(* Sequence numbers are kept modulo 2^32, here modulo Wrap.                *)
(***************************************************************************)
EXTENDS Integers, SequencesExt, FiniteSetsExt

CONSTANTS
    Wrap,           \* stands for 2^32
    ISN,            \* initial sequence numbers
    MaxPackets      \* bound: packets of the capture

VARIABLES
    node_side_close,    \* the port side is expected to close first
    side,               \* the endpoints: first number, sent and received bytes, FIN sent
    packets             \* Sniffer.packets

vars == <<node_side_close, side, packets>>

Sides == {"port", "peer"}
Other(s) == IF s = "port" THEN "peer" ELSE "port"

\* AnalyzerCloseRegular.portcmp
Portcmp(p, invert) == p.from = (IF node_side_close # invert THEN "port" ELSE "peer")

\* One turn of the loop of check_results.  The last number of a FIN packet is not
\* reduced modulo 2^32.
LSeq(p) == p.seq + p.len

Covers(p, l_seq) == p.ack > l_seq

\* Mutant of SecondFin: the FIN in the packet that acknowledges the first one is not seen.
TwoPackets(p, s) == s

\* The packet that acknowledges the first FIN may carry the second one.
SecondFin(p, s) ==
  IF s.count = 2 /\ "FIN" \in p.flags /\ Portcmp(p, TRUE)
  THEN [s EXCEPT !.count = 3, !.l_seq = LSeq(p), !.next = TRUE] ELSE s

Turn(s, p) ==
  LET first == s.count = 0 /\ "FIN" \in p.flags /\ Portcmp(p, FALSE)
      acked == s.count = 1 /\ "ACK" \in p.flags /\ Portcmp(p, TRUE) /\ Covers(p, s.l_seq)
      two == IF ~acked THEN SecondFin(p, s) ELSE SecondFin(p, [s EXCEPT !.count = 2])
      done == two.count = 3 /\ ~two.next /\ "ACK" \in p.flags /\ Portcmp(p, FALSE)
                /\ Covers(p, two.l_seq)
  IN  CASE ~s.ok \/ "RST" \in p.flags \/ s.count >= 4 -> [s EXCEPT !.ok = FALSE]
        [] OTHER -> [(IF first THEN [s EXCEPT !.count = 1, !.l_seq = LSeq(p)]
                      ELSE IF done THEN [two EXCEPT !.count = 4] ELSE two) EXCEPT !.next = FALSE]

\* AnalyzerCloseRegular.check_results
CheckResults ==
  LET end == FoldLeft(Turn, [ok |-> TRUE, count |-> 0, l_seq |-> 0, next |-> FALSE], packets)
  IN  packets # <<>> /\ end.ok /\ end.count = 4

-----------------------------------------------------------------------------
Init ==
  /\ node_side_close \in BOOLEAN
  /\ side \in [Sides -> [isn : ISN, sent : {0}, received : {0}, fin : {FALSE}]]
  /\ packets = <<>>

\* An endpoint sends a packet with len bytes and a FIN or none; every packet of an
\* established connection acknowledges what its sender has received.
\* Bound: a capture ends with a RST.
Send(s, len, flags) ==
  /\ Len(packets) < MaxPackets
  /\ packets # <<>> => "RST" \notin Last(packets).flags
  /\ side[s].fin => (len = 0 /\ "FIN" \notin flags)
  /\ packets' = Append(packets,
        [from |-> s, flags |-> flags, len |-> len,
         seq |-> (side[s].isn + side[s].sent) % Wrap,
         ack |-> (side[Other(s)].isn + side[s].received) % Wrap])
  /\ side' = [side EXCEPT ![s].sent = @ + len + (IF "FIN" \in flags THEN 1 ELSE 0),
                          ![s].fin = @ \/ "FIN" \in flags]
  /\ UNCHANGED node_side_close

\* An endpoint receives all that the other one has sent.
Receive(s) ==
  /\ side[s].received < side[Other(s)].sent
  /\ side' = [side EXCEPT ![s].received = side[Other(s)].sent]
  /\ UNCHANGED <<node_side_close, packets>>

Next ==
  \E s \in Sides :
    \/ \E len \in 0..1, fin \in BOOLEAN : Send(s, len, {"ACK"} \cup (IF fin THEN {"FIN"} ELSE {}))
    \/ Send(s, 0, {"RST"})
    \/ Receive(s)

Spec == Init /\ [][Next]_vars

-----------------------------------------------------------------------------
\* What the answer should depend on: where the FIN of a side is in the capture, and
\* where the first packet is by which the other side acknowledges it.
Closer == IF node_side_close THEN "port" ELSE "peer"

FinAt(s) == {i \in DOMAIN packets : packets[i].from = s /\ "FIN" \in packets[i].flags}

Unwrapped == \A s \in Sides : side[s].isn + side[s].sent < Wrap

AckOfFin(s) ==
  {i \in DOMAIN packets : /\ packets[i].from = Other(s) /\ "ACK" \in packets[i].flags
                          /\ \E f \in FinAt(s) : f < i /\ packets[i].ack = (LSeq(packets[f]) + 1) % Wrap}

\* check_results accepts a capture if and only if nothing was reset, the expected side
\* sent its FIN, the other side acknowledged it no later than it sent its own, and
\* the capture ends with the acknowledgement of that: FIN-ACK-FIN-ACK and
\* FIN-FIN/ACK-ACK, with any traffic between them, but not a simultaneous close.
\* Sequence numbers that wrap are excepted.
RegularClose ==
  LET f1 == FinAt(Closer)  a1 == AckOfFin(Closer)
      f2 == FinAt(Other(Closer))  a2 == AckOfFin(Other(Closer))
  IN  Unwrapped =>
        (CheckResults <=>
           /\ \A i \in DOMAIN packets : "RST" \notin packets[i].flags
           /\ f1 # {} /\ a1 # {} /\ f2 # {} /\ a2 # {}
           /\ Min(a1) <= Min(f2)
           /\ Min(a2) = Len(packets))

=============================================================================
