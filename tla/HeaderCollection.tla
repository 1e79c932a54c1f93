-------------------------- MODULE HeaderCollection --------------------------
(***************************************************************************)
(* HeaderCollection (framework/deproxy/deproxy_message.py): a list of      *)
(* headers with lookups of a dictionary, and the comparison of an expected *)
(* collection with a received one.  A header is a pair of a name in lower  *)
(* case and a value; a value is a sequence of words.                       *)
(***************************************************************************)
EXTENDS Integers, SequencesExt, FiniteSetsExt

CONSTANTS MaxSeconds     \* bound: ages and dates are in -1 .. MaxSeconds

Names(h) == {h[k][1] : k \in DOMAIN h}
FindAll(h, name) ==
  LET own == SelectSeq(h, LAMBDA f : f[1] = name) IN [k \in DOMAIN own |-> own[k][2]]
GetItem(h, name) == FindAll(h, name)[1]
Add(h, name, value) == Append(h, <<name, value>>)
DeleteAll(h, name) == SelectSeq(h, LAMBDA f : f[1] # name)
DeleteEach(h, names) == SelectSeq(h, LAMBDA f : f[1] \notin names)

\* Only the first header of the name is replaced.
SetItem(h, name, value) ==
  IF name \notin Names(h) THEN Add(h, name, value)
  ELSE [h EXCEPT ![SelectInSeq(h, LAMBDA f : f[1] = name)] = <<name, value>>]

-----------------------------------------------------------------------------
(* The comparison: expected against received                               *)

Seconds(value) == CHOOSE n \in -1 .. MaxSeconds : value = <<ToString(n)>>

OneDateEach(e, r) == Len(FindAll(e, "date")) = 1 /\ Len(FindAll(r, "date")) = 1

CheckDateHeader(e, r, delta) ==
  OneDateEach(e, r) =>
    LET late == Seconds(GetItem(r, "date")) - Seconds(GetItem(e, "date"))
    IN -delta <= 2 * late /\ 2 * late <= delta

CheckAgeHeader(e, r) ==
  LET re == FindAll(r, "age")
      ee == FindAll(e, "age")
  IN IF Len(re) = 1 /\ Len(ee) = 1 THEN Seconds(re[1]) >= Seconds(ee[1])
     ELSE re # <<>> => (Len(re) = 1 /\ Seconds(re[1]) >= 0)

CheckConnectionHeader(e, r) ==
  LET rc == FindAll(r, "connection")
      ec == FindAll(e, "connection")
  IN IF rc # <<>> /\ ec # <<>> THEN rc = ec
     ELSE rc # <<>> => (Len(rc) = 1 /\ rc[1] \in {<<"close">>, <<"keep-alive">>})

KnownWarnings == {<<"110">>, <<"111">>}

CheckWarningHeader(e, r) ==
  LET rw == FindAll(r, "warning")
      ew == FindAll(e, "warning")
  IN IF rw # <<>> /\ ew # <<>> THEN rw = ew ELSE ToSet(rw) \subseteq KnownWarnings

\* The keys that are compared are those of the larger dictionary only, and of
\* the received one when they are of the same size.
OtherNames(e, r) ==
  IF Cardinality(Names(e)) > Cardinality(Names(r)) THEN Names(e) ELSE Names(r)

CheckOtherHeaders(e, r) ==
  \A name \in OtherNames(e, r) \ {"expect"} : FindAll(e, name) = FindAll(r, name)

Specials(e, r) ==
  {"age", "connection", "warning"} \cup (IF OneDateEach(e, r) THEN {"date"} ELSE {})

\* __eq__ of a collection with is_expected and one without.
Matches(e, r, delta) ==
  /\ CheckDateHeader(e, r, delta) /\ CheckAgeHeader(e, r)
  /\ CheckConnectionHeader(e, r) /\ CheckWarningHeader(e, r)
  /\ CheckOtherHeaders(DeleteEach(e, Specials(e, r)), DeleteEach(r, Specials(e, r)))

=============================================================================
