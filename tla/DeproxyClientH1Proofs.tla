----------------------- MODULE DeproxyClientH1Proofs -----------------------
(***************************************************************************)
(* The HTTP/1 client sends the requests in order and pairs every response  *)
(* with its request, for any number of requests and restarts.              *)
(*                                                                         *)
(* The argument: what the peer got, what the buffers hold and what the     *)
(* main thread is about to queue is what the test asked for (QueueInv).    *)
(* The text from the peer is a chain in which every piece says which one   *)
(* is next (TextInv); its first piece is the head of the response that the *)
(* parser expects, and the method stored for that response, counted over   *)
(* Expect: 100-continue (MethodInv), makes it take the whole of it.        *)
(***************************************************************************)
EXTENDS DeproxyClientH1, SequenceTheorems, WellFoundedInduction, TLAPS

\* Where the main thread is: the requests in arg are not in a buffer yet, ...
Unbuffered == {"one_valid", "one_buffer", "pipe_buffer", "bytes_buffer"}
\* ... are in a buffer that _nrreq does not count yet, ...
Uncounted == {"one_nrreq", "pipe_valid", "pipe_nrreq", "bytes_nrreq"}
\* ... are not counted by _valid_req_num yet.
Unannounced == {"one_valid", "pipe_buffer", "pipe_valid", "bytes_buffer", "bytes_nrreq",
                "bytes_valid"}
Pcs == {"idle", "failed", "waiting", "one_buffer"} \cup Uncounted \cup Unannounced

\* What the state of the client says of its connection and of its responses.
LifeInv ==
    /\ ~running => /\ conn = "none" /\ ~parsing /\ ~crashed /\ responses = <<>>
    /\ running => starts \in 1..MaxStarts
    /\ mpc \in Pcs
    /\ mpc \in Unbuffered \cup Uncounted \cup Unannounced =>
         /\ Len(arg) > 0 /\ Len(arg) <= Len(asked)
         /\ mpc \in {"bytes_buffer", "bytes_nrreq", "bytes_valid"} => Len(arg) = 1

\* The two counters against what they count.
CountInv ==
    /\ valid = Len(asked) - (IF mpc \in Unannounced THEN Len(arg) ELSE 0)
    /\ nrreq = Len(request_buffers) - (IF mpc \in Uncounted THEN 1 ELSE 0)
    /\ mpc \in Uncounted => request_buffers[Len(request_buffers)] = arg
    /\ \A i \in 1..cur : request_buffers[i] = <<>>

\* What the peer got, what the buffers hold, what is to be queued: the requests asked for.
Sent == IF running THEN sent ELSE <<>>
Pending == IF mpc \in Unbuffered THEN arg ELSE <<>>
QueueInv ==
    (~running \/ conn \in {"syn", "open"}) =>
        (Sent \o Flatten(request_buffers)) \o Pending = asked

\* The peer got a part of what was asked for, and none of what was not announced,
\* unless send_bytes is between its two counters.
SentInv ==
    running => /\ Len(sent) <= Len(asked)
               /\ \A i \in 1..Len(sent) : sent[i] = asked[i]
               /\ Len(sent) <= valid + (IF mpc = "bytes_valid" THEN 1 ELSE 0)

\* The method stored for the i-th response is that of the i-th request; one more is
\* stored for the body that is to come.
MethodAt(i) == IF asked[i] \in {"EXPECT", "BODY"} THEN "POST" ELSE asked[i]
MethodInv ==
    /\ Len(methods) >= Len(asked)
    /\ \A i \in 1..Len(asked) : methods[i] = MethodAt(i)
    /\ mpc # "failed" => /\ Len(methods) = Len(asked) + (IF OwesBody THEN 1 ELSE 0)
                         /\ OwesBody => methods[Len(methods)] = "POST"

\* The text from the peer: the pieces of the answers, one after the other.
FirstPiece(gen, reqs, i) ==
    [gen |-> gen, item |-> i, part |-> IF reqs[i] = "EXPECT" THEN "head100" ELSE "head200"]
LastPiece(gen, reqs, i) ==
    [gen |-> gen, item |-> i,
     part |-> IF reqs[i] = "EXPECT" THEN "head100"
              ELSE IF reqs[i] = "HEAD" THEN "head200" ELSE "body"]
Following(gen, reqs, p) ==
    IF p = LastPiece(gen, reqs, p.item) THEN FirstPiece(gen, reqs, p.item + 1)
    ELSE LastPiece(gen, reqs, p.item)

\* The text s begins with the answer after the first `from` ones and is part of the
\* first `upto` ones; it has all of these.
Chain(s, gen, reqs, from, upto) ==
    /\ s # <<>> => s[1] = FirstPiece(gen, reqs, from + 1)
    /\ \A j \in 1..Len(s) : s[j].item <= upto
    /\ \A j \in 1..(Len(s) - 1) : s[j + 1] = Following(gen, reqs, s[j])
Complete(s, gen, reqs, from, upto) ==
    IF s = <<>> THEN from = upto ELSE s[Len(s)] = LastPiece(gen, reqs, upto)

\* The responses are the answers to the first requests, and the text under way goes on
\* where they end.
TextInv ==
    clean => /\ ~crashed
             /\ \A i \in 1..Len(responses) : responses[i] = Answer(starts, i, asked[i])
             /\ running => /\ Len(responses) <= answered
                           /\ Chain(response_buffer \o wire, starts, asked, Len(responses), answered)
                           /\ conn \in {"syn", "open"} =>
                                Complete(response_buffer \o wire, starts, asked, Len(responses),
                                         answered)

IndInv == TypeOK /\ LifeInv /\ CountInv /\ QueueInv /\ SentInv /\ MethodInv /\ TextInv

-----------------------------------------------------------------------------
(* Induction on the natural numbers, with a set for the induction hypothesis. *)

\* A set of natural numbers with an element has a least one.
LEMMA LeastElement ==
    ASSUME NEW T, T \subseteq Nat, T # {}
    PROVE  \E n \in T : \A m \in T : n <= m
<1> DEFINE R == {ss \in Nat \X Nat : ss[1] < ss[2]}
<1>1. IsWellFoundedOn(R, Nat) BY NatLessThanWellFounded, Zenon DEF OpToRel
<1> HIDE DEF R
<1>2. PICK n \in T : \A m \in T : ~ (<<m, n>> \in R) BY <1>1, WFMin
<1>3. \A m \in T : ~ (m < n) BY <1>2 DEF R
<1> QED BY <1>3

\* Induction over a set of numbers.
LEMMA Induction ==
    ASSUME NEW T, 0 \in T, \A n \in Nat : n \in T => n + 1 \in T
    PROVE  \A n \in Nat : n \in T
<1> SUFFICES ASSUME Nat \ T # {} PROVE FALSE OBVIOUS
<1>1. PICK n \in Nat \ T : \A m \in Nat \ T : n <= m BY LeastElement
<1>2. n # 0 /\ n - 1 \in Nat OBVIOUS
<1>3. n - 1 \in T BY <1>1, <1>2
<1> QED BY <1>2, <1>3

-----------------------------------------------------------------------------
(* Concatenations. *)

\* A name for \o that the provers do not look into.
Cat(s, t) == s \o t

\* Concatenation is associative.
LEMMA CatAssociative ==
    ASSUME NEW S
    PROVE  \A x, y, z \in Seq(S) : Cat(Cat(x, y), z) = Cat(x, Cat(y, z))
BY ConcatAssociative DEF Cat

\* What is left of a sequence, and its first one or two elements.
LEMMA Rest ==
    ASSUME NEW S, NEW s \in Seq(S), NEW n \in 0..Len(s)
    PROVE  LET r == SubSeq(s, n + 1, Len(s))
           IN  /\ r \in Seq(S) /\ Len(r) = Len(s) - n
               /\ \A j \in 1..Len(r) : r[j] = s[j + n]
<1>1. Len(s) \in Nat /\ \A i \in (n + 1)..Len(s) : s[i] \in S BY LenProperties, ElementOfSeq
<1> QED BY <1>1

\* The first element, the first two elements.
LEMMA FirstOnes ==
    ASSUME NEW S, NEW s \in Seq(S)
    PROVE  /\ Len(s) >= 1 => SubSeq(s, 1, 1) = <<s[1]>>
           /\ Len(s) >= 2 => SubSeq(s, 1, 2) = <<s[1], s[2]>>
<1>0. Len(s) \in Nat /\ \A i \in 1..Len(s) : s[i] \in S BY LenProperties, ElementOfSeq
<1>1. ASSUME Len(s) >= 1 PROVE SubSeq(s, 1, 1) = <<s[1]>>
  <2> DEFINE t == SubSeq(s, 1, 1)
             u == <<s[1]>>
  <2>1. t \in Seq(S) /\ Len(t) = 1 /\ t[1] = s[1] BY <1>0, <1>1
  <2>2. u \in Seq(S) /\ Len(u) = 1 /\ u[1] = s[1] BY <1>0, <1>1
  <2> HIDE DEF t, u
  <2>3. Len(t) = Len(u) /\ \A i \in 1..Len(t) : t[i] = u[i] BY <2>1, <2>2
  <2>4. t = u BY <2>1, <2>2, <2>3, SeqEqual
  <2> QED BY <2>4 DEF t, u
<1>2. ASSUME Len(s) >= 2 PROVE SubSeq(s, 1, 2) = <<s[1], s[2]>>
  <2> DEFINE t == SubSeq(s, 1, 2)
             u == <<s[1], s[2]>>
  <2>1. t \in Seq(S) /\ Len(t) = 2 /\ t[1] = s[1] /\ t[2] = s[2] BY <1>0, <1>2
  <2>2. u \in Seq(S) /\ Len(u) = 2 /\ u[1] = s[1] /\ u[2] = s[2] BY <1>0, <1>2
  <2> HIDE DEF t, u
  <2>3. Len(t) = Len(u) /\ \A i \in 1..Len(t) : t[i] = u[i] BY <2>1, <2>2
  <2>4. t = u BY <2>1, <2>2, <2>3, SeqEqual
  <2> QED BY <2>4 DEF t, u
<1> QED BY <1>1, <1>2
-----------------------------------------------------------------------------
(* Flatten. *)

\* f[i] is what the first i sequences of s come to.
Sums(s, n, f) == f = [i \in 1..n |-> IF i = 1 THEN s[i] ELSE f[i - 1] \o s[i]]

\* A function built by the steps of Flatten is determined element by element.
LEMMA SumsAt ==
    ASSUME NEW s, NEW n \in Nat, n # 0, NEW f, Sums(s, n, f)
    PROVE  f[1] = s[1] /\ \A i \in 2..n : f[i] = f[i - 1] \o s[i]
<1>1. \A i \in 1..n : f[i] = IF i = 1 THEN s[i] ELSE f[i - 1] \o s[i] BY DEF Sums
<1>2. 1 \in 1..n OBVIOUS
<1>3. \A i \in 2..n : i \in 1..n /\ i # 1 OBVIOUS
<1> QED BY <1>1, <1>2, <1>3

\* There is such a function.
LEMMA SumsExist ==
    ASSUME NEW S, NEW s \in Seq(Seq(S))
    PROVE  \A n \in Nat : n <= Len(s) => \E f \in [1..n -> Seq(S)] : Sums(s, n, f)
<1> DEFINE T == {n \in Nat : n <= Len(s) => \E f \in [1..n -> Seq(S)] : Sums(s, n, f)}
<1>1. 0 \in T
  <2> DEFINE f == [i \in 1..0 |-> <<>>]
  <2>1. f \in [1..0 -> Seq(S)] /\ Sums(s, 0, f) BY DEF Sums
  <2> QED BY <2>1
<1>2. ASSUME NEW n \in Nat, n \in T PROVE n + 1 \in T
  <2> SUFFICES ASSUME n + 1 <= Len(s)
               PROVE  \E f \in [1..(n + 1) -> Seq(S)] : Sums(s, n + 1, f)
    OBVIOUS
  <2>1. n <= Len(s) OBVIOUS
  <2>2. PICK g \in [1..n -> Seq(S)] : Sums(s, n, g) BY <1>2, <2>1
  <2> DEFINE e == IF n = 0 THEN s[n + 1] ELSE g[n] \o s[n + 1]
             f == [i \in 1..(n + 1) |-> IF i <= n THEN g[i] ELSE e]
  <2>3. s[n + 1] \in Seq(S) OBVIOUS
  <2>4. e \in Seq(S) BY <2>3
  <2>5. f \in [1..(n + 1) -> Seq(S)]
    <3> HIDE DEF e
    <3> QED BY <2>4
  <2>6. \A i \in 1..(n + 1) : f[i] = IF i = 1 THEN s[i] ELSE f[i - 1] \o s[i]
    <3> TAKE i \in 1..(n + 1)
    <3>1. CASE i <= n
      <4>1. g[i] = IF i = 1 THEN s[i] ELSE g[i - 1] \o s[i]
        <5>0. n # 0 BY <3>1
        <5>1. CASE i = 1 BY <2>2, <5>0, <5>1, SumsAt
        <5>2. CASE i # 1
          <6>1. i \in 2..n BY <3>1, <5>2
          <6> QED BY <2>2, <5>0, <5>2, <6>1, SumsAt
        <5> QED BY <5>1, <5>2
      <4>2. f[i] = g[i] /\ (i # 1 => f[i - 1] = g[i - 1]) BY <3>1
      <4> QED BY <4>1, <4>2
    <3>2. CASE i = n + 1
      <4>1. f[i] = e /\ (i # 1 => f[i - 1] = g[n]) BY <3>2
      <4> QED BY <4>1, <3>2
    <3> QED BY <3>1, <3>2
  <2> HIDE DEF f
  <2>7. Sums(s, n + 1, f) BY <2>5, <2>6 DEF Sums
  <2> QED BY <2>5, <2>7
<1> HIDE DEF T
<1>3. \A n \in Nat : n \in T BY <1>1, <1>2, Induction
<1> QED BY <1>3 DEF T

\* What Flatten computes, step by step.
LEMMA FlattenSteps ==
    ASSUME NEW S, NEW s \in Seq(Seq(S)), Len(s) # 0
    PROVE  \E f \in [1..Len(s) -> Seq(S)] :
              /\ f[1] = s[1]
              /\ \A i \in 2..Len(s) : f[i] = f[i - 1] \o s[i]
              /\ Flatten(s) = f[Len(s)]
<1> DEFINE c == CHOOSE g : g = [i \in 1..Len(s) |-> IF i = 1 THEN s[i] ELSE g[i - 1] \o s[i]]
<1>0. Len(s) \in Nat /\ Len(s) # 0 /\ Len(s) <= Len(s) BY LenProperties
<1>1. PICK f \in [1..Len(s) -> Seq(S)] : Sums(s, Len(s), f) BY <1>0, SumsExist
<1>2. Sums(s, Len(s), c) BY <1>1 DEF Sums
<1>3. Flatten(s) = c[Len(s)]
  <2>1. s # <<>> OBVIOUS
  <2> QED BY <2>1 DEF Flatten
<1> HIDE DEF c
<1>4. c[1] = s[1] /\ \A i \in 2..Len(s) : c[i] = c[i - 1] \o s[i] BY <1>0, <1>2, SumsAt, Zenon
<1>5. f[1] = s[1] /\ \A i \in 2..Len(s) : f[i] = f[i - 1] \o s[i] BY <1>0, <1>1, SumsAt, Zenon
<1>6. c[Len(s)] = f[Len(s)]
  <2> DEFINE T == {n \in Nat : n + 1 <= Len(s) => c[n + 1] = f[n + 1]}
  <2>1. 0 \in T
    <3>1. 0 + 1 = 1 OBVIOUS
    <3> QED BY <1>4, <1>5, <3>1
  <2>2. ASSUME NEW n \in Nat, n \in T PROVE n + 1 \in T
    <3> SUFFICES ASSUME (n + 1) + 1 <= Len(s) PROVE c[(n + 1) + 1] = f[(n + 1) + 1] OBVIOUS
    <3> DEFINE i == (n + 1) + 1
    <3>1. i \in 2..Len(s) /\ i - 1 = n + 1 /\ n + 1 <= Len(s) BY <1>0
    <3>2. c[i - 1] = f[i - 1] BY <2>2, <3>1
    <3> HIDE DEF i, T
    <3>3. c[i] = c[i - 1] \o s[i] /\ f[i] = f[i - 1] \o s[i] BY <1>4, <1>5, <3>1
    <3>4. c[i] = f[i] BY <3>2, <3>3
    <3> QED BY <3>4 DEF i
  <2> HIDE DEF T
  <2>3. \A n \in Nat : n \in T BY <2>1, <2>2, Induction
  <2>4. Len(s) - 1 \in Nat /\ (Len(s) - 1) + 1 = Len(s) /\ Len(s) <= Len(s) BY <1>0
  <2> QED BY <2>3, <2>4 DEF T
<1>7. Flatten(s) = f[Len(s)] BY <1>3, <1>6
<1> QED BY <1>5, <1>7

\* No buffers hold no requests.
LEMMA FlattenEmpty == Flatten(<<>>) = <<>>
BY DEF Flatten

\* The requests of the buffers are requests.
LEMMA FlattenType ==
    ASSUME NEW S, NEW s \in Seq(Seq(S)) PROVE Flatten(s) \in Seq(S)
<1>0. Len(s) \in Nat BY LenProperties
<1>1. CASE Len(s) = 0
  <2>1. s = <<>> BY <1>1
  <2>2. <<>> \in Seq(S) OBVIOUS
  <2> QED BY <2>1, <2>2, FlattenEmpty
<1>2. CASE Len(s) # 0
  <2>1. PICK f \in [1..Len(s) -> Seq(S)] : Flatten(s) = f[Len(s)] BY <1>2, FlattenSteps
  <2>2. Len(s) \in 1..Len(s) BY <1>0, <1>2
  <2> QED BY <2>1, <2>2
<1> QED BY <1>1, <1>2

\* One sequence, two sequences.
LEMMA FlattenOne ==
    ASSUME NEW S, NEW s \in Seq(Seq(S)), Len(s) = 1 PROVE Flatten(s) = s[1]
<1>1. Len(s) # 0 OBVIOUS
<1>2. PICK f : f[1] = s[1] /\ Flatten(s) = f[Len(s)] BY <1>1, FlattenSteps
<1> QED BY <1>2

\* Two buffers, one after the other.
LEMMA FlattenTwo ==
    ASSUME NEW S, NEW s \in Seq(Seq(S)), Len(s) = 2 PROVE Flatten(s) = s[1] \o s[2]
<1>1. Len(s) # 0 /\ 2 \in 2..2 /\ 2 - 1 = 1 OBVIOUS
<1>2. PICK f : /\ f[1] = s[1]
               /\ \A i \in 2..Len(s) : f[i] = f[i - 1] \o s[i]
               /\ Flatten(s) = f[Len(s)]
  BY <1>1, FlattenSteps
<1> QED BY <1>1, <1>2

\* The last sequence is the end of it all.
LEMMA FlattenLast ==
    ASSUME NEW S, NEW s \in Seq(Seq(S)), Len(s) # 0
    PROVE  \E x \in Seq(S) : Flatten(s) = x \o s[Len(s)]
<1>1. PICK f \in [1..Len(s) -> Seq(S)] :
           /\ f[1] = s[1]
           /\ \A i \in 2..Len(s) : f[i] = f[i - 1] \o s[i]
           /\ Flatten(s) = f[Len(s)]
  BY FlattenSteps
<1>2. CASE Len(s) = 1
  <2>1. s[1] \in Seq(S) /\ <<>> \in Seq(S) BY <1>2
  <2>2. Flatten(s) = <<>> \o s[Len(s)] BY <1>1, <1>2, <2>1, ConcatEmptySeq
  <2> QED BY <2>1, <2>2
<1>3. CASE Len(s) # 1
  <2>0. Len(s) \in Nat BY LenProperties
  <2>1. \A n \in Nat : n # 0 /\ n # 1 => n \in 2..n /\ n - 1 \in 1..n OBVIOUS
  <2>2. Len(s) \in 2..Len(s) /\ Len(s) - 1 \in 1..Len(s) BY <1>3, <2>0, <2>1, Zenon
  <2> QED BY <1>1, <2>2
<1> QED BY <1>2, <1>3

\* _add_to_request_buffers adds its requests to the end of all that is buffered.
LEMMA FlattenAppend ==
    ASSUME NEW S, NEW s \in Seq(Seq(S)), NEW a \in Seq(S)
    PROVE  Flatten(Append(s, a)) = Flatten(s) \o a
<1> DEFINE t == Append(s, a)
<1>1. t \in Seq(Seq(S)) /\ Len(t) = Len(s) + 1 /\ t[Len(t)] = a
      /\ \A i \in 1..Len(s) : t[i] = s[i]
  OBVIOUS
<1> HIDE DEF t
<1>2. CASE Len(s) = 0
  <2>1. s = <<>> /\ Flatten(s) = <<>> BY <1>2, FlattenEmpty
  <2>2. Flatten(t) = a BY <1>1, <1>2, FlattenOne
  <2>3. <<>> \o a = a BY ConcatEmptySeq
  <2> QED BY <2>1, <2>2, <2>3 DEF t
<1>3. CASE Len(s) # 0
  <2>1. PICK f \in [1..Len(s) -> Seq(S)] :
             /\ f[1] = s[1]
             /\ \A i \in 2..Len(s) : f[i] = f[i - 1] \o s[i]
             /\ Flatten(s) = f[Len(s)]
    BY <1>3, FlattenSteps
  <2>2. PICK g \in [1..Len(t) -> Seq(S)] :
             /\ g[1] = t[1]
             /\ \A i \in 2..Len(t) : g[i] = g[i - 1] \o t[i]
             /\ Flatten(t) = g[Len(t)]
    <3>1. Len(t) # 0 BY <1>1, LenProperties
    <3> QED BY <1>1, <3>1, FlattenSteps
  <2> DEFINE T == {n \in Nat : n + 1 <= Len(s) => g[n + 1] = f[n + 1]}
  <2>3. 0 \in T BY <1>1, <1>3, <2>1, <2>2
  <2>4. ASSUME NEW n \in Nat, n \in T PROVE n + 1 \in T
    <3> SUFFICES ASSUME (n + 1) + 1 <= Len(s) PROVE g[(n + 1) + 1] = f[(n + 1) + 1] OBVIOUS
    <3> DEFINE i == (n + 1) + 1
    <3>1. i \in 2..Len(s) /\ i \in 2..Len(t) /\ i \in 1..Len(s) /\ i - 1 = n + 1 /\ n + 1 <= Len(s)
      BY <1>1
    <3>2. g[i - 1] = f[i - 1] BY <2>4, <3>1
    <3> HIDE DEF i
    <3> QED BY <1>1, <2>1, <2>2, <3>1, <3>2 DEF i
  <2> HIDE DEF T
  <2>5. \A n \in Nat : n \in T BY <2>3, <2>4, Induction
  <2>6. Len(s) - 1 \in Nat /\ (Len(s) - 1) + 1 = Len(s) /\ Len(s) <= Len(s) BY <1>3
  <2>7. g[Len(s)] = f[Len(s)] BY <2>5, <2>6 DEF T
  <2>8. Len(t) \in 2..Len(t) /\ Len(t) - 1 = Len(s) BY <1>1, <1>3
  <2>9. g[Len(t)] = g[Len(s)] \o a BY <1>1, <2>2, <2>8
  <2> QED BY <2>1, <2>2, <2>7, <2>9 DEF t
<1> QED BY <1>2, <1>3

\* _send_data takes n requests off the first buffer that is not empty: they are the
\* first of all that is buffered.
LEMMA FlattenTake ==
    ASSUME NEW S, NEW s \in Seq(Seq(S)), NEW k \in 1..Len(s),
           \A i \in 1..(k - 1) : s[i] = <<>>, NEW n \in 1..Len(s[k])
    PROVE  Flatten(s) = SubSeq(s[k], 1, n)
                             \o Flatten([s EXCEPT ![k] = SubSeq(s[k], n + 1, Len(s[k]))])
<1> DEFINE p == SubSeq(s[k], 1, n)
           q == SubSeq(s[k], n + 1, Len(s[k]))
           t == [s EXCEPT ![k] = q]
<1>0. Len(s) \in Nat /\ Len(s) # 0 BY LenProperties
<1>1. s[k] \in Seq(S) BY ElementOfSeq
<1>2. p \in Seq(S) /\ q \in Seq(S) BY <1>1
<1>3. s[k] = p \o q
  <2>1. SubSeq(s[k], 1, Len(s[k])) = s[k] BY <1>1, SubSeqFull
  <2>2. 1 \in 1..(Len(s[k]) + 1) /\ n \in 0..Len(s[k]) /\ Len(s[k]) \in n..Len(s[k])
    BY <1>1
  <2> QED BY <1>1, <2>1, <2>2, ConcatAdjacentSubSeq
<1> HIDE DEF p, q
<1>4. t \in Seq(Seq(S)) /\ Len(t) = Len(s) /\ t[k] = q
      /\ \A i \in 1..Len(s) : i # k => t[i] = s[i]
  BY <1>2, ExceptSeq
<1> HIDE DEF t
<1>5. PICK f \in [1..Len(s) -> Seq(S)] :
           /\ f[1] = s[1]
           /\ \A i \in 2..Len(s) : f[i] = f[i - 1] \o s[i]
           /\ Flatten(s) = f[Len(s)]
  BY <1>0, FlattenSteps
<1>6. PICK g \in [1..Len(s) -> Seq(S)] :
           /\ g[1] = t[1]
           /\ \A i \in 2..Len(s) : g[i] = g[i - 1] \o t[i]
           /\ Flatten(t) = g[Len(s)]
  <2>1. PICK g \in [1..Len(t) -> Seq(S)] :
             /\ g[1] = t[1]
             /\ \A i \in 2..Len(t) : g[i] = g[i - 1] \o t[i]
             /\ Flatten(t) = g[Len(t)]
    BY <1>0, <1>4, FlattenSteps
  <2> QED BY <1>4, <2>1
<1>7. IF 1 < k THEN f[1] = <<>> /\ g[1] = <<>> ELSE f[1] = p \o g[1]
  <2>1. CASE 1 < k
    <3>1. 1 \in 1..(k - 1) /\ 1 \in 1..Len(s) /\ 1 # k BY <1>0, <2>1
    <3>2. s[1] = <<>> BY <3>1
    <3>3. t[1] = <<>> BY <1>4, <3>1, <3>2
    <3> QED BY <2>1, <3>2, <3>3, <1>5, <1>6
  <2>2. CASE ~(1 < k)
    <3>1. k = 1 BY <1>0, <2>2
    <3> QED BY <2>2, <3>1, <1>3, <1>4, <1>5, <1>6
  <2> QED BY <2>1, <2>2
<1>8. ASSUME NEW i \in 2..Len(s),
             IF i - 1 < k THEN f[i - 1] = <<>> /\ g[i - 1] = <<>> ELSE f[i - 1] = p \o g[i - 1]
      PROVE  IF i < k THEN f[i] = <<>> /\ g[i] = <<>> ELSE f[i] = p \o g[i]
  <2>1. i \in 1..Len(s) /\ i - 1 \in 1..Len(s) /\ i \in Int /\ k \in Int BY <1>0
  <2>2. f[i] = f[i - 1] \o s[i] /\ g[i] = g[i - 1] \o t[i] BY <1>5, <1>6
  <2>3. /\ g[i - 1] \in Seq(S) /\ t[i] \in Seq(S)
    BY <1>4, <2>1, ElementOfSeq
  <2>4. i # k => t[i] = s[i] BY <1>4, <2>1
  <2>5. CASE i < k
    <3>1. i \in 1..(k - 1) /\ i # k /\ i - 1 < k BY <2>1, <2>5
    <3>2. s[i] = <<>> BY <3>1
    <3>3. t[i] = <<>> BY <2>4, <3>1, <3>2
    <3>4. f[i - 1] = <<>> /\ g[i - 1] = <<>> BY <1>8, <3>1
    <3>5. <<>> \o <<>> = <<>> OBVIOUS
    <3> QED BY <2>2, <2>5, <3>2, <3>3, <3>4, <3>5
  <2>6. CASE i = k
    <3>1. ~(i < k) /\ i - 1 < k BY <2>1, <2>6
    <3>2. f[i - 1] = <<>> /\ g[i - 1] = <<>> BY <1>8, <3>1
    <3>3. s[i] = p \o q /\ t[i] = q BY <1>3, <1>4, <2>6
    <3>4. p \o q \in Seq(S) BY <1>2
    <3>5. <<>> \o (p \o q) = p \o q /\ <<>> \o q = q BY <1>2, <3>4, ConcatEmptySeq
    <3> QED BY <2>2, <3>1, <3>2, <3>3, <3>5
  <2>7. CASE i > k
    <3>1. ~(i < k) /\ ~(i - 1 < k) /\ i # k BY <2>1, <2>7
    <3>2. f[i - 1] = p \o g[i - 1] BY <1>8, <3>1
    <3>3. Cat(Cat(p, g[i - 1]), t[i]) = Cat(p, Cat(g[i - 1], t[i]))
      BY <1>2, <2>3, CatAssociative
    <3> QED BY <2>2, <2>4, <3>1, <3>2, <3>3 DEF Cat
  <2>8. i < k \/ i = k \/ i > k BY <2>1
  <2> QED BY <2>5, <2>6, <2>7, <2>8
<1>9. f[Len(s)] = p \o g[Len(s)]
  <2> DEFINE Q(i) == IF i < k THEN f[i] = <<>> /\ g[i] = <<>> ELSE f[i] = p \o g[i]
             T == {m \in Nat : m + 1 <= Len(s) => Q(m + 1)}
  <2>1. 0 \in T
    <3>1. 0 + 1 = 1 OBVIOUS
    <3> QED BY <1>7, <3>1
  <2>2. ASSUME NEW m \in Nat, m \in T PROVE m + 1 \in T
    <3> SUFFICES ASSUME (m + 1) + 1 <= Len(s) PROVE Q((m + 1) + 1) OBVIOUS
    <3>1. /\ (m + 1) + 1 \in 2..Len(s) /\ ((m + 1) + 1) - 1 = m + 1 /\ m + 1 <= Len(s)
      BY <1>0
    <3>2. Q(m + 1) BY <2>2, <3>1
    <3>3. \A i \in 2..Len(s) : Q(i - 1) => Q(i) BY <1>8
    <3> HIDE DEF Q
    <3> QED BY <3>1, <3>2, <3>3
  <2> HIDE DEF T
  <2>3. \A m \in Nat : m \in T BY <2>1, <2>2, Induction
  <2>4. Len(s) - 1 \in Nat /\ (Len(s) - 1) + 1 = Len(s) /\ Len(s) <= Len(s) /\ ~(Len(s) < k)
    BY <1>0
  <2>5. Q(Len(s)) BY <2>3, <2>4 DEF T
  <2> QED BY <2>4, <2>5
<1> QED BY <1>5, <1>6, <1>9 DEF p, q, t

-----------------------------------------------------------------------------
(* The text from the peer. *)

Single(item) == item \in {"EXPECT", "HEAD"}

\* What the first and the last piece of an answer say.
LEMMA PieceFields ==
    ASSUME NEW gen, NEW reqs, NEW i \in Nat
    PROVE  /\ FirstPiece(gen, reqs, i).item = i /\ LastPiece(gen, reqs, i).item = i
           /\ FirstPiece(gen, reqs, i).part
                = (IF reqs[i] = "EXPECT" THEN "head100" ELSE "head200")
           /\ (FirstPiece(gen, reqs, i) = LastPiece(gen, reqs, i)) <=> Single(reqs[i])
BY DEF FirstPiece, LastPiece, Single

\* An answer is its first piece, or its first and its last one.
LEMMA AnswerPieces ==
    ASSUME NEW gen, NEW reqs, NEW i \in Nat
    PROVE  Answer(gen, i, reqs[i]) =
             IF Single(reqs[i]) THEN <<FirstPiece(gen, reqs, i)>>
             ELSE <<FirstPiece(gen, reqs, i), LastPiece(gen, reqs, i)>>
<1>1. CASE reqs[i] = "EXPECT" BY <1>1 DEF Answer, FirstPiece, LastPiece, Single
<1>2. CASE reqs[i] = "HEAD" BY <1>2 DEF Answer, FirstPiece, LastPiece, Single
<1>3. CASE ~Single(reqs[i]) BY <1>3 DEF Answer, FirstPiece, LastPiece, Single
<1> QED BY <1>1, <1>2, <1>3 DEF Single

\* The pieces of an answer have their type.
LEMMA PieceTypes ==
    ASSUME NEW gen \in 1..MaxStarts, NEW reqs, NEW i \in 1..MaxItems
    PROVE  FirstPiece(gen, reqs, i) \in Piece /\ LastPiece(gen, reqs, i) \in Piece
BY DEF FirstPiece, LastPiece, Piece, Part

\* After the last piece of an answer comes the first one of the next.
LEMMA FollowLast ==
    ASSUME NEW gen, NEW reqs, NEW i \in Nat
    PROVE  Following(gen, reqs, LastPiece(gen, reqs, i)) = FirstPiece(gen, reqs, i + 1)
BY PieceFields DEF Following

\* Between the first piece and the last one there is nothing.
LEMMA FollowFirst ==
    ASSUME NEW gen, NEW reqs, NEW i \in Nat, ~Single(reqs[i])
    PROVE  Following(gen, reqs, FirstPiece(gen, reqs, i)) = LastPiece(gen, reqs, i)
BY PieceFields DEF Following

\* An earlier part of the text.
LEMMA ChainPrefix ==
    ASSUME NEW S, NEW s \in Seq(S), NEW t \in Seq(S), NEW gen, NEW reqs, NEW from, NEW upto,
           Chain(s \o t, gen, reqs, from, upto)
    PROVE  Chain(s, gen, reqs, from, upto)
<1> DEFINE u == s \o t
<1>1. /\ u \in Seq(S) /\ Len(u) = Len(s) + Len(t) /\ Len(s) \in Nat /\ Len(t) \in Nat
      /\ \A j \in 1..Len(s) : u[j] = s[j]
  OBVIOUS
<1> HIDE DEF u
<1>2. /\ u # <<>> => u[1] = FirstPiece(gen, reqs, from + 1)
      /\ \A j \in 1..Len(u) : u[j].item <= upto
      /\ \A j \in 1..(Len(u) - 1) : u[j + 1] = Following(gen, reqs, u[j])
  BY DEF Chain, u
<1>3. s # <<>> => s[1] = FirstPiece(gen, reqs, from + 1)
  <2> SUFFICES ASSUME s # <<>> PROVE s[1] = FirstPiece(gen, reqs, from + 1) OBVIOUS
  <2>1. Len(s) # 0 BY EmptySeq
  <2>2. u # <<>> /\ 1 \in 1..Len(s) BY <1>1, <2>1
  <2> QED BY <1>1, <1>2, <2>2
<1>4. \A j \in 1..Len(s) : s[j].item <= upto
  <2> TAKE j \in 1..Len(s)
  <2>1. j \in 1..Len(u) /\ u[j] = s[j] BY <1>1
  <2> QED BY <1>2, <2>1
<1>5. \A j \in 1..(Len(s) - 1) : s[j + 1] = Following(gen, reqs, s[j])
  <2> TAKE j \in 1..(Len(s) - 1)
  <2>1. j \in 1..(Len(u) - 1) /\ j \in 1..Len(s) /\ j + 1 \in 1..Len(s) BY <1>1
  <2>2. u[j] = s[j] /\ u[j + 1] = s[j + 1] BY <1>1, <2>1
  <2> QED BY <1>2, <2>1, <2>2
<1> QED BY <1>3, <1>4, <1>5 DEF Chain

\* More requests change nothing in the text for the earlier ones.
LEMMA ChainMore ==
    ASSUME NEW s \in Seq(Piece), NEW gen, NEW reqs, NEW more, NEW from \in Nat, NEW upto \in Nat,
           \A i \in 1..upto : more[i] = reqs[i],
           Chain(s, gen, reqs, from, upto)
    PROVE  /\ Chain(s, gen, more, from, upto)
           /\ Complete(s, gen, reqs, from, upto) => Complete(s, gen, more, from, upto)
<1>1. \A i \in 1..upto : /\ FirstPiece(gen, more, i) = FirstPiece(gen, reqs, i)
                         /\ LastPiece(gen, more, i) = LastPiece(gen, reqs, i)
  BY DEF FirstPiece, LastPiece
<1>2. \A j \in 1..Len(s) : s[j].item \in 1..upto
  <2> TAKE j \in 1..Len(s)
  <2>1. s[j] \in Piece BY ElementOfSeq
  <2>2. s[j].item \in Nat /\ s[j].item >= 1 BY <2>1 DEF Piece
  <2>3. s[j].item <= upto BY DEF Chain
  <2> QED BY <2>2, <2>3
<1>0. Len(s) \in Nat /\ (s # <<>> => Len(s) # 0) BY EmptySeq, LenProperties
<1>3. s # <<>> => s[1] = FirstPiece(gen, more, from + 1)
  <2> SUFFICES ASSUME s # <<>> PROVE s[1] = FirstPiece(gen, more, from + 1) OBVIOUS
  <2>1. s[1] = FirstPiece(gen, reqs, from + 1) BY DEF Chain
  <2>2. s[1].item = from + 1 BY <2>1, PieceFields
  <2>3. 1 \in 1..Len(s) BY <1>0
  <2>4. from + 1 \in 1..upto BY <1>2, <2>2, <2>3
  <2> QED BY <1>1, <2>1, <2>4
<1>4. \A j \in 1..(Len(s) - 1) : s[j + 1] = Following(gen, more, s[j])
  <2> TAKE j \in 1..(Len(s) - 1)
  <2>1. j \in 1..Len(s) /\ j + 1 \in 1..Len(s) BY <1>0
  <2> DEFINE i == s[j].item
  <2>2. i \in 1..upto /\ i \in Nat BY <1>2, <2>1
  <2>3. s[j + 1] = Following(gen, reqs, s[j]) BY DEF Chain
  <2>4. LastPiece(gen, more, i) = LastPiece(gen, reqs, i) BY <1>1, <2>2
  <2>5. CASE s[j] = LastPiece(gen, reqs, i)
    <3>1. s[j + 1] = FirstPiece(gen, reqs, i + 1) BY <2>3, <2>5 DEF Following
    <3>2. s[j + 1].item = i + 1
      <4> HIDE DEF i
      <4> QED BY <2>2, <3>1, PieceFields
    <3>3. i + 1 \in 1..upto BY <1>2, <2>1, <3>2
    <3>4. FirstPiece(gen, more, i + 1) = FirstPiece(gen, reqs, i + 1) BY <1>1, <3>3
    <3> QED BY <2>4, <2>5, <3>1, <3>4 DEF Following
  <2>6. CASE s[j] # LastPiece(gen, reqs, i)
    BY <2>3, <2>4, <2>6 DEF Following
  <2> QED BY <2>5, <2>6
<1>5. Chain(s, gen, more, from, upto) BY <1>3, <1>4 DEF Chain
<1>6. ASSUME Complete(s, gen, reqs, from, upto), s # <<>>
      PROVE  s[Len(s)] = LastPiece(gen, more, upto)
  <2>1. s[Len(s)] = LastPiece(gen, reqs, upto) BY <1>6 DEF Complete
  <2>2. s[Len(s)].item = upto BY <2>1, PieceFields
  <2>3. Len(s) \in 1..Len(s) BY <1>0, <1>6
  <2>4. upto \in 1..upto BY <1>2, <2>2, <2>3
  <2> QED BY <1>1, <2>1, <2>4
<1>7. Complete(s, gen, reqs, from, upto) => Complete(s, gen, more, from, upto)
  BY <1>6 DEF Complete
<1> QED BY <1>5, <1>7

\* A name for what is left of a sequence, and for its beginning.
Begin(s, n) == SubSeq(s, 1, n)
Left(s, n) == SubSeq(s, n + 1, Len(s))

\* The next answer is read off the text: the rest goes on with the one after it.
LEMMA ChainDrop ==
    ASSUME NEW gen, NEW reqs
    PROVE  \A s \in Seq(Piece) : \A from, upto \in Nat : \A n \in 1..2 :
             (/\ Chain(s, gen, reqs, from, upto) /\ s # <<>> /\ n <= Len(s)
              /\ n = (IF Single(reqs[from + 1]) THEN 1 ELSE 2))
             => /\ from + 1 <= upto
                /\ Begin(s, n) = Answer(gen, from + 1, reqs[from + 1])
                /\ Chain(Left(s, n), gen, reqs, from + 1, upto)
                /\ Complete(s, gen, reqs, from, upto)
                     => Complete(Left(s, n), gen, reqs, from + 1, upto)
<1> TAKE s \in Seq(Piece)
<1> TAKE from, upto \in Nat
<1> TAKE n \in 1..2
<1> SUFFICES ASSUME Chain(s, gen, reqs, from, upto), s # <<>>, n <= Len(s),
                    n = (IF Single(reqs[from + 1]) THEN 1 ELSE 2)
             PROVE  /\ from + 1 <= upto
                    /\ Begin(s, n) = Answer(gen, from + 1, reqs[from + 1])
                    /\ Chain(Left(s, n), gen, reqs, from + 1, upto)
                    /\ Complete(s, gen, reqs, from, upto)
                         => Complete(Left(s, n), gen, reqs, from + 1, upto)
  OBVIOUS
<1> DEFINE i == from + 1
           r == SubSeq(s, n + 1, Len(s))
<1>0. /\ Len(s) \in Nat /\ 1 \in 1..Len(s) /\ n \in 1..Len(s) /\ i \in Nat
  BY LenProperties
<1>1. /\ r \in Seq(Piece) /\ Len(r) = Len(s) - n
      /\ Len(r) \in Nat /\ \A j \in 1..Len(r) : r[j] = s[j + n]
  <2>1. n \in 0..Len(s) BY <1>0
  <2>2. r \in Seq(Piece) /\ Len(r) = Len(s) - n /\ \A j \in 1..Len(r) : r[j] = s[j + n]
    BY <2>1, Rest
  <2> HIDE DEF r
  <2>3. Len(r) \in Nat BY <2>2, LenProperties
  <2> QED BY <2>2, <2>3
<1> HIDE DEF r, i
<1>2. /\ s[1] = FirstPiece(gen, reqs, i)
      /\ \A j \in 1..Len(s) : s[j].item <= upto
      /\ \A j \in 1..(Len(s) - 1) : s[j + 1] = Following(gen, reqs, s[j])
  BY DEF Chain, i
<1>3. i <= upto
  <2>1. s[1].item = i BY <1>0, <1>2, PieceFields
  <2> QED BY <1>0, <1>2, <2>1
<1>4. s[n] = LastPiece(gen, reqs, i) /\ SubSeq(s, 1, n) = Answer(gen, i, reqs[i])
  <2>1. CASE Single(reqs[i])
    <3>1. n = 1 BY <2>1 DEF i
    <3>2. s[1] = LastPiece(gen, reqs, i) BY <1>0, <1>2, <2>1, PieceFields
    <3>3. SubSeq(s, 1, 1) = <<s[1]>> BY <1>0, FirstOnes
    <3> QED BY <1>0, <1>2, <2>1, <3>1, <3>2, <3>3, AnswerPieces
  <2>2. CASE ~Single(reqs[i])
    <3>1. n = 2 BY <2>2 DEF i
    <3>2. 1 \in 1..(Len(s) - 1) /\ 1 + 1 = 2 BY <1>0, <3>1
    <3>3. s[2] = Following(gen, reqs, s[1]) BY <1>2, <3>2
    <3>4. s[2] = LastPiece(gen, reqs, i) BY <1>0, <1>2, <2>2, <3>3, FollowFirst
    <3>5. SubSeq(s, 1, 2) = <<s[1], s[2]>>
      <4>1. Len(s) >= 2 BY <1>0, <3>1
      <4> QED BY <4>1, FirstOnes
    <3> QED BY <1>0, <1>2, <2>2, <3>1, <3>4, <3>5, AnswerPieces
  <2> QED BY <2>1, <2>2
<1>5. r # <<>> => r[1] = FirstPiece(gen, reqs, i + 1)
  <2> SUFFICES ASSUME r # <<>> PROVE r[1] = FirstPiece(gen, reqs, i + 1) OBVIOUS
  <2>1. Len(r) # 0 BY <1>1, EmptySeq
  <2>2. n \in 1..(Len(s) - 1) /\ 1 \in 1..Len(r) /\ 1 + n = n + 1 BY <1>0, <1>1, <2>1
  <2>3. r[1] = s[n + 1] BY <1>1, <2>2
  <2>4. s[n + 1] = Following(gen, reqs, s[n]) BY <1>2, <2>2
  <2> QED BY <1>0, <1>4, <2>3, <2>4, FollowLast
<1>6. \A j \in 1..Len(r) : r[j].item <= upto
  <2> TAKE j \in 1..Len(r)
  <2>1. j + n \in 1..Len(s) BY <1>0, <1>1
  <2> QED BY <1>1, <1>2, <2>1
<1>7. \A j \in 1..(Len(r) - 1) : r[j + 1] = Following(gen, reqs, r[j])
  <2> TAKE j \in 1..(Len(r) - 1)
  <2>1. /\ j + n \in 1..(Len(s) - 1) /\ (j + n) + 1 = (j + 1) + n
        /\ j \in 1..Len(r) /\ j + 1 \in 1..Len(r)
    BY <1>0, <1>1
  <2>2. r[j] = s[j + n] /\ r[j + 1] = s[(j + 1) + n] BY <1>1, <2>1
  <2>3. s[(j + n) + 1] = Following(gen, reqs, s[j + n]) BY <1>2, <2>1
  <2> QED BY <2>1, <2>2, <2>3
<1>8. ASSUME Complete(s, gen, reqs, from, upto) PROVE Complete(r, gen, reqs, i, upto)
  <2>1. s[Len(s)] = LastPiece(gen, reqs, upto) BY <1>8 DEF Complete
  <2>2. CASE r = <<>>
    <3>1. n = Len(s) BY <1>0, <1>1, <2>2
    <3>2. LastPiece(gen, reqs, i) = LastPiece(gen, reqs, upto) BY <1>4, <2>1, <3>1
    <3>3. i = upto BY <1>0, <3>2, PieceFields
    <3> QED BY <2>2, <3>3 DEF Complete
  <2>3. CASE r # <<>>
    <3>1. Len(r) # 0 BY <1>1, <2>3, EmptySeq
    <3>2. Len(r) \in 1..Len(r) /\ Len(r) + n = Len(s)
      <4>1. \A x, y, z \in Nat : x # 0 /\ x = y - z => x \in 1..x /\ x + z = y OBVIOUS
      <4>2. n \in Nat /\ Len(s) \in Nat BY <1>0
      <4>3. Len(r) \in Nat BY <1>1
      <4>4. Len(r) = Len(s) - n BY <1>1
      <4> QED BY <3>1, <4>1, <4>2, <4>3, <4>4, Zenon
    <3>3. r[Len(r)] = s[Len(s)] BY <1>1, <3>2
    <3> QED BY <2>1, <2>3, <3>3 DEF Complete
  <2> QED BY <2>2, <2>3
<1> QED BY <1>3, <1>4, <1>5, <1>6, <1>7, <1>8 DEF Chain, r, i, Begin, Left

\* The peer answers one more request.
LEMMA ChainAdd ==
    ASSUME NEW s \in Seq(Piece), NEW gen \in 1..MaxStarts, NEW reqs, NEW from \in Nat,
           NEW upto \in Nat, upto + 1 <= MaxItems, from <= upto,
           Chain(s, gen, reqs, from, upto), Complete(s, gen, reqs, from, upto)
    PROVE  /\ Chain(s \o Answer(gen, upto + 1, reqs[upto + 1]), gen, reqs, from, upto + 1)
           /\ Complete(s \o Answer(gen, upto + 1, reqs[upto + 1]), gen, reqs, from, upto + 1)
<1> DEFINE k == upto + 1
           a == Answer(gen, k, reqs[k])
           u == s \o a
<1>1. /\ a = IF Single(reqs[k]) THEN <<FirstPiece(gen, reqs, k)>>
             ELSE <<FirstPiece(gen, reqs, k), LastPiece(gen, reqs, k)>>
      /\ FirstPiece(gen, reqs, k) \in Piece /\ LastPiece(gen, reqs, k) \in Piece
      /\ k \in Nat
  <2>1. k \in Nat /\ k \in 1..MaxItems BY BoundsAssumption
  <2> HIDE DEF k
  <2> QED BY <2>1, AnswerPieces, PieceTypes
<1> HIDE DEF k, a
<1>2. /\ a \in Seq(Piece) /\ Len(a) \in 1..2
      /\ a[1] = FirstPiece(gen, reqs, k) /\ a[Len(a)] = LastPiece(gen, reqs, k)
      /\ Len(a) = 2 => a[2] = Following(gen, reqs, a[1])
  <2>1. CASE Single(reqs[k]) BY <1>1, <2>1, PieceFields
  <2>2. CASE ~Single(reqs[k])
    <3>1. a = <<FirstPiece(gen, reqs, k), LastPiece(gen, reqs, k)>> BY <1>1, <2>2
    <3>2. Following(gen, reqs, FirstPiece(gen, reqs, k)) = LastPiece(gen, reqs, k)
      BY <1>1, <2>2, FollowFirst
    <3> QED BY <1>1, <3>1, <3>2
  <2> QED BY <2>1, <2>2
<1>3. \A j \in 1..Len(a) : a[j].item = k
  <2>1. FirstPiece(gen, reqs, k).item = k /\ LastPiece(gen, reqs, k).item = k
    BY <1>1, PieceFields
  <2> QED BY <1>2, <2>1
<1>4. /\ u \in Seq(Piece) /\ Len(u) = Len(s) + Len(a) /\ Len(s) \in Nat
      /\ \A j \in 1..Len(s) : u[j] = s[j]
      /\ \A j \in 1..Len(a) : u[Len(s) + j] = a[j]
  BY <1>2
<1> HIDE DEF u
<1>5. /\ s # <<>> => s[1] = FirstPiece(gen, reqs, from + 1)
      /\ \A j \in 1..Len(s) : s[j].item <= upto
      /\ \A j \in 1..(Len(s) - 1) : s[j + 1] = Following(gen, reqs, s[j])
  BY DEF Chain
<1>6. s = <<>> <=> Len(s) = 0 BY EmptySeq
<1>7. u[1] = FirstPiece(gen, reqs, from + 1)
  <2>1. CASE s = <<>>
    <3>1. from + 1 = k /\ Len(s) = 0 /\ 1 \in 1..Len(a) /\ Len(s) + 1 = 1
      BY <1>2, <1>6, <2>1 DEF Complete, k
    <3>2. u[1] = a[1] BY <1>4, <3>1
    <3> QED BY <1>2, <3>1, <3>2
  <2>2. CASE s # <<>>
    <3>1. 1 \in 1..Len(s) BY <1>4, <1>6, <2>2
    <3> QED BY <1>4, <1>5, <2>2, <3>1
  <2> QED BY <2>1, <2>2
<1>8. \A j \in 1..Len(u) : u[j].item <= k
  <2> TAKE j \in 1..Len(u)
  <2>1. CASE j <= Len(s)
    <3>1. j \in 1..Len(s) BY <2>1
    <3>2. s[j] \in Piece BY <3>1, ElementOfSeq
    <3>3. s[j].item \in Nat BY <3>2 DEF Piece
    <3>4. s[j].item <= upto BY <1>5, <3>1
    <3> QED BY <1>4, <3>1, <3>3, <3>4 DEF k
  <2>2. CASE ~(j <= Len(s))
    <3>1. j - Len(s) \in 1..Len(a) /\ Len(s) + (j - Len(s)) = j BY <1>2, <1>4, <2>2
    <3>2. u[j] = a[j - Len(s)] BY <1>4, <3>1
    <3> QED BY <1>1, <1>3, <3>1, <3>2
  <2> QED BY <2>1, <2>2
<1>9. \A j \in 1..(Len(u) - 1) : u[j + 1] = Following(gen, reqs, u[j])
  <2> TAKE j \in 1..(Len(u) - 1)
  <2>1. CASE j < Len(s)
    <3>1. j \in 1..(Len(s) - 1) /\ j \in 1..Len(s) /\ j + 1 \in 1..Len(s) BY <1>4, <2>1
    <3>2. u[j] = s[j] /\ u[j + 1] = s[j + 1] BY <1>4, <3>1
    <3> QED BY <1>5, <3>1, <3>2
  <2>2. CASE j = Len(s)
    <3>1. j \in 1..Len(s) /\ 1 \in 1..Len(a) /\ s # <<>> BY <1>2, <1>4, <1>6, <2>2
    <3>2. u[j] = s[Len(s)] /\ u[j + 1] = a[1] BY <1>4, <2>2, <3>1
    <3>3. s[Len(s)] = LastPiece(gen, reqs, upto) BY <3>1 DEF Complete
    <3> QED BY <1>2, <3>2, <3>3, FollowLast DEF k
  <2>3. CASE j > Len(s)
    <3>1. Len(a) = 2 /\ j = Len(s) + 1 /\ j + 1 = Len(s) + 2 BY <1>2, <1>4, <2>3
    <3>2. 1 \in 1..Len(a) /\ 2 \in 1..Len(a) BY <3>1
    <3>3. u[j] = a[1] /\ u[j + 1] = a[2] BY <1>4, <3>1, <3>2
    <3> QED BY <1>2, <3>1, <3>3
  <2> QED BY <1>4, <2>1, <2>2, <2>3
<1>10. Complete(u, gen, reqs, from, k)
  <2>1. Len(a) \in 1..Len(a) /\ Len(u) # 0 BY <1>2, <1>4
  <2>2. u # <<>> BY <1>4, <2>1
  <2>3. u[Len(u)] = a[Len(a)] BY <1>4, <2>1
  <2> QED BY <1>2, <2>2, <2>3 DEF Complete
<1> QED BY <1>7, <1>8, <1>9, <1>10 DEF Chain, u, a, k

-----------------------------------------------------------------------------
(* Facts that several actions need. *)

\* What two sequences put together are, position by position.
LEMMA Parts ==
    ASSUME NEW S, NEW x \in Seq(S), NEW y \in Seq(S)
    PROVE  /\ x \o y \in Seq(S) /\ Len(x \o y) = Len(x) + Len(y)
           /\ Len(x) \in Nat /\ Len(y) \in Nat
           /\ \A i \in 1..Len(x) : (x \o y)[i] = x[i]
           /\ \A i \in 1..Len(y) : (x \o y)[Len(x) + i] = y[i]
OBVIOUS

\* The first of three sequences.
LEMMA FirstOfThree ==
    ASSUME NEW S
    PROVE  \A x, y, z \in Seq(S) :
             /\ Len(Cat(Cat(x, y), z)) = (Len(x) + Len(y)) + Len(z)
             /\ \A i \in 1..Len(x) : x[i] = Cat(Cat(x, y), z)[i]
<1> TAKE x, y, z \in Seq(S)
<1> DEFINE w == Cat(Cat(x, y), z)
<1>1. /\ x \o y \in Seq(S) /\ Len(x \o y) = Len(x) + Len(y)
      /\ Len(x) \in Nat /\ Len(y) \in Nat
      /\ \A i \in 1..Len(x) : (x \o y)[i] = x[i]
  BY Parts
<1> DEFINE u == x \o y
<1>2. u \in Seq(S) BY <1>1
<1> HIDE DEF u
<1>3. Len(u \o z) = Len(u) + Len(z) /\ \A i \in 1..Len(u) : (u \o z)[i] = u[i] BY <1>2, Parts
<1>4. w = u \o z BY DEF u, Cat
<1>5. \A i \in 1..Len(x) : i \in 1..Len(u) BY <1>1 DEF u
<1> QED BY <1>1, <1>3, <1>4, <1>5 DEF u

\* The empty sequence has every type used here.
LEMMA NoElements ==
    /\ <<>> \in Seq(Items) /\ <<>> \in Seq(Seq(Items)) /\ <<>> \in Seq({"GET", "HEAD", "POST"})
    /\ <<>> \in Seq(Piece) /\ <<>> \in Seq(Seq(Piece)) /\ Len(<<>>) = 0
BY EmptySeq

\* The text under way has its type.
LEMMA TextType ==
    ASSUME TypeOK PROVE response_buffer \o wire \in Seq(Piece)
<1>1. response_buffer \in Seq(Piece) /\ wire \in Seq(Piece) BY DEF TypeOK
<1> QED BY <1>1, Parts

\* More requests do not disturb what has been received.
LEMMA TextKept ==
    ASSUME TypeOK, LifeInv, SentInv, TextInv,
           UNCHANGED <<running, starts, clean, conn, responses, response_buffer, crashed,
                       answered, wire>>,
           \A i \in 1..Len(asked) : asked'[i] = asked[i]
    PROVE  TextInv'
<1> SUFFICES ASSUME clean PROVE TextInv' BY DEF TextInv
<1> DEFINE st == response_buffer \o wire
<1>1. ~crashed /\ \A i \in 1..Len(responses) : responses[i] = Answer(starts, i, asked[i])
  BY DEF TextInv
<1>2. Len(responses) \in Nat /\ answered \in Nat /\ Len(sent) \in Nat /\ Len(asked) \in Nat
      /\ answered <= Len(sent)
  BY LenProperties DEF TypeOK
<1>3. CASE ~running
  <2>1. responses = <<>> BY <1>3 DEF LifeInv
  <2> QED BY <1>1, <1>3, <2>1 DEF TextInv
<1>4. CASE running
  <2>1. Len(responses) <= answered /\ answered <= Len(asked)
    BY <1>2, <1>4 DEF TextInv, SentInv
  <2>2. \A i \in 1..answered : asked'[i] = asked[i] BY <1>2, <2>1
  <2>3. \A i \in 1..Len(responses) : i \in 1..answered BY <1>2, <2>1
  <2>4. \A i \in 1..Len(responses) : responses[i] = Answer(starts, i, asked'[i])
    BY <1>1, <2>2, <2>3
  <2>5. Chain(st, starts, asked, Len(responses), answered) BY <1>4 DEF TextInv
  <2>6. st \in Seq(Piece) BY TextType
  <2> HIDE DEF st
  <2>7. /\ Chain(st, starts, asked', Len(responses), answered)
        /\ Complete(st, starts, asked, Len(responses), answered)
             => Complete(st, starts, asked', Len(responses), answered)
    BY <1>2, <2>2, <2>5, <2>6, ChainMore
  <2> QED BY <1>1, <1>4, <2>1, <2>4, <2>7 DEF TextInv, st
<1> QED BY <1>3, <1>4

-----------------------------------------------------------------------------
(* The main thread. *)

\* Before the first start() nothing is asked for.
LEMMA InitIndInv == Init => IndInv
<1> SUFFICES ASSUME Init PROVE IndInv OBVIOUS
<1> USE BoundsAssumption
<1>1. TypeOK
  <2>1. /\ asked \in Seq(Items) /\ methods \in Seq({"GET", "HEAD", "POST"})
        /\ request_buffers \in Seq(Seq(Items)) /\ arg \in Seq(Items)
        /\ response_buffer \in Seq(Piece) /\ wire \in Seq(Piece)
        /\ responses \in Seq(Seq(Piece)) /\ sent \in Seq(Items)
        /\ Len(asked) = 0 /\ Len(request_buffers) = 0 /\ Len(sent) = 0
    BY NoElements DEF Init
  <2>2. /\ running \in BOOLEAN /\ clean \in BOOLEAN /\ parsing \in BOOLEAN /\ crashed \in BOOLEAN
    BY Zenon DEF Init
  <2>3. starts = 0 /\ conn = "none" /\ nrreq = 0 /\ cur = 0 /\ valid = 0 /\ answered = 0
    BY DEF Init
  <2> QED BY <2>1, <2>2, <2>3 DEF TypeOK
<1>2. LifeInv BY DEF Init, LifeInv, Pcs, Unbuffered, Uncounted, Unannounced
<1>3. CountInv BY DEF Init, CountInv, Uncounted, Unannounced
<1>4. QueueInv
  <2>1. Sent = <<>> /\ Pending = <<>> /\ asked = <<>> /\ request_buffers = <<>>
    BY DEF Init, Sent, Pending, Unbuffered
  <2>2. (<<>> \o <<>>) \o <<>> = <<>> OBVIOUS
  <2> QED BY <2>1, <2>2, FlattenEmpty DEF QueueInv
<1>5. SentInv BY DEF Init, SentInv
<1>6. MethodInv BY DEF Init, MethodInv, OwesBody
<1>7. TextInv BY DEF Init, TextInv
<1> QED BY <1>1, <1>2, <1>3, <1>4, <1>5, <1>6, <1>7 DEF IndInv

\* start(): what was asked for before it is all still to be sent.
LEMMA StartPreserves == ASSUME IndInv, Start PROVE IndInv'
<1> USE BoundsAssumption DEF IndInv
<1>1. /\ ~running /\ running' /\ conn' = "syn" /\ mpc = "idle"
      /\ starts' = starts + 1 /\ starts < MaxStarts
      /\ clean' = (response_buffer = <<>>)
      /\ sent' = <<>> /\ answered' = 0 /\ wire' = <<>>
      /\ UNCHANGED <<methods, request_buffers, nrreq, valid, cur, responses, response_buffer,
                     parsing, crashed, mpc, arg, asked>>
      /\ running' = TRUE
  BY DEF Start, countVars, readVars, mainVars
<1>2. ~crashed /\ ~parsing /\ responses = <<>> BY <1>1 DEF LifeInv
<1>3. TypeOK' BY <1>1 DEF TypeOK
<1>4. LifeInv' BY <1>1 DEF LifeInv, TypeOK
<1>5. CountInv' BY <1>1 DEF CountInv
<1>6. QueueInv'
  <2>1. (<<>> \o Flatten(request_buffers)) \o Pending = asked BY <1>1 DEF QueueInv, Sent
  <2>2. Sent' = <<>> /\ Pending' = Pending BY <1>1 DEF Sent, Pending
  <2> QED BY <1>1, <2>1, <2>2 DEF QueueInv
<1>7. SentInv' BY <1>1 DEF SentInv, TypeOK
<1>8. MethodInv' BY <1>1 DEF MethodInv, MethodAt, OwesBody
<1>9. TextInv'
  <2> SUFFICES ASSUME clean' PROVE TextInv' BY DEF TextInv
  <2>1. response_buffer = <<>> BY <1>1, Zenon
  <2>2. <<>> \o <<>> = <<>> OBVIOUS
  <2>3. response_buffer' \o wire' = <<>> BY <1>1, <2>1, <2>2
  <2>4. Len(responses') = 0 BY <1>1, <1>2
  <2>5. /\ Chain(<<>>, starts', asked', 0, 0) /\ Complete(<<>>, starts', asked', 0, 0)
    BY DEF Chain, Complete
  <2> QED BY <1>1, <1>2, <2>3, <2>4, <2>5 DEF TextInv
<1> QED BY <1>3, <1>4, <1>5, <1>6, <1>7, <1>8, <1>9

\* stop() with its clear_stats takes everything back but response_buffer.
LEMMA StopPreserves == ASSUME IndInv, Stop PROVE IndInv'
<1> USE DEF IndInv
<1>1. /\ running' = FALSE /\ conn' = "none" /\ mpc' = "idle" /\ ~parsing /\ ~crashed
      /\ methods' = <<>> /\ request_buffers' = <<>> /\ nrreq' = 0 /\ valid' = 0 /\ cur' = 0
      /\ responses' = <<>> /\ asked' = <<>>
      /\ UNCHANGED <<starts, clean, response_buffer, parsing, crashed, arg, sent, answered, wire>>
  BY DEF Stop, ClearStats, peerVars
<1>2. TypeOK'
  <2>1. /\ asked' \in Seq(Items) /\ methods' \in Seq({"GET", "HEAD", "POST"})
        /\ request_buffers' \in Seq(Seq(Items)) /\ responses' \in Seq(Seq(Piece))
        /\ Len(asked') = 0 /\ Len(request_buffers') = 0
    BY <1>1, NoElements
  <2>2. /\ running' \in BOOLEAN /\ conn' \in {"none", "syn", "open", "fin"}
        /\ nrreq' = 0 /\ cur' = 0 /\ valid' = 0
        /\ UNCHANGED <<starts, clean, response_buffer, parsing, crashed, arg, sent, answered, wire>>
    BY <1>1
  <2> QED BY <2>1, <2>2, BoundsAssumption DEF TypeOK
<1>3. LifeInv' BY <1>1 DEF LifeInv, Pcs, Unbuffered, Uncounted, Unannounced
<1>4. CountInv' BY <1>1 DEF CountInv, Uncounted, Unannounced
<1>5. QueueInv'
  <2>1. Sent' = <<>> /\ Pending' = <<>> BY <1>1 DEF Sent, Pending, Unbuffered
  <2>2. (<<>> \o <<>>) \o <<>> = <<>> OBVIOUS
  <2> QED BY <1>1, <2>1, <2>2, FlattenEmpty DEF QueueInv
<1>6. SentInv' BY <1>1 DEF SentInv
<1>7. MethodInv' BY <1>1 DEF MethodInv, OwesBody
<1>8. TextInv' BY <1>1 DEF TextInv
<1> QED BY <1>2, <1>3, <1>4, <1>5, <1>6, <1>7, <1>8

\* The test asks for more: what follows but for the methods.
LEMMA AskPreserves ==
    ASSUME IndInv, mpc = "idle", NEW reqs \in Seq(Items), Len(reqs) > 0,
           Len(asked) + Len(reqs) <= MaxItems, asked' = asked \o reqs, arg' = reqs,
           mpc' \in {"one_valid", "pipe_buffer", "bytes_buffer"},
           mpc' = "bytes_buffer" => Len(reqs) = 1,
           methods' \in Seq({"GET", "HEAD", "POST"}),
           UNCHANGED <<running, starts, clean, conn, request_buffers, nrreq, valid, cur, responses,
                       response_buffer, parsing, crashed, sent, answered, wire>>
    PROVE  TypeOK' /\ LifeInv' /\ CountInv' /\ QueueInv' /\ SentInv' /\ TextInv'
<1> USE DEF IndInv
<1>1. asked \in Seq(Items) BY DEF TypeOK
<1>2. /\ asked' \in Seq(Items) /\ Len(asked') = Len(asked) + Len(reqs)
      /\ Len(asked) \in Nat /\ Len(reqs) \in Nat
      /\ \A i \in 1..Len(asked) : asked'[i] = asked[i]
  BY <1>1, Parts
<1>3. valid = Len(asked) BY DEF CountInv, Unannounced
<1>4. TypeOK' BY <1>2, <1>3 DEF TypeOK
<1>5. LifeInv'
  <2>1. Len(arg') > 0 /\ Len(arg') <= Len(asked') BY <1>2
  <2> QED BY <2>1 DEF LifeInv, Pcs, Unbuffered, Uncounted, Unannounced
<1>6. CountInv' BY <1>2, <1>3 DEF CountInv, Unannounced, Uncounted
<1>7. QueueInv'
  <2> DEFINE x == Sent \o Flatten(request_buffers)
  <2>1. x \in Seq(Items)
    <3>1. Sent \in Seq(Items) BY NoElements DEF Sent, TypeOK
    <3>2. Flatten(request_buffers) \in Seq(Items) BY FlattenType DEF TypeOK
    <3> QED BY <3>1, <3>2, Parts
  <2>2. Pending = <<>> /\ Pending' = reqs BY DEF Pending, Unbuffered
  <2>3. Sent' = Sent /\ Flatten(request_buffers)' = Flatten(request_buffers) BY DEF Sent
  <2>4. ASSUME ~running \/ conn \in {"syn", "open"} PROVE x = asked
    <3>1. x \o <<>> = asked BY <2>2, <2>4 DEF QueueInv
    <3> HIDE DEF x
    <3>2. x \o <<>> = x BY <2>1, ConcatEmptySeq
    <3> QED BY <3>1, <3>2
  <2> QED BY <2>2, <2>3, <2>4 DEF QueueInv
<1>8. SentInv'
  <2> SUFFICES ASSUME running PROVE SentInv' BY DEF SentInv
  <2>1. /\ Len(sent) <= Len(asked) /\ Len(sent) \in Nat
        /\ \A i \in 1..Len(sent) : sent[i] = asked[i]
    BY LenProperties DEF SentInv, TypeOK
  <2>2. \A i \in 1..Len(sent) : sent[i] = asked'[i] BY <1>2, <2>1
  <2>3. Len(sent) <= Len(asked') BY <1>2, <2>1
  <2> QED BY <1>3, <2>1, <2>2, <2>3 DEF SentInv
<1>9. TextInv' BY <1>2, TextKept
<1> QED BY <1>4, <1>5, <1>6, <1>7, <1>8, <1>9

\* send_bytes: the method of the body was stored with that of its request.
LEMMA SendBytesPreserves == ASSUME IndInv, SendBytes PROVE IndInv'
<1> USE DEF IndInv
<1> DEFINE reqs == <<"BODY">>
<1>1. /\ mpc = "idle" /\ mpc' = "bytes_buffer" /\ arg' = reqs /\ asked' = Append(asked, "BODY")
      /\ Len(asked) + Len(reqs) <= MaxItems /\ OwesBody
      /\ UNCHANGED <<running, starts, clean, conn, methods, request_buffers, nrreq, valid, cur,
                     responses, response_buffer, parsing, crashed, sent, answered, wire>>
  BY DEF SendBytes, MayAsk, lifeVars, countVars, readVars, peerVars
<1>2. /\ asked \in Seq(Items) /\ Len(asked) \in Nat /\ "BODY" \in Items
  BY LenProperties DEF TypeOK, Items
<1>3. /\ reqs \in Seq(Items) /\ Len(reqs) = 1 BY <1>2
<1>4. asked' = asked \o reqs BY <1>1, <1>2, AppendIsConcat
<1>5. methods' \in Seq({"GET", "HEAD", "POST"}) BY <1>1 DEF TypeOK
<1> HIDE DEF reqs
<1>6. TypeOK' /\ LifeInv' /\ CountInv' /\ QueueInv' /\ SentInv' /\ TextInv'
  BY <1>1, <1>3, <1>4, <1>5, AskPreserves
<1>7. MethodInv'
  <2>1. /\ Len(asked') = Len(asked) + 1 /\ asked'[Len(asked) + 1] = "BODY"
        /\ \A i \in 1..Len(asked) : asked'[i] = asked[i]
    BY <1>1, <1>2, AppendProperties
  <2>2. Len(methods) = Len(asked) + 1 /\ methods[Len(methods)] = "POST"
    BY <1>1 DEF MethodInv
  <2>3. ~OwesBody' BY <2>1 DEF OwesBody
  <2>4. \A i \in 1..Len(asked') : methods[i] = MethodAt(i)'
    <3> TAKE i \in 1..Len(asked')
    <3>1. CASE i = Len(asked) + 1 BY <2>1, <2>2, <3>1 DEF MethodAt
    <3>2. CASE i \in 1..Len(asked)
      <4>1. methods[i] = MethodAt(i) BY <3>2 DEF MethodInv
      <4> QED BY <2>1, <3>2, <4>1 DEF MethodAt
    <3> QED BY <1>2, <2>1, <3>1, <3>2
  <2> QED BY <1>1, <1>2, <2>1, <2>2, <2>3, <2>4 DEF MethodInv
<1> QED BY <1>6, <1>7

\* What __check_request stores for a batch: a method per request, and one more for the
\* body that a last request with Expect: 100-continue announces.
LEMMA BatchMethods ==
    ASSUME NEW reqs \in Batches, \A i \in 1..(Len(reqs) - 1) : reqs[i] # "EXPECT"
    PROVE  LET ms == Flatten([i \in 1..Len(reqs) |-> MethodsOf(reqs[i])])
           IN  /\ reqs \in Seq(Items) /\ Len(reqs) \in 1..2
               /\ ms \in Seq({"GET", "HEAD", "POST"})
               /\ Len(ms) = Len(reqs) + (IF reqs[Len(reqs)] = "EXPECT" THEN 1 ELSE 0)
               /\ reqs[Len(reqs)] = "EXPECT" => ms[Len(ms)] = "POST"
               /\ \A i \in 1..Len(reqs) :
                    /\ reqs[i] # "BODY"
                    /\ ms[i] = IF reqs[i] \in {"EXPECT", "BODY"} THEN "POST" ELSE reqs[i]
<1> DEFINE M == {"GET", "HEAD", "POST"}
           f == [i \in 1..Len(reqs) |-> MethodsOf(reqs[i])]
<1>1. \A r \in Requests : /\ r \in Items /\ MethodsOf(r) \in Seq(M) /\ r # "BODY"
                          /\ r = "EXPECT" => MethodsOf(r) = <<"POST", "POST">>
                          /\ r # "EXPECT" => MethodsOf(r) = <<r>> /\ r \in M
  <2>1. "POST" \in M /\ <<"POST", "POST">> \in Seq(M) OBVIOUS
  <2>2. \A r \in Requests : r \in Items /\ r # "BODY" /\ (r # "EXPECT" => r \in M)
    BY DEF Requests, Items
  <2>3. \A r \in M : <<r>> \in Seq(M) OBVIOUS
  <2> TAKE r \in Requests
  <2>4. CASE r = "EXPECT"
    <3>1. MethodsOf(r) = <<"POST", "POST">> BY <2>4 DEF MethodsOf
    <3> HIDE DEF M
    <3> QED BY <2>1, <2>2, <2>4, <3>1
  <2>5. CASE r # "EXPECT"
    <3>1. MethodsOf(r) = <<r>> BY <2>5 DEF MethodsOf
    <3> HIDE DEF M
    <3> QED BY <2>2, <2>3, <2>5, <3>1
  <2> QED BY <2>4, <2>5
<1>2. CASE \E r \in Requests : reqs = <<r>>
  <2>1. PICK r \in Requests : reqs = <<r>> BY <1>2
  <2>2. /\ Len(reqs) = 1 /\ reqs[1] = r /\ reqs \in Seq(Items) BY <1>1, <2>1
  <2>3. f \in Seq(Seq(M)) /\ Len(f) = 1 /\ f[1] = MethodsOf(r) BY <1>1, <2>2
  <2>4. Flatten(f) = MethodsOf(r)
    <3> HIDE DEF f
    <3> QED BY <2>3, FlattenOne
  <2> HIDE DEF f
  <2>5. CASE r = "EXPECT"
    <3> DEFINE ms == <<"POST", "POST">>
    <3>1. Flatten(f) = ms BY <1>1, <2>4, <2>5
    <3>2. /\ ms \in Seq(M) /\ Len(ms) = 2 /\ ms[1] = "POST" /\ ms[2] = "POST" OBVIOUS
    <3> HIDE DEF ms
    <3> QED BY <2>2, <2>5, <3>1, <3>2 DEF f
  <2>6. CASE r # "EXPECT"
    <3> DEFINE ms == <<r>>
    <3>1. Flatten(f) = ms /\ r \in M /\ r # "BODY" BY <1>1, <2>4, <2>6
    <3>2. /\ ms \in Seq(M) /\ Len(ms) = 1 /\ ms[1] = r BY <3>1
    <3> HIDE DEF ms
    <3> QED BY <2>2, <2>6, <3>1, <3>2 DEF f
  <2> QED BY <2>5, <2>6
<1>3. CASE \E r, q \in Requests : reqs = <<r, q>>
  <2>1. PICK r \in Requests, q \in Requests : reqs = <<r, q>> BY <1>3
  <2>2. /\ Len(reqs) = 2 /\ reqs[1] = r /\ reqs[2] = q /\ reqs \in Seq(Items) BY <1>1, <2>1
  <2>3. r # "EXPECT"
    <3>1. 1 \in 1..(Len(reqs) - 1) BY <2>2
    <3> QED BY <2>2, <3>1
  <2>4. f \in Seq(Seq(M)) /\ Len(f) = 2 /\ f[1] = MethodsOf(r) /\ f[2] = MethodsOf(q)
    BY <1>1, <2>2
  <2>5. Flatten(f) = <<r>> \o MethodsOf(q)
    <3> HIDE DEF f
    <3> QED BY <1>1, <2>3, <2>4, FlattenTwo
  <2> HIDE DEF f
  <2>6. r \in M /\ r # "BODY" /\ q # "BODY" BY <1>1, <2>3
  <2>7. CASE q = "EXPECT"
    <3> DEFINE ms == <<r>> \o <<"POST", "POST">>
    <3>1. Flatten(f) = ms BY <1>1, <2>5, <2>7
    <3>2. /\ ms \in Seq(M) /\ Len(ms) = 3 /\ ms[1] = r /\ ms[2] = "POST" /\ ms[3] = "POST"
      BY <2>6
    <3> HIDE DEF ms
    <3> QED BY <2>2, <2>3, <2>6, <2>7, <3>1, <3>2 DEF f
  <2>8. CASE q # "EXPECT"
    <3> DEFINE ms == <<r>> \o <<q>>
    <3>1. Flatten(f) = ms /\ q \in M BY <1>1, <2>5, <2>8
    <3>2. /\ ms \in Seq(M) /\ Len(ms) = 2 /\ ms[1] = r /\ ms[2] = q
      BY <2>6, <3>1
    <3> HIDE DEF ms
    <3> QED BY <2>2, <2>3, <2>6, <2>8, <3>1, <3>2 DEF f
  <2> QED BY <2>7, <2>8
<1> QED BY <1>2, <1>3 DEF Batches

\* make_request(s): a method is stored for every response to come.
LEMMA CheckPreserves ==
    ASSUME IndInv, NEW reqs \in Batches, NEW pipelined \in BOOLEAN, CheckRequests(reqs, pipelined)
    PROVE  IndInv'
<1> USE DEF IndInv
<1> DEFINE M == {"GET", "HEAD", "POST"}
           ms == Flatten([i \in 1..Len(reqs) |-> MethodsOf(reqs[i])])
<1>1. /\ mpc = "idle" /\ mpc' \in {"one_valid", "pipe_buffer"} /\ arg' = reqs
      /\ asked' = asked \o reqs /\ methods' = methods \o ms
      /\ Len(asked) + Len(reqs) <= MaxItems /\ ~OwesBody
      /\ \A i \in 1..(Len(reqs) - 1) : reqs[i] # "EXPECT"
      /\ UNCHANGED <<running, starts, clean, conn, request_buffers, nrreq, valid, cur,
                     responses, response_buffer, parsing, crashed, sent, answered, wire>>
  BY DEF CheckRequests, MayAsk, lifeVars, countVars, readVars, peerVars
<1>2. /\ reqs \in Seq(Items) /\ Len(reqs) \in 1..2
      /\ ms \in Seq(M)
      /\ Len(ms) = Len(reqs) + (IF reqs[Len(reqs)] = "EXPECT" THEN 1 ELSE 0)
      /\ reqs[Len(reqs)] = "EXPECT" => ms[Len(ms)] = "POST"
      /\ \A i \in 1..Len(reqs) :
           /\ reqs[i] # "BODY"
           /\ ms[i] = IF reqs[i] \in {"EXPECT", "BODY"} THEN "POST" ELSE reqs[i]
  BY <1>1, BatchMethods
<1> HIDE DEF ms
<1>3. asked \in Seq(Items) /\ methods \in Seq(M) BY DEF TypeOK
<1>4. /\ methods' \in Seq(M) /\ Len(methods') = Len(methods) + Len(ms)
      /\ Len(methods) \in Nat /\ Len(ms) \in Nat
      /\ \A i \in 1..Len(methods) : methods'[i] = methods[i]
      /\ \A i \in 1..Len(ms) : methods'[Len(methods) + i] = ms[i]
  <2>1. ms \in Seq(M) BY <1>2
  <2> HIDE DEF M
  <2> QED BY <1>1, <1>3, <2>1, Parts
<1>5. /\ Len(asked') = Len(asked) + Len(reqs) /\ Len(asked) \in Nat /\ Len(reqs) \in Nat
      /\ \A i \in 1..Len(asked) : asked'[i] = asked[i]
      /\ \A i \in 1..Len(reqs) : asked'[Len(asked) + i] = reqs[i]
  <2>1. reqs \in Seq(Items) BY <1>2
  <2> QED BY <1>1, <1>3, <2>1, Parts
<1>6. TypeOK' /\ LifeInv' /\ CountInv' /\ QueueInv' /\ SentInv' /\ TextInv'
  BY <1>1, <1>2, <1>4, AskPreserves
<1>7. MethodInv'
  <2>1. Len(methods) = Len(asked) BY <1>1, <1>5 DEF MethodInv
  <2>a. /\ Len(reqs) \in 1..2 /\ Len(asked) \in Nat /\ Len(asked') = Len(asked) + Len(reqs)
        /\ Len(ms) = Len(reqs) + (IF reqs[Len(reqs)] = "EXPECT" THEN 1 ELSE 0)
        /\ Len(methods') = Len(methods) + Len(ms) /\ Len(ms) \in Nat
    BY <1>2, <1>4, <1>5
  <2>2. Len(reqs) \in 1..Len(reqs) /\ Len(asked') # 0
    <3>1. /\ Len(reqs) \in 1..2 /\ Len(asked) \in Nat /\ Len(asked') = Len(asked) + Len(reqs)
      BY <2>a
    <3>2. \A a, b \in Nat : b \in 1..2 => b \in 1..b /\ a + b # 0 OBVIOUS
    <3> QED BY <3>1, <3>2
  <2>3. asked'[Len(asked')] = reqs[Len(reqs)] BY <1>5, <2>2
  <2>4. OwesBody' <=> reqs[Len(reqs)] = "EXPECT"
    <3>1. asked' # <<>> BY <2>2
    <3> QED BY <2>3, <3>1 DEF OwesBody
  <2>5. OwesBody' => methods'[Len(methods')] = "POST"
    <3>1. Len(ms) \in 1..Len(ms) BY <2>a
    <3> QED BY <1>2, <1>4, <2>4, <3>1
  <2>6. \A i \in 1..Len(asked') : methods'[i] = MethodAt(i)'
    <3> TAKE i \in 1..Len(asked')
    <3>1. CASE i \in 1..Len(asked)
      <4>1. methods[i] = MethodAt(i) BY <3>1 DEF MethodInv
      <4> QED BY <1>4, <1>5, <2>1, <3>1, <4>1 DEF MethodAt
    <3>2. CASE i > Len(asked)
      <4> DEFINE k == i - Len(asked)
      <4>1. k \in 1..Len(reqs) /\ k \in 1..Len(ms) /\ Len(asked) + k = i
        BY <1>2, <1>4, <1>5, <3>2
      <4> HIDE DEF k
      <4>2. asked'[i] = reqs[k] /\ methods'[i] = ms[k] BY <1>4, <1>5, <2>1, <4>1
      <4> QED BY <1>2, <4>1, <4>2 DEF MethodAt
    <3> QED BY <1>5, <3>1, <3>2
  <2>7. Len(methods') = Len(asked') + (IF OwesBody' THEN 1 ELSE 0)
    BY <2>a, <2>1, <2>4
  <2>8. Len(methods') >= Len(asked') BY <1>5, <2>7
  <2> QED BY <2>5, <2>6, <2>7, <2>8 DEF MethodInv
<1> QED BY <1>6, <1>7

\* The test ends in __check_request: the methods stored are not looked up any more.
LEMMA CheckRaisesPreserves ==
    ASSUME IndInv, NEW stored \in {<<>>, <<"GET">>}, CheckRaises(stored) PROVE IndInv'
<1> USE DEF IndInv
<1> DEFINE M == {"GET", "HEAD", "POST"}
<1>1. /\ mpc = "idle" /\ mpc' = "failed" /\ methods' = methods \o stored
      /\ UNCHANGED <<running, starts, clean, conn, request_buffers, nrreq, valid, cur, arg, asked,
                     responses, response_buffer, parsing, crashed, sent, answered, wire>>
  BY DEF CheckRaises, lifeVars, countVars, readVars, peerVars
<1>2. stored \in Seq(M) /\ methods \in Seq(M)
  <2>1. <<"GET">> \in Seq(M) OBVIOUS
  <2> QED BY <2>1, NoElements DEF TypeOK
<1>3. /\ methods' \in Seq(M) /\ Len(methods') >= Len(methods) /\ Len(methods) \in Nat
      /\ \A i \in 1..Len(methods) : methods'[i] = methods[i]
  <2> HIDE DEF M
  <2>1. /\ methods \o stored \in Seq(M) /\ Len(methods \o stored) = Len(methods) + Len(stored)
        /\ Len(methods) \in Nat /\ Len(stored) \in Nat
        /\ \A i \in 1..Len(methods) : (methods \o stored)[i] = methods[i]
    BY <1>2, Parts
  <2>2. \A a, b \in Nat : a + b >= a OBVIOUS
  <2> QED BY <1>1, <2>1, <2>2
<1>4. TypeOK' BY <1>1, <1>3 DEF TypeOK
<1>5. LifeInv' BY <1>1 DEF LifeInv, Pcs, Unbuffered, Uncounted, Unannounced
<1>6. CountInv' BY <1>1 DEF CountInv, Uncounted, Unannounced
<1>7. QueueInv' BY <1>1 DEF QueueInv, Sent, Pending, Unbuffered
<1>8. SentInv' BY <1>1 DEF SentInv
<1>9. MethodInv'
  <2>1. Len(asked) \in Nat BY LenProperties DEF TypeOK
  <2>2. /\ Len(methods) >= Len(asked) /\ \A i \in 1..Len(asked) : methods[i] = MethodAt(i)
    BY DEF MethodInv
  <2>3. Len(methods') \in Nat BY <1>3, LenProperties
  <2>4. Len(methods') >= Len(asked) BY <1>3, <2>1, <2>2, <2>3
  <2>5. \A i \in 1..Len(asked) : methods'[i] = MethodAt(i)
    <3> TAKE i \in 1..Len(asked)
    <3>1. i \in 1..Len(methods) BY <1>3, <2>1, <2>2
    <3> QED BY <1>3, <2>2, <3>1
  <2> QED BY <1>1, <2>4, <2>5 DEF MethodInv, MethodAt
<1>10. TextInv' BY <1>1, TextKept
<1> QED BY <1>4, <1>5, <1>6, <1>7, <1>8, <1>9, <1>10

\* A step of the main thread that queues, counts or waits leaves the methods and what
\* was received alone.
LEMMA MethodsAndTextKept ==
    ASSUME IndInv, mpc # "failed", mpc' # "failed",
           UNCHANGED <<running, starts, clean, conn, methods, asked, responses, response_buffer,
                       crashed, answered, wire>>
    PROVE  MethodInv' /\ TextInv'
<1>1. TextInv' BY TextKept DEF IndInv
<1>2. MethodInv' BY DEF IndInv, MethodInv, MethodAt, OwesBody
<1> QED BY <1>1, <1>2

\* _valid_req_num += n: all requests asked for are announced.
LEMMA CountValidPreserves == ASSUME IndInv, CountValid PROVE IndInv'
<1> USE DEF IndInv
<1>1. /\ \/ mpc = "one_valid" /\ mpc' = "one_buffer"
         \/ mpc = "pipe_valid" /\ mpc' = "pipe_nrreq"
         \/ mpc = "bytes_valid" /\ mpc' = "idle"
      /\ valid' = valid + Len(arg)
      /\ UNCHANGED <<running, starts, clean, conn, methods, request_buffers, nrreq, cur, arg, asked,
                     responses, response_buffer, parsing, crashed, sent, answered, wire>>
  BY DEF CountValid, AfterValid, lifeVars, readVars, peerVars
<1>2. /\ Len(arg) \in Nat /\ Len(asked) \in Nat /\ Len(sent) \in Nat /\ valid \in Nat
      /\ Len(arg) > 0 /\ mpc = "bytes_valid" => Len(arg) = 1
  BY <1>1, LenProperties DEF TypeOK, LifeInv, Unannounced
<1>3. valid = Len(asked) - Len(arg) BY <1>1 DEF CountInv, Unannounced
<1>4. valid' = Len(asked) BY <1>1, <1>2, <1>3
<1>5. TypeOK' BY <1>1, <1>2, <1>4 DEF TypeOK
<1>6. LifeInv' BY <1>1 DEF LifeInv, Pcs, Unbuffered, Uncounted, Unannounced
<1>7. CountInv'
  <2>1. (mpc' \in Uncounted) = (mpc \in Uncounted) /\ mpc' \notin Unannounced
    BY <1>1 DEF Uncounted, Unannounced
  <2>2. Len(asked) - 0 = Len(asked) BY <1>2
  <2> QED BY <1>1, <1>4, <2>1, <2>2 DEF CountInv
<1>8. QueueInv' BY <1>1 DEF QueueInv, Sent, Pending, Unbuffered
<1>9. SentInv' BY <1>1, <1>2, <1>4 DEF SentInv
<1>10. MethodInv' /\ TextInv' BY <1>1, MethodsAndTextKept
<1> QED BY <1>5, <1>6, <1>7, <1>8, <1>9, <1>10

\* _nrreq += 1: all buffers are counted.
LEMMA CountNrreqPreserves == ASSUME IndInv, CountNrreq PROVE IndInv'
<1> USE DEF IndInv
<1>1. /\ \/ mpc \in {"one_nrreq", "pipe_nrreq"} /\ mpc' = "idle"
         \/ mpc = "bytes_nrreq" /\ mpc' = "bytes_valid"
      /\ nrreq' = nrreq + 1
      /\ UNCHANGED <<running, starts, clean, conn, methods, request_buffers, valid, cur, arg, asked,
                     responses, response_buffer, parsing, crashed, sent, answered, wire>>
  BY DEF CountNrreq, AfterNrreq, lifeVars, readVars, peerVars
<1>2. /\ nrreq \in Nat /\ cur \in 0..nrreq /\ Len(request_buffers) \in Nat
      /\ valid \in Nat /\ Len(sent) \in Nat
  BY LenProperties DEF TypeOK
<1>3. nrreq = Len(request_buffers) - 1 BY <1>1 DEF CountInv, Uncounted
<1>4. nrreq' = Len(request_buffers) /\ cur \in 0..nrreq' BY <1>1, <1>2, <1>3
<1>5. TypeOK' BY <1>1, <1>2, <1>4 DEF TypeOK
<1>6. LifeInv' BY <1>1 DEF LifeInv, Pcs, Unbuffered, Uncounted, Unannounced
<1>7. CountInv' BY <1>1, <1>2, <1>4 DEF CountInv, Uncounted, Unannounced
<1>8. QueueInv' BY <1>1 DEF QueueInv, Sent, Pending, Unbuffered
<1>9. SentInv' BY <1>1, <1>2 DEF SentInv
<1>10. MethodInv' /\ TextInv' BY <1>1, MethodsAndTextKept
<1> QED BY <1>5, <1>6, <1>7, <1>8, <1>9, <1>10

\* wait_for_response changes nothing of the client.
LEMMA WaitPreserves ==
    ASSUME IndInv, WaitForResponse \/ WaitReturns \/ WaitTimesOut PROVE IndInv'
<1> USE DEF IndInv
<1>1. /\ mpc \in {"idle", "waiting"} /\ mpc' \in {"idle", "waiting"}
      /\ UNCHANGED <<running, starts, clean, conn, methods, request_buffers, nrreq, valid, cur,
                     arg, asked, responses, response_buffer, parsing, crashed, sent, answered,
                     wire>>
  BY DEF WaitForResponse, WaitReturns, WaitTimesOut, lifeVars, countVars, readVars, peerVars
<1>2. TypeOK' BY <1>1 DEF TypeOK
<1>3. LifeInv' BY <1>1 DEF LifeInv, Pcs, Unbuffered, Uncounted, Unannounced
<1>4. CountInv' BY <1>1 DEF CountInv, Uncounted, Unannounced
<1>5. QueueInv' BY <1>1 DEF QueueInv, Sent, Pending, Unbuffered
<1>6. SentInv' BY <1>1 DEF SentInv
<1>7. MethodInv' /\ TextInv' BY <1>1, MethodsAndTextKept
<1> QED BY <1>2, <1>3, <1>4, <1>5, <1>6, <1>7

\* _add_to_request_buffers: the requests of the call go behind those queued.
LEMMA AddPreserves == ASSUME IndInv, AddToRequestBuffers PROVE IndInv'
<1> USE DEF IndInv
<1>1. /\ \/ mpc = "one_buffer" /\ mpc' = "one_nrreq"
         \/ mpc = "pipe_buffer" /\ mpc' = "pipe_valid"
         \/ mpc = "bytes_buffer" /\ mpc' = "bytes_nrreq"
      /\ request_buffers' = Append(request_buffers, arg)
      /\ UNCHANGED <<running, starts, clean, conn, methods, nrreq, valid, cur, arg, asked,
                     responses, response_buffer, parsing, crashed, sent, answered, wire>>
  BY DEF AddToRequestBuffers, AfterBuffer, lifeVars, countVars, readVars, peerVars
<1>2. /\ request_buffers \in Seq(Seq(Items)) /\ arg \in Seq(Items)
      /\ nrreq \in 0..Len(request_buffers) /\ cur \in 0..nrreq
  BY DEF TypeOK
<1>3. /\ request_buffers' \in Seq(Seq(Items)) /\ Len(request_buffers) \in Nat
      /\ Len(request_buffers') = Len(request_buffers) + 1
      /\ request_buffers'[Len(request_buffers')] = arg
      /\ \A i \in 1..Len(request_buffers) : request_buffers'[i] = request_buffers[i]
  <2> DEFINE S == Seq(Items)
  <2>1. request_buffers \in Seq(S) /\ arg \in S BY <1>2
  <2> HIDE DEF S
  <2>2. /\ request_buffers' \in Seq(S) /\ Len(request_buffers) \in Nat
        /\ Len(request_buffers') = Len(request_buffers) + 1
        /\ request_buffers'[Len(request_buffers')] = arg
        /\ \A i \in 1..Len(request_buffers) : request_buffers'[i] = request_buffers[i]
    BY <1>1, <2>1
  <2> QED BY <2>2 DEF S
<1>4. nrreq = Len(request_buffers)
  BY <1>1, <1>2, <1>3 DEF CountInv, Uncounted
<1>5. TypeOK'
  <2>1. nrreq \in 0..Len(request_buffers') BY <1>2, <1>3
  <2> QED BY <1>1, <1>3, <2>1 DEF TypeOK
<1>6. LifeInv' BY <1>1 DEF LifeInv, Pcs, Unbuffered, Uncounted, Unannounced
<1>7. CountInv'
  <2>1. \A i \in 1..cur : request_buffers'[i] = <<>>
    <3> TAKE i \in 1..cur
    <3>1. i \in 1..Len(request_buffers) BY <1>2, <1>3
    <3> QED BY <1>3, <3>1 DEF CountInv
  <2>2. nrreq = Len(request_buffers') - 1 BY <1>3, <1>4
  <2> QED BY <1>1, <1>3, <2>1, <2>2 DEF CountInv, Uncounted, Unannounced
<1>8. QueueInv'
  <2> SUFFICES ASSUME ~running \/ conn \in {"syn", "open"} PROVE QueueInv' BY <1>1 DEF QueueInv
  <2>1. Pending = arg /\ Pending' = <<>> /\ Sent' = Sent
    BY <1>1 DEF Pending, Unbuffered, Sent
  <2>2. (Sent \o Flatten(request_buffers)) \o arg = asked BY <2>1 DEF QueueInv
  <2>3. Flatten(request_buffers)' = Flatten(request_buffers) \o arg
    BY <1>1, <1>2, FlattenAppend
  <2>4. Sent \in Seq(Items) /\ Flatten(request_buffers) \in Seq(Items)
    <3>1. Sent \in Seq(Items) BY NoElements DEF Sent, TypeOK
    <3> QED BY <1>2, <3>1, FlattenType
  <2> DEFINE x == Sent
             y == Flatten(request_buffers)
  <2>5. x \in Seq(Items) /\ y \in Seq(Items) /\ arg \in Seq(Items) BY <1>2, <2>4
  <2> HIDE DEF x, y
  <2>6. Cat(Cat(x, y), arg) = Cat(x, Cat(y, arg)) BY <2>5, CatAssociative
  <2>7. (x \o (y \o arg)) = asked BY <2>2, <2>6 DEF Cat, x, y
  <2>8. (x \o (y \o arg)) \o <<>> = asked
    <3>1. asked \in Seq(Items) BY DEF TypeOK
    <3> QED BY <2>7, <3>1, ConcatEmptySeq
  <2> QED BY <1>1, <2>1, <2>3, <2>8 DEF QueueInv, x, y
<1>9. SentInv' BY <1>1 DEF SentInv
<1>10. MethodInv' /\ TextInv' BY <1>1, MethodsAndTextKept
<1> QED BY <1>5, <1>6, <1>7, <1>8, <1>9, <1>10

\* The polling thread leaves the methods alone.
LEMMA MethodsKept ==
    ASSUME IndInv, UNCHANGED <<methods, asked, mpc>> PROVE MethodInv'
BY DEF IndInv, MethodInv, MethodAt, OwesBody

\* A send leaves the methods and what was received alone.
LEMMA MethodsSent ==
    ASSUME IndInv,
           UNCHANGED <<running, starts, clean, conn, methods, asked, mpc, responses,
                       response_buffer, crashed, answered, wire>>
    PROVE  MethodInv' /\ TextInv'
<1>1. TextInv' BY TextKept DEF IndInv
<1>2. MethodInv' BY MethodsKept
<1> QED BY <1>1, <1>2

\* FlattenTake as a universally quantified fact.
LEMMA FlattenTaken ==
    ASSUME NEW S
    PROVE  \A s \in Seq(Seq(S)) : \A k \in 1..Len(s) : \A n \in 1..Len(s[k]) :
             (\A i \in 1..(k - 1) : s[i] = <<>>) =>
               Flatten(s) = Cat(SubSeq(s[k], 1, n),
                                   Flatten([s EXCEPT ![k] = SubSeq(s[k], n + 1, Len(s[k]))]))
<1> TAKE s \in Seq(Seq(S))
<1> TAKE k \in 1..Len(s)
<1> TAKE n \in 1..Len(s[k])
<1> SUFFICES ASSUME \A i \in 1..(k - 1) : s[i] = <<>>
             PROVE  Flatten(s) = SubSeq(s[k], 1, n)
                             \o Flatten([s EXCEPT ![k] = SubSeq(s[k], n + 1, Len(s[k]))])
  BY DEF Cat
<1> QED BY FlattenTake

\* _send_data moves the first requests of the buffer at hand from what the buffers hold
\* to what the peer got.
LEMMA SendPreserves ==
    ASSUME IndInv, NEW n \in 1..MaxItems, SendData(n) PROVE IndInv'
<1> USE DEF IndInv
<1> DEFINE k == cur + 1
           reqs == request_buffers[k]
           p == SubSeq(reqs, 1, n)
           q == SubSeq(reqs, n + 1, Len(reqs))
<1>1. /\ conn \in {"open", "fin"} /\ cur < nrreq /\ n \in 1..Len(reqs)
      /\ request_buffers' = [request_buffers EXCEPT ![k] = q]
      /\ cur' = IF n = Len(reqs) THEN cur + 1 ELSE cur
      /\ sent' = IF conn = "open" THEN sent \o p ELSE sent
      /\ UNCHANGED <<running, starts, clean, conn, methods, nrreq, valid, mpc, arg, asked,
                     responses, response_buffer, parsing, crashed, answered, wire>>
  BY DEF SendData, lifeVars, readVars, mainVars
<1>2. /\ request_buffers \in Seq(Seq(Items)) /\ arg \in Seq(Items) /\ sent \in Seq(Items)
      /\ asked \in Seq(Items)
      /\ nrreq \in 0..Len(request_buffers) /\ cur \in 0..nrreq /\ answered \in 0..Len(sent)
  BY DEF TypeOK
<1>3. /\ Len(request_buffers) \in Nat /\ Len(arg) \in Nat /\ Len(sent) \in Nat
      /\ Len(asked) \in Nat
  BY <1>2, LenProperties
<1>4. /\ k \in 1..nrreq /\ k \in 1..Len(request_buffers) /\ cur \in Nat /\ nrreq \in Nat
      /\ cur + 1 = k /\ k - 1 = cur
  BY <1>1, <1>2, <1>3
<1> HIDE DEF k
<1>5. reqs \in Seq(Items) BY <1>2, <1>4, ElementOfSeq
<1> HIDE DEF reqs
<1>6. /\ p \in Seq(Items) /\ q \in Seq(Items) /\ Len(reqs) \in Nat /\ Len(p) \in Nat
      /\ n = Len(reqs) => q = <<>>
  BY <1>1, <1>5
<1> HIDE DEF p, q
<1>7. /\ request_buffers' \in Seq(Seq(Items)) /\ Len(request_buffers') = Len(request_buffers)
      /\ request_buffers'[k] = q
      /\ \A i \in 1..Len(request_buffers) : i # k => request_buffers'[i] = request_buffers[i]
  <2> DEFINE S == Seq(Items)
  <2>1. request_buffers \in Seq(S) /\ q \in S BY <1>2, <1>6
  <2> HIDE DEF S
  <2>2. /\ request_buffers' \in Seq(S) /\ Len(request_buffers') = Len(request_buffers)
        /\ request_buffers'[k] = q
        /\ \A i \in 1..Len(request_buffers) : i # k => request_buffers'[i] = request_buffers[i]
    BY <1>1, <1>4, <2>1
  <2> QED BY <2>2 DEF S
<1>8. /\ sent' \in Seq(Items) /\ Len(sent') \in Nat /\ Len(sent') >= Len(sent)
  <2>1. /\ sent \o p \in Seq(Items) /\ Len(sent \o p) = Len(sent) + Len(p)
    BY <1>2, <1>6, Parts
  <2>2. \A a, b \in Nat : a + b \in Nat /\ a + b >= a /\ a >= a OBVIOUS
  <2> QED BY <1>1, <1>2, <1>3, <1>6, <2>1, <2>2
<1>9. TypeOK'
  <2>1. answered \in 0..Len(sent') BY <1>2, <1>3, <1>8
  <2>2. cur' \in 0..nrreq BY <1>1, <1>2, <1>4
  <2> QED BY <1>1, <1>7, <1>8, <2>1, <2>2 DEF TypeOK
<1>10. LifeInv' BY <1>1 DEF LifeInv
<1>11. CountInv'
  <2>1. mpc \in Uncounted => request_buffers'[Len(request_buffers)] = arg
    <3> SUFFICES ASSUME mpc \in Uncounted PROVE request_buffers'[Len(request_buffers)] = arg
      OBVIOUS
    <3>1. nrreq = Len(request_buffers) - 1 /\ request_buffers[Len(request_buffers)] = arg
      BY DEF CountInv
    <3>2. Len(request_buffers) \in 1..Len(request_buffers) /\ Len(request_buffers) # k
      BY <1>3, <1>4, <3>1
    <3> QED BY <1>7, <3>1, <3>2
  <2>2. \A i \in 1..cur' : request_buffers'[i] = <<>>
    <3> TAKE i \in 1..cur'
    <3>1. CASE i \in 1..cur
      <4>1. i # k /\ i \in 1..Len(request_buffers) BY <1>2, <1>3, <1>4, <3>1
      <4> QED BY <1>7, <3>1, <4>1 DEF CountInv
    <3>2. CASE i \notin 1..cur
      <4>1. i = k /\ n = Len(reqs) BY <1>1, <1>4, <3>2
      <4> QED BY <1>6, <1>7, <4>1
    <3> QED BY <3>1, <3>2
  <2> QED BY <1>1, <1>7, <2>1, <2>2 DEF CountInv
<1>12. CASE conn = "fin"
  <2>1. running BY <1>12 DEF LifeInv
  <2>2. sent' = sent BY <1>1, <1>12
  <2>3. QueueInv' BY <1>1, <1>12, <2>1 DEF QueueInv
  <2>4. SentInv' BY <1>1, <2>2 DEF SentInv
  <2> QED BY <2>3, <2>4, <1>9, <1>10, <1>11, <1>1, MethodsSent
<1>13. CASE conn = "open"
  <2>1. running /\ sent' = sent \o p BY <1>1, <1>13 DEF LifeInv
  <2> DEFINE F == Flatten(request_buffers)
             G == Flatten(request_buffers')
  <2>2. F = p \o G
    <3>1. \A i \in 1..(k - 1) : request_buffers[i] = <<>> BY <1>4 DEF CountInv
    <3>2. n \in 1..Len(request_buffers[k]) BY <1>1 DEF reqs
    <3>3. F = Cat(SubSeq(request_buffers[k], 1, n),
                  Flatten([request_buffers EXCEPT
                                ![k] = SubSeq(request_buffers[k], n + 1, Len(request_buffers[k]))]))
      <4> HIDE DEF IndInv
      <4>1. request_buffers \in Seq(Seq(Items)) /\ k \in 1..Len(request_buffers) BY <1>2, <1>4
      <4>2. \A j \in 1..Len(request_buffers) : \A m \in 1..Len(request_buffers[j]) :
              (\A i \in 1..(j - 1) : request_buffers[i] = <<>>) =>
                F = Cat(SubSeq(request_buffers[j], 1, m),
                        Flatten([request_buffers EXCEPT
                                     ![j] = SubSeq(request_buffers[j], m + 1,
                                                   Len(request_buffers[j]))]))
        BY <4>1, FlattenTaken, Zenon
      <4> QED BY <3>1, <3>2, <4>1, <4>2, Zenon
    <3> QED BY <1>1, <3>3 DEF p, q, reqs, Cat
  <2>3. G \in Seq(Items) /\ Pending \in Seq(Items) /\ Len(Pending) \in Nat /\ Len(G) \in Nat
    <3>1. Pending \in Seq(Items) BY <1>2, NoElements DEF Pending
    <3>2. G \in Seq(Items) BY <1>7, FlattenType
    <3> QED BY <3>1, <3>2, LenProperties
  <2>4. (sent \o F) \o Pending = asked BY <1>13, <2>1 DEF QueueInv, Sent
  <2> HIDE DEF F, G
  <2>5. (sent' \o G) \o Pending = asked
    <3>1. Cat(Cat(sent, p), G) = Cat(sent, Cat(p, G)) BY <1>2, <1>6, <2>3, CatAssociative
    <3> QED BY <2>1, <2>2, <2>4, <3>1 DEF Cat
  <2>6. QueueInv'
    <3>1. Sent' = sent' /\ Pending' = Pending BY <1>1, <2>1 DEF Sent, Pending
    <3> QED BY <1>1, <2>5, <3>1 DEF QueueInv, G
  <2>7. /\ Len(asked) = (Len(sent') + Len(G)) + Len(Pending)
        /\ \A i \in 1..Len(sent') : sent'[i] = asked[i]
    <3> DEFINE x == sent'
    <3>1. x \in Seq(Items) /\ asked = Cat(Cat(x, G), Pending) BY <1>8, <2>5 DEF Cat
    <3> HIDE DEF x
    <3>2. /\ Len(asked) = (Len(x) + Len(G)) + Len(Pending)
          /\ \A i \in 1..Len(x) : x[i] = asked[i]
      BY <2>3, <3>1, FirstOfThree
    <3> QED BY <3>2 DEF x
  <2>8. Len(sent') <= Len(asked) BY <1>3, <1>8, <2>3, <2>7
  <2>9. Len(sent') <= valid + (IF mpc = "bytes_valid" THEN 1 ELSE 0)
    <3>0. valid = Len(asked) - (IF mpc \in Unannounced THEN Len(arg) ELSE 0) BY DEF CountInv
    <3>1. CASE mpc \notin Unannounced
      BY <1>3, <1>8, <2>8, <3>0, <3>1 DEF Unannounced
    <3>2. CASE mpc \in {"one_valid", "pipe_buffer", "bytes_buffer"}
      <4>1. Pending = arg /\ valid = Len(asked) - Len(arg) /\ mpc # "bytes_valid"
        BY <3>0, <3>2 DEF Pending, Unbuffered, Unannounced
      <4> QED BY <1>3, <1>8, <2>3, <2>7, <4>1
    <3>3. CASE mpc \in {"pipe_valid", "bytes_nrreq"}
      <4>1. /\ valid = Len(asked) - Len(arg) /\ mpc # "bytes_valid" /\ mpc \in Uncounted
        BY <3>0, <3>3 DEF Unannounced, Uncounted
      <4>2. request_buffers'[Len(request_buffers')] = arg BY <1>1, <1>11, <4>1 DEF CountInv
      <4>3. Len(request_buffers') # 0 BY <1>3, <1>4, <1>7
      <4>4. PICK x \in Seq(Items) : G = x \o arg
        BY <1>7, <4>2, <4>3, FlattenLast DEF G
      <4>5. Len(G) = Len(x) + Len(arg) /\ Len(x) \in Nat BY <1>2, <4>4, Parts
      <4> QED BY <1>3, <1>8, <2>3, <2>7, <4>1, <4>5
    <3>4. CASE mpc = "bytes_valid"
      <4>1. valid = Len(asked) - 1 BY <3>0, <3>4 DEF Unannounced, LifeInv
      <4> QED BY <1>3, <1>8, <2>8, <3>4, <4>1
    <3> QED BY <3>1, <3>2, <3>3, <3>4 DEF Unannounced
  <2>10. SentInv' BY <1>1, <2>1, <2>7, <2>8, <2>9 DEF SentInv
  <2> QED BY <1>1, <1>9, <1>10, <1>11, <2>6, <2>10, MethodsSent
<1> QED BY <1>1, <1>12, <1>13

\* Steps of the polling thread and of the network that neither send nor ask.
LEMMA QueueKept ==
    ASSUME IndInv, conn' \in {"syn", "open"} => conn \in {"syn", "open"},
           UNCHANGED <<running, methods, request_buffers, nrreq, valid, cur, mpc, arg, asked, sent>>
    PROVE  CountInv' /\ QueueInv' /\ SentInv' /\ MethodInv'
<1> USE DEF IndInv
<1>1. CountInv' BY DEF CountInv
<1>2. QueueInv' BY DEF QueueInv, Sent, Pending
<1>3. SentInv' BY DEF SentInv
<1>4. MethodInv' BY MethodsKept
<1> QED BY <1>1, <1>2, <1>3, <1>4

\* Such a step that does not touch the text either.
LEMMA ConnPreserves ==
    ASSUME IndInv, running, conn' \in {"none", "syn", "open", "fin"}, parsing' \in BOOLEAN,
           conn' \in {"syn", "open"} => conn \in {"syn", "open"},
           UNCHANGED <<running, starts, clean, methods, request_buffers, nrreq, valid, cur,
                       mpc, arg, asked, responses, response_buffer, crashed, sent, answered, wire>>
    PROVE  IndInv'
<1> USE DEF IndInv
<1>1. TypeOK' BY DEF TypeOK
<1>2. LifeInv' BY DEF LifeInv
<1>3. CountInv' /\ QueueInv' /\ SentInv' /\ MethodInv' BY QueueKept
<1>4. TextInv' BY DEF TextInv
<1> QED BY <1>1, <1>2, <1>3, <1>4

\* The connection is made, refused or closed; a pass of _handle_read ends.
LEMMA NetworkPreserves ==
    ASSUME IndInv, Establish \/ ConnectFails \/ PeerCloses \/ SendFails \/ RecvEnd \/ ParseEnds
    PROVE  IndInv'
<1>1. running
  BY DEF IndInv, LifeInv, Establish, ConnectFails, PeerCloses, Network, SendFails, RecvEnd,
         ParseEnds
<1>2. parsing \in BOOLEAN /\ conn \in {"none", "syn", "open", "fin"} BY DEF IndInv, TypeOK
<1> USE DEF lifeVars, countVars, readVars, mainVars, peerVars
<1>3. CASE Establish BY <1>1, <1>2, <1>3, ConnPreserves DEF Establish, Network
<1>4. CASE ConnectFails BY <1>1, <1>2, <1>4, ConnPreserves DEF ConnectFails, Network
<1>5. CASE PeerCloses BY <1>1, <1>2, <1>5, ConnPreserves DEF PeerCloses, Network
<1>6. CASE SendFails BY <1>1, <1>2, <1>6, ConnPreserves DEF SendFails
<1>7. CASE RecvEnd
  <2>1. parsing' \in BOOLEAN
    <3>1. parsing' = (response_buffer # <<>>) BY <1>7 DEF RecvEnd
    <3> QED BY <3>1, Zenon
  <2> QED BY <1>1, <1>2, <1>7, <2>1, ConnPreserves DEF RecvEnd
<1>8. CASE ParseEnds BY <1>1, <1>2, <1>8, ConnPreserves DEF ParseEnds
<1> QED BY <1>3, <1>4, <1>5, <1>6, <1>7, <1>8

\* A reset loses the text under way; what the client has is the beginning of it.
LEMMA ResetPreserves == ASSUME IndInv, PeerResets PROVE IndInv'
<1> USE DEF IndInv
<1>1. /\ conn = "open" /\ conn' = "fin" /\ wire' = <<>>
      /\ UNCHANGED <<running, starts, clean, methods, request_buffers, nrreq, valid, cur,
                     mpc, arg, asked, responses, response_buffer, parsing, crashed, sent, answered>>
  BY DEF PeerResets, Network, lifeVars, countVars, readVars, mainVars
<1>2. TypeOK' BY <1>1, NoElements DEF TypeOK
<1>3. LifeInv' BY <1>1 DEF LifeInv
<1>4. CountInv' /\ QueueInv' /\ SentInv' /\ MethodInv' BY <1>1, QueueKept
<1>5. TextInv'
  <2> SUFFICES ASSUME clean, running PROVE TextInv' BY <1>1 DEF TextInv
  <2>1. response_buffer \in Seq(Piece) /\ wire \in Seq(Piece) BY DEF TypeOK
  <2>2. Chain(response_buffer \o wire, starts, asked, Len(responses), answered) BY DEF TextInv
  <2>3. Chain(response_buffer, starts, asked, Len(responses), answered)
    BY <2>1, <2>2, ChainPrefix
  <2>4. response_buffer \o <<>> = response_buffer BY <2>1, ConcatEmptySeq
  <2> QED BY <1>1, <2>3, <2>4 DEF TextInv
<1> QED BY <1>2, <1>3, <1>4, <1>5

\* recv() moves text from the connection to the buffer.
LEMMA RecvPreserves ==
    ASSUME IndInv, NEW n \in 1..(2 * MaxItems), Recv(n) PROVE IndInv'
<1> USE DEF IndInv
<1> DEFINE p == SubSeq(wire, 1, n)
           q == SubSeq(wire, n + 1, Len(wire))
<1>1. /\ conn \in {"open", "fin"} /\ n \in 1..Len(wire)
      /\ response_buffer' = response_buffer \o p /\ wire' = q /\ parsing' = TRUE
      /\ UNCHANGED <<running, starts, clean, conn, methods, request_buffers, nrreq, valid, cur,
                     mpc, arg, asked, responses, crashed, sent, answered>>
  BY DEF Recv, lifeVars, countVars, mainVars
<1>2. response_buffer \in Seq(Piece) /\ wire \in Seq(Piece) /\ Len(wire) \in Nat
  BY LenProperties DEF TypeOK
<1>3. p \in Seq(Piece) /\ q \in Seq(Piece) BY <1>1, <1>2
<1>4. wire = p \o q
  <2>1. 1 \in 1..(Len(wire) + 1) /\ n \in 0..Len(wire) /\ Len(wire) \in n..Len(wire)
    BY <1>1, <1>2
  <2>2. SubSeq(wire, 1, Len(wire)) = wire BY <1>2
  <2>3. 1 \in 1..(Len(wire) + 1) /\ n \in (1 - 1)..Len(wire) /\ Len(wire) \in n..Len(wire) BY <2>1
  <2>4. p \o q = SubSeq(wire, 1, Len(wire)) BY <1>2, <2>3, ConcatAdjacentSubSeq
  <2> QED BY <2>2, <2>4
<1> HIDE DEF p, q
<1>5. response_buffer' \in Seq(Piece) BY <1>1, <1>2, <1>3, Parts
<1>6. response_buffer' \o wire' = response_buffer \o wire
  <2>1. Cat(Cat(response_buffer, p), q) = Cat(response_buffer, Cat(p, q))
    BY <1>2, <1>3, CatAssociative
  <2> QED BY <1>1, <1>4, <2>1 DEF Cat
<1>7. running BY <1>1 DEF LifeInv
<1>8. TypeOK' BY <1>1, <1>3, <1>5 DEF TypeOK
<1>9. LifeInv' BY <1>1, <1>7 DEF LifeInv
<1>10. CountInv' /\ QueueInv' /\ SentInv' /\ MethodInv' BY <1>1, QueueKept
<1>11. TextInv' BY <1>1, <1>6 DEF TextInv
<1> QED BY <1>8, <1>9, <1>10, <1>11

\* The text in the buffer begins with the head of the response to the next request, and
\* the method looked up for it says how long this response is.
LEMMA NextPassRight ==
    ASSUME IndInv, running, clean, response_buffer # <<>>
    PROVE  /\ Len(responses) < Len(methods)
           /\ Head(response_buffer).part # "body"
           /\ PiecesNeeded(methods[Len(responses) + 1], Head(response_buffer))
                = (IF Single(asked[Len(responses) + 1]) THEN 1 ELSE 2)
<1> DEFINE i == Len(responses) + 1
           s == response_buffer \o wire
<1>1. /\ TypeOK /\ Chain(s, starts, asked, Len(responses), answered)
      /\ Len(sent) <= Len(asked) /\ Len(asked) <= Len(methods)
      /\ \A j \in 1..Len(asked) : methods[j] = MethodAt(j)
  BY DEF IndInv, TextInv, SentInv, MethodInv
<1>2. /\ Len(responses) \in Nat /\ Len(sent) \in Nat /\ Len(asked) \in Nat /\ Len(methods) \in Nat
      /\ answered \in 0..Len(sent) /\ i \in Nat /\ i = Len(responses) + 1
  BY <1>1, LenProperties DEF TypeOK
<1>3. response_buffer \in Seq(Piece) /\ wire \in Seq(Piece) BY <1>1 DEF TypeOK
<1>4. 1 \in 1..Len(response_buffer) /\ Head(response_buffer) = response_buffer[1]
  BY <1>3
<1>5. /\ s \in Seq(Piece) /\ s[1] = response_buffer[1] /\ 1 \in 1..Len(s) /\ s # <<>>
  <2>1. /\ s \in Seq(Piece) /\ Len(s) = Len(response_buffer) + Len(wire)
        /\ Len(response_buffer) \in Nat /\ Len(wire) \in Nat
        /\ \A j \in 1..Len(response_buffer) : s[j] = response_buffer[j]
    BY <1>3, Parts
  <2> HIDE DEF s
  <2>2. 1 \in 1..Len(s) BY <1>4, <2>1
  <2>3. s # <<>> BY <2>2
  <2> QED BY <1>4, <2>1, <2>2, <2>3
<1> HIDE DEF s, i
<1>6. s[1] = FirstPiece(starts, asked, i) /\ s[1].item <= answered
  BY <1>1, <1>2, <1>5 DEF Chain
<1>7. i <= answered
  <2>1. s[1].item = i BY <1>2, <1>6, PieceFields
  <2> QED BY <1>6, <2>1
<1>8. i \in 1..Len(asked) /\ Len(responses) < Len(methods) BY <1>1, <1>2, <1>7
<1>9. /\ methods[i] = IF asked[i] \in {"EXPECT", "BODY"} THEN "POST" ELSE asked[i]
      /\ Head(response_buffer).part = (IF asked[i] = "EXPECT" THEN "head100" ELSE "head200")
  <2>1. s[1].part = (IF asked[i] = "EXPECT" THEN "head100" ELSE "head200")
    BY <1>2, <1>6, PieceFields
  <2> QED BY <1>1, <1>4, <1>5, <1>8, <2>1 DEF MethodAt
<1> QED BY <1>2, <1>8, <1>9 DEF PiecesNeeded, Single

\* The loop of _handle_read raises only when the buffer was not empty at the start.
LEMMA RaisesPreserves == ASSUME IndInv, ParseRaises PROVE IndInv'
<1> USE DEF IndInv
<1>1. /\ parsing /\ NextPass = "raises"
      /\ crashed' = TRUE /\ parsing' = FALSE /\ conn' = "none"
      /\ UNCHANGED <<running, starts, clean, methods, request_buffers, nrreq, valid, cur,
                     mpc, arg, asked, responses, response_buffer, sent, answered, wire>>
  BY DEF ParseRaises, Crash, lifeVars, countVars, mainVars, peerVars
<1>2. running BY <1>1 DEF LifeInv
<1>3. ~clean
  <2> SUFFICES ASSUME clean PROVE FALSE OBVIOUS
  <2>1. /\ response_buffer # <<>>
        /\ Len(responses) >= Len(methods) \/ Head(response_buffer).part = "body"
    BY <1>1 DEF NextPass
  <2>2. Len(responses) \in Nat /\ Len(methods) \in Nat BY LenProperties DEF TypeOK
  <2>3. Len(responses) < Len(methods) /\ Head(response_buffer).part # "body"
    <3> HIDE DEF IndInv
    <3> QED BY <1>2, <2>1, NextPassRight
  <2> QED BY <2>1, <2>2, <2>3
<1>4. TypeOK' BY <1>1 DEF TypeOK
<1>5. LifeInv' BY <1>1, <1>2 DEF LifeInv
<1>6. CountInv' /\ QueueInv' /\ SentInv' /\ MethodInv' BY <1>1, QueueKept
<1>7. TextInv' BY <1>1, <1>3 DEF TextInv
<1> QED BY <1>4, <1>5, <1>6, <1>7

\* The beginning of the text and what is left of it, when the beginning is in the buffer.
LEMMA TextCut ==
    ASSUME NEW S, NEW x \in Seq(S), NEW y \in Seq(S), NEW n \in 1..Len(x)
    PROVE  /\ n <= Len(x \o y) /\ x \o y # <<>>
           /\ SubSeq(x \o y, 1, n) = SubSeq(x, 1, n)
           /\ SubSeq(x \o y, n + 1, Len(x \o y)) = SubSeq(x, n + 1, Len(x)) \o y
<1> DEFINE s == x \o y
           l == SubSeq(s, n + 1, Len(s))
           t == SubSeq(x, n + 1, Len(x))
           r == t \o y
           a == SubSeq(s, 1, n)
           b == SubSeq(x, 1, n)
<1>1. /\ s \in Seq(S) /\ Len(s) = Len(x) + Len(y) /\ Len(x) \in Nat /\ Len(y) \in Nat
      /\ \A i \in 1..Len(x) : s[i] = x[i]
      /\ \A i \in 1..Len(y) : s[Len(x) + i] = y[i]
  BY Parts
<1> HIDE DEF s
<1>2. n \in 1..Len(s) /\ n \in 0..Len(s) /\ n \in 0..Len(x) /\ n <= Len(s) /\ s # <<>> BY <1>1
<1>3. a \in Seq(S) /\ Len(a) = n /\ \A i \in 1..n : a[i] = s[i] BY <1>1, <1>2
<1>4. b \in Seq(S) /\ Len(b) = n /\ \A i \in 1..n : b[i] = x[i] BY <1>1, <1>2
<1>5. /\ l \in Seq(S) /\ Len(l) = Len(s) - n /\ \A j \in 1..Len(l) : l[j] = s[j + n]
  BY <1>1, <1>2, Rest
<1>6. /\ t \in Seq(S) /\ Len(t) = Len(x) - n /\ \A j \in 1..Len(t) : t[j] = x[j + n]
  BY <1>1, <1>2, Rest
<1> HIDE DEF a, b, l, t
<1>7. /\ r \in Seq(S) /\ Len(r) = Len(t) + Len(y) /\ Len(t) \in Nat
      /\ \A i \in 1..Len(t) : r[i] = t[i]
      /\ \A i \in 1..Len(y) : r[Len(t) + i] = y[i]
  <2>1. t \in Seq(S) BY <1>6
  <2> QED BY <2>1, Parts
<1> HIDE DEF r
<1>8. a = b
  <2>1. \A i \in 1..n : a[i] = b[i]
    <3> TAKE i \in 1..n
    <3>1. i \in 1..Len(x) BY <1>1
    <3> QED BY <1>1, <1>3, <1>4, <3>1
  <2> QED BY <1>3, <1>4, <2>1, SeqEqual
<1>9. l = r
  <2>1. Len(l) = Len(r) BY <1>1, <1>2, <1>5, <1>6, <1>7
  <2>2. \A i \in 1..Len(l) : l[i] = r[i]
    <3> TAKE i \in 1..Len(l)
    <3>1. l[i] = s[i + n] BY <1>5
    <3>2. CASE i \in 1..Len(t)
      <4>1. i + n \in 1..Len(x) BY <1>1, <1>6, <3>2
      <4> QED BY <1>1, <1>6, <1>7, <3>1, <3>2, <4>1
    <3>3. CASE i \notin 1..Len(t)
      <4> DEFINE j == i - Len(t)
      <4>1. j \in 1..Len(y) /\ Len(t) + j = i /\ Len(x) + j = i + n
        BY <1>1, <1>2, <1>5, <1>6, <1>7, <3>3
      <4> HIDE DEF j
      <4>2. s[Len(x) + j] = y[j] /\ r[Len(t) + j] = y[j] BY <1>1, <1>7, <4>1
      <4> QED BY <3>1, <4>1, <4>2
    <3> QED BY <3>2, <3>3
  <2> QED BY <1>5, <1>7, <2>1, <2>2, SeqEqual
<1> QED BY <1>2, <1>8, <1>9 DEF s, l, t, r, a, b

\* receive_response: the response to the next request leaves the text.
LEMMA ResponsePreserves == ASSUME IndInv, ParseResponse PROVE IndInv'
<1> USE DEF IndInv
<1> DEFINE n == PiecesNeeded(methods[Len(responses) + 1], Head(response_buffer))
           p == SubSeq(response_buffer, 1, n)
           q == SubSeq(response_buffer, n + 1, Len(response_buffer))
<1>1. /\ parsing /\ NextPass = "response"
      /\ responses' = Append(responses, p) /\ response_buffer' = q
      /\ UNCHANGED <<running, starts, clean, conn, methods, request_buffers, nrreq, valid, cur,
                     mpc, arg, asked, parsing, crashed, sent, answered, wire>>
  BY DEF ParseResponse, lifeVars, countVars, mainVars, peerVars
<1>2. n \in 1..2 BY DEF PiecesNeeded
<1>3. response_buffer # <<>> /\ ~(Len(response_buffer) < n) BY <1>1 DEF NextPass
<1> HIDE DEF n
<1>4. /\ response_buffer \in Seq(Piece) /\ wire \in Seq(Piece) /\ responses \in Seq(Seq(Piece))
      /\ Len(response_buffer) \in Nat /\ Len(responses) \in Nat
  BY LenProperties DEF TypeOK
<1>5. n \in 1..Len(response_buffer) BY <1>2, <1>3, <1>4
<1>6. p \in Seq(Piece) /\ q \in Seq(Piece) BY <1>4, <1>5
<1> HIDE DEF p, q
<1>7. /\ responses' \in Seq(Seq(Piece)) /\ Len(responses') = Len(responses) + 1
      /\ responses'[Len(responses) + 1] = p
      /\ \A i \in 1..Len(responses) : responses'[i] = responses[i]
  <2> DEFINE S == Seq(Piece)
  <2>1. responses \in Seq(S) /\ p \in S BY <1>4, <1>6
  <2> HIDE DEF S
  <2>2. /\ responses' \in Seq(S) /\ Len(responses') = Len(responses) + 1
        /\ responses'[Len(responses) + 1] = p
        /\ \A i \in 1..Len(responses) : responses'[i] = responses[i]
    BY <1>1, <2>1, AppendProperties
  <2> QED BY <2>2 DEF S
<1>8. running BY <1>1 DEF LifeInv
<1>9. TypeOK' BY <1>1, <1>6, <1>7 DEF TypeOK
<1>10. LifeInv' BY <1>1, <1>8 DEF LifeInv
<1>11. CountInv' /\ QueueInv' /\ SentInv' /\ MethodInv' BY <1>1, QueueKept
<1>12. TextInv'
  <2> SUFFICES ASSUME clean PROVE TextInv' BY <1>1 DEF TextInv
  <2> DEFINE s == response_buffer \o wire
             from == Len(responses)
  <2>1. n = (IF Single(asked[from + 1]) THEN 1 ELSE 2)
    <3> HIDE DEF IndInv
    <3> QED BY <1>3, <1>8, NextPassRight DEF n
  <2>2. /\ s \in Seq(Piece) /\ n <= Len(s) /\ s # <<>> /\ Begin(s, n) = p
        /\ Left(s, n) = q \o wire
    <3>1. s \in Seq(Piece) BY TextType
    <3>2. /\ n <= Len(s) /\ s # <<>> /\ SubSeq(s, 1, n) = p
          /\ SubSeq(s, n + 1, Len(s)) = q \o wire
      BY <1>4, <1>5, TextCut DEF p, q
    <3> QED BY <3>1, <3>2 DEF Begin, Left
  <2>3. /\ Chain(s, starts, asked, from, answered) /\ ~crashed
        /\ conn \in {"syn", "open"} => Complete(s, starts, asked, from, answered)
        /\ \A i \in 1..from : responses[i] = Answer(starts, i, asked[i])
    BY <1>8 DEF TextInv
  <2>4. from \in Nat /\ answered \in Nat BY <1>4 DEF TypeOK
  <2> HIDE DEF s, from
  <2> DEFINE u == Left(s, n)
  <2>5. /\ from + 1 <= answered
        /\ Begin(s, n) = Answer(starts, from + 1, asked[from + 1])
        /\ Chain(u, starts, asked, from + 1, answered)
        /\ Complete(s, starts, asked, from, answered)
             => Complete(u, starts, asked, from + 1, answered)
    <3> HIDE DEF IndInv
    <3>1. s \in Seq(Piece) /\ n <= Len(s) /\ s # <<>> BY <2>2
    <3>2. Chain(s, starts, asked, from, answered) BY <2>3
    <3> QED BY <1>2, <2>1, <2>4, <3>1, <3>2, ChainDrop
  <2> HIDE DEF u
  <2>6. response_buffer' \o wire' = u BY <1>1, <2>2 DEF u
  <2>7. Len(responses') = from + 1 BY <1>7 DEF from
  <2>8. \A i \in 1..(from + 1) : responses'[i] = Answer(starts, i, asked[i])
    <3> TAKE i \in 1..(from + 1)
    <3>1. CASE i = from + 1 BY <1>7, <2>2, <2>5, <3>1 DEF from
    <3>2. CASE i \in 1..from BY <1>7, <2>3, <3>2 DEF from
    <3> QED BY <2>4, <3>1, <3>2
  <2> QED BY <1>1, <2>3, <2>5, <2>6, <2>7, <2>8 DEF TextInv
<1> QED BY <1>9, <1>10, <1>11, <1>12

\* The peer answers the next request that it got.
LEMMA AnswersPreserves == ASSUME IndInv, PeerAnswers PROVE IndInv'
<1> USE DEF IndInv
<1> DEFINE k == answered + 1
           a == Answer(starts, k, sent[k])
<1>1. /\ conn = "open" /\ answered < Len(sent) /\ wire' = wire \o a /\ answered' = k
      /\ UNCHANGED <<running, starts, clean, conn, methods, request_buffers, nrreq, valid, cur,
                     mpc, arg, asked, responses, response_buffer, parsing, crashed, sent>>
  BY DEF PeerAnswers, lifeVars, countVars, readVars, mainVars
<1>2. running /\ starts \in 1..MaxStarts BY <1>1 DEF LifeInv
<1>3. /\ Len(sent) \in Nat /\ Len(asked) \in Nat /\ answered \in Nat /\ Len(asked) <= MaxItems
      /\ MaxItems \in Nat /\ Len(responses) \in Nat
      /\ Len(sent) <= Len(asked) /\ \A i \in 1..Len(sent) : sent[i] = asked[i]
  BY <1>2, LenProperties, BoundsAssumption DEF TypeOK, SentInv
<1>4. k \in 1..Len(sent) /\ k \in 1..MaxItems /\ k \in 0..Len(sent) /\ k \in Nat
  BY <1>1, <1>3
<1>5. a \in Seq(Piece)
  <2> HIDE DEF k, IndInv
  <2>1. a = IF Single(sent[k]) THEN <<FirstPiece(starts, sent, k)>>
            ELSE <<FirstPiece(starts, sent, k), LastPiece(starts, sent, k)>>
    BY <1>4, AnswerPieces
  <2>2. FirstPiece(starts, sent, k) \in Piece /\ LastPiece(starts, sent, k) \in Piece
    BY <1>2, <1>4, PieceTypes
  <2> HIDE DEF a
  <2>3. \A x, y \in Piece : <<x>> \in Seq(Piece) /\ <<x, y>> \in Seq(Piece) OBVIOUS
  <2> QED BY <2>1, <2>2, <2>3
<1>6. a = Answer(starts, k, asked[k]) BY <1>3, <1>4
<1>7. response_buffer \in Seq(Piece) /\ wire \in Seq(Piece) BY DEF TypeOK
<1> HIDE DEF a
<1>8. wire' \in Seq(Piece) BY <1>1, <1>5, <1>7, Parts
<1>9. TypeOK' BY <1>1, <1>4, <1>8 DEF TypeOK
<1>10. LifeInv' BY <1>1 DEF LifeInv
<1>11. CountInv' /\ QueueInv' /\ SentInv' /\ MethodInv' BY <1>1, QueueKept
<1>12. TextInv'
  <2> SUFFICES ASSUME clean PROVE TextInv' BY <1>1 DEF TextInv
  <2> DEFINE s == response_buffer \o wire
  <2>1. s \in Seq(Piece) BY TextType
  <2>2. /\ ~crashed /\ \A i \in 1..Len(responses) : responses[i] = Answer(starts, i, asked[i])
        /\ Len(responses) <= answered
        /\ Chain(s, starts, asked, Len(responses), answered)
        /\ Complete(s, starts, asked, Len(responses), answered)
    BY <1>1, <1>2 DEF TextInv
  <2>3. response_buffer' \o wire' = s \o a
    <3>1. Cat(Cat(response_buffer, wire), a) = Cat(response_buffer, Cat(wire, a))
      BY <1>5, <1>7, CatAssociative
    <3> QED BY <1>1, <3>1 DEF Cat
  <2> HIDE DEF s
  <2>4. /\ Chain(s \o a, starts, asked, Len(responses), k)
        /\ Complete(s \o a, starts, asked, Len(responses), k)
    <3>1. answered + 1 <= MaxItems BY <1>4
    <3> HIDE DEF IndInv, k
    <3>2. /\ Chain(s \o Answer(starts, answered + 1, asked[answered + 1]), starts, asked,
                   Len(responses), answered + 1)
          /\ Complete(s \o Answer(starts, answered + 1, asked[answered + 1]), starts, asked,
                      Len(responses), answered + 1)
      BY <1>2, <1>3, <2>1, <2>2, <3>1, ChainAdd
    <3> QED BY <1>6, <3>2 DEF k
  <2>5. Len(responses) <= k
    <3>1. Len(responses) \in Nat /\ answered \in Nat /\ Len(responses) <= answered BY <1>3, <2>2
    <3>2. \A x, y \in Nat : x <= y => x <= y + 1 OBVIOUS
    <3> QED BY <3>1, <3>2
  <2> QED BY <1>1, <2>2, <2>3, <2>4, <2>5 DEF TextInv
<1> QED BY <1>9, <1>10, <1>11, <1>12

\* The invariant is inductive: it holds initially, every step keeps it.
THEOREM Inductive == (Init => IndInv) /\ (IndInv /\ [Next]_vars => IndInv')
<1>1. Init => IndInv BY InitIndInv
<1>2. ASSUME IndInv, [Next]_vars PROVE IndInv'
  <2>1. CASE Start BY <1>2, <2>1, StartPreserves
  <2>2. CASE Stop BY <1>2, <2>2, StopPreserves
  <2>3. CASE SendBytes BY <1>2, <2>3, SendBytesPreserves
  <2>4. CASE \E reqs \in Batches, pipelined \in BOOLEAN : CheckRequests(reqs, pipelined)
    BY <1>2, <2>4, CheckPreserves
  <2>5. CASE \E stored \in {<<>>, <<"GET">>} : CheckRaises(stored)
    BY <1>2, <2>5, CheckRaisesPreserves
  <2>6. CASE CountValid BY <1>2, <2>6, CountValidPreserves
  <2>7. CASE AddToRequestBuffers BY <1>2, <2>7, AddPreserves
  <2>8. CASE CountNrreq BY <1>2, <2>8, CountNrreqPreserves
  <2>9. CASE WaitForResponse \/ WaitReturns \/ WaitTimesOut BY <1>2, <2>9, WaitPreserves
  <2>10. CASE \E n \in 1..MaxItems : SendData(n) BY <1>2, <2>10, SendPreserves
  <2>11. CASE \E n \in 1..(2 * MaxItems) : Recv(n) BY <1>2, <2>11, RecvPreserves
  <2>12. CASE Establish \/ ConnectFails \/ PeerCloses \/ SendFails \/ RecvEnd \/ ParseEnds
    BY <1>2, <2>12, NetworkPreserves
  <2>13. CASE ParseRaises BY <1>2, <2>13, RaisesPreserves
  <2>14. CASE ParseResponse BY <1>2, <2>14, ResponsePreserves
  <2>15. CASE PeerResets BY <1>2, <2>15, ResetPreserves
  <2>16. CASE PeerAnswers BY <1>2, <2>16, AnswersPreserves
  <2>17. CASE UNCHANGED vars
    <3>1. UNCHANGED <<running, starts, clean, conn, methods, request_buffers, nrreq, valid, cur,
                      responses, response_buffer, parsing, crashed, mpc, arg, asked, sent,
                      answered, wire>>
      BY <2>17 DEF vars, lifeVars, countVars, readVars, mainVars, peerVars
    <3>2. TypeOK' /\ LifeInv' BY <1>2, <3>1 DEF IndInv, TypeOK, LifeInv
    <3>3. CountInv' /\ QueueInv' /\ SentInv' /\ MethodInv' BY <1>2, <3>1, QueueKept
    <3>4. TextInv' BY <1>2, <3>1 DEF IndInv, TextInv
    <3> QED BY <3>2, <3>3, <3>4 DEF IndInv
  <2> QED
    BY <1>2, <2>1, <2>2, <2>3, <2>4, <2>5, <2>6, <2>7, <2>8, <2>9, <2>10, <2>11, <2>12, <2>13,
       <2>14, <2>15, <2>16, <2>17 DEF Next, MainThread, PollingThread, Peer
<1> QED BY <1>1, <1>2

\* Every state the client reaches satisfies the invariant.
THEOREM IndInvHolds == Spec => []IndInv
BY Inductive, PTL DEF Spec

\* Requests reach the peer in the order of the calls: what it got and what the buffers
\* hold, one after the other, begin the list of what the test asked for, for every number
\* of requests, every batch and every way _send_data cuts the buffers.
THEOREM OrderKept == Spec => []RequestsInOrder
<1>1. ASSUME IndInv PROVE RequestsInOrder
  <2> USE <1>1 DEF IndInv
  <2> DEFINE x == sent \o Flatten(request_buffers)
  <2> SUFFICES ASSUME conn = "open" PROVE Len(x) <= Len(asked) /\ x = SubSeq(asked, 1, Len(x))
    BY DEF RequestsInOrder
  <2>1. running BY DEF LifeInv
  <2>2. x \o Pending = asked BY <2>1 DEF QueueInv, Sent
  <2>3. x \in Seq(Items) /\ Pending \in Seq(Items)
    <3>1. sent \in Seq(Items) /\ Flatten(request_buffers) \in Seq(Items)
      BY FlattenType DEF TypeOK
    <3>2. Pending \in Seq(Items) BY NoElements DEF TypeOK, Pending
    <3> QED BY <3>1, <3>2, Parts
  <2> HIDE DEF x
  <2>4. /\ Len(asked) = Len(x) + Len(Pending) /\ Len(x) \in Nat /\ Len(Pending) \in Nat
        /\ \A i \in 1..Len(x) : asked[i] = x[i]
    BY <2>2, <2>3, Parts
  <2>5. Len(x) <= Len(asked)
    <3>1. Len(asked) = Len(x) + Len(Pending) /\ Len(x) \in Nat /\ Len(Pending) \in Nat BY <2>4
    <3>2. \A a, b \in Nat : a <= a + b OBVIOUS
    <3> QED BY <3>1, <3>2
  <2>6. SubSeq(asked, 1, Len(x)) = x
    <3> DEFINE y == SubSeq(asked, 1, Len(x))
    <3>1. asked \in Seq(Items) BY DEF TypeOK
    <3>2. y \in Seq(Items) /\ Len(y) = Len(x) /\ \A i \in 1..Len(x) : y[i] = asked[i]
      BY <2>4, <2>5, <3>1
    <3> HIDE DEF y
    <3>3. y = x BY <2>3, <2>4, <3>2, SeqEqual
    <3> QED BY <3>3 DEF y
  <2> QED BY <2>5, <2>6
<1> QED BY <1>1, IndInvHolds, PTL

\* What the test reads is right: every response is the whole response to its request, in
\* the order of the requests, the loop of _handle_read raises nothing, and no response is
\* there before _valid_req_num announces it (send_bytes between its counters excepted).
THEOREM AnswersRight == Spec => []ResponsesRight
<1>1. ASSUME IndInv PROVE ResponsesRight
  <2> USE <1>1 DEF IndInv
  <2>1. ResponsesMatch BY DEF TextInv, ResponsesMatch
  <2>2. ExpectedCounted
    <3> SUFFICES ASSUME clean, mpc # "bytes_valid" PROVE Len(responses) <= valid
      BY DEF ExpectedCounted
    <3>1. /\ valid \in Nat /\ Len(responses) \in Nat /\ Len(sent) \in Nat
          /\ answered \in 0..Len(sent)
      <4>1. Len(responses) \in Nat /\ Len(sent) \in Nat BY LenProperties DEF TypeOK
      <4>2. Len(asked) \in Nat BY LenProperties DEF TypeOK
      <4> QED BY <4>1, <4>2 DEF TypeOK
    <3>2. CASE running
      <4>1. Len(responses) <= answered /\ Len(sent) <= valid
        BY <3>1, <3>2 DEF TextInv, SentInv
      <4> QED BY <3>1, <4>1
    <3>3. CASE ~running
      <4>1. Len(responses) = 0 BY <3>3, NoElements DEF LifeInv
      <4> QED BY <3>1, <4>1
    <3> QED BY <3>2, <3>3
  <2> QED BY <2>1, <2>2 DEF ResponsesRight
<1> QED BY <1>1, IndInvHolds, PTL

=============================================================================
