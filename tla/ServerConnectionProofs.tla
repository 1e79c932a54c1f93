----------------------- MODULE ServerConnectionProofs -----------------------
(***************************************************************************)
(* Proofs about ServerConnection: its two tasks, close() from three sides  *)
(* and flush() lose nothing, respect keep_alive and implement Connection,  *)
(* for every set of server options and any number of requests.             *)
(***************************************************************************)
EXTENDS ServerConnection, SequenceTheorems, TLAPS

QItem == [from : Nat, n : Int]

\* The number of the last response of an item, and of a queue whose first item
\* follows on from response t.
End(it) == it.from + it.n
LastEnd(q, t) == IF q = <<>> THEN t ELSE End(q[Len(q)])

NoStop(q) == \A i \in 1..Len(q) : q[i] # Stop
HasStop(q) == \E i \in 1..Len(q) : q[i] = Stop

\* The items of q up to the first Stop follow on from response t and one another.
InOrder(q, t) ==
    \A i \in 1..Len(q) :
        (\A j \in 1..i : q[j] # Stop) => q[i].from = (IF i = 1 THEN t ELSE End(q[i - 1]))

\* No item of q is longer than b or reaches beyond response a.
Within(q, b, a) ==
    \A i \in 1..Len(q) : q[i] = Stop \/ (q[i].n \in 0..b /\ End(q[i]) <= a)

\* The write task has not ended and is not about to.
Alive == wpc \in {"start", "get", "write", "written"}

\* A queue q in which the write task will find responses up to e, of a responses in
\* all, in order, and the Stop once close() was called.
QueueInv(q, a, e) ==
    /\ q \in Seq(QItem)
    /\ Within(q, Batch, a)
    /\ Alive => InOrder(q, Taken)
    /\ rw => NoStop(q) /\ e = LastEnd(q, Taken)
    /\ ~rw /\ Alive => HasStop(q)

\* close() takes effect at once: nobody is in it while _readwrite is set, and the
\* tasks do not end before it is called.
CloseInv ==
    /\ rw => inlist /\ Alive /\ spc # "closing" /\ rpc \in {"start", "read", "cancelled"}
    /\ tr = "open" => rw

\* What was parsed, is buffered and is to come never exceeds the whole; it is the
\* whole until close() or a cancelled read task drop some of it.
StreamInv ==
    /\ 2 * nrreq + rbuf + inq + togo <= 2 * MaxReq
    /\ rw /\ ~skew => 2 * nrreq + rbuf + inq + togo = 2 * MaxReq

\* There is at most one response for a request, and the greeting.
AnswerInv ==
    /\ answered <= nrreq + (IF cfg.greet THEN 1 ELSE 0)
    /\ cur <= answered

\* The item in hand: the next responses, at most a batch; _responses_done lags behind
\* what was written by the item that is not counted yet, and is below keep_alive as
\* long as the task goes on.
WriteInv ==
    /\ item.n <= Batch
    /\ wpc = "write" => item.from = wrote /\ End(item) <= answered
    /\ wpc \in {"start", "get", "write"} => wrote = done
    /\ wpc = "written" => wrote = done + item.n
    /\ Alive /\ cfg.keep_alive > 0 => done < cfg.keep_alive

\* The inductive invariant.
IndInv ==
    /\ TypeOK /\ QueueInv(queue, answered, answered - cur)
    /\ CloseInv /\ StreamInv /\ AnswerInv /\ WriteInv /\ KeepAliveBound

-----------------------------------------------------------------------------
(* What the operators do. *)

\* The size of a batch, and how many batches and how much of one are in x responses.
LEMMA BatchType ==
    ASSUME cfg \in Configs
    PROVE  Batch \in Nat /\ Batch > 0
  BY ConfigsAssumption DEF Batch, Config

\* Quotient and remainder of a natural number.
LEMMA DivMod ==
    ASSUME NEW x \in Nat, NEW b \in Nat, b > 0
    PROVE  /\ x \div b \in Nat /\ x % b \in 0..(b - 1)
           /\ x % b = x - b * (x \div b)
<1>1. x \div b \in Nat /\ x % b \in 0..(b - 1)
  OBVIOUS
<1>2. x % b = x - b * (x \div b)
  OBVIOUS
<1> QED
  BY <1>1, <1>2

\* Where the i-th of k runs of b numbers begins and ends.
LEMMA Multiples ==
    ASSUME NEW b \in Nat, NEW i \in Nat, NEW k \in Nat, 1 <= i, i <= k
    PROVE  /\ (i - 1) * b \in Nat /\ (i - 1) * b + b = i * b
           /\ i * b \in Nat /\ i * b <= b * k
  OBVIOUS

\* The item that close() queues is a queue item of its own.
LEMMA StopType == Stop \in QItem /\ Stop.n = -1 /\ Stop.from = 0
  BY DEF Stop, Item, QItem

\* flush() puts one item behind the queue.
LEMMA PutItem ==
    ASSUME NEW q, NEW a \in Int, NEW e \in Int, QueueInv(q, a, e), Batch \in Nat,
           NEW it \in QItem, it.n \in 0..Batch, it.from = e, NEW a2 \in Int, a <= a2, End(it) <= a2,
           Taken \in Int
    PROVE  QueueInv(Append(q, it), a2, End(it))
<1> DEFINE r == Append(q, it)
<1>1. /\ q \in Seq(QItem) /\ Len(q) \in Nat /\ r \in Seq(QItem)
      /\ Len(r) = Len(q) + 1 /\ r[Len(q) + 1] = it
      /\ \A i \in 1..Len(q) : r[i] = q[i]
      /\ r # <<>>
  BY AppendProperties, LenProperties DEF QueueInv
<1>2. it # Stop
  BY StopType
<1> HIDE DEF r
<1>3. Within(r, Batch, a2)
  <2> SUFFICES ASSUME NEW i \in 1..Len(r)
               PROVE  r[i] = Stop \/ (r[i].n \in 0..Batch /\ End(r[i]) <= a2)
    BY DEF Within
  <2>1. CASE i = Len(q) + 1
    BY <1>1, <2>1
  <2>2. CASE i \in 1..Len(q)
    <3>1. q[i] = Stop \/ (q[i].n \in 0..Batch /\ End(q[i]) <= a)
      BY <2>2 DEF QueueInv, Within
    <3>2. q[i] \in QItem
      BY <1>1, <2>2, ElementOfSeq
    <3>3. End(q[i]) \in Int
      BY <3>2 DEF End, QItem
    <3> QED
      BY <1>1, <2>2, <3>1, <3>3
  <2> QED
    BY <1>1, <2>1, <2>2
<1>4. NoStop(q) => NoStop(r)
  BY <1>1, <1>2 DEF NoStop
<1>5. HasStop(q) => HasStop(r)
  BY <1>1 DEF HasStop
<1>6. LastEnd(r, Taken) = End(it)
  BY <1>1 DEF LastEnd
<1>7. ASSUME Alive
      PROVE  InOrder(r, Taken)
  <2> SUFFICES ASSUME NEW i \in 1..Len(r), \A j \in 1..i : r[j] # Stop
               PROVE  r[i].from = (IF i = 1 THEN Taken ELSE End(r[i - 1]))
    BY DEF InOrder
  <2>1. CASE i \in 1..Len(q)
    <3>1. q[i].from = (IF i = 1 THEN Taken ELSE End(q[i - 1]))
      BY <1>1, <1>7, <2>1 DEF QueueInv, InOrder
    <3>2. i # 1 => r[i - 1] = q[i - 1]
      BY <1>1, <2>1
    <3> QED
      BY <1>1, <2>1, <3>1, <3>2
  <2>2. CASE i = Len(q) + 1
    <3>1. rw
      BY <1>1, <1>7, <2>2 DEF QueueInv, HasStop
    <3>2. it.from = LastEnd(q, Taken)
      BY <3>1 DEF QueueInv
    <3>3. CASE q = <<>>
      BY <1>1, <2>2, <3>2, <3>3 DEF LastEnd
    <3>4. CASE q # <<>>
      <4>1. Len(q) > 0 /\ i - 1 = Len(q) /\ i # 1
        BY <1>1, <2>2, <3>4, EmptySeq
      <4> QED
        BY <1>1, <2>2, <3>2, <3>4, <4>1 DEF LastEnd
    <3> QED
      BY <3>3, <3>4
  <2> QED
    BY <1>1, <2>1, <2>2
<1> QED
  BY <1>1, <1>3, <1>4, <1>5, <1>6, <1>7 DEF QueueInv, r

\* The items of the batches that m more responses fill.
LEMMA BatchesType ==
    ASSUME TypeOK, AnswerInv, NEW m \in Nat
    PROVE  LET F == FullBatches(m)
               k == (cur + m) \div Batch
           IN  /\ F \in Seq(QItem) /\ Len(F) = k /\ k \in Nat
               /\ Unflushed(m) \in 0..(Batch - 1) /\ Unflushed(m) <= cur + m
               /\ (answered + m) - Unflushed(m) = answered - cur + Batch * k
               /\ \A i \in 1..k : /\ F[i].n = Batch /\ F[i] # Stop
                                  /\ F[i].from = answered - cur + (i - 1) * Batch
                                  /\ End(F[i]) = answered - cur + i * Batch
                                  /\ End(F[i]) <= answered + m
<1> DEFINE F == FullBatches(m)
           k == (cur + m) \div Batch
<1>1. Batch \in Nat /\ Batch > 0 /\ cur \in Nat /\ answered \in Nat /\ cur <= answered
  BY BatchType DEF TypeOK, AnswerInv
<1>2. k \in Nat /\ Unflushed(m) \in 0..(Batch - 1) /\ Unflushed(m) = cur + m - Batch * k
  BY <1>1, DivMod DEF Unflushed
<1>3. F = [i \in 1..k |-> Item(answered - cur + (i - 1) * Batch, Batch)]
  BY DEF FullBatches
<1> HIDE DEF F, k
<1>4. ASSUME NEW i \in 1..k
      PROVE  /\ F[i].n = Batch /\ F[i].from = answered - cur + (i - 1) * Batch
             /\ F[i] \in QItem /\ F[i] # Stop
             /\ End(F[i]) = answered - cur + i * Batch
             /\ End(F[i]) <= answered + m
  <2>1. /\ (i - 1) * Batch \in Nat /\ (i - 1) * Batch + Batch = i * Batch
        /\ i * Batch \in Nat /\ i * Batch <= Batch * k
    BY <1>1, <1>2, Multiples
  <2>2. F[i] = Item(answered - cur + (i - 1) * Batch, Batch)
    BY <1>3
  <2>3. F[i].n = Batch /\ F[i].from = answered - cur + (i - 1) * Batch /\ F[i] \in QItem
    BY <1>1, <2>1, <2>2 DEF Item, QItem
  <2>4. Batch * k \in Int
    BY <1>1, <1>2
  <2> QED
    BY <1>1, <1>2, <2>1, <2>3, <2>4, StopType DEF End
<1>5. F \in Seq(QItem) /\ Len(F) = k
  <2>1. F \in [1..k -> QItem]
    BY <1>3, <1>4
  <2>2. F \in Seq(QItem)
    BY <1>2, <2>1, SeqDef
  <2> QED
    BY <1>2, <2>1, <2>2, LenProperties
<1>6. (answered + m) - Unflushed(m) = answered - cur + Batch * k
  <2>1. Batch * k \in Int
    BY <1>1, <1>2
  <2> QED
    BY <1>1, <1>2, <2>1
<1>7. Unflushed(m) <= cur + m
  <2>1. Batch * k \in Nat
    BY <1>1, <1>2
  <2> QED
    BY <1>1, <1>2, <2>1
<1> QED
  BY <1>2, <1>4, <1>5, <1>6, <1>7 DEF F, k

\* The read task puts the batches that m more responses fill behind the queue.
LEMMA PutBatches ==
    ASSUME IndInv, NEW m \in Nat
    PROVE  QueueInv(queue \o FullBatches(m), answered + m, (answered + m) - Unflushed(m))
<1> DEFINE F == FullBatches(m)
           k == (cur + m) \div Batch
           r == queue \o F
           e == answered - cur
<1>1. /\ F \in Seq(QItem) /\ Len(F) = k /\ k \in Nat
      /\ (answered + m) - Unflushed(m) = e + Batch * k
      /\ \A i \in 1..k : /\ F[i].n = Batch /\ F[i] # Stop
                         /\ F[i].from = e + (i - 1) * Batch
                         /\ End(F[i]) = e + i * Batch
                         /\ End(F[i]) <= answered + m
  BY BatchesType DEF IndInv
<1>2. /\ Batch \in Nat /\ answered \in Nat /\ cur \in Nat /\ Taken \in Nat /\ e \in Int
      /\ queue \in Seq(QItem) /\ Len(queue) \in Nat
  BY BatchType, LenProperties DEF IndInv, TypeOK, QueueInv, Taken
<1> HIDE DEF F, k, e
<1>3. /\ r \in Seq(QItem) /\ Len(r) = Len(queue) + k
      /\ \A i \in 1..Len(queue) : r[i] = queue[i]
      /\ \A i \in 1..k : r[Len(queue) + i] = F[i]
  <2>1. /\ r \in Seq(QItem) /\ Len(r) = Len(queue) + k
        /\ \A i \in 1..(Len(queue) + k) :
              r[i] = IF i <= Len(queue) THEN queue[i] ELSE F[i - Len(queue)]
    BY <1>1, <1>2, ConcatProperties
  <2> HIDE DEF r
  <2>2. \A i \in 1..Len(queue) : i \in 1..(Len(queue) + k) /\ i <= Len(queue)
    BY <1>1, <1>2
  <2>3. \A i \in 1..k : /\ Len(queue) + i \in 1..(Len(queue) + k) /\ ~(Len(queue) + i <= Len(queue))
                        /\ (Len(queue) + i) - Len(queue) = i
    BY <1>1, <1>2
  <2> QED
    BY <2>1, <2>2, <2>3
<1> HIDE DEF r
<1>4. ASSUME NEW i \in 1..Len(r)
      PROVE  i \in 1..Len(queue) \/ \E l \in 1..k : i = Len(queue) + l
  <2>1. CASE i > Len(queue)
    <3>1. i - Len(queue) \in 1..k /\ i = Len(queue) + (i - Len(queue))
      BY <1>1, <1>2, <1>3, <2>1
    <3> QED
      BY <3>1
  <2> QED
    BY <1>2, <1>3, <2>1
<1>5. Within(r, Batch, answered + m)
  <2> SUFFICES ASSUME NEW i \in 1..Len(r)
               PROVE  r[i] = Stop \/ (r[i].n \in 0..Batch /\ End(r[i]) <= answered + m)
    BY DEF Within
  <2>1. CASE i \in 1..Len(queue)
    <3>1. queue[i] = Stop \/ (queue[i].n \in 0..Batch /\ End(queue[i]) <= answered)
      BY <2>1 DEF IndInv, QueueInv, Within
    <3>2. End(queue[i]) \in Int
      <4>1. queue[i] \in QItem
        BY <1>2, <2>1, ElementOfSeq
      <4> QED
        BY <4>1 DEF End, QItem
    <3> QED
      BY <1>2, <1>3, <2>1, <3>1, <3>2
  <2>2. ASSUME NEW l \in 1..k, i = Len(queue) + l
        PROVE  r[i].n \in 0..Batch /\ End(r[i]) <= answered + m
    <3>1. r[i] = F[l]
      BY <1>3, <2>2
    <3>2. F[l].n = Batch /\ End(F[l]) <= answered + m
      BY <1>1
    <3> QED
      BY <1>2, <3>1, <3>2
  <2> QED
    BY <1>4, <2>1, <2>2
<1>6. NoStop(queue) => NoStop(r)
  <2>1. \A l \in 1..k : r[Len(queue) + l] # Stop
    BY <1>1, <1>3
  <2> QED
    BY <1>3, <1>4, <2>1 DEF NoStop
<1>7. HasStop(queue) => HasStop(r)
  BY <1>1, <1>2, <1>3 DEF HasStop
<1>8. ASSUME rw
      PROVE  e + Batch * k = LastEnd(r, Taken)
  <2>1. e = LastEnd(queue, Taken)
    BY <1>8 DEF IndInv, QueueInv, e
  <2>2. CASE k = 0
    <3>1. r = queue
      BY <1>1, <1>2, <1>3, <2>2, SeqEqual
    <3>2. Batch * k = 0
      BY <1>2, <2>2
    <3> QED
      BY <1>2, <2>1, <3>1, <3>2
  <2>3. CASE k > 0
    <3>1. Len(r) = Len(queue) + k /\ r # <<>> /\ r[Len(r)] = F[k]
      BY <1>1, <1>2, <1>3, <2>3, EmptySeq
    <3>2. End(F[k]) = e + k * Batch /\ k * Batch = Batch * k
      BY <1>1, <1>2, <2>3
    <3> QED
      BY <3>1, <3>2 DEF LastEnd
  <2> QED
    BY <1>1, <2>2, <2>3
<1>9. ASSUME Alive
      PROVE  InOrder(r, Taken)
  <2> SUFFICES ASSUME NEW i \in 1..Len(r), \A j \in 1..i : r[j] # Stop
               PROVE  r[i].from = (IF i = 1 THEN Taken ELSE End(r[i - 1]))
    BY DEF InOrder
  <2>1. CASE i \in 1..Len(queue)
    <3>1. \A j \in 1..i : queue[j] # Stop
      BY <1>2, <1>3, <2>1
    <3>2. queue[i].from = (IF i = 1 THEN Taken ELSE End(queue[i - 1]))
      BY <1>9, <2>1, <3>1 DEF IndInv, QueueInv, InOrder
    <3>3. i # 1 => r[i - 1] = queue[i - 1]
      BY <1>2, <1>3, <2>1
    <3> QED
      BY <1>3, <2>1, <3>2, <3>3
  <2>2. ASSUME NEW l \in 1..k, i = Len(queue) + l
        PROVE  r[i].from = (IF i = 1 THEN Taken ELSE End(r[i - 1]))
    <3>1. rw
      <4>1. \A j \in 1..Len(queue) : j \in 1..i
        BY <1>2, <2>2
      <4> QED
        BY <1>3, <1>9, <4>1 DEF IndInv, QueueInv, HasStop
    <3>2. e = LastEnd(queue, Taken)
      BY <3>1 DEF IndInv, QueueInv, e
    <3>3. r[i].from = e + (l - 1) * Batch
      BY <1>1, <1>3, <2>2
    <3>4. CASE l = 1
      <4>1. r[i].from = e
        BY <1>2, <3>3, <3>4
      <4>2. CASE queue = <<>>
        BY <2>2, <3>2, <3>4, <4>1, <4>2 DEF LastEnd
      <4>3. CASE queue # <<>>
        <5>1. Len(queue) \in 1..Len(queue) /\ i - 1 = Len(queue) /\ i # 1
          BY <1>2, <2>2, <3>4, <4>3, EmptySeq
        <5> QED
          BY <1>3, <3>2, <4>1, <4>3, <5>1 DEF LastEnd
      <4> QED
        BY <4>2, <4>3
    <3>5. CASE l # 1
      <4>1. l - 1 \in 1..k /\ i - 1 = Len(queue) + (l - 1) /\ i # 1
        BY <1>1, <1>2, <2>2, <3>5
      <4>2. r[i - 1] = F[l - 1]
        BY <1>3, <4>1
      <4> QED
        BY <1>1, <3>3, <4>1, <4>2
    <3> QED
      BY <3>4, <3>5
  <2> QED
    BY <1>4, <2>1, <2>2
<1> QED
  BY <1>1, <1>3, <1>5, <1>6, <1>7, <1>8, <1>9 DEF QueueInv, IndInv, r, F

\* close() puts the Stop behind the queue, once; whoever calls it later changes nothing.
LEMMA CloseQueue ==
    ASSUME NEW q, CloseBegins(q) \/ CloseReturns(q), cfg' = cfg,
           QueueInv(q, answered', answered' - cur'),
           UNCHANGED writeVars \/ wpc' \in {"closing", "end"}
    PROVE  QueueInv(queue, answered, answered - cur)'
<1>1. Batch' = Batch /\ q \in Seq(QItem) /\ Len(q) \in Nat
  BY LenProperties DEF Batch, QueueInv
<1>2. Alive' => Alive /\ Taken' = Taken
  BY DEF Alive, Taken, writeVars
<1>3. CASE CloseReturns(q)
  BY <1>1, <1>2, <1>3 DEF CloseReturns, QueueInv
<1>4. CASE CloseBegins(q)
  <2>1. queue' = Append(q, Stop) /\ rw /\ ~rw'
    BY <1>4 DEF CloseBegins
  <2>2. /\ queue' \in Seq(QItem) /\ Len(queue') = Len(q) + 1 /\ queue'[Len(q) + 1] = Stop
        /\ \A i \in 1..Len(q) : queue'[i] = q[i]
    BY <1>1, <2>1, StopType, AppendProperties
  <2>3. \A i \in 1..Len(queue') : i \in 1..Len(q) \/ i = Len(q) + 1
    BY <1>1, <2>2
  <2>4. Within(queue', Batch, answered')
    BY <2>2, <2>3 DEF QueueInv, Within
  <2>5. HasStop(queue')
    BY <1>1, <2>2 DEF HasStop
  <2>6. ASSUME Alive
        PROVE  InOrder(queue', Taken)
    <3> SUFFICES ASSUME NEW i \in 1..Len(queue'), \A j \in 1..i : queue'[j] # Stop
                 PROVE  queue'[i].from = (IF i = 1 THEN Taken ELSE End(queue'[i - 1]))
      BY DEF InOrder
    <3>1. i \in 1..Len(q)
      BY <1>1, <2>2, <2>3
    <3>2. \A j \in 1..i : q[j] # Stop
      BY <1>1, <2>2, <3>1
    <3>3. q[i].from = (IF i = 1 THEN Taken ELSE End(q[i - 1]))
      BY <2>6, <3>1, <3>2 DEF QueueInv, InOrder
    <3>4. i # 1 => queue'[i - 1] = q[i - 1]
      BY <1>1, <2>2, <3>1
    <3> QED
      BY <2>2, <3>1, <3>3, <3>4
  <2> QED
    BY <1>1, <1>2, <2>1, <2>2, <2>4, <2>5, <2>6 DEF QueueInv
<1> QED
  BY <1>3, <1>4

\* ... and the rest of what close() does before its await.
LEMMA CloseEffect ==
    ASSUME TypeOK, NEW q, CloseBegins(q) \/ CloseReturns(q)
    PROVE  /\ ~rw' /\ rw' \in BOOLEAN /\ tr' \in Transport
           /\ tr' = "open" => tr = "open" /\ ~rw
<1>1. CASE CloseReturns(q)
  BY <1>1 DEF TypeOK, CloseReturns
<1>2. CASE CloseBegins(q)
  <2>1. tr' \in TransportClose /\ rw' = FALSE
    BY <1>2 DEF CloseBegins
  <2>2. CASE tr = "open"
    <3>1. wrote + seg > 0 \/ wrote + seg = 0
      BY DEF TypeOK
    <3>2. tr' \in {"flushing", "closing"}
      BY <2>1, <2>2, <3>1 DEF TransportClose
    <3> QED
      BY <2>1, <3>2 DEF Transport
  <2>3. CASE tr # "open"
    BY <2>1, <2>3 DEF TransportClose, TypeOK
  <2> QED
    BY <2>2, <2>3
<1> QED
  BY <1>1, <1>2

\* The write task takes the first item, which holds the next responses.
LEMMA TakeItem ==
    ASSUME IndInv, wpc = "get", queue # <<>>
    PROVE  /\ Tail(queue) \in Seq(QItem) /\ Within(Tail(queue), Batch, answered)
           /\ Head(queue) = Stop => ~rw
           /\ Head(queue) # Stop =>
                /\ Head(queue) \in [from : Nat, n : Nat] /\ Head(queue).from = wrote
                /\ Head(queue).n <= Batch /\ End(Head(queue)) <= answered
                /\ InOrder(Tail(queue), End(Head(queue)))
                /\ rw => NoStop(Tail(queue)) /\ answered - cur = LastEnd(Tail(queue), End(Head(queue)))
                /\ ~rw => HasStop(Tail(queue))
<1> DEFINE h == Head(queue)
           t == Tail(queue)
<1>1. /\ queue \in Seq(QItem) /\ Len(queue) \in Nat /\ Len(queue) > 0
      /\ h = queue[1] /\ h \in QItem /\ t \in Seq(QItem) /\ Len(t) = Len(queue) - 1
      /\ \A i \in 1..Len(t) : t[i] = queue[i + 1]
  BY HeadTailProperties, EmptySeq, LenProperties DEF IndInv, QueueInv
<1>2. Taken = wrote /\ Alive /\ wrote \in Nat /\ Batch \in Nat
  BY BatchType DEF IndInv, TypeOK, Taken, Alive
<1>3. \A i \in 1..Len(t) : i + 1 \in 1..Len(queue)
  BY <1>1
<1> HIDE DEF h, t
<1>4. Within(t, Batch, answered)
  BY <1>1, <1>3 DEF IndInv, QueueInv, Within
<1>5. h = Stop => ~rw
  <2>1. 1 \in 1..Len(queue)
    BY <1>1
  <2> QED
    BY <1>1, <2>1 DEF IndInv, QueueInv, NoStop
<1>6. ASSUME h # Stop
      PROVE  /\ h \in [from : Nat, n : Nat] /\ h.from = wrote /\ h.n <= Batch /\ End(h) <= answered
             /\ InOrder(t, End(h))
             /\ rw => NoStop(t) /\ answered - cur = LastEnd(t, End(h))
             /\ ~rw => HasStop(t)
  <2>1. h.n \in 0..Batch /\ End(h) <= answered
    BY <1>1, <1>6 DEF IndInv, QueueInv, Within
  <2>2. h.from = wrote
    <3>1. 1 \in 1..Len(queue) /\ \A j \in 1..1 : queue[j] # Stop
      BY <1>1, <1>6
    <3> QED
      BY <1>1, <1>2, <3>1 DEF IndInv, QueueInv, InOrder
  <2>3. h \in [from : Nat, n : Nat] /\ h.n <= Batch
    BY <1>1, <1>2, <2>1 DEF QItem
  <2>4. InOrder(t, End(h))
    <3> SUFFICES ASSUME NEW i \in 1..Len(t), \A j \in 1..i : t[j] # Stop
                 PROVE  t[i].from = (IF i = 1 THEN End(h) ELSE End(t[i - 1]))
      BY DEF InOrder
    <3>1. \A j \in 1..(i + 1) : queue[j] # Stop
      <4> SUFFICES ASSUME NEW j \in 1..(i + 1), j # 1 PROVE queue[j] # Stop
        BY <1>1, <1>6
      <4>1. j - 1 \in 1..i /\ j - 1 \in 1..Len(t) /\ (j - 1) + 1 = j
        BY <1>1
      <4> QED
        BY <1>1, <4>1
    <3>2. queue[i + 1].from = End(queue[i])
      <4>1. i + 1 # 1 /\ (i + 1) - 1 = i
        BY <1>1
      <4> QED
        BY <1>2, <1>3, <3>1, <4>1 DEF IndInv, QueueInv, InOrder
    <3>3. i # 1 => i - 1 \in 1..Len(t) /\ (i - 1) + 1 = i
      BY <1>1
    <3> QED
      BY <1>1, <3>2, <3>3
  <2>5. ASSUME rw
        PROVE  NoStop(t) /\ answered - cur = LastEnd(t, End(h))
    <3>1. NoStop(t)
      BY <1>1, <1>3, <2>5 DEF IndInv, QueueInv, NoStop
    <3>2. answered - cur = End(queue[Len(queue)])
      BY <2>5 DEF IndInv, QueueInv, LastEnd
    <3>3. CASE t = <<>>
      <4>1. Len(queue) = 1
        BY <1>1, <3>3, EmptySeq
      <4>2. LastEnd(t, End(h)) = End(h)
        BY <3>3 DEF LastEnd
      <4>3. End(queue[Len(queue)]) = End(h)
        BY <1>1, <4>1
      <4> QED
        BY <3>1, <3>2, <4>2, <4>3
    <3>4. CASE t # <<>>
      <4>1. Len(t) \in 1..Len(t) /\ Len(t) + 1 = Len(queue)
        BY <1>1, <3>4, EmptySeq
      <4>2. LastEnd(t, End(h)) = End(t[Len(t)])
        BY <3>4 DEF LastEnd
      <4>3. t[Len(t)] = queue[Len(queue)]
        BY <1>1, <4>1
      <4> QED
        BY <3>1, <3>2, <4>2, <4>3
    <3> QED
      BY <3>1, <3>3, <3>4
  <2>6. ASSUME ~rw
        PROVE  HasStop(t)
    <3>1. PICK i \in 1..Len(queue) : queue[i] = Stop
      BY <1>2, <2>6 DEF IndInv, QueueInv, HasStop
    <3>2. i # 1 /\ i - 1 \in 1..Len(t) /\ (i - 1) + 1 = i
      BY <1>1, <1>6, <3>1
    <3> QED
      BY <1>1, <3>1, <3>2 DEF HasStop
  <2> QED
    BY <2>1, <2>2, <2>3, <2>4, <2>5, <2>6
<1> QED
  BY <1>1, <1>4, <1>5, <1>6 DEF h, t

-----------------------------------------------------------------------------
(* The invariant. *)

\* A connection just accepted satisfies the invariant.
LEMMA InitIndInv == Init => IndInv
<1> SUFFICES ASSUME Init PROVE IndInv
  OBVIOUS
<1>1. cfg \in Configs /\ cfg \in Config /\ Batch \in Nat /\ Batch > 0 /\ MaxReq \in Nat
  BY BatchType, ConfigsAssumption, MaxReqAssumption DEF Init
<1>2. Item(0, 1) \in QItem /\ Item(0, 1).from = 0 /\ Item(0, 1).n = 1 /\ Nothing.n = 0
        /\ Nothing \in [from : Nat, n : Nat]
  BY DEF Item, QItem, Nothing
<1>3. /\ queue \in Seq(QItem)
      /\ \/ queue = <<>> /\ answered = 0 /\ ~cfg.greet
         \/ queue = <<Item(0, 1)>> /\ answered = 1 /\ cfg.greet
  BY <1>2 DEF Init
<1>4. TypeOK
  <2>1. answered \in 0..(MaxReq + 1) /\ 0 \in 0..(Batch - 1) /\ 0 \in 0..(cfg.segments - 1)
    BY <1>1, <1>3 DEF Config
  <2>2. togo \in 0..(2 * MaxReq) /\ inq \in 0..(2 * MaxReq) /\ nrreq \in 0..MaxReq /\ rbuf \in 0..1
    BY <1>1 DEF Init
  <2>3. queue \in Seq([from : Nat, n : Int])
    BY <1>3 DEF QItem
  <2>4. tr \in Transport
    BY DEF Init, Transport
  <2> QED
    BY <1>1, <1>2, <2>1, <2>2, <2>3, <2>4 DEF Init, TypeOK
<1>5. Taken = 0 /\ Alive /\ rw /\ cur = 0
  BY DEF Init, Taken, Alive
<1>6. QueueInv(queue, answered, answered - cur)
  <2>1. CASE queue = <<>>
    BY <1>3, <1>5, <2>1 DEF QueueInv, Within, InOrder, NoStop, LastEnd
  <2>2. CASE queue = <<Item(0, 1)>> /\ answered = 1
    <3>1. Len(queue) = 1 /\ queue[1] = Item(0, 1) /\ queue # <<>> /\ Item(0, 1) # Stop
      BY <1>2, <2>2, StopType
    <3>2. End(Item(0, 1)) = 1 /\ Item(0, 1).n \in 0..Batch
      BY <1>1, <1>2 DEF End
    <3>3. Within(queue, Batch, answered) /\ NoStop(queue) /\ LastEnd(queue, Taken) = 1
      BY <2>2, <3>1, <3>2 DEF Within, NoStop, LastEnd
    <3>4. InOrder(queue, Taken)
      BY <1>2, <1>5, <3>1 DEF InOrder
    <3> QED
      BY <1>3, <1>5, <2>2, <3>3, <3>4 DEF QueueInv
  <2> QED
    BY <1>3, <2>1, <2>2
<1>7. CloseInv /\ StreamInv /\ AnswerInv
  BY <1>1, <1>3, <1>5 DEF Init, CloseInv, StreamInv, AnswerInv
<1>8. WriteInv /\ KeepAliveBound
  BY <1>1, <1>2 DEF Init, WriteInv, KeepAliveBound, Config
<1> QED
  BY <1>4, <1>6, <1>7, <1>8 DEF IndInv

\* What the write task knows survives the steps of the others.
LEMMA WriteKeeps ==
    ASSUME IndInv, UNCHANGED <<cfg, writeVars>>, answered' \in Nat, answered <= answered'
    PROVE  /\ WriteInv' /\ KeepAliveBound' /\ Batch' = Batch /\ Taken' = Taken /\ Alive' = Alive
           /\ item' \in [from : Nat, n : Nat] /\ wpc' = wpc
<1>1. Batch' = Batch /\ Taken' = Taken /\ Alive' = Alive
  BY DEF Batch, Taken, Alive, writeVars
<1>2. answered \in Nat /\ item \in [from : Nat, n : Nat] /\ End(item) \in Int
  BY MaxReqAssumption DEF IndInv, TypeOK, End
<1>3. WriteInv'
  BY <1>1, <1>2 DEF IndInv, WriteInv, writeVars, End
<1>4. KeepAliveBound'
  BY <1>1 DEF IndInv, KeepAliveBound, writeVars
<1> QED
  BY <1>1, <1>2, <1>3, <1>4 DEF writeVars

\* The steps that leave both ends of the queue alone.
LEMMA QuietKeeps ==
    ASSUME IndInv, UNCHANGED <<cfg, answered, cur, queue, writeVars, rw>>
    PROVE  /\ QueueInv(queue, answered, answered - cur)' /\ WriteInv' /\ KeepAliveBound'
           /\ Batch' = Batch /\ Alive' = Alive
<1>1. answered' \in Nat /\ answered <= answered'
  BY MaxReqAssumption DEF IndInv, TypeOK
<1>2. /\ WriteInv' /\ KeepAliveBound' /\ Batch' = Batch /\ Taken' = Taken /\ Alive' = Alive
  BY <1>1, WriteKeeps
<1>3. QueueInv(queue, answered, answered - cur)'
  BY <1>2 DEF IndInv, QueueInv
<1> QED
  BY <1>2, <1>3

\* The requests among the halves at hand.
LEMMA Halves ==
    ASSUME TypeOK
    PROVE  /\ (rbuf + inq) \div 2 \in Nat /\ (rbuf + inq) % 2 \in 0..1
           /\ (rbuf + inq) % 2 = (rbuf + inq) - 2 * ((rbuf + inq) \div 2)
<1>1. rbuf + inq \in Nat
  BY MaxReqAssumption DEF TypeOK
<1> DEFINE x == rbuf + inq
<1> HIDE DEF x
<1>2. x \div 2 \in Nat /\ x % 2 \in 0..1 /\ x % 2 = x - 2 * (x \div 2)
  BY <1>1 DEF x
<1> QED
  BY <1>2 DEF x

\* _read_loop when every request that came in is answered.
LEMMA ReadRequestsPreserves ==
    ASSUME IndInv, ReadRequests
    PROVE  IndInv'
<1> DEFINE n == (rbuf + inq) \div 2
<1>1. /\ rpc = "read" /\ inq' = 0 /\ rbuf' = (rbuf + inq) % 2 /\ nrreq' = nrreq + n
      /\ answered' = answered + n /\ cur' = Unflushed(n) /\ queue' = queue \o FullBatches(n)
      /\ rpc' = IF rw THEN "read" ELSE "end"
      /\ UNCHANGED <<peerVars, skew, writeVars, rw, tr, spc, inlist>>
  BY DEF ReadRequests, Parse
<1>2. n \in Nat /\ rbuf' \in 0..1 /\ rbuf' = (rbuf + inq) - 2 * n
  BY <1>1, Halves DEF IndInv
<1> HIDE DEF n
<1>3. /\ Unflushed(n) \in 0..(Batch - 1) /\ Unflushed(n) <= cur + n
  BY <1>2, BatchesType DEF IndInv
<1>4. QueueInv(queue', answered', answered' - cur')
  <2>1. QueueInv(queue \o FullBatches(n), answered + n, (answered + n) - Unflushed(n))
    BY <1>2, PutBatches
  <2> QED
    BY <1>1, <2>1, Zenon
<1>5. /\ nrreq \in Nat /\ answered \in Nat /\ cur \in Nat /\ togo \in Nat /\ MaxReq \in Nat
      /\ answered' \in Nat /\ answered <= answered' /\ cfg \in Config /\ Batch \in Nat
  BY <1>1, <1>2, MaxReqAssumption, ConfigsAssumption, BatchType DEF IndInv, TypeOK
<1>6. /\ WriteInv' /\ KeepAliveBound' /\ Batch' = Batch /\ Taken' = Taken /\ Alive' = Alive
  BY <1>1, <1>5, WriteKeeps DEF peerVars
<1>7. QueueInv(queue, answered, answered - cur)'
  BY <1>1, <1>4, <1>6 DEF QueueInv
<1>8. StreamInv'
  <2>1. rbuf \in Nat /\ inq \in Nat
    BY MaxReqAssumption DEF IndInv, TypeOK
  <2>2. 2 * nrreq' + rbuf' + inq' + togo' = 2 * nrreq + rbuf + inq + togo
    BY <1>1, <1>2, <1>5, <2>1 DEF peerVars
  <2> QED
    BY <1>1, <2>2 DEF IndInv, StreamInv
<1>9. AnswerInv'
  BY <1>1, <1>2, <1>3, <1>5 DEF IndInv, AnswerInv, peerVars
<1>10. CloseInv'
  BY <1>1, <1>6 DEF IndInv, CloseInv
<1>11. TypeOK'
  <2>1. nrreq' \in 0..MaxReq /\ answered' \in 0..(MaxReq + 1) /\ cur' \in 0..(Batch' - 1)
          /\ inq' \in 0..(2 * MaxReq)
    <3>1. nrreq' <= MaxReq
      BY <1>1, <1>2, <1>5, <1>8 DEF StreamInv, peerVars
    <3>2. answered' <= nrreq' + 1
      BY <1>1, <1>2, <1>5, <1>9 DEF AnswerInv
    <3> QED
      BY <1>1, <1>2, <1>3, <1>5, <1>6, <3>1, <3>2
  <2>2. queue' \in Seq([from : Nat, n : Int])
    BY <1>4 DEF QueueInv, QItem
  <2> QED
    BY <1>1, <1>2, <2>1, <2>2 DEF IndInv, TypeOK, peerVars, writeVars
<1> QED
  BY <1>6, <1>7, <1>8, <1>9, <1>10, <1>11 DEF IndInv

\* FirstFatal numbers requests from 1.
LEMMA FirstFatalType ==
    ASSUME TypeOK, NEW n \in Nat
    PROVE  FirstFatal(n) \in Nat /\ FirstFatal(n) > 0
<1>1. cfg \in Config /\ nrreq \in Nat
  BY ConfigsAssumption, MaxReqAssumption DEF TypeOK
<1>2. cfg.drop \in BOOLEAN /\ cfg.hang_on_req_num \in Nat
  BY <1>1 DEF Config
<1> QED
  BY <1>1, <1>2 DEF FirstFatal

\* _read_loop with a request that ends the connection.
LEMMA ReadFatalPreserves ==
    ASSUME IndInv, ReadFatalRequest
    PROVE  IndInv'
<1> DEFINE n == (rbuf + inq) \div 2
           m == FirstFatal(n) - 1
           U == Unflushed(m)
           q == queue \o FullBatches(m)
           it == Item((answered + m) - U, U)
           sent == IF cfg.drop THEN q ELSE Append(q, it)
<1>1. /\ m < n /\ inq' = 0 /\ rbuf' = 0 /\ nrreq' = nrreq + m + 1 /\ answered' = answered + m
      /\ cur' = (IF cfg.drop THEN U ELSE 0)
      /\ CloseBegins(sent) \/ CloseReturns(sent)
      /\ rpc' \in {"closing", "end"}
      /\ UNCHANGED <<peerVars, skew, writeVars, spc, inlist>>
  BY DEF ReadFatalRequest
<1>2. /\ n \in Nat /\ 2 * n <= rbuf + inq /\ rbuf \in Nat /\ inq \in Nat
      /\ nrreq \in Nat /\ answered \in Nat /\ cur \in Nat /\ togo \in Nat /\ MaxReq \in Nat
  BY Halves, MaxReqAssumption DEF IndInv, TypeOK
<1>3. m \in Nat /\ cfg \in Config /\ cfg.drop \in BOOLEAN /\ cfg' = cfg
  <2>1. cfg \in Config /\ cfg' = cfg
    BY <1>1, ConfigsAssumption DEF IndInv, TypeOK, peerVars
  <2>2. FirstFatal(n) \in Nat /\ FirstFatal(n) > 0
    BY <1>2, FirstFatalType DEF IndInv
  <2> QED
    BY <2>1, <2>2 DEF Config
<1> HIDE DEF n, m
<1>4. /\ U \in 0..(Batch - 1) /\ U <= cur + m /\ Batch \in Nat /\ Batch > 0
  BY <1>3, BatchesType, BatchType DEF IndInv, TypeOK
<1>5. QueueInv(q, answered + m, (answered + m) - U)
  BY <1>3, PutBatches
<1> HIDE DEF U, q
<1>6. answered' \in Nat /\ answered <= answered' /\ cur <= answered /\ Taken \in Nat
  BY <1>1, <1>2, <1>3 DEF IndInv, AnswerInv, TypeOK, Taken
<1>7. QueueInv(sent, answered', answered' - cur')
  <2>1. CASE cfg.drop
    BY <1>1, <1>5, <2>1
  <2>2. CASE ~cfg.drop
    <3>1. it \in QItem /\ it.n \in 0..Batch /\ it.from = (answered + m) - U
      BY <1>2, <1>3, <1>4, <1>6 DEF Item, QItem
    <3>2. End(it) = answered + m
      BY <1>2, <1>3, <1>4 DEF End, Item
    <3> HIDE DEF it
    <3>3. QueueInv(Append(q, it), answered + m, End(it))
      <4>1. answered + m \in Int /\ (answered + m) - U \in Int /\ Batch \in Nat /\ Taken \in Int
              /\ answered + m <= answered + m /\ End(it) <= answered + m
        BY <1>2, <1>3, <1>4, <1>6, <3>2
      <4> QED
        BY <1>5, <3>1, <4>1, PutItem
    <3>4. answered' - cur' = answered + m
      BY <1>1, <1>2, <1>3, <2>2
    <3> QED
      BY <1>1, <2>2, <3>2, <3>3, <3>4
  <2> QED
    BY <1>3, <2>1, <2>2
<1> HIDE DEF sent
<1>8. QueueInv(queue, answered, answered - cur)'
  BY <1>1, <1>3, <1>7, CloseQueue
<1>9. /\ WriteInv' /\ KeepAliveBound' /\ Batch' = Batch /\ Alive' = Alive
  BY <1>1, <1>3, <1>6, WriteKeeps
<1>10. ~rw' /\ rw' \in BOOLEAN /\ tr' \in Transport /\ (tr' = "open" => tr = "open" /\ ~rw)
  BY <1>1, CloseEffect DEF IndInv
<1>11. CloseInv'
  BY <1>10 DEF IndInv, CloseInv
<1>12. StreamInv'
  <2>1. 2 * nrreq + rbuf + inq + togo <= 2 * MaxReq
    BY DEF IndInv, StreamInv
  <2>2. 2 * (nrreq + m + 1) + togo <= 2 * MaxReq
    BY <1>1, <1>2, <1>3, <2>1
  <2>3. 2 * nrreq' + rbuf' + inq' + togo' <= 2 * MaxReq
    BY <1>1, <1>2, <1>3, <2>2 DEF peerVars
  <2> QED
    BY <1>10, <2>3 DEF StreamInv
<1>13. AnswerInv'
  BY <1>1, <1>2, <1>3, <1>4, <1>6 DEF IndInv, AnswerInv
<1>14. TypeOK'
  <2>1. nrreq' \in 0..MaxReq /\ answered' \in 0..(MaxReq + 1) /\ cur' \in 0..(Batch' - 1)
          /\ inq' \in 0..(2 * MaxReq) /\ rbuf' \in 0..1
    <3>1. nrreq' <= MaxReq /\ nrreq' \in Nat
      BY <1>1, <1>2, <1>3, <1>12 DEF StreamInv, peerVars
    <3>2. answered' <= nrreq' + 1
      BY <1>1, <1>2, <1>3, <1>13 DEF AnswerInv
    <3> QED
      BY <1>1, <1>2, <1>3, <1>4, <1>6, <1>9, <3>1, <3>2
  <2>2. queue' \in Seq([from : Nat, n : Int])
    BY <1>8 DEF QueueInv, QItem
  <2> QED
    BY <1>1, <1>10, <2>1, <2>2 DEF IndInv, TypeOK, peerVars, writeVars
<1> QED
  BY <1>8, <1>9, <1>11, <1>12, <1>13, <1>14 DEF IndInv

\* The other steps of the read task, of the peer and of the transport.
LEMMA QuietPreserves ==
    ASSUME IndInv,
           \/ ReadStart \/ ReadGarbage \/ ReadClosed \/ DisableReadable \/ EnableReadable
           \/ OwnerClosed \/ PeerSends \/ PeerFin \/ PeerResets \/ TransportCloses
    PROVE  IndInv'
<1>1. UNCHANGED <<cfg, nrreq, answered, cur, queue, writeVars, rw>>
  BY DEF ReadStart, ReadGarbage, ReadClosed, DisableReadable, CancelRead, EnableReadable,
     OwnerClosed, PeerSends, PeerFin, PeerResets, TransportCloses, peerVars, readVars
<1>2. /\ QueueInv(queue, answered, answered - cur)' /\ WriteInv' /\ KeepAliveBound'
      /\ Batch' = Batch /\ Alive' = Alive
  BY <1>1, QuietKeeps
<1>3. AnswerInv'
  BY <1>1 DEF IndInv, AnswerInv
<1> SUFFICES CloseInv' /\ StreamInv' /\ TypeOK'
  BY <1>2, <1>3 DEF IndInv
<1>4. /\ togo \in Nat /\ inq \in Nat /\ rbuf \in Nat /\ nrreq \in Nat /\ MaxReq \in Nat
      /\ rbuf \in {0, 1} /\ rw \in BOOLEAN /\ skew \in BOOLEAN /\ inlist \in BOOLEAN
  BY MaxReqAssumption DEF IndInv, TypeOK
<1>5. CASE ReadStart \/ ReadGarbage \/ EnableReadable \/ ReadClosed
  <2>1. /\ UNCHANGED <<cfg, togo, fin, rbuf, skew, tr, spc>>
        /\ inq' = inq \/ (inq' = 0 /\ skew)
        /\ inlist' \in BOOLEAN /\ (inlist' # inlist => rpc = "closing")
        /\ rpc' \in {"start", "read", "closing", "cancelled", "end"}
        /\ rw => rpc' \in {"start", "read", "cancelled"} \/ rpc = "closing"
    BY <1>4, <1>5 DEF ReadStart, ReadGarbage, EnableReadable, ReadClosed, CloseEnds, peerVars
  <2>2. CloseInv'
    BY <1>1, <1>2, <2>1 DEF IndInv, CloseInv
  <2>3. StreamInv'
    BY <1>1, <1>4, <2>1 DEF IndInv, StreamInv
  <2>4. TypeOK'
    BY <1>1, <1>2, <1>4, <2>1 DEF IndInv, TypeOK, writeVars
  <2> QED
    BY <2>2, <2>3, <2>4
<1>6. CASE DisableReadable
  <2>1. /\ UNCHANGED <<cfg, togo, fin, inq, tr, spc>>
        /\ rpc' = "cancelled" /\ inlist' = (inlist /\ rpc # "closing")
        /\ skew' = (skew \/ rbuf = 1) /\ rbuf' = 0
    BY <1>6 DEF DisableReadable, CancelRead, peerVars
  <2>2. CloseInv'
    BY <1>1, <1>2, <1>4, <2>1 DEF IndInv, CloseInv
  <2>3. StreamInv'
    BY <1>1, <1>4, <2>1 DEF IndInv, StreamInv
  <2>4. TypeOK'
    BY <1>1, <1>2, <1>4, <2>1 DEF IndInv, TypeOK, writeVars
  <2> QED
    BY <2>2, <2>3, <2>4
<1>7. CASE OwnerClosed
  <2>1. /\ UNCHANGED <<cfg, togo, fin, inq, rpc, rbuf, skew, tr>>
        /\ inlist' = FALSE /\ spc = "closing" /\ spc' = "closed"
    BY <1>7 DEF OwnerClosed, CloseEnds, peerVars, readVars
  <2>2. CloseInv'
    BY <1>1, <1>2, <2>1 DEF IndInv, CloseInv
  <2>3. StreamInv'
    BY <1>1, <1>4, <2>1 DEF IndInv, StreamInv
  <2>4. TypeOK'
    BY <1>1, <1>2, <1>4, <2>1 DEF IndInv, TypeOK, writeVars
  <2> QED
    BY <2>2, <2>3, <2>4
<1>8. CASE PeerSends
  <2>1. PICK k \in 1..togo : togo' = togo - k /\ inq' = inq + k
    BY <1>8 DEF PeerSends
  <2>2. UNCHANGED <<cfg, fin, rpc, rbuf, skew, tr, spc, inlist>>
    BY <1>8 DEF PeerSends
  <2>3. CloseInv'
    BY <1>1, <1>2, <2>2 DEF IndInv, CloseInv
  <2>4. 2 * nrreq' + rbuf' + inq' + togo' = 2 * nrreq + rbuf + inq + togo
    BY <1>1, <1>4, <2>1, <2>2
  <2>5. StreamInv'
    BY <1>1, <1>4, <2>2, <2>4 DEF IndInv, StreamInv
  <2>6. togo' \in 0..(2 * MaxReq) /\ inq' \in 0..(2 * MaxReq)
    BY <1>1, <1>4, <2>1, <2>2 DEF IndInv, StreamInv, TypeOK
  <2>7. TypeOK'
    BY <1>1, <1>2, <2>2, <2>6 DEF IndInv, TypeOK, writeVars
  <2> QED
    BY <2>3, <2>5, <2>7
<1>9. CASE PeerFin \/ PeerResets \/ TransportCloses
  <2>1. /\ UNCHANGED <<cfg, togo, inq, rpc, rbuf, skew, spc, inlist>>
        /\ fin' \in BOOLEAN /\ tr' \in Transport /\ (tr' = "open" => tr = "open")
    BY <1>9 DEF PeerFin, PeerResets, TransportCloses, peerVars, readVars, IndInv, TypeOK, Transport
  <2>2. CloseInv'
    BY <1>1, <1>2, <2>1 DEF IndInv, CloseInv
  <2>3. StreamInv'
    BY <1>1, <1>4, <2>1 DEF IndInv, StreamInv
  <2>4. TypeOK'
    BY <1>1, <1>2, <1>4, <2>1 DEF IndInv, TypeOK, writeVars
  <2> QED
    BY <2>2, <2>3, <2>4
<1> QED
  BY <1>5, <1>6, <1>7, <1>8, <1>9

\* An empty read, and close() called by the test or by stop().
LEMMA ClosersPreserve ==
    ASSUME IndInv, ReadEnds \/ OwnerClose
    PROVE  IndInv'
<1>1. /\ UNCHANGED <<peerVars, inq, rbuf, skew, nrreq, answered, cur, writeVars, inlist>>
      /\ CloseBegins(queue) \/ CloseReturns(queue)
      /\ rpc' \in {"start", "read", "closing", "cancelled", "end"}
      /\ spc' \in {"idle", "closing", "closed"}
  BY DEF ReadEnds, OwnerClose, readVars, IndInv, TypeOK
<1>2. /\ WriteInv' /\ KeepAliveBound' /\ Batch' = Batch /\ Alive' = Alive
  <2>1. answered' \in Nat /\ answered <= answered'
    BY <1>1, MaxReqAssumption DEF IndInv, TypeOK
  <2> QED
    BY <1>1, <2>1, WriteKeeps DEF peerVars
<1>3. QueueInv(queue, answered, answered - cur)'
  <2>1. QueueInv(queue, answered', answered' - cur')
    BY <1>1 DEF IndInv
  <2> QED
    BY <1>1, <2>1, CloseQueue DEF peerVars
<1>4. ~rw' /\ rw' \in BOOLEAN /\ tr' \in Transport /\ (tr' = "open" => tr = "open" /\ ~rw)
  BY <1>1, CloseEffect DEF IndInv
<1>5. CloseInv'
  BY <1>4 DEF IndInv, CloseInv
<1>6. StreamInv' /\ AnswerInv'
  BY <1>1, <1>4 DEF IndInv, StreamInv, AnswerInv, peerVars
<1>7. TypeOK'
  <2>1. queue' \in Seq([from : Nat, n : Int])
    BY <1>3 DEF QueueInv, QItem
  <2> QED
    BY <1>1, <1>2, <1>4, <2>1 DEF IndInv, TypeOK, peerVars, writeVars
<1> QED
  BY <1>2, <1>3, <1>5, <1>6, <1>7 DEF IndInv

\* flush() called by the test.
LEMMA FlushPreserves ==
    ASSUME IndInv, ServerFlush
    PROVE  IndInv'
<1> DEFINE it == Item(answered - cur, cur)
<1>1. /\ queue' = Append(queue, it) /\ cur' = 0
      /\ UNCHANGED <<peerVars, inq, rpc, rbuf, skew, nrreq, answered, writeVars, rw, tr, spc, inlist>>
  BY DEF ServerFlush
<1>2. /\ answered \in Nat /\ cur \in 0..(Batch - 1) /\ cur <= answered /\ Batch \in Nat
      /\ Batch > 0 /\ Taken \in Int
  BY MaxReqAssumption, BatchType DEF IndInv, TypeOK, AnswerInv, Taken
<1>3. /\ WriteInv' /\ KeepAliveBound' /\ Batch' = Batch /\ Taken' = Taken /\ Alive' = Alive
  BY <1>1, <1>2, WriteKeeps DEF peerVars
<1>4. QueueInv(queue', answered, End(it)) /\ End(it) = answered
  <2>1. it \in QItem /\ it.n \in 0..Batch /\ it.from = answered - cur /\ End(it) = answered
    BY <1>2 DEF Item, QItem, End
  <2> HIDE DEF it
  <2>2. answered \in Int /\ answered - cur \in Int /\ answered <= answered /\ End(it) <= answered
    BY <1>2, <2>1
  <2>3. QueueInv(Append(queue, it), answered, End(it))
    BY <1>2, <2>1, <2>2, PutItem DEF IndInv
  <2> QED
    BY <1>1, <2>1, <2>3
<1> HIDE DEF it
<1>5. QueueInv(queue, answered, answered - cur)'
  <2>1. answered' - cur' = answered
    BY <1>1, <1>2
  <2>2. QueueInv(queue', answered', answered' - cur')
    BY <1>1, <1>4, <2>1
  <2> QED
    BY <1>1, <1>3, <2>2 DEF QueueInv
<1>6. CloseInv' /\ StreamInv'
  BY <1>1, <1>3 DEF IndInv, CloseInv, StreamInv, peerVars
<1>7. AnswerInv'
  BY <1>1, <1>2 DEF IndInv, AnswerInv, peerVars
<1>8. TypeOK'
  <2>1. queue' \in Seq([from : Nat, n : Int])
    BY <1>5 DEF QueueInv, QItem
  <2>2. cur' \in 0..(Batch' - 1)
    BY <1>1, <1>2, <1>3
  <2> QED
    BY <1>1, <2>1, <2>2 DEF IndInv, TypeOK, peerVars, writeVars
<1> QED
  BY <1>3, <1>5, <1>6, <1>7, <1>8 DEF IndInv

\* The write task hands an item to the transport, segment by segment.
LEMMA WriteSegmentPreserves ==
    ASSUME IndInv, WriteSegment
    PROVE  IndInv'
<1>1. /\ wpc = "write"
      /\ \/ seg' = 0 /\ wrote' = wrote + item.n /\ wpc' = "written"
         \/ seg' = seg + 1 /\ seg + 1 # cfg.segments /\ wrote' = wrote /\ wpc' = wpc
      /\ UNCHANGED <<peerVars, readVars, queue, item, done, rw, tr, spc, inlist>>
  BY DEF WriteSegment
<1>2. /\ item \in [from : Nat, n : Nat] /\ wrote \in Nat /\ done \in Nat /\ answered \in Nat
      /\ cfg \in Config /\ Batch \in Nat /\ Batch > 0 /\ seg \in 0..(cfg.segments - 1)
  BY ConfigsAssumption, BatchType, MaxReqAssumption DEF IndInv, TypeOK
<1>3. Batch' = Batch /\ Taken' = Taken /\ Alive' = Alive /\ Alive
  BY <1>1, <1>2 DEF Batch, Taken, Alive, peerVars
<1>4. QueueInv(queue, answered, answered - cur)'
  BY <1>1, <1>3 DEF IndInv, QueueInv, readVars
<1>5. CloseInv' /\ StreamInv' /\ AnswerInv'
  BY <1>1, <1>3 DEF IndInv, CloseInv, StreamInv, AnswerInv, peerVars, readVars
<1>6. WriteInv'
  BY <1>1, <1>2, <1>3 DEF IndInv, WriteInv, Alive, peerVars, readVars, End
<1>7. KeepAliveBound'
  BY <1>1, <1>2, <1>3 DEF IndInv, WriteInv, KeepAliveBound, Config, peerVars
<1>8. TypeOK'
  <2>1. seg' \in 0..(cfg'.segments - 1) /\ wrote' \in Nat
    BY <1>1, <1>2 DEF Config, peerVars
  <2> QED
    BY <1>1, <1>3, <2>1 DEF IndInv, TypeOK, peerVars, readVars
<1> QED
  BY <1>4, <1>5, <1>6, <1>7, <1>8 DEF IndInv

\* _write_loop begins.
LEMMA WriteStartPreserves ==
    ASSUME IndInv, WriteStart \/ WriteClosed
    PROVE  IndInv'
<1>1. /\ wpc \in {"start", "closing"} /\ wpc' \in {"get", "end"}
      /\ wpc' = "get" => wpc = "start" /\ rw
      /\ wpc = "closing" \/ inlist' = inlist
      /\ wpc = "start" /\ rw => wpc' = "get"
      /\ inlist' \in BOOLEAN
      /\ UNCHANGED <<peerVars, readVars, queue, item, seg, done, wrote, rw, tr, spc>>
  BY DEF WriteStart, WriteClosed, CloseEnds, IndInv, TypeOK
<1>2. Batch' = Batch /\ Taken' = Taken /\ (Alive' => Alive) /\ (rw /\ Alive => Alive')
  BY <1>1 DEF Batch, Taken, Alive, peerVars
<1>3. QueueInv(queue, answered, answered - cur)'
  BY <1>1, <1>2 DEF IndInv, QueueInv, readVars
<1>4. CloseInv'
  BY <1>1, <1>2 DEF IndInv, CloseInv, readVars, Alive
<1>5. StreamInv' /\ AnswerInv'
  BY <1>1 DEF IndInv, StreamInv, AnswerInv, peerVars, readVars
<1>6. WriteInv' /\ KeepAliveBound'
  BY <1>1, <1>2 DEF IndInv, WriteInv, KeepAliveBound, peerVars, readVars
<1>7. TypeOK'
  BY <1>1, <1>2 DEF IndInv, TypeOK, peerVars, readVars
<1> QED
  BY <1>3, <1>4, <1>5, <1>6, <1>7 DEF IndInv

\* _write_loop takes an item off the queue.
LEMMA WriteGetPreserves ==
    ASSUME IndInv, WriteGet
    PROVE  IndInv'
<1> DEFINE h == Head(queue)
           t == Tail(queue)
<1>1. /\ wpc = "get" /\ queue # <<>> /\ queue' = t
      /\ \/ h = Stop /\ wpc' = "end" /\ item' = item
         \/ h # Stop /\ wpc' = "write" /\ item' = h
      /\ UNCHANGED <<peerVars, readVars, seg, done, wrote, rw, tr, spc, inlist>>
  BY DEF WriteGet
<1>2. /\ t \in Seq(QItem) /\ Within(t, Batch, answered)
      /\ h = Stop => ~rw
      /\ h # Stop =>
           /\ h \in [from : Nat, n : Nat] /\ h.from = wrote /\ h.n <= Batch /\ End(h) <= answered
           /\ InOrder(t, End(h))
           /\ rw => NoStop(t) /\ answered - cur = LastEnd(t, End(h))
           /\ ~rw => HasStop(t)
  BY <1>1, TakeItem
<1> HIDE DEF h, t
<1>3. Batch' = Batch /\ Alive /\ (Alive' <=> h # Stop)
  BY <1>1 DEF Batch, Alive, peerVars
<1>4. h # Stop => Taken' = End(h)
  BY <1>1, <1>2 DEF Taken, End
<1>5. QueueInv(queue, answered, answered - cur)'
  BY <1>1, <1>2, <1>3, <1>4 DEF QueueInv, readVars
<1>6. CloseInv' /\ StreamInv' /\ AnswerInv'
  BY <1>1, <1>2, <1>3 DEF IndInv, CloseInv, StreamInv, AnswerInv, peerVars, readVars
<1>7. WriteInv' /\ KeepAliveBound'
  BY <1>1, <1>2, <1>3 DEF IndInv, WriteInv, KeepAliveBound, peerVars, readVars
<1>8. TypeOK'
  <2>1. queue' \in Seq([from : Nat, n : Int]) /\ item' \in [from : Nat, n : Nat]
    BY <1>1, <1>2 DEF IndInv, TypeOK, QItem
  <2> QED
    BY <1>1, <1>3, <2>1 DEF IndInv, TypeOK, peerVars, readVars
<1> QED
  BY <1>5, <1>6, <1>7, <1>8 DEF IndInv

\* The write task closes the connection: after an error, or because of keep_alive.
LEMMA WriteClosePreserves ==
    ASSUME IndInv, CloseBegins(queue) \/ CloseReturns(queue), wpc \in {"write", "written"},
           wpc' \in {"closing", "end"}, item' = Nothing, wrote' = wrote,
           done' \in Nat, seg' \in {0, seg},
           UNCHANGED <<peerVars, readVars, spc, inlist>>
    PROVE  IndInv'
<1>1. ~rw' /\ rw' \in BOOLEAN /\ tr' \in Transport /\ (tr' = "open" => tr = "open" /\ ~rw)
  BY CloseEffect DEF IndInv
<1>2. Batch' = Batch /\ ~Alive' /\ Batch \in Nat /\ cfg \in Config
  BY BatchType, ConfigsAssumption DEF IndInv, TypeOK, Batch, Alive, peerVars
<1>3. QueueInv(queue, answered, answered - cur)'
  <2>1. QueueInv(queue, answered', answered' - cur')
    BY DEF IndInv, readVars
  <2> QED
    BY <2>1, CloseQueue DEF peerVars
<1>4. CloseInv' /\ StreamInv' /\ AnswerInv'
  BY <1>1 DEF IndInv, CloseInv, StreamInv, AnswerInv, peerVars, readVars
<1>5. Nothing \in [from : Nat, n : Nat] /\ Nothing.n = 0
  BY DEF Nothing, Item
<1>6. WriteInv' /\ KeepAliveBound'
  BY <1>2, <1>5 DEF IndInv, WriteInv, KeepAliveBound, peerVars
<1>7. TypeOK'
  <2>1. queue' \in Seq([from : Nat, n : Int])
    BY <1>3 DEF QueueInv, QItem
  <2>2. seg' \in 0..(cfg'.segments - 1)
    <3>1. cfg' = cfg /\ seg \in 0..(cfg.segments - 1) /\ cfg.segments \in Nat \ {0}
      BY <1>2 DEF IndInv, TypeOK, Config, peerVars
    <3> QED
      BY <3>1
  <2> QED
    BY <1>1, <1>2, <1>5, <2>1, <2>2 DEF IndInv, TypeOK, peerVars, readVars
<1> QED
  BY <1>3, <1>4, <1>6, <1>7 DEF IndInv

\* _write_loop has written an item.
LEMMA WriteDonePreserves ==
    ASSUME IndInv, WriteDone
    PROVE  IndInv'
<1> DEFINE limit == cfg.keep_alive > 0 /\ done + item.n >= cfg.keep_alive
<1>1. /\ wpc = "written" /\ done' = done + item.n /\ item' = Nothing
      /\ UNCHANGED <<peerVars, readVars, seg, wrote, spc, inlist>>
  BY DEF WriteDone, Count
<1>2. /\ item \in [from : Nat, n : Nat] /\ done \in Nat /\ wrote \in Nat /\ cfg \in Config
      /\ done' \in Nat /\ Batch \in Nat
  BY <1>1, ConfigsAssumption, BatchType DEF IndInv, TypeOK
<1>3. CASE limit
  BY <1>1, <1>2, <1>3, WriteClosePreserves DEF WriteDone, Count
<1>4. CASE ~limit
  <2>1. /\ wpc' = (IF rw THEN "get" ELSE "end") /\ UNCHANGED <<queue, rw, tr>>
    BY <1>4 DEF WriteDone, Count
  <2>2. Batch' = Batch /\ Taken' = Taken /\ Alive /\ (Alive' <=> rw)
    BY <1>1, <2>1 DEF Batch, Taken, Alive, peerVars
  <2>3. QueueInv(queue, answered, answered - cur)'
    BY <1>1, <2>1, <2>2 DEF IndInv, QueueInv, readVars
  <2>4. CloseInv' /\ StreamInv' /\ AnswerInv'
    BY <1>1, <2>1, <2>2 DEF IndInv, CloseInv, StreamInv, AnswerInv, peerVars, readVars
  <2>5. Nothing \in [from : Nat, n : Nat] /\ Nothing.n = 0
    BY DEF Nothing, Item
  <2>6. WriteInv'
    <3>1. cfg.keep_alive > 0 => done' < cfg.keep_alive
      BY <1>1, <1>2, <1>4 DEF Config
    <3> QED
      BY <1>1, <1>2, <2>1, <2>2, <2>5, <3>1 DEF IndInv, WriteInv, peerVars
  <2>7. KeepAliveBound'
    BY <1>1, <2>2 DEF IndInv, KeepAliveBound, peerVars
  <2>8. TypeOK'
    BY <1>1, <1>2, <2>1, <2>2, <2>5 DEF IndInv, TypeOK, peerVars, readVars
  <2> QED
    BY <2>3, <2>4, <2>6, <2>7, <2>8 DEF IndInv
<1> QED
  BY <1>3, <1>4

\* The inductive step.
THEOREM Inductive == IndInv /\ [Next]_vars => IndInv'
<1> SUFFICES ASSUME IndInv, [Next]_vars PROVE IndInv'
  OBVIOUS
<1>1. CASE ReadRequests
  BY <1>1, ReadRequestsPreserves
<1>2. CASE ReadFatalRequest
  BY <1>2, ReadFatalPreserves
<1>3. CASE \/ ReadStart \/ ReadGarbage \/ ReadClosed \/ DisableReadable \/ EnableReadable
           \/ OwnerClosed \/ PeerSends \/ PeerFin \/ PeerResets \/ TransportCloses
  BY <1>3, QuietPreserves
<1>4. CASE ReadEnds \/ OwnerClose
  BY <1>4, ClosersPreserve
<1>5. CASE ServerFlush
  BY <1>5, FlushPreserves
<1>6. CASE WriteStart \/ WriteClosed
  BY <1>6, WriteStartPreserves
<1>7. CASE WriteGet
  BY <1>7, WriteGetPreserves
<1>8. CASE WriteSegment
  BY <1>8, WriteSegmentPreserves
<1>9. CASE WriteFails
  <2>1. /\ wpc \in {"write", "written"} /\ item' = Nothing /\ seg' = 0
        /\ CloseBegins(queue) \/ CloseReturns(queue)
        /\ wpc' \in {"closing", "end"}
        /\ UNCHANGED <<peerVars, readVars, done, wrote, spc, inlist>>
    BY <1>9 DEF WriteFails
  <2>2. done' \in Nat
    BY <2>1 DEF IndInv, TypeOK
  <2> QED
    BY <2>1, <2>2, WriteClosePreserves
<1>10. CASE WriteDone
  BY <1>10, WriteDonePreserves
<1>11. CASE UNCHANGED vars
  <2>1. UNCHANGED <<cfg, answered, cur, queue, writeVars, rw>>
    BY <1>11 DEF vars, peerVars, readVars
  <2>2. /\ QueueInv(queue, answered, answered - cur)' /\ WriteInv' /\ KeepAliveBound'
        /\ Batch' = Batch /\ Alive' = Alive
    BY <2>1, QuietKeeps
  <2> QED
    BY <1>11, <2>2 DEF vars, peerVars, readVars, writeVars, IndInv, TypeOK, CloseInv, StreamInv,
       AnswerInv
<1> QED
  BY <1>1, <1>2, <1>3, <1>4, <1>5, <1>6, <1>7, <1>8, <1>9, <1>10, <1>11
     DEF Next, ReadStep, WriteStep, OwnerStep, PeerStep

\* The invariant holds of every reachable state.
THEOREM IndInvHolds == Spec => []IndInv
  BY InitIndInv, Inductive, PTL DEF Spec

\* Nothing is lost between the two tasks, flush() and close(): no byte of the stream,
\* no response, which are also sent in the order of the requests, and an open
\* connection never leaves the list of the server.
THEOREM ConnectionLosesNothing == Spec => []NothingLost
<1>1. IndInv => RequestsConserved
  BY DEF IndInv, StreamInv, RequestsConserved
<1>2. IndInv => OpenIsListed
  BY DEF IndInv, CloseInv, OpenIsListed
<1>3. ASSUME IndInv
      PROVE  ResponsesConserved
  <2> SUFFICES ASSUME tr = "open"
               PROVE  /\ wpc = "write" => item.from = wrote
                      /\ \A i \in 1..Len(queue) : FollowsOn(i)
                      /\ answered = cur + (IF queue = <<>> THEN Taken
                                           ELSE queue[Len(queue)].from + queue[Len(queue)].n)
    BY DEF ResponsesConserved
  <2>1. rw /\ Alive
    BY <1>3 DEF IndInv, CloseInv
  <2>2. wpc = "write" => item.from = wrote
    BY <1>3 DEF IndInv, WriteInv
  <2>3. ASSUME NEW i \in 1..Len(queue)
        PROVE  FollowsOn(i)
    <3>1. \A j \in 1..i : j \in 1..Len(queue)
      BY <1>3, LenProperties DEF IndInv, QueueInv
    <3>2. \A j \in 1..i : queue[j] # Stop
      BY <1>3, <2>1, <3>1 DEF IndInv, QueueInv, NoStop
    <3> QED
      BY <1>3, <2>1, <3>2 DEF IndInv, QueueInv, InOrder, FollowsOn, End
  <2>4. answered \in Nat /\ cur \in Nat /\ answered - cur = LastEnd(queue, Taken)
    BY <1>3, <2>1, MaxReqAssumption, BatchType DEF IndInv, TypeOK, QueueInv
  <2> QED
    BY <2>2, <2>3, <2>4 DEF LastEnd, End
<1>4. IndInv => NothingLost
  BY <1>1, <1>2, <1>3 DEF IndInv, NothingLost
<1> QED
  BY <1>4, IndInvHolds, PTL

\* keep_alive is exceeded by less than one batch, for every keep_alive and pipelined.
THEOREM KeepAliveRespected == Spec => []KeepAliveBound
<1>1. IndInv => KeepAliveBound
  BY DEF IndInv
<1> QED
  BY <1>1, IndInvHolds, PTL

-----------------------------------------------------------------------------
(* The refinement of Connection. *)

\* What a step of the connection does to what the server and the peer know of it: it
\* hands over requests, and may begin to close; it writes responses to requests that
\* were handed over before; or it begins to close, is forgotten or changes nothing.
LEMMA StepShape ==
    ASSUME IndInv, [Next]_vars
    PROVE  /\ cfg' = cfg
           /\ \/ /\ nrreq' > nrreq /\ wrote' = wrote /\ inlist' = inlist
                 /\ rw' = rw \/ (rw /\ ~rw')
              \/ /\ nrreq' = nrreq /\ UNCHANGED <<rw, inlist>>
                 /\ wrote' > wrote /\ wrote' <= nrreq + (IF cfg.greet THEN 1 ELSE 0)
              \/ /\ UNCHANGED <<nrreq, wrote>>
                 /\ \/ UNCHANGED <<rw, inlist>>
                    \/ rw /\ ~rw' /\ inlist' = inlist
                    \/ ~rw /\ ~rw' /\ inlist /\ ~inlist'
<1> USE DEF peerVars, readVars, writeVars
<1>1. rw \in BOOLEAN /\ inlist \in BOOLEAN /\ nrreq \in Nat /\ wrote \in Nat
        /\ item \in [from : Nat, n : Nat]
  BY MaxReqAssumption DEF IndInv, TypeOK
<1>2. ASSUME NEW q, CloseBegins(q) \/ CloseReturns(q)
      PROVE  rw' = rw \/ (rw /\ ~rw')
  BY <1>2 DEF CloseBegins, CloseReturns
<1>3. CASE ReadRequests
  <2>1. /\ nrreq' = nrreq + ((rbuf + inq) \div 2)
        /\ UNCHANGED <<cfg, wrote, rw, inlist>>
    BY <1>3 DEF ReadRequests, Parse
  <2>2. (rbuf + inq) \div 2 \in Nat
    BY Halves DEF IndInv
  <2> QED
    BY <1>1, <2>1, <2>2
<1>4. CASE ReadFatalRequest
  <2>1. PICK m, q : /\ m = FirstFatal((rbuf + inq) \div 2) - 1 /\ nrreq' = nrreq + m + 1
                    /\ CloseBegins(q) \/ CloseReturns(q)
                    /\ UNCHANGED <<cfg, wrote, inlist>>
    BY <1>4 DEF ReadFatalRequest
  <2>2. m \in Nat
    BY <2>1, Halves, FirstFatalType DEF IndInv
  <2> QED
    BY <1>1, <1>2, <2>1, <2>2
<1>5. CASE ReadEnds \/ OwnerClose \/ WriteFails
  BY <1>2, <1>5 DEF ReadEnds, OwnerClose, WriteFails
<1>6. CASE WriteDone
  BY <1>2, <1>6 DEF WriteDone, Count
<1>7. CASE WriteSegment
  <2>1. wrote' = wrote + item.n \/ wrote' = wrote
    BY <1>7 DEF WriteSegment
  <2>2. wrote + item.n <= nrreq + (IF cfg.greet THEN 1 ELSE 0)
    BY <1>1, <1>7, MaxReqAssumption
       DEF WriteSegment, IndInv, TypeOK, WriteInv, AnswerInv, End
  <2> QED
    BY <1>1, <1>7, <2>1, <2>2 DEF WriteSegment
<1>8. CASE ReadClosed \/ WriteClosed \/ OwnerClosed \/ DisableReadable
  <2>1. rpc = "closing" \/ wpc = "closing" \/ spc = "closing" => ~rw
    BY DEF IndInv, CloseInv, Alive
  <2> QED
    BY <1>1, <1>8, <2>1
       DEF ReadClosed, WriteClosed, OwnerClosed, DisableReadable, CancelRead, CloseEnds
<1>9. CASE \/ ReadStart \/ ReadGarbage \/ EnableReadable \/ ServerFlush \/ WriteStart \/ WriteGet
           \/ PeerSends \/ PeerFin \/ PeerResets \/ TransportCloses
  BY <1>9 DEF ReadStart, ReadGarbage, EnableReadable, ServerFlush, WriteStart, WriteGet, PeerSends,
     PeerFin, PeerResets, TransportCloses
<1>10. CASE UNCHANGED vars
  BY <1>10 DEF vars
<1> QED
  BY <1>3, <1>4, <1>5, <1>6, <1>7, <1>8, <1>9, <1>10
     DEF Next, ReadStep, WriteStep, OwnerStep, PeerStep

\* So every step is one of Connection, or none.
LEMMA StepSimulation ==
    ASSUME IndInv, IndInv', [Next]_vars
    PROVE  [Promise!Next]_Known
<1>1. /\ rw \in BOOLEAN /\ inlist \in BOOLEAN /\ nrreq \in Nat /\ wrote \in Nat /\ MaxReq \in Nat
      /\ nrreq' \in 0..MaxReq /\ wrote' \in Nat /\ (rw => inlist)
  BY MaxReqAssumption DEF IndInv, TypeOK, CloseInv
<1>2. CASE nrreq' > nrreq /\ wrote' = wrote /\ inlist' = inlist /\ (rw' = rw \/ (rw /\ ~rw')) /\ cfg' = cfg
  <2>1. Known' = Promise!Received(Known, nrreq', Phase')
    <3>1. ASSUME NEW c \in [phase : {"open", "closing", "removed"}, got : Nat, sent : Nat, greets : BOOLEAN],
                 NEW n \in Nat, NEW p \in {"open", "closing", "removed"}
          PROVE  Promise!Received(c, n, p)
                    = [phase |-> p, got |-> n, sent |-> c.sent, greets |-> c.greets]
      <4> DEFINE r == Promise!Received(c, n, p)
      <4>1. r \in [phase : {"open", "closing", "removed"}, got : Nat, sent : Nat, greets : BOOLEAN]
        BY DEF Promise!Received
      <4>2. r.phase = p /\ r.got = n /\ r.sent = c.sent /\ r.greets = c.greets
        BY DEF Promise!Received
      <4> QED
        BY <4>1, <4>2
    <3>2. Known \in [phase : {"open", "closing", "removed"}, got : Nat, sent : Nat, greets : BOOLEAN]
      BY <1>1, ConfigsAssumption DEF Known, Phase, IndInv, TypeOK, Config
    <3>3. nrreq' \in Nat /\ Phase' \in {"open", "closing", "removed"}
      BY <1>1 DEF Phase
    <3>4. Known' = [phase |-> Phase', got |-> nrreq', sent |-> Known.sent, greets |-> Known.greets]
      BY <1>2 DEF Known
    <3> QED
      BY <3>1, <3>2, <3>3, <3>4
  <2>2. nrreq' \in (Known.got + 1)..MaxReq
    BY <1>1, <1>2 DEF Known
  <2>3. Phase' \in {Known.phase} \cup (IF Known.phase = "open" THEN {"closing"} ELSE {})
    BY <1>1, <1>2 DEF Known, Phase
  <2>4. Known' \in Promise!Receives(Known)
    BY <2>1, <2>2, <2>3 DEF Promise!Receives
  <2> QED
    BY <2>4 DEF Promise!Next
<1>3. CASE /\ nrreq' = nrreq /\ UNCHANGED <<rw, inlist>> /\ cfg' = cfg
           /\ wrote' > wrote /\ wrote' <= nrreq + (IF cfg.greet THEN 1 ELSE 0)
  <2>1. Known' = [Known EXCEPT !.sent = wrote']
    BY <1>3 DEF Known, Phase
  <2>2. wrote' \in (Known.sent + 1)..(Known.got + (IF Known.greets THEN 1 ELSE 0))
    BY <1>1, <1>3 DEF Known
  <2>3. Known' \in Promise!Sends(Known)
    BY <2>1, <2>2 DEF Promise!Sends
  <2> QED
    BY <2>3 DEF Promise!Next
<1>4. CASE UNCHANGED <<nrreq, wrote, rw, inlist, cfg>>
  BY <1>4 DEF Known, Phase
<1>5. CASE UNCHANGED <<nrreq, wrote, inlist, cfg>> /\ rw /\ ~rw'
  <2>1. Known.phase = "open" /\ Known' = [Known EXCEPT !.phase = "closing"]
    BY <1>1, <1>5 DEF Known, Phase
  <2> QED
    BY <2>1 DEF Promise!Closes, Promise!Next
<1>6. CASE UNCHANGED <<nrreq, wrote, cfg>> /\ ~rw /\ ~rw' /\ inlist /\ ~inlist'
  <2>1. Known.phase = "closing" /\ Known' = [Known EXCEPT !.phase = "removed"]
    BY <1>6 DEF Known, Phase
  <2> QED
    BY <2>1 DEF Promise!Removes, Promise!Next
<1> QED
  BY StepShape, <1>2, <1>3, <1>4, <1>5, <1>6

\* The two tasks, close() from three sides, flush() and the restarts of the read task
\* implement the connection that DeproxyServer is composed of.
THEOREM Refinement == Spec => KeepsPromise
<1>1. Init => Promise!Init
  <2> SUFFICES ASSUME Init PROVE Promise!Init
    OBVIOUS
  <2>1. Known = Promise!NewConn(cfg.greet)
    BY DEF Init, Known, Phase, Promise!NewConn
  <2>2. cfg.greet \in BOOLEAN
    BY ConfigsAssumption DEF Init, Config
  <2> QED
    BY <2>1, <2>2 DEF Promise!Init
<1>2. IndInv /\ IndInv' /\ [Next]_vars => [Promise!Next]_Known
  BY StepSimulation
<1> QED
  BY <1>1, <1>2, IndInvHolds, PTL DEF Spec, KeepsPromise, Promise!Spec

=============================================================================
