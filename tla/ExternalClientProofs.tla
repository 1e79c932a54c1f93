------------------------ MODULE ExternalClientProofs ------------------------
(***************************************************************************)
(* Proofs about ExternalClient, for any number of runs: what a client      *)
(* leaves in the framework's object are the results of its own run, and    *)
(* it leaves no process behind.                                            *)
(***************************************************************************)
EXTENDS ExternalClient, TLAPS

-----------------------------------------------------------------------------
(* The inductive invariant of the external client                          *)

Client ==
    [curl : BOOLEAN, state : States, pc : {"test", "finish"}, run : 0 .. MaxRuns,
     proc : 0 .. MaxRuns, returncode : {0, 1}, out : 0 .. MaxRuns, responses : 0 .. MaxRuns,
     waited : BOOLEAN]

ObjType ==
    /\ client \in Client
    /\ child \in [Runs -> {"none", "running", "done", "killed"}]
    /\ cmd \in [Runs -> {"none", "running", "written", "ended", "failed"}]
    /\ queue \in [Runs -> SUBSET Runs] /\ dump \in 0 .. MaxRuns

\* The object has a process exactly while it is started, that of the present run.
ProcInv ==
    /\ client.proc \in {0, client.run}
    /\ (client.proc # 0) <=> (client.state = STATE_STARTED)
    /\ client.pc = "finish" => client.proc # 0

\* The processes of every run: those that are still to come have not begun, only the
\* present one may have its Python process, a queue holds nothing but the output of its
\* own run, and that only after the command and the process have ended.
RunsInv ==
    \A r \in Runs :
        /\ r > client.run => child[r] = "none" /\ cmd[r] = "none"
        /\ child[r] = "running" => r = client.proc
        /\ queue[r] \subseteq {r}
        /\ queue[r] # {} => child[r] = "done" /\ cmd[r] \in {"ended", "failed"}

\* While nothing odd has happened the headers file is that of the present run as soon as
\* its command has written it, and no command of an earlier run can overwrite it.
DumpInv ==
    clientOdd = {} =>
        \A r \in Runs :
            /\ r < client.run => cmd[r] # "running"
            /\ r = client.run /\ cmd[r] \in {"written", "ended", "failed"} => dump = r

\* The results, and what is known of them before they are parsed.
ResultInv ==
    /\ OwnOutput /\ OwnResponses /\ WaitedIsParsed
    /\ client.waited /\ client.proc # 0 => queue[client.run] # {}

IndInv == ObjType /\ ProcInv /\ RunsInv /\ DumpInv /\ ResultInv

-----------------------------------------------------------------------------
(* It holds initially, and every step keeps it                             *)

\* The states of a service, spelled out.
LEMMA StateNames == States = {"begin_start", "started", "stopped", "error"}
BY DEF States, STATE_BEGIN_START, STATE_STARTED, STATE_STOPPED, STATE_ERROR

\* Before the first run the invariant holds.
LEMMA InitIndInv ==
    ASSUME MaxRuns \in Nat, ClientInit
    PROVE  IndInv
<1> USE StateNames DEF ClientInit, Runs, STATE_STOPPED, STATE_STARTED
<1>1. ObjType
  BY DEF ObjType, Client
<1>2. ProcInv /\ RunsInv /\ DumpInv
  BY DEF ProcInv, RunsInv, DumpInv
<1>3. ResultInv
  BY DEF ResultInv, OwnOutput, OwnResponses, WaitedIsParsed
<1> QED
  BY <1>1, <1>2, <1>3 DEF IndInv

\* start() finds no process of an earlier run, and leaves one at most.
LEMMA StartPreserves ==
    ASSUME MaxRuns \in Nat, IndInv, NEW copied \in BOOLEAN, StartClient(copied)
    PROVE  IndInv'
<1> DEFINE r == client.run + 1
<1>1. /\ client.run \in Nat /\ r \in Runs /\ r > client.run /\ client.proc = 0
      /\ client.state = "stopped" /\ client.pc = "test" /\ client \in Client
      /\ MaxRuns \in Nat
  BY DEF StartClient, MayStart, Runs, STATE_STOPPED, STATE_STARTED, IndInv, ObjType,
         Client, ProcInv
<1>2. /\ client' \in Client
      /\ client'.run = r /\ client'.proc = (IF copied THEN r ELSE 0)
      /\ client'.state = (IF copied THEN "started" ELSE "begin_start")
      /\ client'.pc = "test" /\ client'.out = 0 /\ client'.responses = 0 /\ client'.waited = FALSE
  <2> DEFINE o == ClearStats(client)
  <2>1. o \in Client /\ o.out = 0 /\ o.responses = 0 /\ o.waited = FALSE /\ o.pc = client.pc
    BY <1>1 DEF ClearStats, Client
  <2>2. client' = [o EXCEPT !.state = IF copied THEN "started" ELSE "begin_start",
                            !.run = r, !.proc = IF copied THEN r ELSE 0]
    BY DEF StartClient, STATE_STARTED, STATE_BEGIN_START
  <2>3. r \in 0 .. MaxRuns
    BY <1>1 DEF Runs
  <2> HIDE DEF o, r
  <2> QED
    BY <1>1, <2>1, <2>2, <2>3, StateNames DEF Client
<1> HIDE DEF r
<1>3. /\ child' = [child EXCEPT ![r] = IF copied THEN "running" ELSE @]
      /\ cmd' = [cmd EXCEPT ![r] = IF copied THEN "running" ELSE @]
      /\ UNCHANGED <<queue, dump>>
      /\ clientOdd' = clientOdd \cup (IF \E p \in Runs : cmd[p] = "running" THEN {"orphan"} ELSE {})
  BY DEF StartClient, r
<1>4. ObjType'
  BY <1>1, <1>2, <1>3 DEF IndInv, ObjType
<1>5. ProcInv'
  BY <1>1, <1>2 DEF ProcInv, STATE_STARTED, Runs
<1>6. RunsInv'
  <2> SUFFICES ASSUME NEW x \in Runs
               PROVE  /\ x > client'.run => child'[x] = "none" /\ cmd'[x] = "none"
                      /\ child'[x] = "running" => x = client'.proc
                      /\ queue'[x] \subseteq {x}
                      /\ queue'[x] # {} => child'[x] = "done" /\ cmd'[x] \in {"ended", "failed"}
    BY DEF RunsInv
  <2>1. /\ x > client.run => child[x] = "none" /\ cmd[x] = "none"
        /\ child[x] # "running" /\ queue[x] \subseteq {x}
        /\ queue[x] # {} => child[x] = "done" /\ cmd[x] \in {"ended", "failed"}
    BY <1>1 DEF IndInv, RunsInv, Runs
  <2>2. x \in Nat /\ r \in Nat
    BY <1>1 DEF Runs, r
  <2>3. /\ child'[x] = (IF x = r /\ copied THEN "running" ELSE child[x])
        /\ cmd'[x] = (IF x = r /\ copied THEN "running" ELSE cmd[x])
    BY <1>3 DEF IndInv, ObjType
  <2>4. x > client'.run => x > client.run /\ x # r
    BY <1>1, <1>2, <2>2 DEF r
  <2>5. x = r => queue[x] = {}
    BY <1>1, <2>1
  <2> QED
    BY <1>2, <1>3, <2>1, <2>3, <2>4, <2>5
<1>7. DumpInv'
  <2> SUFFICES ASSUME clientOdd' = {}, NEW x \in Runs
               PROVE  /\ x < client'.run => cmd'[x] # "running"
                      /\ x = client'.run /\ cmd'[x] \in {"written", "ended", "failed"} => dump' = x
    BY DEF DumpInv
  <2>1. cmd[x] # "running"
    BY <1>3
  <2>2. cmd'[x] = (IF x = r /\ copied THEN "running" ELSE cmd[x])
    BY <1>3 DEF IndInv, ObjType
  <2>3. cmd[r] = "none"
    BY <1>1 DEF IndInv, RunsInv
  <2>4. x < client'.run => x # r
    BY <1>1, <1>2 DEF Runs
  <2> QED
    BY <1>2, <2>1, <2>2, <2>3, <2>4
<1>8. ResultInv'
  BY <1>2 DEF ResultInv, OwnOutput, OwnResponses, WaitedIsParsed
<1> QED
  BY <1>4, <1>5, <1>6, <1>7, <1>8 DEF IndInv

\* wait_for_finish() and the first half of stop() only change the object.
LEMMA WaitStopPreserves ==
    ASSUME MaxRuns \in Nat, IndInv, WaitForFinish \/ StopClient
    PROVE  IndInv'
<1>1. /\ client' \in Client /\ UNCHANGED <<child, cmd, queue, dump, clientOdd>>
      /\ client'.run = client.run /\ client'.proc = client.proc /\ client'.out = client.out
      /\ client'.responses = client.responses
      /\ client'.waited = client.waited \/ (client.proc # 0 /\ queue[client.run] # {})
      /\ client.proc # 0 => client'.state = client.state
      /\ client.proc = 0 => client'.state = "stopped" /\ client'.pc = client.pc
  <2>1. client \in Client /\ (client.proc # 0 <=> client.state = "started")
    BY DEF IndInv, ObjType, ProcInv, STATE_STARTED
  <2>2. CASE WaitForFinish
    <3>1. client' = [client EXCEPT !.waited = TRUE]
      BY <2>2 DEF WaitForFinish
    <3>2. /\ client' \in Client /\ client'.run = client.run /\ client'.proc = client.proc
          /\ client'.out = client.out /\ client'.responses = client.responses
          /\ client'.state = client.state
      BY <2>1, <3>1 DEF Client
    <3>3. /\ client.state = "started" /\ queue[client.run] # {}
          /\ UNCHANGED <<child, cmd, queue, dump, clientOdd>>
      BY <2>2 DEF WaitForFinish, QueueOf, STATE_STARTED
    <3> QED
      BY <2>1, <3>2, <3>3
  <2>3. CASE StopClient
    <3>1. client' = IF client.proc = 0 THEN [client EXCEPT !.state = "stopped"]
                    ELSE [client EXCEPT !.pc = "finish"]
      BY <2>3 DEF StopClient, STATE_STOPPED
    <3>2. /\ client' \in Client /\ client'.run = client.run /\ client'.proc = client.proc
          /\ client'.out = client.out /\ client'.responses = client.responses
          /\ client'.waited = client.waited
          /\ client.proc # 0 => client'.state = client.state
          /\ client.proc = 0 => client'.state = "stopped" /\ client'.pc = client.pc
      BY <2>1, <3>1, StateNames DEF Client
    <3>3. UNCHANGED <<child, cmd, queue, dump, clientOdd>>
      BY <2>3 DEF StopClient
    <3> QED
      BY <3>2, <3>3
  <2> QED
    BY <2>2, <2>3
<1>2. ProcInv'
  BY <1>1 DEF IndInv, ProcInv, STATE_STARTED
<1>3. ObjType' /\ RunsInv' /\ DumpInv'
  BY <1>1 DEF IndInv, ObjType, RunsInv, DumpInv
<1>4. ResultInv'
  BY <1>1 DEF IndInv, ResultInv, OwnOutput, OwnResponses, WaitedIsParsed
<1> QED
  BY <1>2, <1>3, <1>4 DEF IndInv

\* __on_finish with the output of the run in the queue: what is parsed is the
\* output of the present run, and the process that put it there has ended.
LEMMA FinishPreserves ==
    ASSUME MaxRuns \in Nat, IndInv, NEW output \in Runs, NEW wellFormed \in BOOLEAN, Finish(output, wellFormed)
    PROVE  IndInv'
<1> DEFINE run == client.run
<1>1. /\ client \in Client /\ client.pc = "finish" /\ client.proc = run /\ run \in Runs
      /\ output \in queue[run] /\ MaxRuns \in Nat
  BY DEF Finish, QueueOf, IndInv, ObjType, Client, ProcInv, Runs
<1>2. /\ output = run /\ child[run] = "done" /\ cmd[run] \in {"ended", "failed"}
  BY <1>1 DEF IndInv, RunsInv
<1>3. /\ queue' = [queue EXCEPT ![run] = @ \ {output}]
      /\ UNCHANGED <<child, cmd, dump, clientOdd>>
  BY DEF Finish, QueueOf
<1>4. /\ client' \in Client
      /\ client'.run = run /\ client'.proc = 0 /\ client'.pc = "test"
      /\ client'.out = run /\ client'.responses \in {0, dump}
      /\ client'.state \in {"stopped", "error"}
  <2> DEFINE responses == IF client.curl THEN dump ELSE 0
             state == IF client.curl => (dump # 0 /\ wellFormed) THEN "stopped" ELSE "error"
  <2>1. client' = [client EXCEPT !.pc = "test", !.proc = 0, !.out = output,
                                 !.responses = responses, !.state = state]
    BY DEF Finish, STATE_STOPPED, STATE_ERROR
  <2>3. responses \in {0, dump} /\ state \in {"stopped", "error"}
    OBVIOUS
  <2> HIDE DEF responses, state
  <2>2. dump \in 0 .. MaxRuns /\ output \in 0 .. MaxRuns
    BY <1>1 DEF IndInv, ObjType, Runs
  <2> QED
    <3>1. client' \in Client
      <4>1. 0 \in 0 .. MaxRuns /\ responses \in 0 .. MaxRuns /\ state \in States
        BY <1>1, <2>2, <2>3, StateNames
      <4> QED
        BY <1>1, <2>1, <2>2, <4>1 DEF Client
    <3>2. /\ client'.run = client.run /\ client'.proc = 0 /\ client'.pc = "test"
          /\ client'.out = output /\ client'.responses = responses /\ client'.state = state
      BY <1>1, <2>1 DEF Client
    <3> QED
      BY <1>2, <2>3, <3>1, <3>2
<1>5. ObjType' /\ ProcInv'
  BY <1>1, <1>3, <1>4 DEF IndInv, ObjType, ProcInv, STATE_STARTED
<1>6. RunsInv'
  BY <1>1, <1>2, <1>3, <1>4 DEF IndInv, ObjType, RunsInv, Runs
<1>7. DumpInv'
  BY <1>3, <1>4 DEF IndInv, DumpInv
<1>8. ResultInv'
  <2>1. clientOdd = {} => dump = run
    BY <1>1, <1>2 DEF IndInv, DumpInv
  <2> QED
    BY <1>3, <1>4, <2>1 DEF ResultInv, OwnOutput, OwnResponses, WaitedIsParsed
<1> QED
  BY <1>5, <1>6, <1>7, <1>8 DEF IndInv

\* __on_finish with nothing in the queue kills the process of the run.
LEMMA TimesOutPreserves ==
    ASSUME MaxRuns \in Nat, IndInv, FinishTimesOut
    PROVE  IndInv'
<1> DEFINE run == client.run
<1>1. /\ client \in Client /\ client.pc = "finish" /\ client.proc = run /\ run \in Runs
      /\ queue[run] = {} /\ ~client.waited /\ MaxRuns \in Nat
  BY DEF FinishTimesOut, QueueOf, IndInv, ObjType, Client, ProcInv, Runs, ResultInv
<1>2. /\ child' = [child EXCEPT ![run] = IF @ = "running" THEN "killed" ELSE @]
      /\ UNCHANGED <<cmd, queue, dump, clientOdd>>
  BY <1>1 DEF FinishTimesOut, Kill
<1>3. /\ client' \in Client
      /\ client'.run = run /\ client'.proc = 0 /\ client'.pc = "test" /\ ~client'.waited
      /\ client'.out = client.out /\ client'.responses = client.responses
      /\ client'.state = "stopped"
  <2>1. client' = [client EXCEPT !.pc = "test", !.proc = 0, !.state = "stopped"]
    BY DEF FinishTimesOut, STATE_STOPPED
  <2>2. client' \in Client
    <3>1. 0 \in 0 .. MaxRuns /\ "stopped" \in States
      BY <1>1, StateNames
    <3> QED
      BY <1>1, <2>1, <3>1 DEF Client
  <2>3. /\ client'.run = client.run /\ client'.proc = 0 /\ client'.pc = "test"
        /\ client'.waited = client.waited /\ client'.out = client.out
        /\ client'.responses = client.responses /\ client'.state = "stopped"
    BY <1>1, <2>1 DEF Client
  <2> QED
    BY <1>1, <2>2, <2>3
<1>4. ObjType' /\ ProcInv'
  BY <1>1, <1>2, <1>3 DEF IndInv, ObjType, ProcInv, STATE_STARTED
<1>5. RunsInv'
  BY <1>1, <1>2, <1>3 DEF IndInv, ObjType, RunsInv, Runs
<1>6. DumpInv'
  BY <1>2, <1>3 DEF IndInv, DumpInv
<1>7. ResultInv'
  BY <1>2, <1>3 DEF IndInv, ResultInv, OwnOutput, OwnResponses, WaitedIsParsed
<1> QED
  BY <1>4, <1>5, <1>6, <1>7 DEF IndInv

\* The command writes its headers file or ends.
LEMMA CommandPreserves ==
    ASSUME MaxRuns \in Nat, IndInv, NEW r \in Runs, NEW well \in BOOLEAN, Writes(r) \/ Ends(r, well)
    PROVE  IndInv'
<1>1. /\ r <= client.run /\ client.run \in Nat /\ r \in Nat /\ r \in 0 .. MaxRuns
      /\ cmd[r] \in {"running", "written"}
  <2>1. cmd[r] \in {"running", "written"}
    BY DEF Writes, Ends
  <2>2. client.run \in Nat /\ r \in Nat /\ r \in 0 .. MaxRuns
    BY DEF Runs, IndInv, ObjType, Client
  <2> QED
    BY <2>1, <2>2 DEF IndInv, RunsInv
<1>2. PICK v \in {"written", "ended", "failed"} :
        /\ cmd' = [cmd EXCEPT ![r] = v]
        /\ \/ v = "written" /\ cmd[r] = "running" /\ dump' = r /\ clientOdd' = clientOdd
           \/ cmd[r] = "running" /\ dump' = dump /\ clientOdd' = clientOdd \cup {"no_headers"}
           \/ cmd[r] = "written" /\ dump' = dump /\ clientOdd' = clientOdd
        /\ UNCHANGED <<client, child, queue>>
  BY DEF Writes, Ends
<1>3. ObjType' /\ ProcInv'
  BY <1>1, <1>2 DEF IndInv, ObjType, ProcInv
<1> DEFINE new(x) == IF x = r THEN v ELSE cmd[x]
<1>4. \A x \in Runs : cmd'[x] = new(x)
  BY <1>2 DEF IndInv, ObjType
<1>5. queue[r] = {}
  BY <1>1 DEF IndInv, RunsInv
<1>6. RunsInv'
  BY <1>1, <1>2, <1>4, <1>5 DEF IndInv, RunsInv
<1>7. DumpInv'
  <2> SUFFICES ASSUME clientOdd' = {}, NEW x \in Runs
               PROVE  /\ x < client'.run => cmd'[x] # "running"
                      /\ x = client'.run /\ cmd'[x] \in {"written", "ended", "failed"} => dump' = x
    BY DEF DumpInv
  <2>1. clientOdd = {}
    BY <1>2
  <2>2. /\ r < client.run => cmd[r] # "running"
        /\ x < client.run => cmd[x] # "running"
        /\ x = client.run /\ cmd[x] \in {"written", "ended", "failed"} => dump = x
    BY <2>1 DEF IndInv, DumpInv
  <2>3. x < client'.run => cmd'[x] # "running"
    BY <1>2, <1>4, <2>2
  <2>4. ASSUME x = client'.run, cmd'[x] \in {"written", "ended", "failed"}
        PROVE  dump' = x
    <3>1. CASE x = r
      BY <1>2, <2>2, <2>4, <3>1
    <3>2. CASE x # r
      <4>1. r < client.run /\ x = client.run
        <5>1. x = client.run
          BY <1>2, <2>4
        <5> QED
          BY <1>1, <3>2, <5>1
      <4>2. dump' = dump
        BY <1>2, <2>2, <4>1
      <4>3. cmd[x] \in {"written", "ended", "failed"}
        BY <1>4, <2>4, <3>2
      <4> QED
        BY <2>2, <4>1, <4>2, <4>3
    <3> QED
      BY <3>1, <3>2
  <2> QED
    BY <2>3, <2>4
<1>8. ResultInv'
  BY <1>1, <1>2 DEF IndInv, ResultInv, OwnOutput, OwnResponses, WaitedIsParsed
<1> QED
  BY <1>3, <1>6, <1>7, <1>8 DEF IndInv

\* The Python process puts the output of its run into the queue of its run, or dies.
LEMMA ProcessPreserves ==
    ASSUME MaxRuns \in Nat, IndInv, NEW r \in Runs, Put(r) \/ Dies(r)
    PROVE  IndInv'
<1>1. /\ r = client.proc /\ child[r] = "running" /\ cmd[r] \in {"ended", "failed"}
      /\ child' = [child EXCEPT ![r] = "done"]
      /\ queue' = [queue EXCEPT ![r] = @ \cup {r}] \/ queue' = queue
      /\ UNCHANGED <<cmd, dump, clientOdd>>
  BY DEF Put, Dies, QueueOf, IndInv, RunsInv
<1>2. client' \in Client /\ client' = client
  <2>1. client \in Client
    BY DEF IndInv, ObjType
  <2> QED
    BY <2>1 DEF Put, Dies, ReturnCode, Client
<1>3. ObjType' /\ ProcInv'
  BY <1>1, <1>2 DEF IndInv, ObjType, ProcInv
<1>4. RunsInv'
  BY <1>1, <1>2 DEF IndInv, ObjType, RunsInv
<1>5. DumpInv'
  BY <1>1, <1>2 DEF IndInv, DumpInv
<1>6. ResultInv'
  <2>1. OwnOutput' /\ OwnResponses' /\ WaitedIsParsed'
    BY <1>1, <1>2 DEF IndInv, ResultInv, OwnOutput, OwnResponses, WaitedIsParsed
  <2>2. queue[client.run] # {} => queue'[client.run] # {}
    <3>1. client.run = r
      BY <1>1 DEF IndInv, ProcInv, Runs
    <3> QED
      BY <1>1, <3>1 DEF IndInv, ObjType
  <2> QED
    BY <1>2, <2>1, <2>2 DEF IndInv, ResultInv
<1> QED
  BY <1>3, <1>4, <1>5, <1>6 DEF IndInv

\* The invariant holds initially and every step keeps it, for every number of runs.
THEOREM Inductive == IndInv /\ [ClientNext]_clientVars => IndInv'
<1> SUFFICES ASSUME IndInv, [ClientNext]_clientVars PROVE IndInv'
  OBVIOUS
<1>1. CASE UNCHANGED clientVars
  BY <1>1 DEF clientVars, IndInv, ObjType, ProcInv, RunsInv, DumpInv, ResultInv, OwnOutput,
     OwnResponses, WaitedIsParsed
<1> QED
  BY <1>1, MaxRunsAssumption, StartPreserves, WaitStopPreserves, FinishPreserves, TimesOutPreserves, CommandPreserves,
     ProcessPreserves DEF ClientNext

\* Every state a client reaches satisfies the invariant.
LEMMA IndInvHolds == ClientSpec => []IndInv
<1>1. ClientInit => IndInv BY MaxRunsAssumption, InitIndInv
<1> QED BY <1>1, Inductive, PTL DEF ClientSpec

\* What Client.__on_finish leaves in an external client are the results of its own
\* run: the output of an earlier run, whose process was killed or came too late, is
\* never taken for it; curl's responses are of this run as well while no command
\* outlives a kill and none ends without headers; and a run that wait_for_finish()
\* saw finish is parsed, not killed.  For any number of runs.
THEOREM ResultsOwn == ClientSpec => []OwnResults
<1>1. IndInv => OwnResults
  <2> SUFFICES ASSUME IndInv PROVE OwnResults
    OBVIOUS
  <2>1. ClientTypeOK
    BY MaxRunsAssumption, StateNames DEF IndInv, ObjType, Client, ProcInv, ClientTypeOK
  <2> QED
    BY <2>1 DEF IndInv, ResultInv, OwnResults
<1> QED
  BY <1>1, IndInvHolds, PTL

\* A client that is stopped, or whose stop() failed, has left no Python process, of
\* its last run or of any other.
THEOREM ProcessesGone == ClientSpec => []NoProcessLeft
<1>1. IndInv => NoProcessLeft
  BY MaxRunsAssumption DEF IndInv, ProcInv, RunsInv, NoProcessLeft, STATE_STOPPED,
     STATE_ERROR, STATE_STARTED, Runs
<1> QED
  BY <1>1, IndInvHolds, PTL

=============================================================================
