--------------------------- MODULE ExternalClient ---------------------------
(***************************************************************************)
(* A client that runs as a program of its own, wrk, curl or any other      *)
(* (framework/services/{base_client,curl_client,external_client}.py).      *)
(* start() forks a Python process, which runs the command in a shell and   *)
(* puts the output into a queue; stop() takes it from there or, when that  *)
(* takes too long, kills the Python process.  The command itself is not    *)
(* killed then.  curl also leaves the headers it got in a file whose name  *)
(* is the same for all runs of the client.                                 *)
(***************************************************************************)
EXTENDS Integers, FiniteSets, Stateful

CONSTANTS MaxRuns    \* bound: start() calls that get as far as a new run

ASSUME MaxRunsAssumption == MaxRuns \in Nat

VARIABLES client,    \* the framework's object, in the test's process: curl or not,
                     \* its Stateful state, the run whose output was parsed (out),
                     \* the run whose headers file was (responses)
          child,     \* [Runs -> state of the Python process of the run]
          cmd,       \* [Runs -> state of its command]
          queue,     \* [Queues -> what the queue holds: the runs whose output was put]
          dump,      \* the run whose command wrote the headers file, 0 if none
          clientOdd  \* observer: coincidences

clientVars == <<client, child, cmd, queue, dump, clientOdd>>

Runs == 1 .. MaxRuns

-----------------------------------------------------------------------------
(* The test                                                                *)

\* clear_stats: every run has a new queue, the processes of earlier runs keep
\* theirs, and no results yet.
QueueOf(run) == run

\* Mutant of ClearStats: the results of the run before are kept.
ClearStatsKeeping(o) == [o EXCEPT !.proc = 0, !.returncode = 0, !.waited = FALSE]

ClearStats(o) ==
  [o EXCEPT !.proc = 0, !.returncode = 0, !.out = 0, !.responses = 0, !.waited = FALSE]

\* prepare() and the fork.  Copying the option files may raise: the client
\* is left in STATE_BEGIN_START with no process.
StartClient(copied) ==
  /\ client.pc = "test" /\ MayStart(client.state) /\ client.run < MaxRuns
  /\ LET r == client.run + 1
     IN /\ client' = [ClearStats(client) EXCEPT
                     !.state = IF copied THEN STATE_STARTED ELSE STATE_BEGIN_START,
                     !.run = r, !.proc = IF copied THEN r ELSE 0]
        /\ child' = [child EXCEPT ![r] = IF copied THEN "running" ELSE @]
        /\ cmd' = [cmd EXCEPT ![r] = IF copied THEN "running" ELSE @]
  /\ clientOdd' = clientOdd \cup (IF \E p \in Runs : cmd[p] = "running" THEN {"orphan"} ELSE {})
  /\ UNCHANGED <<queue, dump>>

\* wait_for_finish() succeeds as soon as the queue is not empty.
WaitForFinish ==
  /\ client.pc = "test" /\ client.state = STATE_STARTED /\ ~client.waited
  /\ queue[QueueOf(client.run)] # {}
  /\ client' = [client EXCEPT !.waited = TRUE]
  /\ UNCHANGED <<child, cmd, queue, dump, clientOdd>>

\* stop() calls __on_finish, which has nothing to do without a process.
StopClient ==
  /\ client.pc = "test" /\ MayStop(client.state)
  /\ client' = IF client.proc = 0 THEN [client EXCEPT !.state = STATE_STOPPED]
            ELSE [client EXCEPT !.pc = "finish"]
  /\ UNCHANGED <<child, cmd, queue, dump, clientOdd>>

\* The output arrived; it is parsed.  curl reads the headers file, and a
\* missing file, or a response of another protocol version, is an exception:
\* the only stop procedure has failed.
Finish(output, wellFormed) ==
  LET q == QueueOf(client.run)
  IN /\ client.pc = "finish" /\ output \in queue[q]
     /\ queue' = [queue EXCEPT ![q] = @ \ {output}]
     /\ client' = [client EXCEPT
                  !.pc = "test", !.proc = 0, !.out = output,
                  !.responses = IF client.curl THEN dump ELSE 0,
                  !.state = IF client.curl => (dump # 0 /\ wellFormed) THEN STATE_STOPPED
                            ELSE STATE_ERROR]
     /\ UNCHANGED <<child, cmd, dump, clientOdd>>

\* Mutant of Kill: the process is left to itself.
KillNobody(c) == c

\* Nothing in the queue for `duration` seconds.
Kill(c) == [c EXCEPT ![client.proc] = IF @ = "running" THEN "killed" ELSE @]

FinishTimesOut ==
  /\ client.pc = "finish" /\ queue[QueueOf(client.run)] = {}
  /\ child' = Kill(child)
  /\ client' = [client EXCEPT !.pc = "test", !.proc = 0, !.state = STATE_STOPPED]
  /\ UNCHANGED <<cmd, queue, dump, clientOdd>>

-----------------------------------------------------------------------------
(* The processes of a run                                                  *)

\* The command writes its headers file, at most once.
Writes(r) ==
  /\ cmd[r] = "running"
  /\ cmd' = [cmd EXCEPT ![r] = "written"]
  /\ dump' = r
  /\ UNCHANGED <<client, child, queue, clientOdd>>

\* It ends, well or badly, or is killed at its time limit; without a word it
\* has left the headers file of an earlier run in its place.
Ends(r, well) ==
  /\ cmd[r] \in {"running", "written"}
  /\ cmd' = [cmd EXCEPT ![r] = IF well THEN "ended" ELSE "failed"]
  /\ clientOdd' = clientOdd \cup (IF cmd[r] = "running" THEN {"no_headers"} ELSE {})
  /\ UNCHANGED <<client, child, queue, dump>>

\* _run_client: the output, or that of the exception, is put into the queue.
\* The return code is set in this process' copy of the client.
ReturnCode(r) == client.returncode

Put(r) ==
  /\ child[r] = "running" /\ cmd[r] \in {"ended", "failed"}
  /\ child' = [child EXCEPT ![r] = "done"]
  /\ queue' = [queue EXCEPT ![QueueOf(r)] = @ \cup {r}]
  /\ client' = [client EXCEPT !.returncode = ReturnCode(r)]
  /\ UNCHANGED <<cmd, dump, clientOdd>>

\* Any other exception ends the process without a word.
Dies(r) ==
  /\ child[r] = "running" /\ cmd[r] \in {"ended", "failed"}
  /\ child' = [child EXCEPT ![r] = "done"]
  /\ UNCHANGED <<client, cmd, queue, dump, clientOdd>>

ClientInit ==
  /\ \E curl \in BOOLEAN :
     client = [curl |-> curl, state |-> STATE_STOPPED, pc |-> "test", run |-> 0, proc |-> 0,
            returncode |-> 0, out |-> 0, responses |-> 0, waited |-> FALSE]
  /\ child = [r \in Runs |-> "none"] /\ cmd = [r \in Runs |-> "none"]
  /\ queue = [r \in Runs |-> {}] /\ dump = 0 /\ clientOdd = {}

ClientNext ==
  \/ \E copied \in BOOLEAN : StartClient(copied)
  \/ WaitForFinish \/ StopClient \/ FinishTimesOut
  \/ \E r \in Runs : \/ Writes(r) \/ Put(r) \/ Dies(r)
                     \/ \E well \in BOOLEAN : Ends(r, well) \/ Finish(r, well)

ClientSpec == ClientInit /\ [][ClientNext]_clientVars

-----------------------------------------------------------------------------
\* Every variable has its type.
ClientTypeOK ==
  /\ client.state \in States /\ client.pc \in {"test", "finish"}
  /\ client.run \in 0 .. MaxRuns /\ client.proc \in {0, client.run}
  /\ client.pc = "finish" => client.proc # 0
  /\ client.waited \in BOOLEAN /\ client.returncode \in {0, 1}
  /\ child \in [Runs -> {"none", "running", "done", "killed"}]
  /\ cmd \in [Runs -> {"none", "running", "written", "ended", "failed"}]
  /\ queue \in [Runs -> SUBSET Runs] /\ dump \in 0 .. MaxRuns

\* The output that __on_finish parses is that of the client's present run,
\* though the processes of killed runs may still deliver theirs.
OwnOutput == client.out \in {0, client.run}

\* So are curl's responses, unless the command of a killed run outlived it and
\* wrote the headers file later, or the command of this run wrote none and the
\* file of an earlier run was read instead.
OwnResponses ==
  client.responses \in {0, client.run} \/ clientOdd # {}

\* A client that wait_for_finish() saw finish is never killed by stop(): its
\* output is there to be parsed.
WaitedIsParsed ==
  client.waited /\ client.proc = 0 => client.out = client.run

\* A stopped client has no Python process left, of this run or another.
NoProcessLeft ==
  (client.pc = "test" /\ client.state \in {STATE_STOPPED, STATE_ERROR}) =>
     \A r \in Runs : child[r] # "running"

\* The tests compare returncode with 0 to see that the command went well
\* (tests/http2_general/test_h2_headers.py): when the output of a command that
\* failed was parsed, the client's returncode is not 0.
ReturnCodeTells ==
  (client.out # 0 /\ cmd[client.out] = "failed") => client.returncode # 0

\* What __on_finish leaves in the client are the results of its own run, and a run
\* that was waited for has them.  (And the variables have their types.)
OwnResults == ClientTypeOK /\ OwnOutput /\ OwnResponses /\ WaitedIsParsed

=============================================================================
