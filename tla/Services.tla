------------------------------ MODULE Services ------------------------------
(***************************************************************************)
(* A service of the stand that runs as a process, a container or a kernel  *)
(* module of its own: nginx, a Docker container, TempestaFW                *)
(* (framework/services/{nginx_server,docker_server,tempesta}.py), driven   *)
(* through start(), stop(), reload() and the statistics of nginx.  Every   *)
(* call on the node is a step of its own and may fail.                     *)
(***************************************************************************)
EXTENDS Integers, Sequences, FiniteSets, Stateful, RemoteNode

CONSTANTS MaxCfg,     \* bound: versions of the configuration
          MaxStarts,  \* bound: start() and reload()
          MaxFaults,  \* bound: calls that fail, crashes
          MaxReqs     \* bound: requests served by one process, and asks for statistics

\* There is a first version of the configuration.
ASSUME BoundsAssumption ==
  /\ MaxCfg \in Nat \ {0} /\ MaxStarts \in Nat /\ MaxFaults \in Nat /\ MaxReqs \in Nat

VARIABLES kind,    \* "nginx", "docker" or "tempesta"
          stand,   \* [local, debug, checked]: how the stand is set up
          obj,     \* the framework's object
          proc,    \* the process (container, module) on the node
          files,   \* the files on the node: config version, and one more file
          runs, faults,
          odd      \* observer: what went wrong so far

vars == <<kind, stand, obj, proc, files, runs, faults, odd>>

Kinds == {"nginx", "docker", "tempesta"}
Broken == MaxCfg + 1   \* a configuration that was only partly written
NoProc == [cfg |-> 0, inst |-> 0, dying |-> FALSE, reqs |-> 0, seen |-> 0]
NoStats == [asks |-> 0, told |-> 0, real |-> 0]

NginxStart == <<"check_ports", "copy", "run">>
DockerStart == <<"check_ports", "tar", "build", "run">>
TempestaStart == <<"check_config", "copy", "copy_logger", "run">>
StartSteps == [nginx |-> NginxStart, docker |-> DockerStart, tempesta |-> TempestaStart]

\* Mutant of ReloadSteps: the file is written after the reload.
ReloadStepsLate == <<"check_config", "reload", "copy", "copy_logger">>

ReloadSteps == <<"check_config", "copy", "copy_logger", "reload">>

\* The stop procedures, each a list of calls.
NginxStop == <<<<"stop_nginx">>, <<"remove">>>>
DockerStop == <<<<"stop_server">>, <<"remove_tar">>>>
TempestaStop == <<<<"stop_tempesta">>, <<"remove", "remove_logger">>, <<"drop_table">>>>
StopProcedures == [nginx |-> NginxStop, docker |-> DockerStop, tempesta |-> TempestaStop]

-----------------------------------------------------------------------------
(* Calls on the node                                                       *)

\* What the call can come to, faults included.
Outcomes(step) ==
  CASE step \in {"copy", "copy_logger"} -> CopyFile(stand.local)
    [] step = "tar" -> CopyFile(TRUE)
    [] step \in {"remove", "remove_logger", "remove_tar"} ->
         RemoveFile(stand.local, stand.debug)
    [] step = "check_config" -> {Done}
    [] OTHER -> RunCmd(stand.local)

\* Calls that raise, or do nothing, in the present state of the node.
Raises(step) ==
  CASE step = "check_ports" -> stand.checked /\ proc.cfg # 0
    [] step = "check_config" -> obj.cfg = 0
    [] step = "build" -> ~files.other
    [] step = "run" -> files.cfg = 0 \/ proc.cfg # 0
    [] step = "reload" -> proc.cfg = 0
    [] step = "stop_nginx" -> proc.cfg = 0      \* no pid file
    [] step = "stop_server" -> proc.cfg = 0 \/ obj.id # proc.inst
    [] OTHER -> FALSE

Skipped(step) == step = "stop_server" /\ obj.id = 0

ProcAfter(step) ==
  CASE step = "run" -> [NoProc EXCEPT !.cfg = files.cfg, !.inst = proc.inst + 1]
    [] step = "reload" -> [proc EXCEPT !.cfg = files.cfg]
    \* The shell never waits for the exit: its loop tests the literal path
    \* '/proc/$pid', the quotes keep the variable from being expanded.
    [] step = "stop_nginx" -> [proc EXCEPT !.dying = TRUE]
    [] step \in {"stop_server", "stop_tempesta"} -> [NoProc EXCEPT !.inst = proc.inst]
    [] OTHER -> proc

FilesAfter(step) ==
  CASE step \in {"copy", "build"} -> [files EXCEPT !.cfg = obj.cfg]
    [] step \in {"copy_logger", "tar"} -> [files EXCEPT !.other = TRUE]
    [] step = "remove" -> [files EXCEPT !.cfg = 0]
    [] step \in {"remove_logger", "remove_tar"} -> [files EXCEPT !.other = FALSE]
    [] OTHER -> files

\* copy_file truncates the file before it writes it, so that a copy that fails leaves
\* the old file or a broken one; over sftp not even the caller knows.
Torn(step, o) ==
  IF o = Refused /\ ~stand.local /\ step # "tar" THEN {files}  \* its directory was not made
  ELSE CASE step = "copy" -> {files, [files EXCEPT !.cfg = Broken]}
         [] step \in {"copy_logger", "tar"} -> {files, [files EXCEPT !.other = TRUE]}
         [] OTHER -> {files}

Removals == {"remove", "remove_logger", "remove_tar"}
Stops == {"stop_nginx", "stop_server", "stop_tempesta", "drop_table"} \cup Removals

Oddities(step, o) ==
  (IF o # Swallowed THEN {} ELSE IF step \in Removals THEN {"kept_file"} ELSE {"old_file"})
  \cup (IF step = "run" /\ o = DoneButRaised /\ kind = "docker" THEN {"lost_id"} ELSE {})
  \cup (IF o.raises /\ step \in Stops THEN {"stop_failed"} ELSE {})
  \cup (IF o.raises /\ obj.op = "reload" THEN {"reload_failed"} ELSE {})

-----------------------------------------------------------------------------
(* start(), reload(), stop()                                               *)

Idle == obj.op = "idle"

Start ==
  /\ Idle /\ MayStart(obj.state) /\ runs < MaxStarts
  /\ runs' = runs + 1
  /\ obj' = [obj EXCEPT !.state = STATE_BEGIN_START, !.op = "start", !.ran = obj.cfg,
                        !.todo = <<StartSteps[kind]>>, !.stats = NoStats]
  /\ odd' = odd \ {"stray_reload"}
  /\ UNCHANGED <<kind, stand, proc, files, faults>>

\* reload() does not look at the state; nobody removes what it writes if the service
\* is stopped.
Reload ==
  /\ Idle /\ kind = "tempesta" /\ runs < MaxStarts
  /\ runs' = runs + 1
  /\ obj' = [obj EXCEPT !.op = "reload", !.ran = obj.cfg, !.todo = <<ReloadSteps>>]
  /\ odd' = IF obj.state = STATE_STOPPED THEN odd \cup {"stray_reload"} ELSE odd
  /\ UNCHANGED <<kind, stand, proc, files, faults>>

Stop ==
  /\ Idle /\ MayStop(obj.state)
  /\ obj' = [obj EXCEPT !.op = "stop", !.todo = StopProcedures[kind]]
  /\ UNCHANGED <<kind, stand, proc, files, runs, faults, odd>>

\* What is left to do: an exception ends a start, but only one procedure of
\* a stop.
Left(raises) ==
  LET more == Tail(obj.todo[1])
  IN IF raises THEN (IF obj.op = "stop" THEN Tail(obj.todo) ELSE <<>>)
     ELSE (IF more = <<>> THEN <<>> ELSE <<more>>) \o Tail(obj.todo)

StateAfter(raises) ==
  CASE obj.op = "stop" /\ raises -> STATE_ERROR
    [] obj.op = "stop" /\ ~raises /\ Len(obj.todo[1]) = 1 -> STATE_STOPPED
    [] obj.op = "start" /\ ~raises /\ Left(FALSE) = <<>> -> STATE_STARTED
    [] OTHER -> obj.state

\* Mutant of IdAfter: the id of the container is not kept.
IdAfterNever(step, o) == obj.id

IdAfter(step, o) ==
  IF kind = "docker" /\ step = "run" /\ ~o.raises THEN proc.inst + 1 ELSE obj.id

Step ==
  /\ ~Idle
  /\ LET step == obj.todo[1][1]
     IN \E o \in IF Skipped(step) THEN {Swallowed}
               ELSE IF Raises(step) THEN {Refused} ELSE Outcomes(step) :
          /\ faults' = IF o = Done \/ Skipped(step) \/ Raises(step) THEN faults
                       ELSE faults + 1
          /\ faults' <= MaxFaults
          /\ proc' = IF o.effect THEN ProcAfter(step) ELSE proc
          /\ files' \in IF o.effect THEN {FilesAfter(step)} ELSE Torn(step, o)
          /\ odd' = IF Skipped(step) THEN odd ELSE odd \cup Oddities(step, o)
          /\ obj' = [obj EXCEPT !.todo = Left(o.raises), !.id = IdAfter(step, o),
                                !.op = IF Left(o.raises) = <<>> THEN "idle" ELSE @,
                                !.state = StateAfter(o.raises)]
  /\ UNCHANGED <<kind, stand, runs>>

\* Config.set_defconfig, replace: the test gives TempestaFW another text.
SetConfig ==
  /\ Idle /\ kind = "tempesta" /\ obj.cfg < MaxCfg
  /\ obj' = [obj EXCEPT !.cfg = @ + 1]
  /\ UNCHANGED <<kind, stand, proc, files, runs, faults, odd>>

-----------------------------------------------------------------------------
(* Nginx's statistics: its counter includes the requests that ask for it   *)

Told(asks, seen) == seen - asks

GetStats ==
  /\ Idle /\ kind = "nginx" /\ obj.stats.asks < MaxReqs
  /\ \E o \in IF proc.cfg = 0 THEN {Refused} ELSE RunCmd(stand.local) :
       LET asks == obj.stats.asks + 1
           seen == IF o.effect THEN proc.seen + 1 ELSE proc.seen
       IN /\ faults' = IF o = Done \/ proc.cfg = 0 THEN faults ELSE faults + 1
          /\ faults' <= MaxFaults
          /\ proc' = [proc EXCEPT !.seen = seen]
          /\ obj' = [obj EXCEPT !.stats = IF o.raises THEN [@ EXCEPT !.asks = asks]
                       ELSE [asks |-> asks, told |-> Told(asks, seen), real |-> proc.reqs]]
          /\ odd' = odd \cup (IF o.effect \/ proc.cfg = 0 THEN {} ELSE {"lost_ask"})
  /\ UNCHANGED <<kind, stand, files, runs>>

-----------------------------------------------------------------------------
(* The process itself                                                      *)

Serve ==
  /\ kind = "nginx" /\ proc.cfg # 0 /\ proc.reqs < MaxReqs
  /\ proc' = [proc EXCEPT !.reqs = @ + 1, !.seen = @ + 1]
  /\ UNCHANGED <<kind, stand, obj, files, runs, faults, odd>>

Exits ==
  /\ proc.dying
  /\ proc' = [NoProc EXCEPT !.inst = proc.inst]
  /\ UNCHANGED <<kind, stand, obj, files, runs, faults, odd>>

Crash ==
  /\ proc.cfg # 0 /\ ~proc.dying /\ faults < MaxFaults
  /\ faults' = faults + 1
  /\ proc' = [NoProc EXCEPT !.inst = proc.inst]
  /\ UNCHANGED <<kind, stand, obj, files, runs, odd>>

Init ==
  /\ kind \in Kinds
  /\ stand \in [local : BOOLEAN, debug : BOOLEAN, checked : BOOLEAN]
  /\ (kind # "tempesta") => stand.local
  /\ obj = [state |-> STATE_STOPPED, op |-> "idle", todo |-> <<>>, id |-> 0, ran |-> 0,
            cfg |-> IF kind = "tempesta" THEN 0 ELSE 1, stats |-> NoStats]
  /\ proc = NoProc /\ files = [cfg |-> 0, other |-> FALSE]
  /\ runs = 0 /\ faults = 0 /\ odd = {}

Next ==
  \/ Start \/ Reload \/ Stop \/ Step \/ SetConfig
  \/ GetStats
  \/ Serve \/ Exits \/ Crash

Spec == Init /\ [][Next]_vars

-----------------------------------------------------------------------------
\* Every variable has its type; the steps are those of the operation in hand.
TypeOK ==
  /\ kind \in Kinds /\ stand \in [local : BOOLEAN, debug : BOOLEAN, checked : BOOLEAN]
  /\ obj.state \in States /\ obj.cfg \in 0 .. MaxCfg /\ obj.ran \in 0 .. MaxCfg
  /\ (obj.op = "idle") = (obj.todo = <<>>)
  /\ obj.op = "start" => obj.state = STATE_BEGIN_START
  /\ obj.op = "reload" => kind = "tempesta"
  /\ proc.cfg \in 0 .. Broken /\ files.cfg \in 0 .. Broken
  /\ obj.id \in 0 .. proc.inst

\* A service that is started, or was reloaded, runs with the configuration the
\* test had set by then, and not with the file of an earlier start: start()
\* and reload() write the file before they run the command, and a file that was
\* only partly written stops them.  An error of sftp that copy_file only logs, and
\* a reload that raised, are the excuses.
RunsOwnConfig ==
  (Idle /\ obj.state = STATE_STARTED /\ proc.cfg # 0
     /\ odd \cap {"old_file", "reload_failed"} = {}) => proc.cfg = obj.ran

\* A stop() during which no procedure raised leaves neither a process (nginx
\* may still be on its way out) nor a file of the service, however far the
\* start() before it had come.  A container whose id was lost because the
\* command that started it raised, a file that could not be removed quietly
\* and, for the files, a reload() of the stopped service are the excuses.
CleanStop ==
  (Idle /\ obj.state = STATE_STOPPED
     /\ odd \cap {"stop_failed", "kept_file", "lost_id"} = {} /\ ~stand.debug) =>
  /\ proc.cfg = 0 \/ proc.dying
  /\ "stray_reload" \notin odd => ~files.other /\ (kind # "docker" => files.cfg = 0)

\* The number of requests that Nginx.requests reports is the number the
\* process has served for others: its own questions are taken out, across
\* restarts and failing questions, unless a question never reached nginx.
StatsExact ==
  (obj.state = STATE_STARTED /\ "lost_ask" \notin odd) =>
     obj.stats.told = obj.stats.real

\* A started service is what the test asked for: it runs with the test's
\* configuration and its statistics are those of the test's requests.  (And the
\* variables have their types.)
RunsAsAsked == TypeOK /\ RunsOwnConfig /\ StatsExact

=============================================================================
