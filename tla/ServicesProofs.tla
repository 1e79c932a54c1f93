--------------------------- MODULE ServicesProofs ---------------------------
(***************************************************************************)
(* Proofs about Services, for any bounds: a started service runs with the  *)
(* configuration the test asked for, its statistics are those of the       *)
(* test's requests, and a stop() that did not fail leaves nothing behind.  *)
(***************************************************************************)
EXTENDS Services, SequenceTheorems, TLAPS

\* The bounds are numbers, and there is a first version of the configuration.
Bounds == MaxCfg \in Nat \ {0} /\ MaxStarts \in Nat /\ MaxFaults \in Nat /\ MaxReqs \in Nat

-----------------------------------------------------------------------------
(* The inductive invariant of a service                                    *)

\* The calls that are left of start(), reload() and stop().
StartTodo(k) ==
    CASE k = "nginx" -> {<<<<"check_ports", "copy", "run">>>>, <<<<"copy", "run">>>>, <<<<"run">>>>}
      [] k = "docker" -> {<<<<"check_ports", "tar", "build", "run">>>>, <<<<"tar", "build", "run">>>>,
                          <<<<"build", "run">>>>, <<<<"run">>>>}
      [] OTHER -> {<<<<"check_config", "copy", "copy_logger", "run">>>>,
                   <<<<"copy", "copy_logger", "run">>>>, <<<<"copy_logger", "run">>>>, <<<<"run">>>>}

ReloadTodo ==
    {<<<<"check_config", "copy", "copy_logger", "reload">>>>, <<<<"copy", "copy_logger", "reload">>>>,
     <<<<"copy_logger", "reload">>>>, <<<<"reload">>>>}

StopTodo(k) ==
    CASE k = "nginx" -> {<<<<"stop_nginx">>, <<"remove">>>>, <<<<"remove">>>>}
      [] k = "docker" -> {<<<<"stop_server">>, <<"remove_tar">>>>, <<<<"remove_tar">>>>}
      [] OTHER -> {<<<<"stop_tempesta">>, <<"remove", "remove_logger">>, <<"drop_table">>>>,
                   <<<<"remove", "remove_logger">>, <<"drop_table">>>>,
                   <<<<"remove_logger">>, <<"drop_table">>>>, <<<<"drop_table">>>>}

Todo(k, op) ==
    CASE op = "start" -> StartTodo(k)
      [] op = "reload" -> ReloadTodo
      [] op = "stop" -> StopTodo(k)
      [] OTHER -> {<<>>}

Todos == UNION {Todo(k, op) : k \in {"nginx", "docker", "tempesta"},
                              op \in {"idle", "start", "reload", "stop"}}

\* The call to come.
First(todo) == IF todo = <<>> THEN "none" ELSE todo[1][1]

Stats == [asks : Nat, told : Int, real : Nat]

Obj ==
    [state : States, op : {"idle", "start", "reload", "stop"}, todo : Todos, id : Nat,
     ran : 0 .. MaxCfg, cfg : 0 .. MaxCfg, stats : Stats]

ObjType ==
    /\ kind \in {"nginx", "docker", "tempesta"}
    /\ stand \in [local : BOOLEAN, debug : BOOLEAN, checked : BOOLEAN]
    /\ obj \in Obj
    /\ proc \in [cfg : 0 .. Broken, inst : Nat, dying : BOOLEAN, reqs : Nat, seen : Nat]
    /\ files \in [cfg : 0 .. Broken, other : BOOLEAN]
    /\ runs \in Nat /\ faults \in Nat

\* The calls left are those of the operation in hand, in a state that goes with it.
FlowInv ==
    /\ obj.todo \in Todo(kind, obj.op)
    /\ obj.op = "start" => obj.state = "begin_start"
    /\ obj.op = "reload" => kind = "tempesta"

\* The configuration is that of the test while start() or reload() is at work, it is in
\* the file once the file was written, and the process has it once it was started.
ConfigInv ==
    /\ obj.op \in {"start", "reload"} =>
         /\ obj.ran = obj.cfg
         /\ First(obj.todo) \in {"copy_logger", "run", "reload"} /\ "old_file" \notin odd =>
              files.cfg = obj.ran
    /\ RunsOwnConfig

\* What stop() has still to take away: it goes with the calls that are left.  A container
\* has an id, and so can be stopped.  A reload() of the stopped service is noted, and
\* starts no process.
CleanInv ==
    /\ obj.id <= proc.inst
    /\ kind = "nginx" => ~files.other
    /\ kind = "docker" /\ "lost_id" \notin odd /\ proc.cfg # 0 => obj.id # 0
    /\ obj.op = "stop" /\ odd \cap {"stop_failed", "kept_file", "lost_id"} = {} /\ ~stand.debug =>
         /\ First(obj.todo) \in {"remove", "remove_tar", "remove_logger", "drop_table"} =>
              proc.cfg = 0 \/ proc.dying
         /\ First(obj.todo) \in {"remove_logger", "drop_table"} => files.cfg = 0
         /\ First(obj.todo) = "drop_table" => ~files.other
    /\ obj.op = "reload" /\ obj.state = "stopped" =>
         /\ "stray_reload" \in odd
         /\ odd \cap {"stop_failed", "kept_file", "lost_id"} = {} /\ ~stand.debug =>
              proc.cfg = 0 \/ proc.dying
    /\ CleanStop

\* nginx has counted the requests of others and the questions of this run.
StatsInv ==
    /\ obj.op = "start" => obj.stats = NoStats
    /\ obj.state = "started" /\ "lost_ask" \notin odd =>
         /\ obj.stats.told = obj.stats.real
         /\ proc.cfg # 0 => proc.seen = proc.reqs + obj.stats.asks

IndInv == ObjType /\ FlowInv /\ ConfigInv /\ CleanInv /\ StatsInv

-----------------------------------------------------------------------------
(* How the calls follow one another                                        *)

\* What is left of a list of calls.
LEMMA Tails ==
    /\ \A a : Tail(<<a>>) = <<>> /\ <<a>> # <<>> /\ Len(<<a>>) = 1
    /\ \A a, b : Tail(<<a, b>>) = <<b>> /\ <<a, b>> # <<>> /\ Len(<<a, b>>) = 2
    /\ \A a, b, c : Tail(<<a, b, c>>) = <<b, c>> /\ <<a, b, c>> # <<>> /\ Len(<<a, b, c>>) = 3
    /\ \A a, b, c, d : Tail(<<a, b, c, d>>) = <<b, c, d>> /\ Len(<<a, b, c, d>>) = 4
OBVIOUS

\* Two lists of calls, one after the other.
LEMMA Joins ==
    /\ \A a : <<a>> \o <<>> = <<a>>
    /\ \A a : <<>> \o <<a>> = <<a>>
    /\ \A a, b : <<>> \o <<a, b>> = <<a, b>>
    /\ \A a, b : <<a>> \o <<b>> = <<a, b>>
<1>1. ASSUME NEW a, NEW b PROVE <<a>> \o <<b>> = <<a, b>>
  <2> DEFINE T == {a, b}
  <2>1. <<a>> \in Seq(T) /\ <<b>> \in Seq(T) /\ <<a, b>> \in Seq(T)
    OBVIOUS
  <2>2. Len(<<a>> \o <<b>>) = 2 /\ <<a>> \o <<b>> \in Seq(T)
    BY <2>1
  <2>3. (<<a>> \o <<b>>)[1] = a /\ (<<a>> \o <<b>>)[2] = b
    BY <2>1
  <2>4. \A i \in 1 .. 2 : (<<a>> \o <<b>>)[i] = <<a, b>>[i]
    BY <2>3
  <2> QED
    BY <2>1, <2>2, <2>4, SeqEqual
<1> QED
  BY <1>1

\* The call f of an operation of a service of kind k is followed by n, or by a if it
\* raised, and is the last of its stop procedure or not.
Flows(k, op, f, n, a, last) ==
    \/ /\ op = "start" /\ a = "none"
       /\ \/ k = "nginx" /\ <<f, n>> \in {<<"check_ports", "copy">>, <<"copy", "run">>, <<"run", "none">>}
          \/ k = "docker" /\ <<f, n>> \in {<<"check_ports", "tar">>, <<"tar", "build">>,
                                          <<"build", "run">>, <<"run", "none">>}
          \/ k = "tempesta" /\ <<f, n>> \in {<<"check_config", "copy">>, <<"copy", "copy_logger">>,
                                            <<"copy_logger", "run">>, <<"run", "none">>}
    \/ /\ op = "reload" /\ a = "none" /\ k = "tempesta"
       /\ <<f, n>> \in {<<"check_config", "copy">>, <<"copy", "copy_logger">>,
                       <<"copy_logger", "reload">>, <<"reload", "none">>}
    \/ /\ op = "stop" /\ last
       /\ a = n
       /\ \/ k = "nginx" /\ <<f, n>> \in {<<"stop_nginx", "remove">>, <<"remove", "none">>}
          \/ k = "docker" /\ <<f, n>> \in {<<"stop_server", "remove_tar">>, <<"remove_tar", "none">>}
          \/ k = "tempesta" /\ <<f, n>> \in {<<"stop_tempesta", "remove">>, <<"remove_logger", "drop_table">>,
                                            <<"drop_table", "none">>}
    \/ op = "stop" /\ ~last /\ k = "tempesta" /\ f = "remove" /\ n = "remove_logger" /\ a = "drop_table"

\* What Left makes of the calls that are left is again what is left of the same operation.
LEMMA Flow ==
    ASSUME ObjType, FlowInv, obj.op # "idle"
    PROVE  /\ First(obj.todo) = obj.todo[1][1]
           /\ \A x \in BOOLEAN : /\ Left(x) = <<>> \/ Left(x) \in Todo(kind, obj.op)
                                 /\ Left(x) = <<>> <=> First(Left(x)) = "none"
           /\ Flows(kind, obj.op, First(obj.todo), First(Left(FALSE)), First(Left(TRUE)),
                    Len(obj.todo[1]) = 1)
<1> USE Tails, Joins
<1>1. CASE obj.op = "start" /\ kind = "nginx"
  <2>1. CASE obj.todo = <<<<"check_ports", "copy", "run">>>>
    BY <1>1, <2>1 DEF Left, First, Flows, Todo, StartTodo
  <2>2. CASE obj.todo = <<<<"copy", "run">>>>
    BY <1>1, <2>2 DEF Left, First, Flows, Todo, StartTodo
  <2>3. CASE obj.todo = <<<<"run">>>>
    BY <1>1, <2>3 DEF Left, First, Flows, Todo, StartTodo
  <2> QED
    BY <1>1, <2>1, <2>2, <2>3 DEF FlowInv, Todo, StartTodo
<1>2. CASE obj.op = "start" /\ kind = "docker"
  <2>1. CASE obj.todo = <<<<"check_ports", "tar", "build", "run">>>>
    BY <1>2, <2>1 DEF Left, First, Flows, Todo, StartTodo
  <2>2. CASE obj.todo = <<<<"tar", "build", "run">>>>
    BY <1>2, <2>2 DEF Left, First, Flows, Todo, StartTodo
  <2>3. CASE obj.todo = <<<<"build", "run">>>>
    BY <1>2, <2>3 DEF Left, First, Flows, Todo, StartTodo
  <2>4. CASE obj.todo = <<<<"run">>>>
    BY <1>2, <2>4 DEF Left, First, Flows, Todo, StartTodo
  <2> QED
    BY <1>2, <2>1, <2>2, <2>3, <2>4 DEF FlowInv, Todo, StartTodo
<1>3. CASE obj.op = "start" /\ kind = "tempesta"
  <2>1. CASE obj.todo = <<<<"check_config", "copy", "copy_logger", "run">>>>
    BY <1>3, <2>1 DEF Left, First, Flows, Todo, StartTodo
  <2>2. CASE obj.todo = <<<<"copy", "copy_logger", "run">>>>
    BY <1>3, <2>2 DEF Left, First, Flows, Todo, StartTodo
  <2>3. CASE obj.todo = <<<<"copy_logger", "run">>>>
    BY <1>3, <2>3 DEF Left, First, Flows, Todo, StartTodo
  <2>4. CASE obj.todo = <<<<"run">>>>
    BY <1>3, <2>4 DEF Left, First, Flows, Todo, StartTodo
  <2> QED
    BY <1>3, <2>1, <2>2, <2>3, <2>4 DEF FlowInv, Todo, StartTodo
<1>4. CASE obj.op = "reload"
  <2>1. CASE obj.todo = <<<<"check_config", "copy", "copy_logger", "reload">>>>
    BY <1>4, <2>1 DEF Left, First, Flows, Todo, ReloadTodo, FlowInv
  <2>2. CASE obj.todo = <<<<"copy", "copy_logger", "reload">>>>
    BY <1>4, <2>2 DEF Left, First, Flows, Todo, ReloadTodo, FlowInv
  <2>3. CASE obj.todo = <<<<"copy_logger", "reload">>>>
    BY <1>4, <2>3 DEF Left, First, Flows, Todo, ReloadTodo, FlowInv
  <2>4. CASE obj.todo = <<<<"reload">>>>
    BY <1>4, <2>4 DEF Left, First, Flows, Todo, ReloadTodo, FlowInv
  <2> QED
    BY <1>4, <2>1, <2>2, <2>3, <2>4 DEF FlowInv, Todo, ReloadTodo
<1>5. CASE obj.op = "stop" /\ kind = "nginx"
  <2>1. CASE obj.todo = <<<<"stop_nginx">>, <<"remove">>>>
    BY <1>5, <2>1 DEF Left, First, Flows, Todo, StopTodo
  <2>2. CASE obj.todo = <<<<"remove">>>>
    BY <1>5, <2>2 DEF Left, First, Flows, Todo, StopTodo
  <2> QED
    BY <1>5, <2>1, <2>2 DEF FlowInv, Todo, StopTodo
<1>6. CASE obj.op = "stop" /\ kind = "docker"
  <2>1. CASE obj.todo = <<<<"stop_server">>, <<"remove_tar">>>>
    BY <1>6, <2>1 DEF Left, First, Flows, Todo, StopTodo
  <2>2. CASE obj.todo = <<<<"remove_tar">>>>
    BY <1>6, <2>2 DEF Left, First, Flows, Todo, StopTodo
  <2> QED
    BY <1>6, <2>1, <2>2 DEF FlowInv, Todo, StopTodo
<1>7. CASE obj.op = "stop" /\ kind = "tempesta"
  <2>1. CASE obj.todo = <<<<"stop_tempesta">>, <<"remove", "remove_logger">>, <<"drop_table">>>>
    BY <1>7, <2>1 DEF Left, First, Flows, Todo, StopTodo
  <2>2. CASE obj.todo = <<<<"remove", "remove_logger">>, <<"drop_table">>>>
    BY <1>7, <2>2 DEF Left, First, Flows, Todo, StopTodo
  <2>3. CASE obj.todo = <<<<"remove_logger">>, <<"drop_table">>>>
    BY <1>7, <2>3 DEF Left, First, Flows, Todo, StopTodo
  <2>4. CASE obj.todo = <<<<"drop_table">>>>
    BY <1>7, <2>4 DEF Left, First, Flows, Todo, StopTodo
  <2> QED
    BY <1>7, <2>1, <2>2, <2>3, <2>4 DEF FlowInv, Todo, StopTodo
<1> QED
  BY <1>1, <1>2, <1>3, <1>4, <1>5, <1>6, <1>7 DEF ObjType, Obj

\* The lists of calls of start, reload and stop have their type.
LEMMA TodoTypes ==
    /\ <<>> \in Todos /\ Todo(kind, "idle") = {<<>>} /\ First(<<>>) = "none"
    /\ \A k \in {"nginx", "docker", "tempesta"}, op \in {"idle", "start", "reload", "stop"} :
         Todo(k, op) \subseteq Todos
<1>1. \A k \in {"nginx", "docker", "tempesta"}, op \in {"idle", "start", "reload", "stop"} :
         Todo(k, op) \subseteq Todos
  BY DEF Todos
<1>2. Todo("nginx", "idle") = {<<>>} /\ Todo(kind, "idle") = {<<>>}
  BY DEF Todo
<1>3. <<>> \in Todos
  BY <1>1, <1>2
<1> QED
  BY <1>1, <1>2, <1>3 DEF First

\* The states of a service, spelled out.
LEMMA StateNames == States = {"begin_start", "started", "stopped", "error"}
BY DEF States, STATE_BEGIN_START, STATE_STARTED, STATE_STOPPED, STATE_ERROR

-----------------------------------------------------------------------------
(* The invariant holds initially, and every action keeps it                *)

\* Before the first call the invariant holds.
LEMMA InitIndInv ==
    ASSUME Bounds, Init
    PROVE  IndInv
<1> USE StateNames, TodoTypes
<1>1. ObjType
  BY DEF Bounds, Init, ObjType, Obj, Stats, Kinds, NoStats, NoProc, STATE_STOPPED, Broken
<1>2. FlowInv
  BY DEF Init, FlowInv
<1>3. ConfigInv
  BY DEF Init, ConfigInv, RunsOwnConfig, STATE_STOPPED, STATE_STARTED
<1>4. CleanInv
  BY <1>1 DEF Init, CleanInv, CleanStop, NoProc, ObjType, Obj
<1>5. StatsInv
  BY DEF Init, StatsInv, STATE_STOPPED
<1> QED
  BY <1>1, <1>2, <1>3, <1>4, <1>5 DEF IndInv

\* start(): what counts is that the service was stopped.
LEMMA StartPreserves ==
    ASSUME Bounds, IndInv, Start
    PROVE  IndInv'
<1>1. /\ obj.op = "idle" /\ obj.state = "stopped" /\ runs' = runs + 1
      /\ odd' = odd \ {"stray_reload"} /\ UNCHANGED <<kind, stand, proc, files, faults>>
  BY DEF Start, Idle, MayStart, STATE_STOPPED
<1>2. <<StartSteps[kind]>> \in StartTodo(kind)
  BY DEF IndInv, ObjType, StartSteps, StartTodo, NginxStart, DockerStart, TempestaStart
<1>3. First(<<StartSteps[kind]>>) \in {"check_ports", "check_config"}
  BY DEF IndInv, ObjType, First, StartSteps, NginxStart, DockerStart, TempestaStart
<1>4. Todo(kind, "start") = StartTodo(kind) /\ Todo(kind, "start") \subseteq Todos
  BY TodoTypes DEF Todo, IndInv, ObjType
<1> DEFINE todo == <<StartSteps[kind]>>
<1>5. obj' = [obj EXCEPT !.state = "begin_start", !.op = "start", !.ran = obj.cfg, !.todo = todo,
                         !.stats = NoStats]
  BY DEF Start, STATE_BEGIN_START
<1> HIDE DEF todo
<1>6. ObjType'
  <2>1. todo \in Todos /\ NoStats \in Stats /\ "begin_start" \in States
    BY <1>2, <1>4, StateNames DEF todo, NoStats, Stats
  <2>2. obj \in Obj /\ obj.cfg \in 0 .. MaxCfg
    BY DEF IndInv, ObjType, Obj
  <2>3. obj' \in Obj
    BY <1>5, <2>1, <2>2 DEF Obj
  <2> QED
    BY <1>1, <2>3 DEF IndInv, ObjType
<1>7. /\ obj'.state = "begin_start" /\ obj'.op = "start" /\ obj'.ran = obj.cfg /\ obj'.todo = todo
      /\ obj'.id = obj.id /\ obj'.cfg = obj.cfg /\ obj'.stats = NoStats
  BY <1>5 DEF IndInv, ObjType, Obj
<1>8. FlowInv'
  BY <1>1, <1>2, <1>4, <1>7 DEF FlowInv, todo
<1>9. ConfigInv' /\ StatsInv'
  BY <1>3, <1>7 DEF ConfigInv, RunsOwnConfig, Idle, StatsInv, todo
<1>10. CleanInv'
  BY <1>1, <1>7 DEF IndInv, CleanInv, CleanStop, Idle
<1> QED
  BY <1>6, <1>8, <1>9, <1>10 DEF IndInv

\* A call of reload() begins.
LEMMA ReloadPreserves ==
    ASSUME Bounds, IndInv, Reload
    PROVE  IndInv'
<1>1. /\ obj.op = "idle" /\ kind = "tempesta" /\ runs' = runs + 1
      /\ odd' = IF obj.state = "stopped" THEN odd \cup {"stray_reload"} ELSE odd
      /\ UNCHANGED <<kind, stand, proc, files, faults>>
  BY DEF Reload, Idle, STATE_STOPPED
<1>2. <<ReloadSteps>> \in ReloadTodo /\ First(<<ReloadSteps>>) = "check_config"
  BY DEF First, ReloadSteps, ReloadTodo
<1>3. Todo(kind, "reload") = ReloadTodo /\ Todo(kind, "reload") \subseteq Todos
  BY TodoTypes DEF Todo, IndInv, ObjType
<1>4. obj' = [obj EXCEPT !.op = "reload", !.ran = obj.cfg, !.todo = <<ReloadSteps>>]
  BY DEF Reload
<1>5. ObjType'
  <2>1. obj \in Obj /\ obj.cfg \in 0 .. MaxCfg /\ <<ReloadSteps>> \in Todos
    BY <1>2, <1>3 DEF IndInv, ObjType, Obj
  <2>2. obj' \in Obj
    BY <1>4, <2>1 DEF Obj
  <2> QED
    BY <1>1, <2>2 DEF IndInv, ObjType
<1>6. /\ obj'.state = obj.state /\ obj'.op = "reload" /\ obj'.ran = obj.cfg
      /\ obj'.todo = <<ReloadSteps>> /\ obj'.id = obj.id /\ obj'.cfg = obj.cfg /\ obj'.stats = obj.stats
  BY <1>1, <1>4 DEF IndInv, ObjType, Obj
<1>7. FlowInv'
  BY <1>1, <1>2, <1>3, <1>6 DEF FlowInv
<1>8. ConfigInv'
  BY <1>2, <1>6 DEF ConfigInv, RunsOwnConfig, Idle
<1>9. CleanInv'
  <2>1. /\ odd \subseteq odd' /\ ("lost_id" \notin odd' => "lost_id" \notin odd)
        /\ odd' \cap {"stop_failed", "kept_file", "lost_id"} = odd \cap {"stop_failed", "kept_file", "lost_id"}
        /\ obj.state = "stopped" => "stray_reload" \in odd'
    BY <1>1
  <2>2. obj.state = "stopped" /\ odd \cap {"stop_failed", "kept_file", "lost_id"} = {} /\ ~stand.debug =>
          proc.cfg = 0 \/ proc.dying
    BY <1>1 DEF IndInv, CleanInv, CleanStop, Idle, STATE_STOPPED
  <2> QED
    BY <1>1, <1>6, <2>1, <2>2 DEF IndInv, CleanInv, CleanStop, Idle
<1>10. StatsInv'
  BY <1>1, <1>6 DEF IndInv, StatsInv
<1> QED
  BY <1>5, <1>7, <1>8, <1>9, <1>10 DEF IndInv

\* A call of stop() begins.
LEMMA StopPreserves ==
    ASSUME Bounds, IndInv, Stop
    PROVE  IndInv'
<1>1. /\ obj.op = "idle" /\ UNCHANGED <<kind, stand, proc, files, runs, faults, odd>>
  BY DEF Stop, Idle
<1>2. StopProcedures[kind] \in StopTodo(kind)
  BY DEF IndInv, ObjType, StopProcedures, StopTodo, NginxStop, DockerStop, TempestaStop
<1>3. First(StopProcedures[kind]) \in {"stop_nginx", "stop_server", "stop_tempesta"}
  BY Tails DEF IndInv, ObjType, First, StopProcedures, NginxStop, DockerStop, TempestaStop
<1>4. Todo(kind, "stop") = StopTodo(kind) /\ Todo(kind, "stop") \subseteq Todos
  BY TodoTypes DEF Todo, IndInv, ObjType
<1> DEFINE todo == StopProcedures[kind]
<1>5. obj' = [obj EXCEPT !.op = "stop", !.todo = todo]
  BY DEF Stop
<1> HIDE DEF todo
<1>6. ObjType'
  BY <1>1, <1>2, <1>4, <1>5 DEF IndInv, ObjType, Obj, todo
<1>7. /\ obj'.state = obj.state /\ obj'.op = "stop" /\ obj'.todo = todo
      /\ obj'.id = obj.id /\ obj'.stats = obj.stats
  BY <1>5 DEF IndInv, ObjType, Obj
<1>8. FlowInv'
  BY <1>1, <1>2, <1>4, <1>7 DEF FlowInv, todo
<1>9. ConfigInv'
  BY <1>7 DEF ConfigInv, RunsOwnConfig, Idle
<1>10. CleanInv'
  BY <1>1, <1>3, <1>7 DEF IndInv, CleanInv, CleanStop, Idle, todo
<1>11. StatsInv'
  BY <1>1, <1>7 DEF IndInv, StatsInv
<1> QED
  BY <1>6, <1>8, <1>9, <1>10, <1>11 DEF IndInv

\* The test's configuration changes while no operation is at work; ran does not.
LEMMA SetConfigPreserves ==
    ASSUME Bounds, IndInv, SetConfig
    PROVE  IndInv'
<1>1. /\ obj.op = "idle" /\ obj.cfg < MaxCfg /\ obj' = [obj EXCEPT !.cfg = obj.cfg + 1]
      /\ UNCHANGED <<kind, stand, proc, files, runs, faults, odd>>
  BY DEF SetConfig, Idle, IndInv, ObjType, Obj
<1>2. obj \in Obj /\ obj.cfg + 1 \in 0 .. MaxCfg
  BY <1>1 DEF IndInv, ObjType, Obj, Bounds
<1>3. /\ obj' \in Obj /\ obj'.op = obj.op /\ obj'.state = obj.state /\ obj'.todo = obj.todo
      /\ obj'.id = obj.id /\ obj'.ran = obj.ran /\ obj'.stats = obj.stats
  BY <1>1, <1>2 DEF Obj
<1>4. ObjType' /\ FlowInv'
  BY <1>1, <1>3 DEF IndInv, ObjType, FlowInv
<1>5. ConfigInv'
  BY <1>1, <1>3 DEF IndInv, ConfigInv, RunsOwnConfig, Idle
<1>6. CleanInv' /\ StatsInv'
  BY <1>1, <1>3 DEF IndInv, CleanInv, CleanStop, Idle, StatsInv
<1> QED
  BY <1>4, <1>5, <1>6 DEF IndInv

ProcType == [cfg : 0 .. Broken, inst : Nat, dying : BOOLEAN, reqs : Nat, seen : Nat]

\* The process by itself: it serves a request, which both counters count, or it is gone.
LEMMA ProcessPreserves ==
    ASSUME Bounds, IndInv, Serve \/ Exits \/ Crash
    PROVE  IndInv'
<1>1. proc \in ProcType /\ obj \in Obj /\ faults \in Nat /\ 0 \in 0 .. Broken
  BY DEF IndInv, ObjType, ProcType, Bounds, Broken
<1>2. /\ UNCHANGED <<kind, stand, obj, files, runs, odd>> /\ faults' \in Nat
      /\ proc' \in ProcType /\ proc'.inst = proc.inst
      /\ \/ proc'.cfg = 0
         \/ /\ proc'.cfg = proc.cfg /\ proc'.dying = proc.dying
            /\ proc'.reqs = proc.reqs + 1 /\ proc'.seen = proc.seen + 1
  <2>1. CASE Serve
    <3> DEFINE reqs == proc.reqs + 1
               seen == proc.seen + 1
    <3>1. /\ proc' = [proc EXCEPT !.reqs = reqs, !.seen = seen]
          /\ UNCHANGED <<kind, stand, obj, files, runs, faults, odd>>
      BY <1>1, <2>1 DEF Serve, ProcType
    <3>2. reqs \in Nat /\ seen \in Nat
      BY <1>1 DEF ProcType
    <3> HIDE DEF reqs, seen
    <3>3. /\ proc' \in ProcType /\ proc'.inst = proc.inst /\ proc'.cfg = proc.cfg
          /\ proc'.dying = proc.dying /\ proc'.reqs = reqs /\ proc'.seen = seen
      BY <1>1, <3>1, <3>2 DEF ProcType
    <3> QED
      BY <1>1, <3>1, <3>3 DEF reqs, seen
  <2>2. CASE Exits
    BY <1>1, <2>2 DEF Exits, NoProc, ProcType
  <2>3. CASE Crash
    <3>1. /\ proc' = [NoProc EXCEPT !.inst = proc.inst] /\ faults' = faults + 1
          /\ UNCHANGED <<kind, stand, obj, files, runs, odd>>
      BY <2>3 DEF Crash
    <3>2. proc' \in ProcType /\ proc'.inst = proc.inst /\ proc'.cfg = 0
      BY <1>1, <3>1 DEF NoProc, ProcType
    <3> QED
      BY <1>1, <3>1, <3>2
  <2> QED
    BY <2>1, <2>2, <2>3
<1>3. ObjType' /\ FlowInv'
  BY <1>2 DEF IndInv, ObjType, FlowInv, ProcType
<1>4. ConfigInv'
  BY <1>2 DEF IndInv, ConfigInv, RunsOwnConfig, Idle
<1>5. CleanInv'
  BY <1>2 DEF IndInv, CleanInv, CleanStop, Idle
<1>6. StatsInv'
  <2>1. proc.seen \in Nat /\ proc.reqs \in Nat /\ obj.stats.asks \in Nat
    BY <1>1 DEF ProcType, Obj, Stats
  <2>2. proc'.cfg # 0 => proc'.cfg = proc.cfg /\ proc'.reqs = proc.reqs + 1 /\ proc'.seen = proc.seen + 1
    BY <1>2
  <2>3. obj' = obj /\ odd' = odd
    BY <1>2
  <2> QED
    BY <2>1, <2>2, <2>3 DEF IndInv, StatsInv
<1> QED
  BY <1>3, <1>4, <1>5, <1>6 DEF IndInv

\* The outcomes of a call.
LEMMA OutcomeFields ==
    /\ Done.effect = TRUE /\ Done.raises = FALSE
    /\ Refused.effect = FALSE /\ Refused.raises = TRUE
    /\ DoneButRaised.effect = TRUE /\ DoneButRaised.raises = TRUE
    /\ Swallowed.effect = FALSE /\ Swallowed.raises = FALSE
BY DEF Done, Refused, DoneButRaised, Swallowed

\* A question that reached nginx was counted on both sides.
LEMMA GetStatsPreserves ==
    ASSUME Bounds, IndInv, GetStats
    PROVE  IndInv'
<1> DEFINE asks == obj.stats.asks + 1
           seen(o) == IF o.effect THEN proc.seen + 1 ELSE proc.seen
           stats(o) == IF o.raises THEN [obj.stats EXCEPT !.asks = asks]
                       ELSE [asks |-> asks, told |-> seen(o) - asks, real |-> proc.reqs]
<1>1. /\ proc \in ProcType /\ obj \in Obj /\ obj.stats \in Stats /\ faults \in Nat
      /\ proc.seen \in Nat /\ proc.reqs \in Nat /\ obj.stats.asks \in Nat /\ obj.stats.told \in Int
      /\ obj.stats.real \in Nat
  BY DEF IndInv, ObjType, ProcType, Obj, Stats
<1>2. PICK o \in {Done, Refused, DoneButRaised} :
        /\ obj.op = "idle" /\ kind = "nginx"
        /\ proc.cfg = 0 => o = Refused
        /\ proc' = [proc EXCEPT !.seen = seen(o)] /\ obj' = [obj EXCEPT !.stats = stats(o)]
        /\ odd' = odd \cup (IF o.effect \/ proc.cfg = 0 THEN {} ELSE {"lost_ask"})
        /\ faults' \in Nat
        /\ UNCHANGED <<kind, stand, files, runs>>
  <2>1. PICK o \in IF proc.cfg = 0 THEN {Refused} ELSE RunCmd(stand.local) :
          /\ faults' = (IF o = Done \/ proc.cfg = 0 THEN faults ELSE faults + 1)
          /\ proc' = [proc EXCEPT !.seen = seen(o)] /\ obj' = [obj EXCEPT !.stats = stats(o)]
          /\ odd' = odd \cup (IF o.effect \/ proc.cfg = 0 THEN {} ELSE {"lost_ask"})
    BY Zenon DEF GetStats, Told
  <2>2. o \in {Done, Refused, DoneButRaised} /\ (proc.cfg = 0 => o = Refused)
    BY <2>1 DEF RunCmd, LocalRunCmd, RemoteRunCmd
  <2>3. obj.op = "idle" /\ kind = "nginx" /\ UNCHANGED <<kind, stand, files, runs>>
    BY DEF GetStats, Idle
  <2>4. faults' \in Nat
    BY <1>1, <2>1
  <2> HIDE DEF seen, stats
  <2> QED
    BY <2>1, <2>2, <2>3, <2>4
<1>3. o.effect \in BOOLEAN /\ o.raises \in BOOLEAN /\ (proc.cfg = 0 => o.raises)
  <2>1. o \in {Done, Refused, DoneButRaised} /\ (proc.cfg = 0 => o = Refused)
    BY <1>2
  <2> QED
    BY <2>1, OutcomeFields
<1>4. seen(o) \in Nat /\ stats(o) \in Stats
  BY <1>1, <1>3 DEF Stats
<1>5. /\ stats(o).asks = asks
      /\ o.raises => stats(o).told = obj.stats.told /\ stats(o).real = obj.stats.real
      /\ ~o.raises => stats(o).told = seen(o) - asks /\ stats(o).real = proc.reqs
  BY <1>1, <1>3 DEF Stats
<1> DEFINE st == stats(o)
           sn == seen(o)
<1>6. sn = (IF o.effect THEN proc.seen + 1 ELSE proc.seen)
  OBVIOUS
<1> HIDE DEF st, sn, seen, stats
<1>7. /\ proc' \in ProcType /\ proc'.seen = sn /\ proc'.cfg = proc.cfg /\ proc'.reqs = proc.reqs
      /\ proc'.inst = proc.inst /\ proc'.dying = proc.dying
  BY <1>1, <1>2, <1>4 DEF ProcType, sn
<1>8. /\ obj' \in Obj /\ obj'.stats = st /\ obj'.op = obj.op /\ obj'.state = obj.state
      /\ obj'.todo = obj.todo /\ obj'.id = obj.id /\ obj'.ran = obj.ran /\ obj'.cfg = obj.cfg
  BY <1>1, <1>2, <1>4 DEF Obj, st
<1>9. ObjType' /\ FlowInv'
  BY <1>2, <1>7, <1>8 DEF IndInv, ObjType, FlowInv, ProcType
<1>10. ConfigInv'
  BY <1>2, <1>7, <1>8 DEF IndInv, ConfigInv, RunsOwnConfig, Idle
<1>11. CleanInv'
  BY <1>2, <1>7, <1>8 DEF IndInv, CleanInv, CleanStop, Idle
<1>12. StatsInv'
  <2> SUFFICES ASSUME obj.state = "started", "lost_ask" \notin odd'
               PROVE  st.told = st.real /\ (proc.cfg # 0 => sn = proc.reqs + asks)
    BY <1>2, <1>5, <1>7, <1>8 DEF StatsInv, st
  <2>1. /\ obj.stats.told = obj.stats.real
        /\ proc.cfg # 0 => proc.seen = proc.reqs + obj.stats.asks
    BY <1>2 DEF IndInv, StatsInv
  <2>2. proc.cfg # 0 => o.effect
    BY <1>2
  <2>3. proc.cfg # 0 => sn = proc.reqs + asks
    <3>1. proc.cfg # 0 => sn = proc.seen + 1
      BY <1>6, <2>2
    <3> QED
      BY <1>1, <2>1, <3>1
  <2>4. ~o.raises => sn - asks = proc.reqs
    <3>1. ~o.raises => sn = proc.reqs + asks
      BY <1>3, <2>3
    <3> QED
      BY <1>1, <3>1
  <2> QED
    BY <1>3, <1>5, <2>1, <2>3, <2>4 DEF st, sn
<1> QED
  BY <1>9, <1>10, <1>11, <1>12 DEF IndInv

-----------------------------------------------------------------------------
(* A call of start(), reload() or stop()                                   *)

Results(f) ==
    IF Skipped(f) THEN {Swallowed} ELSE IF Raises(f) THEN {Refused} ELSE Outcomes(f)

\* What the call f does when it comes to o.
CallDoes(f, o) ==
    /\ o \in Results(f) /\ o \in {Done, Refused, DoneButRaised, Swallowed}
    /\ proc' = IF o.effect THEN ProcAfter(f) ELSE proc
    /\ files' \in IF o.effect THEN {FilesAfter(f)} ELSE Torn(f, o)
    /\ odd' = IF Skipped(f) THEN odd ELSE odd \cup Oddities(f, o)
    /\ obj'.todo = Left(o.raises) /\ obj'.id = IdAfter(f, o)
    /\ obj'.op = (IF Left(o.raises) = <<>> THEN "idle" ELSE obj.op)
    /\ obj'.state = StateAfter(o.raises)
    /\ obj'.ran = obj.ran /\ obj'.cfg = obj.cfg /\ obj'.stats = obj.stats
    /\ UNCHANGED <<kind, stand, runs>> /\ faults' \in Nat /\ obj' \in Obj

\* A call succeeds or ends in one of three ways.
LEMMA OutcomeOfCall ==
    ASSUME NEW f, NEW o \in Results(f)
    PROVE  o \in {Done, Refused, DoneButRaised, Swallowed}
BY DEF Results, Outcomes, CopyFile, RemoveFile, RunCmd, LocalCopyFile, RemoteCopyFile,
   LocalRemoveFile, RemoteRemoveFile, LocalRunCmd, RemoteRunCmd

\* A step makes the first call of the list.
LEMMA StepDoes ==
    ASSUME Bounds, IndInv, Step
    PROVE  \E o : CallDoes(First(obj.todo), o)
<1> DEFINE f == First(obj.todo)
<1>1. obj.op # "idle" /\ f = obj.todo[1][1]
  BY Flow DEF Step, Idle, IndInv
<1> HIDE DEF f
<1>2. PICK o \in Results(f) :
        /\ faults' = (IF o = Done \/ Skipped(f) \/ Raises(f) THEN faults ELSE faults + 1)
        /\ proc' = IF o.effect THEN ProcAfter(f) ELSE proc
        /\ files' \in IF o.effect THEN {FilesAfter(f)} ELSE Torn(f, o)
        /\ odd' = IF Skipped(f) THEN odd ELSE odd \cup Oddities(f, o)
        /\ obj' = [obj EXCEPT !.todo = Left(o.raises), !.id = IdAfter(f, o),
                              !.op = IF Left(o.raises) = <<>> THEN "idle" ELSE @,
                              !.state = StateAfter(o.raises)]
  BY <1>1 DEF Step, Results
<1>3. UNCHANGED <<kind, stand, runs>>
  BY DEF Step
<1>4. o \in {Done, Refused, DoneButRaised, Swallowed} /\ o.raises \in BOOLEAN
  BY OutcomeOfCall, OutcomeFields
<1> DEFINE todo == Left(o.raises)
           id == IdAfter(f, o)
           op == IF Left(o.raises) = <<>> THEN "idle" ELSE obj.op
           state == StateAfter(o.raises)
<1>5. obj \in Obj /\ faults \in Nat /\ proc.inst \in Nat
  BY DEF IndInv, ObjType
<1>6. todo \in Todos
  <2>1. Todo(kind, obj.op) \subseteq Todos /\ <<>> \in Todos
    BY <1>5, TodoTypes DEF IndInv, ObjType, Obj
  <2> QED
    BY <1>1, <1>4, <2>1, Flow DEF IndInv
<1>7. id \in Nat
  BY <1>5 DEF IdAfter, Obj
<1>8. op \in {"idle", "start", "reload", "stop"}
  BY <1>5 DEF Obj
<1>9. state \in States
  BY <1>4, <1>5, StateNames DEF StateAfter, Obj, STATE_ERROR, STATE_STOPPED, STATE_STARTED
<1>10. obj' = [obj EXCEPT !.todo = todo, !.id = id, !.op = op, !.state = state]
  BY <1>2, <1>5 DEF Obj
<1>11. faults' \in Nat
  BY <1>2, <1>5
<1> HIDE DEF todo, id, op, state
<1>12. /\ obj' \in Obj /\ obj'.todo = todo /\ obj'.id = id /\ obj'.op = op /\ obj'.state = state
       /\ obj'.ran = obj.ran /\ obj'.cfg = obj.cfg /\ obj'.stats = obj.stats
  BY <1>5, <1>6, <1>7, <1>8, <1>9, <1>10 DEF Obj
<1>13. CallDoes(f, o)
  BY <1>2, <1>3, <1>4, <1>11, <1>12 DEF CallDoes, todo, id, op, state
<1> QED
  BY <1>13 DEF f

FilesType == [cfg : 0 .. Broken, other : BOOLEAN]

\* The effects of the calls on the node, one by one.
LEMMA ProcEffects ==
    ASSUME Bounds, ObjType
    PROVE  /\ \A f : ProcAfter(f) \in ProcType
           /\ ProcAfter("run") = [cfg |-> files.cfg, inst |-> proc.inst + 1, dying |-> FALSE,
                                  reqs |-> 0, seen |-> 0]
           /\ LET p == ProcAfter("reload")
              IN /\ p.cfg = files.cfg /\ p.inst = proc.inst /\ p.dying = proc.dying
                 /\ p.reqs = proc.reqs /\ p.seen = proc.seen
           /\ LET p == ProcAfter("stop_nginx")
              IN /\ p.dying = TRUE /\ p.cfg = proc.cfg /\ p.inst = proc.inst
                 /\ p.reqs = proc.reqs /\ p.seen = proc.seen
           /\ \A f \in {"stop_server", "stop_tempesta"} :
                ProcAfter(f).cfg = 0 /\ ProcAfter(f).inst = proc.inst
           /\ \A f \in {"check_ports", "check_config", "copy", "copy_logger", "tar", "build", "remove",
                        "remove_logger", "remove_tar", "drop_table"} : ProcAfter(f) = proc
<1>1. proc \in ProcType /\ files.cfg \in 0 .. Broken /\ 0 \in 0 .. Broken /\ proc.inst + 1 \in Nat
        /\ proc.inst \in Nat
  BY DEF ObjType, ProcType, Bounds, Broken
<1>2. /\ ProcAfter("run") \in ProcType
      /\ ProcAfter("run") = [cfg |-> files.cfg, inst |-> proc.inst + 1, dying |-> FALSE,
                             reqs |-> 0, seen |-> 0]
  <2>1. ProcAfter("run") = [NoProc EXCEPT !.cfg = files.cfg, !.inst = proc.inst + 1]
    BY DEF ProcAfter
  <2> DEFINE inst == proc.inst + 1
             p == [NoProc EXCEPT !.cfg = files.cfg, !.inst = inst]
  <2>2. inst \in Nat
    BY <1>1
  <2> HIDE DEF inst
  <2>3. p \in ProcType /\ p.cfg = files.cfg /\ p.inst = inst /\ p.dying = FALSE
          /\ p.reqs = 0 /\ p.seen = 0
    <3>1. NoProc \in ProcType /\ NoProc.dying = FALSE /\ NoProc.reqs = 0 /\ NoProc.seen = 0
      BY <1>1 DEF NoProc, ProcType
    <3> HIDE DEF NoProc
    <3> QED
      BY <1>1, <2>2, <3>1 DEF ProcType
  <2> HIDE DEF p
  <2>4. p = [cfg |-> files.cfg, inst |-> inst, dying |-> FALSE, reqs |-> 0, seen |-> 0]
    BY <2>3 DEF ProcType
  <2> QED
    BY <2>1, <2>3, <2>4 DEF p, inst
<1>3. /\ ProcAfter("reload") = [proc EXCEPT !.cfg = files.cfg]
      /\ ProcAfter("stop_nginx") = [proc EXCEPT !.dying = TRUE]
      /\ \A f \in {"stop_server", "stop_tempesta"} : ProcAfter(f) = [NoProc EXCEPT !.inst = proc.inst]
      /\ \A f : f \notin {"run", "reload", "stop_nginx", "stop_server", "stop_tempesta"} =>
                  ProcAfter(f) = proc
  BY DEF ProcAfter
<1>4. LET p == ProcAfter("reload")
      IN /\ p \in ProcType /\ p.cfg = files.cfg /\ p.inst = proc.inst /\ p.reqs = proc.reqs
         /\ p.seen = proc.seen /\ p.dying = proc.dying
  BY <1>1, <1>3 DEF ProcType
<1>5. LET p == ProcAfter("stop_nginx")
      IN /\ p \in ProcType /\ p.dying = TRUE /\ p.cfg = proc.cfg /\ p.inst = proc.inst
         /\ p.reqs = proc.reqs /\ p.seen = proc.seen
  BY <1>1, <1>3 DEF ProcType
<1>6. \A f \in {"stop_server", "stop_tempesta"} :
        ProcAfter(f) \in ProcType /\ ProcAfter(f).cfg = 0 /\ ProcAfter(f).inst = proc.inst
  <2>1. NoProc \in ProcType /\ NoProc.cfg = 0
    BY <1>1 DEF NoProc, ProcType
  <2> HIDE DEF NoProc
  <2>2. LET p == [NoProc EXCEPT !.inst = proc.inst]
        IN p \in ProcType /\ p.cfg = 0 /\ p.inst = proc.inst
    BY <1>1, <2>1 DEF ProcType
  <2> QED
    BY <1>3, <2>2
<1>7. \A f : ProcAfter(f) \in ProcType
  BY <1>1, <1>2, <1>3, <1>4, <1>5, <1>6
<1> QED
  BY <1>2, <1>3, <1>4, <1>5, <1>6, <1>7

\* What each call does to the files.
LEMMA FileEffects ==
    ASSUME Bounds, ObjType
    PROVE  /\ \A f : FilesAfter(f) \in FilesType
           /\ \A f \in {"copy", "build"} :
                FilesAfter(f).cfg = obj.cfg /\ FilesAfter(f).other = files.other
           /\ \A f \in {"copy_logger", "tar"} : FilesAfter(f).cfg = files.cfg
           /\ FilesAfter("remove").cfg = 0 /\ FilesAfter("remove").other = files.other
           /\ \A f \in {"remove_logger", "remove_tar"} :
                FilesAfter(f).cfg = files.cfg /\ FilesAfter(f).other = FALSE
           /\ \A f \in {"check_ports", "check_config", "run", "reload", "stop_nginx", "stop_server",
                        "stop_tempesta", "drop_table"} : FilesAfter(f) = files
<1>1. files \in FilesType /\ obj.cfg \in 0 .. Broken /\ 0 \in 0 .. Broken
  BY DEF ObjType, FilesType, Obj, Bounds, Broken
<1>2. /\ \A f \in {"copy", "build"} : FilesAfter(f) = [files EXCEPT !.cfg = obj.cfg]
      /\ \A f \in {"copy_logger", "tar"} : FilesAfter(f) = [files EXCEPT !.other = TRUE]
      /\ FilesAfter("remove") = [files EXCEPT !.cfg = 0]
      /\ \A f \in {"remove_logger", "remove_tar"} : FilesAfter(f) = [files EXCEPT !.other = FALSE]
      /\ \A f : f \notin {"copy", "build", "copy_logger", "tar", "remove", "remove_logger", "remove_tar"} =>
                  FilesAfter(f) = files
  BY DEF FilesAfter
<1>3. LET x == [files EXCEPT !.cfg = obj.cfg]
      IN x \in FilesType /\ x.cfg = obj.cfg /\ x.other = files.other
  BY <1>1 DEF FilesType
<1>4. LET x == [files EXCEPT !.other = TRUE] IN x \in FilesType /\ x.cfg = files.cfg
  BY <1>1 DEF FilesType
<1>5. LET x == [files EXCEPT !.cfg = 0] IN x \in FilesType /\ x.cfg = 0 /\ x.other = files.other
  BY <1>1 DEF FilesType
<1>6. LET x == [files EXCEPT !.other = FALSE]
      IN x \in FilesType /\ x.cfg = files.cfg /\ x.other = FALSE
  BY <1>1 DEF FilesType
<1>7. \A f : FilesAfter(f) \in FilesType
  BY <1>1, <1>2, <1>3, <1>4, <1>5, <1>6
<1> QED
  BY <1>2, <1>3, <1>4, <1>5, <1>6, <1>7

\* A call that had no effect leaves the files, or a file of start() that it had begun to
\* write.
LEMMA TornFiles ==
    ASSUME Bounds, ObjType, NEW f, NEW o, NEW x \in Torn(f, o)
    PROVE  /\ x \in FilesType
           /\ x.other # files.other => f \in {"copy_logger", "tar"}
           /\ x.cfg # files.cfg => f = "copy"
<1>1. files \in FilesType /\ Broken \in 0 .. Broken
  BY DEF ObjType, FilesType, Bounds, Broken
<1>2. \/ x = files
      \/ f = "copy" /\ x = [files EXCEPT !.cfg = Broken]
      \/ f \in {"copy_logger", "tar"} /\ x = [files EXCEPT !.other = TRUE]
  BY DEF Torn
<1> QED
  BY <1>1, <1>2 DEF FilesType

\* What the outcome of a call says: a call that raises by itself has no effect, few calls
\* do nothing silently, and the observer notes what is an excuse.
LEMMA CallOutcome ==
    ASSUME NEW f, NEW o, CallDoes(f, o)
    PROVE  /\ o.effect \in BOOLEAN /\ o.raises \in BOOLEAN
           /\ o.effect => ~Raises(f)
           /\ ~o.effect /\ ~o.raises =>
                 \/ Skipped(f)
                 \/ f \in {"copy", "copy_logger"} /\ "old_file" \in odd'
                 \/ f \in {"remove", "remove_logger", "remove_tar"} /\ "kept_file" \in odd'
           /\ odd \subseteq odd'
           /\ Skipped(f) => ~o.effect /\ ~o.raises
           /\ ~Skipped(f) /\ o.raises /\ f \in Stops => "stop_failed" \in odd'
           /\ ~Skipped(f) /\ o.raises /\ obj.op = "reload" => "reload_failed" \in odd'
           /\ f = "run" /\ kind = "docker" /\ o.raises /\ o.effect => "lost_id" \in odd'
<1>1. o \in Results(f) /\ o \in {Done, Refused, DoneButRaised, Swallowed}
        /\ odd' = IF Skipped(f) THEN odd ELSE odd \cup Oddities(f, o)
  BY DEF CallDoes
<1>2. o.effect \in BOOLEAN /\ o.raises \in BOOLEAN
  BY <1>1, OutcomeFields
<1>3. /\ o.effect => ~Raises(f)
      /\ Skipped(f) => o = Swallowed
      /\ Skipped(f) => ~o.effect /\ ~o.raises
  <2>1. Skipped(f) => o = Swallowed
    BY <1>1 DEF Results
  <2>2. ~Skipped(f) /\ Raises(f) => o = Refused
    BY <1>1 DEF Results
  <2> QED
    BY <2>1, <2>2, OutcomeFields
<1>4. ASSUME o = Swallowed, ~Skipped(f)
      PROVE  \/ f \in {"copy", "copy_logger"} /\ "old_file" \in odd'
             \/ f \in {"remove", "remove_logger", "remove_tar"} /\ "kept_file" \in odd'
  <2>1. o # Refused /\ o # Done /\ o # DoneButRaised
    BY <1>4, OutcomeFields
  <2>2. o \in Outcomes(f)
    BY <1>1, <1>4, <2>1 DEF Results
  <2>3. f \in {"copy", "copy_logger", "remove", "remove_logger", "remove_tar"}
    BY <2>1, <2>2
       DEF Outcomes, CopyFile, RunCmd, LocalCopyFile, LocalRunCmd, RemoteRunCmd
  <2> QED
    BY <1>1, <1>4, <2>3 DEF Oddities, Removals
<1>5. ~o.effect /\ ~o.raises => o = Swallowed
  BY <1>1, OutcomeFields
<1>6. odd \subseteq odd'
  BY <1>1
<1>7. /\ ~Skipped(f) /\ o.raises /\ f \in Stops => "stop_failed" \in odd'
      /\ ~Skipped(f) /\ o.raises /\ obj.op = "reload" => "reload_failed" \in odd'
  BY <1>1 DEF Oddities
<1>8. f = "run" /\ kind = "docker" /\ o.raises /\ o.effect => "lost_id" \in odd'
  <2>1. o.raises /\ o.effect => o = DoneButRaised
    BY <1>1, OutcomeFields
  <2>2. f = "run" => ~Skipped(f)
    BY DEF Skipped
  <2> QED
    BY <1>1, <2>1, <2>2 DEF Oddities
<1> QED
  BY <1>2, <1>3, <1>4, <1>5, <1>6, <1>7, <1>8

\* Where the operation stands after the call.
LEMMA CallFlow ==
    ASSUME Bounds, IndInv, NEW o, obj.op # "idle", CallDoes(First(obj.todo), o)
    PROVE  LET next == First(obj'.todo)
               last == Len(obj.todo[1]) = 1
           IN /\ \E n, a : /\ Flows(kind, obj.op, First(obj.todo), n, a, last)
                           /\ next = IF o.raises THEN a ELSE n
              /\ obj'.op = IF next = "none" THEN "idle" ELSE obj.op
              /\ obj.op = "start" =>
                   obj'.state = IF ~o.raises /\ next = "none" THEN "started" ELSE "begin_start"
              /\ obj.op = "reload" => obj'.state = obj.state
              /\ obj.op = "stop" =>
                   obj'.state = IF o.raises THEN "error" ELSE IF last THEN "stopped" ELSE obj.state
              /\ ObjType' /\ FlowInv'
<1> DEFINE next == First(obj'.todo)
           last == Len(obj.todo[1]) = 1
           n == First(Left(FALSE))
           a == First(Left(TRUE))
<1>1. /\ obj'.todo = Left(o.raises) /\ obj'.state = StateAfter(o.raises) /\ obj' \in Obj
      /\ obj'.op = (IF Left(o.raises) = <<>> THEN "idle" ELSE obj.op)
      /\ proc' = (IF o.effect THEN ProcAfter(First(obj.todo)) ELSE proc)
      /\ files' \in (IF o.effect THEN {FilesAfter(First(obj.todo))} ELSE Torn(First(obj.todo), o))
      /\ UNCHANGED <<kind, stand, runs>> /\ faults' \in Nat
      /\ o.raises \in BOOLEAN /\ o.effect \in BOOLEAN
  BY CallOutcome DEF CallDoes
<1>2. /\ \A x \in BOOLEAN : /\ Left(x) = <<>> \/ Left(x) \in Todo(kind, obj.op)
                            /\ Left(x) = <<>> <=> First(Left(x)) = "none"
      /\ Flows(kind, obj.op, First(obj.todo), n, a, last)
  BY Flow DEF IndInv
<1>3. next = (IF o.raises THEN a ELSE n) /\ (Left(o.raises) = <<>> <=> next = "none")
  BY <1>1, <1>2
<1>4. obj'.op = IF next = "none" THEN "idle" ELSE obj.op
  BY <1>1, <1>3
<1>5. obj.op = "start" =>
        obj'.state = IF ~o.raises /\ next = "none" THEN "started" ELSE "begin_start"
  <2>1. obj.op = "start" => obj.state = "begin_start"
    BY DEF IndInv, FlowInv
  <2>2. o.raises = FALSE => (Left(FALSE) = <<>> <=> next = "none")
    BY <1>3
  <2> QED
    BY <1>1, <2>1, <2>2 DEF StateAfter, STATE_STARTED
<1>6. obj.op = "reload" => obj'.state = obj.state
  BY <1>1 DEF StateAfter
<1>7. obj.op = "stop" =>
        obj'.state = IF o.raises THEN "error" ELSE IF last THEN "stopped" ELSE obj.state
  BY <1>1 DEF StateAfter, STATE_ERROR, STATE_STOPPED
<1>8. ObjType'
  <2>1. proc' \in ProcType
    BY <1>1, ProcEffects DEF IndInv, ObjType, ProcType
  <2>2. files' \in FilesType
    BY <1>1, FileEffects, TornFiles DEF IndInv
  <2> QED
    BY <1>1, <2>1, <2>2 DEF IndInv, ObjType, ProcType, FilesType
<1>9. FlowInv'
  <2>1. obj'.todo \in Todo(kind', obj'.op)
    BY <1>1, <1>2, TodoTypes
  <2>2. obj'.op = "start" => obj'.state = "begin_start"
    <3>1. obj'.op = "start" => obj.op = "start" /\ next # "none"
      BY <1>4
    <3> QED
      BY <1>5, <3>1
  <2>3. obj'.op = "reload" => kind' = "tempesta"
    <3>1. obj'.op = "reload" => obj.op = "reload"
      BY <1>4
    <3> QED
      BY <1>1, <3>1 DEF IndInv, FlowInv
  <2> QED
    BY <2>1, <2>2, <2>3 DEF FlowInv
<1> QED
  BY <1>2, <1>3, <1>4, <1>5, <1>6, <1>7, <1>8, <1>9

\* A step of start() keeps the invariant.
LEMMA StartStep ==
    ASSUME Bounds, IndInv, NEW o, obj.op = "start", CallDoes(First(obj.todo), o)
    PROVE  ConfigInv' /\ CleanInv' /\ StatsInv'
<1> DEFINE f == First(obj.todo)
           next == First(obj'.todo)
<1>1. PICK n, a : /\ Flows(kind, "start", f, n, a, Len(obj.todo[1]) = 1)
                  /\ next = IF o.raises THEN a ELSE n
  BY CallFlow DEF IndInv
<1>2. /\ obj'.op = (IF next = "none" THEN "idle" ELSE "start")
      /\ obj'.state = (IF ~o.raises /\ next = "none" THEN "started" ELSE "begin_start")
  BY CallFlow
<1>3. /\ proc' = (IF o.effect THEN ProcAfter(f) ELSE proc)
      /\ o.effect => files' = FilesAfter(f)
      /\ ~o.effect => files' \in Torn(f, o)
      /\ obj'.ran = obj.ran /\ obj'.cfg = obj.cfg /\ obj'.stats = obj.stats
      /\ obj'.id = IdAfter(f, o) /\ UNCHANGED <<kind, stand>>
  BY CallOutcome DEF CallDoes
<1>4. /\ o.effect \in BOOLEAN /\ o.raises \in BOOLEAN /\ odd \subseteq odd'
      /\ ~o.effect /\ ~o.raises =>
           \/ f \in {"copy", "copy_logger"} /\ "old_file" \in odd'
           \/ f \in {"remove", "remove_logger", "remove_tar", "stop_server"}
      /\ f = "run" /\ kind = "docker" /\ o.raises /\ o.effect => "lost_id" \in odd'
  BY CallOutcome DEF Skipped
<1>5. /\ o.raises => next = "none"
      /\ \/ kind = "nginx" /\ <<f, n>> \in {<<"check_ports", "copy">>, <<"copy", "run">>, <<"run", "none">>}
         \/ kind = "docker" /\ <<f, n>> \in {<<"check_ports", "tar">>, <<"tar", "build">>,
                                            <<"build", "run">>, <<"run", "none">>}
         \/ kind = "tempesta" /\ <<f, n>> \in {<<"check_config", "copy">>, <<"copy", "copy_logger">>,
                                              <<"copy_logger", "run">>, <<"run", "none">>}
  BY <1>1, <1>4 DEF Flows
<1>6. obj.ran = obj.cfg /\ obj.stats = NoStats
        /\ (f \in {"copy_logger", "run", "reload"} /\ "old_file" \notin odd => files.cfg = obj.ran)
  BY DEF IndInv, ConfigInv, StatsInv
<1> HIDE DEF f, next
<1>7. ObjType /\ proc.inst \in Nat /\ obj.id \in Nat /\ obj.id <= proc.inst
  BY DEF IndInv, ObjType, Obj, CleanInv
<1>8. ASSUME ~o.raises, f \in {"copy", "build"}, "old_file" \notin odd'
      PROVE  files'.cfg = obj.ran
  BY <1>3, <1>4, <1>6, <1>7, <1>8, FileEffects
<1>9. ASSUME ~o.raises, f = "copy_logger", "old_file" \notin odd'
      PROVE  files'.cfg = obj.ran
  BY <1>3, <1>4, <1>6, <1>7, <1>9, FileEffects
<1>10. ASSUME ~o.raises, f = "run"
       PROVE  /\ proc' = [cfg |-> files.cfg, inst |-> proc.inst + 1, dying |-> FALSE,
                          reqs |-> 0, seen |-> 0]
              /\ o.effect
  BY <1>3, <1>4, <1>7, <1>10, ProcEffects
<1>11. ConfigInv'
  <2>1. obj'.op \in {"start", "reload"} => ~o.raises /\ next = n
    BY <1>1, <1>2, <1>5
  <2>2. ASSUME obj'.op \in {"start", "reload"}, next \in {"copy_logger", "run", "reload"},
               "old_file" \notin odd'
        PROVE  files'.cfg = obj'.ran
    <3>1. f \in {"copy", "build", "copy_logger"}
      BY <1>5, <2>1, <2>2
    <3> QED
      BY <1>3, <1>8, <1>9, <2>1, <2>2, <3>1
  <2>3. RunsOwnConfig'
    <3> SUFFICES ASSUME obj'.state = "started", "old_file" \notin odd'
                 PROVE  proc'.cfg = obj'.ran
      BY DEF RunsOwnConfig, STATE_STARTED
    <3>1. ~o.raises /\ n = "none"
      BY <1>1, <1>2, <1>4
    <3>2. f = "run"
      BY <1>5, <3>1
    <3>3. files.cfg = obj.ran
      BY <1>4, <1>6, <3>2
    <3> QED
      BY <1>3, <1>10, <3>1, <3>2, <3>3
  <2> QED
    BY <1>3, <1>6, <2>2, <2>3 DEF ConfigInv, next
<1>12. CleanInv'
  <2>1. CASE f = "run"
    <3>1. files'.other = files.other
      BY <1>3, <1>4, <1>7, <2>1, FileEffects, TornFiles
    <3>2. CASE o.effect
      <4>1. proc' = [cfg |-> files.cfg, inst |-> proc.inst + 1, dying |-> FALSE, reqs |-> 0, seen |-> 0]
        BY <1>3, <1>7, <2>1, <3>2, ProcEffects
      <4>2. proc'.inst = proc.inst + 1
        BY <4>1
      <4>3. obj'.id \in {obj.id, proc.inst + 1} /\ (kind = "docker" /\ ~o.raises => obj'.id = proc.inst + 1)
        BY <1>3, <2>1 DEF IdAfter
      <4>4. obj'.id <= proc'.inst /\ (kind = "docker" /\ ~o.raises => obj'.id # 0)
        BY <1>7, <4>2, <4>3
      <4>5. kind = "docker" /\ "lost_id" \notin odd' => ~o.raises
        BY <1>4, <2>1, <3>2
      <4> QED
        BY <1>2, <1>3, <3>1, <4>4, <4>5 DEF IndInv, CleanInv, CleanStop, STATE_STOPPED, Idle
    <3>3. CASE ~o.effect
      <4>1. proc' = proc /\ o.raises
        BY <1>3, <1>4, <2>1, <3>3
      <4>2. obj'.id = obj.id
        BY <1>3, <4>1 DEF IdAfter
      <4> QED
        BY <1>2, <1>3, <1>4, <3>1, <4>1, <4>2 DEF IndInv, CleanInv, CleanStop, STATE_STOPPED, Idle
    <3> QED
      BY <1>4, <3>2, <3>3
  <2>2. CASE f # "run"
    <3>1. f \in {"check_ports", "check_config", "copy", "copy_logger", "tar", "build"}
      BY <1>5, <2>2
    <3>2. proc' = proc
      BY <1>3, <1>7, <3>1, ProcEffects
    <3>3. obj'.id = obj.id
      BY <1>3, <2>2 DEF IdAfter
    <3>4. kind = "nginx" => f \in {"check_ports", "copy"}
      BY <1>5, <2>2
    <3>5. kind = "nginx" => files'.other = files.other
      BY <1>3, <1>4, <1>7, <3>4, FileEffects, TornFiles
    <3> QED
      BY <1>2, <1>3, <1>4, <3>2, <3>3, <3>5 DEF IndInv, CleanInv, CleanStop, STATE_STOPPED, Idle
  <2> QED
    BY <2>1, <2>2
<1>13. StatsInv'
  <2>1. ASSUME obj'.state = "started" PROVE proc'.seen = proc'.reqs + 0
    <3>1. ~o.raises /\ n = "none"
      BY <1>1, <1>2, <1>4, <2>1
    <3>2. f = "run"
      BY <1>5, <3>1
    <3> QED
      BY <1>10, <3>1, <3>2
  <2>2. obj'.stats = NoStats /\ NoStats.told = 0 /\ NoStats.real = 0 /\ NoStats.asks = 0
    BY <1>3, <1>6 DEF NoStats
  <2> QED
    BY <2>1, <2>2 DEF StatsInv
<1> QED
  BY <1>11, <1>12, <1>13

\* A step of reload() keeps the invariant.
LEMMA ReloadStep ==
    ASSUME Bounds, IndInv, NEW o, obj.op = "reload", CallDoes(First(obj.todo), o)
    PROVE  ConfigInv' /\ CleanInv' /\ StatsInv'
<1> DEFINE f == First(obj.todo)
           next == First(obj'.todo)
<1>1. PICK n, a : /\ Flows(kind, "reload", f, n, a, Len(obj.todo[1]) = 1)
                  /\ next = IF o.raises THEN a ELSE n
  BY CallFlow DEF IndInv
<1>2. obj'.op = (IF next = "none" THEN "idle" ELSE "reload") /\ obj'.state = obj.state
  BY CallFlow
<1>3. /\ proc' = (IF o.effect THEN ProcAfter(f) ELSE proc)
      /\ o.effect => files' = FilesAfter(f)
      /\ ~o.effect => files' \in Torn(f, o)
      /\ obj'.ran = obj.ran /\ obj'.cfg = obj.cfg /\ obj'.stats = obj.stats
      /\ obj'.id = IdAfter(f, o) /\ UNCHANGED <<kind, stand>>
  BY CallOutcome DEF CallDoes
<1>4. /\ kind = "tempesta" /\ (o.raises => next = "none")
      /\ <<f, n>> \in {<<"check_config", "copy">>, <<"copy", "copy_logger">>,
                      <<"copy_logger", "reload">>, <<"reload", "none">>}
  <2>1. o.raises \in BOOLEAN
    BY CallOutcome
  <2> QED
    BY <1>1, <2>1 DEF Flows
<1>5. /\ o.effect \in BOOLEAN /\ o.raises \in BOOLEAN /\ odd \subseteq odd'
      /\ o.effect => ~Raises(f)
      /\ ~o.effect /\ ~o.raises => f \in {"copy", "copy_logger"} /\ "old_file" \in odd'
      /\ o.raises => "reload_failed" \in odd'
  <2>1. ~Skipped(f) /\ f \notin {"remove", "remove_logger", "remove_tar"}
    BY <1>4 DEF Skipped
  <2> QED
    BY <2>1, CallOutcome
<1>6. obj.ran = obj.cfg
        /\ (f \in {"copy_logger", "run", "reload"} /\ "old_file" \notin odd => files.cfg = obj.ran)
  BY DEF IndInv, ConfigInv
<1> HIDE DEF f, next
<1>7. ObjType /\ obj.id <= proc.inst
  BY DEF IndInv, CleanInv
<1>8. ASSUME ~o.raises, f \in {"copy", "copy_logger"}, "old_file" \notin odd'
      PROVE  files'.cfg = obj.ran
  BY <1>3, <1>5, <1>6, <1>7, <1>8, FileEffects
<1>9. /\ f = "reload" /\ o.effect => /\ proc.cfg # 0 /\ proc'.cfg = files.cfg
                                     /\ proc'.dying = proc.dying
                                     /\ proc'.reqs = proc.reqs /\ proc'.seen = proc.seen
      /\ ~(f = "reload" /\ o.effect) => proc' = proc
      /\ proc'.inst = proc.inst
  <2>1. f = "reload" /\ o.effect => proc.cfg # 0
    BY <1>5 DEF Raises
  <2> QED
    BY <1>3, <1>4, <1>7, <2>1, ProcEffects
<1>10. ConfigInv'
  <2>1. obj'.op \in {"start", "reload"} => ~o.raises /\ next = n
    BY <1>1, <1>2, <1>4
  <2>2. ASSUME obj'.op \in {"start", "reload"}, next \in {"copy_logger", "run", "reload"},
               "old_file" \notin odd'
        PROVE  files'.cfg = obj'.ran
    BY <1>3, <1>4, <1>8, <2>1, <2>2
  <2>3. RunsOwnConfig'
    <3> SUFFICES ASSUME obj'.op = "idle", "old_file" \notin odd', "reload_failed" \notin odd'
                 PROVE  proc'.cfg = obj'.ran
      BY DEF RunsOwnConfig, Idle
    <3>1. ~o.raises /\ n = "none"
      BY <1>1, <1>2, <1>5
    <3>2. f = "reload" /\ o.effect
      BY <1>4, <1>5, <3>1
    <3> QED
      BY <1>3, <1>5, <1>6, <1>9, <3>2
  <2> QED
    BY <1>3, <1>6, <2>2, <2>3 DEF ConfigInv, next
<1>11. CleanInv'
  <2>1. obj'.id = obj.id
    BY <1>3, <1>4 DEF IdAfter
  <2>2. obj.state = "stopped" =>
          /\ "stray_reload" \in odd
          /\ odd \cap {"stop_failed", "kept_file", "lost_id"} = {} /\ ~stand.debug =>
               proc.cfg = 0 \/ proc.dying
    BY DEF IndInv, CleanInv
  <2>3. proc.cfg = 0 \/ proc.dying => proc'.cfg = 0 \/ proc'.dying
    BY <1>5, <1>9
  <2>4. /\ "stray_reload" \in odd => "stray_reload" \in odd'
        /\ odd' \cap {"stop_failed", "kept_file", "lost_id"} = {} =>
             odd \cap {"stop_failed", "kept_file", "lost_id"} = {}
    BY <1>5
  <2> QED
    BY <1>2, <1>3, <1>4, <1>7, <1>9, <2>1, <2>2, <2>3, <2>4 DEF CleanInv, CleanStop, STATE_STOPPED, Idle
<1>12. StatsInv'
  <2>2. proc'.cfg # 0 => proc.cfg # 0 /\ proc'.reqs = proc.reqs /\ proc'.seen = proc.seen
    BY <1>5, <1>9
  <2> QED
    BY <1>2, <1>3, <1>5, <2>2 DEF IndInv, StatsInv
<1> QED
  BY <1>10, <1>11, <1>12

\* A step of stop() keeps the invariant.
LEMMA StopStep ==
    ASSUME Bounds, IndInv, NEW o, obj.op = "stop", CallDoes(First(obj.todo), o)
    PROVE  ConfigInv' /\ CleanInv' /\ StatsInv'
<1> DEFINE f == First(obj.todo)
           next == First(obj'.todo)
           last == Len(obj.todo[1]) = 1
<1>1. PICK n, a : /\ Flows(kind, "stop", f, n, a, last)
                  /\ next = IF o.raises THEN a ELSE n
  BY CallFlow DEF IndInv
<1>2. /\ obj'.op = (IF next = "none" THEN "idle" ELSE "stop")
      /\ obj'.state = IF o.raises THEN "error" ELSE IF last THEN "stopped" ELSE obj.state
  BY CallFlow
<1>3. /\ proc' = (IF o.effect THEN ProcAfter(f) ELSE proc)
      /\ o.effect => files' = FilesAfter(f)
      /\ ~o.effect => files' \in Torn(f, o)
      /\ obj'.ran = obj.ran /\ obj'.cfg = obj.cfg /\ obj'.stats = obj.stats
      /\ obj'.id = IdAfter(f, o) /\ UNCHANGED <<kind, stand>>
  BY CallOutcome DEF CallDoes
<1>4. \/ kind = "nginx" /\ last /\ <<f, next>> \in {<<"stop_nginx", "remove">>, <<"remove", "none">>}
      \/ kind = "docker" /\ last /\ <<f, next>> \in {<<"stop_server", "remove_tar">>, <<"remove_tar", "none">>}
      \/ kind = "tempesta" /\ last /\ <<f, next>> \in {<<"stop_tempesta", "remove">>,
                                     <<"remove_logger", "drop_table">>, <<"drop_table", "none">>}
      \/ kind = "tempesta" /\ ~last /\ f = "remove"
           /\ next = IF o.raises THEN "drop_table" ELSE "remove_logger"
  <2>1. o.raises \in BOOLEAN
    BY CallOutcome
  <2> QED
    BY <1>1, <2>1 DEF Flows
<1>5. /\ o.effect \in BOOLEAN /\ o.raises \in BOOLEAN /\ odd \subseteq odd'
      /\ ~o.effect /\ ~o.raises =>
           \/ Skipped(f)
           \/ f \in {"remove", "remove_logger", "remove_tar"} /\ "kept_file" \in odd'
      /\ o.raises => "stop_failed" \in odd'
  <2>1. f \in Stops /\ f \notin {"copy", "copy_logger"}
    BY <1>4 DEF Stops, Removals
  <2> QED
    BY <2>1, CallOutcome
<1> HIDE DEF f, next, last
<1>6. ObjType /\ obj.id <= proc.inst
  BY DEF IndInv, CleanInv
<1>7. /\ obj'.id = obj.id
      /\ proc'.inst = proc.inst
      /\ proc'.cfg \in {0, proc.cfg}
      /\ f \notin {"stop_nginx", "stop_server", "stop_tempesta"} => proc' = proc
      /\ proc'.cfg # 0 => proc'.reqs = proc.reqs /\ proc'.seen = proc.seen
  <2>1. obj'.id = obj.id
    BY <1>3, <1>4 DEF IdAfter
  <2> QED
    BY <1>3, <1>4, <1>6, <2>1, ProcEffects
<1>8. kind = "nginx" => ~files'.other
  <2>1. kind = "nginx" => f \in {"stop_nginx", "remove"} /\ ~files.other
    BY <1>4 DEF IndInv, CleanInv
  <2>2. kind = "nginx" => files'.other = files.other
    BY <1>3, <1>5, <1>6, <2>1, FileEffects, TornFiles
  <2> QED
    BY <2>1, <2>2
<1> DEFINE quiet == odd' \cap {"stop_failed", "kept_file", "lost_id"} = {} /\ ~stand.debug
<1>9. ASSUME quiet PROVE odd \cap {"stop_failed", "kept_file", "lost_id"} = {} /\ ~o.raises
  BY <1>5, <1>9
<1>10. ASSUME quiet
       PROVE  /\ proc'.cfg = 0 \/ proc'.dying
              /\ f = "remove" => files'.cfg = 0
              /\ f \in {"remove_logger", "remove_tar"} => ~files'.other
              /\ f \in {"remove_logger", "drop_table"} => files'.cfg = 0
              /\ f = "drop_table" => ~files'.other
  <2>1. ~Skipped(f) => o.effect
    BY <1>5, <1>9, <1>10
  <2>2. /\ f \in {"remove", "remove_tar", "remove_logger", "drop_table"} => proc.cfg = 0 \/ proc.dying
        /\ f \in {"remove_logger", "drop_table"} => files.cfg = 0
        /\ f = "drop_table" => ~files.other
    BY <1>9, <1>10 DEF IndInv, CleanInv, f
  <2>3. f # "stop_server" => o.effect
    BY <2>1 DEF Skipped
  <2>4. proc'.cfg = 0 \/ proc'.dying
    <3>1. CASE f = "stop_nginx"
      BY <1>3, <1>6, <2>3, <3>1, ProcEffects
    <3>2. CASE f = "stop_tempesta"
      BY <1>3, <1>6, <2>3, <3>2, ProcEffects
    <3>3. CASE f = "stop_server"
      <4>1. CASE o.effect
        BY <1>3, <1>6, <3>3, <4>1, ProcEffects
      <4>2. CASE ~o.effect
        <5>1. obj.id = 0 /\ kind = "docker"
          BY <1>4, <2>1, <3>3, <4>2 DEF Skipped
        <5>2. proc.cfg = 0
          BY <1>9, <1>10, <5>1 DEF IndInv, CleanInv
        <5> QED
          BY <1>3, <4>2, <5>2
      <4> QED
        BY <1>5, <4>1, <4>2
    <3>4. CASE f \notin {"stop_nginx", "stop_tempesta", "stop_server"}
      BY <1>4, <1>7, <2>2, <3>4
    <3> QED
      BY <3>1, <3>2, <3>3, <3>4
  <2> QED
    BY <1>3, <1>6, <2>2, <2>3, <2>4, FileEffects
<1>11. ConfigInv'
  <2>1. obj'.op = "idle" => obj'.state # "started"
    BY <1>2, <1>4, <1>5
  <2> QED
    BY <1>2, <2>1 DEF ConfigInv, RunsOwnConfig, Idle, STATE_STARTED
<1>12. CleanInv'
  <2>1. kind = "docker" /\ "lost_id" \notin odd' /\ proc'.cfg # 0 => obj'.id # 0
    BY <1>5, <1>7 DEF IndInv, CleanInv
  <2>2. ASSUME quiet, obj'.op = "stop"
        PROVE  /\ proc'.cfg = 0 \/ proc'.dying
               /\ next \in {"remove_logger", "drop_table"} => files'.cfg = 0
               /\ next = "drop_table" => ~files'.other
    BY <1>4, <1>9, <1>10, <2>2
  <2>3. ASSUME quiet, obj'.op = "idle"
        PROVE  /\ proc'.cfg = 0 \/ proc'.dying
               /\ ~files'.other
               /\ kind # "docker" => files'.cfg = 0
    BY <1>2, <1>4, <1>8, <1>9, <1>10, <2>3
  <2> QED
    BY <1>2, <1>3, <1>6, <1>7, <1>8, <2>1, <2>2, <2>3 DEF CleanInv, CleanStop, Idle, next
<1>13. StatsInv'
  <2>1. obj'.state = "started" => obj.state = "started"
    BY <1>2
  <2> QED
    BY <1>2, <1>3, <1>5, <1>7, <2>1 DEF IndInv, StatsInv
<1> QED
  BY <1>11, <1>12, <1>13

\* A step of any call keeps the invariant.
LEMMA StepPreserves ==
    ASSUME Bounds, IndInv, Step
    PROVE  IndInv'
<1>1. PICK o : CallDoes(First(obj.todo), o)
  BY StepDoes
<1>2. obj.op \in {"start", "reload", "stop"}
  BY DEF Step, Idle, IndInv, ObjType, Obj
<1>3. ObjType' /\ FlowInv'
  BY <1>1, <1>2, CallFlow
<1>4. ConfigInv' /\ CleanInv' /\ StatsInv'
  BY <1>1, <1>2, StartStep, ReloadStep, StopStep
<1> QED
  BY <1>3, <1>4 DEF IndInv

-----------------------------------------------------------------------------
\* Every step keeps the invariant.
THEOREM Inductive == IndInv /\ [Next]_vars => IndInv'
<1> SUFFICES ASSUME IndInv, [Next]_vars PROVE IndInv'
  OBVIOUS
<1>2. Bounds BY BoundsAssumption DEF Bounds
<1>1. CASE UNCHANGED vars
  BY <1>1 DEF vars, IndInv, ObjType, FlowInv, ConfigInv, RunsOwnConfig, CleanInv, CleanStop,
     StatsInv, Idle
<1> QED
  BY <1>1, <1>2, StartPreserves, ReloadPreserves, StopPreserves, StepPreserves, SetConfigPreserves,
     GetStatsPreserves, ProcessPreserves DEF Next

\* Every state a service reaches satisfies the invariant.
THEOREM IndInvHolds == Spec => []IndInv
<1>1. Init => IndInv BY BoundsAssumption, InitIndInv DEF Bounds
<1> QED BY <1>1, Inductive, PTL DEF Spec

\* A service that start() or reload() left in STATE_STARTED runs with the configuration
\* the test had given by then, whatever calls failed before, and Nginx.requests reports
\* what the process has served for others.
THEOREM ServiceAsAsked == Spec => []RunsAsAsked
<1>1. IndInv => RunsAsAsked
  <2> SUFFICES ASSUME IndInv PROVE RunsAsAsked
    OBVIOUS
  <2>1. (obj.op = "idle") = (obj.todo = <<>>)
    <3>1. obj.op # "idle" => obj.todo # <<>>
      <4>1. obj.op # "idle" => First(obj.todo) # "none"
        BY Flow DEF IndInv, Flows
      <4> QED
        BY <4>1, TodoTypes
    <3> QED
      BY <3>1, TodoTypes DEF IndInv, FlowInv
  <2>2. obj.id \in 0 .. proc.inst
    BY DEF IndInv, ObjType, Obj, CleanInv
  <2>3. TypeOK
    BY <2>1, <2>2 DEF IndInv, ObjType, Obj, FlowInv, TypeOK, Kinds, STATE_BEGIN_START, STATE_STARTED
  <2> QED
    BY <2>3 DEF IndInv, ConfigInv, StatsInv, StatsExact, RunsAsAsked, STATE_STARTED
<1> QED
  BY <1>1, IndInvHolds, PTL

\* A stop() none of whose procedures raised leaves neither process nor file, however far
\* the start() before it had come; the excuses are those that the property names.
THEOREM StopIsClean == Spec => []CleanStop
<1>1. IndInv => CleanStop
  BY DEF IndInv, CleanInv
<1> QED
  BY <1>1, IndInvHolds, PTL

=============================================================================
