---------------------------- MODULE NodeSettings ----------------------------
(***************************************************************************)
(* The settings of the stand's nodes that tests change for a while: the    *)
(* context managers of framework/helpers/networker.py and netfilter.py,    *)
(* and the limit on kernel messages of framework/helpers/dmesg.py.         *)
(*                                                                         *)
(* A context is a constructor (outside the try), the commands of its try   *)
(* and the commands of its finally.  Contexts nest, any command may fail   *)
(* (module RemoteNode), the test may raise in the body.  A DmesgFinder is  *)
(* no context: it lives until the garbage collector takes it.              *)
(***************************************************************************)
EXTENDS Integers, Sequences, SequencesExt, TLC, RemoteNode

CONSTANTS Nodes,     \* the nodes with a NetWorker: tempesta, and the client if tempesta is remote
          Finders,   \* names for the DmesgFinder objects
          MaxDepth,  \* bound: contexts open at once
          MaxEvents  \* bound: contexts and finders opened, and commands
                     \* that fail without a reason of their own

VARIABLES node,      \* [Settings -> value], the settings of the nodes
          fixed,     \* the settings this stand does not let anyone change
          keep,      \* the address to add is one of _NON_REMOVING_IPS
          stack,     \* the open contexts, innermost last
          finders,   \* [Finders -> what message_cost was, or NotSaved]
          holders,   \* observer: who changed message_cost and has not restored it, oldest first
          opens, failures,
          blame      \* observer: why a setting may rightly be left changed

settingsVars == <<node, fixed, keep, stack, finders, holders, opens, failures, blame>>

Tempesta == Nodes[1]
Features == {"tso", "gro", "gso"}
Options == <<"opt1", "opt2">>
Keys == {"mtu", "expires", "pmtu", "ipv6", "cost", "chain", "jump", "rules",
         "addr", "route"} \cup Features \cup ToSet(Options)
Settings == ToSet(Nodes) \X Keys
LowMtu == 1        \* below the least MTU of IPv6
NotSaved == -1
Default == [mtu |-> 2, expires |-> 3, pmtu |-> 0, ipv6 |-> 1, cost |-> 5,
            chain |-> 0, jump |-> 0, rules |-> 0, addr |-> 0, route |-> 0,
            tso |-> 0, gro |-> 1, gso |-> 0, opt1 |-> 0, opt2 |-> 1]
Initial == [s \in Settings |-> Default[s[2]]]

-----------------------------------------------------------------------------
(* The commands of each context                                            *)

Cmd(op, n, key, val) == [op |-> op, on |-> <<n, key>>, val |-> val]
\* for networker in networkers
Each(steps) == FlattenSeq([i \in DOMAIN Nodes |-> steps[Nodes[i]]])

NetWorkerInit(n) ==
  LET saved == <<"ipv6", "mtu", "expires", "pmtu", "tso", "gro", "gso">>
  IN [i \in DOMAIN saved |-> Cmd("save", n, saved[i], 0)]

ChangeMtu(n) == <<Cmd("set", n, "mtu", LowMtu), Cmd("set", n, "expires", 0)>>
ChangeMtuNoPmtu(n) == ChangeMtu(n) \o <<Cmd("set", n, "pmtu", 1)>>

\* Mutant of RestoreInterface: the addresses are added while the MTU is low.
RestoreInterfaceIpv6First(n) ==
  <<Cmd("readd", n, "ipv6", 0), Cmd("restore", n, "mtu", 0),
    Cmd("restore", n, "expires", 0), Cmd("restore", n, "pmtu", 0)>>

RestoreInterface(n) ==
  <<Cmd("restore", n, "mtu", 0), Cmd("restore", n, "expires", 0),
    Cmd("restore", n, "pmtu", 0), Cmd("readd", n, "ipv6", 0)>>

ChangeTsoGroGso(n) ==
  <<Cmd("set", n, "tso", 1), Cmd("set", n, "gro", 1), Cmd("set", n, "gso", 1)>>
RestoreTsoGroGso(n) ==
  <<Cmd("restore", n, "tso", 0), Cmd("restore", n, "gro", 0),
    Cmd("restore", n, "gso", 0)>>

ChangeTcpOptions(n) ==
  FlattenSeq([i \in DOMAIN Options |->
    <<Cmd("save", n, Options[i], 0), Cmd("set", n, Options[i], 2)>>])
RestoreTcpOptions(n) ==
  [i \in DOMAIN Options |-> Cmd("restore_saved", n, Options[i], 0)]

InitChains == <<Cmd("add", Tempesta, "chain", 1), Cmd("add", Tempesta, "jump", 1)>>
BlockPorts == <<Cmd("set", Tempesta, "rules", 1)>>
CleanUp == <<Cmd("set", Tempesta, "rules", 0), Cmd("del", Tempesta, "jump", 0),
             Cmd("del", Tempesta, "chain", 0)>>

\* Their exceptions are caught where the command runs and only logged; an address
\* that an ssh connection may need is not removed (_check_ssh_ip_addr, Needed below).
CreateInterfaces == <<Cmd("try_add", Tempesta, "addr", 1), Cmd("try_add", Tempesta, "route", 1)>>
RemoveInterfaces == <<Cmd("try_del", Tempesta, "route", 0), Cmd("try_del", Tempesta, "addr", 0)>>

ReadLimit == <<Cmd("save", Tempesta, "cost", 0)>>
ChangeLimit(rate) == <<Cmd("set", Tempesta, "cost", rate)>>

\* Mutant of RestoreLimit: the limit is switched off.
RestoreLimitToZero == <<Cmd("set", Tempesta, "cost", 0)>>

RestoreLimit == <<Cmd("restore", Tempesta, "cost", 0)>>

\* The context managers; tso and tcp run inside an mtu context of their own
\* and use its NetWorkers.
Limits == {"limit0", "limit5"}
ContextKinds == {"mtu", "pmtu", "tso", "tcp", "filter", "ifaces"} \cup Limits
Within(kind) == IF kind \in {"tso", "tcp"} THEN <<"mtu", kind>> ELSE <<kind>>

Program == [
  mtu    |-> [ctor |-> Each([n \in ToSet(Nodes) |-> NetWorkerInit(n)]),
              enter |-> Each([n \in ToSet(Nodes) |-> ChangeMtu(n)]),
              exit |-> Each([n \in ToSet(Nodes) |-> RestoreInterface(n)])],
  pmtu   |-> [ctor |-> Each([n \in ToSet(Nodes) |-> NetWorkerInit(n)]),
              enter |-> Each([n \in ToSet(Nodes) |-> ChangeMtuNoPmtu(n)]),
              exit |-> Each([n \in ToSet(Nodes) |-> RestoreInterface(n)])],
  tso    |-> [ctor |-> <<>>,
              enter |-> Each([n \in ToSet(Nodes) |-> ChangeTsoGroGso(n)]),
              exit |-> Each([n \in ToSet(Nodes) |-> RestoreTsoGroGso(n)])],
  tcp    |-> [ctor |-> <<>>,
              enter |-> Each([n \in ToSet(Nodes) |-> ChangeTcpOptions(n)]),
              exit |-> Each([n \in ToSet(Nodes) |-> RestoreTcpOptions(n)])],
  filter |-> [ctor |-> InitChains, enter |-> BlockPorts, exit |-> CleanUp],
  ifaces |-> [ctor |-> NetWorkerInit(Tempesta), enter |-> CreateInterfaces,
              exit |-> RemoveInterfaces],
  limit0 |-> [ctor |-> ReadLimit, enter |-> ChangeLimit(0),
              exit |-> RestoreLimit],
  limit5 |-> [ctor |-> ReadLimit, enter |-> ChangeLimit(5),
              exit |-> RestoreLimit]]

-----------------------------------------------------------------------------
Phases == {"ctor", "enter", "body", "exit"}
Top == Last(stack)
Commands(f) == IF f.phase = "body" THEN <<>> ELSE Program[f.kind][f.phase]
InTest == stack # <<>> => Top.phase = "body"  \* the test's own code runs

\* kinds[1] is opened now, the rest inside it; the inner one uses the
\* NetWorkers, hence the saved values, of the outer one.
Frame(kinds, saved) ==
  [kind |-> kinds[1], inner |-> Tail(kinds), phase |-> "ctor", pc |-> 1,
   saved |-> saved, before |-> node, raised |-> FALSE]

Exiting(f, raise) == [f EXCEPT !.phase = "exit", !.pc = 1, !.raised = raise]
WithTop(f) == [stack EXCEPT ![Len(stack)] = f]

\* The innermost context is over; an exception ends the one around it too.
Popped(raise) ==
  LET below == Front(stack)
  IN IF below = <<>> \/ ~(raise \/ Last(below).inner # <<>>) THEN below
     ELSE [below EXCEPT ![Len(below)] = Exiting(@, raise)]

\* An exception in the code of the test.
Raised(s) == IF s = <<>> THEN s ELSE [s EXCEPT ![Len(s)] = Exiting(@, TRUE)]

-----------------------------------------------------------------------------
(* One command                                                             *)

Local(n) == n # Tempesta \/ Len(Nodes) = 1

\* The kernel takes the IPv6 addresses away when the MTU gets too low.
Assign(on, val) ==
  [node EXCEPT ![on] = val,
               ![<<on[1], "ipv6">>] = IF on[2] = "mtu" /\ val = LowMtu THEN 0
                                      ELSE IF on[2] = "ipv6" THEN val ELSE @]

Lost(c) == Top.saved[c.on] = 1 /\ node[c.on] = 0   \* an address to add again

Needed(c) == /\ c.op = "readd" => Lost(c)
             /\ c.op = "restore_saved" => c.on \in DOMAIN Top.saved
             /\ c.op = "try_del" => ~keep

\* Commands that the node refuses whatever happens.
MustFail(c) ==
  LET n == c.on[1]
  IN \/ c.on \in fixed /\ (c.op # "save" \/ c.on[2] \notin Features)
     \/ c.op \in {"add", "try_add"} /\ node[c.on] = 1
     \/ c.op \in {"del", "try_del"} /\ node[c.on] = 0
     \/ c.op = "del" /\ c.on[2] = "chain" /\ node[<<n, "jump">>] = 1
     \/ c.on[2] = "rules" /\ node[<<n, "chain">>] = 0
     \/ c.op = "readd" /\ node[<<n, "mtu">>] = LowMtu

Effect(c) ==
  CASE c.op = "save" -> node
    [] c.op \in {"restore", "restore_saved", "readd"} -> Assign(c.on, Top.saved[c.on])
    [] OTHER -> Assign(c.on, c.val)

SavedAfter(c) ==
  IF c.op = "save" THEN (c.on :> node[c.on]) @@ Top.saved ELSE Top.saved

Holder == <<"context", Len(stack)>>
Caught(c) == c.op \in {"try_add", "try_del"}

\* Why this outcome of the innermost context's command may leave a change.
Blames(c, o) ==
  {b \in {"exit", "ctor", "shared", "kept", "disorder"} :
     CASE b = "exit" -> Top.phase = "exit" /\ o.raises /\ ~MustFail(c)
       [] b = "ctor" -> Top.phase = "ctor" /\ o.raises /\ node' # Top.before
       [] b = "shared" -> c.op = "try_add" /\ MustFail(c) /\ ~keep
       [] b = "kept" -> c.op = "try_add" /\ o.effect /\ keep
       [] b = "disorder" -> /\ Top.phase = "exit" /\ c.on[2] = "cost"
                            /\ Last(holders) # Holder}

Raise(c) ==
  IF Top.phase = "enter" THEN WithTop(Exiting(Top, TRUE)) ELSE Popped(TRUE)

Command ==
  /\ stack # <<>> /\ Top.pc <= Len(Commands(Top))
  /\ LET c == Commands(Top)[Top.pc]
     IN IF ~Needed(c)
        THEN /\ stack' = WithTop([Top EXCEPT !.pc = @ + 1])
             /\ UNCHANGED <<node, holders, failures, blame>>
        ELSE \E o \in IF MustFail(c) THEN {Refused} ELSE RunCmd(Local(c.on[1])) :
               /\ failures' = IF o = Done \/ MustFail(c) THEN failures ELSE failures + 1
               /\ opens + failures' <= MaxEvents
               /\ node' = IF o.effect THEN Effect(c) ELSE node
               /\ stack' = IF o.raises /\ ~Caught(c) THEN Raise(c)
                           ELSE WithTop([Top EXCEPT !.pc = @ + 1, !.saved =
                                  IF o.raises THEN @ ELSE SavedAfter(c)])
               /\ holders' = IF c.on[2] # "cost" \/ (c.op = "save" /\ o.raises) THEN holders
                             ELSE CASE c.op = "save" -> Append(holders, Holder)
                                    [] Top.phase = "exit" -> Remove(holders, Holder)
                                    [] OTHER -> holders
               /\ blame' = blame \cup Blames(c, o)
  /\ UNCHANGED <<fixed, keep, finders, opens>>

-----------------------------------------------------------------------------
Open(kind) ==
  /\ InTest /\ opens + failures < MaxEvents
  /\ Len(stack) + Len(Within(kind)) <= MaxDepth
  /\ opens' = opens + 1
  /\ stack' = Append(stack, Frame(Within(kind), <<>>))
  /\ UNCHANGED <<node, fixed, keep, finders, holders, failures, blame>>

\* The commands of a part are done.
Advance ==
  /\ stack # <<>> /\ Top.phase # "body" /\ Top.pc > Len(Commands(Top))
  /\ stack' = CASE Top.phase = "ctor" -> WithTop([Top EXCEPT !.phase = "enter", !.pc = 1])
                [] Top.phase = "enter" ->
                     LET f == [Top EXCEPT !.phase = "body", !.pc = 1]
                     IN IF f.inner = <<>> THEN WithTop(f)
                        ELSE Append(WithTop(f), Frame(f.inner, f.saved))
                [] OTHER -> Popped(Top.raised)
  /\ UNCHANGED <<node, fixed, keep, finders, holders, opens, failures, blame>>

\* The with block ends, by itself or by an exception of the test.
BodyEnds(raise) ==
  /\ stack # <<>> /\ InTest
  /\ stack' = WithTop(Exiting(Top, raise))
  /\ UNCHANGED <<node, fixed, keep, finders, holders, opens, failures, blame>>

\* DmesgFinder(disable_ratelimit=True): the object exists, and will be
\* deleted, even when the last command of its constructor raises.
NewFinder(f) ==
  LET cost == <<Tempesta, "cost">>
  IN /\ opens' = opens + 1
     /\ InTest /\ finders[f] = NotSaved /\ opens + failures < MaxEvents
     /\ \E o \in IF node[cost] = 0 THEN {Done} ELSE RunCmd(Local(Tempesta)) :
          /\ failures' = IF o = Done THEN failures ELSE failures + 1
          /\ opens' + failures' <= MaxEvents
          /\ node' = IF o.effect THEN Assign(cost, 0) ELSE node
          /\ stack' = IF o.raises THEN Raised(stack) ELSE stack
     /\ finders' = [finders EXCEPT ![f] = node[cost]]
     /\ holders' = Append(holders, <<"finder", f>>)
     /\ UNCHANGED <<fixed, keep, blame>>

\* __del__, whenever the object is collected; its exceptions are lost.
DelFinder(f) ==
  /\ finders[f] # NotSaved
  /\ \E o \in RunCmd(Local(Tempesta)) :
       /\ failures' = IF o = Done THEN failures ELSE failures + 1
       /\ opens + failures' <= MaxEvents
       /\ node' = IF o.effect THEN Assign(<<Tempesta, "cost">>, finders[f]) ELSE node
       /\ blame' = blame \cup (IF o.effect THEN {} ELSE {"exit"})
                         \cup (IF Last(holders) = <<"finder", f>> THEN {} ELSE {"disorder"})
  /\ finders' = [finders EXCEPT ![f] = NotSaved]
  /\ holders' = Remove(holders, <<"finder", f>>)
  /\ UNCHANGED <<fixed, keep, stack, opens>>

\* A stand has at most one peculiarity: a setting that cannot be changed, or an address
\* that is there already or must not be removed.
SettingsInit ==
  /\ \E present \in 0 .. 1 :
       node = [Initial EXCEPT ![<<Tempesta, "addr">>] = present, ![<<Tempesta, "route">>] = present]
  /\ keep \in BOOLEAN
  /\ fixed \in {{}} \cup {{<<n, k>>} : n \in ToSet(Nodes), k \in Features \cup ToSet(Options)}
  /\ (keep \/ node # Initial) => (fixed = {})
  /\ stack = <<>> /\ holders = <<>>
  /\ finders = [f \in Finders |-> NotSaved]
  /\ opens = 0 /\ failures = 0 /\ blame = {}

SettingsNext ==
  \/ \E kind \in ContextKinds : Open(kind)
  \/ Command
  \/ Advance
  \/ \E raise \in BOOLEAN : BodyEnds(raise)
  \/ \E f \in Finders : NewFinder(f) \/ DelFinder(f)

SettingsSpec == SettingsInit /\ [][SettingsNext]_settingsVars

-----------------------------------------------------------------------------
\* Every variable has its type: a context always has the values it restores.
SettingsTypeOK ==
  /\ node \in [Settings -> -1 .. 5] /\ fixed \subseteq Settings
  /\ \A s \in Settings : node[s] # NotSaved
  /\ finders \in [Finders -> -1 .. 5]
  /\ \A i \in DOMAIN stack :
       LET f == stack[i]
       IN /\ f.kind \in ContextKinds /\ f.phase \in Phases /\ f.raised \in BOOLEAN
          /\ \A j \in DOMAIN Commands(f) :
               (Commands(f)[j].op = "restore") => Commands(f)[j].on \in DOMAIN f.saved
  /\ opens + failures \in 0 .. MaxEvents

\* A context manager of networker.py or netfilter.py that is left, normally,
\* by an exception of the test or because one of its own commands was refused
\* half-way, leaves every setting as it found it.  The only excuses: a command
\* of a finally fails where its counterpart had worked, a constructor fails
\* after it changed something, the address was someone else's, or it was added though
\* it is one of those that are never removed.
ContextRestores ==
  [][Len(stack') < Len(stack) /\ blame' = {} =>
       \A s \in Settings : s[2] # "cost" => node'[s] = Top.before[s]]_settingsVars

\* When no DmesgFinder is left and no decorated function runs, the limit on
\* kernel messages is what it was, provided that whoever changed it last also
\* restored it first.  (And the variables have their types.)
LimitRestored ==
  /\ SettingsTypeOK
  /\ (holders = <<>> /\ stack = <<>> /\ blame = {}) =>
        node[<<Tempesta, "cost">>] = Default.cost

=============================================================================
