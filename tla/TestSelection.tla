---------------------------- MODULE TestSelection ---------------------------
(***************************************************************************)
(* Which of the collected tests run, and in which order:                   *)
(* pytest_collection_modifyitems (conftest.py) with the lists of disabled, *)
(* preferred and repeated tests (framework/test_suite/pytest_support.py,   *)
(* shell.py).                                                              *)
(*                                                                         *)
(* A test is the sequence of the names above it, directory, module and     *)
(* method; a name is a sequence of characters.  A line of a list is the    *)
(* node id of a test or of something above tests, or blank.                *)
(***************************************************************************)
EXTENDS Integers, SequencesExt, FiniteSetsExt

CONSTANTS
    Collected,      \* the tests in the order in which pytest has found them
    Listed,         \* what lists may name: the names that lead to it
    ListNames,      \* the files with disabled tests
    Always,         \* the one of them that is always read
    MaxLines        \* bound: lines of the priority list

VARIABLES
    config,     \* the options and the lists
    items,      \* the list that pytest passes from hook to hook
    marked,     \* the tests that are repeated if they fail
    phase

vars == <<config, items, marked, phase>>

\* The node id: a "/" between a directory and a module, "::" further down.
NodeId(names) ==
  LET Join(i) == IF i = 1 THEN names[1] ELSE (IF i = 2 THEN <<"/">> ELSE <<"::">>) \o names[i]
  IN  FlattenSeq([i \in DOMAIN names |-> Join(i)])

\* Mutant of MatchesNodeid: a name matches that only begins alike.
StartsWith(nodeid, prefix) == IsPrefix(prefix, nodeid)

\* _matches_any_nodeid
MatchesNodeid(nodeid, prefix) ==
  nodeid = prefix \/ IsPrefix(prefix \o <<"/">>, nodeid) \/ IsPrefix(prefix \o <<"::">>, nodeid)

MatchesAnyNodeid(nodeid, prefixes) ==
  \E p \in prefixes : p # <<>> /\ MatchesNodeid(nodeid, p)

\* DisabledListLoader.try_load, load_disabled
TryLoad(l) ==
  IF config.lists[l].exists /\ config.lists[l].disable THEN config.lists[l].lines ELSE {}

LoadDisabled == UNION {TryLoad(l) : l \in config.reads \cup {Always}}

\* handle_disabled_tests, _run_disabled_tests
HandleDisabledTests ==
  /\ phase = "collected"
  /\ items' = SelectSeq(items, LAMBDA i : MatchesAnyNodeid(NodeId(i), LoadDisabled) <=> config.runDisabled)
  /\ phase' = IF items' = <<>> THEN "ready" ELSE "selected"
  /\ UNCHANGED <<config, marked>>

\* apply_test_priorities: the key of an item is the first line that matches, in a
\* list that was turned over, and the sort is stable.
Turned(lines) == Reverse(lines)

PrioKey(item, lines) ==
  LET at == {k \in DOMAIN lines : MatchesAnyNodeid(NodeId(item), {lines[k]})}
  IN  IF at = {} THEN Len(lines) + 1 ELSE Min(at)

ApplyTestPriorities ==
  /\ phase = "selected"
  /\ LET lines == Turned(SelectSeq(config.priority, LAMBDA l : l # <<>>))
         key(k) == PrioKey(items[k], lines)
         order == SetToSortSeq(DOMAIN items, LAMBDA j, k : key(j) < key(k) \/ (key(j) = key(k) /\ j < k))
     IN  items' = [k \in DOMAIN items |-> items[order[k]]]
  /\ phase' = "sorted"
  /\ UNCHANGED <<config, marked>>

\* apply_retry_markers
ApplyRetryMarkers ==
  /\ phase = "sorted"
  /\ marked' = IF config.retry THEN {i \in ToSet(items) : MatchesAnyNodeid(NodeId(i), config.retried)}
               ELSE {}
  /\ phase' = "ready"
  /\ UNCHANGED <<config, items>>

Lines == {NodeId(names) : names \in Listed} \cup {<<>>}
OneOf(S) == {{}} \cup {{x} : x \in S}

\* Bound: priorities are combined with one list of disabled tests only.
Init ==
  /\ config \in [lists : [ListNames -> [exists : {TRUE}, disable : BOOLEAN, lines : OneOf(Lines)]
                                       \cup {[exists |-> FALSE, disable |-> FALSE, lines |-> {}]}],
                 reads : SUBSET (ListNames \ {Always}), runDisabled : BOOLEAN,
                 retry : BOOLEAN, retried : OneOf(Lines),
                 priority : UNION {[1..n -> Lines] : n \in 0..MaxLines}]
  /\ (config.priority # <<>>) => (config.retried = {})
  /\ (config.priority # <<>>) => \A l \in ListNames \ {Always} : ~config.lists[l].exists
  /\ items = Collected /\ marked = {} /\ phase = "collected"

Next == HandleDisabledTests \/ ApplyTestPriorities \/ ApplyRetryMarkers

Spec == Init /\ [][Next]_vars

-----------------------------------------------------------------------------
\* What a list should mean: it names a test or something above it.
Names(lines, item) == \E names \in Listed : NodeId(names) \in lines /\ IsPrefix(names, item)

Disabled(item) ==
  \E l \in config.reads \cup {Always} :
     config.lists[l].exists /\ config.lists[l].disable /\ Names(config.lists[l].lines, item)

\* A test is selected once if it is enabled and not at all if it is disabled, or, to
\* run the disabled tests, the other way round; and it is repeated if the list for
\* that names it: handle_disabled_tests, apply_retry_markers.
SelectionExact ==
  (phase = "ready") =>
    /\ IsInjective(items)
    /\ ToSet(items) = {i \in ToSet(Collected) : Disabled(i) <=> config.runDisabled}
    /\ marked = {i \in ToSet(items) : config.retry /\ Names(config.retried, i)}

\* The tests that the last line of the priority list names run first, those that only
\* the line before names run next, and so on; the others follow, and nothing else
\* changes the order: apply_test_priorities.
PriorityOrder ==
  LET last(i) == Max({0} \cup {k \in DOMAIN config.priority : Names({config.priority[k]}, i)})
      found(i) == CHOOSE k \in DOMAIN Collected : Collected[k] = i
  IN  (phase = "ready") =>
        \A j, k \in DOMAIN items : j < k =>
          \/ last(items[j]) > last(items[k])
          \/ last(items[j]) = last(items[k]) /\ found(items[j]) < found(items[k])

\* So the session runs the right tests in the right order.
SelectionRight == SelectionExact /\ PriorityOrder

=============================================================================
