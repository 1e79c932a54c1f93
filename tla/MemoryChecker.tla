--------------------------- MODULE MemoryChecker ----------------------------
(***************************************************************************)
(* The search for memory leaks of framework/helpers/memworker.py in a      *)
(* session of tests: around every test, with --check-memory-leaks          *)
(* (TempestaTest.asyncSetUp, cleanup_check_memory_leaks), and, with or     *)
(* without it, around the part of a test that runs in the context manager  *)
(* check_memory_consumptions or under the decorator of marks.py.           *)
(*                                                                         *)
(* The memory in use on the node of Tempesta is what was leaked for good,  *)
(* what the kernel will release some day and, in a local setup, that of    *)
(* the Python process that runs the tests.                                 *)
(***************************************************************************)
EXTENDS Integers, FiniteSets

CONSTANTS
    Threshold,  \* memory_leak_threshold
    MaxTests,   \* bound: tests of the session
    MaxMem      \* bound: the memory in use

ASSUME ThresholdAssumption == Threshold \in Nat

STEPS_TO_CHECK_MEMORY == 5
None == -1
Checks == {"cleanup", "context"}
NoCheck == [of |-> "none", step |-> 0]

VARIABLES
    mem,        \* the parts of the memory: [leaked, cached, python]
    local,      \* _is_local_setup
    checkLeaks, \* run_config.CHECK_MEMORY_LEAKS
    test,       \* [n, at, context]: the test, where it is, and its context manager
    stats,      \* the _MemoryStats of each check
    reading,    \* [of, step]: the check in progress and its readings so far
    failTests,  \* MemoryChecker._fail_tests, a list of the class
    culprits,   \* observer: <<test, check>>: the test leaked too much during the check
    excused     \* observer: <<test, check>>: why it may not be found, see below

memoryVars == <<mem, local, checkLeaks, test, stats, reading, failTests, culprits, excused>>

\* _get_used_memory, _get_used_python_memory
UsedMemory(m) == m.leaked + m.cached + (IF local THEN m.python ELSE 0)
UsedPythonMemory(m) == IF local THEN m.python ELSE None

\* What Tempesta and the kernel hold at a reading, for the properties.
Part(m) == [leaked |-> m.leaked, cached |-> m.cached]
Held(h) == h.leaked + h.cached

\* get_first_memory_stats, _MemoryStats.__init__; first and second are observers
FirstMemoryStats(m) ==
  [system |-> UsedMemory(m), python |-> UsedPythonMemory(m), consumption |-> 0,
   first |-> Part(m), second |-> Part(m)]

\* Mutant of DeltaPython: the growth of the Python process is not taken off.
DeltaPythonForgotten(s, m) == 0

\* _MemoryStats.set_second_memory_stats
DeltaPython(s, m) == IF s.python = None THEN 0 ELSE UsedPythonMemory(m) - s.python

SetSecond(s, m) ==
  [s EXCEPT !.consumption = UsedMemory(m) - DeltaPython(s, m) - s.system,
            !.second = Part(m)]

IsMemoryLeak(s) == s.consumption > Threshold

-----------------------------------------------------------------------------
\* The first statistics of the check are there, its verdict is not.
Open(of) ==
  IF of = "context" THEN test.context = "open" ELSE checkLeaks /\ test.at # "none"

Pair(of) == <<test.n, of>>

\* The statistics of a check that is not open are of no use to anyone.
NoStats == FirstMemoryStats([leaked |-> 0, cached |-> 0, python |-> 0])
Forget(of) == stats' = [stats EXCEPT ![of] = NoStats]

MemoryInit ==
  /\ mem \in [leaked : {0}, cached : 0..1, python : {0}]
  /\ local \in BOOLEAN /\ checkLeaks \in BOOLEAN
  /\ test = [n |-> 0, at |-> "none", context |-> "unused"]
  /\ stats = [of \in Checks |-> NoStats]
  /\ reading = NoCheck
  /\ failTests = {} /\ culprits = {} /\ excused = {}

\* asyncSetUp up to TempestaTest.__save_memory_consumption
TestBegins ==
  /\ test.at = "none" /\ test.n < MaxTests
  /\ test' = [n |-> test.n + 1, at |-> "setup", context |-> "unused"]
  /\ stats' = IF checkLeaks THEN [stats EXCEPT !.cleanup = FirstMemoryStats(mem)] ELSE stats
  /\ UNCHANGED <<mem, local, checkLeaks, reading, failTests, culprits, excused>>

\* The cleanups are registered at the end of asyncSetUp: if it raises before, the
\* memory is not checked.
SetUpEnds(raised) ==
  /\ test.at = "setup"
  /\ test' = [test EXCEPT !.at = IF raised THEN "none" ELSE "body"]
  /\ IF raised THEN Forget("cleanup") /\ excused' = excused \cup {Pair("cleanup")}
     ELSE UNCHANGED <<stats, excused>>
  /\ UNCHANGED <<mem, local, checkLeaks, reading, failTests, culprits>>

\* check_memory_consumptions up to its yield; no test has two of them
ContextBegins ==
  /\ test.at = "body" /\ test.context = "unused"
  /\ test' = [test EXCEPT !.context = "open"]
  /\ stats' = [stats EXCEPT !.context = FirstMemoryStats(mem)]
  /\ UNCHANGED <<mem, local, checkLeaks, reading, failTests, culprits, excused>>

\* The body of the test is over.  The context manager has no finally: an exception
\* in it skips its check, but not the cleanups.
TestBodyEnds(raised) ==
  /\ test.at = "body" /\ reading = NoCheck
  /\ (test.context = "open") => raised
  /\ test' = [test EXCEPT !.at = "cleanup", !.context = "over"]
  /\ IF Open("context") THEN Forget("context") /\ excused' = excused \cup {Pair("context")}
     ELSE UNCHANGED <<stats, excused>>
  /\ UNCHANGED <<mem, local, checkLeaks, reading, failTests, culprits>>

\* cleanup_check_memory_leaks without --check-memory-leaks
NoCleanupCheck ==
  /\ test.at = "cleanup" /\ ~checkLeaks
  /\ test' = [test EXCEPT !.at = "none"]
  /\ UNCHANGED <<mem, local, checkLeaks, stats, reading, failTests, culprits, excused>>

\* The test, its set up or its cleanups make Tempesta leak or hold memory, or grow the
\* Python process on the same node.
TestAllocates(part) ==
  /\ test.at # "none" /\ reading = NoCheck
  /\ mem.leaked + mem.cached + mem.python < MaxMem
  /\ (part = "python") => local
  /\ mem' = [mem EXCEPT ![part] = @ + 1]
  /\ culprits' = culprits \cup
       {Pair(of) : of \in {c \in Checks : /\ Open(c)
                                          /\ mem'.leaked - stats[c].first.leaked > Threshold}}
  /\ UNCHANGED <<local, checkLeaks, test, stats, reading, failTests, excused>>

\* The kernel releases memory, whatever the tests do.
KernelReleases ==
  /\ mem.cached > 0
  /\ mem' = [mem EXCEPT !.cached = @ - 1]
  /\ UNCHANGED <<local, checkLeaks, test, stats, reading, failTests, culprits, excused>>

-----------------------------------------------------------------------------
\* MemoryChecker.set_second_memory_stats: a reading, ...
FirstReading(of) ==
  /\ reading = NoCheck /\ Open(of)
  /\ (of = "cleanup") => (test.at = "cleanup")
  /\ stats' = [stats EXCEPT ![of] = SetSecond(@, mem)]
  /\ reading' = [of |-> of, step |-> 0]
  /\ UNCHANGED <<mem, local, checkLeaks, test, failTests, culprits, excused>>

\* gc.collect() may give memory of the Python process back.
Collect(collected) ==
  /\ collected => (local /\ mem.python > 0)
  /\ mem' = IF collected THEN [mem EXCEPT !.python = @ - 1] ELSE mem

\* ... then, as long as it looks like a leak, a pause and another one.
NextReading(collected) ==
  /\ reading.of # "none" /\ reading.step < STEPS_TO_CHECK_MEMORY
  /\ IsMemoryLeak(stats[reading.of])
  /\ Collect(collected)
  /\ stats' = [stats EXCEPT ![reading.of] = SetSecond(@, mem')]
  /\ reading' = [reading EXCEPT !.step = @ + 1]
  /\ UNCHANGED <<local, checkLeaks, test, failTests, culprits, excused>>

\* The check is over, with or without a verdict.
CheckEnds(raised) ==
  /\ reading' = NoCheck /\ Forget(reading.of)
  /\ test' = IF reading.of = "cleanup" THEN [test EXCEPT !.at = "none"]
             ELSE [test EXCEPT !.context = "over", !.at = IF raised THEN "cleanup" ELSE @]

\* The difference hides a leak: less other memory is held than at the first reading.
Hidden(s) == s.second.cached < s.first.cached

\* _FailTest; grown is what the consumption should be
FailTest(s) == [test |-> test.n, consumption |-> s.consumption,
                grown |-> Held(s.second) - Held(s.first)]

\* check_memory_consumption_of_test, after the last reading
CheckMemoryConsumptionOfTest(collected) ==
  LET of == reading.of
      s == stats[of]
  IN /\ of # "none"
     /\ \/ reading.step = STEPS_TO_CHECK_MEMORY /\ ~collected
        \/ ~IsMemoryLeak(s)
     /\ Collect(collected)
     /\ failTests' = IF IsMemoryLeak(s) THEN failTests \cup {FailTest(s)}
                     ELSE failTests
     /\ excused' = IF Hidden(s) THEN excused \cup {Pair(of)} ELSE excused
     /\ CheckEnds(FALSE)
     /\ UNCHANGED <<local, checkLeaks, culprits>>

\* A reading raises: the command `free` fails on the node.
ReadingRaises ==
  /\ reading.of # "none"
  /\ excused' = excused \cup {Pair(reading.of)}
  /\ CheckEnds(TRUE)
  /\ UNCHANGED <<mem, local, checkLeaks, failTests, culprits>>

MemoryNext ==
  \/ TestBegins
  \/ \E raised \in BOOLEAN : SetUpEnds(raised) \/ TestBodyEnds(raised)
  \/ ContextBegins
  \/ NoCleanupCheck
  \/ \E part \in {"leaked", "cached", "python"} : TestAllocates(part)
  \/ KernelReleases
  \/ \E of \in Checks : FirstReading(of)
  \/ \E collected \in BOOLEAN : NextReading(collected) \/ CheckMemoryConsumptionOfTest(collected)
  \/ ReadingRaises

MemorySpec == MemoryInit /\ [][MemoryNext]_memoryVars

-----------------------------------------------------------------------------
\* A test is listed only if Tempesta itself held more memory at the last reading of a
\* check than at the first, by more than the threshold: the growth of the Python
\* process, which shares the node in a local setup, is no leak, whatever the collector
\* gives back between two readings; and the consumption reported is that difference.
NoFalseLeak == \A f \in failTests : f.grown > Threshold /\ f.consumption = f.grown

\* A test that leaks more than the threshold is listed when its check is over: with
\* --check-memory-leaks however its body ends, in check_memory_consumptions if it does
\* not raise.  It may be missed only if a reading fails, if the set up of the test
\* does, or if at the last reading less of the other memory is held than at the first.
LeakReported ==
  \A n \in 1 .. test.n, of \in Checks :
     LET c == <<n, of>>
     IN c \in culprits \ excused /\ ~(n = test.n /\ Open(of)) => \E f \in failTests : f.test = n

\* So MemoryChecker._fail_tests names the tests that leak.
LeakVerdictRight == NoFalseLeak /\ LeakReported

=============================================================================
