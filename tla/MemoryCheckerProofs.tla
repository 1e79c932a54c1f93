------------------------ MODULE MemoryCheckerProofs ------------------------
(***************************************************************************)
(* The list of tests that leak is right, for every threshold and any       *)
(* number of tests and amount of memory.                                   *)
(*                                                                         *)
(* The argument: what a check computes is the growth of what Tempesta and  *)
(* the kernel hold since the first reading, the Python process apart       *)
(* (ReadingInv).  A test that leaks too much during a check keeps the      *)
(* check's first statistics and what it leaked until the check is over,    *)
(* whatever ends it (CulpritInv), and the last reading then shows the      *)
(* leak, unless other memory was released.                                 *)
(***************************************************************************)
EXTENDS MemoryChecker, TLAPS

Parts == {"leaked", "cached", "python"}
Mem == [leaked : Nat, cached : Nat, python : Nat]
Places == {"none", "setup", "body", "cleanup"}
Test == [n : Nat, at : Places, context : {"unused", "open", "over"}]
HeldPart == [leaked : Nat, cached : Nat]
Stat == [system : Int, python : Int, consumption : Int, first : HeldPart, second : HeldPart]
Reading == [of : Checks \cup {"none"}, step : Nat]
Listed(n) == \E f \in failTests : f.test = n

\* The types of the variables.
ObjType ==
  /\ mem \in Mem /\ local \in BOOLEAN /\ checkLeaks \in BOOLEAN
  /\ test \in Test /\ stats \in [Checks -> Stat] /\ reading \in Reading

\* The first reading counts the kernel and, in a local setup, the Python process.
FirstOf(s) ==
  /\ s.python = None <=> ~local
  /\ s.system = Held(s.first) + (IF local THEN s.python ELSE 0)

\* A reading that was compared with the first one: the consumption is the growth of
\* what is held, and what was leaked is all in it.
Compared(s) ==
  /\ s.consumption = Held(s.second) - Held(s.first)
  /\ s.second.leaked = mem.leaked

\* Which check may be in progress, and what it has computed.
ReadingInv ==
  /\ \A of \in Checks : FirstOf(stats[of])
  /\ reading.of # "none" => (Open(reading.of) /\ Compared(stats[reading.of]))
  /\ reading.of = "cleanup" => test.at = "cleanup"
  /\ test.context = "open" => test.at = "body"

\* The check c is open and the test has leaked too much since it began.
Caught(c) ==
  /\ c[1] = test.n /\ Open(c[2])
  /\ mem.leaked - stats[c[2]].first.leaked > Threshold

\* A test that leaked too much is excused, listed, or its check is still to come.
CulpritInv ==
  /\ culprits \subseteq Nat \X Checks
  /\ \A c \in culprits : c \in excused \/ Listed(c[1]) \/ Caught(c)

IndInv == ObjType /\ ReadingInv /\ CulpritInv /\ NoFalseLeak

-----------------------------------------------------------------------------
(* The operators of the checker. *)

\* A first reading counts what is in use and has compared nothing yet.
LEMMA FirstReadings ==
  ASSUME NEW m \in Mem, local \in BOOLEAN
  PROVE  FirstMemoryStats(m) \in Stat /\ FirstOf(FirstMemoryStats(m))
BY DEF FirstMemoryStats, Stat, Mem, FirstOf, UsedMemory, UsedPythonMemory, Part, Held, HeldPart, None

\* The statistics of a check that is over are statistics.
LEMMA NoStatsType == ASSUME local \in BOOLEAN PROVE NoStats \in Stat /\ FirstOf(NoStats)
<1>1. [leaked |-> 0, cached |-> 0, python |-> 0] \in Mem BY DEF Mem
<1> QED BY <1>1, FirstReadings DEF NoStats

\* set_second_memory_stats computes the growth of what is held: what the Python
\* process gained or gave back in between cancels out.
LEMMA SecondReadings ==
  ASSUME NEW m \in Mem, local \in BOOLEAN, NEW s \in Stat, FirstOf(s)
  PROVE  LET r == SetSecond(s, m)
         IN  /\ r \in Stat /\ FirstOf(r) /\ r.first = s.first
             /\ r.consumption = Held(r.second) - Held(r.first)
             /\ r.second.leaked = m.leaked
<1> DEFINE u == UsedMemory(m) - DeltaPython(s, m) - s.system
           p == Part(m)
<1>1. /\ u = (m.leaked + m.cached) - (s.first.leaked + s.first.cached) /\ u \in Int
  BY DEF UsedMemory, DeltaPython, UsedPythonMemory, FirstOf, Mem, Stat, HeldPart, Held, None
<1>2. p \in HeldPart /\ p.leaked = m.leaked /\ p.cached = m.cached
  BY DEF Part, HeldPart, Mem
<1>3. SetSecond(s, m) = [s EXCEPT !.consumption = u, !.second = p]
  BY DEF SetSecond
<1> HIDE DEF u, p
<1>4. /\ SetSecond(s, m) \in Stat
      /\ SetSecond(s, m).consumption = u /\ SetSecond(s, m).second = p
      /\ SetSecond(s, m).first = s.first
      /\ SetSecond(s, m).python = s.python /\ SetSecond(s, m).system = s.system
  BY <1>1, <1>2, <1>3 DEF Stat
<1> QED BY <1>1, <1>2, <1>4 DEF FirstOf, Held

-----------------------------------------------------------------------------
(* Every step keeps the invariant. *)

\* A step that takes no reading: the statistics of the checks that stay open are
\* unchanged, the others are statistics of some kind; whoever was caught stays so,
\* is excused or is listed.
LEMMA QuietPreserves ==
  ASSUME IndInv, mem' \in Mem, test' \in Test, reading' \in Reading, reading'.of = "none",
         stats' \in [Checks -> Stat], \A of \in Checks : FirstOf(stats'[of]),
         test'.context = "open" => test'.at = "body",
         excused \subseteq excused', failTests \subseteq failTests', NoFalseLeak',
         culprits' \subseteq Nat \X Checks,
         \A c \in culprits : Caught(c) => c \in excused' \/ Listed(c[1])' \/ Caught(c)',
         \A c \in culprits' \ culprits : Caught(c)',
         UNCHANGED <<local, checkLeaks>>
  PROVE  IndInv'
<1> USE DEF IndInv
<1>1. ObjType' BY DEF ObjType
<1>2. \A of \in Checks : FirstOf(stats[of])' BY DEF FirstOf
<1>3. ReadingInv' BY <1>2 DEF ReadingInv
<1>4. ASSUME NEW c \in culprits' PROVE c \in excused' \/ Listed(c[1])' \/ Caught(c)'
  <2>1. Listed(c[1]) => Listed(c[1])' BY DEF Listed
  <2> QED BY <2>1 DEF CulpritInv
<1>5. CulpritInv' BY <1>4 DEF CulpritInv
<1> QED BY <1>1, <1>3, <1>5

\* Before the first test the invariant holds.
LEMMA InitIndInv == MemoryInit => IndInv
<1> SUFFICES ASSUME MemoryInit PROVE IndInv OBVIOUS
<1>1. mem \in Mem /\ local \in BOOLEAN /\ checkLeaks \in BOOLEAN
  BY DEF MemoryInit, Mem
<1>2. NoStats \in Stat /\ FirstOf(NoStats) BY <1>1, NoStatsType
<1>3. stats \in [Checks -> Stat] /\ \A of \in Checks : FirstOf(stats[of])
  BY <1>2 DEF MemoryInit
<1>4. test \in Test /\ test.context = "unused" /\ reading \in Reading /\ reading.of = "none"
  BY DEF MemoryInit, Test, Places, Reading, NoCheck
<1>5. ObjType BY <1>1, <1>3, <1>4 DEF ObjType
<1>6. ReadingInv BY <1>3, <1>4 DEF ReadingInv
<1>7. CulpritInv /\ NoFalseLeak BY DEF MemoryInit, CulpritInv, NoFalseLeak
<1> QED BY <1>5, <1>6, <1>7 DEF IndInv

\* __save_memory_consumption takes the first statistics of the test.
LEMMA BeginPreserves == ASSUME IndInv, TestBegins PROVE IndInv'
<1> USE DEF IndInv
<1>1. mem \in Mem /\ local \in BOOLEAN BY DEF ObjType
<1>2. FirstMemoryStats(mem) \in Stat /\ FirstOf(FirstMemoryStats(mem)) BY <1>1, FirstReadings
<1>3. /\ stats' \in [Checks -> Stat]
      /\ \A of \in Checks : stats'[of] = stats[of] \/ stats'[of] = FirstMemoryStats(mem)
  BY <1>2 DEF TestBegins, ObjType, Checks
<1>4. \A of \in Checks : FirstOf(stats'[of]) BY <1>2, <1>3 DEF ReadingInv
<1>5. /\ test' \in Test /\ test'.context = "unused" /\ test.at = "none"
      /\ UNCHANGED <<mem, local, checkLeaks, reading, failTests, culprits, excused>>
  BY DEF TestBegins, ObjType, Test, Places
<1>6. reading' \in Reading /\ reading'.of = "none"
  BY <1>5 DEF ObjType, Reading, ReadingInv, Open, Checks
<1>7. \A c \in culprits : ~Caught(c)
  BY <1>5 DEF Caught, Open, ReadingInv
<1> QED BY <1>1, <1>3, <1>4, <1>5, <1>6, <1>7, QuietPreserves DEF CulpritInv, NoFalseLeak

\* The statistics of a check that ends are forgotten.
LEMMA Forgotten ==
  ASSUME IndInv, NEW of \in Checks, Forget(of)
  PROVE  /\ stats' \in [Checks -> Stat] /\ \A c \in Checks : FirstOf(stats'[c])
         /\ \A c \in Checks : c # of => stats'[c] = stats[c]
<1>1. NoStats \in Stat /\ FirstOf(NoStats) BY NoStatsType DEF IndInv, ObjType
<1>2. stats' = [stats EXCEPT ![of] = NoStats] BY DEF Forget
<1>3. \A c \in Checks : stats'[c] = IF c = of THEN NoStats ELSE stats[c]
  BY <1>2 DEF IndInv, ObjType
<1>4. stats' \in [Checks -> Stat] BY <1>1, <1>2 DEF IndInv, ObjType
<1> QED BY <1>1, <1>3, <1>4 DEF IndInv, ReadingInv

\* The set up ends, or fails with its check excused.
LEMMA SetUpPreserves ==
  ASSUME IndInv, NEW raised \in BOOLEAN, SetUpEnds(raised) PROVE IndInv'
<1> USE DEF IndInv
<1>1. /\ test.at = "setup" /\ test' \in Test /\ test'.n = test.n
      /\ test'.context = test.context /\ test.context # "open"
      /\ test'.at = IF raised THEN "none" ELSE "body"
      /\ UNCHANGED <<mem, local, checkLeaks, reading, failTests, culprits>>
  BY DEF SetUpEnds, ObjType, Test, Places, ReadingInv
<1>2. mem' \in Mem /\ reading' \in Reading /\ reading'.of = "none"
  BY <1>1 DEF ObjType, Reading, ReadingInv, Open, Checks
<1>3. \A c \in culprits : c[2] \in Checks /\ c = <<c[1], c[2]>> BY DEF CulpritInv
<1>4. CASE raised
  <2>1. Forget("cleanup") /\ excused' = excused \cup {<<test.n, "cleanup">>}
    BY <1>4 DEF SetUpEnds, Pair
  <2>2. stats' \in [Checks -> Stat] /\ \A c \in Checks : FirstOf(stats'[c])
    BY <2>1, Forgotten DEF Checks
  <2>3. \A c \in culprits : Caught(c) => c \in excused'
    BY <1>1, <1>3, <2>1 DEF Caught, Open, Checks
  <2> QED BY <1>1, <1>2, <2>1, <2>2, <2>3, QuietPreserves DEF CulpritInv, NoFalseLeak
<1>5. CASE ~raised
  <2>1. UNCHANGED <<stats, excused>> BY <1>5 DEF SetUpEnds
  <2>2. stats' \in [Checks -> Stat] /\ \A c \in Checks : FirstOf(stats'[c])
    BY <2>1 DEF ObjType, ReadingInv
  <2>3. \A c \in culprits : Caught(c) => Caught(c)'
    BY <1>1, <1>5, <2>1 DEF Caught, Open
  <2> QED BY <1>1, <1>2, <2>1, <2>2, <2>3, QuietPreserves DEF CulpritInv, NoFalseLeak
<1> QED BY <1>4, <1>5

\* check_memory_consumptions takes its first statistics.
LEMMA ContextPreserves == ASSUME IndInv, ContextBegins PROVE IndInv'
<1> USE DEF IndInv
<1>1. mem \in Mem /\ local \in BOOLEAN BY DEF ObjType
<1>2. FirstMemoryStats(mem) \in Stat /\ FirstOf(FirstMemoryStats(mem)) BY <1>1, FirstReadings
<1>3. /\ stats' \in [Checks -> Stat]
      /\ stats'["cleanup"] = stats["cleanup"] /\ stats'["context"] = FirstMemoryStats(mem)
  BY <1>2 DEF ContextBegins, ObjType, Checks
<1>4. \A of \in Checks : FirstOf(stats'[of]) BY <1>2, <1>3 DEF ReadingInv, Checks
<1>5. /\ test' \in Test /\ test'.at = "body" /\ test'.n = test.n /\ test.at = "body"
      /\ test.context = "unused"
      /\ UNCHANGED <<mem, local, checkLeaks, reading, failTests, culprits, excused>>
  BY DEF ContextBegins, ObjType, Test, Places
<1>6. reading' \in Reading /\ reading'.of = "none"
  BY <1>5 DEF ObjType, Reading, ReadingInv, Open, Checks
<1>7. \A c \in culprits : c[2] \in Checks BY DEF CulpritInv
<1>8. \A c \in culprits : Caught(c) => Caught(c)'
  BY <1>3, <1>5, <1>7 DEF Caught, Open, Checks
<1> QED BY <1>1, <1>3, <1>4, <1>5, <1>6, <1>8, QuietPreserves DEF CulpritInv, NoFalseLeak

\* The body ends; an exception in the context manager skips its check.
LEMMA BodyPreserves ==
  ASSUME IndInv, NEW raised \in BOOLEAN, TestBodyEnds(raised) PROVE IndInv'
<1> USE DEF IndInv
<1>1. /\ test.at = "body" /\ test' \in Test /\ test'.n = test.n
      /\ test'.context = "over" /\ test'.at = "cleanup" /\ reading = NoCheck
      /\ UNCHANGED <<mem, local, checkLeaks, reading, failTests, culprits>>
  BY DEF TestBodyEnds, ObjType, Test, Places
<1>2. mem' \in Mem /\ reading' \in Reading /\ reading'.of = "none"
  BY <1>1 DEF ObjType, NoCheck
<1>3. \A c \in culprits : c[2] \in Checks /\ c = <<c[1], c[2]>> BY DEF CulpritInv
<1>4. CASE Open("context")
  <2>1. Forget("context") /\ excused' = excused \cup {<<test.n, "context">>}
    BY <1>4 DEF TestBodyEnds, Pair
  <2>2. /\ stats' \in [Checks -> Stat] /\ \A c \in Checks : FirstOf(stats'[c])
        /\ stats'["cleanup"] = stats["cleanup"]
    BY <2>1, Forgotten DEF Checks
  <2>3. \A c \in culprits : Caught(c) => c \in excused' \/ Caught(c)'
    BY <1>1, <1>3, <2>1, <2>2 DEF Caught, Open, Checks
  <2> QED BY <1>1, <1>2, <2>1, <2>2, <2>3, QuietPreserves DEF CulpritInv, NoFalseLeak
<1>5. CASE ~Open("context")
  <2>1. UNCHANGED <<stats, excused>> BY <1>5 DEF TestBodyEnds
  <2>2. stats' \in [Checks -> Stat] /\ \A c \in Checks : FirstOf(stats'[c])
    BY <2>1 DEF ObjType, ReadingInv
  <2>3. \A c \in culprits : Caught(c) => Caught(c)'
    BY <1>1, <1>3, <1>5, <2>1 DEF Caught, Open, Checks
  <2> QED BY <1>1, <1>2, <2>1, <2>2, <2>3, QuietPreserves DEF CulpritInv, NoFalseLeak
<1> QED BY <1>4, <1>5

\* The test is over without a check of its memory.
LEMMA NoCheckPreserves == ASSUME IndInv, NoCleanupCheck PROVE IndInv'
<1> USE DEF IndInv
<1>1. /\ test.at = "cleanup" /\ ~checkLeaks /\ test' \in Test /\ test'.n = test.n
      /\ test'.context = test.context /\ test.context # "open"
      /\ UNCHANGED <<mem, local, checkLeaks, stats, reading, failTests, culprits, excused>>
  BY DEF NoCleanupCheck, ObjType, Test, Places, ReadingInv
<1>2. /\ mem' \in Mem /\ reading' \in Reading /\ reading'.of = "none"
      /\ stats' \in [Checks -> Stat] /\ \A c \in Checks : FirstOf(stats'[c])
  BY <1>1 DEF ObjType, Reading, ReadingInv, Open, Checks
<1>3. \A c \in culprits : ~Caught(c)
  BY <1>1 DEF Caught, Open
<1> QED BY <1>1, <1>2, <1>3, QuietPreserves DEF CulpritInv, NoFalseLeak

\* Memory is taken for what the test does.
LEMMA AllocatePreserves ==
  ASSUME Threshold \in Nat, IndInv, NEW part \in Parts, TestAllocates(part) PROVE IndInv'
<1> USE DEF IndInv
<1>1. /\ reading = NoCheck
      /\ UNCHANGED <<local, checkLeaks, test, stats, reading, failTests, excused>>
  BY DEF TestAllocates
<1>2. mem' \in Mem /\ mem'.leaked >= mem.leaked /\ mem.leaked \in Nat /\ mem'.leaked \in Nat
  BY DEF TestAllocates, ObjType, Mem, Parts
<1>3. /\ reading' \in Reading /\ reading'.of = "none" /\ test' \in Test
      /\ stats' \in [Checks -> Stat] /\ \A c \in Checks : FirstOf(stats'[c])
      /\ test'.context = "open" => test'.at = "body"
  BY <1>1 DEF ObjType, NoCheck, ReadingInv
<1>4. \A of \in Checks : stats[of].first.leaked \in Nat
  BY DEF ObjType, Stat, HeldPart
<1>5. \A of \in Checks : Open(of)' = Open(of)
  BY <1>1 DEF Open
<1>6. \A c \in culprits : c[2] \in Checks BY DEF CulpritInv
<1>7. \A c \in culprits : Caught(c) => Caught(c)'
  BY <1>1, <1>2, <1>4, <1>5, <1>6 DEF Caught
<1>8. culprits' = culprits \cup
        {<<test.n, of>> : of \in {c \in Checks : /\ Open(c)
                                                 /\ mem'.leaked - stats[c].first.leaked > Threshold}}
  BY DEF TestAllocates, Pair
<1>9. \A c \in culprits' \ culprits : c \in Nat \X Checks /\ Caught(c)'
  <2> SUFFICES ASSUME NEW c \in culprits' \ culprits PROVE c \in Nat \X Checks /\ Caught(c)'
    OBVIOUS
  <2>1. PICK of \in Checks : /\ c = <<test.n, of>> /\ Open(of)
                             /\ mem'.leaked - stats[of].first.leaked > Threshold
    BY <1>8
  <2>2. test.n \in Nat BY DEF ObjType, Test
  <2> QED BY <1>1, <1>5, <2>1, <2>2 DEF Caught
<1>10. culprits' \subseteq Nat \X Checks /\ NoFalseLeak'
  BY <1>1, <1>9 DEF CulpritInv, NoFalseLeak
<1> QED BY <1>1, <1>2, <1>3, <1>7, <1>9, <1>10, QuietPreserves

\* The kernel gives memory back, during a check or not.
LEMMA ReleasePreserves == ASSUME IndInv, KernelReleases PROVE IndInv'
<1> USE DEF IndInv
<1>1. UNCHANGED <<local, checkLeaks, test, stats, reading, failTests, culprits, excused>>
  BY DEF KernelReleases
<1>2. mem' \in Mem /\ mem'.leaked = mem.leaked
  BY DEF KernelReleases, ObjType, Mem
<1>3. ObjType' BY <1>1, <1>2 DEF ObjType
<1>4. ReadingInv' BY <1>1, <1>2 DEF ReadingInv, FirstOf, Compared, Open
<1>5. CulpritInv' BY <1>1, <1>2 DEF CulpritInv, Caught, Open, Listed
<1>6. NoFalseLeak' BY <1>1 DEF NoFalseLeak
<1> QED BY <1>3, <1>4, <1>5, <1>6

\* A comparison of the check in progress with memory in which nothing but the Python
\* process has changed.
LEMMA ComparePreserves ==
  ASSUME IndInv, NEW of \in Checks, Open(of), of = "cleanup" => test.at = "cleanup",
         mem' \in Mem, mem'.leaked = mem.leaked,
         stats' = [stats EXCEPT ![of] = SetSecond(@, mem')],
         reading' \in Reading, reading'.of = of,
         UNCHANGED <<local, checkLeaks, test, failTests, culprits, excused>>
  PROVE  IndInv'
<1> USE DEF IndInv
<1> DEFINE s == stats[of]
           r == SetSecond(s, mem')
<1>1. s \in Stat /\ FirstOf(s) /\ local \in BOOLEAN
  BY DEF ObjType, ReadingInv
<1>2. /\ r \in Stat /\ FirstOf(r) /\ r.first = s.first
      /\ r.consumption = Held(r.second) - Held(r.first)
      /\ r.second.leaked = mem'.leaked
  <2> HIDE DEF s
  <2> QED BY <1>1, SecondReadings
<1>3. stats' = [stats EXCEPT ![of] = r] OBVIOUS
<1> HIDE DEF r
<1>4. /\ stats' \in [Checks -> Stat] /\ stats'[of] = r
      /\ \A c \in Checks : c # of => stats'[c] = stats[c]
  BY <1>2, <1>3 DEF ObjType
<1>5. \A c \in Checks : FirstOf(stats[c])' /\ stats'[c].first = stats[c].first
  BY <1>2, <1>4 DEF ReadingInv, FirstOf
<1>6. \A c \in Checks : Open(c)' = Open(c) BY DEF Open
<1>7. Compared(stats[reading.of])'
  BY <1>2, <1>4 DEF Compared
<1>8. ObjType' BY <1>4 DEF ObjType
<1>9. ReadingInv' BY <1>5, <1>6, <1>7 DEF ReadingInv
<1>10. CulpritInv'
  <2>1. ASSUME NEW c \in culprits PROVE /\ Caught(c) => Caught(c)'
                                        /\ Listed(c[1]) => Listed(c[1])'
    <3>1. c[2] \in Checks BY DEF CulpritInv
    <3> QED BY <1>5, <1>6, <3>1 DEF Caught, Listed
  <2> QED BY <2>1 DEF CulpritInv
<1>11. NoFalseLeak' BY DEF NoFalseLeak
<1> QED BY <1>8, <1>9, <1>10, <1>11

\* The first reading of a check.
LEMMA FirstPreserves == ASSUME IndInv, NEW of \in Checks, FirstReading(of) PROVE IndInv'
<1>1. /\ reading' \in Reading /\ reading'.of = of /\ Open(of)
      /\ of = "cleanup" => test.at = "cleanup"
      /\ UNCHANGED <<mem, local, checkLeaks, test, failTests, culprits, excused>>
  BY DEF FirstReading, Reading
<1>2. stats' = [stats EXCEPT ![of] = SetSecond(@, mem')]
  BY <1>1 DEF FirstReading
<1>3. mem' \in Mem /\ mem'.leaked = mem.leaked
  BY <1>1 DEF IndInv, ObjType
<1> QED BY <1>1, <1>2, <1>3, ComparePreserves

\* The collector touches only the Python process.
LEMMA Collected ==
  ASSUME IndInv, NEW collected \in BOOLEAN, Collect(collected)
  PROVE  mem' \in Mem /\ mem'.leaked = mem.leaked
BY DEF Collect, IndInv, ObjType, Mem

\* Another reading after a pause, since the one before looked like a leak.
LEMMA NextPreserves ==
  ASSUME IndInv, NEW collected \in BOOLEAN, NextReading(collected) PROVE IndInv'
<1> DEFINE of == reading.of
<1>1. /\ of \in Checks /\ Open(of)
      /\ of = "cleanup" => test.at = "cleanup"
  BY DEF NextReading, IndInv, ObjType, Reading, ReadingInv
<1>2. /\ reading' \in Reading /\ reading'.of = of
      /\ UNCHANGED <<local, checkLeaks, test, failTests, culprits, excused>>
  BY DEF NextReading, IndInv, ObjType, Reading
<1>3. stats' = [stats EXCEPT ![of] = SetSecond(@, mem')]
  BY DEF NextReading
<1>4. mem' \in Mem /\ mem'.leaked = mem.leaked
  BY Collected DEF NextReading
<1> HIDE DEF of
<1> QED BY <1>1, <1>2, <1>3, <1>4, ComparePreserves

\* A check is over: the test is listed or excused if it leaked too much.
LEMMA EndPreserves ==
  ASSUME IndInv, NEW raised \in BOOLEAN, NEW of \in Checks, of = reading.of, CheckEnds(raised),
         mem' \in Mem, mem'.leaked = mem.leaked,
         Caught(Pair(of)) => Pair(of) \in excused' \/ \E f \in failTests' : f.test = test.n,
         excused \subseteq excused', failTests \subseteq failTests', NoFalseLeak',
         UNCHANGED <<local, checkLeaks, culprits>>
  PROVE  IndInv'
<1> USE DEF IndInv
<1>1. reading' \in Reading /\ reading'.of = "none"
  BY DEF CheckEnds, NoCheck, Reading
<1>2. /\ Open(of)
      /\ of = "cleanup" => test.at = "cleanup"
      /\ test.context = "open" => test.at = "body"
      /\ of = "context" => test.context = "open"
  BY DEF ReadingInv, Open, Checks
<1>3. /\ test' \in Test /\ test'.n = test.n
      /\ of = "cleanup" => test'.context = test.context /\ test.context # "open"
      /\ of = "context" => test'.context = "over" /\ test'.at # "none" /\ test.at # "none"
  <2>1. test \in Test BY DEF ObjType
  <2>2. CASE of = "cleanup"
    <3>1. test' = [test EXCEPT !.at = "none"] BY <2>2 DEF CheckEnds
    <3> QED BY <1>2, <2>1, <2>2, <3>1 DEF Test, Places
  <2>3. CASE of = "context" /\ raised
    <3>1. test' = [test EXCEPT !.context = "over", !.at = "cleanup"] BY <2>3 DEF CheckEnds
    <3> QED BY <1>2, <2>1, <2>3, <3>1 DEF Test, Places
  <2>4. CASE of = "context" /\ ~raised
    <3>1. test' = [test EXCEPT !.context = "over"] BY <2>4 DEF CheckEnds
    <3> QED BY <1>2, <2>1, <2>4, <3>1 DEF Test, Places
  <2> QED BY <2>2, <2>3, <2>4 DEF Checks
<1>4. /\ stats' \in [Checks -> Stat] /\ \A c \in Checks : FirstOf(stats'[c])
      /\ \A c \in Checks : c # of => stats'[c] = stats[c]
  BY Forgotten DEF CheckEnds
<1>5. ASSUME NEW c \in culprits, Caught(c) PROVE c \in excused' \/ Listed(c[1])' \/ Caught(c)'
  <2>1. c[2] \in Checks /\ c[1] = test.n /\ c = <<c[1], c[2]>> BY <1>5 DEF Caught, CulpritInv
  <2>2. CASE c[2] = of
    <3>1. c = Pair(of) BY <2>1, <2>2 DEF Pair
    <3> QED BY <1>5, <2>1, <3>1 DEF Listed
  <2>3. CASE c[2] # of
    <3>1. of = "context" /\ c[2] = "cleanup"
      BY <1>3, <1>5, <2>1, <2>3 DEF Checks, Caught, Open
    <3> QED BY <1>3, <1>4, <1>5, <2>1, <3>1 DEF Caught, Open, Checks
  <2> QED BY <2>2, <2>3
<1>6. test'.context = "open" => test'.at = "body"
  BY <1>3 DEF Checks
<1>7. culprits' \subseteq Nat \X Checks /\ culprits' \ culprits = {} BY DEF CulpritInv
<1> QED BY <1>1, <1>3, <1>4, <1>5, <1>6, <1>7, QuietPreserves

\* check_memory_consumption_of_test lists the test if its last reading shows a leak,
\* and then it is one; a leak that is not shown is hidden.
LEMMA CheckPreserves ==
  ASSUME Threshold \in Nat, IndInv, NEW collected \in BOOLEAN, CheckMemoryConsumptionOfTest(collected)
  PROVE  IndInv'
<1> DEFINE of == reading.of
           s == stats[of]
<1>1. of \in Checks /\ s \in Stat /\ Compared(s)
  BY DEF CheckMemoryConsumptionOfTest, IndInv, ObjType, Reading, ReadingInv
<1>2. /\ CheckEnds(FALSE) /\ UNCHANGED <<local, checkLeaks, culprits>>
      /\ failTests' = IF IsMemoryLeak(s) THEN failTests \cup {FailTest(s)} ELSE failTests
      /\ excused' = IF Hidden(s) THEN excused \cup {Pair(of)} ELSE excused
  BY DEF CheckMemoryConsumptionOfTest
<1>3. mem' \in Mem /\ mem'.leaked = mem.leaked
  BY Collected DEF CheckMemoryConsumptionOfTest
<1>4. FailTest(s).test = test.n /\ FailTest(s).consumption = s.consumption
      /\ FailTest(s).grown = Held(s.second) - Held(s.first)
  BY DEF FailTest
<1>5. /\ s.consumption \in Int /\ s.first.leaked \in Nat /\ s.first.cached \in Nat
      /\ s.second.leaked \in Nat /\ s.second.cached \in Nat
  BY <1>1 DEF Stat, HeldPart
<1>6. NoFalseLeak'
  BY <1>1, <1>2, <1>4 DEF IndInv, NoFalseLeak, IsMemoryLeak, Compared
<1>7. Caught(Pair(of)) => Pair(of) \in excused' \/ \E f \in failTests' : f.test = test.n
  <2> SUFFICES ASSUME Caught(Pair(of)), ~Hidden(s) PROVE \E f \in failTests' : f.test = test.n
    BY <1>2
  <2>1. mem.leaked - s.first.leaked > Threshold BY DEF Caught, Pair
  <2>2. s.consumption > Threshold
    BY <1>1, <1>5, <2>1 DEF Compared, Held, Hidden
  <2>3. FailTest(s) \in failTests' BY <1>2, <2>2 DEF IsMemoryLeak
  <2> QED BY <1>4, <2>3
<1>8. excused \subseteq excused' /\ failTests \subseteq failTests' BY <1>2
<1> HIDE DEF of, s
<1>9. of = reading.of BY DEF of
<1> QED BY <1>1, <1>2, <1>3, <1>6, <1>7, <1>8, <1>9, EndPreserves

\* A check without a verdict is excused.
LEMMA RaisePreserves == ASSUME IndInv, ReadingRaises PROVE IndInv'
<1> DEFINE of == reading.of
<1>1. of \in Checks BY DEF ReadingRaises, IndInv, ObjType, Reading
<1>2. /\ CheckEnds(TRUE) /\ UNCHANGED <<mem, local, checkLeaks, failTests, culprits>>
      /\ excused' = excused \cup {Pair(of)}
  BY DEF ReadingRaises
<1>3. mem' \in Mem /\ mem'.leaked = mem.leaked /\ NoFalseLeak'
  BY <1>2 DEF IndInv, ObjType, NoFalseLeak
<1>4. excused \subseteq excused' /\ failTests \subseteq failTests' /\ Pair(of) \in excused' BY <1>2
<1> HIDE DEF of
<1>5. of = reading.of BY DEF of
<1> QED BY <1>1, <1>2, <1>3, <1>4, <1>5, EndPreserves

\* Every step of the checks, of the tests and of the kernel keeps the invariant.
THEOREM Inductive == IndInv /\ [MemoryNext]_memoryVars => IndInv'
<1> SUFFICES ASSUME IndInv, [MemoryNext]_memoryVars PROVE IndInv' OBVIOUS
<1> USE ThresholdAssumption
<1>1. CASE TestBegins BY <1>1, BeginPreserves
<1>2. ASSUME NEW raised \in BOOLEAN, SetUpEnds(raised) PROVE IndInv' BY <1>2, SetUpPreserves
<1>3. ASSUME NEW raised \in BOOLEAN, TestBodyEnds(raised) PROVE IndInv' BY <1>3, BodyPreserves
<1>4. CASE ContextBegins BY <1>4, ContextPreserves
<1>5. CASE NoCleanupCheck BY <1>5, NoCheckPreserves
<1>6. ASSUME NEW part \in Parts, TestAllocates(part) PROVE IndInv' BY <1>6, AllocatePreserves
<1>7. CASE KernelReleases BY <1>7, ReleasePreserves
<1>8. ASSUME NEW of \in Checks, FirstReading(of) PROVE IndInv' BY <1>8, FirstPreserves
<1>9. ASSUME NEW collected \in BOOLEAN, NextReading(collected) PROVE IndInv'
  BY <1>9, NextPreserves
<1>10. ASSUME NEW collected \in BOOLEAN, CheckMemoryConsumptionOfTest(collected) PROVE IndInv'
  BY <1>10, CheckPreserves
<1>11. CASE ReadingRaises BY <1>11, RaisePreserves
<1>12. CASE UNCHANGED memoryVars
  BY <1>12 DEF memoryVars, IndInv, ObjType, ReadingInv, FirstOf, Compared, Open, CulpritInv, Caught,
               Listed, NoFalseLeak
<1> QED BY <1>1, <1>2, <1>3, <1>4, <1>5, <1>6, <1>7, <1>8, <1>9, <1>10, <1>11, <1>12
        DEF MemoryNext, Parts

\* _fail_tests names a test only for memory that Tempesta holds, and it names every
\* test that leaks more than memory_leak_threshold during one of its checks, however
\* the test ends, unless the check is given up or other memory was released:
\* check_memory_consumption_of_test, for every threshold.
THEOREM VerdictOnLeaks == MemorySpec => []LeakVerdictRight
<1>1. IndInv => LeakVerdictRight
  <2> SUFFICES ASSUME IndInv PROVE LeakReported BY DEF IndInv, LeakVerdictRight
  <2> SUFFICES ASSUME NEW n \in 1 .. test.n, NEW of \in Checks,
                      <<n, of>> \in culprits \ excused, ~(n = test.n /\ Open(of))
               PROVE  Listed(n)
    BY DEF LeakReported, Listed
  <2> QED BY DEF IndInv, CulpritInv, Caught
<1>2. MemoryInit => IndInv BY InitIndInv
<1> QED BY <1>1, <1>2, Inductive, PTL DEF MemorySpec

=============================================================================
