-------------------------- MODULE LinuxTableProofs --------------------------
(***************************************************************************)
(* What a scan of /proc promises for any set of processes that come and go *)
(* while it runs, and for any access that fails.                           *)
(***************************************************************************)
EXTENDS LinuxTable, TLAPS

\* Before GetProcStat or PidExists have seen the process.
Unseen == {"user", "stat", "exists"}

\* Of what is scraped, the lower-case letters are the fields *prs has.
Agree == lower \cap Scraped = filled \cap Scraped

-----------------------------------------------------------------------------
(* The steps of the scrape come in two kinds: those that only fill fields, *)
(* and those that also leave a text on the obstack.                        *)

Quiet ==
  /\ pc \in InScrape
  /\ pc' \in InScrape \cup {"died"}
  /\ pc' \notin Unseen => (pc \notin Unseen \/ entry \in alive)
  /\ pc \notin Unseen => pc' \notin Unseen
  /\ filled' \subseteq Groups
  /\ lower' \subseteq Groups
  /\ Agree => Agree'
  /\ UNCHANGED <<kernel, returned, dir, entry, wasAlive, table, skipped, pool,
                 prs, fmt, ptr>>

Text(g) ==
  /\ g \in Pointers
  /\ pc \in InScrape
  /\ pc \notin Unseen
  /\ pc' \in InScrape \ Unseen
  /\ \/ pool' = pool + 1 /\ ptr' = [ptr EXCEPT ![g] = pool + 1]
     \/ UNCHANGED <<pool, ptr>>
  /\ filled' \subseteq Groups
  /\ lower' \subseteq Groups
  /\ Agree => Agree'
  /\ UNCHANGED <<kernel, returned, dir, entry, wasAlive, table, skipped, prs, fmt>>

Skip ==
  /\ pc \in InScrape
  /\ pc \in Unseen
  /\ entry \notin alive
  /\ pc' = "readdir"
  /\ skipped' = skipped + 1
  /\ UNCHANGED <<kernel, returned, dir, entry, wasAlive, table, pool, record>>

Fills ==
  /\ filled' \subseteq Groups
  /\ lower' \subseteq Groups
  /\ Agree => Agree'

LEMMA ScrapeFills ==
  ASSUME TypeOK, NEW groups, groups \subseteq Scraped, Scrape(groups)
  PROVE  Fills
BY DEF TypeOK, Scrape, Groups, Fills, Agree

LEMMA MissFills ==
  ASSUME TypeOK, Miss
  PROVE  Fills
BY DEF TypeOK, Miss, Fills, Agree

LEMMA PartFills ==
  ASSUME TypeOK, filled' = filled \cup {"part"}, UNCHANGED lower
  PROVE  Fills
<1>1. "part" \notin Scraped
  BY DEF Scraped, Pointers
<1> QED
  BY <1>1 DEF TypeOK, Groups, Fills, Agree

LEMMA DeriveFills ==
  ASSUME TypeOK, NEW groups, groups \subseteq Derived, Derive(groups)
  PROVE  Fills
<1>1. Derived \cap Scraped = {}
  BY DEF Derived, Scraped, Pointers
<1>2. filled' \subseteq Groups /\ lower' \subseteq Groups
  BY DEF TypeOK, Derive, Groups
<1>3. Agree => Agree'
  BY <1>1 DEF Derive, Agree
<1> QED
  BY <1>2, <1>3 DEF Fills

LEMMA QuietSteps ==
  ASSUME TypeOK,
         GetUserInfo \/ GetProcStat \/ FixupStatValues \/ GetProcStatus \/ CalcPrec
  PROVE  Quiet
<1>1. CASE GetUserInfo
  <2>1. {"user"} \subseteq Scraped
    BY DEF Scraped
  <2>2. Fills
    BY <1>1, <2>1, ScrapeFills, MissFills DEF GetUserInfo
  <2> QED
    BY <1>1, <2>2 DEF GetUserInfo, Quiet, Fills, InScrape, Unseen, Idle
<1>2. CASE GetProcStat
  <2>1. {"stat"} \subseteq Scraped
    BY DEF Scraped
  <2>2. Fills
    BY <1>2, <2>1, ScrapeFills, MissFills, PartFills DEF GetProcStat
  <2>3. pc' = "exists" \/ (pc' = "fixup" /\ entry \in alive)
    BY <1>2 DEF GetProcStat, Scrape
  <2> QED
    BY <1>2, <2>2, <2>3 DEF GetProcStat, Quiet, Fills, InScrape, Unseen, Idle
<1>3. CASE FixupStatValues
  <2>1. {"state", "times"} \subseteq Derived /\ {"times"} \subseteq Derived
    BY DEF Derived
  <2>2. Fills
    BY <1>3, <2>1, DeriveFills, MissFills DEF FixupStatValues
  <2>3. pc = "fixup" /\ pc' \in {"cmndline", "died"}
    BY <1>3 DEF FixupStatValues
  <2> QED
    BY <1>3, <2>2, <2>3
    DEF FixupStatValues, Quiet, Fills, InScrape, Unseen, Idle, Pointers
<1>4. CASE GetProcStatus
  <2>1. {"tracer", "euid", "egid"} \subseteq Scraped
    BY DEF Scraped
  <2>2. ASSUME NEW found \in {{}, {"tracer"}, {"tracer", "euid"},
                               {"tracer", "euid", "egid"}},
               Scrape(found)
        PROVE  Fills
    <3>1. found \subseteq Scraped
      BY <2>1
    <3> QED
      BY <2>2, <3>1, ScrapeFills
  <2>3. Fills
    BY <1>4, <2>2, MissFills DEF GetProcStatus
  <2> QED
    BY <1>4, <2>3 DEF GetProcStatus, Quiet, Fills, InScrape, Unseen, Idle
<1>5. CASE CalcPrec
  <2>1. {"pctcpu", "pctmem"} \subseteq Derived
    BY DEF Derived
  <2>2. Fills
    BY <1>5, <2>1, DeriveFills, MissFills DEF CalcPrec
  <2> QED
    BY <1>5, <2>2 DEF CalcPrec, Quiet, Fills, InScrape, Unseen, Idle
<1> QED
  BY <1>1, <1>2, <1>3, <1>4, <1>5

LEMMA ExistsSteps ==
  ASSUME TypeOK, PidExists
  PROVE  Quiet \/ Skip
BY DEF PidExists, Quiet, Agree, Skip, InScrape, Unseen, Idle, TypeOK, record

LEMMA TextStep ==
  ASSUME TypeOK,
         NEW g \in Pointers, NEW next \in InScrape \ Unseen, GetText(g, next)
  PROVE  Text(g)
<1>1. g \in InScrape /\ g \notin Unseen
  BY DEF Pointers, InScrape, Unseen
<1>2. {g} \subseteq Scraped
  BY DEF Scraped
<1>3. Fills
  BY <1>2, ScrapeFills, MissFills DEF GetText
<1> QED
  BY <1>1, <1>3 DEF GetText, Text, Fills, Idle

LEMMA TextSteps ==
  ASSUME TypeOK,
         \/ GetProcCmndline \/ GetProcCmdline \/ GetProcEnviron
         \/ EvalLinkCwd \/ EvalLinkExe
  PROVE  \E g \in Pointers : Text(g)
<1>1. Pointers \cup {"status"} \subseteq InScrape \ Unseen
  BY DEF InScrape, Pointers, Unseen
<1>2. {"cmndline", "cmdline", "environ", "cwd", "exec"} \subseteq Pointers
  BY DEF Pointers
<1> QED
  BY <1>1, <1>2, TextStep
  DEF GetProcCmndline, GetProcCmdline, GetProcEnviron, EvalLinkCwd, EvalLinkExe

\* Every step of Next is one of these.
Cases ==
  \/ \E p \in Pids : Exit(p) \/ Fork(p)
  \/ OpenDir \/ CloseDir
  \/ \E p \in Pids : NextPid(p)
  \/ \E o \in Others : NextOther(o)
  \/ Quiet \/ Skip \/ Bless
  \/ \E g \in Pointers : Text(g)
  \/ UNCHANGED vars

LEMMA AllCases ==
  ASSUME TypeOK, [Next]_vars
  PROVE  Cases
BY QuietSteps, ExistsSteps, TextSteps
DEF Next, Scan, ScrapeNext, WalkNext, Kernel, Returned, Cases

-----------------------------------------------------------------------------
(* Types and the obstack *)

\* prs and format_str sit above the dirent and what skipped entries left;
\* every other pointer is above them.
Layout ==
  /\ pc = "readdir" => pool = 1 + 2 * skipped
  /\ pc \in InScrape => prs = 2 + 2 * skipped /\ fmt = prs + 1 /\ fmt <= pool
  /\ pc \in Unseen => pool = fmt

Texts ==
  pc \in InScrape =>
    /\ \A g \in Pointers : ptr[g] # 0 => fmt < ptr[g] /\ ptr[g] <= pool
    /\ \A g, h \in Pointers : ptr[g] = ptr[h] /\ ptr[g] # 0 => g = h

\* An obstack is emptied at the end of the walk only.
Emptied == pc \in {"done", "cut"} /\ listed # {} => pool = 0

\* What the walk has opened.
Opened == pc = "start" => skipped = 0 /\ listed = {} /\ ~dir

TypeInv == TypeOK /\ Layout /\ Texts /\ Emptied /\ Opened

LEMMA Disjoint ==
  /\ "start" \notin InScrape
  /\ "readdir" \notin InScrape
  /\ "done" \notin InScrape
  /\ "cut" \notin InScrape
  /\ "died" \notin InScrape
  /\ Unseen \subseteq InScrape
BY DEF InScrape, Pointers, Unseen

LEMMA Locations == Location = InScrape \cup {"start", "readdir", "done", "cut", "died"}
BY DEF Location, Ended

LEMMA TypeInit == Init => TypeInv
<1> SUFFICES ASSUME Init
             PROVE  TypeInv
  OBVIOUS
<1>1. pc = "start" /\ pc \in Location
  BY Locations DEF Init
<1>2. ptr \in [Pointers -> Nat] /\ table \in Seq(Pids)
  BY DEF Init
<1>3. forks \in 0..MaxForks
  BY LinuxTableAssumption DEF Init
<1> QED
  BY <1>1, <1>2, <1>3, Disjoint DEF Init, TypeInv, TypeOK, Layout, Texts, Emptied, Opened

LEMMA TypeStep == TypeInv /\ [Next]_vars => TypeInv'
<1> SUFFICES ASSUME TypeInv, Cases
             PROVE  TypeInv'
  BY AllCases DEF TypeInv
<1>1. ASSUME NEW p \in Pids, Exit(p) \/ Fork(p)
      PROVE  TypeInv'
  <2>1. forks' \in 0..MaxForks
    BY <1>1, LinuxTableAssumption DEF Exit, Fork, TypeInv, TypeOK
  <2>2. /\ alive' \subseteq Pids /\ steady' \subseteq Pids
        /\ listed' \subseteq Pids \cup Others /\ wasAlive' \in BOOLEAN
    BY <1>1 DEF Exit, Fork, TypeInv, TypeOK
  <2>3. /\ pc \notin Ended
        /\ UNCHANGED <<returned, dir, pc, entry, skipped, pool, record, table>>
    BY <1>1 DEF Exit, Fork
  <2>4. listed = {} /\ ~dir => listed' = {}
    BY <1>1 DEF Exit, Fork
  <2>5. TypeOK'
    BY <2>1, <2>2, <2>3 DEF record, TypeInv, TypeOK
  <2>6. Layout' /\ Texts'
    BY <2>3 DEF record, TypeInv, Layout, Texts
  <2>7. Emptied' /\ Opened'
    BY <2>3, <2>4 DEF Ended, TypeInv, Emptied, Opened
  <2> QED
    BY <2>5, <2>6, <2>7 DEF TypeInv
<1>2. CASE OpenDir
  <2>1. /\ pc' \in {"readdir", "done"} /\ pc = "start" /\ pool' = 1
        /\ UNCHANGED <<alive, forks, returned, entry, wasAlive, skipped, record, table>>
    BY <1>2 DEF OpenDir
  <2>2. pc' = "done" => listed' = listed
    BY <1>2 DEF OpenDir
  <2>3. pc' \notin InScrape /\ pc' \in Location
    BY <2>1, Disjoint, Locations
  <2>4. /\ steady' \subseteq Pids /\ listed' \subseteq Pids \cup Others
        /\ dir' \in BOOLEAN
    BY <1>2 DEF OpenDir, TypeInv, TypeOK
  <2>5. TypeOK'
    BY <2>1, <2>3, <2>4 DEF record, TypeInv, TypeOK
  <2>6. Layout' /\ Texts'
    BY <2>1, <2>3, Disjoint DEF TypeInv, Layout, Texts, Opened
  <2>7. Emptied' /\ Opened'
    BY <2>1, <2>2 DEF TypeInv, Emptied, Opened
  <2> QED
    BY <2>5, <2>6, <2>7 DEF TypeInv
<1>3. CASE CloseDir
  <2> QED
    BY <1>3, Disjoint, Locations
    DEF CloseDir, record, kernel, TypeInv, TypeOK, Layout, Texts, Emptied, Opened
<1>4. ASSUME NEW p \in Pids, NextPid(p)
      PROVE  TypeInv'
  <2>1. pc' = "user" /\ "user" \in InScrape /\ "user" \in Location
    BY <1>4 DEF NextPid, InScrape, Location
  <2>2. ptr' = [g \in Pointers |-> 0] /\ ptr' \in [Pointers -> Nat]
    BY <1>4 DEF NextPid
  <2>3. pool = 1 + 2 * skipped /\ skipped \in Nat
    BY <1>4 DEF NextPid, TypeInv, TypeOK, Layout
  <2>4. TypeOK'
    BY <1>4, <2>1, <2>2, <2>3 DEF NextPid, kernel, TypeInv, TypeOK
  <2>5. Layout' /\ Emptied' /\ Opened'
    BY <1>4, <2>1, <2>3 DEF NextPid, kernel, Layout, Emptied, Opened
  <2>6. Texts'
    BY <2>2 DEF Texts
  <2> QED
    BY <2>4, <2>5, <2>6 DEF TypeInv
<1>5. ASSUME NEW o \in Others, NextOther(o)
      PROVE  TypeInv'
  <2>1. pc = "readdir" /\ pc \notin InScrape
    BY <1>5, Disjoint DEF NextOther
  <2>2. /\ returned' \subseteq Pids \cup Others /\ entry' \in Pids \cup Others
        /\ wasAlive' = FALSE
        /\ UNCHANGED <<kernel, dir, pc, skipped, pool, record, table>>
    BY <1>5 DEF NextOther, TypeInv, TypeOK
  <2>3. TypeOK'
    BY <2>1, <2>2 DEF record, kernel, TypeInv, TypeOK
  <2> QED
    BY <2>1, <2>2, <2>3 DEF record, kernel, TypeInv, Layout, Texts, Emptied, Opened
<1>6. CASE Quiet
  <2>1. pc' \in Location /\ pc' \notin {"readdir", "done", "cut", "start"}
    BY <1>6, Disjoint, Locations DEF Quiet
  <2>2. TypeOK'
    BY <1>6, <2>1 DEF Quiet, kernel, TypeInv, TypeOK
  <2> QED
    BY <1>6, <2>1, <2>2 DEF Quiet, kernel, TypeInv, Layout, Texts, Emptied, Opened
<1>7. CASE Skip
  <2>1. pc' = "readdir" /\ pc' \in Location /\ pc' \notin InScrape
    BY <1>7, Disjoint, Locations DEF Skip
  <2>2. pool = 1 + 2 * skipped'
    BY <1>7 DEF Skip, TypeInv, TypeOK, Layout
  <2>3. TypeOK'
    BY <1>7, <2>1 DEF Skip, kernel, record, TypeInv, TypeOK
  <2> QED
    BY <1>7, <2>1, <2>2, <2>3, Disjoint DEF Skip, kernel, TypeInv, Layout, Texts, Emptied, Opened
<1>8. CASE Bless
  <2>1. pc = "bless" /\ pc \in InScrape
    BY <1>8 DEF Bless, InScrape
  <2>2. pool' = 1 + 2 * skipped /\ pool' \in Nat
    BY <1>8, <2>1 DEF Bless, TypeInv, TypeOK, Layout
  <2>3. table' \in Seq(Pids)
    BY <1>8, <2>1 DEF Bless, TypeInv, TypeOK
  <2>4. pc' = "readdir" /\ pc' \in Location /\ pc' \notin InScrape
    BY <1>8, Disjoint, Locations DEF Bless
  <2>5. TypeOK'
    BY <1>8, <2>2, <2>3, <2>4 DEF Bless, kernel, record, TypeInv, TypeOK
  <2> QED
    BY <1>8, <2>2, <2>4, <2>5, Disjoint DEF Bless, kernel, TypeInv, Layout, Texts, Emptied, Opened
<1>9. ASSUME NEW g \in Pointers, Text(g)
      PROVE  TypeInv'
  <2>1. pc \in InScrape /\ pc' \in InScrape /\ pc' \in Location
    BY <1>9, Locations DEF Text
  <2>2. pool' \in Nat /\ ptr' \in [Pointers -> Nat] /\ pool <= pool'
    BY <1>9 DEF Text, TypeInv, TypeOK
  <2>3. TypeOK'
    BY <1>9, <2>1, <2>2 DEF Text, kernel, TypeInv, TypeOK
  <2>4. Layout' /\ Emptied' /\ Opened'
    BY <1>9, <2>1, <2>2, Disjoint DEF Text, kernel, TypeInv, TypeOK, Layout, Emptied, Opened
  <2>5. Texts'
    <3>1. fmt <= pool /\ fmt' = fmt /\ fmt \in Nat /\ pool \in Nat
          /\ ptr \in [Pointers -> Nat]
      BY <1>9, <2>1 DEF Text, TypeInv, TypeOK, Layout
    <3> QED
      BY <1>9, <2>1, <3>1 DEF Text, TypeInv, Texts
  <2> QED
    BY <2>3, <2>4, <2>5 DEF TypeInv
<1>10. CASE UNCHANGED vars
  BY <1>10 DEF vars, kernel, record, TypeInv, TypeOK, Layout, Texts, Emptied, Opened
<1> QED
  BY <1>1, <1>2, <1>3, <1>4, <1>5, <1>6, <1>7, <1>8, <1>9, <1>10 DEF Cases

LEMMA TypeInvariant == Spec => []TypeInv
BY TypeInit, TypeStep, PTL DEF Spec

\* Every variable of OS_get_table() keeps its type for any number of
\* processes and any number of forks and exits.
THEOREM TypeCorrect == Spec => []TypeOK
<1>1. TypeInv => TypeOK
  BY DEF TypeInv
<1> QED
  BY <1>1, TypeInvariant, PTL

\* The pointers in *prs stay live objects above it until bless_into_proc()
\* has copied what they point to.
THEOREM PointersStayLive == Spec => []PointersLive
<1>1. TypeInv => PointersLive
  BY DEF TypeInv, TypeOK, Layout, Texts, PointersLive
<1> QED
  BY <1>1, TypeInvariant, PTL

\* Whatever fails on the way, each entry gives the obstack back as it was,
\* save the two objects of an entry that went away, and CloseDir empties it.
THEOREM PoolAccounted == Spec => []PoolAccounting
<1>1. TypeInv => PoolAccounting
  BY DEF TypeInv, Layout, Emptied, PoolAccounting
<1> QED
  BY <1>1, TypeInvariant, PTL

-----------------------------------------------------------------------------
(* What is scraped of one entry *)

\* A live process was there when its name was returned, or has come since;
\* from "fixup" on, one was seen.
Ghost ==
  pc \in InScrape =>
    /\ entry \in alive => wasAlive
    /\ pc \notin Unseen => wasAlive

EntryInv == Ghost /\ (pc \in InScrape => Agree)

LEMMA EntryStep == TypeOK /\ EntryInv /\ [Next]_vars => EntryInv'
<1> SUFFICES ASSUME EntryInv, Cases
             PROVE  EntryInv'
  BY AllCases
<1>1. ASSUME NEW p \in Pids, Exit(p) \/ Fork(p)
      PROVE  EntryInv'
  <2>1. entry \in alive' => (entry \in alive \/ wasAlive')
    BY <1>1 DEF Exit, Fork
  <2>2. wasAlive => wasAlive'
    BY <1>1 DEF Exit, Fork
  <2> QED
    BY <1>1, <2>1, <2>2 DEF Exit, Fork, record, EntryInv, Ghost, Agree
<1>2. CASE OpenDir
  BY <1>2, Disjoint DEF OpenDir, EntryInv, Ghost
<1>3. CASE CloseDir
  BY <1>3, Disjoint DEF CloseDir, EntryInv, Ghost
<1>4. ASSUME NEW p \in Pids, NextPid(p)
      PROVE  EntryInv'
  <2>1. pc' \in Unseen
    BY <1>4 DEF NextPid, Unseen
  <2>2. filled' = {} /\ lower' = {} /\ entry' = p /\ (wasAlive' = (p \in alive))
        /\ alive' = alive
    BY <1>4 DEF NextPid, kernel
  <2> QED
    BY <2>1, <2>2 DEF EntryInv, Ghost, Agree
<1>5. ASSUME NEW o \in Others, NextOther(o)
      PROVE  EntryInv'
  BY <1>5, Disjoint DEF NextOther, EntryInv, Ghost
<1>6. CASE Quiet
  BY <1>6, Disjoint DEF Quiet, kernel, EntryInv, Ghost
<1>7. CASE Skip
  BY <1>7, Disjoint DEF Skip, EntryInv, Ghost
<1>8. CASE Bless
  BY <1>8, Disjoint DEF Bless, EntryInv, Ghost
<1>9. ASSUME NEW g \in Pointers, Text(g)
      PROVE  EntryInv'
  BY <1>9 DEF Text, kernel, EntryInv, Ghost
<1>10. CASE UNCHANGED vars
  BY <1>10 DEF vars, kernel, record, EntryInv, Ghost, Agree
<1> QED
  BY <1>1, <1>2, <1>3, <1>4, <1>5, <1>6, <1>7, <1>8, <1>9, <1>10 DEF Cases

LEMMA EntryInvariant == Spec => []EntryInv
<1>1. Init => EntryInv
  BY Disjoint DEF Init, EntryInv, Ghost
<1> QED
  BY <1>1, EntryStep, TypeCorrect, PTL DEF Spec

\* PidExists keeps a pid that went away, and stayed away, from the table,
\* whatever other files of it could still be read before.
THEOREM NoGhosts == Spec => []NoGhost
<1>1. EntryInv => NoGhost
  BY DEF EntryInv, Ghost, NoGhost, InScrape, Unseen
<1> QED
  BY <1>1, EntryInvariant, PTL

\* No field of an earlier process shows in a later one's record, and no
\* scraped field is reported that was not read.
THEOREM ScrapedFields == Spec => []ScrapedOnly
<1>1. EntryInv => ScrapedOnly
  BY DEF EntryInv, Agree, ScrapedOnly, InScrape
<1> QED
  BY <1>1, EntryInvariant, PTL

-----------------------------------------------------------------------------
(* What is on the table *)

OnTable(p) == \E i \in DOMAIN table : table[i] = p

Distinct == \A i, j \in DOMAIN table : table[i] = table[j] => i = j

\* An entry that is being scraped is not on the table yet, and a steady
\* process whose name was returned is on it unless it is that entry.
WalkInv ==
  /\ steady \subseteq alive
  /\ pc = "start" => steady = {} /\ returned = {}
  /\ \A p \in Pids : OnTable(p) => p \in returned
  /\ pc \in InScrape => entry \in returned /\ ~OnTable(entry)
  /\ pc # "died" =>
       \A p \in steady \cap returned : OnTable(p) \/ (pc \in InScrape /\ p = entry)
  /\ pc = "done" => steady \subseteq returned
  /\ Distinct

LEMMA AppendTable ==
  ASSUME TypeOK, NEW p \in Pids, table' = Append(table, p)
  PROVE  /\ \A q : OnTable(q)' <=> (OnTable(q) \/ q = p)
         /\ Distinct /\ ~OnTable(p) => Distinct'
<1>1. /\ table \in Seq(Pids)
      /\ DOMAIN table = 1..Len(table) /\ Len(table) \in Nat
      /\ DOMAIN table' = 1..(Len(table) + 1)
      /\ \A i \in 1..Len(table) : table'[i] = table[i]
      /\ table'[Len(table) + 1] = p
  BY DEF TypeOK
<1>2. \A i \in DOMAIN table' : i = Len(table) + 1 \/ i \in DOMAIN table
  BY <1>1
<1>3. \A q : OnTable(q)' <=> (OnTable(q) \/ q = p)
  <2> TAKE q
  <2>1. OnTable(q)' => (OnTable(q) \/ q = p)
    BY <1>1, <1>2 DEF OnTable
  <2>2. Len(table) + 1 \in DOMAIN table' /\ DOMAIN table \subseteq DOMAIN table'
    BY <1>1
  <2>3. (OnTable(q) \/ q = p) => OnTable(q)'
    BY <1>1, <2>2 DEF OnTable
  <2> QED
    BY <2>1, <2>3
<1>4. Distinct /\ ~OnTable(p) => Distinct'
  BY <1>1, <1>2 DEF Distinct, OnTable
<1> QED
  BY <1>3, <1>4

LEMMA WalkStep == TypeOK /\ WalkInv /\ [Next]_vars => WalkInv'
<1> SUFFICES ASSUME TypeOK, WalkInv, Cases
             PROVE  WalkInv'
  BY AllCases
<1>1. ASSUME NEW p \in Pids, Exit(p) \/ Fork(p)
      PROVE  WalkInv'
  <2>1. /\ steady' \subseteq alive' /\ steady' \subseteq steady
        /\ UNCHANGED <<pc, entry, returned, table>>
    BY <1>1 DEF Exit, Fork, WalkInv
  <2> QED
    BY <2>1 DEF WalkInv, OnTable, Distinct
<1>2. CASE OpenDir
  <2>1. /\ pc = "start" /\ pc' \in {"readdir", "done"} /\ pc' \notin InScrape
        /\ UNCHANGED <<alive, returned, table>>
        /\ steady' \subseteq alive /\ (pc' = "done" => steady' = {})
    BY <1>2, Disjoint DEF OpenDir, WalkInv
  <2> QED
    BY <2>1 DEF WalkInv, OnTable, Distinct
<1>3. CASE CloseDir
  <2>1. /\ pc = "readdir" /\ pc' \in {"done", "cut"}
        /\ UNCHANGED <<alive, steady, returned, table>>
        /\ pc' = "done" => steady \subseteq returned
    BY <1>3 DEF CloseDir, kernel
  <2> QED
    BY <2>1, Disjoint DEF WalkInv, OnTable, Distinct
<1>4. ASSUME NEW p \in Pids, NextPid(p)
      PROVE  WalkInv'
  <2>1. /\ pc = "readdir" /\ pc' = "user" /\ "user" \in InScrape
        /\ returned' = returned \cup {p} /\ p \notin returned /\ entry' = p
        /\ UNCHANGED <<alive, steady, table>>
    BY <1>4 DEF NextPid, kernel, InScrape
  <2>2. ~OnTable(p) /\ \A q : OnTable(q)' <=> OnTable(q)
    BY <2>1 DEF WalkInv, OnTable
  <2> QED
    BY <2>1, <2>2, Disjoint DEF WalkInv, Distinct
<1>5. ASSUME NEW o \in Others, NextOther(o)
      PROVE  WalkInv'
  <2>1. /\ pc = "readdir" /\ returned' = returned \cup {o}
        /\ o \notin steady
        /\ UNCHANGED <<alive, steady, table, pc>>
    BY <1>5, LinuxTableAssumption DEF NextOther, kernel, TypeOK
  <2> QED
    BY <2>1, Disjoint DEF WalkInv, OnTable, Distinct
<1>6. CASE Quiet
  <2>1. /\ pc \in InScrape /\ pc' \in InScrape \cup {"died"}
        /\ UNCHANGED <<alive, steady, returned, entry, table>>
    BY <1>6 DEF Quiet, kernel
  <2> QED
    BY <2>1, Disjoint DEF WalkInv, OnTable, Distinct
<1>7. CASE Skip
  <2>1. /\ pc \in InScrape /\ pc' = "readdir" /\ entry \notin alive
        /\ UNCHANGED <<alive, steady, returned, entry, table>>
    BY <1>7 DEF Skip, kernel
  <2> QED
    BY <2>1, Disjoint DEF WalkInv, OnTable, Distinct
<1>8. CASE Bless
  <2>1. /\ pc = "bless" /\ pc \in InScrape /\ pc' = "readdir"
        /\ table' = Append(table, entry) /\ entry \in Pids
        /\ UNCHANGED <<alive, steady, returned, entry>>
    BY <1>8 DEF Bless, kernel, InScrape, TypeOK
  <2>2. /\ \A q : OnTable(q)' <=> (OnTable(q) \/ q = entry)
        /\ Distinct /\ ~OnTable(entry) => Distinct'
    BY <2>1, AppendTable
  <2> QED
    BY <2>1, <2>2, Disjoint DEF WalkInv
<1>9. ASSUME NEW g \in Pointers, Text(g)
      PROVE  WalkInv'
  <2>1. /\ pc \in InScrape /\ pc' \in InScrape
        /\ UNCHANGED <<alive, steady, returned, entry, table>>
    BY <1>9 DEF Text, kernel
  <2> QED
    BY <2>1, Disjoint DEF WalkInv, OnTable, Distinct
<1>10. CASE UNCHANGED vars
  BY <1>10 DEF vars, kernel, WalkInv, OnTable, Distinct
<1> QED
  BY <1>1, <1>2, <1>3, <1>4, <1>5, <1>6, <1>7, <1>8, <1>9, <1>10 DEF Cases

\* table() lists every process that lives through the whole scan, and no pid
\* twice, although each of its files may fail to open.
THEOREM ScanComplete == Spec => []Complete
<1>1. Init => WalkInv
  BY Disjoint DEF Init, WalkInv, OnTable, Distinct
<1>2. TypeOK /\ WalkInv => Complete
  BY Disjoint DEF TypeOK, WalkInv, OnTable, Distinct, Complete
<1> QED
  BY <1>1, <1>2, WalkStep, TypeCorrect, PTL DEF Spec
=============================================================================
