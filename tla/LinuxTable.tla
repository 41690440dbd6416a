----------------------------- MODULE LinuxTable -----------------------------
(***************************************************************************)
(* OS_get_table() of os/Linux.c: one walk over /proc while the processes   *)
(* it looks at exit and their pids are reused.                             *)
(*                                                                         *)
(* *prs is the set of field groups that hold a value instead of what       *)
(* bzero() left, and the format string the set of groups whose letters are *)
(* lower case.  The obstack is the number of objects on it, an object is   *)
(* its position, and obstack_free(p) frees p and all above it.  A file     *)
(* that can be opened is read in one step (module ReadFile has the steps); *)
(* any access may also fail, for want of permission or of descriptors.     *)
(***************************************************************************)
EXTENDS Naturals, Sequences, FiniteSets

CONSTANTS
  Pids,          \* the numeric names that may appear in /proc
  Others,        \* its other names
  MaxForks,      \* bound: processes created during the scan
  WarnMayDie     \* may Perl's warn handler throw out of ppt_warn()?

ASSUME LinuxTableAssumption ==
  /\ Pids \cap Others = {}
  /\ MaxForks \in Nat
  /\ WarnMayDie \in BOOLEAN

VARIABLES
  alive,     \* the pids in use
  forks,     \* processes created so far
  steady,    \* pids alive since opendir(), the same process all along
  listed,    \* names the directory may still yield or has yielded
  returned,  \* names readdir_r() has returned
  dir,       \* is /proc open?
  pc,        \* where OS_get_table() is
  entry,     \* dir_result->d_name
  wasAlive,  \* history: entry's pid existed at some time since readdir_r()
  skipped,   \* history: entries dropped because the process went away
  pool,      \* objects on the obstack
  prs, fmt,  \* the objects holding *prs and format_str
  filled,    \* groups *prs has values of
  ptr,       \* the pointers in *prs into the obstack, 0 for NULL
  lower,     \* groups whose letters in format_str are lower case
  table      \* the names of the records blessed so far

Pointers == {"cmndline", "cmdline", "environ", "cwd", "exec"}
\* Groups filled by one successful access, and groups computed from "stat":
\* "user" is uid and gid, "stat" is pid to wchan, "times" is time and ctime,
\* "euid" and "egid" are euid to fuid and egid to fgid.  "part" is what sscanf()
\* stored of pid to wchan before get_proc_stat() gave up.
Scraped == {"user", "stat", "euid", "egid", "tracer"} \cup Pointers
Derived == {"state", "times", "pctcpu", "pctmem"}
Groups == Scraped \cup Derived \cup {"part"}

kernel == <<alive, forks, steady, listed>>
record == <<prs, fmt, filled, ptr, lower>>
vars == <<kernel, returned, dir, pc, entry, wasAlive, skipped, pool, record,
          table>>

\* The walk is over: at the end of the directory, when readdir_r() fails, or by
\* an exception.
Ended == {"done", "cut", "died"}

Init ==
  /\ alive \in SUBSET Pids
  /\ forks = 0
  /\ steady = {}
  /\ listed = {}
  /\ returned = {}
  /\ dir = FALSE
  /\ pc = "start"
  /\ entry \in Pids \cup Others
  /\ wasAlive = FALSE
  /\ skipped = 0
  /\ pool = 0
  /\ prs = 0
  /\ fmt = 0
  /\ filled = {}
  /\ ptr = [g \in Pointers |-> 0]
  /\ lower = {}
  /\ table = <<>>

-----------------------------------------------------------------------------
(* The kernel *)

Exit(p) ==
  /\ pc \notin Ended
  /\ p \in alive
  /\ alive' = alive \ {p}
  /\ steady' = steady \ {p}
  /\ UNCHANGED <<forks, listed, returned, dir, pc, entry, wasAlive, skipped,
                 pool, record, table>>

Fork(p) ==
  /\ pc \notin Ended
  /\ p \notin alive
  /\ forks < MaxForks
  /\ forks' = forks + 1
  /\ alive' = alive \cup {p}
  /\ listed' = IF dir THEN listed \cup {p} ELSE listed
  /\ wasAlive' = (wasAlive \/ p = entry)
  /\ UNCHANGED <<steady, returned, dir, pc, entry, skipped, pool, record,
                 table>>

-----------------------------------------------------------------------------
(* The walk *)

\* obstack_init(), room for the dirent, opendir().
OpenDir ==
  /\ pc = "start"
  /\ pool' = 1
  /\ \/ /\ pc' = "readdir" /\ dir' = TRUE
        /\ steady' = alive /\ listed' = alive \cup Others
     \/ pc' = "done" /\ UNCHANGED <<dir, steady, listed>>
  /\ UNCHANGED <<alive, forks, returned, entry, wasAlive, skipped, record, table>>

\* readdir_r() yields a process: new prs, zeroed, and a new format string.
NextPid_NoBzero(p) ==
  /\ pc = "readdir"
  /\ p \in (listed \cap Pids) \ returned
  /\ returned' = returned \cup {p}
  /\ entry' = p
  /\ wasAlive' = (p \in alive)
  /\ pool' = pool + 2
  /\ prs' = pool + 1
  /\ fmt' = pool + 2
  /\ lower' = {}
  /\ pc' = "user"
  /\ UNCHANGED <<kernel, dir, skipped, filled, ptr, table>>

NextPid(p) ==
  /\ pc = "readdir"
  /\ p \in (listed \cap Pids) \ returned
  /\ returned' = returned \cup {p}
  /\ entry' = p
  /\ wasAlive' = (p \in alive)
  /\ pool' = pool + 2
  /\ prs' = pool + 1
  /\ fmt' = pool + 2
  /\ filled' = {}
  /\ ptr' = [g \in Pointers |-> 0]
  /\ lower' = {}
  /\ pc' = "user"
  /\ UNCHANGED <<kernel, dir, skipped, table>>

\* readdir_r() yields a name is_pid() rejects; it is in d_name all the same.
NextOther_NoIsPid(o) ==
  /\ pc = "readdir"
  /\ o \in (listed \cap Others) \ returned
  /\ returned' = returned \cup {o}
  /\ entry' = o
  /\ wasAlive' = FALSE
  /\ pool' = pool + 2
  /\ prs' = pool + 1
  /\ fmt' = pool + 2
  /\ filled' = {}
  /\ ptr' = [g \in Pointers |-> 0]
  /\ lower' = {}
  /\ pc' = "user"
  /\ UNCHANGED <<kernel, dir, skipped, table>>

NextOther(o) ==
  /\ pc = "readdir"
  /\ o \in (listed \cap Others) \ returned
  /\ returned' = returned \cup {o}
  /\ entry' = o
  /\ wasAlive' = FALSE
  /\ UNCHANGED <<kernel, dir, pc, skipped, pool, record, table>>

\* The end of the directory, where all that was there all along has been
\* returned; or readdir_r() fails, which ends the loop just the same.
CloseDir ==
  /\ pc = "readdir"
  /\ \/ steady \cup (listed \cap Others) \subseteq returned /\ pc' = "done"
     \/ pc' = "cut"
  /\ dir' = FALSE
  /\ pool' = 0
  /\ UNCHANGED <<kernel, returned, entry, wasAlive, skipped, record, table>>

-----------------------------------------------------------------------------
(* The scrape of one process *)

\* One access to /proc/${entry}: it reaches the process that has the pid now.
Scrape(groups) ==
  /\ entry \in alive
  /\ filled' = filled \cup groups
  /\ lower' = lower \cup groups

Miss == UNCHANGED <<filled, lower>>

Idle == UNCHANGED <<kernel, returned, dir, entry, wasAlive, table>>

GetUserInfo ==
  /\ pc = "user"
  /\ Scrape({"user"}) \/ Miss
  /\ pc' = "stat"
  /\ Idle /\ UNCHANGED <<skipped, pool, prs, fmt, ptr>>

\* Read and parsed; read but without a pid at its head, which counts as read;
\* without the name in parentheses or one of the 33 items, when what was scanned
\* by then stays in *prs; or not read.  The text is freed in every case.
GetProcStat ==
  /\ pc = "stat"
  /\ \/ Scrape({"stat"}) /\ pc' = "fixup"
     \/ entry \in alive /\ Miss /\ pc' = "fixup"
     \/ /\ entry \in alive
        /\ filled' = filled \cup {"part"} /\ UNCHANGED lower
        /\ pc' = "exists"
     \/ Miss /\ pc' = "exists"
  /\ Idle /\ UNCHANGED <<skipped, pool, prs, fmt, ptr>>

\* Without stat: is the directory still there?  If not, on to the next name,
\* with prs and format_str left on the obstack.
PidExists_Always ==
  /\ pc = "exists"
  /\ pc' = "fixup"
  /\ Idle /\ UNCHANGED <<skipped, pool, record>>

PidExists_SkipsAnyMiss ==
  /\ pc = "exists"
  /\ pc' = "readdir" /\ skipped' = skipped + 1
  /\ Idle /\ UNCHANGED <<pool, record>>

PidExists_Waits ==
  /\ pc = "exists"
  /\ pc' = IF entry \in alive THEN "fixup" ELSE "exists"
  /\ Idle /\ UNCHANGED <<skipped, pool, record>>

PidExists ==
  /\ pc = "exists"
  /\ \/ entry \in alive /\ pc' = "fixup" /\ UNCHANGED skipped
     \/ entry \notin alive /\ pc' = "readdir" /\ skipped' = skipped + 1
  /\ Idle /\ UNCHANGED <<pool, record>>

\* The state letter is known or the handler of the warning runs; time and
\* ctime are computed and enabled either way.
HasStat == {"stat", "part"} \cap filled # {}

Derive(groups) ==
  /\ filled' = IF HasStat THEN filled \cup groups ELSE filled
  /\ lower' = lower \cup groups

FixupStatValues ==
  /\ pc = "fixup"
  /\ \/ HasStat /\ Derive({"state", "times"}) /\ pc' = "cmndline"
     \/ Derive({"times"}) /\ pc' = "cmndline"
     \/ WarnMayDie /\ Miss /\ pc' = "died"
  /\ Idle /\ UNCHANGED <<skipped, pool, prs, fmt, ptr>>

\* read_file() or realpath() for the one group g: on success its text stays
\* on top of the obstack.
GetText(g, next) ==
  /\ pc = g
  /\ \/ Scrape({g}) /\ pool' = pool + 1 /\ ptr' = [ptr EXCEPT ![g] = pool + 1]
     \/ Miss /\ UNCHANGED <<pool, ptr>>
  /\ pc' = next
  /\ Idle /\ UNCHANGED <<skipped, prs, fmt>>

GetProcCmndline == GetText("cmndline", "cmdline")
GetProcCmdline == GetText("cmdline", "environ")
GetProcEnviron == GetText("environ", "cwd")
EvalLinkCwd == GetText("cwd", "exec")
EvalLinkExe == GetText("exec", "status")

\* The lines come in this order and the text may end early; it is the top of
\* the obstack and is freed.
GetProcStatus_FreesBelow ==
  /\ pc = "status"
  /\ Scrape({"tracer", "euid", "egid"}) \/ Miss
  /\ pool' = pool - 1
  /\ pc' = "prec"
  /\ Idle /\ UNCHANGED <<skipped, prs, fmt, ptr>>

GetProcStatus ==
  /\ pc = "status"
  /\ \/ \E found \in {{}, {"tracer"}, {"tracer", "euid"},
                      {"tracer", "euid", "egid"}} : Scrape(found)
     \/ Miss
  /\ pc' = "prec"
  /\ Idle /\ UNCHANGED <<skipped, pool, prs, fmt, ptr>>

\* system_memory is positive also when it is unknown: it is unsigned.  A pctcpu
\* too long for its buffer is warned about first.
CalcPrec ==
  /\ pc = "prec"
  /\ \/ Derive({"pctcpu", "pctmem"}) /\ pc' = "bless"
     \/ WarnMayDie /\ Miss /\ pc' = "died"
  /\ Idle /\ UNCHANGED <<skipped, pool, prs, fmt, ptr>>

\* bless_into_proc() copies the values out; prs and all above it is freed.
Bless_FreesFormat ==
  /\ pc = "bless"
  /\ table' = Append(table, entry)
  /\ pool' = fmt - 1
  /\ pc' = "readdir"
  /\ UNCHANGED <<kernel, returned, dir, entry, wasAlive, skipped, record>>

Bless ==
  /\ pc = "bless"
  /\ table' = Append(table, entry)
  /\ pool' = prs - 1
  /\ pc' = "readdir"
  /\ UNCHANGED <<kernel, returned, dir, entry, wasAlive, skipped, record>>

-----------------------------------------------------------------------------

ScrapeNext ==
  \/ GetUserInfo \/ GetProcStat \/ PidExists \/ FixupStatValues
  \/ GetProcCmndline \/ GetProcCmdline \/ GetProcEnviron
  \/ EvalLinkCwd \/ EvalLinkExe \/ GetProcStatus \/ CalcPrec \/ Bless

WalkNext ==
  \/ OpenDir \/ CloseDir
  \/ \E p \in Pids : NextPid(p)
  \/ \E o \in Others : NextOther(o)

Scan == ScrapeNext \/ WalkNext

Kernel == \E p \in Pids : Exit(p) \/ Fork(p)

Returned == pc \in Ended /\ UNCHANGED vars

Next == Scan \/ Kernel \/ Returned

Spec == Init /\ [][Next]_vars

\* The thread inside OS_get_table() keeps running.
FairSpec == Spec /\ WF_vars(Scan)

-----------------------------------------------------------------------------
(* Properties *)

InScrape == {"user", "stat", "exists", "fixup", "status", "prec", "bless"}
            \cup Pointers
Location == InScrape \cup {"start", "readdir"} \cup Ended

\* The type invariant: also, only a name that is_pid() accepts is scraped.
TypeOK ==
  /\ alive \subseteq Pids
  /\ forks \in 0..MaxForks
  /\ steady \subseteq Pids
  /\ listed \subseteq Pids \cup Others
  /\ returned \subseteq Pids \cup Others
  /\ dir \in BOOLEAN
  /\ pc \in Location
  /\ entry \in Pids \cup Others
  /\ pc \in InScrape => entry \in Pids
  /\ wasAlive \in BOOLEAN
  /\ skipped \in Nat
  /\ pool \in Nat
  /\ prs \in Nat
  /\ fmt \in Nat
  /\ filled \subseteq Groups
  /\ ptr \in [Pointers -> Nat]
  /\ lower \subseteq Groups
  /\ table \in Seq(Pids)

\* table() reports a process that lives through the whole scan exactly once,
\* however many of its files could not be read, when the directory was read to
\* its end; and it reports no name twice, however the scan ends.
Complete ==
  /\ pc = "done" => \A p \in steady : \E i \in DOMAIN table : table[i] = p
  /\ \A i, j \in DOMAIN table : table[i] = table[j] => i = j

\* No record is made of a pid that has been gone ever since its name was
\* read: "did the pid directory go away mid flight?"
NoGhost == pc = "bless" => wasAlive

\* A letter is lower case exactly when this scrape obtained its whole group; what
\* was scraped of the entry before, at the same address, never shows.
ScrapedOnly ==
  pc = "bless" => lower \cap Scraped = filled \cap Scraped

\* The string pointers of *prs are live objects of their own, above *prs and
\* format_str, from the access that set them until bless_into_proc().
PointersLive ==
  pc \in InScrape =>
    /\ 0 < prs /\ prs < fmt /\ fmt <= pool
    /\ \A g \in Pointers : ptr[g] # 0 => fmt < ptr[g] /\ ptr[g] <= pool
    /\ \A g, h \in Pointers : ptr[g] = ptr[h] /\ ptr[g] # 0 => g = h

\* Back at readdir_r() the obstack holds the dirent and two objects for every
\* process that went away mid flight, and nothing else; nothing is left on it
\* when the walk ends, also when readdir_r() cuts it short.
PoolAccounting ==
  /\ pc = "readdir" => pool = 1 + 2 * skipped
  /\ pc \in {"done", "cut"} /\ listed # {} => pool = 0

\* The walk comes to an end although processes come and go under it.
ScanEnds == <>(pc \in Ended)
=============================================================================
