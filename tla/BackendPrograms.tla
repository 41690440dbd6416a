-------------------------- MODULE BackendPrograms --------------------------
(***************************************************************************)
(* What OS_get_table() of each backend but Linux's does, as data: where    *)
(* the entries come from, and for one entry the accesses in their order,   *)
(* what each fills, and how the code goes on when it is refused.  Module   *)
(* BackendScan runs these.                                                 *)
(*                                                                         *)
(* A group is a variable, or a structure filled by one access: "base" has  *)
(* the pid the record will bear.  Everything that is computed from a group *)
(* and nothing else is part of it.                                         *)
(***************************************************************************)
EXTENDS Naturals, Sequences

CONSTANTS
  Block,   \* bound: entries of a block, for BURST, PROCS_TO_FETCH, PROCCNT
  Cap,     \* bound: entries of the only block of AIX, for MAX_PROCS
  Slots    \* bound: slots of the kernel's process table

ASSUME ProgramsAssumption ==
  /\ Block \in Nat \ {0}
  /\ Cap \in Nat \ {0}
  /\ Slots \in Nat \ {0}

-----------------------------------------------------------------------------
(* Accesses.  The way of an access:                                         *)
(*   "set"      takes what a group, or the entry, holds; never refused      *)
(*   "case"     looks it up in a list of values, which may lack it          *)
(*   "pid"      asks the kernel for a process by number                     *)
(*   "gone"     the same, only when nothing is known of the process so far  *)
(*   "open"     the same, and has the process at hand from then on          *)
(*   "attempt"  the same, or does without for want of a need                *)
(*   "read"     asks about the process at hand, whoever has its number now  *)
(*   "memory"   allocates for the process at hand                           *)
(*   "close"    ends that; never refused                                    *)
(*   "system"   asks for what concerns no process                           *)
(* "read" to "close" are passed over when nothing is.  After a refusal the  *)
(* groups are kept as they are, and the scan goes on                        *)
(* with the next access ("keep"), the next that needs nothing at hand       *)
(* ("leave"), the record ("brief"), the next entry ("skip") or not at all   *)
(* ("croak"); or they are emptied ("clear"), some are filled that get no    *)
(* letters ("part"), they are whatever the memory held ("spoil", and with   *)
(* nothing at hand any more "lose"), or they get capital letters ("hide").  *)

Access(way, from, gets, refused) ==
  [way |-> way, from |-> from, gets |-> gets, refused |-> refused,
   takes |-> {}, frees |-> {}, returns |-> {}]

Copy(gets) == Access("set", "entry", gets, "keep")
Derive(from, gets) == Access("set", from, gets, "keep")
Clear(gets) == Access("set", "nothing", gets, "keep")
Case(from, gets, refused) == Access("case", from, gets, refused)
Ask(gets, refused) == Access("pid", "entry", gets, refused)
AskFor(group, gets, refused) == Access("pid", group, gets, refused)
Open(what, refused) == [Access("open", "entry", {}, refused) EXCEPT !.takes = {what}]
Read(gets, refused) == Access("read", "entry", gets, refused)
Close(what) == [Access("close", "nothing", {}, "keep") EXCEPT !.frees = {what}]

MayOpen(what, refused) == [Open(what, refused) EXCEPT !.way = "attempt"]
Memory(what, gets, refused) ==
  [Access("memory", "nothing", gets, refused) EXCEPT !.takes = {what}]
System(refused) == Access("system", "nothing", {}, refused)
StillThere(group, refused) == Access("gone", group, {}, refused)

\* An access that also allocates, or frees, something.
Taking(access, what) == [access EXCEPT !.takes = {what}]
Freeing(access, what) == [access EXCEPT !.frees = @ \cup {what}]

\* An access that frees something when it is refused.
Returning(access, what) == [access EXCEPT !.returns = {what}]

-----------------------------------------------------------------------------
(* Scans.  "names" are those of a directory, which outlive their process;   *)
(* "blocks" are the next entries in use, "slots" the next slots.  Another   *)
(* block is fetched until "one" was, an "empty" or a "short" one came, or   *)
(* the number of slots asked for before ("all") has been looked at.  When   *)
(* the scan cannot be opened (some "never" need to) it returns, croaks or   *)
(* returns and holds what it has made before ("forget"); and when a name or *)
(* a block cannot be fetched it returns, croaks, tries again ("retry"), or  *)
(* goes on with what is in the buffer ("proceed").                          *)

Scan(source, size, until, unopened, unfetched, accesses) ==
  [source |-> source, size |-> size, until |-> until, unopened |-> unopened,
   unfetched |-> unfetched, accesses |-> accesses, capitals |-> {},
   letters |-> "each"]

Directory(accesses) == Scan("names", 1, "all", "return", "return", accesses)
Snapshot(unopened, unfetched, accesses) ==
  Scan("blocks", Slots, "one", unopened, unfetched, accesses)
Walk(unopened, accesses) == Scan("blocks", 1, "empty", unopened, "return", accesses)

\* Groups whose letters are capitals until they are obtained.
Capital(groups, scan) == [scan EXCEPT !.capitals = groups]

\* The buffer is made before the directory is opened.
Forgetful(scan) == [scan EXCEPT !.unopened = "forget"]

\* The format string is copied once for the whole scan.
FormatOnce(scan) == [scan EXCEPT !.letters = "once"]

-----------------------------------------------------------------------------
(* Directories of /proc *)

\* read() is not looked at.
Solaris == Directory(<<
  Ask({"numthr"}, "keep"),
  Open("psdata", "skip"),
  Read({"base"}, "keep"),
  Close("psdata"),
  Case("base", {"state"}, "keep")>>)

\* Before 2.6: an ioctl(), which is.
Solaris25 == Directory(<<
  Ask({"numthr"}, "keep"),
  Open("psdata", "skip"),
  Read({"base"}, "skip"),
  Close("psdata"),
  Case("base", {"state"}, "keep")>>)

UnixWare_NoClose == Directory(<<
  Open("psdata", "skip"),
  Read({"base"}, "keep"),
  Case("base", {"state"}, "keep")>>)

UnixWare == Directory(<<
  Open("psdata", "skip"),
  Read({"base"}, "keep"),
  Close("psdata"),
  Case("base", {"state"}, "keep")>>)

IRIX_IoctlUnchecked == Directory(<<
  Open("psdata", "skip"),
  Read({"base"}, "keep"),
  Close("psdata"),
  Case("base", {"state"}, "keep")>>)

IRIX == Directory(<<
  Open("psdata", "skip"),
  Read({"base"}, "skip"),
  Close("psdata"),
  Case("base", {"state"}, "keep")>>)

\* get_procstat(): fscanf() may stop anywhere, its count is not looked at.
FreeBSDStatus == <<
  Clear({"base"}),
  Open("fp", "skip"),
  Read({"base"}, "keep"),
  Close("fp")>>

\* The file cmdline is opened, read and closed in one go.
FreeBSD == Capital({"args", "priority"}, Directory(FreeBSDStatus \o <<
  Ask({"args"}, "keep"),
  AskFor("base", {"priority"}, "keep")>>))

NetBSDStatus == <<
  Clear({"base"}),
  Open("fp", "skip"),
  Read({"base"}, "keep"),
  Close("fp")>>

NetBSD == Directory(NetBSDStatus \o <<
  Ask({"args"}, "keep")>>)

-----------------------------------------------------------------------------
(* Cygwin's /proc, scraped as Linux's.  The obstack is freed as a whole.    *)
(* What is read one after the other in the same way is one group: "files"   *)
(* is cmdline, twice, environ, and the links cwd and exe; "windows" is      *)
(* winexename and winpid; "read_ok" is what get_proc_stat() returns.        *)

CygwinGroups ==
  {"user", "base", "read_ok", "state", "times", "ids", "files", "windows"}

\* get_proc_stat(): a text without a pid is taken for read, and one that ends
\* early leaves its values behind; if not read the directory must still be there.
CygwinStat == <<
  Ask({"base", "read_ok"}, "part"),
  StillThere("read_ok", "skip")>>

CygwinStatus == <<Ask({"ids"}, "keep")>>

CygwinWindows == <<Ask({"windows"}, "keep")>>

Cygwin == Forgetful(Capital(CygwinGroups, Directory(
  <<Clear(CygwinGroups), Ask({"user"}, "keep")>>
  \o CygwinStat \o
  <<Case("base", {"state"}, "keep"),
    Derive("base", {"times"}),
    Ask({"files"}, "keep")>>
  \o CygwinStatus \o CygwinWindows)))

-----------------------------------------------------------------------------
(* Blocks of the kernel's table *)

HPUX == Scan("blocks", Block, "empty", "never", "return", <<
  Copy({"base"})>>)

\* procbase is set before table() is asked, and a failure gives up procnum.
DecOSF == Scan("slots", Block, "all", "return", "proceed", <<
  Open("psdata", "skip"),
  Read({"base"}, "skip"),
  Read({"cred"}, "skip"),
  Memory("psgroups", {}, "skip"),
  Returning(Read({"groups"}, "skip"), "psgroups"),
  Close("psdata"),
  Case("base", {"state"}, "keep"),
  Freeing(Derive("groups", {"groups"}), "psgroups")>>)

\* AIX up to 4.3: cutime and cstime belong to "user"; a process of which
\* getuser() knows nothing is reported with the shorter Zombformat.
AIX == FormatOnce(Scan("blocks", Cap, "one", "never", "return", <<
  Copy({"base"}),
  Case("entry", {"wchan"}, "keep"),
  Case("entry", {"state"}, "hide"),
  Ask({"user"}, "brief"),
  Derive("user", {"args"}),
  Ask({"args"}, "keep")>>))

BriefGroups == {"base", "wchan", "state"}

\* bless_procs(): a zombie has neither cutime nor cstime.
BlessProcs == <<
  Copy({"base"}),
  Clear({"args", "state"}),
  Case("entry", {"state"}, "hide"),
  Case("entry", {"children"}, "keep"),
  Derive("entry", {"args"}),
  Ask({"args"}, "keep"),
  Clear({"euid"}),
  Case("entry", {"euid"}, "hide")>>

Getprocs == Scan("blocks", Block, "short", "return", "return", BlessProcs)

-----------------------------------------------------------------------------
(* Snapshots of the whole table, and walks over the kernel's own list *)

BSDi == Snapshot("croak", "croak", <<
  Copy({"base"}),
  Ask({"started"}, "keep"),
  Ask({"sesid"}, "keep"),
  Clear({"args"}),
  Ask({"args"}, "keep")>>)

OpenBSD == Snapshot("croak", "croak", <<
  Copy({"base"}),
  Clear({"args"}),
  Ask({"args"}, "keep")>>)

FreeBSDKvm == Snapshot("croak", "croak", <<
  Copy({"base"}),
  Clear({"args"}),
  Ask({"args"}, "keep"),
  System("croak"),
  System("croak")>>)

SunOS == Walk("croak", <<
  Copy({"base"}),
  Ask({"user"}, "skip"),
  Derive("user", {"args"}),
  Ask({"args"}, "keep"),
  Ask({"cred"}, "skip"),
  Ask({"session"}, "keep")>>)

\* get_process_owner(): what it fills is emptied first.
WindowsOwner == <<Read({"owner"}, "clear")>>

Windows == Snapshot("return", "return", <<
  Copy({"base"}),
  Clear({"start"}),
  Open("proc", "keep"),
  Read({"start"}, "keep")>>
  \o WindowsOwner \o <<
  Close("proc")>>)

\* The list is locked.  Only of a process without a parent is more asked.
WindowsCygwin == Walk("never", <<
  Copy({"base", "pname", "start"}),
  MayOpen("h", "skip"),
  Read({"pname"}, "clear"),
  Read({"start"}, "keep"),
  Close("h")>>)

\* get_task_info(): what is refused before task_threads() keeps the port; the
\* threads are given back in the loop over thval.  Without thval, STATE_MAX stays
\* the state, which is beyond States[], and an element of thval that
\* thread_info() did not fill is used all the same.
DarwinTask == <<
  Open("port", "keep"),
  Read({"task"}, "leave"),
  Read({"times"}, "leave"),
  Read({"priority"}, "leave"),
  Returning(Taking(Read({}, "leave"), "threads"), "port"),
  Returning(Freeing(Memory("thval", {"state"}, "lose"), "threads"), "port"),
  Returning(Freeing(Read({"state"}, "spoil"), "thval"), "thval"),
  Close("port")>>

\* getproclline(): the name in parentheses, or the arguments.
DarwinArgs == <<
  Taking(Derive("base", {"args"}), "command_name"),
  Ask({"args"}, "keep")>>

Darwin == Snapshot("return", "retry",
  <<Copy({"base"}), Clear({"task", "times", "priority", "state"})>>
  \o DarwinTask
  \o <<Case("base", {"state"}, "keep")>>
  \o DarwinArgs
  \o <<Freeing(Clear({}), "command_name")>>)
=============================================================================
