--------------------------- MODULE BackendFields ---------------------------
(***************************************************************************)
(* The format string, the field names and the argument list that each      *)
(* backend but Linux gives to bless_into_proc().  An argument is named by  *)
(* its structure member without the prefix all of them share; a member     *)
(* that without it would bear the name of a field it is not for keeps it.  *)
(***************************************************************************)
EXTENDS BlessIntoProc, StringTable, TLC

\* A format and the names of its letters; a letter is a string of length 1.
Table(letters, names) == [letters |-> letters, names |-> names]

\* An argument list; which of its members are texts, references to Perl
\* values, long longs and arrays.  All others are ints or longs.
Call(args, texts, refs, wides, arrays) ==
  [args |-> args, texts |-> texts, refs |-> refs, wides |-> wides,
   arrays |-> arrays]

-----------------------------------------------------------------------------
(* One block of the kernel's table, or all of it, by one system call *)

HPUXTable == Table(
  "llllllllllllllllsllssllllsllslllllllllllllllllllllSSSllllSSSll",
  <<"uid", "pid", "ppid", "dsize", "tsize", "ssize", "nice", "ttynum", "pgrp",
    "pri", "addr", "cpu", "utime", "stime", "start", "flag", "state", "wchan",
    "procnum", "cmndline", "fname", "time", "cpticks", "cptickstotal", "fss",
    "pctcpu", "rssize", "suid", "ucomm", "shmsize", "mmsize", "usize", "iosize",
    "vtsize", "vdsize", "vssize", "vshmsize", "vmmsize", "vusize", "viosize",
    "minorfaults", "majorfaults", "nswap", "nsignals", "msgrcv", "msgsnd",
    "maxrss", "sid", "schedpolicy", "ticksleft", "rdir", "cdir", "text",
    "highestfd", "euid", "egid", "ioch", "usercycles", "systemcycles",
    "interruptcycles", "gid", "lwpid">>)

HPUXCall == Call(
  <<"uid", "pid", "ppid", "dsize", "tsize", "ssize", "nice", "term", "pgrp",
    "pri", "addr", "cpu", "utime", "stime", "start", "flag", "stat", "wchan",
    "procnum", "cmd", "pst_ucomm", "cptickstotal/100", "cpticks", "cptickstotal",
    "fss", "buff", "rssize", "suid", "ucomm", "shmsize", "mmsize", "usize",
    "iosize", "vtsize", "vdsize", "vssize", "vshmsize", "vmmsize", "vusize",
    "viosize", "minorfaults", "majorfaults", "nswap", "nsignals", "msgrcv",
    "msgsnd", "maxrss", "sid", "schedpolicy", "ticksleft", "", "", "",
    "highestfd", "euid", "egid", "ioch", "", "", "", "gid", "lwpid">>,
  {"stat", "cmd", "pst_ucomm", "ucomm", "buff", ""}, {}, {}, {})

AixFullTable == Table(
  "llllllllsslsllllllllllllllllllllsss",
  <<"pid", "ppid", "sess", "pgrp", "uid", "suid", "priority", "nice", "pctcpu",
    "stat", "flags", "wchan", "wtype", "adspace", "majflt", "minflt", "size",
    "luid", "euid", "gid", "start", "utime", "stime", "cutime", "cstime", "tsize",
    "ttyp", "ttynum", "ttympx", "drss", "trss", "dvm", "pctmem", "comm",
    "cmndline">>)

AixFullCall == Call(
  <<"pid", "ppid", "sid", "pgrp", "uid", "suid", "pri", "nice", "pctcpu", "state",
    "flag", "wchan", "wtype", "adspace", "majflt", "minflt", "size", "luid",
    "ui_uid", "gid", "start", "utime", "stime", "cutime", "cstime", "tsize", "ttyp",
    "ttyd", "ttympx", "ui_drss", "ui_trss", "dvm", "pctmem", "Comm", "Args">>,
  {"pctcpu", "state", "wchan", "pctmem", "Comm", "Args"}, {}, {}, {})

AixZombTable == Table(
  "lllllllllslslllllll",
  <<"pid", "ppid", "sess", "pgrp", "uid", "suid", "priority", "nice", "pctcpu",
    "stat", "flags", "wchan", "wtype", "adspace", "majflt", "minflt", "utime",
    "stime", "size">>)

AixZombCall == Call(
  <<"pid", "ppid", "sid", "pgrp", "uid", "suid", "pri", "nice", "cpu", "state",
    "flag", "wchan", "wtype", "adspace", "majflt", "minflt", "utime", "stime",
    "size">>,
  {"state", "wchan"}, {}, {}, {})

GetprocsTable == Table(
  "iiiiiiiiiiiiisiiijjlllljjjiiijjjssss",
  <<"pid", "ppid", "sess", "pgrp", "uid", "suid", "luid", "euid", "gid", "egid",
    "priority", "nice", "thcount", "stat", "flags", "flags2", "adspace", "majflt",
    "minflt", "utime", "stime", "cutime", "cstime", "start", "size", "tsize",
    "ttyp", "ttynum", "ttympx", "drss", "trss", "dvm", "pctmem", "pctcpu", "comm",
    "cmndline">>)

GetprocsCall == Call(
  <<"pid", "ppid", "sid", "pgrp", "uid", "suid", "luid", "cr_uid", "cr_rgid",
    "cr_gid", "pri", "nice", "thcount", "state", "flags", "flags2", "adspace",
    "majflt", "minflt", "utime", "stime", "cutime", "cstime", "start", "size",
    "tsize", "ttyp", "ttyd", "ttympx", "drss", "trss", "dvm", "pctmem", "pctcpu",
    "comm", "cmndline">>,
  {"state", "pctmem", "pctcpu", "comm", "cmndline"}, {},
  {"majflt", "minflt", "start", "size", "tsize", "drss", "trss", "dvm"}, {})

BSDiTable == Table(
  "iiiiiisissssssls",
  <<"uid", "gid", "pid", "ppid", "pgrp", "priority", "sess", "leader", "time",
    "wchan", "fname", "state", "started", "ttydev", "ttynum", "cmndline">>)

BSDiCall == Call(
  <<"ruid", "rgid", "pid", "ppid", "pgid", "priority", "shortsess", "sesid",
    "cputime", "wmesg", "comm", "state", "started", "ttydev", "ttynum",
    "cmndline">>,
  {"shortsess", "cputime", "wmesg", "comm", "state", "started", "ttydev",
   "cmndline"}, {}, {}, {})


OpenBSDTable == Table(
  "liiiiiiiiiiiillssss",
  <<"ttynum", "uid", "gid", "euid", "egid", "pid", "ppid", "pgrp", "sess", "time",
    "utime", "stime", "start", "size", "rss", "fname", "state", "ttydev",
    "cmndline">>)

OpenBSDCall == Call(
  <<"ttynum", "ruid", "rgid", "p_uid", "p_gid", "pid", "ppid", "pgid", "sid",
    "rtime", "uutime", "ustime", "ustart", "vsize", "rss", "comm", "state",
    "ttydev", "cmndline">>,
  {"comm", "state", "ttydev", "cmndline"}, {}, {}, {})

KvmTable == Table(
  "iiiiiiiisssssssssssssissiiiuiiiiiiiiiiVV",
  <<"pid", "ppid", "uid", "euid", "gid", "pgrp", "sess", "jid", "flags", "sflags",
    "start", "time", "utime", "stime", "ctime", "cutime", "cstime", "pctcpu",
    "wchan", "state", "ttydev", "ttynum", "fname", "cmndline", "priority", "nice",
    "vmsize", "size", "rssize", "rss", "tsize", "dsize", "ssize", "majflt",
    "minflt", "cmajflt", "cminflt", "numthr", "onpro", "groups">>)

KvmCall == Call(
  <<"pid", "ppid", "ruid", "ki_uid", "rgid", "pgid", "sid", "jid", "flag", "sflag",
    "start", "time", "utime", "stime", "ctime", "cutime", "cstime", "pctcpu",
    "wmesg", "state", "??", "tdev", "comm", "cmndline", "pri_user", "nice",
    "ki_size", "size", "rssize", "rssize*pagesize", "tsize", "dsize", "ssize",
    "majflt", "minflt", "ch_majflt", "ch_minflt", "numthreads", "oncpu",
    "group_ref">>,
  {"flag", "sflag", "start", "time", "utime", "stime", "ctime", "cutime", "cstime",
   "pctcpu", "wmesg", "state", "??", "comm", "cmndline"},
  {"oncpu", "group_ref"}, {}, {})

SunOSTable == Table(
  "iiiiiiiiiiiiissllsiii",
  <<"uid", "gid", "euid", "egid", "pid", "ppid", "pgrp", "priority", "flags",
    "size", "rss", "nice", "time", "fname", "cmndline", "cpticks", "pctcpu",
    "state", "sess", "sid", "ttynum">>)

SunOSCall == Call(
  <<"ruid", "rgid", "cr_uid", "cr_gid", "pid", "ppid", "pgrp", "pri", "flag",
    "dsize+ssize", "rssize*4", "nice", "time", "fname", "cmdline", "cpticks",
    "pctcpu", "stat", "s_sid", "sid", "ttynum">>,
  {"fname", "cmdline", "stat"}, {}, {}, {})

\* TIME_IN_MICROSECONDS is defined.
DarwinTable == Table(
  "iiiiiiiiiiiiiiijjjllslsssss",
  <<"pid", "ppid", "pgrp", "uid", "gid", "euid", "egid", "suid", "sgid",
    "priority", "size", "rss", "flags", "nice", "sess", "time", "stime", "utime",
    "start", "wchan", "ttydev", "ttynum", "pctcpu", "pctmem", "state", "cmndline",
    "fname">>)

DarwinCall == Call(
  <<"pid", "ppid", "pgid", "ruid", "rgid", "cr_uid", "cr_gid", "svuid", "svgid",
    "curpri", "virtual_size/1024", "resident_size/1024", "flag", "nice", "e_sess",
    "total_time", "system_time", "user_time", "starttime", "wchan", "", "tdev",
    "pctcpu", "pctmem", "state", "command_name", "comm">>,
  {"", "pctcpu", "pctmem", "state", "command_name", "comm"}, {},
  {"total_time", "system_time", "user_time"}, {})

-----------------------------------------------------------------------------
(* A walk over /proc *)

FreeBSDTable == Table(
  "iiiiiissssssiisssiSI",
  <<"uid", "gid", "pid", "ppid", "pgrp", "sess", "flags", "utime", "stime", "time",
    "wchan", "start", "euid", "egid", "fname", "state", "ttydev", "ttynum",
    "cmndline", "priority">>)

FreeBSDCall == Call(
  <<"ruid", "rgid", "pid", "ppid", "pgid", "sid", "flags", "utime", "stime", "time",
    "wchan", "start", "euid", "egid", "comm", "wchan", "ttydev", "ttynum",
    "cmndline", "priority">>,
  {"flags", "utime", "stime", "time", "wchan", "start", "comm", "ttydev",
   "cmndline"}, {}, {}, {})

NetBSDTable == Table(
  "iiiiiissssssiisssis",
  <<"uid", "gid", "pid", "ppid", "pgrp", "sess", "flags", "utime", "stime", "time",
    "wchan", "start", "euid", "egid", "fname", "state", "ttydev", "ttynum",
    "cmndline">>)

NetBSDCall == Call(
  <<"ruid", "rgid", "pid", "ppid", "pgid", "sid", "flags", "utime", "stime", "time",
    "wchan", "start", "euid", "egid", "comm", "wchan", "ttydev", "ttynum",
    "cmndline">>,
  {"flags", "utime", "stime", "time", "wchan", "start", "comm", "ttydev",
   "cmndline"}, {}, {}, {})

IRIXTable == Table(
  "iiiiiiiilllllllllslsssss",
  <<"uid", "gid", "pid", "ppid", "spid", "pgrp", "sess", "cpuid", "priority",
    "ttynum", "flags", "time", "ctime", "qtime", "size", "rss", "wchan", "fname",
    "start", "pctcpu", "state", "pctmem", "cmndline", "clname">>)

IRIXCall == Call(
  <<"uid", "gid", "pid", "ppid", "spid", "pgrp", "sid", "sonproc", "pri", "ttydev",
    "flag", "time", "ctime", "qtime", "size", "rssize", "wchan", "fname", "start",
    "pctcpu", "state", "pctmem", "psargs", "clname">>,
  {"fname", "pctcpu", "state", "pctmem", "psargs", "clname"}, {}, {}, {})

UnixWareTable == Table(
  "iiiiiiiilllllllslsis",
  <<"uid", "gid", "pid", "ppid", "pgrp", "sess", "priority", "nice", "ttynum",
    "flags", "time", "timensec", "size", "rss", "wchan", "fname", "start", "state",
    "onpro", "cmndline">>)

UnixWareCall == Call(
  <<"uid", "gid", "pid", "ppid", "pgid", "sid", "pri", "nice", "ttydev", "flag",
    "time", "nsec", "size", "rssize", "wchan", "fname", "start", "state", "onpro",
    "psargs">>,
  {"fname", "state", "psargs"}, {}, {}, {})

\* With PROC_FS defined, and without.
SolarisTable(procfs) == Table(
  IF procfs THEN "iiiiiiiilllllliilllslssissi" ELSE "iiiiiiiilllllllllslssssi",
  <<"uid", "gid", "euid", "egid", "pid", "ppid", "pgrp", "sess", "priority",
    "nice", "ttynum", "flags", "time", "ctime">>
    \o (IF procfs THEN <<"timensec", "ctimensec">> ELSE <<>>)
    \o <<"size", "rss", "wchan", "fname", "start", "pctcpu", "state">>
    \o (IF procfs THEN <<"onpro">> ELSE <<>>)
    \o <<"pctmem", "cmndline", "numthr">>)

SolarisCall(procfs) == Call(
  <<"uid", "gid", "euid", "egid", "pid", "ppid",
    IF procfs THEN "pgid" ELSE "pgrp", "sid", "pri", "nice", "ttydev", "flag",
    "time", "ctime">>
    \o (IF procfs THEN <<"nsec", "ctime_nsec">> ELSE <<>>)
    \o <<"size", "rssize", "wchan", "fname", "start", "pctcpu", "state">>
    \o (IF procfs THEN <<"onpro">> ELSE <<>>)
    \o <<"pctmem", "psargs", "numthr">>,
  {"fname", "pctcpu", "state", "pctmem", "psargs"}, {}, {}, {})

DecOSFTable == Table(
  "iiiiiiViiiilllllllssss",
  <<"uid", "gid", "euid", "egid", "suid", "sgid", "groups", "pid", "ppid", "pgrp",
    "sess", "priority", "ttynum", "flags", "time", "size", "rss", "start", "fname",
    "pctcpu", "state", "cmndline">>)

DecOSFCall == Call(
  <<"uid", "gid", "euid", "egid", "suid", "sgid", "group_ref", "pid", "ppid",
    "pgrp", "sid", "pri", "ttydev", "flag", "time", "size", "rssize", "start",
    "fname", "pctcpu", "state", "psargs">>,
  {"fname", "pctcpu", "state", "psargs"}, {"group_ref"}, {}, {})

-----------------------------------------------------------------------------
(* Windows *)

\* Built for Cygwin (USE_CYGWIN), whose start is ignored without the newer
\* query, and built for Windows itself.
WindowsTable(cygwin, newer) ==
  IF cygwin
  THEN Table(IF newer THEN "iiiiisiis" ELSE "iiiiisIis",
             <<"uid", "pid", "ppid", "pgid", "winpid", "fname", "start", "ttynum",
               "state">>)
  ELSE Table("pppslsss",
             <<"uid", "pid", "ppid", "fname", "start", "sid", "user_name",
               "domain_name">>)

WindowsCygwinCall == Call(
  <<"uid", "pid", "ppid", "pgid", "dwProcessId", "pname", "start_time", "ctty",
    "pstate">>,
  {"pname", "pstate"}, {}, {}, {})

WindowsCall == Call(
  <<"uid", "th32ProcessID", "th32ParentProcessID", "szExeFile", "start_time",
    "string_sid", "user_name", "domain_name">>,
  {"szExeFile", "string_sid", "user_name", "domain_name"}, {}, {}, {})

\* Cygwin.h is Linux.h without wchan and tracer, with two fields of its own:
\* strings[] as its texts, with the place where each starts.
CygwinFormat == "IIISIIIILLLLLJJJJIJPLJJSIIIIIISSSSSAASI"

CygwinNames ==
  <<"uid", "gid", "pid", "fname", "ppid", "pgrp", "sess", "ttynum", "flags",
    "minflt", "cminflt", "majflt", "cmajflt", "utime", "stime", "cutime", "cstime",
    "priority", "start", "size", "rss", "time", "ctime", "state", "euid", "suid",
    "fuid", "egid", "sgid", "fgid", "pctcpu", "pctmem", "cmndline", "exec", "cwd",
    "cmdline", "environ", "winexename", "winpid">>

CygwinStates == <<"sleep", "run", "defunct", "stop", "uwait">>

CygwinStrings ==
  CygwinStates \o <<"/proc unavailable", "initialization failed">> \o CygwinNames \o <<CygwinFormat>>

CygwinIndex ==
  <<0, 6, 10, 18, 23, 29, 47, 69, 73, 77, 81, 87, 92, 97, 102, 109, 115, 122, 130,
    137, 145, 151, 157, 164, 171, 180, 186, 191, 195, 200, 206, 212, 217, 222, 227,
    232, 237, 242, 249, 256, 265, 270, 274, 282, 290, 301, 308>>

CygwinNameOffsets ==
  <<69, 73, 77, 81, 87, 92, 97, 102, 109, 115, 122, 130, 137, 145, 151, 157, 164,
    171, 180, 186, 191, 195, 200, 206, 212, 217, 222, 227, 232, 237, 242, 249, 256,
    265, 270, 274, 282, 290, 301>>

\* The enums state and string_name, as far as get_string() is called with them.
CygwinState == [SLEEP |-> 0, RUN |-> 1, DEFUNCT |-> 2, STOP |-> 3, UWAIT |-> 4]

CygwinStringName == [ERR_PROC_STATFS |-> 5, ERR_INIT |-> 6, DEFAULT_FORMAT |-> 46]

CygwinText(offset) == TextAt(CygwinStrings, offset)

cygwin_get_string(elem) == CygwinText(CygwinIndex[elem + 1])

cygwin_state(c) ==
  CASE c = "S" -> CygwinState.SLEEP
    [] c \in {"O", "R"} -> CygwinState.RUN
    [] c = "Z" -> CygwinState.DEFUNCT
    [] c = "D" -> CygwinState.UWAIT
    [] c = "T" -> CygwinState.STOP

CygwinFieldNames == TextsAt(CygwinStrings, CygwinNameOffsets)

CygwinTable ==
  Table(cygwin_get_string(CygwinStringName.DEFAULT_FORMAT), CygwinFieldNames)

CygwinCall == Call(
  <<"uid", "gid", "pid", "comm", "ppid", "pgrp", "sid", "tty", "flags", "minflt",
    "cminflt", "majflt", "cmajflt", "utime", "stime", "cutime", "cstime",
    "priority", "start_time", "vsize", "rss", "time", "ctime", "state", "euid",
    "suid", "fuid", "egid", "sgid", "fgid", "pctcpu", "pctmem", "cmndline", "exec",
    "cwd", "cmdline", "environ", "winexename", "winpid">>,
  {"comm", "state", "pctcpu", "pctmem", "cmndline", "exec", "cwd", "winexename"}, {},
  {"utime", "stime", "cutime", "cstime", "start_time", "time", "ctime"},
  {"cmdline", "environ"})

\* The enum field: its members number the names.
CygwinF ==
  [uid |-> 0, gid |-> 1, pid |-> 2, rss |-> 20, time |-> 21, ctime |-> 22,
   state |-> 23, euid |-> 24, fuid |-> 26, egid |-> 27, fgid |-> 29, pctcpu |-> 30,
   pctmem |-> 31, cmndline |-> 32, exec |-> 33, cwd |-> 34, cmdline |-> 35,
   environ |-> 36, winexename |-> 37, winpid |-> 38]

CygwinReaders ==
  {"user", "stat", "state", "times", "euid", "egid", "cmndline", "cmdline",
   "environ", "cwd", "exec", "winexename", "winpid", "pctcpu", "pctmem"}

CygwinScanned(reader) ==
  CASE reader = "user" -> {"uid", "gid"}
    [] reader = "stat" -> {"pid", "comm", "ppid", "pgrp", "sid", "tty", "flags",
                           "minflt", "cminflt", "majflt", "cmajflt", "utime",
                           "stime", "cutime", "cstime", "priority", "start_time",
                           "vsize", "rss"}
    [] reader = "times" -> {"time", "ctime"}
    [] reader = "euid" -> {"euid", "suid", "fuid"}
    [] reader = "egid" -> {"egid", "sgid", "fgid"}
    [] OTHER -> {reader}

\* field_enable() and field_enable_range(), by the reader that calls it.
CygwinEnabled(reader) ==
  CASE reader = "user" -> {CygwinF.uid, CygwinF.gid}
    [] reader = "stat" -> CygwinF.pid..CygwinF.rss
    [] reader = "times" -> CygwinF.time..CygwinF.ctime
    [] reader = "euid" -> CygwinF.euid..CygwinF.fuid
    [] reader = "egid" -> CygwinF.egid..CygwinF.fgid
    [] OTHER -> {CygwinF[reader]}

-----------------------------------------------------------------------------
(* Properties *)

Backends ==
  [HPUX |-> HPUXTable @@ HPUXCall,
   AixFull |-> AixFullTable @@ AixFullCall,
   AixZomb |-> AixZombTable @@ AixZombCall,
   Getprocs |-> GetprocsTable @@ GetprocsCall,
   BSDi |-> BSDiTable @@ BSDiCall,
   OpenBSD |-> OpenBSDTable @@ OpenBSDCall,
   Kvm |-> KvmTable @@ KvmCall,
   SunOS |-> SunOSTable @@ SunOSCall,
   Darwin |-> DarwinTable @@ DarwinCall,
   FreeBSD |-> FreeBSDTable @@ FreeBSDCall,
   NetBSD |-> NetBSDTable @@ NetBSDCall,
   IRIX |-> IRIXTable @@ IRIXCall,
   UnixWare |-> UnixWareTable @@ UnixWareCall,
   SolarisProcfs |-> SolarisTable(TRUE) @@ SolarisCall(TRUE),
   Solaris |-> SolarisTable(FALSE) @@ SolarisCall(FALSE),
   DecOSF |-> DecOSFTable @@ DecOSFCall,
   WindowsCygwin |-> WindowsTable(TRUE, TRUE) @@ WindowsCygwinCall,
   WindowsCygwinOld |-> WindowsTable(TRUE, FALSE) @@ WindowsCygwinCall,
   Windows |-> WindowsTable(FALSE, FALSE) @@ WindowsCall,
   Cygwin |-> CygwinTable @@ CygwinCall]

TypesOf(b, arg) ==
  CASE arg \in b.arrays -> <<"pointer", "int">>
    [] arg \in b.texts \cup b.refs -> <<"pointer">>
    [] arg \in b.wides -> <<"longlong">>
    [] OTHER -> <<"int">>

\* The fields of one call, where the letters at the places in found are lower
\* case, as they all are but Cygwin's.
BackendFieldsOf(b, found) ==
  [i \in DOMAIN b.args |->
     LET letter == SubSeq(b.letters, i, i)
     IN  Field(b.names[i], LowerOf(letter), letter = LowerOf(letter) \/ i \in found,
               TypesOf(b, b.args[i]))]

\* As many letters and names as arguments; no name twice; a pointer to text
\* is formatted as text and a reference as a value; an argument called like a
\* field is that field's.
Aligned(b) ==
  /\ Len(b.letters) = Len(b.args) /\ Len(b.names) = Len(b.args)
  /\ IsInjective(b.names)
  /\ \A i \in DOMAIN b.args :
       LET letter == LowerOf(SubSeq(b.letters, i, i))
       IN  /\ b.args[i] \in b.texts <=> letter = "s"
           /\ b.args[i] \in b.refs <=> letter = "V"
           /\ b.args[i] \in b.arrays <=> letter = "a"
           /\ b.names[i] \in Range(b.args) => b.args[i] = b.names[i]

\* The text behind a placeholder for ttydev is what the lookup of ttynum finds:
\* the placeholder is stored before the lookup.
PlaceholderFirst(b) ==
  \A i, j \in DOMAIN b.args :
    b.names[i] = "ttydev" /\ b.args[i] \in {"", "??"} /\ b.names[j] = "ttynum" => i < j

\* The members of the kernel's structures that are passed for several fields.
Repeated(b) ==
  {b.args[i] : i \in {k \in DOMAIN b.args :
                        \E j \in 1..(k - 1) : b.args[j] = b.args[k]}} \ {""}

\* With int as wide as long each value of each backend gets under its name.
BackendInStep(b, found) ==
  /\ Aligned(b)
  /\ InStep(BackendFieldsOf(b, found), "ilp32")
  /\ PlaceholderFirst(b)

\* Cygwin's offsets are the starts of its texts and its letters are enabled
\* for exactly what was scanned.
CygwinInStep(readers) ==
  LET found == {f + 1 : f \in UNION {CygwinEnabled(r) : r \in readers}}
      scanned == UNION {CygwinScanned(r) : r \in readers}
  IN  /\ BackendInStep(Backends.Cygwin, found)
      /\ CygwinIndex = StartsOf(CygwinStrings)
      /\ CygwinTable.names = CygwinNames
      /\ \A i \in DOMAIN CygwinCall.args :
           i \in found <=> CygwinCall.args[i] \in scanned
=============================================================================
