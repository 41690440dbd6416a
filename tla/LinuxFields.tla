---------------------------- MODULE LinuxFields ----------------------------
(***************************************************************************)
(* The tables of os/Linux.h that must stay in step: the strings, the two   *)
(* tables of offsets into them, the enums that index those, the format     *)
(* letters and the arguments OS_get_table() passes to bless_into_proc().   *)
(***************************************************************************)
EXTENDS BlessIntoProc, StringTable

\* strings[]: the words of the states, two error messages, the names, and the
\* format, whose letters are upper case at first.
StateStrings == <<"sleep", "wait", "run", "idle", "defunct", "stop", "uwait",
                  "dead", "wakekill", "tracingstop">>

\* the spelling mended, the offsets forgotten
ErrorStrings_Mended == <<"/proc unavailable", "initialization failed">>

ErrorStrings == <<"/proc unavailable", "intilization failed">>
NameStrings == <<"uid", "gid", "pid", "fname", "ppid", "pgrp", "sess", "ttynum",
                 "flags", "minflt", "cminflt", "majflt", "cmajflt", "utime",
                 "stime", "cutime", "cstime", "priority", "start", "size", "rss",
                 "wchan", "time", "ctime", "state", "euid", "suid", "fuid", "egid",
                 "sgid", "fgid", "pctcpu", "pctmem", "cmndline", "exec", "cwd",
                 "cmdline", "environ", "tracer">>
FormatLetters == "IIISIIIILLLLLJJJJIJPLLJJSIIIIIISSSSSAAI"

strings == StateStrings \o ErrorStrings \o NameStrings \o <<FormatLetters>>

\* The bytes at which they start, as the header has them.
strings_index ==
  <<0, 6, 11, 15, 20, 28, 33, 39, 44, 53, 65, 83, 103, 107, 111, 115, 121,
    126, 131, 136, 143, 149, 156, 164, 171, 179, 185, 191, 198, 205, 214,
    220, 225, 229, 235, 240, 246, 252, 257, 262, 267, 272, 277, 282, 289,
    296, 305, 310, 314, 322, 330, 337>>

field_names ==
  <<103, 107, 111, 115, 121, 126, 131, 136, 143, 149, 156, 164, 171, 179,
    185, 191, 198, 205, 214, 220, 225, 229, 235, 240, 246, 252, 257, 262,
    267, 272, 277, 282, 289, 296, 305, 310, 314, 322, 330>>

\* The enums state, which starts at 0, and string_name, which starts at 10, as
\* far as get_string() is called with them.
StateEnum == <<"SLEEP", "WAIT", "RUN", "IDLE", "DEFUNCT", "STOP", "UWAIT", "DEAD",
               "WAKEKILL", "TRACINGSTOP", "PARKED">>
StringName == [ERR_PROC_STATFS |-> 10, DEFAULT_FORMAT |-> 51]

get_string(elem) == TextAt(strings, strings_index[elem + 1])

\* What bless_into_proc() is given for names, and the format it walks.
FieldNames == TextsAt(strings, field_names)
DefaultFormat == get_string(StringName.DEFAULT_FORMAT)

\* The enum field, which starts at 0: the place of a field's letter.
FieldEnum == <<"UID", "GID", "PID", "FNAME", "PPID", "PGRP", "SESS", "TTYNUM",
               "FLAGS", "MINFLT", "CMINFLT", "MAJFLT", "CMAJFLT", "UTIME", "STIME",
               "CUTIME", "CSTIME", "PRIORITY", "START", "SIZE", "RSS", "WCHAN",
               "TIME", "CTIME", "STATE", "EUID", "SUID", "FUID", "EGID", "SGID",
               "FGID", "PCTCPU", "PCTMEM", "CMNDLINE", "EXEC", "CWD", "CMDLINE",
               "ENVIRON", "TRACER">>

\* The members of *prs that are passed, in order, with their types.
Members == <<"uid", "gid", "pid", "comm", "ppid", "pgrp", "sid", "tty",
             "flags", "minflt", "cminflt", "majflt", "cmajflt", "utime", "stime",
             "cutime", "cstime", "priority", "start_time", "vsize", "rss", "wchan",
             "time", "ctime", "state", "euid", "suid", "fuid", "egid", "sgid",
             "fgid", "pctcpu", "pctmem", "cmndline", "exec", "cwd", "cmdline",
             "environ", "tracer">>

MemberTypes(member) ==
  CASE member \in {"cmdline", "environ"} -> <<"pointer", "int">>
    [] member \in {"comm", "state", "pctcpu", "pctmem", "cmndline", "exec", "cwd"}
         -> <<"pointer">>
    [] member \in {"minflt", "cminflt", "majflt", "cmajflt", "priority", "vsize",
                   "rss", "wchan"} -> <<"long">>
    [] member \in {"utime", "stime", "cutime", "cstime", "start_time", "time", "ctime"}
         -> <<"longlong">>
    [] OTHER -> <<"int">>

F(name) == CHOOSE i \in DOMAIN FieldEnum : FieldEnum[i] = name

\* What each reader scans into *prs, and the fields it enables.
Readers == {"user", "stat", "state", "times", "euid", "egid", "tracer", "cmndline",
            "cmdline", "environ", "cwd", "exec", "pctcpu", "pctmem"}

Scanned(reader) ==
  CASE reader = "user" -> {"uid", "gid"}
    [] reader = "stat" -> {"pid", "comm", "ppid", "pgrp", "sid", "tty", "flags",
                           "minflt", "cminflt", "majflt", "cmajflt", "utime",
                           "stime", "cutime", "cstime", "priority", "start_time",
                           "vsize", "rss", "wchan"}
    [] reader = "times" -> {"time", "ctime"}
    [] reader = "euid" -> {"euid", "suid", "fuid"}
    [] reader = "egid" -> {"egid", "sgid", "fgid"}
    [] OTHER -> {reader}

Enabled(reader) ==
  CASE reader = "user" -> F("UID")..F("GID")
    [] reader = "stat" -> F("PID")..F("WCHAN")
    [] reader = "state" -> {F("STATE")}
    [] reader = "times" -> F("TIME")..F("CTIME")
    [] reader = "euid" -> F("EUID")..F("FUID")
    [] reader = "egid" -> F("EGID")..F("FGID")
    [] reader = "tracer" -> {F("TRACER")}
    [] reader = "cmndline" -> {F("CMNDLINE")}
    [] reader = "cmdline" -> {F("CMDLINE")}
    [] reader = "environ" -> {F("ENVIRON")}
    [] reader = "cwd" -> {F("CWD")}
    [] reader = "exec" -> {F("EXEC")}
    [] reader = "pctcpu" -> {F("PCTCPU")}
    [] reader = "pctmem" -> {F("PCTMEM")}

\* The record of a process of which only these readers got something.
LinuxFieldsOf(readers) ==
  [i \in DOMAIN Members |->
     Field(FieldNames[i], LowerOf(SubSeq(DefaultFormat, i, i)),
           \E r \in readers : i \in Enabled(r), MemberTypes(Members[i]))]

\* fixup_stat_values(): the letter of /proc/${pid}/stat to the enum state.
StateLetters == {"S", "W", "R", "I", "Z", "D", "T", "H", "x", "X", "K", "t", "P"}

state_of(c) ==
  CASE c = "S" -> "SLEEP"
    [] c = "W" -> "WAIT"
    [] c = "R" -> "RUN"
    [] c = "I" -> "IDLE"
    [] c = "Z" -> "DEFUNCT"
    [] c = "D" -> "UWAIT"
    [] c \in {"T", "H"} -> "STOP"
    [] c \in {"x", "X"} -> "DEAD"
    [] c = "K" -> "WAKEKILL"
    [] c = "t" -> "TRACINGSTOP"
    [] c = "P" -> "PARKED"

state_string(c) ==
  get_string((CHOOSE i \in DOMAIN StateEnum : StateEnum[i] = state_of(c)) - 1)

-----------------------------------------------------------------------------
(* Properties *)

\* Where the field's name is not the member's.
NameOf(member) ==
  CASE member = "comm" -> "fname"
    [] member = "sid" -> "sess"
    [] member = "tty" -> "ttynum"
    [] member = "start_time" -> "start"
    [] member = "vsize" -> "size"
    [] OTHER -> member

\* The hash of a Linux process: each name has the member it stands for, and
\* is defined exactly if a reader scanned that member; and the header's offsets
\* are where its texts start.
LinuxRecord(readers, abi) ==
  /\ InStep(LinuxFieldsOf(readers), abi)
  /\ Len(DefaultFormat) = Len(Members) /\ Len(FieldNames) = Len(Members)
  /\ \A i \in DOMAIN Members : FieldNames[i] = NameOf(Members[i])
  /\ \A i \in DOMAIN Members :
       LinuxFieldsOf(readers)[i].lower
         <=> \E r \in readers : Members[i] \in Scanned(r)
  /\ strings_index = StartsOf(strings)
  /\ get_string(StringName.ERR_PROC_STATFS) = "/proc unavailable"

\* ttydev is there when ttynum is.
LinuxTtydev(readers, abi) ==
  Bless(LinuxFieldsOf(readers), abi).ttydev <=> "stat" \in readers

\* Linux.h: the enum of strings starts at 10 so that the enum state can be
\* used, "and have those correspond to the static strings".
StateIsWord(c) == state_string(c) \in Range(StateStrings)
=============================================================================
