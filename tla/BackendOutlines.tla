-------------------------- MODULE BackendOutlines --------------------------
(***************************************************************************)
(* Outlines of the programs of the backends: what the proofs of a scan     *)
(* need to know of each of them, access by access.  That they keep to it   *)
(* is looked up here, once for each of the eighteen, so that nothing else  *)
(* depends on which backend runs.                                          *)
(***************************************************************************)
EXTENDS BackendScan, TLAPS

-----------------------------------------------------------------------------
(* Outlines of the programs.  Counting accesses, an outline says            *)
(*   opened, closed  from which to which a process is surely at hand        *)
(*   filled          from which on a group has a value of the entry's       *)
(*   base            which gets the pid, unless it is refused               *)
(*   kept            from which to which something taken may be held        *)

Outline(opened, closed, filled, base, kept) ==
  [opened |-> opened, closed |-> closed, filled |-> filled, base |-> base,
   kept |-> kept]

Nothing == <<>>

Outlines == [
  Solaris |-> Outline(2, 4, Nothing, 3, [psdata |-> <<2, 4>>]),
  Solaris25 |-> Outline(2, 4, [base |-> 3], 3, [psdata |-> <<2, 4>>]),
  UnixWare |-> Outline(1, 3, Nothing, 2, [psdata |-> <<1, 3>>]),
  IRIX |-> Outline(1, 3, [base |-> 2], 2, [psdata |-> <<1, 3>>]),
  FreeBSD |-> Outline(2, 4, [base |-> 1], 3, [fp |-> <<2, 4>>]),
  NetBSD |-> Outline(2, 4, [base |-> 1], 3, [fp |-> <<2, 4>>]),
  Cygwin |-> Outline(0, 0, [g \in CygwinGroups |-> 1], 3, Nothing),
  HPUX |-> Outline(0, 0, [base |-> 1], 1, Nothing),
  DecOSF |-> Outline(1, 6, [base |-> 2, cred |-> 3, groups |-> 5], 2,
                     [psdata |-> <<1, 6>>, psgroups |-> <<4, 8>>]),
  AIX |-> Outline(0, 0, [base |-> 1, user |-> 4, args |-> 5], 1, Nothing),
  Getprocs |-> Outline(0, 0, [base |-> 1, args |-> 2, state |-> 2, euid |-> 7], 1,
                       Nothing),
  BSDi |-> Outline(0, 0, [base |-> 1, args |-> 4], 1, Nothing),
  OpenBSD |-> Outline(0, 0, [base |-> 1, args |-> 2], 1, Nothing),
  FreeBSDKvm |-> Outline(0, 0, [base |-> 1, args |-> 2], 1, Nothing),
  SunOS |-> Outline(0, 0, [base |-> 1, user |-> 2, args |-> 3, cred |-> 5], 1, Nothing),
  Windows |-> Outline(0, 0, [base |-> 1, start |-> 2], 1, [proc |-> <<3, 6>>]),
  WindowsCygwin |-> Outline(0, 0, [base |-> 1, pname |-> 1, start |-> 1], 1,
                            [h |-> <<2, 5>>]),
  Darwin |-> Outline(0, 0, [base |-> 1, task |-> 2, times |-> 2, priority |-> 2,
                            args |-> 12], 1, Nothing)]

\* Before access i ...
HandSure(o, i) == o.opened < i /\ i <= o.closed
Provided(o, i, g) == g \in DOMAIN o.filled /\ o.filled[g] < i
HasBase(o, i) == o.base < i
Pending(o, i, x) == x \in DOMAIN o.kept /\ o.kept[x][1] < i /\ i <= o.kept[x][2]

\* What an access may take, and what only DEC OSF holds longer than the process
\* is at hand.
Things == {"psdata", "psgroups", "fp", "proc", "h", "port", "threads", "thval",
           "command_name"}
Later == {"psgroups"}

\* The backends that croak for want of the table, those that give an entry up
\* with its descriptor open, and those that may take what is in a buffer for
\* something new.
Croaking == {"BSDi", "OpenBSD", "FreeBSDKvm"}
Losing == {"Solaris25", "IRIX", "DecOSF"}
Stale == {"Solaris", "UnixWare", "DecOSF"}

\* An access keeps to the outline: the process at hand ...
SoundHand(a, o, b, i) ==
  /\ i = o.opened => a.way = "open" /\ a.refused = "skip"
  /\ o.opened < i /\ i < o.closed => a.way # "close" /\ a.refused \notin {"leave", "lose"}

\* ... the groups that have a value of the entry's ...
SoundValues(a, o, b, i) ==
  /\ a.way \in {"set", "case", "pid", "gone"} =>
       a.from \in {"entry", "nothing", "base"} \cup DOMAIN o.filled
  /\ a.way \in {"set", "case"} =>
       \/ a.from \in {"entry", "nothing"}
       \/ a.from \notin Leftover(b) /\ Provided(o, i, a.from)
       \/ a.gets \subseteq Leftover(b)
  /\ a.way = "pid" => a.from = "entry" \/ a.gets \subseteq Leftover(b)
  /\ a.refused \in {"spoil", "lose"} => a.gets \subseteq Leftover(b)
  /\ \A g \in DOMAIN o.filled : o.filled[g] = i =>
       /\ g \in a.gets
       /\ \/ a.way = "set"
          \/ /\ a.refused \in {"skip", "brief"}
             /\ a.way = "pid" \/ (a.way = "read" /\ HandSure(o, i))

\* ... the pid, which no record is without ...
SoundBase(a, o, b, i) ==
  /\ i = o.base =>
       /\ "base" \in a.gets
       /\ \/ a.way \in {"set", "pid"} /\ a.from = "entry"
          \/ a.way = "read" /\ HandSure(o, i)
  /\ o.base < i \/ a.refused = "hide" => "base" \notin a.gets
  /\ b \in Croaking /\ "base" \in a.gets => a.way = "set"
  /\ a.refused = "brief" => b = "AIX" /\ Provided(o, i, "base") /\ HasBase(o, i)
  /\ a.refused = "croak" => b = "FreeBSDKvm"

\* ... and what is held, which is nothing, or the descriptor, when the entry is
\* given up.  darwin's ports are another matter.
SoundHeld(a, o, b, i) ==
  /\ a.takes \subseteq Things
  /\ b # "Darwin" =>
       /\ \A x \in a.takes :
            /\ x \in DOMAIN o.kept /\ o.kept[x][1] = i /\ i < o.kept[x][2]
            /\ a.way \in {"open", "attempt"} \/ x \in Later
       /\ \A x \in DOMAIN o.kept :
            /\ o.kept[x][2] = i =>
                 x \in a.frees /\ a.way = IF x \in Later THEN "set" ELSE "close"
            /\ a.way = "close" /\ x \notin Later => o.kept[x][2] = i
            /\ a.refused = "skip" /\ Pending(o, i, x) =>
                 x \in a.returns \/ (b \in Losing /\ x = "psdata")
            /\ a.refused = "brief" => ~Pending(o, i, x)
       /\ a.refused \notin {"leave", "lose"}

\* DEC OSF's groups come through one descriptor, HP-UX's and IRIX's are one.
SoundSingle(a, o, b, i) ==
  /\ b \in {"HPUX", "IRIX"} => a.gets \subseteq {"base"} \cup Leftover(b)
  /\ b = "DecOSF" =>
       /\ \/ a.way = "read" /\ a.refused = "skip" /\ HandSure(o, i)
          \/ a.way = "set" /\ a.from \notin {"entry", "nothing"} /\ a.gets = {a.from}
          \/ a.gets \subseteq Leftover(b)
       /\ a.way \in {"open", "attempt"} => i = 1
       /\ a.way = "close" => Provided(o, i, "base")

SoundAccess(a, o, b, i) ==
  /\ SoundHand(a, o, b, i)
  /\ SoundValues(a, o, b, i)
  /\ SoundBase(a, o, b, i)
  /\ SoundHeld(a, o, b, i)
  /\ SoundSingle(a, o, b, i)

\* Every group a record may show is filled, or has a capital letter until it is.
SoundGroups(scan, o, b, i) ==
  scan.accesses[i].gets \subseteq Leftover(b) \cup scan.capitals \cup DOMAIN o.filled

Keeps(scan, b, i) ==
  /\ SoundAccess(scan.accesses[i], Outlines[b], b, i)
  /\ SoundGroups(scan, Outlines[b], b, i)

Sound(scan, b) == \A i \in 1..Len(scan.accesses) : Keeps(scan, b, i)

\* The same of the program as a whole, n accesses long.
SoundEnd(o, b, n) ==
  /\ o.opened \in Nat /\ o.closed \in Nat
  /\ o.opened = 0 => o.closed = 0
  /\ o.base \in 1..n
  /\ \A g \in DOMAIN o.filled : o.filled[g] \in 1..n
  /\ \A x \in DOMAIN o.kept : o.kept[x][1] \in Nat /\ o.kept[x][2] \in 0..n
  /\ IF "base" \in Leftover(b) THEN b \in {"Solaris", "UnixWare"}
     ELSE "base" \in DOMAIN o.filled

Whole(scan, b) ==
  /\ Len(scan.accesses) \in Nat \ {0}
  /\ DOMAIN scan.accesses = 1..Len(scan.accesses)
  /\ SoundEnd(Outlines[b], b, Len(scan.accesses))
  /\ scan.source \in {"names", "blocks", "slots"}
  /\ scan.size \in Nat \ {0}
  /\ scan.source = "blocks" => scan.until \in {"one", "empty", "short"}
  /\ scan.source = "slots" <=> b = "DecOSF"
  /\ b = "DecOSF" => scan.size = Block /\ scan.until = "all" /\ scan.capitals = {}
  /\ scan.unfetched = "proceed" => b = "DecOSF"
  /\ b \in Croaking => scan.unopened = "croak" /\ scan.unfetched = "croak"
  /\ scan.unopened = "forget" => b = "Cygwin"
  /\ scan.letters = "each" \/ scan.capitals = {}
  /\ b \in Losing => scan.until # "one"

-----------------------------------------------------------------------------
(* Every program keeps to its outline *)

USE DEF SoundEnd, SoundGroups, SoundAccess, SoundHand, SoundValues, SoundBase,
        SoundHeld, SoundSingle, HandSure, Provided, HasBase, Pending, Things,
        Later, Croaking, Losing, Outlines, Outline, Nothing, Leftover, Access

LEMMA SolarisKeeps ==
  /\ Whole(Solaris, "Solaris") /\ Sound(Solaris, "Solaris")
<1>1. Len(Solaris.accesses) = 5 /\ DOMAIN Solaris.accesses = 1..5
  BY DEF Solaris, Directory, Scan
<1>2. Whole(Solaris, "Solaris")
  BY <1>1, ProgramsAssumption DEF Whole, Solaris, Directory, Scan
<1>a1. Keeps(Solaris, "Solaris", 1)
  BY DEF Keeps, Solaris, Directory, Scan, Ask
<1>a2. Keeps(Solaris, "Solaris", 2)
  BY DEF Keeps, Solaris, Directory, Scan, Open
<1>a3. Keeps(Solaris, "Solaris", 3)
  BY DEF Keeps, Solaris, Directory, Scan, Read
<1>a4. Keeps(Solaris, "Solaris", 4)
  BY DEF Keeps, Solaris, Directory, Scan, Close
<1>a5. Keeps(Solaris, "Solaris", 5)
  BY DEF Keeps, Solaris, Directory, Scan, Case
<1> QED
  BY <1>1, <1>2, <1>a1, <1>a2, <1>a3, <1>a4, <1>a5 DEF Sound

LEMMA Solaris25Keeps ==
  /\ Whole(Solaris25, "Solaris25") /\ Sound(Solaris25, "Solaris25")
<1>1. Len(Solaris25.accesses) = 5 /\ DOMAIN Solaris25.accesses = 1..5
  BY DEF Solaris25, Directory, Scan
<1>2. Whole(Solaris25, "Solaris25")
  BY <1>1, ProgramsAssumption DEF Whole, Solaris25, Directory, Scan
<1>a1. Keeps(Solaris25, "Solaris25", 1)
  BY DEF Keeps, Solaris25, Directory, Scan, Ask
<1>a2. Keeps(Solaris25, "Solaris25", 2)
  BY DEF Keeps, Solaris25, Directory, Scan, Open
<1>a3. Keeps(Solaris25, "Solaris25", 3)
  BY DEF Keeps, Solaris25, Directory, Scan, Read
<1>a4. Keeps(Solaris25, "Solaris25", 4)
  BY DEF Keeps, Solaris25, Directory, Scan, Close
<1>a5. Keeps(Solaris25, "Solaris25", 5)
  BY DEF Keeps, Solaris25, Directory, Scan, Case
<1> QED
  BY <1>1, <1>2, <1>a1, <1>a2, <1>a3, <1>a4, <1>a5 DEF Sound

LEMMA UnixWareKeeps ==
  /\ Whole(UnixWare, "UnixWare") /\ Sound(UnixWare, "UnixWare")
<1>1. Len(UnixWare.accesses) = 4 /\ DOMAIN UnixWare.accesses = 1..4
  BY DEF UnixWare, Directory, Scan
<1>2. Whole(UnixWare, "UnixWare")
  BY <1>1, ProgramsAssumption DEF Whole, UnixWare, Directory, Scan
<1>a1. Keeps(UnixWare, "UnixWare", 1)
  BY DEF Keeps, UnixWare, Directory, Scan, Open
<1>a2. Keeps(UnixWare, "UnixWare", 2)
  BY DEF Keeps, UnixWare, Directory, Scan, Read
<1>a3. Keeps(UnixWare, "UnixWare", 3)
  BY DEF Keeps, UnixWare, Directory, Scan, Close
<1>a4. Keeps(UnixWare, "UnixWare", 4)
  BY DEF Keeps, UnixWare, Directory, Scan, Case
<1> QED
  BY <1>1, <1>2, <1>a1, <1>a2, <1>a3, <1>a4 DEF Sound

LEMMA IRIXKeeps ==
  /\ Whole(IRIX, "IRIX") /\ Sound(IRIX, "IRIX")
<1>1. Len(IRIX.accesses) = 4 /\ DOMAIN IRIX.accesses = 1..4
  BY DEF IRIX, Directory, Scan
<1>2. Whole(IRIX, "IRIX")
  BY <1>1, ProgramsAssumption DEF Whole, IRIX, Directory, Scan
<1>a1. Keeps(IRIX, "IRIX", 1)
  BY DEF Keeps, IRIX, Directory, Scan, Open
<1>a2. Keeps(IRIX, "IRIX", 2)
  BY DEF Keeps, IRIX, Directory, Scan, Read
<1>a3. Keeps(IRIX, "IRIX", 3)
  BY DEF Keeps, IRIX, Directory, Scan, Close
<1>a4. Keeps(IRIX, "IRIX", 4)
  BY DEF Keeps, IRIX, Directory, Scan, Case
<1> QED
  BY <1>1, <1>2, <1>a1, <1>a2, <1>a3, <1>a4 DEF Sound

LEMMA FreeBSDKeeps ==
  /\ Whole(FreeBSD, "FreeBSD") /\ Sound(FreeBSD, "FreeBSD")
<1>1. Len(FreeBSD.accesses) = 6 /\ DOMAIN FreeBSD.accesses = 1..6
  BY DEF FreeBSD, Directory, Capital, FreeBSDStatus, Scan
<1>2. Whole(FreeBSD, "FreeBSD")
  BY <1>1, ProgramsAssumption DEF Whole, FreeBSD, Directory, Capital, FreeBSDStatus, Scan
<1>a1. Keeps(FreeBSD, "FreeBSD", 1)
  BY DEF Keeps, FreeBSD, Directory, Capital, FreeBSDStatus, Scan, Clear
<1>a2. Keeps(FreeBSD, "FreeBSD", 2)
  BY DEF Keeps, FreeBSD, Directory, Capital, FreeBSDStatus, Scan, Open
<1>a3. Keeps(FreeBSD, "FreeBSD", 3)
  BY DEF Keeps, FreeBSD, Directory, Capital, FreeBSDStatus, Scan, Read
<1>a4. Keeps(FreeBSD, "FreeBSD", 4)
  BY DEF Keeps, FreeBSD, Directory, Capital, FreeBSDStatus, Scan, Close
<1>a5. Keeps(FreeBSD, "FreeBSD", 5)
  BY DEF Keeps, FreeBSD, Directory, Capital, FreeBSDStatus, Scan, Ask
<1>a6. Keeps(FreeBSD, "FreeBSD", 6)
  BY DEF Keeps, FreeBSD, Directory, Capital, FreeBSDStatus, Scan, AskFor
<1> QED
  BY <1>1, <1>2, <1>a1, <1>a2, <1>a3, <1>a4, <1>a5, <1>a6 DEF Sound

LEMMA NetBSDKeeps ==
  /\ Whole(NetBSD, "NetBSD") /\ Sound(NetBSD, "NetBSD")
<1>1. Len(NetBSD.accesses) = 5 /\ DOMAIN NetBSD.accesses = 1..5
  BY DEF NetBSD, Directory, NetBSDStatus, Scan
<1>2. Whole(NetBSD, "NetBSD")
  BY <1>1, ProgramsAssumption DEF Whole, NetBSD, Directory, NetBSDStatus, Scan
<1>a1. Keeps(NetBSD, "NetBSD", 1)
  BY DEF Keeps, NetBSD, Directory, NetBSDStatus, Scan, Clear
<1>a2. Keeps(NetBSD, "NetBSD", 2)
  BY DEF Keeps, NetBSD, Directory, NetBSDStatus, Scan, Open
<1>a3. Keeps(NetBSD, "NetBSD", 3)
  BY DEF Keeps, NetBSD, Directory, NetBSDStatus, Scan, Read
<1>a4. Keeps(NetBSD, "NetBSD", 4)
  BY DEF Keeps, NetBSD, Directory, NetBSDStatus, Scan, Close
<1>a5. Keeps(NetBSD, "NetBSD", 5)
  BY DEF Keeps, NetBSD, Directory, NetBSDStatus, Scan, Ask
<1> QED
  BY <1>1, <1>2, <1>a1, <1>a2, <1>a3, <1>a4, <1>a5 DEF Sound

LEMMA CygwinKeeps ==
  /\ Whole(Cygwin, "Cygwin") /\ Sound(Cygwin, "Cygwin")
<1>1. Len(Cygwin.accesses) = 9 /\ DOMAIN Cygwin.accesses = 1..9
  BY DEF Cygwin, Directory, Capital, CygwinGroups, CygwinStat, CygwinStatus,
     CygwinWindows, Forgetful, Scan
<1>2. Whole(Cygwin, "Cygwin")
  BY <1>1, ProgramsAssumption DEF Whole, Cygwin, Directory, Capital, CygwinGroups,
     CygwinStat, CygwinStatus, CygwinWindows, Forgetful, Scan
<1>a1. Keeps(Cygwin, "Cygwin", 1)
  BY DEF Keeps, Cygwin, Directory, Capital, CygwinGroups, CygwinStat, CygwinStatus,
     CygwinWindows, Forgetful, Scan, Clear
<1>a2. Keeps(Cygwin, "Cygwin", 2)
  BY DEF Keeps, Cygwin, Directory, Capital, CygwinGroups, CygwinStat, CygwinStatus,
     CygwinWindows, Forgetful, Scan, Ask
<1>a3. Keeps(Cygwin, "Cygwin", 3)
  <2>1. Cygwin.accesses[3] = Ask({"base", "read_ok"}, "part") /\ Cygwin.capitals = CygwinGroups
    BY DEF Cygwin, Directory, Capital, CygwinGroups, CygwinStat, CygwinStatus,
       CygwinWindows, Forgetful, Scan
  <2> QED
    BY <2>1 DEF Keeps, Ask, CygwinGroups
<1>a4. Keeps(Cygwin, "Cygwin", 4)
  <2>1. Cygwin.accesses[4] = StillThere("read_ok", "skip") /\ Cygwin.capitals = CygwinGroups
    BY DEF Cygwin, Directory, Capital, CygwinGroups, CygwinStat, CygwinStatus,
       CygwinWindows, Forgetful, Scan
  <2> QED
    BY <2>1 DEF Keeps, StillThere, CygwinGroups
<1>a5. Keeps(Cygwin, "Cygwin", 5)
  <2>1. Cygwin.accesses[5] = Case("base", {"state"},
                                           "keep") /\ Cygwin.capitals = CygwinGroups
    BY DEF Cygwin, Directory, Capital, CygwinGroups, CygwinStat, CygwinStatus,
       CygwinWindows, Forgetful, Scan
  <2> QED
    BY <2>1 DEF Keeps, Case, CygwinGroups
<1>a6. Keeps(Cygwin, "Cygwin", 6)
  <2>1. Cygwin.accesses[6] = Derive("base", {"times"}) /\ Cygwin.capitals = CygwinGroups
    BY DEF Cygwin, Directory, Capital, CygwinGroups, CygwinStat, CygwinStatus,
       CygwinWindows, Forgetful, Scan
  <2> QED
    BY <2>1 DEF Keeps, Derive, CygwinGroups
<1>a7. Keeps(Cygwin, "Cygwin", 7)
  <2>1. Cygwin.accesses[7] = Ask({"files"}, "keep") /\ Cygwin.capitals = CygwinGroups
    BY DEF Cygwin, Directory, Capital, CygwinGroups, CygwinStat, CygwinStatus,
       CygwinWindows, Forgetful, Scan
  <2> QED
    BY <2>1 DEF Keeps, Ask, CygwinGroups
<1>a8. Keeps(Cygwin, "Cygwin", 8)
  <2>1. Cygwin.accesses[8] = Ask({"ids"}, "keep") /\ Cygwin.capitals = CygwinGroups
    BY DEF Cygwin, Directory, Capital, CygwinGroups, CygwinStat, CygwinStatus,
       CygwinWindows, Forgetful, Scan
  <2> QED
    BY <2>1 DEF Keeps, Ask, CygwinGroups
<1>a9. Keeps(Cygwin, "Cygwin", 9)
  <2>1. Cygwin.accesses[9] = Ask({"windows"}, "keep") /\ Cygwin.capitals = CygwinGroups
    BY DEF Cygwin, Directory, Capital, CygwinGroups, CygwinStat, CygwinStatus,
       CygwinWindows, Forgetful, Scan
  <2> QED
    BY <2>1 DEF Keeps, Ask, CygwinGroups
<1> QED
  BY <1>1, <1>2, <1>a1, <1>a2, <1>a3, <1>a4, <1>a5, <1>a6, <1>a7, <1>a8, <1>a9 DEF Sound

LEMMA HPUXKeeps ==
  /\ Whole(HPUX, "HPUX") /\ Sound(HPUX, "HPUX")
<1>1. Len(HPUX.accesses) = 1 /\ DOMAIN HPUX.accesses = 1..1
  BY DEF HPUX, Scan
<1>2. Whole(HPUX, "HPUX")
  BY <1>1, ProgramsAssumption DEF Whole, HPUX, Scan
<1>a1. Keeps(HPUX, "HPUX", 1)
  BY DEF Keeps, HPUX, Scan, Copy
<1> QED
  BY <1>1, <1>2, <1>a1 DEF Sound

LEMMA DecOSFKeeps ==
  /\ Whole(DecOSF, "DecOSF") /\ Sound(DecOSF, "DecOSF")
<1>1. Len(DecOSF.accesses) = 8 /\ DOMAIN DecOSF.accesses = 1..8
  BY DEF DecOSF, Scan
<1>2. Whole(DecOSF, "DecOSF")
  BY <1>1, ProgramsAssumption DEF Whole, DecOSF, Scan
<1>a1. Keeps(DecOSF, "DecOSF", 1)
  BY DEF Keeps, DecOSF, Scan, Open
<1>a2. Keeps(DecOSF, "DecOSF", 2)
  BY DEF Keeps, DecOSF, Scan, Read
<1>a3. Keeps(DecOSF, "DecOSF", 3)
  BY DEF Keeps, DecOSF, Scan, Read
<1>a4. Keeps(DecOSF, "DecOSF", 4)
  BY DEF Keeps, DecOSF, Scan, Memory
<1>a5. Keeps(DecOSF, "DecOSF", 5)
  BY DEF Keeps, DecOSF, Scan, Returning, Read
<1>a6. Keeps(DecOSF, "DecOSF", 6)
  BY DEF Keeps, DecOSF, Scan, Close
<1>a7. Keeps(DecOSF, "DecOSF", 7)
  BY DEF Keeps, DecOSF, Scan, Case
<1>a8. Keeps(DecOSF, "DecOSF", 8)
  BY DEF Keeps, DecOSF, Scan, Freeing, Derive
<1> QED
  BY <1>1, <1>2, <1>a1, <1>a2, <1>a3, <1>a4, <1>a5, <1>a6, <1>a7, <1>a8 DEF Sound

LEMMA AIXKeeps ==
  /\ Whole(AIX, "AIX") /\ Sound(AIX, "AIX")
<1>1. Len(AIX.accesses) = 6 /\ DOMAIN AIX.accesses = 1..6
  BY DEF AIX, FormatOnce, Scan
<1>2. Whole(AIX, "AIX")
  BY <1>1, ProgramsAssumption DEF Whole, AIX, FormatOnce, Scan
<1>a1. Keeps(AIX, "AIX", 1)
  BY DEF Keeps, AIX, FormatOnce, Scan, Copy
<1>a2. Keeps(AIX, "AIX", 2)
  BY DEF Keeps, AIX, FormatOnce, Scan, Case
<1>a3. Keeps(AIX, "AIX", 3)
  BY DEF Keeps, AIX, FormatOnce, Scan, Case
<1>a4. Keeps(AIX, "AIX", 4)
  BY DEF Keeps, AIX, FormatOnce, Scan, Ask
<1>a5. Keeps(AIX, "AIX", 5)
  BY DEF Keeps, AIX, FormatOnce, Scan, Derive
<1>a6. Keeps(AIX, "AIX", 6)
  BY DEF Keeps, AIX, FormatOnce, Scan, Ask
<1> QED
  BY <1>1, <1>2, <1>a1, <1>a2, <1>a3, <1>a4, <1>a5, <1>a6 DEF Sound

LEMMA GetprocsKeeps ==
  /\ Whole(Getprocs, "Getprocs") /\ Sound(Getprocs, "Getprocs")
<1>1. Len(Getprocs.accesses) = 8 /\ DOMAIN Getprocs.accesses = 1..8
  BY DEF Getprocs, BlessProcs, Scan
<1>2. Whole(Getprocs, "Getprocs")
  BY <1>1, ProgramsAssumption DEF Whole, Getprocs, BlessProcs, Scan
<1>a1. Keeps(Getprocs, "Getprocs", 1)
  BY DEF Keeps, Getprocs, BlessProcs, Scan, Copy
<1>a2. Keeps(Getprocs, "Getprocs", 2)
  BY DEF Keeps, Getprocs, BlessProcs, Scan, Clear
<1>a3. Keeps(Getprocs, "Getprocs", 3)
  BY DEF Keeps, Getprocs, BlessProcs, Scan, Case
<1>a4. Keeps(Getprocs, "Getprocs", 4)
  BY DEF Keeps, Getprocs, BlessProcs, Scan, Case
<1>a5. Keeps(Getprocs, "Getprocs", 5)
  BY DEF Keeps, Getprocs, BlessProcs, Scan, Derive
<1>a6. Keeps(Getprocs, "Getprocs", 6)
  BY DEF Keeps, Getprocs, BlessProcs, Scan, Ask
<1>a7. Keeps(Getprocs, "Getprocs", 7)
  BY DEF Keeps, Getprocs, BlessProcs, Scan, Clear
<1>a8. Keeps(Getprocs, "Getprocs", 8)
  BY DEF Keeps, Getprocs, BlessProcs, Scan, Case
<1> QED
  BY <1>1, <1>2, <1>a1, <1>a2, <1>a3, <1>a4, <1>a5, <1>a6, <1>a7, <1>a8 DEF Sound

LEMMA BSDiKeeps ==
  /\ Whole(BSDi, "BSDi") /\ Sound(BSDi, "BSDi")
<1>1. Len(BSDi.accesses) = 5 /\ DOMAIN BSDi.accesses = 1..5
  BY DEF BSDi, Snapshot, Scan
<1>2. Whole(BSDi, "BSDi")
  BY <1>1, ProgramsAssumption DEF Whole, BSDi, Snapshot, Scan
<1>a1. Keeps(BSDi, "BSDi", 1)
  BY DEF Keeps, BSDi, Snapshot, Scan, Copy
<1>a2. Keeps(BSDi, "BSDi", 2)
  BY DEF Keeps, BSDi, Snapshot, Scan, Ask
<1>a3. Keeps(BSDi, "BSDi", 3)
  BY DEF Keeps, BSDi, Snapshot, Scan, Ask
<1>a4. Keeps(BSDi, "BSDi", 4)
  BY DEF Keeps, BSDi, Snapshot, Scan, Clear
<1>a5. Keeps(BSDi, "BSDi", 5)
  BY DEF Keeps, BSDi, Snapshot, Scan, Ask
<1> QED
  BY <1>1, <1>2, <1>a1, <1>a2, <1>a3, <1>a4, <1>a5 DEF Sound

LEMMA OpenBSDKeeps ==
  /\ Whole(OpenBSD, "OpenBSD") /\ Sound(OpenBSD, "OpenBSD")
<1>1. Len(OpenBSD.accesses) = 3 /\ DOMAIN OpenBSD.accesses = 1..3
  BY DEF OpenBSD, Snapshot, Scan
<1>2. Whole(OpenBSD, "OpenBSD")
  BY <1>1, ProgramsAssumption DEF Whole, OpenBSD, Snapshot, Scan
<1>a1. Keeps(OpenBSD, "OpenBSD", 1)
  BY DEF Keeps, OpenBSD, Snapshot, Scan, Copy
<1>a2. Keeps(OpenBSD, "OpenBSD", 2)
  BY DEF Keeps, OpenBSD, Snapshot, Scan, Clear
<1>a3. Keeps(OpenBSD, "OpenBSD", 3)
  BY DEF Keeps, OpenBSD, Snapshot, Scan, Ask
<1> QED
  BY <1>1, <1>2, <1>a1, <1>a2, <1>a3 DEF Sound

LEMMA FreeBSDKvmKeeps ==
  /\ Whole(FreeBSDKvm, "FreeBSDKvm") /\ Sound(FreeBSDKvm, "FreeBSDKvm")
<1>1. Len(FreeBSDKvm.accesses) = 5 /\ DOMAIN FreeBSDKvm.accesses = 1..5
  BY DEF FreeBSDKvm, Snapshot, Scan
<1>2. Whole(FreeBSDKvm, "FreeBSDKvm")
  BY <1>1, ProgramsAssumption DEF Whole, FreeBSDKvm, Snapshot, Scan
<1>a1. Keeps(FreeBSDKvm, "FreeBSDKvm", 1)
  BY DEF Keeps, FreeBSDKvm, Snapshot, Scan, Copy
<1>a2. Keeps(FreeBSDKvm, "FreeBSDKvm", 2)
  BY DEF Keeps, FreeBSDKvm, Snapshot, Scan, Clear
<1>a3. Keeps(FreeBSDKvm, "FreeBSDKvm", 3)
  BY DEF Keeps, FreeBSDKvm, Snapshot, Scan, Ask
<1>a4. Keeps(FreeBSDKvm, "FreeBSDKvm", 4)
  BY DEF Keeps, FreeBSDKvm, Snapshot, Scan, System
<1>a5. Keeps(FreeBSDKvm, "FreeBSDKvm", 5)
  BY DEF Keeps, FreeBSDKvm, Snapshot, Scan, System
<1> QED
  BY <1>1, <1>2, <1>a1, <1>a2, <1>a3, <1>a4, <1>a5 DEF Sound

LEMMA SunOSKeeps ==
  /\ Whole(SunOS, "SunOS") /\ Sound(SunOS, "SunOS")
<1>1. Len(SunOS.accesses) = 6 /\ DOMAIN SunOS.accesses = 1..6
  BY DEF SunOS, Walk, Scan
<1>2. Whole(SunOS, "SunOS")
  BY <1>1, ProgramsAssumption DEF Whole, SunOS, Walk, Scan
<1>a1. Keeps(SunOS, "SunOS", 1)
  BY DEF Keeps, SunOS, Walk, Scan, Copy
<1>a2. Keeps(SunOS, "SunOS", 2)
  BY DEF Keeps, SunOS, Walk, Scan, Ask
<1>a3. Keeps(SunOS, "SunOS", 3)
  BY DEF Keeps, SunOS, Walk, Scan, Derive
<1>a4. Keeps(SunOS, "SunOS", 4)
  BY DEF Keeps, SunOS, Walk, Scan, Ask
<1>a5. Keeps(SunOS, "SunOS", 5)
  BY DEF Keeps, SunOS, Walk, Scan, Ask
<1>a6. Keeps(SunOS, "SunOS", 6)
  BY DEF Keeps, SunOS, Walk, Scan, Ask
<1> QED
  BY <1>1, <1>2, <1>a1, <1>a2, <1>a3, <1>a4, <1>a5, <1>a6 DEF Sound

LEMMA WindowsKeeps ==
  /\ Whole(Windows, "Windows") /\ Sound(Windows, "Windows")
<1>1. Len(Windows.accesses) = 6 /\ DOMAIN Windows.accesses = 1..6
  BY DEF Windows, Snapshot, WindowsOwner, Scan
<1>2. Whole(Windows, "Windows")
  BY <1>1, ProgramsAssumption DEF Whole, Windows, Snapshot, WindowsOwner, Scan
<1>a1. Keeps(Windows, "Windows", 1)
  BY DEF Keeps, Windows, Snapshot, WindowsOwner, Scan, Copy
<1>a2. Keeps(Windows, "Windows", 2)
  BY DEF Keeps, Windows, Snapshot, WindowsOwner, Scan, Clear
<1>a3. Keeps(Windows, "Windows", 3)
  BY DEF Keeps, Windows, Snapshot, WindowsOwner, Scan, Open
<1>a4. Keeps(Windows, "Windows", 4)
  BY DEF Keeps, Windows, Snapshot, WindowsOwner, Scan, Read
<1>a5. Keeps(Windows, "Windows", 5)
  BY DEF Keeps, Windows, Snapshot, WindowsOwner, Scan, Read
<1>a6. Keeps(Windows, "Windows", 6)
  BY DEF Keeps, Windows, Snapshot, WindowsOwner, Scan, Close
<1> QED
  BY <1>1, <1>2, <1>a1, <1>a2, <1>a3, <1>a4, <1>a5, <1>a6 DEF Sound

LEMMA WindowsCygwinKeeps ==
  /\ Whole(WindowsCygwin, "WindowsCygwin") /\ Sound(WindowsCygwin, "WindowsCygwin")
<1>1. Len(WindowsCygwin.accesses) = 5 /\ DOMAIN WindowsCygwin.accesses = 1..5
  BY DEF WindowsCygwin, Walk, Scan
<1>2. Whole(WindowsCygwin, "WindowsCygwin")
  BY <1>1, ProgramsAssumption DEF Whole, WindowsCygwin, Walk, Scan
<1>a1. Keeps(WindowsCygwin, "WindowsCygwin", 1)
  BY DEF Keeps, WindowsCygwin, Walk, Scan, Copy
<1>a2. Keeps(WindowsCygwin, "WindowsCygwin", 2)
  <2>1. WindowsCygwin.accesses[2] = MayOpen("h", "skip") /\ WindowsCygwin.capitals = {}
    BY DEF WindowsCygwin, Walk, Scan
  <2> QED
    BY <2>1 DEF Keeps, MayOpen, Open
<1>a3. Keeps(WindowsCygwin, "WindowsCygwin", 3)
  BY DEF Keeps, WindowsCygwin, Walk, Scan, Read
<1>a4. Keeps(WindowsCygwin, "WindowsCygwin", 4)
  BY DEF Keeps, WindowsCygwin, Walk, Scan, Read
<1>a5. Keeps(WindowsCygwin, "WindowsCygwin", 5)
  BY DEF Keeps, WindowsCygwin, Walk, Scan, Close
<1> QED
  BY <1>1, <1>2, <1>a1, <1>a2, <1>a3, <1>a4, <1>a5 DEF Sound

LEMMA DarwinKeeps ==
  /\ Whole(Darwin, "Darwin") /\ Sound(Darwin, "Darwin")
<1>1. Len(Darwin.accesses) = 14 /\ DOMAIN Darwin.accesses = 1..14
  BY DEF Darwin, Snapshot, DarwinTask, DarwinArgs, Scan
<1>2. Whole(Darwin, "Darwin")
  BY <1>1, ProgramsAssumption DEF Whole, Darwin, Snapshot, DarwinTask, DarwinArgs, Scan
<1>a1. Keeps(Darwin, "Darwin", 1)
  BY DEF Keeps, Darwin, Snapshot, DarwinTask, DarwinArgs, Scan, Copy
<1>a2. Keeps(Darwin, "Darwin", 2)
  BY DEF Keeps, Darwin, Snapshot, DarwinTask, DarwinArgs, Scan, Clear
<1>a3. Keeps(Darwin, "Darwin", 3)
  <2>1. Darwin.accesses[3] = Open("port", "keep") /\ Darwin.capitals = {}
    BY DEF Darwin, Snapshot, DarwinTask, DarwinArgs, Scan
  <2> QED
    BY <2>1 DEF Keeps, Open
<1>a4. Keeps(Darwin, "Darwin", 4)
  <2>1. Darwin.accesses[4] = Read({"task"}, "leave") /\ Darwin.capitals = {}
    BY DEF Darwin, Snapshot, DarwinTask, DarwinArgs, Scan
  <2> QED
    BY <2>1 DEF Keeps, Read
<1>a5. Keeps(Darwin, "Darwin", 5)
  <2>1. Darwin.accesses[5] = Read({"times"}, "leave") /\ Darwin.capitals = {}
    BY DEF Darwin, Snapshot, DarwinTask, DarwinArgs, Scan
  <2> QED
    BY <2>1 DEF Keeps, Read
<1>a6. Keeps(Darwin, "Darwin", 6)
  <2>1. Darwin.accesses[6] = Read({"priority"}, "leave") /\ Darwin.capitals = {}
    BY DEF Darwin, Snapshot, DarwinTask, DarwinArgs, Scan
  <2> QED
    BY <2>1 DEF Keeps, Read
<1>a7. Keeps(Darwin, "Darwin", 7)
  <2>1. /\ Darwin.accesses[7] = Returning(Taking(Read({}, "leave"), "threads"), "port")
        /\ Darwin.capitals = {}
    BY DEF Darwin, Snapshot, DarwinTask, DarwinArgs, Scan
  <2> QED
    BY <2>1 DEF Keeps, Returning, Taking, Read
<1>a8. Keeps(Darwin, "Darwin", 8)
  <2>1. /\ Darwin.accesses[8] =
             Returning(Freeing(Memory("thval", {"state"}, "lose"), "threads"), "port")
        /\ Darwin.capitals = {}
    BY DEF Darwin, Snapshot, DarwinTask, DarwinArgs, Scan
  <2> QED
    BY <2>1 DEF Keeps, Returning, Freeing, Memory
<1>a9. Keeps(Darwin, "Darwin", 9)
  <2>1. /\ Darwin.accesses[9] =
             Returning(Freeing(Read({"state"}, "spoil"), "thval"), "thval")
        /\ Darwin.capitals = {}
    BY DEF Darwin, Snapshot, DarwinTask, DarwinArgs, Scan
  <2> QED
    BY <2>1 DEF Keeps, Returning, Freeing, Read
<1>a10. Keeps(Darwin, "Darwin", 10)
  <2>1. Darwin.accesses[10] = Close("port") /\ Darwin.capitals = {}
    BY DEF Darwin, Snapshot, DarwinTask, DarwinArgs, Scan
  <2> QED
    BY <2>1 DEF Keeps, Close
<1>a11. Keeps(Darwin, "Darwin", 11)
  BY DEF Keeps, Darwin, Snapshot, DarwinTask, DarwinArgs, Scan, Case
<1>a12. Keeps(Darwin, "Darwin", 12)
  BY DEF Keeps, Darwin, Snapshot, DarwinTask, DarwinArgs, Scan, Taking, Derive
<1>a13. Keeps(Darwin, "Darwin", 13)
  BY DEF Keeps, Darwin, Snapshot, DarwinTask, DarwinArgs, Scan, Ask
<1>a14. Keeps(Darwin, "Darwin", 14)
  BY DEF Keeps, Darwin, Snapshot, DarwinTask, DarwinArgs, Scan, Freeing, Clear
<1> QED
  BY <1>1, <1>2, <1>a1, <1>a2, <1>a3, <1>a4, <1>a5, <1>a6, <1>a7, <1>a8, <1>a9,
     <1>a10, <1>a11, <1>a12, <1>a13, <1>a14 DEF Sound

HIDE DEF SoundEnd, SoundGroups, SoundAccess, SoundHand, SoundValues, SoundBase,
         SoundHeld, SoundSingle, HandSure, Provided, HasBase, Pending, Things,
         Later, Croaking, Losing, Outlines, Outline, Nothing, Leftover, Access

\* Whichever backend runs, its program keeps to its outline.
LEMMA ProgramKeeps ==
  ASSUME NEW b \in Backends
  PROVE  Whole(Program[b], b) /\ Sound(Program[b], b)
<1>1. b \in {"Solaris", "Solaris25", "UnixWare", "IRIX", "FreeBSD", "NetBSD",
             "Cygwin", "HPUX", "DecOSF", "AIX", "Getprocs", "BSDi", "OpenBSD",
             "FreeBSDKvm", "SunOS", "Windows", "WindowsCygwin", "Darwin"}
  BY BackendsAssumption DEF Program
<1>Solaris. CASE b = "Solaris"
  <2>1. Program[b] = Solaris
    BY <1>Solaris DEF Program
  <2> QED
    BY <1>Solaris, <2>1, SolarisKeeps
<1>Solaris25. CASE b = "Solaris25"
  <2>1. Program[b] = Solaris25
    BY <1>Solaris25 DEF Program
  <2> QED
    BY <1>Solaris25, <2>1, Solaris25Keeps
<1>UnixWare. CASE b = "UnixWare"
  <2>1. Program[b] = UnixWare
    BY <1>UnixWare DEF Program
  <2> QED
    BY <1>UnixWare, <2>1, UnixWareKeeps
<1>IRIX. CASE b = "IRIX"
  <2>1. Program[b] = IRIX
    BY <1>IRIX DEF Program
  <2> QED
    BY <1>IRIX, <2>1, IRIXKeeps
<1>FreeBSD. CASE b = "FreeBSD"
  <2>1. Program[b] = FreeBSD
    BY <1>FreeBSD DEF Program
  <2> QED
    BY <1>FreeBSD, <2>1, FreeBSDKeeps
<1>NetBSD. CASE b = "NetBSD"
  <2>1. Program[b] = NetBSD
    BY <1>NetBSD DEF Program
  <2> QED
    BY <1>NetBSD, <2>1, NetBSDKeeps
<1>Cygwin. CASE b = "Cygwin"
  <2>1. Program[b] = Cygwin
    BY <1>Cygwin DEF Program
  <2> QED
    BY <1>Cygwin, <2>1, CygwinKeeps
<1>HPUX. CASE b = "HPUX"
  <2>1. Program[b] = HPUX
    BY <1>HPUX DEF Program
  <2> QED
    BY <1>HPUX, <2>1, HPUXKeeps
<1>DecOSF. CASE b = "DecOSF"
  <2>1. Program[b] = DecOSF
    BY <1>DecOSF DEF Program
  <2> QED
    BY <1>DecOSF, <2>1, DecOSFKeeps
<1>AIX. CASE b = "AIX"
  <2>1. Program[b] = AIX
    BY <1>AIX DEF Program
  <2> QED
    BY <1>AIX, <2>1, AIXKeeps
<1>Getprocs. CASE b = "Getprocs"
  <2>1. Program[b] = Getprocs
    BY <1>Getprocs DEF Program
  <2> QED
    BY <1>Getprocs, <2>1, GetprocsKeeps
<1>BSDi. CASE b = "BSDi"
  <2>1. Program[b] = BSDi
    BY <1>BSDi DEF Program
  <2> QED
    BY <1>BSDi, <2>1, BSDiKeeps
<1>OpenBSD. CASE b = "OpenBSD"
  <2>1. Program[b] = OpenBSD
    BY <1>OpenBSD DEF Program
  <2> QED
    BY <1>OpenBSD, <2>1, OpenBSDKeeps
<1>FreeBSDKvm. CASE b = "FreeBSDKvm"
  <2>1. Program[b] = FreeBSDKvm
    BY <1>FreeBSDKvm DEF Program
  <2> QED
    BY <1>FreeBSDKvm, <2>1, FreeBSDKvmKeeps
<1>SunOS. CASE b = "SunOS"
  <2>1. Program[b] = SunOS
    BY <1>SunOS DEF Program
  <2> QED
    BY <1>SunOS, <2>1, SunOSKeeps
<1>Windows. CASE b = "Windows"
  <2>1. Program[b] = Windows
    BY <1>Windows DEF Program
  <2> QED
    BY <1>Windows, <2>1, WindowsKeeps
<1>WindowsCygwin. CASE b = "WindowsCygwin"
  <2>1. Program[b] = WindowsCygwin
    BY <1>WindowsCygwin DEF Program
  <2> QED
    BY <1>WindowsCygwin, <2>1, WindowsCygwinKeeps
<1>Darwin. CASE b = "Darwin"
  <2>1. Program[b] = Darwin
    BY <1>Darwin DEF Program
  <2> QED
    BY <1>Darwin, <2>1, DarwinKeeps
<1> QED
  BY <1>1, <1>Solaris, <1>Solaris25, <1>UnixWare, <1>IRIX, <1>FreeBSD, <1>NetBSD,
     <1>Cygwin, <1>HPUX, <1>DecOSF, <1>AIX, <1>Getprocs, <1>BSDi, <1>OpenBSD,
     <1>FreeBSDKvm, <1>SunOS, <1>Windows, <1>WindowsCygwin, <1>Darwin
=============================================================================
