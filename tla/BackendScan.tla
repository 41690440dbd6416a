---------------------------- MODULE BackendScan ----------------------------
(***************************************************************************)
(* OS_get_table() of every backend but Linux's: one scan, as its program   *)
(* in BackendPrograms says, while the processes it reports exit and fork.  *)
(*                                                                         *)
(* A process is a pair of its slot in the kernel's table, which stands for *)
(* its pid too, and of how often that slot has been used.  Where a         *)
(* variable of the scan has its value from is all that is kept of it.      *)
(***************************************************************************)
EXTENDS BackendPrograms, FiniteSets, FiniteSetsExt, SequencesExt

CONSTANTS
  Backends,   \* the backends to run
  MaxInUse,   \* bound: processes there are before the scan
  MaxForks,   \* bound: processes created during the scan
  MaxTries    \* bound: retries of a refused fetch, for 1000

ASSUME ScanAssumption ==
  /\ MaxInUse \in Nat
  /\ MaxForks \in Nat
  /\ MaxTries \in Nat

VARIABLES
  uses,      \* how often a slot has been used, and whether it is in use
  forks,     \* processes created so far
  steady,    \* slots of processes alive since the scan was opened
  listed,    \* slots whose name the directory may yield
  backend,   \* which OS_get_table() this is
  pc,        \* where it is
  open,      \* is the directory, descriptor, lock or buffer of the scan held?
  room,      \* processes the buffer of a snapshot was sized for
  tries,     \* refused fetches
  index,     \* where the next block begins
  seen,      \* slots whose name the directory has yielded
  block,     \* the entries fetched last
  look,      \* the position in block to look at next
  more,      \* may there be another block?
  entry,     \* the entry in hand
  step,      \* its next access
  hand,      \* the process at hand, if any
  held,      \* what was taken for the entry and not given back
  val,       \* whose value each group holds
  lower,     \* groups whose letter is lower case
  brief,     \* is the record the short one?
  table,     \* the pids reported so far
  lost,      \* history: things taken and forgotten
  dropped,   \* history: slots given up because the kernel refused
  unread     \* history: was an entry refused, or the access that gives its pid?

Table == 1..Slots

\* What is no process: an emptied variable, an uninitialised one, and the
\* caller itself.
Nobody == <<0, 0>>
Garbage == <<0, 1>>
Self == <<0, 2>>

Program == [
  Solaris |-> Solaris, Solaris25 |-> Solaris25, UnixWare |-> UnixWare,
  IRIX |-> IRIX, FreeBSD |-> FreeBSD, NetBSD |-> NetBSD, Cygwin |-> Cygwin,
  HPUX |-> HPUX, DecOSF |-> DecOSF, AIX |-> AIX, Getprocs |-> Getprocs,
  BSDi |-> BSDi, OpenBSD |-> OpenBSD, FreeBSDKvm |-> FreeBSDKvm,
  SunOS |-> SunOS, Windows |-> Windows, WindowsCygwin |-> WindowsCygwin,
  Darwin |-> Darwin]

ASSUME BackendsAssumption == Backends \subseteq DOMAIN Program

ScanOf == Program[backend]
Groups == UNION {ScanOf.accesses[i].gets : i \in DOMAIN ScanOf.accesses}

Alive(s) == uses[s].now
Process(s) == <<s, uses[s].times>>
InUse == {s \in Table : Alive(s)}

kernel == <<uses, forks, steady, listed>>
fetching == <<open, room, tries, index, seen, block, look, more>>
record == <<entry, step, hand, held, val, lower, brief>>
history == <<lost, dropped, unread>>
vars == <<kernel, backend, pc, fetching, record, table, history>>

Ended == {"done", "croaked"}

\* The slots of a directory are all alike.
Init ==
  /\ backend \in Backends
  /\ uses \in [Table -> {[times |-> 0, now |-> FALSE], [times |-> 1, now |-> TRUE]}]
  /\ Cardinality(InUse) <= MaxInUse
  /\ ScanOf.source = "names" => InUse = 1..Cardinality(InUse)
  /\ forks = 0
  /\ steady = {}
  /\ listed = {}
  /\ pc = "start"
  /\ open = FALSE
  /\ room = 0
  /\ tries = 0
  /\ index = 1
  /\ seen = {}
  /\ block = IF ScanOf.source = "slots" THEN [i \in 1..Block |-> Garbage] ELSE <<>>
  /\ look = 1
  /\ more = TRUE
  /\ entry = Nobody
  /\ step = 1
  /\ hand = Nobody
  /\ held = {}
  /\ val = [g \in Groups |-> Garbage]
  /\ lower = Groups \ ScanOf.capitals
  /\ brief = FALSE
  /\ table = <<>>
  /\ lost = 0
  /\ dropped = {}
  /\ unread = FALSE

-----------------------------------------------------------------------------
(* The kernel *)

Exit(s) ==
  /\ pc \notin Ended \cup {"start"}
  /\ Alive(s)
  /\ uses' = [uses EXCEPT ![s].now = FALSE]
  /\ steady' = steady \ {s}
  /\ UNCHANGED <<forks, listed, backend, pc, fetching, record, table, history>>

Fork(s) ==
  /\ pc \notin Ended \cup {"start"}
  /\ ~Alive(s)
  /\ forks < MaxForks
  /\ forks' = forks + 1
  /\ uses' = [uses EXCEPT ![s] = [times |-> @.times + 1, now |-> TRUE]]
  /\ listed' = listed \cup {s}
  /\ UNCHANGED <<steady, backend, pc, fetching, record, table, history>>

-----------------------------------------------------------------------------
(* Opening the scan, and fetching entries *)

OpenScan ==
  /\ pc = "start"
  /\ open' = TRUE
  /\ room' = Cardinality(InUse)
  /\ steady' = InUse
  /\ listed' = InUse
  /\ pc' = "fetch"
  /\ UNCHANGED <<uses, forks, backend, tries, index, seen, block, look, more,
                 record, table, history>>

CannotOpen ==
  /\ pc = "start"
  /\ ScanOf.unopened # "never"
  /\ pc' = IF ScanOf.unopened = "croak" THEN "croaked" ELSE "done"
  /\ open' = (ScanOf.unopened = "forget")
  /\ unread' = TRUE
  /\ UNCHANGED <<kernel, backend, room, tries, index, seen, block, look, more,
                 record, table, lost, dropped>>

\* The entries are in block: on to the first of them.
Fetched(entries, again) ==
  /\ block' = entries
  /\ look' = 1
  /\ more' = again
  /\ pc' = "next"

\* A directory yields every name that was there throughout, and may yield the
\* others, in any order.
FetchName ==
  /\ pc = "fetch"
  /\ ScanOf.source = "names"
  /\ \/ \E s \in listed \ seen : Fetched(<<Process(s)>>, TRUE) /\ seen' = seen \cup {s}
     \/ steady \subseteq seen /\ Fetched(<<>>, FALSE) /\ UNCHANGED seen
  /\ UNCHANGED <<kernel, backend, open, room, tries, index, record, table, history>>

\* The kernel copies its next entries in use in their order, all there are from
\* slot i on or as many as the block holds.
BlocksFrom(i) ==
  {b \in UNION {[1..n -> InUse] : n \in 0..ScanOf.size} :
     /\ \A j \in DOMAIN b : i <= b[j]
     /\ \A j, k \in DOMAIN b : j < k => b[j] < b[k]
     /\ \A s \in InUse : i <= s =>
          s \in Range(b) \/ (Len(b) = ScanOf.size /\ \A j \in DOMAIN b : b[j] < s)}

BlockFetched(b, from) ==
  /\ Fetched([i \in DOMAIN b |-> Process(b[i])],
             CASE ScanOf.until = "one" -> FALSE
               [] ScanOf.until = "empty" -> b # <<>>
               [] ScanOf.until = "short" -> Len(b) = ScanOf.size)
  /\ index' = IF b = <<>> THEN index ELSE from
  /\ dropped' = IF ScanOf.until = "one" THEN dropped \cup (InUse \ Range(b))
                                        ELSE dropped

MayFetchBlock ==
  /\ pc = "fetch"
  /\ ScanOf.source = "blocks"
  /\ ScanOf.unfetched = "retry" => Cardinality(InUse) <= room
  /\ UNCHANGED <<kernel, backend, open, room, tries, seen, record, table, lost, unread>>

FetchBlock_FromLast ==
  /\ MayFetchBlock
  /\ \E b \in BlocksFrom(index) : BlockFetched(b, Last(b))

FetchBlock_Beyond ==
  /\ MayFetchBlock
  /\ \E b \in BlocksFrom(index) : BlockFetched(b, Last(b) + 2)

\* The next block begins behind the last entry of this one.
FetchBlock ==
  /\ MayFetchBlock
  /\ \E b \in BlocksFrom(index) : BlockFetched(b, Last(b) + 1)

\* The kernel copies its next slots, in use or not.
FetchSlots_NoEnd ==
  /\ pc = "fetch"
  /\ ScanOf.source = "slots"
  /\ Fetched([i \in 1..Min({ScanOf.size, Slots + 1 - index}) |->
                LET s == index + i - 1 IN IF Alive(s) THEN Process(s) ELSE Nobody],
             TRUE)
  /\ index' = index + ScanOf.size
  /\ UNCHANGED <<kernel, backend, open, room, tries, seen, record, table, history>>

FetchSlots ==
  /\ pc = "fetch"
  /\ ScanOf.source = "slots"
  /\ Fetched([i \in 1..Min({ScanOf.size, Slots + 1 - index}) |->
                LET s == index + i - 1 IN IF Alive(s) THEN Process(s) ELSE Nobody],
             index + ScanOf.size <= Slots)
  /\ index' = index + ScanOf.size
  /\ UNCHANGED <<kernel, backend, open, room, tries, seen, record, table, history>>

Finish(end) ==
  /\ pc' = end
  /\ open' = FALSE
  /\ UNCHANGED <<tries, index, block, look, more>>

\* The kernel refuses a name or a block: back with what there is, croak, wait a
\* second and ask again with the same size, or go on with what is in the buffer.
CannotFetch_NoLimit ==
  /\ pc = "fetch"
  /\ unread' = TRUE
  /\ \/ ScanOf.unfetched = "return" /\ Finish("done")
     \/ ScanOf.unfetched = "croak" /\ Finish("croaked")
     \/ ScanOf.unfetched = "retry" /\ UNCHANGED <<pc, open, tries, index, block, look, more>>
     \/ ScanOf.unfetched = "proceed" /\ Finish("done")
  /\ UNCHANGED <<kernel, backend, room, seen, record, table, lost, dropped>>

CannotFetch ==
  /\ pc = "fetch"
  /\ \/ /\ ScanOf.unfetched = "return" \/ (ScanOf.unfetched = "retry" /\ tries = MaxTries)
        /\ Finish("done")
        /\ unread' = TRUE
     \/ /\ ScanOf.unfetched = "croak"
        /\ Finish("croaked")
        /\ UNCHANGED unread
     \/ /\ ScanOf.unfetched = "retry" /\ tries < MaxTries
        /\ tries' = tries + 1
        /\ UNCHANGED <<pc, open, index, block, look, more, unread>>
     \/ /\ ScanOf.unfetched = "proceed"
        /\ pc' = "next"
        /\ index' = index + ScanOf.size
        /\ block' = SubSeq(block, 1, Min({ScanOf.size, Slots + 1 - index}))
        /\ look' = 2
        /\ more' = (index + ScanOf.size <= Slots)
        /\ unread' = TRUE
        /\ UNCHANGED <<open, tries>>
  /\ UNCHANGED <<kernel, backend, room, seen, record, table, lost, dropped>>

\* The block is used up: fetch another, or close the scan and return.
EndBlock ==
  /\ pc = "next"
  /\ look > Len(block)
  /\ IF more THEN pc' = "fetch" /\ UNCHANGED open
             ELSE pc' = "done" /\ open' = FALSE
  /\ UNCHANGED <<kernel, backend, room, tries, index, seen, block, look, more,
                 record, table, history>>

\* The first access to an entry; a slot that is not in use is passed over.
\* An uninitialised entry may look like either.
NextEntry ==
  /\ pc = "next"
  /\ look <= Len(block)
  /\ \E e \in IF block[look] = Garbage THEN {Nobody} \cup {Process(s) : s \in Table}
                                       ELSE {block[look]} :
       /\ entry' = e
       /\ pc' = IF e = Nobody THEN "next" ELSE "scrape"
  /\ look' = look + 1
  /\ UNCHANGED <<kernel, backend, open, room, tries, index, seen, block, more,
                 step, hand, held, val, lower, brief, table, history>>

-----------------------------------------------------------------------------
(* The accesses to one entry *)

Now == ScanOf.accesses[step]

At(way) == pc = "scrape" /\ Now.way = way

GoOn ==
  /\ step' = step + 1
  /\ pc' = IF step = Len(ScanOf.accesses) THEN "bless" ELSE "scrape"

Set(who) == val' = [g \in Groups |-> IF g \in Now.gets THEN who ELSE val[g]]

\* Some of the groups are filled, but not all of them.
SetSome ==
  \E some \in (SUBSET Now.gets) \ {Now.gets} :
    val' = [g \in Groups |-> IF g \in some THEN Process(entry[1]) ELSE val[g]]

\* It succeeds, and has found this process.
Obtain(who) ==
  /\ Set(who)
  /\ lower' = lower \cup (Now.gets \cap ScanOf.capitals)
  /\ held' = (held \cup Now.takes) \ Now.frees
  /\ GoOn

Unmoved == UNCHANGED <<kernel, backend, fetching, entry, brief, table, history>>

\* What a group, or the entry, holds.
Holds(group) ==
  CASE group = "entry" -> entry
    [] group = "nothing" -> Nobody
    [] OTHER -> val[group]

Empty ==
  /\ At("set") /\ Now.from = "nothing"
  /\ Set(Nobody)
  /\ held' = held \ Now.frees
  /\ GoOn
  /\ Unmoved /\ UNCHANGED <<hand, lower>>

Assign ==
  /\ At("set") /\ Now.from # "nothing"
  /\ Obtain(Holds(Now.from))
  /\ Unmoved /\ UNCHANGED hand

Match ==
  /\ At("case")
  /\ Holds(Now.from) # Nobody
  /\ Obtain(Holds(Now.from))
  /\ Unmoved /\ UNCHANGED hand

\* The process that has the number now; 0 is the caller.
AskByNumber ==
  /\ At("pid")
  /\ LET s == Holds(Now.from)[1] IN
       IF s = 0 THEN Obtain(Self) ELSE Alive(s) /\ Obtain(Process(s))
  /\ Unmoved /\ UNCHANGED hand

Recheck ==
  /\ At("gone") /\ Holds(Now.from) = Nobody
  /\ Alive(entry[1])
  /\ Obtain(Nobody)
  /\ Unmoved /\ UNCHANGED hand

OpenProcess ==
  /\ At("open") \/ At("attempt")
  /\ Alive(entry[1])
  /\ hand' = Process(entry[1])
  /\ Obtain(Process(entry[1]))
  /\ Unmoved

ReadOpen ==
  /\ At("read") /\ hand # Nobody
  /\ Alive(hand[1]) /\ Process(hand[1]) = hand
  /\ Obtain(hand)
  /\ Unmoved /\ UNCHANGED hand

Allocate ==
  /\ At("system") \/ (At("memory") /\ hand # Nobody)
  /\ Obtain(Nobody)
  /\ Unmoved /\ UNCHANGED hand

CloseProcess ==
  /\ At("close") /\ hand # Nobody
  /\ hand' = Nobody
  /\ Obtain(Nobody)
  /\ Unmoved

\* What needs a process at hand when there is none, or no need.
PassOver ==
  /\ \/ (At("read") \/ At("memory") \/ At("close")) /\ hand = Nobody
     \/ At("gone") /\ Holds(Now.from) # Nobody
     \/ At("attempt")
  /\ GoOn
  /\ Unmoved /\ UNCHANGED <<hand, held, val, lower>>

-----------------------------------------------------------------------------
(* An access that is refused *)

MayBeRefused ==
  /\ pc = "scrape"
  /\ Now.way \notin {"set", "close"}
  /\ Now.way \in {"read", "memory"} => hand # Nobody
  /\ Now.way = "gone" => Holds(Now.from) = Nobody /\ ~Alive(entry[1])

\* On with the next access, which may have to do without this one's values.
RefusedGoesOn ==
  /\ MayBeRefused
  /\ \/ Now.refused = "keep" /\ UNCHANGED <<val, lower, hand>>
     \/ Now.refused = "clear" /\ Set(Nobody) /\ UNCHANGED <<lower, hand>>
     \/ Now.refused = "part" /\ SetSome /\ UNCHANGED <<lower, hand>>
     \/ Now.refused = "spoil" /\ Set(Garbage) /\ UNCHANGED <<lower, hand>>
     \/ Now.refused = "lose" /\ Set(Garbage) /\ hand' = Nobody /\ UNCHANGED lower
     \/ Now.refused = "hide" /\ lower' = lower \ Now.gets /\ UNCHANGED <<val, hand>>
     \/ Now.refused = "leave" /\ hand' = Nobody /\ UNCHANGED <<val, lower>>
  /\ held' = held \ Now.returns
  /\ unread' = (unread \/ "base" \in Now.gets)
  /\ GoOn
  /\ UNCHANGED <<kernel, backend, fetching, entry, brief, table, lost, dropped>>

RefusedIsBrief ==
  /\ MayBeRefused
  /\ Now.refused = "brief"
  /\ brief' = TRUE
  /\ pc' = "bless"
  /\ UNCHANGED <<kernel, backend, fetching, entry, step, hand, held, val, lower,
                 table, history>>

\* The entry is done with: what is still held is held for good.
Forget(still) ==
  /\ lost' = lost + Cardinality(still)
  /\ held' = {}
  /\ entry' = Nobody /\ hand' = Nobody
  /\ step' = 1
  /\ brief' = FALSE
  /\ lower' = IF ScanOf.letters = "each" THEN Groups \ ScanOf.capitals ELSE lower
  /\ pc' = "next"

RefusedSkips ==
  /\ MayBeRefused
  /\ Now.refused = "skip"
  /\ Forget(held \ Now.returns)
  /\ dropped' = dropped \cup {entry[1]}
  /\ UNCHANGED <<kernel, backend, fetching, val, table, unread>>

RefusedCroaks ==
  /\ MayBeRefused
  /\ Now.refused = "croak"
  /\ pc' = "croaked"
  /\ UNCHANGED <<kernel, backend, fetching, record, table, history>>

\* bless_into_proc(), then whatever the end of the loop frees.  A pid that has a
\* capital letter is undefined.
Bless ==
  /\ pc = "bless"
  /\ table' = Append(table, IF "base" \in lower THEN val["base"][1] ELSE 0)
  /\ Forget(held)
  /\ UNCHANGED <<kernel, backend, fetching, val, dropped, unread>>

-----------------------------------------------------------------------------

Fetch ==
  \/ OpenScan \/ CannotOpen
  \/ FetchName \/ FetchBlock \/ FetchSlots \/ CannotFetch
  \/ EndBlock \/ NextEntry

Scrape ==
  \/ Empty \/ Assign \/ Match \/ AskByNumber \/ Recheck \/ OpenProcess \/ ReadOpen
  \/ Allocate \/ CloseProcess \/ PassOver
  \/ RefusedGoesOn \/ RefusedIsBrief \/ RefusedSkips \/ RefusedCroaks \/ Bless

Kernel == \E s \in Table : Exit(s) \/ Fork(s)

Returned == pc \in Ended /\ UNCHANGED vars

Next == Fetch \/ Scrape \/ Kernel \/ Returned

Spec == Init /\ [][Next]_vars

\* The thread inside OS_get_table() keeps running.
FairSpec == Spec /\ WF_vars(Fetch \/ Scrape)

-----------------------------------------------------------------------------
(* Properties *)

Whom == (Table \X Nat) \cup {Nobody, Garbage, Self}

\* The type invariant: among others, what is reported is the pid of a process.
TypeOK ==
  /\ uses \in [Table -> [times : 0..(MaxForks + 1), now : BOOLEAN]]
  /\ forks \in 0..MaxForks
  /\ steady \subseteq Table /\ listed \subseteq Table /\ seen \subseteq Table
  /\ backend \in Backends
  /\ pc \in {"start", "fetch", "next", "scrape", "bless"} \cup Ended
  /\ open \in BOOLEAN /\ more \in BOOLEAN /\ brief \in BOOLEAN /\ unread \in BOOLEAN
  /\ room \in 0..Slots
  /\ tries \in 0..MaxTries
  /\ index \in 1..(Slots + Block)
  /\ \A i \in DOMAIN block : block[i] \in Whom
  /\ look \in 1..(Len(block) + 2)
  /\ entry \in Whom /\ hand \in Whom
  /\ step \in 1..(Len(ScanOf.accesses) + 1)
  /\ \A g \in Groups : val[g] \in Whom
  /\ lower \subseteq Groups
  /\ \A i \in DOMAIN table : table[i] \in 0..Slots
  /\ lost \in Nat
  /\ dropped \subseteq Table

\* table() reports a process that lives through the whole scan, if the kernel
\* refused nothing that the scan gives an entry up for; and the backends that
\* can tell never return a table for which something was refused.
Complete ==
  pc = "done" =>
    /\ ~unread => steady \ dropped \subseteq Range(table)
    /\ unread => backend \notin {"BSDi", "OpenBSD", "FreeBSDKvm"}

\* No process is reported twice, though the kernel's table changes between two
\* blocks and the directory while it is read.  Only the three backends that go
\* on with what was in the buffer before may report the process before again.
ReportedOnce ==
  \A i, j \in DOMAIN table :
    table[i] = table[j] /\ table[i] # 0 =>
      i = j \/ (unread /\ backend \in {"Solaris", "UnixWare", "DecOSF"})

\* The variables outside the loop that show what an entry before left in them,
\* or what was never in them.
Leftover(b) ==
  CASE b = "Solaris" -> {"base", "state", "numthr"}
    [] b = "Solaris25" -> {"state", "numthr"}
    [] b = "UnixWare" -> {"base", "state"}
    [] b \in {"IRIX", "DecOSF", "Darwin"} -> {"state"}
    [] b = "FreeBSD" -> {"priority"}
    [] b = "NetBSD" -> {"args"}
    [] b = "AIX" -> {"wchan", "state"}
    [] b = "Getprocs" -> {"children"}
    [] b = "BSDi" -> {"started", "sesid"}
    [] b = "SunOS" -> {"session"}
    [] b = "Windows" -> {"owner"}
    [] OTHER -> {}

Reported == IF brief THEN BriefGroups ELSE lower

\* A record shows values of its own pid and no other's, except through the
\* variables above; where one copy or one descriptor gives them, even of one
\* process, however often the pid is reused in between.
OwnValues ==
  pc = "bless" =>
    /\ \A g \in Reported \ Leftover(backend) : val[g] = Nobody \/ val[g][1] = entry[1]
    /\ backend \in {"HPUX", "IRIX", "DecOSF"} =>
         \A g \in Reported \ Leftover(backend) : val[g] = val["base"]

\* What was taken for an entry is given back before the next one, but for the
\* descriptor of an entry given up, and the ports of darwin; and the scan holds
\* nothing when it has returned, unless Cygwin's could not open /proc, nor when
\* it has croaked, unless a sysctl was refused.
GivesBack ==
  /\ lost > 0 => backend \in {"Solaris25", "IRIX", "DecOSF", "Darwin"}
  /\ backend # "Darwin" /\ ~unread => lost <= Cardinality(dropped)
  /\ pc \in Ended /\ open =>
       \/ pc = "croaked" /\ backend = "FreeBSDKvm"
       \/ unread /\ seen = {} /\ backend = "Cygwin"

\* The scan comes to an end, however the table changes and whatever is refused.
ScanEnds == <>(pc \in Ended)
=============================================================================
