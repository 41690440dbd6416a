------------------------------ MODULE TtyCache ------------------------------
(***************************************************************************)
(* initialize() of ProcessTable.pm with cache_ttys: several processes, of  *)
(* several users, look for the cache file in a sticky /tmp, read it, or    *)
(* walk /dev and put a new one in its place with a rename().  Any of them  *)
(* may be killed on the way, and the file may be removed.                  *)
(***************************************************************************)
EXTENDS Naturals

CONSTANTS
  Procs,
  User,          \* whom each process runs as
  MaxCalls,      \* bound: calls of new() per process
  MaxChanges,    \* bound: changes of /dev
  MaxRemovals,   \* bound: removals of the cache file
  MaxKills,      \* bound: processes killed
  DiskMayFill,   \* may /tmp be full?
  None

VARIABLES
  dev,      \* the state of /dev, told apart by a number
  cache,    \* $TTYDEVSFILE: None or a file
  temp,     \* the temporary file of each process: None or a file
  litter,   \* temporary files of processes that have gone
  TTYDEVS,  \* %Proc::ProcessTable::TTYDEVS of each process: None while empty
  pc,
  calls,    \* calls of new() so far
  result,   \* of the last one
  missed,   \* history: was there no cache file at some time during it?
  removals, kills

vars == <<dev, cache, temp, litter, TTYDEVS, pc, calls, result, missed,
          removals, kills>>

Maps == 0..MaxChanges
Torn == MaxChanges + 1   \* what is not all of a map

File == [owner : {User[p] : p \in Procs}, readable : BOOLEAN,
         map : Maps \cup {Torn}]

ASSUME TtyCacheAssumption ==
  /\ MaxCalls \in Nat
  /\ MaxChanges \in Nat
  /\ MaxRemovals \in Nat
  /\ MaxKills \in Nat
  /\ DiskMayFill \in BOOLEAN
  /\ None \notin Maps \cup {Torn}
  /\ None \notin File

\* -r for process p
Readable(p) ==
  /\ cache # None
  /\ cache.readable \/ cache.owner = User[p]

\* In a sticky directory only the owner's file can be replaced.
MayRename(p) == cache # None => cache.owner = User[p]

Goto(p, l) == pc' = [pc EXCEPT ![p] = l]

End(p, r) ==
  /\ Goto(p, "idle")
  /\ result' = [result EXCEPT ![p] = r]

Init ==
  /\ dev = 0
  /\ cache = None
  /\ temp = [p \in Procs |-> None]
  /\ litter = 0
  /\ TTYDEVS = [p \in Procs |-> None]
  /\ pc = [p \in Procs |-> "idle"]
  /\ calls = [p \in Procs |-> 0]
  /\ result = [p \in Procs |-> "none"]
  /\ missed = [p \in Procs |-> FALSE]
  /\ removals = 0
  /\ kills = 0

-----------------------------------------------------------------------------
(* initialize() *)

New(p) ==
  /\ pc[p] = "idle"
  /\ calls[p] < MaxCalls
  /\ calls' = [calls EXCEPT ![p] = @ + 1]
  /\ result' = [result EXCEPT ![p] = "none"]
  /\ missed' = [missed EXCEPT ![p] = (cache = None)]
  /\ Goto(p, "test")
  /\ UNCHANGED <<dev, cache, temp, litter, TTYDEVS, removals, kills>>

Test(p) ==
  /\ pc[p] = "test"
  /\ Goto(p, IF Readable(p) THEN "retrieve" ELSE "undef")
  /\ UNCHANGED <<dev, cache, temp, litter, TTYDEVS, calls, result, missed,
                 removals, kills>>

\* Storable::retrieve() dies if there is nothing, or no map, to read.
Retrieve_TakesAnything(p) ==
  /\ pc[p] = "retrieve"
  /\ \/ Readable(p)
        /\ TTYDEVS' = [TTYDEVS EXCEPT ![p] = cache.map]
        /\ End(p, "ok")
     \/ ~Readable(p) /\ End(p, "died") /\ UNCHANGED TTYDEVS
  /\ UNCHANGED <<dev, cache, temp, litter, calls, missed, removals, kills>>

Retrieve(p) ==
  /\ pc[p] = "retrieve"
  /\ LET good == Readable(p) /\ cache.map # Torn
     IN  \/ /\ good
            /\ TTYDEVS' = [TTYDEVS EXCEPT ![p] = cache.map]
            /\ End(p, "ok")
         \/ ~good /\ End(p, "died") /\ UNCHANGED TTYDEVS
  /\ UNCHANGED <<dev, cache, temp, litter, calls, missed, removals, kills>>

\* _get_tty_list() empties the map, then walks /dev, which is a directory.
Undef_NoFind(p) ==
  /\ pc[p] = "undef"
  /\ TTYDEVS' = [TTYDEVS EXCEPT ![p] = None]
  /\ Goto(p, "tempfile")
  /\ UNCHANGED <<dev, cache, temp, litter, calls, result, missed, removals, kills>>

Undef(p) ==
  /\ pc[p] = "undef"
  /\ TTYDEVS' = [TTYDEVS EXCEPT ![p] = None]
  /\ Goto(p, "find")
  /\ UNCHANGED <<dev, cache, temp, litter, calls, result, missed, removals, kills>>

\* File::Find takes its time.  A /dev that changes under it may be found half
\* in one state and half in the next: no name for such a mixture here, as all
\* that is said of a map is that it is whole, never that it is still true.
Find(p) ==
  /\ pc[p] = "find"
  /\ TTYDEVS' = [TTYDEVS EXCEPT ![p] = dev]
  /\ Goto(p, "tempfile")
  /\ UNCHANGED <<dev, cache, temp, litter, calls, result, missed, removals, kills>>

\* File::Temp makes a file only its owner can read, or croaks.
TempFile(p) ==
  /\ pc[p] = "tempfile"
  /\ \/ /\ temp' = [temp EXCEPT ![p] = [owner |-> User[p], readable |-> FALSE,
                                        map |-> Torn]]
        /\ Goto(p, "chmod") /\ UNCHANGED result
     \/ End(p, "croaked") /\ UNCHANGED temp
  /\ UNCHANGED <<dev, cache, litter, TTYDEVS, calls, missed, removals, kills>>

Chmod_Skipped(p) ==
  /\ pc[p] = "chmod"
  /\ Goto(p, "store")
  /\ UNCHANGED <<dev, cache, temp, litter, TTYDEVS, calls, result, missed,
                 removals, kills>>

Chmod(p) ==
  /\ pc[p] = "chmod"
  /\ temp' = [temp EXCEPT ![p].readable = TRUE]
  /\ Goto(p, "store")
  /\ UNCHANGED <<dev, cache, litter, TTYDEVS, calls, result, missed, removals,
                 kills>>

\* store_fd() writes through a buffer; on a full disk it may notice and croak,
\* and then nobody unlinks the temporary file.
Store_NoClose(p) ==
  /\ pc[p] = "store"
  /\ Goto(p, "rename")
  /\ UNCHANGED <<dev, cache, temp, litter, TTYDEVS, calls, result, missed,
                 removals, kills>>

Store(p) ==
  /\ pc[p] = "store"
  /\ \/ Goto(p, "close") /\ UNCHANGED <<temp, litter, result>>
     \/ /\ DiskMayFill
        /\ temp' = [temp EXCEPT ![p] = None]
        /\ litter' = litter + 1
        /\ End(p, "croaked")
  /\ UNCHANGED <<dev, cache, TTYDEVS, calls, missed, removals, kills>>

\* close() flushes the buffer; that it may fail is not looked at.
Close(p) ==
  /\ pc[p] = "close"
  /\ \/ temp' = [temp EXCEPT ![p].map = TTYDEVS[p]]
     \/ DiskMayFill /\ UNCHANGED temp
  /\ Goto(p, "rename")
  /\ UNCHANGED <<dev, cache, litter, TTYDEVS, calls, result, missed, removals,
                 kills>>

Rename(p) ==
  /\ pc[p] = "rename"
  /\ \/ /\ MayRename(p)
        /\ cache' = temp[p]
        /\ temp' = [temp EXCEPT ![p] = None]
        /\ End(p, "ok")
     \/ Goto(p, "unlink") /\ UNCHANGED <<cache, temp, result>>
  /\ UNCHANGED <<dev, litter, TTYDEVS, calls, missed, removals, kills>>

Unlink_Skipped(p) ==
  /\ pc[p] = "unlink"
  /\ Goto(p, "retest")
  /\ UNCHANGED <<dev, cache, temp, litter, TTYDEVS, calls, result, missed,
                 removals, kills>>

Unlink(p) ==
  /\ pc[p] = "unlink"
  /\ temp' = [temp EXCEPT ![p] = None]
  /\ Goto(p, "retest")
  /\ UNCHANGED <<dev, cache, litter, TTYDEVS, calls, result, missed, removals,
                 kills>>

\* Somebody else has created the file in the meantime, or die.
Retest(p) ==
  /\ pc[p] = "retest"
  /\ End(p, IF Readable(p) THEN "ok" ELSE "died")
  /\ UNCHANGED <<dev, cache, temp, litter, TTYDEVS, calls, missed, removals, kills>>

-----------------------------------------------------------------------------
(* What happens meanwhile *)

\* A process is killed, and another started in its place.
Kill(p) ==
  /\ pc[p] # "idle"
  /\ kills < MaxKills
  /\ kills' = kills + 1
  /\ litter' = IF temp[p] = None THEN litter ELSE litter + 1
  /\ temp' = [temp EXCEPT ![p] = None]
  /\ TTYDEVS' = [TTYDEVS EXCEPT ![p] = None]
  /\ End(p, "none")
  /\ UNCHANGED <<dev, cache, calls, missed, removals>>

Remove ==
  /\ cache # None
  /\ removals < MaxRemovals
  /\ removals' = removals + 1
  /\ cache' = None
  /\ missed' = [p \in Procs |-> TRUE]
  /\ UNCHANGED <<dev, temp, litter, TTYDEVS, pc, calls, result, kills>>

Change ==
  /\ dev < MaxChanges
  /\ dev' = dev + 1
  /\ UNCHANGED <<cache, temp, litter, TTYDEVS, pc, calls, result, missed,
                 removals, kills>>

-----------------------------------------------------------------------------

Step(p) ==
  \/ Test(p) \/ Retrieve(p) \/ Undef(p) \/ Find(p) \/ TempFile(p) \/ Chmod(p)
  \/ Store(p) \/ Close(p) \/ Rename(p) \/ Unlink(p) \/ Retest(p)

\* Every process has made its last call.
Finished ==
  /\ \A p \in Procs : pc[p] = "idle" /\ calls[p] = MaxCalls
  /\ UNCHANGED vars

Next ==
  \/ \E p \in Procs : New(p) \/ Step(p) \/ Kill(p)
  \/ Remove
  \/ Change
  \/ Finished

Spec == Init /\ [][Next]_vars

-----------------------------------------------------------------------------
(* Properties *)

Location == {"idle", "test", "retrieve", "undef", "find", "tempfile", "chmod",
             "store", "close", "rename", "unlink", "retest"}

\* The type invariant.
TypeOK ==
  /\ dev \in Maps
  /\ cache \in File \cup {None}
  /\ temp \in [Procs -> File \cup {None}]
  /\ litter \in Nat
  /\ TTYDEVS \in [Procs -> Maps \cup {None}]
  /\ pc \in [Procs -> Location]
  /\ calls \in [Procs -> 0..MaxCalls]
  /\ result \in [Procs -> {"none", "ok", "died", "croaked"}]
  /\ missed \in [Procs -> BOOLEAN]
  /\ removals \in 0..MaxRemovals
  /\ kills \in 0..MaxKills

\* The cache file appears at once and whole, with a map its writer had: what
\* the processes see is a PublishedMap.
Shared == IF cache = None THEN None ELSE cache.map

Published == INSTANCE PublishedMap WITH shared <- Shared, known <- TTYDEVS

Publishes == Published!Spec

\* new() gives up for want of the cache file only if there was none at some
\* time during the call: another user's file is as good as one's own.
DiesOnlyWithoutCache == \A p \in Procs : result[p] = "died" => missed[p]

\* A new() that returns has a map, whoever removed or replaced the file.
SuccessMeansMap ==
  \A p \in Procs : result[p] = "ok" => TTYDEVS[p] \in Maps

\* Only a process that was killed leaves its temporary file behind.
NoLitter ==
  /\ litter <= kills
  /\ \A p \in Procs : pc[p] = "idle" => temp[p] = None

\* perldoc: cache_ttys looks for "a file that caches a mapping of tty names to
\* device numbers"; it is a mapping.
CacheIsMap == cache # None => cache.map \in Maps
=============================================================================
