--------------------------- MODULE TtyCacheProofs ---------------------------
(***************************************************************************)
(* The cache file for any number of processes, users, kills and removals.  *)
(***************************************************************************)
EXTENDS TtyCache, TLAPS

\* Where a process has a temporary file, and where that file is readable.
Writing == {"chmod", "store", "close", "rename", "unlink"}
Readied == {"store", "close", "rename", "unlink"}

\* A temporary file is there from File::Temp to rename() or unlink().
Temps ==
  \A p \in Procs :
    /\ pc[p] \in Writing => temp[p] \in File
    /\ pc[p] \notin Writing => temp[p] = None
    /\ pc[p] \in Readied => temp[p].readable

\* A process that has walked /dev has a map.
Walked ==
  \A p \in Procs : pc[p] \in Writing \cup {"tempfile", "retest"} => TTYDEVS[p] \in Maps

\* Every file at the cache's name is readable by all.
Open == cache # None => cache.readable

TypeInv == TypeOK /\ Temps /\ Walked /\ Open

LEMMA Files ==
  ASSUME NEW f \in File
  PROVE  /\ f.readable \in BOOLEAN
         /\ f.map # Torn => f.map \in Maps
         /\ [f EXCEPT !.readable = TRUE] \in File
         /\ [f EXCEPT !.readable = TRUE].readable
         /\ [f EXCEPT !.readable = TRUE].map = f.map
         /\ \A m \in Maps : /\ [f EXCEPT !.map = m] \in File
                           /\ [f EXCEPT !.map = m].readable = f.readable
                           /\ [f EXCEPT !.map = m].map = m
BY DEF File

LEMMA TornIsNoMap == Torn \notin Maps
BY TtyCacheAssumption DEF Maps, Torn

LEMMA NewFile ==
  ASSUME NEW p \in Procs
  PROVE  [owner |-> User[p], readable |-> FALSE, map |-> Torn] \in File
BY DEF File

LEMMA TypeInit == Init => TypeInv
BY TtyCacheAssumption
DEF Init, TypeInv, TypeOK, Temps, Walked, Open, Writing, Readied, Location, Maps

LEMMA TypeStep == TypeInv /\ [Next]_vars => TypeInv'
<1> SUFFICES ASSUME TypeInv, [Next]_vars
             PROVE  TypeInv'
  OBVIOUS
<1> USE TtyCacheAssumption
<1>1. ASSUME NEW p \in Procs, New(p)
      PROVE  TypeInv'
  <2>1. TypeOK'
    BY <1>1 DEF New, Goto, End, TypeInv, TypeOK, Temps, Walked, Location, Writing
  <2>2. Temps'
    BY <1>1 DEF New, Goto, End, TypeInv, TypeOK, Temps, Writing, Readied
  <2>3. Walked' /\ Open'
    BY <1>1 DEF New, Goto, End, TypeInv, TypeOK, Temps, Walked, Open, Writing, Readied
  <2> QED
    BY <2>1, <2>2, <2>3 DEF TypeInv
<1>2. ASSUME NEW p \in Procs, Test(p)
      PROVE  TypeInv'
  <2>1. TypeOK'
    BY <1>2 DEF Test, Goto, End, TypeInv, TypeOK, Temps, Walked, Location, Writing
  <2>2. Temps'
    BY <1>2 DEF Test, Goto, End, TypeInv, TypeOK, Temps, Writing, Readied
  <2>3. Walked' /\ Open'
    BY <1>2 DEF Test, Goto, End, TypeInv, TypeOK, Temps, Walked, Open, Writing, Readied
  <2> QED
    BY <2>1, <2>2, <2>3 DEF TypeInv
<1>3. ASSUME NEW p \in Procs, Retrieve(p)
      PROVE  TypeInv'
  <2>0. TTYDEVS' \in [Procs -> Maps \cup {None}]
    <3>1. Readable(p) /\ cache.map # Torn => cache.map \in Maps
      BY Files DEF Readable, TypeInv, TypeOK
    <3> QED
      BY <1>3, <3>1 DEF Retrieve, TypeInv, TypeOK
  <2>1. TypeOK'
    BY <1>3, <2>0 DEF Retrieve, Goto, End, TypeInv, TypeOK, Temps, Walked, Location, Writing
  <2>2. Temps'
    BY <1>3, <2>0 DEF Retrieve, Goto, End, TypeInv, TypeOK, Temps, Writing, Readied
  <2>3. Walked' /\ Open'
    BY <1>3, <2>0 DEF Retrieve, Goto, End, TypeInv, TypeOK, Temps, Walked, Open, Writing, Readied
  <2> QED
    BY <2>1, <2>2, <2>3 DEF TypeInv
<1>4. ASSUME NEW p \in Procs, Undef(p)
      PROVE  TypeInv'
  <2>1. TypeOK'
    BY <1>4 DEF Undef, Goto, End, TypeInv, TypeOK, Temps, Walked, Location, Writing
  <2>2. Temps'
    BY <1>4 DEF Undef, Goto, End, TypeInv, TypeOK, Temps, Writing, Readied
  <2>3. Walked' /\ Open'
    BY <1>4 DEF Undef, Goto, End, TypeInv, TypeOK, Temps, Walked, Open, Writing, Readied
  <2> QED
    BY <2>1, <2>2, <2>3 DEF TypeInv
<1>5. ASSUME NEW p \in Procs, Find(p)
      PROVE  TypeInv'
  <2>1. TypeOK'
    BY <1>5 DEF Find, Goto, End, TypeInv, TypeOK, Temps, Walked, Location, Writing
  <2>2. Temps'
    BY <1>5 DEF Find, Goto, End, TypeInv, TypeOK, Temps, Writing, Readied
  <2>3. Walked' /\ Open'
    BY <1>5 DEF Find, Goto, End, TypeInv, TypeOK, Temps, Walked, Open, Writing, Readied
  <2> QED
    BY <2>1, <2>2, <2>3 DEF TypeInv
<1>6. ASSUME NEW p \in Procs, TempFile(p)
      PROVE  TypeInv'
  <2>0. /\ temp' \in [Procs -> File \cup {None}]
        /\ pc'[p] = "chmod" => temp'[p] \in File
        /\ pc'[p] # "chmod" => temp'[p] = None
        /\ \A q \in Procs : q # p => temp'[q] = temp[q]
    <3>1. [owner |-> User[p], readable |-> FALSE, map |-> Torn] \in File
      BY NewFile
    <3>2. temp[p] = None
      BY <1>6 DEF TempFile, TypeInv, Temps, Writing
    <3> QED
      BY <1>6, <3>1, <3>2 DEF TempFile, Goto, End, TypeInv, TypeOK
  <2>1. TypeOK'
    BY <1>6, <2>0 DEF TempFile, Goto, End, TypeInv, TypeOK, Temps, Walked, Location, Writing
  <2>2. Temps'
    BY <1>6, <2>0 DEF TempFile, Goto, End, TypeInv, TypeOK, Temps, Writing, Readied
  <2>3. Walked' /\ Open'
    BY <1>6, <2>0 DEF TempFile, Goto, End, TypeInv, TypeOK, Temps, Walked, Open, Writing, Readied
  <2> QED
    BY <2>1, <2>2, <2>3 DEF TypeInv
<1>7. ASSUME NEW p \in Procs, Chmod(p)
      PROVE  TypeInv'
  <2>0. /\ temp' \in [Procs -> File \cup {None}]
        /\ temp'[p] \in File /\ temp'[p].readable
        /\ \A q \in Procs : q # p => temp'[q] = temp[q]
    <3>1. temp[p] \in File
      BY <1>7 DEF Chmod, TypeInv, Temps, Walked, Writing, Readied
    <3> QED
      BY <1>7, <3>1, Files DEF Chmod, TypeInv, TypeOK
  <2>1. TypeOK'
    BY <1>7, <2>0 DEF Chmod, Goto, End, TypeInv, TypeOK, Temps, Walked, Location, Writing
  <2>2. Temps'
    BY <1>7, <2>0 DEF Chmod, Goto, End, TypeInv, TypeOK, Temps, Writing, Readied
  <2>3. Walked' /\ Open'
    BY <1>7, <2>0 DEF Chmod, Goto, End, TypeInv, TypeOK, Temps, Walked, Open, Writing, Readied
  <2> QED
    BY <2>1, <2>2, <2>3 DEF TypeInv
<1>8. ASSUME NEW p \in Procs, Store(p)
      PROVE  TypeInv'
  <2>1. TypeOK'
    BY <1>8 DEF Store, Goto, End, TypeInv, TypeOK, Temps, Walked, Location, Writing
  <2>2. Temps'
    BY <1>8 DEF Store, Goto, End, TypeInv, TypeOK, Temps, Writing, Readied
  <2>3. Walked' /\ Open'
    BY <1>8 DEF Store, Goto, End, TypeInv, TypeOK, Temps, Walked, Open, Writing, Readied
  <2> QED
    BY <2>1, <2>2, <2>3 DEF TypeInv
<1>9. ASSUME NEW p \in Procs, Close(p)
      PROVE  TypeInv'
  <2>0. /\ temp' \in [Procs -> File \cup {None}]
        /\ temp'[p] \in File /\ temp'[p].readable
        /\ \A q \in Procs : q # p => temp'[q] = temp[q]
    <3>1. temp[p] \in File /\ temp[p].readable /\ TTYDEVS[p] \in Maps
      BY <1>9 DEF Close, TypeInv, Temps, Walked, Writing, Readied
    <3>2. LET f == [temp[p] EXCEPT !.map = TTYDEVS[p]]
          IN  f \in File /\ f.readable
      BY <3>1, Files
    <3> QED
      BY <1>9, <3>1, <3>2 DEF Close, TypeInv, TypeOK
  <2>1. TypeOK'
    BY <1>9, <2>0 DEF Close, Goto, End, TypeInv, TypeOK, Temps, Walked, Location, Writing
  <2>2. Temps'
    BY <1>9, <2>0 DEF Close, Goto, End, TypeInv, TypeOK, Temps, Writing, Readied
  <2>3. Walked' /\ Open'
    BY <1>9, <2>0 DEF Close, Goto, End, TypeInv, TypeOK, Temps, Walked, Open, Writing, Readied
  <2> QED
    BY <2>1, <2>2, <2>3 DEF TypeInv
<1>10. ASSUME NEW p \in Procs, Rename(p)
      PROVE  TypeInv'
  <2>1. TypeOK'
    BY <1>10 DEF Rename, Goto, End, TypeInv, TypeOK, Temps, Walked, Location, Writing
  <2>2. Temps'
    BY <1>10 DEF Rename, Goto, End, TypeInv, TypeOK, Temps, Writing, Readied
  <2>3. Walked' /\ Open'
    BY <1>10 DEF Rename, Goto, End, TypeInv, TypeOK, Temps, Walked, Open, Writing, Readied
  <2> QED
    BY <2>1, <2>2, <2>3 DEF TypeInv
<1>11. ASSUME NEW p \in Procs, Unlink(p)
      PROVE  TypeInv'
  <2>1. TypeOK'
    BY <1>11 DEF Unlink, Goto, End, TypeInv, TypeOK, Temps, Walked, Location, Writing
  <2>2. Temps'
    BY <1>11 DEF Unlink, Goto, End, TypeInv, TypeOK, Temps, Writing, Readied
  <2>3. Walked' /\ Open'
    BY <1>11 DEF Unlink, Goto, End, TypeInv, TypeOK, Temps, Walked, Open, Writing, Readied
  <2> QED
    BY <2>1, <2>2, <2>3 DEF TypeInv
<1>12. ASSUME NEW p \in Procs, Retest(p)
      PROVE  TypeInv'
  <2>1. TypeOK'
    BY <1>12 DEF Retest, Goto, End, TypeInv, TypeOK, Temps, Walked, Location, Writing
  <2>2. Temps'
    BY <1>12 DEF Retest, Goto, End, TypeInv, TypeOK, Temps, Writing, Readied
  <2>3. Walked' /\ Open'
    BY <1>12 DEF Retest, Goto, End, TypeInv, TypeOK, Temps, Walked, Open, Writing, Readied
  <2> QED
    BY <2>1, <2>2, <2>3 DEF TypeInv
<1>13. ASSUME NEW p \in Procs, Kill(p)
      PROVE  TypeInv'
  <2>1. TypeOK'
    BY <1>13 DEF Kill, Goto, End, TypeInv, TypeOK, Temps, Walked, Location, Writing
  <2>2. Temps'
    BY <1>13 DEF Kill, Goto, End, TypeInv, TypeOK, Temps, Writing, Readied
  <2>3. Walked' /\ Open'
    BY <1>13 DEF Kill, Goto, End, TypeInv, TypeOK, Temps, Walked, Open, Writing, Readied
  <2> QED
    BY <2>1, <2>2, <2>3 DEF TypeInv
<1>14. CASE Remove \/ Change
  <2>1. dev' \in Maps
    BY <1>14 DEF Remove, Change, TypeInv, TypeOK, Maps
  <2>2. /\ cache' \in File \cup {None} /\ (cache' = cache \/ cache' = None)
        /\ missed' \in [Procs -> BOOLEAN] /\ removals' \in 0..MaxRemovals
        /\ UNCHANGED <<temp, litter, TTYDEVS, pc, calls, result, kills>>
    <3>1. CASE Remove
      <4>1. removals' \in 0..MaxRemovals
        BY <3>1 DEF Remove, TypeInv, TypeOK
      <4>2. missed' \in [Procs -> BOOLEAN]
        BY <3>1 DEF Remove
      <4> QED
        BY <3>1, <4>1, <4>2 DEF Remove, TypeInv, TypeOK
    <3>2. CASE Change
      BY <3>2 DEF Change, TypeInv, TypeOK
    <3> QED
      BY <1>14, <3>1, <3>2
  <2> QED
    BY <2>1, <2>2 DEF TypeInv, TypeOK, Temps, Walked, Open
<1>15. CASE UNCHANGED vars
  BY <1>15 DEF vars, TypeInv, TypeOK, Temps, Walked, Open
<1> QED
  BY <1>1, <1>2, <1>3, <1>4, <1>5, <1>6, <1>7, <1>8, <1>9, <1>10, <1>11, <1>12, <1>13, <1>14, <1>15
  DEF Next, Step, Finished

LEMMA TypeInvariant == Spec => []TypeInv
BY TypeInit, TypeStep, PTL DEF Spec

\* The variables of the processes and their files keep their types for any
\* number of users, processes and kills, on a full disk too.
THEOREM TypeCorrect == Spec => []TypeOK
<1>1. TypeInv => TypeOK
  BY DEF TypeInv
<1> QED
  BY <1>1, TypeInvariant, PTL

-----------------------------------------------------------------------------
(* What is published, while the disk does not fill up *)

\* A file that is about to be renamed, or has been, is all of a map.
Whole ==
  /\ \A p \in Procs : pc[p] = "rename" => temp[p].map = TTYDEVS[p]
  /\ cache # None => cache.map \in Maps

LEMMA WholeStep ==
  ASSUME ~DiskMayFill
  PROVE  TypeInv /\ Whole /\ [Next]_vars => Whole'
<1> SUFFICES ASSUME TypeInv, Whole, [Next]_vars
             PROVE  Whole'
  OBVIOUS
<1> USE TtyCacheAssumption DEF Whole
<1>1. ASSUME NEW p \in Procs, Rename(p)
      PROVE  Whole'
  <2>1. TTYDEVS[p] \in Maps /\ pc[p] = "rename" /\ temp[p].map = TTYDEVS[p]
    BY <1>1 DEF Rename, TypeInv, Walked, Writing
  <2> QED
    BY <1>1, <2>1 DEF Rename, Goto, End, TypeInv, TypeOK
<1>2. ASSUME NEW p \in Procs, Close(p)
      PROVE  Whole'
  <2>1. temp[p] \in File /\ TTYDEVS[p] \in Maps
    BY <1>2 DEF Close, TypeInv, Temps, Walked, Writing
  <2>2. [temp[p] EXCEPT !.map = TTYDEVS[p]].map = TTYDEVS[p]
    BY <2>1, Files
  <2> QED
    BY <1>2, <2>2 DEF Close, Goto, TypeInv, TypeOK
<1>3. ASSUME NEW p \in Procs,
             New(p) \/ Test(p) \/ Retrieve(p) \/ Undef(p) \/ Find(p)
      PROVE  Whole'
  BY <1>3 DEF New, Test, Retrieve, Undef, Find, Goto, End, TypeInv, TypeOK
<1>4. ASSUME NEW p \in Procs,
             TempFile(p) \/ Chmod(p) \/ Store(p) \/ Unlink(p) \/ Retest(p) \/ Kill(p)
      PROVE  Whole'
  BY <1>4 DEF TempFile, Chmod, Store, Unlink, Retest, Kill, Goto, End, TypeInv, TypeOK
<1>5. CASE Remove \/ Change
  BY <1>5 DEF Remove, Change
<1>6. CASE UNCHANGED vars
  BY <1>6 DEF vars
<1> QED
  BY <1>1, <1>2, <1>3, <1>4, <1>5, <1>6 DEF Next, Step, Finished

LEMMA WholeInvariant ==
  ASSUME ~DiskMayFill
  PROVE  Spec => [](TypeInv /\ Whole)
<1>1. Init => Whole
  BY DEF Init, Whole
<1>2. TypeInv /\ Whole /\ [Next]_vars => Whole'
  BY WholeStep
<1> QED
  BY <1>1, <1>2, TypeInvariant, PTL DEF Spec

\* The cache file, renamed into place, is a mapping whenever it exists.
THEOREM CacheStaysWhole ==
  ASSUME ~DiskMayFill
  PROVE  Spec => []CacheIsMap
<1>1. Whole => CacheIsMap
  BY DEF Whole, CacheIsMap
<1> QED
  BY <1>1, WholeInvariant, PTL

-----------------------------------------------------------------------------
(* The refinement: initialize() implements a PublishedMap. *)

LEMMA RefineInit == Init => Published!Init
BY DEF Init, Published!Init, Shared

LEMMA RefineStep ==
  TypeInv /\ Whole /\ [Next]_vars => [Published!Next]_(Published!vars)
<1> SUFFICES ASSUME TypeInv, Whole, [Next]_vars
             PROVE  Published!Next \/ UNCHANGED Published!vars
  BY DEF Published!vars
<1>1. ASSUME NEW p \in Procs, Retrieve(p)
      PROVE  Published!Load(p) \/ UNCHANGED Published!vars
  <2>1. \/ /\ cache # None /\ TTYDEVS' = [TTYDEVS EXCEPT ![p] = cache.map]
        \/ UNCHANGED TTYDEVS
    BY <1>1 DEF Retrieve, Readable
  <2>2. cache # None => cache.map # None
    BY TtyCacheAssumption DEF Whole
  <2>3. UNCHANGED <<dev, cache>>
    BY <1>1 DEF Retrieve
  <2> QED
    BY <2>1, <2>2, <2>3 DEF Published!Load, Published!vars, Shared
<1>2. ASSUME NEW p \in Procs, Undef(p) \/ Kill(p)
      PROVE  Published!Forget(p)
  BY <1>2 DEF Undef, Kill, Published!Forget, Shared
<1>3. ASSUME NEW p \in Procs, Find(p)
      PROVE  Published!Walk(p)
  BY <1>3 DEF Find, Published!Walk, Shared
<1>4. ASSUME NEW p \in Procs, Rename(p)
      PROVE  Published!Publish(p) \/ UNCHANGED Published!vars
  <2>1. /\ pc[p] = "rename" /\ temp[p] \in File /\ temp[p].map = TTYDEVS[p]
        /\ TTYDEVS[p] \in Maps
    BY <1>4 DEF Rename, TypeInv, Temps, Walked, Whole, Writing
  <2>2. temp[p] # None /\ TTYDEVS[p] # None
    BY <2>1, TtyCacheAssumption
  <2>3. (cache' = temp[p] \/ cache' = cache) /\ UNCHANGED <<dev, TTYDEVS>>
    BY <1>4 DEF Rename
  <2> QED
    BY <2>1, <2>2, <2>3 DEF Published!Publish, Published!vars, Shared
<1>5. ASSUME NEW p \in Procs,
             \/ New(p) \/ Test(p) \/ TempFile(p) \/ Chmod(p) \/ Store(p)
             \/ Close(p) \/ Unlink(p) \/ Retest(p)
      PROVE  UNCHANGED Published!vars
  BY <1>5 DEF New, Test, TempFile, Chmod, Store, Close, Unlink, Retest,
              Published!vars, Shared
<1>6. ASSUME Remove
      PROVE  Published!Remove
  BY <1>6 DEF Remove, Published!Remove, Shared
<1>7. ASSUME Change
      PROVE  Published!Change
  BY <1>7 DEF Change, Published!Change, Shared
<1>8. ASSUME UNCHANGED vars
      PROVE  UNCHANGED Published!vars
  BY <1>8 DEF vars, Published!vars, Shared
<1> QED
  BY <1>1, <1>2, <1>3, <1>4, <1>5, <1>6, <1>7, <1>8
  DEF Next, Step, Finished, Published!Next

\* initialize() publishes whole maps in one step, whatever is killed or
\* removed on the way, as long as no write is lost for want of space.
THEOREM Refinement ==
  ASSUME ~DiskMayFill
  PROVE  Spec => Publishes
<1>1. TypeInv /\ Whole /\ [Next]_vars => [Published!Next]_(Published!vars)
  BY RefineStep
<1>2. Init => Published!Init
  BY RefineInit
<1> QED
  BY <1>1, <1>2, WholeInvariant, PTL DEF Spec, Publishes, Published!Spec

-----------------------------------------------------------------------------
(* When new() dies *)

\* A call that did not find a readable cache, or finds none now, has missed
\* it; the cache is readable, so the first is the second at an earlier time.
Missing ==
  \A p \in Procs :
    /\ pc[p] # "idle" /\ cache = None => missed[p]
    /\ pc[p] \in Writing \cup {"undef", "find", "tempfile", "retest"} => missed[p]
    /\ result[p] = "died" => missed[p]

LEMMA MissingStep ==
  TypeInv /\ Whole /\ Missing /\ [Next]_vars => Missing'
<1> SUFFICES ASSUME TypeInv, Whole, Missing, [Next]_vars
             PROVE  Missing'
  OBVIOUS
<1> USE TtyCacheAssumption DEF Missing, Writing
<1>1. ASSUME NEW p \in Procs, New(p)
      PROVE  Missing'
  BY <1>1 DEF New, Goto, TypeInv, TypeOK
<1>2. ASSUME NEW p \in Procs, Test(p) \/ Retrieve(p)
      PROVE  Missing'
  <2>1. Readable(p) \/ cache = None
    BY DEF Readable, TypeInv, Open
  <2>2. Readable(p) => cache.map # Torn
    BY TornIsNoMap DEF Readable, Whole
  <2> QED
    BY <1>2, <2>1, <2>2 DEF Test, Retrieve, Goto, End, TypeInv, TypeOK
<1>3. ASSUME NEW p \in Procs,
             Undef(p) \/ Find(p) \/ TempFile(p) \/ Chmod(p) \/ Store(p) \/ Close(p)
      PROVE  Missing'
  BY <1>3 DEF Undef, Find, TempFile, Chmod, Store, Close, Goto, End, TypeInv, TypeOK
<1>4. ASSUME NEW p \in Procs, Rename(p)
      PROVE  Missing'
  <2>1. pc[p] = "rename" /\ temp[p] # None
    BY <1>4 DEF Rename, TypeInv, Temps
  <2> QED
    BY <1>4, <2>1 DEF Rename, Goto, End, TypeInv, TypeOK
<1>5. ASSUME NEW p \in Procs, Unlink(p) \/ Retest(p) \/ Kill(p)
      PROVE  Missing'
  BY <1>5 DEF Unlink, Retest, Kill, Goto, End, TypeInv, TypeOK
<1>6. CASE Remove \/ Change
  BY <1>6 DEF Remove, Change, TypeInv, TypeOK
<1>7. CASE UNCHANGED vars
  BY <1>7 DEF vars
<1> QED
  BY <1>1, <1>2, <1>3, <1>4, <1>5, <1>6, <1>7 DEF Next, Step, Finished

\* Of all the races between a test of the file, its removal and a rename that
\* is refused, none makes new() die while the cache file is there throughout.
THEOREM DiesRightly ==
  ASSUME ~DiskMayFill
  PROVE  Spec => []DiesOnlyWithoutCache
<1>1. Init => Missing
  BY DEF Init, Missing, Writing
<1>2. Missing => DiesOnlyWithoutCache
  BY DEF Missing, DiesOnlyWithoutCache
<1> QED
  BY <1>1, <1>2, MissingStep, WholeInvariant, PTL DEF Spec

-----------------------------------------------------------------------------
(* What a call leaves behind *)

\* A call has its result only once it is over, and then a map if it succeeded.
Results ==
  \A p \in Procs :
    /\ pc[p] # "idle" => result[p] = "none"
    /\ result[p] = "ok" => TTYDEVS[p] \in Maps

LEMMA ResultsStep == TypeInv /\ Results /\ [Next]_vars => Results'
<1> SUFFICES ASSUME TypeInv, Results, [Next]_vars
             PROVE  Results'
  OBVIOUS
<1> USE DEF Results
<1>1. ASSUME NEW p \in Procs, Retrieve(p)
      PROVE  Results'
  <2>1. Readable(p) /\ cache.map # Torn => cache.map \in Maps
    BY Files DEF Readable, TypeInv, TypeOK
  <2> QED
    BY <1>1, <2>1 DEF Retrieve, End, Goto, TypeInv, TypeOK
<1>2. ASSUME NEW p \in Procs, Rename(p) \/ Retest(p)
      PROVE  Results'
  <2>1. TTYDEVS[p] \in Maps
    BY <1>2 DEF Rename, Retest, TypeInv, Walked, Writing
  <2> QED
    BY <1>2, <2>1 DEF Rename, Retest, End, Goto, TypeInv, TypeOK
<1>3. ASSUME NEW p \in Procs, Undef(p) \/ Find(p) \/ Kill(p)
      PROVE  Results'
  BY <1>3 DEF Undef, Find, Kill, End, Goto, TypeInv, TypeOK
<1>4. ASSUME NEW p \in Procs, New(p) \/ Test(p) \/ TempFile(p) \/ Chmod(p)
      PROVE  Results'
  BY <1>4 DEF New, Test, TempFile, Chmod, End, Goto, TypeInv, TypeOK
<1>5. ASSUME NEW p \in Procs, Store(p) \/ Close(p) \/ Unlink(p)
      PROVE  Results'
  BY <1>5 DEF Store, Close, Unlink, End, Goto, TypeInv, TypeOK
<1>6. CASE Remove \/ Change \/ UNCHANGED vars
  BY <1>6 DEF Remove, Change, vars
<1> QED
  BY <1>1, <1>2, <1>3, <1>4, <1>5, <1>6 DEF Next, Step, Finished

\* Whatever is removed, replaced or torn between the steps of a call, a call
\* that returns has a map, on a full disk too.
THEOREM SuccessHasMap == Spec => []SuccessMeansMap
<1>1. Init => Results
  BY DEF Init, Results
<1>2. Results => SuccessMeansMap
  BY DEF Results, SuccessMeansMap
<1> QED
  BY <1>1, <1>2, ResultsStep, TypeInvariant, PTL DEF Spec

LEMMA LitterStep ==
  ASSUME ~DiskMayFill
  PROVE  TypeInv /\ litter <= kills /\ [Next]_vars => (litter <= kills)'
<1> SUFFICES ASSUME TypeInv, litter <= kills, [Next]_vars
             PROVE  litter' <= kills'
  OBVIOUS
<1>1. ASSUME NEW p \in Procs, Kill(p)
      PROVE  litter' <= kills'
  <2>1. litter \in Nat /\ kills \in Nat /\ kills' = kills + 1
    BY <1>1, TtyCacheAssumption DEF Kill, TypeInv, TypeOK
  <2>2. litter' = litter \/ litter' = litter + 1
    BY <1>1 DEF Kill
  <2> QED
    BY <2>1, <2>2
<1>2. ASSUME NEW p \in Procs, New(p) \/ Step(p)
      PROVE  UNCHANGED <<litter, kills>>
  BY <1>2 DEF New, Step, Test, Retrieve, Undef, Find, TempFile, Chmod, Store, Close,
              Rename, Unlink, Retest
<1>3. CASE Remove \/ Change \/ UNCHANGED vars
  BY <1>3 DEF Remove, Change, vars
<1> QED
  BY <1>1, <1>2, <1>3 DEF Next, Finished

\* On every path of a call that is not killed, the temporary file is renamed
\* or unlinked.
THEOREM NoLitterLeft ==
  ASSUME ~DiskMayFill
  PROVE  Spec => []NoLitter
<1>1. Init => litter <= kills
  BY DEF Init
<1>2. TypeInv /\ litter <= kills => NoLitter
  BY DEF TypeInv, Temps, Writing, NoLitter
<1>3. TypeInv /\ litter <= kills /\ [Next]_vars => (litter <= kills)'
  BY LitterStep
<1> QED
  BY <1>1, <1>2, <1>3, TypeInvariant, PTL DEF Spec
=============================================================================
