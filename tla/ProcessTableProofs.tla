------------------------- MODULE ProcessTableProofs -------------------------
(***************************************************************************)
(* What ProcessTable.tla promises for any number of threads, calls and     *)
(* processes, exceptions in new() and table() included.                    *)
(***************************************************************************)
EXTENDS ProcessTable, TLAPS

\* The type invariant is inductive once it knows that the record about to be
\* pushed is a record.
TypeInv ==
  /\ TypeOK
  /\ \A t \in Threads : pc[t] = "bless_push" => rec[t] \in Record

USE ConstantsAssumption DEF Owner, Location

LEMMA TypeInit == Init => TypeInv
<1> SUFFICES ASSUME Init
             PROVE  TypeInv
  OBVIOUS
<1> USE DEF Init
<1>1. nfields \in [Threads -> [via: {"none", "direct", "nested"},
                              count: {0, 1, NumFields, NumFields + 1},
                              set: BOOLEAN]]
  OBVIOUS
<1>2. /\ pc \in [Threads -> Location]
      /\ ret \in [Threads -> {"idle", "fields_push"}]
  OBVIOUS
<1>3. calls \in [Threads -> 0..MaxCalls]
  OBVIOUS
<1>4. av \in [Threads -> Seq(Record)]
  OBVIOUS
<1>5. /\ object \in [Threads -> BOOLEAN]
      /\ tableRef \in [Threads -> Owner]
      /\ got \in [Threads -> Owner]
  OBVIOUS
<1>6. rec \in [Threads -> Record \cup {NoThread}]
  OBVIOUS
<1> QED
  BY <1>1, <1>2, <1>3, <1>4, <1>5, <1>6 DEF TypeInv, TypeOK

LEMMA TypeStep == TypeInv /\ [Next]_vars => TypeInv'
<1> SUFFICES ASSUME TypeInv, [Next]_vars
             PROVE  TypeInv'
  OBVIOUS
<1> USE DEF TypeInv, TypeOK, Goto, mutexes, globals, results, Lock, Unlock
<1>1. ASSUME NEW t \in Threads, Call(t)
      PROVE  TypeInv'
  <2>1. calls' \in [Threads -> 0..MaxCalls]
    BY <1>1 DEF Call
  <2>2. pc' \in [Threads -> Location] /\ pc'[t] # "bless_push"
    BY <1>1 DEF Call
  <2>3. \A u \in Threads : pc'[u] = "bless_push" => pc[u] = "bless_push"
    BY <1>1, <2>2 DEF Call
  <2>4. ret' \in [Threads -> {"idle", "fields_push"}]
    BY <1>1 DEF Call
  <2> QED
    BY <1>1, <2>1, <2>2, <2>3, <2>4 DEF Call
<1>2. ASSUME NEW t \in Threads, Step(t)
      PROVE  TypeInv'
  <2>1. CASE NewLock(t)
    BY <2>1 DEF NewLock
  <2>2. CASE NewReturn(t)
    BY <2>2 DEF NewReturn
  <2>3. CASE NewDie(t)
    BY <2>3 DEF NewDie
  <2>4. CASE TableLock(t)
    BY <2>4 DEF TableLock
  <2>5. CASE TableList(t)
    BY <2>5 DEF TableList
  <2>6. CASE ScanNext(t)
    BY <2>6 DEF ScanNext
  <2>7. CASE TableReturn(t)
    BY <2>7 DEF TableReturn
  <2>8. CASE TableCroak(t)
    BY <2>8 DEF TableCroak
  <2>9. CASE BlessCheck(t)
    BY <2>9 DEF BlessCheck
  <2>10. CASE BlessStore(t)
    BY <2>10 DEF BlessStore
  <2>11. CASE BlessHash(t)
    <3>1. [by |-> t, tty |-> Ttydevs, call |-> calls[t]] \in Record
      BY DEF Record
    <3>2. /\ rec' \in [Threads -> Record \cup {NoThread}]
          /\ rec'[t] \in Record
          /\ \A u \in Threads \ {t} : rec'[u] = rec[u] /\ pc'[u] = pc[u]
      BY <2>11, <3>1 DEF BlessHash
    <3>3. pc' \in [Threads -> Location]
      BY <2>11 DEF BlessHash
    <3> QED
      BY <2>11, <3>2, <3>3 DEF BlessHash
  <2>12. CASE BlessPush(t)
    <3>1. ASSUME NEW u \in Threads
          PROVE  Append(av[u], rec[t]) \in Seq(Record)
      BY <2>12 DEF BlessPush
    <3>2. av' \in [Threads -> Seq(Record)]
      BY <2>12, <3>1 DEF BlessPush
    <3>3. pc' \in [Threads -> Location]
      BY <2>12 DEF BlessPush
    <3>4. /\ rec' \in [Threads -> Record \cup {NoThread}]
          /\ \A u \in Threads : pc'[u] = "bless_push" => rec'[u] \in Record
      BY <2>12 DEF BlessPush
    <3> QED
      BY <2>12, <3>2, <3>3, <3>4 DEF BlessPush
  <2>13. CASE FieldsCheck(t)
    BY <2>13 DEF FieldsCheck
  <2>14. CASE FieldsPush(t)
    BY <2>14 DEF FieldsPush
  <2> QED
    BY <1>2, <2>1, <2>2, <2>3, <2>4, <2>5, <2>6, <2>7, <2>8, <2>9, <2>10,
       <2>11, <2>12, <2>13, <2>14 DEF Step
<1>3. CASE UNCHANGED vars
  BY <1>3 DEF vars, locals
<1> QED
  BY <1>1, <1>2, <1>3 DEF Next, Finished

LEMMA TypeInvariant == Spec => []TypeInv
BY TypeInit, TypeStep, PTL DEF Spec

\* Every variable keeps its type, whichever way the module is built and
\* whatever initialize() and OS_get_table() throw.
THEOREM TypeCorrect == Spec => []TypeOK
BY TypeInvariant, PTL DEF TypeInv
-----------------------------------------------------------------------------
(***************************************************************************)
(* The threaded build, or a process with one thread.  From TableLock to    *)
(* TableReturn a thread owns mtx_table or is the only one, and so the      *)
(* globals it reads are those it wrote (Control); so the record it builds  *)
(* and the list it pushes it on are its own (Data).                        *)
(***************************************************************************)

InTable == InScan \cup {"table_list"}

\* How the module may be used: built for threads, or called by one alone.
Alone == \A t, u \in Threads : t = u
Exclusive == PROCESSTABLE_THREAD \/ Alone

\* mtx_table belongs to the one thread that is inside table().
Exclusion == \A t \in Threads : pc[t] \in InTable => mtx_table = t \/ Alone

\* Inside table() the globals point at the caller's data, ...
OwnGlobals ==
  \A t \in Threads : /\ pc[t] \in InTable => Ttydevs = t
                     /\ pc[t] \in InScan => Proclist = t

\* ... and every object refers to an array of its own thread.
OwnRef == \A t \in Threads : tableRef[t] \in {NoThread, t}

Control == Exclusion /\ OwnGlobals /\ OwnRef

LEMMA ControlInit == Init => Control
BY DEF Init, Control, Exclusion, OwnGlobals, OwnRef, InTable, InScan, InBless

LEMMA ControlStep ==
  ASSUME Exclusive, TypeOK, Control, [Next]_vars
  PROVE  Control'
<1> USE DEF Exclusive, Alone, Control, Exclusion, OwnGlobals, OwnRef, InTable, InScan, InBless,
            Goto, mutexes, globals, results, Lock, Unlock
<1>0. /\ pc \in [Threads -> Location]
      /\ ret \in [Threads -> {"idle", "fields_push"}]
      /\ tableRef \in [Threads -> Owner]
  BY DEF TypeOK
<1>1. ASSUME NEW t \in Threads, Call(t)
      PROVE  Control'
  <2>1. /\ pc'[t] \in {"new_lock", "table_lock", "fields_check"}
        /\ \A u \in Threads \ {t} : pc'[u] = pc[u]
    BY <1>0, <1>1 DEF Call
  <2>2. UNCHANGED <<tableRef, mtx_table, Ttydevs, Proclist>>
    BY <1>1 DEF Call
  <2> QED
    BY <2>1, <2>2
<1>2. ASSUME NEW t \in Threads, Step(t)
      PROVE  Control'
  <2>1. CASE NewLock(t)
    BY <1>0, <2>1 DEF NewLock
  <2>2. CASE NewReturn(t)
    BY <1>0, <2>2 DEF NewReturn
  <2>3. CASE NewDie(t)
    BY <1>0, <2>3 DEF NewDie
  <2>4. CASE TableLock(t)
    BY <1>0, <2>4 DEF TableLock
  <2>5. CASE TableList(t)
    <3>1. /\ Proclist' = t
          /\ tableRef' = [tableRef EXCEPT ![t] = t]
      BY <1>0, <2>5 DEF TableList
    <3> QED
      BY <1>0, <2>5, <3>1 DEF TableList
  <2>6. CASE ScanNext(t)
    BY <1>0, <2>6 DEF ScanNext
  <2>7. CASE TableReturn(t)
    <3>1. pc'[t] \in {"idle", "fields_push"}
      BY <1>0, <2>7 DEF TableReturn
    <3>2. \A u \in Threads \ {t} : pc'[u] = pc[u]
      BY <1>0, <2>7 DEF TableReturn
    <3>3. \A u \in Threads \ {t} : pc[u] \notin InTable
      BY <2>7 DEF TableReturn
    <3> QED
      BY <2>7, <3>1, <3>2, <3>3 DEF TableReturn
  <2>8. CASE TableCroak(t)
    BY <1>0, <2>8 DEF TableCroak
  <2>9. CASE BlessCheck(t)
    <3>1. pc[t] = "bless" /\ pc'[t] \in InBless
      BY <1>0, <2>9 DEF BlessCheck
    <3>2. \A u \in Threads \ {t} : pc'[u] = pc[u]
      BY <1>0, <2>9 DEF BlessCheck
    <3>3. UNCHANGED <<tableRef, mtx_table, Ttydevs, Proclist>>
      BY <2>9 DEF BlessCheck
    <3> QED
      BY <3>1, <3>2, <3>3
  <2>10. CASE BlessStore(t)
    BY <1>0, <2>10 DEF BlessStore
  <2>11. CASE BlessHash(t)
    BY <1>0, <2>11 DEF BlessHash
  <2>12. CASE BlessPush(t)
    BY <1>0, <2>12 DEF BlessPush
  <2>13. CASE FieldsCheck(t)
    <3>1. pc'[t] \in {"fields_push", "table_lock"}
      BY <1>0, <2>13 DEF FieldsCheck
    <3>2. \A u \in Threads \ {t} : pc'[u] = pc[u]
      BY <1>0, <2>13 DEF FieldsCheck
    <3>3. UNCHANGED <<tableRef, mtx_table, Ttydevs, Proclist>>
      BY <2>13 DEF FieldsCheck
    <3> QED
      BY <3>1, <3>2, <3>3
  <2>14. CASE FieldsPush(t)
    BY <1>0, <2>14 DEF FieldsPush
  <2> QED
    BY <1>2, <2>1, <2>2, <2>3, <2>4, <2>5, <2>6, <2>7, <2>8, <2>9, <2>10,
       <2>11, <2>12, <2>13, <2>14 DEF Step
<1>3. CASE UNCHANGED vars
  BY <1>3 DEF vars, locals
<1> QED
  BY <1>1, <1>2, <1>3 DEF Next, Finished

-----------------------------------------------------------------------------

\* The record on its way to the caller's array is of this call.
OwnRec(t) ==
  pc[t] = "bless_push" => rec[t] = [by |-> t, tty |-> t, call |-> calls[t]]

OwnGot(t) == got[t] \in {NoThread, t}

OwnList(t) == \A i \in DOMAIN av[t] : av[t][i].by = t /\ av[t][i].tty = t

ThisCall(t) ==
  pc[t] \in InScan => \A i \in DOMAIN av[t] : av[t][i].call = calls[t]

Data ==
  \A t \in Threads : OwnRec(t) /\ OwnGot(t) /\ OwnList(t) /\ ThisCall(t)

LEMMA DataInit == Init => Data
<1> SUFFICES ASSUME Init, NEW t \in Threads
             PROVE  OwnRec(t) /\ OwnGot(t) /\ OwnList(t) /\ ThisCall(t)
  BY DEF Data
<1>1. pc[t] = "idle" /\ got[t] = NoThread /\ av[t] = <<>>
  BY DEF Init
<1>2. DOMAIN av[t] = {}
  BY <1>1
<1> QED
  BY <1>1, <1>2 DEF OwnRec, OwnGot, OwnList, ThisCall

LEMMA DataIsEnough == Data => OwnTable /\ FreshScan
BY DEF Data, OwnGot, OwnList, ThisCall, OwnTable, FreshScan

\* What concerns thread t survives a step that leaves t's data alone and does
\* not move t into the scan or past the building of a record.
LEMMA Frame ==
  ASSUME NEW t \in Threads, OwnRec(t), OwnGot(t), OwnList(t), ThisCall(t),
         av'[t] = av[t], got'[t] = got[t],
         pc'[t] = "bless_push" => pc[t] = "bless_push" /\ rec'[t] = rec[t],
         pc'[t] \in InScan => pc[t] \in InScan,
         pc'[t] \in InScan => calls'[t] = calls[t]
  PROVE  OwnRec(t)' /\ OwnGot(t)' /\ OwnList(t)' /\ ThisCall(t)'
<1>1. OwnRec(t)'
  BY DEF OwnRec, InScan, InBless
<1>2. OwnGot(t)'
  BY DEF OwnGot
<1>3. OwnList(t)'
  BY DEF OwnList
<1>4. ThisCall(t)'
  BY DEF ThisCall
<1> QED
  BY <1>1, <1>2, <1>3, <1>4

\* The steps that touch none of a thread's data.
LEMMA QuietStep ==
  ASSUME TypeOK, NEW t \in Threads,
         \/ Call(t) \/ NewLock(t) \/ NewDie(t) \/ TableLock(t) \/ ScanNext(t)
         \/ TableCroak(t) \/ BlessCheck(t) \/ BlessStore(t) \/ FieldsCheck(t)
         \/ FieldsPush(t)
  PROVE  \A u \in Threads :
           /\ av'[u] = av[u] /\ got'[u] = got[u] /\ rec'[u] = rec[u]
           /\ pc'[u] # "bless_push" \/ pc'[u] = pc[u]
           /\ pc'[u] \in InScan => pc[u] \in InScan /\ calls'[u] = calls[u]
<1> USE DEF TypeOK, InScan, InBless, Goto, results, mutexes, globals
<1>1. CASE Call(t)
  <2>1. UNCHANGED <<av, got, rec>>
    BY <1>1 DEF Call
  <2>2. \A u \in Threads :
          \/ pc'[u] = pc[u] /\ calls'[u] = calls[u]
          \/ pc'[u] \in {"new_lock", "table_lock", "fields_check"}
    BY <1>1 DEF Call
  <2> QED
    BY <2>1, <2>2
<1>2. CASE NewLock(t) \/ NewDie(t) \/ TableLock(t) \/ ScanNext(t)
  BY <1>2 DEF NewLock, NewDie, TableLock, ScanNext
<1>3. CASE TableCroak(t) \/ BlessStore(t) \/ FieldsPush(t)
  BY <1>3 DEF TableCroak, BlessStore, FieldsPush
<1>4. CASE BlessCheck(t)
  BY <1>4 DEF BlessCheck
<1>5. CASE FieldsCheck(t)
  BY <1>5 DEF FieldsCheck
<1> QED
  BY <1>1, <1>2, <1>3, <1>4, <1>5

LEMMA DataStep ==
  ASSUME Exclusive, TypeInv, Control, Data, [Next]_vars
  PROVE  Data'
<1>0. /\ TypeOK
      /\ \A t \in Threads : OwnRec(t) /\ OwnGot(t) /\ OwnList(t) /\ ThisCall(t)
  BY DEF TypeInv, Data
<1>1. ASSUME NEW t \in Threads,
             \/ Call(t) \/ NewLock(t) \/ NewDie(t) \/ TableLock(t)
             \/ ScanNext(t) \/ TableCroak(t) \/ BlessCheck(t) \/ BlessStore(t)
             \/ FieldsCheck(t) \/ FieldsPush(t)
      PROVE  Data'
  BY <1>0, <1>1, QuietStep, Frame DEF Data
<1>2. ASSUME NEW t \in Threads, NewReturn(t)
      PROVE  Data'
  <2>1. UNCHANGED <<av, rec, calls>> /\ pc'[t] = "idle"
    BY <1>0, <1>2 DEF NewReturn, TypeOK, Goto
  <2>2. \A u \in Threads \ {t} : pc'[u] = pc[u] /\ got'[u] = got[u]
    BY <1>0, <1>2 DEF NewReturn, TypeOK, Goto
  <2>3. OwnGot(t)'
    BY <1>0, <1>2 DEF NewReturn, TypeOK, OwnGot
  <2>4. OwnRec(t)' /\ OwnList(t)' /\ ThisCall(t)'
    BY <1>0, <2>1 DEF OwnRec, OwnList, ThisCall, InScan, InBless
  <2> QED
    BY <1>0, <2>1, <2>2, <2>3, <2>4, Frame DEF Data
<1>3. ASSUME NEW t \in Threads, TableReturn(t)
      PROVE  Data'
  <2>1. Proclist = t
    BY <1>3 DEF TableReturn, Control, OwnGlobals, InTable, InScan
  <2>2. UNCHANGED <<av, rec, calls>> /\ pc'[t] \in {"idle", "fields_push"}
    BY <1>0, <1>3 DEF TableReturn, TypeOK, Goto
  <2>3. \A u \in Threads \ {t} : pc'[u] = pc[u] /\ got'[u] = got[u]
    BY <1>0, <1>3 DEF TableReturn, TypeOK, Goto
  <2>4. OwnGot(t)'
    BY <1>0, <1>3, <2>1 DEF TableReturn, TypeOK, OwnGot
  <2>5. OwnRec(t)' /\ OwnList(t)' /\ ThisCall(t)'
    BY <1>0, <2>2 DEF OwnRec, OwnList, ThisCall, InScan, InBless
  <2> QED
    BY <1>0, <2>2, <2>3, <2>4, <2>5, Frame DEF Data
<1>4. ASSUME NEW t \in Threads, TableList(t)
      PROVE  Data'
  <2>1. av' = [av EXCEPT ![t] = <<>>]
    BY <1>0, <1>4 DEF TableList, TypeOK, Control, OwnRef
  <2>2. UNCHANGED <<got, rec, calls>> /\ pc'[t] = "scan" /\ av'[t] = <<>>
    BY <1>0, <1>4, <2>1 DEF TableList, TypeOK, Goto, results
  <2>3. \A u \in Threads \ {t} : pc'[u] = pc[u] /\ av'[u] = av[u]
    BY <1>0, <1>4, <2>1 DEF TableList, TypeOK, Goto
  <2>4. OwnRec(t)' /\ OwnGot(t)'
    BY <1>0, <2>2 DEF OwnRec, OwnGot
  <2>5. DOMAIN av'[t] = {}
    BY <2>2
  <2>6. OwnList(t)' /\ ThisCall(t)'
    BY <2>5 DEF OwnList, ThisCall
  <2> QED
    BY <1>0, <2>2, <2>3, <2>4, <2>6, Frame DEF Data
<1>5. ASSUME NEW t \in Threads, BlessHash(t)
      PROVE  Data'
  <2>1. Ttydevs = t
    BY <1>5 DEF BlessHash, Control, OwnGlobals, InTable, InScan, InBless
  <2>2. rec'[t] = [by |-> t, tty |-> t, call |-> calls[t]]
    BY <1>0, <1>5, <2>1 DEF BlessHash, TypeOK
  <2>3. UNCHANGED <<av, got, calls>> /\ pc'[t] = "bless_push" /\ pc[t] \in InScan
    BY <1>0, <1>5 DEF BlessHash, TypeOK, Goto, results, InScan, InBless
  <2>4. \A u \in Threads \ {t} : pc'[u] = pc[u] /\ rec'[u] = rec[u]
    BY <1>0, <1>5 DEF BlessHash, TypeOK, Goto
  <2>5. OwnRec(t)' /\ OwnGot(t)' /\ OwnList(t)' /\ ThisCall(t)'
    BY <1>0, <2>2, <2>3 DEF OwnRec, OwnGot, OwnList, ThisCall
  <2> QED
    BY <1>0, <2>3, <2>4, <2>5, Frame DEF Data
<1>6. ASSUME NEW t \in Threads, BlessPush(t)
      PROVE  Data'
  <2>1. Proclist = t
    BY <1>6 DEF BlessPush, Control, OwnGlobals, InTable, InScan, InBless
  <2>2. PICK r : r = rec[t] /\ r = [by |-> t, tty |-> t, call |-> calls[t]]
    BY <1>0, <1>6 DEF BlessPush, OwnRec
  <2>3. r \in Record
    BY <1>6, <2>2 DEF BlessPush, TypeInv
  <2>3a. r.by = t /\ r.tty = t /\ r.call = calls[t]
    BY <2>2
  <2>4. av[t] \in Seq(Record) /\ av'[t] = Append(av[t], r)
    BY <1>0, <1>6, <2>1, <2>2 DEF BlessPush, TypeOK
  <2>5. UNCHANGED <<got, calls>> /\ pc'[t] = "scan" /\ pc[t] \in InScan
    BY <1>0, <1>6 DEF BlessPush, TypeOK, Goto, results, InScan, InBless
  <2>6. \A u \in Threads \ {t} : /\ pc'[u] = pc[u] /\ rec'[u] = rec[u]
                                 /\ av'[u] = av[u]
    BY <1>0, <1>6, <2>1 DEF BlessPush, TypeOK, Goto
  <2>7. \A i \in DOMAIN av'[t] :
          av'[t][i] = r \/ (i \in DOMAIN av[t] /\ av'[t][i] = av[t][i])
    BY <2>3, <2>4
  <2>8. OwnList(t)' /\ ThisCall(t)'
    BY <1>0, <2>3a, <2>5, <2>7 DEF OwnList, ThisCall
  <2>9. OwnRec(t)' /\ OwnGot(t)'
    BY <1>0, <2>5 DEF OwnRec, OwnGot
  <2> QED
    BY <1>0, <2>5, <2>6, <2>8, <2>9, Frame DEF Data
<1>7. CASE UNCHANGED vars
  BY <1>0, <1>7, Frame DEF Data, vars, locals, results
<1> QED
  BY <1>1, <1>2, <1>3, <1>4, <1>5, <1>6, <1>7 DEF Next, Step, Finished

-----------------------------------------------------------------------------

LEMMA ThreadInvariant ==
  ASSUME Exclusive
  PROVE  Spec => [](TypeInv /\ Control /\ Data)
<1>1. Init => TypeInv /\ Control /\ Data
  BY TypeInit, ControlInit, DataInit
<1>2. TypeInv /\ Control /\ Data /\ [Next]_vars => (TypeInv /\ Control /\ Data)'
  BY TypeStep, ControlStep, DataStep DEF TypeInv
<1> QED
  BY <1>1, <1>2, PTL DEF Spec

\* With -DPROCESSTABLE_THREAD and any number of threads, or in the default
\* build with one, table() gives each thread its own list, built by its own
\* scan and with its own tty names.
THEOREM ExclusiveOwnTable ==
  ASSUME Exclusive
  PROVE  Spec => []OwnTable
BY ThreadInvariant, DataIsEnough, PTL

\* ... and a list never mixes the processes of two calls, even after a call
\* that threw.
THEOREM ExclusiveFreshScan ==
  ASSUME Exclusive
  PROVE  Spec => []FreshScan
BY ThreadInvariant, DataIsEnough, PTL

\* A list already handed to a thread changes only inside that thread's own
\* next table().
THEOREM ExclusiveTableStable ==
  ASSUME Exclusive
  PROVE  Spec => ReturnedTableStable
<1>1. ASSUME TypeOK, Control, [Next]_vars, NEW t \in Threads,
             pc[t] \notin InTable
      PROVE  av'[t] = av[t]
  <2>1. ASSUME NEW u \in Threads, TableList(u)
        PROVE  av'[t] = av[t]
    <3>1. av' = [av EXCEPT ![u] = <<>>] /\ u # t
      BY <1>1, <2>1 DEF TableList, Control, OwnRef, InTable
    <3> QED
      BY <1>1, <3>1 DEF TypeOK
  <2>2. ASSUME NEW u \in Threads, BlessPush(u)
        PROVE  av'[t] = av[t]
    <3>1. Proclist = u /\ u # t
      BY <1>1, <2>2 DEF BlessPush, Control, OwnGlobals, InTable, InScan, InBless
    <3> QED
      BY <1>1, <2>2, <3>1 DEF BlessPush, TypeOK
  <2>3. ASSUME NEW u \in Threads, NewReturn(u) \/ TableReturn(u) \/ BlessHash(u)
        PROVE  av' = av
    BY <2>3 DEF NewReturn, TableReturn, BlessHash
  <2>4. CASE UNCHANGED vars
    BY <2>4 DEF vars, locals
  <2> QED
    BY <1>1, <2>1, <2>2, <2>3, <2>4, QuietStep DEF Next, Step, Finished
<1>2. TypeInv /\ Control /\ [Next]_vars =>
        [\A t \in Threads :
           pc[t] \notin InScan \cup {"table_list"} => av'[t] = av[t]]_vars
  BY <1>1 DEF InTable, TypeInv
<1> QED
  BY <1>2, ThreadInvariant, PTL DEF Spec, ReturnedTableStable

-----------------------------------------------------------------------------
(***************************************************************************)
(* Fields and Numfields, which bless_into_proc() stores one after the      *)
(* other, once, and fields() reads without the mutex.                      *)
(***************************************************************************)

Named == Fields /\ Numfields = NumFields

\* Only a thread between the two stores sees one of them alone, and nobody
\* gets past them, or has a process on its list, before both are done.
Names ==
  /\ Fields /\ ~Named => \E t \in Threads : pc[t] = "bless_numfields"
  /\ ~Fields /\ Numfields # 0 => \E t \in Threads : pc[t] = "bless_fields"
  /\ \A t \in Threads :
       /\ pc[t] = "bless_numfields" => Fields
       /\ pc[t] = "bless_fields" => Numfields = NumFields
       /\ pc[t] \in {"bless_hash", "bless_push"} => Named
       /\ av[t] # <<>> => Named

LEMMA NamesInit == Init => Names
BY DEF Init, Names, Named

\* Only one thread is ever between the stores, and no other past TableList.
LEMMA OneStores ==
  ASSUME Exclusive, Control, NEW t \in Threads, NEW u \in Threads,
         pc[t] \in InScan, pc[u] \in InScan
  PROVE  t = u
BY DEF Exclusive, Alone, Control, Exclusion, InTable

\* The steps that store neither leave the names as they are.
LEMMA OtherStep ==
  ASSUME TypeOK, Names, NEW t \in Threads,
         UNCHANGED <<Fields, Numfields>>,
         pc[t] \notin {"bless_numfields", "bless_fields"},
         pc'[t] \notin {"bless_numfields", "bless_fields"},
         pc'[t] \in {"bless_hash", "bless_push"} => Named,
         \A u \in Threads : av'[u] # <<>> => Named,
         \A u \in Threads \ {t} : pc'[u] = pc[u]
  PROVE  Names'
BY DEF Names, Named

LEMMA NamesStep ==
  ASSUME Exclusive, TypeOK, Control, Names, [Next]_vars
  PROVE  Names'
<1> USE DEF Goto
<1>0. /\ pc \in [Threads -> Location]
      /\ ret \in [Threads -> {"idle", "fields_push"}]
      /\ \A u \in Threads : av[u] # <<>> => Named
  BY DEF TypeOK, Names
<1>1. ASSUME NEW t \in Threads, Call(t)
      PROVE  Names'
  <2>1. /\ pc[t] = "idle" /\ pc'[t] \in {"new_lock", "table_lock", "fields_check"}
        /\ \A u \in Threads \ {t} : pc'[u] = pc[u]
        /\ UNCHANGED <<Fields, Numfields, av>>
    BY <1>0, <1>1 DEF Call, globals
  <2> QED
    BY <1>0, <2>1, OtherStep
<1>2. ASSUME NEW t \in Threads,
             NewLock(t) \/ NewReturn(t) \/ NewDie(t) \/ TableLock(t)
      PROVE  Names'
  <2>1. /\ pc[t] \in {"new_lock", "new_init", "table_lock"}
        /\ pc'[t] \in {"new_init", "idle", "table_list"}
        /\ \A u \in Threads \ {t} : pc'[u] = pc[u]
        /\ UNCHANGED <<Fields, Numfields, av>>
    BY <1>0, <1>2 DEF NewLock, NewReturn, NewDie, TableLock, globals
  <2> QED
    BY <1>0, <2>1, OtherStep
<1>3. ASSUME NEW t \in Threads, TableList(t)
      PROVE  Names'
  <2>1. /\ pc[t] = "table_list" /\ pc'[t] = "scan"
        /\ \A u \in Threads \ {t} : pc'[u] = pc[u]
        /\ UNCHANGED <<Fields, Numfields>>
    BY <1>0, <1>3 DEF TableList
  <2>2. \A u \in Threads : av'[u] # <<>> => av[u] # <<>>
    BY <1>3 DEF TableList, TypeOK
  <2> QED
    BY <1>0, <2>1, <2>2, OtherStep
<1>4. ASSUME NEW t \in Threads, ScanNext(t) \/ TableReturn(t) \/ TableCroak(t)
      PROVE  Names'
  <2>1. /\ pc[t] \in {"scan", "bless_hash"}
        /\ pc'[t] \in {"bless", "idle", "fields_push"}
        /\ \A u \in Threads \ {t} : pc'[u] = pc[u]
        /\ UNCHANGED <<Fields, Numfields, av>>
    BY <1>0, <1>4 DEF ScanNext, TableReturn, TableCroak, globals
  <2> QED
    BY <1>0, <2>1, OtherStep
<1>5. ASSUME NEW t \in Threads, BlessCheck(t)
      PROVE  Names'
  <2>1. /\ pc[t] = "bless" /\ UNCHANGED av
        /\ \A u \in Threads \ {t} : pc'[u] = pc[u]
    BY <1>0, <1>5 DEF BlessCheck
  <2>2. \A u \in Threads : pc[u] \in InScan => u = t
    BY <2>1, OneStores DEF InScan, InBless
  <2>3. \A u \in Threads \ {t} : pc'[u] \notin InScan
    BY <2>1, <2>2
  <2>4. CASE Fields /\ pc'[t] = "bless_hash" /\ UNCHANGED <<Fields, Numfields>>
    <3>1. Named
      BY <2>1, <2>2, <2>4 DEF Names, InScan, InBless
    <3> QED
      BY <1>0, <2>1, <2>4, <3>1, OtherStep
  <2>5. CASE ~Fields /\ Fields' = TRUE /\ pc'[t] = "bless_numfields" /\ UNCHANGED Numfields
    <3>1. \A u \in Threads : av'[u] = <<>>
      BY <1>0, <2>1, <2>5 DEF Named
    <3> QED
      BY <2>3, <2>5, <3>1 DEF Names, InScan, InBless
  <2>6. CASE ~Fields /\ Numfields' = NumFields /\ pc'[t] = "bless_fields" /\ UNCHANGED Fields
    <3>1. \A u \in Threads : av'[u] = <<>>
      BY <1>0, <2>1, <2>6 DEF Named
    <3> QED
      BY <2>3, <2>6, <3>1 DEF Names, InScan, InBless
  <2> QED
    BY <1>0, <1>5, <2>4, <2>5, <2>6 DEF BlessCheck
<1>6. ASSUME NEW t \in Threads, BlessStore(t)
      PROVE  Names'
  <2>1. /\ pc[t] \in {"bless_numfields", "bless_fields"} /\ pc'[t] = "bless_hash"
        /\ \A u \in Threads \ {t} : pc'[u] = pc[u]
    BY <1>0, <1>6 DEF BlessStore
  <2>2. Named'
    BY <1>6 DEF BlessStore, Names, Named
  <2> QED
    BY <2>1, <2>2 DEF Names, Named
<1>7. ASSUME NEW t \in Threads, BlessHash(t)
      PROVE  Names'
  <2>1. /\ pc[t] = "bless_hash" /\ pc'[t] = "bless_push"
        /\ \A u \in Threads \ {t} : pc'[u] = pc[u]
        /\ UNCHANGED <<Fields, Numfields, av>>
    BY <1>0, <1>7 DEF BlessHash, globals
  <2>2. Named
    BY <2>1 DEF Names
  <2> QED
    BY <1>0, <2>1, <2>2, OtherStep
<1>8. ASSUME NEW t \in Threads, BlessPush(t)
      PROVE  Names'
  <2>1. /\ pc[t] = "bless_push" /\ pc'[t] = "scan"
        /\ \A u \in Threads \ {t} : pc'[u] = pc[u]
        /\ UNCHANGED <<Fields, Numfields>>
    BY <1>0, <1>8 DEF BlessPush, globals
  <2>2. Named
    BY <2>1 DEF Names
  <2> QED
    BY <2>1, <2>2, OtherStep
<1>9. ASSUME NEW t \in Threads, FieldsCheck(t) \/ FieldsPush(t)
      PROVE  Names'
  <2>1. /\ pc[t] \in {"fields_check", "fields_push"}
        /\ pc'[t] \in {"fields_push", "table_lock", "idle"}
        /\ \A u \in Threads \ {t} : pc'[u] = pc[u]
        /\ UNCHANGED <<Fields, Numfields, av>>
    BY <1>0, <1>9 DEF FieldsCheck, FieldsPush, globals
  <2> QED
    BY <1>0, <2>1, OtherStep
<1>10. CASE UNCHANGED vars
  BY <1>10 DEF vars, locals, globals, Names, Named
<1> QED
  BY <1>1, <1>2, <1>3, <1>4, <1>5, <1>6, <1>7, <1>8, <1>9, <1>10
  DEF Next, Step, Finished

LEMMA NamesInvariant ==
  ASSUME Exclusive
  PROVE  Spec => [](TypeOK /\ Names)
<1>1. TypeOK /\ Control /\ Names /\ [Next]_vars => Names'
  BY NamesStep
<1> QED
  BY <1>1, NamesInit, ThreadInvariant, TypeCorrect, PTL DEF Spec

\* fields() that called table() itself, and whose table() found a process,
\* finds every name, whichever thread stored them.
THEOREM ExclusiveFieldsAfterTable ==
  ASSUME Exclusive
  PROVE  Spec => []FieldsAfterTable
<1>1. Names => FieldsAfterTable
  BY DEF Names, Named, FieldsAfterTable
<1> QED
  BY <1>1, NamesInvariant, PTL

\* A call that skipped table() saw the names stored, and they stay stored.
Direct ==
  \A t \in Threads :
    pc[t] = "fields_push" /\ ret[t] # "fields_push" => Fields

\* What fields() has returned, item for item.
Returned ==
  \A t \in Threads :
    /\ nfields[t].via = "direct" => nfields[t].set /\ nfields[t].count = NumFields
    /\ nfields[t].via = "nested" =>
         nfields[t].count = IF nfields[t].set THEN NumFields + 1 ELSE 1

LEMMA DirectStep ==
  ASSUME TypeOK, Direct, [Next]_vars
  PROVE  Direct'
<1> USE DEF Goto, Direct
<1>0. /\ pc \in [Threads -> Location]
      /\ ret \in [Threads -> {"idle", "fields_push"}]
  BY DEF TypeOK
<1>1. ASSUME NEW t \in Threads, FieldsCheck(t)
      PROVE  Direct'
  <2>1. \A u \in Threads \ {t} : pc'[u] = pc[u] /\ ret'[u] = ret[u]
    BY <1>0, <1>1 DEF FieldsCheck
  <2>2. /\ UNCHANGED Fields
        /\ pc'[t] = "fields_push" => Fields
    BY <1>0, <1>1 DEF FieldsCheck, globals
  <2> QED
    BY <2>1, <2>2
<1>2. ASSUME NEW t \in Threads, Call(t)
      PROVE  Direct'
  <2>1. /\ pc'[t] # "fields_push" /\ UNCHANGED Fields
        /\ \A u \in Threads \ {t} : pc'[u] = pc[u] /\ ret'[u] = ret[u]
    BY <1>0, <1>2 DEF Call, globals
  <2> QED
    BY <2>1
<1>3. ASSUME NEW t \in Threads, BlessCheck(t) \/ BlessStore(t)
      PROVE  Direct'
  <2>1. /\ pc'[t] # "fields_push" /\ UNCHANGED ret /\ (Fields => Fields')
        /\ \A u \in Threads \ {t} : pc'[u] = pc[u]
    BY <1>0, <1>3 DEF BlessCheck, BlessStore
  <2> QED
    BY <2>1
<1>4. ASSUME NEW t \in Threads, TableReturn(t)
      PROVE  Direct'
  <2>1. /\ pc'[t] = ret[t] /\ UNCHANGED <<ret, Fields>>
        /\ \A u \in Threads \ {t} : pc'[u] = pc[u]
    BY <1>0, <1>4 DEF TableReturn, globals
  <2> QED
    BY <2>1
<1>5. ASSUME NEW t \in Threads,
             \/ NewLock(t) \/ NewReturn(t) \/ NewDie(t) \/ TableLock(t)
             \/ TableList(t) \/ ScanNext(t) \/ TableCroak(t)
      PROVE  Direct'
  <2>1. /\ pc'[t] # "fields_push" /\ UNCHANGED <<ret, Fields>>
        /\ \A u \in Threads \ {t} : pc'[u] = pc[u]
    BY <1>0, <1>5 DEF NewLock, NewReturn, NewDie, TableLock, TableList, ScanNext,
       TableCroak, globals
  <2> QED
    BY <2>1
<1>6. ASSUME NEW t \in Threads, BlessHash(t) \/ BlessPush(t) \/ FieldsPush(t)
      PROVE  Direct'
  <2>1. /\ pc'[t] # "fields_push" /\ UNCHANGED <<ret, Fields>>
        /\ \A u \in Threads \ {t} : pc'[u] = pc[u]
    BY <1>0, <1>6 DEF BlessHash, BlessPush, FieldsPush, globals
  <2> QED
    BY <2>1
<1>7. CASE UNCHANGED vars
  BY <1>7 DEF vars, locals, globals
<1> QED
  BY <1>1, <1>2, <1>3, <1>4, <1>5, <1>6, <1>7 DEF Next, Step, Finished

LEMMA ReturnedStep ==
  ASSUME Alone, TypeOK, Names, Direct, Returned, [Next]_vars
  PROVE  Returned'
<1>1. ASSUME NEW t \in Threads, FieldsPush(t)
      PROVE  Returned'
  <2>1. pc[t] = "fields_push" /\ \A u \in Threads : u = t
    BY <1>1 DEF FieldsPush, Alone
  <2>2. Numfields = IF Fields THEN NumFields ELSE 0
    BY <2>1 DEF Names, Named
  <2>3. CASE ret[t] = "fields_push"
    <3>1. nfields'[t] = [via |-> "nested", count |-> Numfields + 1, set |-> Fields]
      BY <1>1, <2>3 DEF FieldsPush, TypeOK
    <3> QED
      BY <2>1, <2>2, <3>1 DEF Returned
  <2>4. CASE ret[t] # "fields_push"
    <3>1. nfields'[t] = [via |-> "direct", count |-> Numfields, set |-> Fields]
      BY <1>1, <2>4 DEF FieldsPush, TypeOK
    <3>2. Fields
      BY <2>1, <2>4 DEF Direct
    <3> QED
      BY <2>1, <2>2, <3>1, <3>2 DEF Returned
  <2> QED
    BY <2>3, <2>4
<1>2. ASSUME UNCHANGED nfields
      PROVE  Returned'
  BY <1>2 DEF Returned
<1>3. ASSUME NEW t \in Threads,
             \/ Call(t) \/ NewLock(t) \/ NewReturn(t) \/ NewDie(t) \/ TableLock(t)
             \/ TableList(t) \/ ScanNext(t) \/ TableReturn(t) \/ TableCroak(t)
             \/ BlessCheck(t) \/ BlessStore(t) \/ BlessHash(t) \/ BlessPush(t)
             \/ FieldsCheck(t)
      PROVE  UNCHANGED nfields
  BY <1>3 DEF Call, NewLock, NewReturn, NewDie, TableLock, TableList, ScanNext,
     TableReturn, TableCroak, BlessCheck, BlessStore, BlessHash, BlessPush,
     FieldsCheck, results
<1>4. CASE UNCHANGED vars
  BY <1>2, <1>4 DEF vars, locals, results
<1> QED
  BY <1>1, <1>2, <1>3, <1>4 DEF Next, Step, Finished

\* Called from one thread, fields() returns exactly the names once a process
\* has been met; before that it returns one stale item of the stack first.
THEOREM AloneFieldsExact ==
  ASSUME Alone
  PROVE  Spec => []FieldsExact
<1>1. Exclusive
  BY DEF Exclusive
<1>2. Init => Direct /\ Returned
  BY DEF Init, Direct, Returned
<1>3. TypeOK /\ Names /\ Direct /\ Returned /\ [Next]_vars => Direct' /\ Returned'
  BY DirectStep, ReturnedStep
<1>4. Names /\ Returned => FieldsExact
  BY DEF Names, Named, Returned, FieldsExact
<1> QED
  BY <1>1, <1>2, <1>3, <1>4, NamesInvariant, PTL DEF Spec
=============================================================================
