---------------------------- MODULE ProcessTable ----------------------------
(***************************************************************************)
(* The Perl-facing half of the module: new() of ProcessTable.pm and        *)
(* table(), fields(), bless_into_proc() and the two mutexes of             *)
(* ProcessTable.xs, called from several threads of one process.            *)
(*                                                                         *)
(* A Perl thread owns a clone of the interpreter: its object, the array    *)
(* behind $self->{Table} and its %TTYDEVS are its own.  What the threads   *)
(* share are the C globals of ProcessTable.xs: Fields, Numfields, Ttydevs  *)
(* and Proclist.  An array or a tty hash is named by the thread whose      *)
(* interpreter holds it, so Proclist = t says "the list being built is the *)
(* array of thread t".                                                     *)
(*                                                                         *)
(* A thread keeps one object, the one its last new() returned.             *)
(*                                                                         *)
(* What the backend (OS_get_table) finds is left open: up to MaxProcs      *)
(* processes, or an exception.                                             *)
(***************************************************************************)
EXTENDS Naturals, Sequences

CONSTANTS
  Threads,              \* the Perl threads of the process
  NoThread,             \* C's NULL, and "mutex not held"
  PROCESSTABLE_THREAD,  \* compiled with -DPROCESSTABLE_THREAD?
  NumFields,            \* the length of the backend's format string
  MaxProcs,             \* bound: processes one scan may find
  MaxCalls,             \* bound: method calls one thread makes
  InitMayDie,           \* may initialize() throw?
  TableMayCroak         \* may OS_get_table() throw?

ASSUME ConstantsAssumption ==
  /\ NoThread \notin Threads
  /\ PROCESSTABLE_THREAD \in BOOLEAN
  /\ NumFields \in Nat \ {0}
  /\ MaxProcs \in Nat
  /\ MaxCalls \in Nat
  /\ InitMayDie \in BOOLEAN
  /\ TableMayCroak \in BOOLEAN

VARIABLES
  pc,        \* where each thread is
  ret,       \* where table() returns to: the caller, or the rest of fields()
  calls,     \* method calls each thread has made
  object,    \* has the thread an object made by new()?
  tableRef,  \* $self->{Table}: the array it refers to, or NoThread
  av,        \* the contents of each array
  rec,       \* the hash bless_into_proc() is building
  got,       \* what the last table() call returned
  nfields,   \* what the last fields() call returned: by way of table() or
             \* not, how many items, and whether Fields was set by then
  mtx_new, mtx_table,                  \* owner of _mutex_new, _mutex_table
  Fields, Numfields, Ttydevs, Proclist \* the C globals

globals == <<Fields, Numfields, Ttydevs, Proclist>>
mutexes == <<mtx_new, mtx_table>>
results == <<got, nfields>>
locals == <<pc, ret, calls, object, tableRef, av, rec, results>>
vars == <<locals, mutexes, globals>>

Owner == Threads \cup {NoThread}
Record == [by: Threads, tty: Owner, call: Nat]
Location == {"idle", "new_lock", "new_init", "table_lock", "table_list",
             "scan", "bless", "bless_numfields", "bless_fields", "bless_hash",
             "bless_push", "fields_check", "fields_push"}

Init ==
  /\ pc = [t \in Threads |-> "idle"]
  /\ ret = [t \in Threads |-> "idle"]
  /\ calls = [t \in Threads |-> 0]
  /\ object = [t \in Threads |-> FALSE]
  /\ tableRef = [t \in Threads |-> NoThread]
  /\ av = [t \in Threads |-> <<>>]
  /\ rec = [t \in Threads |-> NoThread]
  /\ got = [t \in Threads |-> NoThread]
  /\ nfields = [t \in Threads |-> [via |-> "none", count |-> 0, set |-> FALSE]]
  /\ mtx_new = NoThread
  /\ mtx_table = NoThread
  /\ Fields = FALSE
  /\ Numfields = 0
  /\ Ttydevs = NoThread
  /\ Proclist = NoThread

Goto(t, loc) == pc' = [pc EXCEPT ![t] = loc]

-----------------------------------------------------------------------------
(* mutex_new(), mutex_table(): without PROCESSTABLE_THREAD both are empty. *)

Lock(mutex, t) ==
  IF PROCESSTABLE_THREAD THEN mutex = NoThread /\ mutex' = t
                         ELSE UNCHANGED mutex

Unlock(mutex) ==
  IF PROCESSTABLE_THREAD THEN mutex' = NoThread ELSE UNCHANGED mutex

-----------------------------------------------------------------------------
(* A method call by thread t: new() always, table() and fields() on an     *)
(* object new() returned (anything else croaks before touching state).     *)

Call(t) ==
  /\ pc[t] = "idle"
  /\ calls[t] < MaxCalls
  /\ calls' = [calls EXCEPT ![t] = @ + 1]
  /\ \/ Goto(t, "new_lock")
     \/ object[t] /\ Goto(t, "table_lock")
     \/ object[t] /\ Goto(t, "fields_check")
  /\ ret' = [ret EXCEPT ![t] = "idle"]
  /\ UNCHANGED <<object, tableRef, av, rec, results, mutexes, globals>>

-----------------------------------------------------------------------------
(* new() *)

NewLock(t) ==
  /\ pc[t] = "new_lock"
  /\ Lock(mtx_new, t)
  /\ Goto(t, "new_init")
  /\ UNCHANGED <<ret, calls, object, tableRef, av, rec, results, mtx_table,
                 globals>>

\* initialize() returns 1; new() unlocks and returns a fresh object, which
\* has no Table yet.
NewReturn_NoUnlock(t) ==
  /\ pc[t] = "new_init"
  /\ object' = [object EXCEPT ![t] = TRUE]
  /\ tableRef' = [tableRef EXCEPT ![t] = NoThread]
  /\ got' = [got EXCEPT ![t] = NoThread]
  /\ Goto(t, "idle")
  /\ UNCHANGED <<ret, calls, av, rec, nfields, mutexes, globals>>

NewReturn(t) ==
  /\ pc[t] = "new_init"
  /\ Unlock(mtx_new)
  /\ object' = [object EXCEPT ![t] = TRUE]
  /\ tableRef' = [tableRef EXCEPT ![t] = NoThread]
  /\ got' = [got EXCEPT ![t] = NoThread]
  /\ Goto(t, "idle")
  /\ UNCHANGED <<ret, calls, av, rec, nfields, mtx_table, globals>>

\* Storable, File::Temp, the rename, or _initialize_os throws: the exception
\* leaves new() before mutex_new(0).
NewDie(t) ==
  /\ pc[t] = "new_init"
  /\ InitMayDie
  /\ Goto(t, "idle")
  /\ UNCHANGED <<ret, calls, object, tableRef, av, rec, results, mutexes,
                 globals>>

-----------------------------------------------------------------------------
(* table() *)

\* Take the mutex and point Ttydevs at the calling interpreter's hash.
TableLock_NoMutex(t) ==
  /\ pc[t] = "table_lock"
  /\ Ttydevs' = t
  /\ Goto(t, "table_list")
  /\ UNCHANGED <<ret, calls, object, tableRef, av, rec, results, mutexes,
                 Fields, Numfields, Proclist>>

TableLock(t) ==
  /\ pc[t] = "table_lock"
  /\ Lock(mtx_table, t)
  /\ Ttydevs' = t
  /\ Goto(t, "table_list")
  /\ UNCHANGED <<ret, calls, object, tableRef, av, rec, results, mtx_new,
                 Fields, Numfields, Proclist>>

\* Point Proclist at the array of the object, emptied, or at a new array
\* stored in the object.
TableList_NoClear(t) ==
  /\ pc[t] = "table_list"
  /\ LET list == IF tableRef[t] # NoThread THEN tableRef[t] ELSE t
     IN /\ Proclist' = list
        /\ tableRef' = [tableRef EXCEPT ![t] = list]
  /\ Goto(t, "scan")
  /\ UNCHANGED <<ret, calls, object, av, rec, results, mutexes, Fields,
                 Numfields, Ttydevs>>

TableList_StaleProclist(t) ==
  /\ pc[t] = "table_list"
  /\ LET list == IF tableRef[t] # NoThread THEN Proclist ELSE t
     IN /\ Proclist' = list
        /\ av' = [av EXCEPT ![list] = <<>>]
        /\ tableRef' = [tableRef EXCEPT ![t] = IF @ # NoThread THEN @ ELSE t]
  /\ Goto(t, "scan")
  /\ UNCHANGED <<ret, calls, object, rec, results, mutexes, Fields, Numfields,
                 Ttydevs>>

TableList(t) ==
  /\ pc[t] = "table_list"
  /\ LET list == IF tableRef[t] # NoThread THEN tableRef[t] ELSE t
     IN /\ Proclist' = list
        /\ av' = [av EXCEPT ![list] = <<>>]
        /\ tableRef' = [tableRef EXCEPT ![t] = list]
  /\ Goto(t, "scan")
  /\ UNCHANGED <<ret, calls, object, rec, results, mutexes, Fields, Numfields,
                 Ttydevs>>

\* OS_get_table() meets one more process and calls bless_into_proc().
ScanNext(t) ==
  /\ pc[t] = "scan"
  /\ Len(av[Proclist]) < MaxProcs
  /\ Goto(t, "bless")
  /\ UNCHANGED <<ret, calls, object, tableRef, av, rec, results, mutexes,
                 globals>>

\* OS_get_table() returns: table() takes a reference to whatever Proclist is
\* now, unlocks, and returns it.
TableReturn(t) ==
  /\ pc[t] = "scan"
  /\ got' = [got EXCEPT ![t] = Proclist]
  /\ Unlock(mtx_table)
  /\ Goto(t, ret[t])
  /\ UNCHANGED <<ret, calls, object, tableRef, av, rec, nfields, mtx_new,
                 globals>>

\* ppt_croak() in a backend, or bless_into_proc()'s own croak on an unknown
\* format letter: the exception leaves table() before mutex_table(0).
TableCroak(t) ==
  /\ pc[t] \in {"scan", "bless_hash"}
  /\ TableMayCroak
  /\ Goto(t, "idle")
  /\ UNCHANGED <<ret, calls, object, tableRef, av, rec, results, mutexes,
                 globals>>

-----------------------------------------------------------------------------
(* bless_into_proc() *)

\* "if(Fields == NULL)": the two stores that follow are ordinary stores, so a
\* reader without the mutex may see them in either order.
BlessCheck(t) ==
  /\ pc[t] = "bless"
  /\ \/ Fields  /\ Goto(t, "bless_hash") /\ UNCHANGED <<Fields, Numfields>>
     \/ /\ ~Fields
        /\ Fields' = TRUE /\ Goto(t, "bless_numfields") /\ UNCHANGED Numfields
     \/ /\ ~Fields
        /\ Numfields' = NumFields /\ Goto(t, "bless_fields") /\ UNCHANGED Fields
  /\ UNCHANGED <<ret, calls, object, tableRef, av, rec, results, mutexes,
                 Ttydevs, Proclist>>

BlessStore_Forgets(t) ==
  /\ pc[t] \in {"bless_numfields", "bless_fields"}
  /\ Goto(t, "bless_hash")
  /\ UNCHANGED <<ret, calls, object, tableRef, av, rec, results, mutexes,
                 globals>>

\* sizeof instead of strlen
BlessStore_CountsNul(t) ==
  /\ \/ /\ pc[t] = "bless_numfields"
        /\ Numfields' = NumFields + 1
        /\ UNCHANGED Fields
     \/ pc[t] = "bless_fields" /\ Fields' = TRUE /\ UNCHANGED Numfields
  /\ Goto(t, "bless_hash")
  /\ UNCHANGED <<ret, calls, object, tableRef, av, rec, results, mutexes,
                 Ttydevs, Proclist>>

BlessStore(t) ==
  /\ \/ pc[t] = "bless_numfields" /\ Numfields' = NumFields /\ UNCHANGED Fields
     \/ pc[t] = "bless_fields" /\ Fields' = TRUE /\ UNCHANGED Numfields
  /\ Goto(t, "bless_hash")
  /\ UNCHANGED <<ret, calls, object, tableRef, av, rec, results, mutexes,
                 Ttydevs, Proclist>>

\* Walk the format and fill the hash; ttynum is looked up in Ttydevs.
BlessHash(t) ==
  /\ pc[t] = "bless_hash"
  /\ rec' = [rec EXCEPT ![t] = [by |-> t, tty |-> Ttydevs, call |-> calls[t]]]
  /\ Goto(t, "bless_push")
  /\ UNCHANGED <<ret, calls, object, tableRef, av, results, mutexes, globals>>

BlessPush(t) ==
  /\ pc[t] = "bless_push"
  /\ av' = [av EXCEPT ![Proclist] = Append(@, rec[t])]
  /\ rec' = [rec EXCEPT ![t] = NoThread]
  /\ Goto(t, "scan")
  /\ UNCHANGED <<ret, calls, object, tableRef, results, mutexes, globals>>

-----------------------------------------------------------------------------
(* fields(): reads the globals without the mutex *)

FieldsCheck(t) ==
  /\ pc[t] = "fields_check"
  /\ \/ Fields /\ Goto(t, "fields_push") /\ UNCHANGED ret
     \/ /\ ~Fields
        /\ Goto(t, "table_lock")
        /\ ret' = [ret EXCEPT ![t] = "fields_push"]
  /\ UNCHANGED <<calls, object, tableRef, av, rec, results, mutexes, globals>>

\* perl_call_method() is followed by no SPAGAIN: SP still counts the object
\* pushed for it, so after a nested table() the names lie above one stale item
\* of the stack.
FieldsPush(t) ==
  /\ pc[t] = "fields_push"
  /\ nfields' = [nfields EXCEPT ![t] =
                   IF ret[t] = "fields_push"
                   THEN [via |-> "nested", count |-> Numfields + 1, set |-> Fields]
                   ELSE [via |-> "direct", count |-> Numfields, set |-> Fields]]
  /\ Goto(t, "idle")
  /\ UNCHANGED <<ret, calls, object, tableRef, av, rec, got, mutexes, globals>>

-----------------------------------------------------------------------------

Step(t) ==
  \/ NewLock(t) \/ NewReturn(t) \/ NewDie(t)
  \/ TableLock(t) \/ TableList(t) \/ ScanNext(t) \/ TableReturn(t)
  \/ TableCroak(t)
  \/ BlessCheck(t) \/ BlessStore(t) \/ BlessHash(t) \/ BlessPush(t)
  \/ FieldsCheck(t) \/ FieldsPush(t)

\* Every thread has made its last call.
Finished ==
  /\ \A t \in Threads : pc[t] = "idle" /\ calls[t] = MaxCalls
  /\ UNCHANGED vars

Next ==
  \/ \E t \in Threads : Call(t) \/ Step(t)
  \/ Finished

Spec == Init /\ [][Next]_vars

\* A thread inside a method keeps running; it need not make another call.
FairSpec == Spec /\ \A t \in Threads : WF_vars(Step(t))

-----------------------------------------------------------------------------
(* Properties *)

InBless == {"bless", "bless_numfields", "bless_fields", "bless_hash",
            "bless_push"}
InScan == {"scan"} \cup InBless

\* The type invariant.  A format letter count is either not stored yet or
\* strlen(format), and a reference to a list never dangles.
TypeOK ==
  /\ pc \in [Threads -> Location]
  /\ ret \in [Threads -> {"idle", "fields_push"}]
  /\ calls \in [Threads -> 0..MaxCalls]
  /\ object \in [Threads -> BOOLEAN]
  /\ tableRef \in [Threads -> Owner]
  /\ av \in [Threads -> Seq(Record)]
  /\ rec \in [Threads -> Record \cup {NoThread}]
  /\ got \in [Threads -> Owner]
  /\ nfields \in [Threads -> [via: {"none", "direct", "nested"},
                            count: {0, 1, NumFields, NumFields + 1},
                            set: BOOLEAN]]
  /\ mtx_new \in Owner
  /\ mtx_table \in Owner
  /\ Fields \in BOOLEAN
  /\ Numfields \in {0, NumFields}
  /\ Ttydevs \in Owner
  /\ Proclist \in Owner

\* table() returns the caller's own list, and every process on it was put
\* there by the caller's own scan, its tty looked up in the caller's own tty
\* hash: av_push() and hv_fetch() go through globals that every thread's
\* table() overwrites.
OwnTable ==
  \A t \in Threads :
    /\ got[t] \in {NoThread, t}
    /\ \A i \in DOMAIN av[t] : av[t][i].by = t /\ av[t][i].tty = t

\* While a scan runs, and when it returns, the list holds records of this
\* call only, also when an earlier table() died halfway: table() reuses the
\* array of the call before.
FreshScan ==
  \A t \in Threads :
    pc[t] \in InScan =>
      \A i \in DOMAIN av[t] : av[t][i].by = t /\ av[t][i].call = calls[t]

\* A table a thread has been given changes only while that thread itself is
\* inside table(), whatever the other threads do.
ReturnedTableStable ==
  [][\A t \in Threads :
       pc[t] \notin InScan \cup {"table_list"} => av'[t] = av[t]]_vars

\* fields() that had to call table() first, and whose table() found a
\* process, is about to push every field name.
FieldsAfterTable ==
  \A t \in Threads :
    (pc[t] = "fields_push" /\ ret[t] = "fields_push" /\ av[t] # <<>>)
      => Fields /\ Numfields = NumFields

\* What fields() returns.  Called with the names stored, exactly the names;
\* called before, one stale item and then the names or, when the table() it
\* calls meets no process, nothing.  An object with a process on its table is
\* always of the first kind, exceptions in earlier calls included.
FieldsExact ==
  \A t \in Threads :
    /\ nfields[t].via = "direct" => nfields[t].set /\ nfields[t].count = NumFields
    /\ nfields[t].via = "nested" =>
         nfields[t].count = IF nfields[t].set THEN NumFields + 1 ELSE 1
    /\ pc[t] = "fields_check" /\ av[t] # <<>> => Fields

\* Every method call returns to its caller (or throws): no thread waits
\* forever for one of the two mutexes.
CallsReturn ==
  \A t \in Threads : (pc[t] # "idle") ~> (pc[t] = "idle")
=============================================================================
