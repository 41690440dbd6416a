------------------------------ MODULE Killfam ------------------------------
(***************************************************************************)
(* killfam() of lib/Proc/Killfam.pm: the pids it is given, and those that  *)
(* get_pids() finds below them on one table by following ppid downwards.   *)
(*                                                                         *)
(* A table is a sequence of processes, each a record of pid and ppid.  The *)
(* calls of get_pids() are a stack, the last one at work.                  *)
(***************************************************************************)
EXTENDS Naturals, Sequences, FiniteSets, SequencesExt

CONSTANTS
  Tables,      \* what $pt->table may return
  Given,       \* the lists of pids killfam() may be given
  MaxCalls     \* bound: calls of get_pids() inside each other

Processes == [pid : Nat, ppid : Nat]

ASSUME TablesAssumption == Tables \subseteq Seq(Processes)
ASSUME GivenAssumption == Given \subseteq Seq(Nat)

VARIABLES
  ppt_OK,      \* whether Proc::ProcessTable could be loaded
  given,       \* @_ without the signal
  pids,        \* @pids
  procs,       \* @procs
  calls,       \* the calls of get_pids()
  signalled,   \* what kill() was given
  step         \* "load", "loaded", "table", "looking", "kill" or "killed"

killVars == <<ppt_OK, given, pids, procs, calls, signalled, step>>

\* A call of get_pids(): its kids, the places of both loops, and its own @pids.
GetPids(kids) == [kids |-> kids, kid |-> 1, proc |-> 1, pids |-> <<>>]

call == calls[Len(calls)]
Looking == step = "looking" /\ call.kid <= Len(call.kids)

KillInit ==
  /\ ppt_OK = FALSE
  /\ given = <<>> /\ pids = <<>> /\ procs = <<>> /\ calls = <<>> /\ signalled = <<>>
  /\ step = "load"

Load ==
  /\ step = "load"
  /\ ppt_OK' \in BOOLEAN
  /\ step' = "loaded"
  /\ UNCHANGED <<given, pids, procs, calls, signalled>>

Enter ==
  /\ step = "loaded"
  /\ given' \in Given
  /\ pids' = given'
  /\ step' = IF ppt_OK THEN "table" ELSE "kill"
  /\ UNCHANGED <<ppt_OK, procs, calls, signalled>>

FetchTable ==
  /\ step = "table"
  /\ procs' \in Tables
  /\ calls' = <<GetPids(pids)>>
  /\ step' = "looking"
  /\ UNCHANGED <<ppt_OK, given, pids, signalled>>

\* The inner loop: a process that is none of the kid's children, or one, for
\* which get_pids() calls itself.
Skip ==
  /\ Looking
  /\ call.proc <= Len(procs)
  /\ procs[call.proc].ppid # call.kids[call.kid]
  /\ calls' = [calls EXCEPT ![Len(calls)].proc = @ + 1]
  /\ UNCHANGED <<ppt_OK, given, pids, procs, signalled, step>>

Nest ==
  /\ Looking
  /\ call.proc <= Len(procs)
  /\ procs[call.proc].ppid = call.kids[call.kid]
  /\ Len(calls) < MaxCalls
  /\ calls' = Append(calls, GetPids(<<procs[call.proc].pid>>))
  /\ UNCHANGED <<ppt_OK, given, pids, procs, signalled, step>>

NextKid ==
  /\ Looking
  /\ call.proc > Len(procs)
  /\ calls' = [calls EXCEPT ![Len(calls)].kid = @ + 1, ![Len(calls)].proc = 1]
  /\ UNCHANGED <<ppt_OK, given, pids, procs, signalled, step>>

\* push @pids, $pid, get_pids $procs, $pid: what is pushed when the call that
\* looked below that pid returns.
Push_OneLevel(caller, found) == Append(caller.pids, procs[caller.proc].pid)
Push(caller, found) == Append(caller.pids, procs[caller.proc].pid) \o found

Return ==
  /\ step = "looking"
  /\ call.kid > Len(call.kids)
  /\ Len(calls) > 1
  /\ LET caller == calls[Len(calls) - 1]
     IN  calls' = Append(SubSeq(calls, 1, Len(calls) - 2),
                         [caller EXCEPT !.pids = Push(caller, call.pids),
                                        !.proc = @ + 1])
  /\ UNCHANGED <<ppt_OK, given, pids, procs, signalled, step>>

\* The first call returns to killfam().
Found ==
  /\ step = "looking"
  /\ call.kid > Len(call.kids)
  /\ Len(calls) = 1
  /\ pids' = pids \o call.pids
  /\ calls' = <<>>
  /\ step' = "kill"
  /\ UNCHANGED <<ppt_OK, given, procs, signalled>>

Kill ==
  /\ step = "kill"
  /\ signalled' = pids
  /\ step' = "killed"
  /\ UNCHANGED <<ppt_OK, given, pids, procs, calls>>

KillNext ==
  Load \/ Enter \/ FetchTable \/ Skip \/ Nest \/ NextKid \/ Return \/ Found \/ Kill

KillSpec == KillInit /\ [][KillNext]_killVars

-----------------------------------------------------------------------------
(* Properties *)

PidsOf(table) == {table[i].pid : i \in DOMAIN table}

\* The descendants of some pids: the least set with the children of those and
\* of its own members.
HasChildren(table, ancestors, family) ==
  \A i \in DOMAIN table :
    table[i].ppid \in ancestors \cup family => table[i].pid \in family

Descendants(table, ancestors) ==
  {p \in PidsOf(table) :
     \A family \in SUBSET PidsOf(table) :
       HasChildren(table, ancestors, family) => p \in family}

\* Some descendants each have a child among them: there is no end to a line that
\* goes down from one to the next.
Endless(table, ancestors) ==
  \E line \in (SUBSET Descendants(table, ancestors)) \ {{}} :
    \A p \in line : \E i \in DOMAIN table : table[i].ppid = p /\ table[i].pid \in line

\* The places of a pid among those that get_pids() found, and of the pids given
\* that it descends from.
PlacesOf(p) == {m \in (Len(given) + 1)..Len(signalled) : signalled[m] = p}
AncestorsOf(p) == {k \in DOMAIN given : p \in Descendants(procs, {given[k]})}

Distinct(table) ==
  \A i, j \in DOMAIN table : table[i].pid = table[j].pid => i = j

\* Wherever parents and children stand on the table, killfam() signals what it
\* is given and all their descendants and nobody else, a descendant once for
\* each ancestor given; and get_pids() goes no deeper than the table is
\* long, and returns, unless ancestors go round in a circle, when it does not.
FamiliesSignalled ==
  /\ Len(calls) > Len(procs) + 1 => Endless(procs, Range(given))
  /\ step = "killed" =>
       IF ppt_OK
       THEN /\ ~Endless(procs, Range(given))
            /\ Range(signalled) = Range(given) \cup Descendants(procs, Range(given))
            /\ Distinct(procs) =>
                 \A p \in PidsOf(procs) :
                   Cardinality(PlacesOf(p)) = Cardinality(AncestorsOf(p))
       ELSE signalled = given
=============================================================================
