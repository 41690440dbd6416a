----------------------------- MODULE MCRecords -----------------------------
(***************************************************************************)
(* One of these for each first step, up to a bound: a call of              *)
(* bless_into_proc() as BlessWalk takes it, a text as CmdlineText writes   *)
(* it, a call of killfam() as Killfam takes it, or one input of the tables *)
(* of LinuxFields or of BackendFields.                                     *)
(***************************************************************************)
EXTENDS BlessWalk, CmdlineText, LinuxFields, BackendFields, Killfam

CONSTANTS
  Missing,     \* bound: readers that may fail together
  MaxFamily    \* bound: processes on a table

VARIABLES input, readers, letter, backend

vars == <<walkVars, killVars, input, text, readers, letter, backend>>

\* Tables of processes 0, 1, ..., where a ppid may be of none on it.
MCTables ==
  UNION {{[i \in 1..n |-> [pid |-> i - 1, ppid |-> ppid[i]]] : ppid \in [1..n -> 0..n]} :
         n \in 1..MaxFamily}
MCGiven == UNION {[1..n -> 0..MaxFamily] : n \in 1..2}

Init ==
  /\ WalkInit
  /\ KillInit
  /\ input = "none"
  /\ TextInit
  /\ readers = Readers
  /\ letter = "S"
  /\ backend = "Cygwin"

Format ==
  /\ input \in {"none", "format"} /\ input' = "format"
  /\ WalkNext
  /\ UNCHANGED <<text, readers, letter, backend, killVars>>

Text ==
  /\ input \in {"none", "text"} /\ input' = "text"
  /\ Write
  /\ UNCHANGED <<walkVars, readers, letter, backend, killVars>>

Few(all) == kSubset(Missing, all) \cup kSubset(1, all) \cup {{}}

Process ==
  /\ input = "none" /\ input' = "process"
  /\ \E r \in Few(Readers) : readers' \in {r, Readers \ r}
  /\ UNCHANGED <<walkVars, text, letter, backend, killVars>>

State ==
  /\ input = "none" /\ input' = "state"
  /\ letter' \in StateLetters
  /\ UNCHANGED <<walkVars, text, readers, backend, killVars>>

Backend ==
  /\ input = "none" /\ input' = "backend"
  /\ backend' \in DOMAIN Backends
  /\ UNCHANGED <<walkVars, text, readers, letter, killVars>>

Cygwin ==
  /\ input = "none" /\ input' = "cygwin"
  /\ \E r \in Few(CygwinReaders) : readers' \in {r, CygwinReaders \ r}
  /\ letter' \in {"S", "O", "R", "Z", "D", "T"}
  /\ UNCHANGED <<walkVars, text, backend, killVars>>

Family ==
  /\ input \in {"none", "family"} /\ input' = "family"
  /\ KillNext
  /\ UNCHANGED <<walkVars, text, readers, letter, backend>>

Done ==
  /\ input # "none"
  /\ input = "format" => stage \in {"done", "croaked"}
  /\ input = "text" => Len(text) = MaxText
  /\ input = "family" => step = "killed" \/ Len(calls) = MaxCalls
  /\ UNCHANGED vars

Next == Format \/ Text \/ Process \/ State \/ Backend \/ Cygwin \/ Family \/ Done

Spec == Init /\ [][Next]_vars

=============================================================================
