---------------------------- MODULE PublishedMap ----------------------------
(***************************************************************************)
(* What the tty cache promises: one shared place that holds a complete map *)
(* of /dev or nothing.  A process learns /dev by walking it or by reading  *)
(* that place, and what it learnt it may put there, all in one step.       *)
(***************************************************************************)
EXTENDS Naturals

CONSTANTS Procs, MaxChanges, None

VARIABLES
  dev,       \* the state of /dev, told apart by a number
  shared,    \* the state of /dev that is shared, or None
  known      \* what each process knows, or None

vars == <<dev, shared, known>>

Maps == 0..MaxChanges

Init ==
  /\ dev = 0
  /\ shared = None
  /\ known = [p \in Procs |-> None]

Walk(p) ==
  /\ known' = [known EXCEPT ![p] = dev]
  /\ UNCHANGED <<dev, shared>>

Load(p) ==
  /\ shared # None
  /\ known' = [known EXCEPT ![p] = shared]
  /\ UNCHANGED <<dev, shared>>

Forget(p) ==
  /\ known' = [known EXCEPT ![p] = None]
  /\ UNCHANGED <<dev, shared>>

Publish(p) ==
  /\ known[p] # None
  /\ shared' = known[p]
  /\ UNCHANGED <<dev, known>>

Remove ==
  /\ shared' = None
  /\ UNCHANGED <<dev, known>>

Change ==
  /\ dev < MaxChanges
  /\ dev' = dev + 1
  /\ UNCHANGED <<shared, known>>

Next ==
  \/ \E p \in Procs : Walk(p) \/ Load(p) \/ Forget(p) \/ Publish(p)
  \/ Remove
  \/ Change

Spec == Init /\ [][Next]_vars
=============================================================================
