---------------------------- MODULE ObjectStack ----------------------------
(***************************************************************************)
(* What an obstack promises its client (os/obstack.h, its opening          *)
(* comment): a stack of finished objects whose contents stay as they are   *)
(* until they are freed, and on top of it one object that grows.           *)
(***************************************************************************)
EXTENDS Naturals, Sequences

VARIABLES
  stack,    \* the contents of the finished objects, the oldest first
  growing,  \* the contents of the object that grows
  usable    \* is there an obstack?

vars == <<stack, growing, usable>>

Init == stack = <<>> /\ growing = <<>> /\ ~usable

Begin ==
  /\ ~usable /\ usable'
  /\ stack' = <<>> /\ growing' = <<>>

Grow ==
  /\ usable /\ usable'
  /\ Len(growing) <= Len(growing')
  /\ growing = SubSeq(growing', 1, Len(growing))
  /\ UNCHANGED stack

Finish ==
  /\ usable /\ usable'
  /\ stack' = Append(stack, growing)
  /\ growing' = <<>>

\* An object goes with all that were finished after it, and the growing one.
Free ==
  /\ usable /\ usable'
  /\ \E i \in DOMAIN stack : stack' = SubSeq(stack, 1, i - 1)
  /\ growing' = <<>>

FreeAll ==
  /\ usable /\ ~usable'
  /\ stack' = <<>> /\ growing' = <<>>

Next == Begin \/ Grow \/ Finish \/ Free \/ FreeAll

Spec == Init /\ [][Next]_vars
=============================================================================
