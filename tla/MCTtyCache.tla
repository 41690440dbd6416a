----------------------------- MODULE MCTtyCache -----------------------------
(* Two processes of one user and one of another. *)
EXTENDS TtyCache

CONSTANTS p1, p2, p3, u1, u2

MCProcs == {p1, p2, p3}
MCUser == [p \in MCProcs |-> IF p = p3 THEN u2 ELSE u1]
MCPair == {p1, p3}
=============================================================================
