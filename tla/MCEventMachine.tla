--------------------------- MODULE MCEventMachine ---------------------------
(* Instances of EventMachine for TLC. *)
EXTENDS EventMachine

CONSTANTS n1, n2, e1, e2, e3

\* e1 and e2 are events of one channel.
MCNameOf == [e \in Events |-> IF e = e3 THEN n2 ELSE n1]
=============================================================================
