---------------------------- MODULE MCRendezvous ----------------------------
(***************************************************************************)
(* Rendezvous for TLC: two FreeCAD processes, so that a port can change     *)
(* hands after a crash, and two bridges, which one process may start one    *)
(* after the other.  One bridge and one process are spared all failures.   *)
(***************************************************************************)
EXTENDS Rendezvous

CONSTANTS p1, p2, b1, b2, s1, s2, port

FirstOrEither == [b \in Bridges |-> IF b = b1 THEN {p1} ELSE {p1, p2}]

SecondGoesToFirst == [s \in Sidecars |-> IF s = s1 THEN None ELSE b1]

=============================================================================
