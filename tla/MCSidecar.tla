----------------------------- MODULE MCSidecar -----------------------------
(***************************************************************************)
(* Small instances of Sidecar for TLC.                                     *)
(***************************************************************************)
EXTENDS Sidecar, TLC

Low  == [key |-> "k", risk |-> "low"]
High == [key |-> "k", risk |-> "high"]

(* Two changes under one key, one of them in the workspace's scope.         *)
OneKey == {Low, High}
Scope  == {High}

(* The developer profile asks for no approval and commits twice; the others *)
(* are there for approvals, which restarts and looks may overtake.          *)
ForDeveloper(n, others) ==
  [p \in Profiles |-> IF p = "developer" THEN n ELSE others]

Revisions == ForDeveloper(2, 1)
Epochs    == ForDeveloper(0, 1)
Records   == ForDeveloper(1, 2)
Approvals == ForDeveloper(0, 2)

=============================================================================
