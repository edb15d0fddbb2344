--------------------------- MODULE MCArtifactStore ---------------------------
(***************************************************************************)
(* ArtifactStore for TLC: each of three graphs fits the quota and no two    *)
(* do; both processes export and one of them collects.                     *)
(***************************************************************************)
EXTENDS ArtifactStore

CONSTANTS w1, w2, small, one, other

Sizes == [d \in Digests |-> IF d = small THEN 1 ELSE 2]

=============================================================================
