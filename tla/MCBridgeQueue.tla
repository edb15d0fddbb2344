---------------------------- MODULE MCBridgeQueue ----------------------------
(***************************************************************************)
(* Small instances of BridgeQueue for TLC.                                 *)
(***************************************************************************)
EXTENDS BridgeQueue, TLC

CONSTANTS a, b  \* two connections

(* A late result of a's first request may meet its second one, and what a   *)
(* proved may meet b's only request, whichever is served first.             *)
TwoAndOne == (a :> 2) @@ (b :> 1)
Two       == (a :> 2)

=============================================================================
