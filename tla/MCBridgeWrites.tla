--------------------------- MODULE MCBridgeWrites ---------------------------
(***************************************************************************)
(* Small instances of BridgeWrites for TLC.                                *)
(***************************************************************************)
EXTENDS BridgeWrites, TLC

ModelOnly == { [a \in {"model"} |-> 1] }

(* Of the model, which transactions cover, and the camera, which they do    *)
(* not; the selection is left to the user, so that a commit made of another *)
(* selection than the one reviewed shows in what it leaves behind.          *)
WithCamera == { [a \in {"model", "camera"} |-> 1] }

=============================================================================
