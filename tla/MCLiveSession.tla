---------------------------- MODULE MCLiveSession ----------------------------
(***************************************************************************)
(* Small instances of LiveSession for TLC.                                 *)
(***************************************************************************)
EXTENDS LiveSession, TLC

Origin == [geometry |-> 0, metadata |-> 0, focus |-> 0, view |-> 0]

=============================================================================
