-------------------------- MODULE MCFixtureSession --------------------------
(***************************************************************************)
(* Small instances of FixtureSession for TLC.                              *)
(***************************************************************************)
EXTENDS FixtureSession, TLC

Writes(aspect, value) == [a \in {aspect} |-> value]

Plain(writes) ==
  [writes |-> writes, expects |-> << >>, targeted |-> FALSE,
   form |-> "geometry"]
Targeted(writes, expects) ==
  [writes |-> writes, expects |-> expects, targeted |-> TRUE, form |-> "full"]

(* One change per way a revision moves: a counter per aspect, none at all,  *)
(* two counters at once; with and without references and preconditions.     *)
MCChanges ==
  { Plain(Writes("shape", 1)),
    Targeted(Writes("label", 1) @@ Writes("selection", 1), Writes("shape", 1)),
    Plain(Writes("view", 1)),
    Targeted(Writes("visibility", 1), << >>) }

EditsOnly == { Plain(Writes("shape", 1)) }

Origin  == [geometry |-> 0, metadata |-> 0, focus |-> 0, view |-> 0]
AtEight == [Origin EXCEPT !.geometry = 8]
AtFifty == [Origin EXCEPT !.geometry = 50]

=============================================================================
