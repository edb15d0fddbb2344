---------------------------- MODULE EditTimeline ----------------------------
(***************************************************************************)
(* What undo and redo promise to whoever edits a document: a sequence of   *)
(* contents and a cursor into it.  An edit forgets what lies after the     *)
(* cursor and appends; undo and redo only move the cursor.                 *)
(***************************************************************************)
EXTENDS Integers, Sequences

CONSTANT Contents

VARIABLES timeline, cursor

Init ==
  /\ \E c \in Contents : timeline = <<c>>
  /\ cursor = 1

Edit ==
  /\ \E c \in Contents : timeline' = Append(SubSeq(timeline, 1, cursor), c)
  /\ cursor' = cursor + 1

StepBack ==
  /\ cursor > 1
  /\ cursor' = cursor - 1
  /\ UNCHANGED timeline

StepForward ==
  /\ cursor < Len(timeline)
  /\ cursor' = cursor + 1
  /\ UNCHANGED timeline

Next == Edit \/ StepBack \/ StepForward

Spec == Init /\ [][Next]_<<timeline, cursor>>

=============================================================================
