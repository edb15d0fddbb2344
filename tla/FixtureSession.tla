--------------------------- MODULE FixtureSession ---------------------------
(***************************************************************************)
(* A session backed by a recorded fixture: the session manager applies     *)
(* reviewed changesets, undo and redo directly to the revision store.  The *)
(* caller (the MCP adapter) holds any number of previews and may commit    *)
(* them in any order, late or never.                                       *)
(***************************************************************************)
EXTENDS RevisionStore

CONSTANTS
  Changes,      \* the changes agents ask for
  MaxGeometry,  \* bound: no step moves the geometry counter beyond this
  MaxUndo,      \* bound: commits happen below this many undo entries
  MaxReviews    \* bound: previews outstanding at once

ASSUME FixtureAssumption ==
  /\ Changes \subseteq ChangeKinds
  /\ MaxGeometry \in Nat /\ MaxUndo \in Nat /\ MaxReviews \in Nat

VARIABLE reviewed  \* previews returned to the caller and not yet committed

vars == <<current, history, undo_stack, redo_stack, issued, reviewed>>

InitialGraph ==
  [rev |-> InitialRevision, refs |-> InitialRevision,
   content |-> [a \in Aspects |-> InitialValue]]

Init == StoreInit(InitialGraph) /\ reviewed = {}

(* An agent builds a changeset from any graph it has been shown.            *)
Offered ==
  {[change |-> c, base |-> Id(c.form, g.rev), at |-> g.refs] :
     c \in Changes, g \in issued}

PreviewChange(cs) ==
  /\ PreviewOk(cs)
  /\ PreviewOf(cs).graph.rev.geometry <= MaxGeometry
  /\ Cardinality(reviewed) < MaxReviews
  /\ reviewed' = reviewed \cup {PreviewOf(cs)}
  /\ UNCHANGED storeVars

CommitChange(review) ==
  /\ Len(undo_stack) < MaxUndo
  /\ Commit(review.cs, review.hash)
  /\ reviewed' = reviewed \ {review}

UndoChange ==
  /\ current.rev.geometry < MaxGeometry
  /\ Undo
  /\ UNCHANGED reviewed

RedoChange ==
  /\ current.rev.geometry < MaxGeometry
  /\ Redo
  /\ UNCHANGED reviewed

Next ==
  \/ \E cs \in Offered : PreviewChange(cs)
  \/ \E review \in reviewed : CommitChange(review)
  \/ UndoChange
  \/ RedoChange

Spec == Init /\ [][Next]_vars

-----------------------------------------------------------------------------

TypeOK ==
  /\ StoreTypeOK
  /\ \A review \in reviewed : review.cs \in ChangeSets /\ review.graph \in Graphs

(* A review is used up exactly when the graph the reviewer was shown, and   *)
(* no other, becomes the current graph: whatever commits, undos and redos   *)
(* came between preview and commit (RevisionStore::commit).                 *)
CommitPublishesReviewed ==
  [][\A review \in reviewed \ reviewed' : current' = review.graph]_vars

(* What undo and redo promise: the store is a timeline of contents with a   *)
(* cursor.  The undo stack holds what is before the cursor, the redo stack  *)
(* what is after it, nearest last.                                          *)
ContentAt(past, present, future, i) ==
  IF i <= Len(past) THEN past[i].content
  ELSE IF i = Len(past) + 1 THEN present.content
  ELSE future[Len(past) + Len(future) + 2 - i].content

TimelineOf(past, present, future) ==
  [i \in 1 .. Len(past) + 1 + Len(future) |->
     ContentAt(past, present, future, i)]

Abstract == INSTANCE EditTimeline WITH
  Contents <- Contents,
  timeline <- TimelineOf(undo_stack, current, redo_stack),
  cursor   <- Len(undo_stack) + 1

(* The store implements the timeline: undo and redo only move the cursor,   *)
(* so neither ever loses, repeats or reorders an edit.                      *)
ImplementsTimeline == Abstract!Spec

=============================================================================
