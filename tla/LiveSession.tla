---------------------------- MODULE LiveSession ----------------------------
(***************************************************************************)
(* A session backed by a running FreeCAD: the session manager refreshes    *)
(* the revision store from the bridge's synchronized snapshots before      *)
(* reads and writes.  Writes go to the bridge, so here they are changes of *)
(* the live document like any other.                                       *)
(*                                                                         *)
(* The bridge counts what its observers report; the camera (and the time   *)
(* a snapshot was taken, which the graph contains too) changes without.    *)
(***************************************************************************)
EXTENDS RevisionStore

CONSTANTS
  MaxCounter,  \* bound on each of the bridge's counters
  MaxUndo      \* bound: refreshes happen below this many undo entries

ASSUME LiveAssumption == MaxCounter \in Nat /\ MaxUndo \in Nat

VARIABLES
  live,    \* the bridge's document: its revision and content
  unseen   \* history variable: live changed since the last refresh

vars == <<current, history, undo_stack, redo_stack, issued, live, unseen>>

(* compile_snapshot: references are made under the snapshot's revision.     *)
Compiled(snapshot) ==
  [rev |-> snapshot.rev, refs |-> snapshot.rev, content |-> snapshot.content]

(* The first refresh has found no store and made one.                       *)
Init ==
  /\ live = [rev |-> InitialRevision,
             content |-> [a \in Aspects |-> InitialValue]]
  /\ StoreInit(Compiled(live))
  /\ unseen = FALSE

Counter(aspect) ==
  CASE aspect = "shape" -> "geometry"
    [] aspect = "label" -> "metadata"
    [] aspect = "selection" -> "focus"

(* A reported change: some aspect, and the counter that stands for it.      *)
LiveChange ==
  \E a \in {"shape", "label", "selection"}, v \in Values :
    /\ live.rev[Counter(a)] < MaxCounter
    /\ live' = [rev |-> [live.rev EXCEPT ![Counter(a)] = @ + 1],
                content |-> [live.content EXCEPT ![a] = v]]
    /\ unseen' = TRUE
    /\ UNCHANGED storeVars

LiveSilent ==
  \E v \in Values :
    /\ live' = [live EXCEPT !.content["view"] = v]
    /\ live' # live
    /\ unseen' = TRUE
    /\ UNCHANGED storeVars

(* Mutant of Refresh: compares revisions instead of fingerprints.           *)
RefreshOnNewRevision ==
  /\ Len(undo_stack) < MaxUndo
  /\ IF current.rev # live.rev
       THEN Observe(Compiled(live))
       ELSE UNCHANGED storeVars
  /\ unseen' = FALSE
  /\ UNCHANGED live

(* refresh compares fingerprints, which cover the revision, and observes    *)
(* what differs.                                                            *)
Refresh ==
  /\ Len(undo_stack) < MaxUndo
  /\ IF current # Compiled(live)
       THEN Observe(Compiled(live))
       ELSE UNCHANGED storeVars
  /\ unseen' = FALSE
  /\ UNCHANGED live

Next == LiveChange \/ LiveSilent \/ Refresh

Spec == Init /\ [][Next]_vars

-----------------------------------------------------------------------------

(* After a refresh the store shows the live document, camera included, and  *)
(* its references are those the bridge resolves, even when the store had to *)
(* make up a revision id for it.  That id is the bridge's or one geometry   *)
(* revision ahead of it, however many silent changes were observed: made-up *)
(* ids do not pile up (refresh, observe).                                   *)
ShowsLive ==
  ~ unseen => /\ current.content = live.content /\ current.refs = live.rev
              /\ current.rev \in {live.rev, BumpGeometry(live.rev)}

(* Two graphs published under one revision differ in what the bridge counts *)
(* only if the store made that id up for one of them: its references then   *)
(* carry another revision than the graph does, by which it is told apart    *)
(* (observe, compile_snapshot).                                             *)
CollisionsAreMadeUp ==
  \A g, h \in issued :
    \/ g.rev # h.rev \/ g.refs # g.rev \/ h.refs # h.rev
    \/ \A a \in {"shape", "label", "selection"} : g.content[a] = h.content[a]

=============================================================================
