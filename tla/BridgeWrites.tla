---------------------------- MODULE BridgeWrites ----------------------------
(***************************************************************************)
(* What the bridge does on FreeCAD's main thread: synchronized snapshots,  *)
(* previews, commits, undo and redo, while the user edits the document.    *)
(*                                                                         *)
(* A handler runs to its end before anything else does, with the document  *)
(* observers called inside it, so each handler is one action.  FreeCAD is  *)
(* external: an operation may fail, an undo may bring back any model, and  *)
(* an aborted transaction may leave a residue.                             *)
(*                                                                         *)
(* The document is three aspects: the model, which FreeCAD's transactions  *)
(* cover; the selection, which they do not but which an observer reports;  *)
(* and the camera, which nothing reports.  SHA-256 is injective.           *)
(***************************************************************************)
EXTENDS Integers, FiniteSets

CONSTANTS
  Values,       \* values an aspect may take
  InitialValue,
  Changes,      \* what changesets write: functions from aspects to values
  Forms,        \* how changesets name their base: "full", "geometry"
  EditClasses,  \* classes of the events the user's edits raise
  Populated,    \* whether the document has an object; only then do
                \* fingerprints, through references, hold the revision
  MaxGeometry,  \* bound on the geometry counter
  MaxOthers,    \* bound on the sum of the other counters
  MaxServed,    \* bound on the snapshots a client remembers
  MaxTold       \* bound on the previews a client remembers

Aspects   == {"model", "selection", "camera"}
Contents  == [Aspects -> Values]
Revisions == [geometry : Nat, metadata : Nat, focus : Nat, view : Nat]
Snapshots == [rev : Revisions, content : Contents]

EventClasses == {"geometry", "parametric", "metadata", "focus"}

ASSUME WritesAssumption ==
  /\ InitialValue \in Values
  /\ Changes \subseteq UNION {[D -> Values] : D \in SUBSET Aspects \ {{}}}
  /\ Forms \subseteq {"full", "geometry"}
  /\ EditClasses \subseteq {"parametric", "metadata", "geometry"}
  /\ Populated \in BOOLEAN
  /\ MaxGeometry \in Nat /\ MaxOthers \in Nat
  /\ MaxServed \in Nat /\ MaxTold \in Nat

VARIABLES
  content,        \* the document, and what the GUI shows of it
  revision,       \* BridgeState::revision
  events,         \* event classes pending in the coalescer
  previews,       \* BridgeState::previews, a set of records keyed by change
  write_blocked,  \* BridgeState::write_blocked
  \* history variables
  served,         \* snapshots clients were given, or told the revision of
  told,           \* previews clients were given
  fresh           \* those since which nothing was done to the document

vars == <<content, revision, events, previews, write_blocked,
          served, told, fresh>>

-----------------------------------------------------------------------------
(* Revisions and events.                                                   *)

(* bump, once for each class of a set. *)
Bump(rev, classes) ==
  LET One(class) == IF class \in classes THEN 1 ELSE 0
  IN  [geometry |-> rev.geometry + One("geometry") + One("parametric")
                      + One("transaction"),
       metadata |-> rev.metadata + One("metadata"),
       focus    |-> rev.focus + One("focus"),
       view     |-> rev.view + One("view")]

(* An observer called for an event emits its class and flushes the classes  *)
(* that have been pending for 100 ms; the class just emitted has not.       *)
Emit(class, aged) ==
  /\ aged \subseteq events \ {class}
  /\ revision' = Bump(revision, aged)
  /\ events' = (events \cup {class}) \ aged

(* The observers of transactions flush everything.                          *)
AfterTransaction(rev, emitted) == Bump(rev, emitted \cup {"transaction"})

(* handle flushes everything before a synchronized request.                 *)
Synced == Bump(revision, events)

-----------------------------------------------------------------------------
(* Fingerprints, validation and the effect of a changeset.                 *)

Snapshot(rev, c) == [rev |-> rev, content |-> c]

(* snapshot_fingerprint drops the revision, but every entity's reference    *)
(* still carries it.                                                        *)
Fingerprint(rev, c) ==
  IF Populated THEN [rev |-> rev, content |-> c] ELSE [content |-> c]

(* A changeset names its base by full id, or by the geometry-only one.      *)
ChangeSets ==
  [writes : Changes, form : Forms, base : Revisions]

MatchesBase(cs, rev) ==
  IF cs.form = "full" THEN cs.base = rev
  ELSE cs.base.geometry = rev.geometry

ValidChange(cs, rev) == ~ write_blocked /\ MatchesBase(cs, rev)

Written(c, writes) ==
  [a \in Aspects |-> IF a \in DOMAIN writes THEN writes[a] ELSE c[a]]

(* Operations on the selection and the camera are only validated in a       *)
(* preview.                                                                 *)
ModelPart(writes) == [a \in DOMAIN writes \cap {"model"} |-> writes[a]]

(* Event classes the operations and the recompute that validates them emit. *)
Emits(writes) ==
  {"geometry"}
    \cup (IF "model" \in DOMAIN writes THEN {"parametric"} ELSE {})
    \cup (IF "selection" \in DOMAIN writes THEN {"focus"} ELSE {})

(* Executor::apply on the counters: the transaction opens, operations emit  *)
(* events some of which age and are flushed before they are emitted again,  *)
(* and the transaction is committed or aborted.                             *)
AfterApply(rev, emitted, aged) ==
  AfterTransaction(Bump(AfterTransaction(rev, {}), aged), emitted)

(* Every operation has run; all the events aged early, or none.             *)
AfterRun(rev, writes, early) ==
  AfterApply(rev, Emits(writes), IF early THEN Emits(writes) ELSE {})

ChangeClasses(writes) ==
  {CASE a = "model" -> "geometry"
     [] a = "selection" -> "focus"
     [] a = "camera" -> "view" : a \in DOMAIN writes}

(* The hash binds the base and the snapshot taken after the transaction was *)
(* aborted, under the counters as the aborted operations moved them.        *)
PreviewHash(base, cs, early) ==
  LET ran == AfterRun(base.rev, ModelPart(cs.writes), early)
  IN  [base_revision |-> base.rev,
       base_fingerprint |-> Fingerprint(base.rev, base.content),
       preview_fingerprint |->
         Fingerprint(Bump(ran, ChangeClasses(cs.writes)), base.content),
       changeset |-> cs]

Record(base, cs, early) ==
  [cs |-> cs, base_fingerprint |-> Fingerprint(base.rev, base.content),
   preview_hash |-> PreviewHash(base, cs, early)]

-----------------------------------------------------------------------------

Init ==
  /\ content = [a \in Aspects |-> InitialValue]
  /\ revision = [geometry |-> 0, metadata |-> 0, focus |-> 0, view |-> 0]
  /\ events = {} /\ previews = {} /\ write_blocked = FALSE
  /\ served = {} /\ told = {} /\ fresh = {}

(* The user. *)

UserSets(aspect) ==
  /\ \E v \in Values \ {content[aspect]} :
       content' = [content EXCEPT ![aspect] = v]
  /\ fresh' = {}
  /\ UNCHANGED <<previews, write_blocked, served, told>>

(* Outside a transaction: a property, a label, an object made or deleted.   *)
UserEdits ==
  /\ UserSets("model")
  /\ \E class \in EditClasses, aged \in SUBSET events : Emit(class, aged)

UserEditsInTransaction ==
  /\ UserSets("model")
  /\ events' = {}
  /\ revision' = AfterApply(revision, {"parametric"}, events)

UserSelects ==
  /\ UserSets("selection")
  /\ \E aged \in SUBSET events : Emit("focus", aged)

(* No observer sees the camera move. *)
UserTurnsCamera ==
  /\ UserSets("camera")
  /\ UNCHANGED <<revision, events>>

User == UserEdits \/ UserEditsInTransaction \/ UserSelects \/ UserTurnsCamera

(* Requests. *)

(* Mutant of ServeSnapshot: pending events are left for later.              *)
ServeUnsynchronized ==
  /\ served' = served \cup {Snapshot(revision, content)}
  /\ UNCHANGED <<revision, events, content, previews, write_blocked, told, fresh>>

ServeSnapshot ==
  /\ revision' = Synced
  /\ events' = {}
  /\ served' = served \cup {Snapshot(Synced, content)}
  /\ UNCHANGED <<content, previews, write_blocked, told, fresh>>

(* A request that fails validation has only flushed the events.             *)
Refuse ==
  /\ revision' = Synced
  /\ events' = {}
  /\ UNCHANGED <<content, previews, write_blocked, served, told, fresh>>

(* A rollback gives the model back, or leaves something else.               *)
RolledBack(c) ==
  {[c EXCEPT !["model"] = v] : v \in Values}

(* The answer to a preview, and what the bridge keeps of it.                *)
Answer(cs, early) ==
  [cs |-> cs, hash |-> PreviewHash(Snapshot(Synced, content), cs, early),
   seen |-> content, shown |-> Written(content, ModelPart(cs.writes))]

(* Mutant of KeepRecord: earlier records of the change are kept.            *)
KeepEveryRecord(cs, early) ==
  previews' = previews \cup {Record(Snapshot(Synced, content), cs, early)}

KeepRecord(cs, early) ==
  previews' = {p \in previews : p.cs # cs}
                \cup {Record(Snapshot(Synced, content), cs, early)}

TellAnswer(cs, early) ==
  /\ told' = told \cup {Answer(cs, early)}
  /\ fresh' = {t \in fresh : t.cs # cs} \cup {Answer(cs, early)}

(* Mutant of PreviewSucceeds: the counters stay where the run moved them.   *)
PreviewKeepsCounters(cs) ==
  \E early \in BOOLEAN :
    /\ KeepRecord(cs, early) /\ TellAnswer(cs, early)
    /\ revision' = Bump(AfterRun(Synced, ModelPart(cs.writes), early),
                       ChangeClasses(cs.writes))
    /\ UNCHANGED <<content, write_blocked>>

(* Mutant of PreviewSucceeds: the rollback is not verified.                 *)
PreviewUnverified(cs) ==
  /\ \E early \in BOOLEAN : KeepRecord(cs, early) /\ TellAnswer(cs, early)
  /\ content' \in RolledBack(content)
  /\ revision' = Synced
  /\ UNCHANGED write_blocked

PreviewSucceeds(cs) ==
  /\ \E early \in BOOLEAN : KeepRecord(cs, early) /\ TellAnswer(cs, early)
  /\ revision' = Synced
  /\ UNCHANGED <<content, write_blocked>>

(* Mutant of PreviewFails: the counters are restored on this path too.      *)
PreviewFailsQuietly(cs) ==
  /\ content' \in RolledBack(content)
  /\ revision' = Synced
  /\ fresh' = {}
  /\ UNCHANGED <<previews, write_blocked, told>>

(* The counters are restored, the document is not what it was.              *)
PreviewFailsVerification ==
  /\ content' \in RolledBack(content) \ {content}
  /\ write_blocked' = TRUE
  /\ fresh' = {}
  /\ revision' = Synced
  /\ UNCHANGED <<previews, told>>

(* An operation, the recompute or a check fails: the transaction is aborted *)
(* and preview returns at once, with the counters where they are.           *)
PreviewFails(cs) ==
  /\ content' \in RolledBack(content)
  /\ \E emitted \in SUBSET Emits(ModelPart(cs.writes)), early \in BOOLEAN :
       revision' = AfterApply(Synced, emitted, IF early THEN emitted ELSE {})
  /\ fresh' = {}
  /\ UNCHANGED <<previews, write_blocked, told>>

PreviewChange(cs) ==
  /\ ValidChange(cs, Synced)
  /\ events' = {}
  /\ PreviewSucceeds(cs) \/ PreviewFailsVerification \/ PreviewFails(cs)
  /\ UNCHANGED served

(* Mutant of CommitAccepts: the base revision is enough.                    *)
CommitTrustsRevision(t) ==
  /\ ValidChange(t.cs, Synced)
  /\ \E p \in previews : p.cs = t.cs /\ p.preview_hash = t.hash

(* A client commits a preview it was given, with the hash it was given.     *)
CommitAccepts(t) ==
  /\ ValidChange(t.cs, Synced)
  /\ \E p \in previews :
       /\ p.cs = t.cs
       /\ p.preview_hash = t.hash
       /\ p.base_fingerprint = Fingerprint(Synced, content)

CommitSucceeds(t) ==
  /\ \E early \in BOOLEAN :
       revision' = Bump(AfterRun(Synced, t.cs.writes, early),
                        ChangeClasses(t.cs.writes))
  /\ content' = Written(content, t.cs.writes)
  /\ previews' = {p \in previews : p.cs # t.cs}
  /\ served' = served \cup {Snapshot(revision', content')}

(* What the transaction covers is rolled back; selection and camera stay as *)
(* the operations before the failure left them, and so does the preview.    *)
CommitFails(t) ==
  /\ \E c \in RolledBack(content),
        D \in SUBSET (DOMAIN t.cs.writes \ {"model"}) :
       /\ content' = Written(c, [a \in D |-> t.cs.writes[a]])
       /\ \E emitted \in SUBSET Emits(t.cs.writes) :
            /\ "selection" \in D => "focus" \in emitted
            /\ revision' = AfterApply(Synced, emitted, {})
  /\ UNCHANGED <<previews, served>>

CommitChange(t) ==
  /\ CommitAccepts(t)
  /\ events' = {}
  /\ CommitSucceeds(t) \/ CommitFails(t)
  /\ fresh' = {}
  /\ UNCHANGED <<write_blocked, told>>

(* undo and redo: FreeCAD brings back some model and reports the changes;   *)
(* nothing flushes them.  Where it cannot, the request was only a flush.    *)
UndoRedo ==
  /\ \E v \in Values \ {content["model"]} :
       content' = [content EXCEPT !["model"] = v]
  /\ revision' = Bump(Synced, {"transaction"})
  /\ events' = {"parametric"}
  /\ fresh' = {}
  /\ UNCHANGED <<previews, write_blocked, served, told>>

(* Clients build changesets on the snapshots they were given.               *)
Offered ==
  {[writes |-> w, form |-> f, base |-> s.rev] :
     w \in Changes, f \in Forms, s \in served}

WithinBounds ==
  /\ revision'.geometry <= MaxGeometry
  /\ revision'.metadata + revision'.focus + revision'.view <= MaxOthers
  /\ Cardinality(served') <= MaxServed
  /\ Cardinality(told') <= MaxTold

Next ==
  /\ \/ UserEdits \/ UserEditsInTransaction
     \/ UserSelects \/ UserTurnsCamera
     \/ ServeSnapshot \/ Refuse
     \/ \E cs \in Offered : PreviewChange(cs)
     \/ \E t \in told : CommitChange(t)
     \/ UndoRedo
  /\ WithinBounds

Spec == Init /\ [][Next]_vars

-----------------------------------------------------------------------------

TypeOK ==
  /\ content \in Contents
  /\ revision \in Revisions
  /\ events \subseteq EventClasses
  /\ \A p \in previews : p.cs \in ChangeSets
  /\ \A p, q \in previews : p.cs = q.cs => p = q
  /\ write_blocked \in BOOLEAN
  /\ served \subseteq Snapshots
  /\ \A t \in told : t.cs \in ChangeSets
  /\ fresh \subseteq told

(* What observers report: everything but the camera.                        *)
SameReported(c, d) == \A a \in Aspects \ {"camera"} : c[a] = d[a]

(* A revision told to a client stands for what the document was: once the   *)
(* model or the selection is another, the counters have moved or an event   *)
(* is pending that will move them before the next synchronized answer.      *)
(* Preview puts the counters back, so this needs every other path not to.   *)
(* After an unverified rollback it is lost, and writes are blocked.         *)
NoChangeUnnoticed ==
  ~ write_blocked =>
    \A s \in served :
      s.rev = revision /\ events = {} => SameReported(s.content, content)

(* No two synchronized answers give one revision to two states of the model *)
(* or the selection.                                                        *)
ServedOnce ==
  ~ write_blocked =>
    \A s, t \in served : s.rev = t.rev => SameReported(s.content, t.content)

(* A commit starts from the document its reviewer saw, camera included, and *)
(* makes of it the model the reviewer was shown (BridgeState::commit).      *)
CommitMakesReviewed ==
  [][\A t \in told :
       (\E p \in previews : p.cs = t.cs /\ p.preview_hash = t.hash)
       /\ (\A p \in previews' : p.cs # t.cs)
       => /\ content = t.seen
          /\ content'["model"] = t.shown["model"]]_vars

(* A preview a client is given has left nothing behind: neither in the      *)
(* document, nor in the counters, nor in the pending events.                *)
PreviewLeavesNoTrace ==
  [][told' # told =>
       content' = content /\ revision' = Synced /\ events' = {}]_vars

(* If nothing happened to the document since a preview, its commit is not   *)
(* refused: what the preview itself did to transactions, events and         *)
(* counters does not count as a conflict.                                   *)
FreshPreviewsCommit == \A t \in fresh : ~ write_blocked => CommitAccepts(t)

(* "A rollback or revision invariant failure blocks further writes": a      *)
(* preview that changed the document has blocked them.                      *)
RollbackFailureBlocks ==
  [][(\E cs \in Offered : PreviewChange(cs)) /\ content' # content
       => write_blocked']_vars

=============================================================================
