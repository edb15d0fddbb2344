------------------------- MODULE BridgeWritesProofs -------------------------
(***************************************************************************)
(* Proofs about the bridge's main-thread handlers: no two synchronized     *)
(* answers give one revision to two states of the model or the selection.  *)
(*                                                                         *)
(* ServedOnce alone is not inductive: what keeps the next answer from      *)
(* reusing a revision is that every served revision is behind the counters *)
(* and that a served state under the present counters is the present one,  *)
(* or an event is pending.                                                 *)
(*                                                                         *)
(* Then previews: what a record's hash binds is the document its reader    *)
(* saw, so a commit that is accepted starts from that document, and one    *)
(* that nothing has disturbed is accepted.                                 *)
(***************************************************************************)
EXTENDS BridgeWrites, TLAPS

NotAhead(a, b) ==
  /\ a.geometry <= b.geometry
  /\ a.metadata <= b.metadata
  /\ a.focus <= b.focus
  /\ a.view <= b.view

Counted == EventClasses \cup {"transaction", "view"}

Core ==
  /\ \A s \in served : NotAhead(s.rev, revision)
  /\ NoChangeUnnoticed
  /\ ServedOnce

IInv == TypeOK /\ Core

LEMMA BumpCounts ==
  ASSUME NEW rev \in Revisions, NEW classes
  PROVE  /\ Bump(rev, classes) \in Revisions
         /\ NotAhead(rev, Bump(rev, classes))
         /\ classes \cap Counted # {} => Bump(rev, classes) # rev
<1> DEFINE One(class) == IF class \in classes THEN 1 ELSE 0
<1> DEFINE next == [geometry |-> rev.geometry + One("geometry")
                      + One("parametric") + One("transaction"),
                    metadata |-> rev.metadata + One("metadata"),
                    focus    |-> rev.focus + One("focus"),
                    view     |-> rev.view + One("view")]
<1>1. Bump(rev, classes) = next
  BY DEF Bump
<1>2. /\ \A class : One(class) \in {0, 1}
      /\ \A class : class \in classes => One(class) = 1
  OBVIOUS
<1>3. /\ rev.geometry \in Nat /\ rev.metadata \in Nat
      /\ rev.focus \in Nat /\ rev.view \in Nat
  BY DEF Revisions
<1> HIDE DEF One
<1>4. next \in Revisions /\ NotAhead(rev, next)
  BY <1>2, <1>3 DEF Revisions, NotAhead
<1>5. ASSUME classes \cap Counted # {} PROVE next # rev
  <2>1. \/ One("geometry") = 1 \/ One("parametric") = 1
        \/ One("transaction") = 1 \/ One("metadata") = 1
        \/ One("focus") = 1 \/ One("view") = 1
    BY <1>2, <1>5 DEF Counted, EventClasses
  <2>2. CASE next.geometry # rev.geometry
    BY <2>2
  <2>3. CASE next.metadata # rev.metadata \/ next.focus # rev.focus
             \/ next.view # rev.view
    BY <2>3
  <2>4. /\ next.geometry = rev.geometry + One("geometry")
                      + One("parametric") + One("transaction")
        /\ next.metadata = rev.metadata + One("metadata")
        /\ next.focus = rev.focus + One("focus")
        /\ next.view = rev.view + One("view")
    OBVIOUS
  <2> HIDE DEF next
  <2> QED BY <1>2, <1>3, <2>1, <2>2, <2>3, <2>4
<1> HIDE DEF next
<1> QED BY <1>1, <1>4, <1>5

LEMMA NotAheadTransitive ==
  ASSUME NEW a \in Revisions, NEW b \in Revisions, NEW c \in Revisions,
         NotAhead(a, b), NotAhead(b, c)
  PROVE  /\ NotAhead(a, c)
         /\ a = c => b = c
<1>1. NotAhead(a, c)
  BY DEF NotAhead, Revisions
<1>2. ASSUME a = c PROVE b = c
  BY <1>2 DEF NotAhead, Revisions
<1> QED BY <1>1, <1>2

LEMMA ReadsServed ==
  ASSUME IInv, NEW s \in served
  PROVE  s.rev \in Revisions /\ NotAhead(s.rev, revision)
BY DEF IInv, Core, TypeOK, Snapshots

(* Steps that serve nothing: the counters do not fall, and if they stay     *)
(* where they were then an event is pending or nothing reported changed.    *)
LEMMA QuietStep ==
  ASSUME IInv, TypeOK', NotAhead(revision, revision'), UNCHANGED served,
         write_blocked => write_blocked',
         ~ write_blocked' => \/ revision' # revision
                             \/ events' # {}
                             \/ /\ SameReported(content, content')
                                /\ events = {}
  PROVE  Core'
<1>1. \A s \in served' : NotAhead(s.rev, revision')
                         /\ (s.rev = revision' => revision = revision')
  <2> SUFFICES ASSUME NEW s \in served
               PROVE  NotAhead(s.rev, revision')
                      /\ (s.rev = revision' => revision = revision')
    OBVIOUS
  <2>1. s.rev \in Revisions /\ NotAhead(s.rev, revision)
    BY ReadsServed
  <2> QED BY <2>1, NotAheadTransitive DEF IInv, TypeOK
<1>2. NoChangeUnnoticed'
  <2> SUFFICES ASSUME ~ write_blocked', NEW s \in served,
                      s.rev = revision', events' = {}
               PROVE  SameReported(s.content, content')
    BY DEF NoChangeUnnoticed, SameReported
  <2>1. revision' = revision
    BY <1>1
  <2>2. SameReported(content, content') /\ events = {}
    BY <2>1
  <2>3. SameReported(s.content, content)
    BY <2>1, <2>2 DEF IInv, Core, NoChangeUnnoticed
  <2> QED BY <2>2, <2>3 DEF SameReported
<1>3. ServedOnce'
  BY DEF IInv, Core, ServedOnce, SameReported
<1> QED BY <1>1, <1>2, <1>3 DEF Core

(* Steps that serve the document as they leave it.                          *)
LEMMA ServingStep ==
  ASSUME IInv, TypeOK', NotAhead(revision, revision'), events' = {},
         served' = served \cup {Snapshot(revision', content')},
         UNCHANGED write_blocked,
         revision' # revision \/ (events = {} /\ SameReported(content, content'))
  PROVE  Core'
<1> DEFINE new == Snapshot(revision', content')
<1>1. new \in Snapshots /\ new.rev = revision' /\ new.content = content'
  BY DEF Snapshot, Snapshots, TypeOK
<1>2. NotAhead(revision', revision')
  BY DEF NotAhead, Revisions, TypeOK
<1>3. \A s \in served : NotAhead(s.rev, revision')
                        /\ (s.rev = revision' => revision = revision')
  <2> SUFFICES ASSUME NEW s \in served
               PROVE  NotAhead(s.rev, revision')
                      /\ (s.rev = revision' => revision = revision')
    OBVIOUS
  <2>1. s.rev \in Revisions /\ NotAhead(s.rev, revision)
    BY ReadsServed
  <2> QED BY <2>1, NotAheadTransitive DEF IInv, TypeOK
<1> HIDE DEF new
<1>4. served' = served \cup {new}
  BY DEF new
<1>5. ASSUME ~ write_blocked, NEW s \in served, s.rev = revision'
      PROVE  SameReported(s.content, content')
  <2>1. /\ revision = revision' /\ events = {}
        /\ SameReported(content, content')
    BY <1>3, <1>5
  <2>2. SameReported(s.content, content)
    BY <1>5, <2>1 DEF IInv, Core, NoChangeUnnoticed
  <2> QED BY <2>1, <2>2 DEF SameReported
<1>6. NoChangeUnnoticed'
  <2> SUFFICES ASSUME ~ write_blocked, NEW s \in served', s.rev = revision'
               PROVE  SameReported(s.content, content')
    BY DEF NoChangeUnnoticed, SameReported
  <2>1. CASE s = new
    BY <1>1, <2>1 DEF SameReported
  <2>2. CASE s \in served
    BY <1>5, <2>2
  <2> QED BY <1>4, <2>1, <2>2
<1>7. ServedOnce'
  <2> SUFFICES ASSUME ~ write_blocked, NEW s \in served', NEW t \in served',
                      s.rev = t.rev
               PROVE  SameReported(s.content, t.content)
    BY DEF ServedOnce, SameReported
  <2>1. CASE s \in served /\ t \in served
    BY <2>1 DEF IInv, Core, ServedOnce
  <2>2. CASE s = new /\ t = new
    BY <2>2 DEF SameReported
  <2>3. CASE s \in served /\ t = new
    BY <1>1, <1>5, <2>3
  <2>4. CASE s = new /\ t \in served
    <3>1. SameReported(t.content, content')
      BY <1>1, <1>5, <2>4
    <3> QED BY <1>1, <2>4, <3>1 DEF SameReported
  <2> QED BY <1>4, <2>1, <2>2, <2>3, <2>4
<1>8. \A s \in served' : NotAhead(s.rev, revision')
  BY <1>1, <1>2, <1>3, <1>4
<1> QED BY <1>6, <1>7, <1>8 DEF Core

-----------------------------------------------------------------------------
(* Revisions the handlers reach.                                           *)

LEMMA ApplyCounts ==
  ASSUME NEW rev \in Revisions, NEW emitted, NEW aged
  PROVE  /\ AfterApply(rev, emitted, aged) \in Revisions
         /\ NotAhead(rev, AfterApply(rev, emitted, aged))
         /\ AfterApply(rev, emitted, aged) # rev
<1> DEFINE opened == AfterTransaction(rev, {})
           flushed == Bump(opened, aged)
           closed == AfterTransaction(flushed, emitted)
<1>1. /\ opened \in Revisions /\ NotAhead(rev, opened) /\ opened # rev
  BY BumpCounts DEF AfterTransaction, Counted
<1>2. flushed \in Revisions /\ NotAhead(opened, flushed)
  BY <1>1, BumpCounts
<1>3. closed \in Revisions /\ NotAhead(flushed, closed)
  BY <1>2, BumpCounts DEF AfterTransaction
<1>4. closed = AfterApply(rev, emitted, aged)
  BY DEF AfterApply
<1> HIDE DEF opened, flushed, closed
<1>5. NotAhead(rev, flushed)
  BY <1>1, <1>2, NotAheadTransitive
<1>6. NotAhead(rev, closed)
  BY <1>2, <1>3, <1>5, NotAheadTransitive
<1>7. ASSUME closed = rev PROVE FALSE
  <2>1. flushed = rev
    BY <1>2, <1>3, <1>5, <1>7, NotAheadTransitive
  <2>2. opened = rev
    BY <1>1, <1>2, <2>1, NotAheadTransitive
  <2> QED BY <1>1, <2>2
<1> QED BY <1>3, <1>4, <1>6, <1>7

LEMMA SyncedCounts ==
  ASSUME TypeOK
  PROVE  /\ Synced \in Revisions /\ NotAhead(revision, Synced)
         /\ events # {} => Synced # revision
<1>1. events # {} => events \cap Counted # {}
  BY DEF TypeOK, Counted
<1> QED BY <1>1, BumpCounts DEF Synced, TypeOK

LEMMA SyncedApply ==
  ASSUME TypeOK, NEW emitted, NEW aged, NEW classes
  PROVE  LET applied == AfterApply(Synced, emitted, aged)
             bumped == Bump(applied, classes)
         IN  /\ applied \in Revisions /\ bumped \in Revisions
             /\ NotAhead(revision, applied) /\ NotAhead(revision, bumped)
             /\ applied # revision /\ bumped # revision
<1> DEFINE applied == AfterApply(Synced, emitted, aged)
           bumped == Bump(applied, classes)
<1>1. /\ revision \in Revisions
      /\ Synced \in Revisions /\ NotAhead(revision, Synced)
  BY SyncedCounts DEF TypeOK
<1>2. /\ applied \in Revisions /\ NotAhead(Synced, applied)
      /\ applied # Synced
  BY <1>1, ApplyCounts
<1>3. bumped \in Revisions /\ NotAhead(applied, bumped)
  BY <1>2, BumpCounts
<1> HIDE DEF applied, bumped
<1>4. NotAhead(revision, applied) /\ applied # revision
  BY <1>1, <1>2, NotAheadTransitive
<1>5. NotAhead(revision, bumped) /\ bumped # revision
  BY <1>1, <1>2, <1>3, <1>4, NotAheadTransitive
<1> QED BY <1>2, <1>3, <1>4, <1>5 DEF applied, bumped

LEMMA WrittenType ==
  ASSUME NEW c \in Contents, NEW writes, NEW D,
         writes \in [D -> Values]
  PROVE  Written(c, writes) \in Contents
BY DEF Written, Contents

LEMMA ChangeWrites ==
  ASSUME NEW cs \in ChangeSets
  PROVE  \E D \in SUBSET Aspects : cs.writes \in [D -> Values]
BY WritesAssumption DEF ChangeSets

LEMMA OfferedTypes ==
  ASSUME TypeOK PROVE Offered \subseteq ChangeSets
BY DEF TypeOK, Offered, ChangeSets, Snapshots

-----------------------------------------------------------------------------
(* One lemma per action.                                                   *)

LEMMA InitIInv == Init => IInv
<1> SUFFICES ASSUME Init PROVE IInv
  OBVIOUS
<1>1. content \in Contents
  BY WritesAssumption DEF Init, Contents
<1>2. revision \in Revisions
  BY DEF Init, Revisions
<1>3. /\ events = {} /\ previews = {} /\ write_blocked = FALSE
      /\ served = {} /\ told = {} /\ fresh = {}
  BY DEF Init
<1>4. TypeOK
  BY <1>1, <1>2, <1>3 DEF TypeOK
<1>5. Core
  BY <1>3 DEF Core, NoChangeUnnoticed, ServedOnce
<1> QED BY <1>4, <1>5 DEF IInv

LEMMA EmitStep ==
  ASSUME IInv, NEW class \in EventClasses, NEW aged, Emit(class, aged)
  PROVE  /\ revision' \in Revisions /\ NotAhead(revision, revision')
         /\ events' \subseteq EventClasses /\ events' # {}
BY BumpCounts DEF Emit, IInv, TypeOK

LEMMA UserStep == ASSUME IInv, User PROVE IInv'
<1>1. \A aspect \in Aspects :
        UserSets(aspect) =>
          /\ content' \in Contents
          /\ UNCHANGED <<previews, write_blocked, served, told>>
          /\ fresh' = {}
          /\ \A a \in Aspects \ {aspect} : content'[a] = content[a]
  BY DEF UserSets, IInv, TypeOK, Contents
<1>2. ASSUME NEW aspect \in Aspects, UserSets(aspect),
             revision' \in Revisions, NotAhead(revision, revision'),
             events' \subseteq EventClasses,
             \/ revision' # revision \/ events' # {}
             \/ SameReported(content, content') /\ events = {}
      PROVE  IInv'
  <2>1. TypeOK'
    BY <1>1, <1>2 DEF IInv, TypeOK
  <2>2. Core'
    BY <1>1, <1>2, <2>1, QuietStep
  <2> QED BY <2>1, <2>2 DEF IInv
<1>3. CASE UserEdits
  <2>1. PICK class \in EditClasses, aged \in SUBSET events : Emit(class, aged)
    BY <1>3 DEF UserEdits
  <2>2. class \in EventClasses
    BY WritesAssumption DEF EventClasses
  <2> QED BY <1>2, <1>3, <2>1, <2>2, EmitStep DEF UserEdits, Aspects
<1>4. CASE UserEditsInTransaction
  <2>1. /\ revision' \in Revisions /\ NotAhead(revision, revision')
        /\ revision' # revision
    BY <1>4, ApplyCounts DEF UserEditsInTransaction, IInv, TypeOK
  <2> QED BY <1>2, <1>4, <2>1 DEF UserEditsInTransaction, Aspects
<1>5. CASE UserSelects
  <2>1. PICK aged : Emit("focus", aged)
    BY <1>5 DEF UserSelects
  <2>2. "focus" \in EventClasses
    BY DEF EventClasses
  <2> QED BY <1>2, <1>5, <2>1, <2>2, EmitStep DEF UserSelects, Aspects
<1>6. CASE UserTurnsCamera
  <2>1. /\ revision' = revision /\ events' = events
        /\ UserSets("camera") /\ "camera" \in Aspects
    BY <1>6 DEF UserTurnsCamera, Aspects
  <2>2. SameReported(content, content')
    BY <1>1, <2>1 DEF SameReported
  <2>3. NotAhead(revision, revision) /\ revision \in Revisions
    BY DEF NotAhead, Revisions, IInv, TypeOK
  <2>4. events \subseteq EventClasses
    BY DEF IInv, TypeOK
  <2> QED BY <1>2, <2>1, <2>2, <2>3, <2>4
<1> QED BY <1>3, <1>4, <1>5, <1>6 DEF User

LEMMA SnapshotStep == ASSUME IInv, ServeSnapshot PROVE IInv'
<1>1. /\ Synced \in Revisions /\ NotAhead(revision, Synced)
      /\ events # {} => Synced # revision
  BY SyncedCounts DEF IInv
<1>2. TypeOK'
  BY <1>1 DEF ServeSnapshot, IInv, TypeOK, Snapshot, Snapshots
<1>3. SameReported(content, content')
  BY DEF ServeSnapshot, SameReported
<1>4. Core'
  BY <1>1, <1>2, <1>3, ServingStep DEF ServeSnapshot
<1> QED BY <1>2, <1>4 DEF IInv

LEMMA RefuseStep == ASSUME IInv, Refuse PROVE IInv'
<1>1. /\ Synced \in Revisions /\ NotAhead(revision, Synced)
      /\ events # {} => Synced # revision
  BY SyncedCounts DEF IInv
<1>2. TypeOK'
  BY <1>1 DEF Refuse, IInv, TypeOK
<1>3. SameReported(content, content')
  BY DEF Refuse, SameReported
<1>4. Core'
  BY <1>1, <1>2, <1>3, QuietStep DEF Refuse
<1> QED BY <1>2, <1>4 DEF IInv

LEMMA RolledBackType ==
  ASSUME NEW c \in Contents, NEW d \in RolledBack(c)
  PROVE  d \in Contents
BY DEF RolledBack, Contents, Aspects

LEMMA PreviewStep ==
  ASSUME IInv, NEW cs \in Offered, PreviewChange(cs)
  PROVE  IInv'
<1>1. /\ Synced \in Revisions /\ NotAhead(revision, Synced)
      /\ events # {} => Synced # revision
      /\ cs \in ChangeSets
      /\ events' = {} /\ served' = served
  BY SyncedCounts, OfferedTypes DEF IInv, PreviewChange
<1>2. CASE PreviewSucceeds(cs)
  <2>1. TypeOK'
    <3>1. /\ \A p \in previews' : p.cs \in ChangeSets
          /\ \A p, q \in previews' : p.cs = q.cs => p = q
      BY <1>1, <1>2 DEF PreviewSucceeds, KeepRecord, IInv, TypeOK, Record
    <3>2. (\A t \in told' : t.cs \in ChangeSets) /\ fresh' \subseteq told'
      BY <1>1, <1>2 DEF PreviewSucceeds, TellAnswer, Answer, IInv, TypeOK
    <3> QED BY <1>1, <1>2, <3>1, <3>2 DEF PreviewSucceeds, IInv, TypeOK
  <2>2. SameReported(content, content')
    BY <1>2 DEF PreviewSucceeds, SameReported
  <2>3. Core'
    BY <1>1, <1>2, <2>1, <2>2, QuietStep DEF PreviewSucceeds
  <2> QED BY <2>1, <2>3 DEF IInv
<1>3. CASE PreviewFailsVerification
  <2>1. content' \in Contents
    BY <1>3, RolledBackType DEF PreviewFailsVerification, IInv, TypeOK
  <2>2. TypeOK'
    BY <1>1, <1>3, <2>1 DEF PreviewFailsVerification, IInv, TypeOK
  <2>3. Core'
    BY <1>1, <1>3, <2>2, QuietStep DEF PreviewFailsVerification
  <2> QED BY <2>2, <2>3 DEF IInv
<1>4. CASE PreviewFails(cs)
  <2>1. content' \in Contents
    BY <1>4, RolledBackType DEF PreviewFails, IInv, TypeOK
  <2>2. /\ revision' \in Revisions /\ NotAhead(revision, revision')
        /\ revision' # revision
    BY <1>4, SyncedApply DEF PreviewFails, IInv
  <2>3. TypeOK'
    BY <1>1, <1>4, <2>1, <2>2 DEF PreviewFails, IInv, TypeOK
  <2>4. Core'
    BY <1>1, <1>4, <2>2, <2>3, QuietStep DEF PreviewFails
  <2> QED BY <2>3, <2>4 DEF IInv
<1> QED BY <1>2, <1>3, <1>4 DEF PreviewChange

LEMMA CommitStep ==
  ASSUME IInv, NEW t \in told, CommitChange(t)
  PROVE  IInv'
<1>1. /\ t.cs \in ChangeSets /\ content \in Contents
      /\ events' = {} /\ fresh' = {}
      /\ UNCHANGED <<write_blocked, told>>
  BY DEF IInv, TypeOK, CommitChange
<1>2. CASE CommitSucceeds(t)
  <2>1. content' \in Contents
    BY <1>1, <1>2, ChangeWrites, WrittenType DEF CommitSucceeds
  <2>2. /\ revision' \in Revisions /\ NotAhead(revision, revision')
        /\ revision' # revision
    BY <1>2, SyncedApply DEF CommitSucceeds, AfterRun, IInv
  <2>3. TypeOK'
    BY <1>1, <1>2, <2>1, <2>2
    DEF CommitSucceeds, IInv, TypeOK, Snapshot, Snapshots
  <2>4. Core'
    BY <1>1, <1>2, <2>2, <2>3, ServingStep DEF CommitSucceeds
  <2> QED BY <2>3, <2>4 DEF IInv
<1>3. CASE CommitFails(t)
  <2>1. PICK c \in RolledBack(content),
             D \in SUBSET (DOMAIN t.cs.writes \ {"model"}) :
          /\ content' = Written(c, [a \in D |-> t.cs.writes[a]])
          /\ \E emitted : revision' = AfterApply(Synced, emitted, {})
    BY <1>3 DEF CommitFails
  <2>2. content' \in Contents
    <3>1. c \in Contents
      BY <1>1, RolledBackType
    <3>2. [a \in D |-> t.cs.writes[a]] \in [D -> Values]
      BY <1>1, ChangeWrites
    <3> QED BY <2>1, <3>1, <3>2, WrittenType
  <2>3. /\ revision' \in Revisions /\ NotAhead(revision, revision')
        /\ revision' # revision
    BY <2>1, SyncedApply DEF IInv
  <2>4. UNCHANGED <<previews, served>>
    BY <1>3 DEF CommitFails
  <2>5. TypeOK'
    BY <1>1, <2>2, <2>3, <2>4 DEF IInv, TypeOK
  <2>6. Core'
    BY <1>1, <2>3, <2>4, <2>5, QuietStep
  <2> QED BY <2>5, <2>6 DEF IInv
<1> QED BY <1>2, <1>3 DEF CommitChange

LEMMA UndoRedoStep == ASSUME IInv, UndoRedo PROVE IInv'
<1>1. Synced \in Revisions /\ NotAhead(revision, Synced)
  BY SyncedCounts DEF IInv
<1>2. /\ revision' \in Revisions /\ NotAhead(Synced, revision')
      /\ revision' # Synced
  BY <1>1, BumpCounts DEF UndoRedo, Counted
<1>3. NotAhead(revision, revision')
  BY <1>1, <1>2, NotAheadTransitive DEF IInv, TypeOK
<1>4. content' \in Contents
  BY DEF UndoRedo, IInv, TypeOK, Contents, Aspects
<1>5. TypeOK'
  BY <1>2, <1>4 DEF UndoRedo, IInv, TypeOK, EventClasses
<1>6. Core'
  BY <1>3, <1>5, QuietStep DEF UndoRedo
<1> QED BY <1>5, <1>6 DEF IInv

LEMMA StutterStep == ASSUME IInv, UNCHANGED vars PROVE IInv'
BY DEF vars, IInv, TypeOK, Core, NoChangeUnnoticed, ServedOnce, SameReported

THEOREM Inductive == Spec => []IInv
<1>1. IInv /\ [Next]_vars => IInv'
  <2> SUFFICES ASSUME IInv, [Next]_vars PROVE IInv'
    OBVIOUS
  <2>1. CASE User
    BY <2>1, UserStep
  <2>2. CASE ServeSnapshot
    BY <2>2, SnapshotStep
  <2>3. CASE Refuse
    BY <2>3, RefuseStep
  <2>4. CASE \E cs \in Offered : PreviewChange(cs)
    BY <2>4, PreviewStep
  <2>5. CASE \E t \in told : CommitChange(t)
    BY <2>5, CommitStep
  <2>6. CASE UndoRedo
    BY <2>6, UndoRedoStep
  <2>7. CASE UNCHANGED vars
    BY <2>7, StutterStep
  <2> QED BY <2>1, <2>2, <2>3, <2>4, <2>5, <2>6, <2>7 DEF Next, User
<1> QED BY InitIInv, <1>1, PTL DEF Spec

(* Type correctness of the bridge's state and of what clients were told.    *)
THEOREM TypeCorrect == Spec => []TypeOK
BY Inductive, PTL DEF IInv

(* Whatever users and clients do, and whatever fails, no change of model or *)
(* selection hides under a served revision, unless writes are blocked.      *)
THEOREM ChangesAreNoticed == Spec => []NoChangeUnnoticed
BY Inductive, PTL DEF IInv, Core

(* No two synchronized answers give one revision to two states of the model *)
(* or the selection, unless writes are blocked.                             *)
THEOREM ServedRevisionsIdentify == Spec => []ServedOnce
BY Inductive, PTL DEF IInv, Core

-----------------------------------------------------------------------------
(* Previews and their commits.                                             *)

(* What a record and an answer say of the document they were made of: a     *)
(* record's fingerprint is the one its hash binds, and an answer's hash     *)
(* binds the content its reader saw.                                        *)
Truthful ==
  /\ \A p \in previews :
       p.preview_hash.base_fingerprint = p.base_fingerprint
  /\ \A t \in told :
       /\ t.hash.base_fingerprint.content = t.seen
       /\ t.shown = Written(t.seen, ModelPart(t.cs.writes))

LEMMA FingerprintShows ==
  ASSUME NEW rev, NEW c
  PROVE  Fingerprint(rev, c).content = c
BY DEF Fingerprint

LEMMA NothingToFlush ==
  ASSUME NEW rev \in Revisions
  PROVE  Bump(rev, {}) = rev
BY DEF Bump, Revisions

LEMMA InitPreviews == Init => Truthful /\ FreshPreviewsCommit
BY DEF Init, Truthful, FreshPreviewsCommit

LEMMA StepsOfPreviews ==
  ASSUME [Next]_vars
  PROVE  \/ /\ UNCHANGED <<previews, told>>
            /\ \/ fresh' = {}
               \/ /\ fresh' = fresh /\ content' = content
                  /\ write_blocked' = write_blocked
                  /\ \/ revision' = Synced /\ events' = {}
                     \/ revision' = revision /\ events' = events
         \/ \E cs \in Offered :
              /\ ValidChange(cs, Synced)
              /\ events' = {}
              /\ PreviewSucceeds(cs)
         \/ \E t \in told : CommitChange(t) /\ CommitSucceeds(t)
<1>1. CASE User
  <2>1. \A aspect : UserSets(aspect) =>
                     UNCHANGED <<previews, told>> /\ fresh' = {}
    BY DEF UserSets
  <2> QED BY <1>1, <2>1
       DEF User, UserEdits, UserEditsInTransaction, UserSelects,
           UserTurnsCamera
<1>2. CASE ServeSnapshot \/ Refuse
  BY <1>2 DEF ServeSnapshot, Refuse
<1>3. ASSUME NEW cs \in Offered, PreviewChange(cs), ~ PreviewSucceeds(cs)
      PROVE  UNCHANGED <<previews, told>> /\ fresh' = {}
  BY <1>3 DEF PreviewChange, PreviewFails, PreviewFailsVerification
<1>4. ASSUME NEW t \in told, CommitChange(t), ~ CommitSucceeds(t)
      PROVE  UNCHANGED <<previews, told>> /\ fresh' = {}
  <2>1. CommitFails(t) /\ fresh' = {} /\ told' = told
    BY <1>4 DEF CommitChange
  <2>2. previews' = previews
    BY <2>1 DEF CommitFails
  <2> QED BY <2>1, <2>2
<1>5. CASE UndoRedo
  BY <1>5 DEF UndoRedo
<1>6. CASE UNCHANGED vars
  BY <1>6 DEF vars
<1>7. CASE \E cs \in Offered : PreviewChange(cs)
  BY <1>3, <1>7 DEF PreviewChange
<1>8. CASE \E t \in told : CommitChange(t)
  BY <1>4, <1>8
<1> QED BY <1>1, <1>2, <1>5, <1>6, <1>7, <1>8 DEF Next, User

LEMMA TruthfulStep ==
  ASSUME Truthful, [Next]_vars
  PROVE  Truthful'
<1>1. CASE UNCHANGED <<previews, told>>
  BY <1>1 DEF Truthful
<1>2. ASSUME NEW cs, PreviewSucceeds(cs) PROVE Truthful'
  <2> DEFINE base == Snapshot(Synced, content)
  <2>1. PICK early \in BOOLEAN : KeepRecord(cs, early) /\ TellAnswer(cs, early)
    BY <1>2 DEF PreviewSucceeds
  <2>2. PreviewHash(base, cs, early).base_fingerprint
          = Fingerprint(base.rev, base.content)
    BY DEF PreviewHash
  <2>3. /\ previews' \subseteq previews \cup {Record(base, cs, early)}
        /\ told' = told \cup {Answer(cs, early)}
    BY <2>1 DEF KeepRecord, TellAnswer
  <2>4. Record(base, cs, early).preview_hash.base_fingerprint
          = Record(base, cs, early).base_fingerprint
    BY <2>2 DEF Record
  <2>5. /\ Answer(cs, early).hash = PreviewHash(base, cs, early)
        /\ Answer(cs, early).seen = content
        /\ Answer(cs, early).cs = cs
        /\ Answer(cs, early).shown = Written(content, ModelPart(cs.writes))
    BY DEF Answer
  <2>6. base.content = content
    BY DEF Snapshot
  <2>7. Answer(cs, early).hash.base_fingerprint.content = content
    BY <2>2, <2>5, <2>6, FingerprintShows
  <2>8. \A p \in previews' :
          p.preview_hash.base_fingerprint = p.base_fingerprint
    BY <2>3, <2>4 DEF Truthful
  <2>9. \A t \in told' :
          /\ t.hash.base_fingerprint.content = t.seen
          /\ t.shown = Written(t.seen, ModelPart(t.cs.writes))
    BY <2>3, <2>5, <2>7 DEF Truthful
  <2> QED BY <2>8, <2>9 DEF Truthful
<1>3. ASSUME NEW t \in told, CommitChange(t), CommitSucceeds(t)
      PROVE  Truthful'
  BY <1>3 DEF CommitChange, CommitSucceeds, Truthful
<1> QED BY <1>1, <1>2, <1>3, StepsOfPreviews

(* The one preview of a changeset that is on record, if it is the one the   *)
(* client holds, was made of what the client saw.                           *)
LEMMA ReviewedStep ==
  ASSUME TypeOK, Truthful, [Next]_vars,
         NEW t \in told, NEW p \in previews,
         p.cs = t.cs, p.preview_hash = t.hash,
         \A q \in previews' : q.cs # t.cs
  PROVE  content = t.seen /\ content'["model"] = t.shown["model"]
<1>1. previews' # previews
  OBVIOUS
<1>2. ~ \E cs : PreviewSucceeds(cs)
  <2> SUFFICES ASSUME NEW cs, PreviewSucceeds(cs) PROVE FALSE
    OBVIOUS
  <2>1. PICK early \in BOOLEAN : KeepRecord(cs, early)
    BY DEF PreviewSucceeds
  <2> DEFINE kept == Record(Snapshot(Synced, content), cs, early)
  <2>2. kept.cs = cs
    BY DEF Record
  <2> HIDE DEF kept
  <2>3. previews' = {q \in previews : q.cs # cs} \cup {kept}
    BY <2>1 DEF KeepRecord, kept
  <2> QED BY <2>2, <2>3
<1>3. PICK u \in told : CommitChange(u) /\ CommitSucceeds(u)
  BY <1>1, <1>2, StepsOfPreviews
<1>4. /\ previews' = {q \in previews : q.cs # u.cs}
      /\ content' = Written(content, u.cs.writes)
  BY <1>3 DEF CommitSucceeds
<1>5. u.cs = t.cs
  BY <1>4
<1>6. p.base_fingerprint = Fingerprint(Synced, content)
  <2>1. PICK q \in previews :
          q.cs = u.cs /\ q.base_fingerprint = Fingerprint(Synced, content)
    BY <1>3 DEF CommitChange, CommitAccepts
  <2>2. q = p
    BY <1>5, <2>1 DEF TypeOK
  <2> QED BY <2>1, <2>2
<1>7. content = t.seen
  <2>1. t.hash.base_fingerprint = Fingerprint(Synced, content)
    BY <1>6 DEF Truthful
  <2> QED BY <2>1, FingerprintShows DEF Truthful
<1>8. content'["model"] = t.shown["model"]
  <2>1. t.shown = Written(content, ModelPart(t.cs.writes))
    BY <1>7 DEF Truthful
  <2>2. content' = Written(content, t.cs.writes)
    BY <1>4, <1>5
  <2> QED BY <2>1, <2>2 DEF Written, ModelPart, Aspects
<1> QED BY <1>7, <1>8

LEMMA FreshStep ==
  ASSUME TypeOK, FreshPreviewsCommit, [Next]_vars
  PROVE  FreshPreviewsCommit'
<1>1. Synced \in Revisions
  BY SyncedCounts
<1>2. ASSUME revision' = Synced, events' = {} PROVE Synced' = Synced
  <2>1. Synced' = Bump(revision', events')
    BY DEF Synced
  <2> QED BY <1>1, <1>2, <2>1, NothingToFlush
<1>3. ASSUME Synced' = Synced, content' = content,
             write_blocked' = write_blocked,
             NEW t, CommitAccepts(t),
             \A p \in previews : p.cs = t.cs => p \in previews'
      PROVE  CommitAccepts(t)'
  BY <1>3 DEF CommitAccepts, ValidChange
<1>4. CASE fresh' = {}
  BY <1>4 DEF FreshPreviewsCommit
<1>5. CASE /\ UNCHANGED <<previews, fresh, content, write_blocked>>
           /\ \/ revision' = Synced /\ events' = {}
              \/ revision' = revision /\ events' = events
  <2>1. Synced' = Synced
    BY <1>2, <1>5 DEF Synced
  <2> QED BY <1>3, <1>5, <2>1 DEF FreshPreviewsCommit
<1>6. ASSUME NEW cs, ValidChange(cs, Synced), events' = {},
             PreviewSucceeds(cs)
      PROVE  FreshPreviewsCommit'
  <2>1. PICK early \in BOOLEAN : KeepRecord(cs, early) /\ TellAnswer(cs, early)
    BY <1>6 DEF PreviewSucceeds
  <2>2. PICK kept, answer :
          /\ kept = Record(Snapshot(Synced, content), cs, early)
          /\ answer = Answer(cs, early)
    OBVIOUS
  <2>3. /\ Synced' = Synced /\ content' = content
        /\ write_blocked' = write_blocked
    BY <1>2, <1>6 DEF PreviewSucceeds
  <2>4. /\ kept.cs = cs /\ answer.cs = cs
        /\ kept.preview_hash = answer.hash
        /\ kept.base_fingerprint = Fingerprint(Synced, content)
    BY <2>2 DEF Record, Answer, Snapshot
  <2>5. /\ previews' = {p \in previews : p.cs # cs} \cup {kept}
        /\ fresh' = {t \in fresh : t.cs # cs} \cup {answer}
    BY <2>1, <2>2 DEF KeepRecord, TellAnswer
  <2>6. CommitAccepts(answer)'
    <3>1. ValidChange(answer.cs, Synced)'
      BY <1>6, <2>3, <2>4 DEF ValidChange
    <3> QED BY <2>3, <2>4, <2>5, <3>1 DEF CommitAccepts
  <2>7. ASSUME NEW t \in fresh, t.cs # cs, ~ write_blocked
        PROVE  CommitAccepts(t)'
    BY <1>3, <2>3, <2>5, <2>7 DEF FreshPreviewsCommit
  <2> QED BY <2>3, <2>5, <2>6, <2>7 DEF FreshPreviewsCommit
<1>7. ASSUME NEW t \in told, CommitChange(t) PROVE fresh' = {}
  BY <1>7 DEF CommitChange
<1> QED BY <1>4, <1>5, <1>6, <1>7, StepsOfPreviews

THEOREM PreviewsInductive == Spec => [](Truthful /\ FreshPreviewsCommit)
<1>1. /\ TypeOK /\ Truthful /\ FreshPreviewsCommit
      /\ [Next]_vars
      => (Truthful /\ FreshPreviewsCommit)'
  BY TruthfulStep, FreshStep
<1> QED BY <1>1, InitPreviews, TypeCorrect, PTL DEF Spec

(* A preview nothing has disturbed can be committed: what the preview did   *)
(* to transactions, events and counters does not count as a conflict.       *)
THEOREM UndisturbedPreviewsCommit == Spec => []FreshPreviewsCommit
BY PreviewsInductive, PTL

(* A commit starts from the document its reviewer saw, camera included, and *)
(* makes of it the model the reviewer was shown.                            *)
THEOREM CommitsAreReviewed == Spec => CommitMakesReviewed
<1> DEFINE Reviewed ==
             \A t \in told :
               (\E p \in previews : p.cs = t.cs /\ p.preview_hash = t.hash)
               /\ (\A p \in previews' : p.cs # t.cs)
               => /\ content = t.seen
                  /\ content'["model"] = t.shown["model"]
<1>1. TypeOK /\ Truthful /\ [Next]_vars => Reviewed
  BY ReviewedStep
<1>2. TypeOK /\ Truthful /\ [Next]_vars => [Reviewed]_vars
  BY <1>1
<1> QED BY <1>2, TypeCorrect, PreviewsInductive, PTL
     DEF Spec, CommitMakesReviewed

(* A preview a client is given has left the document, the counters and the  *)
(* pending events as a refused request would have.                          *)
THEOREM PreviewsLeaveNoTrace == Spec => PreviewLeavesNoTrace
<1> DEFINE NoTrace == told' # told =>
             content' = content /\ revision' = Synced /\ events' = {}
<1>1. ASSUME [Next]_vars PROVE NoTrace
  <2>1. ASSUME NEW cs, PreviewSucceeds(cs)
        PROVE  content' = content /\ revision' = Synced
    BY <2>1 DEF PreviewSucceeds
  <2>2. ASSUME NEW t \in told, CommitChange(t) PROVE told' = told
    BY <2>2 DEF CommitChange
  <2> QED BY <1>1, <2>1, <2>2, StepsOfPreviews
<1> QED BY <1>1, PTL DEF Spec, PreviewLeavesNoTrace

=============================================================================
