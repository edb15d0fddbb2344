------------------------ MODULE FixtureSessionProofs ------------------------
(***************************************************************************)
(* Proofs about fixture sessions: type correctness, that a composite       *)
(* revision names one model, that the store implements the timeline of     *)
(* edits, that a commit publishes the graph that was reviewed, and that    *)
(* the history retains the newest revisions while their ids have one width.*)
(*                                                                         *)
(* A graph's revision alone does not say why it is new.  The inductive     *)
(* invariant adds that no published revision is ahead of the current one   *)
(* in any counter and that the current graph is itself published, so that  *)
(* a step either moves strictly past everything published or keeps the     *)
(* current revision and writes nothing a counter stands for.               *)
(***************************************************************************)
EXTENDS FixtureSession, SequenceTheorems, FiniteSetTheorems,
        WellFoundedInduction, TLAPS

(* No counter of a is ahead of b's. *)
NotAhead(a, b) ==
  /\ a.geometry <= b.geometry
  /\ a.metadata <= b.metadata
  /\ a.focus <= b.focus
  /\ a.view <= b.view

IInv ==
  /\ TypeOK
  /\ RevisionNamesOneModel
  /\ current \in issued
  /\ \A g \in issued : NotAhead(g.rev, current.rev)

-----------------------------------------------------------------------------
(* Lemmas about the operators.                                             *)

LEMMA AdvanceCounts ==
  ASSUME NEW rev \in Revisions, NEW writes
  PROVE  /\ Advance(rev, writes) \in Revisions
         /\ NotAhead(rev, Advance(rev, writes))
         /\ Advance(rev, writes) = rev =>
              DOMAIN writes \cap {"shape", "label", "selection", "view"} = {}
<1> DEFINE W(S) == IF DOMAIN writes \cap S # {} THEN 1 ELSE 0
           next == [geometry |-> rev.geometry + W({"shape", "label"}),
                    metadata |-> rev.metadata + W({"label"}),
                    focus    |-> rev.focus + W({"selection"}),
                    view     |-> rev.view + W({"view"})]
<1>1. Advance(rev, writes) = next
  BY DEF Advance
<1>2. \A S : W(S) \in {0, 1}
  OBVIOUS
<1>3. /\ rev.geometry \in Nat /\ rev.metadata \in Nat
      /\ rev.focus \in Nat /\ rev.view \in Nat
  BY DEF Revisions
<1>4. next \in Revisions /\ NotAhead(rev, next)
  <2> HIDE DEF W
  <2> QED BY <1>2, <1>3 DEF Revisions, NotAhead
<1>5. ASSUME next = rev
      PROVE  DOMAIN writes \cap {"shape", "label", "selection", "view"} = {}
  <2>1. /\ W({"shape", "label"}) = 0 /\ W({"selection"}) = 0
        /\ W({"view"}) = 0
    <3> HIDE DEF W
    <3>1. /\ next.geometry = rev.geometry /\ next.focus = rev.focus
          /\ next.view = rev.view
      BY <1>5
    <3> QED BY <3>1, <1>2, <1>3
  <2> QED BY <2>1
<1> HIDE DEF next
<1> QED BY <1>1, <1>4, <1>5

LEMMA RekeyType ==
  ASSUME NEW refs \in Revisions, NEW old, NEW new \in Revisions
  PROVE  Rekey(refs, old, new) \in Revisions
BY DEF Rekey

LEMMA WrittenType ==
  ASSUME NEW content \in Contents, NEW writes \in PartialContents
  PROVE  /\ Written(content, writes) \in Contents
         /\ \A a \in Aspects \ DOMAIN writes :
              Written(content, writes)[a] = content[a]
<1>1. PICK D \in SUBSET Aspects : writes \in [D -> Values]
  BY DEF PartialContents
<1> QED BY <1>1 DEF Written, Contents

(* What a changeset makes of a graph: a graph that is not behind, and that  *)
(* keeps the model when it keeps the revision.                              *)
LEMMA AppliedGraph ==
  ASSUME NEW graph \in Graphs, NEW cs \in ChangeSets
  PROVE  /\ Applied(graph, cs) \in Graphs
         /\ NotAhead(graph.rev, Applied(graph, cs).rev)
         /\ Applied(graph, cs).rev = graph.rev =>
              SameModel(graph, Applied(graph, cs))
<1> DEFINE writes == cs.change.writes
           rev    == Advance(graph.rev, writes)
           next   == Applied(graph, cs)
<1>1. /\ graph.rev \in Revisions /\ graph.refs \in Revisions
      /\ graph.content \in Contents
  BY DEF Graphs
<1>2. writes \in PartialContents
  BY DEF ChangeSets, ChangeKinds
<1>3. /\ rev \in Revisions /\ NotAhead(graph.rev, rev)
      /\ rev = graph.rev =>
           DOMAIN writes \cap {"shape", "label", "selection", "view"} = {}
  BY <1>1, AdvanceCounts
<1>4. /\ Written(graph.content, writes) \in Contents
      /\ \A a \in Aspects \ DOMAIN writes :
           Written(graph.content, writes)[a] = graph.content[a]
  BY <1>1, <1>2, WrittenType
<1>5. Rekey(graph.refs, graph.rev, rev) \in Revisions
  BY <1>1, <1>3, RekeyType
<1>6. next = [rev |-> rev, refs |-> Rekey(graph.refs, graph.rev, rev),
              content |-> Written(graph.content, writes)]
  BY DEF Applied
<1> HIDE DEF rev, next, writes
<1>7. next \in Graphs
  BY <1>3, <1>4, <1>5, <1>6 DEF Graphs
<1>8. ASSUME rev = graph.rev PROVE SameModel(graph, next)
  BY <1>3, <1>4, <1>6, <1>8 DEF SameModel, Aspects
<1> QED BY <1>3, <1>6, <1>7, <1>8 DEF next

LEMMA RenamedGraph ==
  ASSUME current \in Graphs, NEW graph \in Graphs
  PROVE  /\ Renamed(graph) \in Graphs
         /\ NotAhead(current.rev, Renamed(graph).rev)
         /\ Renamed(graph).rev # current.rev
<1>1. /\ current.rev \in Revisions /\ graph.refs \in Revisions
      /\ graph.content \in Contents
  BY DEF Graphs
<1>2. /\ BumpGeometry(current.rev) \in Revisions
      /\ NotAhead(current.rev, BumpGeometry(current.rev))
      /\ BumpGeometry(current.rev) # current.rev
  BY <1>1 DEF BumpGeometry, Revisions, NotAhead
<1>3. Rekey(graph.refs, graph.rev, BumpGeometry(current.rev)) \in Revisions
  BY <1>1, <1>2, RekeyType
<1> QED BY <1>1, <1>2, <1>3 DEF Renamed, Graphs

LEMMA NotAheadTransitive ==
  ASSUME NEW a \in Revisions, NEW b \in Revisions, NEW c \in Revisions,
         NotAhead(a, b), NotAhead(b, c)
  PROVE  /\ NotAhead(a, c)
         /\ a = c => b = c
<1>1. NotAhead(a, c)
  BY DEF NotAhead, Revisions
<1>2. ASSUME a = c PROVE b = c
  BY <1>2 DEF NotAhead, Revisions
<1> QED BY <1>1, <1>2

(* Stacks: what Append and Pop leave is a stack, and so is the top.         *)
LEMMA StackTypes ==
  ASSUME NEW stack \in Seq(Graphs), stack # << >>
  PROVE  Pop(stack) \in Seq(Graphs) /\ Top(stack) \in Graphs
BY DEF Pop, Top

(* A published graph that is not behind the current one, and that keeps the *)
(* model if it keeps the revision, keeps the whole invariant on issued.     *)
LEMMA PublishKeepsNames ==
  ASSUME IInv, NEW graph \in Graphs, Publish(graph),
         NotAhead(current.rev, graph.rev),
         graph.rev = current.rev => SameModel(current, graph)
  PROVE  /\ current' = graph
         /\ issued' \subseteq Graphs
         /\ RevisionNamesOneModel'
         /\ current' \in issued'
         /\ \A g \in issued' : NotAhead(g.rev, current'.rev)
<1>1. /\ current' = graph /\ issued' = issued \cup {graph}
      /\ issued \subseteq Graphs /\ current \in issued
      /\ \A g \in issued : NotAhead(g.rev, current.rev)
      /\ \A g, h \in issued : g.rev = h.rev => SameModel(g, h)
  BY DEF Publish, IInv, TypeOK, StoreTypeOK, RevisionNamesOneModel
<1>2. /\ \A g \in issued \cup {graph} : g.rev \in Revisions
      /\ NotAhead(graph.rev, graph.rev)
  <2>1. \A g \in Graphs : g.rev \in Revisions
    BY DEF Graphs
  <2>2. NotAhead(graph.rev, graph.rev)
    BY <2>1 DEF NotAhead, Revisions
  <2> QED BY <1>1, <2>1, <2>2
<1>3. \A g \in issued : NotAhead(g.rev, graph.rev)
                       /\ (g.rev = graph.rev => current.rev = graph.rev)
  BY <1>1, <1>2, NotAheadTransitive
<1>4. \A g \in issued : g.rev = graph.rev =>
                         SameModel(g, graph) /\ SameModel(graph, g)
  <2> SUFFICES ASSUME NEW g \in issued, g.rev = graph.rev
               PROVE  SameModel(g, graph) /\ SameModel(graph, g)
    OBVIOUS
  <2>1. SameModel(current, graph) /\ SameModel(g, current)
    BY <1>1, <1>3
  <2> QED BY <2>1 DEF SameModel
<1>5. SameModel(graph, graph)
  BY DEF SameModel
<1>6. \A g, h \in issued' : g.rev = h.rev => SameModel(g, h)
  BY <1>1, <1>4, <1>5
<1>7. RevisionNamesOneModel'
  BY <1>6 DEF RevisionNamesOneModel, SameModel
<1> QED BY <1>1, <1>2, <1>3, <1>7

LEMMA PublishTypes ==
  ASSUME StoreTypeOK, NEW graph \in Graphs, Publish(graph)
  PROVE  /\ current' \in Graphs
         /\ DOMAIN history' \subseteq Revisions
         /\ \A k \in DOMAIN history' : history'[k] \in Graphs
         /\ issued' \subseteq Graphs
<1> DEFINE inserted == Insert(history, graph)
<1>1. /\ DOMAIN inserted \subseteq Revisions
      /\ \A k \in DOMAIN inserted : inserted[k] \in Graphs
  BY DEF StoreTypeOK, Insert, Graphs
<1>2. /\ DOMAIN Trim(inserted) \subseteq DOMAIN inserted
      /\ \A k \in DOMAIN Trim(inserted) : Trim(inserted)[k] = inserted[k]
  BY DEF Trim
<1> HIDE DEF inserted
<1> QED BY <1>1, <1>2 DEF Publish, StoreTypeOK, inserted

-----------------------------------------------------------------------------
(* The invariant.                                                          *)

LEMMA InitIInv == Init => IInv
<1> SUFFICES ASSUME Init PROVE IInv
  OBVIOUS
<1>1. InitialGraph \in Graphs
  BY StoreAssumption DEF InitialGraph, Graphs, Contents
<1>2. NotAhead(InitialGraph.rev, InitialGraph.rev)
  BY <1>1 DEF NotAhead, Graphs, Revisions
<1>3. TypeOK
  BY <1>1 DEF Init, StoreInit, TypeOK, StoreTypeOK, Graphs
<1>4. RevisionNamesOneModel
  BY DEF Init, StoreInit, RevisionNamesOneModel, SameModel
<1> QED BY <1>2, <1>3, <1>4 DEF Init, StoreInit, IInv

LEMMA OfferedTypes ==
  ASSUME StoreTypeOK PROVE Offered \subseteq ChangeSets
<1> SUFFICES ASSUME NEW c \in Changes, NEW g \in issued
             PROVE  [change |-> c, base |-> Id(c.form, g.rev),
                     at |-> g.refs] \in ChangeSets
  BY DEF Offered
<1>1. c \in ChangeKinds /\ c.form \in IdForms
  BY FixtureAssumption DEF ChangeKinds
<1>2. g.rev \in Revisions /\ g.refs \in Revisions
  BY DEF StoreTypeOK, Graphs
<1>3. Id(c.form, g.rev) \in Bases
  BY <1>1, <1>2 DEF Id, Bases, Revisions
<1> QED BY <1>1, <1>2, <1>3 DEF ChangeSets

LEMMA PreviewStep ==
  ASSUME IInv, NEW cs \in Offered, PreviewChange(cs)
  PROVE  IInv'
<1>1. cs \in ChangeSets
  BY OfferedTypes DEF IInv, TypeOK
<1>2. PreviewOf(cs).graph \in Graphs /\ PreviewOf(cs).cs = cs
  BY <1>1, AppliedGraph DEF PreviewOf, IInv, TypeOK, StoreTypeOK
<1>3. TypeOK'
  BY <1>1, <1>2 DEF PreviewChange, storeVars, IInv, TypeOK, StoreTypeOK
<1> QED
  BY <1>3 DEF PreviewChange, storeVars, IInv, RevisionNamesOneModel, SameModel

LEMMA CommitStep ==
  ASSUME IInv, NEW review \in reviewed, CommitChange(review)
  PROVE  IInv'
<1> DEFINE next == PreviewOf(review.cs).graph
<1>1. review.cs \in ChangeSets /\ current \in Graphs
  BY DEF IInv, TypeOK, StoreTypeOK
<1>2. /\ next \in Graphs /\ NotAhead(current.rev, next.rev)
      /\ next.rev = current.rev => SameModel(current, next)
  BY <1>1, AppliedGraph DEF PreviewOf
<1>3. Publish(next)
  BY DEF CommitChange, Commit
<1> HIDE DEF next
<1>4. /\ RevisionNamesOneModel' /\ current' \in issued'
      /\ \A g \in issued' : NotAhead(g.rev, current'.rev)
  BY <1>2, <1>3, PublishKeepsNames
<1>5. StoreTypeOK'
  <2>1. undo_stack' \in Seq(Graphs) /\ redo_stack' \in Seq(Graphs)
    BY <1>1 DEF CommitChange, Commit, IInv, TypeOK, StoreTypeOK
  <2> QED
    BY <1>2, <1>3, <2>1, PublishTypes DEF IInv, TypeOK, StoreTypeOK
<1>6. TypeOK'
  BY <1>5 DEF CommitChange, IInv, TypeOK
<1> QED BY <1>4, <1>6 DEF IInv

(* Undo and redo publish an old graph under the next geometry revision.     *)
LEMMA NavigationStep ==
  ASSUME IInv, NEW graph \in Graphs, Publish(Renamed(graph)),
         undo_stack' \in Seq(Graphs), redo_stack' \in Seq(Graphs),
         UNCHANGED reviewed
  PROVE  IInv'
<1> DEFINE next == Renamed(graph)
<1>1. /\ next \in Graphs /\ NotAhead(current.rev, next.rev)
      /\ next.rev # current.rev
  BY RenamedGraph DEF IInv, TypeOK, StoreTypeOK
<1> HIDE DEF next
<1>2. Publish(next)
  BY DEF next
<1>3. /\ RevisionNamesOneModel' /\ current' \in issued'
      /\ \A g \in issued' : NotAhead(g.rev, current'.rev)
  BY <1>1, <1>2, PublishKeepsNames
<1>4. StoreTypeOK'
  BY <1>1, <1>2, PublishTypes DEF IInv, TypeOK, StoreTypeOK
<1>5. TypeOK'
  BY <1>4 DEF IInv, TypeOK
<1> QED BY <1>3, <1>5 DEF IInv

LEMMA UndoStep == ASSUME IInv, UndoChange PROVE IInv'
<1>1. /\ undo_stack \in Seq(Graphs) /\ undo_stack # << >>
      /\ redo_stack \in Seq(Graphs) /\ current \in Graphs
  BY DEF UndoChange, Undo, IInv, TypeOK, StoreTypeOK
<1>2. Top(undo_stack) \in Graphs /\ Pop(undo_stack) \in Seq(Graphs)
  BY <1>1, StackTypes
<1> QED BY <1>1, <1>2, NavigationStep DEF UndoChange, Undo

LEMMA RedoStep == ASSUME IInv, RedoChange PROVE IInv'
<1>1. /\ redo_stack \in Seq(Graphs) /\ redo_stack # << >>
      /\ undo_stack \in Seq(Graphs) /\ current \in Graphs
  BY DEF RedoChange, Redo, IInv, TypeOK, StoreTypeOK
<1>2. Top(redo_stack) \in Graphs /\ Pop(redo_stack) \in Seq(Graphs)
  BY <1>1, StackTypes
<1> QED BY <1>1, <1>2, NavigationStep DEF RedoChange, Redo

LEMMA StutterStep == ASSUME IInv, UNCHANGED vars PROVE IInv'
BY DEF vars, IInv, TypeOK, StoreTypeOK, RevisionNamesOneModel, SameModel

THEOREM Inductive == Spec => []IInv
<1>1. IInv /\ [Next]_vars => IInv'
  <2> SUFFICES ASSUME IInv, [Next]_vars PROVE IInv'
    OBVIOUS
  <2>1. CASE \E cs \in Offered : PreviewChange(cs)
    BY <2>1, PreviewStep
  <2>2. CASE \E review \in reviewed : CommitChange(review)
    BY <2>2, CommitStep
  <2>3. CASE UndoChange
    BY <2>3, UndoStep
  <2>4. CASE RedoChange
    BY <2>4, RedoStep
  <2>5. CASE UNCHANGED vars
    BY <2>5, StutterStep
  <2> QED BY <2>1, <2>2, <2>3, <2>4, <2>5 DEF Next
<1> QED BY InitIInv, <1>1, PTL DEF Spec

(* Type correctness of a fixture session: store, stacks and held previews.  *)
THEOREM TypeCorrect == Spec => []TypeOK
BY Inductive, PTL DEF IInv

(* However previews, commits, undos and redos interleave, a revision id     *)
(* never names two different models (apply_changeset, publish_navigation).  *)
THEOREM RevisionIdentity == Spec => []RevisionNamesOneModel
BY Inductive, PTL DEF IInv

-----------------------------------------------------------------------------
(* Refinement: the store implements the timeline of edits.                 *)

LEMMA StackShape ==
  ASSUME NEW stack \in Seq(Graphs), stack # << >>
  PROVE  /\ Len(stack) \in Nat \ {0}
         /\ Len(Pop(stack)) = Len(stack) - 1
         /\ \A i \in 1 .. Len(stack) - 1 : Pop(stack)[i] = stack[i]
         /\ Top(stack) = stack[Len(stack)]
<1> DEFINE n == Len(stack) - 1
<1>1. /\ n \in Nat /\ Len(stack) = n + 1
      /\ \A i \in 1 .. n : stack[i] \in Graphs
  BY EmptySeq, ElementOfSeq
<1>2. Pop(stack) = SubSeq(stack, 1, n)
  BY DEF Pop
<1> HIDE DEF n
<1>3. /\ Len(SubSeq(stack, 1, n)) = IF 1 <= n THEN n - 1 + 1 ELSE 0
      /\ \A i \in 1 .. n - 1 + 1 :
           SubSeq(stack, 1, n)[i] = stack[1 + i - 1]
  BY <1>1, SubSeqProperties
<1>4. /\ Len(Pop(stack)) = n
      /\ \A i \in 1 .. n : Pop(stack)[i] = stack[i]
  BY <1>1, <1>2, <1>3
<1> QED BY <1>1, <1>4 DEF Top, n

LEMMA AppendShape ==
  ASSUME NEW stack \in Seq(Graphs), NEW g \in Graphs
  PROVE  /\ Len(stack) \in Nat
         /\ Len(Append(stack, g)) = Len(stack) + 1
         /\ \A i \in 1 .. Len(stack) : Append(stack, g)[i] = stack[i]
         /\ Append(stack, g)[Len(stack) + 1] = g
<1>1. Len(stack) \in Nat
  OBVIOUS
<1> QED BY <1>1, AppendProperties

LEMMA TimelineIsSequence ==
  ASSUME NEW past \in Seq(Graphs), NEW present \in Graphs,
         NEW future \in Seq(Graphs)
  PROVE  /\ TimelineOf(past, present, future) \in Seq(Contents)
         /\ Len(TimelineOf(past, present, future)) =
              Len(past) + 1 + Len(future)
<1> DEFINE n == Len(past) + 1 + Len(future)
<1>1. /\ Len(past) \in Nat /\ Len(future) \in Nat
      /\ \A i \in 1 .. Len(past) : past[i] \in Graphs
      /\ \A i \in 1 .. Len(future) : future[i] \in Graphs
      /\ \A g \in Graphs : g.content \in Contents
  <2>1. \A g \in Graphs : g.content \in Contents
    BY DEF Graphs
  <2> QED BY <2>1, LenProperties, ElementOfSeq
<1>2. ASSUME NEW i \in 1 .. n
      PROVE  ContentAt(past, present, future, i) \in Contents
  BY <1>1 DEF ContentAt
<1>3. n \in Nat
  BY <1>1
<1> HIDE DEF n
<1> DEFINE t == [i \in 1 .. n |-> ContentAt(past, present, future, i)]
<1>4. t \in Seq(Contents) /\ Len(t) = n
  BY <1>2, <1>3
<1>5. TimelineOf(past, present, future) = t
  BY DEF TimelineOf, n
<1> QED BY <1>4, <1>5 DEF n

(* A commit forgets the future and appends.                                 *)
LEMMA TimelineAfterEdit ==
  ASSUME NEW past \in Seq(Graphs), NEW present \in Graphs,
         NEW future \in Seq(Graphs), NEW next \in Graphs
  PROVE  TimelineOf(Append(past, present), next, << >>) =
           Append(SubSeq(TimelineOf(past, present, future), 1, Len(past) + 1),
                  next.content)
<1> DEFINE u == Len(past)
           t == TimelineOf(past, present, future)
           cut == SubSeq(t, 1, u + 1)
           new == TimelineOf(Append(past, present), next, << >>)
<1>1. /\ u \in Nat /\ Len(future) \in Nat
      /\ next.content \in Contents
      /\ << >> \in Seq(Graphs) /\ Len(<< >>) = 0
      /\ Append(past, present) \in Seq(Graphs)
      /\ Len(Append(past, present)) = u + 1
      /\ \A i \in 1 .. u : Append(past, present)[i] = past[i]
      /\ Append(past, present)[u + 1] = present
  BY AppendShape, EmptySeq DEF Graphs
<1>2. /\ t \in Seq(Contents) /\ Len(t) = u + 1 + Len(future)
      /\ \A i \in 1 .. u + 1 : t[i] = ContentAt(past, present, future, i)
  <2>1. \A i \in 1 .. u + 1 + Len(future) :
           t[i] = ContentAt(past, present, future, i)
    BY DEF TimelineOf
  <2> QED BY <1>1, <2>1, TimelineIsSequence
<1>3. /\ new \in Seq(Contents) /\ Len(new) = u + 2
      /\ \A i \in 1 .. u + 2 :
           new[i] = ContentAt(Append(past, present), next, << >>, i)
  <2>1. /\ new \in Seq(Contents)
        /\ Len(new) = Len(Append(past, present)) + 1 + Len(<< >>)
    BY <1>1, TimelineIsSequence
  <2>2. \A i \in 1 .. Len(Append(past, present)) + 1 + Len(<< >>) :
           new[i] = ContentAt(Append(past, present), next, << >>, i)
    BY DEF TimelineOf
  <2> QED BY <1>1, <2>1, <2>2
<1>4. ASSUME NEW i \in 1 .. u + 1 PROVE new[i] = t[i]
  <2>1. ContentAt(Append(past, present), next, << >>, i) =
          ContentAt(past, present, future, i)
    BY <1>1 DEF ContentAt
  <2> QED BY <1>1, <1>2, <1>3, <2>1
<1>5. new[u + 2] = next.content
  <2>1. ContentAt(Append(past, present), next, << >>, u + 2) = next.content
    BY <1>1 DEF ContentAt
  <2> QED BY <1>1, <1>3, <2>1
<1> HIDE DEF u, t, new
<1>6. /\ cut \in Seq(Contents) /\ Len(cut) = u + 1
      /\ \A i \in 1 .. u + 1 : cut[i] = t[i]
  BY <1>1, <1>2
<1> HIDE DEF cut
<1>7. /\ Append(cut, next.content) \in Seq(Contents)
      /\ Len(Append(cut, next.content)) = u + 2
      /\ \A i \in 1 .. u + 1 : Append(cut, next.content)[i] = cut[i]
      /\ Append(cut, next.content)[u + 2] = next.content
  BY <1>1, <1>6
<1>8. \A i \in 1 .. u + 2 : new[i] = Append(cut, next.content)[i]
  BY <1>1, <1>4, <1>5, <1>6, <1>7
<1>9. new = Append(cut, next.content)
  BY <1>3, <1>7, <1>8, SeqEqual
<1> QED BY <1>9 DEF new, cut, t, u

(* Two stacks and a present that read the same at every position are the    *)
(* same timeline.                                                           *)
LEMMA SameTimeline ==
  ASSUME NEW past, NEW present, NEW future,
         NEW past2, NEW present2, NEW future2,
         Len(past) + 1 + Len(future) = Len(past2) + 1 + Len(future2),
         \A i \in 1 .. Len(past) + 1 + Len(future) :
           ContentAt(past, present, future, i) =
             ContentAt(past2, present2, future2, i)
  PROVE  TimelineOf(past, present, future) =
           TimelineOf(past2, present2, future2)
BY DEF TimelineOf

(* Moving the top of the past to the present, and the present to the        *)
(* future, leaves the timeline as it is; so does the opposite move.         *)
LEMMA TimelineAfterUndo ==
  ASSUME NEW past \in Seq(Graphs), NEW present \in Graphs,
         NEW future \in Seq(Graphs), NEW next \in Graphs,
         past # << >>, next.content = Top(past).content
  PROVE  TimelineOf(Pop(past), next, Append(future, present)) =
           TimelineOf(past, present, future)
<1>1. /\ Len(past) \in Nat \ {0}
      /\ Len(Pop(past)) = Len(past) - 1
      /\ \A i \in 1 .. Len(past) - 1 : Pop(past)[i] = past[i]
      /\ next.content = past[Len(past)].content
  BY StackShape
<1>2. /\ Len(future) \in Nat
      /\ Len(Append(future, present)) = Len(future) + 1
      /\ \A i \in 1 .. Len(future) : Append(future, present)[i] = future[i]
      /\ Append(future, present)[Len(future) + 1] = present
  BY AppendShape
<1> DEFINE popped == Pop(past)
           pushed == Append(future, present)
<1> HIDE DEF popped, pushed
<1>3. ASSUME NEW i \in 1 .. Len(past) + 1 + Len(future)
      PROVE  ContentAt(popped, next, pushed, i) =
               ContentAt(past, present, future, i)
  <2>1. /\ Len(popped) = Len(past) - 1
        /\ \A j \in 1 .. Len(past) - 1 : popped[j] = past[j]
        /\ Len(pushed) = Len(future) + 1
        /\ \A j \in 1 .. Len(future) : pushed[j] = future[j]
        /\ pushed[Len(future) + 1] = present
    BY <1>1, <1>2 DEF popped, pushed
  <2>2. Len(popped) + Len(pushed) + 2 - i = Len(past) + Len(future) + 2 - i
    BY <1>1, <1>2, <2>1
  <2> DEFINE k == Len(past) + Len(future) + 2 - i
  <2>3. ContentAt(popped, next, pushed, i) =
          IF i <= Len(past) - 1 THEN past[i].content
          ELSE IF i = Len(past) THEN next.content
          ELSE pushed[k].content
    BY <1>1, <2>1, <2>2 DEF ContentAt
  <2>4. CASE i <= Len(past)
    BY <1>1, <2>3, <2>4 DEF ContentAt
  <2>5. CASE i = Len(past) + 1
    <3>1. k = Len(future) + 1
      BY <1>1, <1>2, <2>5
    <3> HIDE DEF k
    <3> QED BY <1>1, <2>1, <2>3, <2>5, <3>1 DEF ContentAt
  <2>6. CASE i > Len(past) + 1
    <3>1. k \in 1 .. Len(future)
      BY <1>1, <1>2, <2>6
    <3>2. ContentAt(past, present, future, i) = future[k].content
      BY <1>1, <2>6 DEF ContentAt
    <3> HIDE DEF k
    <3> QED BY <1>1, <2>1, <2>3, <2>6, <3>1, <3>2
  <2> QED BY <1>1, <2>4, <2>5, <2>6
<1>4. Len(popped) + 1 + Len(pushed) = Len(past) + 1 + Len(future)
  BY <1>1, <1>2 DEF popped, pushed
<1>5. TimelineOf(popped, next, pushed) = TimelineOf(past, present, future)
  BY <1>3, <1>4, SameTimeline
<1> QED BY <1>5 DEF popped, pushed

LEMMA TimelineAfterRedo ==
  ASSUME NEW past \in Seq(Graphs), NEW present \in Graphs,
         NEW future \in Seq(Graphs), NEW next \in Graphs,
         future # << >>, next.content = Top(future).content
  PROVE  TimelineOf(Append(past, present), next, Pop(future)) =
           TimelineOf(past, present, future)
<1>1. /\ Len(future) \in Nat \ {0}
      /\ Len(Pop(future)) = Len(future) - 1
      /\ \A i \in 1 .. Len(future) - 1 : Pop(future)[i] = future[i]
      /\ next.content = future[Len(future)].content
  BY StackShape
<1>2. /\ Len(past) \in Nat
      /\ Len(Append(past, present)) = Len(past) + 1
      /\ \A i \in 1 .. Len(past) : Append(past, present)[i] = past[i]
      /\ Append(past, present)[Len(past) + 1] = present
  BY AppendShape
<1> DEFINE popped == Pop(future)
           pushed == Append(past, present)
<1> HIDE DEF popped, pushed
<1>3. ASSUME NEW i \in 1 .. Len(past) + 1 + Len(future)
      PROVE  ContentAt(pushed, next, popped, i) =
               ContentAt(past, present, future, i)
  <2>1. /\ Len(popped) = Len(future) - 1
        /\ \A j \in 1 .. Len(future) - 1 : popped[j] = future[j]
        /\ Len(pushed) = Len(past) + 1
        /\ \A j \in 1 .. Len(past) : pushed[j] = past[j]
        /\ pushed[Len(past) + 1] = present
    BY <1>1, <1>2 DEF popped, pushed
  <2>2. Len(pushed) + Len(popped) + 2 - i = Len(past) + Len(future) + 2 - i
    BY <1>1, <1>2, <2>1
  <2> DEFINE k == Len(past) + Len(future) + 2 - i
  <2>3. ContentAt(pushed, next, popped, i) =
          IF i <= Len(past) + 1 THEN pushed[i].content
          ELSE IF i = Len(past) + 2 THEN next.content
          ELSE popped[k].content
    BY <1>2, <2>1, <2>2 DEF ContentAt
  <2>4. CASE i <= Len(past) + 1
    BY <1>2, <2>1, <2>3, <2>4 DEF ContentAt
  <2>5. CASE i = Len(past) + 2
    <3>1. k = Len(future)
      BY <1>1, <1>2, <2>5
    <3>2. ContentAt(past, present, future, i) = future[k].content
      BY <1>2, <2>5 DEF ContentAt
    <3> HIDE DEF k
    <3> QED BY <1>1, <1>2, <2>3, <2>5, <3>1, <3>2
  <2>6. CASE i > Len(past) + 2
    <3>1. k \in 1 .. Len(future) - 1
      BY <1>1, <1>2, <2>6
    <3>2. ContentAt(past, present, future, i) = future[k].content
      BY <1>2, <2>6 DEF ContentAt
    <3> HIDE DEF k
    <3> QED BY <1>2, <2>1, <2>3, <2>6, <3>1, <3>2
  <2> QED BY <1>2, <2>4, <2>5, <2>6
<1>4. Len(pushed) + 1 + Len(popped) = Len(past) + 1 + Len(future)
  BY <1>1, <1>2 DEF popped, pushed
<1>5. TimelineOf(pushed, next, popped) = TimelineOf(past, present, future)
  BY <1>3, <1>4, SameTimeline
<1> QED BY <1>5 DEF popped, pushed

-----------------------------------------------------------------------------

LEMMA InitTimeline == Init => Abstract!Init
<1> SUFFICES ASSUME Init PROVE Abstract!Init
  OBVIOUS
<1>1. /\ undo_stack = << >> /\ redo_stack = << >>
      /\ Len(undo_stack) = 0 /\ Len(redo_stack) = 0
  BY DEF Init, StoreInit
<1>2. current.content \in Contents
  BY StoreAssumption DEF Init, StoreInit, InitialGraph, Contents
<1>3. TimelineOf(undo_stack, current, redo_stack) = <<current.content>>
  <2>1. \A i \in 1 .. 1 : ContentAt(undo_stack, current, redo_stack, i) =
                            current.content
    BY <1>1 DEF ContentAt
  <2>2. TimelineOf(undo_stack, current, redo_stack) =
          [i \in 1 .. 1 |-> ContentAt(undo_stack, current, redo_stack, i)]
    BY <1>1 DEF TimelineOf
  <2> QED BY <2>1, <2>2
<1> QED BY <1>1, <1>2, <1>3 DEF Abstract!Init

LEMMA CommitIsEdit ==
  ASSUME IInv, NEW review \in reviewed, CommitChange(review)
  PROVE  Abstract!Edit
<1> DEFINE next == PreviewOf(review.cs).graph
<1>1. /\ undo_stack \in Seq(Graphs) /\ redo_stack \in Seq(Graphs)
      /\ current \in Graphs /\ review.cs \in ChangeSets
  BY DEF IInv, TypeOK, StoreTypeOK
<1>2. next \in Graphs
  BY <1>1, AppliedGraph DEF PreviewOf
<1>3. /\ undo_stack' = Append(undo_stack, current)
      /\ redo_stack' = << >>
      /\ current' = next
  BY DEF CommitChange, Commit, Publish
<1> HIDE DEF next
<1>4. next.content \in Contents
  BY <1>2 DEF Graphs
<1>5. TimelineOf(undo_stack', current', redo_stack') =
        Append(SubSeq(TimelineOf(undo_stack, current, redo_stack),
                      1, Len(undo_stack) + 1), next.content)
  BY <1>1, <1>2, <1>3, TimelineAfterEdit
<1>6. Len(undo_stack') = Len(undo_stack) + 1
  BY <1>1, <1>3, AppendShape
<1> QED BY <1>4, <1>5, <1>6 DEF Abstract!Edit

LEMMA UndoIsStepBack == ASSUME IInv, UndoChange PROVE Abstract!StepBack
<1>1. /\ undo_stack \in Seq(Graphs) /\ redo_stack \in Seq(Graphs)
      /\ current \in Graphs /\ undo_stack # << >>
      /\ undo_stack' = Pop(undo_stack)
      /\ redo_stack' = Append(redo_stack, current)
      /\ current' = Renamed(Top(undo_stack))
  BY DEF IInv, TypeOK, StoreTypeOK, UndoChange, Undo, Publish
<1>2. /\ Top(undo_stack) \in Graphs
      /\ Renamed(Top(undo_stack)) \in Graphs
      /\ Renamed(Top(undo_stack)).content = Top(undo_stack).content
  <2>1. Top(undo_stack) \in Graphs
    BY <1>1, StackTypes
  <2> QED BY <1>1, <2>1, RenamedGraph DEF Renamed
<1>3. TimelineOf(undo_stack', current', redo_stack') =
        TimelineOf(undo_stack, current, redo_stack)
  BY <1>1, <1>2, TimelineAfterUndo
<1>4. Len(undo_stack) \in Nat \ {0} /\ Len(undo_stack') = Len(undo_stack) - 1
  BY <1>1, StackShape
<1> QED BY <1>3, <1>4 DEF Abstract!StepBack

LEMMA RedoIsStepForward == ASSUME IInv, RedoChange PROVE Abstract!StepForward
<1>1. /\ undo_stack \in Seq(Graphs) /\ redo_stack \in Seq(Graphs)
      /\ current \in Graphs /\ redo_stack # << >>
      /\ redo_stack' = Pop(redo_stack)
      /\ undo_stack' = Append(undo_stack, current)
      /\ current' = Renamed(Top(redo_stack))
  BY DEF IInv, TypeOK, StoreTypeOK, RedoChange, Redo, Publish
<1>2. /\ Top(redo_stack) \in Graphs
      /\ Renamed(Top(redo_stack)) \in Graphs
      /\ Renamed(Top(redo_stack)).content = Top(redo_stack).content
  <2>1. Top(redo_stack) \in Graphs
    BY <1>1, StackTypes
  <2> QED BY <1>1, <2>1, RenamedGraph DEF Renamed
<1>3. TimelineOf(undo_stack', current', redo_stack') =
        TimelineOf(undo_stack, current, redo_stack)
  BY <1>1, <1>2, TimelineAfterRedo
<1>4. /\ Len(undo_stack) \in Nat /\ Len(redo_stack) \in Nat \ {0}
      /\ Len(undo_stack') = Len(undo_stack) + 1
  BY <1>1, StackShape, AppendShape
<1>5. Len(undo_stack) + 1 < Len(TimelineOf(undo_stack, current, redo_stack))
  BY <1>1, <1>4, TimelineIsSequence
<1> QED BY <1>3, <1>4, <1>5 DEF Abstract!StepForward

(* Every fixture session is a timeline of edits: a commit is an edit, undo  *)
(* and redo move the cursor, and a preview is invisible (RevisionStore's    *)
(* commit, undo and redo, for any changes and any number of previews).      *)
THEOREM Refinement == Spec => ImplementsTimeline
<1>1. IInv /\ [Next]_vars =>
        [Abstract!Next]_<<TimelineOf(undo_stack, current, redo_stack),
                          Len(undo_stack) + 1>>
  <2> SUFFICES ASSUME IInv, [Next]_vars
               PROVE  [Abstract!Next]_<<
                         TimelineOf(undo_stack, current, redo_stack),
                         Len(undo_stack) + 1>>
    OBVIOUS
  <2>1. CASE \E cs \in Offered : PreviewChange(cs)
    BY <2>1 DEF PreviewChange, storeVars
  <2>2. CASE \E review \in reviewed : CommitChange(review)
    BY <2>2, CommitIsEdit DEF Abstract!Next
  <2>3. CASE UndoChange
    BY <2>3, UndoIsStepBack DEF Abstract!Next
  <2>4. CASE RedoChange
    BY <2>4, RedoIsStepForward DEF Abstract!Next
  <2>5. CASE UNCHANGED vars
    BY <2>5 DEF vars
  <2> QED BY <2>1, <2>2, <2>3, <2>4, <2>5 DEF Next
<1> QED
  BY InitTimeline, <1>1, Inductive, PTL
  DEF Spec, ImplementsTimeline, Abstract!Spec

-----------------------------------------------------------------------------
(* Commits publish what was reviewed.                                      *)

HashNamesGraph ==
  \A review \in reviewed : review.hash.preview_fingerprint = review.graph

LEMMA HashesNameGraphs == Spec => []HashNamesGraph
<1>1. Init => HashNamesGraph
  BY DEF Init, HashNamesGraph
<1>2. HashNamesGraph /\ [Next]_vars => HashNamesGraph'
  <2> SUFFICES ASSUME HashNamesGraph, [Next]_vars PROVE HashNamesGraph'
    OBVIOUS
  <2>1. ASSUME NEW cs \in Offered, PreviewChange(cs) PROVE HashNamesGraph'
    <3>1. PreviewOf(cs).hash.preview_fingerprint = PreviewOf(cs).graph
      BY DEF PreviewOf, PreviewHash
    <3> QED BY <2>1, <3>1 DEF PreviewChange, HashNamesGraph
  <2>2. ASSUME NEW review \in reviewed, CommitChange(review)
        PROVE  HashNamesGraph'
    BY <2>2 DEF CommitChange, HashNamesGraph
  <2>3. CASE UndoChange \/ RedoChange \/ UNCHANGED vars
    BY <2>3 DEF UndoChange, RedoChange, vars, HashNamesGraph
  <2> QED BY <2>1, <2>2, <2>3 DEF Next
<1> QED BY <1>1, <1>2, PTL DEF Spec

(* A preview that is used up by a commit has its graph become the current   *)
(* one, because the hash binds the graph (preview_hash, commit).            *)
THEOREM ReviewedIsPublished == Spec => CommitPublishesReviewed
<1>1. HashNamesGraph /\ [Next]_vars =>
        [\A review \in reviewed \ reviewed' : current' = review.graph]_vars
  <2> SUFFICES ASSUME HashNamesGraph, [Next]_vars,
                      NEW review \in reviewed \ reviewed', ~ UNCHANGED vars
               PROVE  current' = review.graph
    OBVIOUS
  <2>1. \A cs \in Offered : ~ PreviewChange(cs)
    BY DEF PreviewChange
  <2>2. ~ UndoChange /\ ~ RedoChange
    BY DEF UndoChange, RedoChange
  <2>3. PICK committed \in reviewed : CommitChange(committed)
    BY <2>1, <2>2 DEF Next
  <2>4. review = committed
    BY <2>3 DEF CommitChange
  <2>5. /\ PreviewOf(review.cs).hash = review.hash
        /\ current' = PreviewOf(review.cs).graph
    BY <2>3, <2>4 DEF CommitChange, Commit, Publish
  <2>6. PreviewOf(review.cs).hash.preview_fingerprint =
          PreviewOf(review.cs).graph
    BY DEF PreviewOf, PreviewHash
  <2> QED BY <2>5, <2>6 DEF HashNamesGraph
<1> QED BY <1>1, HashesNameGraphs, PTL DEF Spec, CommitPublishesReviewed

-----------------------------------------------------------------------------
(* Numbers and their digits.  Digits is recursive: that it satisfies its    *)
(* own equation, and what it yields, is shown with a least counterexample.  *)

LEMMA LeastExists ==
  ASSUME NEW S \in SUBSET Nat, S # {}
  PROVE  \E m \in S : \A y \in S : m <= y
<1>1. PICK n \in S : TRUE
  OBVIOUS
<1> DEFINE Below == {0 .. k : k \in S \cap 0 .. n}
           Inside == StrictSubsetOrdering(0 .. n)
<1>2. IsWellFoundedOn(Inside, SUBSET (0 .. n))
  <2>1. IsFiniteSet(0 .. n)
    BY <1>1, FS_Interval
  <2> QED BY <2>1, FS_StrictSubsetOrderingWellFounded, FS_FiniteSubsetsOfFinite
<1>3. Below \subseteq SUBSET (0 .. n) /\ Below # {}
  <2>1. \A k \in 0 .. n : 0 .. k \subseteq 0 .. n
    BY <1>1
  <2>2. 0 .. n \in Below
    BY <1>1
  <2> QED BY <2>1, <2>2
<1>4. PICK U \in Below : \A V \in Below : ~ (<<V, U>> \in Inside)
  <2> HIDE DEF Below, Inside
  <2> QED BY <1>2, <1>3, WFMin
<1>5. PICK m \in S \cap 0 .. n : U = 0 .. m
  BY <1>4
<1>6. ASSUME NEW y \in S, y < m PROVE FALSE
  <2>1. y \in 0 .. n /\ m \in 0 .. n /\ y \in Nat /\ m \in Nat
    BY <1>1, <1>5, <1>6
  <2>2. 0 .. y \in Below
    BY <2>1
  <2>3. 0 .. y \subseteq 0 .. m /\ m \in 0 .. m /\ m \notin 0 .. y
    BY <1>6, <2>1
  <2>4. 0 .. y \in SUBSET (0 .. n) /\ 0 .. m \in SUBSET (0 .. n)
    BY <2>1
  <2>5. <<0 .. y, 0 .. m>> \in Inside
    BY <2>3, <2>4 DEF StrictSubsetOrdering
  <2> QED BY <1>4, <1>5, <2>2, <2>5
<1> QED BY <1>5, <1>6

LEMMA TenthIsSmaller ==
  ASSUME NEW n \in Nat, n >= 10
  PROVE  /\ n \div 10 \in Nat /\ n \div 10 < n
         /\ n % 10 \in 0 .. 9
         /\ n = 10 * (n \div 10) + (n % 10)
OBVIOUS

DigitsStep(f, n) == IF n < 10 THEN <<n>> ELSE Append(f[n \div 10], n % 10)

(* The digits of the numbers up to m. *)
Part(f, m) == f = [n \in 0 .. m |-> DigitsStep(f, n)]

LEMMA PartsAgree ==
  ASSUME NEW m \in Nat, NEW k \in Nat, m <= k,
         NEW f, NEW g, Part(f, m), Part(g, k)
  PROVE  \A n \in 0 .. m : f[n] = g[n]
<1> DEFINE Bad == {n \in 0 .. m : f[n] # g[n]}
<1> SUFFICES ASSUME Bad # {} PROVE FALSE
  OBVIOUS
<1>1. PICK b \in Bad : \A y \in Bad : b <= y
  <2>1. Bad \in SUBSET Nat
    OBVIOUS
  <2> HIDE DEF Bad
  <2> QED BY <2>1, LeastExists
<1>2. b \in 0 .. m /\ b \in 0 .. k /\ b \in Nat
  OBVIOUS
<1>3. f[b] = DigitsStep(f, b) /\ g[b] = DigitsStep(g, b)
  BY <1>2 DEF Part
<1>4. CASE b < 10
  BY <1>3, <1>4 DEF DigitsStep
<1>5. CASE b >= 10
  <2>1. b \div 10 \in Nat /\ b \div 10 < b
    BY <1>2, <1>5, TenthIsSmaller
  <2>2. b \div 10 \in 0 .. m /\ b \div 10 \notin Bad
    BY <1>1, <1>2, <2>1
  <2>3. f[b \div 10] = g[b \div 10]
    BY <2>2
  <2>4. ~ (b < 10)
    BY <1>2, <1>5
  <2> QED BY <1>3, <2>3, <2>4 DEF DigitsStep
<1> QED BY <1>2, <1>4, <1>5

LEMMA PartsExist == \A m \in Nat : \E f : Part(f, m)
<1> DEFINE Bad == {m \in Nat : ~ \E f : Part(f, m)}
<1> SUFFICES ASSUME Bad # {} PROVE FALSE
  OBVIOUS
<1>1. PICK b \in Bad : \A y \in Bad : b <= y
  <2>1. Bad \in SUBSET Nat
    OBVIOUS
  <2> HIDE DEF Bad
  <2> QED BY <2>1, LeastExists
<1>2. b \in Nat /\ ~ \E f : Part(f, b)
  OBVIOUS
<1>3. \E f : \A n \in 0 .. b - 1 : f[n] = DigitsStep(f, n)
  <2>1. CASE b = 0
    BY <2>1
  <2>2. CASE b # 0
    <3>1. b - 1 \in Nat /\ b - 1 \notin Bad
      BY <1>1, <1>2, <2>2
    <3>2. PICK f : Part(f, b - 1)
      BY <3>1
    <3> QED BY <3>2 DEF Part
  <2> QED BY <2>1, <2>2
<1>4. PICK f : \A n \in 0 .. b - 1 : f[n] = DigitsStep(f, n)
  BY <1>3
<1> DEFINE g == [n \in 0 .. b |-> DigitsStep(f, n)]
<1>5. ASSUME NEW n \in 0 .. b PROVE DigitsStep(g, n) = DigitsStep(f, n)
  <2>1. n \in Nat
    OBVIOUS
  <2>2. CASE n < 10
    BY <2>2 DEF DigitsStep
  <2>3. CASE n >= 10
    <3>1. n \div 10 \in Nat /\ n \div 10 < n
      BY <2>1, <2>3, TenthIsSmaller
    <3>2. n \div 10 \in 0 .. b - 1 /\ n \div 10 \in 0 .. b
      BY <1>2, <2>1, <3>1
    <3>3. g[n \div 10] = f[n \div 10]
      BY <1>4, <3>2
    <3>4. ~ (n < 10)
      BY <2>1, <2>3
    <3> HIDE DEF g
    <3> QED BY <3>3, <3>4 DEF DigitsStep
  <2> QED BY <2>1, <2>2, <2>3
<1>6. Part(g, b)
  BY <1>5 DEF Part
<1> HIDE DEF g
<1> QED BY <1>2, <1>6

LEMMA DigitsUnfold == \A n \in Nat : Digits[n] = DigitsStep(Digits, n)
<1> DEFINE F == [n \in Nat |-> (CHOOSE f : Part(f, n))[n]]
<1>1. ASSUME NEW n \in Nat PROVE F[n] = DigitsStep(F, n)
  <2>1. PICK f : Part(f, n) /\ F[n] = f[n]
    BY PartsExist
  <2>2. n \in 0 .. n
    OBVIOUS
  <2>3. F[n] = DigitsStep(f, n)
    BY <2>1, <2>2 DEF Part
  <2>4. CASE n < 10
    BY <2>3, <2>4 DEF DigitsStep
  <2>5. CASE n >= 10
    <3>1. n \div 10 \in Nat /\ n \div 10 < n
      BY <2>5, TenthIsSmaller
    <3>2. PICK g : Part(g, n \div 10) /\ F[n \div 10] = g[n \div 10]
      BY <3>1, PartsExist
    <3>3. n \div 10 \in 0 .. n \div 10 /\ n \div 10 <= n
      BY <3>1
    <3>4. g[n \div 10] = f[n \div 10]
      BY <2>1, <3>1, <3>2, <3>3, PartsAgree
    <3>5. ~ (n < 10)
      BY <2>5
    <3> HIDE DEF F
    <3> QED BY <2>3, <3>2, <3>4, <3>5 DEF DigitsStep
  <2> QED BY <2>4, <2>5
<1>2. F = [n \in Nat |-> DigitsStep(F, n)]
  <2>1. F = [n \in Nat |-> F[n]]
    OBVIOUS
  <2> HIDE DEF F
  <2> QED BY <1>1, <2>1
<1>3. \E f : f = [n \in Nat |-> DigitsStep(f, n)]
  <2> HIDE DEF F
  <2> QED BY <1>2
<1>4. Digits = [n \in Nat |-> DigitsStep(Digits, n)]
  BY <1>3 DEF Digits, DigitsStep
<1> QED BY <1>4

LEMMA DigitsShort ==
  ASSUME NEW n \in Nat, n < 10
  PROVE  Digits[n] = <<n>> /\ Len(Digits[n]) = 1
<1>1. Digits[n] = <<n>>
  BY DigitsUnfold DEF DigitsStep
<1>2. Len(<<n>>) = 1
  OBVIOUS
<1> QED BY <1>1, <1>2

LEMMA DigitsLong ==
  ASSUME NEW n \in Nat, n >= 10
  PROVE  Digits[n] = Append(Digits[n \div 10], n % 10)
<1>1. ~ (n < 10)
  OBVIOUS
<1> QED BY <1>1, DigitsUnfold DEF DigitsStep

LEMMA DigitsType == \A n \in Nat : Digits[n] \in Seq(Int) /\ Len(Digits[n]) >= 1
<1> DEFINE Bad == {n \in Nat : ~ (Digits[n] \in Seq(Int) /\ Len(Digits[n]) >= 1)}
<1> SUFFICES ASSUME Bad # {} PROVE FALSE
  OBVIOUS
<1>1. PICK b \in Bad : \A y \in Bad : b <= y
  <2>1. Bad \in SUBSET Nat
    OBVIOUS
  <2> HIDE DEF Bad
  <2> QED BY <2>1, LeastExists
<1>2. b \in Nat /\ ~ (Digits[b] \in Seq(Int) /\ Len(Digits[b]) >= 1)
  OBVIOUS
<1>3. CASE b < 10
  <2>1. Digits[b] = <<b>>
    BY <1>2, <1>3, DigitsShort
  <2> QED BY <1>2, <2>1
<1>4. CASE b >= 10
  <2>1. /\ b \div 10 \in Nat /\ b \div 10 < b /\ b % 10 \in Int
        /\ Digits[b] = Append(Digits[b \div 10], b % 10)
    BY <1>2, <1>4, TenthIsSmaller, DigitsLong
  <2>2. b \div 10 \notin Bad
    BY <1>1, <1>2, <2>1
  <2>3. Digits[b \div 10] \in Seq(Int) /\ Len(Digits[b \div 10]) >= 1
    BY <2>1, <2>2
  <2> HIDE DEF Bad
  <2>4. PICK s \in Seq(Int), d \in Int : Digits[b] = Append(s, d)
    BY <2>1, <2>3
  <2>5. Append(s, d) \in Seq(Int) /\ Len(Append(s, d)) = Len(s) + 1
        /\ Len(s) \in Nat
    OBVIOUS
  <2> QED BY <1>2, <2>4, <2>5
<1> QED BY <1>2, <1>3, <1>4

(* What Append does to digits. *)
LEMMA DigitsAppend ==
  ASSUME NEW n \in Nat, n >= 10
  PROVE  /\ Len(Digits[n]) = Len(Digits[n \div 10]) + 1
         /\ Digits[n][Len(Digits[n])] = n % 10
         /\ \A i \in 1 .. Len(Digits[n \div 10]) :
              Digits[n][i] = Digits[n \div 10][i]
<1>1. n \div 10 \in Nat /\ n % 10 \in Int
  BY TenthIsSmaller
<1>2. Digits[n \div 10] \in Seq(Int)
  BY <1>1, DigitsType
<1>3. Digits[n] = Append(Digits[n \div 10], n % 10)
  BY DigitsLong
<1>4. \A s \in Seq(Int), d \in Int :
        /\ Len(Append(s, d)) = Len(s) + 1
        /\ Append(s, d)[Len(s) + 1] = d
        /\ \A i \in 1 .. Len(s) : Append(s, d)[i] = s[i]
  OBVIOUS
<1> QED BY <1>1, <1>2, <1>3, <1>4

(* A smaller number has no more digits. *)
LEMMA WidthsGrow ==
  \A n \in Nat : \A m \in 0 .. n : Len(Digits[m]) <= Len(Digits[n])
<1> DEFINE Good(n) == \A m \in 0 .. n : Len(Digits[m]) <= Len(Digits[n])
           Bad == {n \in Nat : ~ Good(n)}
<1> SUFFICES ASSUME Bad # {} PROVE FALSE
  OBVIOUS
<1>1. PICK b \in Bad : \A y \in Bad : b <= y
  <2>1. Bad \in SUBSET Nat
    OBVIOUS
  <2> HIDE DEF Bad
  <2> QED BY <2>1, LeastExists
<1>2. b \in Nat /\ ~ Good(b)
  OBVIOUS
<1>3. \A k \in Nat : k < b => Good(k)
  BY <1>1
<1> HIDE DEF Bad
<1>4. PICK m \in 0 .. b : ~ (Len(Digits[m]) <= Len(Digits[b]))
  BY <1>2
<1>5. /\ m \in Nat /\ Len(Digits[m]) \in Nat /\ Len(Digits[b]) \in Nat
      /\ Len(Digits[b]) >= 1 /\ m <= b
  BY <1>2, DigitsType
<1>6. CASE m < 10
  <2>1. Len(Digits[m]) = 1
    BY <1>5, <1>6, DigitsShort
  <2> QED BY <1>4, <1>5, <2>1
<1>7. CASE m >= 10
  <2>1. b >= 10
    BY <1>2, <1>5, <1>7
  <2>2. /\ m \div 10 \in Nat /\ b \div 10 \in Nat /\ b \div 10 < b
        /\ m \div 10 <= b \div 10
    BY <1>2, <1>5, <1>7, <2>1, TenthIsSmaller
  <2>3. Len(Digits[m \div 10]) <= Len(Digits[b \div 10])
    BY <1>3, <2>2
  <2>4. /\ Len(Digits[m]) = Len(Digits[m \div 10]) + 1
        /\ Len(Digits[b]) = Len(Digits[b \div 10]) + 1
    BY <1>2, <1>5, <1>7, <2>1, DigitsAppend
  <2>5. Len(Digits[m \div 10]) \in Nat /\ Len(Digits[b \div 10]) \in Nat
    BY <2>2, DigitsType
  <2> QED BY <1>4, <2>3, <2>4, <2>5
<1> QED BY <1>5, <1>6, <1>7

-----------------------------------------------------------------------------
(* The order of strings.                                                   *)

Before(s, t) ==
  \E i \in 1 .. Len(s) :
    /\ i <= Len(t)
    /\ s[i] < t[i]
    /\ \A j \in 1 .. i - 1 : s[j] = t[j]

LEMMA BeforeTransitive ==
  ASSUME NEW s \in Seq(Int), NEW t \in Seq(Int), NEW u \in Seq(Int),
         Before(s, t), Before(t, u)
  PROVE  Before(s, u)
<1>1. PICK i \in 1 .. Len(s) : /\ i <= Len(t) /\ s[i] < t[i]
                               /\ \A j \in 1 .. i - 1 : s[j] = t[j]
  BY DEF Before
<1>2. PICK k \in 1 .. Len(t) : /\ k <= Len(u) /\ t[k] < u[k]
                               /\ \A j \in 1 .. k - 1 : t[j] = u[j]
  BY DEF Before
<1>3. /\ Len(s) \in Nat /\ Len(t) \in Nat /\ Len(u) \in Nat
      /\ \A j \in 1 .. Len(s) : s[j] \in Int
      /\ \A j \in 1 .. Len(t) : t[j] \in Int
      /\ \A j \in 1 .. Len(u) : u[j] \in Int
  OBVIOUS
<1>4. CASE i < k
  <2>1. i \in 1 .. k - 1 /\ i <= Len(u)
    BY <1>1, <1>2, <1>3, <1>4
  <2>2. s[i] < u[i]
    BY <1>1, <1>2, <2>1
  <2>3. \A j \in 1 .. i - 1 : s[j] = u[j]
    BY <1>1, <1>2, <1>3, <1>4
  <2> QED BY <2>1, <2>2, <2>3 DEF Before
<1>5. CASE i = k
  <2>1. s[i] < u[i]
    BY <1>1, <1>2, <1>3, <1>5
  <2>2. \A j \in 1 .. i - 1 : s[j] = u[j]
    BY <1>1, <1>2, <1>5
  <2> QED BY <1>2, <1>5, <2>1, <2>2 DEF Before
<1>6. CASE k < i
  <2>1. k \in 1 .. Len(s) /\ k \in 1 .. i - 1
    BY <1>1, <1>2, <1>3, <1>6
  <2>2. s[k] < u[k]
    BY <1>1, <1>2, <2>1
  <2>3. \A j \in 1 .. k - 1 : s[j] = u[j]
    BY <1>1, <1>2, <1>3, <1>6
  <2> QED BY <1>2, <2>1, <2>2, <2>3 DEF Before
<1> QED BY <1>3, <1>4, <1>5, <1>6

LEMMA BeforeIrreflexive ==
  ASSUME NEW s \in Seq(Int)
  PROVE  ~ Before(s, s)
BY DEF Before

(* Strings of one length that are equal, or the first before the second.    *)
InOrder(s, t) == Len(s) = Len(t) /\ (s = t \/ Before(s, t))

LEMMA InOrderConcat ==
  ASSUME NEW s \in Seq(Int), NEW t \in Seq(Int),
         NEW u \in Seq(Int), NEW v \in Seq(Int),
         InOrder(s, t), InOrder(u, v)
  PROVE  /\ InOrder(s \o u, t \o v)
         /\ Before(s, t) \/ Before(u, v) => Before(s \o u, t \o v)
<1>1. /\ s \o u \in Seq(Int) /\ t \o v \in Seq(Int)
      /\ Len(s \o u) = Len(s) + Len(u) /\ Len(t \o v) = Len(t) + Len(v)
      /\ \A i \in 1 .. Len(s) + Len(u) :
           (s \o u)[i] = IF i <= Len(s) THEN s[i] ELSE u[i - Len(s)]
      /\ \A i \in 1 .. Len(t) + Len(v) :
           (t \o v)[i] = IF i <= Len(t) THEN t[i] ELSE v[i - Len(t)]
  BY ConcatProperties
<1>2. PICK p, q : p = s \o u /\ q = t \o v
  OBVIOUS
<1>3. PICK n, k : n = Len(s) /\ k = Len(u)
  OBVIOUS
<1>4. /\ n \in Nat /\ k \in Nat /\ Len(p) = n + k /\ Len(q) = n + k
      /\ Len(s) = n /\ Len(t) = n /\ Len(u) = k /\ Len(v) = k
  BY <1>1, <1>2, <1>3 DEF InOrder
<1>5. /\ \A i \in 1 .. n : p[i] = s[i] /\ q[i] = t[i]
      /\ \A i \in n + 1 .. n + k : p[i] = u[i - n] /\ q[i] = v[i - n]
  <2>1. ASSUME NEW i \in 1 .. n PROVE p[i] = s[i] /\ q[i] = t[i]
    <3>1. i \in 1 .. Len(s) + Len(u) /\ i \in 1 .. Len(t) + Len(v)
          /\ i <= Len(s) /\ i <= Len(t)
      BY <1>4
    <3> QED BY <1>1, <1>2, <3>1
  <2>2. ASSUME NEW i \in n + 1 .. n + k
        PROVE  p[i] = u[i - n] /\ q[i] = v[i - n]
    <3>1. i \in 1 .. Len(s) + Len(u) /\ i \in 1 .. Len(t) + Len(v)
          /\ ~ (i <= Len(s)) /\ ~ (i <= Len(t))
      BY <1>4
    <3>2. i - Len(s) = i - n /\ i - Len(t) = i - n
      BY <1>4
    <3> QED BY <1>1, <1>2, <3>1, <3>2
  <2> QED BY <2>1, <2>2
<1>6. ASSUME Before(s, t) PROVE Before(p, q)
  <2>1. PICK i \in 1 .. n : /\ s[i] < t[i]
                            /\ \A j \in 1 .. i - 1 : s[j] = t[j]
    BY <1>4, <1>6 DEF Before
  <2>2. /\ p[i] < q[i]
        /\ \A j \in 1 .. i - 1 : p[j] = q[j]
    BY <1>4, <1>5, <2>1
  <2>3. i \in 1 .. Len(p) /\ i <= Len(q)
    BY <1>4, <2>1
  <2> QED BY <2>2, <2>3 DEF Before
<1>7. ASSUME s = t, Before(u, v) PROVE Before(p, q)
  <2>1. PICK i \in 1 .. k : /\ u[i] < v[i]
                            /\ \A j \in 1 .. i - 1 : u[j] = v[j]
    BY <1>4, <1>7 DEF Before
  <2>2. /\ n + i \in n + 1 .. n + k /\ (n + i) - n = i
        /\ n + i \in 1 .. Len(p) /\ n + i <= Len(q)
    BY <1>4, <2>1
  <2>3. p[n + i] < q[n + i]
    BY <1>5, <2>1, <2>2
  <2>4. ASSUME NEW j \in 1 .. (n + i) - 1 PROVE p[j] = q[j]
    <3>1. CASE j <= n
      BY <1>4, <1>5, <1>7, <3>1
    <3>2. CASE j > n
      <4>1. j - n \in 1 .. i - 1 /\ j \in n + 1 .. n + k
        BY <1>4, <2>1, <3>2
      <4> QED BY <1>5, <2>1, <4>1
    <3> QED BY <1>4, <3>1, <3>2
  <2> QED BY <2>2, <2>3, <2>4 DEF Before
<1>8. s = t /\ u = v => p = q
  BY <1>2
<1> QED BY <1>2, <1>4, <1>6, <1>7, <1>8 DEF InOrder

(* Of two numbers with equally many digits the smaller comes first.         *)
LEMMA DigitsInOrder ==
  \A n \in Nat : \A m \in 0 .. n - 1 :
    Len(Digits[m]) = Len(Digits[n]) => Before(Digits[m], Digits[n])
<1> DEFINE Good(n) == \A m \in 0 .. n - 1 :
             Len(Digits[m]) = Len(Digits[n]) => Before(Digits[m], Digits[n])
           Bad == {n \in Nat : ~ Good(n)}
<1> SUFFICES ASSUME Bad # {} PROVE FALSE
  OBVIOUS
<1>1. PICK b \in Bad : \A y \in Bad : b <= y
  <2>1. Bad \in SUBSET Nat
    OBVIOUS
  <2> HIDE DEF Bad
  <2> QED BY <2>1, LeastExists
<1>2. b \in Nat /\ ~ Good(b)
  OBVIOUS
<1>3. \A k \in Nat : k < b => Good(k)
  BY <1>1
<1> HIDE DEF Bad
<1>4. PICK m \in 0 .. b - 1 : /\ Len(Digits[m]) = Len(Digits[b])
                              /\ ~ Before(Digits[m], Digits[b])
  BY <1>2
<1>5. m \in Nat /\ m < b
  BY <1>2, <1>4
<1>6. CASE b < 10
  <2>1. Digits[m] = <<m>> /\ Digits[b] = <<b>>
    BY <1>2, <1>5, <1>6, DigitsShort
  <2>2. Before(<<m>>, <<b>>)
    <3>1. /\ Len(<<m>>) = 1 /\ Len(<<b>>) = 1
          /\ <<m>>[1] = m /\ <<b>>[1] = b
      OBVIOUS
    <3>2. 1 \in 1 .. Len(<<m>>) /\ 1 <= Len(<<b>>) /\ 1 .. 1 - 1 = {}
      BY <3>1
    <3> QED BY <1>5, <3>1, <3>2 DEF Before
  <2> QED BY <1>4, <2>1, <2>2
<1>7. CASE b >= 10
  <2>1. /\ b \div 10 \in Nat /\ b \div 10 < b
        /\ Len(Digits[b]) = Len(Digits[b \div 10]) + 1
        /\ Len(Digits[b \div 10]) \in Nat /\ Len(Digits[b \div 10]) >= 1
    BY <1>2, <1>7, TenthIsSmaller, DigitsAppend, DigitsType
  <2>2. m >= 10
    <3>1. ASSUME m < 10 PROVE FALSE
      <4>1. Len(Digits[m]) = 1
        BY <1>5, <3>1, DigitsShort
      <4>2. Len(Digits[b]) >= 2
        BY <2>1
      <4> QED BY <1>4, <4>1, <4>2
    <3> QED BY <1>5, <3>1
  <2>3. /\ m \div 10 \in Nat
        /\ m = 10 * (m \div 10) + (m % 10) /\ m % 10 \in 0 .. 9
        /\ b = 10 * (b \div 10) + (b % 10) /\ b % 10 \in 0 .. 9
    BY <1>2, <1>5, <1>7, <2>2, TenthIsSmaller
  <2>4. PICK s, t, d, e : /\ s = Digits[m \div 10] /\ t = Digits[b \div 10]
                          /\ d = m % 10 /\ e = b % 10
    OBVIOUS
  <2>5. /\ s \in Seq(Int) /\ t \in Seq(Int) /\ d \in Int /\ e \in Int
        /\ Digits[m] = s \o <<d>> /\ Digits[b] = t \o <<e>>
    <3>1. s \in Seq(Int) /\ t \in Seq(Int)
      BY <2>1, <2>3, <2>4, DigitsType
    <3>2. d \in Int /\ e \in Int
      BY <2>3, <2>4
    <3>3. Digits[m] = Append(s, d) /\ Digits[b] = Append(t, e)
      BY <1>2, <1>5, <1>7, <2>2, <2>4, DigitsLong
    <3>4. \A r \in Seq(Int), f \in Int : Append(r, f) = r \o <<f>>
      OBVIOUS
    <3> QED BY <3>1, <3>2, <3>3, <3>4
  <2>6. Len(s) = Len(t)
    <3>1. Len(Digits[m]) = Len(Digits[m \div 10]) + 1
      BY <1>5, <2>2, DigitsAppend
    <3>2. Len(Digits[m \div 10]) \in Nat
      BY <2>3, DigitsType
    <3>3. Len(Digits[m \div 10]) = Len(Digits[b \div 10])
      BY <1>4, <2>1, <3>1, <3>2
    <3> QED BY <2>4, <3>3
  <2>7. <<d>> \in Seq(Int) /\ <<e>> \in Seq(Int)
        /\ Len(<<d>>) = 1 /\ Len(<<e>>) = 1
    BY <2>5
  <2>8. CASE m \div 10 < b \div 10
    <3>1. Before(s, t)
      <4>1. m \div 10 \in 0 .. (b \div 10) - 1
        BY <2>1, <2>3, <2>8
      <4>2. Len(Digits[m \div 10]) = Len(Digits[b \div 10])
        BY <2>4, <2>6
      <4>3. Good(b \div 10)
        BY <1>3, <2>1
      <4>4. Before(Digits[m \div 10], Digits[b \div 10])
        BY <4>1, <4>2, <4>3
      <4> QED BY <2>4, <4>4
    <3>2. \E i \in 1 .. Len(s) : /\ i <= Len(t) /\ s[i] < t[i]
                                  /\ \A j \in 1 .. i - 1 : s[j] = t[j]
      BY <3>1 DEF Before
    <3>3. PICK i \in 1 .. Len(s) : /\ s[i] < t[i]
                                   /\ \A j \in 1 .. i - 1 : s[j] = t[j]
      BY <3>2
    <3>4. /\ \A j \in 1 .. Len(s) : Digits[m][j] = s[j] /\ Digits[b][j] = t[j]
          /\ Len(Digits[m]) = Len(s) + 1 /\ Len(Digits[b]) = Len(s) + 1
          /\ Len(s) \in Nat
      BY <2>1, <2>2, <2>4, <2>5, <2>6, <1>2, <1>5, <1>7, DigitsAppend
    <3>5. Before(Digits[m], Digits[b])
      <4>1. i \in 1 .. Len(Digits[m]) /\ i <= Len(Digits[b])
        BY <3>4
      <4>2. Digits[m][i] < Digits[b][i]
        BY <3>3, <3>4
      <4>3. \A j \in 1 .. i - 1 : Digits[m][j] = Digits[b][j]
        BY <3>3, <3>4
      <4> QED BY <4>1, <4>2, <4>3 DEF Before
    <3> QED BY <1>4, <3>5
  <2>9. CASE m \div 10 = b \div 10
    <3>1. d < e /\ s = t
      BY <1>2, <1>5, <2>3, <2>4, <2>9
    <3>2. Before(<<d>>, <<e>>)
      <4>1. /\ <<d>>[1] = d /\ <<e>>[1] = e
            /\ 1 \in 1 .. Len(<<d>>) /\ 1 <= Len(<<e>>) /\ 1 .. 1 - 1 = {}
        BY <2>7
      <4> QED BY <3>1, <4>1 DEF Before
    <3>3. InOrder(s, t) /\ InOrder(<<d>>, <<e>>)
      BY <2>6, <2>7, <3>1, <3>2 DEF InOrder
    <3> QED BY <1>4, <2>5, <2>7, <3>2, <3>3, InOrderConcat
  <2> QED BY <1>2, <1>5, <2>1, <2>3, <2>8, <2>9
<1> QED BY <1>2, <1>6, <1>7

-----------------------------------------------------------------------------
(* Ids, and what trim_history keeps of them.                                *)

LEMMA IdStringType ==
  ASSUME NEW rev \in Revisions
  PROVE  IdString(rev) \in Seq(Int)
<1>1. /\ Digits[rev.geometry] \in Seq(Int) /\ Digits[rev.metadata] \in Seq(Int)
      /\ Digits[rev.focus] \in Seq(Int) /\ Digits[rev.view] \in Seq(Int)
  BY DigitsType DEF Revisions
<1>2. <<Dot>> \in Seq(Int)
  BY DEF Dot
<1>3. \A s, t \in Seq(Int) : s \o t \in Seq(Int)
  OBVIOUS
<1> QED BY <1>1, <1>2, <1>3 DEF IdString

LEMMA IdLessIsBefore ==
  ASSUME NEW a, NEW b
  PROVE  IdLess(a, b) <=> Before(IdString(a), IdString(b))
BY DEF IdLess, Before

LEMMA CountersInOrder ==
  ASSUME NEW m \in Nat, NEW n \in Nat, m <= n,
         Len(Digits[m]) = Len(Digits[n])
  PROVE  /\ Digits[m] \o <<Dot>> \in Seq(Int)
         /\ Digits[n] \o <<Dot>> \in Seq(Int)
         /\ InOrder(Digits[m] \o <<Dot>>, Digits[n] \o <<Dot>>)
         /\ m # n => Before(Digits[m] \o <<Dot>>, Digits[n] \o <<Dot>>)
<1>1. /\ Digits[m] \in Seq(Int) /\ Digits[n] \in Seq(Int)
      /\ <<Dot>> \in Seq(Int)
  BY DigitsType DEF Dot
<1>2. InOrder(<<Dot>>, <<Dot>>)
  BY DEF InOrder
<1>3. m # n => Before(Digits[m], Digits[n])
  <2>1. m # n => m \in 0 .. n - 1
    OBVIOUS
  <2> QED BY <2>1, DigitsInOrder
<1>4. InOrder(Digits[m], Digits[n])
  BY <1>3 DEF InOrder
<1> QED BY <1>1, <1>2, <1>3, <1>4, InOrderConcat, ConcatProperties

LEMMA DotAfter ==
  ASSUME NEW s \in Seq(Int), NEW t \in Seq(Int)
  PROVE  /\ s \o <<Dot>> \in Seq(Int)
         /\ (s \o t) \o <<Dot>> \in Seq(Int)
         /\ (s \o t) \o <<Dot>> = s \o (t \o <<Dot>>)
<1>1. <<Dot>> \in Seq(Int)
  BY DEF Dot
<1>2. s \o <<Dot>> \in Seq(Int) /\ s \o t \in Seq(Int)
  BY <1>1, ConcatProperties
<1>3. (s \o t) \o <<Dot>> \in Seq(Int)
  BY <1>1, <1>2, ConcatProperties
<1> QED BY <1>1, <1>2, <1>3, ConcatAssociative

(* Of two ids of one width the older comes first in the map. *)
LEMMA OlderIsFirst ==
  ASSUME NEW a \in Revisions, NEW b \in Revisions,
         SameWidth(a, b), AdvancesFrom(b, a)
  PROVE  IdLess(a, b)
<1> DEFINE S(n) == Digits[n] \o <<Dot>>
<1>1. /\ a.geometry \in Nat /\ a.metadata \in Nat
      /\ a.focus \in Nat /\ a.view \in Nat
      /\ b.geometry \in Nat /\ b.metadata \in Nat
      /\ b.focus \in Nat /\ b.view \in Nat
  BY DEF Revisions
<1>2. /\ a.geometry <= b.geometry /\ a.metadata <= b.metadata
      /\ a.focus <= b.focus /\ a.view <= b.view
  BY <1>1 DEF AdvancesFrom
<1>3. \/ a.geometry # b.geometry \/ a.metadata # b.metadata
      \/ a.focus # b.focus \/ a.view # b.view
  BY DEF AdvancesFrom, Revisions
<1>4. \A m, n \in Nat :
        m <= n /\ Len(Digits[m]) = Len(Digits[n]) =>
          /\ S(m) \in Seq(Int) /\ S(n) \in Seq(Int)
          /\ InOrder(S(m), S(n))
          /\ m # n => Before(S(m), S(n))
  BY CountersInOrder
<1>5. PICK s1, s2, s3, s4, t1, t2, t3, t4 :
        /\ s1 = S(a.geometry) /\ s2 = S(a.metadata)
        /\ s3 = S(a.focus) /\ s4 = S(a.view)
        /\ t1 = S(b.geometry) /\ t2 = S(b.metadata)
        /\ t3 = S(b.focus) /\ t4 = S(b.view)
  OBVIOUS
<1> HIDE DEF S
<1>6. /\ s1 \in Seq(Int) /\ t1 \in Seq(Int) /\ InOrder(s1, t1)
      /\ a.geometry # b.geometry => Before(s1, t1)
  BY <1>1, <1>2, <1>4, <1>5 DEF SameWidth
<1>7. /\ s2 \in Seq(Int) /\ t2 \in Seq(Int) /\ InOrder(s2, t2)
      /\ a.metadata # b.metadata => Before(s2, t2)
  BY <1>1, <1>2, <1>4, <1>5 DEF SameWidth
<1>8. /\ s3 \in Seq(Int) /\ t3 \in Seq(Int) /\ InOrder(s3, t3)
      /\ a.focus # b.focus => Before(s3, t3)
  BY <1>1, <1>2, <1>4, <1>5 DEF SameWidth
<1>9. /\ s4 \in Seq(Int) /\ t4 \in Seq(Int) /\ InOrder(s4, t4)
      /\ a.view # b.view => Before(s4, t4)
  BY <1>1, <1>2, <1>4, <1>5 DEF SameWidth
<1>10. /\ s1 \o s2 \in Seq(Int) /\ t1 \o t2 \in Seq(Int)
       /\ InOrder(s1 \o s2, t1 \o t2)
       /\ Before(s1, t1) \/ Before(s2, t2) => Before(s1 \o s2, t1 \o t2)
  BY <1>6, <1>7, InOrderConcat, ConcatProperties
<1>11. /\ (s1 \o s2) \o s3 \in Seq(Int) /\ (t1 \o t2) \o t3 \in Seq(Int)
       /\ InOrder((s1 \o s2) \o s3, (t1 \o t2) \o t3)
       /\ Before(s1 \o s2, t1 \o t2) \/ Before(s3, t3)
           => Before((s1 \o s2) \o s3, (t1 \o t2) \o t3)
  BY <1>8, <1>10, InOrderConcat, ConcatProperties
<1>12. Before((s1 \o s2) \o s3, (t1 \o t2) \o t3) \/ Before(s4, t4)
       => Before(((s1 \o s2) \o s3) \o s4, ((t1 \o t2) \o t3) \o t4)
  BY <1>9, <1>11, InOrderConcat
<1>13. Before(((s1 \o s2) \o s3) \o s4, ((t1 \o t2) \o t3) \o t4)
  BY <1>3, <1>6, <1>7, <1>8, <1>9, <1>10, <1>11, <1>12
<1>14. ASSUME NEW r \in Revisions
       PROVE  IdString(r) = ((S(r.geometry) \o S(r.metadata)) \o S(r.focus))
                              \o S(r.view)
  <2>1. /\ r.geometry \in Nat /\ r.metadata \in Nat
        /\ r.focus \in Nat /\ r.view \in Nat
    BY DEF Revisions
  <2>2. PICK g, m, f, v :
          /\ g = Digits[r.geometry] /\ m = Digits[r.metadata]
          /\ f = Digits[r.focus] /\ v = Digits[r.view]
    OBVIOUS
  <2>3. /\ g \in Seq(Int) /\ m \in Seq(Int) /\ f \in Seq(Int)
        /\ v \in Seq(Int)
    <3>1. \A n \in Nat : Digits[n] \in Seq(Int)
      BY DigitsType
    <3> QED BY <2>1, <2>2, <3>1
  <2>4. PICK x : x = g \o <<Dot>>
    OBVIOUS
  <2>5. PICK y : y = x \o (m \o <<Dot>>)
    OBVIOUS
  <2>6. PICK z : z = y \o (f \o <<Dot>>)
    OBVIOUS
  <2>7. x \in Seq(Int) /\ y = (x \o m) \o <<Dot>>
    BY <2>3, <2>4, <2>5, DotAfter
  <2>8. y \in Seq(Int) /\ z = (y \o f) \o <<Dot>>
    BY <2>3, <2>5, <2>6, <2>7, DotAfter
  <2>9. z \in Seq(Int) /\ (z \o v) \o <<Dot>> = z \o (v \o <<Dot>>)
    BY <2>3, <2>6, <2>8, DotAfter
  <2>10. IdString(r) = (z \o v) \o <<Dot>>
    BY <2>2, <2>4, <2>7, <2>8 DEF IdString
  <2>11. /\ S(r.geometry) = x /\ S(r.metadata) = m \o <<Dot>>
         /\ S(r.focus) = f \o <<Dot>> /\ S(r.view) = v \o <<Dot>>
    BY <2>2, <2>4 DEF S
  <2> QED BY <2>5, <2>6, <2>9, <2>10, <2>11
<1> QED BY <1>5, <1>13, <1>14, IdLessIsBefore

LEMMA IdLessTransitive ==
  ASSUME NEW a \in Revisions, NEW b \in Revisions, NEW c \in Revisions,
         IdLess(a, b), IdLess(b, c)
  PROVE  IdLess(a, c)
BY IdStringType, IdLessIsBefore, BeforeTransitive

LEMMA IdLessIrreflexive ==
  ASSUME NEW a \in Revisions
  PROVE  ~ IdLess(a, a)
BY IdStringType, IdLessIsBefore, BeforeIrreflexive

(* Whatever is kept, everything that comes after it is kept; and something  *)
(* is, because the last key has none after it.                              *)
LEMMA TrimKeepsTheLast ==
  ASSUME NEW h, IsFiniteSet(DOMAIN h), DOMAIN h \subseteq Revisions,
         DOMAIN h # {}
  PROVE  /\ DOMAIN Trim(h) # {} /\ DOMAIN Trim(h) \subseteq DOMAIN h
         /\ \A k \in DOMAIN Trim(h) : Trim(h)[k] = h[k]
         /\ \A k \in DOMAIN Trim(h), g \in DOMAIN h :
              IdLess(k, g) => g \in DOMAIN Trim(h)
<1> DEFINE Above(k) == {j \in DOMAIN h : IdLess(k, j)}
           Counts == {Cardinality(Above(k)) : k \in DOMAIN h}
<1>1. DOMAIN Trim(h) = {k \in DOMAIN h : Cardinality(Above(k)) < MaxRevisions}
  BY DEF Trim
<1>2. \A k \in DOMAIN Trim(h) : Trim(h)[k] = h[k]
  BY DEF Trim
<1>3. ASSUME NEW k \in DOMAIN h
      PROVE  /\ Above(k) \subseteq DOMAIN h
             /\ IsFiniteSet(Above(k)) /\ Cardinality(Above(k)) \in Nat
  <2>1. Above(k) \subseteq DOMAIN h
    OBVIOUS
  <2> HIDE DEF Above
  <2> QED BY <2>1, FS_Subset, FS_CardinalityType
<1>4. ASSUME NEW k \in DOMAIN h, NEW g \in DOMAIN h, IdLess(k, g)
      PROVE  /\ Above(g) \subseteq Above(k) /\ Above(g) # Above(k)
             /\ Cardinality(Above(g)) < Cardinality(Above(k))
  <2>1. k \in Revisions /\ g \in Revisions
    OBVIOUS
  <2>2. Above(g) \subseteq Above(k)
    BY <1>4, <2>1, IdLessTransitive
  <2>3. g \in Above(k) /\ g \notin Above(g)
    BY <1>4, <2>1, IdLessIrreflexive
  <2>4. Above(g) # Above(k)
    BY <2>3
  <2>5. /\ IsFiniteSet(Above(k))
        /\ Cardinality(Above(k)) \in Nat /\ Cardinality(Above(g)) \in Nat
    BY <1>3
  <2> HIDE DEF Above
  <2>6. /\ Cardinality(Above(g)) <= Cardinality(Above(k))
        /\ Cardinality(Above(g)) # Cardinality(Above(k))
    BY <2>2, <2>4, <2>5, FS_Subset
  <2> QED BY <2>2, <2>4, <2>5, <2>6
<1>5. \E k \in DOMAIN h : \A j \in DOMAIN h :
        Cardinality(Above(k)) <= Cardinality(Above(j))
  <2>1. Counts \in SUBSET Nat /\ Counts # {}
    BY <1>3
  <2>2. \E c \in Counts : \A d \in Counts : c <= d
    <3> HIDE DEF Counts
    <3> QED BY <2>1, LeastExists
  <2> QED BY <2>2
<1> HIDE DEF Above, Counts
<1>6. DOMAIN Trim(h) # {}
  <2>1. PICK k \in DOMAIN h : \A j \in DOMAIN h :
          Cardinality(Above(k)) <= Cardinality(Above(j))
    BY <1>5
  <2>2. Above(k) = {}
    <3> SUFFICES ASSUME NEW j \in Above(k) PROVE FALSE
      OBVIOUS
    <3>1. j \in DOMAIN h /\ IdLess(k, j)
      BY DEF Above
    <3>2. /\ Cardinality(Above(j)) < Cardinality(Above(k))
          /\ Cardinality(Above(k)) <= Cardinality(Above(j))
          /\ Cardinality(Above(j)) \in Nat /\ Cardinality(Above(k)) \in Nat
      BY <1>3, <1>4, <2>1, <3>1
    <3> QED BY <3>2
  <2>3. Cardinality(Above(k)) < MaxRevisions
    BY <2>2, FS_EmptySet, StoreAssumption
  <2> QED BY <1>1, <2>3
<1>7. ASSUME NEW k \in DOMAIN Trim(h), NEW g \in DOMAIN h, IdLess(k, g)
      PROVE  g \in DOMAIN Trim(h)
  <2>1. k \in DOMAIN h /\ Cardinality(Above(k)) < MaxRevisions
    BY <1>1
  <2>2. /\ Cardinality(Above(g)) < Cardinality(Above(k))
        /\ Cardinality(Above(g)) \in Nat /\ Cardinality(Above(k)) \in Nat
    BY <1>3, <1>4, <1>7, <2>1
  <2>3. Cardinality(Above(g)) < MaxRevisions
    BY <2>1, <2>2, StoreAssumption
  <2> QED BY <1>1, <2>3
<1> QED BY <1>1, <1>2, <1>6, <1>7

-----------------------------------------------------------------------------
(* What the history retains.                                               *)

(* Nothing that is kept is older than something of its width that was       *)
(* evicted.  Ids of other widths may be evicted out of order.               *)
EvictedInOrder ==
  /\ IsFiniteSet(DOMAIN history) /\ DOMAIN history # {}
  /\ \A k \in DOMAIN history : \E g \in issued : g.rev = k
  /\ current.rev \in DOMAIN history => history[current.rev] = current
  /\ \A g \in issued, k \in DOMAIN history :
       SameWidth(k, g.rev) /\ AdvancesFrom(g.rev, k)
         => g.rev \in DOMAIN history

LEMMA PublishEvictsInOrder ==
  ASSUME IInv, EvictedInOrder, NEW graph \in Graphs, Publish(graph),
         NotAhead(current.rev, graph.rev)
  PROVE  EvictedInOrder'
<1>1. PICK h : h = Insert(history, graph)
  OBVIOUS
<1>2. /\ current' = graph /\ history' = Trim(h)
      /\ issued' = issued \cup {graph}
  BY <1>1 DEF Publish
<1>3. /\ DOMAIN history \subseteq Revisions /\ issued \subseteq Graphs
      /\ current \in Graphs /\ \A g \in Graphs : g.rev \in Revisions
      /\ \A g \in issued : NotAhead(g.rev, current.rev)
  BY DEF IInv, TypeOK, StoreTypeOK, Graphs
<1>4. /\ DOMAIN h = DOMAIN history \cup {graph.rev}
      /\ h[graph.rev] = graph
  BY <1>1 DEF Insert
<1>5. /\ IsFiniteSet(DOMAIN h) /\ DOMAIN h # {}
      /\ DOMAIN h \subseteq Revisions
  BY <1>3, <1>4, FS_AddElement DEF EvictedInOrder
<1>6. /\ DOMAIN history' # {} /\ DOMAIN history' \subseteq DOMAIN h
      /\ \A k \in DOMAIN history' : history'[k] = h[k]
      /\ \A k \in DOMAIN history', g \in DOMAIN h :
           IdLess(k, g) => g \in DOMAIN history'
  BY <1>2, <1>5, TrimKeepsTheLast
<1>7. IsFiniteSet(DOMAIN history')
  BY <1>5, <1>6, FS_Subset
<1>8. \A k \in DOMAIN history' : \E g \in issued' : g.rev = k
  BY <1>2, <1>4, <1>6 DEF EvictedInOrder
<1>9. current'.rev \in DOMAIN history' => history'[current'.rev] = current'
  BY <1>2, <1>4, <1>6
<1>10. ASSUME NEW g \in issued', NEW k \in DOMAIN history',
              SameWidth(k, g.rev), AdvancesFrom(g.rev, k)
       PROVE  g.rev \in DOMAIN history'
  <2>1. /\ k \in DOMAIN h /\ k \in Revisions /\ g.rev \in Revisions
    BY <1>2, <1>3, <1>5, <1>6
  <2>2. IdLess(k, g.rev)
    BY <1>10, <2>1, OlderIsFirst
  <2>3. g.rev \in DOMAIN h
    <3>1. CASE g = graph
      BY <1>4, <3>1
    <3>2. CASE g \in issued /\ k \in DOMAIN history
      BY <1>4, <1>10, <3>2 DEF EvictedInOrder
    <3>3. CASE g \in issued /\ k = graph.rev
      <4>1. NotAhead(g.rev, k)
        BY <1>3, <3>3, NotAheadTransitive
      <4>2. g.rev = k
        BY <1>10, <2>1, <4>1 DEF AdvancesFrom, NotAhead, Revisions
      <4> QED BY <2>1, <4>2
    <3> QED BY <1>2, <1>4, <2>1, <3>1, <3>2, <3>3
  <2> QED BY <1>6, <2>2, <2>3
<1>11. \A g \in issued', k \in DOMAIN history' :
         SameWidth(k, g.rev) /\ AdvancesFrom(g.rev, k)
           => g.rev \in DOMAIN history'
  BY <1>10
<1> QED BY <1>6, <1>7, <1>8, <1>9, <1>11 DEF EvictedInOrder, SameWidth,
                                              AdvancesFrom

LEMMA InitRetention == Init => EvictedInOrder
<1> SUFFICES ASSUME Init PROVE EvictedInOrder
  OBVIOUS
<1>1. /\ current = InitialGraph /\ issued = {InitialGraph}
      /\ DOMAIN history = {InitialGraph.rev}
      /\ history[InitialGraph.rev] = InitialGraph
  BY DEF Init, StoreInit
<1>2. IsFiniteSet(DOMAIN history)
  BY <1>1, FS_Singleton
<1> QED BY <1>1, <1>2 DEF EvictedInOrder

LEMMA RetentionStep ==
  ASSUME IInv, EvictedInOrder, [Next]_vars
  PROVE  EvictedInOrder'
<1>1. current \in Graphs
  BY DEF IInv, TypeOK, StoreTypeOK
<1>2. CASE UNCHANGED storeVars
  BY <1>2 DEF storeVars, EvictedInOrder, SameWidth, AdvancesFrom
<1>3. ASSUME NEW review \in reviewed, CommitChange(review)
      PROVE  EvictedInOrder'
  <2>1. PICK graph : graph = Applied(current, review.cs)
    OBVIOUS
  <2>2. Publish(graph)
    BY <1>3, <2>1 DEF CommitChange, Commit, PreviewOf
  <2>3. review.cs \in ChangeSets
    BY DEF IInv, TypeOK
  <2>4. graph \in Graphs /\ NotAhead(current.rev, graph.rev)
    BY <1>1, <2>1, <2>3, AppliedGraph
  <2> QED BY <2>2, <2>4, PublishEvictsInOrder
<1>4. ASSUME NEW stack \in Seq(Graphs), stack # << >>,
             Publish(Renamed(Top(stack)))
      PROVE  EvictedInOrder'
  <2>1. Top(stack) \in Graphs
    BY <1>4, StackTypes
  <2>2. PICK graph : graph = Renamed(Top(stack))
    OBVIOUS
  <2>3. graph \in Graphs /\ NotAhead(current.rev, graph.rev)
    BY <1>1, <2>1, <2>2, RenamedGraph
  <2> QED BY <1>4, <2>2, <2>3, PublishEvictsInOrder
<1>5. undo_stack \in Seq(Graphs) /\ redo_stack \in Seq(Graphs)
  BY DEF IInv, TypeOK, StoreTypeOK
<1>6. CASE UndoChange
  BY <1>4, <1>5, <1>6 DEF UndoChange, Undo
<1>7. CASE RedoChange
  BY <1>4, <1>5, <1>7 DEF RedoChange, Redo
<1>8. CASE \E cs \in Offered : PreviewChange(cs)
  BY <1>2, <1>8 DEF PreviewChange
<1>9. CASE UNCHANGED vars
  BY <1>2, <1>9 DEF vars, storeVars
<1> QED BY <1>3, <1>6, <1>7, <1>8, <1>9 DEF Next

(* Between two revisions of one width lies nothing of another.              *)
LEMMA WidthBetween ==
  ASSUME NEW a \in Revisions, NEW b \in Revisions, NEW c \in Revisions,
         NotAhead(a, b), NotAhead(b, c), SameWidth(a, c)
  PROVE  SameWidth(a, b)
<1>1. /\ a.geometry \in Nat /\ b.geometry \in Nat /\ c.geometry \in Nat
      /\ a.metadata \in Nat /\ b.metadata \in Nat /\ c.metadata \in Nat
      /\ a.focus \in Nat /\ b.focus \in Nat /\ c.focus \in Nat
      /\ a.view \in Nat /\ b.view \in Nat /\ c.view \in Nat
  BY DEF Revisions
<1>2. ASSUME NEW i \in Nat, NEW j \in Nat, NEW k \in Nat, i <= j, j <= k,
             Len(Digits[i]) = Len(Digits[k])
      PROVE  Len(Digits[i]) = Len(Digits[j])
  <2>1. i \in 0 .. j /\ j \in 0 .. k
    BY <1>2
  <2>2. /\ Len(Digits[i]) <= Len(Digits[j])
        /\ Len(Digits[j]) <= Len(Digits[k])
    BY <2>1, WidthsGrow
  <2>3. Len(Digits[i]) \in Nat /\ Len(Digits[j]) \in Nat
    BY DigitsType
  <2> QED BY <1>2, <2>2, <2>3
<1> QED BY <1>1, <1>2 DEF NotAhead, SameWidth

LEMMA RetainedByOrder ==
  ASSUME IInv, EvictedInOrder
  PROVE  NewestRetained
<1> SUFFICES ASSUME \A k \in DOMAIN history : SameWidth(k, current.rev)
             PROVE  /\ current.rev \in DOMAIN history
                    /\ history[current.rev] = current
                    /\ \A g \in issued :
                         /\ AdvancesFrom(current.rev, g.rev)
                         /\ g.rev \notin DOMAIN history
                         => \A k \in DOMAIN history : ~ AdvancesFrom(g.rev, k)
  BY DEF NewestRetained
<1>1. /\ current \in issued /\ current.rev \in Revisions
      /\ DOMAIN history \subseteq Revisions
      /\ \A g \in issued : g.rev \in Revisions /\ NotAhead(g.rev, current.rev)
  BY DEF IInv, TypeOK, StoreTypeOK, Graphs
<1>2. \A a, b \in Revisions : NotAhead(a, b) /\ a # b <=> AdvancesFrom(b, a)
  BY DEF NotAhead, AdvancesFrom, Revisions
<1>3. current.rev \in DOMAIN history
  <2>1. PICK k \in DOMAIN history : TRUE
    BY DEF EvictedInOrder
  <2>2. NotAhead(k, current.rev) /\ k \in Revisions
    BY <1>1 DEF EvictedInOrder
  <2>3. k = current.rev \/ AdvancesFrom(current.rev, k)
    BY <1>1, <1>2, <2>2
  <2> QED BY <1>1, <2>1, <2>3 DEF EvictedInOrder
<1>4. ASSUME NEW g \in issued, AdvancesFrom(current.rev, g.rev),
             g.rev \notin DOMAIN history,
             NEW k \in DOMAIN history, AdvancesFrom(g.rev, k)
      PROVE  FALSE
  <2>1. NotAhead(k, g.rev) /\ NotAhead(g.rev, current.rev)
    BY <1>1, <1>2, <1>4
  <2>2. SameWidth(k, g.rev)
    BY <1>1, <2>1, WidthBetween
  <2> QED BY <1>4, <2>2 DEF EvictedInOrder
<1> QED BY <1>3, <1>4 DEF EvictedInOrder

(* While all retained ids are of one width, the history is evicted in order *)
(* of publication and the newest revision is in it, for any retention, any  *)
(* changes and any number of them (trim_history, BTreeMap order of ids).    *)
THEOREM NewestIsRetained == Spec => []NewestRetained
<1>1. IInv /\ EvictedInOrder /\ [Next]_vars => EvictedInOrder'
  BY RetentionStep
<1>2. IInv /\ EvictedInOrder => NewestRetained
  BY RetainedByOrder
<1> QED BY <1>1, <1>2, InitRetention, Inductive, PTL DEF Spec

=============================================================================
