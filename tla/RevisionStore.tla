---------------------------- MODULE RevisionStore ----------------------------
(***************************************************************************)
(* The sidecar's revision store: the current graph of one document, the    *)
(* bounded history of published graphs, and the undo and redo stacks.      *)
(*                                                                         *)
(* A graph is abstracted to the value of five aspects of the model, the    *)
(* composite revision it was published under, and the revision its entity  *)
(* references carry ("fc://...@g1.m0.f0.v0.epoch").  The epoch is constant *)
(* for the life of a store, so revisions are their four counters.  SHA-256 *)
(* is modelled as injective: a fingerprint is the graph itself.            *)
(*                                                                         *)
(* This module holds the state and one operator per method; the modules    *)
(* FixtureSession and LiveSession say who calls which method.              *)
(***************************************************************************)
EXTENDS Integers, Sequences, FiniteSets

CONSTANTS
  Values,           \* values an aspect of the model may take
  InitialValue,     \* the value every aspect has in the first graph
  InitialRevision,  \* revision recorded in the snapshot the store starts from
  MaxRevisions      \* history entries kept (max_revisions, 50 by default)

(* What operations write, by the revision counter they move: "shape" stands *)
(* for every model operation except writing a label.                        *)
Aspects == {"shape", "label", "selection", "view", "visibility"}

Revisions == [geometry : Nat, metadata : Nat, focus : Nat, view : Nat]
Contents  == [Aspects -> Values]
Graphs    == [rev : Revisions, refs : Revisions, content : Contents]

(* A change as an agent asks for it: the aspects it writes (later           *)
(* operations on an aspect win), the values its preconditions expect,       *)
(* whether some operation names an entity by reference, and whether its     *)
(* base_revision is to be a full id or a geometry-only one.                 *)
PartialContents == UNION {[D -> Values] : D \in SUBSET Aspects}
IdForms == {"full", "geometry"}
ChangeKinds ==
  [writes : PartialContents, expects : PartialContents,
   targeted : BOOLEAN, form : IdForms]

Bases      == [form : IdForms, rev : Revisions]
ChangeSets == [change : ChangeKinds, base : Bases, at : Revisions]

ASSUME StoreAssumption ==
  /\ InitialValue \in Values
  /\ InitialRevision \in Revisions
  /\ MaxRevisions \in Nat \ {0}

VARIABLES
  current,     \* the graph the next changeset is checked against
  history,     \* revision -> graph, the BTreeMap of published records
  undo_stack,  \* graphs, last is the next undo
  redo_stack,  \* graphs, last is the next redo
  issued       \* history variable: every graph ever published

storeVars == <<current, history, undo_stack, redo_stack, issued>>

(***************************************************************************)
(* Revisions and their ids.                                                *)
(***************************************************************************)

(* Revision::advances_from *)
AdvancesFrom(new, old) ==
  /\ new.geometry >= old.geometry
  /\ new.metadata >= old.metadata
  /\ new.focus >= old.focus
  /\ new.view >= old.view
  /\ new # old

BumpGeometry(rev) == [rev EXCEPT !.geometry = @ + 1]

(* Revision::id and Revision::geometry_id, which drops the other counters.  *)
Id(form, rev) ==
  [form |-> form,
   rev  |-> IF form = "full" THEN rev
            ELSE [geometry |-> rev.geometry,
                  metadata |-> 0, focus |-> 0, view |-> 0]]

(* verify_base accepts the current revision under either id.                *)
MatchesBase(base, rev) == \E form \in IdForms : base = Id(form, rev)

(* The history is a BTreeMap keyed by the id string "g<n>.m<n>.f<n>.v<n>",  *)
(* so its order is that of strings: decimal digits, and '.' below them all. *)
Digits[n \in Nat] ==
  IF n < 10 THEN <<n>> ELSE Append(Digits[n \div 10], n % 10)

Dot == -1

IdString(rev) ==
  Digits[rev.geometry] \o <<Dot>> \o Digits[rev.metadata] \o <<Dot>>
    \o Digits[rev.focus] \o <<Dot>> \o Digits[rev.view] \o <<Dot>>

IdLess(a, b) ==
  LET s == IdString(a)
      t == IdString(b)
  IN  \E i \in 1 .. Len(s) :
        /\ i <= Len(t)
        /\ s[i] < t[i]
        /\ \A j \in 1 .. i - 1 : s[j] = t[j]

(***************************************************************************)
(* apply_changeset and its parts.                                          *)
(***************************************************************************)

(* verify_preconditions, and the reference checks of validate_operations:   *)
(* a reference resolves only if it carries the revision the graph's own     *)
(* references carry.                                                        *)
Applicable(graph, cs) ==
  /\ cs.change.writes # << >>
  /\ \A a \in DOMAIN cs.change.expects :
       cs.change.expects[a] = graph.content[a]
  /\ cs.change.targeted => cs.at = graph.refs

(* Mutant of Advance: a label moves its counter the wrong way.              *)
AdvanceBackwards(rev, writes) ==
  LET Writes(S) == IF DOMAIN writes \cap S # {} THEN 1 ELSE 0
  IN  [geometry |-> rev.geometry + Writes({"shape", "label"}),
       metadata |-> rev.metadata - Writes({"label"}),
       focus    |-> rev.focus + Writes({"selection"}),
       view     |-> rev.view + Writes({"view"})]

Advance(rev, writes) ==
  LET Writes(S) == IF DOMAIN writes \cap S # {} THEN 1 ELSE 0
  IN  [geometry |-> rev.geometry + Writes({"shape", "label"}),
       metadata |-> rev.metadata + Writes({"label"}),
       focus    |-> rev.focus + Writes({"selection"}),
       view     |-> rev.view + Writes({"view"})]

(* rekey_refs: only references that carry the old id are rewritten.         *)
Rekey(refs, old, new) == IF refs = old THEN new ELSE refs

Written(content, writes) ==
  [a \in Aspects |-> IF a \in DOMAIN writes THEN writes[a] ELSE content[a]]

Applied(graph, cs) ==
  LET rev == Advance(graph.rev, cs.change.writes)
  IN  [rev     |-> rev,
       refs    |-> Rekey(graph.refs, graph.rev, rev),
       content |-> Written(graph.content, cs.change.writes)]

(* diff_graphs: which aspects changed between two graphs.                   *)
Diff(old, new) ==
  [from |-> old.rev, to |-> new.rev,
   changed |-> {a \in Aspects : old.content[a] # new.content[a]}]

(* Mutant of PreviewHash: trusts revisions to stand for their graphs.       *)
HashOfRevisions(base, next, cs) ==
  [base |-> base.rev, preview |-> next.rev, changeset |-> cs]

PreviewHash(base, next, cs) ==
  [base |-> base.rev, preview |-> next.rev,
   base_fingerprint |-> base, preview_fingerprint |-> next,
   diff |-> Diff(base, next), changeset |-> cs]

(* preview succeeds on a matching base and an applicable changeset; it      *)
(* changes nothing and returns what would be published.                     *)
PreviewOk(cs) == MatchesBase(cs.base, current.rev) /\ Applicable(current, cs)

PreviewOf(cs) ==
  LET next == Applied(current, cs)
  IN  [cs |-> cs, graph |-> next, hash |-> PreviewHash(current, next, cs)]

(***************************************************************************)
(* Publishing a graph.                                                     *)
(***************************************************************************)

(* Mutant of Trim: drops from the other end of the map.                     *)
TrimFromTheEnd(h) ==
  LET Kept == {k \in DOMAIN h :
                 Cardinality({j \in DOMAIN h : IdLess(j, k)}) < MaxRevisions}
  IN  [k \in Kept |-> h[k]]

(* trim_history drops the first key of the map until MaxRevisions are left. *)
Trim(h) ==
  LET Kept == {k \in DOMAIN h :
                 Cardinality({j \in DOMAIN h : IdLess(k, j)}) < MaxRevisions}
  IN  [k \in Kept |-> h[k]]

(* BTreeMap::insert replaces the record of a revision published before.     *)
Insert(h, graph) ==
  [k \in DOMAIN h \cup {graph.rev} |->
     IF k = graph.rev THEN graph ELSE h[k]]

Publish(graph) ==
  /\ current' = graph
  /\ history' = Trim(Insert(history, graph))
  /\ issued'  = issued \cup {graph}

(* Mutant of Renamed: counts on from the old graph's revision.              *)
RenamedFromItsOwn(graph) ==
  LET rev == BumpGeometry(graph.rev)
  IN  [rev |-> rev, refs |-> Rekey(graph.refs, graph.rev, rev),
       content |-> graph.content]

(* publish_navigation: an old graph under the next geometry revision.       *)
Renamed(graph) ==
  LET rev == BumpGeometry(current.rev)
  IN  [rev |-> rev, refs |-> Rekey(graph.refs, graph.rev, rev),
       content |-> graph.content]

Top(stack) == stack[Len(stack)]
Pop(stack) == SubSeq(stack, 1, Len(stack) - 1)

(***************************************************************************)
(* The methods that change the store.                                      *)
(***************************************************************************)

StoreInit(graph) ==
  /\ current = graph
  /\ history = [k \in {graph.rev} |-> graph]
  /\ undo_stack = << >>
  /\ redo_stack = << >>
  /\ issued = {graph}

(* Mutant of Commit: what was undone stays on the redo stack.               *)
CommitKeepsRedo(cs, expected_hash) ==
  /\ PreviewOk(cs)
  /\ PreviewOf(cs).hash = expected_hash
  /\ undo_stack' = Append(undo_stack, current)
  /\ UNCHANGED redo_stack
  /\ Publish(PreviewOf(cs).graph)

(* commit recomputes the preview and compares its hash with the reviewed    *)
(* one before it publishes the recomputed graph.                            *)
Commit(cs, expected_hash) ==
  /\ PreviewOk(cs)
  /\ PreviewOf(cs).hash = expected_hash
  /\ undo_stack' = Append(undo_stack, current)
  /\ redo_stack' = << >>
  /\ Publish(PreviewOf(cs).graph)

Undo ==
  /\ undo_stack # << >>
  /\ undo_stack' = Pop(undo_stack)
  /\ redo_stack' = Append(redo_stack, current)
  /\ Publish(Renamed(Top(undo_stack)))

Redo ==
  /\ redo_stack # << >>
  /\ redo_stack' = Pop(redo_stack)
  /\ undo_stack' = Append(undo_stack, current)
  /\ Publish(Renamed(Top(redo_stack)))

(* Mutant of ObservedAs: rewrites the references to the id it made up.      *)
ObservedAsRekeyed(graph) ==
  LET rev == IF graph.rev = current.rev
               THEN BumpGeometry(current.rev) ELSE graph.rev
  IN  [graph EXCEPT !.rev = rev, !.refs = rev]

(* observe: a graph that arrives under the current id is given the next     *)
(* geometry revision; its references keep the revision they came with.      *)
ObservedAs(graph) ==
  IF graph.rev = current.rev
    THEN [graph EXCEPT !.rev = BumpGeometry(current.rev)]
    ELSE graph

Observe(graph) ==
  /\ undo_stack' = Append(undo_stack, current)
  /\ redo_stack' = << >>
  /\ Publish(ObservedAs(graph))

(***************************************************************************)
(* What the store promises.                                                *)
(***************************************************************************)

StoreTypeOK ==
  /\ current \in Graphs
  /\ DOMAIN history \subseteq Revisions
  /\ \A k \in DOMAIN history : history[k] \in Graphs
  /\ undo_stack \in Seq(Graphs)
  /\ redo_stack \in Seq(Graphs)
  /\ issued \subseteq Graphs

(* Two graphs agree on everything the composite revision counts.            *)
SameModel(g, h) ==
  \A a \in Aspects \ {"visibility"} : g.content[a] = h.content[a]

(* A revision id names one model: no two graphs published under the same id *)
(* differ, in anything a revision counter stands for (apply_changeset,      *)
(* publish_navigation, observe).  Visibility has no counter in the store.   *)
RevisionNamesOneModel ==
  \A g, h \in issued : g.rev = h.rev => SameModel(g, h)

(* While no counter of a retained revision has more or fewer digits than    *)
(* the current one, trim_history evicts in order of publication and never   *)
(* the revision that was just published.                                    *)
SameWidth(a, b) ==
  /\ Len(Digits[a.geometry]) = Len(Digits[b.geometry])
  /\ Len(Digits[a.metadata]) = Len(Digits[b.metadata])
  /\ Len(Digits[a.focus]) = Len(Digits[b.focus])
  /\ Len(Digits[a.view]) = Len(Digits[b.view])

NewestRetained ==
  (\A k \in DOMAIN history : SameWidth(k, current.rev)) =>
    /\ current.rev \in DOMAIN history
    /\ history[current.rev] = current
    /\ \A g \in issued :
         /\ AdvancesFrom(current.rev, g.rev)
         /\ g.rev \notin DOMAIN history
         => \A k \in DOMAIN history : ~ AdvancesFrom(g.rev, k)

(* The record of the current revision can be looked up.                     *)
CurrentRetained ==
  /\ current.rev \in DOMAIN history
  /\ history[current.rev] = current

=============================================================================
