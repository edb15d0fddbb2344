------------------------------- MODULE Reading -------------------------------
(***************************************************************************)
(* An agent reads a document that changes meanwhile: it pages through the  *)
(* result of cad.query_entities with continuation tokens, and what the     *)
(* other reading tools answer is compared in every state with what they    *)
(* are for.  The sidecar keeps nothing between the calls: a token holds    *)
(* the hash of the query and an offset into a result made anew each time.  *)
(***************************************************************************)
EXTENDS Integers, FiniteSets, SequencesExt

CONSTANTS
  Graphs,      \* graphs the document may start with
  Labels,      \* labels an entity may have, besides none
  Queries,     \* queries but for their revision
  Contexts,    \* requests for a context
  Searches,    \* [ref, depth, relation]: what dependencies and
               \* neighbourhoods are asked for
  MaxRevision, \* bound on both counters
  Fixed,       \* see ContextCompiler
  Summary,     \* see ContextCompiler
  None         \* no label, query or token

(* References are ordered, and every entity has a label or none.            *)
IsGraph(g) ==
  /\ {"revision", "entities", "label"} \subseteq DOMAIN g
  /\ g.revision \in [geometry : Nat, rest : Nat]
  /\ g.entities \subseteq Nat /\ IsFiniteSet(g.entities)
  /\ g.entities \subseteq DOMAIN g.label
  /\ \A r \in g.entities : g.label[r] \in Labels \cup {None}

ASSUME ReadingAssumption ==
  /\ Labels \subseteq Nat /\ None \notin Nat
  /\ MaxRevision \in Nat
  /\ \A g \in Graphs : IsGraph(g)
  /\ \A q \in Queries :
       {"revision", "limit"} \subseteq DOMAIN q /\ q.limit \in Nat
  /\ \A request \in Contexts : request.max_entities \in Nat
  /\ \A s \in Searches : s.depth \in Nat

VARIABLES
  graph,      \* the graph of the session
  selection,  \* the references in its metadata
  query,      \* the query the agent is paging through, or None
  token,      \* the offset in its continuation token, or None
  got,        \* the matches on the pages it has got
  outcome,    \* "idle", "open", "done", "refused" or "panic"
  \* history variable
  whole       \* the result when the first page was made

vars == <<graph, selection, query, token, got, outcome, whole>>

QE == INSTANCE QueryEngine
CC == INSTANCE ContextCompiler

-----------------------------------------------------------------------------
(* The document changes and the session refreshes its graph. *)

(* Bound: what happens after the last page is not looked at.                *)
Reads == outcome \in {"idle", "open"}

(* An entity and the links it has go; every reference names its revision,   *)
(* but the same entity is meant.                                            *)
Edit(ref) ==
  /\ Reads
  /\ ref \in graph.entities /\ graph.revision.geometry < MaxRevision
  /\ graph' = [graph EXCEPT !.entities = @ \ {ref},
                            !.revision.geometry = @ + 1]
  /\ UNCHANGED <<selection, query, token, got, outcome, whole>>

Touched == [graph.revision EXCEPT !.rest = @ + 1]

Relabel(ref, label) ==
  /\ Reads
  /\ ref \in graph.entities /\ graph.revision.rest < MaxRevision
  /\ graph' = [graph EXCEPT !.label[ref] = label, !.revision = Touched]
  /\ UNCHANGED <<selection, query, token, got, outcome, whole>>

Select(refs) ==
  /\ Reads
  /\ refs # selection /\ graph.revision.rest < MaxRevision
  /\ selection' = refs
  /\ graph' = [graph EXCEPT !.revision = Touched]
  /\ UNCHANGED <<query, token, got, outcome, whole>>

-----------------------------------------------------------------------------
(* cad.query_entities *)

Result(q) == QE!Result(graph, q, selection)

(* A panic ends the sidecar and all of its sessions.                        *)
Answered(q, start, before) ==
  LET result == Result(q)  end == QE!PageEnd(start, q, result)
  IN  IF QE!Panics(start, result)
      THEN /\ outcome' = "panic"
           /\ UNCHANGED <<token, got>>
      ELSE /\ got' = before \o SubSeq(result, start + 1, end)
           /\ token' = IF end < Len(result) THEN end ELSE None
           /\ outcome' = IF end < Len(result) THEN "open" ELSE "done"

(* A query without a revision is given the current one.                     *)
Ask(q, revision) ==
  LET asked == [q EXCEPT !.revision = revision]
  IN  /\ outcome = "idle"
      /\ ~ QE!Refused(graph, asked)
      /\ query' = asked
      /\ whole' = Result(asked)
      /\ Answered(asked, 0, <<>>)
      /\ UNCHANGED <<graph, selection>>

(* The same query with the token: its hash is that of the first call.       *)
Continue ==
  /\ outcome = "open"
  /\ ~ QE!Refused(graph, query)
  /\ Answered(query, token, got)
  /\ UNCHANGED <<graph, selection, query, whole>>

ContinueRefused ==
  /\ outcome = "open"
  /\ QE!Refused(graph, query)
  /\ outcome' = "refused" /\ token' = None
  /\ UNCHANGED <<graph, selection, query, got, whole>>

Init ==
  /\ graph \in Graphs
  /\ selection \in SUBSET graph.entities
  /\ query = None
  /\ token = None
  /\ got = <<>>
  /\ outcome = "idle"
  /\ whole = <<>>

Next ==
  \/ \E ref \in graph.entities :
       Edit(ref) \/ \E label \in Labels \cup {None} : Relabel(ref, label)
  \/ \E refs \in SUBSET graph.entities : Select(refs)
  \/ \E q \in Queries,
        revision \in {graph.revision, QE!GeometryId(graph.revision)} :
       Ask(q, revision)
  \/ Continue \/ ContinueRefused

(* The agent asks for the next page as long as there is one.                *)
Fairness == WF_vars(Continue \/ ContinueRefused)

Spec == Init /\ [][Next]_vars /\ Fairness

-----------------------------------------------------------------------------

(* The pages of a query that names a revision in full are together the      *)
(* result it had when it was asked: in order, each match once and none left *)
(* out, whatever changes meanwhile.  Only a query that names its revision   *)
(* by geometry alone can have a token that points behind a result which has *)
(* shrunk since, and panic (execute, continuation_offset).                  *)
PagesAreTheResult ==
  query # None /\ query.revision.rest # None =>
    outcome # "panic" /\ (outcome = "done" => got = whole)

(* Paging comes to an end, also with a limit of zero (execute clamps it).   *)
PagingEnds == outcome = "open" ~> outcome # "open"

(* There is a walk of n links from one reference to another.                *)
Walk(from, to, n, relation) ==
  \E refs \in [0 .. n -> {from, to} \cup graph.entities] :
    /\ refs[0] = from /\ refs[n] = to
    /\ \A i \in 1 .. n :
         \E l \in graph.links : /\ l.from = refs[i - 1] /\ l.to = refs[i]
                                /\ l.from \in graph.entities
                                /\ l.relation = relation

(* A traversal step finds what walks of its relation within its depth lead  *)
(* to, whatever cycles and links to missing entities there are (traverse).  *)
Traverses(s) ==
  LET step == [relation |-> s.relation, depth |-> s.depth]
      ends == {l.to : l \in graph.links}
  IN  QE!Around(graph, s.ref, step) =
        {to \in ends \ {s.ref} :
           \E n \in 1 .. s.depth : Walk(s.ref, to, n, s.relation)}

(* Walks of at most depth links that enter no reference twice.              *)
SimpleWalks(ref, depth) ==
  {w \in UNION {[1 .. n -> graph.links] : n \in 1 .. depth} :
     /\ w[1].from = ref
     /\ \A i \in DOMAIN w :
          /\ w[i].from \in graph.entities /\ w[i].to # ref
          /\ i > 1 => w[i].from = w[i - 1].to
          /\ \A j \in DOMAIN w : w[i].to = w[j].to => i = j}

(* Every dependency within the depth is explained by every simple walk that *)
(* leads to it, in both directions.  A link of an entity to itself is the   *)
(* one cycle that is followed (explain_dependencies).                       *)
Explains(s) ==
  LET down == QE!Paths(graph, s.ref, "downstream", s.depth)
  IN  /\ SimpleWalks(s.ref, s.depth) \subseteq down
      /\ \A p \in down \ SimpleWalks(s.ref, s.depth) :
           p[1].from = s.ref /\ p[1].to = s.ref
      /\ \A ref \in graph.entities, p \in down :
           (Last(p).to = ref /\ p[1].to # s.ref) =>
             Reverse(p) \in QE!Paths(graph, ref, "upstream", s.depth)

(* inspect_entity lists the links of every entity that is fewer links away  *)
(* than the depth asked for, or than eight, and no others.                  *)
Inspects(s) ==
  LET levels == CC!Min({s.depth, CC!MaxNeighbourhood})
      near == {r \in graph.entities : \E n \in 0 .. levels - 1 :
                 \E refs \in [0 .. n -> graph.entities] :
                   /\ refs[0] = s.ref /\ refs[n] = r
                   /\ \A i \in 1 .. n : \E l \in graph.links :
                        l.from = refs[i - 1] /\ l.to = refs[i]}
  IN  CC!Inspect(graph, s.ref, s.depth) =
        {l \in graph.links : l.from \in near /\ l.to \in graph.entities}

(* The tools that read the graph are looked at where no query is under way. *)
Quiet == outcome = "idle" /\ graph.revision.rest = 0

(* The three searches along links, each with its own way to remember what   *)
(* it has seen, find what is there to be found: nothing is lost to a cycle  *)
(* or a shorter way, and nothing beyond the depth is found (traverse,       *)
(* explain_dependencies, inspect_entity).                                   *)
LinksAreFollowed ==
  (Quiet /\ selection = {}) => \A s \in Searches :
    Traverses(s) /\ (s.ref \in graph.entities => Explains(s) /\ Inspects(s))

(* A context that says it is complete has every entity of the graph, and    *)
(* what it drops ranks below what it keeps: no entity in focus goes while   *)
(* another stays.  One that is not complete names an omission, with the     *)
(* call that retrieves it, unless it is an analytical one cut by the entity *)
(* limit (assemble, ranked_entities, trim_to_budget).                       *)
ContextIsHonest ==
  Quiet => \A request \in Contexts :
    LET context == CC!Assemble(graph, request, selection)
        kept == Range(context.entities)
        focus == CC!Focus(graph, request, selection)
    IN  /\ context.complete => kept = graph.entities
        /\ focus \subseteq kept \/ kept \subseteq focus
        /\ \/ context.complete \/ context.omissions # {}
           \/ /\ request.detail = "analytical"
              /\ Len(context.entities) = request.max_entities

=============================================================================
