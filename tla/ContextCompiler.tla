--------------------------- MODULE ContextCompiler ---------------------------
(***************************************************************************)
(* What the context compiler tells an agent about a graph: assemble, which *)
(* ranks the entities, cuts them to the budget and says what it left out,  *)
(* and inspect_entity, which follows the links around one entity.          *)
(*                                                                         *)
(* Graphs are those of QueryEngine.  The encoded size of a context is a    *)
(* fixed part and a part for each entity.                                  *)
(***************************************************************************)
EXTENDS Integers, FiniteSets, SequencesExt

CONSTANTS
  Fixed,   \* bytes of a context without entities
  Summary  \* Summary[ref]: bytes of the summary of an entity

-----------------------------------------------------------------------------
(* assemble *)

Focus(g, request, selection) ==
  g.entities \cap
    (request.refs \cup (IF request.use_selection THEN selection ELSE {}))

Score(g, request, selection, ref) ==
  <<IF ref \in Focus(g, request, selection) THEN 1 ELSE 0,
    IF ref \in g.troubled THEN 1 ELSE 0>>

(* Focus first, then entities with a diagnostic, then by reference, all in  *)
(* descending order.                                                        *)
Before(g, request, selection, a, b) ==
  LET first == Score(g, request, selection, a)
      second == Score(g, request, selection, b)
  IN  \/ first[1] > second[1]
      \/ first[1] = second[1] /\ first[2] > second[2]
      \/ first = second /\ a > b

Ranked(g, request, selection) ==
  CHOOSE s \in [1 .. Cardinality(g.entities) -> g.entities] :
    \A i, j \in DOMAIN s : i < j => Before(g, request, selection, s[i], s[j])

Encoded(entities) ==
  FoldLeft(LAMBDA sum, ref : sum + Summary[ref], Fixed, entities)

Fits(entities, request) == Encoded(entities) <= request.max_bytes

(* Mutant of Trim: drops from the front.                                    *)
TrimFront(entities, request) ==
  LET kept == {n \in 1 .. Len(entities) + 1 :
                 Fits(SubSeq(entities, n, Len(entities)), request)}
  IN  IF kept = {} THEN <<>> ELSE SubSeq(entities, Min(kept), Len(entities))

(* The last entity goes until the rest fits or nothing is left.             *)
Trim(entities, request) ==
  LET kept == {n \in 0 .. Len(entities) :
                 Fits(SubSeq(entities, 1, n), request)}
  IN  IF kept = {} THEN <<>> ELSE SubSeq(entities, 1, Max(kept))

Complete(g, selected, request) ==
  Len(selected) = Cardinality(g.entities) /\ Fits(selected, request)

(* An analytical context does not say that the limit left entities out.     *)
Omissions(g, selected, request) ==
  (IF /\ Len(selected) < Cardinality(g.entities)
      /\ request.detail # "analytical"
   THEN {"entities"} ELSE {})
    \cup (IF Fits(selected, request) THEN {} ELSE {"serialized_entity_detail"})

Assemble(g, request, selection) ==
  LET ranked == Ranked(g, request, selection)
      selected == SubSeq(ranked, 1, Min({Len(ranked), request.max_entities}))
  IN  [entities  |-> Trim(selected, request),
       complete  |-> Complete(g, selected, request),
       omissions |-> Omissions(g, selected, request)]

-----------------------------------------------------------------------------
(* inspect_entity *)

MaxNeighbourhood == 8

(* The links of an entity whose target the graph holds.                     *)
Links(g, ref) == {l \in g.links : l.from = ref /\ l.to \in g.entities}

(* The queue holds references with their distance; each is queued once.     *)
Inspect(g, ref, depth) ==
  LET levels == Min({depth, MaxNeighbourhood})
      search[n \in Nat] ==
        IF n = 0 THEN [queue |-> {ref}, visited |-> {ref}, links |-> {}]
        ELSE LET last == search[n - 1]
                 links == IF n - 1 < levels
                          THEN UNION {Links(g, r) : r \in last.queue} ELSE {}
                 found == {l.to : l \in links} \ last.visited
             IN  [queue |-> found, visited |-> last.visited \cup found,
                  links |-> last.links \cup links]
  IN  search[Cardinality(g.entities)].links

=============================================================================
