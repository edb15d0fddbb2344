------------------------------ MODULE MCReading ------------------------------
(***************************************************************************)
(* Reading for TLC: three entities with any of seven links among them, a    *)
(* cycle, a self-loop, two relations and a missing target included.        *)
(***************************************************************************)
EXTENDS Reading

Entities == 1 .. 3
Missing == 4

Link(from, relation, to) == [from |-> from, relation |-> relation, to |-> to]

LinkChoices ==
  {Link(1, "uses", 2), Link(2, "uses", 3), Link(3, "uses", 1),
   Link(2, "uses", 2), Link(1, "bounds", 3), Link(1, "uses", 3),
   Link(3, "uses", Missing)}

OneLabel == {0}

StartGraphs ==
  {[revision |-> [geometry |-> 0, rest |-> 0],
    entities |-> Entities, links |-> links, troubled |-> {1},
    label |-> [r \in Entities |-> IF r = 2 THEN 0 ELSE None]]
     : links \in SUBSET LinkChoices}

Step(relation, depth) == [relation |-> relation, depth |-> depth]

Query(scope, wanted, traverse, order, limit) ==
  [revision |-> None, scope |-> scope, refs |-> {1, Missing},
   wanted |-> wanted, traverse |-> traverse, order |-> order,
   limit |-> limit, budget |-> 100]

AnyLabel == {None, 0}

SomeQueries ==
  {Query("document", AnyLabel, <<>>, "asc", 1),
   Query("document", {None}, <<>>, "none", 2),
   Query("selection", AnyLabel, <<>>, "none", 0),
   Query("refs", AnyLabel, <<Step("uses", 2), Step("uses", 1)>>, "desc", 1)}

SomeContexts ==
  [refs : {{}, {2}}, use_selection : BOOLEAN, max_entities : {1, 2, 3},
   max_bytes : {1, 4, 6, 9}, detail : {"compact", "analytical"}]

SomeSearches == [ref : Entities, depth : 0 .. 3, relation : {"uses", "bounds"}]

SummarySizes == <<2, 1, 3>>

=============================================================================
