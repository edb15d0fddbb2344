----------------------------- MODULE QueryEngine -----------------------------
(***************************************************************************)
(* The query engine: execute, with its scopes, traversal, order and pages, *)
(* and explain_dependencies, as functions of a graph.                      *)
(*                                                                         *)
(* A graph is a record of its revision, its entities (references, ordered  *)
(* as numbers), their links and their labels.  Every entity has the same   *)
(* kind and no name, the fields compare_entities looks at before the       *)
(* reference; the label stands for any field a query filters or orders by. *)
(***************************************************************************)
EXTENDS Integers, FiniteSets, SequencesExt

CONSTANT None  \* no label, or no counters but geometry in a revision

Min2(a, b) == IF a < b THEN a ELSE b

-----------------------------------------------------------------------------
(* Revisions: [geometry, rest], where rest stands for all other counters. *)

GeometryId(revision) == [revision EXCEPT !.rest = None]

(* Mutant of Names: any id with the right geometry will do.                 *)
NamesLoosely(revision, g) == GeometryId(revision) = GeometryId(g.revision)

Names(revision, g) == revision \in {g.revision, GeometryId(g.revision)}

-----------------------------------------------------------------------------
(* traverse *)

Targets(g, ref, relation) ==
  {l.to : l \in {l \in g.links : /\ l.from = ref /\ l.from \in g.entities
                                 /\ l.relation = relation}}

(* What a search finds within so many links, its start included.            *)
Seen(g, start, relation, depth) ==
  LET seen[n \in Nat] ==
        IF n = 0 THEN {start}
        ELSE seen[n - 1] \cup UNION {Targets(g, r, relation) : r \in seen[n - 1]}
  IN  seen[depth]

Around(g, start, step) == Seen(g, start, step.relation, step.depth) \ {start}

Traverse(g, starts, steps) ==
  FoldLeft(LAMBDA current, step : UNION {Around(g, r, step) : r \in current},
           starts, steps)

-----------------------------------------------------------------------------
(* execute *)

MaxDepth == 8

MinLimit == 1
MaxLimit == 1000

Depth(q) == Max({0} \cup {q.traverse[i].depth : i \in DOMAIN q.traverse})

Scope(g, q, selection) ==
  CASE q.scope = "document"  -> g.entities
    [] q.scope = "selection" -> selection
    [] q.scope = "refs"      -> q.refs

SelectionEstimate == 8

EstimatedCost(g, q) ==
  LET scope == CASE q.scope = "document"  -> Cardinality(g.entities)
                 [] q.scope = "selection" -> SelectionEstimate
                 [] q.scope = "refs"      -> Cardinality(q.refs)
      traversal == FoldLeft(LAMBDA sum, step : sum + (step.depth + 1) * 4,
                            0, q.traverse)
  IN  scope * (1 + traversal)

Matches(g, q, ref) == ref \in g.entities /\ g.label[ref] \in q.wanted

(* A missing field comes before all others.                                 *)
Rank(label) == IF label = None THEN -1 ELSE label

Before(g, q, a, b) ==
  LET first == Rank(g.label[a])  second == Rank(g.label[b])
  IN  CASE q.order = "asc" /\ first # second  -> first < second
        [] q.order = "desc" /\ first # second -> second < first
        [] OTHER                              -> a < b

Found(g, q, selection) ==
  LET scope == Scope(g, q, selection)
      reached == IF q.traverse = <<>> THEN scope
                 ELSE Traverse(g, scope, q.traverse)
  IN  {r \in reached : Matches(g, q, r)}

(* The matches, each once, in the order asked for and then by reference.    *)
Result(g, q, selection) ==
  LET found == Found(g, q, selection)
  IN  CHOOSE s \in [1 .. Cardinality(found) -> found] :
        \A i, j \in DOMAIN s : i < j => Before(g, q, s[i], s[j])

Refused(g, q) ==
  ~ Names(q.revision, g) \/ Depth(q) > MaxDepth \/ EstimatedCost(g, q) > q.budget

(* Mutant of Limit: takes the limit as it is asked for.                     *)
LimitAsAsked(q) == q.limit

Limit(q) == Max({MinLimit, Min2(q.limit, MaxLimit)})

PageEnd(start, q, result) == Min2(start + Limit(q), Len(result))

(* The slice of an offset behind the end of the result is a panic.          *)
Panics(start, result) == start > Len(result)

-----------------------------------------------------------------------------
(* explain_dependencies: paths are sequences of [from, relation, to]. *)

Neighbours(g, ref, direction) ==
  IF direction = "upstream"
  THEN {l \in g.links : l.to = ref /\ l.from \in g.entities}
  ELSE {l \in g.links : l.from = ref /\ l.from \in g.entities}

Far(link, direction) == IF direction = "upstream" THEN link.from ELSE link.to

On(path, ref) == \E i \in DOMAIN path : ref \in {path[i].from, path[i].to}

(* Mutant of Closes: a reference is put on one path only.                   *)
ClosesAny(paths, path, ref) == \E other \in paths : On(other, ref)

(* Going on to ref would close a cycle.                                     *)
Closes(paths, path, ref) == On(path, ref)

Extensions(g, ref, direction, paths) ==
  LET End(path) == IF path = <<>> THEN ref ELSE Far(Last(path), direction)
      Open(path) == {l \in Neighbours(g, End(path), direction) :
                       ~ Closes(paths, path, Far(l, direction))}
  IN  UNION {{Append(path, l) : l \in Open(path)} : path \in paths}

Paths(g, ref, direction, depth) ==
  LET level[n \in Nat] == IF n = 0 THEN {<<>>}
                          ELSE Extensions(g, ref, direction, level[n - 1])
  IN  UNION {level[n] : n \in 1 .. depth}

=============================================================================
