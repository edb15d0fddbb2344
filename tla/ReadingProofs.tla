---------------------------- MODULE ReadingProofs ----------------------------
(***************************************************************************)
(* Proofs about reading: the pages of a query are its result, a context    *)
(* says what it leaves out, and searches along links find what is there.   *)
(*                                                                         *)
(* Two rest on the order of entities: of a finite set and a strict total   *)
(* order on it there is a sequence in that order, which has every member.  *)
(* A token means what it meant when it was made because every change moves *)
(* the revision, and a query that names it in full is refused from then.   *)
(* The searches are recursive functions: each is shown to exist, and what  *)
(* it is after n rounds follows by induction.                              *)
(***************************************************************************)
EXTENDS Reading, FiniteSetTheorems, SequenceTheorems,
        WellFoundedInduction, TLAPS

(* The instances bring their own copy of what they extend.                  *)
LEMMA SameOperators ==
  ASSUME NEW S
  PROVE  /\ CC!Cardinality(S) = Cardinality(S)
         /\ QE!Cardinality(S) = Cardinality(S)
         /\ CC!Max(S) = Max(S) /\ CC!Min(S) = Min(S) /\ QE!Max(S) = Max(S)
<1>1. CC!Cardinality(S) = Cardinality(S)
  BY DEF CC!Cardinality, Cardinality
<1>2. QE!Cardinality(S) = Cardinality(S)
  BY DEF QE!Cardinality, Cardinality
<1>3. CC!Max(S) = Max(S) /\ CC!Min(S) = Min(S) /\ QE!Max(S) = Max(S)
  BY DEF CC!Max, CC!Min, QE!Max, Max, Min
<1> QED BY <1>1, <1>2, <1>3

-----------------------------------------------------------------------------
(* Sequences in an order.                                                  *)

StrictTotal(S, R) ==
  /\ \A a \in S : <<a, a>> \notin R
  /\ \A a, b, c \in S : <<a, b>> \in R /\ <<b, c>> \in R => <<a, c>> \in R
  /\ \A a, b \in S : a = b \/ <<a, b>> \in R \/ <<b, a>> \in R

Arranged(s, S, R) ==
  /\ s \in [1 .. Cardinality(S) -> S]
  /\ \A i, j \in 1 .. Cardinality(S) : i < j => <<s[i], s[j]>> \in R

(* The rank of an element is the number of those before it. *)
LEMMA ArrangementExists ==
  ASSUME NEW S, IsFiniteSet(S), NEW R, StrictTotal(S, R)
  PROVE  \E s : Arranged(s, S, R)
<1> DEFINE Earlier(x) == {y \in S : <<y, x>> \in R}
           n == Cardinality(S)
           rank == [x \in S |-> Cardinality(Earlier(x)) + 1]
<1>1. n \in Nat
  BY FS_CardinalityType
<1>2. ASSUME NEW x \in S
      PROVE  /\ IsFiniteSet(Earlier(x)) /\ Cardinality(Earlier(x)) \in Nat
             /\ Cardinality(Earlier(x)) < n
  <2>1. Earlier(x) \in SUBSET S /\ x \notin Earlier(x)
    BY DEF StrictTotal
  <2> HIDE DEF Earlier
  <2>2. /\ IsFiniteSet(Earlier(x)) /\ Cardinality(Earlier(x)) <= n
        /\ Cardinality(Earlier(x)) = n => Earlier(x) = S
    BY <2>1, FS_Subset
  <2>3. Cardinality(Earlier(x)) \in Nat
    BY <2>2, FS_CardinalityType
  <2> HIDE DEF n
  <2> QED BY <1>1, <2>1, <2>2, <2>3
<1>3. ASSUME NEW x \in S, NEW y \in S, <<x, y>> \in R
      PROVE  Cardinality(Earlier(x)) < Cardinality(Earlier(y))
  <2>1. Earlier(x) \in SUBSET Earlier(y)
    BY <1>3 DEF StrictTotal
  <2>2. x \in Earlier(y) /\ x \notin Earlier(x)
    BY <1>3 DEF StrictTotal
  <2>3. /\ IsFiniteSet(Earlier(y)) /\ Cardinality(Earlier(y)) \in Nat
        /\ Cardinality(Earlier(x)) \in Nat
    BY <1>2
  <2>4. Earlier(x) # Earlier(y)
    BY <2>2
  <2> HIDE DEF Earlier
  <2>5. /\ Cardinality(Earlier(x)) <= Cardinality(Earlier(y))
        /\ Cardinality(Earlier(x)) # Cardinality(Earlier(y))
    BY <2>1, <2>3, <2>4, FS_Subset
  <2> QED BY <2>3, <2>5
<1>4. rank \in [S -> 1 .. n]
  <2> HIDE DEF Earlier, n
  <2> QED BY <1>1, <1>2
<1>5. ASSUME NEW x \in S, NEW y \in S PROVE rank[x] < rank[y] <=> <<x, y>> \in R
  <2>1. /\ rank[x] = Cardinality(Earlier(x)) + 1
        /\ rank[y] = Cardinality(Earlier(y)) + 1
    OBVIOUS
  <2>2. Cardinality(Earlier(x)) \in Nat /\ Cardinality(Earlier(y)) \in Nat
    BY <1>2
  <2>3. x = y \/ <<x, y>> \in R \/ <<y, x>> \in R
    BY DEF StrictTotal
  <2>4. <<x, x>> \notin R
    BY DEF StrictTotal
  <2> HIDE DEF Earlier, rank
  <2> QED BY <1>3, <2>1, <2>2, <2>3, <2>4
<1>6. ASSUME NEW x \in S, NEW y \in S, rank[x] = rank[y] PROVE x = y
  <2>1. rank[x] \in Nat /\ rank[y] \in Nat
    BY <1>1, <1>4
  <2> HIDE DEF rank
  <2> QED BY <1>5, <1>6, <2>1 DEF StrictTotal
<1> HIDE DEF rank
<1>7. rank \in Surjection(S, 1 .. n)
  <2>1. rank \in Injection(S, 1 .. n)
    BY <1>4, <1>6 DEF Injection, IsInjective
  <2>2. IsFiniteSet(1 .. n) /\ Cardinality(1 .. n) = n
    <3>1. /\ IsFiniteSet(1 .. n)
          /\ Cardinality(1 .. n) = IF 1 > n THEN 0 ELSE n - 1 + 1
      BY <1>1, FS_Interval
    <3> HIDE DEF n
    <3> QED BY <1>1, <3>1
  <2>3. Cardinality(S) = Cardinality(1 .. n)
    BY <2>2
  <2> HIDE DEF n
  <2> QED BY <2>1, <2>2, <2>3, FS_Injection
<1> DEFINE s == [i \in 1 .. n |-> CHOOSE x \in S : rank[x] = i]
<1>8. \A i \in 1 .. n : s[i] \in S /\ rank[s[i]] = i
  BY <1>7 DEF Surjection
<1>9. s \in [1 .. n -> S]
  BY <1>8
<1>10. ASSUME NEW i \in 1 .. n, NEW j \in 1 .. n, i < j
       PROVE  <<s[i], s[j]>> \in R
  <2> HIDE DEF s
  <2> QED BY <1>5, <1>8, <1>10
<1> HIDE DEF s
<1> QED BY <1>9, <1>10 DEF Arranged

(* An arrangement has every member. *)
LEMMA ArrangementHasAll ==
  ASSUME NEW S, IsFiniteSet(S), NEW R, StrictTotal(S, R),
         NEW s, Arranged(s, S, R)
  PROVE  /\ \A x \in S : \E i \in 1 .. Cardinality(S) : s[i] = x
         /\ s \in Seq(S) /\ Len(s) = Cardinality(S)
<1> DEFINE n == Cardinality(S)
<1>1. n \in Nat
  BY FS_CardinalityType
<1>2. s \in [1 .. n -> S]
  BY DEF Arranged
<1>3. ASSUME NEW i \in 1 .. n, NEW j \in 1 .. n, s[i] = s[j] PROVE i = j
  <2>1. s[i] \in S /\ s[j] \in S
    BY <1>2
  <2>2. i < j => <<s[i], s[j]>> \in R
    BY DEF Arranged
  <2>3. j < i => <<s[j], s[i]>> \in R
    BY DEF Arranged
  <2>4. ~ (i < j) /\ ~ (j < i)
    BY <1>3, <2>1, <2>2, <2>3 DEF StrictTotal
  <2> HIDE DEF n
  <2> QED BY <1>1, <2>4
<1>4. s \in Surjection(1 .. n, S)
  <2>1. s \in Injection(1 .. n, S)
    BY <1>2, <1>3 DEF Injection, IsInjective
  <2>2. Cardinality(1 .. n) = n
    <3>1. Cardinality(1 .. n) = IF 1 > n THEN 0 ELSE n - 1 + 1
      BY <1>1, FS_Interval
    <3> HIDE DEF n
    <3> QED BY <1>1, <3>1
  <2> QED BY <2>1, <2>2, FS_Injection
<1>5. \A x \in S : \E i \in 1 .. n : s[i] = x
  BY <1>4 DEF Surjection
<1>6. s \in Seq(S) /\ Len(s) = n
  <2> HIDE DEF n
  <2> QED BY <1>1, <1>2
<1> QED BY <1>5, <1>6

-----------------------------------------------------------------------------
(* The result of a query.                                                  *)

(* Numbers in the order of a key, and of themselves where it is the same. *)
LEMMA KeyedOrderIsTotal ==
  ASSUME NEW S, S \subseteq Nat, NEW key \in [S -> Int], NEW R,
         \A a, b \in S :
           <<a, b>> \in R <=> key[a] < key[b] \/ (key[a] = key[b] /\ a < b)
  PROVE  StrictTotal(S, R)
<1>1. \A a \in S : a \in Nat /\ key[a] \in Int
  OBVIOUS
<1>2. \A a \in S : <<a, a>> \notin R
  BY <1>1
<1>3. \A a, b, c \in S : <<a, b>> \in R /\ <<b, c>> \in R => <<a, c>> \in R
  BY <1>1
<1>4. ASSUME NEW a \in S, NEW b \in S
      PROVE  a = b \/ <<a, b>> \in R \/ <<b, a>> \in R
  <2>1. a \in Nat /\ b \in Nat /\ key[a] \in Int /\ key[b] \in Int
    BY <1>1
  <2>2. key[a] < key[b] \/ key[b] < key[a] \/ key[a] = key[b]
    BY <2>1
  <2>3. a = b \/ a < b \/ b < a
    BY <2>1
  <2> QED BY <2>2, <2>3
<1> QED BY <1>2, <1>3, <1>4 DEF StrictTotal

(* Entities with other labels are apart by label, all others by reference. *)
LEMMA QueryOrderIsTotal ==
  ASSUME NEW g, IsGraph(g), NEW q, NEW S, S \subseteq g.entities
  PROVE  StrictTotal(S, {p \in S \X S : QE!Before(g, q, p[1], p[2])})
<1> DEFINE R == {p \in S \X S : QE!Before(g, q, p[1], p[2])}
           rank == [r \in S |-> QE!Rank(g.label[r])]
           key == [r \in S |-> CASE q.order = "asc"  -> rank[r]
                                 [] q.order = "desc" -> 0 - rank[r]
                                 [] OTHER            -> 0]
<1>1. S \subseteq Nat
  BY DEF IsGraph
<1>2. rank \in [S -> Int]
  <2> SUFFICES ASSUME NEW r \in S PROVE QE!Rank(g.label[r]) \in Int
    OBVIOUS
  <2>1. g.label[r] \in Labels \cup {None}
    BY DEF IsGraph
  <2>2. g.label[r] = None \/ g.label[r] \in Nat
    BY <2>1, ReadingAssumption
  <2>3. QE!Rank(g.label[r]) = -1 \/ QE!Rank(g.label[r]) \in Nat
    BY <2>2 DEF QE!Rank
  <2> QED BY <2>3
<1>3. \A a, b \in S :
        <<a, b>> \in R <=>
          CASE q.order = "asc" /\ rank[a] # rank[b]  -> rank[a] < rank[b]
            [] q.order = "desc" /\ rank[a] # rank[b] -> rank[b] < rank[a]
            [] OTHER                                 -> a < b
  BY DEF QE!Before
<1> HIDE DEF rank, R
<1>4. key \in [S -> Int]
  BY <1>2
<1>5. \A r \in S : rank[r] \in Int
  BY <1>2
<1>6. \A a, b \in S :
        <<a, b>> \in R <=> key[a] < key[b] \/ (key[a] = key[b] /\ a < b)
  <2> SUFFICES ASSUME NEW a \in S, NEW b \in S
               PROVE  <<a, b>> \in R
                        <=> key[a] < key[b] \/ (key[a] = key[b] /\ a < b)
    OBVIOUS
  <2> QED BY <1>1, <1>3, <1>5
<1> HIDE DEF key
<1>7. StrictTotal(S, R)
  BY <1>1, <1>4, <1>6, KeyedOrderIsTotal
<1> QED BY <1>7 DEF R

(* The result is a sequence of references, however the graph was searched. *)
LEMMA ResultIsSequence ==
  ASSUME NEW g, IsGraph(g), NEW q, NEW selected
  PROVE  QE!Result(g, q, selected) \in Seq(Nat)
<1> DEFINE S == QE!Found(g, q, selected)
           R == {p \in S \X S : QE!Before(g, q, p[1], p[2])}
           Sorted(s) == \A i, j \in DOMAIN s :
                          i < j => QE!Before(g, q, s[i], s[j])
<1>1. S \subseteq g.entities
  BY DEF QE!Found, QE!Matches
<1>2. IsFiniteSet(S) /\ S \subseteq Nat
  BY <1>1, FS_Subset DEF IsGraph
<1>3. StrictTotal(S, R)
  BY <1>1, QueryOrderIsTotal
<1>4. QE!Cardinality(S) = Cardinality(S)
  BY SameOperators
<1>5. QE!Result(g, q, selected)
        = CHOOSE s \in [1 .. Cardinality(S) -> S] : Sorted(s)
  BY <1>4 DEF QE!Result
<1>6. PICK s : Arranged(s, S, R)
  BY <1>2, <1>3, ArrangementExists
<1>7. s \in [1 .. Cardinality(S) -> S] /\ Sorted(s)
  <2> HIDE DEF S
  <2> QED BY <1>6 DEF Arranged
<1>8. QE!Result(g, q, selected) \in [1 .. Cardinality(S) -> S]
  <2> HIDE DEF S, Sorted
  <2> QED BY <1>5, <1>7
<1>9. Cardinality(S) \in Nat
  BY <1>2, FS_CardinalityType
<1>10. QE!Result(g, q, selected) \in [1 .. Cardinality(S) -> Nat]
  <2> HIDE DEF S
  <2> QED BY <1>2, <1>8
<1> DEFINE n == Cardinality(S)
<1>11. \A f \in [1 .. n -> Nat] : f \in Seq(Nat)
  <2> HIDE DEF n
  <2> QED BY <1>9 DEF n
<1> QED BY <1>10, <1>11

(* A limit of zero is one. *)
LEMMA LimitIsPositive ==
  ASSUME NEW q, q.limit \in Nat
  PROVE  QE!Limit(q) \in Nat \ {0}
<1> DEFINE S == {1, QE!Min2(q.limit, 1000)}
<1>1. QE!Min2(q.limit, 1000) \in Nat
  BY DEF QE!Min2
<1>2. \E x \in S : \A y \in S : x >= y
  BY <1>1
<1>3. QE!Limit(q) = Max(S)
  BY SameOperators DEF QE!Limit, QE!MinLimit, QE!MaxLimit, QE!Max, Max
<1>4. Max(S) \in S /\ \A y \in S : Max(S) >= y
  <2> HIDE DEF S
  <2> QED BY <1>2 DEF Max
<1> QED BY <1>1, <1>3, <1>4

-----------------------------------------------------------------------------
(* The pages of a query.                                                   *)

Names(revision) == revision \in {graph.revision, QE!GeometryId(graph.revision)}

(* A query that names its revision in full is under way. *)
Pinned == query # None /\ query.revision.rest # None

Revisions == [geometry : Nat, rest : Nat]

(* While the revision is the one named, the result is that of the start. *)
StillTheResult ==
  /\ query.limit \in Nat /\ query.revision \in Revisions
  /\ query.revision.geometry <= graph.revision.geometry
  /\ query.revision.rest <= graph.revision.rest
  /\ query.revision = graph.revision => Result(query) = whole

(* The pages the agent has end at its token. *)
PagesSoFar ==
  whole \in Seq(Nat) /\ token \in 0 .. Len(whole)
    /\ got = SubSeq(whole, 1, token)

PinnedPages ==
  Pinned => /\ outcome # "panic"
            /\ outcome = "done" => got = whole
            /\ outcome = "open" => StillTheResult /\ PagesSoFar

IInv == IsGraph(graph) /\ PinnedPages

THEOREM InitIInv == Init => IInv
<1> SUFFICES ASSUME Init PROVE IInv
  OBVIOUS
<1>1. IsGraph(graph)
  BY ReadingAssumption DEF Init
<1>2. PinnedPages
  BY DEF Init, PinnedPages, Pinned
<1> QED BY <1>1, <1>2 DEF IInv

(* A change of the document moves the revision. *)
LEMMA ChangesMoveOn ==
  ASSUME IInv, IsGraph(graph'), graph'.revision # graph.revision,
         graph'.revision.geometry >= graph.revision.geometry,
         graph'.revision.rest >= graph.revision.rest,
         UNCHANGED <<query, token, got, outcome, whole>>
  PROVE  IInv'
<1> SUFFICES ASSUME Pinned', outcome' = "open"
             PROVE  StillTheResult' /\ PagesSoFar'
  BY DEF IInv, PinnedPages, Pinned
<1>1. StillTheResult /\ PagesSoFar
  BY DEF IInv, PinnedPages, Pinned
<1>2. PagesSoFar'
  BY <1>1 DEF PagesSoFar
<1>3. /\ graph.revision \in Revisions /\ graph'.revision \in Revisions
      /\ query'.revision = query.revision /\ query'.limit = query.limit
  BY DEF IInv, IsGraph, Revisions
<1>4. /\ query.revision.geometry <= graph.revision.geometry
      /\ query.revision.rest <= graph.revision.rest
      /\ query.revision \in Revisions /\ query.limit \in Nat
  BY <1>1 DEF StillTheResult
<1>5. /\ query.revision.geometry <= graph'.revision.geometry
      /\ query.revision.rest <= graph'.revision.rest
  BY <1>3, <1>4 DEF Revisions
<1>6. query.revision # graph'.revision
  BY <1>3, <1>4 DEF Revisions
<1>7. StillTheResult'
  BY <1>3, <1>4, <1>5, <1>6 DEF StillTheResult
<1> QED BY <1>2, <1>7

(* A page from the offset the pages before it end at. *)
LEMMA AnsweredGoesOn ==
  ASSUME NEW q, q.limit \in Nat, NEW start, NEW result, NEW before,
         result = Result(q), result \in Seq(Nat), start \in 0 .. Len(result),
         before = SubSeq(result, 1, start), Answered(q, start, before),
         result = whole'
  PROVE  /\ outcome' \in {"open", "done"}
         /\ outcome' = "done" => got' = whole'
         /\ outcome' = "open" => PagesSoFar'
<1> DEFINE n == Len(result)
           end == QE!PageEnd(start, q, result)
<1>1. n \in Nat /\ start \in Nat /\ start <= n
  OBVIOUS
<1>2. QE!Limit(q) \in Nat
  BY LimitIsPositive
<1>3. end \in start .. n
  BY <1>1, <1>2 DEF QE!PageEnd, QE!Min2
<1>4. ~ QE!Panics(start, result)
  BY <1>1 DEF QE!Panics
<1>5. /\ got' = before \o SubSeq(result, start + 1, end)
      /\ token' = IF end < n THEN end ELSE None
      /\ outcome' = IF end < n THEN "open" ELSE "done"
  BY <1>4 DEF Answered
<1> HIDE DEF end
<1>6. got' = SubSeq(result, 1, end)
  <2>1. 1 \in 1 .. Len(result) + 1 /\ start \in 1 - 1 .. Len(result)
    BY <1>1
  <2> QED BY <1>3, <1>5, <2>1, ConcatAdjacentSubSeq
<1>7. CASE end < n
  <2>1. outcome' = "open" /\ token' = end
    BY <1>5, <1>7
  <2>2. PagesSoFar'
    BY <1>1, <1>3, <1>6, <2>1 DEF PagesSoFar
  <2> QED BY <2>1, <2>2
<1>8. CASE end = n
  <2>1. outcome' = "done"
    BY <1>1, <1>5, <1>8
  <2>2. got' = whole'
    BY <1>6, <1>8, SubSeqFull
  <2> QED BY <2>1, <2>2
<1> QED BY <1>1, <1>3, <1>7, <1>8

(* The first page: of a query that names the revision in full, the result   *)
(* is the one the pages are to make.                                        *)
LEMMA AskKeepsIInv ==
  ASSUME IInv, NEW q \in Queries, NEW revision, Names(revision),
         Ask(q, revision)
  PROVE  IInv'
<1> DEFINE asked == [q EXCEPT !.revision = revision]
<1>1. /\ query' = asked /\ whole' = Result(asked)
      /\ Answered(asked, 0, <<>>)
      /\ UNCHANGED <<graph, selection>>
  BY DEF Ask
<1>2. asked.revision = revision /\ asked.limit = q.limit /\ q.limit \in Nat
  BY ReadingAssumption
<1>3. IsGraph(graph')
  BY <1>1 DEF IInv
<1> HIDE DEF asked
<1>4. Result(asked) \in Seq(Nat)
  BY ResultIsSequence DEF Result, IInv
<1>5. PICK result : result = Result(asked)
  OBVIOUS
<1>6. result \in Seq(Nat) /\ <<>> = SubSeq(result, 1, 0)
  BY <1>4, <1>5, SubSeqEmpty
<1>7. /\ outcome' \in {"open", "done"}
      /\ outcome' = "done" => got' = whole'
      /\ outcome' = "open" => PagesSoFar'
  <2>1. 0 \in 0 .. Len(result)
    BY <1>6
  <2> QED BY <1>1, <1>2, <1>5, <1>6, <2>1, AnsweredGoesOn
<1>8. ASSUME Pinned' PROVE StillTheResult'
  <2>1. revision.rest # None
    BY <1>1, <1>2, <1>8 DEF Pinned
  <2>2. graph.revision \in Revisions
    BY DEF IInv, IsGraph, Revisions
  <2>3. revision = graph.revision
    BY <2>1, <2>2 DEF Names, QE!GeometryId, Revisions
  <2>5. Result(query)' = whole'
    BY <1>1 DEF Result
  <2>6. graph'.revision.geometry \in Nat /\ graph'.revision.rest \in Nat
    BY <1>1, <2>2 DEF Revisions
  <2> QED BY <1>1, <1>2, <2>2, <2>3, <2>5, <2>6 DEF StillTheResult
<1>9. PinnedPages'
  BY <1>7, <1>8 DEF PinnedPages
<1> QED BY <1>3, <1>9 DEF IInv

(* A later page: the query is answered only while the revision it names is  *)
(* the graph's, so its result is the one the token was made for.            *)
LEMMA ContinueKeepsIInv ==
  ASSUME IInv, Continue
  PROVE  IInv'
<1>1. /\ outcome = "open" /\ ~ QE!Refused(graph, query)
      /\ Answered(query, token, got)
      /\ UNCHANGED <<graph, selection, query, whole>>
  BY DEF Continue
<1>2. IsGraph(graph')
  BY <1>1 DEF IInv
<1>3. ASSUME Pinned'
      PROVE  /\ outcome' \in {"open", "done"}
             /\ outcome' = "done" => got' = whole'
             /\ outcome' = "open" => StillTheResult' /\ PagesSoFar'
  <2>1. Pinned
    BY <1>1, <1>3 DEF Pinned
  <2>2. StillTheResult /\ PagesSoFar
    BY <1>1, <2>1 DEF IInv, PinnedPages
  <2>3. query.revision = graph.revision
    <3>1. Names(query.revision)
      BY <1>1 DEF QE!Refused, QE!Names, Names
    <3>2. graph.revision \in Revisions
      BY DEF IInv, IsGraph, Revisions
    <3> QED BY <2>1, <3>1, <3>2 DEF Pinned, Names, QE!GeometryId, Revisions
  <2>4. Result(query) = whole /\ query.limit \in Nat
    BY <2>2, <2>3 DEF StillTheResult
  <2>5. PICK result : result = whole
    OBVIOUS
  <2>6. /\ result = Result(query) /\ result = whole' /\ result \in Seq(Nat)
        /\ token \in 0 .. Len(result) /\ got = SubSeq(result, 1, token)
    BY <1>1, <2>2, <2>4, <2>5 DEF PagesSoFar
  <2>7. /\ outcome' \in {"open", "done"}
        /\ outcome' = "done" => got' = whole'
        /\ outcome' = "open" => PagesSoFar'
    BY <1>1, <2>4, <2>6, AnsweredGoesOn
  <2>8. StillTheResult'
    BY <1>1, <2>2 DEF StillTheResult, Result
  <2> QED BY <2>7, <2>8
<1>4. PinnedPages'
  BY <1>3 DEF PinnedPages
<1> QED BY <1>2, <1>4 DEF IInv

THEOREM NextIInv == IInv /\ [Next]_vars => IInv'
<1> SUFFICES ASSUME IInv, [Next]_vars PROVE IInv'
  OBVIOUS
<1>1. ASSUME NEW ref \in graph.entities, Edit(ref) PROVE IInv'
  <2>1. /\ graph' = [graph EXCEPT !.entities = @ \ {ref},
                                  !.revision.geometry = @ + 1]
        /\ UNCHANGED <<query, token, got, outcome, whole>>
    BY <1>1 DEF Edit
  <2>2. graph.revision \in Revisions /\ IsGraph(graph)
    BY DEF IInv, IsGraph, Revisions
  <2>3. /\ graph'.entities = graph.entities \ {ref}
        /\ graph'.label = graph.label /\ DOMAIN graph' = DOMAIN graph
        /\ graph'.revision = [graph.revision EXCEPT !.geometry = @ + 1]
    BY <2>1, <2>2 DEF IsGraph
  <2>4. /\ graph'.revision \in Revisions
        /\ graph'.revision.geometry = graph.revision.geometry + 1
        /\ graph'.revision.rest = graph.revision.rest
    BY <2>2, <2>3 DEF Revisions
  <2>5. IsFiniteSet(graph'.entities)
    BY <2>2, <2>3, FS_RemoveElement DEF IsGraph
  <2>6. IsGraph(graph')
    BY <2>2, <2>3, <2>4, <2>5 DEF IsGraph, Revisions
  <2>7. /\ graph'.revision # graph.revision
        /\ graph'.revision.geometry >= graph.revision.geometry
        /\ graph'.revision.rest >= graph.revision.rest
    BY <2>2, <2>4 DEF Revisions
  <2> QED BY <2>1, <2>6, <2>7, ChangesMoveOn
<1>2. ASSUME graph'.revision = Touched, graph.revision \in Revisions
      PROVE  /\ graph'.revision \in Revisions
             /\ graph'.revision # graph.revision
             /\ graph'.revision.geometry >= graph.revision.geometry
             /\ graph'.revision.rest >= graph.revision.rest
  BY <1>2 DEF Touched, Revisions
<1>3. ASSUME NEW ref \in graph.entities, NEW label \in Labels \cup {None},
             Relabel(ref, label)
      PROVE  IInv'
  <2>1. /\ graph' = [graph EXCEPT !.label[ref] = label, !.revision = Touched]
        /\ UNCHANGED <<query, token, got, outcome, whole>>
    BY <1>3 DEF Relabel
  <2>2. graph.revision \in Revisions /\ IsGraph(graph)
    BY DEF IInv, IsGraph, Revisions
  <2>3. /\ graph'.entities = graph.entities
        /\ graph'.label = [graph.label EXCEPT ![ref] = label]
        /\ DOMAIN graph' = DOMAIN graph /\ graph'.revision = Touched
    BY <2>1, <2>2 DEF IsGraph
  <2>4. IsGraph(graph')
    BY <1>2, <2>2, <2>3 DEF IsGraph, Revisions
  <2> QED BY <1>2, <2>1, <2>2, <2>3, <2>4, ChangesMoveOn
<1>4. ASSUME NEW refs \in SUBSET graph.entities, Select(refs) PROVE IInv'
  <2>1. /\ graph' = [graph EXCEPT !.revision = Touched]
        /\ UNCHANGED <<query, token, got, outcome, whole>>
    BY <1>4 DEF Select
  <2>2. graph.revision \in Revisions /\ IsGraph(graph)
    BY DEF IInv, IsGraph, Revisions
  <2>3. /\ graph'.entities = graph.entities /\ graph'.label = graph.label
        /\ DOMAIN graph' = DOMAIN graph /\ graph'.revision = Touched
    BY <2>1, <2>2 DEF IsGraph
  <2>4. IsGraph(graph')
    BY <1>2, <2>2, <2>3 DEF IsGraph, Revisions
  <2> QED BY <1>2, <2>1, <2>2, <2>3, <2>4, ChangesMoveOn
<1>5. ASSUME NEW q \in Queries,
             NEW revision \in {graph.revision, QE!GeometryId(graph.revision)},
             Ask(q, revision)
      PROVE  IInv'
  BY <1>5, AskKeepsIInv DEF Names
<1>6. CASE Continue
  BY <1>6, ContinueKeepsIInv
<1>7. CASE ContinueRefused
  BY <1>7 DEF ContinueRefused, IInv, PinnedPages, Pinned
<1>8. CASE UNCHANGED vars
  BY <1>8 DEF vars, IInv, PinnedPages, Pinned, StillTheResult, PagesSoFar,
              Result
<1> QED BY <1>1, <1>3, <1>4, <1>5, <1>6, <1>7, <1>8 DEF Next

THEOREM InvariantHolds == Spec => []IInv
BY InitIInv, NextIInv, PTL DEF Spec

(* The pages of a query that names its revision in full make its result     *)
(* (execute, continuation_offset).                                          *)
THEOREM PagesMakeTheResult == Spec => []PagesAreTheResult
<1>1. IInv => PagesAreTheResult
  BY DEF IInv, PinnedPages, Pinned, PagesAreTheResult
<1> QED BY <1>1, InvariantHolds, PTL

-----------------------------------------------------------------------------
(* What a context says.                                                    *)

(* Descending by focus, by diagnostics and by reference. *)
LEMMA RankingIsTotal ==
  ASSUME NEW S, S \subseteq Nat, NEW F \in [S -> {0, 1}],
         NEW D \in [S -> {0, 1}], NEW R,
         \A a, b \in S :
           <<a, b>> \in R <=> \/ F[a] > F[b]
                              \/ F[a] = F[b] /\ D[a] > D[b]
                              \/ F[a] = F[b] /\ D[a] = D[b] /\ a > b
  PROVE  StrictTotal(S, R)
<1>1. \A a \in S : a \in Nat /\ F[a] \in {0, 1} /\ D[a] \in {0, 1}
  OBVIOUS
<1>2. \A a \in S : <<a, a>> \notin R
  BY <1>1
<1>3. ASSUME NEW a \in S, NEW b \in S, NEW c \in S,
             <<a, b>> \in R, <<b, c>> \in R
      PROVE  <<a, c>> \in R
  <2>1. \A x \in {a, b, c} : /\ x \in Nat /\ F[x] \in Int /\ D[x] \in Int
    BY <1>1
  <2> QED BY <1>3, <2>1
<1>4. ASSUME NEW a \in S, NEW b \in S
      PROVE  a = b \/ <<a, b>> \in R \/ <<b, a>> \in R
  <2>1. a = b \/ a > b \/ b > a
    BY <1>1
  <2>2. F[a] = F[b] \/ F[a] > F[b] \/ F[b] > F[a]
    BY <1>1
  <2>3. D[a] = D[b] \/ D[a] > D[b] \/ D[b] > D[a]
    BY <1>1
  <2> QED BY <2>1, <2>2, <2>3
<1> QED BY <1>2, <1>3, <1>4 DEF StrictTotal

(* All entities are ranked, those in focus first. *)
LEMMA FocusIsFirst ==
  ASSUME NEW g, IsGraph(g), NEW request, NEW selected
  PROVE  LET s == CC!Ranked(g, request, selected)
             n == Cardinality(g.entities)
             focus == CC!Focus(g, request, selected)
         IN  /\ n \in Nat /\ s \in Seq(g.entities) /\ Len(s) = n
             /\ \A x \in g.entities : \E i \in 1 .. n : s[i] = x
             /\ \A i, j \in 1 .. n :
                  i < j /\ s[j] \in focus => s[i] \in focus
<1> DEFINE S == g.entities
           n == Cardinality(S)
           focus == CC!Focus(g, request, selected)
           F == [r \in S |-> IF r \in focus THEN 1 ELSE 0]
           D == [r \in S |-> IF r \in g.troubled THEN 1 ELSE 0]
           R == {p \in S \X S : CC!Before(g, request, selected, p[1], p[2])}
           Sorted(s) == \A i, j \in DOMAIN s :
                          i < j => CC!Before(g, request, selected, s[i], s[j])
           ranked == CC!Ranked(g, request, selected)
<1>1. S \subseteq Nat /\ IsFiniteSet(S)
  BY DEF IsGraph
<1>2. n \in Nat
  BY <1>1, FS_CardinalityType
<1>3. F \in [S -> {0, 1}] /\ D \in [S -> {0, 1}]
  OBVIOUS
<1>4. \A r \in S : CC!Score(g, request, selected, r) = <<F[r], D[r]>>
  BY DEF CC!Score
<1>5. ASSUME NEW a \in S, NEW b \in S
      PROVE  <<a, b>> \in R <=> \/ F[a] > F[b]
                                \/ F[a] = F[b] /\ D[a] > D[b]
                                \/ F[a] = F[b] /\ D[a] = D[b] /\ a > b
  <2>1. <<a, b>> \in R <=> CC!Before(g, request, selected, a, b)
    OBVIOUS
  <2> HIDE DEF R, F, D
  <2>2. <<F[a], D[a]>> = <<F[b], D[b]>> <=> F[a] = F[b] /\ D[a] = D[b]
    OBVIOUS
  <2> QED BY <1>4, <2>1, <2>2 DEF CC!Before
<1>6. StrictTotal(S, R)
  <2> HIDE DEF F, D, R
  <2> QED BY <1>1, <1>3, <1>5, RankingIsTotal
<1>7. ranked = CHOOSE s \in [1 .. n -> S] : Sorted(s)
  BY SameOperators DEF CC!Ranked
<1>8. PICK t : Arranged(t, S, R)
  BY <1>1, <1>6, ArrangementExists
<1>9. t \in [1 .. n -> S] /\ Sorted(t)
  <2> HIDE DEF S
  <2> QED BY <1>8 DEF Arranged
<1>10. ranked \in [1 .. n -> S] /\ Sorted(ranked)
  <2> HIDE DEF S, n, Sorted, ranked
  <2> QED BY <1>7, <1>9
<1>11. Arranged(ranked, S, R)
  <2>1. \A i, j \in 1 .. n : i < j => <<ranked[i], ranked[j]>> \in R
    <3> HIDE DEF ranked, n, S
    <3> QED BY <1>10
  <2> HIDE DEF S, R, ranked
  <2> QED BY <1>10, <2>1 DEF Arranged
<1>12. /\ \A x \in S : \E i \in 1 .. n : ranked[i] = x
       /\ ranked \in Seq(S) /\ Len(ranked) = n
  <2> HIDE DEF R, ranked
  <2> QED BY <1>1, <1>6, <1>11, ArrangementHasAll
<1>13. ASSUME NEW i \in 1 .. n, NEW j \in 1 .. n, i < j, ranked[j] \in focus
       PROVE  ranked[i] \in focus
  <2>1. ranked[i] \in S /\ ranked[j] \in S
    BY <1>10
  <2>2. <<ranked[i], ranked[j]>> \in R
    <3> HIDE DEF ranked, R
    <3> QED BY <1>11, <1>13 DEF Arranged
  <2>3. F[ranked[i]] >= F[ranked[j]]
    <3> HIDE DEF ranked, R, F, D
    <3> QED BY <1>3, <1>5, <2>1, <2>2
  <2> HIDE DEF ranked, focus
  <2> QED BY <1>13, <2>1, <2>3
<1> QED BY <1>2, <1>12, <1>13

(* The greatest of some numbers below a bound. *)
LEMMA GreatestIsKept ==
  ASSUME NEW m \in Nat, NEW T \in SUBSET (0 .. m), T # {}
  PROVE  Max(T) \in T /\ \A x \in T : Max(T) >= x
<1> DEFINE Below == {0 .. k : k \in T}
           Inside == StrictSubsetOrdering(0 .. m)
           Outside == {S \in SUBSET (0 .. m) : \E U \in Below : S = 0 .. m \ U}
<1>1. IsWellFoundedOn(Inside, SUBSET (0 .. m))
  <2>1. IsFiniteSet(0 .. m)
    BY FS_Interval
  <2> QED BY <2>1, FS_StrictSubsetOrderingWellFounded, FS_FiniteSubsetsOfFinite
<1>2. Outside \subseteq SUBSET (0 .. m) /\ Outside # {}
  <2>1. PICK k \in T : TRUE
    OBVIOUS
  <2>2. 0 .. m \ 0 .. k \in Outside
    BY <2>1
  <2> QED BY <2>2
<1>3. PICK V \in Outside : \A W \in Outside : ~ (<<W, V>> \in Inside)
  <2> HIDE DEF Outside, Inside
  <2> QED BY <1>1, <1>2, WFMin
<1>4. PICK k \in T : V = 0 .. m \ 0 .. k
  BY <1>3
<1>5. ASSUME NEW x \in T, x > k PROVE FALSE
  <2>1. x \in 0 .. m /\ k \in 0 .. m /\ x \in Nat /\ k \in Nat
    BY <1>4
  <2>2. PICK W : W = 0 .. m \ 0 .. x
    OBVIOUS
  <2>3. W \in Outside
    BY <2>1, <2>2
  <2>4. W \subseteq V /\ x \in V /\ x \notin W
    BY <1>4, <1>5, <2>1, <2>2
  <2>5. W \in SUBSET (0 .. m) /\ V \in SUBSET (0 .. m)
    BY <2>2, <1>4
  <2>6. <<W, V>> \in Inside
    BY <2>4, <2>5 DEF StrictSubsetOrdering
  <2> HIDE DEF Outside, Inside
  <2> QED BY <1>3, <2>3, <2>6
<1>6. \A x \in T : x \in Nat
  OBVIOUS
<1>7. k \in T /\ \A x \in T : k >= x
  BY <1>4, <1>5, <1>6
<1> QED BY <1>7 DEF Max

(* What is trimmed is a prefix, the whole of it if it fits. *)
LEMMA TrimIsPrefix ==
  ASSUME NEW X, NEW s \in Seq(X), NEW request
  PROVE  \E k \in 0 .. Len(s) :
           /\ CC!Trim(s, request) = SubSeq(s, 1, k)
           /\ CC!Fits(s, request) => k = Len(s)
<1> DEFINE kept == {n \in 0 .. Len(s) : CC!Fits(SubSeq(s, 1, n), request)}
<1>1. CC!Trim(s, request)
        = IF kept = {} THEN <<>> ELSE SubSeq(s, 1, Max(kept))
  BY SameOperators DEF CC!Trim
<1>2. Len(s) \in Nat /\ SubSeq(s, 1, Len(s)) = s
  BY SubSeqFull
<1>3. ASSUME CC!Fits(s, request) PROVE Len(s) \in kept
  <2>1. CC!Encoded(SubSeq(s, 1, Len(s))) = CC!Encoded(s)
    BY <1>2
  <2>2. CC!Fits(SubSeq(s, 1, Len(s)), request)
    BY <1>3, <2>1 DEF CC!Fits
  <2>3. Len(s) \in 0 .. Len(s)
    BY <1>2
  <2> QED BY <2>2, <2>3
<1>4. kept \in SUBSET (0 .. Len(s))
  OBVIOUS
<1> HIDE DEF kept
<1>5. CASE kept = {}
  <2>1. CC!Trim(s, request) = SubSeq(s, 1, 0)
    BY <1>1, <1>5, SubSeqEmpty
  <2>2. 0 \in 0 .. Len(s) /\ ~ CC!Fits(s, request)
    BY <1>2, <1>3, <1>5
  <2> QED BY <2>1, <2>2
<1>6. CASE kept # {}
  <2>1. Max(kept) \in kept /\ \A x \in kept : Max(kept) >= x
    BY <1>2, <1>4, <1>6, GreatestIsKept
  <2>2. PICK k : k = Max(kept)
    OBVIOUS
  <2>3. k \in 0 .. Len(s)
    BY <1>4, <2>1, <2>2
  <2>4. ASSUME CC!Fits(s, request) PROVE k = Len(s)
    <3>1. k >= Len(s)
      BY <1>3, <2>1, <2>2, <2>4
    <3>2. Len(s) \in Nat /\ k \in Int /\ k <= Len(s)
      BY <1>2, <2>3
    <3> QED BY <3>1, <3>2
  <2>5. CC!Trim(s, request) = SubSeq(s, 1, k)
    BY <1>1, <1>6, <2>2
  <2> QED BY <2>3, <2>4, <2>5
<1> QED BY <1>5, <1>6

(* What a context keeps is a prefix of the ranking, so nothing it drops     *)
(* ranks above what it keeps.                                               *)
LEMMA AssembleIsHonest ==
  ASSUME NEW g, IsGraph(g), NEW request, request.max_entities \in Nat,
         NEW selected
  PROVE  LET context == CC!Assemble(g, request, selected)
             kept == Range(context.entities)
             focus == CC!Focus(g, request, selected)
         IN  /\ context.complete => kept = g.entities
             /\ focus \subseteq kept \/ kept \subseteq focus
             /\ \/ context.complete \/ context.omissions # {}
                \/ /\ request.detail = "analytical"
                   /\ Len(context.entities) = request.max_entities
<1> DEFINE S == g.entities
           context == CC!Assemble(g, request, selected)
           focus == CC!Focus(g, request, selected)
<1>1. PICK ranked : ranked = CC!Ranked(g, request, selected)
  OBVIOUS
<1>2. PICK n : n = Cardinality(S)
  OBVIOUS
<1>3. /\ n \in Nat /\ ranked \in Seq(S) /\ Len(ranked) = n
      /\ \A x \in S : \E i \in 1 .. n : ranked[i] = x
      /\ \A i, j \in 1 .. n :
           i < j /\ ranked[j] \in focus => ranked[i] \in focus
  BY <1>1, <1>2, FocusIsFirst
<1>4. PICK m : m = Min({n, request.max_entities})
  OBVIOUS
<1>5. m \in 0 .. n /\ (m = n \/ m = request.max_entities)
  <2>1. \E x \in {n, request.max_entities} :
          \A y \in {n, request.max_entities} : x <= y
    BY <1>3
  <2>2. /\ m \in {n, request.max_entities}
        /\ \A y \in {n, request.max_entities} : m <= y
    BY <1>4, <2>1 DEF Min
  <2> QED BY <1>3, <2>2
<1>6. PICK part : part = SubSeq(ranked, 1, m)
  OBVIOUS
<1>7. part \in Seq(S) /\ Len(part) = m /\ \A i \in 1 .. m : part[i] = ranked[i]
  <2>1. m \in Nat /\ \A i \in 1 .. m : ranked[i] \in S
    BY <1>3, <1>5
  <2> HIDE DEF S
  <2>2. 1 \in Int /\ m \in Int
    BY <2>1
  <2>3. /\ SubSeq(ranked, 1, m) \in Seq(S)
        /\ Len(SubSeq(ranked, 1, m)) = IF 1 <= m THEN m - 1 + 1 ELSE 0
        /\ \A i \in 1 .. m - 1 + 1 : SubSeq(ranked, 1, m)[i] = ranked[1 + i - 1]
    BY <2>1, <2>2, SubSeqProperties
  <2>4. \A i \in 1 .. m : i \in 1 .. m - 1 + 1 /\ 1 + i - 1 = i
    BY <2>1
  <2>5. m = IF 1 <= m THEN m - 1 + 1 ELSE 0
    BY <2>1
  <2> QED BY <1>6, <2>3, <2>4, <2>5
<1>8. PICK k \in 0 .. m : /\ CC!Trim(part, request) = SubSeq(part, 1, k)
                          /\ CC!Fits(part, request) => k = m
  BY <1>7, TrimIsPrefix
<1>9. PICK top : top = SubSeq(part, 1, k)
  OBVIOUS
<1>10. /\ Len(top) = k /\ DOMAIN top = 1 .. k
       /\ \A i \in 1 .. k : top[i] = ranked[i]
  BY <1>3, <1>5, <1>7, <1>8, <1>9
<1>11. Range(top) = {ranked[i] : i \in 1 .. k}
  BY <1>10 DEF Range
<1>12. /\ context.entities = top
       /\ context.complete = CC!Complete(g, part, request)
       /\ context.omissions = CC!Omissions(g, part, request)
  <2>1. CC!Min({n, request.max_entities}) = m
    BY <1>4, SameOperators
  <2> QED BY <1>1, <1>3, <1>6, <1>8, <1>9, <2>1 DEF CC!Assemble
<1>13. CC!Cardinality(S) = n
  BY <1>2, SameOperators
<1> HIDE DEF S, context, focus
<1>14. context.complete <=> m = n /\ CC!Fits(part, request)
  BY <1>7, <1>12, <1>13 DEF CC!Complete, S
<1>15. ASSUME context.complete PROVE Range(top) = S
  <2>1. k = n
    BY <1>8, <1>14, <1>15
  <2>2. \A i \in 1 .. n : ranked[i] \in S
    BY <1>3
  <2> QED BY <1>3, <1>11, <2>1, <2>2
<1>16. focus \subseteq Range(top) \/ Range(top) \subseteq focus
  <2> SUFFICES ASSUME NEW x \in focus, x \notin Range(top), NEW y \in Range(top)
               PROVE  y \in focus
    OBVIOUS
  <2>1. x \in S
    BY DEF focus, S, CC!Focus
  <2>2. PICK j \in 1 .. n : ranked[j] = x
    BY <1>3, <2>1
  <2>3. PICK i \in 1 .. k : ranked[i] = y
    BY <1>11
  <2>4. j \notin 1 .. k
    BY <1>11, <2>2
  <2>5. i \in 1 .. n /\ i < j
    BY <1>3, <1>5, <1>8, <2>2, <2>3, <2>4
  <2> QED BY <1>3, <2>2, <2>3, <2>5
<1>17. \/ context.complete \/ context.omissions # {}
       \/ request.detail = "analytical" /\ Len(top) = request.max_entities
  <2> SUFFICES ASSUME ~ context.complete, context.omissions = {}
               PROVE  /\ request.detail = "analytical"
                      /\ Len(top) = request.max_entities
    OBVIOUS
  <2>1. /\ ~ (m < n /\ request.detail # "analytical")
        /\ CC!Fits(part, request)
    BY <1>7, <1>12, <1>13 DEF CC!Omissions, S
  <2>2. m # n
    BY <1>14, <2>1
  <2> QED BY <1>3, <1>5, <1>8, <1>10, <2>1, <2>2
<1> QED BY <1>12, <1>15, <1>16, <1>17 DEF context, focus, S

(* A context says what it leaves out (assemble, trim_to_budget). *)
THEOREM ContextsAreHonest == Spec => []ContextIsHonest
<1>1. IInv => ContextIsHonest
  BY AssembleIsHonest, ReadingAssumption DEF IInv, ContextIsHonest
<1> QED BY <1>1, InvariantHolds, PTL

-----------------------------------------------------------------------------
(* Induction on numbers, with a set in the place of a predicate, and what a *)
(* recursive function is.                                                   *)

LEMMA LeastExists ==
  ASSUME NEW S \in SUBSET Nat, S # {}
  PROVE  \E m \in S : \A y \in S : m <= y
<1>1. PICK n \in S : TRUE
  OBVIOUS
<1> DEFINE Below == {0 .. k : k \in S \cap 0 .. n}
           Inside == StrictSubsetOrdering(0 .. n)
<1>2. IsWellFoundedOn(Inside, SUBSET (0 .. n))
  <2>1. IsFiniteSet(0 .. n)
    BY <1>1, FS_Interval
  <2> QED BY <2>1, FS_StrictSubsetOrderingWellFounded, FS_FiniteSubsetsOfFinite
<1>3. Below \subseteq SUBSET (0 .. n) /\ Below # {}
  <2>1. \A k \in 0 .. n : 0 .. k \subseteq 0 .. n
    BY <1>1
  <2>2. 0 .. n \in Below
    BY <1>1
  <2> QED BY <2>1, <2>2
<1>4. PICK U \in Below : \A V \in Below : ~ (<<V, U>> \in Inside)
  <2> HIDE DEF Below, Inside
  <2> QED BY <1>2, <1>3, WFMin
<1>5. PICK m \in S \cap 0 .. n : U = 0 .. m
  BY <1>4
<1>6. ASSUME NEW y \in S, y < m PROVE FALSE
  <2>1. y \in 0 .. n /\ m \in 0 .. n /\ y \in Nat /\ m \in Nat
    BY <1>1, <1>5, <1>6
  <2>2. 0 .. y \in Below
    BY <2>1
  <2>3. 0 .. y \subseteq 0 .. m /\ m \in 0 .. m /\ m \notin 0 .. y
    BY <1>6, <2>1
  <2>4. 0 .. y \in SUBSET (0 .. n) /\ 0 .. m \in SUBSET (0 .. n)
    BY <2>1
  <2>5. <<0 .. y, 0 .. m>> \in Inside
    BY <2>3, <2>4 DEF StrictSubsetOrdering
  <2> QED BY <1>4, <1>5, <2>2, <2>5
<1> QED BY <1>5, <1>6

LEMMA AllNumbers ==
  ASSUME NEW S \in SUBSET Nat, 0 \in S, \A n \in S : n + 1 \in S
  PROVE  \A n \in Nat : n \in S
<1> SUFFICES ASSUME Nat \ S # {} PROVE FALSE
  OBVIOUS
<1>1. PICK m \in Nat \ S : \A y \in Nat \ S : m <= y
  <2>1. Nat \ S \in SUBSET Nat
    OBVIOUS
  <2> QED BY <2>1, LeastExists
<1>2. m - 1 \in Nat /\ m = (m - 1) + 1 /\ ~ (m <= m - 1)
  BY <1>1
<1>3. m - 1 \in S
  BY <1>1, <1>2
<1> QED BY <1>1, <1>2, <1>3

(* f starts with x and goes on by step, as far as n. *)
Unfolds(f, x, step, n) ==
  /\ f[0] = x
  /\ \A i \in 1 .. n : f[i] = step[i][f[i - 1]]

(* All of it, in X. *)
Recursive(f, X, x, step) ==
  /\ f \in [Nat -> X]
  /\ f[0] = x
  /\ \A n \in Nat \ {0} : f[n] = step[n][f[n - 1]]

LEMMA RecursionExists ==
  ASSUME NEW X, NEW x \in X, NEW step \in [Nat -> [X -> X]]
  PROVE  \E f : Recursive(f, X, x, step)
<1> DEFINE Start(n) == {f \in [0 .. n -> X] : Unfolds(f, x, step, n)}
           Found == {n \in Nat : Start(n) # {}}
           Same == {n \in Nat : \A i, j \in Nat : n <= i /\ n <= j =>
                      \A f \in Start(i), g \in Start(j) : f[n] = g[n]}
<1>1. \A n \in Nat : n \in Found
  <2>1. 0 \in Found
    <3>1. [i \in 0 .. 0 |-> x] \in Start(0)
      BY DEF Unfolds
    <3> QED BY <3>1
  <2>2. ASSUME NEW n \in Found PROVE n + 1 \in Found
    <3>1. PICK f \in [0 .. n -> X] : Unfolds(f, x, step, n)
      OBVIOUS
    <3> DEFINE g == [i \in 0 .. n + 1 |->
                       IF i = n + 1 THEN step[n + 1][f[n]] ELSE f[i]]
    <3>2. n \in Nat /\ n + 1 \in Nat /\ f[n] \in X
      OBVIOUS
    <3>3. step[n + 1][f[n]] \in X
      BY <3>2
    <3>4. g \in [0 .. n + 1 -> X]
      BY <3>2, <3>3
    <3>5. g[0] = x
      BY <3>1, <3>2 DEF Unfolds
    <3>6. ASSUME NEW i \in 1 .. n + 1 PROVE g[i] = step[i][g[i - 1]]
      <4>1. CASE i = n + 1
        BY <3>2, <4>1
      <4>2. CASE i \in 1 .. n
        <5>1. /\ i \in 0 .. n + 1 /\ i - 1 \in 0 .. n + 1
              /\ i # n + 1 /\ i - 1 # n + 1
          BY <3>2, <4>2
        <5>2. g[i] = f[i] /\ g[i - 1] = f[i - 1]
          BY <5>1
        <5> QED BY <3>1, <4>2, <5>2 DEF Unfolds
      <4> QED BY <3>2, <4>1, <4>2
    <3> HIDE DEF g
    <3>7. g \in Start(n + 1)
      BY <3>4, <3>5, <3>6 DEF Unfolds
    <3> QED BY <3>2, <3>7
  <2> HIDE DEF Found
  <2> QED BY <2>1, <2>2, AllNumbers DEF Found
<1>2. \A n \in Nat : n \in Same
  <2>1. 0 \in Same
    BY DEF Unfolds
  <2>2. ASSUME NEW n \in Same PROVE n + 1 \in Same
    <3> SUFFICES ASSUME NEW i \in Nat, NEW j \in Nat, n + 1 <= i, n + 1 <= j,
                        NEW f \in Start(i), NEW g \in Start(j)
                 PROVE  f[n + 1] = g[n + 1]
      OBVIOUS
    <3>1. f[n] = g[n]
      <4>1. n \in Nat /\ n <= i /\ n <= j
        OBVIOUS
      <4>2. \A k, m \in Nat : n <= k /\ n <= m =>
              \A p \in Start(k), q \in Start(m) : p[n] = q[n]
        OBVIOUS
      <4> HIDE DEF Start
      <4> QED BY <4>1, <4>2
    <3>2. n + 1 \in 1 .. i /\ n + 1 \in 1 .. j /\ (n + 1) - 1 = n
      OBVIOUS
    <3> QED BY <3>1, <3>2 DEF Unfolds
  <2> HIDE DEF Same
  <2> QED BY <2>1, <2>2, AllNumbers DEF Same
<1> DEFINE h(n) == CHOOSE f : f \in Start(n)
           limit == [n \in Nat |-> h(n)[n]]
<1>3. \A n \in Nat : h(n) \in Start(n)
  BY <1>1
<1>4. \A n \in Nat : limit[n] = h(n)[n]
  OBVIOUS
<1> HIDE DEF h, limit
<1>5. ASSUME NEW n \in Nat PROVE limit[n] \in X
  <2>1. n \in 0 .. n
    OBVIOUS
  <2> QED BY <1>3, <1>4, <2>1
<1>6. limit[0] = x
  BY <1>3, <1>4 DEF Unfolds
<1>7. ASSUME NEW n \in Nat \ {0} PROVE limit[n] = step[n][limit[n - 1]]
  <2>1. /\ n \in Nat /\ n - 1 \in Nat /\ n \in 1 .. n
        /\ n - 1 <= n /\ n - 1 <= n - 1
    OBVIOUS
  <2>2. h(n)[n] = step[n][h(n)[n - 1]]
    BY <1>3, <2>1 DEF Unfolds
  <2>3. h(n)[n - 1] = h(n - 1)[n - 1]
    BY <1>2, <1>3, <2>1
  <2> QED BY <1>4, <2>1, <2>2, <2>3
<1>8. limit = [n \in Nat |-> limit[n]]
  BY DEF limit
<1>9. limit \in [Nat -> X]
  BY <1>5, <1>8
<1> QED BY <1>6, <1>7, <1>9 DEF Recursive

-----------------------------------------------------------------------------
(* What is so many links away.                                             *)

(* A walk of n steps of E from a to b, inside X. *)
Chain(E, X, n, a, b) ==
  \E f \in [0 .. n -> X] :
    f[0] = a /\ f[n] = b /\ \A i \in 1 .. n : <<f[i - 1], f[i]>> \in E

Within(E, X, n, a) == {b \in X : \E m \in 0 .. n : Chain(E, X, m, a, b)}

LEMMA ChainOfNone ==
  ASSUME NEW E, NEW X, NEW a \in X, NEW b
  PROVE  Chain(E, X, 0, a, b) <=> a = b
<1>1. ASSUME a = b PROVE Chain(E, X, 0, a, b)
  <2>1. PICK f : f = [i \in 0 .. 0 |-> a]
    OBVIOUS
  <2>2. f \in [0 .. 0 -> X] /\ f[0] = a
    BY <2>1
  <2>3. \A i \in 1 .. 0 : <<f[i - 1], f[i]>> \in E
    OBVIOUS
  <2> QED BY <1>1, <2>2, <2>3 DEF Chain
<1> QED BY <1>1 DEF Chain

LEMMA ChainGrows ==
  ASSUME NEW E, NEW X, NEW n \in Nat, NEW a, NEW b \in X
  PROVE  Chain(E, X, n + 1, a, b)
           <=> \E x \in X : Chain(E, X, n, a, x) /\ <<x, b>> \in E
<1>1. ASSUME Chain(E, X, n + 1, a, b)
      PROVE  \E x \in X : Chain(E, X, n, a, x) /\ <<x, b>> \in E
  <2>1. PICK f \in [0 .. n + 1 -> X] :
          /\ f[0] = a /\ f[n + 1] = b
          /\ \A i \in 1 .. n + 1 : <<f[i - 1], f[i]>> \in E
    BY <1>1 DEF Chain
  <2> DEFINE g == [i \in 0 .. n |-> f[i]]
  <2>2. g \in [0 .. n -> X] /\ \A i \in 0 .. n : g[i] = f[i]
    OBVIOUS
  <2>3. \A i \in 1 .. n : i \in 0 .. n /\ i - 1 \in 0 .. n /\ i \in 1 .. n + 1
    OBVIOUS
  <2> HIDE DEF g
  <2>4. Chain(E, X, n, a, f[n])
    <3>1. g[0] = a /\ g[n] = f[n]
      BY <2>1, <2>2
    <3>2. \A i \in 1 .. n : <<g[i - 1], g[i]>> \in E
      BY <2>1, <2>2, <2>3
    <3> QED BY <2>2, <3>1, <3>2 DEF Chain
  <2>5. n + 1 \in 1 .. n + 1 /\ (n + 1) - 1 = n /\ n \in 0 .. n + 1
    OBVIOUS
  <2>6. f[n] \in X /\ <<f[n], b>> \in E
    BY <2>1, <2>5
  <2> QED BY <2>4, <2>6
<1>2. ASSUME NEW x \in X, Chain(E, X, n, a, x), <<x, b>> \in E
      PROVE  Chain(E, X, n + 1, a, b)
  <2>1. PICK f \in [0 .. n -> X] :
          /\ f[0] = a /\ f[n] = x
          /\ \A i \in 1 .. n : <<f[i - 1], f[i]>> \in E
    BY <1>2 DEF Chain
  <2> DEFINE g == [i \in 0 .. n + 1 |-> IF i = n + 1 THEN b ELSE f[i]]
  <2>2. g \in [0 .. n + 1 -> X]
    OBVIOUS
  <2>3. g[n + 1] = b /\ \A i \in 0 .. n : g[i] = f[i]
    OBVIOUS
  <2> HIDE DEF g
  <2>4. g[0] = a
    BY <2>1, <2>3
  <2>5. ASSUME NEW i \in 1 .. n + 1 PROVE <<g[i - 1], g[i]>> \in E
    <3>1. CASE i = n + 1
      BY <1>2, <2>1, <2>3, <3>1
    <3>2. CASE i \in 1 .. n
      <4>1. i \in 0 .. n /\ i - 1 \in 0 .. n
        BY <3>2
      <4> QED BY <2>1, <2>3, <3>2, <4>1
    <3> QED BY <3>1, <3>2
  <2> QED BY <2>2, <2>3, <2>4, <2>5 DEF Chain
<1> QED BY <1>1, <1>2

LEMMA WithinGrows ==
  ASSUME NEW E, NEW X, NEW n \in Nat, NEW a \in X
  PROVE  /\ Within(E, X, 0, a) = {a}
         /\ Within(E, X, n, a) \subseteq Within(E, X, n + 1, a)
         /\ \A b \in X : b \in Within(E, X, n + 1, a) <=>
              \/ b \in Within(E, X, n, a)
              \/ \E x \in Within(E, X, n, a) : <<x, b>> \in E
<1>1. Within(E, X, 0, a) = {a}
  BY ChainOfNone DEF Within
<1>2. Within(E, X, n, a) \subseteq Within(E, X, n + 1, a)
  BY DEF Within
<1>3. ASSUME NEW b \in X, NEW x \in Within(E, X, n, a), <<x, b>> \in E
      PROVE  b \in Within(E, X, n + 1, a)
  <2>1. PICK m \in 0 .. n : Chain(E, X, m, a, x)
    BY DEF Within
  <2>2. m \in Nat /\ m + 1 \in 0 .. n + 1 /\ x \in X
    BY DEF Within
  <2>3. Chain(E, X, m + 1, a, b)
    BY <1>3, <2>1, <2>2, ChainGrows
  <2> QED BY <2>2, <2>3 DEF Within
<1>4. ASSUME NEW b \in X, b \in Within(E, X, n + 1, a)
      PROVE  \/ b \in Within(E, X, n, a)
             \/ \E x \in Within(E, X, n, a) : <<x, b>> \in E
  <2>1. PICK m \in 0 .. n + 1 : Chain(E, X, m, a, b)
    BY <1>4 DEF Within
  <2>2. CASE m \in 0 .. n
    BY <2>1, <2>2 DEF Within
  <2>3. CASE m = n + 1
    <3>1. PICK x \in X : Chain(E, X, n, a, x) /\ <<x, b>> \in E
      BY <2>1, <2>3, ChainGrows
    <3>2. n \in 0 .. n
      OBVIOUS
    <3> QED BY <3>1, <3>2 DEF Within
  <2> QED BY <2>2, <2>3
<1> QED BY <1>1, <1>2, <1>3, <1>4

-----------------------------------------------------------------------------
(* traverse *)

Steps(g, relation) ==
  {<<l.from, l.to>> : l \in {l \in g.links : /\ l.from \in g.entities
                                           /\ l.relation = relation}}

Reached(g, start) == {start} \cup {l.to : l \in g.links}

(* The rounds of a search are the lengths of walks. *)
LEMMA SeenIsWithin ==
  ASSUME NEW g, NEW start, NEW relation
  PROVE  \A n \in Nat :
           QE!Seen(g, start, relation, n)
             = Within(Steps(g, relation), Reached(g, start), n, start)
<1> DEFINE E == Steps(g, relation)
           X == Reached(g, start)
           Next1(S) == S \cup UNION {QE!Targets(g, r, relation) : r \in S}
           step == [n \in Nat |-> [S \in SUBSET X |-> Next1(S)]]
           IsSeen(f) == f = [n \in Nat |-> IF n = 0 THEN {start}
                                          ELSE Next1(f[n - 1])]
           seen == CHOOSE f : IsSeen(f)
           Good == {n \in Nat : seen[n] = Within(E, X, n, start)}
<1>1. \A r : QE!Targets(g, r, relation) = {b \in X : <<r, b>> \in E}
  BY DEF QE!Targets, Steps, Reached
<1>2. start \in X
  BY DEF Reached
<1>3. step \in [Nat -> [SUBSET X -> SUBSET X]]
  <2>1. \A S \in SUBSET X : Next1(S) \in SUBSET X
    BY <1>1
  <2> HIDE DEF Next1, X
  <2> QED BY <2>1
<1>4. PICK f : Recursive(f, SUBSET X, {start}, step)
  <2>1. {start} \in SUBSET X
    BY <1>2
  <2> HIDE DEF step, X
  <2> QED BY <1>3, <2>1, RecursionExists
<1>5. IsSeen(f)
  <2> HIDE DEF Next1, X
  <2>1. \A n \in Nat \ {0} : n - 1 \in Nat /\ f[n - 1] \in SUBSET X
    BY <1>4 DEF Recursive
  <2>2. \A n \in Nat \ {0} : step[n][f[n - 1]] = Next1(f[n - 1])
    BY <2>1
  <2> HIDE DEF step
  <2>3. \A n \in Nat : f[n] = IF n = 0 THEN {start} ELSE Next1(f[n - 1])
    BY <1>4, <2>2 DEF Recursive
  <2>4. f = [n \in Nat |-> f[n]]
    BY <1>4 DEF Recursive
  <2> QED BY <2>3, <2>4
<1>6. IsSeen(seen)
  <2> HIDE DEF IsSeen
  <2> QED BY <1>5
<1> HIDE DEF seen
<1>7. \A n \in Nat : n \in Good
  <2>1. 0 \in Good
    <3>1. seen[0] = {start}
      <4> HIDE DEF Next1
      <4> QED BY <1>6
    <3> QED BY <1>2, <3>1, WithinGrows
  <2>2. ASSUME NEW n \in Good PROVE n + 1 \in Good
    <3>1. n \in Nat /\ n + 1 \in Nat /\ n + 1 # 0 /\ (n + 1) - 1 = n
      OBVIOUS
    <3>2. seen[n + 1] = Next1(Within(E, X, n, start))
      <4> HIDE DEF Next1
      <4> QED BY <1>6, <3>1
    <3>3. Within(E, X, n + 1, start) = Next1(Within(E, X, n, start))
      <4>1. Within(E, X, n + 1, start) \subseteq X
        BY DEF Within
      <4>2. Within(E, X, n, start) \subseteq X
        BY DEF Within
      <4>3. \A b : b \in Next1(Within(E, X, n, start)) <=>
              \/ b \in Within(E, X, n, start)
              \/ b \in X /\ \E x \in Within(E, X, n, start) : <<x, b>> \in E
        BY <1>1
      <4> HIDE DEF E, X, Next1
      <4> QED BY <1>2, <3>1, <4>1, <4>2, <4>3, WithinGrows
    <3> QED BY <3>1, <3>2, <3>3
  <2>3. Good \in SUBSET Nat
    OBVIOUS
  <2> HIDE DEF Good
  <2> QED BY <2>1, <2>2, <2>3, AllNumbers
<1>8. \A n : QE!Seen(g, start, relation, n) = seen[n]
  BY DEF QE!Seen, seen
<1> QED BY <1>7, <1>8

(* A walk through entities of the graph is one through what is reached. *)
LEMMA WalksAreChains ==
  ASSUME NEW from, NEW relation, NEW n \in Nat,
         NEW to \in Reached(graph, from)
  PROVE  Walk(from, to, n, relation) <=>
           Chain(Steps(graph, relation), Reached(graph, from), n, from, to)
<1> DEFINE E == Steps(graph, relation)
           X == Reached(graph, from)
<1>1. \A a, b : <<a, b>> \in E <=>
        \E l \in graph.links : /\ l.from = a /\ l.to = b
                               /\ l.from \in graph.entities
                               /\ l.relation = relation
  BY DEF Steps
<1>2. \A a, b : <<a, b>> \in E => a \in graph.entities /\ b \in X
  BY <1>1 DEF Reached
<1>3. ASSUME Walk(from, to, n, relation) PROVE Chain(E, X, n, from, to)
  <2>1. PICK f \in [0 .. n -> {from, to} \cup graph.entities] :
          /\ f[0] = from /\ f[n] = to
          /\ \A i \in 1 .. n : <<f[i - 1], f[i]>> \in E
    <3> HIDE DEF E
    <3> QED BY <1>1, <1>3 DEF Walk
  <2>2. \A i \in 0 .. n : f[i] \in X
    <3>1. from \in X
      BY DEF Reached
    <3>2. \A i \in 0 .. n : i = 0 \/ i \in 1 .. n
      OBVIOUS
    <3> HIDE DEF E, X
    <3> QED BY <1>2, <2>1, <3>1, <3>2
  <2>3. f \in [0 .. n -> X]
    <3> HIDE DEF X
    <3> QED BY <2>2
  <2> QED BY <2>1, <2>3 DEF Chain
<1>4. ASSUME Chain(E, X, n, from, to) PROVE Walk(from, to, n, relation)
  <2>1. PICK f \in [0 .. n -> X] :
          /\ f[0] = from /\ f[n] = to
          /\ \A i \in 1 .. n : <<f[i - 1], f[i]>> \in E
    BY <1>4 DEF Chain
  <2>2. \A i \in 0 .. n : f[i] \in {from, to} \cup graph.entities
    <3>1. \A i \in 0 .. n : i = n \/ (i + 1 \in 1 .. n /\ (i + 1) - 1 = i)
      OBVIOUS
    <3> HIDE DEF E, X
    <3> QED BY <1>2, <2>1, <3>1
  <2>3. f \in [0 .. n -> {from, to} \cup graph.entities]
    <3> HIDE DEF X
    <3> QED BY <2>2
  <2>4. \A i \in 1 .. n :
          \E l \in graph.links : /\ l.from = f[i - 1] /\ l.to = f[i]
                                 /\ l.from \in graph.entities
                                 /\ l.relation = relation
    <3> TAKE i \in 1 .. n
    <3>1. <<f[i - 1], f[i]>> \in E
      BY <2>1
    <3> HIDE DEF E
    <3> QED BY <1>1, <3>1
  <2>5. f[0] = from /\ f[n] = to
    BY <2>1
  <2> HIDE DEF E, X
  <2> QED BY <2>3, <2>4, <2>5 DEF Walk
<1> QED BY <1>3, <1>4

LEMMA TraverseFindsWalks ==
  ASSUME NEW s, s.depth \in Nat
  PROVE  Traverses(s)
<1> DEFINE step == [relation |-> s.relation, depth |-> s.depth]
           E == Steps(graph, s.relation)
           X == Reached(graph, s.ref)
           ends == {l.to : l \in graph.links}
<1>1. QE!Around(graph, s.ref, step) = Within(E, X, s.depth, s.ref) \ {s.ref}
  BY SeenIsWithin DEF QE!Around
<1>2. s.ref \in X /\ X = {s.ref} \cup ends
  BY DEF Reached
<1> HIDE DEF E, X, ends
<1>3. ASSUME NEW to \in ends \ {s.ref}
      PROVE  to \in Within(E, X, s.depth, s.ref)
               <=> \E n \in 1 .. s.depth : Walk(s.ref, to, n, s.relation)
  <2>1. to \in X
    BY <1>2
  <2>2. \A n \in Nat :
          Walk(s.ref, to, n, s.relation) <=> Chain(E, X, n, s.ref, to)
    BY <2>1, WalksAreChains DEF E, X
  <2>3. ~ Chain(E, X, 0, s.ref, to)
    BY <1>2, ChainOfNone
  <2>4. \A n \in 0 .. s.depth : n = 0 \/ n \in 1 .. s.depth
    OBVIOUS
  <2>5. \A n \in 1 .. s.depth : n \in 0 .. s.depth /\ n \in Nat
    OBVIOUS
  <2> QED BY <2>1, <2>2, <2>3, <2>4, <2>5 DEF Within
<1>4. Within(E, X, s.depth, s.ref) \subseteq X
  BY DEF Within
<1>5. QE!Around(graph, s.ref, step) =
        {to \in ends \ {s.ref} :
           \E n \in 1 .. s.depth : Walk(s.ref, to, n, s.relation)}
  <2> HIDE DEF step
  <2> QED BY <1>1, <1>2, <1>3, <1>4
<1> QED BY <1>5 DEF Traverses, ends

-----------------------------------------------------------------------------
(* inspect_entity *)

(* Among so many nodes no shortest walk is as long. *)
LEMMA WithinStops ==
  ASSUME NEW E, NEW X, IsFiniteSet(X), NEW a \in X
  PROVE  /\ Cardinality(X) \in Nat \ {0}
         /\ \A n \in Nat : n >= Cardinality(X) - 1 =>
              Within(E, X, n, a) = Within(E, X, Cardinality(X) - 1, a)
<1> DEFINE W(n) == Within(E, X, n, a)
           Still(n) == W(n + 1) = W(n)
           c == Cardinality(X)
<1>1. c \in Nat \ {0}
  BY FS_CardinalityType, FS_EmptySet
<1>2. \A n \in Nat : W(n) \subseteq W(n + 1) /\ W(n) \subseteq X
  BY WithinGrows DEF Within
<1>3. ASSUME NEW n \in Nat, Still(n) PROVE Still(n + 1)
  <2>1. \A b \in X : b \in W(n + 2) =>
          b \in W(n + 1) \/ \E x \in W(n + 1) : <<x, b>> \in E
    <3>1. (n + 1) + 1 = n + 2 /\ n + 1 \in Nat
      OBVIOUS
    <3> QED BY <3>1, WithinGrows
  <2>2. \A b \in X : (\E x \in W(n) : <<x, b>> \in E) => b \in W(n + 1)
    BY WithinGrows
  <2>3. W(n + 2) \subseteq W(n + 1)
    <3>1. W(n + 2) \subseteq X
      BY <1>2
    <3> HIDE DEF W
    <3> QED BY <1>3, <2>1, <2>2, <3>1
  <2>4. W(n + 1) \subseteq W(n + 2)
    <3>1. (n + 1) + 1 = n + 2 /\ n + 1 \in Nat
      OBVIOUS
    <3> HIDE DEF W
    <3> QED BY <1>2, <3>1
  <2>5. (n + 1) + 1 = n + 2
    OBVIOUS
  <2> HIDE DEF W
  <2> QED BY <2>3, <2>4, <2>5
<1> HIDE DEF c
<1> DEFINE Good == {n \in Nat : Cardinality(W(n)) >= n + 1 \/ Still(n)}
<1>4. \A n \in Nat : IsFiniteSet(W(n)) /\ Cardinality(W(n)) \in Nat
  <2> HIDE DEF W
  <2> QED BY <1>2, FS_Subset, FS_CardinalityType
<1>5. \A n \in Nat : n \in Good
  <2>1. 0 \in Good
    <3>1. W(0) = {a}
      BY WithinGrows
    <3>2. Cardinality(W(0)) = 1
      BY <3>1, FS_Singleton
    <3> HIDE DEF W
    <3> QED BY <3>2
  <2>2. ASSUME NEW n \in Good PROVE n + 1 \in Good
    <3>1. n \in Nat /\ n + 1 \in Nat
      OBVIOUS
    <3>2. CASE Still(n)
      <4>1. Still(n + 1)
        BY <1>3, <3>1, <3>2
      <4> HIDE DEF W
      <4> QED BY <3>1, <4>1
    <3>3. CASE ~ Still(n)
      <4> HIDE DEF W
      <4>1. Cardinality(W(n)) >= n + 1
        BY <3>3
      <4>2. W(n) \subseteq W(n + 1) /\ W(n) # W(n + 1)
        BY <1>2, <3>1, <3>3
      <4>3. /\ Cardinality(W(n)) <= Cardinality(W(n + 1))
            /\ Cardinality(W(n)) # Cardinality(W(n + 1))
        BY <1>4, <3>1, <4>2, FS_Subset
      <4>4. Cardinality(W(n)) \in Nat /\ Cardinality(W(n + 1)) \in Nat
        BY <1>4, <3>1
      <4>5. Cardinality(W(n + 1)) >= (n + 1) + 1
        BY <3>1, <4>1, <4>3, <4>4
      <4> QED BY <3>1, <4>5
    <3> QED BY <3>2, <3>3
  <2>3. Good \in SUBSET Nat
    OBVIOUS
  <2> HIDE DEF Good
  <2> QED BY <2>1, <2>2, <2>3, AllNumbers
<1>6. Still(c - 1)
  <2>1. c - 1 \in Nat /\ (c - 1) + 1 = c
    BY <1>1
  <2> HIDE DEF W
  <2>2. CASE Cardinality(W(c - 1)) >= c
    <3>1. W(c - 1) \subseteq X /\ Cardinality(W(c - 1)) \in Nat
      BY <1>2, <1>4, <2>1
    <3>2. /\ Cardinality(W(c - 1)) <= c
          /\ Cardinality(W(c - 1)) = c => W(c - 1) = X
      BY <3>1, FS_Subset DEF c
    <3>3. W(c - 1) = X
      BY <1>1, <2>2, <3>1, <3>2
    <3> QED BY <1>2, <2>1, <3>3
  <2>3. CASE ~ (Cardinality(W(c - 1)) >= c)
    BY <1>5, <2>1, <2>3
  <2> QED BY <2>2, <2>3
<1> DEFINE After == {k \in Nat : Still(c - 1 + k) /\ W(c - 1 + k) = W(c - 1)}
<1>7. \A k \in Nat : k \in After
  <2> HIDE DEF W
  <2>1. 0 \in After
    BY <1>1, <1>6
  <2>2. ASSUME NEW k \in After PROVE k + 1 \in After
    <3>1. /\ c - 1 + k \in Nat /\ (c - 1 + k) + 1 = c - 1 + (k + 1)
          /\ k + 1 \in Nat
      BY <1>1
    <3>2. Still((c - 1 + k) + 1)
      BY <1>3, <3>1
    <3>3. W((c - 1 + k) + 1) = W(c - 1)
      OBVIOUS
    <3> QED BY <3>1, <3>2, <3>3
  <2>3. After \in SUBSET Nat
    OBVIOUS
  <2> HIDE DEF After
  <2> QED BY <2>1, <2>2, <2>3, AllNumbers
<1>8. ASSUME NEW n \in Nat, n >= c - 1 PROVE W(n) = W(c - 1)
  <2>1. n - (c - 1) \in Nat /\ c - 1 + (n - (c - 1)) = n
    BY <1>1, <1>8
  <2>2. W(c - 1 + (n - (c - 1))) = W(c - 1)
    <3> HIDE DEF W
    <3> QED BY <1>7, <2>1
  <2> HIDE DEF W
  <2> QED BY <2>1, <2>2
<1> QED BY <1>1, <1>8 DEF c

Hops(g) == {<<l.from, l.to>> : l \in g.links}

OutOf(g, S) == {l \in g.links : l.from \in S /\ l.to \in g.entities}

(* After n rounds a search that stops after so many levels has visited what *)
(* is so many links away, and its queue holds what is not nearer.           *)
SearchedTo(found, g, ref, levels, n) ==
  LET W(k) == Within(Hops(g), g.entities, k, ref)
      cut == IF n <= levels THEN n ELSE levels
  IN  /\ found.visited = W(cut)
      /\ n <= levels => found.queue = W(n) \ W(n - 1)
      /\ found.links = OutOf(g, W(cut - 1))

NextRound(g, levels, n, last) ==
  LET links == IF n - 1 < levels
               THEN UNION {CC!Links(g, r) : r \in last.queue} ELSE {}
      found == {l.to : l \in links} \ last.visited
  IN  [queue |-> found, visited |-> last.visited \cup found,
       links |-> last.links \cup links]

LEMMA RoundSearchesOn ==
  ASSUME NEW g, NEW ref \in g.entities, NEW levels \in Nat, NEW n \in Nat,
         NEW last, SearchedTo(last, g, ref, levels, n)
  PROVE  SearchedTo(NextRound(g, levels, n + 1, last), g, ref, levels, n + 1)
<1> DEFINE E == Hops(g)
           X == g.entities
           W(k) == Within(E, X, k, ref)
           links == UNION {CC!Links(g, r) : r \in last.queue}
           found == {l.to : l \in links} \ last.visited
           next == NextRound(g, levels, n + 1, last)
<1>1. (n + 1) - 1 = n /\ n + 1 \in Nat
  OBVIOUS
<1>2. CASE n < levels
  <2>1. n <= levels /\ n + 1 <= levels
    BY <1>2
  <2>2. /\ last.visited = W(n) /\ last.queue = W(n) \ W(n - 1)
        /\ last.links = OutOf(g, W(n - 1))
    BY <2>1 DEF SearchedTo
  <2>3. /\ next.queue = found /\ next.visited = last.visited \cup found
        /\ next.links = last.links \cup links
    BY <1>1, <1>2 DEF NextRound
  <2> HIDE DEF next
  <2>4. links = OutOf(g, last.queue)
    BY DEF CC!Links, OutOf
  <2>5. W(n - 1) \subseteq W(n)
    BY DEF Within
  <2>6. W(n) \subseteq X /\ W(n + 1) \subseteq X
    BY DEF Within
  <2>7. next.links = OutOf(g, W(n))
    <3> HIDE DEF links, W
    <3> QED BY <2>2, <2>3, <2>4, <2>5 DEF OutOf
  <2>8. \A b \in X : (\E x \in W(n - 1) : <<x, b>> \in E) => b \in W(n)
    <3>1. CASE n = 0
      BY <3>1 DEF Within
    <3>2. CASE n # 0
      <4>1. PICK m \in Nat : m = n - 1 /\ m + 1 = n
        BY <3>2
      <4>2. \A b \in X : (\E x \in W(m) : <<x, b>> \in E) => b \in W(m + 1)
        BY WithinGrows
      <4> HIDE DEF E, W
      <4> QED BY <4>1, <4>2
    <3> QED BY <3>1, <3>2
  <2>9. \A b \in X : b \in W(n + 1) <=>
          b \in W(n) \/ \E x \in W(n) : <<x, b>> \in E
    BY WithinGrows
  <2>10. \A b : b \in {l.to : l \in links}
                  <=> b \in X /\ \E x \in last.queue : <<x, b>> \in E
    BY <2>4 DEF OutOf, Hops
  <2>11. found = W(n + 1) \ W(n)
    <3> HIDE DEF links, W, E
    <3> QED BY <2>2, <2>6, <2>8, <2>9, <2>10
  <2>12. W(n) \subseteq W(n + 1)
    BY <2>6, <2>9
  <2>13. next.visited = W(n + 1) /\ next.queue = W(n + 1) \ W(n)
    <3> HIDE DEF found, W
    <3> QED BY <2>2, <2>3, <2>11, <2>12
  <2> QED BY <1>1, <2>1, <2>7, <2>13 DEF SearchedTo, next
<1>3. CASE ~ (n < levels)
  <2>1. ~ (n + 1 <= levels)
    BY <1>3
  <2>2. next.visited = last.visited /\ next.links = last.links
    BY <1>1, <1>3 DEF NextRound
  <2> HIDE DEF next
  <2>3. last.visited = W(levels) /\ last.links = OutOf(g, W(levels - 1))
    <3>1. n <= levels => n = levels
      BY <1>3
    <3>2. CASE n <= levels
      BY <3>1, <3>2 DEF SearchedTo
    <3>3. CASE ~ (n <= levels)
      BY <3>3 DEF SearchedTo
    <3> QED BY <3>2, <3>3
  <2> QED BY <2>1, <2>2, <2>3 DEF SearchedTo, next
<1> QED BY <1>2, <1>3

LEMMA NearIsWithin ==
  ASSUME NEW g, NEW ref, NEW m
  PROVE  {r \in g.entities : \E n \in 0 .. m :
            \E refs \in [0 .. n -> g.entities] :
              /\ refs[0] = ref /\ refs[n] = r
              /\ \A i \in 1 .. n : \E l \in g.links :
                   l.from = refs[i - 1] /\ l.to = refs[i]}
           = Within(Hops(g), g.entities, m, ref)
<1> DEFINE Hop(x, y) == \E l \in g.links : l.from = x /\ l.to = y
           Hopping(refs, n) == \A i \in 1 .. n : Hop(refs[i - 1], refs[i])
<1>1. \A x, y : <<x, y>> \in Hops(g) <=> Hop(x, y)
  BY DEF Hops
<1>2. ASSUME NEW refs, NEW n
      PROVE  (\A i \in 1 .. n : <<refs[i - 1], refs[i]>> \in Hops(g))
               <=> Hopping(refs, n)
  <2> HIDE DEF Hop
  <2> QED BY <1>1
<1> HIDE DEF Hopping
<1>3. \A n, r : Chain(Hops(g), g.entities, n, ref, r) <=>
        \E refs \in [0 .. n -> g.entities] :
          refs[0] = ref /\ refs[n] = r /\ Hopping(refs, n)
  BY <1>2 DEF Chain
<1>4. {r \in g.entities : \E n \in 0 .. m :
         \E refs \in [0 .. n -> g.entities] :
           refs[0] = ref /\ refs[n] = r /\ Hopping(refs, n)}
        = Within(Hops(g), g.entities, m, ref)
  BY <1>3 DEF Within
<1> QED BY <1>4 DEF Hopping

LEMMA InspectFollowsLinks ==
  ASSUME IsGraph(graph), NEW s, s.depth \in Nat, s.ref \in graph.entities
  PROVE  Inspects(s)
<1> DEFINE E == Hops(graph)
           X == graph.entities
           W(k) == Within(E, X, k, s.ref)
           levels == CC!Min({s.depth, CC!MaxNeighbourhood})
           c == Cardinality(X)
           Rounds == [queue : SUBSET X, visited : SUBSET X,
                      links : SUBSET graph.links]
           first == [queue |-> {s.ref}, visited |-> {s.ref}, links |-> {}]
           step == [n \in Nat |-> [last \in Rounds |->
                      NextRound(graph, levels, n, last)]]
           IsSearch(f) ==
             f = [n \in Nat |-> IF n = 0 THEN first
                                ELSE NextRound(graph, levels, n, f[n - 1])]
           search == CHOOSE f : IsSearch(f)
           Good == {n \in Nat :
                      SearchedTo(search[n], graph, s.ref, levels, n)}
<1>1. levels \in Nat
  <2>1. levels = Min({s.depth, 8})
    BY SameOperators DEF CC!MaxNeighbourhood
  <2>2. \E x \in {s.depth, 8} : \A y \in {s.depth, 8} : x <= y
    OBVIOUS
  <2>3. Min({s.depth, 8}) \in {s.depth, 8}
    BY <2>2 DEF Min
  <2> HIDE DEF levels
  <2> QED BY <2>1, <2>3
<1>2. CC!Inspect(graph, s.ref, s.depth) = search[CC!Cardinality(X)].links
  BY DEF CC!Inspect, NextRound
<1> HIDE DEF levels
<1>3. step \in [Nat -> [Rounds -> Rounds]]
  <2>1. ASSUME NEW n \in Nat, NEW last \in Rounds
        PROVE  NextRound(graph, levels, n, last) \in Rounds
    <3> DEFINE links == IF n - 1 < levels
                        THEN UNION {CC!Links(graph, r) : r \in last.queue}
                        ELSE {}
               found == {l.to : l \in links} \ last.visited
    <3>1. links \subseteq graph.links /\ \A l \in links : l.to \in X
      BY DEF CC!Links
    <3>2. NextRound(graph, levels, n, last)
            = [queue |-> found, visited |-> last.visited \cup found,
               links |-> last.links \cup links]
      BY DEF NextRound
    <3> HIDE DEF links
    <3>3. found \subseteq X
      BY <3>1
    <3> HIDE DEF found
    <3> QED BY <3>1, <3>2, <3>3
  <2> HIDE DEF Rounds
  <2> QED BY <2>1
<1>4. PICK f : Recursive(f, Rounds, first, step)
  <2>1. first \in Rounds
    OBVIOUS
  <2> HIDE DEF step, Rounds, first
  <2> QED BY <1>3, <2>1, RecursionExists
<1>5. IsSearch(f)
  <2> HIDE DEF Rounds, first
  <2>1. \A n \in Nat \ {0} : n - 1 \in Nat /\ f[n - 1] \in Rounds
    BY <1>4 DEF Recursive
  <2>2. \A n \in Nat \ {0} :
          step[n][f[n - 1]] = NextRound(graph, levels, n, f[n - 1])
    BY <2>1
  <2> HIDE DEF step
  <2>3. \A n \in Nat : f[n] = IF n = 0 THEN first
                            ELSE NextRound(graph, levels, n, f[n - 1])
    BY <1>4, <2>2 DEF Recursive
  <2>4. f = [n \in Nat |-> f[n]]
    BY <1>4 DEF Recursive
  <2> QED BY <2>3, <2>4
<1>6. IsSearch(search)
  <2> HIDE DEF IsSearch
  <2> QED BY <1>5
<1> HIDE DEF search
<1>7. \A n \in Nat : n \in Good
  <2>1. 0 \in Good
    <3>1. search[0] = first
      <4> HIDE DEF first
      <4> QED BY <1>6
    <3>2. W(0) = {s.ref} /\ W(0 - 1) = {}
      <4>1. W(0) = {s.ref}
        BY WithinGrows
      <4>2. 0 .. 0 - 1 = {}
        OBVIOUS
      <4>3. W(0 - 1) = {}
        BY <4>2 DEF Within
      <4> QED BY <4>1, <4>3
    <3>3. OutOf(graph, {}) = {}
      BY DEF OutOf
    <3>4. /\ search[0].queue = {s.ref} /\ search[0].visited = {s.ref}
          /\ search[0].links = {} /\ 0 <= levels
      BY <1>1, <3>1
    <3> HIDE DEF first
    <3> QED BY <3>2, <3>3, <3>4 DEF SearchedTo
  <2>2. ASSUME NEW n \in Good PROVE n + 1 \in Good
    <3>1. n \in Nat /\ n + 1 \in Nat /\ n + 1 # 0 /\ (n + 1) - 1 = n
      OBVIOUS
    <3>2. search[n + 1] = NextRound(graph, levels, n + 1, search[n])
      <4> HIDE DEF first
      <4> QED BY <1>6, <3>1
    <3> QED BY <1>1, <3>1, <3>2, RoundSearchesOn
  <2>3. Good \in SUBSET Nat
    OBVIOUS
  <2> HIDE DEF Good
  <2> QED BY <2>1, <2>2, <2>3, AllNumbers
<1>8. CC!Cardinality(X) = c /\ c \in Nat \ {0} /\ IsFiniteSet(X)
  BY SameOperators, WithinStops DEF IsGraph
<1> DEFINE cut == IF c <= levels THEN c ELSE levels
<1>9. search[c].links = OutOf(graph, W(cut - 1))
  <2>1. SearchedTo(search[c], graph, s.ref, levels, c)
    <3> HIDE DEF c, W
    <3> QED BY <1>7, <1>8
  <2> HIDE DEF c
  <2> QED BY <2>1 DEF SearchedTo
<1>10. W(cut - 1) = W(levels - 1)
  <2>1. CASE c <= levels
    <3>1. levels - 1 \in Nat /\ levels - 1 >= c - 1
      <4> HIDE DEF c
      <4> QED BY <1>1, <1>8, <2>1
    <3>2. W(levels - 1) = W(c - 1)
      BY <1>8, <3>1, WithinStops
    <3> HIDE DEF c, W
    <3> QED BY <2>1, <3>2
  <2>2. CASE ~ (c <= levels)
    <3> HIDE DEF c, W
    <3> QED BY <2>2
  <2> QED BY <2>1, <2>2
<1>11. CC!Inspect(graph, s.ref, s.depth) = OutOf(graph, W(levels - 1))
  <2> HIDE DEF c, W, cut
  <2> QED BY <1>2, <1>8, <1>9, <1>10
<1> DEFINE near == {r \in graph.entities : \E n \in 0 .. levels - 1 :
                      \E refs \in [0 .. n -> graph.entities] :
                        /\ refs[0] = s.ref /\ refs[n] = r
                        /\ \A i \in 1 .. n : \E l \in graph.links :
                             l.from = refs[i - 1] /\ l.to = refs[i]}
<1>12. near = W(levels - 1)
  BY NearIsWithin
<1>13. CC!Inspect(graph, s.ref, s.depth)
         = {l \in graph.links : l.from \in near /\ l.to \in graph.entities}
  <2> HIDE DEF near, W
  <2> QED BY <1>11, <1>12 DEF OutOf
<1> QED BY <1>13 DEF Inspects, levels

-----------------------------------------------------------------------------
(* explain_dependencies *)

Near(link, direction) == IF direction = "upstream" THEN link.to ELSE link.from

(* The paths of n links from ref: no link but the first leads to what is on *)
(* the path already.                                                        *)
Routes(g, ref, direction, n) ==
  {p \in [1 .. n -> g.links] :
     /\ n >= 1 => Near(p[1], direction) = ref
     /\ \A i \in 1 .. n : p[i].from \in g.entities
     /\ \A i \in 2 .. n : Near(p[i], direction) = QE!Far(p[i - 1], direction)
     /\ \A i \in 2 .. n, j \in 1 .. n : j < i =>
          QE!Far(p[i], direction) \notin {p[j].from, p[j].to}}

LEMMA Numbered ==
  ASSUME NEW S, NEW n \in Nat, NEW p
  PROVE  p \in [1 .. n -> S] <=> p \in Seq(S) /\ Len(p) = n
<1>1. ASSUME p \in [1 .. n -> S] PROVE p \in Seq(S) /\ Len(p) = n
  BY <1>1
<1>2. ASSUME p \in Seq(S), Len(p) = n PROVE p \in [1 .. n -> S]
  BY <1>2
<1> QED BY <1>1, <1>2

LEMMA EndOf ==
  ASSUME NEW S, NEW n \in Nat, NEW p \in [1 .. n -> S]
  PROVE  /\ p = <<>> <=> n = 0
         /\ Last(p) = p[n] /\ QE!Last(p) = p[n]
<1>1. p \in Seq(S) /\ Len(p) = n
  BY Numbered
<1>2. p = <<>> <=> n = 0
  BY <1>1
<1> QED BY <1>1, <1>2 DEF Last, QE!Last

LEMMA Lengthened ==
  ASSUME NEW S, NEW n \in Nat, NEW p \in [1 .. n -> S], NEW l \in S
  PROVE  /\ Append(p, l) \in [1 .. n + 1 -> S]
         /\ Append(p, l)[n + 1] = l
         /\ \A i \in 1 .. n : Append(p, l)[i] = p[i]
<1>1. p \in Seq(S) /\ Len(p) = n
  BY Numbered
<1>2. Append(p, l) \in Seq(S) /\ Len(Append(p, l)) = n + 1
  BY <1>1
<1>3. Append(p, l) \in [1 .. n + 1 -> S]
  <2>1. PICK m \in Nat : m = n + 1
    OBVIOUS
  <2>2. Append(p, l) \in [1 .. m -> S]
    BY <1>2, <2>1, Numbered
  <2> QED BY <2>1, <2>2
<1>4. Append(p, l)[n + 1] = l /\ \A i \in 1 .. n : Append(p, l)[i] = p[i]
  BY <1>1
<1> QED BY <1>3, <1>4

(* What may be put after a path.                                            *)
Onward(g, ref, direction, n, p) ==
  {l \in g.links :
     /\ l.from \in g.entities
     /\ Near(l, direction) = IF n = 0 THEN ref ELSE QE!Far(p[n], direction)
     /\ \A j \in 1 .. n : QE!Far(l, direction) \notin {p[j].from, p[j].to}}

Longer(g, ref, direction, n, P) ==
  UNION {{Append(p, l) : l \in Onward(g, ref, direction, n, p)} : p \in P}

LEMMA ExtensionsGoOnward ==
  ASSUME NEW g, NEW ref, NEW direction, NEW n \in Nat,
         NEW P \in SUBSET [1 .. n -> g.links]
  PROVE  QE!Extensions(g, ref, direction, P)
           = Longer(g, ref, direction, n, P)
<1> DEFINE End(p) == IF p = <<>> THEN ref ELSE QE!Far(QE!Last(p), direction)
           Open(p) == {l \in QE!Neighbours(g, End(p), direction) :
                         ~ QE!Closes(P, p, QE!Far(l, direction))}
<1>1. ASSUME NEW p \in P PROVE Open(p) = Onward(g, ref, direction, n, p)
  <2>1. ASSUME NEW l \in g.links
        PROVE  l \in Open(p) <=> l \in Onward(g, ref, direction, n, p)
    <3>1. p \in [1 .. n -> g.links]
      OBVIOUS
    <3>2. DOMAIN p = 1 .. n /\ End(p) = IF n = 0 THEN ref
                                       ELSE QE!Far(p[n], direction)
      <4>1. (p = <<>> <=> n = 0) /\ QE!Last(p) = p[n]
        BY <3>1, EndOf
      <4> QED BY <3>1, <4>1
    <3>3. QE!Closes(P, p, QE!Far(l, direction)) <=>
            \E j \in 1 .. n : QE!Far(l, direction) \in {p[j].from, p[j].to}
      BY <3>2 DEF QE!Closes, QE!On
    <3>4. l \in QE!Neighbours(g, End(p), direction) <=>
            l.from \in g.entities /\ Near(l, direction) = End(p)
      BY DEF QE!Neighbours, Near
    <3> HIDE DEF End
    <3> QED BY <3>2, <3>3, <3>4 DEF Onward
  <2>2. Open(p) \subseteq g.links
    BY DEF QE!Neighbours
  <2> HIDE DEF Open
  <2> QED BY <2>1, <2>2 DEF Onward
<1>2. QE!Extensions(g, ref, direction, P)
        = UNION {{Append(p, l) : l \in Open(p)} : p \in P}
  BY DEF QE!Extensions
<1> HIDE DEF Open
<1> QED BY <1>1, <1>2 DEF Longer

LEMMA RoutesGoOn ==
  ASSUME NEW g, NEW ref, NEW direction, NEW n \in Nat
  PROVE  QE!Extensions(g, ref, direction, Routes(g, ref, direction, n))
           = Routes(g, ref, direction, n + 1)
<1> DEFINE R(k) == Routes(g, ref, direction, k)
           To(p) == Onward(g, ref, direction, n, p)
<1>1. QE!Extensions(g, ref, direction, R(n))
        = UNION {{Append(p, l) : l \in To(p)} : p \in R(n)}
  <2>1. R(n) \in SUBSET [1 .. n -> g.links]
    BY DEF Routes
  <2> HIDE DEF R, To
  <2>2. QE!Extensions(g, ref, direction, R(n))
          = Longer(g, ref, direction, n, R(n))
    BY <2>1, ExtensionsGoOnward
  <2> QED BY <2>2 DEF Longer, To
<1>2. ASSUME NEW p \in R(n), NEW l \in To(p) PROVE Append(p, l) \in R(n + 1)
  <2>1. p \in [1 .. n -> g.links] /\ l \in g.links
    BY DEF Routes, Onward
  <2> HIDE DEF R, To
  <2>2. PICK q : q = Append(p, l)
    OBVIOUS
  <2>3. /\ q \in [1 .. n + 1 -> g.links]
        /\ q[n + 1] = l /\ \A i \in 1 .. n : q[i] = p[i]
    <3>1. q \in [1 .. n + 1 -> g.links]
      BY <2>1, <2>2, Lengthened
    <3>2. q[n + 1] = l
      BY <2>1, <2>2, Lengthened
    <3>3. \A i \in 1 .. n : q[i] = p[i]
      BY <2>1, <2>2, Lengthened
    <3> QED BY <3>1, <3>2, <3>3
  <2> USE DEF R, To
  <2>4. n + 1 >= 1 => Near(q[1], direction) = ref
    <3>1. CASE n = 0
      BY <2>3, <3>1 DEF Onward
    <3>2. CASE n # 0
      BY <2>3, <3>2 DEF Routes
    <3> QED BY <3>1, <3>2
  <2>5. \A i \in 1 .. n + 1 : q[i].from \in g.entities
    BY <2>3 DEF Routes, Onward
  <2>6. ASSUME NEW i \in 2 .. n + 1
        PROVE  Near(q[i], direction) = QE!Far(q[i - 1], direction)
    <3>1. CASE i = n + 1
      <4>1. n # 0 /\ n \in 1 .. n /\ i - 1 = n
        BY <3>1
      <4> QED BY <2>3, <3>1, <4>1 DEF Onward
    <3>2. CASE i \in 2 .. n
      <4>1. i \in 1 .. n /\ i - 1 \in 1 .. n
        BY <3>2
      <4> QED BY <2>3, <3>2, <4>1 DEF Routes
    <3> QED BY <3>1, <3>2
  <2>7. ASSUME NEW i \in 2 .. n + 1, NEW j \in 1 .. n + 1, j < i
        PROVE  QE!Far(q[i], direction) \notin {q[j].from, q[j].to}
    <3>1. j \in 1 .. n /\ q[j] = p[j]
      BY <2>3, <2>7
    <3>2. CASE i = n + 1
      BY <2>3, <3>1, <3>2 DEF Onward
    <3>3. CASE i \in 2 .. n
      <4>1. i \in 1 .. n /\ q[i] = p[i]
        BY <2>3, <3>3
      <4> QED BY <2>7, <3>1, <3>3, <4>1 DEF Routes
    <3> QED BY <3>2, <3>3
  <2> QED BY <2>2, <2>3, <2>4, <2>5, <2>6, <2>7 DEF Routes
<1>3. ASSUME NEW q \in R(n + 1)
      PROVE  \E p \in R(n) : \E l \in To(p) : q = Append(p, l)
  <2>1. /\ q \in [1 .. n + 1 -> g.links]
        /\ Near(q[1], direction) = ref
        /\ \A i \in 1 .. n + 1 : q[i].from \in g.entities
        /\ \A i \in 2 .. n + 1 :
             Near(q[i], direction) = QE!Far(q[i - 1], direction)
        /\ \A i \in 2 .. n + 1, j \in 1 .. n + 1 : j < i =>
             QE!Far(q[i], direction) \notin {q[j].from, q[j].to}
    BY DEF Routes
  <2>2. PICK p : p = [i \in 1 .. n |-> q[i]]
    OBVIOUS
  <2>3. p \in [1 .. n -> g.links] /\ \A i \in 1 .. n : p[i] = q[i]
    BY <2>1, <2>2
  <2>4. q[n + 1] \in g.links
    BY <2>1
  <2>5. q = Append(p, q[n + 1])
    <3>1. PICK a : a = Append(p, q[n + 1])
      OBVIOUS
    <3>2. /\ a \in [1 .. n + 1 -> g.links]
          /\ a[n + 1] = q[n + 1] /\ \A i \in 1 .. n : a[i] = p[i]
      <4>1. a \in [1 .. n + 1 -> g.links]
        BY <2>3, <2>4, <3>1, Lengthened
      <4>2. a[n + 1] = q[n + 1]
        BY <2>3, <2>4, <3>1, Lengthened
      <4>3. \A i \in 1 .. n : a[i] = p[i]
        BY <2>3, <2>4, <3>1, Lengthened
      <4> QED BY <4>1, <4>2, <4>3
    <3>3. \A i \in 1 .. n + 1 : a[i] = q[i]
      BY <2>3, <3>2
    <3> QED BY <2>1, <3>1, <3>2, <3>3
  <2>6. p \in R(n)
    <3>1. n >= 1 => Near(p[1], direction) = ref
      BY <2>1, <2>3
    <3>2. \A i \in 1 .. n : p[i].from \in g.entities
      BY <2>1, <2>3
    <3>3. ASSUME NEW i \in 2 .. n
          PROVE  Near(p[i], direction) = QE!Far(p[i - 1], direction)
      <4>1. i \in 1 .. n /\ i - 1 \in 1 .. n /\ i \in 2 .. n + 1
        OBVIOUS
      <4> QED BY <2>1, <2>3, <4>1
    <3>4. ASSUME NEW i \in 2 .. n, NEW j \in 1 .. n, j < i
          PROVE  QE!Far(p[i], direction) \notin {p[j].from, p[j].to}
      <4>1. i \in 1 .. n /\ i \in 2 .. n + 1 /\ j \in 1 .. n + 1
        OBVIOUS
      <4> QED BY <2>1, <2>3, <3>4, <4>1
    <3> QED BY <2>3, <3>1, <3>2, <3>3, <3>4 DEF Routes
  <2>7. q[n + 1] \in To(p)
    <3>1. n + 1 \in 1 .. n + 1 /\ q[n + 1].from \in g.entities
      BY <2>1
    <3>2. Near(q[n + 1], direction)
            = IF n = 0 THEN ref ELSE QE!Far(p[n], direction)
      <4>1. CASE n = 0
        BY <2>1, <4>1
      <4>2. CASE n # 0
        <5>1. n + 1 \in 2 .. n + 1 /\ (n + 1) - 1 = n /\ n \in 1 .. n
          BY <4>2
        <5> QED BY <2>1, <2>3, <4>2, <5>1
      <4> QED BY <4>1, <4>2
    <3>3. ASSUME NEW j \in 1 .. n
          PROVE  QE!Far(q[n + 1], direction) \notin {p[j].from, p[j].to}
      <4>1. n + 1 \in 2 .. n + 1 /\ j \in 1 .. n + 1 /\ j < n + 1
        OBVIOUS
      <4> QED BY <2>1, <2>3, <4>1
    <3> QED BY <2>4, <3>1, <3>2, <3>3 DEF Onward
  <2> HIDE DEF R, To
  <2> QED BY <2>5, <2>6, <2>7
<1> HIDE DEF R, To
<1>4. UNION {{Append(p, l) : l \in To(p)} : p \in R(n)} = R(n + 1)
  <2>1. \A q : q \in UNION {{Append(p, l) : l \in To(p)} : p \in R(n)}
                <=> \E p \in R(n) : \E l \in To(p) : q = Append(p, l)
    OBVIOUS
  <2>2. \A q : q \in R(n + 1)
                <=> \E p \in R(n) : \E l \in To(p) : q = Append(p, l)
    BY <1>2, <1>3
  <2> QED BY <2>1, <2>2
<1> QED BY <1>1, <1>4 DEF R

LEMMA PathsAreRoutes ==
  ASSUME NEW g, NEW ref, NEW direction, NEW depth \in Nat
  PROVE  QE!Paths(g, ref, direction, depth)
           = UNION {Routes(g, ref, direction, n) : n \in 1 .. depth}
<1> DEFINE X == SUBSET Seq(g.links)
           More(S) == QE!Extensions(g, ref, direction, S)
           step == [n \in Nat |-> [S \in X |-> More(S)]]
           IsLevel(f) == f = [n \in Nat |-> IF n = 0 THEN {<<>>}
                                           ELSE More(f[n - 1])]
           level == CHOOSE f : IsLevel(f)
           Good == {n \in Nat : level[n] = Routes(g, ref, direction, n)}
<1>1. step \in [Nat -> [X -> X]]
  <2>1. ASSUME NEW S \in X PROVE More(S) \in X
    <3>1. \A p \in S, l \in g.links : Append(p, l) \in Seq(g.links)
      OBVIOUS
    <3> QED BY <3>1 DEF QE!Extensions, QE!Neighbours
  <2> HIDE DEF More, X
  <2> QED BY <2>1
<1>2. PICK f : Recursive(f, X, {<<>>}, step)
  <2>1. {<<>>} \in X
    OBVIOUS
  <2> HIDE DEF step, X
  <2> QED BY <1>1, <2>1, RecursionExists
<1>3. IsLevel(f)
  <2> HIDE DEF More, X
  <2>1. \A n \in Nat \ {0} : n - 1 \in Nat /\ f[n - 1] \in X
    BY <1>2 DEF Recursive
  <2>2. \A n \in Nat \ {0} : step[n][f[n - 1]] = More(f[n - 1])
    BY <2>1
  <2> HIDE DEF step
  <2>3. \A n \in Nat : f[n] = IF n = 0 THEN {<<>>} ELSE More(f[n - 1])
    BY <1>2, <2>2 DEF Recursive
  <2>4. f = [n \in Nat |-> f[n]]
    BY <1>2 DEF Recursive
  <2> QED BY <2>3, <2>4
<1>4. IsLevel(level)
  <2> HIDE DEF IsLevel
  <2> QED BY <1>3
<1> HIDE DEF level
<1>5. \A n \in Nat : n \in Good
  <2>1. 0 \in Good
    <3>1. level[0] = {<<>>}
      <4> HIDE DEF More
      <4> QED BY <1>4
    <3>2. Routes(g, ref, direction, 0) = {<<>>}
      <4>1. ASSUME NEW p PROVE p \in [1 .. 0 -> g.links] <=> p = <<>>
        <5>1. p \in [1 .. 0 -> g.links]
                <=> p \in Seq(g.links) /\ Len(p) = 0
          BY Numbered
        <5>2. ASSUME p \in Seq(g.links), Len(p) = 0 PROVE p = <<>>
          BY <5>2
        <5>3. <<>> \in Seq(g.links) /\ Len(<<>>) = 0
          OBVIOUS
        <5> QED BY <5>1, <5>2, <5>3, Zenon
      <4>2. 1 .. 0 = {} /\ 2 .. 0 = {}
        OBVIOUS
      <4> QED BY <4>1, <4>2 DEF Routes
    <3> QED BY <3>1, <3>2
  <2>2. ASSUME NEW n \in Good PROVE n + 1 \in Good
    <3>1. n \in Nat /\ n + 1 \in Nat /\ n + 1 # 0 /\ (n + 1) - 1 = n
      OBVIOUS
    <3>2. level[n + 1] = More(Routes(g, ref, direction, n))
      <4> HIDE DEF More
      <4> QED BY <1>4, <3>1
    <3> QED BY <3>1, <3>2, RoutesGoOn
  <2>3. Good \in SUBSET Nat
    OBVIOUS
  <2> HIDE DEF Good
  <2> QED BY <2>1, <2>2, <2>3, AllNumbers
<1>6. QE!Paths(g, ref, direction, depth) = UNION {level[n] : n \in 1 .. depth}
  BY DEF QE!Paths, level
<1>7. \A n \in 1 .. depth : level[n] = Routes(g, ref, direction, n)
  BY <1>5
<1> QED BY <1>6, <1>7

DownPath(g, ref, n, p) ==
  /\ p \in [1 .. n -> g.links] /\ p[1].from = ref
  /\ \A i \in 1 .. n : p[i].from \in g.entities
  /\ \A i \in 2 .. n : p[i].from = p[i - 1].to
  /\ \A i \in 2 .. n, j \in 1 .. n : j < i =>
       p[i].to # p[j].from /\ p[i].to # p[j].to

UpPath(g, ref, n, p) ==
  /\ p \in [1 .. n -> g.links] /\ p[1].to = ref
  /\ \A i \in 1 .. n : p[i].from \in g.entities
  /\ \A i \in 2 .. n : p[i].to = p[i - 1].from
  /\ \A i \in 2 .. n, j \in 1 .. n : j < i =>
       p[i].from # p[j].from /\ p[i].from # p[j].to

LEMMA DownAndUp ==
  ASSUME NEW g, NEW ref, NEW n \in Nat \ {0}, NEW p
  PROVE  /\ p \in Routes(g, ref, "downstream", n) <=> DownPath(g, ref, n, p)
         /\ p \in Routes(g, ref, "upstream", n) <=> UpPath(g, ref, n, p)
<1>1. n >= 1
  OBVIOUS
<1>2. p \in Routes(g, ref, "downstream", n) <=> DownPath(g, ref, n, p)
  <2>1. \A l : Near(l, "downstream") = l.from /\ QE!Far(l, "downstream") = l.to
    BY DEF Near, QE!Far
  <2>2. p \in Routes(g, ref, "downstream", n) <=>
          /\ p \in [1 .. n -> g.links]
          /\ Near(p[1], "downstream") = ref
          /\ \A i \in 1 .. n : p[i].from \in g.entities
          /\ \A i \in 2 .. n :
               Near(p[i], "downstream") = QE!Far(p[i - 1], "downstream")
          /\ \A i \in 2 .. n, j \in 1 .. n : j < i =>
               QE!Far(p[i], "downstream") \notin {p[j].from, p[j].to}
    BY <1>1 DEF Routes
  <2>3. \A i \in 2 .. n :
          (Near(p[i], "downstream") = QE!Far(p[i - 1], "downstream")
             <=> p[i].from = p[i - 1].to)
    BY <2>1
  <2>4. \A i \in 2 .. n, j \in 1 .. n :
          (QE!Far(p[i], "downstream") \notin {p[j].from, p[j].to}
             <=> (p[i].to # p[j].from /\ p[i].to # p[j].to))
    BY <2>1
  <2>5. Near(p[1], "downstream") = p[1].from
    BY <2>1
  <2> QED BY <2>2, <2>3, <2>4, <2>5 DEF DownPath
<1>3. p \in Routes(g, ref, "upstream", n) <=> UpPath(g, ref, n, p)
  <2>1. \A l : Near(l, "upstream") = l.to /\ QE!Far(l, "upstream") = l.from
    BY DEF Near, QE!Far
  <2>2. p \in Routes(g, ref, "upstream", n) <=>
          /\ p \in [1 .. n -> g.links]
          /\ Near(p[1], "upstream") = ref
          /\ \A i \in 1 .. n : p[i].from \in g.entities
          /\ \A i \in 2 .. n :
               Near(p[i], "upstream") = QE!Far(p[i - 1], "upstream")
          /\ \A i \in 2 .. n, j \in 1 .. n : j < i =>
               QE!Far(p[i], "upstream") \notin {p[j].from, p[j].to}
    BY <1>1 DEF Routes
  <2>3. \A i \in 2 .. n :
          (Near(p[i], "upstream") = QE!Far(p[i - 1], "upstream")
             <=> p[i].to = p[i - 1].from)
    BY <2>1
  <2>4. \A i \in 2 .. n, j \in 1 .. n :
          (QE!Far(p[i], "upstream") \notin {p[j].from, p[j].to}
             <=> (p[i].from # p[j].from /\ p[i].from # p[j].to))
    BY <2>1
  <2>5. Near(p[1], "upstream") = p[1].to
    BY <2>1
  <2> QED BY <2>2, <2>3, <2>4, <2>5 DEF UpPath
<1> QED BY <1>2, <1>3

(* Where a path stands has not been entered before.                         *)
LEMMA PathsAreSimple ==
  ASSUME NEW g, NEW ref, NEW n \in Nat \ {0},
         NEW p \in Routes(g, ref, "downstream", n), p[1].to # ref
  PROVE  /\ \A i \in 1 .. n : p[i].to # ref
         /\ \A i, j \in 1 .. n : p[i].to = p[j].to => i = j
<1>1. /\ p[1].from = ref
      /\ \A i \in 2 .. n, j \in 1 .. n : j < i =>
           p[i].to # p[j].from /\ p[i].to # p[j].to
  BY DownAndUp DEF DownPath
<1>2. \A i \in 1 .. n : i = 1 \/ (i \in 2 .. n /\ 1 < i /\ 1 \in 1 .. n)
  OBVIOUS
<1>3. ASSUME NEW i \in 1 .. n PROVE p[i].to # ref
  BY <1>1, <1>2
<1>4. ASSUME NEW i \in 1 .. n, NEW j \in 1 .. n, j < i PROVE p[i].to # p[j].to
  <2>1. i \in 2 .. n
    BY <1>4
  <2> QED BY <1>1, <1>4, <2>1
<1>5. ASSUME NEW i \in 1 .. n, NEW j \in 1 .. n, i # j PROVE p[i].to # p[j].to
  <2>1. i < j \/ j < i
    BY <1>5
  <2> QED BY <1>4, <2>1
<1> QED BY <1>3, <1>5

LEMMA ReversedPathsLeadBack ==
  ASSUME NEW g, NEW ref, NEW n \in Nat \ {0},
         NEW p \in Routes(g, ref, "downstream", n), p[1].to # ref
  PROVE  Reverse(p) \in Routes(g, p[n].to, "upstream", n)
<1>1. /\ p \in [1 .. n -> g.links] /\ p[1].from = ref
      /\ \A i \in 1 .. n : p[i].from \in g.entities
      /\ \A i \in 2 .. n : p[i].from = p[i - 1].to
      /\ \A i \in 2 .. n, j \in 1 .. n : j < i =>
           p[i].to # p[j].from /\ p[i].to # p[j].to
  BY DownAndUp DEF DownPath
<1>2. /\ \A i \in 1 .. n : p[i].to # ref
      /\ \A i, j \in 1 .. n : p[i].to = p[j].to => i = j
  BY PathsAreSimple
<1>3. PICK q : q = Reverse(p)
  OBVIOUS
<1>4. q = [i \in 1 .. n |-> p[(n - i) + 1]]
  <2>1. Len(p) = n
    BY <1>1, Numbered
  <2> QED BY <1>3, <2>1 DEF Reverse
<1>5. \A i \in 1 .. n : (n - i) + 1 \in 1 .. n /\ q[i] = p[(n - i) + 1]
  BY <1>4
<1>6. q \in [1 .. n -> g.links]
  <2>1. \A i \in 1 .. n : q[i] \in g.links
    BY <1>1, <1>5
  <2> QED BY <1>4, <2>1
<1>7. q[1].to = p[n].to
  <2>1. 1 \in 1 .. n /\ (n - 1) + 1 = n
    OBVIOUS
  <2> QED BY <1>5, <2>1
<1>8. \A i \in 1 .. n : q[i].from \in g.entities
  BY <1>1, <1>5
<1>9. ASSUME NEW i \in 2 .. n PROVE q[i].to = q[i - 1].from
  <2>1. /\ i \in 1 .. n /\ i - 1 \in 1 .. n
        /\ (n - (i - 1)) + 1 \in 2 .. n
        /\ ((n - (i - 1)) + 1) - 1 = (n - i) + 1
    OBVIOUS
  <2>2. q[i] = p[(n - i) + 1] /\ q[i - 1] = p[(n - (i - 1)) + 1]
    BY <1>5, <2>1
  <2>3. p[(n - (i - 1)) + 1].from = p[((n - (i - 1)) + 1) - 1].to
    BY <1>1, <2>1
  <2> QED BY <2>1, <2>2, <2>3
(* A path does not come back to where a link of it starts.                  *)
<1>10. ASSUME NEW a \in 1 .. n, NEW b \in 1 .. n, a < b
       PROVE  p[a].from # p[b].from /\ p[a].from # p[b].to
  <2>1. /\ b \in 2 .. n /\ b - 1 \in 1 .. n /\ p[b].from = p[b - 1].to
    BY <1>1, <1>10
  <2>2. CASE a = 1
    BY <1>1, <1>2, <2>1, <2>2
  <2>3. CASE a # 1
    <3>1. a \in 2 .. n /\ a - 1 \in 1 .. n /\ p[a].from = p[a - 1].to
      BY <1>1, <2>3
    <3>2. a - 1 # b - 1 /\ a - 1 # b
      BY <1>10
    <3> QED BY <1>2, <2>1, <3>1, <3>2
  <2> QED BY <2>2, <2>3
<1>11. ASSUME NEW i \in 2 .. n, NEW j \in 1 .. n, j < i
       PROVE  q[i].from # q[j].from /\ q[i].from # q[j].to
  <2>1. /\ i \in 1 .. n /\ (n - i) + 1 \in 1 .. n /\ (n - j) + 1 \in 1 .. n
        /\ (n - i) + 1 < (n - j) + 1
    BY <1>11
  <2>2. q[i] = p[(n - i) + 1] /\ q[j] = p[(n - j) + 1]
    BY <1>5, <2>1
  <2> QED BY <1>10, <2>1, <2>2
<1>12. UpPath(g, p[n].to, n, q)
  BY <1>6, <1>7, <1>8, <1>9, <1>11 DEF UpPath
<1> QED BY <1>3, <1>12, DownAndUp

LEMMA DependenciesAreExplained ==
  ASSUME NEW s, s.depth \in Nat
  PROVE  Explains(s)
<1> DEFINE down == QE!Paths(graph, s.ref, "downstream", s.depth)
           Down(n) == Routes(graph, s.ref, "downstream", n)
           Simple == SimpleWalks(s.ref, s.depth)
<1>1. down = UNION {Down(n) : n \in 1 .. s.depth}
  BY PathsAreRoutes
<1>2. \A n \in 1 .. s.depth : n \in Nat \ {0} /\ 1 \in 1 .. n
  OBVIOUS
<1>3. ASSUME NEW w \in Simple PROVE w \in down
  <2>1. PICK n \in 1 .. s.depth : w \in [1 .. n -> graph.links]
    BY DEF SimpleWalks
  <2>2. DOMAIN w = 1 .. n
    BY <2>1
  <2>3. /\ w[1].from = s.ref
        /\ \A i \in 1 .. n :
             /\ w[i].from \in graph.entities /\ w[i].to # s.ref
             /\ i > 1 => w[i].from = w[i - 1].to
             /\ \A j \in 1 .. n : w[i].to = w[j].to => i = j
    BY <2>2 DEF SimpleWalks
  <2>4. \A i \in 2 .. n : i \in 1 .. n /\ i > 1 /\ w[i].from = w[i - 1].to
    BY <2>3
  <2>5. ASSUME NEW i \in 2 .. n, NEW j \in 1 .. n, j < i
        PROVE  w[i].to # w[j].from /\ w[i].to # w[j].to
    <3>1. i \in 1 .. n /\ i # j
      BY <2>5
    <3>2. w[i].to # w[j].to
      BY <2>3, <3>1
    <3>3. CASE j = 1
      BY <2>3, <3>1, <3>2, <3>3
    <3>4. CASE j # 1
      <4>1. j > 1 /\ j - 1 \in 1 .. n /\ i # j - 1
        BY <2>5, <3>4
      <4>2. w[j].from = w[j - 1].to
        BY <2>3, <4>1
      <4>3. w[i].to # w[j - 1].to
        BY <2>3, <3>1, <4>1
      <4> QED BY <3>2, <4>2, <4>3
    <3> QED BY <3>3, <3>4
  <2>6. w \in Down(n)
    <3>1. DownPath(graph, s.ref, n, w)
      BY <2>1, <2>3, <2>4, <2>5 DEF DownPath
    <3> QED BY <1>2, <3>1, DownAndUp
  <2> HIDE DEF Down, down
  <2> QED BY <1>1, <2>6
<1>4. ASSUME NEW p \in down, p[1].to # s.ref PROVE p \in Simple
  <2>1. PICK n \in 1 .. s.depth : p \in Down(n)
    <3> HIDE DEF Down, down
    <3> QED BY <1>1
  <2>2. n \in Nat \ {0}
    BY <1>2
  <2>3. /\ p \in [1 .. n -> graph.links] /\ p[1].from = s.ref
        /\ \A i \in 1 .. n : p[i].from \in graph.entities
        /\ \A i \in 2 .. n : p[i].from = p[i - 1].to
    BY <2>1, <2>2, DownAndUp DEF DownPath
  <2>4. /\ \A i \in 1 .. n : p[i].to # s.ref
        /\ \A i, j \in 1 .. n : p[i].to = p[j].to => i = j
    BY <1>4, <2>1, <2>2, PathsAreSimple
  <2>5. DOMAIN p = 1 .. n /\ \A i \in 1 .. n : i > 1 => i \in 2 .. n
    BY <2>3
  <2>6. p \in UNION {[1 .. m -> graph.links] : m \in 1 .. s.depth}
    BY <2>3
  <2> HIDE DEF Down, down
  <2> QED BY <2>3, <2>4, <2>5, <2>6 DEF SimpleWalks
<1>5. ASSUME NEW p \in down PROVE p[1].from = s.ref
  <2>1. PICK n \in 1 .. s.depth : p \in Down(n)
    <3> HIDE DEF Down, down
    <3> QED BY <1>1
  <2> QED BY <1>2, <2>1, DownAndUp DEF DownPath
<1>6. ASSUME NEW ref, NEW p \in down, Last(p).to = ref, p[1].to # s.ref
      PROVE  Reverse(p) \in QE!Paths(graph, ref, "upstream", s.depth)
  <2>1. PICK n \in 1 .. s.depth : p \in Down(n)
    <3> HIDE DEF Down, down
    <3> QED BY <1>1
  <2>2. n \in Nat \ {0} /\ n \in Nat /\ p \in [1 .. n -> graph.links]
    BY <1>2, <2>1, DownAndUp DEF DownPath
  <2>3. p[n].to = ref
    BY <1>6, <2>2, EndOf
  <2>4. Reverse(p) \in Routes(graph, p[n].to, "upstream", n)
    BY <1>6, <2>1, <2>2, ReversedPathsLeadBack
  <2>5. QE!Paths(graph, ref, "upstream", s.depth)
          = UNION {Routes(graph, ref, "upstream", m) : m \in 1 .. s.depth}
    BY PathsAreRoutes
  <2> HIDE DEF down
  <2> QED BY <2>3, <2>4, <2>5
<1> HIDE DEF Simple, Down
<1>7. Simple \subseteq down /\ \A p \in down \ Simple :
        p[1].from = s.ref /\ p[1].to = s.ref
  <2> HIDE DEF down
  <2> QED BY <1>3, <1>4, <1>5
<1> QED BY <1>6, <1>7 DEF Explains, Simple

(* What is linked is found, and explained (traverse, explain_dependencies,  *)
(* inspect_entity).                                                         *)
THEOREM LinksAreFollowedAlways == Spec => []LinksAreFollowed
<1>1. IInv => LinksAreFollowed
  <2> SUFFICES ASSUME IInv, NEW s \in Searches
               PROVE  /\ Traverses(s)
                      /\ s.ref \in graph.entities => Explains(s) /\ Inspects(s)
    BY DEF LinksAreFollowed
  <2>1. s.depth \in Nat /\ IsGraph(graph)
    BY ReadingAssumption DEF IInv
  <2> QED BY <2>1, TraverseFindsWalks, DependenciesAreExplained,
             InspectFollowsLinks
<1> QED BY <1>1, InvariantHolds, PTL

=============================================================================
