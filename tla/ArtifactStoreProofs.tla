------------------------- MODULE ArtifactStoreProofs -------------------------
(***************************************************************************)
(* Proofs about the artifact directory, for any number of sidecars, graphs *)
(* and cut-off calls: what was exported can be read, the quota is exceeded *)
(* by no more than one artifact for each other writer, and temporary files *)
(* do not pile up.                                                         *)
(*                                                                         *)
(* Bytes are counted as the elements of a set, <<d, i>> for the i-th byte  *)
(* of d, so that what the directory holds and what writers have been       *)
(* granted are both cardinalities.                                         *)
(***************************************************************************)
EXTENDS ArtifactStore, FiniteSetTheorems, TLAPS

-----------------------------------------------------------------------------
(* Counting. *)

(* One element for each x in S and each number up to f[x].                  *)
Cells(S, f) == UNION {{x} \X (1 .. f[x]) : x \in S}

LEMMA CellsOf ==
  ASSUME NEW S, NEW f, NEW c
  PROVE  c \in Cells(S, f) <=>
           \E x \in S : \E i \in 1 .. f[x] : c = <<x, i>>
BY DEF Cells

LEMMA CellsOfOne ==
  ASSUME NEW x, NEW n \in Nat
  PROVE  /\ IsFiniteSet({x} \X (1 .. n))
         /\ Cardinality({x} \X (1 .. n)) = n
<1>1. IsFiniteSet({x}) /\ Cardinality({x}) = 1
  BY FS_Singleton
<1>2. IsFiniteSet(1 .. n) /\ Cardinality(1 .. n) = n
  BY FS_Interval
<1>3. \A T : IsFiniteSet(T) =>
        /\ IsFiniteSet({x} \X T)
        /\ Cardinality({x} \X T) = 1 * Cardinality(T)
  BY <1>1, FS_Product
<1>4. 1 * n = n
  OBVIOUS
<1> QED BY <1>2, <1>3, <1>4, Zenon

LEMMA CellsFinite ==
  ASSUME NEW S, IsFiniteSet(S), NEW f, \A x \in S : f[x] \in Nat
  PROVE  /\ IsFiniteSet(Cells(S, f))
         /\ Cardinality(Cells(S, f)) \in Nat
<1> DEFINE R == {{x} \X (1 .. f[x]) : x \in S}
           g == [x \in S |-> {x} \X (1 .. f[x])]
<1>1. g \in Surjection(S, R)
  BY DEF Surjection
<1>2. IsFiniteSet(R)
  BY <1>1, FS_Surjection
<1>3. \A x \in S : IsFiniteSet({x} \X (1 .. f[x]))
  BY CellsOfOne, Zenon
<1>4. \A T \in R : IsFiniteSet(T)
  BY <1>3
<1>5. IsFiniteSet(UNION R)
  BY <1>2, <1>4, FS_UNION
<1> QED BY <1>5, FS_CardinalityType DEF Cells

LEMMA CellsMonotonic ==
  ASSUME NEW S, NEW T, S \subseteq T, IsFiniteSet(T),
         NEW f, \A x \in T : f[x] \in Nat
  PROVE  Cardinality(Cells(S, f)) <= Cardinality(Cells(T, f))
<1>1. Cells(S, f) \subseteq Cells(T, f)
  BY CellsOf
<1> QED BY <1>1, CellsFinite, FS_Subset

LEMMA CellsAdd ==
  ASSUME NEW S, IsFiniteSet(S), NEW x, x \notin S,
         NEW f, \A y \in S \cup {x} : f[y] \in Nat
  PROVE  Cardinality(Cells(S \cup {x}, f)) = Cardinality(Cells(S, f)) + f[x]
<1> DEFINE One == {x} \X (1 .. f[x])
<1>1. Cells(S \cup {x}, f) = Cells(S, f) \cup One
  BY DEF Cells
<1>2. Cells(S, f) \cap One = {}
  BY CellsOf
<1>3. IsFiniteSet(Cells(S, f)) /\ Cardinality(Cells(S, f)) \in Nat
  BY CellsFinite
<1>4. IsFiniteSet(One) /\ Cardinality(One) = f[x]
  BY CellsOfOne
<1>5. Cardinality({}) = 0
  BY FS_EmptySet
<1> HIDE DEF One
<1>6. Cardinality(Cells(S, f) \cup One) =
        Cardinality(Cells(S, f)) + Cardinality(One)
          - Cardinality(Cells(S, f) \cap One)
  BY <1>3, <1>4, FS_Union
<1>7. f[x] \in Nat
  OBVIOUS
<1> DEFINE a == Cardinality(Cells(S, f))
           b == Cardinality(Cells(S, f) \cup One)
<1>8. b = a + f[x]
  <2>1. b = a + f[x] - 0 /\ a \in Nat
    BY <1>2, <1>3, <1>4, <1>5, <1>6
  <2> HIDE DEF a, b
  <2> QED BY <1>7, <2>1
<1> QED BY <1>1, <1>8

LEMMA CellsBounded ==
  ASSUME NEW S, IsFiniteSet(S), NEW m \in Nat,
         NEW f, \A x \in S : f[x] \in Nat /\ f[x] <= m
  PROVE  Cardinality(Cells(S, f)) <= Cardinality(S) * m
<1>1. Cells(S, f) \subseteq S \X (1 .. m)
  <2> SUFFICES ASSUME NEW c \in Cells(S, f)
               PROVE  c \in S \X (1 .. m)
    OBVIOUS
  <2>1. PICK x \in S : \E i \in 1 .. f[x] : c = <<x, i>>
    BY CellsOf
  <2>2. PICK i \in 1 .. f[x] : c = <<x, i>>
    BY <2>1
  <2>3. i \in 1 .. m
    OBVIOUS
  <2> QED BY <2>2, <2>3
<1>2. IsFiniteSet(1 .. m) /\ Cardinality(1 .. m) = m
  BY FS_Interval
<1>3. /\ IsFiniteSet(S \X (1 .. m))
      /\ Cardinality(S \X (1 .. m)) = Cardinality(S) * m
  BY <1>2, FS_Product
<1> QED BY <1>1, <1>3, FS_Subset

LEMMA CellsAgree ==
  ASSUME NEW S, NEW f, NEW g, \A x \in S : f[x] = g[x]
  PROVE  Cells(S, f) = Cells(S, g)
BY DEF Cells

(* A finite set of numbers has a greatest one: by the well-foundedness of   *)
(* the subsets of a finite set, a smallest set without one would have a     *)
(* smaller one.                                                             *)
LEMMA GreatestExists ==
  ASSUME NEW S \in SUBSET Nat, IsFiniteSet(S), S # {}
  PROVE  /\ Max(S) \in S
         /\ \A y \in S : y <= Max(S)
<1> DEFINE HasMax(U) == \E x \in U : \A y \in U : x >= y
           Bad == {U \in SUBSET S : U # {} /\ ~ HasMax(U)}
<1>1. Bad = {}
  <2> SUFFICES ASSUME Bad # {} PROVE FALSE
    OBVIOUS
  <2>1. IsWellFoundedOn(StrictSubsetOrdering(S), SUBSET S)
    BY FS_StrictSubsetOrderingWellFounded, FS_FiniteSubsetsOfFinite
  <2>2. PICK U \in Bad : \A V \in Bad : ~ (<<V, U>> \in StrictSubsetOrdering(S))
    <3> HIDE DEF Bad
    <3>1. Bad \subseteq SUBSET S
      BY DEF Bad
    <3> QED BY <2>1, <3>1, WFMin
  <2>3. PICK x \in U : TRUE
    OBVIOUS
  <2> DEFINE V == U \ {x}
  <2>4. V \notin Bad
    <3>1. <<V, U>> \in StrictSubsetOrdering(S)
      BY <2>3 DEF StrictSubsetOrdering
    <3> QED BY <2>2, <3>1
  <2>5. CASE V = {}
    <3>1. U = {x} /\ x \in Nat
      BY <2>3, <2>5
    <3> QED BY <3>1
  <2>6. CASE V # {}
    <3>1. PICK m \in V : \A y \in V : m >= y
      BY <2>4, <2>6
    <3>2. x \in Nat /\ m \in Nat /\ U = V \cup {x} /\ U \subseteq Nat
      BY <2>3
    <3>3. HasMax(U)
      <4>1. CASE x >= m
        BY <3>1, <3>2, <4>1
      <4>2. CASE m > x
        BY <3>1, <3>2, <4>2
      <4> QED BY <3>2, <4>1, <4>2
    <3> QED BY <3>3
  <2> QED BY <2>5, <2>6
<1>2. PICK x \in S : \A y \in S : x >= y
  BY <1>1
<1>3. Max(S) \in S /\ \A y \in S : Max(S) >= y
  BY <1>2 DEF Max
<1> QED BY <1>3

-----------------------------------------------------------------------------
(* The inductive invariant. *)

(* TypeOK but for the number of temporary files; a process at a file        *)
(* operation is busy with some digest.                                      *)
Types ==
  /\ data \subseteq Digests
  /\ manifest \in [Digests -> {None, "valid", "expired"}]
  /\ temps \subseteq [of : Digests, kind : Kinds, by : Sidecars]
  /\ IsFiniteSet(temps)
  /\ at \in [Sidecars -> Steps]
  /\ item \in [Sidecars -> Digests \cup {None}]
  /\ todo \in [Sidecars -> SUBSET Digests]
  /\ cuts \in 0 .. MaxCuts
  /\ exported \subseteq Digests
  /\ raced \subseteq Digests
  /\ \A w \in Sidecars : at[w] \notin {"idle", "sweep"} => item[w] \in Digests

(* The temporary file a writer has created and not renamed yet.             *)
OwnTemp(w) == Temp(w, IF at[w] = "rename" THEN "data" ELSE "manifest")

Writers == {w \in Sidecars : at[w] \in {"rename", "publish"}}

BeingWritten == {OwnTemp(w) : w \in Writers}

(* Each of the others stems from a call that was cut off.                   *)
LeftByCutOffs == Cardinality(temps \ BeingWritten) <= cuts

(* Writers that have measured the directory and not added their bytes yet,  *)
(* and what they will add.                                                  *)
Granted == {w \in Sidecars : at[w] \in {"create", "rename"}}

Wanted == [w \in Sidecars |-> Size[item[w]]]

Largest == Max({Size[d] : d \in Digests})

Room == Quota + (Cardinality(Sidecars) - 1) * Largest

BytesFit ==
  Cardinality(Cells(data, Size)) + Cardinality(Cells(Granted, Wanted)) <= Room

(* A put that has found or written the data is about to publish a manifest  *)
(* for it; a sweep that takes an artifact has found it expired.  Where the  *)
(* two have met, they have raced.                                           *)
PutsAndSweeps ==
  /\ Overlaps \subseteq raced
  /\ \A w \in Sidecars :
       at[w] \in {"describe", "publish"} => item[w] \in data \cup raced
  /\ \A w \in Sidecars :
       at[w] \in {"take_data", "take_manifest"} =>
         item[w] \in raced \/ manifest[item[w]] # "valid"

IInv == Types /\ LeftByCutOffs /\ BytesFit /\ PutsAndSweeps /\ ExportedIsReadable

LEMMA WantedType ==
  ASSUME Types
  PROVE  /\ \A d \in Digests : Size[d] \in Nat
         /\ \A w \in Granted : w \in Sidecars /\ item[w] \in Digests
                               /\ Wanted[w] = Size[item[w]]
                               /\ Wanted[w] \in Nat
BY ArtifactAssumption DEF Types, Granted, Wanted

LEMMA LargestBounds ==
  /\ Largest \in Nat
  /\ \A d \in Digests : Size[d] \in Nat /\ Size[d] <= Largest
<1> DEFINE S == {Size[d] : d \in Digests}
           g == [d \in Digests |-> Size[d]]
<1>1. S \in SUBSET Nat /\ S # {}
  BY ArtifactAssumption
<1>2. g \in Surjection(Digests, S)
  BY DEF Surjection
<1>3. IsFiniteSet(S)
  BY <1>2, ArtifactAssumption, FS_Surjection
<1>4. Max(S) \in S /\ \A y \in S : y <= Max(S)
  BY <1>1, <1>3, GreatestExists
<1> QED BY <1>1, <1>4 DEF Largest

LEMMA RoomBounds ==
  /\ Cardinality(Sidecars) \in Nat /\ Cardinality(Sidecars) >= 1
  /\ (Cardinality(Sidecars) - 1) * Largest \in Nat
  /\ Room \in Nat /\ Room >= Quota
<1>1. Cardinality(Sidecars) \in Nat /\ Cardinality(Sidecars) # 0
  BY ArtifactAssumption, FS_CardinalityType, FS_EmptySet
<1>2. Largest \in Nat
  BY LargestBounds
<1>3. \A a, b \in Nat : a * b \in Nat
  OBVIOUS
<1>4. Cardinality(Sidecars) - 1 \in Nat
  BY <1>1
<1>5. (Cardinality(Sidecars) - 1) * Largest \in Nat
  BY <1>2, <1>3, <1>4
<1> QED BY <1>1, <1>5, ArtifactAssumption DEF Room

LEMMA InitInvariant == Init => IInv
<1> SUFFICES ASSUME Init PROVE IInv
  OBVIOUS
<1>1. Types
  BY ArtifactAssumption, FS_EmptySet DEF Init, Types, Steps, PutSteps
<1>2. LeftByCutOffs
  BY FS_EmptySet DEF Init, LeftByCutOffs
<1>3. BytesFit
  <2>1. Granted = {} /\ data = {}
    BY DEF Init, Granted
  <2>2. \A f : Cells({}, f) = {}
    BY DEF Cells
  <2> QED BY <2>1, <2>2, RoomBounds, FS_EmptySet DEF BytesFit
<1>4. PutsAndSweeps /\ ExportedIsReadable
  BY ArtifactAssumption
     DEF Init, PutsAndSweeps, Overlaps, PutSteps, ExportedIsReadable
<1> QED BY <1>1, <1>2, <1>3, <1>4 DEF IInv

(* What a step of one process does to where it is.                          *)
LEMMA TurnsTo ==
  ASSUME Types, NEW w \in Sidecars, NEW d \in Digests \cup {None},
         NEW from, NEW to \in Steps, Turns(w, d, from, to),
         to \notin {"idle", "sweep"} => d \in Digests
  PROVE  /\ at[w] = from /\ at'[w] = to
         /\ to \notin {"idle", "sweep"} => item'[w] = d
         /\ at' \in [Sidecars -> Steps]
         /\ item' \in [Sidecars -> Digests \cup {None}]
         /\ \A v \in Sidecars \ {w} : at'[v] = at[v] /\ item'[v] = item[v]
         /\ \A v \in Sidecars :
              at'[v] \notin {"idle", "sweep"} => item'[v] \in Digests
BY DEF Types, Turns

LEMMA TypesStep ==
  ASSUME Types, Next
  PROVE  Types'
<1> USE DEF Types
<1>1. raced' \subseteq Digests
  BY DEF Next, Overlaps
<1>2. ASSUME NEW w \in Sidecars, NEW d \in Digests, Begin(w, d)
      PROVE  Types'
  <2>1. "check" \in Steps
    BY DEF Steps, PutSteps
  <2> QED BY <1>1, <1>2, <2>1, TurnsTo DEF Begin, directory
<1>3. ASSUME NEW w \in Sidecars, Put(w)
      PROVE  Types'
  <2>1. PutSteps \cup {"idle"} \subseteq Steps
    BY DEF Steps
  <2>2. CASE Check(w) \/ Measure(w)
    <3>1. PICK from \in {"check", "measure"},
               to \in {"measure", "create", "describe", "idle"} :
            Turns(w, item[w], from, to)
      BY <2>2 DEF Check, Measure, Moves
    <3>2. item[w] \in Digests
      BY <3>1 DEF Turns
    <3>3. UNCHANGED <<data, manifest, temps, todo, cuts, exported>>
      BY <2>2 DEF Check, Measure, directory
    <3> QED BY <1>1, <2>1, <3>1, <3>2, <3>3, TurnsTo DEF PutSteps
  <2>3. CASE Create(w)
    <3>1. PICK kind \in Kinds, from \in {"create", "describe"},
               to \in {"rename", "publish"} : Creates(w, kind, from, to)
      BY <2>3 DEF Create, Kinds
    <3>2. at[w] = from /\ item[w] \in Digests
      BY <3>1 DEF Creates, Moves, Turns
    <3>3. /\ temps' \subseteq [of : Digests, kind : Kinds, by : Sidecars]
          /\ IsFiniteSet(temps')
      BY <3>1, <3>2, FS_AddElement DEF Creates, Temp
    <3> QED BY <1>1, <2>1, <3>1, <3>2, <3>3, TurnsTo
            DEF Creates, Moves, PutSteps
  <2>4. CASE Rename(w)
    <3>1. at[w] = "rename" /\ item[w] \in Digests
      BY <2>4 DEF Rename, Moves, Turns
    <3>2. IsFiniteSet(temps')
      BY <2>4, FS_RemoveElement DEF Rename
    <3> QED BY <1>1, <2>1, <2>4, <3>1, <3>2, TurnsTo
            DEF Rename, Moves, PutSteps
  <2>5. CASE Publish(w)
    <3>1. at[w] = "publish" /\ item[w] \in Digests
      BY <2>5 DEF Publish, Moves, Turns
    <3>2. IsFiniteSet(temps')
      BY <2>5, FS_RemoveElement DEF Publish
    <3> QED BY <1>1, <2>1, <2>5, <3>1, <3>2, TurnsTo
            DEF Publish, Moves, PutSteps
  <2> QED BY <1>3, <2>2, <2>3, <2>4, <2>5 DEF Put
<1>4. ASSUME NEW w \in Sidecars, Sweep(w)
      PROVE  Types'
  <2>1. {"idle", "sweep", "take_data", "take_manifest"} \subseteq Steps
    BY DEF Steps
  <2>2. CASE List(w) \/ Swept(w)
    <3>1. PICK from \in Steps, to \in {"idle", "sweep"} :
            Turns(w, item[w], from, to)
      BY <2>1, <2>2 DEF List, Swept, Moves
    <3>2. /\ UNCHANGED <<data, manifest, temps, cuts, exported>>
          /\ todo' \in [Sidecars -> SUBSET Digests]
      BY <2>2 DEF List, Swept, directory
    <3> QED BY <1>1, <2>1, <3>1, <3>2, TurnsTo
  <2>3. CASE \E d \in Digests : Look(w, d)
    <3>1. PICK d \in Digests : Look(w, d)
      BY <2>3
    <3>2. PICK to \in {"idle", "sweep", "take_data"} : Turns(w, d, "sweep", to)
      BY <3>1 DEF Look
    <3> QED BY <1>1, <2>1, <3>1, <3>2, TurnsTo DEF Look, directory
  <2>4. CASE TakeData(w)
    <3>1. item[w] \in Digests
      BY <2>4 DEF TakeData, Moves, Turns
    <3> QED BY <1>1, <2>1, <2>4, <3>1, TurnsTo DEF TakeData, Moves
  <2>5. CASE TakeManifest(w)
    <3>1. item[w] \in Digests
      BY <2>5 DEF TakeManifest, Moves, Turns
    <3>2. PICK to \in {"idle", "sweep"} :
            Turns(w, item[w], "take_manifest", to)
      BY <2>5 DEF TakeManifest, Moves
    <3> QED BY <1>1, <2>1, <2>5, <3>1, <3>2, TurnsTo DEF TakeManifest
  <2> QED BY <1>4, <2>2, <2>3, <2>4, <2>5 DEF Sweep
<1>5. ASSUME NEW w \in Sidecars, CutOff(w)
      PROVE  Types'
  <2>1. cuts' \in 0 .. MaxCuts
    BY <1>5, ArtifactAssumption DEF CutOff
  <2>2. "idle" \in Steps /\ item[w] \in Digests \cup {None}
    BY DEF Steps
  <2> QED BY <1>1, <1>5, <2>1, <2>2, TurnsTo DEF CutOff, Moves, directory
<1>6. ASSUME NEW d \in Digests, Expire(d)
      PROVE  Types'
  BY <1>1, <1>6 DEF Expire, processes
<1> QED BY <1>2, <1>3, <1>4, <1>5, <1>6 DEF Next, Step

-----------------------------------------------------------------------------
(* Temporary files. *)

(* Every step but the expiry of a manifest is a step of one process.        *)
LEMMA OneMoves ==
  ASSUME Types, NEW w \in Sidecars, NEW d, NEW from, NEW to, Turns(w, d, from, to)
  PROVE  /\ at[w] = from /\ at'[w] = to
         /\ to \notin {"idle", "sweep"} => item'[w] = d
         /\ \A v \in Sidecars \ {w} : at'[v] = at[v] /\ item'[v] = item[v]
BY DEF Types, Turns

LEMMA StillWritten ==
  ASSUME Types, NEW w \in Sidecars,
         \A v \in Sidecars \ {w} : at'[v] = at[v] /\ item'[v] = item[v]
  PROVE  /\ BeingWritten \ {OwnTemp(w)} \subseteq BeingWritten'
         /\ w \notin Writers => BeingWritten \subseteq BeingWritten'
         /\ w \in Writers' => OwnTemp(w)' \in BeingWritten'
<1>1. ASSUME NEW v \in Writers, v # w
      PROVE  OwnTemp(v) \in BeingWritten'
  BY <1>1 DEF Writers, BeingWritten, OwnTemp, Temp
<1>2. w \in Writers' => OwnTemp(w)' \in BeingWritten'
  BY DEF BeingWritten
<1> QED BY <1>1, <1>2 DEF BeingWritten

LEMMA LeftNoMore ==
  ASSUME Types, LeftByCutOffs, cuts' = cuts,
         temps' \ BeingWritten' \subseteq temps \ BeingWritten
  PROVE  LeftByCutOffs'
<1>1. IsFiniteSet(temps \ BeingWritten)
  BY FS_Difference DEF Types
<1>2. Cardinality(temps' \ BeingWritten') <= Cardinality(temps \ BeingWritten)
  BY <1>1, FS_Subset
<1>3. /\ Cardinality(temps \ BeingWritten) \in Nat
      /\ Cardinality(temps' \ BeingWritten') \in Nat
  BY <1>1, FS_Subset, FS_CardinalityType
<1>4. cuts \in Int
  BY ArtifactAssumption DEF Types
<1> HIDE DEF BeingWritten
<1> QED BY <1>2, <1>3, <1>4 DEF LeftByCutOffs

(* A process that writes no temporary file, neither before nor after.       *)
LEMMA LeftAlone ==
  ASSUME Types, LeftByCutOffs, NEW w \in Sidecars, w \notin Writers,
         \A v \in Sidecars \ {w} : at'[v] = at[v] /\ item'[v] = item[v],
         UNCHANGED <<temps, cuts>>
  PROVE  LeftByCutOffs'
<1>1. BeingWritten \subseteq BeingWritten'
  BY StillWritten
<1> HIDE DEF BeingWritten
<1> QED BY <1>1, LeftNoMore

LEMMA LeftByCutOffsStep ==
  ASSUME Types, LeftByCutOffs, Next
  PROVE  LeftByCutOffs'
<1>1. ASSUME NEW w \in Sidecars, NEW d \in Digests, Begin(w, d)
      PROVE  LeftByCutOffs'
  BY <1>1, OneMoves, LeftAlone DEF Begin, directory, Writers
<1>2. ASSUME NEW w \in Sidecars, Put(w)
      PROVE  LeftByCutOffs'
  <2>1. CASE Check(w)
    BY <2>1, OneMoves, LeftAlone DEF Check, Moves, directory, Writers
  <2>2. CASE Measure(w)
    BY <2>2, OneMoves, LeftAlone DEF Measure, Moves, directory, Writers
  <2>3. CASE Create(w)
    <3>1. PICK kind \in Kinds, from \in {"create", "describe"},
               to \in {"rename", "publish"} :
            Creates(w, kind, from, to)
            /\ kind = IF to = "rename" THEN "data" ELSE "manifest"
      BY <2>3 DEF Create, Kinds
    <3>2. \/ at'[w] = to /\ item'[w] = item[w]
          \/ Temp(w, kind) \in temps
      BY <3>1, OneMoves DEF Creates, Moves
    <3>3. BeingWritten \subseteq BeingWritten'
      BY <3>1, OneMoves, StillWritten DEF Creates, Moves, Writers
    <3>4. Temp(w, kind) \in temps \cup BeingWritten'
      <4>1. CASE at'[w] = to /\ item'[w] = item[w]
        <5>1. OwnTemp(w)' = Temp(w, kind) /\ w \in Writers'
          BY <3>1, <4>1 DEF OwnTemp, Temp, Writers
        <5> QED BY <5>1 DEF BeingWritten
      <4> QED BY <3>2, <4>1
    <3>5. temps' = temps \cup {Temp(w, kind)} /\ cuts' = cuts
      BY <3>1 DEF Creates
    <3> HIDE DEF BeingWritten
    <3> QED BY <3>3, <3>4, <3>5, LeftNoMore
  <2>4. CASE Rename(w) \/ Publish(w)
    <3>1. temps' = temps \ {OwnTemp(w)} /\ cuts' = cuts
      BY <2>4 DEF Rename, Publish, OwnTemp, Moves, Turns
    <3>2. BeingWritten \ {OwnTemp(w)} \subseteq BeingWritten'
      BY <2>4, OneMoves, StillWritten DEF Rename, Publish, Moves
    <3> HIDE DEF BeingWritten
    <3> QED BY <3>1, <3>2, LeftNoMore
  <2> QED BY <1>2, <2>1, <2>2, <2>3, <2>4 DEF Put
<1>3. ASSUME NEW w \in Sidecars, Sweep(w)
      PROVE  LeftByCutOffs'
  <2>1. CASE List(w)
    BY <2>1, OneMoves, LeftAlone DEF List, Moves, directory, Writers
  <2>2. CASE Swept(w)
    BY <2>2, OneMoves, LeftAlone DEF Swept, Moves, directory, Writers
  <2>3. CASE \E d \in Digests : Look(w, d)
    BY <2>3, OneMoves, LeftAlone DEF Look, directory, Writers
  <2>4. CASE TakeData(w)
    BY <2>4, OneMoves, LeftAlone DEF TakeData, Moves, Writers
  <2>5. CASE TakeManifest(w)
    BY <2>5, OneMoves, LeftAlone DEF TakeManifest, Moves, Writers
  <2> QED BY <1>3, <2>1, <2>2, <2>3, <2>4, <2>5 DEF Sweep
<1>4. ASSUME NEW w \in Sidecars, CutOff(w)
      PROVE  LeftByCutOffs'
  <2> DEFINE L == temps \ BeingWritten
             K == temps' \ BeingWritten'
  <2>1. BeingWritten \ {OwnTemp(w)} \subseteq BeingWritten'
    BY <1>4, OneMoves, StillWritten DEF CutOff, Moves
  <2>2. temps' = temps /\ cuts' = cuts + 1
    BY <1>4 DEF CutOff, directory
  <2>3. K \subseteq L \cup {OwnTemp(w)}
    <3> HIDE DEF BeingWritten
    <3> QED BY <2>1, <2>2
  <2>4. IsFiniteSet(L) /\ Cardinality(L) \in Nat
    BY FS_Difference, FS_CardinalityType DEF Types
  <2>5. /\ IsFiniteSet(L \cup {OwnTemp(w)})
        /\ Cardinality(L \cup {OwnTemp(w)}) <= Cardinality(L) + 1
    <3> HIDE DEF L
    <3>1. /\ IsFiniteSet(L \cup {OwnTemp(w)})
          /\ Cardinality(L \cup {OwnTemp(w)})
               \in {Cardinality(L), Cardinality(L) + 1}
      BY <2>4, FS_AddElement, Zenon
    <3> QED BY <2>4, <3>1
  <2>6. /\ Cardinality(K) <= Cardinality(L \cup {OwnTemp(w)})
        /\ Cardinality(K) \in Nat
        /\ Cardinality(L \cup {OwnTemp(w)}) \in Nat
    <3> HIDE DEF K, L
    <3> QED BY <2>3, <2>5, FS_Subset, FS_CardinalityType
  <2>7. Cardinality(L) <= cuts /\ cuts \in Int
    BY ArtifactAssumption DEF LeftByCutOffs, Types
  <2>8. Cardinality(K) <= cuts'
    <3> HIDE DEF K, L
    <3> QED BY <2>2, <2>4, <2>5, <2>6, <2>7
  <2> QED BY <2>8 DEF LeftByCutOffs
<1>5. ASSUME NEW d \in Digests, Expire(d)
      PROVE  LeftByCutOffs'
  BY <1>5 DEF Expire, processes, LeftByCutOffs, BeingWritten, Writers, OwnTemp,
              Temp
<1> QED BY <1>1, <1>2, <1>3, <1>4, <1>5 DEF Next, Step

-----------------------------------------------------------------------------
(* The quota. *)

LEMMA GrantedFinite ==
  ASSUME Types
  PROVE  /\ IsFiniteSet(data) /\ IsFiniteSet(Granted)
         /\ Cardinality(Cells(data, Size)) \in Nat
         /\ Cardinality(Cells(Granted, Wanted)) \in Nat
<1>1. IsFiniteSet(data) /\ \A d \in data : Size[d] \in Nat
  BY ArtifactAssumption, FS_Subset DEF Types
<1>2. Granted \subseteq Sidecars
  BY DEF Granted
<1>3. IsFiniteSet(Granted)
  BY <1>2, ArtifactAssumption, FS_Subset
<1>4. \A w \in Granted : Wanted[w] \in Nat
  BY WantedType
<1> HIDE DEF Granted, Wanted
<1> QED BY <1>1, <1>3, <1>4, CellsFinite

(* A step that adds no data and grants nothing.                             *)
LEMMA FitsNoMore ==
  ASSUME Types, Types', BytesFit, data' \subseteq data,
         Granted' \subseteq Granted,
         \A v \in Granted' : item'[v] = item[v]
  PROVE  BytesFit'
<1>1. /\ IsFiniteSet(data) /\ \A d \in data : Size[d] \in Nat
      /\ IsFiniteSet(Granted) /\ \A v \in Granted : Wanted[v] \in Nat
  BY GrantedFinite, WantedType, ArtifactAssumption DEF Types
<1>2. Cardinality(Cells(data', Size)) <= Cardinality(Cells(data, Size))
  BY <1>1, CellsMonotonic
<1>3. Cells(Granted', Wanted') = Cells(Granted', Wanted)
  <2>1. \A v \in Granted' : Wanted'[v] = Wanted[v]
    BY DEF Wanted, Granted
  <2> QED BY <2>1, CellsAgree
<1>4. Cardinality(Cells(Granted', Wanted)) <= Cardinality(Cells(Granted, Wanted))
  <2> HIDE DEF Granted, Wanted
  <2> QED BY <1>1, CellsMonotonic
<1>5. IsFiniteSet(data') /\ IsFiniteSet(Granted')
  <2> HIDE DEF Granted
  <2> QED BY <1>1, FS_Subset
<1>6. /\ Cardinality(Cells(data, Size)) \in Nat
      /\ Cardinality(Cells(Granted, Wanted)) \in Nat
      /\ Cardinality(Cells(data', Size)) \in Nat
      /\ Cardinality(Cells(Granted', Wanted)) \in Nat
  <2> HIDE DEF Granted, Wanted
  <2> QED BY <1>1, <1>5, CellsFinite
<1>7. BytesFit' <=> Cardinality(Cells(data', Size))
                      + Cardinality(Cells(Granted', Wanted')) <= Room
  BY DEF BytesFit, Room, Largest
<1> QED BY <1>2, <1>3, <1>4, <1>6, <1>7, RoomBounds DEF BytesFit

(* Measuring: what the others have been granted is at most one artifact     *)
(* each.                                                                    *)
LEMMA FitsMeasured ==
  ASSUME Types, NEW w \in Sidecars, at[w] = "measure", Measure(w)
  PROVE  Granted' = Granted \/ BytesFit'
<1> SUFFICES ASSUME Granted' # Granted PROVE BytesFit'
  OBVIOUS
<1>1. /\ at'[w] = IF Fits(item[w]) THEN "create" ELSE "idle"
      /\ at'[w] \notin {"idle", "sweep"} => item'[w] = item[w]
      /\ \A v \in Sidecars \ {w} : at'[v] = at[v] /\ item'[v] = item[v]
  BY OneMoves DEF Measure, Moves
<1>2. Fits(item[w]) /\ item'[w] = item[w] /\ at'[w] = "create"
  BY <1>1 DEF Granted
<1> DEFINE Others == Granted \ {w}
           n == Cardinality(Sidecars)
<1>3. /\ Granted' = Others \cup {w} /\ w \notin Others
      /\ \A v \in Granted' : item'[v] = item[v] /\ v \in Sidecars
      /\ Others \subseteq Sidecars \ {w}
  BY <1>1, <1>2 DEF Granted
<1>4. Cells(Granted', Wanted') = Cells(Others \cup {w}, Wanted)
  <2>1. \A v \in Granted' : Wanted'[v] = Wanted[v]
    BY <1>3 DEF Wanted
  <2> QED BY <1>3, <2>1, CellsAgree
<1>5. /\ \A v \in Others \cup {w} :
           Wanted[v] \in Nat /\ Wanted[v] <= Largest
      /\ Wanted[w] = Size[item[w]]
  BY LargestBounds DEF Types, Wanted, Granted
<1>6. /\ IsFiniteSet(Sidecars \ {w})
      /\ Cardinality(Sidecars \ {w}) = n - 1
  BY ArtifactAssumption, FS_RemoveElement
<1>7. IsFiniteSet(Others) /\ Cardinality(Others) <= n - 1
      /\ Cardinality(Others) \in Nat
  <2> HIDE DEF Others
  <2> QED BY <1>3, <1>6, FS_Subset, FS_CardinalityType
<1>8. Cardinality(Cells(Others, Wanted)) <= Cardinality(Others) * Largest
  <2> HIDE DEF Others, Wanted
  <2> QED BY <1>5, <1>7, LargestBounds, CellsBounded
<1>9. Cardinality(Others) * Largest <= (n - 1) * Largest
  <2>1. \A a, b, c \in Nat : a <= b => a * c <= b * c
    OBVIOUS
  <2>2. n - 1 \in Nat /\ Largest \in Nat
    BY RoomBounds, LargestBounds
  <2> HIDE DEF Others, n
  <2> QED BY <1>7, <2>1, <2>2
<1>10. Cardinality(Cells(Others \cup {w}, Wanted)) =
         Cardinality(Cells(Others, Wanted)) + Wanted[w]
  <2> HIDE DEF Others, Wanted
  <2> QED BY <1>3, <1>5, <1>7, CellsAdd
<1>11. data' = data /\ Cardinality(Cells(data, Size)) + Size[item[w]] <= Quota
  BY <1>2 DEF Measure, directory, Fits, CurrentBytes, Cells
<1>12. /\ Cardinality(Cells(data, Size)) \in Nat
       /\ Cardinality(Cells(Others, Wanted)) \in Nat
       /\ Cardinality(Others) * Largest \in Nat
  <2>1. \A a, b \in Nat : a * b \in Nat
    OBVIOUS
  <2> HIDE DEF Others, Wanted
  <2> QED BY <1>5, <1>7, <2>1, LargestBounds, GrantedFinite, CellsFinite
<1>13. BytesFit' <=> Cardinality(Cells(data', Size))
                       + Cardinality(Cells(Granted', Wanted')) <= Room
  BY DEF BytesFit, Room, Largest
<1>14. Room = Quota + (n - 1) * Largest
  BY DEF Room
<1> HIDE DEF Others, n, Granted, Wanted
<1> QED BY <1>4, <1>5, <1>8, <1>9, <1>10, <1>11, <1>12, <1>13, <1>14,
           RoomBounds, ArtifactAssumption DEF n

(* Renaming moves the bytes from one side to the other.                     *)
LEMMA FitsRenamed ==
  ASSUME Types, Types', BytesFit, NEW w \in Sidecars, Rename(w)
  PROVE  BytesFit'
<1>1. /\ at[w] = "rename" /\ at'[w] = "describe"
      /\ \A v \in Sidecars \ {w} : at'[v] = at[v] /\ item'[v] = item[v]
      /\ data' = data \cup {item[w]}
  BY OneMoves DEF Rename, Moves
<1> DEFINE Others == Granted \ {w}
<1>2. /\ Granted' = Others /\ Granted = Others \cup {w} /\ w \notin Others
      /\ \A v \in Others : item'[v] = item[v] /\ v \in Sidecars
  BY <1>1 DEF Granted
<1>3. Cells(Granted', Wanted') = Cells(Others, Wanted)
  <2>1. \A v \in Others : Wanted'[v] = Wanted[v]
    BY <1>2 DEF Wanted
  <2> QED BY <1>2, <2>1, CellsAgree
<1>4. /\ \A v \in Others \cup {w} : Wanted[v] \in Nat
      /\ Wanted[w] = Size[item[w]] /\ item[w] \in Digests
  BY <1>1, <1>2, WantedType
<1>5. IsFiniteSet(Others)
  BY GrantedFinite, FS_RemoveElement
<1>6. Cardinality(Cells(Granted, Wanted)) =
        Cardinality(Cells(Others, Wanted)) + Wanted[w]
  <2> HIDE DEF Others, Wanted, Granted
  <2> QED BY <1>2, <1>4, <1>5, CellsAdd
<1>7. Cardinality(Cells(data', Size)) <=
        Cardinality(Cells(data, Size)) + Size[item[w]]
  <2>1. CASE item[w] \in data
    <3>1. data' = data
      BY <1>1, <2>1
    <3> QED BY <1>4, <3>1, GrantedFinite
  <2>2. CASE item[w] \notin data
    <3>1. \A d \in data \cup {item[w]} : Size[d] \in Nat
      BY <1>4, ArtifactAssumption DEF Types
    <3>2. IsFiniteSet(data)
      BY GrantedFinite
    <3>3. Cardinality(Cells(data', Size)) =
            Cardinality(Cells(data, Size)) + Size[item[w]]
      <4>1. Cardinality(Cells(data \cup {item[w]}, Size)) =
              Cardinality(Cells(data, Size)) + Size[item[w]]
        BY <2>2, <3>1, <3>2, CellsAdd, Zenon
      <4> QED BY <1>1, <4>1
    <3>4. IsFiniteSet(data') /\ \A d \in data' : Size[d] \in Nat
      BY <1>1, <3>1, <3>2, FS_AddElement
    <3>5. Cardinality(Cells(data', Size)) \in Nat
      BY <3>4, CellsFinite
    <3> QED BY <3>3, <3>5
  <2> QED BY <2>1, <2>2
<1>8. /\ Cardinality(Cells(data, Size)) \in Nat
      /\ Cardinality(Cells(Others, Wanted)) \in Nat
      /\ Cardinality(Cells(data', Size)) \in Nat
  <2>1. IsFiniteSet(data') /\ \A d \in data' : Size[d] \in Nat
    BY <1>1, <1>4, GrantedFinite, FS_AddElement, ArtifactAssumption DEF Types
  <2> HIDE DEF Others, Wanted
  <2> QED BY <1>4, <1>5, <2>1, GrantedFinite, CellsFinite
<1>9. BytesFit' <=> Cardinality(Cells(data', Size))
                      + Cardinality(Cells(Granted', Wanted')) <= Room
  BY DEF BytesFit, Room, Largest
<1> HIDE DEF Others, Granted, Wanted
<1> QED BY <1>3, <1>4, <1>6, <1>7, <1>8, <1>9, RoomBounds DEF BytesFit

LEMMA BytesFitStep ==
  ASSUME Types, Types', BytesFit, Next
  PROVE  BytesFit'
<1>1. ASSUME NEW w \in Sidecars, NEW d \in Digests, Begin(w, d)
      PROVE  BytesFit'
  BY <1>1, OneMoves, FitsNoMore DEF Begin, directory, Granted
<1>2. ASSUME NEW w \in Sidecars, Put(w)
      PROVE  BytesFit'
  <2>1. CASE Check(w)
    BY <2>1, OneMoves, FitsNoMore DEF Check, Moves, directory, Granted
  <2>2. CASE Measure(w)
    <3>1. at[w] = "measure"
      BY <2>2, OneMoves DEF Measure, Moves
    <3>2. CASE Granted' = Granted
      <4>1. \A v \in Granted' : item'[v] = item[v]
        BY <2>2, <3>1, <3>2, OneMoves DEF Measure, Moves, Granted
      <4>2. data' = data
        BY <2>2 DEF Measure, directory
      <4> QED BY <3>2, <4>1, <4>2, FitsNoMore
    <3> QED BY <2>2, <3>1, <3>2, FitsMeasured
  <2>3. CASE Create(w)
    <3>1. PICK kind \in Kinds, from \in {"create", "describe"},
               to \in {"rename", "publish"} :
            /\ Creates(w, kind, from, to)
            /\ from = "create" <=> to = "rename"
      BY <2>3 DEF Create, Kinds
    <3>2. /\ at[w] = from /\ at'[w] \in {"idle", to}
          /\ at'[w] = to => item'[w] = item[w]
          /\ \A v \in Sidecars \ {w} : at'[v] = at[v] /\ item'[v] = item[v]
      BY <3>1, OneMoves DEF Creates, Moves
    <3>3. data' = data
      BY <3>1 DEF Creates
    <3>4. /\ Granted' \subseteq Granted
          /\ \A v \in Granted' : item'[v] = item[v]
      BY <3>1, <3>2 DEF Granted
    <3> QED BY <3>3, <3>4, FitsNoMore
  <2>4. CASE Rename(w)
    BY <2>4, FitsRenamed
  <2>5. CASE Publish(w)
    BY <2>5, OneMoves, FitsNoMore DEF Publish, Moves, Granted
  <2> QED BY <1>2, <2>1, <2>2, <2>3, <2>4, <2>5 DEF Put
<1>3. ASSUME NEW w \in Sidecars, Sweep(w)
      PROVE  BytesFit'
  <2>1. CASE List(w)
    BY <2>1, OneMoves, FitsNoMore DEF List, Moves, directory, Granted
  <2>2. CASE Swept(w)
    BY <2>2, OneMoves, FitsNoMore DEF Swept, Moves, directory, Granted
  <2>3. CASE \E d \in Digests : Look(w, d)
    <3>1. PICK d \in Digests, to \in {"idle", "sweep", "take_data"} :
            Turns(w, d, "sweep", to)
      BY <2>3 DEF Look, Types
    <3>2. data' = data
      BY <2>3 DEF Look, directory
    <3> QED BY <3>1, <3>2, OneMoves, FitsNoMore DEF Granted
  <2>4. CASE TakeData(w)
    BY <2>4, OneMoves, FitsNoMore DEF TakeData, Moves, Granted
  <2>5. CASE TakeManifest(w)
    <3>1. PICK to \in {"idle", "sweep"} :
            Turns(w, item[w], "take_manifest", to)
      BY <2>5 DEF TakeManifest, Moves
    <3>2. data' = data
      BY <2>5 DEF TakeManifest
    <3> QED BY <3>1, <3>2, OneMoves, FitsNoMore DEF Granted
  <2> QED BY <1>3, <2>1, <2>2, <2>3, <2>4, <2>5 DEF Sweep
<1>4. ASSUME NEW w \in Sidecars, CutOff(w)
      PROVE  BytesFit'
  BY <1>4, OneMoves, FitsNoMore DEF CutOff, Moves, directory, Granted
<1>5. ASSUME NEW d \in Digests, Expire(d)
      PROVE  BytesFit'
  BY <1>5, FitsNoMore DEF Expire, processes, Granted
<1> QED BY <1>1, <1>2, <1>3, <1>4, <1>5 DEF Next, Step

-----------------------------------------------------------------------------
(* What was exported can be read. *)

LEMMA ReadableStep ==
  ASSUME Types, Types', PutsAndSweeps, ExportedIsReadable, Next
  PROVE  PutsAndSweeps' /\ ExportedIsReadable'
<1>1. raced \subseteq raced' /\ Overlaps' \subseteq raced'
  BY DEF Next
<1> DEFINE Met(w, v) ==
      /\ item[w] = item[v]
      /\ at[w] \in {"describe", "publish"}
      /\ at[v] \in {"take_data", "take_manifest"}
<1>2. \A w, v \in Sidecars : Met(w, v) => item[w] \in raced
  BY DEF PutsAndSweeps, Overlaps, PutSteps, Types
<1> DEFINE Put1 == \A w \in Sidecars :
             at'[w] \in {"describe", "publish"} => item'[w] \in data' \cup raced'
           Sweep1 == \A w \in Sidecars :
             at'[w] \in {"take_data", "take_manifest"} =>
               item'[w] \in raced' \/ manifest'[item'[w]] # "valid"
           Read1 == \A d \in Digests :
             manifest'[d] = "valid" => d \in data' \cup raced'
           Kept1 == \A d \in exported' \ raced' : manifest'[d] = "valid"
<1> SUFFICES Put1 /\ Sweep1 /\ Read1 /\ Kept1
  BY <1>1 DEF PutsAndSweeps, ExportedIsReadable
<1>3. ASSUME NEW w \in Sidecars, NEW d \in Digests, Begin(w, d)
      PROVE  Put1 /\ Sweep1 /\ Read1 /\ Kept1
  <2>1. /\ at'[w] = "check"
        /\ \A v \in Sidecars \ {w} : at'[v] = at[v] /\ item'[v] = item[v]
    BY <1>3, OneMoves DEF Begin
  <2>2. UNCHANGED <<data, manifest, exported>>
    BY <1>3 DEF Begin, directory
  <2> QED BY <1>1, <2>1, <2>2 DEF PutsAndSweeps, ExportedIsReadable
<1>4. ASSUME NEW w \in Sidecars, Put(w)
      PROVE  Put1 /\ Sweep1 /\ Read1 /\ Kept1
  <2>1. CASE Check(w)
    <3>1. /\ at'[w] = IF item[w] \in data THEN "describe" ELSE "measure"
          /\ item'[w] = item[w]
          /\ \A v \in Sidecars \ {w} : at'[v] = at[v] /\ item'[v] = item[v]
      BY <2>1, OneMoves DEF Check, Moves
    <3>2. UNCHANGED <<data, manifest, exported>>
      BY <2>1 DEF Check, directory
    <3> QED BY <1>1, <3>1, <3>2 DEF PutsAndSweeps, ExportedIsReadable
  <2>2. CASE Measure(w)
    <3>1. /\ at'[w] \in {"create", "idle"}
          /\ \A v \in Sidecars \ {w} : at'[v] = at[v] /\ item'[v] = item[v]
      BY <2>2, OneMoves DEF Measure, Moves
    <3>2. UNCHANGED <<data, manifest, exported>>
      BY <2>2 DEF Measure, directory
    <3> QED BY <1>1, <3>1, <3>2 DEF PutsAndSweeps, ExportedIsReadable
  <2>3. CASE Create(w)
    <3>1. PICK kind \in Kinds, from \in {"create", "describe"},
               to \in {"rename", "publish"} :
            /\ Creates(w, kind, from, to)
            /\ from = "create" <=> to = "rename"
      BY <2>3 DEF Create, Kinds
    <3>2. /\ at[w] = from /\ at'[w] \in {"idle", to}
          /\ at'[w] = to => item'[w] = item[w]
          /\ \A v \in Sidecars \ {w} : at'[v] = at[v] /\ item'[v] = item[v]
      BY <3>1, OneMoves DEF Creates, Moves
    <3>3. UNCHANGED <<data, manifest, exported>>
      BY <3>1 DEF Creates
    <3> QED BY <1>1, <3>1, <3>2, <3>3 DEF PutsAndSweeps, ExportedIsReadable
  <2>4. CASE Rename(w)
    <3>1. /\ at'[w] = "describe" /\ item'[w] = item[w]
          /\ \A v \in Sidecars \ {w} : at'[v] = at[v] /\ item'[v] = item[v]
      BY <2>4, OneMoves DEF Rename, Moves
    <3>2. data' = data \cup {item[w]} /\ UNCHANGED <<manifest, exported>>
      BY <2>4 DEF Rename
    <3> QED BY <1>1, <3>1, <3>2 DEF PutsAndSweeps, ExportedIsReadable
  <2>5. CASE Publish(w)
    <3>1. /\ at[w] = "publish" /\ at'[w] = "idle" /\ item[w] \in Digests
          /\ \A v \in Sidecars \ {w} : at'[v] = at[v] /\ item'[v] = item[v]
      BY <2>5, OneMoves DEF Publish, Moves, Types
    <3>2. /\ manifest' = [manifest EXCEPT ![item[w]] = "valid"]
          /\ exported' = exported \cup {item[w]} /\ data' = data
      BY <2>5 DEF Publish
    <3>3. manifest'[item[w]] = "valid"
          /\ \A d \in Digests \ {item[w]} : manifest'[d] = manifest[d]
      BY <3>1, <3>2 DEF Types
    <3>4. Sweep1
      <4> SUFFICES ASSUME NEW v \in Sidecars,
                          at'[v] \in {"take_data", "take_manifest"}
                   PROVE  item'[v] \in raced' \/ manifest'[item'[v]] # "valid"
        OBVIOUS
      <4>1. v # w /\ at[v] = at'[v] /\ item'[v] = item[v]
            /\ item[v] \in Digests
        BY <3>1 DEF Types
      <4>2. CASE item[v] = item[w]
        BY <1>1, <1>2, <3>1, <4>1, <4>2
      <4>3. CASE item[v] # item[w]
        BY <1>1, <3>3, <4>1, <4>3 DEF PutsAndSweeps
      <4> QED BY <4>2, <4>3
    <3>5. Put1 /\ Read1
      BY <1>1, <3>1, <3>2, <3>3 DEF PutsAndSweeps, ExportedIsReadable
    <3>6. Kept1
      BY <1>1, <3>2, <3>3 DEF ExportedIsReadable, Types
    <3> QED BY <3>4, <3>5, <3>6
  <2> QED BY <1>4, <2>1, <2>2, <2>3, <2>4, <2>5 DEF Put
<1>5. ASSUME NEW w \in Sidecars, Sweep(w)
      PROVE  Put1 /\ Sweep1 /\ Read1 /\ Kept1
  <2>1. CASE List(w) \/ Swept(w)
    <3>1. PICK from, to \in {"idle", "sweep"} : Turns(w, item[w], from, to)
      BY <2>1 DEF List, Swept, Moves
    <3>2. /\ at'[w] \in {"idle", "sweep"}
          /\ \A v \in Sidecars \ {w} : at'[v] = at[v] /\ item'[v] = item[v]
      BY <3>1, OneMoves
    <3>3. UNCHANGED <<data, manifest, exported>>
      BY <2>1 DEF List, Swept, directory
    <3> QED BY <1>1, <3>2, <3>3 DEF PutsAndSweeps, ExportedIsReadable
  <2>2. CASE \E d \in Digests : Look(w, d)
    <3>1. PICK d \in Digests : Look(w, d)
      BY <2>2
    <3>2. PICK to \in {"idle", "sweep", "take_data"} :
            /\ Turns(w, d, "sweep", to)
            /\ to = "take_data" => manifest[d] # "valid"
      BY <3>1 DEF Look, Types
    <3>3. /\ at'[w] = to
          /\ to = "take_data" => item'[w] = d
          /\ \A v \in Sidecars \ {w} : at'[v] = at[v] /\ item'[v] = item[v]
      BY <3>2, OneMoves
    <3>4. UNCHANGED <<data, manifest, exported>>
      BY <3>1 DEF Look, directory
    <3> QED BY <1>1, <3>2, <3>3, <3>4 DEF PutsAndSweeps, ExportedIsReadable
  <2>3. CASE TakeData(w)
    <3>1. /\ at[w] = "take_data" /\ at'[w] = "take_manifest"
          /\ item'[w] = item[w] /\ item[w] \in Digests
          /\ \A v \in Sidecars \ {w} : at'[v] = at[v] /\ item'[v] = item[v]
      BY <2>3, OneMoves DEF TakeData, Moves, Types
    <3>2. data' = data \ {item[w]} /\ UNCHANGED <<manifest, exported>>
      BY <2>3 DEF TakeData
    <3>3. Put1
      <4> SUFFICES ASSUME NEW v \in Sidecars,
                          at'[v] \in {"describe", "publish"}
                   PROVE  item'[v] \in data' \cup raced'
        OBVIOUS
      <4>1. v # w /\ at[v] = at'[v] /\ item'[v] = item[v]
        BY <3>1
      <4>2. CASE item[v] = item[w]
        BY <1>1, <1>2, <3>1, <4>1, <4>2
      <4>3. CASE item[v] # item[w]
        BY <1>1, <3>2, <4>1, <4>3 DEF PutsAndSweeps
      <4> QED BY <4>2, <4>3
    <3>4. Sweep1 /\ Read1 /\ Kept1
      BY <1>1, <3>1, <3>2 DEF PutsAndSweeps, ExportedIsReadable
    <3> QED BY <3>3, <3>4
  <2>4. CASE TakeManifest(w)
    <3>1. PICK to \in {"idle", "sweep"} :
            Turns(w, item[w], "take_manifest", to)
      BY <2>4 DEF TakeManifest, Moves
    <3>2. /\ at[w] = "take_manifest" /\ at'[w] = to /\ item[w] \in Digests
          /\ \A v \in Sidecars \ {w} : at'[v] = at[v] /\ item'[v] = item[v]
      BY <3>1, OneMoves DEF Types
    <3>3. /\ manifest' = [manifest EXCEPT ![item[w]] = None]
          /\ UNCHANGED <<data, exported>>
      BY <2>4 DEF TakeManifest
    <3>4. \A d \in Digests : manifest'[d] \in {manifest[d], None}
                             /\ (d # item[w] => manifest'[d] = manifest[d])
      BY <3>2, <3>3 DEF Types
    <3>5. None # "valid"
      BY ArtifactAssumption
    <3>6. Put1 /\ Sweep1 /\ Read1
      BY <1>1, <3>2, <3>3, <3>4, <3>5
         DEF PutsAndSweeps, ExportedIsReadable, Types
    <3>7. Kept1
      BY <1>1, <3>2, <3>3, <3>4 DEF PutsAndSweeps, ExportedIsReadable, Types
    <3> QED BY <3>6, <3>7
  <2> QED BY <1>5, <2>1, <2>2, <2>3, <2>4 DEF Sweep
<1>6. ASSUME NEW w \in Sidecars, CutOff(w)
      PROVE  Put1 /\ Sweep1 /\ Read1 /\ Kept1
  <2>1. /\ at'[w] = "idle"
        /\ \A v \in Sidecars \ {w} : at'[v] = at[v] /\ item'[v] = item[v]
    BY <1>6, OneMoves DEF CutOff, Moves
  <2>2. UNCHANGED <<data, manifest, exported>>
    BY <1>6 DEF CutOff, directory
  <2> QED BY <1>1, <2>1, <2>2 DEF PutsAndSweeps, ExportedIsReadable
<1>7. ASSUME NEW d \in Digests, Expire(d)
      PROVE  Put1 /\ Sweep1 /\ Read1 /\ Kept1
  <2>1. /\ manifest' = [manifest EXCEPT ![d] = "expired"]
        /\ exported' = exported \ {d}
        /\ UNCHANGED <<data, at, item>>
    BY <1>7 DEF Expire, processes
  <2>2. /\ manifest'[d] = "expired"
        /\ \A e \in Digests \ {d} : manifest'[e] = manifest[e]
    BY <2>1 DEF Types
  <2> QED BY <1>1, <2>1, <2>2 DEF PutsAndSweeps, ExportedIsReadable, Types
<1> QED BY <1>3, <1>4, <1>5, <1>6, <1>7 DEF Next, Step

-----------------------------------------------------------------------------

LEMMA Inductive == IInv /\ [Next]_vars => IInv'
<1>1. ASSUME IInv, Next PROVE IInv'
  BY <1>1, TypesStep, LeftByCutOffsStep, BytesFitStep, ReadableStep DEF IInv
<1>2. ASSUME IInv, UNCHANGED vars PROVE IInv'
  BY <1>2 DEF IInv, vars, directory, processes, Types, LeftByCutOffs,
     BeingWritten, Writers, OwnTemp, Temp, BytesFit, Cells, Granted, Wanted,
     Room, Largest, PutsAndSweeps, Overlaps, ExportedIsReadable
<1> QED BY <1>1, <1>2

LEMMA Invariance == Spec => []IInv
BY InitInvariant, Inductive, PTL DEF Spec

(* Each writer has at most one temporary file under way.                    *)
LEMMA TempsBounded ==
  ASSUME IInv
  PROVE  Cardinality(temps) <= Cardinality(Sidecars) + cuts
<1> DEFINE f == [w \in Writers |-> OwnTemp(w)]
           L == temps \ BeingWritten
<1>1. f \in Surjection(Writers, BeingWritten)
  BY DEF Surjection, BeingWritten
<1>2. Writers \subseteq Sidecars
  BY DEF Writers
<1>3. IsFiniteSet(Writers) /\ Cardinality(Writers) <= Cardinality(Sidecars)
  BY <1>2, ArtifactAssumption, FS_Subset
<1>4. /\ IsFiniteSet(BeingWritten)
      /\ Cardinality(BeingWritten) <= Cardinality(Writers)
  BY <1>1, <1>3, FS_Surjection
<1>5. IsFiniteSet(L) /\ Cardinality(L) <= cuts
  BY FS_Difference DEF IInv, Types, LeftByCutOffs
<1> HIDE DEF BeingWritten, Writers
<1>6. temps \subseteq L \cup BeingWritten
  OBVIOUS
<1> HIDE DEF L
<1>7. /\ IsFiniteSet(L \cup BeingWritten)
      /\ Cardinality(L \cup BeingWritten) =
           Cardinality(L) + Cardinality(BeingWritten)
             - Cardinality(L \cap BeingWritten)
      /\ IsFiniteSet(L \cap BeingWritten)
  BY <1>4, <1>5, FS_Union, FS_Intersection
<1>8. Cardinality(temps) <= Cardinality(L \cup BeingWritten)
      /\ IsFiniteSet(temps)
  BY <1>6, <1>7, FS_Subset
<1>9. /\ Cardinality(Sidecars) \in Nat /\ Cardinality(Writers) \in Nat
      /\ Cardinality(BeingWritten) \in Nat /\ Cardinality(L) \in Nat
      /\ Cardinality(L \cap BeingWritten) \in Nat /\ cuts \in Int
      /\ Cardinality(temps) \in Nat /\ Cardinality(L \cup BeingWritten) \in Nat
  BY <1>3, <1>4, <1>5, <1>7, <1>8, FS_CardinalityType, ArtifactAssumption
     DEF IInv, Types
<1> QED BY <1>3, <1>4, <1>5, <1>7, <1>8, <1>9

(* Types, and temporary files do not pile up: whatever is there beyond one  *)
(* for each sidecar was left by a call that was cut off (create_new,        *)
(* rename).                                                                 *)
THEOREM TypeCorrect == Spec => []TypeOK
<1>1. IInv => TypeOK
  BY TempsBounded DEF IInv, Types, TypeOK
<1> QED BY <1>1, Invariance, PTL

(* However many sidecars export at the same time, whatever they export and  *)
(* wherever they are cut off, the directory exceeds its quota by at most    *)
(* one artifact for each of them but one (put, current_bytes).              *)
THEOREM QuotaIsKept == Spec => []QuotaKept
<1>1. IInv => QuotaKept
  <2> SUFFICES ASSUME IInv PROVE QuotaKept
    OBVIOUS
  <2>1. CurrentBytes = Cardinality(Cells(data, Size))
    BY DEF CurrentBytes, Cells
  <2>2. Cardinality(Cells(data, Size)) <= Room
    BY GrantedFinite, RoomBounds DEF IInv, BytesFit
  <2> QED BY <2>1, <2>2 DEF QuotaKept, Room, Largest
<1> QED BY <1>1, Invariance, PTL

(* What export_graph reported can be read until it expires, and a valid     *)
(* manifest has its bytes, unless a sweep came between the check for the    *)
(* data and the manifest of a put (put, remove_expired).                    *)
THEOREM ExportsAreReadable == Spec => []ExportedIsReadable
<1>1. IInv => ExportedIsReadable
  BY DEF IInv
<1> QED BY <1>1, Invariance, PTL

=============================================================================
