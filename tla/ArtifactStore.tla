---------------------------- MODULE ArtifactStore ----------------------------
(***************************************************************************)
(* The artifact directory that all sidecars of a user share: put of        *)
(* cad.export_graph and remove_expired, which no code of the program calls *)
(* yet, at the grain of the file operations others can come between.       *)
(*                                                                         *)
(* A digest stands for its bytes: it names the data file and the manifest  *)
(* next to it.  Whatever is written goes to a temporary file first, named  *)
(* after the digest and the process, and is renamed when it is complete.   *)
(***************************************************************************)
EXTENDS Integers, FiniteSets, FiniteSetsExt

CONSTANTS
  Sidecars,   \* process identifiers; a crashed one may be given out again
  Collectors, \* those of them that call remove_expired
  Digests,    \* the graphs they export
  Size,       \* Size[d]: bytes of d
  Quota,      \* max_bytes
  MaxCuts,    \* bound, calls cut off by a crash or an error
  None        \* no file, no digest

ASSUME ArtifactAssumption ==
  /\ Sidecars # {} /\ IsFiniteSet(Sidecars) /\ Collectors \subseteq Sidecars
  /\ Digests # {} /\ IsFiniteSet(Digests)
  /\ None \notin Digests \cup {"valid", "expired"}
  /\ Size \in [Digests -> Nat]
  /\ Quota \in Nat
  /\ MaxCuts \in Nat

VARIABLES
  \* the directory
  data,      \* digests whose data file is there
  manifest,  \* manifest[d]: None, "valid" or "expired"
  temps,     \* temporary files left behind, by digest, kind and process
  \* the processes
  at,        \* at[w]: the next step of w
  item,      \* item[w]: the digest w is busy with, or None
  todo,      \* todo[w]: manifests remove_expired has listed and not read yet
  cuts,      \* calls cut off so far
  \* history variables
  exported,  \* digests some put has reported, until they expire
  raced      \* digests that were put and taken by a sweep at the same time

directory == <<data, manifest, temps>>
processes == <<at, item, todo, cuts>>
vars == <<directory, processes, exported, raced>>

Kinds == {"data", "manifest"}

PutSteps == {"check", "measure", "create", "rename", "describe", "publish"}

Steps == PutSteps \cup {"idle", "sweep", "take_data", "take_manifest"}

(* current_bytes counts the files without an extension: neither manifests   *)
(* nor temporary files.                                                     *)
CurrentBytes == Cardinality(UNION {{d} \X (1 .. Size[d]) : d \in data})

(* w goes from one step to another, and is busy with d from then on.        *)
Turns(w, d, from, to) ==
  /\ at[w] = from
  /\ at' = [at EXCEPT ![w] = to]
  /\ item' = [item EXCEPT ![w] = IF to \in {"idle", "sweep"} THEN None ELSE d]

Moves(w, from, to) == Turns(w, item[w], from, to)

Temp(w, kind) == [of |-> item[w], kind |-> kind, by |-> w]

-----------------------------------------------------------------------------
(* put *)

Begin(w, d) ==
  /\ Turns(w, d, "idle", "check")
  /\ UNCHANGED <<directory, todo, cuts, exported>>

Check(w) ==
  /\ Moves(w, "check", IF item[w] \in data THEN "describe" ELSE "measure")
  /\ UNCHANGED <<directory, todo, cuts, exported>>

(* Mutant of Fits: does not count the new bytes.                            *)
FitsAlready(d) == CurrentBytes <= Quota

Fits(d) == CurrentBytes + Size[d] <= Quota

Measure(w) ==
  /\ Moves(w, "measure", IF Fits(item[w]) THEN "create" ELSE "idle")
  /\ UNCHANGED <<directory, todo, cuts, exported>>

(* create_new refuses a name that is taken: a put cut off earlier left it.  *)
Creates(w, kind, from, to) ==
  /\ Moves(w, from, IF Temp(w, kind) \in temps THEN "idle" ELSE to)
  /\ temps' = temps \cup {Temp(w, kind)}
  /\ UNCHANGED <<data, manifest, todo, cuts, exported>>

Create(w) ==
  \/ Creates(w, "data", "create", "rename")
  \/ Creates(w, "manifest", "describe", "publish")

(* Mutant of Rename: copies the file.                                       *)
RenameByCopy(w) ==
  /\ Moves(w, "rename", "describe")
  /\ data' = data \cup {item[w]}
  /\ UNCHANGED <<manifest, temps, todo, cuts, exported>>

Rename(w) ==
  /\ Moves(w, "rename", "describe")
  /\ data' = data \cup {item[w]}
  /\ temps' = temps \ {Temp(w, "data")}
  /\ UNCHANGED <<manifest, todo, cuts, exported>>

(* Mutant of Publish: keeps a manifest that is there.                       *)
PublishOnce(w) ==
  /\ Moves(w, "publish", "idle")
  /\ manifest' = [manifest EXCEPT ![item[w]] = IF @ = None THEN "valid" ELSE @]
  /\ temps' = temps \ {Temp(w, "manifest")}
  /\ exported' = exported \cup {item[w]}
  /\ UNCHANGED <<data, todo, cuts>>

(* A manifest that is there is replaced: the day of its expiry starts anew. *)
Publish(w) ==
  /\ Moves(w, "publish", "idle")
  /\ manifest' = [manifest EXCEPT ![item[w]] = "valid"]
  /\ temps' = temps \ {Temp(w, "manifest")}
  /\ exported' = exported \cup {item[w]}
  /\ UNCHANGED <<data, todo, cuts>>

Expire(d) ==
  /\ manifest[d] = "valid"
  /\ manifest' = [manifest EXCEPT ![d] = "expired"]
  /\ exported' = exported \ {d}
  /\ UNCHANGED <<data, temps, processes>>

-----------------------------------------------------------------------------
(* remove_expired *)

List(w) ==
  /\ w \in Collectors
  /\ Moves(w, "idle", "sweep")
  /\ todo' = [todo EXCEPT ![w] = {d \in Digests : manifest[d] # None}]
  /\ UNCHANGED <<directory, cuts, exported>>

(* A listed manifest that has gone ends the sweep with an error.            *)
Look(w, d) ==
  /\ d \in todo[w]
  /\ Turns(w, d, "sweep", CASE manifest[d] = None -> "idle"
                            [] manifest[d] = "valid" -> "sweep"
                            [] manifest[d] = "expired" -> "take_data")
  /\ todo' = [todo EXCEPT ![w] = IF manifest[d] = None THEN {} ELSE @ \ {d}]
  /\ UNCHANGED <<directory, cuts, exported>>

Swept(w) ==
  /\ Moves(w, "sweep", "idle") /\ todo[w] = {}
  /\ UNCHANGED <<directory, todo, cuts, exported>>

TakeData(w) ==
  /\ Moves(w, "take_data", "take_manifest")
  /\ data' = data \ {item[w]}
  /\ UNCHANGED <<manifest, temps, todo, cuts, exported>>

(* A manifest another sweep has taken ends this one with an error.          *)
TakeManifest(w) ==
  /\ LET gone == manifest[item[w]] = None
     IN  /\ Moves(w, "take_manifest", IF gone THEN "idle" ELSE "sweep")
         /\ todo' = [todo EXCEPT ![w] = IF gone THEN {} ELSE @]
  /\ manifest' = [manifest EXCEPT ![item[w]] = None]
  /\ UNCHANGED <<data, temps, cuts, exported>>

-----------------------------------------------------------------------------

(* The process dies, or a file operation fails and the call returns early:  *)
(* either way a temporary file it has created stays.                        *)
CutOff(w) ==
  /\ at[w] # "idle" /\ cuts < MaxCuts
  /\ Moves(w, at[w], "idle")
  /\ todo' = [todo EXCEPT ![w] = {}]
  /\ cuts' = cuts + 1
  /\ UNCHANGED <<directory, exported>>

Init ==
  /\ data = {}
  /\ manifest = [d \in Digests |-> None]
  /\ temps = {}
  /\ at = [w \in Sidecars |-> "idle"]
  /\ item = [w \in Sidecars |-> None]
  /\ todo = [w \in Sidecars |-> {}]
  /\ cuts = 0
  /\ exported = {}
  /\ raced = {}

Put(w) == Check(w) \/ Measure(w) \/ Create(w) \/ Rename(w) \/ Publish(w)

Sweep(w) ==
  \/ List(w) \/ Swept(w) \/ TakeData(w) \/ TakeManifest(w)
  \/ \E d \in Digests : Look(w, d)

(* What a put has found is being taken while it goes on.                    *)
Overlaps ==
  {d \in Digests : \E w, v \in Sidecars :
                     /\ item[w] = d /\ at[w] \in PutSteps \ {"check"}
                     /\ item[v] = d /\ at[v] \in {"take_data", "take_manifest"}}

Step ==
  \/ \E w \in Sidecars : Put(w) \/ Sweep(w) \/ CutOff(w)
  \/ \E w \in Sidecars, d \in Digests : Begin(w, d)
  \/ \E d \in Digests : Expire(d)

Next == Step /\ raced' = raced \cup Overlaps'

Spec == Init /\ [][Next]_vars

-----------------------------------------------------------------------------

(* Of temporary files there are those being written and one for each call   *)
(* that was cut off.                                                        *)
TypeOK ==
  /\ data \subseteq Digests
  /\ manifest \in [Digests -> {None, "valid", "expired"}]
  /\ temps \subseteq [of : Digests, kind : Kinds, by : Sidecars]
  /\ Cardinality(temps) <= Cardinality(Sidecars) + cuts
  /\ at \in [Sidecars -> Steps]
  /\ item \in [Sidecars -> Digests \cup {None}]
  /\ todo \in [Sidecars -> SUBSET Digests]
  /\ cuts \in 0 .. MaxCuts
  /\ exported \subseteq Digests
  /\ raced \subseteq Digests

(* The quota is checked before the bytes are written, so writers that       *)
(* measured at the same time can exceed it together, but by no more than    *)
(* one artifact for each writer but one: a single sidecar never does, and   *)
(* what one call after the other exports does not add up (ArtifactStore     *)
(* put, current_bytes).                                                     *)
QuotaKept ==
  CurrentBytes <=
    Quota + (Cardinality(Sidecars) - 1) * Max({Size[d] : d \in Digests})

(* An artifact with a manifest that is not expired has its bytes, whatever  *)
(* was cut off and whoever else writes it; and what export_graph reported   *)
(* can be read until it expires: neither a later put of the same graph, nor *)
(* one that is refused or cut off, nor a sweep that is not late takes it    *)
(* away.  Only a sweep that comes between the check for the data and the    *)
(* manifest of a put can part them.                                         *)
ExportedIsReadable ==
  /\ \A d \in Digests : manifest[d] = "valid" => d \in data \cup raced
  /\ \A d \in exported \ raced : manifest[d] = "valid"

=============================================================================
