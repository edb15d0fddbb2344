---------------------------- MODULE ApprovedEdits ----------------------------
(***************************************************************************)
(* What the write path promises to a user, an approver and a client: a     *)
(* document whose revision only goes on, and a log of the changesets       *)
(* applied to it.  A changeset is applied to the revision it was based on, *)
(* once, under a key of its own, and if its change demands approval, then  *)
(* with an approval that was given for this very document.                 *)
(***************************************************************************)
EXTENDS Naturals, Sequences

CONSTANTS
  Navigation,  \* the change undo and redo make: it builds on any revision
  Generated    \* the key of changesets that nobody can repeat

VARIABLES
  document,  \* [at, look]: its revision id, and what no revision covers
  demands,   \* the changes that demand an approval
  approved,  \* [changeset, document]: the approvals given
  log,       \* [changeset, life]: what was applied
  life       \* keys are remembered by one sidecar, and this is which

vars == <<document, demands, approved, log, life>>

Later(id, than) ==
  id.epoch > than.epoch \/ (id.epoch = than.epoch /\ id.geometry > than.geometry)

GoesOn == document'.at = document.at \/ Later(document'.at, document.at)

SameKey(a, b) ==
  /\ a.life = b.life
  /\ a.changeset.change.key = b.changeset.change.key
  /\ a.changeset.change.key # Generated

Init == approved = {} /\ log = <<>> /\ life = 0

(* The user edits, or FreeCAD is started again.                             *)
Edit == GoesOn /\ UNCHANGED <<demands, approved, log, life>>

Approve ==
  approved \subseteq approved' /\ UNCHANGED <<document, demands, log, life>>

(* The sidecar is started again.                                            *)
Forget == life' = life + 1 /\ UNCHANGED <<document, demands, approved, log>>

Apply(cs, by) ==
  LET entry == [changeset |-> cs, life |-> by]
  IN  /\ cs.change # Navigation => cs.base = document.at
      /\ cs.change \in demands =>
           [changeset |-> cs, document |-> document] \in approved
      /\ by <= life /\ \A i \in DOMAIN log : ~ SameKey(log[i], entry)
      /\ log' = Append(log, entry)
      /\ IF cs.change.risk = "ui" THEN GoesOn
                                  ELSE Later(document'.at, document.at)
      /\ UNCHANGED <<demands, approved, life>>

Next ==
  \/ Edit \/ Approve \/ Forget
  \/ /\ log' # <<>>
     /\ Apply(log'[Len(log')].changeset, log'[Len(log')].life)

Spec == Init /\ [][Next]_vars

=============================================================================
