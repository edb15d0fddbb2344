------------------------------- MODULE Policy -------------------------------
(***************************************************************************)
(* The sidecar's policy: who may change what, which approval covers which  *)
(* commit, which idempotency keys are used up, and the audit trail.        *)
(*                                                                         *)
(* A change is the part of a changeset the policy looks at: its            *)
(* idempotency key and the highest risk class among its operations.        *)
(* Approval tokens cannot be forged, and SHA-256 is injective: the hash of *)
(* a changeset is the changeset.                                           *)
(***************************************************************************)
EXTENDS Naturals, Sequences

CONSTANTS
  UsedProfiles,    \* the profiles a sidecar may be started with
  Changes,         \* the changes clients propose
  WorkspaceScope   \* the changes the signed workspace rules allow

Profiles == {"never_write", "approve_each", "approve_high_risk",
             "workspace_policy", "developer"}

Risks == {"ui", "low", "medium", "high"}

(* A key ChangeSet::new draws at random; no two of them are the same.       *)
Generated == "generated"

(* Changes the adapter makes itself: cad.set_selection and cad.set_view,    *)
(* cad.undo and cad.redo.                                                   *)
UiChange   == [key |-> Generated, risk |-> "ui"]
Navigation == [key |-> Generated, risk |-> "high"]

ASSUME PolicyAssumption ==
  /\ UsedProfiles \subseteq Profiles
  /\ \A c \in Changes : c.risk \in Risks /\ c.key # Generated
  /\ WorkspaceScope \subseteq Changes \cup {UiChange, Navigation}

VARIABLES
  profile,           \* Policy::profile
  used_idempotency,  \* Policy::used_idempotency, without generated keys
  audit              \* Policy::audit

policyVars == <<profile, used_idempotency, audit>>

PolicyInit ==
  /\ profile \in UsedProfiles
  /\ used_idempotency = {}
  /\ audit = <<>>

(* The profile grants the capability, and the workspace rules the scope.    *)
AuthorizeChangeset(change) ==
  /\ profile # "never_write"
  /\ profile = "workspace_policy" => change \in WorkspaceScope

ApprovalRequired(risk) ==
  \/ profile \in {"never_write", "approve_each"}
  \/ /\ profile \in {"approve_high_risk", "workspace_policy"}
     /\ risk \in {"medium", "high"}

NeedsApproval(change) == change.risk # "ui" /\ ApprovalRequired(change.risk)

(* Mutant of Approves: a token covers every preview of its changeset.       *)
ApprovesChangeset(token, cs, hash) == token.changeset = cs

(* verify_approval: a token is bound to one changeset, base included, and   *)
(* to one preview of it.                                                    *)
Approves(token, cs, hash) ==
  token.changeset = cs /\ token.preview_hash = hash

AuthorizeCommit(cs, hash, offered) ==
  /\ AuthorizeChangeset(cs.change)
  /\ NeedsApproval(cs.change) => \E t \in offered : Approves(t, cs, hash)
  /\ cs.change.key \notin used_idempotency

(* The key is used up before the commit is tried.                           *)
UseKey(key) == used_idempotency' = used_idempotency \cup ({key} \ {Generated})

(* Mutant of Deny: the key is inserted before the approval is checked.      *)
DenyAndUseKey(change) ==
  /\ audit' = Append(audit, [status |-> "denied", change |-> change])
  /\ UseKey(change.key)
  /\ UNCHANGED profile

(* record_denial *)
Deny(change) ==
  /\ audit' = Append(audit, [status |-> "denied", change |-> change])
  /\ UNCHANGED <<profile, used_idempotency>>

RecordCommit(cs, hash) ==
  audit' = Append(audit, [status |-> "committed", changeset |-> cs,
                          preview_hash |-> hash])

=============================================================================
