------------------------------ MODULE Sidecar ------------------------------
(***************************************************************************)
(* The write path from an MCP client to a running FreeCAD: the adapter and *)
(* the session manager of the sidecar, its policy, an approver, and the    *)
(* bridge as the sidecar sees it.                                          *)
(*                                                                         *)
(* The sidecar runs one tool at a time.  A tool makes several requests to  *)
(* the bridge, and between them the user edits, requests the bridge gave   *)
(* up on take effect, and either process may be restarted.  The            *)
(* bridge here is what BridgeQueue and BridgeWrites show of it: requests   *)
(* are executed in order, some after they were answered bridge_busy, and a *)
(* commit needs the record of its preview and the document it was made of. *)
(***************************************************************************)
EXTENDS Policy, FiniteSets

CONSTANTS
  Looks,        \* what no geometry counter counts: selection, camera
  \* bounds, by profile
  MaxRevision,  \* the geometry counter
  MaxEpoch,     \* restarts of the bridge
  MaxRecords,   \* previews the bridge remembers
  MaxTokens,    \* approvals
  LooksChange,  \* profiles under which looks change
  \* bounds
  MaxLives,     \* restarts of the sidecar
  MaxLate,      \* requests left in the bridge's queue
  MaxApplied,   \* what the bridge does for the sidecar
  MaxAudit      \* the audit trail

ASSUME SidecarAssumption ==
  /\ Looks # {}
  /\ {MaxRevision, MaxEpoch, MaxRecords, MaxTokens} \subseteq [Profiles -> Nat]
  /\ LooksChange \subseteq Profiles
  /\ {MaxLives, MaxLate, MaxApplied, MaxAudit} \subseteq Nat

VARIABLES
  \* the bridge
  epoch, geometry,  \* its revision
  look,             \* the rest of what fingerprints cover
  records,          \* BridgeState::previews, as their hashes
  queue,            \* requests answered bridge_busy and not drained yet
  \* the sidecar
  connected,        \* the session's IPC client is authenticated and alive
  previews,         \* McpServer::previews, as their hashes
  call,             \* the tool that is running, and where it is
  \* the approver
  tokens,
  \* history variables
  applied,          \* what the bridge did for the sidecar, in order
  life              \* how often the sidecar was restarted

bridgeVars == <<epoch, geometry, look, records, applied>>
vars == <<policyVars, bridgeVars, queue, connected, previews, call, tokens,
          life>>

Ids        == [epoch : Nat, geometry : Nat]
ChangeSets == [change : Changes \cup {UiChange}, base : Ids]
Navigations == [change : {Navigation}, base : Ids]
Hashes     == [changeset : ChangeSets, at : Ids, look : Looks]
Requests   == [op : {"preview"}, changeset : ChangeSets]
                \cup [op : {"commit"}, changeset : ChangeSets,
                      hash : Hashes, life : Nat]
                \cup [op : {"undo"}, changeset : Navigations,
                      hash : Navigations, life : Nat]

-----------------------------------------------------------------------------
(* The bridge executes a request. *)

Now == [epoch |-> epoch, geometry |-> geometry]

(* Mutant of MatchesBase: counters are compared, epochs are not.            *)
MatchesCounters(cs) == cs.base.geometry = geometry

MatchesBase(cs) == cs.base = Now

(* The hash binds the changeset and the fingerprint of its base.            *)
HashOf(cs) == [changeset |-> cs, at |-> Now, look |-> look]

ExecutePreview(r) ==
  /\ r.op = "preview"
  /\ MatchesBase(r.changeset)
  /\ records' = {h \in records : h.changeset # r.changeset}
                  \cup {HashOf(r.changeset)}
  /\ UNCHANGED <<epoch, geometry, look, applied>>

Entry(r, answered) ==
  [changeset |-> r.changeset, hash |-> r.hash, at |-> Now, look |-> look,
   life |-> r.life, answered |-> answered]

Applies(r, answered) == applied' = Append(applied, Entry(r, answered))

(* Mutant of ExecuteCommit: having the record is enough.                    *)
ExecuteCommitOfRecord(r, answered) ==
  /\ r.op = "commit"
  /\ MatchesBase(r.changeset)
  /\ r.hash \in records /\ r.hash.changeset = r.changeset
  /\ records' = records \ {r.hash}
  /\ geometry' = geometry + 1
  /\ Applies(r, answered)
  /\ UNCHANGED <<epoch, look>>

(* A commit of selection and view only may leave the geometry counter       *)
(* alone; whether a transaction is then reported is FreeCAD's affair.       *)
ExecuteCommit(r, answered) ==
  /\ r.op = "commit"
  /\ MatchesBase(r.changeset)
  /\ r.hash \in records
  /\ r.hash = HashOf(r.changeset)
  /\ records' = records \ {r.hash}
  /\ IF r.changeset.change.risk = "ui"
       THEN geometry' \in {geometry, geometry + 1} /\ look' \in Looks
       ELSE geometry' = geometry + 1 /\ UNCHANGED look
  /\ Applies(r, answered)
  /\ UNCHANGED epoch

ExecuteUndo(r, answered) ==
  /\ r.op = "undo"
  /\ geometry' = geometry + 1
  /\ Applies(r, answered)
  /\ UNCHANGED <<epoch, look, records>>

Execute(r, answered) ==
  ExecutePreview(r) \/ ExecuteCommit(r, answered) \/ ExecuteUndo(r, answered)

(* The bridge drains a request nobody waits for, and does it or refuses.    *)
Late ==
  /\ queue # <<>>
  /\ queue' = Tail(queue)
  /\ Execute(Head(queue), FALSE) \/ UNCHANGED bridgeVars
  /\ UNCHANGED <<policyVars, connected, previews, call, tokens, life>>

UserEdits ==
  /\ geometry' = geometry + 1
  /\ UNCHANGED <<policyVars, epoch, look, records, applied, queue, connected,
                 previews, call, tokens, life>>

UserLooks ==
  /\ look' \in Looks \ {look}
  /\ UNCHANGED <<policyVars, epoch, geometry, records, applied, queue,
                 connected, previews, call, tokens, life>>

(* A new process has a new epoch, counts from zero, and knows no previews.  *)
BridgeRestarts ==
  /\ epoch' = epoch + 1
  /\ geometry' = 0
  /\ records' = {}
  /\ queue' = <<>>
  /\ connected' = FALSE
  /\ UNCHANGED <<policyVars, look, applied, previews, call, tokens, life>>

-----------------------------------------------------------------------------
(* The sidecar and the bridge. *)

Idle == [step |-> "idle"]

At(step) == call.step = step

(* A request is answered in time: all before it in the queue are done.      *)
Reachable == connected /\ queue = <<>>

Answered(r) == Reachable /\ Execute(r, TRUE) /\ UNCHANGED <<queue, connected>>

(* A request fails, was lost with the connection, or is answered            *)
(* bridge_busy and stays in the queue.                                      *)
Unanswered(r) ==
  /\ \/ UNCHANGED queue
     \/ connected /\ queue' = Append(queue, r)
  /\ UNCHANGED <<bridgeVars, connected>>

(* What a refreshed store shows: the bridge's revision, or the one made up  *)
(* for a silent change (ShowsLive of LiveSession).                           *)
Shown == {Now, [Now EXCEPT !.geometry = @ + 1]}

PreviewRequest == [op |-> "preview", changeset |-> call.changeset]

CommitRequest ==
  [op |-> call.step, changeset |-> call.changeset, hash |-> call.hash,
   life |-> life]

(* What clients base changes on: any revision they may have been shown.     *)
Offered ==
  [change : Changes, base : [epoch : 0 .. epoch, geometry : 0 .. geometry]]

(* preview_change and apply_change ask the policy before anything else.     *)
ToolDenied ==
  /\ call = Idle
  /\ \E change \in Changes : ~ AuthorizeChangeset(change) /\ Deny(change)
  /\ UNCHANGED <<bridgeVars, queue, connected, previews, call, tokens, life>>

PreviewTool(cs) ==
  /\ call = Idle
  /\ AuthorizeChangeset(cs.change)
  /\ Reachable
  /\ call' = [step |-> "preview", changeset |-> cs]
  /\ UNCHANGED <<policyVars, bridgeVars, queue, connected, previews, tokens,
                 life>>

(* The client names the preview by its hash; that the changeset is the      *)
(* previewed one is for the policy and the bridge to see.                   *)
ApplyTool(cs, p) ==
  /\ call = Idle
  /\ p \in previews
  /\ p.changeset.change.key = cs.change.key
  /\ AuthorizeChangeset(cs.change)
  /\ Reachable
  /\ call' = [step |-> "commit", changeset |-> cs, hash |-> p]
  /\ UNCHANGED <<policyVars, bridgeVars, queue, connected, previews, tokens,
                 life>>

(* cad.set_selection and cad.set_view build on what the store shows.        *)
UiTool ==
  /\ call = Idle
  /\ Reachable
  /\ \E id \in Shown :
       call' = [step |-> "preview",
                changeset |-> [change |-> UiChange, base |-> id]]
  /\ UNCHANGED <<policyVars, bridgeVars, queue, connected, previews, tokens,
                 life>>

(* cad.undo and cad.redo are authorised by the hash of their own changeset. *)
UndoTool ==
  /\ call = Idle
  /\ Reachable
  /\ \E id \in Shown :
       LET cs == [change |-> Navigation, base |-> id]
       IN  call' = [step |-> "undo", changeset |-> cs, hash |-> cs]
  /\ UNCHANGED <<policyVars, bridgeVars, queue, connected, previews, tokens,
                 life>>

OfUi == call.changeset.change = UiChange

UiDenied ==
  /\ At("preview") /\ OfUi
  /\ ~ AuthorizeChangeset(UiChange)
  /\ Deny(UiChange)
  /\ call' = Idle
  /\ UNCHANGED <<bridgeVars, queue, connected, previews, tokens, life>>

(* Mutant of PreviewAnswered: previews are keyed by changeset.              *)
PreviewAnsweredByChangeset ==
  /\ At("preview") /\ ~ OfUi
  /\ Answered(PreviewRequest)
  /\ previews' = {p \in previews : p.changeset # call.changeset}
                   \cup {HashOf(call.changeset)}
  /\ call' = Idle
  /\ UNCHANGED <<policyVars, tokens, life>>

(* The adapter keeps one preview per key, and shows it to the client.       *)
PreviewAnswered ==
  /\ At("preview") /\ ~ OfUi
  /\ Answered(PreviewRequest)
  /\ previews' =
       {p \in previews : p.changeset.change.key # call.changeset.change.key}
         \cup {HashOf(call.changeset)}
  /\ call' = Idle
  /\ UNCHANGED <<policyVars, tokens, life>>

UiPreviewAnswered ==
  /\ At("preview") /\ OfUi
  /\ AuthorizeChangeset(UiChange)
  /\ Answered(PreviewRequest)
  /\ call' = [step |-> "commit", changeset |-> call.changeset,
              hash |-> HashOf(call.changeset)]
  /\ UNCHANGED <<policyVars, previews, tokens, life>>

PreviewUnanswered ==
  /\ At("preview")
  /\ AuthorizeChangeset(call.changeset.change)
  /\ Unanswered(PreviewRequest)
  /\ call' = Idle
  /\ UNCHANGED <<policyVars, previews, tokens, life>>

(* The client sends at most one token with a commit.                        *)
Attached == {{}} \cup {{t} : t \in tokens}

(* Not authorised by any attachment, or by one that has expired.            *)
CommitDenied ==
  /\ At("commit") \/ At("undo")
  /\ \E offered \in Attached :
       \/ ~ AuthorizeCommit(call.changeset, call.hash, offered)
       \/ offered # {} /\ NeedsApproval(call.changeset.change)
  /\ Deny(call.changeset.change)
  /\ call' = Idle
  /\ UNCHANGED <<bridgeVars, queue, connected, previews, tokens, life>>

(* Mutant of CommitAuthorized: the key is left for a commit that succeeds.  *)
CommitAuthorizedKeepsKey ==
  /\ At("commit") \/ At("undo")
  /\ \E offered \in Attached :
       AuthorizeCommit(call.changeset, call.hash, offered)
  /\ UNCHANGED <<profile, audit, used_idempotency>>

CommitAuthorized ==
  /\ At("commit") \/ At("undo")
  /\ \E offered \in Attached :
       AuthorizeCommit(call.changeset, call.hash, offered)
  /\ UseKey(call.changeset.change.key)
  /\ UNCHANGED <<profile, audit>>

Settling == [call EXCEPT !.step = "settle"]

CommitAnswered ==
  /\ At("commit")
  /\ CommitAuthorized
  /\ Answered(CommitRequest)
  /\ call' = Settling
  /\ UNCHANGED <<previews, tokens, life>>

(* The bridge answers undo with two fields; a ChangeResponse has these.     *)
UndoFields == {"resulting_revision", "validation"}
ChangeFields == {"base_revision", "changeset_hash", "rolled_back",
                 "rollback_fingerprint_verified", "validation"}

UndoAnswered ==
  /\ At("undo")
  /\ CommitAuthorized
  /\ Answered(CommitRequest)
  /\ call' = IF ChangeFields \subseteq UndoFields THEN Settling ELSE Idle
  /\ UNCHANGED <<previews, tokens, life>>

(* Mutant of CommitUnanswered: a commit is audited before its outcome.      *)
CommitUnansweredAudited ==
  /\ At("commit") \/ At("undo")
  /\ \E offered \in Attached :
       AuthorizeCommit(call.changeset, call.hash, offered)
  /\ UseKey(call.changeset.change.key)
  /\ RecordCommit(call.changeset, call.hash)
  /\ Unanswered(CommitRequest)
  /\ call' = Idle
  /\ UNCHANGED <<profile, previews, tokens, life>>

(* The tool reports the error; key and preview stay as they are.            *)
CommitUnanswered ==
  /\ CommitAuthorized
  /\ Unanswered(CommitRequest)
  /\ call' = Idle
  /\ UNCHANGED <<previews, tokens, life>>

(* commit refreshes the store before the adapter forgets the preview and    *)
(* records the commit; ui_change does neither.                              *)
Settle ==
  /\ At("settle")
  /\ Reachable
  /\ IF OfUi
       THEN UNCHANGED <<audit, previews>>
       ELSE /\ RecordCommit(call.changeset, call.hash)
            /\ previews' = {p \in previews : p.changeset.change.key
                                               # call.changeset.change.key}
  /\ call' = Idle
  /\ UNCHANGED <<profile, used_idempotency, bridgeVars, queue, connected,
                 tokens, life>>

(* The refresh after a commit fails: the tool reports an error.             *)
SettleFails ==
  /\ At("settle")
  /\ call' = Idle
  /\ UNCHANGED <<policyVars, bridgeVars, queue, connected, previews, tokens,
                 life>>

(* Previews, keys and the audit trail are in memory.  Discovery fails       *)
(* to authenticate while the bridge is busy with older requests.            *)
SidecarRestarts ==
  /\ life' = life + 1
  /\ previews' = {} /\ used_idempotency' = {} /\ audit' = <<>>
  /\ call' = Idle
  /\ connected' \in {FALSE, queue = <<>>}
  /\ UNCHANGED <<profile, bridgeVars, queue, tokens>>

(* An approver who holds the policy secret signs a preview it was shown.    *)
Approve(p) ==
  /\ call = Idle
  /\ p \in previews
  /\ AuthorizeChangeset(p.changeset.change)
  /\ tokens' = tokens \cup {[changeset |-> p.changeset, preview_hash |-> p]}
  /\ UNCHANGED <<policyVars, bridgeVars, queue, connected, previews, call,
                 life>>

-----------------------------------------------------------------------------

Init ==
  /\ PolicyInit
  /\ epoch = 0 /\ geometry = 0 /\ look \in Looks
  /\ records = {} /\ queue = <<>>
  /\ connected = TRUE
  /\ previews = {} /\ call = Idle /\ tokens = {}
  /\ applied = <<>> /\ life = 0

WithinBounds ==
  /\ geometry' <= MaxRevision[profile]
  /\ epoch' <= MaxEpoch[profile]
  /\ Cardinality(records') <= MaxRecords[profile]
  /\ Cardinality(tokens') <= MaxTokens[profile]
  /\ look' # look => profile \in LooksChange
  /\ life' <= MaxLives
  /\ Len(queue') <= MaxLate
  /\ Len(applied') <= MaxApplied
  /\ Len(audit') <= MaxAudit

Next ==
  /\ \/ Late \/ UserEdits \/ UserLooks \/ BridgeRestarts
     \/ ToolDenied
     \/ \E cs \in Offered :
          PreviewTool(cs) \/ \E p \in previews : ApplyTool(cs, p)
     \/ UiTool \/ UndoTool
     \/ UiDenied \/ PreviewAnswered \/ UiPreviewAnswered \/ PreviewUnanswered
     \/ CommitDenied \/ CommitAnswered \/ UndoAnswered \/ CommitUnanswered
     \/ Settle \/ SettleFails
     \/ SidecarRestarts
     \/ \E p \in previews : Approve(p)
  /\ WithinBounds

Spec == Init /\ [][Next]_vars

-----------------------------------------------------------------------------

TypeOK ==
  /\ profile \in Profiles
  /\ epoch \in Nat /\ geometry \in Nat /\ look \in Looks
  /\ records \subseteq Hashes
  /\ queue \in Seq(Requests)
  /\ connected \in BOOLEAN
  /\ previews \subseteq Hashes
  /\ \A p, q \in previews :
       p.changeset.change.key = q.changeset.change.key => p = q
  /\ tokens \subseteq [changeset : ChangeSets, preview_hash : Hashes]
  /\ life \in Nat

(* An idempotency key changes the document at most once in the life of a    *)
(* sidecar, with requests that take effect after they were given up on and  *)
(* retries that reuse the key for something else                            *)
(* (Policy::authorize_commit).                                              *)
KeyCommitsOnce ==
  \A i, j \in DOMAIN applied :
    /\ applied[i].life = applied[j].life
    /\ applied[i].changeset.change.key = applied[j].changeset.change.key
    /\ applied[i].changeset.change.key # Generated
    => i = j

(* A changeset that changes the model is never applied twice, though both   *)
(* processes may be restarted, keys are forgotten with the sidecar and the  *)
(* counters start again with the bridge (revision_matches, epochs).         *)
AppliedOnce ==
  \A i, j \in DOMAIN applied :
    /\ applied[i].changeset = applied[j].changeset
    /\ applied[i].changeset.change.key # Generated
    /\ applied[i].changeset.change.risk # "ui"
    => i = j

(* Whatever changed the document, answered or late, was authorised for      *)
(* exactly that changeset and, if the profile demands it, approved by       *)
(* someone who saw its preview made of the document it then changed.        *)
AppliedAsApproved ==
  \A i \in DOMAIN applied :
    NeedsApproval(applied[i].changeset.change) =>
      \E t \in tokens :
        /\ t.changeset = applied[i].changeset
        /\ t.preview_hash.changeset = applied[i].changeset
        /\ t.preview_hash.at = applied[i].at
        /\ t.preview_hash.look = applied[i].look

(* The audit trail says "committed" only of what the bridge has done.       *)
AuditIsTrue ==
  \A e \in DOMAIN audit : audit[e].status = "committed" =>
    \E i \in DOMAIN applied :
      /\ applied[i].changeset = audit[e].changeset
      /\ applied[i].hash = audit[e].preview_hash
      /\ applied[i].life = life

(* A denial uses up neither the key nor the review: once approved, the same *)
(* changeset can be committed with the same preview.                        *)
DenialsUseNothingUp ==
  [][Len(audit') > Len(audit) /\ audit'[Len(audit')].status = "denied"
       => UNCHANGED <<used_idempotency, previews, bridgeVars, queue>>]_vars

(* As a whole the write path is the one of ApprovedEdits: whatever fails,   *)
(* comes late, is retried or restarts, a document only goes on, and what    *)
(* the bridge applies to it is based on it, has a key of its own and the    *)
(* approval for it, given before.                                           *)
Approval(t) ==
  [changeset |-> t.changeset,
   document  |-> [at |-> t.preview_hash.at, look |-> t.preview_hash.look]]

Promise ==
  INSTANCE ApprovedEdits
  WITH document <- [at |-> Now, look |-> look],
       demands  <- {c \in Changes \cup {UiChange, Navigation} :
                      NeedsApproval(c)},
       approved <- {Approval(t) : t \in tokens},
       log      <- [i \in DOMAIN applied |->
                      [changeset |-> applied[i].changeset,
                       life      |-> applied[i].life]]

ImplementsApprovedEdits == Promise!Spec

(* "Undo and redo [...] use the same [...] audit path as model ChangeSets": *)
(* an undo the bridge has performed and answered is on record once its tool *)
(* has returned, as long as the sidecar lives.                              *)
NavigationAudited ==
  \A i \in DOMAIN applied :
    /\ call = Idle
    /\ applied[i].changeset.change = Navigation
    /\ applied[i].answered
    /\ applied[i].life = life
    => \E e \in DOMAIN audit : /\ audit[e].status = "committed"
                               /\ audit[e].changeset = applied[i].changeset

=============================================================================
