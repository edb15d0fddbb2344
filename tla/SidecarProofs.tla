--------------------------- MODULE SidecarProofs ---------------------------
(***************************************************************************)
(* Proofs about the write path of the sidecar, for all changes, scopes and *)
(* bounds.                                                                 *)
(***************************************************************************)
EXTENDS Sidecar, SequenceTheorems, TLAPS

(* What is added to TypeOK to make it inductive. *)

AllChangeSets == ChangeSets \cup Navigations

Calls ==
  {Idle} \cup [step : {"preview"}, changeset : ChangeSets]
    \cup [step : {"commit"}, changeset : ChangeSets, hash : Hashes]
    \cup [step : {"undo"}, changeset : Navigations, hash : Navigations]
    \cup [step : {"settle"}, changeset : AllChangeSets,
          hash : Hashes \cup Navigations]

Events ==
  [status : {"denied"}, change : Changes \cup {UiChange, Navigation}]
    \cup [status : {"committed"}, changeset : AllChangeSets,
          preview_hash : Hashes \cup Navigations]

Entries ==
  [changeset : AllChangeSets, hash : Hashes \cup Navigations, at : Ids,
   look : Looks, life : Nat, answered : BOOLEAN]

Typed ==
  /\ TypeOK
  /\ call \in Calls
  /\ audit \in Seq(Events)
  /\ applied \in Seq(Entries)

(* What a request does to the document, once the bridge takes it up.        *)
LEMMA Executing ==
  ASSUME Typed, NEW r \in Requests, NEW answered \in BOOLEAN,
         Execute(r, answered)
  PROVE  /\ epoch' = epoch
         /\ geometry' \in Nat /\ geometry' >= geometry
         /\ look' \in Looks
         /\ records' \subseteq Hashes
         /\ \/ r.op = "preview" /\ applied' = applied
            \/ /\ r.op = "commit"
               /\ r.changeset.base = Now
               /\ r.hash = HashOf(r.changeset)
               /\ applied' = Append(applied, Entry(r, answered))
               /\ r.changeset.change.risk # "ui" => geometry' > geometry
            \/ /\ r.op = "undo"
               /\ applied' = Append(applied, Entry(r, answered))
         /\ applied' \in Seq(Entries)
<1>1. Now \in Ids
  BY DEF Typed, TypeOK, Now, Ids
<1>2. r.op # "preview" => Entry(r, answered) \in Entries
  BY <1>1 DEF Typed, TypeOK, Entry, Entries, Requests, AllChangeSets
<1>3. CASE ExecutePreview(r)
  <2>1. r.changeset \in ChangeSets
    BY <1>3 DEF ExecutePreview, Requests
  <2>2. HashOf(r.changeset) \in Hashes
    BY <1>1, <2>1 DEF HashOf, Hashes, Typed, TypeOK
  <2> QED
    BY <1>3, <2>2 DEF ExecutePreview, Typed, TypeOK
<1>4. CASE ExecuteCommit(r, answered)
  BY <1>2, <1>4 DEF ExecuteCommit, Applies, MatchesBase, Typed, TypeOK
<1>5. CASE ExecuteUndo(r, answered)
  BY <1>2, <1>5 DEF ExecuteUndo, Applies, Typed, TypeOK
<1> QED
  BY <1>3, <1>4, <1>5 DEF Execute

LEMMA HeadAndTail ==
  ASSUME NEW S, NEW s \in Seq(S), s # <<>>
  PROVE  /\ Head(s) \in S /\ Head(s) = s[1]
         /\ Tail(s) \in Seq(S) /\ Len(Tail(s)) = Len(s) - 1
         /\ \A i \in 1 .. Len(s) - 1 : Tail(s)[i] = s[i + 1]
  OBVIOUS

(* The requests a tool in progress makes. *)
LEMMA RequestsAreTyped ==
  ASSUME Typed
  PROVE  /\ At("preview") => PreviewRequest \in Requests
         /\ At("commit") \/ At("undo") => CommitRequest \in Requests
  BY DEF Typed, TypeOK, Calls, Idle, At, PreviewRequest, CommitRequest,
         Requests

-----------------------------------------------------------------------------
(* Type correctness. *)

LEMMA InitTyped == Init => Typed
<1> SUFFICES ASSUME Init PROVE Typed
  OBVIOUS
<1>1. TypeOK
  BY PolicyAssumption, SidecarAssumption DEF Init, PolicyInit, TypeOK
<1>2. call \in Calls /\ audit \in Seq(Events) /\ applied \in Seq(Entries)
  BY DEF Init, PolicyInit, Calls
<1> QED BY <1>1, <1>2 DEF Typed

LEMMA DenialTyped ==
  ASSUME Typed, NEW change \in Changes \cup {UiChange, Navigation},
         Deny(change)
  PROVE  profile' = profile /\ audit' \in Seq(Events)
<1>1. [status |-> "denied", change |-> change] \in Events
  BY DEF Events
<1> QED BY <1>1 DEF Typed, Deny

(* The bridge on its own, and the user. *)
LEMMA BridgeTyped ==
  ASSUME Typed, Late \/ UserEdits \/ UserLooks \/ BridgeRestarts
  PROVE  Typed'
<1>1. CASE Late
  <2>1. Head(queue) \in Requests /\ Tail(queue) \in Seq(Requests)
    BY <1>1, HeadAndTail DEF Late, Typed, TypeOK
  <2>2. /\ epoch' \in Nat /\ geometry' \in Nat /\ look' \in Looks
        /\ records' \subseteq Hashes /\ applied' \in Seq(Entries)
    <3>1. CASE Execute(Head(queue), FALSE)
      BY <2>1, <3>1, Executing DEF Typed, TypeOK
    <3>2. CASE UNCHANGED bridgeVars
      BY <3>2 DEF bridgeVars, Typed, TypeOK
    <3> QED BY <1>1, <3>1, <3>2 DEF Late
  <2>3. UNCHANGED <<profile, audit, connected, previews, call, tokens, life>>
    BY <1>1 DEF Late, policyVars
  <2> QED BY <1>1, <2>1, <2>2, <2>3 DEF Late, Typed, TypeOK
<1>2. CASE UserEdits
  BY <1>2 DEF UserEdits, policyVars, Typed, TypeOK
<1>3. CASE UserLooks
  BY <1>3 DEF UserLooks, policyVars, Typed, TypeOK
<1>4. CASE BridgeRestarts
  <2>1. UNCHANGED <<profile, audit, look, applied, previews, call, tokens,
                    life>>
    BY <1>4 DEF BridgeRestarts, policyVars
  <2>2. epoch' \in Nat /\ geometry' \in Nat /\ queue' \in Seq(Requests)
    BY <1>4 DEF BridgeRestarts, Typed, TypeOK
  <2>3. records' = {} /\ connected' \in BOOLEAN
    BY <1>4 DEF BridgeRestarts
  <2>4. TypeOK'
    BY <2>1, <2>2, <2>3 DEF Typed, TypeOK
  <2>5. call' \in Calls /\ audit' \in Seq(Events) /\ applied' \in Seq(Entries)
    BY <2>1 DEF Typed
  <2> QED BY <2>4, <2>5 DEF Typed
<1> QED BY <1>1, <1>2, <1>3, <1>4

(* Tools that are denied or begin. *)
LEMMA BeginningTyped ==
  ASSUME Typed,
         \/ ToolDenied \/ UiTool \/ UndoTool \/ UiDenied \/ CommitDenied
         \/ \E cs \in Offered :
              PreviewTool(cs) \/ \E p \in previews : ApplyTool(cs, p)
  PROVE  Typed'
<1>1. Now \in Ids /\ Shown \subseteq Ids
  BY DEF Typed, TypeOK, Now, Ids, Shown
<1>2. Offered \subseteq ChangeSets
  BY DEF Offered, ChangeSets, Ids, Typed, TypeOK
<1>3. Idle \in Calls
  BY DEF Calls
<1>4. CASE ToolDenied
  <2>1. profile' = profile /\ audit' \in Seq(Events)
    BY <1>4, DenialTyped DEF ToolDenied
  <2> QED BY <1>4, <2>1 DEF ToolDenied, bridgeVars, Typed, TypeOK
<1>5. CASE UiTool
  <2>1. call' \in Calls
    BY <1>1, <1>5 DEF UiTool, Calls, ChangeSets
  <2> QED BY <1>5, <2>1 DEF UiTool, policyVars, bridgeVars, Typed, TypeOK
<1>6. CASE UndoTool
  <2>1. call' \in Calls
    BY <1>1, <1>6 DEF UndoTool, Calls, Navigations
  <2> QED BY <1>6, <2>1 DEF UndoTool, policyVars, bridgeVars, Typed, TypeOK
<1>7. CASE UiDenied
  <2>1. profile' = profile /\ audit' \in Seq(Events)
    BY <1>7, DenialTyped DEF UiDenied
  <2> QED BY <1>3, <1>7, <2>1 DEF UiDenied, bridgeVars, Typed, TypeOK
<1>8. CASE CommitDenied
  <2>1. call.changeset.change \in Changes \cup {UiChange, Navigation}
    BY <1>8 DEF CommitDenied, At, Typed, Calls, Idle, ChangeSets, Navigations
  <2>2. profile' = profile /\ audit' \in Seq(Events)
    BY <1>8, <2>1, DenialTyped DEF CommitDenied
  <2> QED BY <1>3, <1>8, <2>2 DEF CommitDenied, bridgeVars, Typed, TypeOK
<1>9. ASSUME NEW cs \in Offered, PreviewTool(cs)
      PROVE  Typed'
  <2>1. call' \in Calls
    BY <1>2, <1>9 DEF PreviewTool, Calls
  <2> QED BY <1>9, <2>1 DEF PreviewTool, policyVars, bridgeVars, Typed, TypeOK
<1>10. ASSUME NEW cs \in Offered, NEW p \in previews, ApplyTool(cs, p)
       PROVE  Typed'
  <2>1. call' \in Calls
    BY <1>2, <1>10 DEF ApplyTool, Calls, Typed, TypeOK
  <2> QED BY <1>10, <2>1 DEF ApplyTool, policyVars, bridgeVars, Typed, TypeOK
<1> QED BY <1>4, <1>5, <1>6, <1>7, <1>8, <1>9, <1>10

(* What answered and unanswered requests do to the bridge. *)
LEMMA AnsweredTyped ==
  ASSUME Typed, NEW r \in Requests, Answered(r)
  PROVE  /\ epoch' \in Nat /\ geometry' \in Nat /\ look' \in Looks
         /\ records' \subseteq Hashes /\ applied' \in Seq(Entries)
         /\ UNCHANGED <<queue, connected>>
<1>1. Execute(r, TRUE) /\ UNCHANGED <<queue, connected>>
  BY DEF Answered
<1>2. TRUE \in BOOLEAN
  OBVIOUS
<1> QED BY <1>1, <1>2, Executing DEF Typed, TypeOK

LEMMA UnansweredTyped ==
  ASSUME Typed, NEW r \in Requests, Unanswered(r)
  PROVE  queue' \in Seq(Requests) /\ UNCHANGED <<bridgeVars, connected>>
  BY DEF Unanswered, Typed, TypeOK

(* Previews: a new one replaces the old one of its key. *)
LEMMA PreviewsTyped ==
  ASSUME Typed,
         PreviewAnswered \/ UiPreviewAnswered \/ PreviewUnanswered
  PROVE  Typed'
<1>1. At("preview") /\ PreviewRequest \in Requests
  BY RequestsAreTyped
     DEF PreviewAnswered, UiPreviewAnswered, PreviewUnanswered
<1>2. call.changeset \in ChangeSets
  BY <1>1 DEF At, Typed, Calls, Idle
<1>3. HashOf(call.changeset) \in Hashes
  BY <1>2 DEF HashOf, Hashes, Now, Ids, Typed, TypeOK
<1>4. Idle \in Calls
  BY DEF Calls
<1>5. CASE PreviewAnswered
  <2>1. /\ epoch' \in Nat /\ geometry' \in Nat /\ look' \in Looks
        /\ records' \subseteq Hashes /\ applied' \in Seq(Entries)
        /\ UNCHANGED <<queue, connected>>
    BY <1>1, <1>5, AnsweredTyped DEF PreviewAnswered
  <2>2. /\ previews' \subseteq Hashes
        /\ \A p, q \in previews' :
             p.changeset.change.key = q.changeset.change.key => p = q
    BY <1>3, <1>5 DEF PreviewAnswered, HashOf, Typed, TypeOK
  <2> QED
    BY <1>4, <1>5, <2>1, <2>2 DEF PreviewAnswered, policyVars, Typed, TypeOK
<1>6. CASE UiPreviewAnswered
  <2>1. /\ epoch' \in Nat /\ geometry' \in Nat /\ look' \in Looks
        /\ records' \subseteq Hashes /\ applied' \in Seq(Entries)
        /\ UNCHANGED <<queue, connected>>
    BY <1>1, <1>6, AnsweredTyped DEF UiPreviewAnswered
  <2>2. call' \in Calls
    BY <1>2, <1>3, <1>6 DEF UiPreviewAnswered, Calls
  <2> QED
    BY <1>6, <2>1, <2>2 DEF UiPreviewAnswered, policyVars, Typed, TypeOK
<1>7. CASE PreviewUnanswered
  <2>1. queue' \in Seq(Requests) /\ UNCHANGED <<bridgeVars, connected>>
    BY <1>1, <1>7, UnansweredTyped DEF PreviewUnanswered
  <2> QED
    BY <1>4, <1>7, <2>1
       DEF PreviewUnanswered, policyVars, bridgeVars, Typed, TypeOK
<1> QED BY <1>5, <1>6, <1>7

(* Commits and undos that were let through. *)
LEMMA CommitsTyped ==
  ASSUME Typed, CommitAnswered \/ UndoAnswered \/ CommitUnanswered
  PROVE  Typed'
<1>1. /\ At("commit") \/ At("undo")
      /\ CommitRequest \in Requests
      /\ UNCHANGED <<profile, audit, previews, tokens, life>>
  BY RequestsAreTyped
     DEF CommitAnswered, UndoAnswered, CommitUnanswered, CommitAuthorized
<1>2. Idle \in Calls /\ Settling \in Calls
  BY <1>1 DEF At, Typed, Calls, Idle, Settling, AllChangeSets
<1>3. CASE CommitAnswered \/ UndoAnswered
  <2>1. /\ epoch' \in Nat /\ geometry' \in Nat /\ look' \in Looks
        /\ records' \subseteq Hashes /\ applied' \in Seq(Entries)
        /\ UNCHANGED <<queue, connected>>
    BY <1>1, <1>3, AnsweredTyped DEF CommitAnswered, UndoAnswered
  <2>2. call' \in Calls
    BY <1>2, <1>3 DEF CommitAnswered, UndoAnswered
  <2> QED BY <1>1, <2>1, <2>2 DEF Typed, TypeOK
<1>4. CASE CommitUnanswered
  <2>1. queue' \in Seq(Requests) /\ UNCHANGED <<bridgeVars, connected>>
    BY <1>1, <1>4, UnansweredTyped DEF CommitUnanswered
  <2>2. call' \in Calls
    BY <1>2, <1>4 DEF CommitUnanswered
  <2> QED BY <1>1, <2>1, <2>2 DEF bridgeVars, Typed, TypeOK
<1> QED BY <1>3, <1>4

(* The end of a tool, a restart, an approval. *)
LEMMA EndingTyped ==
  ASSUME Typed,
         \/ Settle \/ SettleFails \/ SidecarRestarts
         \/ \E p \in previews : Approve(p)
  PROVE  Typed'
<1>1. Idle \in Calls
  BY DEF Calls
<1>2. CASE Settle
  <2>1. audit' \in Seq(Events)
    <3>1. CASE OfUi
      BY <1>2, <3>1 DEF Settle, Typed
    <3>2. CASE ~ OfUi
      <4>1. [status |-> "committed", changeset |-> call.changeset,
             preview_hash |-> call.hash] \in Events
        BY <1>2 DEF Settle, At, Typed, Calls, Idle, Events
      <4>2. audit' = Append(audit, [status |-> "committed",
                                    changeset |-> call.changeset,
                                    preview_hash |-> call.hash])
        BY <1>2, <3>2 DEF Settle, RecordCommit
      <4> QED BY <4>1, <4>2 DEF Typed
    <3> QED BY <3>1, <3>2
  <2>2. previews' \subseteq previews
    BY <1>2 DEF Settle
  <2> QED BY <1>1, <1>2, <2>1, <2>2 DEF Settle, bridgeVars, Typed, TypeOK
<1>3. CASE SettleFails
  BY <1>1, <1>3 DEF SettleFails, policyVars, bridgeVars, Typed, TypeOK
<1>4. CASE SidecarRestarts
  <2>1. connected' \in BOOLEAN
    BY <1>4 DEF SidecarRestarts
  <2>2. life' \in Nat /\ audit' \in Seq(Events)
    BY <1>4 DEF SidecarRestarts, Typed, TypeOK
  <2> QED
    BY <1>1, <1>4, <2>1, <2>2
       DEF SidecarRestarts, bridgeVars, Typed, TypeOK
<1>5. ASSUME NEW p \in previews, Approve(p)
      PROVE  Typed'
  <2>1. [changeset |-> p.changeset, preview_hash |-> p]
          \in [changeset : ChangeSets, preview_hash : Hashes]
    BY DEF Typed, TypeOK, Hashes
  <2> QED BY <1>5, <2>1 DEF Approve, policyVars, bridgeVars, Typed, TypeOK
<1> QED BY <1>2, <1>3, <1>4, <1>5

LEMMA StutterTyped == ASSUME Typed, UNCHANGED vars PROVE Typed'
  BY DEF vars, policyVars, bridgeVars, Typed, TypeOK

LEMMA NextTyped == ASSUME Typed, [Next]_vars PROVE Typed'
  BY BridgeTyped, BeginningTyped, PreviewsTyped, CommitsTyped, EndingTyped,
     StutterTyped DEF Next

(* In every reachable state every variable of the sidecar, the bridge and   *)
(* the approver has its type, and the adapter keeps one preview per key.    *)
THEOREM TypeCorrect == Spec => []TypeOK
<1>1. Typed => TypeOK
  BY DEF Typed
<1> QED BY <1>1, InitTyped, NextTyped, PTL DEF Spec

-----------------------------------------------------------------------------
(* The steps, by what they do to the requests that change the document.     *)

(* Neither the queue nor what was applied changes; keys are only added.     *)
Quiet ==
  /\ UNCHANGED <<queue, applied, life>>
  /\ used_idempotency \subseteq used_idempotency'

(* The bridge takes up the oldest request nobody waits for.                 *)
Drains ==
  /\ queue # <<>> /\ queue' = Tail(queue)
  /\ UNCHANGED <<life, used_idempotency>>
  /\ \/ applied' = applied
     \/ Head(queue).op # "preview" /\ Execute(Head(queue), FALSE)

(* A preview is given up on, or the bridge forgets its queue.               *)
Shuffles ==
  /\ UNCHANGED <<applied, life, used_idempotency>>
  /\ queue' = <<>> \/ \E r \in Requests : r.op = "preview"
                                          /\ queue' = Append(queue, r)

(* A commit or undo that the policy has let through is left in the queue.   *)
Leaves ==
  /\ At("commit") \/ At("undo")
  /\ CommitAuthorized
  /\ UNCHANGED <<applied, life>>
  /\ queue' = Append(queue, CommitRequest)

(* A commit or undo that the policy has let through is done and answered.   *)
Performs ==
  /\ At("commit") \/ At("undo")
  /\ CommitAuthorized
  /\ Execute(CommitRequest, TRUE)
  /\ UNCHANGED <<queue, life>>

(* The sidecar starts afresh.                                               *)
Forgets == life' = life + 1 /\ UNCHANGED <<queue, applied>>

LEMMA Kinds ==
  ASSUME Typed, [Next]_vars
  PROVE  Quiet \/ Drains \/ Shuffles \/ Leaves \/ Performs \/ Forgets
<1>1. CASE Late
  <2>1. Head(queue).op = "preview" /\ Execute(Head(queue), FALSE)
          => applied' = applied
    BY DEF Execute, ExecutePreview, ExecuteCommit, ExecuteUndo
  <2> QED BY <1>1, <2>1 DEF Late, Drains, policyVars, bridgeVars
<1>2. CASE BridgeRestarts
  BY <1>2 DEF BridgeRestarts, Shuffles, policyVars
<1>3. CASE PreviewUnanswered
  <2>1. PreviewRequest \in Requests /\ PreviewRequest.op = "preview"
    BY <1>3, RequestsAreTyped DEF PreviewUnanswered, PreviewRequest
  <2>2. UNCHANGED <<applied, life, used_idempotency>>
    BY <1>3 DEF PreviewUnanswered, Unanswered, bridgeVars, policyVars
  <2>3. queue' = queue \/ queue' = Append(queue, PreviewRequest)
    BY <1>3 DEF PreviewUnanswered, Unanswered
  <2> QED BY <2>1, <2>2, <2>3 DEF Quiet, Shuffles
<1>4. CASE PreviewAnswered \/ UiPreviewAnswered
  <2>1. /\ Execute(PreviewRequest, TRUE)
        /\ UNCHANGED <<queue, life, used_idempotency>>
    BY <1>4 DEF PreviewAnswered, UiPreviewAnswered, Answered, policyVars
  <2>2. UNCHANGED applied
    BY <2>1 DEF Execute, ExecutePreview, ExecuteCommit, ExecuteUndo,
                PreviewRequest
  <2> QED BY <2>1, <2>2 DEF Quiet
<1>5. CASE CommitUnanswered
  BY <1>5 DEF CommitUnanswered, CommitAuthorized, UseKey, Unanswered,
              bridgeVars, Quiet, Leaves
<1>6. CASE CommitAnswered \/ UndoAnswered
  BY <1>6 DEF CommitAnswered, UndoAnswered, Answered, Performs
<1>7. CASE SidecarRestarts
  BY <1>7 DEF SidecarRestarts, Forgets, bridgeVars
<1>8. CASE UserEdits \/ UserLooks \/ SettleFails \/ UNCHANGED vars
  BY <1>8 DEF UserEdits, UserLooks, SettleFails, vars, policyVars, bridgeVars,
              Quiet
<1>9. CASE ToolDenied \/ UiDenied \/ CommitDenied \/ UiTool \/ UndoTool
  BY <1>9 DEF ToolDenied, UiDenied, CommitDenied, UiTool, UndoTool, Deny,
              policyVars, bridgeVars, Quiet
<1>10. CASE Settle
  BY <1>10 DEF Settle, bridgeVars, Quiet
<1>11. CASE \E p \in previews : Approve(p)
  BY <1>11 DEF Approve, policyVars, bridgeVars, Quiet
<1>12. CASE \E cs \in Offered :
              PreviewTool(cs) \/ \E p \in previews : ApplyTool(cs, p)
  BY <1>12 DEF PreviewTool, ApplyTool, policyVars, bridgeVars, Quiet
<1> QED BY <1>1, <1>2, <1>3, <1>4, <1>5, <1>6, <1>7, <1>8, <1>9, <1>10, <1>11,
           <1>12 DEF Next

-----------------------------------------------------------------------------
(* A key commits once.  The invariant follows a key from the moment it is   *)
(* used up, through the queue, to the document.                             *)

Left == {i \in DOMAIN queue : queue[i].op # "preview"}

(* Two commits of one sidecar under one key.                                *)
Clash(a, b) ==
  /\ a.life = b.life
  /\ a.changeset.change.key = b.changeset.change.key
  /\ a.changeset.change.key # Generated

Spent(c) ==
  /\ c.life <= life
  /\ c.life = life /\ c.changeset.change.key # Generated
       => c.changeset.change.key \in used_idempotency

KeysOnce ==
  /\ \A i \in Left : Spent(queue[i])
  /\ \A i \in DOMAIN applied : Spent(applied[i])
  /\ \A i, j \in Left : Clash(queue[i], queue[j]) => i = j
  /\ \A i, j \in DOMAIN applied : Clash(applied[i], applied[j]) => i = j
  /\ \A i \in Left, j \in DOMAIN applied : ~ Clash(queue[i], applied[j])

(* The request the policy lets through is the first under its key.          *)
LEMMA FirstOfItsKey ==
  ASSUME Typed, KeysOnce, At("commit") \/ At("undo"), CommitAuthorized
  PROVE  /\ \A i \in Left : ~ Clash(queue[i], CommitRequest)
         /\ \A i \in DOMAIN applied : ~ Clash(applied[i], CommitRequest)
         /\ used_idempotency \subseteq used_idempotency'
         /\ CommitRequest.life = life
         /\ CommitRequest.changeset.change.key # Generated
              => CommitRequest.changeset.change.key \in used_idempotency'
<1>1. CommitRequest.life = life /\ CommitRequest.changeset = call.changeset
  BY DEF CommitRequest
<1>2. /\ call.changeset.change.key \notin used_idempotency
      /\ used_idempotency' =
           used_idempotency \cup ({call.changeset.change.key} \ {Generated})
  BY DEF CommitAuthorized, AuthorizeCommit, UseKey
<1> QED BY <1>1, <1>2 DEF KeysOnce, Clash, Spent

(* What is applied is known by its request. *)
LEMMA EntryOfRequest ==
  ASSUME NEW r, NEW answered
  PROVE  /\ Entry(r, answered).life = r.life
         /\ Entry(r, answered).changeset = r.changeset
         /\ Entry(r, answered).hash = r.hash
  BY DEF Entry

LEMMA Appended ==
  ASSUME NEW S, NEW s \in Seq(S), NEW e
  PROVE  /\ DOMAIN Append(s, e) = DOMAIN s \cup {Len(s) + 1}
         /\ Len(s) + 1 \notin DOMAIN s
         /\ \A i \in DOMAIN s : Append(s, e)[i] = s[i]
         /\ Append(s, e)[Len(s) + 1] = e
  OBVIOUS

LEMMA KeysOnceKept ==
  ASSUME Typed, KeysOnce, [Next]_vars
  PROVE  KeysOnce'
<1>1. queue \in Seq(Requests) /\ applied \in Seq(Entries) /\ life \in Nat
  BY DEF Typed, TypeOK
<1>2. CASE Quiet
  BY <1>2 DEF Quiet, KeysOnce, Left, Spent, Clash
<1>3. CASE Shuffles
  <2>1. CASE queue' = <<>>
    <3>1. Left' = {}
      BY <2>1 DEF Left
    <3> QED BY <1>3, <3>1 DEF Shuffles, KeysOnce, Spent, Clash
  <2>2. ASSUME NEW r \in Requests, r.op = "preview", queue' = Append(queue, r)
        PROVE  KeysOnce'
    <3>1. Left' = Left /\ \A i \in Left : queue'[i] = queue[i]
      BY <1>1, <2>2, Appended DEF Left
    <3> QED BY <1>3, <3>1 DEF Shuffles, KeysOnce, Spent, Clash
  <2> QED BY <1>3, <2>1, <2>2 DEF Shuffles
<1>4. CASE Forgets
  <2>1. \A i \in Left : queue[i].life \in Nat
    BY <1>1 DEF Left, Requests
  <2>2. \A i \in DOMAIN applied : applied[i].life \in Nat
    <3>1. \A i \in DOMAIN applied : applied[i] \in Entries
      BY <1>1
    <3> QED BY <3>1 DEF Entries
  <2>3. UNCHANGED <<Left, queue, applied>>
    BY <1>4 DEF Forgets, Left
  <2> QED BY <1>1, <1>4, <2>1, <2>2, <2>3 DEF Forgets, KeysOnce, Spent, Clash
<1>5. CASE Leaves
  <2> DEFINE n == Len(queue) + 1
  <2>1. /\ Left' = Left \cup {n} /\ n \notin Left
        /\ \A i \in Left : queue'[i] = queue[i]
        /\ queue'[n] = CommitRequest
    <3>1. CommitRequest.op # "preview"
      BY <1>5 DEF Leaves, At, CommitRequest
    <3> QED BY <1>1, <1>5, <3>1, Appended DEF Leaves, Left
  <2>2. /\ \A i \in Left : ~ Clash(queue[i], CommitRequest)
        /\ \A i \in DOMAIN applied : ~ Clash(applied[i], CommitRequest)
        /\ used_idempotency \subseteq used_idempotency'
        /\ CommitRequest.life = life
        /\ CommitRequest.changeset.change.key # Generated
             => CommitRequest.changeset.change.key \in used_idempotency'
    BY <1>5, FirstOfItsKey DEF Leaves
  <2>3. UNCHANGED <<applied, life>>
    BY <1>5 DEF Leaves
  <2> HIDE DEF n
  <2> QED BY <1>1, <2>1, <2>2, <2>3 DEF KeysOnce, Spent, Clash
<1>6. CASE Performs
  <2>1. CommitRequest \in Requests /\ CommitRequest.op # "preview"
    BY <1>6, RequestsAreTyped DEF Performs, At, CommitRequest
  <2> DEFINE n == Len(applied) + 1
             e == Entry(CommitRequest, TRUE)
  <2>2. /\ applied' = Append(applied, e)
        /\ e.life = CommitRequest.life /\ e.changeset = CommitRequest.changeset
    BY <1>6, <2>1, EntryOfRequest
       DEF Performs, Execute, ExecutePreview, ExecuteCommit, ExecuteUndo,
           Applies
  <2> HIDE DEF e
  <2>3. /\ DOMAIN applied' = DOMAIN applied \cup {n} /\ n \notin DOMAIN applied
        /\ \A i \in DOMAIN applied : applied'[i] = applied[i]
        /\ applied'[n] = e
    BY <1>1, <2>2, Appended
  <2>4. /\ \A i \in Left : ~ Clash(queue[i], CommitRequest)
        /\ \A i \in DOMAIN applied : ~ Clash(applied[i], CommitRequest)
        /\ used_idempotency \subseteq used_idempotency'
        /\ CommitRequest.life = life
        /\ CommitRequest.changeset.change.key # Generated
             => CommitRequest.changeset.change.key \in used_idempotency'
    BY <1>6, FirstOfItsKey DEF Performs
  <2>5. UNCHANGED <<Left, queue, life>>
    BY <1>6 DEF Performs, Left
  <2> HIDE DEF n
  <2> QED BY <1>1, <2>2, <2>3, <2>4, <2>5 DEF KeysOnce, Spent, Clash
<1>7. CASE Drains
  <2>1. \A i \in Left' : /\ i \in Nat \ {0} /\ i + 1 \in Left
                         /\ queue'[i] = queue[i + 1]
    BY <1>1, <1>7, HeadAndTail DEF Drains, Left
  <2>2. /\ \A i \in Left' : Spent(queue[i + 1])
        /\ \A i, j \in Left' : Clash(queue[i + 1], queue[j + 1]) => i = j
        /\ \A i \in Left', j \in DOMAIN applied :
             ~ Clash(queue[i + 1], applied[j])
    BY <2>1 DEF KeysOnce
  <2>3. UNCHANGED <<life, used_idempotency>>
    BY <1>7 DEF Drains
  <2>4. CASE applied' = applied
    BY <2>1, <2>4, <2>2, <2>3 DEF KeysOnce, Spent, Clash
  <2>5. CASE Head(queue).op # "preview" /\ Execute(Head(queue), FALSE)
    <3> DEFINE n == Len(applied) + 1
               e == Entry(queue[1], FALSE)
    <3>1. Head(queue) = queue[1] /\ 1 \in Left
      BY <1>1, <1>7, <2>5, HeadAndTail DEF Drains, Left
    <3>2. /\ applied' = Append(applied, e)
          /\ e.life = queue[1].life /\ e.changeset = queue[1].changeset
      BY <2>5, <3>1, EntryOfRequest
         DEF Execute, ExecutePreview, ExecuteCommit, ExecuteUndo, Applies
    <3> HIDE DEF e
    <3>3. /\ DOMAIN applied' = DOMAIN applied \cup {n}
          /\ n \notin DOMAIN applied
          /\ \A i \in DOMAIN applied : applied'[i] = applied[i]
          /\ applied'[n] = e
      BY <1>1, <3>2, Appended
    <3> HIDE DEF n
    <3>4. \A i \in Left' : ~ Clash(queue[i + 1], queue[1])
      BY <2>1, <3>1 DEF KeysOnce
    <3>5. /\ Spent(queue[1])
          /\ \A i \in DOMAIN applied : ~ Clash(queue[1], applied[i])
      BY <3>1 DEF KeysOnce
    <3> QED
      BY <2>1, <2>2, <2>3, <3>2, <3>3, <3>4, <3>5 DEF KeysOnce, Spent, Clash
  <2> QED BY <1>7, <2>4, <2>5 DEF Drains
<1> QED BY <1>2, <1>3, <1>4, <1>5, <1>6, <1>7, Kinds

(* In the life of one sidecar an idempotency key changes the document at    *)
(* most once, however many requests fail, come late or are retried.         *)
THEOREM KeysCommitOnce == Spec => []KeyCommitsOnce
<1>1. Init => KeysOnce
  BY DEF Init, KeysOnce, Left
<1>2. KeysOnce => KeyCommitsOnce
  BY DEF KeysOnce, KeyCommitsOnce, Clash
<1> QED
  BY <1>1, <1>2, InitTyped, NextTyped, KeysOnceKept, PTL DEF Spec

-----------------------------------------------------------------------------
(* Nothing changes the profile, approvals are not taken back, and the       *)
(* bridge's revisions never return.                                         *)

Before(id) ==
  id.epoch < epoch \/ (id.epoch = epoch /\ id.geometry < geometry)

Onward == epoch' > epoch \/ (epoch' = epoch /\ geometry' >= geometry)

LEMMA Executes ==
  ASSUME Typed, NEW r \in Requests, NEW answered \in BOOLEAN,
         Execute(r, answered)
  PROVE  Onward
  BY Executing DEF Onward

LEMMA Standing ==
  ASSUME Typed, [Next]_vars
  PROVE  profile' = profile /\ tokens \subseteq tokens' /\ Onward
<1>1. epoch \in Nat /\ geometry \in Nat
  BY DEF Typed, TypeOK
<1>2. epoch' = epoch /\ geometry' = geometry => Onward
  BY <1>1 DEF Onward
<1>3. CASE Late
  <2>1. Head(queue) \in Requests
    BY <1>3, HeadAndTail DEF Late, Typed, TypeOK
  <2>2. FALSE \in BOOLEAN
    OBVIOUS
  <2>3. Onward
    <3>1. CASE Execute(Head(queue), FALSE)
      BY <2>1, <2>2, <3>1, Executes
    <3>2. CASE UNCHANGED bridgeVars
      BY <1>2, <3>2 DEF bridgeVars
    <3> QED BY <1>3, <3>1, <3>2 DEF Late
  <2> QED BY <1>3, <2>3 DEF Late, policyVars
<1>4. CASE PreviewAnswered \/ UiPreviewAnswered
  <2>1. PreviewRequest \in Requests /\ Execute(PreviewRequest, TRUE)
    BY <1>4, RequestsAreTyped DEF PreviewAnswered, UiPreviewAnswered, Answered
  <2>2. TRUE \in BOOLEAN
    OBVIOUS
  <2>3. Onward
    BY <2>1, <2>2, Executes
  <2> QED BY <1>4, <2>3 DEF PreviewAnswered, UiPreviewAnswered, policyVars
<1>5. CASE CommitAnswered \/ UndoAnswered
  <2>1. CommitRequest \in Requests /\ Execute(CommitRequest, TRUE)
    BY <1>5, RequestsAreTyped DEF CommitAnswered, UndoAnswered, Answered
  <2>2. TRUE \in BOOLEAN
    OBVIOUS
  <2>3. Onward
    BY <2>1, <2>2, Executes
  <2> QED BY <1>5, <2>3 DEF CommitAnswered, UndoAnswered, CommitAuthorized
<1>6. CASE BridgeRestarts \/ UserEdits
  BY <1>1, <1>6 DEF BridgeRestarts, UserEdits, policyVars, Onward
<1>7. CASE PreviewUnanswered \/ CommitUnanswered
  BY <1>2, <1>7 DEF PreviewUnanswered, CommitUnanswered, CommitAuthorized,
                    Unanswered, policyVars, bridgeVars
<1>8. CASE UserLooks \/ SettleFails \/ SidecarRestarts \/ Settle
           \/ UNCHANGED vars
  BY <1>2, <1>8 DEF UserLooks, SettleFails, SidecarRestarts, Settle, vars,
                    policyVars, bridgeVars
<1>9. CASE ToolDenied \/ UiDenied \/ CommitDenied \/ UiTool \/ UndoTool
  BY <1>2, <1>9 DEF ToolDenied, UiDenied, CommitDenied, UiTool, UndoTool, Deny,
                    policyVars, bridgeVars
<1>10. CASE \E p \in previews : Approve(p)
  BY <1>2, <1>10 DEF Approve, policyVars, bridgeVars
<1>11. CASE \E cs \in Offered :
              PreviewTool(cs) \/ \E p \in previews : ApplyTool(cs, p)
  BY <1>2, <1>11 DEF PreviewTool, ApplyTool, policyVars, bridgeVars
<1> QED BY <1>3, <1>4, <1>5, <1>6, <1>7, <1>8, <1>9, <1>10, <1>11 DEF Next

-----------------------------------------------------------------------------
(* What changed the document was approved.  Along the way to the document a *)
(* commit has a token for its changeset and hash; the bridge then compares  *)
(* that hash with one it makes of the document as it is.                    *)

Backed(c) ==
  NeedsApproval(c.changeset.change) =>
    \E t \in tokens : t.changeset = c.changeset /\ t.preview_hash = c.hash

ApprovedSoFar ==
  /\ \A i \in Left : Backed(queue[i])
  /\ AppliedAsApproved

(* No token covers an undo, so an undo that needs one is not let through.   *)
LEMMA NoTokenForNavigation ==
  ASSUME Typed, NEW t \in tokens
  PROVE  t.changeset \notin Navigations
<1>1. t.changeset.change \in Changes \cup {UiChange}
  BY DEF Typed, TypeOK, ChangeSets
<1>2. UiChange # Navigation
  BY DEF UiChange, Navigation
<1>3. Navigation \notin Changes
  BY PolicyAssumption DEF Navigation
<1> QED BY <1>1, <1>2, <1>3 DEF Navigations

(* What the bridge executes for a backed request is approved.               *)
LEMMA AppliedBacked ==
  ASSUME Typed, NEW r \in Requests, r.op # "preview", NEW answered,
         Execute(r, answered), Backed(r), NeedsApproval(r.changeset.change)
  PROVE  \E t \in tokens :
           /\ t.changeset = r.changeset
           /\ t.preview_hash.changeset = r.changeset
           /\ t.preview_hash.at = Now
           /\ t.preview_hash.look = look
<1>1. PICK t \in tokens : t.changeset = r.changeset /\ t.preview_hash = r.hash
  BY DEF Backed
<1>2. r.changeset \notin Navigations
  BY <1>1, NoTokenForNavigation
<1>3. r.hash = HashOf(r.changeset)
  BY <1>2 DEF Execute, ExecutePreview, ExecuteCommit, ExecuteUndo, Requests
<1> QED BY <1>1, <1>3 DEF HashOf

LEMMA LetThroughIsBacked ==
  ASSUME CommitAuthorized
  PROVE  Backed(CommitRequest)
<1>1. /\ CommitRequest.changeset = call.changeset
      /\ CommitRequest.hash = call.hash
  BY DEF CommitRequest
<1>2. PICK offered \in Attached :
        AuthorizeCommit(call.changeset, call.hash, offered)
  BY DEF CommitAuthorized
<1>3. \A t \in offered : t \in tokens
  BY <1>2 DEF Attached
<1> QED BY <1>1, <1>2, <1>3 DEF AuthorizeCommit, Approves, Backed

(* What changes the document is a request just let through, or the oldest   *)
(* one left in the queue.                                                   *)
LEMMA Applications ==
  ASSUME Typed, [Next]_vars, applied' # applied
  PROVE  \E r \in Requests, answered \in BOOLEAN :
           /\ r.op # "preview" /\ Execute(r, answered)
           /\ applied' = Append(applied, Entry(r, answered))
           /\ \/ /\ At("commit") \/ At("undo")
                 /\ CommitAuthorized /\ r = CommitRequest
              \/ 1 \in Left /\ r = queue[1]
<1>1. CASE Performs
  <2>1. CommitRequest \in Requests /\ CommitRequest.op # "preview"
    BY <1>1, RequestsAreTyped DEF Performs, At, CommitRequest
  <2>2. applied' = Append(applied, Entry(CommitRequest, TRUE))
    BY <1>1, <2>1 DEF Performs, Execute, ExecutePreview, ExecuteCommit,
                      ExecuteUndo, Applies
  <2>3. TRUE \in BOOLEAN
    OBVIOUS
  <2> QED BY <1>1, <2>1, <2>2, <2>3 DEF Performs
<1>2. CASE Drains
  <2>1. Head(queue).op # "preview" /\ Execute(Head(queue), FALSE)
    BY <1>2 DEF Drains
  <2>2. Head(queue) \in Requests /\ Head(queue) = queue[1] /\ 1 \in Left
    BY <1>2, <2>1, HeadAndTail DEF Drains, Left, Typed, TypeOK
  <2>3. applied' = Append(applied, Entry(Head(queue), FALSE))
    BY <2>1 DEF Execute, ExecutePreview, ExecuteCommit, ExecuteUndo, Applies
  <2>4. FALSE \in BOOLEAN
    OBVIOUS
  <2> QED BY <2>1, <2>2, <2>3, <2>4
<1> QED BY <1>1, <1>2, Kinds DEF Quiet, Shuffles, Leaves, Forgets

LEMMA QueueBackedKept ==
  ASSUME Typed, ApprovedSoFar, [Next]_vars
  PROVE  \A i \in Left' : Backed(queue[i])'
<1>1. queue \in Seq(Requests)
  BY DEF Typed, TypeOK
<1>2. profile' = profile /\ tokens \subseteq tokens'
  BY Standing
<1>3. \A c : NeedsApproval(c)' <=> NeedsApproval(c)
  BY <1>2 DEF NeedsApproval, ApprovalRequired
<1>4. CASE Quiet \/ Forgets \/ Performs
  BY <1>2, <1>3, <1>4 DEF Quiet, Forgets, Performs, Left, ApprovedSoFar,
                          Backed
<1>5. CASE Shuffles
  BY <1>1, <1>2, <1>3, <1>5, Appended DEF Shuffles, Left, ApprovedSoFar,
                                          Backed
<1>6. CASE Leaves
  <2>1. Backed(CommitRequest)
    BY <1>6, LetThroughIsBacked DEF Leaves
  <2>2. \A i \in Left' : queue'[i] = CommitRequest
                           \/ (i \in Left /\ queue'[i] = queue[i])
    BY <1>1, <1>6, Appended DEF Leaves, Left
  <2> QED BY <1>2, <1>3, <2>1, <2>2 DEF ApprovedSoFar, Backed
<1>7. CASE Drains
  <2>1. \A i \in Left' : i + 1 \in Left /\ queue'[i] = queue[i + 1]
    BY <1>1, <1>7, HeadAndTail DEF Drains, Left
  <2> QED BY <1>2, <1>3, <2>1 DEF ApprovedSoFar, Backed
<1> QED BY <1>4, <1>5, <1>6, <1>7, Kinds

LEMMA AppliedAsApprovedKept ==
  ASSUME Typed, ApprovedSoFar, [Next]_vars
  PROVE  AppliedAsApproved'
<1>1. profile' = profile /\ tokens \subseteq tokens'
  BY Standing
<1>2. \A c : NeedsApproval(c)' <=> NeedsApproval(c)
  BY <1>1 DEF NeedsApproval, ApprovalRequired
<1>3. CASE UNCHANGED applied
  BY <1>1, <1>2, <1>3 DEF ApprovedSoFar, AppliedAsApproved
<1>4. CASE applied' # applied
  <2>1. PICK r \in Requests, answered \in BOOLEAN :
          /\ r.op # "preview" /\ Execute(r, answered)
          /\ applied' = Append(applied, Entry(r, answered))
          /\ \/ CommitAuthorized /\ r = CommitRequest
             \/ 1 \in Left /\ r = queue[1]
    BY <1>4, Applications
  <2>2. Backed(r)
    BY <2>1, LetThroughIsBacked DEF ApprovedSoFar
  <2>3. NeedsApproval(r.changeset.change) =>
          \E t \in tokens : /\ t.changeset = r.changeset
                            /\ t.preview_hash.changeset = r.changeset
                            /\ t.preview_hash.at = Now
                            /\ t.preview_hash.look = look
    BY <2>1, <2>2, AppliedBacked
  <2> DEFINE e == Entry(r, answered)
  <2>4. e.changeset = r.changeset /\ e.at = Now /\ e.look = look
    BY DEF Entry
  <2>5. applied' = Append(applied, e)
    BY <2>1
  <2> HIDE DEF e
  <2>6. \A i \in DOMAIN applied' :
          applied'[i] = e \/ (i \in DOMAIN applied /\ applied'[i] = applied[i])
    BY <2>5, Appended DEF Typed
  <2> QED
    BY <1>1, <1>2, <2>3, <2>4, <2>6 DEF ApprovedSoFar, AppliedAsApproved
<1> QED BY <1>3, <1>4

(* Whatever changed the document, answered or late, was approved for        *)
(* exactly that changeset, if the profile demands it, by someone who saw    *)
(* its preview made of the document it then changed.                        *)
THEOREM ChangesAreApproved == Spec => []AppliedAsApproved
<1>1. Init => ApprovedSoFar
  BY DEF Init, ApprovedSoFar, AppliedAsApproved, Left
<1>2. Typed /\ ApprovedSoFar /\ [Next]_vars => ApprovedSoFar'
  BY QueueBackedKept, AppliedAsApprovedKept DEF ApprovedSoFar
<1>3. ApprovedSoFar => AppliedAsApproved
  BY DEF ApprovedSoFar
<1> QED BY <1>1, <1>2, <1>3, InitTyped, NextTyped, PTL DEF Spec

-----------------------------------------------------------------------------
(* A changeset is applied once: after that its base is in the past.         *)

Past ==
  \A i \in DOMAIN applied :
    \/ applied[i].changeset.change.key = Generated
    \/ applied[i].changeset.change.risk = "ui"
    \/ Before(applied[i].changeset.base)

LEMMA PastKept ==
  ASSUME Typed, Past, AppliedOnce, [Next]_vars
  PROVE  Past' /\ AppliedOnce'
<1>1. /\ epoch \in Nat /\ geometry \in Nat
      /\ epoch' \in Nat /\ geometry' \in Nat
      /\ applied \in Seq(Entries) /\ applied' \in Seq(Entries)
  BY NextTyped DEF Typed, TypeOK
<1>2. \A id \in Ids : Before(id) => Before(id)'
  BY <1>1, Standing DEF Onward, Before, Ids
<1>3. \A i \in DOMAIN applied : applied[i].changeset.base \in Ids
  <2>1. \A i \in DOMAIN applied : applied[i] \in Entries
    BY <1>1
  <2> QED BY <2>1 DEF Entries, AllChangeSets, ChangeSets, Navigations
<1>4. CASE UNCHANGED applied
  BY <1>2, <1>3, <1>4 DEF Past, AppliedOnce, Before
<1>5. CASE applied' # applied
  <2>1. PICK r \in Requests, answered \in BOOLEAN :
          /\ r.op # "preview" /\ Execute(r, answered)
          /\ applied' = Append(applied, Entry(r, answered))
    BY <1>5, Applications
  <2> DEFINE e == Entry(r, answered)
             n == Len(applied) + 1
  <2>2. e.changeset = r.changeset
    BY DEF Entry
  <2>3. \/ r.changeset.change.key = Generated
        \/ /\ r.changeset.base = Now
           /\ r.changeset.change.risk # "ui" =>
                geometry' > geometry /\ epoch' = epoch
    <3>1. r.op = "undo" => r.changeset.change.key = Generated
      BY DEF Requests, Navigations, Navigation
    <3> QED BY <2>1, <3>1, Executing
  <2>4. applied' = Append(applied, e)
    BY <2>1
  <2> HIDE DEF e
  <2>5. /\ DOMAIN applied' = DOMAIN applied \cup {n} /\ n \notin DOMAIN applied
        /\ \A i \in DOMAIN applied : applied'[i] = applied[i]
        /\ applied'[n] = e
    BY <1>1, <2>4, Appended
  <2> HIDE DEF n
  <2>6. Past'
    <3>1. \/ e.changeset.change.key = Generated
          \/ e.changeset.change.risk = "ui"
          \/ Before(r.changeset.base)'
      BY <1>1, <2>2, <2>3 DEF Before, Now
    <3> QED BY <1>2, <1>3, <2>2, <2>5, <3>1 DEF Past, Before
  <2>7. AppliedOnce'
    <3>1. \A i \in DOMAIN applied : applied[i].changeset = e.changeset =>
            \/ e.changeset.change.key = Generated
            \/ e.changeset.change.risk = "ui"
      BY <1>1, <2>2, <2>3 DEF Past, Before, Now
    <3> QED BY <2>5, <3>1 DEF AppliedOnce
  <2> QED BY <2>6, <2>7
<1> QED BY <1>4, <1>5

(* A changeset that changes the model is applied at most once, with both    *)
(* processes restarting at will.                                            *)
THEOREM ChangesAreAppliedOnce == Spec => []AppliedOnce
<1>1. Init => Past /\ AppliedOnce
  BY DEF Init, Past, AppliedOnce
<1> QED BY <1>1, InitTyped, NextTyped, PastKept, PTL DEF Spec

-----------------------------------------------------------------------------
(* The audit trail. *)

Denied(change) == [status |-> "denied", change |-> change]

Committed ==
  [status |-> "committed", changeset |-> call.changeset,
   preview_hash |-> call.hash]

(* A denial, which leaves the bridge, the keys and the previews alone.      *)
Denies ==
  /\ \E change : audit' = Append(audit, Denied(change))
  /\ UNCHANGED <<used_idempotency, previews, bridgeVars, queue, life>>

LEMMA AuditSteps ==
  ASSUME Typed, [Next]_vars
  PROVE  \/ audit' = audit /\ life' = life
         \/ audit' = <<>>
         \/ Denies
         \/ At("settle") /\ audit' = Append(audit, Committed) /\ life' = life
<1>1. CASE ToolDenied
  BY <1>1 DEF ToolDenied, Deny, Denies, Denied
<1>2. CASE UiDenied \/ CommitDenied
  BY <1>2 DEF UiDenied, CommitDenied, Deny, Denies, Denied
<1>3. CASE Settle
  BY <1>3 DEF Settle, RecordCommit, Committed
<1>4. CASE SidecarRestarts
  BY <1>4 DEF SidecarRestarts
<1>5. CASE Late \/ UserEdits \/ UserLooks \/ BridgeRestarts \/ UNCHANGED vars
  BY <1>5 DEF Late, UserEdits, UserLooks, BridgeRestarts, vars, policyVars
<1>6. CASE UiTool \/ UndoTool \/ SettleFails \/ \E p \in previews : Approve(p)
  BY <1>6 DEF UiTool, UndoTool, SettleFails, Approve, policyVars
<1>7. CASE \E cs \in Offered :
             PreviewTool(cs) \/ \E p \in previews : ApplyTool(cs, p)
  BY <1>7 DEF PreviewTool, ApplyTool, policyVars
<1>8. CASE PreviewAnswered \/ UiPreviewAnswered \/ PreviewUnanswered
  BY <1>8 DEF PreviewAnswered, UiPreviewAnswered, PreviewUnanswered, policyVars
<1>9. CASE CommitAnswered \/ UndoAnswered \/ CommitUnanswered
  BY <1>9 DEF CommitAnswered, UndoAnswered, CommitUnanswered, CommitAuthorized
<1> QED BY <1>1, <1>2, <1>3, <1>4, <1>5, <1>6, <1>7, <1>8, <1>9 DEF Next

(* A tool that settles has been at it, or has just been answered.           *)
LEMMA SettlingSteps ==
  ASSUME Typed, [Next]_vars, At("settle")'
  PROVE  \/ UNCHANGED <<call, life>>
         \/ Performs /\ call' = Settling
<1>1. CASE CommitAnswered \/ UndoAnswered
  <2>1. Performs /\ call' \in {Settling, Idle}
    BY <1>1 DEF CommitAnswered, UndoAnswered, Answered, Performs
  <2> QED BY <2>1 DEF At, Idle
<1>2. CASE Late \/ UserEdits \/ UserLooks \/ BridgeRestarts \/ UNCHANGED vars
  BY <1>2 DEF Late, UserEdits, UserLooks, BridgeRestarts, vars
<1>3. CASE ToolDenied \/ \E p \in previews : Approve(p)
  BY <1>3 DEF ToolDenied, Approve
<1>4. CASE UiTool \/ UndoTool \/ UiDenied \/ CommitDenied
  BY <1>4 DEF UiTool, UndoTool, UiDenied, CommitDenied, At, Idle
<1>5. CASE Settle \/ SettleFails \/ SidecarRestarts \/ CommitUnanswered
  <2>1. call' = Idle
    BY <1>5 DEF Settle, SettleFails, SidecarRestarts, CommitUnanswered
  <2> QED BY <2>1 DEF At, Idle
<1>6. CASE PreviewAnswered \/ UiPreviewAnswered \/ PreviewUnanswered
  BY <1>6 DEF PreviewAnswered, UiPreviewAnswered, PreviewUnanswered, At, Idle
<1>7. CASE \E cs \in Offered :
             PreviewTool(cs) \/ \E p \in previews : ApplyTool(cs, p)
  BY <1>7 DEF PreviewTool, ApplyTool, At
<1> QED BY <1>1, <1>2, <1>3, <1>4, <1>5, <1>6, <1>7 DEF Next

(* The bridge has done, for this sidecar, what is about to be recorded.     *)
Done(changeset, hash) ==
  \E i \in DOMAIN applied : /\ applied[i].changeset = changeset
                            /\ applied[i].hash = hash
                            /\ applied[i].life = life

AuditSoFar ==
  /\ At("settle") => Done(call.changeset, call.hash)
  /\ AuditIsTrue

LEMMA AuditKept ==
  ASSUME Typed, AuditSoFar, [Next]_vars
  PROVE  AuditSoFar'
<1>1. /\ audit \in Seq(Events) /\ applied \in Seq(Entries)
      /\ queue \in Seq(Requests)
  BY DEF Typed, TypeOK
<1>2. \A i \in DOMAIN applied :
        i \in DOMAIN applied' /\ applied'[i] = applied[i]
  <2>1. CASE applied' # applied
    <3>1. PICK r \in Requests, answered \in BOOLEAN :
            applied' = Append(applied, Entry(r, answered))
      BY <2>1, Applications
    <3> DEFINE e == Entry(r, answered)
    <3>2. applied' = Append(applied, e)
      BY <3>1
    <3> HIDE DEF e
    <3> QED BY <1>1, <3>2, Appended
  <2> QED BY <2>1
<1>3. ASSUME NEW changeset, NEW hash, Done(changeset, hash), life' = life
      PROVE  \E i \in DOMAIN applied' : /\ applied'[i].changeset = changeset
                                        /\ applied'[i].hash = hash
                                        /\ applied'[i].life = life'
  BY <1>2, <1>3 DEF Done
<1>4. At("settle")' => Done(call.changeset, call.hash)'
  <2> SUFFICES ASSUME At("settle")' PROVE Done(call.changeset, call.hash)'
    OBVIOUS
  <2>1. CASE UNCHANGED <<call, life>>
    <3>1. At("settle") /\ Done(call.changeset, call.hash)
      BY <2>1 DEF At, AuditSoFar
    <3> QED BY <1>3, <2>1, <3>1 DEF Done
  <2>2. CASE Performs /\ call' = Settling
    <3> DEFINE e == Entry(CommitRequest, TRUE)
    <3>1. /\ e.changeset = call.changeset /\ e.hash = call.hash
          /\ e.life = life
      BY DEF Entry, CommitRequest
    <3>2. applied' = Append(applied, e)
      <4>1. CommitRequest.op # "preview"
        BY <2>2 DEF Performs, At, CommitRequest
      <4> QED BY <2>2, <4>1 DEF Performs, Execute, ExecutePreview,
                                ExecuteCommit, ExecuteUndo, Applies
    <3> HIDE DEF e
    <3>3. Len(applied) + 1 \in DOMAIN applied'
          /\ applied'[Len(applied) + 1] = e
      BY <1>1, <3>2, Appended
    <3>4. /\ call'.changeset = call.changeset /\ call'.hash = call.hash
          /\ life' = life
      BY <2>2 DEF Performs, At, Settling, Typed, Calls, Idle
    <3> QED BY <3>1, <3>3, <3>4 DEF Done
  <2> QED BY <2>1, <2>2, SettlingSteps
<1>5. AuditIsTrue'
  <2>1. CASE audit' = audit /\ life' = life
    BY <1>3, <2>1 DEF AuditSoFar, AuditIsTrue, Done
  <2>2. CASE audit' = <<>>
    BY <2>2 DEF AuditIsTrue
  <2>3. CASE Denies
    <3>1. PICK change : audit' = Append(audit, Denied(change))
      BY <2>3 DEF Denies
    <3>2. \A e \in DOMAIN audit' :
            \/ e \in DOMAIN audit /\ audit'[e] = audit[e]
            \/ audit'[e] = Denied(change)
      BY <1>1, <3>1, Appended
    <3> QED
      BY <1>3, <2>3, <3>2
         DEF Denies, Denied, AuditSoFar, AuditIsTrue, Done
  <2>4. CASE At("settle") /\ audit' = Append(audit, Committed) /\ life' = life
    <3>1. \A e \in DOMAIN audit' :
            \/ e \in DOMAIN audit /\ audit'[e] = audit[e]
            \/ audit'[e] = Committed
      BY <1>1, <2>4, Appended
    <3>2. Done(Committed.changeset, Committed.preview_hash)
      BY <2>4 DEF Committed, AuditSoFar
    <3>3. \A e \in DOMAIN audit' : audit'[e].status = "committed" =>
            Done(audit'[e].changeset, audit'[e].preview_hash)
      BY <3>1, <3>2 DEF AuditSoFar, AuditIsTrue, Done
    <3> QED BY <1>3, <2>4, <3>3 DEF AuditIsTrue
  <2> QED BY <2>1, <2>2, <2>3, <2>4, AuditSteps
<1> QED BY <1>4, <1>5 DEF AuditSoFar

(* Only what the bridge has done for this sidecar is recorded as committed. *)
THEOREM AuditIsTruthful == Spec => []AuditIsTrue
<1>1. Init => AuditSoFar
  BY DEF Init, PolicyInit, AuditSoFar, AuditIsTrue, At, Idle
<1>2. AuditSoFar => AuditIsTrue
  BY DEF AuditSoFar
<1> QED BY <1>1, <1>2, InitTyped, NextTyped, AuditKept, PTL DEF Spec

(* A denial uses up neither key nor preview, and does not reach the bridge. *)
THEOREM DenialsAreHarmless == Spec => DenialsUseNothingUp
<1>1. Typed /\ [Next]_vars =>
        [Len(audit') > Len(audit) /\ audit'[Len(audit')].status = "denied"
           => UNCHANGED <<used_idempotency, previews, bridgeVars, queue>>]_vars
  <2> SUFFICES ASSUME Typed, [Next]_vars,
                      Len(audit') > Len(audit),
                      audit'[Len(audit')].status = "denied"
               PROVE  UNCHANGED <<used_idempotency, previews, bridgeVars,
                                  queue>>
    OBVIOUS
  <2>1. audit \in Seq(Events)
    BY DEF Typed
  <2>2. audit' # audit /\ audit' # <<>>
    BY <2>1
  <2>3. audit' # Append(audit, Committed)
    BY <2>1 DEF Committed
  <2> QED BY <2>2, <2>3, AuditSteps DEF Denies
<1> QED BY <1>1, InitTyped, NextTyped, PTL DEF Spec, DenialsUseNothingUp

-----------------------------------------------------------------------------
(* The write path implements ApprovedEdits.  A step that applies something  *)
(* is an Apply; approvals and restarts of the sidecar leave the document    *)
(* alone; everything else at most edits it.                                 *)

Mapped(e) == [changeset |-> e.changeset, life |-> e.life]

Log == [i \in DOMAIN applied |-> Mapped(applied[i])]

Given == {Approval(t) : t \in tokens}

Demands ==
  {c \in Changes \cup {UiChange, Navigation} : NeedsApproval(c)}

Document == [at |-> Now, look |-> look]

LEMMA OneAtATime ==
  ASSUME Typed, [Next]_vars
  PROVE  \/ UNCHANGED <<tokens, life>>
         \/ UNCHANGED <<epoch, geometry, look, applied, life>>
         \/ /\ life' = life + 1
            /\ UNCHANGED <<epoch, geometry, look, applied, tokens>>
<1>1. CASE \E p \in previews : Approve(p)
  BY <1>1 DEF Approve, bridgeVars
<1>2. CASE SidecarRestarts
  BY <1>2 DEF SidecarRestarts, bridgeVars
<1>3. CASE Late \/ UserEdits \/ UserLooks \/ BridgeRestarts \/ UNCHANGED vars
  BY <1>3 DEF Late, UserEdits, UserLooks, BridgeRestarts, vars
<1>4. CASE ToolDenied \/ UiTool \/ UndoTool \/ UiDenied \/ CommitDenied
  BY <1>4 DEF ToolDenied, UiTool, UndoTool, UiDenied, CommitDenied
<1>5. CASE Settle \/ SettleFails \/ CommitUnanswered
  BY <1>5 DEF Settle, SettleFails, CommitUnanswered
<1>6. CASE PreviewAnswered \/ UiPreviewAnswered \/ PreviewUnanswered
  BY <1>6 DEF PreviewAnswered, UiPreviewAnswered, PreviewUnanswered
<1>7. CASE \E cs \in Offered :
             PreviewTool(cs) \/ \E p \in previews : ApplyTool(cs, p)
  BY <1>7 DEF PreviewTool, ApplyTool
<1>8. CASE CommitAnswered \/ UndoAnswered
  BY <1>8 DEF CommitAnswered, UndoAnswered
<1> QED BY <1>1, <1>2, <1>3, <1>4, <1>5, <1>6, <1>7, <1>8 DEF Next

LEMMA DemandsStand == ASSUME Typed, [Next]_vars PROVE Demands' = Demands
<1>1. profile' = profile
  BY Standing
<1>2. \A c : NeedsApproval(c)' <=> NeedsApproval(c)
  BY <1>1 DEF NeedsApproval, ApprovalRequired
<1> QED BY <1>2 DEF Demands

(* The log grows with what is applied. *)
LEMMA LogAppended ==
  ASSUME Typed, NEW e, applied' = Append(applied, e)
  PROVE  /\ Log' = Append(Log, Mapped(e))
         /\ Log' # <<>>
         /\ Log'[Len(Log')] = Mapped(e)
<1> DEFINE n == Len(applied)
<1>1. applied \in Seq(Entries) /\ n \in Nat /\ DOMAIN applied = 1 .. n
  BY DEF Typed
<1>2. Log \in Seq({Mapped(applied[i]) : i \in 1 .. n}) /\ Len(Log) = n
  BY <1>1 DEF Log
<1>3. /\ DOMAIN applied' = 1 .. n + 1 /\ applied'[n + 1] = e
      /\ \A i \in 1 .. n : applied'[i] = applied[i]
  BY <1>1, Appended
<1>4. Log' = [i \in 1 .. n + 1 |-> Mapped(applied'[i])]
  BY <1>3 DEF Log
<1>5. \A i \in 1 .. n : Log'[i] = Log[i]
  BY <1>1, <1>3, <1>4 DEF Log
<1>6. Log'[n + 1] = Mapped(e) /\ DOMAIN Log' = 1 .. n + 1
  BY <1>1, <1>3, <1>4
<1> DEFINE S == {Mapped(applied'[i]) : i \in 1 .. n + 1}
           longer == Append(Log, Mapped(e))
<1>7. Log \in Seq(S) /\ Mapped(e) \in S
  <2>1. \A i \in 1 .. n + 1 : Mapped(applied'[i]) \in S
    OBVIOUS
  <2> HIDE DEF S
  <2>2. \A i \in 1 .. n : Log'[i] = Mapped(applied'[i])
    BY <1>1, <1>4
  <2>3. \A i \in 1 .. n : Log[i] \in S
    <3> TAKE i \in 1 .. n
    <3>1. i \in 1 .. n + 1
      BY <1>1
    <3>2. Log[i] = Mapped(applied'[i])
      BY <2>2, <1>5
    <3> QED BY <2>1, <3>1, <3>2
  <2>4. Mapped(e) \in S
    BY <1>1, <1>3, <2>1
  <2>5. Log = [i \in 1 .. n |-> Log[i]]
    BY <1>1 DEF Log
  <2> QED BY <1>1, <2>3, <2>4, <2>5
<1>8. Log' \in Seq(S) /\ Len(Log') = n + 1
  <2> HIDE DEF n
  <2> QED BY <1>1, <1>4
<1> HIDE DEF S
<1>9. /\ longer \in Seq(S) /\ Len(longer) = n + 1
      /\ longer[n + 1] = Mapped(e) /\ \A i \in 1 .. n : longer[i] = Log[i]
  BY <1>2, <1>7, AppendProperties
<1>10. \A i \in 1 .. n + 1 : Log'[i] = longer[i]
  BY <1>1, <1>5, <1>6, <1>9
<1> HIDE DEF n, longer
<1>11. Log' = longer
  BY <1>8, <1>9, <1>10, SeqEqual
<1> QED BY <1>1, <1>6, <1>8, <1>11 DEF longer

(* What is applied obeys the abstract guards.                               *)
LEMMA AppliesAsPromised ==
  ASSUME Typed, KeysOnce, ApprovedSoFar, NEW r \in Requests,
         NEW answered \in BOOLEAN, r.op # "preview", Execute(r, answered),
         \/ /\ At("commit") \/ At("undo")
            /\ CommitAuthorized /\ r = CommitRequest
         \/ 1 \in Left /\ r = queue[1]
  PROVE  /\ r.changeset.change # Navigation => r.changeset.base = Now
         /\ r.changeset.change \in Demands =>
              [changeset |-> r.changeset, document |-> Document] \in Given
         /\ r.life <= life
         /\ \A i \in DOMAIN applied : ~ Clash(applied[i], r)
         /\ \/ epoch' = epoch /\ geometry' > geometry
            \/ /\ r.changeset.change.risk = "ui"
               /\ epoch' = epoch /\ geometry' >= geometry
<1>1. life \in Nat /\ geometry \in Nat
  BY DEF Typed, TypeOK
<1>2. Backed(r)
  BY LetThroughIsBacked DEF ApprovedSoFar
<1>3. r.changeset.change \in Demands =>
        [changeset |-> r.changeset, document |-> Document] \in Given
  <2> SUFFICES ASSUME NeedsApproval(r.changeset.change)
               PROVE  \E t \in tokens : Approval(t) =
                        [changeset |-> r.changeset, document |-> Document]
    BY DEF Demands, Given
  <2>1. PICK t \in tokens : /\ t.changeset = r.changeset
                            /\ t.preview_hash.at = Now
                            /\ t.preview_hash.look = look
    BY <1>2, AppliedBacked
  <2> QED BY <2>1 DEF Approval, Document
<1>4. r.life <= life /\ \A i \in DOMAIN applied : ~ Clash(applied[i], r)
  <2>1. CASE CommitAuthorized /\ r = CommitRequest
               /\ (At("commit") \/ At("undo"))
    BY <1>1, <2>1, FirstOfItsKey
  <2>2. CASE 1 \in Left /\ r = queue[1]
    BY <2>2 DEF KeysOnce, Spent, Clash
  <2> QED BY <2>1, <2>2
<1>5. CASE r.op = "undo"
  <2>1. r.changeset.change = Navigation
    BY <1>5 DEF Requests, Navigations
  <2>2. epoch' = epoch /\ geometry' = geometry + 1
    BY <1>5 DEF Execute, ExecutePreview, ExecuteCommit, ExecuteUndo
  <2> QED BY <1>1, <1>3, <1>4, <2>1, <2>2
<1>6. CASE r.op = "commit"
  <2>1. /\ r.changeset.base = Now /\ epoch' = epoch /\ geometry' >= geometry
        /\ r.changeset.change.risk # "ui" => geometry' > geometry
    BY <1>6, Executing
  <2> QED BY <1>3, <1>4, <2>1
<1> QED BY <1>5, <1>6 DEF Requests

LEMMA PromiseKept ==
  ASSUME Typed, KeysOnce, ApprovedSoFar, [Next]_vars
  PROVE  [Promise!Next]_(Promise!vars)
<1>1. /\ epoch \in Nat /\ geometry \in Nat /\ epoch' \in Nat /\ geometry' \in Nat
  BY NextTyped DEF Typed, TypeOK
<1>2. Demands' = Demands /\ tokens \subseteq tokens' /\ Onward
  BY DemandsStand, Standing
<1>3. Given \subseteq Given'
  BY <1>2 DEF Given, Approval
<1>4. CASE applied' # applied
  <2>1. PICK r \in Requests, answered \in BOOLEAN :
          /\ r.op # "preview" /\ Execute(r, answered)
          /\ applied' = Append(applied, Entry(r, answered))
          /\ \/ /\ At("commit") \/ At("undo")
                /\ CommitAuthorized /\ r = CommitRequest
             \/ 1 \in Left /\ r = queue[1]
    BY <1>4, Applications
  <2>2. UNCHANGED <<tokens, life>>
    BY <1>4, OneAtATime
  <2>3. /\ r.changeset.change # Navigation => r.changeset.base = Now
        /\ r.changeset.change \in Demands =>
             [changeset |-> r.changeset, document |-> Document] \in Given
        /\ r.life <= life
        /\ \A i \in DOMAIN applied : ~ Clash(applied[i], r)
        /\ \/ epoch' = epoch /\ geometry' > geometry
           \/ /\ r.changeset.change.risk = "ui"
              /\ epoch' = epoch /\ geometry' >= geometry
    BY <2>1, AppliesAsPromised
  <2> DEFINE e == Entry(r, answered)
             entry == [changeset |-> r.changeset, life |-> r.life]
  <2>4. Mapped(e) = entry
    BY EntryOfRequest DEF Mapped
  <2>5. applied' = Append(applied, e)
    BY <2>1
  <2> HIDE DEF e
  <2>6. /\ Log' = Append(Log, entry) /\ Log' # <<>>
        /\ Log'[Len(Log')].changeset = r.changeset
        /\ Log'[Len(Log')].life = r.life
    BY <2>4, <2>5, LogAppended
  <2>7. \A i \in DOMAIN Log : ~ Promise!SameKey(Log[i], entry)
    BY <2>3 DEF Log, Mapped, Clash, Promise!SameKey
  <2>8. IF r.changeset.change.risk = "ui"
          THEN Promise!GoesOn
          ELSE Promise!Later(Now', Now)
    BY <1>1, <2>3 DEF Now, Promise!GoesOn, Promise!Later
  <2>9. Given' = Given /\ life' = life
    BY <2>2 DEF Given, Approval
  <2>10. Promise!Apply(r.changeset, r.life)
    BY <1>2, <2>3, <2>6, <2>7, <2>8, <2>9
       DEF Promise!Apply, Log, Mapped, Given, Demands, Document
  <2>11. Promise!Apply(Log'[Len(Log')].changeset, Log'[Len(Log')].life)
    BY <2>6, <2>10 DEF Promise!Apply
  <2>12. Log' # <<>>
    BY <2>6
  <2>13. Promise!Next
    BY <2>11, <2>12 DEF Promise!Next, Log, Mapped
  <2> QED BY <2>13
<1>5. CASE applied' = applied
  <2>1. Log' = Log
    BY <1>5 DEF Log
  <2>2. CASE UNCHANGED <<tokens, life>>
    <3>1. Given' = Given
      BY <2>2 DEF Given, Approval
    <3>2. Promise!GoesOn
      BY <1>1, <1>2 DEF Onward, Now, Promise!GoesOn, Promise!Later
    <3> QED BY <1>2, <2>1, <2>2, <3>1, <3>2
            DEF Promise!Next, Promise!Edit, Log, Mapped, Given, Demands
  <2>3. CASE UNCHANGED <<epoch, geometry, look, applied, life>>
    <3>1. Document' = Document
      BY <2>3 DEF Document, Now
    <3> QED BY <1>2, <1>3, <2>1, <2>3, <3>1
            DEF Promise!Next, Promise!Approve, Log, Mapped, Given, Demands,
                Document
  <2>4. CASE /\ life' = life + 1
             /\ UNCHANGED <<epoch, geometry, look, applied, tokens>>
    <3>1. Document' = Document /\ Given' = Given
      BY <2>4 DEF Document, Now, Given, Approval
    <3> QED BY <1>2, <2>1, <2>4, <3>1
            DEF Promise!Next, Promise!Forget, Log, Mapped, Given, Demands,
                Document
  <2> QED BY <2>2, <2>3, <2>4, OneAtATime
<1> QED BY <1>4, <1>5

LEMMA PromiseBegins == Init => Promise!Init
<1> SUFFICES ASSUME Init PROVE Promise!Init
  OBVIOUS
<1>1. applied = <<>> /\ tokens = {} /\ life = 0
  BY DEF Init
<1>2. [i \in DOMAIN applied |-> [changeset |-> applied[i].changeset,
                                 life |-> applied[i].life]] = <<>>
  BY <1>1
<1> QED BY <1>1, <1>2 DEF Promise!Init

(* For every profile, change and scope the write path is the one of         *)
(* ApprovedEdits, with failures, late requests, retries and restarts of     *)
(* both processes.                                                          *)
THEOREM Refinement == Spec => ImplementsApprovedEdits
<1>1. Init => KeysOnce /\ ApprovedSoFar
  BY DEF Init, KeysOnce, ApprovedSoFar, AppliedAsApproved, Left
<1>2. Typed /\ ApprovedSoFar /\ [Next]_vars => ApprovedSoFar'
  BY QueueBackedKept, AppliedAsApprovedKept DEF ApprovedSoFar
<1> QED
  BY <1>1, <1>2, InitTyped, NextTyped, KeysOnceKept, PromiseBegins,
     PromiseKept, PTL DEF Spec, ImplementsApprovedEdits, Promise!Spec
=============================================================================
