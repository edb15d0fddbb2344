# A verification model of Topomind

Topomind lets an MCP client read and edit a CAD document that is open in
FreeCAD.  A Rust *bridge* runs inside FreeCAD's process and owns the document; a
Rust *sidecar* speaks MCP to the client, keeps an immutable, revisioned copy of
the document, and decides what may be written.  This directory models the part
of that which is hard to test (revisions, reviews, undo, threads, rollback, files
shared by processes, paging through a document that changes) in TLA+, checks it
with TLC and proves most of its safety properties with TLAPS.

Paths below are relative to the repository: `sidecar/crates/<crate>/src/lib.rs`
is written `<crate>`, `freecad-extension/src/<file>.rs` is written `<file>.rs`.

## 1. Inventory

```
 MCP client --stdio--> mcp-adapter --> policy            (sidecar process)
                          |        \-> artifact-store --> files
                          v
                    session-manager --> revision-store, context-compiler,
                          |             query-engine, geometry-analysis
                          v
                      ipc-client
                          |  one request at a time, Unix socket or TCP
 - - - - - - - - - - - - -|- - - - - - - - - - - - - - - - - - - - - - - - -
                          v                              (FreeCAD process)
        worker thread (server_loop) --queue--> main thread (handle)
                                                  |  observers, transactions
                                                  v
                                         FreeCAD document  <-- the user
```

| Component | State | Operations | What makes it correct |
|---|---|---|---|
| `revision-store` | current graph, history (id -> record), undo and redo stacks | preview, commit, undo, redo, observe, trim_history | a revision names one graph; a commit publishes what was reviewed; undo and redo lose nothing; what is current can be looked up |
| `session-manager` | per session: a store, and an IPC client if live | register, refresh, preview, commit, undo_redo | a refreshed store shows the live document |
| bridge threads (`runtime.rs`) | queue, stop flag, worker handle; per connection an `authenticated` flag | server_loop, serve_connection, enqueue, process_pending, stop | answers match requests; only paired clients act; at most once and in order; nobody waits for ever; `bridge_busy` is not a promise |
| bridge handlers (`runtime.rs`, `executor.rs`, `extractor.rs`) | revision counters, coalesced events, preview records, write block; the document | snapshot, preview, commit, undo, redo, observers' slots | counters tell different documents apart; previews leave nothing behind; commits start from what was reviewed; a failed rollback stops writes |
| bridge lifecycle (`runtime.rs`: start, stop, Rendezvous) | global slot, timer, observers, rendezvous record, secret and socket on disk | start_bridge, stop_bridge, publish, close | at most one bridge; files exist exactly while it serves; partial starts are cleaned up |
| discovery (`topomind/src/main.rs`) | none | discover_sessions | finds every bridge that is up, whatever others do |
| `policy` | used idempotency keys, audit trail | authorize_*, issue_approval, record | a key commits once; an approval covers one changeset, preview and base; decisions are audited |
| `mcp-adapter` | previews by session, document and key | the `cad.*` tools | commits only what it previewed and was allowed; every change is audited |
| `artifact-store` | data and manifest files | put, read, manifest, remove_expired | what was exported can be read until it expires; quota; no half-written artifact is visible |
| `query-engine` | none (continuation tokens carry an offset) | execute, explain_dependencies | pages of one query add up to its result; searches follow links as far as asked, and no farther |
| `context-compiler` | none | compile_snapshot, assemble, inspect_entity | a context keeps the most relevant and says what it leaves out |
| `geometry-analysis`, `ccir-core`, `bridge-dto` | none | measure, hash, frame | pure functions |

**What is hard.**  Three kinds of threads meet in one queue, and every wait has a
timeout after which both sides go on.  The user edits the document between any
two requests; observers report edits late, coalesced for 100 ms, and not all of
them (the camera is never reported).  A preview really edits the document and
rolls back, restoring counters that other code advanced meanwhile; FreeCAD may
fail at any step, and its rollback may fail too.  The sidecar's store must
follow a document that changes without a new revision.  Revision ids are
strings used as ordered keys.  Records, secrets, sockets and artifacts are files
that several processes write, read and remove without a lock, and any of them may
die between two operations.  Continuation tokens outlive the result they point
into.  `PROJECT.json` lists each of these hazards at the
line where it bites, with the properties that cover it.

## 2. Modules

| Module | Models | Checked through | Proofs |
|---|---|---|---|
| `RevisionStore` | `revision-store`: state, one operator per method | the two sessions | |
| `EditTimeline` | abstract: a sequence of contents and a cursor | `ImplementsTimeline` | |
| `FixtureSession` | `session-manager` on a fixture: callers holding reviews | `MCFixtureSession` | `FixtureSessionProofs` |
| `LiveSession` | `session-manager::refresh` against a live document | `MCLiveSession` | `LiveSessionProofs` |
| `BridgeQueue` | clients, worker thread, queue, timer, stop | `MCBridgeQueue` | `BridgeQueueProofs` |
| `BridgeWrites` | the handlers on FreeCAD's main thread, and the user | `MCBridgeWrites` | `BridgeWritesProofs` |
| `Policy` | `policy`: profiles, approvals, keys, audit trail | `MCSidecar` | `SidecarProofs` |
| `Sidecar` | `mcp-adapter` and live `session-manager`, composed with `Policy`, an approver, and the bridge as they see it | `MCSidecar` | `SidecarProofs` |
| `ApprovedEdits` | abstract: a document, approvals, and a log of what was applied | `ImplementsApprovedEdits` | `SidecarProofs` |
| `Rendezvous` | start, stop, crash and worker of bridges; the rendezvous directory; `discover_sessions` of several sidecars | `MCRendezvous` | `RendezvousProofs` |
| `ArtifactStore` | `artifact-store`: put and sweep of several processes, file by file | `MCArtifactStore` | `ArtifactStoreProofs` |
| `QueryEngine` | `query-engine`: pure operators | `MCReading` | |
| `ContextCompiler` | `context-compiler`: ranking, budget, neighbourhood; pure operators | `MCReading` | |
| `Reading` | an agent that pages through a changing document, composed of the two above | `MCReading` | `ReadingProofs` |

### RevisionStore

A graph is a record of its revision, the revision its entity references carry,
and the values of five *aspects* (`shape`, `label`, `selection`, `view`,
`visibility`), one per way an operation moves the counters: `shape` stands for
every model operation, which moves `geometry`; a label moves `geometry` and
`metadata`; a visibility change moves nothing (`apply_changeset`).  A changeset
is what it writes, what its preconditions expect, whether it names an entity by
reference, and how it names its base.  The epoch is constant during the life of
a store and is left out.  Hashes are injective: a fingerprint is the value it
hashes.  Ids are modelled as the strings they are, digit by digit, where the code
depends on it: `trim_history` evicts the first key of a `BTreeMap`, and
`IdLess` is the order of that map.

`issued`, the set of graphs ever published, is a history variable.

### FixtureSession

The caller (the adapter) may hold any number of previews, made from any graph it
was ever shown, and commits them in any order.  Actions: `PreviewChange`,
`CommitChange`, `UndoChange`, `RedoChange` (`SessionManager::preview`, `commit`,
`undo_redo` on `SessionBackend::Fixture`).

### LiveSession

The live document changes with a counter (`LiveChange`) or silently
(`LiveSilent`: the camera, and the time stamp that every snapshot with a view
carries); `Refresh` compares fingerprints and observes.  `unseen` is a history
variable.  The initial state is the one after the first refresh of a session.

The bridge counts on independently of the ids a store makes up, so one id may name
two graphs of a store.  `CollisionsAreMadeUp` says what is left: of two such
graphs at least one carries references of another revision than its own, and a
client that names entities by reference cannot mistake one for the other.

### BridgeQueue

One action per atomic step of a thread.  `wire` and `inbox` are the two
directions of a connection.  The worker's program counter (`worker`) is at
`check` (the stop flag), `accept`, `read`, `wait` (inside `recv_timeout`) or
`exited`.  The channel of a request is identified by the request: `result` is
what the receiver of the awaited request holds, and `Send` drops what nobody
waits for.  `Timeout` may fire whenever no result is there.  `Stop` runs on the
main thread, between two timer calls, and `Joined` is the return of
`worker.join()`.  Requests are abstracted to five kinds that `handle` treats
differently.  `executed`, `paired` and `answered` are history variables.

### BridgeWrites

The document is three aspects: the `model` (covered by FreeCAD's transactions),
the `selection` (not covered, but reported by an observer) and the `camera`
(neither).  A handler runs to its end on the main thread with the observers
called inside it, so it is one action, with its error paths as disjuncts:
a preview succeeds, fails its rollback verification, or fails earlier; a commit
succeeds, or fails after some operations that no transaction undoes.  `Bump`,
`Emit`, `AfterTransaction` and `Synced` are the event coalescer and its flushes.
`Populated` says whether the document has an entity: only then do references put
the revision into the fingerprint.  FreeCAD is external: `RolledBack` lets an
abort leave anything in the model, `UndoRedo` lets undo bring back any other
model.  `served`, `told` and `fresh` are history variables.

### Policy and Sidecar

`Sidecar` EXTENDS `Policy` and is the whole path of a write: client, adapter,
policy, session manager, bridge.  The sidecar is one thread that runs one tool at
a time, but a tool makes several bridge calls, and `call` is where it is:
`preview`, `commit` or `undo` is about to be sent, `settle` is between the
bridge's answer to a commit and the end of the refresh that follows.  In between
the user edits, requests that were given up on take effect, and either process
may restart.

| Action | Code |
|---|---|
| `PreviewTool`, `PreviewAnswered` | `preview_change` up to and after `bridge.preview` |
| `ApplyTool`, `CommitAnswered`, `Settle`, `SettleFails` | `apply_change`: checks and refresh; `authorize_commit` and `bridge.commit`; refresh, removal of the preview and audit record |
| `UiTool`, `UiPreviewAnswered`, `UiDenied` | `ui_change`, whose commit then is as above, without the record |
| `UndoTool`, `UndoAnswered` | `undo_redo` |
| `ToolDenied`, `CommitDenied` | `record_denial` after a refusal by the policy |
| `PreviewUnanswered`, `CommitUnanswered` | a bridge call that fails, is lost, or is answered `bridge_busy` |
| `Late` | `process_pending` drains a request nobody waits for |
| `Approve` | `issue_approval`, called by whoever holds the policy's secret |
| `SidecarRestarts`, `BridgeRestarts` | a new process and, for the sidecar, `discover_sessions` |

The bridge in it is the one `BridgeQueue` and `BridgeWrites` show: requests are
executed in order, possibly after they were answered `bridge_busy`
(`BusyMeansNotExecuted` fails), revisions tell different models apart
(`ServedOnce`), a commit needs the record of its preview and the fingerprint it
was made of (`CommitMakesReviewed`).  So one geometry counter stands for the
model, and `look` for what fingerprints cover and no geometry counter counts.
`queue` holds only requests nobody waits for: while it is not empty no call is
answered (`Reachable`), because the queue is drained in order.

Assumed: hashes are injective and approval tokens cannot be forged; keys made by
`ChangeSet::new` are all different, so they are not kept in `used_idempotency`
and are one value, `Generated`; the secret of the policy outlives the sidecar,
so tokens do too.  A token may have expired whenever it is used, which can only
deny more (`CommitDenied`).  A client may propose any changeset with any base it
was ever shown, or reuse a key for something else; `Shown` includes the revision
a store may have made up.  `tokens`, `applied` and `life` are what the properties
relate; `applied` and `life` are history variables.

`ApprovedEdits` says what all of this comes to for a user, an approver and a
client: a document whose revision only goes on, approvals, and a log.  The
refinement mapping takes `applied` for the log, `tokens` for the approvals and
the bridge's revision and look for the document; previews, calls, queues and
keys are hidden.  Undo and redo are the exception of its `Apply`: the bridge
compares no base for them.

### Rendezvous

| Action | Code |
|---|---|
| `StartBridge`, `StartFails` | `start_bridge`, `BridgeState::start`: observers, timer, worker, in this order |
| `StopBridge`, `Stopped` | `stop_bridge`, `BridgeState::stop` up to `worker.join()`, and after it |
| `Crash` | FreeCAD dies: threads and connections go, files stay |
| `Bind`, `BindFails`, `Publish`, `PublishFails` | `bind_listener`, `Rendezvous::publish` |
| `StopSeen`, `Accept`, `AcceptFails`, `ClientGone`, `Unlink` | the loop of `server_loop`, the end of `serve_connection`, `Rendezvous::close` file by file |
| `List`, `Open`, `ReadSecret`, `Connect`, `ConnectFails`, `Finish` | `discover_sessions` |
| `Choose`, `Exit` | `--bridge-socket` given by a user who saw the record; the MCP host ends the sidecar |
| `Paired`, `Refused`, `Busy`, `HungUp` | the four ways `authenticate` comes back |

A bridge is a `BridgeState`; its session names its files, so two bridges never
share one.  An endpoint is a Unix socket of the bridge's own or a loopback port,
which another bridge may get once nobody listens there: a stale record then leads
to a bridge with another secret.  What travels on a connection after its
authentication is `BridgeQueue`'s part: there the connection is open from the
start and the thread ends in one step, here it is the files and the directory
that are looked at.  A main thread answers an authentication whenever it polls
(`Polled`) or not at all (`Busy`).  `owed` is a history variable.

### ArtifactStore

`put` and `remove_expired`, one action per file operation that another process
can come before: look for the data file, measure the directory, create the
temporary file, rename it, and the same for the manifest; list the manifests,
look at each, remove data and manifest.  `CutOff` is a crash or an I/O error: the
call returns and its temporary file stays.  A later put of the same process and
digest meets that file, because `create_new` refuses a name that is taken, and
fails; nothing ever removes it.  A digest stands for its bytes; a day passing is
`Expire`.  `remove_expired` is public but nothing in the program calls it; it is
modelled as what it is written for, a sweep by one of the processes.
`CurrentBytes` counts the bytes of the data files as the elements of a set, which
is what proofs can count.

### QueryEngine, ContextCompiler and Reading

The two libraries are pure and are operators over a graph: entities, links
between references (some to entities the graph has not), labels, and a revision
of two parts, so that an id may name it in full or by geometry alone.
`QueryEngine` has scope, traversal, cost, order, limit and the page of a token;
the predicates of a query are the set of labels they accept.  `ContextCompiler`
has the ranking of `assemble`, the entity limit, trimming to a budget of bytes
(`Fixed` and `Summary` are sizes), omissions, and the search of `inspect_entity`.
Loops over queues are recursive functions of the number of rounds, and the
properties compare them with definitions that have no queue: walks.  `Result` and
`Ranked` are *the* sequence of a set in an order: the comparisons of the code end
with the reference, so there is only one.

`Reading` puts them behind the adapter: `Ask` and `Continue` are calls of
`cad.query_entities`, between which the document changes (`Edit`, `Relabel`,
`Select`).  The sidecar keeps nothing: a token is an offset into a result that is
made again.  `outcome = "panic"` is the slice `execute` takes behind the end of
it, which ends the process.

Operators whose comment begins with "Mutant of" are deliberately wrong versions
of the definition that follows them.  Each property is run once with one of them
put in the place of the original and must then fail; this shows that the
property depends on what the code does.  `PROJECT.json` pairs them.

## 3. Runs

| Run | Instance | Shows |
|---|---|---|
| `fixture_session` | 4 changes (shape; label and selection, by reference and with a precondition; view; visibility), geometry 8..11, 2 history records, 3 undo entries, 2 reviews | `TypeOK`, `RevisionNamesOneModel`, `NewestRetained`, `CommitPublishesReviewed`, `ImplementsTimeline` |
| `fixture_retention` | default retention of 50, geometry 50..101 | fails: `CurrentRetained` |
| `live_session` | counters up to 2, 3 observed graphs | `ShowsLive`, `CollisionsAreMadeUp` |
| `bridge_queue` | 2 connections, one of 2 requests, one of 1, of every kind | `TypeOK`, `ResponsesMatch`, `OnlyPairedAct`, `ExecutedInOrder`; `EveryWaitEnds`, `StopReturns` |
| `bridge_queue_busy` | 1 connection of 2 requests | fails: `BusyMeansNotExecuted` |
| `bridge_writes` | a change of model and camera, geometry-only bases, empty document, geometry up to 5, 2 served snapshots, 2 previews told | `TypeOK`, `NoChangeUnnoticed`, `ServedOnce`, `FreshPreviewsCommit`, `CommitMakesReviewed`, `PreviewLeavesNoTrace` |
| `bridge_rollback` | a change of the model | fails: `RollbackFailureBlocks` |
| `sidecar` | two changes under one key, one within the workspace's scope; 1 late request, 2 applications, 1 restart of the sidecar; `never_write` and `workspace_policy` with 2 looks, 2 tokens and a restart of the bridge, `developer` with geometry up to 2 | `TypeOK`, `AppliedOnce`, `AppliedAsApproved`, `KeyCommitsOnce`, `AuditIsTrue`, `DenialsUseNothingUp`, `ImplementsApprovedEdits` |
| `sidecar_navigation` | profile `developer` | fails: `NavigationAudited` |
| `rendezvous` | 2 FreeCADs, 2 bridges, one port, one sidecar that discovers and one given a bridge; one bridge may fail anywhere, one FreeCAD may crash | `TypeOK`, `RecordMeansSecret`, `StopCleans`, `ReadyIsServed`, `EveryServingIsFound`, `RegisteredAreGenuine`; `DiscoveryEnds` |
| `artifacts` | 2 processes, one of which sweeps; 3 graphs of 1, 2 and 2 bytes, quota 2; 1 call cut off | `TypeOK`, `QuotaKept`, `ExportedIsReadable` |
| `reading` | 128 graphs of 3 entities; 4 queries; 1 edit and 1 relabelling or selection meanwhile; 48 contexts, 24 searches per graph | `PagesAreTheResult`, `LinksAreFollowed`, `ContextIsHonest`; `PagingEnds` |

**Bounds.**  Every bound is a constant, named `Max...` or said to be a bound where
it is declared, and appears only in guards.
In `fixture_session` the geometry counter crosses from one digit to two, the only
place where string order and publication order part, and two history records are
fewer than the revisions published, so that eviction happens.  Three undo
entries and two reviews allow commit-undo-commit-redo patterns with a review
outstanding across them.  In `live_session`, two values per counter are enough
for a made-up id to meet a real one.  In `bridge_queue`, two requests of one
connection are the least for a late result to meet a later request, and a second
connection for a proof to leak from one to the next or to wait its turn.  In
`bridge_writes` a
commit moves the geometry counter by four or five, so a bound of five allows a
user's edit before or after a commit, and a preview that keeps its counters (the
fault `FreshPreviewsCommit` is about).  The selection is left to the user there;
changesets that write it are covered by the theorems.  `MaxServed` = 2 is what
relating two answers needs.  In `sidecar`, two applications are what applying
twice needs, two changes under one key are a retry that changes its mind, one
late request is a commit that was given up on, and one restart of a process is
forgetting once.  Where approvals matter, revision 1 is enough: the bridge's
restart brings revision 0 back.  The developer profile needs no approval; its
bridge keeps running, since a restarted one accepts nothing that is old, and goes
to revision 2, the least for two commits.  Several restarts, changes and late
requests are covered by the proofs.  In `rendezvous` the process that may start
both bridges is the one that may crash, so a port and a slot can change hands in
every order; two sidecars are what keeping each other busy needs.  That failures
are confined to one bridge and one process leaves a witness that
`EveryServingIsFound` can be about.  In `artifacts` every graph fits and no two of
the large ones do, so the race of two measured writers happens; one cut-off call
leaves one temporary file for a later put to meet, at each of the steps.  In
`reading`, the seven links among three entities have a cycle, a self-loop, a
missing target, two relations and a shortcut, and every subset of them is a
graph; three entities are three pages of one, and the limit 0 is clamped.

**Deadlock** is checked in `artifacts`, where processes go on for ever.  The other
models stop when their bounds are reached, and a stopped bridge is meant to
stop; that nothing waits for ever is stated as liveness instead.

**Fairness.**  In `BridgeQueue` the worker is an operating-system thread that never
waits without a timeout except in `read`, so its enabled steps are weakly fair;
`join` returns; clients read what they are sent.  Nothing is assumed of FreeCAD's
main thread, whose timer may not run for as long as FreeCAD computes, nor of
clients' sending or hanging up.  `StopReturns` therefore has the premise that
clients eventually go away: while one keeps its connection open and silent,
`stop` hangs FreeCAD's main thread in `worker.join()`, since the worker is blocked
in `read_frame` and looks at the flag only between connections.  Likewise the
second half of `EveryWaitEnds` holds only if whoever is being served lets go.
In `Rendezvous` workers and sidecars are threads that run, in the same way; start,
stop, crashes and the exit of a sidecar need not happen.  `DiscoveryEnds` again
has the premise that the connection a sidecar waits behind is closed: `IpcClient`
reads without a timeout, and the ten seconds of the bridge begin only when its
thread has taken the connection.  In `Reading` the agent goes on asking for the
next page while there is one; the document need not change, nor stop changing.

## 4. Disagreements between the code and its documents

Each has a run whose counterexample shows it; `PROJECT.json` quotes both sides.

* `trim_history` evicts by string order: at g99 -> g100 the revision just
  published is dropped at once (`CurrentRetained`).  As long as no counter gains
  a digit, the newest revisions are kept (`NewestRetained`).
* A request answered `bridge_busy` may be executed afterwards
  (`BusyMeansNotExecuted`).
* A preview whose operation fails skips the verification of its rollback
  (`RollbackFailureBlocks`).
* The bridge's answer to undo and redo does not decode in the sidecar: the
  document is changed, the tool reports an error, and there is no audit record
  (`NavigationAudited`).

Others are visible in the definitions and have no run of their own:

* A changeset that only changes visibility moves no counter and so publishes
  another graph under the revision of its base (`Advance`;
  `RevisionNamesOneModel` therefore leaves visibility out).
* `observe` makes up geometry revisions that the bridge later issues for other
  models, against docs/architecture.md:17-18 ("Immutable `Graph` values are keyed by
  a composite revision"); `CollisionsAreMadeUp` is what holds.  A store in that state also
  shows a revision that the bridge refuses as a base.
* Undo and redo do not look at the write block (`UndoRedo`).
* Approvals for undo and redo cannot be given: they are bound to the hash of a
  changeset that is made in the call (`UndoTool`), so a profile that demands one
  denies them always.  `cad.set_selection` and `cad.set_view` leave no audit
  record (`Settle`).
* A record that vanishes between listing and reading ends the whole discovery
  (`Open`), so a bridge that stops in that moment hides all others;
  `EveryServingIsFound` is about sidecars that come up.
* A bridge that cannot bind or publish ends its thread without a word
  (`BindFails`, `PublishFails`); it looks started, and only its missing record
  tells.
* A query that names its revision by geometry alone is accepted with a token made
  under another full revision; if its result has shrunk below the offset,
  `execute` slices behind the end and panics, and the sidecar ends
  (`PagesAreTheResult` has full ids as its premise).
* Two sidecars that measure at the same time exceed the quota together, against
  docs/threat-model.md:24; `QuotaKept` says by how much.
* An analytical context cut by `max_entities` names no omission, against
  docs/architecture.md:29-30 (`Omissions`; the last disjunct of `ContextIsHonest`).  When
  no entity is left to drop, a context may still exceed its bytes (`Trim`).

## 5. Proofs

All theorems hold for every value of the constants that satisfies the modules'
named assumptions (`StoreAssumption`, `FixtureAssumption`, `LiveAssumption`,
`QueueAssumption`, `WritesAssumption`, `PolicyAssumption`,
`SidecarAssumption`, `RendezvousAssumption`, `ArtifactAssumption`,
`ReadingAssumption`), which type them, keep them apart and say what is finite:
sidecars and graphs to export, of which there is at least one, and the entities
of a graph.

The induction theorems of the library take an operator as a parameter, which the
provers cannot instantiate.  Where a proof needs induction over data, it takes a
*least* counterexample instead, from a well-founded order on sets
(`WFMin`, `LeastExists`), or a set of numbers in the place of the predicate
(`AllNumbers`); so the recursive `Digits`, the greatest of some numbers and the
searches along links are within reach.

* **FixtureSessionProofs.**  `TypeCorrect`, `RevisionIdentity`
  (`RevisionNamesOneModel`), `ReviewedIsPublished` (`CommitPublishesReviewed`),
  `NewestIsRetained` (`NewestRetained`) and
  `Refinement` (`ImplementsTimeline`).  `RevisionNamesOneModel` is not inductive:
  the invariant adds that no published revision is ahead of the current one in
  any counter, so that a step which moves a counter makes a revision that is
  new, and that current and stacked graphs are among the published ones.
  `ReviewedIsPublished` needs that every outstanding review's hash was made from its
  own graph, and the injectivity of hashes.  `NewestIsRetained` has two parts.
  About numbers: `Digits` satisfies its own equation (`DigitsUnfold`), a
  longer one is the greater number (`WidthsGrow`), and among those of one width the
  string order is that of the numbers (`DigitsInOrder`), so an id of the same widths
  that comes first in the map is older (`OlderIsFirst`).  About the store:
  `EvictedInOrder`, no record kept is older than an evicted one of its widths,
  is kept by a trim because it takes the first keys (`TrimKeepsTheLast`) and by a
  publication because it adds the newest.  The refinement maps each action to
  a step of `EditTimeline` (or a stutter) by a case analysis on positions in the
  two stacks.
* **LiveSessionProofs.**  `RefreshedShowsLive` (`ShowsLive`), which is inductive as
  it stands: a refresh re-establishes it from the live document alone.
  `CollisionsCarryOtherReferences` (`CollisionsAreMadeUp`): the references of every
  stored graph are of a revision the bridge has issued (`ReferencesAreTheBridges`),
  and one such revision stands for one reported content (`ReferencesIdentify`).
* **BridgeQueueProofs.**  `TypeCorrect`, `ResponsesAnswer` (`ResponsesMatch`),
  `PairedActOnly` (`OnlyPairedAct`) and `InOrder` (`ExecutedInOrder`).  The
  invariant follows a request along its way.  `OneUnderWay`: the request of a
  client that is still there is sent, with the worker, or answered, in one place
  at a time, so an answer can only be to it; `WorkerLocals`: the channel holds
  nothing but the result of its own request; `OkIsExecuted`: whoever says "ok" says
  so after the execution.  `OnlyPairedTrusted` follows the `authenticated` flag,
  `FirstSentFirst` the order in which requests were sent, through the drained
  batch, the queue and the wire, also when the client was told `bridge_busy` and went on.
* **BridgeWritesProofs.**  `TypeCorrect`, `ChangesAreNoticed`
  (`NoChangeUnnoticed`) and `ServedRevisionsIdentify` (`ServedOnce`).  The
  inductive invariant is their conjunction with: no served revision is ahead of
  the counters.  Two lemmas do the work, one for steps that serve nothing
  (`QuietStep`) and one for steps that serve what they leave behind
  (`ServingStep`); each action is then shown to be one of these two, by what it
  does to the counters and the pending events.
  `CommitsAreReviewed` (`CommitMakesReviewed`), `PreviewsLeaveNoTrace`
  (`PreviewLeavesNoTrace`) and `UndisturbedPreviewsCommit` (`FreshPreviewsCommit`)
  rest on `Truthful`: the hash of a preview record binds the fingerprint it
  was made from, and the hash in an answer binds what its reader saw.
* **SidecarProofs.**  `TypeCorrect` and one theorem for every other property of
  the run `sidecar`.  `Kinds` sorts the steps by what they do to the requests
  on their way to the document: the policy lets one through and it is performed
  or left in the queue, the queue drains, the sidecar forgets.  `KeysCommitOnce`
  follows a key along that way: `KeysOnce` says that the key of every request in
  the queue and of everything applied is used up, or belongs to an earlier
  sidecar, and that no two of them share one.  `ChangesAreApproved` carries a
  token along the same way (`Backed`) and uses that the bridge compares the
  token's hash with one it makes of the document it is about to change; no token
  covers an undo, so where approval is demanded none gets through.
  `ChangesAreAppliedOnce` needs no keys at all: revisions never return
  (`Standing`), and whatever was applied has its base in the past (`Past`).
  `AuditIsTruthful` needs that a tool which settles was answered;
  `DenialsAreHarmless` follows from what appends to the audit trail.
  `Refinement` (`ImplementsApprovedEdits`) puts these together: `OneAtATime` sorts the
  steps into those that give an approval, those that restart the sidecar and the
  rest, and `AppliesAsPromised` shows that whatever is applied meets every guard of
  the abstract `Apply`.
* **RendezvousProofs.**  `TypeCorrect` and one theorem for every other safety
  property of the run `rendezvous`.  `Ownership` says which process a bridge is of
  and that a killed thread's process is dead; `FilesFollowThread` which files are
  in the directory, by where the thread is.  `RecordsHaveSecrets`,
  `StopLeavesNothing` and `ReadyMeansServed` follow from these.  `SessionsAreGenuine`
  is kept because a session is only registered where the secret that was read is
  the listener's own.  `ServingAreFound` needs the whole way of a sidecar: no two
  bridges listen at one endpoint (`OneListener`), a sidecar waits at no more than
  one bridge and in its backlog once (`OneConnection`), while it tries a record
  whose bridge still serves it waits there and nowhere else
  (`ConnectedAsRecorded`), and a bridge that is owed to it is registered, on its
  list, or the one it is trying (`NoneForgotten`).
* **ArtifactStoreProofs.**  `TypeCorrect`, `QuotaIsKept` (`QuotaKept`) and
  `ExportsAreReadable` (`ExportedIsReadable`).  `BytesFit` adds the bytes in the
  directory to those of the writers that have measured it and not written yet
  (`Granted`): a measurement leaves room for the one it grants, so each of the
  others costs at most one artifact.  `LeftByCutOffs` bounds the temporary files
  nobody is writing by the calls cut off.  `PutsAndSweeps`: a put past its check
  has its data, and a sweep past its own an expired manifest, unless the two have
  raced.
* **ReadingProofs.**  `PagesMakeTheResult` (`PagesAreTheResult`),
  `ContextsAreHonest` (`ContextIsHonest`) and `LinksAreFollowedAlways`
  (`LinksAreFollowed`).  The first two rest on arrangements: a finite set
  has a sequence in a strict total order (`ArrangementExists`), which has every
  member (`ArrangementHasAll`), and the two orders of the code are such
  (`QueryOrderIsTotal`, `RankingIsTotal`).  Pages: every change moves a counter, so
  a query that names its revision in full is answered only while its result is
  the one it had at first (`StillTheResult`), and then the pages so far end at the token
  (`PagesSoFar`).  Contexts: what is kept is a prefix of the ranking
  (`TrimIsPrefix`), and entities in focus come first (`FocusIsFirst`).
  Links: a recursive function is first shown to exist (`RecursionExists`), then to
  be after n rounds what it should.  The set a traversal has seen is what walks of
  at most n links lead to (`SeenIsWithin`); the round of a neighbourhood that stops
  after so many levels has queued what is n links away and no fewer
  (`RoundSearchesOn`), and nothing is added after as many rounds as there are
  entities, where the model's search ends (`WithinStops`); the paths of length n are
  the walks of which no link but the first leads to what is on the walk already
  (`PathsAreRoutes`), so one that does not begin with a link to its own start is
  simple (`PathsAreSimple`) and can be walked back (`ReversedPathsLeadBack`).

Only model-checked: the liveness properties (`EveryWaitEnds`, `StopReturns`,
`DiscoveryEnds`, `PagingEnds`); fairness and `ENABLED` are beyond the prover.

## 6. Not modelled, and why

* `geometry-analysis` and the measuring tools are floating-point functions of one
  graph; the predicates of queries and the semantic kinds, facts and views of
  contexts are functions of strings.  They have no state and nothing interleaves
  with them; a query's predicates appear as the set of labels they accept.
* The wire format (length prefix, JSON, HMAC) is abstracted to "a request or
  garbage" and "a right or a wrong proof"; hash collisions are left out.
* Command line, schemas, packaging, the workbench's buttons: one-shot I/O.
* Mapping of single entities (`exact_entity`, identity states,
  `resolve_reference`), comparison of old revisions, and resources of the
  adapter: they read one graph and change nothing.
* What FreeCAD does with an observer or a timer that was not removed: a timer is
  either registered or not.
* Temporary files a failed `Rendezvous::publish` leaves: no record points to them.
* Loss of power: a file that was renamed into place is taken to have its bytes.

## 7. Plan

Done: the revision store and its two sessions, the bridge's threads, handlers
and life cycle, discovery, the policy with the adapter and the sidecar's side of
live sessions, the artifact store, queries and contexts, two refinements of
abstract specifications, and the proofs listed above.  Next: two
refinements, the coalescer's `Emit` and `Synced` implemented by per-class time
stamps, and the bridge of `Sidecar` implemented by `BridgeQueue` with
`BridgeWrites`.
