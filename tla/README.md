# A verification project for Literature Studio's Agent Host

Literature Studio (product name Comet) is an Electron and TypeScript application in the architecture
of VS Code. Its own core logic is the **Agent Host**: a process that owns Sessions, Chats and Turns
of several AI Agents, publishes their state to clients over an unreliable connection, persists it,
and installs, updates and removes Agent packages while it works. The models are about this part.
All paths below are relative to `src/src/cs/` unless they name a module of this directory.

Contents: [inventory](#1-inventory) · [plan](#2-plan) · [modules and code](#3-modules-and-the-code-they-model)
· [runs](#4-what-the-runs-check) · [disagreements found](#5-disagreements-between-code-and-documents)
· [fairness](#6-fairness) · [proofs](#7-what-is-proved) · [limits](#8-what-is-only-model-checked-and-what-is-not-modelled)

## 1. Inventory

| Component | Source | State | Operations | Hard behaviour | What makes it correct |
|---|---|---|---|---|---|
| Channel reducer | `platform/agentHost/common/channelState.ts` | state, sequence, revision, snapshot marks, 4096 remembered identities, snapshot requirement | applySnapshot, applyAction | loss, duplication, reordering, forgetting | shows only states the Host had, never goes back, calls no authentic action a conflict |
| Host publication | `…/node/host/agentHostAuthority.ts` (commitHostState, initialize, setSubscriptions, reconnect) | sequence, channel revisions, replay buffer, subscriptions | commit, snapshot, subscribe, reconnect | replay boundary, answers lost after the Host has changed | every change is published, a replay is complete |
| Provider replica and recovery | `sessions/contrib/providers/agentHost/browser/agentHostSessionsProvider.ts`, `…/agentHost/browser/remoteAgentHostConnection.ts` | reducers, subscriptions, last sequence, shown records, Sequencer, barrier, buffered actions | initialize, hydrateCatalog, live action, resynchronise, refresh, recover | topology changes between awaits, superseded recoveries, bounded buffer | settled means converged; a recovery ends |
| Idempotent mutations | `…/common/operations.ts`, mutate / getOperationOutcome of both sides | outcome registry, catalog queue, pending mutations, barrier | mutate, ask, resend, defer, finalize | lost answers, delayed copies, a second interruption | one effect at most, what callers are told is true |
| Configuration transactions | agentHostAuthority.ts 2622–3036, `…/node/agents/comet/cometAgent.ts` | catalog ledger, finalizations, Agent transactions | update, finalize, acknowledge, release, materialize, restart | crash and failure between any two of seven steps | Agent and Host agree, a decision precedes its effect |
| Revisioned stores | `base/parts/storage/common/storage.ts`, `…/node/storage/agentHostStateStores.ts` | cache, pending inserts, flush, per-store revision | set, flush, commit, restart | failed flush after the cache changed, shared flush | accepted is durable |
| Package mutation | agentHostAuthority.ts (acquirePackageMutation, catalog queue), `…/node/packages/agentPackageLifecycle.ts` | gates, queue, state lock, two stores, runtime | update, uninstall, install, against Turns, releases, resume values | lock order, stale copies, partial failure, wakeups | drain holds, what is exchanged is unloaded, two stores agree |
| Turn lifecycle | agentHostAuthority.ts 3637–4207, `…/node/agents/codex/codexAgent.ts`, cometAgent.ts | Turn states, interactions, active Turn, content anchors, the Agents' own Turns | submit, cancel, respond, release, delete, Agent actions, gate | cancellation racing answers, terminal actions refused, the loss of the app-server | an open Turn is one whose end somebody owes; what it holds goes with it |
| Session and Chat lifecycle | agentHostAuthority.ts 3084–3620, the same Agents | records, materialized flags, the Agents' backings | create, materialize, release, delete, restart, restoration | several calls and one commit, each of which may fail, and so may taking them back | Host and Agent agree on what is loaded, nothing is left at the Agent |
| Package journal and crash recovery | agentPackageLifecycle.ts, `…/packages/agentPackageActivationRegistry.ts` | persisted phases, activation registry | prepare, commit, resume after restart, retire | crash at each phase | an operation is finished or undone once |
| Connected Agent runtimes | `…/node/runtime/connectedAgentRuntime.ts` | generations, calls in flight | call, action, loss, reconnection | calls in flight when the runtime dies | no call answered twice or by another generation |
| Agent adapters (Codex, Claude, Comet) | `…/node/agents/` | SDK sessions | SDK calls | vendor SDKs | only Comet's registry and transactions modelled |
| Tool execution | `…/node/tools/`, `…/browser/clientAgentTools.ts` | calls, authority, permissions | call, cancel, answer | reverse endpoint lost during a call | a tool runs at most once |
| Content resources | `…/node/content/agentContentResourceService.ts`, `…/browser/clientContentResources.ts` | leases on both sides, materializations, directories | open, read, materialize, release | cancelled calls that go on in the background | limits hold, nothing is forgotten, both sides agree |
| Credentials | `…/node/credentials/` | bindings of Turns | bind, resolve, unbind | Turns that end by several routes | nothing used after release |
| Remote and tunnel transports | `platform/remote/`, `platform/tunnel/`, `…/common/remoteTunnelProtocolPeer.ts` | generations, pending requests | connect, resume, close | loss with requests pending | every request ends once |
| Local Host process | `code/electron-main/agentHost/` | child process, channel | start, call, exit | no reconnection | its loss ends the provider |
| Sessions services | `sessions/services/sessions/browser/` | visible Sessions | presentation | removals while shown | follows the providers |
| SDK downloads, legacy migration, editor model, library storage, browser views and other UI | see PROJECT.json | — | — | — | not modelled, reasons in PROJECT.json |

How they interact. Clients call the Host through a connection (requests and answers) and receive
actions (callbacks) in the order in which the Host commits. The Host runs mutations and Agent actions
one at a time in the *catalog queue* (a promise chain, `enqueueCatalog`), calls Agents, and is called
back by them. Host and package lifecycle share the package store, whose *state lock* is a second
promise chain, and both persist through the same application storage. The provider serialises its own
work in a *Sequencer*. Every await in these chains is a place where the rest of the system moves.

## 2. Plan

| # | Modules | Composition | State of it |
|---|---|---|---|
| 1 | ChannelReducer, ChannelDelivery | the reducer under the worst transport | done, proved in Promises_proofs |
| 2 | ChannelTopology, HostPublication, ProviderReplica, HostReplication (+ proofs) | HostReplication composes Host and provider over a transport; reuses ChannelReducer | done, proved |
| 3 | HostOperations | registry, queue, reconciliation | done, proved in Promises_proofs |
| 4 | CatalogStore (abstract), ApplicationStorage | refinement | done, proved in Promises_proofs |
| 5 | SessionConfiguration (+ proofs) | a catalog commit as CatalogStore's writer sees it, with the Agent as participant | done, proved |
| 6 | PackageMutation (+ proofs) | Host, package lifecycle, Agents | done, proved |
| 7 | HostTurns, AgentTurns (+ proofs) | AgentTurns extends the Host's half with the Agents Codex and Comet | done, proved |
| 8 | SessionLifecycle (+ proofs) | Host records and Agent backings, with failures and restarts | done, proved |
| 9 | PackageCatalog (abstract), AgentPackageJournal (+ proofs) | persisted phases, restart at each of them; refinement | done, proved |
| 10 | ContentResources (+ proofs) | Host, client and the connection between them | done, proved |
| 11 | AgentRuntimeConnection, ToolExecution | each with an abstract "at most once" specification | open |
| 12 | TunnelPeer, editor position maps as functions against a reference | | open |

Abstract specifications: CatalogStore (what a writer of the storage may rely on) and PackageCatalog (what
an operation on a package promises) are implemented by detailed ones. Worth stating next: "a mutation
happens at most once and its outcome is one value" over HostOperations; a replica that jumps along the
Host's history over HostReplication.

Every safety property that a run checks is proved (section 7) but HostReplication's SettledIsConverged, which
is worth proving next: it needs that whatever the replica still lacks is queued, buffered, in flight or about
to be asked for.

## 3. Modules and the code they model

**ChannelReducer** is `AgentHostChannelStateReducer` as operators on a record: `ApplySnapshot`,
`Verdict` (applied, duplicate, conflict, gap, missingSnapshot, snapshotRequired, in the code's order)
and `ApplyAction`. The digest of an envelope is the envelope. States are opaque: the reducers of
`protocol.ts` all return `action.state`.

**ChannelDelivery** puts one reducer under a transport that may deliver any action ever published and
any snapshot ever taken, at any time, repeatedly or never. This is weaker than every route an envelope
takes in the system, so what holds here holds for live, replayed, buffered and answered ones.

**ChannelTopology** has the channels (catalog, Sessions, Chats) and who lists whom. **HostPublication**
is the Host's side: each commit is the list of actions that the mutation in question hands to
`commitHostState`, numbered and appended to the replay buffer in one step (there is no await between
the persisted catalog and the last published action), and the three subscription requests as functions
to their results. **ProviderReplica** is the provider's state (`p`) with one operator per continuation
of an await: the stages of `hydrateCatalog`, live actions, resynchronisation, refresh and reconnect.
**HostReplication** composes them: requests `up`, answers and actions `down` (FIFO), the Sequencer
(`tasks`), the two threads outside it, the connection's restoring mode with its buffer, generations of
the transport. An interruption drops everything in flight and rejects every awaited call. The root
channel is left out; contents are commit stamps; identities are never reused.

**HostOperations** follows one mutation from `mutate` through the digest await, the registry, the queue
and the answer, and the reconciliation after an interruption with its four rounds and one resend.

**CatalogStore** says what one writer of a revisioned store may rely on; **ApplicationStorage** is
`Storage` with `set`/`flush` shared by all keys, and shows that each of them gets a CatalogStore.

**SessionConfiguration** has `updateSessionConfiguration` step by step (intent, prepare, prepared,
decide, finalize, complete, acknowledge), each with its catalog commit that may be refused (and,
as ApplicationStorage shows, land later all the same), the ledger with its eviction, retried
finalizations, release and materialization, crash, restoration, and Comet's `CometOperationRegistry` and configuration
transactions on the Agent's side. `landed` is a history variable: the storage has written something it
had refused.

**PackageMutation** has the catalog queue (`queue`, its running job `run` with the sessions it
captured), the state lock (`lock`), `packageMutationGates`, the package operation (`op`, with the phase
it is in), both stores, and what the Agent runtimes have really loaded. `doubtful` is a history
variable that names the Agents whose flags a commit overwrote or whose backing could not be restored.
Each Agent is the only one of its package and has one Session with one Chat; the bundled package cannot
be updated or uninstalled by users. Only Chats have resume values, as in the three built-in adapters.

**HostTurns** is the Host's half of a Chat's Turns: the catalog queue with the client's mutations and the
actions that the Agent emits, the states of a Turn, its interactions, content anchors and bindings, the
checks that a commit runs on the whole state (`Admits`), and the gate of a package operation or of the
shutdown with its drain. **AgentTurns** extends it with the Agents: Codex, whose Turn goes through a
credential, a thread, a native Turn of the app-server and its notifications, and Comet, whose Turn is a
loop of its own. A continuation that awaits nothing runs in the step that resumes it. The app-server may answer
each request with an error (`ThreadReady`, `Started`, `InterruptRefused`). What the client does not understand, a
`turn/started` with a second identity among it (`NativeBegins`), is a protocol failure: `ProtocolFailed` rejects the
pending requests at once, so that the sends end, while the exit that reports the remaining Turns comes later
(`ClientExits`). An exit on its own does both in one step, as `acceptExit` does. Two names mark Turns that Codex
loses: `Unheard` (its send awaits a completion, and the end of another send has made Codex forget that the Turn is
the one of its thread) and `Orphaned` (nobody will ask for its end and it goes on: the app-server exited while it
awaited its credential, its Chat is deleted, or the Host has failed it because its cancellation was refused). A
cancellation that is refused to the shutdown makes `close` fail and leaves the Turn as it is; one that is
refused to a client fails the Turn.

**SessionLifecycle** has one Session with its Chats. A mutation is a list of calls of the Agent, a commit,
and a list of calls that takes back what was done (`job`); `Accepts` and `Effect` say which calls an Agent
accepts and what they do. Codex answers every call of a mutation after the first with the first outcome,
because all of them have the identity of the mutation (`memo`). `doubt` names what could not be taken back and
what Codex answered without doing it.
At a restart the two Agents differ. Codex is one of the built-in Agents of `BuiltInAgentRegistry`, which start cold:
`loadCatalog` makes its records unavailable (`Restart`), and once the Agent is prepared they are released ones
(`Prepare`). Comet is a bundled package: its records stay, and before there is a Host `restoreCatalogBackings`
materializes the Session, when it is available, and its available Chats (`Restore`). That runs as a mutation without
a commit; when a call fails, what was materialized is released and the Host does not start (`prepared` stays
FALSE until the next restart).

**PackageCatalog** is the promise of an operation on a package: success and the change of what is installed
are one step. **AgentPackageJournal** implements it with the journal's phases (`recorded`,
`activationPrepared`, `activationCommitted`, `catalogCommitted`), the activation registry (prepare, commit,
retire, roll back, acknowledge), the Host's gate and Agent, commits that are refused and may be on the disk
all the same, the end of the process between any two steps, restoration, and the caller that repeats an
operation. Four names mark what the code does not get right: `overtaken` (an operation that was queued
behind an interrupted one begins before it is reconciled), `residue` (a runtime staged before its
registrations were refused), `stuck` (the rollback of the Host failed and the gate stays closed) and
`Doomed` (a pending record of a request that is refused). The properties exempt them by name.

**ContentResources** has the content of one attachment: the calls of the Agents (`jobs`, also those that go
on in the background after a cancellation), the Host's leases, materializations and directories, the
requests on their way to the client, and the client's leases. A connection is the remote server's channel, which
sends the cancellation of a request after it and waits for an answer, or "tunnel" or "electron", which reject a
cancelled request at once and drop its answer. The remote channel is two connections here, because
`IRemoteTransport` does not say how frames arrive: "remote" hands over each frame in a task of its own, so that
the client, which answers within one task, has done so before the cancellation is handled; "coalesced" may hand over
several in one task (as `mockRemoteTransport.ts:29-34` does), so that the client may answer the cancellation,
execute the request all the same and drop what it returns (`CancellationAnswered`). The content is a file or a
tree, with bytes to read or without (`shape`): an empty file, and a tree of empty files, is materialized
without a read. One read stands for all reads of a file, of a tree or of a manifest.

Definitions named as a *variant* or *wrong variant* in the modules are used by no specification: they
are plausible mistakes that each property has been shown to reject.

## 4. What the runs check

| Run | States | Time | What it asks |
|---|---|---|---|
| channel_delivery | 27 741 | 3 s | the reducer under arbitrary delivery |
| host_replication | 134 129 | 16 s | convergence and honesty of a replica through commits, interruption, recovery and refresh; every recovery ends |
| host_operations | 55 939 | 9 s | mutations with lost answers; every doubt ends |
| application_storage | 3 097 | 1 s | three writers over one cache; refinement of CatalogStore |
| session_configuration | 188 570 | 11 s | two-phase update with failures, refusals, crash |
| package_mutation | 483 140 | 65 s | package operations against a working Host |
| agent_turns | 627 102 | 151 s | Turns of a Chat at Codex and at Comet, with cancellation, interactions, release, deletion, the gate, failing commits, error answers, protocol failures and the loss of the app-server |
| session_lifecycle | 148 847 | 6 s | Sessions and Chats through failing calls, commits, compensations, restarts and the restoration of Comet's backings |
| package_journal | 479 991 | 92 s | the journal through two ends of the process and two failures; refinement of PackageCatalog |
| content_resources | 698 723 | 178 s | leases, materializations and calls through cancellation, interruption and disposal |
| package_wait, package_restart | — | 1–2 s | two violations, see section 5 |

Bounds and why they are enough:

- *channel_delivery*: memory of 2 identities, 5 Host sequences: enough that an applied action is
  forgotten, delivered again and taken for a conflict. The theorems remove both bounds.
- *host_replication*: two Sessions and two Chats of which one each exist at the start, so each can be
  created, changed and deleted between two awaits; 2 commits, i.e. up to 6 actions, against a replay
  buffer of 4, so that replays, snapshots and the boundary between them occur; one interruption and
  one refresh; a live buffer of 2 that overflows. The liveness
  property is checked on the same instance.
- *host_operations*: three mutations, of which one can be deferred; two interruptions, so that a
  recovery is itself interrupted and two copies of one request are at the Host.
- *application_storage*: three keys: one that is being written, one that waits and one that joins.
- *session_configuration*: two operations on two Sessions with a ledger of one entry (16 384 in the
  code, agentHostCatalog.ts:101), one refused write, one crash, two outcome queries at once.
- *agent_turns*: two Turns, so that one can be mistaken for the other, one interaction, two disturbances
  (a cancellation, a release, a gate, a failed commit, a fault of the app-server) in any combination. That the
  app-server answers a thread or a start with an error costs none. `Asked` keeps a client from asking for what
  the Chat it sees does not allow: a job it sends then is refused only because of what happens while it
  is queued. The theorems remove the bounds, `Asked` too.
- *session_lifecycle*: two Chats, three failures and two restarts: a step, its compensation and the
  mutation after them can fail, and so can a restoration, its undo and the restoration after it.
- *package_journal*: two operations and two revisions, so that one operation is queued behind another;
  two ends of the process and two failures. The two revisions are interchangeable; MCInit picks one first.
- *content_resources*: two calls at once, two leases of which one may be open, one materialization, two
  disturbances of any kind. What Electron's connection does is among what a tunnel does, so the run has
  the two remote ones and the tunnel: all contents over "remote", a tree with bytes and an empty file over the
  other two (MCContentResources). One Turn: a second one only adds refusals. The four
  invariants were also checked once with all contents over the three connections (1 130 298 states).
- *package_mutation*: two Agents and two operations, so that one Agent works while the other is
  updated and an uninstalled package is installed again; one client mutation, one emitted resume value,
  two failures (the failure of a step and that of its compensation), two schemas. Every action fires.
  The safety properties were also checked once with larger bounds, up to 5 million states,
  and so were the invariants of the proofs, before they were proved.

What the properties mean is stated above each of them in the modules. The hazards they are for, with
the lines where they bite, are listed in PROJECT.json.

`CHECK_DEADLOCK FALSE` is set where the system may stop: when the bounded commits, mutations, Turns,
operations or leases are used up and nothing is in flight, and after a provider or the service is disposed.

Type invariants are stated in every module with variables. They are proved for ChannelDelivery (where it
is called DeliveryTypeOK), ApplicationStorage (StorageTypeOK), HostOperations, HostReplication, ContentResources,
SessionLifecycle, SessionConfiguration, PackageMutation and AgentTurns. That of the journal was checked while the
module was written and can be checked again by adding `TypeOK` to its configuration.

## 5. Disagreements between code and documents

Two are runs whose expected result is a violation; PROJECT.json has the quotations.

1. **package_wait.** The package operation waits for the catalog queue with the state lock held, while
   a queued job of any Agent that commits a backing waits for that lock: both wait for ever.
2. **package_restart.** When the process ends after an update's `activationCommitted`, the next one
   publishes the new endpoint and withdraws the one the catalog names. Composition then finds no Agent,
   there is no Host, and so nobody can repeat the operation that would repair it.

The following are definitions marked "Does not hold" in the modules. TLC finds the counterexample when the
definition is added to the configuration named (under PROPERTIES the three of AgentTurns, else under INVARIANTS).

| Definition | Configuration | What the code does |
|---|---|---|
| HostReplication.ReconnectAccepted | MCHostReplication | The Host changes its subscription set before the answer to `setSubscriptions` travels. If it is lost the sets differ and the reconnect is rejected (agentHostAuthority.ts:1070); the provider is disposed. |
| HostReplication.ReplayContinues | MCHostReplication | `hydrateCatalog` notes the answer's Host sequence before it installs the new Chats' snapshots (agentHostSessionsProvider.ts:1586); after an interruption the replay does not apply. |
| PackageMutation.BeliefMatchesRuntime | MCPackageMutation | The release loop clears materialized flags outside the queue; a job with an older copy of the Sessions writes them back. |
| PackageMutation.MigrationIsCommitted | MCPackageMutation | Migrated resume values are committed to the package store only; the Host's Sessions keep the old schema (AGENT_PACKAGES.md:232). |
| AgentTurns.CancellationEnds | MCAgentTurns | Comet ends a cancelled Turn with data, `applyAgentAction` accepts data of a failed Turn only (agentHostAuthority.ts:4156), and the Turn stays `cancelling` (AGENT_HOST.md:1010). |
| SessionLifecycle.FailedCreationLeavesNothing | MCSessionLifecycle | Codex takes the second call of `createSession` with a Chat for a repetition (codexAgent.ts:2919); the creation fails and the Session stays at the Agent. |
| AgentTurns.NativeEndIsAuthoritative | MCAgentTurns | `send`'s finally deletes the entry of its Chat's thread whoever is registered there (codexAgent.ts:996). A Turn is cancelled while it awaits its credential, the next one takes the thread, the first one ends: `turn/completed` of the next finds no Turn, its send awaits for ever and the Turn stays open (AGENT_HOST.md:999, `.github/instructions/agent-sdk.instructions.md:106`). |
| AgentTurns.NothingStartsOnceDrained | MCAgentTurns | `handleClientExit` reports every active Turn failed, but a Turn that awaits its credential is not marked cancelled (codexAgent.ts:2660, 1073). It connects another app-server and starts a native Turn for a Turn that is over, also when a shutdown has "quiesced the Host" (agentHostAuthority.ts:847) meanwhile. |
| SessionLifecycle.LostBackingIsUnavailable | MCSessionLifecycle | One backing of Comet that cannot be materialized makes `restoreCatalogBackings` throw (agentHostAuthority.ts:4819) and `create` with it: there is no Host, instead of an "explicit unavailable Session state" (AGENT_HOST.md:909-910). |
| SessionLifecycle.DeletionCanBeRetried | MCSessionLifecycle | Comet rejects the deletion of what it has deleted before, so a deletion that failed half way can never end. |
| ContentResources.EveryPathHasItsLease | MCContentResources | A release that is cancelled ends the lease in the background (agentContentResourceService.ts:508-512). A materialization that begins in between finds out when it reads (line 832), which an empty file or a tree of empty files does not: a path is recorded without the lease it is scoped to (ATTACHMENTS.md:206-207). |
| ContentResources.CancelledOpenLeavesNothing | MCContentResources | Over a tunnel (and Electron's IPC, and a remote channel whose transport hands over several frames in one task) a cancelled `open` is rejected and its answer dropped; the client's lease stays, and its publication stays bound to a Turn that is over. |

Met while modelling, with no definition of their own:

- A mutation that is merely slow during a recovery: after four immediate questions the provider
  gives up and is disposed with a healthy connection (agentHostSessionsProvider.ts:1278).
- After a failed flush the owner expects a revision that the cache has left, so that every later commit
  conflicts until a restart (storage.ts:205, agentHostStateStores.ts:1118). CatalogStore states this.
- A refused decision that the storage writes later is committed on disk although the Agent was told to
  roll back (AGENT_HOST.md:446-449); RollbackIsFinalOnceLost excludes exactly that.
- An operation that was interrupted with its transition recorded, and overtaken by another one before it is
  repeated, takes its commit back to the revision from which it started when the Host does not complete
  (agentPackageLifecycle.ts:2163): the catalog then names an older revision than the Agent that the Host goes on
  to call. It takes three failures and one crash; the proof of HostAgentIsAlive is what showed it, and the
  property is claimed unless an operation has overtaken another, as those beside it are.
- A restart refuses the catalog when a pending configuration operation was prepared by a registration of
  another revision (agentHostAuthority.ts:1757).
- CometOperationRegistry keeps a rejected promise, so that a repetition is answered with the same failure
  (cometAgent.ts:285).
- Retained records of an uninstalled Agent disappear with the next backing commit
  (agentHostAuthority.ts:4570), against AGENT_PACKAGES.md:157. When the package is installed again and then
  updated before the Agent is released, the store has no record to carry a checkpoint in;
  CheckpointIsCommitted excepts exactly that. It takes three operations, and the proof of the property
  without the exception is what showed it.
- A resume value is lost when the package operation commits between reading the revision and getting
  the lock (agentHostAuthority.ts:4742).
- A state lock or a gate that is never released when a rollback fails (agentPackageLifecycle.ts:1506,
  agentHostAuthority.ts:764). PackageMutation has both; OperationSettles exempts them by name.
- When the Host does not complete an update, the committed packages are written back
  (agentPackageLifecycle.ts:2163), while AGENT_PACKAGES.md says that a committed update does not switch back.
- The gate of a package operation refuses `cancelTurn` and `respondInteraction` while its drain waits for
  the Turn that they would end (agentHostAuthority.ts:3727).
- `send`'s finally (above) also misleads Codex with three Turns: one is cancelled before its native Turn has begun,
  a second takes the thread, a third fails because the thread is taken and so frees it, and the
  `turn/started` of the first is taken for whichever Turn is on the thread (codexAgent.ts:1275). What the
  native Turn asks for is then asked of the wrong Turn, whose send fails when its start names another identity
  (codexAgent.ts:1170), while the Host has the interaction open. When it has another identity already, the
  notification throws, which ends the app-server with all its Turns (codexAppServer.ts:212).
- A send that fails reports its Turn without ending the interactions that are open (codexAgent.ts:987). The Host refuses
  the end of a Turn with an open interaction (agentHostAuthority.ts:4153), so the Turn stays open: so it is when
  the app-server fails the protocol, or answers `turn/start` with an error, after its native Turn has asked for
  an interaction, and when a native Turn asks while it is being interrupted. OpenTurnIsOwed excepts these by name
  (`HasAsked`).
- A Turn that the Host has failed because Codex refused to cancel it still runs at Codex when a gate has
  drained. DrainedAgentIsIdle excepts it, also once its Chat is deleted, which takes five disturbances; the
  deletion makes Codex forget what it has reported (`deleteTerminalTurns`, codexAgent.ts:2911), so that it
  reports the Turn again.
- `close()` with no active Agent is refused for the empty set of Agents (agentHostAuthority.ts:856), and it
  fails when Comet rejects the cancellation of a Turn that has just ended (agentHostAuthority.ts:890).
- A release of content whose answer is lost leaves a lease in the Host's table that is dead at the client
  and counts until the connection ends: nothing sweeps leases past their deadline.
- The Host's lease lifetime equals the client's maximum duration, so that a Host whose clock is ahead of
  the client's is refused every lease (clientContentResources.ts:515).

## 6. Fairness

- *HostReplication*: weak fairness of `Progress`: as long as a request can be handled, an action or
  answer be received, a task of the Sequencer run or the transport be restored, some of it happens.
  That is what an event loop and the reconnecting transport do. No commit, refresh or interruption is
  fair. The transport is taken to come back; when it does not, the provider stays in `restoring`.
- *HostOperations*: weak fairness of the Host's steps, of the provider's recovery steps and of the
  transport's restoration. New mutations and interruptions are not fair.
- *PackageMutation*: weak fairness of the catalog queue and of the package operation, which are promise
  chains whose calls are answered. Nobody owes a Turn its end: `EndTurn`, `Ask`, `Emit` and `Open` are
  not fair, and OperationSettles is conditional on the Agent having no Turn.
- *AgentTurns*: weak fairness of the Host's queue, of Codex's continuations and of the app-server's answers
  to what it was asked (a thread, a start, an interruption), each of which may be an error, of the exit of an
  app-server that was killed (`failProtocol` sends SIGKILL), and of Comet's loop once it is cancelled. Nobody
  owes a Turn that is not cancelled its end, nor an interaction its answer.
- *AgentPackageJournal*: weak fairness of the steps of an operation, of the start of the next process, and of
  the caller's repetition of an operation whose outcome is open, which AGENT_PACKAGES.md:118 asks for.
- *ContentResources*: weak fairness of the client's event loop and of each call's continuations, those that
  await the file system included. Cancellations, releases and interruptions are not fair.
- The other specifications state safety only.

## 7. What is proved

TLAPS checks eight modules. All theorems are of the unfair specifications, for every value of the constants that
the modules' assumptions allow (`Remembered` positive, `NoState` not a state, any bound `MaxSeq`;
`MaxRevision` natural, `Keys` any set; any set `Ops` without the value `"none"`, `Deferrable` any part of
it, `MaxInterrupts` any natural number; `Leases` and `Calls` finite sets, no lease being
a directory, the limits any natural numbers; `Chats` a finite
set without the value for the whole Session, `Agents` any of Codex and Comet; `Retained` positive,
`InitialConfig` one of `Configs`, any `Sessions` and `Ops`; in PackageMutation any `Agents`, of which
`Bundled` is a part, any natural bounds and at least one schema, for the registrations that the Agents start with
have the first; in the journal any `Ops` and `Revisions` that do not
contain the values for nothing and for a restored operation, and any bounds on crashes and failures; in
HostReplication any `Sessions` and `Chats`, each Chat with its home, positive sizes of the two buffers, and
any Sessions and any of their Chats to begin with; in AgentTurns finite sets of `Turns` and `Requests`, `Agents` any of Codex and
Comet, and any natural `Budget` of disturbances).

**Promises_proofs** holds the proofs of three components that share no state and keep a promise to everything else:
ChannelDelivery, ApplicationStorage and HostOperations.

*ChannelDelivery.* The invariant to prove, "the state shown is one the Host had", is not
inductive: a snapshot may be delivered long after it was taken and an action long after it was
published. `DeliveryIInv` adds that the log is contiguous in revision and ordered in sequence (`LogOrdered`),
that each snapshot and the reducer's own marks sit at a place of that log (`Located`: a revision and a
sequence at which the channel was exactly there), that what the reducer remembers are the newest
applied actions of the log (`AppliedRemembered`), and that a reducer without a state remembers nothing.
From it: DeliveryTypeCorrect, ReplicaStateIsHistory, ReplicaSequenceMatchesRevision, NoFalseConflict (an
authentic action with a revision that has been applied since the snapshot is either remembered or more
than `Remembered` back), and the action properties ReplicaNeverRegresses and RequirementStaysUntilSnapshot.

*ApplicationStorage.* `StorageIInv` has the types, that the cache is at most one revision ahead of
the writer, that disk and writer never pass each other the wrong way (`Ahead`), and what each state of
a writer's commit implies for the pending set and the running flush (`UnderWay`). From it: StorageTypeCorrect,
AcceptedRevisionsAreDurable, and StorePromiseIsKept: for each key, every step of the shared storage
is a step of CatalogStore or leaves that key's view alone. The lemmas are one per action.

*HostOperations.* None of the properties is inductive: that an operation is not committed
twice depends on nobody executing it a second time, and that what a caller was told is true depends on
who may still answer. The invariant has three parts. `HostInv` speaks of the registry: an operation has
at most one execution in the queue, which is pending, not yet waiting for a finalization and has
committed exactly what its job says (`OneExecution`), and a status tells the number of effects
(`StatusTellsEffect`). `ClientInv` speaks of the call: of all that earlier calls left behind at the
Host, at most one request or job still has a listener, it is of the operation the running task asks
about, and a terminal answer is that operation's status. `BarrierInv` speaks of what may be in doubt:
a recovery's list is what is still pending, an operation nobody was told anything about is unknown to
the Host or is the mutation that runs, and a mutation that cannot be deferred is answered with a
terminal outcome by its first call (`FirstCallAnswers`, the part that needs the most work, since the
Host may meanwhile run any requests and jobs of interrupted calls). From them: InductiveInvariant,
TypeCorrect, MutationsTakeEffectOnce, AnswersAreTrue, NothingStranded, BarrierHolds and, from
`HostInv` alone, the action property OutcomesStay.

**HostReplication_proofs.** That the replica shows only what was published depends on everything that may still
reach it. The history of a channel only grows, so that what was authentic stays so (`HistoryStays`), and the
invariant says it of all of it at once: the records and the reducers (`GoodReplica`), the queued and
buffered actions (`GoodTasks`) and the answers on their way (`GoodItems`). What a continuation makes of an answer
depends on what it asked for and on how far its computation is; `Matched` therefore says that of every thread
at most one request or answer is on its way, and that it fits the place the thread awaits it at, which an
interruption must not break. The Host's part (`HostInv`) has the channels' revisions numbered without gaps, and
that the replay buffer holds the newest actions of the history (`Retaining`). Each continuation of ProviderReplica
has a lemma that it leaves an authentic replica and asks for existing channels only (`BaselineAnswerGood`,
`TopologyAnswerGood`, `ReplayedGood`, ...), and the steps of HostReplication cite them. That a replay is complete
(`Replays`) follows from `Retaining` where the Host makes it, and holds until it is received because the client
asks for nothing else meanwhile. The replay is selected with a recursive function (`Subsequence`, whose lemmas take
the least counterexample). From them: InductiveInvariant, TypeCorrect, AlwaysAuthentic (ReplicaAuthentic) and
ReplaysAlwaysComplete (ReplayIsComplete).

That nothing older is ever shown does not follow from what the replica holds: a reducer that an answer takes
away and a later answer brings back would be accepted with any revision, since only a reducer with a state
refuses an older snapshot. It follows from the Host, where what is deleted never exists again (`Gone`,
`StaysGone`), and from the order of the answers: none renews a channel that it, or one before it, takes away
(`InOrder`). So a record is as old as its reducer or older (`Covered`), or its channel is gone and no answer on its
way has a baseline of it (`Buried`). Each continuation of ProviderReplica has a lemma that every reducer it keeps
advances, that it loses only what the answer takes away, and that whatever it shows anew is the state of its reducer
(`Continued`); a later revision has a later content (`Aging`, for which a commit must name every channel whose
content changes). The Host's requests name published channels only (`AsksKnown`), which is why a missing
channel is one that was deleted. From it: the action property NeverShownOlder (ShownNeverRegresses). Its one
assumption on the initial Host is that a Chat is there with its Session (`InitialAssumption`), as the Host's
records are built.

**AgentTurns_proofs.** That an open Turn is owed its end is not inductive, because the Host refuses the end of a
Turn that has an interaction open: that an end is on its way says nothing without what is before it in the queue.
`Settled` and `Told` speak of the queue up to a job: an interaction that is open, or that a job before it opens,
is closed by a job after that (`SettledBy`), and an end at such a place will be accepted (`EndsAt`). A Turn of which the
Agent will say nothing more (`Past`) has such an end in the queue, unless it is one of the exceptions that the
property names (`Excused`), of which a send that failed with an interaction open is one. A Turn of which the Agent may
still say something must not wait for what was said already: `Awaited` has that the completion of a native Turn that
ended was told to its Turn, when that is the one of its thread and is known by no other native Turn (`Deaf` is the
opposite), unless a commit has failed. Those that are not the one of their thread are the `Unheard` ones of the property. This needs that an interaction is asked for once (`Raised`), of the native Turn the
Turn is known by (`Asking`), and what the places of a send imply (`Sends`). For the gate, `Resting` says that
no Agent runs a Turn that is over, nor one whose end is queued, but where the property excepts it (`Harmless`: it was told to end, has ended or is orphaned), and `Gated` that
nothing is open behind a drained gate. The steps change the queue in few ways, and each way has a lemma: something is said
(`EmitKeeps`), a job is done (`DoneKeeps`, `JobKeeps`), the Host calls the Agent (`CallKeeps`), a mutation joins
the queue (`JoinKeeps`), or the queue stays (`QuietKeeps`). The loss of the app-server says something of every
Turn at once; what it says is a concatenation of finitely many sequences, which is why `Turns` is assumed
finite. From it: InductiveInvariant, TypeCorrect, AlwaysHeldWhileOpen, AlwaysOwed (OpenTurnIsOwed) and
AlwaysIdleWhenDrained (DrainedAgentIsIdle).

**ContentResources_proofs.** That the limits hold is not inductive, because a call that has been answered
but has not yet taken its lease counts nowhere else; `Limits` counts the places that are reserved and not
yet taken (`Reserved`). That no directory is lost needs that no two calls work on one (`Directories`: a
directory is named after its call, and a lease is materialized once, so that what a call fills is neither
recorded nor being removed), that a call awaits one answer at most (`Posted`), where a call of each kind can
be (`JobShape`), and that whatever goes on after the end of the connection was cancelled (`Ended`), since
only a cancelled materialization discards what it has made. The helpers of the actions have lemmas of their
own (`MoveKeeps`, `EndKeeps`, `DisturbedKeeps`, ...), and each action cites them. From it: TypeCorrect,
NoDirectoryIsLost and LimitsAreKept. A second invariant, `Leased`, is inductive together with the first. That a
recorded file has its lease depends on the order of requests: the client handles them as they were sent, so a
materialization that was answered comes before every release of its lease that is still to succeed (`Scoped`),
and a release that begins later sees the materialization and is refused. That argument needs a read, and so
content with bytes (`Empty` is excepted); it does not depend on the connection. That both sides agree depends on who
can name a lease: it is drawn once (`Identities`), and until its opening has returned no other call has it. To know
what the client does with a message, `Requests` says that it asks for what its call waits for, and that no call
waits without one. From them: FilesKeepTheirLease and BothSidesAgree.

**SessionConfiguration_proofs.** That Host and Agent run with the same configuration is not inductive: an
update passes through seven steps, of which five are catalog commits that may be refused, and may land
later all the same; finalizations are retried by whoever asks, so that several of one operation are queued
at once; and a restart turns every unsettled entry into a finalization again. `IInv` says of each operation
(`Operation`) that what the registry, the caller and the Agent hold of it follows what is decided; that a
pending finalization is the one its ledger entry asks for (`PendingFinalizations`); that a finalization in the
queue is that one or asks for a call the Agent has already answered, which `CometOperationRegistry` then
repeats (`FinalShape`, `Answered`); that whatever is unsettled in the ledger is being worked on (`UnderWay`); and
that the backing of an idle Session runs with what the Host holds or a committed finalization of it is still
to be made (`Follows`). `Stored` has the ledger's own invariant (an operation has one entry, a Session one that is
not settled, no more than `Retained`), which replacement and eviction keep; the lemmas about them rest on what
RemoveAt and Append do to a sequence. From it: TypeCorrect, BackingFollowsHost, DecisionBeforeCommit, AnswersAreTrue
and RollbackIsFinal.

**SessionLifecycle_proofs.** A mutation calls the Agent for the Session and its Chats one after the other, and takes
back what it has done when a call fails. `IInv` says what the remaining calls and the undo list of the running
mutation are about (`JobShape`), and what the Agent has of each subject in the middle of it (`Agreed`): what is
still to be called for is as it is recorded, what was called for is as it will be recorded, and what failed
differs only where it is about to be taken back or is noted in `doubt`. What the Agent has is compared with what the
Host's records say once it runs (`Now`): before, an available record has nothing loaded but what the restoration
has materialized so far. A restoration is one more kind of mutation in `JobShape`; when it fails, its undo
releases what it had materialized. Its sequences of calls come from an order of a finite set
of Chats, which is why `Chats` is assumed finite. From it: InductiveInvariant, TypeCorrect, BackingsAgree and
NothingIsLeaked.

**AgentPackageJournal_proofs.** That a restart accepts what it finds must hold not only of the disk but of every
state whose commit was refused and that may have been written nevertheless (`Candidates`). `IInv` says that each of
them is sound (one open transition at most, which starts from or has arrived at what is installed) and leads on
from the state in memory by one step of PackageCatalog or none, unless an operation has overtaken one that was
left open; and that at each step of an operation its record is in the phase that step expects (`Progress`). From it:
InductiveInvariant, JournalIsRestorable, and ChangesAreAtomic, the refinement of PackageCatalog, step by step.

What a process has made of the journal in memory needs a second invariant, `Kept`, which is claimed while nothing has
been overtaken. `InOrder` says which steps hold the gate and that the record is in the phase the step expects,
also after a refused commit. `Placed` says that every endpoint made for an operation is staged for it and known
by its record. `Serves` says which revision the Host calls at each step: that of the journal, but between the
commit of the catalog and the answer of the Host the one before it. While no commit was refused, `Settling` says
the rest: an activation belongs to a record that is owed, or to a refused registration (`Owners`); which side of
it the Host is on in each phase (`Sides`); that what was rolled back is gone before its record is closed
(`Undone`); that whatever is alive is in use or belongs to an activation (`Uses`); and who holds the gate
(`Gates`). The steps differ in what they disturb, and the lemmas are grouped by it: the registry's functions
field by field, the steps that write nothing, those that write the record of the head, and those that leave the
queue. The restart builds the registry by a fold over what is open; since `IInv` says that this is one operation at
most, the fold is the base of it or one application (`RestoredOfNone`, `RestoredOfOne`), and no induction is
needed. From it: AgreementIsKept, AgentIsAlive (HostAgentIsAlive) and NothingIsLeft (SettledLeavesNothing).

**PackageMutation_proofs.** Three actors work on two stores: the jobs of the catalog queue, the package operation,
and the Agents and clients. The proof has three layers, each inductive together with those before it.

- `Working` is for the drain. Beside the types (`Typed`) it says that `complete` is asked for once and is
  awaited (`Completing`), that the Host takes a Turn for open while the Agent runs it and until its one
  end is committed (`Turns`), and that the gate of the operation's Agent is closed from the drain on
  (`Gated`). From it: DrainedAgentRests.
- `Believing` is for the flags. While a job is between the Agent's answer and its own commit the runtime is ahead
  of its flag in the way the job's kind says, at every other point they agree (`Belief`); `CallCaptured` and
  `CallBegan` relate the copy of the Sessions that a job took before it called the Agent to those the Host
  has when the answer comes. The operation releases and restores parts in an order (`ChatsFirst`), and this is
  why it never leaves a Chat without its Session. From it: BeliefIsRight.
- `Agreeing` is for the two stores. `Locks` derives who holds the state lock from where the job and the
  operation are, so that a staged commit is not overtaken; `ResumesCaptured` does for resume values what
  `CallCaptured` does for flags; `Awaited` says that the part of the queue an operation awaits has every resume value its
  Agent has emitted, so that none is left when it goes on; `Emptied`, that what is released is not
  taken for materialized; `Carried` follows the
  record from the checkpoints through migration to the commit, and `Agreement` the two stores
  through commits, their rollbacks and the operation's return. From it: StoresAgree,
  CheckpointsAreCommitted, and TypeCorrect, which says of the lock and of the awaited tail
  what only the whole invariant can tell.

## 8. What is only model-checked, and what is not modelled

Only model-checked: all liveness (RecoveryEnds, UncertaintyEnds, OperationSettles, CancellationIsReported,
CallsEnd), which is out of the prover's reach, and of the safety properties HostReplication's SettledIsConverged.

Abstractions to know of:

- HostReplication: no root channel; contents are stamps; an answer is computed and enqueued in one
  step, as the Host's handlers of the three requests do not await between reading and answering.
- HostOperations: one logical connection, no `closing`; the reconnect call itself is HostReplication's.
- ApplicationStorage: no deletions, no `close`, no set of an equal value; a transaction of SQLite
  succeeds or fails as a whole.
- SessionConfiguration: the in-process Comet Agent dies with the Host; releases and materializations are
  one step each (they are serialised with updates by the catalog queue); the ledger is large enough
  that no queued query outlives its entry.
- PackageMutation: no restart within an operation (AgentPackageJournal has it), no deletion of Agent data,
  no purge, no artifact staging, no external activation port, no built-in preparation, no shutdown.
- HostTurns, AgentTurns: no queued or steered Turn (no Agent of the repository supports them), no Tool calls,
  no titles; one Chat; Claude's Agent is left out. Of Codex: no rotation of the credential, which retires the
  client; two sends that connect at once share one app-server; deleting a thread always succeeds; no
  notification is delivered after the exit event; a `turn/completed` has a valid status; the completion
  that is rejected while nobody awaits it yet is no unhandled rejection. The gate of a package operation is there
  for both Agents, as `acquirePackageMutation` takes any; in the product Codex meets that of the shutdown only,
  whose release of the backings is not modelled.
- SessionLifecycle: no forks, no archived state, no resume values; one Session. That no Agent is registered for a
  record at a restoration (`requireActiveAgent`, agentHostAuthority.ts:4767, outside the try) ends it before its first call.
- AgentPackageJournal: a user's package with one Agent; no cold update of the bundled package, deletion of
  Agent data, purge, eviction of the ledger of operations or precondition on the catalog's revision.
- ContentResources: one publication and one client; limits on bytes, pages and entries, the limit on all
  operations of the Host and the clocks of deadlines are left out (a deadline is a cancellation at any
  time); readers of the Host's own content never end.

Not modelled at all, with reasons, are the components that PROJECT.json lists as such: connected Agent
runtimes and Tool execution are in the plan of section 2; the Electron, DOM, PDF and vendor SDK parts have no
state of their own that a model of this code could check, and the editor's data structures are sequential.
