------------------------ MODULE SessionConfiguration ------------------------
(***************************************************************************)
(* Updates of Session configurations, as two-phase transactions between    *)
(* the Host catalog and the Agent that holds the Sessions.                 *)
(*                                                                         *)
(* agentHostAuthority.ts, updateSessionConfiguration and                   *)
(* reconcileSessionConfigurationFinalization: for a materialized Session   *)
(* the Host persists a rollback intent, lets the Agent prepare, persists   *)
(* the rollback as pending, persists the new configuration together with   *)
(* the commit decision, and then has the decision finalized and            *)
(* acknowledged, each time through the durable ledger of the catalog.      *)
(* The Agent's side is cometAgent.ts.  Calls to the Agent may fail with or *)
(* without their effect; commits of the catalog may be refused, as         *)
(* CatalogStore describes; the process may end at any step, and the Agent, *)
(* which runs in it, with it.                                              *)
(***************************************************************************)
EXTENDS Naturals, Sequences, FiniteSets, SequencesExt

CONSTANTS
  Ops,            \* the update operations
  Sessions,
  Configs,        \* configuration states
  InitialConfig,
  Retained,       \* maximumRetainedAgentHostSessionConfigurationFinalizations
  MaxCrashes,     \* bound: how often the process ends
  MaxRefusals,    \* bound: how often the database refuses a write
  MaxAsked        \* bound: finalizations queued by outcome requests at a time

ASSUME ConfigAssumption == InitialConfig \in Configs
ASSUME RetainedAssumption == Retained \in Nat \ {0}

None == "none"

VARIABLES
  disk,       \* the persisted catalog
  memory,     \* the catalog the Host holds
  stale,      \* is the storage's revision ahead of the Host's?
  late,       \* the refused catalog that storage may still write, if any
  landed,     \* history: has storage written what it had refused?
  up,         \* "serving"; "restoring" while create completes the ledger; "down"
  job,        \* the update or finalization at the head of the catalog queue
  asked,      \* finalizations queued by getOperationOutcome
  finalizing, \* pendingSessionConfigurationFinalizations
  registry,   \* op -> the outcome the Host answers
  agent,      \* the Agent's configuration of each Session, its transactions and
              \* the calls its operation registry has recorded
  decided,    \* history: operations whose commit decision was on the disk
  told,       \* history: op -> the terminal outcome its caller was told
              \* (both begin anew when the ledger has forgotten the operation)
  crashes, refusals

store == <<disk, memory, stale, late, landed, decided, refusals>>
host == <<up, job, asked, finalizing, registry>>
vars == <<store, host, agent, told, crashes>>

---------------------------------------------------------------------------
(* A transaction, as the job that runs it, the finalization that is        *)
(* pending, or the ledger entry that records it, describe it.              *)

NoJob == [at |-> None]
Job(op, session, config, decision, at) ==
  [op |-> op, session |-> session, config |-> config, decision |-> decision, at |-> at]

NoFinalization == NoJob

Entry(status, decision) ==
  [op |-> job.op, session |-> job.session, config |-> job.config,
   status |-> status, decision |-> decision]

\* Wrong variant: whatever is finalized has succeeded.
OutcomeOnceFinalized(decision) == "succeeded"

Outcome(decision) == IF decision = "commit" THEN "succeeded" ELSE "failed"

Entries(catalog) == Range(catalog.ledger)
LedgerOps(catalog) == {e.op : e \in Entries(catalog)}
Decided(catalog) == {e.op : e \in {f \in Entries(catalog) : f.decision = "commit"}}

Removable(ledger) == {i \in DOMAIN ledger : ledger[i].status = "acknowledged"}

\* The oldest acknowledged entry leaves a full ledger.
Evict(ledger) == RemoveAt(ledger, CHOOSE i \in Removable(ledger) :
                                    \A j \in Removable(ledger) : i <= j)

\* An operation has one entry at most.
Without(ledger, op) == RemoveAt(ledger, CHOOSE i \in DOMAIN ledger : ledger[i].op = op)

\* withSessionConfigurationFinalization replaces the operation's entry at the
\* end, or adds one, for which a full ledger makes room.  What is acknowledged
\* already stays where it is.
WithEntry(catalog, entry) ==
  LET ledger == catalog.ledger
      kept == IF entry.op \in LedgerOps(catalog) THEN Without(ledger, entry.op)
              ELSE IF Len(ledger) >= Retained THEN Evict(ledger) ELSE ledger
  IN  IF entry.status = "acknowledged" /\ entry \in Entries(catalog) THEN catalog
      ELSE [catalog EXCEPT !.ledger = Append(kept, entry)]

\* It throws on a full ledger with nothing to evict, and on a step back from
\* what is recorded.
Admits(catalog, entry) ==
  /\ \A old \in Entries(catalog) : old.op = entry.op =>
       /\ old.status = "acknowledged" => entry = old
       /\ old.status = "completed" => entry.status \in {"completed", "acknowledged"}
       /\ \/ old.decision = entry.decision
          \/ /\ old.status \in {"intent", "pending"} /\ entry.status = "pending"
             /\ old.decision = "rollback"
  /\ \/ entry.op \in LedgerOps(catalog)
     \/ Len(catalog.ledger) < Retained
     \/ Removable(catalog.ledger) # {}

---------------------------------------------------------------------------
(* commitHostState *)

\* Operations that leave the ledger are forgotten: the Host takes their names
\* for new ones, and here they are, of later operations.
Forgotten(next) == LedgerOps(memory) \ LedgerOps(next)
Forget(outcomes, none, next) ==
  [op \in Ops |-> IF op \in Forgotten(next) THEN none ELSE outcomes[op]]

\* The write is accepted.  The ledger is large: a request does not wait in the
\* queue until the operation it asks for is forgotten.
Persist(next) ==
  /\ ~stale /\ \A final \in asked : final.op \notin Forgotten(next)
  /\ disk' = next /\ memory' = next
  /\ decided' = (decided \ Forgotten(next)) \cup Decided(next)
  /\ UNCHANGED <<stale, late, landed, refusals>>

\* The write is refused: by the database, after which the storage's cache is
\* ahead and every later write is refused too.
Refuse(next) ==
  \/ stale /\ UNCHANGED store
  \/ /\ ~stale /\ refusals < MaxRefusals
     /\ refusals' = refusals + 1
     /\ stale' = TRUE
     /\ late' \in {{}, {next}}
     /\ UNCHANGED <<disk, memory, landed, decided>>

\* The commit of a catalog with this entry: what throws is refused as well.
CommitEntry(catalog, entry) == Admits(memory, entry) /\ Persist(WithEntry(catalog, entry))
RefuseEntry(catalog, entry) ==
  IF Admits(memory, entry) THEN Refuse(WithEntry(catalog, entry)) ELSE UNCHANGED store

\* A later flush writes what was refused.
Land ==
  /\ \E catalog \in late : disk' = catalog /\ decided' = decided \cup Decided(catalog)
  /\ late' = {} /\ landed' = TRUE
  /\ UNCHANGED <<memory, stale, refusals, host, agent, told, crashes>>

---------------------------------------------------------------------------
(* The Agent (cometAgent.ts): the guards say when a call throws instead.   *)

NoTransaction == [status |-> None]
Txn == agent.txn[job.op]
Active == agent.config[job.session]

WithTransaction(transaction) == [agent EXCEPT !.txn[job.op] = transaction]
Transaction(status) == WithTransaction([status |-> status, config |-> job.config])

\* Wrong variant: the candidate takes effect when it is prepared.
PreparedEagerly == [Transaction("prepared") EXCEPT !.config[job.session] = job.config]

Prepared == IF Txn = NoTransaction THEN Transaction("prepared") ELSE agent

CanFinalize(decision) ==
  IF decision = "commit" THEN Txn.status \in {"prepared", "committed"}
  ELSE IF Txn = NoTransaction THEN Active # job.config
  ELSE Txn.status # "committed"

Finalized(decision) ==
  IF decision = "commit"
    THEN [Transaction("committed") EXCEPT !.config[job.session] =
            IF Txn.status = "prepared" THEN job.config ELSE @]
    ELSE Transaction("rolledBack")

CanAcknowledge(decision) ==
  Txn.status \in {None, IF decision = "commit" THEN "committed" ELSE "rolledBack"}

Acknowledged == WithTransaction(NoTransaction)

\* CometOperationRegistry answers a repeated call from what it has recorded.
\* A call returns, or throws: without its effect, or with it when only the
\* answer is lost.  A recorded failure is a call that throws once more.
Recorded(call) == call \in agent.done[job.op]
Record(call, next) == agent' = [next EXCEPT !.done[job.op] = @ \cup {call}]

Returns(call, can, next) ==
  IF Recorded(call) THEN UNCHANGED agent ELSE can /\ Record(call, next)

Throws(call, can, next) == UNCHANGED agent \/ (~Recorded(call) /\ can /\ Record(call, next))

---------------------------------------------------------------------------
(* updateSessionConfiguration *)

At(stage) == up # "down" /\ job.at = stage
Goto(stage) == job' = [job EXCEPT !.at = stage]

\* The job ends with a terminal outcome, which the registry keeps and the
\* caller of the mutation or outcome call may be told, or pending, which ends
\* a Host that is still restoring.
SettleWith(op, outcome, catalog) ==
  /\ job' = NoJob
  /\ registry' = [Forget(registry, "unknown", catalog) EXCEPT ![op] = outcome]
  /\ LET known == Forget(told, None, catalog) IN
       told' \in {known, [known EXCEPT ![op] = outcome]}
  /\ UNCHANGED <<up, asked>>

Settle(op, outcome) == SettleWith(op, outcome, memory)

StayPending ==
  /\ job' = NoJob
  /\ up' = IF up = "restoring" THEN "down" ELSE up
  /\ UNCHANGED <<asked, finalizing, registry, told>>

PendingIn(session) ==
  \E op \in Ops : finalizing[op] # NoFinalization /\ finalizing[op].session = session

\* A mutation request that reaches the head of the queue.  A Session whose
\* finalization is pending takes no other update.
Update(op, session, config) ==
  /\ up = "serving" /\ job = NoJob
  /\ told[op] = None /\ registry[op] = "unknown"
  /\ IF ~PendingIn(session)
       THEN LET direct == config = memory.config[session] \/ ~memory.open[session] IN
            /\ registry' = [registry EXCEPT ![op] = "pending"]
            /\ job' = IF direct THEN Job(op, session, config, "commit", "record")
                               ELSE Job(op, session, config, "rollback", "intent")
            /\ UNCHANGED <<up, asked, told>>
       ELSE Settle(op, "failed")
  /\ agent' = [agent EXCEPT !.done[op] = {}]   \* of the earlier operation of this name
  /\ UNCHANGED <<store, finalizing, crashes>>

\* An unchanged configuration, or a Session without materialized backing,
\* needs no Agent: the decision is recorded as already acknowledged.
RecordDirectly ==
  /\ At("record")
  /\ LET entry == Entry("acknowledged", "commit")
         next == [memory EXCEPT !.config[job.session] = job.config] IN
       \/ /\ CommitEntry(next, entry)
          /\ SettleWith(job.op, "succeeded", WithEntry(next, entry))
       \/ RefuseEntry(next, entry) /\ Settle(job.op, "failed")
  /\ UNCHANGED <<finalizing, agent, crashes>>

PersistIntent ==
  /\ At("intent")
  /\ LET entry == Entry("intent", "rollback") IN
       \/ /\ CommitEntry(memory, entry)
          /\ Goto("prepare")
          /\ registry' = Forget(registry, "unknown", WithEntry(memory, entry))
          /\ told' = Forget(told, None, WithEntry(memory, entry))
          /\ UNCHANGED <<up, asked>>
       \/ RefuseEntry(memory, entry) /\ Settle(job.op, "failed")
  /\ UNCHANGED <<finalizing, agent, crashes>>

Prepare ==
  /\ At("prepare")
  /\ \/ Returns("prepare", TRUE, Prepared) /\ Goto("prepared")
     \/ Throws("prepare", TRUE, Prepared) /\ Goto("unprepared")
  /\ UNCHANGED <<store, up, asked, finalizing, registry, told, crashes>>

\* The decision goes to the finalization, which follows in the same job.
Finalization(decision) ==
  LET final == Job(job.op, job.session, job.config, decision, "finalize") IN
  /\ finalizing' = [finalizing EXCEPT ![job.op] = final]
  /\ job' = final
  /\ UNCHANGED <<up, asked, registry, told>>

\* A preparation that failed is rolled back; "the durable intent remains the
\* authoritative rollback decision" if this cannot be persisted.
PersistUnprepared ==
  /\ At("unprepared")
  /\ LET entry == Entry("pending", "rollback") IN
       CommitEntry(memory, entry) \/ RefuseEntry(memory, entry)
  /\ Finalization("rollback")
  /\ UNCHANGED <<agent, crashes>>

PersistPrepared ==
  /\ At("prepared")
  /\ LET entry == Entry("pending", "rollback") IN
       \/ CommitEntry(memory, entry) /\ Goto("decide") /\ UNCHANGED <<up, asked, finalizing, registry, told>>
       \/ RefuseEntry(memory, entry) /\ Finalization("rollback")
  /\ UNCHANGED <<agent, crashes>>

\* The new configuration and the commit decision are one write.
DecideWith(ifAccepted, ifRefused) ==
  /\ At("decide")
  /\ LET entry == Entry("pending", "commit")
         next == [memory EXCEPT !.config[job.session] = job.config] IN
       \/ CommitEntry(next, entry) /\ Finalization(ifAccepted)
       \/ RefuseEntry(next, entry) /\ Finalization(ifRefused)
  /\ UNCHANGED <<agent, crashes>>

\* Wrong variants: the Agent commits although the decision was refused; it
\* rolls back although it was accepted.
DecideRegardless == DecideWith("commit", "commit")
DecideThenRollBack == DecideWith("rollback", "rollback")

Decide == DecideWith("commit", "rollback")

---------------------------------------------------------------------------
(* reconcileSessionConfigurationFinalization *)

Advance(stage) ==
  /\ Goto(stage)
  /\ UNCHANGED <<up, asked, finalizing, registry, told>>

Finalize ==
  /\ At("finalize")
  /\ LET can == CanFinalize(job.decision) next == Finalized(job.decision) IN
       \/ Returns(job.decision, can, next) /\ Advance("complete")
       \/ Throws(job.decision, can, next) /\ StayPending
  /\ UNCHANGED <<store, crashes>>

PersistCompleted ==
  /\ At("complete")
  /\ LET entry == Entry("completed", job.decision) IN
       \/ /\ CommitEntry(memory, entry)
          /\ Goto("acknowledge")
          /\ finalizing' = [finalizing EXCEPT ![job.op] = job']
          /\ UNCHANGED <<up, asked, registry, told>>
       \/ RefuseEntry(memory, entry) /\ StayPending
  /\ UNCHANGED <<agent, crashes>>

Acknowledge ==
  /\ At("acknowledge")
  /\ LET can == CanAcknowledge(job.decision) IN
       \/ Returns("acknowledge", can, Acknowledged) /\ Advance("forget")
       \/ Throws("acknowledge", can, Acknowledged) /\ StayPending
  /\ UNCHANGED <<store, crashes>>

PersistAcknowledged ==
  /\ At("forget")
  /\ LET entry == Entry("acknowledged", job.decision) IN
       \/ /\ CommitEntry(memory, entry)
          /\ finalizing' = [finalizing EXCEPT ![job.op] = NoFinalization]
          /\ Settle(job.op, Outcome(job.decision))
       \/ RefuseEntry(memory, entry) /\ StayPending
  /\ UNCHANGED <<agent, crashes>>

\* getOperationOutcome answers from the registry, or queues the finalization
\* with what it finds pending now.
Ask(op) ==
  /\ up = "serving" /\ told[op] = None
  /\ \/ /\ finalizing[op] # NoFinalization
        /\ asked' = asked \cup {finalizing[op]} /\ Cardinality(asked') <= MaxAsked
        /\ UNCHANGED told
     \/ /\ finalizing[op] = NoFinalization /\ registry[op] \in {"succeeded", "failed"}
        /\ told' = [told EXCEPT ![op] = registry[op]]
        /\ UNCHANGED asked
  /\ UNCHANGED <<store, up, job, finalizing, registry, agent, crashes>>

RunAsked ==
  /\ up = "serving" /\ job = NoJob
  /\ \E final \in asked : job' = final /\ asked' = asked \ {final}
  /\ UNCHANGED <<store, up, finalizing, registry, agent, told, crashes>>

---------------------------------------------------------------------------
(* Release and materialization of a Session's backing, each of which is    *)
(* undone at the Agent when its commit is refused.                         *)

SetOpen(session, open, config) ==
  /\ up = "serving" /\ job = NoJob /\ ~PendingIn(session)
  /\ memory.open[session] # open
  /\ Persist([memory EXCEPT !.open[session] = open])
  /\ agent' = [agent EXCEPT !.config[session] = config]
  /\ UNCHANGED <<host, told, crashes>>

ReleaseSession(session) == SetOpen(session, FALSE, None)
MaterializeSession(session) == SetOpen(session, TRUE, memory.config[session])

---------------------------------------------------------------------------
(* The end of the process, and AgentHostAuthority.create *)

Crash ==
  /\ up # "down" /\ crashes < MaxCrashes
  /\ crashes' = crashes + 1
  /\ up' = "down"
  /\ job' = NoJob /\ asked' = {}
  /\ UNCHANGED <<store, finalizing, registry, agent, told>>

\* restoreSessionConfigurationFinalizationLedger and restoreCatalogBackings.
\* Only what is completed still has to be acknowledged by an Agent, a new one
\* that was materialized from the committed configuration.
RestoredStage(entry) == IF entry.status = "completed" THEN "acknowledge" ELSE "forget"

FinalizationOf(entry) ==
  Job(entry.op, entry.session, entry.config, entry.decision, RestoredStage(entry))

Start ==
  /\ up = "down"
  /\ up' = "restoring"
  /\ memory' = disk /\ stale' = FALSE /\ late' = {}
  /\ LET unsettled == {e \in Entries(disk) : e.status # "acknowledged"}
         EntryOf(op) == CHOOSE e \in Entries(disk) : e.op = op IN
       /\ finalizing' = [op \in Ops |-> IF \E e \in unsettled : e.op = op
                                          THEN FinalizationOf(EntryOf(op)) ELSE NoFinalization]
       /\ registry' = [op \in Ops |-> IF op \notin LedgerOps(disk) THEN "unknown"
                                      ELSE IF EntryOf(op) \in unsettled THEN "pending"
                                      ELSE Outcome(EntryOf(op).decision)]
  /\ agent' = [config |-> [s \in Sessions |-> IF disk.open[s] THEN disk.config[s] ELSE None],
               txn |-> [op \in Ops |-> NoTransaction],
               done |-> [op \in Ops |-> {}]]
  /\ UNCHANGED <<disk, landed, decided, refusals, job, asked, told, crashes>>

\* completeRestoredSessionConfigurationFinalizations, one after another.
RestoreNext ==
  /\ up = "restoring" /\ job = NoJob
  /\ \E op \in Ops : finalizing[op] # NoFinalization /\ job' = finalizing[op]
  /\ UNCHANGED <<store, up, asked, finalizing, registry, agent, told, crashes>>

Restored ==
  /\ up = "restoring" /\ job = NoJob
  /\ \A op \in Ops : finalizing[op] = NoFinalization
  /\ up' = "serving"
  /\ UNCHANGED <<store, job, asked, finalizing, registry, agent, told, crashes>>

---------------------------------------------------------------------------

Init ==
  /\ disk = [config |-> [s \in Sessions |-> InitialConfig],
             open |-> [s \in Sessions |-> TRUE], ledger |-> <<>>]
  /\ memory = disk /\ stale = FALSE /\ late = {} /\ refusals = 0
  /\ landed = FALSE
  /\ up = "serving" /\ job = NoJob /\ asked = {}
  /\ finalizing = [op \in Ops |-> NoFinalization]
  /\ registry = [op \in Ops |-> "unknown"]
  /\ agent = [config |-> disk.config, txn |-> [op \in Ops |-> NoTransaction],
               done |-> [op \in Ops |-> {}]]
  /\ decided = {} /\ told = [op \in Ops |-> None] /\ crashes = 0

Next ==
  \/ \E op \in Ops, session \in Sessions, config \in Configs : Update(op, session, config)
  \/ RecordDirectly \/ PersistIntent \/ Prepare \/ PersistUnprepared \/ PersistPrepared \/ Decide
  \/ Finalize \/ PersistCompleted \/ Acknowledge \/ PersistAcknowledged
  \/ \E op \in Ops : Ask(op)
  \/ RunAsked \/ Land \/ Crash \/ Start \/ RestoreNext \/ Restored
  \/ \E session \in Sessions : ReleaseSession(session) \/ MaterializeSession(session)

Spec == Init /\ [][Next]_vars

---------------------------------------------------------------------------
(* Properties *)

Catalogs(catalog) ==
  /\ catalog.config \in [Sessions -> Configs] /\ catalog.open \in [Sessions -> BOOLEAN]
  /\ Len(catalog.ledger) <= Retained
  /\ \A e \in Entries(catalog) : e.status \in {"intent", "pending", "completed", "acknowledged"}

\* Besides the types: a Session has at most one transaction under way.
TypeOK ==
  /\ Catalogs(disk) /\ Catalogs(memory) /\ \A catalog \in late : Catalogs(catalog)
  /\ stale \in BOOLEAN /\ landed \in BOOLEAN /\ up \in {"serving", "restoring", "down"}
  /\ job.at \in {None, "record", "intent", "prepare", "unprepared", "prepared", "decide",
                 "finalize", "complete", "acknowledge", "forget"}
  /\ registry \in [Ops -> {"unknown", "pending", "succeeded", "failed"}]
  /\ told \in [Ops -> {None, "succeeded", "failed"}]
  /\ decided \subseteq Ops
  /\ agent.config \in [Sessions -> Configs \cup {None}]
  /\ \A s \in Sessions :
       Cardinality({op \in Ops : finalizing[op] # NoFinalization /\ finalizing[op].session = s}) <= 1

\* Whenever nothing is under way for a Session, its materialized backing runs
\* with exactly the configuration the Host holds authoritative, whatever
\* failed, was repeated or was interrupted on the way.
AgentFollowsHost ==
  up = "serving" => \A s \in Sessions :
    memory.open[s] /\ ~PendingIn(s) /\ (job = NoJob \/ job.session # s)
      => agent.config[s] = memory.config[s]

\* The Agent applies a candidate only after the decision to commit it is on
\* the disk, where a restart finds it.
DecisionComesFirst ==
  \A op \in Ops : agent.txn[op].status = "committed" => op \in decided

\* A caller that was told "succeeded" can rely on the decision having been
\* durable, and one that was told "failed" on there never having been one,
\* across any number of restarts, unless storage writes what it had refused.
ToldIsTrue ==
  \A op \in Ops : /\ told[op] = "succeeded" => op \in decided
                  /\ told[op] = "failed" => op \notin decided \/ landed

\* AGENT_HOST.md: the Host "retains the rollback decision when candidate
\* persistence fails, before requesting runtime finalization".  What the Agent
\* rolled back is not committed on the disk, if the storage does lose what it
\* refuses: a refused decision that the storage writes later is (landed).
RollbackIsFinalOnceLost ==
  ~landed => \A op \in Ops : agent.txn[op].status = "rolledBack" => op \notin decided
=============================================================================
