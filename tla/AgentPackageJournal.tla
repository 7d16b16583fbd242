------------------------ MODULE AgentPackageJournal ------------------------
(***************************************************************************)
(* The journal of the operations on one Agent package, and what a process  *)
(* makes of it.                                                            *)
(*                                                                         *)
(* AgentPackageLifecycle (agentPackageLifecycle.ts) runs an operation in   *)
(* phases, each of which is committed to the package store together with   *)
(* what is installed.  Beside the store are three things in memory: the    *)
(* endpoints of AgentPackageActivationRegistry, the gate of the Host and   *)
(* the Agent that the Host calls.  A step fails, its compensation fails, a *)
(* commit is refused, the process ends; the next one reads the journal,    *)
(* builds the endpoints again, and the caller repeats the operation under  *)
(* the same identity.                                                      *)
(*                                                                         *)
(* The package is a user's package with one Agent.  A refused commit stays *)
(* in the cache of the storage (CatalogStore): every later one is refused  *)
(* until the process ends, and it may be found on the disk then.           *)
(***************************************************************************)
EXTENDS Naturals, Sequences, SequencesExt, FiniteSets, FiniteSetsExt

CONSTANTS
  Ops, Revisions, Absent,
  MaxCrashes,     \* bound: ends of the process
  MaxFailures     \* bound: steps and commits that fail

VARIABLES
  request,    \* what the caller asks for under each identity; it outlives the process
  disk,       \* the stored state: [installed, records]
  refused,    \* the states that may be found on the disk although their commit was refused
  journal,    \* this.state
  attempted,  \* operations without a record: "no" | "new" (to be recorded) | "known"
  retry,      \* retryRequired of each operation
  tail,       \* operationTail; the first of it runs
  at,         \* the step of the operation that runs
  run,        \* whether it has a mutation of the Host, and an artifact of its own
  registry,   \* AgentPackageActivationRegistry
  host,       \* the Agent the Host calls, and its gate
  up,         \* is there a Host?
  residue,    \* operations whose prepared registrations were refused
  stuck,      \* operations whose rollback of the Host failed
  overtaken,  \* has an operation begun while another was left open?
  crashes, failures

vars == <<request, disk, refused, journal, attempted, retry, tail, at, run, registry, host, up,
          residue, stuck, overtaken, crashes, failures>>

\* A record with "again" has failed with sameOperationRequired, one with "failed" terminally.
Phases == {"recorded", "activationPrepared", "activationCommitted", "catalogCommitted"}
NoRecord == [status |-> "absent", phase |-> "recorded", previous |-> Absent]
Pending == [NoRecord EXCEPT !.status = "pending"]
Unresolved(r) == r.status \in {"pending", "again"}

\* The disk as a PackageCatalog sees it: what an operation has written while its
\* outcome is open is not installed yet.
Installed ==
  LET open == {o \in Ops : Unresolved(disk.records[o]) /\ disk.records[o].phase = "catalogCommitted"}
  IN  IF open = {} THEN disk.installed ELSE disk.records[CHOOSE o \in open : TRUE].previous
Outcome ==
  [o \in Ops |-> IF disk.records[o].status \in {"succeeded", "failed"} THEN disk.records[o].status ELSE "open"]

Catalog == INSTANCE PackageCatalog WITH installed <- Installed, outcome <- Outcome
Requests == Catalog!Requests
Targets == Revisions \cup {Absent}

\* An endpoint is a runtime of a revision, created for an operation or to restore what is installed.
Restored == "restored"
Endpoint(revision, by) == [revision |-> revision, by |-> by]
None == Endpoint(Absent, Restored)
NoActivation == [state |-> "none", previous |-> None, next |-> None]

NoRun == [mutation |-> FALSE, staged |-> FALSE]
NoRegistry == [active |-> None, resolved |-> [r \in Revisions |-> None],
               staged |-> [r \in Revisions |-> Absent],
               ops |-> [o \in Ops |-> NoActivation], alive |-> {}]
NoHost == [agent |-> None, gate |-> Absent]

ASSUME OpsAssumption == Absent \notin Ops /\ Restored \notin Ops
ASSUME RevisionsAssumption == Absent \notin Revisions /\ Absent \notin Requests
ASSUME BoundsAssumption == MaxCrashes \in Nat /\ MaxFailures \in Nat

Head1 == Head(tail)
Target(o) == request[o].target
Known(o) == journal.records[o].status # "absent" \/ attempted[o] # "no"
Rec(o) == IF journal.records[o].status = "absent" THEN Pending ELSE journal.records[o]

Fails == failures < MaxFailures /\ failures' = failures + 1

---------------------------------------------------------------------------
(* The store: a commit, and its refusal. *)

WithRecord(o, r) == [journal EXCEPT !.records[o] = r]

Commits(state) == refused = {} /\ journal' = state /\ disk' = state /\ UNCHANGED <<refused, failures>>

Refuses(state) ==
  /\ \/ refused # {} /\ UNCHANGED <<refused, failures>>
     \/ refused = {} /\ refused' = {state} /\ Fails
  /\ UNCHANGED <<journal, disk>>

---------------------------------------------------------------------------
(* The activation registry, as functions of it. *)

Publish(reg, e) == IF e = None THEN reg ELSE [reg EXCEPT !.resolved[e.revision] = e]

Unpublish(reg, e) ==
  IF e # None /\ reg.resolved[e.revision] = e THEN [reg EXCEPT !.resolved[e.revision] = None] ELSE reg

DisposeOf(reg, e) == [Unpublish(reg, e) EXCEPT !.alive = @ \ {e}]

Unstage(reg, o, e) ==
  IF e # None /\ reg.staged[e.revision] = o THEN [reg EXCEPT !.staged[e.revision] = Absent] ELSE reg

PrepareAccepted(o) ==
  /\ registry.active.revision = journal.installed
  /\ registry.ops[o].state \in {"none", "prepared"}
  /\ registry.ops[o].state = "none" /\ Target(o) # Absent => registry.staged[Target(o)] = Absent

PrepareActivation(o) ==
  IF registry.ops[o].state = "prepared" THEN registry
  ELSE LET next == IF Target(o) = Absent THEN None ELSE Endpoint(Target(o), o)
           made == [registry EXCEPT !.ops[o] = [state |-> "prepared", previous |-> registry.active, next |-> next]]
       IN  IF next = None THEN made
           ELSE [made EXCEPT !.staged[next.revision] = o, !.alive = @ \cup {next}]

CommitAccepted(o) ==
  LET it == registry.ops[o]
  IN  \/ it.state = "committed"
      \/ it.state = "prepared" /\ (it.next # None => registry.resolved[it.next.revision] \in {None, it.next})

\* commitActivation, and what a restart makes of activationCommitted.  An
\* uninstallation has no next endpoint and leaves the previous one published.
CommitActivation(reg, o) ==
  LET it == reg.ops[o]
      swapped == IF it.next = None THEN reg ELSE Publish(Unpublish(reg, it.previous), it.next)
  IN  [swapped EXCEPT !.ops[o].state = "committed"]

RetirePrevious(o) ==
  LET it == registry.ops[o]
      kept == IF it.previous # it.next THEN DisposeOf(registry, it.previous) ELSE registry
  IN  [Unstage(kept, o, it.next) EXCEPT !.active = it.next, !.ops[o] = [NoActivation EXCEPT !.state = "retired"]]

\* Wrong variant: the next endpoint is disposed of and stays staged.
WithoutNextButStaged(o, it) == DisposeOf(registry, it.next)

WithoutNext(o, it) ==
  IF it.next # None /\ it.next # it.previous THEN DisposeOf(Unstage(registry, o, it.next), it.next) ELSE registry

RollbackActivation(o) ==
  LET it == registry.ops[o]
  IN  IF it.state = "rolledBack" THEN registry
      ELSE [Publish(WithoutNext(o, it), it.previous) EXCEPT !.ops[o] = [NoActivation EXCEPT !.state = "rolledBack"]]

Acknowledge(o) ==
  IF registry.ops[o].state \in {"retired", "rolledBack"} THEN [registry EXCEPT !.ops[o] = NoActivation] ELSE registry

---------------------------------------------------------------------------
(* Asking for an operation, and repeating it: runOperation. *)

LeftOpen(x) == Known(x) /\ Unresolved(Rec(x)) /\ ~Contains(tail, x)

\* A new operation is refused while another is left open.  One that is queued
\* behind the other before that begins all the same.
Submit(o) ==
  /\ up /\ ~Known(o)
  /\ \A x \in Ops : ~LeftOpen(x)
  /\ IF request[o] = Absent THEN \E q \in Requests : request' = [request EXCEPT ![o] = q]
                            ELSE UNCHANGED request
  /\ attempted' = [attempted EXCEPT ![o] = "new"]
  /\ retry' = [retry EXCEPT ![o] = FALSE]
  /\ tail' = Append(tail, o)
  /\ UNCHANGED <<disk, refused, journal, at, run, registry, host, up, residue, stuck, overtaken,
                 crashes, failures>>

Repeat(o) ==
  /\ up /\ LeftOpen(o)
  /\ tail' = Append(tail, o)
  /\ UNCHANGED <<request, disk, refused, journal, attempted, retry, at, run, registry, host, up,
                 residue, stuck, overtaken, crashes, failures>>

\* The operation leaves the queue and its caller is answered.
Leaves ==
  /\ tail' = Tail(tail) /\ at' = "idle" /\ run' = NoRun

---------------------------------------------------------------------------
(* The steps of the operation that runs. *)

Running(step) == up /\ at = step

\* It has begun before and its outcome is open.
Begun(x) == Known(x) /\ Unresolved(Rec(x)) /\ attempted[x] # "new"

\* A new operation and one that has failed are recorded as pending first.
Begin ==
  LET o == Head1
      record == WithRecord(o, [Rec(o) EXCEPT !.status = "pending"])
  IN
  /\ Running("idle") /\ tail # <<>>
  /\ overtaken' = (overtaken \/ \E x \in Ops \ {o} : Begun(x))
  /\ \/ attempted[o] # "new" /\ Rec(o).status = "pending"
        /\ at' = "execute" /\ UNCHANGED <<disk, refused, journal, tail, run, failures>>
     \/ (attempted[o] = "new" \/ Rec(o).status = "again") /\ Commits(record)
        /\ at' = "execute" /\ UNCHANGED <<tail, run>>
     \/ attempted[o] = "new" /\ Refuses(record) /\ at' = "fail" /\ UNCHANGED <<tail, run>>
     \/ Rec(o).status = "again" /\ Refuses(record) /\ Leaves
  /\ attempted' = [attempted EXCEPT ![o] = IF journal'.records[o].status = "absent" THEN "known" ELSE "no"]
  /\ UNCHANGED <<request, retry, registry, host, up, residue, stuck, crashes>>

\* What executeInstall, executeUpdate and executeUninstall refuse before the try
\* that rolls back; an installation and an update look at a new operation only.
Inapplicable(o) ==
  CASE Rec(o).phase = "recorded" -> ~Catalog!Applicable(request[o], journal.installed)
    [] Rec(o).phase \in {"activationPrepared", "activationCommitted"} -> Target(o) = Absent /\ journal.installed = Absent
    [] OTHER -> FALSE

\* A refusal leaves retryRequired as it is.
Execute ==
  LET o == Head1 IN
  /\ Running("execute")
  /\ \/ Rec(o).phase = "catalogCommitted" /\ at' = "retire" /\ retry' = [retry EXCEPT ![o] = TRUE]
     \/ Rec(o).phase # "catalogCommitted" /\ UNCHANGED retry
        /\ at' = (IF Inapplicable(o) THEN "fail" ELSE IF Rec(o).phase = "recorded" THEN "prepare" ELSE "acquire")
  /\ UNCHANGED <<request, disk, refused, journal, attempted, tail, run, registry, host, up, residue,
                 stuck, overtaken, crashes, failures>>

\* The artifact is staged, the runtime created and its registrations are looked
\* at (assertRegistrationSet).  A runtime whose registrations are refused stays
\* prepared: the record does not name it, so nothing rolls it back.
Prepare ==
  LET o == Head1 IN
  /\ Running("prepare")
  /\ \/ Target(o) # Absent /\ Fails /\ at' = "rollback" /\ UNCHANGED <<run, registry, residue>>
     \/ /\ run' = [run EXCEPT !.staged = Target(o) # Absent]
        /\ \/ ~PrepareAccepted(o) /\ at' = "rollback" /\ UNCHANGED <<registry, residue, failures>>
           \/ /\ PrepareAccepted(o) /\ registry' = PrepareActivation(o)
              /\ \/ at' = "record" /\ UNCHANGED <<residue, failures>>
                 \/ Target(o) # Absent /\ Fails /\ at' = "rollback" /\ residue' = residue \cup {o}
  /\ UNCHANGED <<request, disk, refused, journal, attempted, retry, tail, host, up, stuck, overtaken, crashes>>

\* commitOperationRecord with the next phase; the previous side is that of the transition.
RecordPhase(step, phase, next) ==
  LET o == Head1
      previous == IF phase = "activationPrepared" THEN journal.installed ELSE Rec(o).previous
      state == WithRecord(o, [status |-> "pending", phase |-> phase, previous |-> previous])
  IN
  /\ Running(step)
  /\ \/ Commits(state) /\ at' = next
     \/ Refuses(state) /\ at' = "rollback"
  /\ UNCHANGED <<request, attempted, retry, tail, run, registry, host, up, residue, stuck, overtaken, crashes>>

\* assertCandidateClaims and acquirePackageMutation.
Acquire ==
  /\ Running("acquire")
  /\ \/ host.gate # Absent /\ at' = "rollback" /\ UNCHANGED <<run, host, failures>>
     \/ Target(Head1) # Absent /\ Fails /\ at' = "rollback" /\ UNCHANGED <<run, host>>
     \/ /\ host.gate = Absent
        /\ host' = [host EXCEPT !.gate = Head1] /\ run' = [run EXCEPT !.mutation = TRUE]
        /\ at' = "drain" /\ UNCHANGED failures
  /\ UNCHANGED <<request, disk, refused, journal, attempted, retry, tail, registry, up, residue,
                 stuck, overtaken, crashes>>

\* The drain, the release of the backings, their migration by the prepared
\* endpoint and mutation.prepareActivation, which asks for it too.
Drain ==
  LET o == Head1
      staged == Target(o) # Absent => registry.staged[Target(o)] = o
  IN
  /\ Running("drain")
  /\ \/ staged /\ at' = "commit" /\ UNCHANGED failures
     \/ at' = "rollback" /\ IF staged THEN Fails ELSE UNCHANGED failures
  /\ UNCHANGED <<request, disk, refused, journal, attempted, retry, tail, run, registry, host, up,
                 residue, stuck, overtaken, crashes>>

Commit ==
  LET o == Head1 IN
  /\ Running("commit")
  /\ \/ Rec(o).phase = "activationCommitted" /\ at' = "catalog" /\ UNCHANGED <<retry, registry>>
     \/ /\ Rec(o).phase = "activationPrepared" /\ retry' = [retry EXCEPT ![o] = TRUE]
        /\ IF ~CommitAccepted(o) THEN at' = "rollback" /\ UNCHANGED registry
           ELSE /\ at' = "recordCommitted"
                /\ registry' = IF registry.ops[o].state = "committed" THEN registry ELSE CommitActivation(registry, o)
  /\ UNCHANGED <<request, disk, refused, journal, attempted, tail, run, host, up, residue, stuck,
                 overtaken, crashes, failures>>

\* Record, packages and registrations in one commit, with the state lock held
\* until the Host has completed or the previous state is written again.
CommitCatalog ==
  LET o == Head1
      state == [WithRecord(o, [Rec(o) EXCEPT !.phase = "catalogCommitted"]) EXCEPT !.installed = Target(o)]
  IN
  /\ Running("catalog")
  /\ \/ Commits(state) /\ at' = "complete"
     \/ Refuses(state) /\ at' = "rollback"
  /\ UNCHANGED <<request, attempted, retry, tail, run, registry, host, up, residue, stuck, overtaken, crashes>>

\* Wrong variant: the gate is opened and the previous Agent stays in use.
Reopened(o) == [host EXCEPT !.gate = Absent]

Switched(o) == [agent |-> registry.ops[o].next, gate |-> Absent]

\* mutation.complete: the Host calls the staged Agent and opens the gate, or
\* goes on with the previous one.
Complete ==
  LET o == Head1 IN
  /\ Running("complete")
  /\ \/ /\ host' = Switched(o)
        /\ at' = "retire" /\ UNCHANGED failures
     \/ Fails /\ at' = "restore" /\ UNCHANGED host
  /\ UNCHANGED <<request, disk, refused, journal, attempted, retry, tail, run, registry, up, residue,
                 stuck, overtaken, crashes>>

\* Wrong variant: the packages are written back, the record is not.
PreviousPackages(o) == [journal EXCEPT !.installed = Rec(o).previous]

\* Wrong variant: the record is written back, the packages are not.
PreviousRecord(o) == WithRecord(o, [Rec(o) EXCEPT !.phase = "activationCommitted"])

PreviousState(o) ==
  [WithRecord(o, [Rec(o) EXCEPT !.phase = "activationCommitted"]) EXCEPT !.installed = Rec(o).previous]

RestorePrevious ==
  /\ Running("restore")
  /\ \/ Commits(PreviousState(Head1)) /\ at' = "rollback"
     \/ Refuses(PreviousState(Head1)) /\ at' = "fail"
  /\ UNCHANGED <<request, attempted, retry, tail, run, registry, host, up, residue, stuck, overtaken, crashes>>

\* Nothing else gets here (TypeOK), so that the assertion of retirePreviousActivation holds.
Retire ==
  LET o == Head1 IN
  /\ Running("retire")
  /\ \/ registry.ops[o].state = "retired" /\ at' = "succeed" /\ UNCHANGED registry
     \/ registry.ops[o].state = "committed" /\ at' = "succeed" /\ registry' = RetirePrevious(o)
  /\ UNCHANGED <<request, disk, refused, journal, attempted, retry, tail, run, host, up, residue,
                 stuck, overtaken, crashes, failures>>

Succeed ==
  LET o == Head1
      state == WithRecord(o, [NoRecord EXCEPT !.status = "succeeded"])
  IN
  /\ Running("succeed")
  /\ \/ Commits(state) /\ Leaves /\ registry' = Acknowledge(o)
     \/ Refuses(state) /\ at' = "fail" /\ UNCHANGED <<tail, run, registry>>
  /\ UNCHANGED <<request, attempted, retry, host, up, residue, stuck, overtaken, crashes>>

\* Wrong variant: what is to be repeated once is to be repeated for ever.
RetryStill(o, confirmed) == retry[o]

RetryRequired(o, confirmed) == retry[o] /\ ~confirmed

\* throwWithConfirmedRollback: every compensation is tried, and only when all
\* have succeeded is the operation known to have left nothing behind.
Rollback ==
  LET o == Head1
      owed == /\ Rec(o).phase # "recorded"
              /\ Target(o) = Absent /\ ~run.mutation => Rec(o).phase = "activationPrepared"
      undone == registry.ops[o].state \in {"prepared", "committed", "rolledBack"}
  IN
  /\ Running("rollback")
  /\ registry' = IF owed /\ undone THEN RollbackActivation(o) ELSE registry
  /\ \E reopened, discarded \in BOOLEAN :
       /\ ~reopened => run.mutation
       /\ ~discarded => run.staged
       /\ IF reopened /\ discarded THEN UNCHANGED failures ELSE Fails
       /\ host' = IF run.mutation /\ reopened THEN [host EXCEPT !.gate = Absent] ELSE host
       /\ stuck' = IF reopened THEN stuck ELSE stuck \cup {o}
       /\ retry' = [retry EXCEPT ![o] = RetryRequired(o, reopened /\ discarded /\ (owed => undone))]
  /\ at' = "fail"
  /\ UNCHANGED <<request, disk, refused, journal, attempted, tail, run, up, residue, overtaken, crashes>>

\* The catch of runOperation.
Fail ==
  LET o == Head1
      state == WithRecord(o, [Rec(o) EXCEPT !.status = IF retry[o] THEN "again" ELSE "failed"])
  IN
  /\ Running("fail") /\ Leaves
  /\ \/ /\ Commits(state)
        /\ registry' = IF ~retry[o] /\ Rec(o).phase # "recorded" THEN Acknowledge(o) ELSE registry
     \/ Refuses(state) /\ UNCHANGED registry
  /\ UNCHANGED <<request, attempted, retry, host, up, residue, stuck, overtaken, crashes>>

Step ==
  \/ Begin \/ Execute \/ Prepare \/ RecordPhase("record", "activationPrepared", "acquire")
  \/ Acquire \/ Drain \/ Commit \/ RecordPhase("recordCommitted", "activationCommitted", "catalog")
  \/ CommitCatalog \/ Complete \/ RestorePrevious \/ Retire \/ Succeed \/ Rollback \/ Fail

---------------------------------------------------------------------------
(* The end of the process, and the next one: AgentPackageLifecycle.create, *)
(* restoreActivationState, and the Host, which resolves every registration *)
(* of what is installed (validateComposition).                             *)

Open(state) == {o \in Ops : Unresolved(state.records[o]) /\ state.records[o].phase # "recorded"}

\* The assertions of restoreActivationState.
RestoreAccepts(state) ==
  \A o \in Open(state) :
    state.installed = IF state.records[o].phase = "catalogCommitted" THEN Target(o) ELSE state.records[o].previous

InstalledEndpoint(state) == Endpoint(state.installed, Restored)

Resume(state, o, reg) ==
  LET installed == InstalledEndpoint(state)
      next == IF Target(o) = Absent THEN None
              ELSE IF state.records[o].phase = "catalogCommitted" THEN installed ELSE Endpoint(Target(o), o)
      staged == IF next = None THEN reg
                ELSE [reg EXCEPT !.staged[next.revision] = o, !.alive = @ \cup {next}]
      known == [staged EXCEPT !.ops[o] = [state |-> "prepared", previous |-> installed, next |-> next]]
  IN  CASE state.records[o].phase = "activationPrepared" -> known
        [] state.records[o].phase = "activationCommitted" -> CommitActivation(known, o)
        [] state.records[o].phase = "catalogCommitted" ->
             [known EXCEPT !.ops[o] = [state |-> "committed", previous |-> None, next |-> next]]

RestoredRegistry(state) ==
  LET installed == InstalledEndpoint(state)
      base == IF installed = None THEN NoRegistry
              ELSE [Publish(NoRegistry, installed) EXCEPT !.active = installed, !.alive = {installed}]
  IN  FoldSet(LAMBDA o, reg : Resume(state, o, reg), base, Open(state))

Resolves(state) == state.installed # Absent => RestoredRegistry(state).resolved[state.installed] # None

CanStart(state) == RestoreAccepts(state) /\ Resolves(state)

Crash ==
  /\ up /\ crashes < MaxCrashes /\ crashes' = crashes + 1
  /\ \E state \in {disk} \cup refused : disk' = state /\ journal' = state
  /\ refused' = {} /\ up' = FALSE
  /\ attempted' = [o \in Ops |-> "no"] /\ retry' = [o \in Ops |-> FALSE] /\ tail' = <<>>
  /\ at' = "idle" /\ run' = NoRun /\ registry' = NoRegistry /\ host' = NoHost
  /\ residue' = {} /\ stuck' = {}
  /\ UNCHANGED <<request, overtaken, failures>>

Start ==
  /\ ~up /\ CanStart(disk) /\ up' = TRUE
  /\ retry' = [o \in Ops |-> Unresolved(disk.records[o])]
  /\ registry' = RestoredRegistry(disk)
  /\ host' = [NoHost EXCEPT !.agent = IF disk.installed = Absent THEN None ELSE registry'.resolved[disk.installed]]
  /\ UNCHANGED <<request, disk, refused, journal, attempted, tail, at, run, residue, stuck, overtaken,
                 crashes, failures>>

---------------------------------------------------------------------------
Init ==
  /\ \E revision \in Targets :
       disk = [installed |-> revision, records |-> [o \in Ops |-> NoRecord]]
  /\ journal = disk /\ refused = {}
  /\ request = [o \in Ops |-> Absent]
  /\ attempted = [o \in Ops |-> "no"] /\ retry = [o \in Ops |-> FALSE]
  /\ tail = <<>> /\ at = "idle" /\ run = NoRun
  /\ registry = NoRegistry /\ host = NoHost /\ up = FALSE
  /\ residue = {} /\ stuck = {} /\ overtaken = FALSE
  /\ crashes = 0 /\ failures = 0

Next ==
  \/ Step
  \/ Start
  \/ Crash
  \/ \E o \in Ops : Submit(o) \/ Repeat(o)

Spec == Init /\ [][Next]_vars

\* The process works as long as there is something to do, somebody starts it,
\* and a caller repeats an operation whose outcome is open.
Fairness ==
  /\ WF_vars(Step) /\ WF_vars(Start)
  /\ \A o \in Ops : WF_vars(Repeat(o))

FairSpec == Spec /\ Fairness

---------------------------------------------------------------------------
(* Properties. *)

States == [installed : Targets,
           records : [Ops -> [status : {"absent", "pending", "again", "failed", "succeeded"},
                              phase : Phases, previous : Targets]]]
Endpoints == [revision : Revisions, by : Ops \cup {Restored}] \cup {None}
Activations == [state : {"none", "prepared", "committed", "retired", "rolledBack"},
                previous : Endpoints, next : Endpoints]

TypeOK ==
  /\ request \in [Ops -> Requests \cup {Absent}]
  /\ disk \in States /\ journal \in States /\ refused \subseteq States
  /\ attempted \in [Ops -> {"no", "new", "known"}] /\ retry \in [Ops -> BOOLEAN]
  /\ tail \in Seq(Ops) /\ IsInjective(tail)
  /\ at \in {"idle", "execute", "prepare", "record", "acquire", "drain", "commit", "recordCommitted",
             "catalog", "complete", "restore", "retire", "succeed", "rollback", "fail"}
  /\ at # "idle" => tail # <<>>
  /\ at = "retire" => registry.ops[Head1].state \in {"committed", "retired"}
  /\ run \in [mutation : BOOLEAN, staged : BOOLEAN]
  /\ registry \in [active : Endpoints, resolved : [Revisions -> Endpoints],
                   staged : [Revisions -> Ops \cup {Absent}],
                   ops : [Ops -> Activations], alive : SUBSET Endpoints]
  /\ host \in [agent : Endpoints, gate : Ops \cup {Absent}]
  /\ up \in BOOLEAN 
  /\ residue \subseteq Ops /\ stuck \subseteq Ops /\ overtaken \in BOOLEAN
  /\ crashes \in 0..MaxCrashes /\ failures \in 0..MaxFailures

\* Success, the change of what is installed and the answer of the operation are
\* one step for whoever reads the disk, and failure changes nothing, through
\* refused commits, a Host that does not complete and the end of the process
\* between any two of the five commits of an operation (AGENT_PACKAGES.md:120).
\* It is not claimed of what follows when an operation has overtaken another.
PackageChangesAreAtomic == Catalog!Init /\ [][~overtaken' => Catalog!Next]_(Catalog!vars)

\* Whatever the disk may hold if the process ends now, restoreActivationState
\* finds the journal and what is installed in agreement: each transition that is
\* still open starts from, or has arrived at, the installed revision.  Of an
\* operation that overtook one that was left open it is not claimed.
JournalCanBeRestored == ~overtaken => \A state \in {disk} \cup refused : RestoreAccepts(state)

\* Whatever the disk may hold if the process ends now, the next one has a Host:
\* the registrations of what is installed resolve to an endpoint.
HostCanStart == \A state \in {disk} \cup refused : CanStart(state)

\* While the gate is open the Host calls a runtime that is alive, of the revision
\* that is installed: neither a rollback nor a retirement disposes of the Agent
\* that is in use.  An operation that has overtaken another may leave the Host
\* with the Agent of an earlier revision when it takes its commit back.
HostAgentIsAlive ==
  up /\ ~overtaken /\ host.gate = Absent =>
    /\ host.agent.revision = journal.installed
    /\ host.agent # None => host.agent \in registry.alive

\* When nothing runs and nothing is left open, the registry has the endpoint the
\* Host calls and no other, and nobody holds the gate, but for a runtime whose
\* registrations were refused and a gate whose rollback failed, and unless an
\* operation has overtaken another.
SettledLeavesNothing ==
  up /\ ~overtaken /\ tail = <<>> /\ (\A o \in Ops : ~Unresolved(Rec(o)) \/ ~Known(o)) =>
    /\ host.gate \in stuck \cup {Absent}
    /\ registry.alive \ {host.agent} \subseteq {Endpoint(request[o].target, o) : o \in residue}
    /\ host.agent # None => registry.resolved[host.agent.revision] = host.agent
    /\ registry.active = host.agent
    /\ \A r \in Revisions : registry.staged[r] \in residue \cup {Absent}

\* A request that is refused when a later process repeats it is answered with
\* sameOperationRequired again and again.
Doomed(o) == Unresolved(Rec(o)) /\ retry[o] /\ Inapplicable(o)

\* An operation that its caller repeats ends, unless the store refuses commits
\* until a restart, the Host cannot start, or the request was refused for what is
\* installed and the process ended before it could say so.
OperationSettles ==
  \A o \in Ops :
    Known(o) ~> \/ ~Known(o) \/ ~Unresolved(Rec(o))
                \/ refused # {} \/ ~up \/ Doomed(o)
=============================================================================
