--------------------------- MODULE PackageMutation ---------------------------
(***************************************************************************)
(* A package operation against a working Agent Host.                       *)
(*                                                                         *)
(* AgentPackageLifecycle updates, uninstalls and installs an Agent package *)
(* while AgentHostAuthority serves Turns of every Agent.  They share three *)
(* things: the gate and the drain of the affected Agents                   *)
(* (acquirePackageMutation), the catalog queue, a promise chain in which   *)
(* the Host runs mutations and Agent actions one at a time, and the state  *)
(* lock of the package store, a second promise chain that a package        *)
(* operation holds while it commits and that every Host commit which       *)
(* touches a backing takes (beginHostBackingStateCommit).                  *)
(*                                                                         *)
(* Each Agent is the only Agent of its own package and keeps one Session   *)
(* with one Chat.  A resume value is a stamp, its place among the values   *)
(* that were emitted, and the schema it is written in; only Chats have     *)
(* one, as in the three built-in Agents.  A registration supports exactly  *)
(* one schema and declares the migration from every earlier one.           *)
(***************************************************************************)
EXTENDS Naturals, Sequences, FiniteSets

CONSTANTS
  Agents,
  Bundled,        \* the Agents of the bundled package, which a user cannot update or uninstall
  MaxOperations,  \* bound: package operations
  MaxCalls,       \* bound: mutations of the client
  MaxEmits,       \* bound: resume values that the Agents emit
  MaxFailures,    \* bound: store commits refused and calls to an Agent failed
  MaxSchema       \* bound: resume schemas

ASSUME BundledAssumption == Bundled \subseteq Agents
ASSUME BoundsAssumption ==
  {MaxOperations, MaxCalls, MaxEmits, MaxFailures} \subseteq Nat /\ MaxSchema \in Nat \ {0}

Parts == {"chat", "session"}
Calls == {"submit", "release", "materialize"}
Unregistered == [revision |-> 0, schema |-> 0]
NoResume == [stamp |-> 0, schema |-> 0]
NoRun == [at |-> "idle"]
NoOperation == [at |-> "idle"]

VARIABLES
  host,        \* sessions: each Agent's Session as the Host holds it
  live,        \* agents: the registration of the Agent object that the Host calls
  store,       \* the package store: revision, registrations, retained records, materialized
  lock,        \* the state lock: its holder, then who waits for it
  queue,       \* the catalog queue; its head is the job that runs
  run,         \* how far that job is, with what it captured
  gates,       \* packageMutationGates
  op,          \* the package operation: how far it is, with its locals
  tail,        \* how many jobs are left of the queue that it awaits
  loaded,      \* what each Agent runtime has really loaded
  busy,        \* the Agents that run a Turn
  doubtful,    \* history: the Agents whose flags a commit overwrote, or whose backing was
               \* not restored because the Agent refused that too
  spent        \* the bounded counters

vars == <<host, live, store, lock, queue, run, gates, op, tail, loaded, busy, doubtful, spent>>
agentVars == <<loaded, busy>>

Spend(what) ==
  LET bound == CASE what = "operations" -> MaxOperations [] what = "calls" -> MaxCalls
                 [] what = "emits" -> MaxEmits [] what = "failures" -> MaxFailures
  IN  spent[what] < bound /\ spent' = [spent EXCEPT ![what] = @ + 1]
Fail == Spend("failures")

---------------------------------------------------------------------------
(* What the Host asks before it acts *)

\* requireActiveAgent: the Agent object has the registration the package store
\* holds active.
Active(a) == live[a] # Unregistered /\ store.active[a] = live[a]

\* runLifecycleActivity counts a client's mutation while it runs.
Activity(a) == run # NoRun /\ Head(queue).kind \in Calls /\ Head(queue).agent = a

IsQuiescent(a) == ~host[a].turn /\ ~Activity(a)

\* A variant for the checks: the end of a Turn wakes nobody.
NotifiedNever == op

\* notifyQuiescenceChanged resumes the drain, which then looks again.
Notified == IF op.at = "asleep" THEN [op EXCEPT !.at = "drain"] ELSE op

\* A variant for the checks: the gate is not asked.
RefusedWithoutGate(job) ==
  LET session == host[job.agent] IN
  \/ ~Active(job.agent)
  \/ job.kind = "submit" /\ (session.lifecycle # "available" \/ session.turn)
  \/ job.kind = "release" /\ (session.lifecycle # "available" \/ session.up # Parts)
  \/ job.kind = "materialize" /\ ("session" \in session.up \/ session.lifecycle = "available")
  \/ job.kind = "terminal" /\ ~session.turn

\* A job is refused by its guards: the gate, an Agent that is not registered,
\* a Session that is not in the state the mutation needs.
Refused(job) ==
  LET session == host[job.agent] IN
  \/ ~Active(job.agent)
  \/ job.kind \in Calls /\ job.agent \in gates
  \/ job.kind = "submit" /\ (session.lifecycle # "available" \/ session.turn)
  \/ job.kind = "release" /\ (session.lifecycle # "available" \/ session.up # Parts)
  \/ job.kind = "materialize" /\ ("session" \in session.up \/ session.lifecycle = "available")
  \/ job.kind = "terminal" /\ ~session.turn

\* What a job makes of the sessions that it captures.
Changed(job) ==
  [host EXCEPT ![job.agent] =
    CASE job.kind = "submit" -> [@ EXCEPT !.turn = TRUE]
      [] job.kind = "release" -> [@ EXCEPT !.lifecycle = "released", !.up = {}]
      [] job.kind = "materialize" -> [@ EXCEPT !.lifecycle = "available", !.up = Parts]
      [] job.kind = "resume" -> [@ EXCEPT !.resume = job.resume]
      [] job.kind = "terminal" -> [@ EXCEPT !.turn = FALSE]]

\* packageBackingState: the records of the registered packages only.
Backings(sessions) ==
  LET registered == {a \in Agents : store.active[a] # Unregistered} IN
  [store EXCEPT !.revision = @ + 1,
                !.retained = [a \in registered |-> sessions[a].resume],
                !.up = [a \in Agents |-> IF a \in registered THEN sessions[a].up ELSE {}]]

\* A registration reads the resume values of its own schema.
Readable(a) == host[a].resume \in {NoResume, [host[a].resume EXCEPT !.schema = live[a].schema]}

Holds(who) == lock # <<>> /\ Head(lock) = who
Unlock == lock' = Tail(lock)

---------------------------------------------------------------------------
(* Clients and Agents put jobs in the catalog queue *)

Ask(a, call) ==
  /\ Spend("calls")
  /\ queue' = Append(queue, [kind |-> call, agent |-> a])
  /\ UNCHANGED <<host, live, store, lock, run, gates, op, tail, agentVars, doubtful>>

\* An Agent emits chatResumeStateChanged during a Turn, or while a call that
\* releases its Chat is pending.
Releasing(a) == op.at = "release" /\ op.agent = a /\ "chat" \in op.records \ op.released
Emit(a) ==
  /\ "chat" \in loaded[a] /\ (a \in busy \/ Releasing(a))
  /\ Spend("emits")
  /\ queue' = Append(queue, [kind |-> "resume", agent |-> a,
                             resume |-> [stamp |-> spent.emits + 1, schema |-> live[a].schema]])
  /\ UNCHANGED <<host, live, store, lock, run, gates, op, tail, agentVars, doubtful>>

\* The Turn ends, or its send is rejected: either way turnTerminal.
EndTurn(a) ==
  /\ a \in busy
  /\ busy' = busy \ {a}
  /\ queue' = Append(queue, [kind |-> "terminal", agent |-> a])
  /\ UNCHANGED <<host, live, store, lock, run, gates, op, tail, loaded, doubtful, spent>>

---------------------------------------------------------------------------
(* The job at the head of the catalog queue *)

Job == Head(queue)
Dequeue ==
  /\ queue' = Tail(queue)
  /\ tail' = IF tail = 0 THEN 0 ELSE tail - 1
  /\ run' = NoRun

\* The job has thrown; the finally of runLifecycleActivity still notifies.
Throw == Dequeue /\ op' = IF Job.kind \in Calls THEN Notified ELSE op

Refuse ==
  /\ queue # <<>> /\ run = NoRun /\ Job.kind # "complete" /\ Refused(Job)
  /\ Dequeue
  /\ op' = IF Job.kind \in Calls /\ Job.agent \notin gates THEN Notified ELSE op
  /\ UNCHANGED <<host, live, store, lock, gates, agentVars, doubtful, spent>>

\* The job captures the sessions; a resume value goes to both stores, so the
\* job takes the revision of the package store and waits for the state lock.
AwaitLock ==
  /\ run' = [at |-> "lock", next |-> Changed(Job), revision |-> store.revision]
  /\ lock' = Append(lock, "job")

Start ==
  /\ queue # <<>> /\ run = NoRun /\ Job.kind # "complete" /\ ~Refused(Job)
  /\ \/ /\ Job.kind \in {"submit", "terminal"}
        /\ run' = [at |-> "commit", next |-> Changed(Job), backing |-> FALSE]
        /\ UNCHANGED lock
     \/ Job.kind = "resume" /\ AwaitLock
     \/ Job.kind \in {"release", "materialize"} /\ run' = [at |-> "agent"] /\ UNCHANGED lock
  /\ UNCHANGED <<host, live, store, queue, gates, op, tail, agentVars, doubtful, spent>>

\* The Agent answers the call of releaseSession or materializeSession.
AgentAnswers ==
  /\ run.at = "agent"
  /\ Job.kind = "materialize" => Readable(Job.agent)
  /\ loaded' = [loaded EXCEPT ![Job.agent] = IF Job.kind = "release" THEN {} ELSE Parts]
  /\ AwaitLock
  /\ UNCHANGED <<host, live, store, queue, gates, op, tail, busy, doubtful, spent>>
AgentRefuses ==
  /\ run.at = "agent"
  /\ IF Job.kind = "materialize" /\ ~Readable(Job.agent) THEN UNCHANGED spent ELSE Fail
  /\ Throw
  /\ UNCHANGED <<host, live, store, lock, gates, agentVars, doubtful>>

\* A variant for the checks: nothing is taken back.
AbandonAtOnce == Throw

\* Whoever has loaded or released a backing takes that back before it throws.
Abandon ==
  IF Job.kind \in {"release", "materialize"}
  THEN run' = [at |-> "compensate"] /\ UNCHANGED <<queue, tail, op>>
  ELSE Throw

\* beginHostBackingStateCommit, once it has the lock.
Stage ==
  /\ run.at = "lock" /\ Holds("job") /\ run.revision = store.revision
  /\ store' = Backings(run.next)
  /\ run' = [at |-> "commit", next |-> run.next, backing |-> TRUE, previous |-> store]
  /\ UNCHANGED <<host, live, lock, queue, gates, op, tail, agentVars, doubtful, spent>>
StageRefused ==
  /\ run.at = "lock" /\ Holds("job")
  /\ IF run.revision = store.revision THEN Fail ELSE UNCHANGED spent
  /\ Unlock /\ Abandon
  /\ UNCHANGED <<host, live, store, gates, agentVars, doubtful>>

\* The flags of other Agents that the commit puts back to what it captured.
Overwrites ==
  {a \in Agents : run.next[a].up # host[a].up /\ (a # Job.agent \/ Job.kind \notin Calls)}

\* commitHostState: the captured sessions replace the sessions of the Host.
Commit ==
  /\ run.at = "commit"
  /\ host' = run.next
  /\ doubtful' = doubtful \cup Overwrites
  /\ IF run.backing THEN Unlock ELSE UNCHANGED lock
  /\ busy' = IF Job.kind = "submit" THEN busy \cup {Job.agent} ELSE busy
  /\ Dequeue
  /\ op' = CASE Job.kind = "complete" -> [op EXCEPT !.at = "settled"]
             [] Job.kind = "resume" -> op
             [] OTHER -> Notified
  /\ UNCHANGED <<live, store, gates, loaded, spent>>
CommitRefused ==
  /\ run.at = "commit"
  /\ Fail
  /\ \/ run.backing /\ run' = [run EXCEPT !.at = "undo"] /\ UNCHANGED <<live, queue, tail, op>>
     \/ /\ ~run.backing /\ Job.kind = "complete"
        /\ live' = [live EXCEPT ![op.agent] = op.previous.active[op.agent]]
        /\ Dequeue /\ op' = [op EXCEPT !.at = "restore"]
     \/ ~run.backing /\ Job.kind # "complete" /\ UNCHANGED live /\ Abandon
  /\ UNCHANGED <<host, store, lock, gates, agentVars, doubtful>>

\* A variant for the checks: the rollback gives the lock back and no more.
UndoNothing ==
  /\ run.at = "undo"
  /\ Unlock /\ Abandon
  /\ UNCHANGED <<host, live, store, gates, agentVars, doubtful, spent>>

\* The transaction's rollback; it keeps the lock when its own commit fails.
Undo ==
  /\ run.at = "undo"
  /\ \/ store' = [run.previous EXCEPT !.revision = store.revision + 1] /\ Unlock /\ UNCHANGED spent
     \/ Fail /\ lock' = <<"nobody">> \o Tail(lock) /\ UNCHANGED store
  /\ Abandon
  /\ UNCHANGED <<host, live, gates, agentVars, doubtful>>

Compensate ==
  /\ run.at = "compensate"
  /\ \/ /\ loaded' = [loaded EXCEPT ![Job.agent] = IF Job.kind = "release" THEN Parts ELSE {}]
        /\ UNCHANGED <<doubtful, spent>>
     \/ Fail /\ doubtful' = doubtful \cup {Job.agent} /\ UNCHANGED loaded
  /\ Throw
  /\ UNCHANGED <<host, live, store, lock, gates, busy>>

---------------------------------------------------------------------------
(* The package operation *)

AwaitStateLock(at) == op' = [op EXCEPT !.at = at] /\ lock' = Append(lock, "op")

\* update, uninstall or install, with the registration that it prepares.
Open(a, kind, next) ==
  /\ op = NoOperation /\ a \notin Bundled
  /\ CASE kind = "update" -> /\ store.active[a] # Unregistered
                             /\ next.schema >= store.active[a].schema
       [] kind = "uninstall" -> store.active[a] # Unregistered /\ next = Unregistered
       [] kind = "install" -> store.active[a] = Unregistered /\ next.schema >= host[a].resume.schema
  /\ Spend("operations")
  /\ op' = [at |-> "recorded", agent |-> a, kind |-> kind, next |-> next, previous |-> store,
            records |-> {}, released |-> {}, carried |-> NoResume]
  /\ lock' = Append(lock, "op")
  /\ UNCHANGED <<host, live, store, queue, run, gates, tail, agentVars, doubtful>>

Record == store' = [store EXCEPT !.revision = @ + 1]

\* commitOperationRecord at each phase of the operation, under the state lock.
CommitRecord ==
  /\ op.at \in {"recorded", "prepared", "activated", "finished", "failed"} /\ Holds("op")
  /\ Record
  /\ CASE op.at = "recorded" -> op' = [op EXCEPT !.at = "prepared"] /\ lock' = Append(Tail(lock), "op")
       [] op.at = "prepared" -> op' = [op EXCEPT !.at = "gate"] /\ Unlock
       [] op.at = "activated" -> op' = [op EXCEPT !.at = "commit"] /\ lock' = Append(Tail(lock), "op")
       [] OTHER -> op' = NoOperation /\ Unlock
  /\ UNCHANGED <<host, live, queue, run, gates, tail, agentVars, doubtful, spent>>
CommitRecordRefused ==
  /\ op.at \in {"recorded", "prepared", "activated", "finished", "failed"} /\ Holds("op")
  /\ Fail
  /\ IF op.at = "activated" THEN op' = [op EXCEPT !.at = "rollback"] /\ Unlock
     ELSE /\ op' = [op EXCEPT !.at = IF @ = "finished" THEN "finished" ELSE "failed"]
          /\ lock' = Append(Tail(lock), "op")
  /\ UNCHANGED <<host, live, store, queue, run, gates, tail, agentVars, doubtful>>

\* acquirePackageMutation closes the gate; drain awaits the catalog queue as
\* it is then.
Gate ==
  /\ op.at = "gate"
  /\ gates' = gates \cup {op.agent}
  /\ tail' = Len(queue)
  /\ op' = [op EXCEPT !.at = "drain"]
  /\ UNCHANGED <<host, live, store, lock, queue, run, agentVars, doubtful, spent>>

\* Afterwards it awaits every Turn and mutation of the Agent.
Drain ==
  /\ op.at = "drain" /\ tail = 0
  /\ op' = [op EXCEPT !.at = IF IsQuiescent(op.agent) THEN "checkpoint" ELSE "asleep"]
  /\ UNCHANGED <<host, live, store, lock, queue, run, gates, tail, agentVars, doubtful, spent>>

\* The backings that the package store holds materialized are checked against
\* the Host's flags; an install has nothing to release.
Mismatched(a, records) ==
  ~(records \subseteq host[a].up) \/ ("session" \in records /\ ~(host[a].up \subseteq records))
Retained(a) == IF a \in DOMAIN store.retained THEN store.retained[a] ELSE NoResume
Checkpoint ==
  LET records == IF op.kind = "install" THEN {} ELSE store.up[op.agent] IN
  /\ op.at = "checkpoint"
  /\ op' = [op EXCEPT !.records = records, !.carried = Retained(op.agent),
                      !.at = CASE op.kind = "install" -> "migrate"
                               [] op.kind # "install" /\ Mismatched(op.agent, records) -> "rollback"
                               [] OTHER -> "release"]
  /\ UNCHANGED <<host, live, store, lock, queue, run, gates, tail, agentVars, doubtful, spent>>

\* Chats are released before Sessions.  setBackingMaterialized clears the flag
\* at once, outside the catalog queue.
Unreleased == op.records \ op.released
Release ==
  LET part == IF "chat" \in Unreleased THEN "chat" ELSE "session"
      gone == IF part = "chat" THEN {"chat"} ELSE Parts
  IN  /\ op.at = "release" /\ Unreleased # {}
      /\ loaded' = [loaded EXCEPT ![op.agent] = @ \ gone]
      /\ host' = [host EXCEPT ![op.agent].up = @ \ gone]
      /\ op' = [op EXCEPT !.released = @ \cup {part}]
      /\ UNCHANGED <<live, store, lock, queue, run, gates, tail, busy, doubtful, spent>>
ReleaseRefused ==
  /\ op.at = "release" /\ Unreleased # {}
  /\ Fail
  /\ op' = [op EXCEPT !.at = "unrelease"]
  /\ UNCHANGED <<host, live, store, lock, queue, run, gates, tail, agentVars, doubtful>>

\* A variant for the checks: the checkpoints are taken at once.
ReleasedAtOnce ==
  /\ op.at = "release" /\ Unreleased = {}
  /\ op' = [op EXCEPT !.at = "settle"]
  /\ UNCHANGED <<host, live, store, lock, queue, run, gates, tail, agentVars, doubtful, spent>>

\* What the Agent emitted while it released is in the queue: it is awaited
\* before the final checkpoints are taken.
Released ==
  /\ op.at = "release" /\ Unreleased = {}
  /\ tail' = Len(queue)
  /\ op' = [op EXCEPT !.at = "settle"]
  /\ UNCHANGED <<host, live, store, lock, queue, run, gates, agentVars, doubtful, spent>>
TakeCheckpoints ==
  /\ op.at = "settle" /\ tail = 0
  /\ op' = IF host[op.agent].up \cap op.records # {}
           THEN [op EXCEPT !.at = "rollback", !.released = {}]
           ELSE [op EXCEPT !.at = "migrate",
                           !.carried = IF "chat" \in op.records THEN host[op.agent].resume ELSE @]
  /\ UNCHANGED <<host, live, store, lock, queue, run, gates, tail, agentVars, doubtful, spent>>

\* migrateRetainedRecords, then the activation is prepared and recorded.
Migrated(resume) ==
  IF resume = NoResume \/ op.next = Unregistered THEN resume
  ELSE [resume EXCEPT !.schema = op.next.schema]
Migrate ==
  /\ op.at = "migrate"
  /\ op' = [op EXCEPT !.carried = Migrated(@), !.at = "activated"]
  /\ lock' = Append(lock, "op")
  /\ UNCHANGED <<host, live, store, queue, run, gates, tail, agentVars, doubtful, spent>>
MigrateRefused ==
  /\ op.at = "migrate"
  /\ Fail
  /\ op' = [op EXCEPT !.at = "rollback"]
  /\ UNCHANGED <<host, live, store, lock, queue, run, gates, tail, agentVars, doubtful>>

\* Registrations and retained records change in one commit; the lock is kept
\* while the Host's part waits in the catalog queue (mutation.complete).
CommitState ==
  /\ op.at = "commit" /\ Holds("op")
  /\ store' = [store EXCEPT !.revision = @ + 1,
                            !.active[op.agent] = op.next,
                            !.retained = [a \in DOMAIN @ \cup {op.agent} |->
                                            IF a = op.agent THEN op.carried ELSE @[a]],
                            !.up[op.agent] = {}]
  /\ op' = [op EXCEPT !.at = "complete", !.previous = store]
  /\ queue' = Append(queue, [kind |-> "complete", agent |-> op.agent])
  /\ UNCHANGED <<host, live, lock, run, gates, tail, agentVars, doubtful, spent>>
CommitStateRefused ==
  /\ op.at = "commit" /\ Holds("op")
  /\ Fail /\ Unlock
  /\ op' = [op EXCEPT !.at = "rollback"]
  /\ UNCHANGED <<host, live, store, queue, run, gates, tail, agentVars, doubtful>>

\* complete, in the catalog queue: the Agent objects are exchanged and the
\* Sessions reconciled; a Session that is still materialized makes it throw.
Complete ==
  /\ queue # <<>> /\ run = NoRun /\ Job.kind = "complete"
  /\ host[op.agent].up = {}
  /\ live' = [live EXCEPT ![op.agent] = op.next]
  /\ run' = [at |-> "commit", backing |-> FALSE,
             next |-> [host EXCEPT ![op.agent].lifecycle =
                         IF op.next = Unregistered THEN "unavailable" ELSE "released"]]
  /\ UNCHANGED <<host, store, lock, queue, gates, op, tail, agentVars, doubtful, spent>>
CompleteRefused ==
  /\ queue # <<>> /\ run = NoRun /\ Job.kind = "complete"
  /\ IF host[op.agent].up = {} THEN Fail ELSE UNCHANGED spent
  /\ Dequeue
  /\ op' = [op EXCEPT !.at = "restore"]
  /\ UNCHANGED <<host, live, store, lock, gates, agentVars, doubtful>>

\* The gate opens, the lock is released, and success is recorded.
Settled ==
  /\ op.at = "settled"
  /\ gates' = gates \ {op.agent}
  /\ op' = [op EXCEPT !.at = "finished"]
  /\ lock' = Append(Tail(lock), "op")
  /\ UNCHANGED <<host, live, store, queue, run, tail, agentVars, doubtful, spent>>

\* complete has failed: the previous package state is committed again.  When
\* that fails too the error stands and the gate stays closed.
Restore ==
  /\ op.at = "restore" /\ Unlock
  /\ \/ /\ store' = [op.previous EXCEPT !.revision = store.revision + 1]
        /\ op' = [op EXCEPT !.at = "rollback"] /\ UNCHANGED spent
     \/ Fail /\ op' = [op EXCEPT !.at = "stuck"] /\ UNCHANGED store
  /\ UNCHANGED <<host, live, queue, run, gates, tail, agentVars, doubtful>>

\* What was released is materialized again, Sessions first: by the release loop
\* itself when it fails, otherwise by mutation.rollback, which opens the gate
\* only when the Agent has answered every call.
Rematerialize ==
  LET part == IF "session" \in op.released THEN "session" ELSE "chat" IN
  /\ op.at \in {"unrelease", "rollback"} /\ op.released # {}
  /\ loaded' = [loaded EXCEPT ![op.agent] = @ \cup {part}]
  /\ host' = [host EXCEPT ![op.agent].up = @ \cup {part}]
  /\ op' = [op EXCEPT !.released = @ \ {part}]
  /\ UNCHANGED <<live, store, lock, queue, run, gates, tail, busy, doubtful, spent>>
RematerializeRefused ==
  /\ op.at \in {"unrelease", "rollback"} /\ op.released # {}
  /\ Fail
  /\ op' = IF op.at = "unrelease" THEN [op EXCEPT !.at = "rollback", !.released = {}]
           ELSE [op EXCEPT !.at = "stuck"]
  /\ doubtful' = doubtful \cup {op.agent}
  /\ UNCHANGED <<host, live, store, lock, queue, run, gates, tail, agentVars>>
RolledBack ==
  /\ op.at \in {"unrelease", "rollback"} /\ op.released = {}
  /\ gates' = gates \ {op.agent}
  /\ AwaitStateLock("failed")
  /\ UNCHANGED <<host, live, store, queue, run, tail, agentVars, doubtful, spent>>

---------------------------------------------------------------------------
Init ==
  LET first == [revision |-> 1, schema |-> 1] IN
  /\ host = [a \in Agents |-> [lifecycle |-> "available", up |-> Parts, turn |-> FALSE, resume |-> NoResume]]
  /\ live = [a \in Agents |-> first]
  /\ store = [revision |-> 0, active |-> [a \in Agents |-> first],
              retained |-> [a \in Agents |-> NoResume], up |-> [a \in Agents |-> Parts]]
  /\ lock = <<>> /\ queue = <<>> /\ run = NoRun
  /\ gates = {} /\ op = NoOperation /\ tail = 0
  /\ loaded = [a \in Agents |-> Parts] /\ busy = {}
  /\ doubtful = {}
  /\ spent = [operations |-> 0, calls |-> 0, emits |-> 0, failures |-> 0]

JobStep ==
  \/ Refuse \/ Start \/ AgentAnswers \/ AgentRefuses \/ Stage \/ StageRefused
  \/ Commit \/ CommitRefused \/ Undo \/ Compensate \/ Complete \/ CompleteRefused
OperationStep ==
  \/ CommitRecord \/ CommitRecordRefused \/ Gate \/ Drain \/ Checkpoint
  \/ Release \/ ReleaseRefused \/ Released \/ TakeCheckpoints \/ Migrate \/ MigrateRefused
  \/ CommitState \/ CommitStateRefused \/ Settled \/ Restore
  \/ Rematerialize \/ RematerializeRefused \/ RolledBack
Environment ==
  \/ \E a \in Agents, call \in Calls : Ask(a, call)
  \/ \E a \in Agents : Emit(a) \/ EndTurn(a)
  \/ \E a \in Agents, kind \in {"update", "install"}, schema \in 1 .. MaxSchema :
       Open(a, kind, [revision |-> spent.operations + 2, schema |-> schema])
  \/ \E a \in Agents : Open(a, "uninstall", Unregistered)

Next == JobStep \/ OperationStep \/ Environment
Spec == Init /\ [][Next]_vars

\* The promise chains run on their own and every call is answered; nobody owes
\* a Turn its end.
FairSpec == Spec /\ WF_vars(JobStep) /\ WF_vars(OperationStep)
---------------------------------------------------------------------------
(* Properties *)

Resume == [stamp : 0 .. MaxEmits, schema : 0 .. MaxSchema]
Registration == [revision : 0 .. MaxOperations + 1, schema : 0 .. MaxSchema]
Sessions == [Agents -> [lifecycle : {"available", "released", "unavailable"},
                        up : SUBSET Parts, turn : BOOLEAN, resume : Resume]]

\* The values of every variable; a chain has at most one waiter of each kind,
\* and what a job has captured are sessions (run.next is replaced into sessions).
TypeOK ==
  /\ host \in Sessions
  /\ run.at \in {"lock", "commit", "undo"} => run.next \in Sessions
  /\ live \in [Agents -> Registration]
  /\ store.revision \in Nat /\ store.active \in [Agents -> Registration]
  /\ store.up \in [Agents -> SUBSET Parts]
  /\ DOMAIN store.retained \subseteq Agents /\ \A a \in DOMAIN store.retained : store.retained[a] \in Resume
  /\ lock \in {<<>>, <<"op">>, <<"job">>, <<"op", "job">>, <<"job", "op">>,
               <<"nobody">>, <<"nobody", "op">>, <<"nobody", "job">>,
               <<"nobody", "op", "job">>, <<"nobody", "job", "op">>}
  /\ tail \in 0 .. Len(queue)
  /\ gates \subseteq Agents /\ Cardinality(gates) <= 1
  /\ loaded \in [Agents -> SUBSET Parts]
  /\ busy \subseteq Agents

Drained == {"checkpoint", "release", "unrelease", "settle", "migrate", "activated", "commit",
            "complete", "settled", "restore", "rollback"}

\* From the moment the drain returns until the operation settles, the affected
\* Agent runs no Turn and no client mutation, although nothing stops clients
\* from asking and the Agent's earlier actions from being applied meanwhile
\* (acquirePackageMutation, drain).
DrainHolds == op.at \in Drained => IsQuiescent(op.agent) /\ op.agent \notin busy

\* The retained record that a package commit writes carries the resume value
\* that the Host accepted last, also when the Agent emitted it as it released.
\* Only a Chat that was not released and of which the package store held no
\* record (it goes with an uninstalled Agent) is left without one
\* (checkpointAndRelease, mergeCheckpoints).
CheckpointIsCommitted ==
  [][op.at = "commit" /\ op'.at = "complete" =>
       LET committed == store'.retained[op.agent] IN
       \/ committed.stamp = host[op.agent].resume.stamp
       \/ "chat" \notin op.records /\ committed = NoResume]_vars

\* While nobody is inside a commit and nothing is released, the package store
\* holds materialized only what the Host does, and every resume value it holds
\* is the Host's: the two commits are one transaction, also when one of them is
\* refused (commitHostAndBackingState, beginHostBackingStateCommit).
BackingStoresAgree ==
  lock = <<>> /\ op.at \notin (Drained \ {"checkpoint"}) \cup {"stuck"} =>
    \A a \in Agents : store.active[a] # Unregistered /\ a \notin doubtful =>
      /\ store.up[a] \subseteq host[a].up
      /\ Retained(a) # NoResume => Retained(a).stamp = host[a].resume.stamp

AtRest == run = NoRun /\ op = NoOperation

\* Does not hold (README).  When no job runs and no operation is open, the Host's flags say what the
\* Agent runtime has loaded, whichever call or commit failed before.
BeliefMatchesRuntime == AtRest => \A a \in Agents : host[a].up = loaded[a]

\* The same, of the Agents whose flags are not doubtful: no commit has
\* overwritten them and every compensation was answered.
BeliefMatchesUnlessDoubtful ==
  AtRest => \A a \in Agents \ doubtful : host[a].up = loaded[a]

\* Does not hold (README).  After a package operation every Session's resume value is in a schema that
\* the active registration supports (migrateRetainedRecords).
MigrationIsCommitted == AtRest => \A a \in Agents : live[a] # Unregistered => Readable(a)

\* A package operation never holds the state lock and waits for the catalog
\* queue while the job at the head of that queue waits for the state lock.
CircularWait == op.at = "complete" /\ Holds("op") /\ run.at = "lock"
WaitsAreAcyclic == ~CircularWait

\* An operation that drains an Agent without a Turn settles, unless a Turn that
\* was submitted earlier starts, it gets into the circular wait, waits for a lock
\* that a failed rollback kept, or has failed to roll back: the end of the last
\* Turn wakes the drain (waitForQuiescence, notifyQuiescenceChanged).
OperationSettles ==
  op.at \in {"drain", "asleep"} /\ ~host[op.agent].turn ~>
    \/ op = NoOperation
    \/ op.at = "stuck" \/ host[op.agent].turn
    \/ CircularWait \/ Holds("nobody")
=============================================================================
