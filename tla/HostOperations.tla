--------------------------- MODULE HostOperations ---------------------------
(***************************************************************************)
(* Idempotent mutations between a provider and its Agent Host.             *)
(*                                                                         *)
(* The provider (agentHostSessionsProvider.ts, mutate / reconcileMutation /*)
(* reconcilePendingMutations) names each mutation with a fresh operation,  *)
(* runs at most one task at a time in its Sequencer, and after a lost      *)
(* answer asks for the outcome of that same operation once the connection  *)
(* has recovered.  The Host (agentHostAuthority.ts, mutate /               *)
(* getOperationOutcome, with the registry of common/operations.ts) hashes  *)
(* the payload, registers the operation, and executes it in the catalog    *)
(* queue.  A mutation that updates a Session configuration may stay        *)
(* pending until the Agent answers its finalization.                       *)
(*                                                                         *)
(* One logical connection; the reconnect call itself is the subject of     *)
(* HostReplication.  An operation is identified with its payload, so the   *)
(* digest conflict does not arise.                                         *)
(***************************************************************************)
EXTENDS Naturals, Sequences, FiniteSets, SequencesExt

CONSTANTS
  Ops,            \* operation identities (generateUuid, never reused)
  Deferrable,     \* the Session configuration updates among them
  MaxInterrupts   \* bound: how often the transport is interrupted

ASSUME DeferrableAssumption == Deferrable \subseteq Ops
ASSUME InterruptsAssumption == MaxInterrupts \in Nat
ASSUME NoneAssumption == "none" \notin Ops

Rounds == 4       \* reconciliation < 4
Outcomes == {"succeeded", "failed", "pending", "unknown"}
Terminal == {"succeeded", "failed"}
NoCall == [kind |-> "none"]
Idle == [task |-> "none"]

VARIABLES
  status,      \* the registry: op -> "unknown" | "pending" | "succeeded" | "failed"
  effects,     \* op -> how many times its Host state change was committed
  finalizing,  \* operations in pendingSessionConfigurationFinalizations
  hashing,     \* mutate requests suspended in computeAgentHostMutationDigest
  queue,       \* the catalog queue; its head is the job that runs
  call,        \* the provider's outstanding call, as it travels
  link,        \* is the transport connected?
  interrupts,  \* how often it was interrupted (bounded)
  frame,       \* the Sequencer task that runs, with the reconcile loop's locals
  pending,     \* the provider's pendingMutations
  told,        \* op -> what the caller of the mutation was told
  recovering,  \* connectionRecovering
  mode         \* "live" | "disposed"

hostVars == <<status, effects, finalizing, hashing, queue>>
providerVars == <<frame, pending, told, recovering, mode>>
vars == <<hostVars, providerVars, call, link, interrupts>>

---------------------------------------------------------------------------
(* The provider's calls *)

Send(kind, op) == call' = [kind |-> kind, op |-> op, at |-> "wire"]

\* A task of the Sequencer: what it serves, the operation it reconciles, the
\* operations left to reconcile, the loop counter and the resent flag.
Task(task, op, todo) == [task |-> task, op |-> op, todo |-> todo, round |-> 0, resent |-> FALSE]

\* A mutation enters the Sequencer while the connection is not recovering.
Mutate(op) ==
  /\ mode = "live" /\ frame = Idle /\ ~recovering
  /\ op \notin pending /\ told[op] = "nothing"
  /\ pending' = pending \cup {op}
  /\ frame' = Task("mutation", op, {})
  /\ Send("mutate", op)
  /\ UNCHANGED <<hostVars, told, recovering, mode, link, interrupts>>

\* The next operation a recovery asks about, or the end of its list.
NextPending(todo) ==
  IF todo = {} THEN frame' = Task("recovery", "none", {}) /\ call' = NoCall
  ELSE \E op \in todo :
         /\ frame' = Task("recovery", op, todo \ {op})
         /\ Send("outcome", op)

RecoverOperations(todo) ==
  /\ mode = "live" /\ frame = Idle /\ recovering /\ link
  /\ NextPending(todo)
  /\ UNCHANGED <<hostVars, pending, told, recovering, mode, link, interrupts>>

\* Wrong variant: the recovery forgets the operations in doubt.
RecoverStateOnly == RecoverOperations({})

\* recoverConnection: after the reconnect, the pending operations in turn.
Recover == RecoverOperations(pending)

LiftBarrier ==
  /\ mode = "live"
  /\ recovering' = FALSE
  /\ frame' = Idle /\ call' = NoCall
  /\ UNCHANGED <<hostVars, pending, told, mode, link, interrupts>>

\* Wrong variant: the barrier is lifted while the recovery still reconciles.
CompleteRecoveryEarly == frame # Idle /\ frame.task = "recovery" /\ LiftBarrier

\* completeConnectionRecovery lifts the barrier against new mutations.
CompleteRecovery == frame = Task("recovery", "none", {}) /\ LiftBarrier

\* What the mutation's caller is told; a recovery tells nobody, its caller
\* was told "uncertain" when the answer was lost.
Tell(op, outcome) ==
  told' = IF frame.task = "mutation" THEN [told EXCEPT ![op] = outcome] ELSE told

\* A terminal outcome completes the pending mutation.
Complete(op, outcome) ==
  /\ pending' = pending \ {op}
  /\ Tell(op, outcome)
  /\ IF frame.task = "recovery" THEN NextPending(frame.todo)
     ELSE frame' = Idle /\ call' = NoCall
  /\ UNCHANGED mode

GiveUpTelling(op, outcome) ==
  /\ Tell(op, outcome)
  /\ mode' = IF frame.task = "recovery" THEN "disposed" ELSE mode
  /\ frame' = Idle
  /\ call' = NoCall
  /\ UNCHANGED pending

\* Wrong variant: running out of rounds is reported as a failure.
GiveUpAsFailed(op) == GiveUpTelling(op, "failed")

\* After the last round the outcome is not examined: the operation stays
\* pending, and a recovery that meets this disposes its provider.
GiveUp(op) == GiveUpTelling(op, "uncertain")

\* Another round asks again under the same identity; an operation the Host
\* does not know is resent, once.
Again(op, outcome) ==
  LET resend == outcome = "unknown" /\ ~frame.resent IN
  /\ frame' = [frame EXCEPT !.round = @ + 1, !.resent = @ \/ resend]
  /\ Send(IF resend THEN "mutate" ELSE "outcome", op)
  /\ UNCHANGED <<pending, told, mode>>

\* One turn of reconcileMutation, on the answer to the task's call.
Reconcile ==
  /\ call.kind = "answer"
  /\ LET op == frame.op outcome == call.outcome IN
       IF frame.round = Rounds THEN GiveUp(op)
       ELSE IF outcome \in Terminal THEN Complete(op, outcome)
       ELSE Again(op, outcome)
  /\ UNCHANGED <<hostVars, recovering, link, interrupts>>

---------------------------------------------------------------------------
(* The Host *)

\* A request or job is live while the call it serves may still be answered.
Request(op) == [op |-> op, live |-> TRUE]
Job(kind, op) == [kind |-> kind, op |-> op, live |-> TRUE, applied |-> FALSE]

Answer(live, outcome) ==
  call' = IF live THEN [kind |-> "answer", outcome |-> outcome] ELSE call

\* A mutate request is suspended while its digest is computed.
ReceiveMutate ==
  /\ call.kind = "mutate" /\ call.at = "wire"
  /\ hashing' = hashing \cup {Request(call.op)}
  /\ call' = [call EXCEPT !.at = "host"]
  /\ UNCHANGED <<status, effects, finalizing, queue, providerVars, link, interrupts>>

BeginIf(executes, request) ==
  LET op == request.op IN
  /\ hashing' = hashing \ {request}
  /\ IF executes
       THEN /\ status' = [status EXCEPT ![op] = "pending"]
            /\ queue' = Append(queue, [Job("execute", op) EXCEPT !.live = request.live])
            /\ UNCHANGED call
       ELSE /\ Answer(request.live, status[op])
            /\ UNCHANGED <<status, queue>>

\* Wrong variants: a pending, or a failed, operation is executed again.
BeginWhilePending(request) == BeginIf(status[request.op] \notin Terminal, request)
BeginAfterFailure(request) == BeginIf(status[request.op] \in {"unknown", "failed"}, request)

\* operations.begin decides: an operation is executed by the request that
\* registers it, any other is answered from the record.
Begin(request) == BeginIf(status[request.op] = "unknown", request)

Hashed ==
  /\ \E request \in hashing : Begin(request)
  /\ UNCHANGED <<effects, finalizing, providerVars, link, interrupts>>

\* getOperationOutcome: an outstanding finalization is retried in the queue.
ReceiveOutcome ==
  /\ call.kind = "outcome" /\ call.at = "wire"
  /\ IF call.op \in finalizing
       THEN /\ queue' = Append(queue, Job("finalize", call.op))
            /\ call' = [call EXCEPT !.at = "host"]
       ELSE /\ Answer(TRUE, status[call.op])
            /\ UNCHANGED queue
  /\ UNCHANGED <<status, effects, finalizing, hashing, providerVars, link, interrupts>>

Running(kind) == queue # <<>> /\ Head(queue).kind = kind

\* The executing mutation commits its Host state change ...
CommitEffect ==
  /\ Running("execute") /\ ~Head(queue).applied
  /\ effects' = [effects EXCEPT ![Head(queue).op] = @ + 1]
  /\ queue' = [queue EXCEPT ![1].applied = TRUE]
  /\ UNCHANGED <<status, finalizing, hashing, providerVars, call, link, interrupts>>

\* ... and then records its outcome: the job's last step.  A mutation that
\* threw before its commit records a failure.
Record(op, outcome) == status' = [status EXCEPT ![op] = outcome]

FinishExecution ==
  /\ Running("execute")
  /\ LET job == Head(queue) outcome == IF job.applied THEN "succeeded" ELSE "failed" IN
       /\ Record(job.op, outcome)
       /\ Answer(job.live, outcome)
  /\ queue' = Tail(queue)
  /\ UNCHANGED <<effects, finalizing, hashing, providerVars, link, interrupts>>

Defer(registered) ==
  /\ Running("execute")
  /\ finalizing' = finalizing \cup registered
  /\ Answer(Head(queue).live, "pending")
  /\ queue' = Tail(queue)
  /\ UNCHANGED <<status, effects, hashing, providerVars, link, interrupts>>

\* PendingSessionConfigurationFinalization: the decision is committed, the
\* Agent has not finalized, the operation stays pending in the registry.
DeferExecution ==
  /\ Running("execute") /\ Head(queue).op \in Deferrable
  /\ Defer({Head(queue).op})

\* reconcileSessionConfigurationFinalization with the record its request
\* captured.  If the Agent finalizes, the decided outcome is recorded; a
\* second job for a finalization that is already over answers "pending".
Finalize(done) ==
  /\ Running("finalize")
  /\ LET job == Head(queue)
         outcome == IF effects[job.op] > 0 THEN "succeeded" ELSE "failed" IN
       IF done /\ job.op \in finalizing
         THEN /\ finalizing' = finalizing \ {job.op}
              /\ Record(job.op, outcome)
              /\ Answer(job.live, outcome)
         ELSE /\ Answer(job.live, "pending")
              /\ UNCHANGED <<finalizing, status>>
  /\ queue' = Tail(queue)
  /\ UNCHANGED <<effects, hashing, providerVars, link, interrupts>>

---------------------------------------------------------------------------
(* The transport *)

\* An interruption loses what is on the wire and every answer still to come;
\* what the Host has accepted goes on.  The provider's call rejects, and so
\* does the getOperationOutcome call that follows it.
Interrupt ==
  /\ link /\ interrupts < MaxInterrupts
  /\ link' = FALSE
  /\ interrupts' = interrupts + 1
  /\ call' = NoCall
  /\ hashing' = {[request EXCEPT !.live = FALSE] : request \in hashing}
  /\ queue' = [i \in DOMAIN queue |-> [queue[i] EXCEPT !.live = FALSE]]
  /\ recovering' = TRUE
  /\ told' = IF frame # Idle /\ frame.task = "mutation"
             THEN [told EXCEPT ![frame.op] = "uncertain"] ELSE told
  /\ frame' = Idle
  /\ UNCHANGED <<status, effects, finalizing, pending, mode>>

Restore ==
  /\ ~link
  /\ link' = TRUE
  /\ UNCHANGED <<hostVars, providerVars, call, interrupts>>

---------------------------------------------------------------------------

Init ==
  /\ status = [op \in Ops |-> "unknown"]
  /\ effects = [op \in Ops |-> 0]
  /\ finalizing = {} /\ hashing = {} /\ queue = <<>>
  /\ call = NoCall /\ link = TRUE /\ interrupts = 0
  /\ frame = Idle /\ pending = {} /\ recovering = FALSE /\ mode = "live"
  /\ told = [op \in Ops |-> "nothing"]

HostStep ==
  \/ ReceiveMutate \/ Hashed \/ ReceiveOutcome
  \/ CommitEffect \/ FinishExecution \/ DeferExecution
  \/ \E done \in BOOLEAN : Finalize(done)

ProviderStep ==
  \/ \E op \in Ops : Mutate(op)
  \/ Recover \/ Reconcile \/ CompleteRecovery

Next == HostStep \/ ProviderStep \/ Interrupt \/ Restore

Spec == Init /\ [][Next]_vars

\* The event loops run what is ready, the transport is restored in the end
\* (remoteConnection's reconnect attempts), executions end.
FairSpec ==
  /\ Spec
  /\ WF_vars(HostStep) /\ WF_vars(Recover \/ Reconcile \/ CompleteRecovery)
  /\ WF_vars(Restore)

---------------------------------------------------------------------------
(* Properties *)

\* Types of the Host, the provider and what travels between them; only what
\* the Host may defer is ever waiting for a finalization.
TypeOK ==
  /\ status \in [Ops -> {"unknown", "pending"} \cup Terminal]
  /\ effects \in [Ops -> Nat]
  /\ finalizing \subseteq Deferrable
  /\ hashing \subseteq [op : Ops, live : BOOLEAN]
  /\ queue \in Seq([kind : {"execute", "finalize"}, op : Ops, live : BOOLEAN, applied : BOOLEAN])
  /\ call \in {NoCall} \cup [kind : {"answer"}, outcome : Outcomes]
                \cup [kind : {"mutate", "outcome"}, op : Ops, at : {"wire", "host"}]
  /\ link \in BOOLEAN /\ interrupts \in Nat
  /\ frame \in {Idle} \cup [task : {"mutation", "recovery"}, op : Ops \cup {"none"},
                             todo : SUBSET Ops, round : 0..Rounds, resent : BOOLEAN]
  /\ pending \subseteq Ops
  /\ told \in [Ops -> Terminal \cup {"nothing", "uncertain"}]
  /\ recovering \in BOOLEAN /\ mode \in {"live", "disposed"}

\* However often an operation is resent, its state change is committed once.
\* (operations.begin against resends and requests delayed at the Host)
EffectAtMostOnce == \A op \in Ops : effects[op] <= 1

\* A caller told of success has had its change committed, and one told of
\* failure has not and never will: no request, job or finalization left
\* behind at the Host can still commit it.
ToldIsTrue ==
  \A op \in Ops :
    /\ told[op] = "succeeded" => effects[op] = 1
    /\ told[op] = "failed" => effects[op] = 0 /\ status[op] = "failed"

\* The barrier against new mutations is lifted only when every mutation whose
\* answer was lost has a terminal outcome.  (reconcilePendingMutations before
\* completeConnectionRecovery)  The exception is a Session configuration
\* whose Agent has still not finalized.
BarrierCoversUncertainty ==
  mode = "live" /\ ~recovering =>
    \A op \in pending : (frame # Idle /\ frame.op = op) \/ op \in Deferrable

\* An operation is in doubt at the Host only while something there will settle
\* it: a job of the catalog queue, or a finalization a later request retries.
NothingIsStranded ==
  \A op \in Ops : status[op] = "pending" =>
    op \in finalizing \/ \E i \in DOMAIN queue : queue[i].op = op /\ queue[i].kind = "execute"

\* An outcome the Host has recorded is never revised, even by the jobs and
\* requests of calls that were given up.  (commit returns the first outcome)
OutcomesAreFinal ==
  [][\A op \in Ops : status[op] \in Terminal => UNCHANGED <<status[op], effects[op]>>]_vars

\* A mutation whose answer was lost is settled, or its provider is disposed.
UncertaintyEnds ==
  \A op \in Ops \ Deferrable : op \in pending ~> (op \notin pending \/ mode = "disposed")
=============================================================================
