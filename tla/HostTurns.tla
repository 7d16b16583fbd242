----------------------------- MODULE HostTurns -----------------------------
(***************************************************************************)
(* The Turns of one Chat as the Agent Host keeps them                      *)
(* (agentHostAuthority.ts).                                                *)
(*                                                                         *)
(* The client's mutations and the actions its Agent emits are jobs of one  *)
(* catalog queue.  The Host calls the Agent from inside a job (respond,    *)
(* release, delete) or when the job has committed (send, cancel); what the *)
(* Agent emits meanwhile goes to the end of the queue.  A package          *)
(* operation, or the shutdown of the Host, closes the gate of the Agent    *)
(* and waits until no Turn of it is open.                                  *)
(*                                                                         *)
(* This module is the Host's half.  An operator here takes what the Agent  *)
(* emits in the same step as its last parameter; AgentTurns supplies the   *)
(* Agents.  No Agent in the repository supports queueing, so a Turn is     *)
(* never "queued"; the two waiting states are one.  The drain of a package *)
(* operation, its state lock and its commits are in PackageMutation.       *)
(***************************************************************************)
EXTENDS Naturals, Sequences, SequencesExt, FiniteSets, FiniteSetsExt

CONSTANTS
  Turns,        \* Turn identities (identityFactory.createTurn, never reused)
  Requests,     \* identities of the interactions of one Turn
  Budget        \* bound: what may disturb the Turns, all of it together

ASSUME BudgetAssumption == Budget \in Nat
ASSUME FiniteAssumption == IsFiniteSet(Turns) /\ IsFiniteSet(Requests)

Executing == {"running", "waiting", "cancelling"}
Open == {"accepted"} \cup Executing                 \* activeTurnStates
Terminal == {"completed", "cancelled", "failed"}    \* terminalTurnStates
NoTurn == "none"
ASSUME NoTurnAssumption == NoTurn \notin Turns

VARIABLES
  chat,         \* its lifecycle: "available" | "released" | "deleted"
  turns,        \* the state of each Turn; "none" before it is submitted
  activeTurn,   \* chat.state.activeTurn
  pending,      \* the pending interactions of each Turn ...
  closed,       \* ... and the resolved or cancelled ones
  anchors,      \* turnContentAnchors: the Turns that hold content leases
  bindings,     \* toolTurnBindings and credentialTurnBindings
  queue,        \* the catalog queue; its head is the job that runs
  started,      \* the mutation at its head has passed the gate (lifecycleActivities)
  gate,         \* the package operation or shutdown that holds the gate, and how far it is
  spent         \* how often each disturbance has happened, for the bound

chatVars == <<chat, turns, activeTurn, pending, closed, anchors, bindings>>
hostVars == <<chatVars, queue, started, gate, spent>>

Mutations == {"submit", "cancel", "respond", "release", "materialize", "delete"}
Job(kind, t, about) == [kind |-> kind, turn |-> t, about |-> about, data |-> FALSE]
Progress(t, state) == Job("progress", t, state)
Requested(t, r) == Job("requested", t, r)
Answered(t, r) == Job("answered", t, r)
\* data: whether the action carries any
Ended(t, outcome, data) == [Job("terminal", t, outcome) EXCEPT !.data = data]
\* What startTurn and startCancellation enqueue when the Agent's call rejects.
Rejected(t) == Ended(t, "failed", TRUE)

Disturbances == {"cancel", "lifecycle", "gate", "failure", "fault"}
Spend(what) ==
  /\ MapThenSumSet(LAMBDA d : spent[d], Disturbances) < Budget
  /\ spent' = [spent EXCEPT ![what] = @ + 1]

Idle == [by |-> "none", at |-> "open", turn |-> NoTurn]
\* Wrong variant: only the Turn that executes counts, not one just accepted.
QuiescentByActive == ~started /\ activeTurn = NoTurn

IsQuiescent == ~started /\ \A t \in Turns : turns[t] \notin Open

---------------------------------------------------------------------------
(* The queue *)

\* mutate refuses while the Host closes; what is accepted joins the queue.
Mutate(job) ==
  /\ gate.by # "shutdown"
  /\ queue' = Append(queue, job)
  /\ UNCHANGED <<chatVars, started, gate>>

\* runLifecycleActivity: a mutation that finds the gate closed is refused.
Begin ==
  /\ queue # <<>> /\ Head(queue).kind \in Mutations /\ ~started
  /\ IF gate = Idle THEN started' = TRUE /\ UNCHANGED queue
     ELSE queue' = Tail(queue) /\ UNCHANGED started
  /\ UNCHANGED <<chatVars, gate, spent>>

Running(kind) == queue # <<>> /\ Head(queue).kind = kind /\ (kind \in Mutations => started)

\* The job ends, what the Agent emitted during it is behind all other jobs.
Done(emitted) == queue' = Tail(queue) \o emitted /\ started' = FALSE

\* What the code requires of the chat before a job changes it.  A terminal
\* action must leave no interaction open, and only a failure may carry data.
Admits(job) ==
  LET t == job.turn IN
  CASE job.kind = "submit" -> chat = "available" /\ \A u \in Turns : turns[u] \notin Open
    [] job.kind = "release" -> chat = "available"
    [] job.kind = "materialize" -> chat = "released"
    [] job.kind = "delete" -> chat # "deleted"
    [] job.kind = "respond" -> turns[t] \in Open /\ job.about \in pending[t]
    [] job.kind = "requested" -> turns[t] \in Open /\ job.about \notin pending[t] \cup closed[t]
    [] job.kind = "answered" -> turns[t] \in Open /\ job.about \in pending[t]
    [] job.kind = "terminal" -> /\ turns[t] \in Open /\ pending[t] = {}
                                /\ job.data => job.about = "failed"
    [] OTHER -> turns[t] \in Open    \* cancel, progress

\* A mutation fails, or an action is reported to onDidRejectAgentAction.
Refuse ==
  /\ queue # <<>> /\ Running(Head(queue).kind)
  /\ ~Admits(Head(queue))
  /\ Done(<<>>)
  /\ UNCHANGED <<chatVars, gate, spent>>

\* The commit of the Host state fails and the job throws; nothing has changed.
CommitFails ==
  /\ queue # <<>> /\ Running(Head(queue).kind) /\ Admits(Head(queue))
  /\ Spend("failure")
  /\ Done(<<>>)
  /\ UNCHANGED <<chatVars, gate>>

Commit(kind) == Running(kind) /\ Admits(Head(queue)) /\ UNCHANGED <<gate, spent>>

---------------------------------------------------------------------------
(* The client's mutations *)

\* Content leases, tool and credential bindings come first, then the commit;
\* the Agent begins after it.
SubmitTurn(emitted) ==
  /\ Commit("submit")
  /\ LET t == Head(queue).turn IN
       /\ turns' = [turns EXCEPT ![t] = "accepted"]
       /\ anchors' = anchors \cup {t}
       /\ bindings' = bindings \cup {t}
  /\ Done(emitted)
  /\ UNCHANGED <<chat, activeTurn, pending, closed>>

Execute(t, state) ==
  /\ turns' = [turns EXCEPT ![t] = state]
  /\ activeTurn' = t

CancelTurn(emitted) ==
  /\ Commit("cancel")
  /\ Execute(Head(queue).turn, "cancelling")
  /\ Done(emitted)
  /\ UNCHANGED <<chat, pending, closed, anchors, bindings>>

Settle(t, r) ==
  /\ pending' = [pending EXCEPT ![t] = @ \ {r}]
  /\ closed' = [closed EXCEPT ![t] = @ \cup {r}]

\* The Agent has been asked before the commit.
RespondInteraction ==
  /\ Commit("respond")
  /\ Execute(Head(queue).turn, "running")
  /\ Settle(Head(queue).turn, Head(queue).about)
  /\ Done(<<>>)
  /\ UNCHANGED <<chat, anchors, bindings>>

\* None of the three looks at the Turns; the bindings of the Chat are retired,
\* its content leases are not.
ReleaseChat ==
  /\ Commit("release")
  /\ chat' = "released" /\ bindings' = {}
  /\ Done(<<>>)
  /\ UNCHANGED <<turns, activeTurn, pending, closed, anchors>>

MaterializeChat ==
  /\ Commit("materialize")
  /\ chat' = "available"
  /\ Done(<<>>)
  /\ UNCHANGED <<turns, activeTurn, pending, closed, anchors, bindings>>

DeleteChat ==
  /\ Commit("delete")
  /\ chat' = "deleted" /\ bindings' = {}
  /\ turns' = [t \in Turns |-> IF turns[t] = "none" THEN "none" ELSE "gone"]
  /\ activeTurn' = NoTurn
  /\ Done(<<>>)
  /\ UNCHANGED <<pending, closed, anchors>>

---------------------------------------------------------------------------
(* applyAgentAction *)

TurnProgress ==
  /\ Commit("progress")
  /\ Execute(Head(queue).turn, Head(queue).about)
  /\ Done(<<>>)
  /\ UNCHANGED <<chat, pending, closed, anchors, bindings>>

InteractionRequested ==
  /\ Commit("requested")
  /\ Execute(Head(queue).turn, "waiting")
  /\ pending' = [pending EXCEPT ![Head(queue).turn] = @ \cup {Head(queue).about}]
  /\ Done(<<>>)
  /\ UNCHANGED <<chat, closed, anchors, bindings>>

InteractionCompleted ==
  /\ Commit("answered")
  /\ Execute(Head(queue).turn, "running")
  /\ Settle(Head(queue).turn, Head(queue).about)
  /\ Done(<<>>)
  /\ UNCHANGED <<chat, anchors, bindings>>

\* Wrong variant: the content leases of the Turn are not given back.
TurnTerminalKeepsContent ==
  /\ Commit("terminal")
  /\ LET t == Head(queue).turn IN
       /\ turns' = [turns EXCEPT ![t] = Head(queue).about]
       /\ activeTurn' = IF activeTurn = t THEN NoTurn ELSE activeTurn
       /\ bindings' = bindings \ {t}
  /\ Done(<<>>)
  /\ UNCHANGED <<chat, pending, closed, anchors>>

\* The Turn is over; what it held is given back when that is committed.
TurnTerminal ==
  /\ Commit("terminal")
  /\ LET t == Head(queue).turn IN
       /\ turns' = [turns EXCEPT ![t] = Head(queue).about]
       /\ activeTurn' = IF activeTurn = t THEN NoTurn ELSE activeTurn
       /\ bindings' = bindings \ {t}
       /\ anchors' = anchors \ {t}
  /\ Done(<<>>)
  /\ UNCHANGED <<chat, pending, closed>>

ApplyAgentAction ==
  TurnProgress \/ InteractionRequested \/ InteractionCompleted \/ TurnTerminal

---------------------------------------------------------------------------
(* The gate *)

Held(by, at) == [by |-> by, at |-> at, turn |-> NoTurn]

\* A package operation closes the gate; it cancels no Turn.
AcquireForPackage ==
  /\ gate = Idle /\ Spend("gate")
  /\ gate' = Held("package", "drain")
  /\ UNCHANGED <<chatVars, queue, started>>

\* waitForQuiescence
Drained ==
  /\ gate.at = "drain" /\ IsQuiescent
  /\ gate' = Held(gate.by, IF gate.by = "package" THEN "drained" ELSE "closed")
  /\ UNCHANGED <<chatVars, queue, started, spent>>

PackageSettles ==
  /\ gate = Held("package", "drained")
  /\ gate' = Idle
  /\ UNCHANGED <<chatVars, queue, started, spent>>

\* close asks the Agent to cancel the Turn that is open, outside the queue and
\* without a change of its state, and waits for the answer; an Agent that
\* refuses makes the shutdown fail.
BeginClose(t, answer, emitted) ==
  /\ gate = Idle /\ Spend("gate")
  /\ gate' = CASE answer = "refused" -> Idle
               [] answer = "awaited" -> [by |-> "shutdown", at |-> "cancel", turn |-> t]
               [] OTHER -> Held("shutdown", "drain")
  /\ queue' = queue \o emitted
  /\ UNCHANGED <<chatVars, started>>

\* The gate once the Agent has answered the cancellation of t.
GateAnswered(t, refused) ==
  IF gate.turn # t THEN gate ELSE IF refused THEN Idle ELSE Held("shutdown", "drain")

HostInit ==
  /\ chat = "available"
  /\ turns = [t \in Turns |-> "none"] /\ activeTurn = NoTurn
  /\ pending = [t \in Turns |-> {}] /\ closed = [t \in Turns |-> {}]
  /\ anchors = {} /\ bindings = {}
  /\ queue = <<>> /\ started = FALSE /\ gate = Idle
  /\ spent = [d \in Disturbances |-> 0]
=============================================================================
