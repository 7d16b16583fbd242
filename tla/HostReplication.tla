--------------------------- MODULE HostReplication ---------------------------
(***************************************************************************)
(* One authority, one remote client: HostPublication on one side, the      *)
(* replica of AgentHostSessionsProvider behind a RemoteAgentHostConnection *)
(* on the other.  The transport is FIFO and loses everything in flight     *)
(* when it is interrupted; the logical connection outlives it.             *)
(*                                                                         *)
(* The provider has two threads of control: "init", the initialize call,   *)
(* and "queue", the Sequencer that live actions, refreshes and recoveries  *)
(* go through.  A thread runs from one await to the next in one step.      *)
(***************************************************************************)
EXTENDS HostPublication, ProviderReplica

CONSTANTS MaxBuffered,    \* options.maximumBufferedActions
          MaxRefreshes,   \* bound of the model: user refreshes
          MaxInterrupts   \* bound of the model: transport interruptions

\* The states of channels; an undefined state is none of them.
State == [stamp: Nat, members: UNION {[K -> Nat] : K \in SUBSET Chan}]
ASSUME NoStateAssumption == NoState \notin State
\* RemoteAgentHostConnection.create refuses any other limit.
ASSUME BufferAssumption == MaxBuffered \in Nat \ {0}

VARIABLES p,           \* the replica
          threads,     \* what each thread awaits, Idle when nothing
          tasks,       \* the Sequencer's queue behind the running task
          mode,        \* RemoteAgentHostConnection: connected, restoring, disposed
          ready,       \* AgentHostSessionsProvider.create has returned
          recovering,  \* connectionRecovering, the barrier for mutations
          recovery,    \* connectionRecovery: its generation, 0 for undefined
          buffered,    \* bufferedActions
          link,        \* whether the transport is connected
          up, down,    \* requests to the Host; answers and actions to the client
          gen,         \* the transport's generation: interruptions so far, plus 1
          refreshes    \* user refreshes so far

connVars == <<mode, ready, recovering, recovery, buffered, link, gen, refreshes>>
vars == <<hostVars, p, threads, tasks, up, down, connVars>>

Idle == [why |-> "idle"]
Awaiting(why, at, asked, env) == [why |-> why, at |-> at, asked |-> asked, env |-> env]
Request(t, at, channels, last) == [from |-> t, at |-> at, channels |-> channels, last |-> last]
NoAction == [chan |-> Catalog, seq |-> 0, rev |-> 0]

Task(kind) == [kind |-> kind, env |-> NoAction, gen |-> 0]
ActionTask(a) == [kind |-> "action", env |-> a, gen |-> 0]
RecoverTask(g) == [kind |-> "recover", env |-> NoAction, gen |-> g]
CompleteTask(g) == [kind |-> "complete", env |-> NoAction, gen |-> g]

Init ==
  /\ HostInit
  /\ p = NewReplica
  /\ threads = [init |-> Awaiting("initialize", "initialize", {Catalog}, NoAction),
                queue |-> Idle]
  /\ up = <<Request("init", "initialize", {Catalog}, Unnoted)>>
  /\ down = <<>>
  /\ tasks = <<>> /\ buffered = <<>>
  /\ mode = "connected" /\ ready = FALSE
  /\ recovering = FALSE /\ recovery = 0
  /\ link = TRUE /\ gen = 1 /\ refreshes = 0

-----------------------------------------------------------------------------
(* The Host.                                                               *)

HostCommit ==
  /\ Commit
  /\ hostSubs' = hostSubs
  /\ down' = IF link THEN down \o Delivered ELSE down
  /\ UNCHANGED <<p, threads, tasks, up, connVars>>

Answer(t, at, result) == [kind |-> "answer", to |-> t, at |-> at, result |-> result]

HandleRequest ==
  /\ up # <<>>
  /\ LET req == Head(up)
         result == IF req.at = "reconnect"
                   THEN ReconnectResult(req.last, req.channels)
                   ELSE SubscribedResult(req.channels)
     IN /\ hostSubs' = SubscriptionsAfter(result, req.channels)
        /\ down' = Append(down, Answer(req.from, req.at, result))
  /\ up' = Tail(up)
  /\ UNCHANGED <<hostState, p, threads, tasks, connVars>>

-----------------------------------------------------------------------------
(* How a thread goes on: to its next request, to its end or to its failure. *)

\* The recovery that task g belongs to is still the latest one.
Current(g) == recovering /\ recovery = g

\* A wrong variant: the barrier for mutations is never lifted.
CompleteRecoveryKeepsBarrier(rest) ==
  /\ mode' = "connected"
  /\ tasks' = rest \o [i \in DOMAIN buffered |-> ActionTask(buffered[i])]
  /\ buffered' = <<>>
  /\ UNCHANGED <<ready, recovering, recovery, link, gen, refreshes>>

\* Sequencer task "recover" succeeded: completeRecovery releases the buffered
\* actions into the queue, completeConnectionRecovery queues behind them.
CompleteRecovery(rest) ==
  /\ mode' = "connected"
  /\ tasks' = rest \o [i \in DOMAIN buffered |-> ActionTask(buffered[i])]
                   \o <<CompleteTask(recovery)>>
  /\ buffered' = <<>>
  /\ UNCHANGED <<ready, recovering, recovery, link, gen, refreshes>>

Finish(t, why, rest) ==
  /\ threads' = [threads EXCEPT ![t] = Idle]
  /\ UNCHANGED up
  /\ CASE why = "initialize" ->
            /\ ready' = TRUE
            /\ tasks' = rest
            /\ UNCHANGED <<mode, recovering, recovery, buffered, link, gen, refreshes>>
       [] why = "recover" -> CompleteRecovery(rest)
       [] OTHER -> tasks' = rest /\ UNCHANGED connVars

\* An error is reported, except that it ends the provider while it
\* initializes and in a recovery that is still current.
Fail(t, why, rest) ==
  /\ threads' = [threads EXCEPT ![t] = Idle]
  /\ tasks' = rest
  /\ UNCHANGED up
  /\ IF why = "initialize" \/ why = "recover"
     THEN /\ mode' = "disposed"
          /\ UNCHANGED <<ready, recovering, recovery, buffered, link, gen, refreshes>>
     ELSE UNCHANGED connVars

\* A request on a transport that is not connected rejects at once.
Proceed(t, why, env, out, rest) ==
  /\ p' = out.p
  /\ CASE out.then = "done" -> Finish(t, why, rest)
       [] out.then # "done" /\ (out.then = "failed" \/ ~link) -> Fail(t, why, rest)
       [] OTHER ->
            /\ threads' = [threads EXCEPT ![t] = Awaiting(why, out.at, out.asked, env)]
            /\ up' = Append(up, Request(t, out.at, out.asked, out.p.last))
            /\ tasks' = rest
            /\ UNCHANGED connVars

-----------------------------------------------------------------------------
(* The client.                                                             *)

\* receiveAction: into the Sequencer, or into the buffer of a recovery.
ReceiveAction ==
  /\ mode # "disposed" /\ down # <<>> /\ Head(down).kind = "action"
  /\ down' = Tail(down)
  /\ IF mode = "connected"
     THEN tasks' = Append(tasks, ActionTask(Head(down))) /\ UNCHANGED <<mode, buffered>>
     ELSE IF Len(buffered) = MaxBuffered
     THEN mode' = "disposed" /\ buffered' = <<>> /\ UNCHANGED tasks
     ELSE buffered' = Append(buffered, Head(down)) /\ UNCHANGED <<mode, tasks>>
  /\ UNCHANGED <<hostVars, p, threads, up, ready, recovering, recovery, link, gen, refreshes>>

\* A thread resumes with the answer to its request.
Resumed(thread, result) ==
  CASE thread.at \in {"initialize", "refresh"} -> BaselineAnswer(p, result)
    [] thread.at = "sessions"  -> SessionsAnswer(p, thread.asked, result)
    [] thread.at = "topology"  -> TopologyAnswer(p, thread.asked, result)
    [] thread.at = "resync"    -> ResyncAnswer(p, thread.env, result)
    [] thread.at = "reconnect" -> ReconnectAnswer(p, result)

ReceiveAnswer ==
  /\ mode # "disposed" /\ down # <<>> /\ Head(down).kind = "answer"
  /\ LET t == Head(down).to
         thread == threads[t]
     IN Proceed(t, thread.why, thread.env, Resumed(thread, Head(down).result), tasks)
  /\ down' = Tail(down)
  /\ UNCHANGED hostVars

\* The Sequencer starts its next task.
RunTask ==
  /\ mode # "disposed" /\ tasks # <<>> /\ threads.queue = Idle
  /\ LET task == Head(tasks)
         rest == Tail(tasks)
     IN CASE task.kind = "action" ->
               Proceed("queue", "action", task.env, LiveAction(p, task.env), rest)
          [] task.kind = "refresh" ->
               Proceed("queue", "refresh", NoAction, Ask(p, "refresh", p.subs), rest)
          [] task.kind = "recover" ->
               IF Current(task.gen)
               THEN Proceed("queue", "recover", NoAction, Ask(p, "reconnect", p.subs), rest)
               ELSE tasks' = rest /\ UNCHANGED <<p, threads, up, connVars>>
          [] task.kind = "complete" ->
               /\ tasks' = rest
               /\ IF Current(task.gen)
                  THEN recovering' = FALSE /\ recovery' = 0
                  ELSE UNCHANGED <<recovering, recovery>>
               /\ UNCHANGED <<p, threads, up, mode, ready, buffered, link, gen, refreshes>>
  /\ UNCHANGED <<hostVars, down>>

\* A committed mutation refreshes the authoritative state.
RequestRefresh ==
  /\ mode = "connected" /\ ready /\ ~recovering /\ refreshes < MaxRefreshes
  /\ refreshes' = refreshes + 1
  /\ tasks' = Append(tasks, Task("refresh"))
  /\ UNCHANGED <<hostVars, p, threads, up, down, mode, ready, recovering, recovery,
                 buffered, link, gen>>

-----------------------------------------------------------------------------
(* The transport.                                                          *)

\* Everything in flight is lost and every awaited request rejects, which
\* ends the running threads: beginConnectionRecovery made their recovery
\* stale, so only an initialization takes the provider down with it.
Interrupt ==
  /\ mode # "disposed" /\ link /\ gen <= MaxInterrupts
  /\ link' = FALSE /\ gen' = gen + 1
  /\ up' = <<>> /\ down' = <<>> /\ buffered' = <<>>
  /\ threads' = [t \in DOMAIN threads |-> Idle]
  /\ mode' = IF ready THEN "restoring" ELSE "disposed"
  /\ recovering' = TRUE /\ recovery' = 0
  /\ UNCHANGED <<hostVars, p, tasks, ready, refreshes>>

\* The transport is connected again: recoverConnection joins the Sequencer.
Restore ==
  /\ mode = "restoring" /\ ~link
  /\ link' = TRUE
  /\ recovery' = gen
  /\ tasks' = Append(tasks, RecoverTask(gen))
  /\ UNCHANGED <<hostVars, p, threads, up, down, mode, ready, recovering, buffered, gen,
                 refreshes>>

Next ==
  \/ HostCommit \/ HandleRequest
  \/ ReceiveAction \/ ReceiveAnswer \/ RunTask \/ RequestRefresh
  \/ Interrupt \/ Restore

Spec == Init /\ [][Next]_vars

\* The Host answers, the transport delivers and reconnects, the event loop
\* runs what is queued: while any of that is possible, some of it happens.
\* Nobody has to commit, to refresh or to interrupt.  This is WF_vars of
\*   HandleRequest \/ ReceiveAction \/ ReceiveAnswer \/ RunTask \/ Restore
\* with Busy for when one of the five is enabled and Progress for their steps:
\* TLC evaluates these two much faster than ENABLED.
Busy ==
  \/ up # <<>>
  \/ mode # "disposed" /\ (down # <<>> \/ (tasks # <<>> /\ threads.queue = Idle))
  \/ mode = "restoring" /\ ~link
Progress == UNCHANGED <<log, gen, refreshes>>
FairSpec == Spec /\ ([]<>~Busy \/ []<><<Progress>>_vars)

-----------------------------------------------------------------------------
StateAt(ch, rev) ==
  LET acts == {i \in DOMAIN log : log[i].chan = ch /\ log[i].rev = rev}
  IN IF acts = {} THEN InitialState(ch) ELSE log[CHOOSE i \in acts : TRUE].state

\* Types of the replica, of the threads and of what is in flight.
TypeOK ==
  /\ hostSeq \in Nat /\ live \subseteq Session \cup Chat /\ hostSubs \subseteq Chan
  /\ Catalog \in DOMAIN p.red /\ DOMAIN p.red \subseteq Chan
  /\ p.subs \subseteq Chan /\ p.last \in Nat \cup {Unnoted}
  /\ DOMAIN p.shown \subseteq Session \cup Chat
  /\ mode \in {"connected", "restoring", "disposed"}
  /\ ready \in BOOLEAN /\ recovering \in BOOLEAN /\ link \in BOOLEAN
  /\ recovery \in 0 .. gen /\ Len(buffered) <= MaxBuffered
  /\ Len(replay) <= MaximumReplay

\* Every reducer, and every record shown to the user, holds a state its
\* channel really had: at the reducer's revision, which is never ahead.
ReplicaAuthentic ==
  /\ \A ch \in DOMAIN p.red :
       HasState(p.red[ch]) => /\ p.red[ch].rev <= revs[ch]
                              /\ p.red[ch].state = StateAt(ch, p.red[ch].rev)
  /\ \A ch \in DOMAIN p.shown : \E rev \in 0 .. revs[ch] : p.shown[ch] = StateAt(ch, rev)

\* A provider that has settled shows exactly what the Host has: no Session
\* or Chat too many, none missing, none stale, and follows all of them.
Settled ==
  /\ mode = "connected" /\ ready /\ ~recovering
  /\ tasks = <<>> /\ up = <<>> /\ down = <<>>
  /\ \A t \in DOMAIN threads : threads[t] = Idle
Converged ==
  /\ p.shown = [ch \in live |-> CurrentState(ch)]
  /\ p.subs = {Catalog} \cup live /\ hostSubs = p.subs
  /\ p.red[Catalog].state = CurrentState(Catalog)
SettledIsConverged == Settled => Converged

\* A replay is all or nothing: whatever the replay buffer forgot, an answer
\* of kind replay holds every action the client asked for, in order.
ReplayIsComplete ==
  \A i \in DOMAIN down :
    down[i].kind = "answer" /\ down[i].result.kind = "replay"
      => LET r == down[i].result
             due == {j \in DOMAIN log : log[j].seq > r.from /\ log[j].seq <= r.through
                                        /\ log[j].chan \in hostSubs}
         IN /\ {r.actions[j] : j \in DOMAIN r.actions} = {log[j] : j \in due}
            /\ \A j, k \in DOMAIN r.actions : j < k => r.actions[j].seq < r.actions[k].seq

\* However often the transport is interrupted, the provider ends up either
\* showing the Host's state or disposed: no recovery hangs, no channel waits
\* for a snapshot forever, the barrier for mutations is lifted again.
RecoveryEnds == <>[]((Settled /\ Converged) \/ mode = "disposed")

\* The user never sees a Session or Chat fall back to an older state.
ShownNeverRegresses ==
  [][\A ch \in DOMAIN p.shown \cap DOMAIN p'.shown :
       p'.shown[ch].stamp >= p.shown[ch].stamp]_vars

\* Does not hold (README).  What the documentation says of a reconnect: the Host answers it with the
\* retained actions or with snapshots (AGENT_HOST.md).  The answer to a
\* setSubscriptions that was lost leaves the two subscription sets apart.
ReconnectAccepted ==
  \A i \in DOMAIN down : down[i].kind = "answer" => down[i].result.kind # "rejected"

\* Does not hold (README).  What the documentation says of lastHostSequence: it is the last one that
\* was applied (AGENT_HOST.md), so a replay continues every reducer.
ReplayContinues ==
  \A i \in DOMAIN down :
    down[i].kind = "answer" /\ down[i].result.kind = "replay"
      => ReplayApplicable(p, down[i].result.actions)

=============================================================================
