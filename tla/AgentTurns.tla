----------------------------- MODULE AgentTurns -----------------------------
(***************************************************************************)
(* The Turns of one Chat between the Agent Host and its built-in Agent.    *)
(*                                                                         *)
(* CodexAgent runs a Turn through an app-server: it awaits a credential,   *)
(* the thread of the Chat, the start of the native Turn and then its       *)
(* completion; a cancellation interrupts the native Turn once its identity *)
(* is known and is reported at once otherwise.  Notifications find their   *)
(* Turn through activeTurnsByThread.  CometAgent runs its own loop, one    *)
(* Turn of a Chat at a time, and awaits the end of a Turn it cancels.      *)
(*                                                                         *)
(* The app-server is external: it answers and notifies in one stream, so a *)
(* native Turn that was interrupted is reported completed before a later   *)
(* request is answered.  It may answer a request with an error, exit, or   *)
(* send what the client does not understand: failProtocol then rejects     *)
(* what is pending and kills it, and its exit is told later.  A            *)
(* continuation that awaits nothing more runs in the step that resumes it. *)
(***************************************************************************)
EXTENDS HostTurns

CONSTANT Agents    \* the Agents the Chat may belong to, among "codex" and "comet"

ASSUME AgentsAssumption == Agents \subseteq {"codex", "comet"}

VARIABLES
  agent,       \* the Agent of the Chat
  loaded,      \* the Chat at the Agent: "loaded" | "released" | "gone"
  run,         \* where the send of each Turn is suspended
  cancelled,   \* active.cancelled, or the cancellation token of Comet's Turn
  reported,    \* terminalTurns: the Turns whose end the Agent has emitted
  asked,       \* pendingInteractions of each Turn
  used,        \* the requests its native Turn has made
  thread,      \* chat.resume.threadId
  mine,        \* the thread each Turn asked for, NoTurn when it starts one
  byThread,    \* activeTurnsByThread; a thread is named by the Turn that started it
  known,       \* appServerTurnId of each Turn: the Turn that started the native one
  completion,  \* active.completion: "open" | "resolved" | "rejected"
  native,      \* the native Turn of each: "none" | "running" | "aborted" | "ended"
  interrupt,   \* active.interrupt: "none" | "asked" | "answered" | "refused"
  waiting,     \* the Turns whose startCancellation awaits the Agent
  client       \* this.client: "none" | "connected" | "failed", which has been killed

codexVars == <<asked, used, thread, mine, byThread, known, completion, native, interrupt, client>>
agentVars == <<agent, loaded, run, cancelled, reported, waiting, codexVars>>
vars == <<hostVars, agentVars>>

Codex == agent = "codex"
Comet == agent = "comet"
\* activeTurnsByHost; Comet's chat.activeTurn.  A send that "failed" is over, and
\* its catch block has reported the Turn.
Active(t) == run[t] \notin {"none", "over", "failed"}
Requesting(t) == run[t] \in {"thread", "starting", "interrupting"}
AtServer(t) == Requesting(t) \/ run[t] = "native"

\* emitTerminal says it once.
Report(t, outcome, data) == IF t \in reported THEN <<>> ELSE <<Ended(t, outcome, data)>>
\* Wrong variant: the interactions of a Turn that ends stay open.
NoCompletions(t) == <<>>
Completions(t) == SetToSeq({Answered(t, r) : r \in asked[t]})

Emit(emitted) == queue' = queue \o emitted /\ UNCHANGED <<chatVars, started>>

---------------------------------------------------------------------------
(* Codex: the send of a Turn *)

\* The finally block of send forgets whoever is active on the Chat's thread.
Finally(of) == IF of = NoTurn THEN byThread ELSE [byThread EXCEPT ![of] = NoTurn]

EndSend(t, of) ==
  /\ run' = [run EXCEPT ![t] = "over"]
  /\ byThread' = Finally(of)

\* The catch block reports the Turn, its interactions stay open.
Caught(t) == IF t \in reported THEN "over" ELSE "failed"
FailSend(t, of) ==
  /\ run' = [run EXCEPT ![t] = Caught(t)]
  /\ byThread' = Finally(of)
  /\ reported' = reported \cup {t}
  /\ Emit(Report(t, "failed", TRUE))

\* A client that is there is used, whatever has become of it.
Connected == IF client = "none" THEN "connected" ELSE client

\* The credential is resolved and a client is there, or connected.
Resolve(t) ==
  /\ Codex /\ run[t] = "credential"
  /\ \/ /\ t \notin cancelled
        /\ run' = [run EXCEPT ![t] = "thread"]
        /\ mine' = [mine EXCEPT ![t] = thread]
        /\ client' = Connected
        /\ UNCHANGED <<byThread, reported>> /\ Emit(<<>>)
     \/ /\ t \in cancelled
        /\ EndSend(t, thread)
        /\ client' \in {client, Connected}
        /\ UNCHANGED <<mine, reported>> /\ Emit(<<>>)
     \/ /\ FailSend(t, thread)    \* no credential or app-server, or the Tools have changed
        /\ client' \in {client, Connected}
        /\ UNCHANGED mine
  /\ UNCHANGED <<agent, loaded, cancelled, waiting, asked, used, thread, known, completion,
                 native, interrupt, gate, spent>>

\* thread/start or thread/resume is answered; a thread that is taken fails the Turn.
ThreadReady(t) ==
  /\ Codex /\ run[t] = "thread" /\ client = "connected"
  /\ \A u \in Turns : native[u] # "aborted"
  /\ \/ LET own == IF mine[t] = NoTurn THEN t ELSE mine[t] IN
          /\ mine' = [mine EXCEPT ![t] = own]
          /\ thread' = IF mine[t] = NoTurn THEN t ELSE thread
          /\ IF t \in cancelled
               THEN EndSend(t, thread') /\ UNCHANGED reported /\ Emit(<<>>)
             ELSE IF byThread[own] # NoTurn
               THEN FailSend(t, thread')
             ELSE /\ run' = [run EXCEPT ![t] = "starting"]
                  /\ byThread' = [byThread EXCEPT ![own] = t]
                  /\ UNCHANGED reported /\ Emit(<<>>)
     \/ FailSend(t, thread) /\ UNCHANGED <<mine, thread>>    \* with an error
  /\ UNCHANGED <<agent, loaded, cancelled, waiting, asked, used, known, completion, native,
                 interrupt, client, gate, spent>>

\* turn/start is answered: the send interrupts the Turn if it was cancelled
\* meanwhile, and otherwise awaits its completion.
Started(t) ==
  /\ Codex /\ run[t] = "starting" /\ client = "connected"
  /\ \/ /\ native[t] # "none"
        /\ known' = IF known[t] = NoTurn THEN [known EXCEPT ![t] = t] ELSE known
        /\ LET fails == \/ known'[t] # t    \* the notification gave it another identity
                        \/ t \in cancelled /\ interrupt[t] = "refused"
                        \/ t \notin cancelled /\ completion[t] = "rejected"
               over == IF t \in cancelled THEN interrupt[t] = "answered" ELSE completion[t] = "resolved"
           IN IF fails THEN FailSend(t, thread) /\ UNCHANGED interrupt
              ELSE IF over THEN EndSend(t, thread) /\ UNCHANGED <<interrupt, reported>> /\ Emit(<<>>)
              ELSE /\ run' = [run EXCEPT ![t] = IF t \in cancelled THEN "interrupting" ELSE "native"]
                   /\ interrupt' = IF t \in cancelled THEN [interrupt EXCEPT ![t] = "asked"] ELSE interrupt
                   /\ UNCHANGED <<byThread, reported>> /\ Emit(<<>>)
     \/ FailSend(t, thread) /\ UNCHANGED <<known, interrupt>>    \* with an error, or without a Turn
  /\ UNCHANGED <<agent, loaded, cancelled, waiting, asked, used, thread, mine, completion, native,
                 client, gate, spent>>

---------------------------------------------------------------------------
(* Codex: the app-server *)

\* The sends that are lost end; the requests that are pending are rejected, and
\* a cancellation that awaits one with it.
Lost(lost, says) ==
  LET refused == {t \in waiting : interrupt[t] = "asked"} IN
  /\ byThread' = IF lost = {} THEN byThread ELSE Finally(thread)
  /\ interrupt' = [t \in Turns |-> IF interrupt[t] = "asked" THEN "refused" ELSE interrupt[t]]
  /\ waiting' = waiting \ refused
  /\ gate' = IF gate.turn # NoTurn THEN Idle ELSE gate
  /\ Emit(says \o SetToSeq({Rejected(t) : t \in refused}))

\* failProtocol: what is pending is rejected and the app-server killed.
ProtocolFailed ==
  LET lost == {t \in Turns : Requesting(t)} IN
  /\ client' = "failed"
  /\ run' = [t \in Turns |-> IF t \in lost THEN Caught(t) ELSE run[t]]
  /\ reported' = reported \cup lost
  /\ Lost(lost, FlattenSeq([i \in 1 .. Cardinality(lost) |-> Report(SetToSeq(lost)[i], "failed", TRUE)]))

ProtocolFails ==
  /\ Codex /\ client = "connected" /\ Spend("fault")
  /\ ProtocolFailed
  /\ UNCHANGED <<agent, loaded, cancelled, asked, used, thread, mine, known, completion, native>>

\* The native Turn begins; turn/started tells its identity to the Turn that is
\* registered for the thread, which may not have another one.
NativeBegins(t) ==
  /\ Codex /\ run[t] = "starting" /\ native[t] = "none" /\ client = "connected"
  /\ native' = [native EXCEPT ![t] = "running"]
  /\ LET u == byThread[mine[t]] IN
       IF u # NoTurn /\ u \notin reported /\ known[u] # NoTurn
         THEN ProtocolFailed /\ UNCHANGED <<known, spent>>
         ELSE /\ known' = IF u = NoTurn \/ u \in reported THEN known ELSE [known EXCEPT ![u] = t]
              /\ UNCHANGED <<hostVars, run, reported, waiting, byThread, interrupt, client>>
  /\ UNCHANGED <<agent, loaded, cancelled, asked, used, thread, mine, completion>>

\* The Turn a notification or request of t's native Turn is taken for.
Addressed(t) ==
  LET u == byThread[mine[t]] IN
  IF u # NoTurn /\ known[u] \in {NoTurn, t} THEN u ELSE NoTurn

\* A native request for an approval or for input; it blocks the native Turn.
NativeRequests(t, r) ==
  /\ Codex /\ native[t] = "running" /\ r \notin used[t]
  /\ LET u == Addressed(t) IN
       /\ u # NoTurn /\ known[u] = t
       /\ asked' = [asked EXCEPT ![u] = @ \cup {r}]
       /\ Emit(<<Requested(u, r)>>)
  /\ used' = [used EXCEPT ![t] = @ \cup {r}]
  /\ UNCHANGED <<agent, loaded, run, cancelled, reported, waiting, thread, mine, byThread, known,
                 completion, native, interrupt, client, gate, spent>>

\* turn/completed for the native Turn of t.
NativeEnds(t, outcome) ==
  /\ Codex
  /\ \/ native[t] = "running" /\ outcome \in {"completed", "failed"} /\ asked[t] = {}
     \/ native[t] = "aborted" /\ outcome = "cancelled"
  /\ native' = [native EXCEPT ![t] = "ended"]
  /\ LET u == Addressed(t) IN
       IF u = NoTurn
         THEN UNCHANGED <<asked, reported, completion, run, byThread>> /\ Emit(<<>>)
         ELSE /\ asked' = [asked EXCEPT ![u] = {}]
              /\ reported' = reported \cup {u}
              /\ completion' = [completion EXCEPT ![u] = "resolved"]
              /\ Emit(Completions(u) \o Report(u, outcome, outcome = "failed"))
              /\ IF run[u] = "native" THEN EndSend(u, thread) ELSE UNCHANGED <<run, byThread>>
  /\ UNCHANGED <<agent, loaded, cancelled, waiting, used, thread, mine, known, interrupt,
                 client, gate, spent>>

\* turn/interrupt is answered: whoever awaits it goes on.
InterruptAnswered(t) ==
  /\ Codex /\ interrupt[t] = "asked" /\ client = "connected"
  /\ interrupt' = [interrupt EXCEPT ![t] = "answered"]
  /\ native' = [native EXCEPT ![known[t]] = IF @ = "running" THEN "aborted" ELSE @]
  /\ reported' = reported \cup {t}
  /\ completion' = [completion EXCEPT ![t] = IF @ = "open" THEN "resolved" ELSE @]
  /\ waiting' = waiting \ {t}
  /\ gate' = GateAnswered(t, FALSE)
  /\ Emit(Report(t, "cancelled", FALSE))
  /\ IF run[t] \in {"native", "interrupting"} THEN EndSend(t, thread) ELSE UNCHANGED <<run, byThread>>
  /\ UNCHANGED <<agent, loaded, cancelled, asked, used, thread, mine, known, client, spent>>

InterruptRefused(t) ==
  /\ Codex /\ interrupt[t] = "asked" /\ client = "connected" /\ Spend("fault")
  /\ interrupt' = [interrupt EXCEPT ![t] = "refused"]
  /\ waiting' = waiting \ {t}
  /\ gate' = GateAnswered(t, TRUE)
  /\ LET fails == run[t] = "interrupting" IN
       /\ reported' = IF fails THEN reported \cup {t} ELSE reported
       /\ Emit((IF fails THEN Report(t, "failed", TRUE) ELSE <<>>)
               \o (IF t \in waiting THEN <<Rejected(t)>> ELSE <<>>))
       /\ run' = IF fails THEN [run EXCEPT ![t] = Caught(t)] ELSE run
       /\ byThread' = IF fails THEN Finally(thread) ELSE byThread
  /\ UNCHANGED <<agent, loaded, cancelled, asked, used, thread, mine, known, completion, native, client>>

\* handleClientExit: every active Turn is reported failed; those that await
\* the app-server end, one that still awaits its credential goes on.
ClientExits ==
  /\ Codex /\ client # "none" /\ client' = "none"
  /\ IF client = "connected" THEN Spend("fault") ELSE UNCHANGED spent
  /\ LET active == {t \in Turns : Active(t)}
         lost == {t \in active : AtServer(t)}
         Closing(t) == Completions(t) \o Report(t, "failed", TRUE)
     IN /\ reported' = reported \cup active
        /\ asked' = [t \in Turns |-> IF t \in active THEN {} ELSE asked[t]]
        /\ completion' = [t \in Turns |-> IF t \in active /\ completion[t] = "open" THEN "rejected"
                                          ELSE completion[t]]
        /\ run' = [t \in Turns |-> IF t \in lost THEN "over" ELSE run[t]]
        /\ native' = [t \in Turns |-> IF native[t] = "none" THEN "none" ELSE "ended"]
        /\ Lost(lost, FlattenSeq([i \in 1 .. Cardinality(active) |-> Closing(SetToSeq(active)[i])]))
  /\ UNCHANGED <<agent, loaded, cancelled, used, thread, mine, known>>

---------------------------------------------------------------------------
(* Comet *)

\* runTurn ends.  Once the token is cancelled an error is a cancellation.
CometEnds(t, outcome) ==
  /\ Comet /\ run[t] = "loop"
  /\ outcome \in IF t \in cancelled THEN {"completed", "cancelled"} ELSE {"completed", "failed"}
  /\ run' = [run EXCEPT ![t] = "over"]
  /\ reported' = reported \cup {t}
  /\ waiting' = waiting \ {t}
  /\ gate' = GateAnswered(t, FALSE)
  /\ Emit(<<Ended(t, outcome, outcome # "completed")>>)
  /\ UNCHANGED <<agent, loaded, cancelled, codexVars, spent>>

---------------------------------------------------------------------------
(* What the Agent does when the Host calls it *)

\* send.  Codex admits any Turn of a loaded Chat, Comet one at a time.
Refuses(t) == loaded # "loaded" \/ (Comet /\ \E u \in Turns : Active(u))

Send ==
  LET t == Head(queue).turn IN
  IF Refuses(t)
    THEN SubmitTurn(<<Rejected(t)>>) /\ UNCHANGED run
    ELSE /\ SubmitTurn(<<Progress(t, "running")>>)
         /\ run' = [run EXCEPT ![t] = IF Codex THEN "credential" ELSE "loop"]

\* cancel: what it answers at once, and what it has said by then.
CancelAnswer(t) ==
  IF loaded # "loaded" \/ (Comet /\ ~Active(t)) THEN "refused"
  ELSE IF Comet THEN "awaited"
  ELSE IF ~Active(t) \/ thread = NoTurn \/ known[t] = NoTurn \/ interrupt[t] = "answered" THEN "done"
  ELSE IF interrupt[t] = "refused" \/ client = "none" THEN "refused" ELSE "awaited"

CancelSays(t) ==
  IF Comet THEN IF CancelAnswer(t) = "refused" THEN <<>> ELSE <<Progress(t, "cancelling")>>
  ELSE IF loaded # "loaded" THEN <<>>
  ELSE (IF Active(t) THEN Completions(t) ELSE <<>>)
       \o (IF CancelAnswer(t) = "done" THEN Report(t, "cancelled", FALSE) ELSE <<>>)

\* Wrong variant: the Turn is marked, the native one is not interrupted.
CancelMarksOnly(t) ==
  /\ cancelled' = IF loaded = "loaded" /\ Active(t) THEN cancelled \cup {t} ELSE cancelled
  /\ UNCHANGED <<asked, interrupt, reported, completion, run, byThread>>

CancelTakesEffect(t) ==
  LET answer == CancelAnswer(t)
      marked == loaded = "loaded" /\ Active(t)
      over == Codex /\ answer = "done"
  IN /\ cancelled' = IF marked THEN cancelled \cup {t} ELSE cancelled
     /\ asked' = IF marked THEN [asked EXCEPT ![t] = {}] ELSE asked
     /\ interrupt' = IF Codex /\ answer = "awaited" /\ interrupt[t] = "none"
                     THEN [interrupt EXCEPT ![t] = "asked"] ELSE interrupt
     /\ reported' = IF over THEN reported \cup {t} ELSE reported
     /\ completion' = IF over /\ marked /\ completion[t] = "open"
                      THEN [completion EXCEPT ![t] = "resolved"] ELSE completion
     /\ IF over /\ run[t] = "native" THEN EndSend(t, thread) ELSE UNCHANGED <<run, byThread>>

Cancel ==
  LET t == Head(queue).turn
      refused == IF CancelAnswer(t) = "refused" THEN <<Rejected(t)>> ELSE <<>>
  IN /\ CancelTurn(CancelSays(t) \o refused)
     /\ CancelTakesEffect(t)
     /\ waiting' = IF CancelAnswer(t) = "awaited" THEN waiting \cup {t} ELSE waiting
     /\ UNCHANGED <<agent, loaded, used, thread, mine, known, native, client>>

\* interactions.respond is asked before the Host commits.
Respond ==
  /\ Running("respond") /\ Admits(Head(queue))
  /\ LET t == Head(queue).turn
         r == Head(queue).about
     IN IF r \in asked[t]
          THEN /\ asked' = [asked EXCEPT ![t] = @ \ {r}]
               /\ RespondInteraction \/ CommitFails
          ELSE Done(<<>>) /\ UNCHANGED <<chatVars, gate, spent, asked>>

\* release, materialize, delete: the Agent first, then the commit, then, when
\* the commit failed, the Agent again to undo it, except for a deletion.  Both
\* calls have the identity of the mutation; Codex takes the second for a
\* repetition of the first, Comet distinguishes what is asked.
Undone(to) == IF Codex THEN loaded' = to ELSE UNCHANGED loaded

AgentRefuses(to) ==
  LET busy == \E t \in Turns : Active(t) IN
  CASE to = "released" -> loaded = "gone" \/ (Comet /\ (loaded # "loaded" \/ busy))
    [] to = "loaded" -> Comet /\ loaded = "loaded"
    [] to = "gone" -> Comet /\ (loaded = "gone" \/ busy)

Release ==
  /\ Running("release") /\ Admits(Head(queue))
  /\ IF AgentRefuses("released") THEN Done(<<>>) /\ UNCHANGED <<chatVars, gate, spent, loaded>>
     ELSE \/ ReleaseChat /\ loaded' = "released"
          \/ CommitFails /\ Undone("released")

Materialize ==
  /\ Running("materialize") /\ Admits(Head(queue))
  /\ IF AgentRefuses("loaded") THEN Done(<<>>) /\ UNCHANGED <<chatVars, gate, spent, loaded>>
     ELSE \/ MaterializeChat /\ loaded' = "loaded"
          \/ CommitFails /\ Undone("loaded")

Delete ==
  /\ Running("delete") /\ Admits(Head(queue))
  /\ IF AgentRefuses("gone") THEN Done(<<>>) /\ UNCHANGED <<chatVars, gate, spent, loaded, reported>>
     ELSE /\ DeleteChat \/ CommitFails
          /\ loaded' = "gone"
          /\ reported' = IF Codex THEN {} ELSE reported

\* close asks for the end of the open Turn, and fails when that is refused.
CloseHost ==
  LET open == {t \in Turns : turns[t] \in Open} IN
  \/ /\ open = {}
     /\ BeginClose(NoTurn, "done", <<>>)
     /\ UNCHANGED agentVars
  \/ \E t \in open :
       /\ BeginClose(t, CancelAnswer(t), CancelSays(t))
       /\ CancelTakesEffect(t)
       /\ UNCHANGED <<agent, loaded, waiting, used, thread, mine, known, native, client>>

---------------------------------------------------------------------------
(* The specification *)

Lifecycle == {"release", "materialize", "delete"}
Queued(kind) == \E i \in DOMAIN queue : queue[i].kind = kind

\* The mutations a client can send.  The Host names the Turn it accepts.
ClientMutates ==
  /\ \/ /\ \E t \in Turns : turns[t] = "none" /\ ~Queued("submit")
        /\ Mutate(Job("submit", CHOOSE t \in Turns : turns[t] = "none", ""))
        /\ UNCHANGED spent
     \/ /\ \E t \in Turns : turns[t] # "none" /\ Mutate(Job("cancel", t, ""))
        /\ Spend("cancel")
     \/ /\ \E t \in Turns, r \in Requests :
             /\ r \in pending[t] /\ ~Queued("respond")
             /\ Mutate(Job("respond", t, r))
        /\ UNCHANGED spent
     \/ /\ \E kind \in Lifecycle : Mutate(Job(kind, NoTurn, ""))
        /\ Spend("lifecycle")
  /\ UNCHANGED agentVars

HostCalls ==
  \/ Send /\ UNCHANGED <<agent, loaded, cancelled, reported, waiting, codexVars>>
  \/ Cancel
  \/ Respond /\ UNCHANGED <<agent, loaded, run, cancelled, reported, waiting, used, thread, mine,
                            byThread, known, completion, native, interrupt, client>>
  \/ (Release \/ Materialize) /\ UNCHANGED <<agent, run, cancelled, reported, waiting, codexVars>>
  \/ Delete /\ UNCHANGED <<agent, run, cancelled, waiting, codexVars>>

\* The commit of a job whose Agent has not been called.
JobCommitFails ==
  /\ queue # <<>> /\ Head(queue).kind \notin {"respond"} \cup Lifecycle
  /\ CommitFails

HostStep ==
  \/ HostCalls
  \/ (Begin \/ Refuse \/ JobCommitFails \/ ApplyAgentAction) /\ UNCHANGED agentVars

AgentStep ==
  \E t \in Turns : Resolve(t) \/ ThreadReady(t) \/ Started(t)

AppServerStep ==
  \E t \in Turns :
    \/ NativeBegins(t)
    \/ InterruptAnswered(t)
    \/ \E outcome \in Terminal : NativeEnds(t, outcome) \/ CometEnds(t, outcome)

Faults ==
  \/ ClientExits \/ ProtocolFails
  \/ \E t \in Turns : InterruptRefused(t) \/ \E r \in Requests : NativeRequests(t, r)

GateStep ==
  \/ CloseHost
  \/ (AcquireForPackage \/ Drained \/ PackageSettles) /\ UNCHANGED agentVars

Init ==
  /\ HostInit
  /\ agent \in Agents /\ loaded = "loaded"
  /\ run = [t \in Turns |-> "none"]
  /\ cancelled = {} /\ reported = {} /\ waiting = {}
  /\ asked = [t \in Turns |-> {}] /\ used = [t \in Turns |-> {}]
  /\ thread = NoTurn /\ mine = [t \in Turns |-> NoTurn]
  /\ byThread = [t \in Turns |-> NoTurn] /\ known = [t \in Turns |-> NoTurn]
  /\ completion = [t \in Turns |-> "open"]
  /\ native = [t \in Turns |-> "none"] /\ interrupt = [t \in Turns |-> "none"]
  /\ client = "none"

Next == ClientMutates \/ HostStep \/ AgentStep \/ AppServerStep \/ Faults \/ GateStep

Spec == Init /\ [][Next]_vars

\* The queue runs its jobs, promises that are settled are continued, the
\* app-server answers requests and ends the Turns it was told to interrupt, one
\* that was killed exits, and Comet ends a Turn whose token is cancelled.
Fairness ==
  /\ WF_vars(HostStep)
  /\ WF_vars(client = "failed" /\ ClientExits)
  /\ \A t \in Turns :
       /\ WF_vars(Resolve(t) \/ ThreadReady(t) \/ Started(t))
       /\ WF_vars(NativeBegins(t) \/ InterruptAnswered(t) \/ NativeEnds(t, "cancelled"))
       /\ WF_vars(t \in cancelled /\ \E outcome \in Terminal : CometEnds(t, outcome))

FairSpec == Spec /\ Fairness

---------------------------------------------------------------------------
(* Properties *)

TypeOK ==
  /\ chat \in {"available", "released", "deleted"}
  /\ turns \in [Turns -> {"none", "gone"} \cup Open \cup Terminal]
  /\ activeTurn \in Turns \cup {NoTurn}
  /\ pending \in [Turns -> SUBSET Requests] /\ closed \in [Turns -> SUBSET Requests]
  /\ anchors \subseteq Turns /\ bindings \subseteq Turns
  /\ run \in [Turns -> {"none", "credential", "thread", "starting", "native", "interrupting",
                        "loop", "over", "failed"}]
  /\ loaded \in {"loaded", "released", "gone"}
  /\ {cancelled, reported, waiting} \subseteq SUBSET Turns
  /\ asked \in [Turns -> SUBSET Requests] /\ used \in [Turns -> SUBSET Requests]
  /\ {thread} \cup {byThread[t] : t \in Turns} \subseteq Turns \cup {NoTurn}
  /\ started \in BOOLEAN /\ gate.by \in {"none", "package", "shutdown"}

\* What a Turn holds follows its state at the Host: an open Turn has its content,
\* a Turn that is over has neither content nor the authority to call tools or
\* to resolve credentials.  (The content of a Chat that is deleted is not given
\* back.)
HeldWhileOpen ==
  \A t \in Turns :
    /\ turns[t] \in Open => t \in anchors
    /\ t \in anchors => turns[t] \in Open \cup {"gone"}
    /\ t \in bindings => turns[t] \in Open

\* The native Turn that Codex knows this Turn by has asked for an interaction.
HasAsked(t) == known[t] # NoTurn /\ used[known[t]] # {}

\* Codex awaits the completion of the native Turn, and it has forgotten that the
\* Turn is the one of its thread: the end of another send made it (Finally).
Unheard(t) == run[t] = "native" /\ byThread[mine[t]] # t

\* The Agent runs the Turn, and what it awaits is yet to come.
Pursued(t) ==
  /\ Active(t) /\ t \notin reported
  /\ AtServer(t) => client # "none"
  /\ run[t] = "native" => native[t] # "ended" /\ ~Unheard(t)

\* A Turn that is open at the Host is one whose Agent pursues it or whose end is
\* on its way.  It is lost when it is unheard, when a commit of the Host failed,
\* when it was cancelled and is Comet's, and when its native Turn has asked for an
\* interaction and it was cancelled or its send failed: Codex then reports an end
\* that the Host refuses, because the interaction is still open there.
OpenTurnIsOwed ==
  \A t \in Turns :
    turns[t] \in Open =>
      \/ Pursued(t) \/ Unheard(t)
      \/ \E i \in DOMAIN queue : queue[i].kind = "terminal" /\ queue[i].turn = t
      \/ Comet /\ t \in cancelled
      \/ HasAsked(t) /\ (t \in cancelled \/ run[t] = "failed")
      \/ spent["failure"] > 0

\* Does not hold (README).  AGENT_HOST.md: the native terminal event is
\* authoritative; so a Turn is reported when the native Turn ends whose completion
\* its send awaits.
NativeEndIsAuthoritative ==
  [][\A t \in Turns : run[t] = "native" /\ native[t] # "ended" /\ native'[t] = "ended" => t \in reported']_vars

\* Nobody will ask for the end of such a Turn, and it goes on: the app-server has
\* exited while the Turn awaited its credential, its Chat is deleted, or its Chat
\* is released and the Host has failed it because the Agent refused to cancel it.
Orphaned(t) == completion[t] = "rejected" \/ turns[t] = "gone" \/ (turns[t] = "failed" /\ t \notin reported)

\* When the gate has drained, a Turn that still runs at the Agent is Codex's, and
\* one that was asked to end, or has, unless it is orphaned.
DrainedAgentIsIdle ==
  gate.at \in {"drained", "closed"} =>
    \A t \in Turns :
      Active(t) => Codex /\ (t \in cancelled \/ completion[t] = "resolved" \/ Orphaned(t))

\* Does not hold (README).  close quiesces the Host before it releases anything:
\* once its gate has drained, a Turn that is over at the Host starts no native Turn.
NothingStartsOnceDrained ==
  [][\A t \in Turns : gate.at = "closed" /\ turns[t] \in Terminal /\ run[t] # "starting"
       => run'[t] # "starting"]_vars

\* A cancelled Turn is reported by its Agent, whatever it was waiting for,
\* unless the app-server refused to interrupt it: from every state the Agent
\* gets to one in which it owes no such report.
CancellationIsReported ==
  []<>(\A t \in cancelled : t \in reported \/ interrupt[t] = "refused" \/ loaded = "gone")

\* Does not hold (README).  What AGENT_HOST.md says of an accepted cancellation:
\* the Turn becomes cancelled or failed at the Host.
CancellationEnds == \A t \in Turns : (turns[t] = "cancelling") ~> (turns[t] # "cancelling")

=============================================================================
