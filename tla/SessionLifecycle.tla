-------------------------- MODULE SessionLifecycle --------------------------
(***************************************************************************)
(* One Session, its Chats and what their Agent has of them.                *)
(*                                                                         *)
(* A mutation of the Host that creates, releases, materializes or deletes  *)
(* is a sequence of calls of the Agent, one commit of the Host's record    *)
(* and, when a call or the commit fails, a sequence of calls that takes    *)
(* back what was done (agentHostAuthority.ts).  Mutations run one after    *)
(* the other on the catalog queue.  All calls of a mutation, those that    *)
(* take back too, have the identity of the mutation: CometAgent tells them *)
(* apart by what they ask for, CodexAgent answers each after the first     *)
(* with what it answered to the first.                                     *)
(*                                                                         *)
(* The Host's record survives a restart, the Agent, which runs inside the  *)
(* Host, forgets everything.  The records of Codex, a built-in Agent that  *)
(* is cold until it is prepared, become unavailable.  Those of Comet, a    *)
(* bundled package, stay, and before there is a Host again the available   *)
(* ones are materialized, by calls that are taken back when one fails: the *)
(* Host has then failed to start.                                          *)
(***************************************************************************)
EXTENDS Naturals, Sequences, SequencesExt, FiniteSets

CONSTANTS
  Chats,
  Agents,        \* the Agents the Session may belong to, among "codex" and "comet"
  MaxFailures,   \* bound: calls and commits that fail
  MaxRestarts    \* bound: restarts of the Host

ASSUME BoundsAssumption == MaxFailures \in Nat /\ MaxRestarts \in Nat
ASSUME AgentsAssumption == Agents \subseteq {"codex", "comet"}
ASSUME ChatsAssumption == IsFiniteSet(Chats)

Whole == "session"
Subjects == Chats \cup {Whole}
ASSUME WholeAssumption == Whole \notin Chats

VARIABLES
  agent,      \* the Agent of the Session
  prepared,   \* does the Host run and is the Agent active in it?
  record,     \* the lifecycle of the Session and of each Chat at the Host
  loaded,     \* the Session and each Chat at the Agent: "absent" | "released" | "loaded"
  job,        \* the mutation that runs
  memo,       \* Codex: what the first call of this mutation was about, or Nothing
  doubt,      \* what a mutation could not take back, or Codex answered without doing it
  failures, restarts

vars == <<agent, prepared, record, loaded, job, memo, doubt, failures, restarts>>

Nothing == "nothing"
ASSUME NothingAssumption == Nothing \notin Subjects

Idle == [kind |-> "none", chats |-> <<>>, calls |-> <<>>, undo |-> <<>>, failed |-> FALSE]
Call(do, on) == [do |-> do, on |-> on]
Each(do, on) == [i \in DOMAIN on |-> Call(do, on[i])]
Existing == {x \in Subjects : record[x] \notin {"none", "gone"}}
ExistingChats == SetToSeq(Existing \ {Whole})    \* the order of session.chats is not observable
Creations == {"createSession", "createChat"}
Releases == {"releaseSession", "releaseChat"}
Deletions == {"deleteSession", "deleteChat"}
Materializations == {"materializeSession", "materializeChat"}

Fails == failures < MaxFailures /\ failures' = failures + 1

---------------------------------------------------------------------------
(* The Agent *)

\* Comet refuses what does not fit what it has; Codex materializes what it has
\* already and deletes what it has not.
Accepts(call) ==
  LET has == loaded[call.on]
      open == loaded[Whole] = "loaded"
      whole == call.on = Whole
  IN CASE call.do = "create" -> has = "absent" /\ (whole \/ open)
       [] call.do = "materialize" -> (agent = "codex" \/ has # "loaded") /\ (whole \/ open)
       [] call.do = "release" -> IF agent = "codex" THEN has # "absent" ELSE has = "loaded" /\ open
       [] call.do = "delete" -> agent = "codex" \/ has # "absent"

\* A Session is released and deleted with its Chats.
Effect(call) ==
  [x \in Subjects |->
     IF x # call.on /\ call.on # Whole THEN loaded[x]
     ELSE CASE call.do \in {"create", "materialize"} -> IF x = call.on THEN "loaded" ELSE loaded[x]
            [] call.do = "release" -> IF loaded[x] = "absent" THEN "absent" ELSE "released"
            [] call.do = "delete" -> "absent"]

\* An identity that Codex has answered: the call has no effect, and its answer
\* is that of the first call.
Repeated == agent = "codex" /\ memo # Nothing

Answers(call) ==
  IF Repeated THEN doubt' = doubt \cup {call.on} /\ UNCHANGED <<loaded, memo>>
  ELSE Accepts(call) /\ loaded' = Effect(call) /\ memo' = call.on /\ UNCHANGED doubt

---------------------------------------------------------------------------
(* A mutation *)

Begin(kind, chats, calls) ==
  /\ job = Idle
  /\ job' = [Idle EXCEPT !.kind = kind, !.chats = chats, !.calls = calls]
  /\ memo' = Nothing
  /\ UNCHANGED <<agent, prepared, record, loaded, doubt, failures, restarts>>

Start(kind, chats, calls) == prepared /\ Begin(kind, chats, calls)

CreateSession(chats) ==
  /\ record[Whole] = "none" /\ \A c \in Chats : record[c] = "none"
  /\ Start("createSession", chats, <<Call("create", Whole)>> \o Each("create", chats))

\* createChat and forkChat
CreateChat(c) ==
  /\ record[Whole] = "available" /\ record[c] = "none"
  /\ Start("createChat", <<c>>, <<Call("create", c)>>)

MaterializeSession ==
  /\ record[Whole] = "released"
  /\ Start("materializeSession", ExistingChats,
           <<Call("materialize", Whole)>> \o Each("materialize", ExistingChats))

\* A Chat of a released Session takes the Session with it, and no other Chat.
MaterializeChat(c) ==
  /\ record[c] = "released"
  /\ Start("materializeChat", <<c>>,
           (IF record[Whole] = "available" THEN <<>> ELSE <<Call("materialize", Whole)>>)
           \o <<Call("materialize", c)>>)

\* Every Chat has to be available, too.
ReleaseSession ==
  /\ \A x \in Existing : record[x] = "available"
  /\ record[Whole] = "available"
  /\ Start("releaseSession", ExistingChats, <<Call("release", Whole)>>)

ReleaseChat(c) ==
  /\ record[c] = "available"
  /\ Start("releaseChat", <<c>>, <<Call("release", c)>>)

DeleteSession ==
  /\ Whole \in Existing
  /\ Start("deleteSession", ExistingChats, Each("delete", ExistingChats) \o <<Call("delete", Whole)>>)

DeleteChat(c) ==
  /\ c \in Existing
  /\ Start("deleteChat", <<c>>, <<Call("delete", c)>>)

\* Wrong variant: of a Session that is created only the Chats are taken back.
TakesBackChats(call) ==
  IF call.do = "create" /\ call.on = Whole THEN <<>>
  ELSE IF call.do = "create" THEN <<Call("delete", call.on)>>
  ELSE IF call.do = "materialize" THEN <<Call("release", call.on)>>
  ELSE <<>>

\* What takes back a call that was answered.  A release is made undone by
\* materializing again what was loaded; a deletion is not undone.
TakesBack(call) ==
  CASE call.do = "create" -> <<Call("delete", call.on)>>
    [] call.do = "materialize" -> <<Call("release", call.on)>>
    [] call.do = "release" -> <<Call("materialize", call.on)>>
                              \o (IF call.on = Whole THEN Each("materialize", job.chats) ELSE <<>>)
    [] OTHER -> <<>>

\* The Host compares the identity of a backing that is created.
Mistaken(call) == call.do = "create" /\ Repeated /\ memo # call.on

CallAnswered ==
  /\ job.calls # <<>>
  /\ LET call == Head(job.calls) IN
       /\ Answers(call)
       /\ job' = [job EXCEPT !.calls = IF Mistaken(call) THEN <<>> ELSE Tail(@),
                             !.undo = TakesBack(call) \o @,
                             !.failed = Mistaken(call)]
  /\ UNCHANGED <<agent, prepared, record, failures, restarts>>

\* What a deletion has deleted stays deleted when it does not come to its end.
Deleted(j) == IF j.kind \in Deletions THEN {x \in Subjects : loaded[x] = "absent"} \cap Existing ELSE {}

\* The Agent refuses a call, or fails it without effect.
CallFails ==
  /\ job.calls # <<>> /\ ~Repeated
  /\ IF Accepts(Head(job.calls)) THEN Fails ELSE UNCHANGED failures
  /\ job' = [job EXCEPT !.calls = <<>>, !.failed = TRUE]
  /\ doubt' = doubt \cup Deleted(job)
  /\ UNCHANGED <<agent, prepared, record, loaded, memo, restarts>>

Committing == job # Idle /\ job.calls = <<>> /\ ~job.failed

\* Wrong variant: a Chat that is materialized brings the other Chats with it.
OutcomeForAll(x) ==
  CASE job.kind \in Creations -> IF x \in ToSet(job.chats) \cup {Whole} THEN "available" ELSE record[x]
    [] job.kind \in Materializations -> IF x \in Existing THEN "available" ELSE record[x]
    [] job.kind \in Releases -> IF x \in ToSet(job.chats) \/ job.kind = "releaseSession" THEN "released" ELSE record[x]
    [] job.kind \in Deletions -> IF x \in ToSet(job.chats) \/ job.kind = "deleteSession" THEN "gone" ELSE record[x]
    [] OTHER -> record[x]

\* What the mutation makes of the record of each subject.  The restoration
\* changes none.
Outcome(x) ==
  LET chat == x \in ToSet(job.chats) IN
  CASE job.kind \in Creations \cup Materializations ->
         IF chat \/ x = Whole THEN "available" ELSE record[x]
    [] job.kind \in Releases -> IF chat \/ (x = Whole /\ job.kind = "releaseSession") THEN "released" ELSE record[x]
    [] job.kind \in Deletions -> IF chat \/ (x = Whole /\ job.kind = "deleteSession") THEN "gone" ELSE record[x]
    [] OTHER -> record[x]

\* After its restoration the Host runs.
Commit ==
  /\ Committing
  /\ record' = [x \in Subjects |-> Outcome(x)]
  /\ job' = Idle /\ prepared' = TRUE
  /\ UNCHANGED <<agent, loaded, memo, doubt, failures, restarts>>

\* The restoration commits nothing.
CommitFails ==
  /\ Committing /\ job.kind # "restore" /\ Fails
  /\ job' = [job EXCEPT !.failed = TRUE]
  /\ doubt' = doubt \cup Deleted(job)
  /\ UNCHANGED <<agent, prepared, record, loaded, memo, restarts>>

UndoAnswered ==
  /\ job.failed /\ job.undo # <<>>
  /\ Answers(Head(job.undo))
  /\ job' = [job EXCEPT !.undo = Tail(@)]
  /\ UNCHANGED <<agent, prepared, record, failures, restarts>>

\* The other calls that take back are made nevertheless, except for those that
\* materialize a released Session again.
UndoFails ==
  /\ job.failed /\ job.undo # <<>> /\ ~Repeated
  /\ IF Accepts(Head(job.undo)) THEN Fails ELSE UNCHANGED failures
  /\ IF job.kind \in Releases
       THEN /\ job' = [job EXCEPT !.undo = <<>>]
            /\ doubt' = doubt \cup {job.undo[i].on : i \in DOMAIN job.undo}
       ELSE /\ job' = [job EXCEPT !.undo = Tail(@)]
            /\ doubt' = doubt \cup {Head(job.undo).on}
  /\ UNCHANGED <<agent, prepared, record, loaded, memo, restarts>>

\* After a restoration that failed there is no Host, until it is started again.
Throw ==
  /\ job.failed /\ job.undo = <<>> /\ job.kind # "restore"
  /\ job' = Idle
  /\ UNCHANGED <<agent, prepared, record, loaded, memo, doubt, failures, restarts>>

---------------------------------------------------------------------------
(* A restart of the Host *)

Restart ==
  /\ restarts < MaxRestarts /\ restarts' = restarts + 1
  /\ prepared' = FALSE
  /\ record' = [x \in Subjects |-> IF agent = "codex" /\ x \in Existing THEN "unavailable" ELSE record[x]]
  /\ loaded' = [x \in Subjects |-> "absent"]
  /\ job' = Idle /\ memo' = Nothing /\ doubt' = {}
  /\ UNCHANGED <<agent, failures>>

\* Materializes what Comet has available, the Session before its Chats.
Restore ==
  /\ agent = "comet" /\ ~prepared /\ job = Idle
  /\ IF record[Whole] = "available"
       THEN LET chats == SetToSeq({c \in Chats : record[c] = "available"})
            IN Begin("restore", chats, <<Call("materialize", Whole)>> \o Each("materialize", chats))
       ELSE prepared' = TRUE /\ UNCHANGED <<agent, record, loaded, job, memo, doubt, failures, restarts>>

\* The records of a cold built-in Agent become released ones when it is active.
Prepare ==
  /\ agent = "codex" /\ ~prepared /\ prepared' = TRUE
  /\ record' = [x \in Subjects |-> IF x \in Existing THEN "released" ELSE record[x]]
  /\ UNCHANGED <<agent, loaded, job, memo, doubt, failures, restarts>>

---------------------------------------------------------------------------
(* The specification *)

Mutate ==
  \/ \E chats \in {<<>>} \cup {<<c>> : c \in Chats} \cup {SetToSeq(Chats)} : CreateSession(chats)
  \/ MaterializeSession \/ ReleaseSession \/ DeleteSession
  \/ \E c \in Chats : CreateChat(c) \/ MaterializeChat(c) \/ ReleaseChat(c) \/ DeleteChat(c)

Step == CallAnswered \/ CallFails \/ Commit \/ CommitFails \/ UndoAnswered \/ UndoFails \/ Throw

Init ==
  /\ agent \in Agents /\ prepared = FALSE
  /\ record = [x \in Subjects |-> "none"]
  /\ loaded = [x \in Subjects |-> "absent"]
  /\ job = Idle /\ memo = Nothing /\ doubt = {}
  /\ failures = 0 /\ restarts = 0

Next == Mutate \/ Step \/ Restart \/ Restore \/ Prepare

Spec == Init /\ [][Next]_vars

---------------------------------------------------------------------------
(* Properties *)

TypeOK ==
  /\ prepared \in BOOLEAN
  /\ record \in [Subjects -> {"none", "unavailable", "released", "available", "gone"}]
  /\ loaded \in [Subjects -> {"absent", "released", "loaded"}]
  /\ memo \in Subjects \cup {Nothing}
  /\ doubt \subseteq Subjects
  /\ failures \in 0 .. MaxFailures /\ restarts \in 0 .. MaxRestarts
  /\ job.failed \in BOOLEAN /\ (job.failed => job.calls = <<>>)
  /\ job = Idle \/ prepared \/ job.kind = "restore"

\* No mutation runs, or one has failed and all is taken back that can be.
Settled == job = Idle \/ (job.failed /\ job.undo = <<>>)

\* Between mutations, and after a restoration of the Host's start that failed,
\* the Agent has loaded exactly what a Host that runs takes for available,
\* whatever failed and was taken back, except for what could not be taken back
\* and for what Codex answered without doing it.
BeliefMatchesAgent ==
  Settled => \A x \in Subjects \ doubt : (prepared /\ record[x] = "available") = (loaded[x] = "loaded")

\* What the Host does not have, because its creation failed or because it was
\* deleted, the Agent has not either, with the same exceptions.
NothingLeaks ==
  Settled => \A x \in Subjects \ doubt : record[x] \in {"none", "gone"} => loaded[x] = "absent"

\* Does not hold (README).  AGENT_HOST.md of restoration: an unavailable backing leaves an explicit
\* unavailable Session state.  The Host throws and does not start.
LostBackingIsUnavailable ==
  job.kind = "restore" /\ Settled => record[Whole] = "unavailable"

\* Does not hold (README).  AGENT_HOST.md of Session creation: terminal failure deletes provisional
\* backing.
FailedCreationLeavesNothing ==
  job = Idle /\ failures = 0 /\ record[Whole] = "none" => loaded[Whole] = "absent"

\* Does not hold (README).  AGENT_HOST.md of deletion: a failed deletion leaves the identity and the
\* operation for retry.  A retry can only end when the Agent accepts to delete.
DeletionCanBeRetried ==
  job = Idle /\ prepared =>
    \A x \in Existing : record[x] = "available" => Accepts(Call("delete", x))
=============================================================================
